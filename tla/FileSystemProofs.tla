-------------------------- MODULE FileSystemProofs --------------------------
(***************************************************************************)
(* Proofs about descriptors, open files and the contents of files, for     *)
(* every number of tasks, descriptors, entries and nodes, every size of    *)
(* the arena and every archive.                                            *)
(***************************************************************************)
EXTENDS FileSystem, WellFoundedInduction, TLAPS

-----------------------------------------------------------------------------
(* Arithmetic and sequences.                                               *)

\* Rounding up loses nothing and adds less than a unit.
LEMMA RoundUpBound ==
    ASSUME NEW n \in Nat, NEW unit \in Nat \ {0}
    PROVE  /\ RoundUp(n, unit) \in Nat
           /\ n <= RoundUp(n, unit) /\ RoundUp(n, unit) < n + unit
<1> DEFINE q == (n + unit - 1) \div unit
           r == (n + unit - 1) % unit
<1>1. q \in Nat /\ r \in 0..(unit - 1)
    BY SMT
<1>2. n + unit - 1 = unit * q + r
    BY SMT
<1>3. q * unit = unit * q /\ q * unit \in Nat
    BY <1>1, SMT
<1> QED
    BY <1>1, <1>2, <1>3 DEF RoundUp

\* A function on 1..n is a sequence of length n.
LEMMA FunctionIsSeq ==
    ASSUME NEW S, NEW n \in Nat, NEW f \in [1..n -> S]
    PROVE  f \in Seq(S) /\ Len(f) = n
OBVIOUS

\* A remainder is what it is a remainder of, where that is small; and where it is
\* negative and not below the modulus, it is that plus the modulus.
LEMMA SmallMod ==
    ASSUME NEW m \in Nat \ {0}, NEW x \in Int
    PROVE  /\ x \in 0..(m - 1) => x % m = x
           /\ x \in (-m)..(-1) => x % m = x + m
OBVIOUS

-----------------------------------------------------------------------------
(* Types.                                                                  *)

NodeType == [type : {"NONE", "FILE", "DIR", "CHARDEV"}, data : Int,
             size : 0..(SizeMod - 1), capacity : 0..ArenaSize]
FileType == [used : BOOLEAN, refs : Int, node : Nodes, offset : 0..(SizeMod - 1)]
Entries == [name : {"dot", "trailer", "new", "known"}, chars : Nat, extra : Nat,
            dir : BOOLEAN, data : Seq(Nat)]

ProbeType == [proc : Procs, fd : Fds, before : [Procs -> [Fds -> Files \cup {None}]]]

\* What the mount works on: entries that are short enough, whatever is left of
\* them.
MountOK ==
    /\ mount \in [cursor : Int, limit : Int, archive : Seq(Entries)]
    /\ \A i \in DOMAIN mount.archive : Len(mount.archive[i].data) + CapUnit <= WordMod

\* TypeOK but for what is in the arena: that a move copies bytes of the arena
\* follows only from where the files lie.
Typed ==
    /\ nodes \in [Nodes -> NodeType]
    /\ arena = [a \in 0..(ArenaSize - 1) |-> arena[a]] /\ data_offset \in 0..ArenaSize
    /\ files \in [Files -> FileType]
    /\ fds \in [Procs -> [Fds -> Files \cup {None}]]
    /\ heap \in 0..HeapSize
    /\ void \in BOOLEAN
    /\ content \in [Nodes -> Seq(Nat)]
    /\ MountOK
    /\ probe # NoProbe => probe \in ProbeType

\* Bounds that follow from the assumptions.
LEMMA Bounds ==
    /\ SizeMod \in Nat \ {0} /\ WordMod \in Nat \ {0} /\ WordMod <= SizeMod
    /\ 0 \in Nodes /\ 1 \in Nodes /\ NoNode \in NodeType
    /\ Far \subseteq 0..(SizeMod - 1) /\ 0..MaxOffset \subseteq 0..(SizeMod - 1)
    /\ MaxSize \in Nat /\ MaxSize + CapUnit < WordMod
    /\ \A n \in Nodes : alloc_open_file(n) \in FileType
    /\ NoFile \in FileType
BY FsAssumption DEF Nodes, NoNode, NodeType, NULL, MaxSize, alloc_open_file, NoFile, FileType

\* The archive that is made of a tree has the entries of the tree, and two more.
LEMMA EmitTree ==
    ASSUME NEW tree \in Trees
    PROVE  /\ emit_tree(tree) \in Seq(Entries)
           /\ \A i \in DOMAIN emit_tree(tree) :
                 Len(emit_tree(tree)[i].data) + CapUnit <= WordMod
<1>1. tree \in Seq(Entries)
    <2> DEFINE Packed == [name : {"new", "known"}, chars : Nat, extra : Nat,
                          dir : BOOLEAN, data : Seq(Nat)]
    <2>1. tree \in Seq(Packed)
        BY TreesAssumption
    <2>2. \A e \in Packed : e \in Entries
        BY DEF Entries
    <2> HIDE DEF Packed
    <2>3. Len(tree) \in Nat /\ tree \in [1..Len(tree) -> Packed]
        BY <2>1
    <2>4. tree \in [1..Len(tree) -> Entries]
        BY <2>2, <2>3
    <2> QED
        BY <2>3, <2>4, FunctionIsSeq
<1>2. Dot \in Entries /\ Trailer \in Entries
    BY DEF Dot, Trailer, Entries
<1>3. <<Dot>> \in Seq(Entries) /\ <<Trailer>> \in Seq(Entries)
    BY <1>2
<1>4. emit_tree(tree) \in Seq(Entries)
    BY <1>1, <1>3 DEF emit_tree
<1>5. Len(Dot.data) = 0 /\ Len(Trailer.data) = 0 /\ CapUnit <= WordMod
    BY FsAssumption DEF Dot, Trailer
<1>6. ASSUME NEW i \in DOMAIN emit_tree(tree)
      PROVE  Len(emit_tree(tree)[i].data) + CapUnit <= WordMod
    <2>1. i \in 1..(Len(tree) + 2)
        BY <1>1, <1>3 DEF emit_tree
    <2>2. CASE i = 1
        BY <1>1, <1>3, <1>5, <2>2, FsAssumption DEF emit_tree
    <2>3. CASE i = Len(tree) + 2
        BY <1>1, <1>3, <1>5, <2>3, FsAssumption DEF emit_tree
    <2>4. CASE i \in 2..(Len(tree) + 1)
        <3>1. emit_tree(tree)[i] = tree[i - 1] /\ i - 1 \in DOMAIN tree
            BY <1>1, <1>3, <2>4 DEF emit_tree
        <3> QED
            BY <3>1, TreesAssumption, SMTT(60)
    <2> QED
        BY <1>1, <2>1, <2>2, <2>3, <2>4
<1> QED
    BY <1>4, <1>6

\* The state at boot is well typed.
LEMMA InitTyped == Init => Typed
<1> SUFFICES ASSUME Init PROVE Typed
    OBVIOUS
<1>1. nodes \in [Nodes -> NodeType]
    BY Bounds, SMTT(60) DEF Init, NodeType, NoNode
<1>2. /\ arena = [a \in 0..(ArenaSize - 1) |-> arena[a]]
      /\ data_offset \in 0..ArenaSize /\ heap \in 0..HeapSize
    BY FsAssumption DEF Init
<1>3. files \in [Files -> FileType] /\ fds \in [Procs -> [Fds -> Files \cup {None}]]
    BY Bounds DEF Init
<1>4. void \in BOOLEAN /\ content \in [Nodes -> Seq(Nat)]
    <2>1. void = FALSE /\ content = [n \in Nodes |-> <<>>] /\ <<>> \in Seq(Nat)
        BY DEF Init
    <2> QED
        BY <2>1, Zenon
<1>5. MountOK
    <2>1. PICK tree \in Trees, limit \in Int :
             mount = [cursor |-> 0, limit |-> limit, archive |-> emit_tree(tree)]
        BY DEF Init
    <2> QED
        BY <2>1, EmitTree DEF MountOK
<1> QED
    BY <1>1, <1>2, <1>3, <1>4, <1>5 DEF Typed, Init

\* Opening takes an entry and a descriptor, or changes nothing.
LEMMA OpensTyped ==
    ASSUME Typed, NEW p \in Procs, NEW n \in Nodes, Opens(p, n)
    PROVE  files' \in [Files -> FileType] /\ fds' \in [Procs -> [Fds -> Files \cup {None}]]
<1>1. ASSUME NEW f \in Files, NEW d \in Fds, Attach(p, n, f, d)
      PROVE  files' \in [Files -> FileType] /\ fds' \in [Procs -> [Fds -> Files \cup {None}]]
    <2>1. alloc_open_file(n) \in FileType
        BY Bounds
    <2> QED
        BY <1>1, <2>1 DEF Attach, Typed, FileType
<1>2. CASE UNCHANGED <<files, fds>>
    BY <1>2 DEF Typed, FileType
<1> QED
    BY <1>1, <1>2 DEF Opens, AttachFails

\* So does closing.
LEMMA CloseTyped ==
    ASSUME Typed, NEW p \in Procs, NEW d \in Fds, Close(p, d)
    PROVE  files' \in [Files -> FileType] /\ fds' \in [Procs -> [Fds -> Files \cup {None}]]
<1>1. fds[p][d] \in Files /\ fds[p][d] # None
    BY DEF Close, Typed
<1>2. NoFile \in FileType
    BY Bounds
<1>3. ASSUME NEW r \in Int PROVE [files[fds[p][d]] EXCEPT !.refs = r] \in FileType
    BY <1>1, Zenon DEF Typed, FileType
<1>4. files[fds[p][d]].refs - 1 \in Int
    BY <1>1 DEF Typed, FileType
<1>5. files' \in [Files -> FileType]
    BY <1>1, <1>2, <1>3, <1>4, SMTT(60) DEF Close, Typed, FileType
<1>6. fds' \in [Procs -> [Fds -> Files \cup {None}]]
    BY DEF Close, Typed
<1> QED
    BY <1>5, <1>6

\* A write of bytes leaves nodes, arena and offset well typed.
LEMMA WriteTyped ==
    ASSUME Typed, NEW n \in Nodes, NEW o \in 0..(SizeMod - 1), NEW buf \in Seq(Nat),
           WriteInPlace(n, o, buf) \/ WriteMoving(n, o, buf)
    PROVE  /\ nodes' \in [Nodes -> NodeType]
           /\ arena' = [a \in 0..(ArenaSize - 1) |-> arena'[a]]
           /\ data_offset' \in 0..ArenaSize
<1>1. End(o, buf) \in 0..(SizeMod - 1)
    BY Bounds DEF End
<1>2. Grown(n, o, buf) \in 0..(SizeMod - 1)
    BY <1>1 DEF Grown, Typed, NodeType
<1>3. ASSUME NEW mem, mem = [a \in 0..(ArenaSize - 1) |-> mem[a]], NEW b
      PROVE  Put(mem, b, buf) = [a \in 0..(ArenaSize - 1) |-> Put(mem, b, buf)[a]]
    BY <1>3 DEF Put
<1>4. Moved(n) = [a \in 0..(ArenaSize - 1) |-> Moved(n)[a]]
    BY Zenon DEF Moved, Copied, Typed
<1>5. CASE WriteInPlace(n, o, buf)
    <2>1. nodes' \in [Nodes -> NodeType]
        BY <1>2, <1>5, ZenonT(60) DEF WriteInPlace, Typed, NodeType
    <2>2. arena' = [a \in 0..(ArenaSize - 1) |-> arena'[a]] /\ data_offset' = data_offset
        BY <1>3, <1>5, ZenonT(60) DEF WriteInPlace, Typed
    <2> QED
        BY <2>1, <2>2 DEF Typed
<1>6. CASE WriteMoving(n, o, buf)
    <2> DEFINE cap == RoundUp(End(o, buf), CapUnit) % WordMod
    <2>1. cap \in Nat
        <3>1. End(o, buf) \in Nat /\ CapUnit \in Nat \ {0}
            BY <1>1, FsAssumption
        <3>2. RoundUp(End(o, buf), CapUnit) \in Nat
            BY <3>1, RoundUpBound, Zenon
        <3> QED
            BY <3>2, Bounds
    <2>2. RoundUp(cap, Align) \in Nat /\ cap <= RoundUp(cap, Align)
        BY <2>1, RoundUpBound, FsAssumption, Zenon
    <2>3. /\ data_offset + RoundUp(cap, Align) <= ArenaSize
          /\ data_offset' = data_offset + RoundUp(cap, Align)
          /\ nodes' = [nodes EXCEPT ![n] = [type |-> "FILE", data |-> data_offset,
                                            size |-> Grown(n, o, buf), capacity |-> cap]]
          /\ arena' = Put(Moved(n), data_offset + o, buf)
        BY <1>6 DEF WriteMoving, StorageFits
    <2> HIDE DEF cap
    <2>4. data_offset \in 0..ArenaSize
        BY DEF Typed
    <2>5. data_offset' \in 0..ArenaSize /\ cap \in 0..ArenaSize
        BY <2>1, <2>2, <2>3, <2>4, FsAssumption, SMTT(60)
    <2>6. nodes' \in [Nodes -> NodeType]
        BY <1>2, <2>3, <2>4, <2>5 DEF Typed, NodeType
    <2> QED
        BY <1>3, <1>4, <2>3, <2>5, <2>6, Zenon
<1> QED
    BY <1>5, <1>6

\* The history after a write is a sequence of bytes; its length, and what is where.
LEMMA OverlaidIs ==
    ASSUME NEW s \in Seq(Nat), NEW o \in Nat, NEW buf \in Seq(Nat)
    PROVE  /\ Overlaid(s, o, buf) \in Seq(Nat)
           /\ Len(Overlaid(s, o, buf)) = (IF o + Len(buf) > Len(s) THEN o + Len(buf) ELSE Len(s))
           /\ \A k \in 1..Len(Overlaid(s, o, buf)) :
                 Overlaid(s, o, buf)[k] = (IF k - o \in 1..Len(buf) THEN buf[k - o]
                                           ELSE IF k <= Len(s) THEN s[k] ELSE 0)
<1> DEFINE len == IF o + Len(buf) > Len(s) THEN o + Len(buf) ELSE Len(s)
           at(k) == IF k - o \in 1..Len(buf) THEN buf[k - o] ELSE IF k <= Len(s) THEN s[k] ELSE 0
<1>1. len \in Nat
    OBVIOUS
<1>2. \A k \in 1..len : at(k) \in Nat
    OBVIOUS
<1>3. Overlaid(s, o, buf) = [k \in 1..len |-> at(k)]
    BY DEF Overlaid
<1> HIDE DEF len, at
<1>4. Overlaid(s, o, buf) \in [1..len -> Nat]
    BY <1>2, <1>3
<1>5. Overlaid(s, o, buf) \in Seq(Nat) /\ Len(Overlaid(s, o, buf)) = len
    BY <1>1, <1>4, FunctionIsSeq
<1>6. \A k \in 1..len : Overlaid(s, o, buf)[k] = at(k)
    BY <1>3
<1> QED
    BY <1>5, <1>6 DEF len, at

\* What tasks write is a sequence of bytes.
LEMMA BuffersAreBytes == \A buf \in Buffers : buf \in Seq(Nat)
<1> SUFFICES ASSUME NEW buf \in Buffers PROVE buf \in Seq(Nat)
    OBVIOUS
<1>1. PICK n \in 0..MaxCount : buf \in [1..n -> Bytes]
    BY DEF Buffers
<1>2. n \in Nat /\ Bytes \subseteq Nat
    BY FsAssumption
<1>3. buf \in [1..n -> Nat]
    BY <1>1, <1>2, Zenon
<1> QED
    BY <1>2, <1>3, FunctionIsSeq

\* The new node is the first free one, and nothing else about the nodes changes.
LEMMA CreatesTyped ==
    ASSUME Typed, NEW n \in Nodes, NEW t \in {"FILE", "DIR"}, Creates(n, t)
    PROVE  nodes' \in [Nodes -> NodeType] /\ content' \in [Nodes -> Seq(Nat)]
<1>1. <<>> \in Seq(Nat)
    OBVIOUS
<1>2. [NoNode EXCEPT !.type = t] \in NodeType
    BY Bounds DEF NoNode, NodeType
<1> QED
    BY <1>1, <1>2 DEF Creates, Typed

\* What is read from the archive is a sequence of bytes as long as was packed.
LEMMA ReadDataIs ==
    ASSUME NEW e \in Entries
    PROVE  /\ ReadData(e) \in Seq(Nat) /\ Len(ReadData(e)) = Len(e.data)
           /\ e.extra = 0 => ReadData(e) = e.data
<1>1. e.data \in Seq(Nat) /\ e.extra \in Nat /\ Len(e.data) \in Nat
    BY DEF Entries
<1>2. ReadData(e) \in [1..Len(e.data) -> Nat]
    BY <1>1, SMTT(60) DEF ReadData
<1>3. ReadData(e) \in Seq(Nat) /\ Len(ReadData(e)) = Len(e.data)
    BY <1>1, <1>2, FunctionIsSeq, Zenon
<1>4. e.extra = 0 => ReadData(e) = e.data
    BY <1>1, <1>3 DEF ReadData
<1> QED
    BY <1>3, <1>4

\* One entry of the archive.
LEMMA MountEntryTyped ==
    ASSUME Typed, NEW e \in Entries, MountEntry(e)
    PROVE  /\ nodes' \in [Nodes -> NodeType]
           /\ arena' = [a \in 0..(ArenaSize - 1) |-> arena'[a]]
           /\ data_offset' \in 0..ArenaSize
           /\ void' \in BOOLEAN /\ content' \in [Nodes -> Seq(Nat)]
<1>1. CASE UNCHANGED <<nodes, data_vars>>
    BY <1>1 DEF data_vars, Typed
<1>2. ASSUME NEW n \in Nodes, NEW t \in {"FILE", "DIR"}, Creates(n, t),
             UNCHANGED <<arena, data_offset, void>>
      PROVE  /\ nodes' \in [Nodes -> NodeType] /\ content' \in [Nodes -> Seq(Nat)]
             /\ arena' = [a \in 0..(ArenaSize - 1) |-> arena'[a]]
             /\ data_offset' \in 0..ArenaSize /\ void' \in BOOLEAN
    <2>1. nodes' \in [Nodes -> NodeType] /\ content' \in [Nodes -> Seq(Nat)]
        BY <1>2, CreatesTyped
    <2> QED
        BY <1>2, <2>1 DEF Typed
<1>3. ASSUME NEW n \in Nodes, WriteMoving(n, 0, ReadData(e)),
             content' = [content EXCEPT ![n] = IF e.extra = 0 THEN e.data ELSE <<>>],
             void' = (void \/ e.extra # 0)
      PROVE  /\ nodes' \in [Nodes -> NodeType] /\ content' \in [Nodes -> Seq(Nat)]
             /\ arena' = [a \in 0..(ArenaSize - 1) |-> arena'[a]]
             /\ data_offset' \in 0..ArenaSize /\ void' \in BOOLEAN
    <2>1. 0 \in 0..(SizeMod - 1) /\ ReadData(e) \in Seq(Nat)
        BY Bounds, ReadDataIs
    <2>2. /\ nodes' \in [Nodes -> NodeType]
          /\ arena' = [a \in 0..(ArenaSize - 1) |-> arena'[a]]
          /\ data_offset' \in 0..ArenaSize
        BY <1>3, <2>1, WriteTyped
    <2>3. e.data \in Seq(Nat) /\ <<>> \in Seq(Nat)
        BY DEF Entries
    <2> QED
        BY <1>3, <2>2, <2>3, Zenon DEF Typed
<1>4. ASSUME NEW n \in Nodes, MountFile(n, e)
      PROVE  \/ /\ WriteMoving(n, 0, ReadData(e))
                /\ content' = [content EXCEPT ![n] = IF e.extra = 0 THEN e.data ELSE <<>>]
                /\ void' = (void \/ e.extra # 0)
             \/ Creates(n, "FILE") /\ UNCHANGED <<arena, data_offset, void>>
    BY <1>4 DEF MountFile
<1>5. \/ UNCHANGED <<nodes, data_vars>>
      \/ \E n \in Nodes, t \in {"FILE", "DIR"} :
            Creates(n, t) /\ UNCHANGED <<arena, data_offset, void>>
      \/ \E n \in Nodes : MountFile(n, e)
    BY DEF MountEntry
<1> QED
    BY <1>1, <1>2, <1>3, <1>4, <1>5

\* Every step keeps the types.
LEMMA NextTyped == Typed /\ [Next]_vars => Typed'
<1> SUFFICES ASSUME Typed, [Next]_vars PROVE Typed'
    OBVIOUS
<1> DEFINE NodesSame == UNCHANGED <<nodes, arena, data_offset, content, void, mount>>
           FilesSame == UNCHANGED <<files, fds, heap, mount, probe>>
<1>1. ASSUME NodesSame, files' \in [Files -> FileType],
             fds' \in [Procs -> [Fds -> Files \cup {None}]], heap' \in 0..HeapSize,
             probe' # NoProbe => probe' \in ProbeType
      PROVE  Typed'
    BY <1>1 DEF Typed, MountOK
<1>2. ASSUME FilesSame, nodes' \in [Nodes -> NodeType],
             arena' = [a \in 0..(ArenaSize - 1) |-> arena'[a]],
             data_offset' \in 0..ArenaSize, void' \in BOOLEAN, content' \in [Nodes -> Seq(Nat)]
      PROVE  Typed'
    BY <1>2 DEF Typed, MountOK
<1>3. ASSUME NEW p \in Procs, OpenExisting(p) PROVE Typed'
    <2>1. PICK n \in Nodes : Opens(p, n)
        BY <1>3 DEF OpenExisting
    <2> QED
        BY <1>1, <1>3, <2>1, OpensTyped DEF OpenExisting, data_vars, Typed
<1>4. ASSUME NEW p \in Procs, OpenCreate(p) PROVE Typed'
    <2>1. PICK n \in Nodes : Creates(n, "FILE") /\ Opens(p, n)
        BY <1>4 DEF OpenCreate
    <2>2. files' \in [Files -> FileType] /\ fds' \in [Procs -> [Fds -> Files \cup {None}]]
        BY <2>1, OpensTyped
    <2>3. nodes' \in [Nodes -> NodeType] /\ content' \in [Nodes -> Seq(Nat)]
        BY <2>1, CreatesTyped, SMTT(60)
    <2> QED
        BY <1>4, <2>2, <2>3 DEF OpenCreate, Typed, MountOK
<1>5. ASSUME NEW p \in Procs, fs_close_fd(p) PROVE Typed'
    <2>1. PICK d \in Fds : Close(p, d)
        BY <1>5, SMTT(60) DEF fs_close_fd
    <2> QED
        BY <1>1, <1>5, <2>1, CloseTyped DEF fs_close_fd, data_vars, Typed
<1>6. ASSUME NEW p \in Procs, ExecveOpen(p) PROVE Typed'
    <2>1. PICK n \in Nodes, f \in Files, d \in Fds : Attach(p, n, f, d)
        BY <1>6 DEF ExecveOpen
    <2>2. Opens(p, n)
        BY <2>1 DEF Opens
    <2>3. probe' \in ProbeType
        BY <1>6 DEF ExecveOpen, ProbeType, Typed
    <2> QED
        BY <1>1, <1>6, <2>2, <2>3, OpensTyped DEF ExecveOpen, data_vars, Typed
<1>7. ASSUME NEW n \in Nodes, Remove(n) PROVE Typed'
    <2>1. nodes' \in [Nodes -> NodeType]
        BY <1>7, Bounds DEF Remove, Typed
    <2>2. <<>> \in Seq(Nat)
        OBVIOUS
    <2>3. content' \in [Nodes -> Seq(Nat)]
        BY <1>7, <2>2 DEF Remove, Typed
    <2> QED
        BY <1>2, <1>7, <2>1, <2>3 DEF Remove, Typed
<1>8. ASSUME NEW f \in Files, fs_write_fd(f) PROVE Typed'
    <2> DEFINE n == files[f].node
               o == files[f].offset
    <2>1. n \in Nodes /\ o \in 0..(SizeMod - 1) /\ o \in Nat
        BY DEF Typed, FileType
    <2>2. PICK buf \in Buffers : tmpfs_write_node(n, o, buf)
        BY <1>8 DEF fs_write_fd
    <2>3. buf \in Seq(Nat)
        BY BuffersAreBytes
    <2> HIDE DEF n, o
    <2>4. /\ nodes' \in [Nodes -> NodeType]
          /\ arena' = [a \in 0..(ArenaSize - 1) |-> arena'[a]]
          /\ data_offset' \in 0..ArenaSize
        BY <2>1, <2>2, <2>3, WriteTyped DEF tmpfs_write_node
    <2>5. content[n] \in Seq(Nat) /\ <<>> \in Seq(Nat)
        BY <2>1 DEF Typed
    <2>6. Overlaid(content[n], o, buf) \in Seq(Nat)
        BY <2>1, <2>3, <2>5, OverlaidIs
    <2>7. void' \in BOOLEAN
        BY <2>2 DEF tmpfs_write_node, Recorded
    <2>8. content' \in [Nodes -> Seq(Nat)]
        <3>1. content' = [m \in Nodes |-> <<>>] \/ content' = [content EXCEPT ![n] = Overlaid(content[n], o, buf)]
            BY <2>2 DEF tmpfs_write_node, Recorded
        <3>2. content \in [Nodes -> Seq(Nat)]
            BY DEF Typed
        <3> QED
            BY <2>5, <2>6, <3>1, <3>2, Zenon
    <2> QED
        BY <1>2, <1>8, <2>4, <2>7, <2>8 DEF fs_write_fd
<1>9. ASSUME NEW f \in Files, fs_read_fd(f) PROVE Typed'
    <2>1. PICK count \in 1..MaxCount :
             files' = [files EXCEPT ![f].offset = @ + tmpfs_read_node(files[f].node, @, count)]
        BY <1>9, Zenon DEF fs_read_fd
    <2>2. files[f] \in FileType /\ files[f].node \in Nodes /\ files[f].offset \in 0..(SizeMod - 1)
        BY DEF Typed, FileType
    <2>3. nodes[files[f].node].size \in 0..(SizeMod - 1)
        BY <2>2, SMTT(60) DEF Typed, NodeType
    <2>4. files[f].offset + tmpfs_read_node(files[f].node, files[f].offset, count) \in 0..(SizeMod - 1)
        BY <2>2, <2>3, FsAssumption DEF tmpfs_read_node
    <2>5. files' \in [Files -> FileType]
        BY <2>1, <2>2, <2>4, Zenon DEF Typed, FileType
    <2> QED
        BY <1>1, <1>9, <2>5 DEF fs_read_fd, data_vars, Typed
<1>10. ASSUME NEW f \in Files, fs_lseek_fd(f) PROVE Typed'
    <2>1. PICK offset \in 0..(SizeMod - 1) : files' = [files EXCEPT ![f].offset = offset]
        BY <1>10, Bounds, Zenon DEF fs_lseek_fd
    <2>2. files' \in [Files -> FileType]
        BY <2>1, Zenon DEF Typed, FileType
    <2> QED
        BY <1>1, <1>10, <2>2 DEF fs_lseek_fd, data_vars, Typed
<1>11. CASE fs_mkdir_path
    <2>1. PICK n \in Nodes : Creates(n, "DIR")
        BY <1>11 DEF fs_mkdir_path
    <2>2. nodes' \in [Nodes -> NodeType] /\ content' \in [Nodes -> Seq(Nat)]
        BY <2>1, CreatesTyped
    <2> QED
        BY <1>2, <1>11, <2>2 DEF fs_mkdir_path, Typed

<1>12. CASE ExecveEnd
    <2>1. probe \in ProbeType /\ probe.proc \in Procs /\ probe.fd \in Fds
        BY <1>12 DEF ExecveEnd, Typed, ProbeType
    <2>2. files' \in [Files -> FileType] /\ fds' \in [Procs -> [Fds -> Files \cup {None}]]
        BY <1>12, <2>1, CloseTyped, SMTT(60) DEF ExecveEnd
    <2>3. fds[probe.proc][probe.fd] \in Files
        BY <1>12, <2>1, SMTT(60) DEF ExecveEnd, Close, Typed
    <2>4. ProbeSize \in Nat
        <3>1. files[fds[probe.proc][probe.fd]].node \in Nodes
            BY <2>3 DEF Typed, FileType
        <3>2. \A n \in Nodes : nodes[n].size \in Nat
            BY DEF Typed, NodeType
        <3> QED
            BY <3>1, <3>2 DEF ProbeSize
    <2>5. RoundUp(ProbeSize, Align) \in Nat
        BY <2>4, RoundUpBound, FsAssumption
    <2>6. heap' \in 0..HeapSize
        <3>1. heap' = kalloc(ProbeSize) /\ heap \in 0..HeapSize
            BY <1>12 DEF ExecveEnd, Typed
        <3> QED
            BY <2>5, <3>1, FsAssumption DEF kalloc
    <2> QED
        BY <1>1, <1>12, <2>2, <2>6 DEF ExecveEnd, data_vars
<1>13. CASE MountStep
    <2>1. CASE mount' = Mounted /\ UNCHANGED <<nodes, data_vars>>
        <3>1. MountOK'
            BY <2>1 DEF MountOK, Mounted
        <3> QED
            BY <1>13, <2>1, <3>1 DEF MountStep, data_vars, Typed
    <2>2. ASSUME NEW i \in HeadersAt(mount.archive, mount.cursor),
                 mount' = [mount EXCEPT !.cursor = AfterEntry(mount.archive[i], @)],
                 MountEntry(mount.archive[i])
          PROVE  Typed'
        <3>1. i \in 1..Len(mount.archive) /\ mount.archive \in Seq(Entries) /\ mount.cursor \in Int
            BY DEF HeadersAt, Typed, MountOK
        <3>2. mount.archive[i] \in Entries
            BY <3>1
        <3>3. AfterEntry(mount.archive[i], mount.cursor) \in Int
            <4>1. mount.archive[i].chars \in Nat /\ Len(mount.archive[i].data) \in Nat
                BY <3>2 DEF Entries
            <4>2. align4(HeaderLen + namesz(mount.archive[i])) \in Int /\ align4(Len(mount.archive[i].data)) \in Int
                BY <4>1, SMTT(60) DEF align4, namesz, HeaderLen
            <4> QED
                BY <3>1, <4>2 DEF AfterEntry, DataAt
        <3>4. mount' \in [cursor : Int, limit : Int, archive : Seq(Entries)] /\ mount'.archive = mount.archive
            BY <2>2, <3>3, SMTT(60) DEF Typed, MountOK
        <3>5. MountOK'
            BY <3>4 DEF Typed, MountOK
        <3> QED
            BY <1>13, <2>2, <3>2, <3>5, MountEntryTyped DEF MountStep, Typed
    <2> QED
        BY <1>13, <2>1, <2>2 DEF MountStep
<1>14. CASE UNCHANGED vars
    BY <1>1, <1>14 DEF vars, Typed
<1> QED
    BY <1>3, <1>4, <1>5, <1>6, <1>7, <1>8, <1>9, <1>10, <1>11, <1>12, <1>13, <1>14 DEF Next

-----------------------------------------------------------------------------
(* Descriptors and open files.                                             *)

\* An execve holds the descriptor it opened, and has changed no other.
ProbeOK ==
    probe # NoProbe =>
       /\ fds[probe.proc][probe.fd] # None
       /\ probe.before = [fds EXCEPT ![probe.proc][probe.fd] = None]

FdInv == FdsExact /\ ProbeOK

\* Attaching an unused entry to a free descriptor.
LEMMA AttachExact ==
    ASSUME Typed, FdsExact, NEW p \in Procs, NEW n \in Nodes, NEW f \in Files, NEW d \in Fds,
           Attach(p, n, f, d)
    PROVE  /\ FdsExact'
           /\ fds'[p][d] = f /\ f # None /\ fds = [fds' EXCEPT ![p][d] = None]
<1>1. /\ files' = [files EXCEPT ![f] = alloc_open_file(n)]
      /\ fds' = [fds EXCEPT ![p][d] = f]
      /\ ~files[f].used /\ fds[p][d] = None
    BY DEF Attach, FreeFile, FreeFd
<1>2. fds \in [Procs -> [Fds -> Files \cup {None}]] /\ files \in [Files -> FileType]
    BY DEF Typed
<1>3. f # None
    BY FsAssumption DEF Files, None
<1>4. \A q \in Procs, e \in Fds : fds'[q][e] = IF q = p /\ e = d THEN f ELSE fds[q][e]
    BY <1>1, <1>2
<1>5. \A g \in Files : files'[g] = IF g = f THEN alloc_open_file(n) ELSE files[g]
    BY <1>1, <1>2
<1>6. \A q \in Procs, e \in Fds : fds[q][e] # f
    BY <1>1, <1>3 DEF FdsExact
<1>7. alloc_open_file(n).used /\ alloc_open_file(n).refs = 1
    BY DEF alloc_open_file
<1>8. ASSUME NEW q \in Procs, NEW e \in Fds, fds'[q][e] # None
      PROVE  files'[fds'[q][e]].used
    <2>1. CASE q = p /\ e = d
        BY <1>4, <1>5, <1>7, <2>1, SMTT(60)
    <2>2. CASE ~(q = p /\ e = d)
        <3>1. fds'[q][e] = fds[q][e] /\ fds[q][e] \in Files /\ fds[q][e] # f
            BY <1>2, <1>4, <1>6, <1>8, <2>2, SMTT(60)
        <3> QED
            BY <1>5, <1>8, <3>1 DEF FdsExact
    <2> QED
        BY <2>1, <2>2
<1>9. ASSUME NEW q \in Procs, NEW r \in Procs, NEW e \in Fds, NEW g \in Fds,
             fds'[q][e] # None, fds'[q][e] = fds'[r][g]
      PROVE  q = r /\ e = g
    BY <1>4, <1>6, <1>9, SMTT(60) DEF FdsExact
<1>10. ASSUME NEW g \in Files, files'[g].used
       PROVE  files'[g].refs = 1 /\ \E q \in Procs, e \in Fds : fds'[q][e] = g
    <2>1. CASE g = f
        BY <1>4, <1>5, <1>7, <2>1, SMTT(60)
    <2>2. CASE g # f
        <3>1. files[g].used /\ files'[g] = files[g]
            BY <1>5, <1>10, <2>2, SMTT(60)
        <3>2. PICK q \in Procs, e \in Fds : fds[q][e] = g
            BY <3>1 DEF FdsExact
        <3>3. fds'[q][e] = g
            BY <1>1, <1>3, <1>4, <3>2, FsAssumption DEF Files, None
        <3> QED
            BY <3>1, <3>3, SMTT(60) DEF FdsExact
    <2> QED
        BY <2>1, <2>2, SMTT(60)
<1>11. fds = [fds' EXCEPT ![p][d] = None]
    BY <1>1, <1>2, Zenon
<1> QED
    BY <1>3, <1>4, <1>8, <1>9, <1>10, <1>11 DEF FdsExact

\* Whatever an open comes to.
LEMMA OpensExact ==
    ASSUME Typed, FdsExact, NEW p \in Procs, NEW n \in Nodes, Opens(p, n)
    PROVE  FdsExact'
<1>1. CASE UNCHANGED <<files, fds>>
    BY <1>1 DEF FdsExact
<1>2. ASSUME NEW f \in Files, NEW d \in Fds, Attach(p, n, f, d) PROVE FdsExact'
    BY <1>2, AttachExact, SMTT(60)
<1> QED
    BY <1>1, <1>2, SMTT(60) DEF Opens, AttachFails

\* Closing clears the entry, since its descriptor was the only one.
LEMMA CloseExact ==
    ASSUME Typed, FdsExact, NEW p \in Procs, NEW d \in Fds, Close(p, d)
    PROVE  /\ FdsExact'
           /\ fds' = [fds EXCEPT ![p][d] = None]
           /\ ~files'[fds[p][d]].used
<1> DEFINE f == fds[p][d]
<1>1. f # None /\ f \in Files
    BY SMTT(60) DEF Close, Typed
<1>2. files[f].used /\ files[f].refs = 1
    BY <1>1 DEF FdsExact
<1>3. fds \in [Procs -> [Fds -> Files \cup {None}]] /\ files \in [Files -> FileType]
    BY DEF Typed
<1>4. files' = [files EXCEPT ![f] = NoFile] /\ fds' = [fds EXCEPT ![p][d] = None]
    BY <1>2 DEF Close
<1>5. \A q \in Procs, e \in Fds : fds'[q][e] = IF q = p /\ e = d THEN None ELSE fds[q][e]
    BY <1>3, <1>4
<1>6. \A g \in Files : files'[g] = IF g = f THEN NoFile ELSE files[g]
    BY <1>3, <1>4, SMTT(60)
<1>7. \A q \in Procs, e \in Fds : fds'[q][e] # f
    BY <1>1, <1>5 DEF FdsExact
<1>8. ~NoFile.used
    BY SMTT(60) DEF NoFile
<1>9. ASSUME NEW q \in Procs, NEW e \in Fds, fds'[q][e] # None
      PROVE  files'[fds'[q][e]].used
    <2>1. fds'[q][e] = fds[q][e] /\ fds[q][e] \in Files /\ fds[q][e] # f
        BY <1>3, <1>5, <1>7, <1>9
    <2> QED
        BY <1>6, <1>9, <2>1 DEF FdsExact
<1>10. ASSUME NEW q \in Procs, NEW r \in Procs, NEW e \in Fds, NEW g \in Fds,
              fds'[q][e] # None, fds'[q][e] = fds'[r][g]
       PROVE  q = r /\ e = g
    BY <1>5, <1>10, SMTT(60) DEF FdsExact
<1>11. ASSUME NEW g \in Files, files'[g].used
       PROVE  files'[g].refs = 1 /\ \E q \in Procs, e \in Fds : fds'[q][e] = g
    <2>1. g # f /\ files'[g] = files[g] /\ files[g].used
        BY <1>6, <1>8, <1>11
    <2>2. PICK q \in Procs, e \in Fds : fds[q][e] = g
        BY <2>1 DEF FdsExact
    <2>3. fds'[q][e] = g
        BY <1>5, <2>1, <2>2
    <2> QED
        BY <2>1, <2>3 DEF FdsExact
<1> QED
    BY <1>1, <1>4, <1>6, <1>8, <1>9, <1>10, <1>11 DEF FdsExact

\* Every step keeps descriptors and entries in step.
LEMMA NextFdInv == Typed /\ FdInv /\ [Next]_vars => FdInv'
<1> SUFFICES ASSUME Typed, FdInv, [Next]_vars PROVE FdInv'
    OBVIOUS
<1>1. FdsExact
    BY DEF FdInv
<1>2. ASSUME FdsExact', probe = NoProbe, probe' = probe PROVE FdInv'
    BY <1>2 DEF FdInv, ProbeOK
<1>3. CASE UNCHANGED <<files, fds, probe>>
    BY <1>3 DEF FdInv, FdsExact, ProbeOK
<1>4. ASSUME NEW p \in Procs, OpenExisting(p) PROVE FdInv'
    BY <1>1, <1>2, <1>4, OpensExact DEF OpenExisting, Ready
<1>5. ASSUME NEW p \in Procs, OpenCreate(p) PROVE FdInv'
    BY <1>1, <1>2, <1>5, OpensExact DEF OpenCreate, Ready, Followed
<1>6. ASSUME NEW p \in Procs, fs_close_fd(p) PROVE FdInv'
    BY <1>1, <1>2, <1>6, CloseExact DEF fs_close_fd, Ready
<1>7. ASSUME NEW p \in Procs, ExecveOpen(p) PROVE FdInv'
    <2>1. PICK n \in Nodes, f \in Files, d \in Fds :
             Attach(p, n, f, d) /\ probe' = [proc |-> p, fd |-> d, before |-> fds]
        BY <1>7 DEF ExecveOpen
    <2>2. FdsExact' /\ fds'[p][d] # None /\ fds = [fds' EXCEPT ![p][d] = None]
        BY <1>1, <2>1, AttachExact
    <2> QED
        BY <2>1, <2>2, SMTT(60) DEF FdInv, ProbeOK
<1>8. ASSUME NEW f \in Files, fs_read_fd(f) \/ fs_lseek_fd(f) PROVE FdInv'
    <2>1. PICK o : files' = [files EXCEPT ![f].offset = o]
        BY <1>8 DEF fs_read_fd, fs_lseek_fd
    <2>2. fds' = fds /\ probe = NoProbe /\ probe' = probe
        BY <1>8 DEF fs_read_fd, fs_lseek_fd, Followed, Ready
    <2>3. \A g \in Files : files'[g].used = files[g].used /\ files'[g].refs = files[g].refs
        BY <2>1 DEF Typed, FileType
    <2>4. \A q \in Procs, e \in Fds : fds[q][e] # None => fds[q][e] \in Files
        BY SMTT(60) DEF Typed
    <2>5. FdsExact'
        BY <1>1, <2>2, <2>3, <2>4 DEF FdsExact
    <2> QED
        BY <1>2, <2>2, <2>5
<1>9. CASE ExecveEnd
    <2>1. probe \in ProbeType /\ probe.proc \in Procs /\ probe.fd \in Fds
        BY <1>9 DEF ExecveEnd, Typed, ProbeType
    <2>2. FdsExact'
        BY <1>1, <1>9, <2>1, CloseExact DEF ExecveEnd
    <2> QED
        BY <1>9, <2>2 DEF ExecveEnd, FdInv, ProbeOK
<1>10. ASSUME NEW n \in Nodes, Remove(n) PROVE FdInv'
    BY <1>3, <1>10 DEF Remove
<1>11. ASSUME NEW f \in Files, fs_write_fd(f) PROVE FdInv'
    BY <1>3, <1>11 DEF fs_write_fd
<1>12. CASE fs_mkdir_path \/ MountStep \/ UNCHANGED vars
    BY <1>3, <1>12 DEF fs_mkdir_path, MountStep, vars
<1> QED
    BY <1>4, <1>5, <1>6, <1>7, <1>8, <1>9, <1>10, <1>11, <1>12 DEF Next

-----------------------------------------------------------------------------
(* The contents of files.                                                  *)

\* Node n has an extent in the part of the arena that was handed out, or none;
\* and only files have one.
Laid(n) ==
    /\ nodes[n].size <= nodes[n].capacity
    /\ nodes[n].data = NULL => nodes[n].capacity = 0
    /\ nodes[n].data # NULL =>
          nodes[n].data >= 0 /\ nodes[n].data + nodes[n].capacity <= data_offset
    /\ nodes[n].type # "FILE" => nodes[n].data = NULL

\* The extents of n and m do not meet.
Apart(n, m) ==
    \/ nodes[n].data = NULL
    \/ nodes[m].data = NULL
    \/ nodes[n].data + nodes[n].capacity <= nodes[m].data
    \/ nodes[m].data + nodes[m].capacity <= nodes[n].data

\* The extent of n holds what was written, and 0 behind it.
Holds(n) ==
    /\ nodes[n].size = Len(content[n])
    /\ \A k \in 0..(nodes[n].capacity - 1) :
          arena[nodes[n].data + k] = IF k < nodes[n].size THEN content[n][k + 1] ELSE 0

Layout ==
    /\ \A n \in Nodes : Laid(n) /\ Holds(n)
    /\ \A n, m \in Nodes : n # m => Apart(n, m)
    /\ \A a \in data_offset..(ArenaSize - 1) : arena[a] = 0

\* ContentsExact needs more than itself: that extents are apart and that what
\* has not been written is 0.
DataInv ==
    /\ ~void => Layout
    /\ \A n \in Nodes : nodes[n].type = "NONE" => nodes[n].data = NULL
    /\ \A a \in 0..(ArenaSize - 1) : arena[a] \in Nat

\* Put changes the bytes it is given room for and no others.
LEMMA PutIs ==
    ASSUME NEW mem, mem = [a \in 0..(ArenaSize - 1) |-> mem[a]], NEW buf \in Seq(Nat),
           NEW b \in Nat, b + Len(buf) <= ArenaSize, NEW x \in 0..(ArenaSize - 1)
    PROVE  Put(mem, b, buf)[x] =
              IF b <= x /\ x < b + Len(buf) THEN buf[x - b + 1] ELSE mem[x]
<1> DEFINE k == (x - b) % SizeMod
<1>1. SizeMod \in Nat \ {0} /\ ArenaSize \in Nat /\ ArenaSize <= SizeMod /\ Len(buf) \in Nat
    BY Bounds, FsAssumption
<1>2. Put(mem, b, buf)[x] = IF k < Len(buf) THEN buf[k + 1] ELSE mem[x]
    BY DEF Put
<1>3. CASE b <= x
    <2>1. x - b \in 0..(SizeMod - 1)
        BY <1>1, <1>3
    <2>2. k = x - b
        BY <1>1, <2>1, SmallMod
    <2> HIDE DEF k
    <2> QED
        BY <1>1, <1>2, <1>3, <2>2
<1>4. CASE x < b
    <2>1. x - b \in (-SizeMod)..(-1) /\ x - b \in Int
        BY <1>1, <1>4
    <2>2. k = x - b + SizeMod
        BY <1>1, <2>1, SmallMod
    <2> HIDE DEF k
    <2> QED
        BY <1>1, <1>2, <1>4, <2>2
<1> QED
    BY <1>3, <1>4

\* A move takes the bytes of the file along and changes nothing below.
LEMMA MovedIs ==
    ASSUME Typed, NEW n \in Nodes, Laid(n), Holds(n), NEW x \in 0..(ArenaSize - 1)
    PROVE  Moved(n)[x] =
              IF data_offset <= x /\ x < data_offset + nodes[n].size
              THEN content[n][x - data_offset + 1] ELSE arena[x]
<1>1. /\ nodes[n].size \in Nat /\ nodes[n].capacity \in Nat /\ nodes[n].data \in Int
      /\ data_offset \in Nat /\ DOMAIN arena = 0..(ArenaSize - 1)
    BY SMTT(60) DEF Typed, NodeType
<1>2. CASE nodes[n].data = NULL
    BY <1>1, <1>2, SMTT(60) DEF Moved, Laid
<1>3. CASE nodes[n].data # NULL
    <2>1. Moved(n)[x] = IF x \in data_offset..(data_offset + nodes[n].size - 1)
                        THEN arena[nodes[n].data + x - data_offset] ELSE arena[x]
        BY <1>1, <1>3 DEF Moved, Laid, Copied
    <2>2. CASE x \in data_offset..(data_offset + nodes[n].size - 1)
        <3>1. /\ x - data_offset \in 0..(nodes[n].capacity - 1)
              /\ x - data_offset < nodes[n].size
              /\ nodes[n].data + x - data_offset = nodes[n].data + (x - data_offset)
            BY <1>1, <2>2, SMTT(60) DEF Laid
        <3>2. arena[nodes[n].data + (x - data_offset)] = content[n][x - data_offset + 1]
            BY <3>1 DEF Holds
        <3> QED
            BY <1>1, <2>1, <2>2, <3>1, <3>2
    <2>3. CASE x \notin data_offset..(data_offset + nodes[n].size - 1)
        BY <1>1, <2>1, <2>3
    <2> QED
        BY <2>2, <2>3
<1> QED
    BY <1>2, <1>3

\* What the capacity of a file that moves comes to.
LEMMA NewCapacity ==
    ASSUME NEW o \in Nat, NEW buf \in Seq(Nat), o + Len(buf) + CapUnit <= WordMod
    PROVE  /\ End(o, buf) = o + Len(buf)
           /\ RoundUp(End(o, buf), CapUnit) % WordMod \in Nat
           /\ RoundUp(End(o, buf), CapUnit) % WordMod >= o + Len(buf)
<1>1. /\ SizeMod \in Nat \ {0} /\ WordMod \in Nat \ {0} /\ WordMod <= SizeMod
      /\ CapUnit \in Nat \ {0} /\ Len(buf) \in Nat
    BY Bounds, FsAssumption
<1>2. o + Len(buf) \in 0..(SizeMod - 1)
    BY <1>1
<1>3. End(o, buf) = o + Len(buf)
    BY <1>1, <1>2, SmallMod DEF End
<1>4. o + Len(buf) \in Nat
    BY <1>1
<1>5. /\ RoundUp(o + Len(buf), CapUnit) \in Nat
      /\ o + Len(buf) <= RoundUp(o + Len(buf), CapUnit)
      /\ RoundUp(o + Len(buf), CapUnit) < o + Len(buf) + CapUnit
    BY <1>1, <1>4, RoundUpBound, ZenonT(60)
<1>6. RoundUp(o + Len(buf), CapUnit) \in 0..(WordMod - 1) /\ RoundUp(o + Len(buf), CapUnit) \in Int
    BY <1>1, <1>5
<1>7. RoundUp(o + Len(buf), CapUnit) % WordMod = RoundUp(o + Len(buf), CapUnit)
    <2> DEFINE r == RoundUp(o + Len(buf), CapUnit)
    <2>1. r \in Int /\ r \in 0..(WordMod - 1)
        BY <1>6
    <2> HIDE DEF r
    <2>2. r % WordMod = r
        BY <1>1, <2>1, SmallMod, SMTT(60)
    <2> QED
        BY <2>2 DEF r
<1> QED
    BY <1>3, <1>5, <1>7

\* What the history becomes when buf is written at o over s.
Extends(c, s, o, buf) ==
    /\ c \in Seq(Nat)
    /\ Len(c) = IF o + Len(buf) > Len(s) THEN o + Len(buf) ELSE Len(s)
    /\ \A k \in 1..Len(c) :
          c[k] = IF k - o \in 1..Len(buf) THEN buf[k - o] ELSE IF k <= Len(s) THEN s[k] ELSE 0

\* A write in place changes the file's own extent only.
LEMMA WriteInPlaceLayout ==
    ASSUME Typed, Layout, NEW n \in Nodes, nodes[n].type = "FILE",
           NEW o \in Nat, NEW buf \in Seq(Nat), o + Len(buf) + CapUnit <= WordMod,
           WriteInPlace(n, o, buf),
           NEW c, content' = [content EXCEPT ![n] = c], Extends(c, content[n], o, buf)
    PROVE  Layout'
<1> DEFINE dt == nodes[n].data
           cp == nodes[n].capacity
           sz == nodes[n].size
           nsz == IF o + Len(buf) > sz THEN o + Len(buf) ELSE sz
<1>1. /\ sz \in Nat /\ cp \in Nat /\ dt \in Int /\ data_offset \in Nat /\ Len(buf) \in Nat
      /\ ArenaSize \in Nat /\ data_offset <= ArenaSize
    <2>1. ArenaSize \in Nat /\ Len(buf) \in Nat
        BY FsAssumption
    <2>2. nodes[n] \in NodeType /\ data_offset \in 0..ArenaSize
        BY DEF Typed
    <2> QED
        BY <2>1, <2>2 DEF NodeType
<1>2. Laid(n) /\ Holds(n)
    BY SMTT(60) DEF Layout
<1>0. /\ sz <= cp /\ (dt = NULL => cp = 0)
      /\ dt # NULL => dt >= 0 /\ dt + cp <= data_offset
    BY <1>2 DEF Laid
<1>3. End(o, buf) = o + Len(buf)
    BY NewCapacity
<1>4. /\ o + Len(buf) <= cp /\ data_offset' = data_offset
      /\ nodes' = [nodes EXCEPT ![n].size = nsz]
    BY <1>3 DEF WriteInPlace, Grown
<1>5. /\ nodes'[n].size = nsz /\ nodes'[n].data = dt /\ nodes'[n].capacity = cp
      /\ nodes'[n].type = nodes[n].type
      /\ \A m \in Nodes : m # n => nodes'[m] = nodes[m]
    BY <1>4 DEF Typed, NodeType
<1>6. content'[n] = c /\ \A m \in Nodes : m # n => content'[m] = content[m]
    BY DEF Typed
<1>7. Len(content[n]) = sz
    BY <1>2 DEF Holds
<1>8. Len(c) = nsz /\ nsz \in Nat /\ nsz <= cp
    BY <1>1, <1>2, <1>4, <1>7, SMTT(60) DEF Extends, Laid
<1>9. ASSUME NEW x \in 0..(ArenaSize - 1)
      PROVE  arena'[x] = IF dt # NULL /\ dt + o <= x /\ x < dt + o + Len(buf)
                         THEN buf[x - (dt + o) + 1] ELSE arena[x]
    <2>1. CASE dt = NULL
        BY <2>1 DEF WriteInPlace
    <2>2. CASE dt # NULL
        <3>2. arena' = Put(arena, dt + o, buf) /\ arena = [a \in 0..(ArenaSize - 1) |-> arena[a]]
            BY <2>2 DEF WriteInPlace, Typed
        <3> HIDE DEF dt, cp, sz, nsz
        <3>1. dt + o \in Nat /\ dt + o + Len(buf) <= ArenaSize
            <4>1. o + Len(buf) <= cp
                BY <1>4
            <4> QED
                BY <1>0, <1>1, <2>2, <4>1
        <3>3. Put(arena, dt + o, buf)[x] = IF dt + o <= x /\ x < dt + o + Len(buf)
                                           THEN buf[x - (dt + o) + 1] ELSE arena[x]
            BY <3>1, <3>2, PutIs, Zenon
        <3> QED
            BY <2>2, <3>2, <3>3
    <2> QED
        BY <2>1, <2>2
<1> HIDE DEF dt, cp, sz, nsz
<1>10. Laid(n)'
    BY <1>1, <1>2, <1>4, <1>5, <1>8, SMTT(60) DEF Laid, dt, cp, sz
<1>11. Holds(n)'
    <2>1. nodes'[n].size = Len(content'[n])
        BY <1>5, <1>6, <1>8
    <2>2. ASSUME NEW k \in 0..(cp - 1)
          PROVE  arena'[dt + k] = IF k < nsz THEN c[k + 1] ELSE 0
        <3>1. dt # NULL /\ dt >= 0 /\ dt + cp <= data_offset
            BY <1>0, <1>1
        <3>2. dt + k \in 0..(ArenaSize - 1)
            BY <1>1, <3>1
        <3>3. arena'[dt + k] = IF o <= k /\ k < o + Len(buf) THEN buf[k - o + 1] ELSE arena[dt + k]
            <4> DEFINE x == dt + k
            <4>1. /\ x \in 0..(ArenaSize - 1)
                  /\ (dt + o <= x) <=> (o <= k)
                  /\ (x < dt + o + Len(buf)) <=> (k < o + Len(buf))
                  /\ x - (dt + o) + 1 = k - o + 1
                BY <1>1, <3>2
            <4> HIDE DEF x
            <4>2. arena'[x] = IF dt # NULL /\ dt + o <= x /\ x < dt + o + Len(buf)
                              THEN buf[x - (dt + o) + 1] ELSE arena[x]
                BY <1>9, <4>1, SMTT(60)
            <4>3. arena'[x] = IF o <= k /\ k < o + Len(buf) THEN buf[k - o + 1] ELSE arena[x]
                BY <3>1, <4>1, <4>2, SMTT(60)
            <4> QED
                BY <4>3 DEF x
        <3>4. arena[dt + k] = IF k < sz THEN content[n][k + 1] ELSE 0
            BY <1>2, SMTT(60) DEF Holds, dt, cp, sz
        <3>5. CASE k < nsz
            <4>1. k + 1 \in 1..Len(c)
                BY <1>8, <3>5
            <4>2. c[k + 1] = IF k + 1 - o \in 1..Len(buf) THEN buf[k + 1 - o]
                             ELSE IF k + 1 <= sz THEN content[n][k + 1] ELSE 0
                BY <1>7, <4>1 DEF Extends
            <4>3. CASE o <= k /\ k < o + Len(buf)
                <5>1. k + 1 - o \in 1..Len(buf) /\ k + 1 - o = k - o + 1
                    BY <1>1, <4>3, SMTT(60)
                <5> QED
                    BY <3>3, <3>5, <4>2, <4>3, <5>1
            <4>4. CASE ~(o <= k /\ k < o + Len(buf))
                <5>1. k + 1 - o \notin 1..Len(buf) /\ ((k < sz) <=> (k + 1 <= sz))
                    BY <1>1, <4>4
                <5> QED
                    BY <3>3, <3>4, <3>5, <4>2, <4>4, <5>1, SMTT(60)
            <4> QED
                BY <4>3, <4>4
        <3>6. CASE ~(k < nsz)
            <4>1. ~(k < sz) /\ ~(k < o + Len(buf))
                BY <1>1, <3>6, SMTT(60) DEF nsz
            <4> QED
                BY <3>3, <3>4, <3>6, <4>1
        <3> QED
            BY <3>5, <3>6
    <2> QED
        BY <1>5, <1>6, <2>1, <2>2, SMTT(60) DEF Holds
<1>12. ASSUME NEW m \in Nodes, m # n PROVE Laid(m)' /\ Holds(m)' /\ Apart(n, m)' /\ Apart(m, n)'
    <2>1. Laid(m) /\ Holds(m) /\ Apart(n, m) /\ nodes'[m] = nodes[m] /\ content'[m] = content[m]
        BY <1>5, <1>6, <1>12 DEF Layout
    <2> DEFINE dm == nodes[m].data
               cm == nodes[m].capacity
    <2>2. dm \in Int /\ cm \in Nat /\ nodes[m].size \in Nat
        BY SMTT(60) DEF Typed, NodeType
    <2>3. ASSUME NEW k \in 0..(cm - 1) PROVE arena'[dm + k] = arena[dm + k]
        <3>1. /\ dm = NULL => cm = 0
              /\ dm # NULL => dm >= 0 /\ dm + cm <= data_offset
              /\ dt = NULL \/ dm = NULL \/ dt + cp <= dm \/ dm + cm <= dt
            BY <2>1 DEF Laid, Apart, dt, cp
        <3> HIDE DEF dm, cm
        <3>2. dm + k \in 0..(ArenaSize - 1)
            BY <1>1, <2>2, <3>1
        <3>3. o + Len(buf) <= cp
            BY <1>4
        <3>4. ~(dt # NULL /\ dt + o <= dm + k /\ dm + k < dt + o + Len(buf))
            BY <1>1, <2>2, <3>1, <3>3
        <3> QED
            BY <1>9, <3>2, <3>4, SMTT(60)
    <2>4. Laid(m)' /\ Holds(m)'
        BY <1>4, <2>1, <2>3, ZenonT(60) DEF Laid, Holds
    <2>5. Apart(n, m)' /\ Apart(m, n)'
        BY <1>5, <2>1, <2>2, SMTT(60) DEF Apart, dt, cp
    <2> QED
        BY <2>4, <2>5, SMTT(60)
<1>13. ASSUME NEW a \in data_offset'..(ArenaSize - 1) PROVE arena'[a] = 0
    <2>1. a \in data_offset..(ArenaSize - 1) /\ a \in 0..(ArenaSize - 1)
        BY <1>1, <1>4
    <2>2. ~(dt # NULL /\ dt + o <= a /\ a < dt + o + Len(buf))
        BY <1>1, <1>2, <1>4, <2>1, SMTT(60) DEF Laid, dt, cp
    <2> QED
        BY <1>9, <2>1, <2>2 DEF Layout
<1>14. ASSUME NEW m \in Nodes, NEW l \in Nodes, m # l PROVE Apart(m, l)'
    <2>1. CASE m # n /\ l # n
        BY <1>5, <1>14, <2>1 DEF Layout, Apart
    <2> QED
        BY <1>12, <1>14, <2>1
<1> QED
    BY <1>10, <1>11, <1>12, <1>13, <1>14 DEF Layout

\* A file that moves gets an extent nothing was in, with its old bytes.
LEMMA WriteMovingLayout ==
    ASSUME Typed, Layout, NEW n \in Nodes,
           NEW o \in Nat, NEW buf \in Seq(Nat), o + Len(buf) + CapUnit <= WordMod,
           WriteMoving(n, o, buf),
           NEW c, content' = [content EXCEPT ![n] = c], Extends(c, content[n], o, buf)
    PROVE  Layout'
<1> DEFINE at == data_offset
           sz == nodes[n].size
           len == Len(buf)
           nsz == IF o + len > sz THEN o + len ELSE sz
           cap == RoundUp(End(o, buf), CapUnit) % WordMod
<1>1. /\ sz \in Nat /\ at \in Nat /\ len \in Nat /\ ArenaSize \in Nat /\ at <= ArenaSize
    <2>1. ArenaSize \in Nat /\ Len(buf) \in Nat
        BY FsAssumption
    <2>2. nodes[n] \in NodeType /\ data_offset \in 0..ArenaSize
        BY DEF Typed
    <2> QED
        BY <2>1, <2>2 DEF NodeType
<1>2. Laid(n) /\ Holds(n)
    BY DEF Layout
<1>3. End(o, buf) = o + len /\ cap \in Nat /\ cap >= o + len
    BY NewCapacity
<1>4. /\ o + len > nodes[n].capacity
      /\ at + RoundUp(cap, Align) <= ArenaSize
      /\ data_offset' = at + RoundUp(cap, Align)
      /\ arena' = Put(Moved(n), at + o, buf)
      /\ nodes' = [nodes EXCEPT ![n] = [type |-> "FILE", data |-> at, size |-> nsz, capacity |-> cap]]
    BY <1>3 DEF WriteMoving, StorageFits, Grown
<1>5. Len(content[n]) = sz /\ sz <= nodes[n].capacity /\ nodes[n].capacity \in Nat
    BY <1>2, SMTT(60) DEF Holds, Laid, Typed, NodeType
<1>6. ASSUME NEW x \in 0..(ArenaSize - 1)
      PROVE  Moved(n)[x] = IF at <= x /\ x < at + sz THEN content[n][x - at + 1] ELSE arena[x]
    BY <1>2, MovedIs
<1> HIDE DEF at, sz, len, cap
<1>7. RoundUp(cap, Align) \in Nat /\ cap <= RoundUp(cap, Align)
    BY <1>3, RoundUpBound, FsAssumption, ZenonT(60)
<1>8. /\ nodes'[n].size = nsz /\ nodes'[n].data = at /\ nodes'[n].capacity = cap
      /\ nodes'[n].type = "FILE"
      /\ \A m \in Nodes : m # n => nodes'[m] = nodes[m]
    BY <1>4 DEF Typed
<1>9. content'[n] = c /\ \A m \in Nodes : m # n => content'[m] = content[m]
    BY DEF Typed
<1>10. sz < o + len /\ nsz = o + len
    BY <1>1, <1>4, <1>5, SMTT(60)
<1> HIDE DEF nsz
<1>11. Len(c) = nsz
    BY <1>5, <1>10 DEF Extends, len
<1>12. ASSUME NEW x \in 0..(ArenaSize - 1)
       PROVE  arena'[x] = IF at + o <= x /\ x < at + o + len THEN buf[x - (at + o) + 1]
                          ELSE IF at <= x /\ x < at + sz THEN content[n][x - at + 1] ELSE arena[x]
    <2>1. at + o \in Nat /\ at + o + Len(buf) <= ArenaSize
        BY <1>1, <1>3, <1>4, <1>7 DEF len
    <2>2. Moved(n) = [a \in 0..(ArenaSize - 1) |-> Moved(n)[a]]
        BY Zenon DEF Moved, Copied, Typed
    <2>3. Put(Moved(n), at + o, buf)[x] = IF at + o <= x /\ x < at + o + Len(buf)
                                         THEN buf[x - (at + o) + 1] ELSE Moved(n)[x]
        BY <2>1, <2>2, PutIs, Zenon
    <2> QED
        BY <1>4, <1>6, <2>3, Zenon DEF len
<1>13. Laid(n)'
    <2>1. nsz <= cap /\ at # NULL /\ at >= 0 /\ at + cap <= data_offset'
        BY <1>1, <1>3, <1>4, <1>7, <1>10, SMTT(60) DEF NULL
    <2> QED
        BY <1>8, <2>1 DEF Laid
<1>14. Holds(n)'
    <2>1. nodes'[n].size = Len(content'[n])
        BY <1>8, <1>9, <1>11
    <2>2. ASSUME NEW k \in 0..(cap - 1)
          PROVE  arena'[at + k] = IF k < nsz THEN c[k + 1] ELSE 0
        <3> DEFINE x == at + k
        <3>1. /\ x \in 0..(ArenaSize - 1) /\ k \in Nat
              /\ (at + o <= x) <=> (o <= k)
              /\ (x < at + o + len) <=> (k < o + len)
              /\ x - (at + o) + 1 = k - o + 1
              /\ at <= x /\ ((x < at + sz) <=> (k < sz)) /\ x - at + 1 = k + 1
            BY <1>1, <1>3, <1>4, <1>7
        <3>2. arena[x] = 0
            <4>1. x \in data_offset..(ArenaSize - 1)
                BY <1>1, <3>1, SMTT(60) DEF at
            <4> QED
                BY <4>1 DEF Layout
        <3> HIDE DEF x
        <3>3. arena'[x] = IF at + o <= x /\ x < at + o + len THEN buf[x - (at + o) + 1]
                          ELSE IF at <= x /\ x < at + sz THEN content[n][x - at + 1] ELSE arena[x]
            BY <1>12, <3>1
        <3>4. arena'[x] = IF o <= k /\ k < o + len THEN buf[k - o + 1]
                          ELSE IF k < sz THEN content[n][k + 1] ELSE 0
            BY <3>1, <3>2, <3>3
        <3>5. CASE k < nsz
            <4>1. k + 1 \in 1..Len(c)
                BY <1>1, <1>10, <1>11, <3>1, <3>5
            <4>2. c[k + 1] = IF k + 1 - o \in 1..len THEN buf[k + 1 - o]
                             ELSE IF k + 1 <= sz THEN content[n][k + 1] ELSE 0
                BY <1>5, <4>1 DEF Extends, len
            <4>3. CASE o <= k /\ k < o + len
                <5>1. k + 1 - o \in 1..len /\ k + 1 - o = k - o + 1
                    BY <1>1, <3>1, <4>3
                <5> QED
                    BY <3>4, <3>5, <4>2, <4>3, <5>1 DEF x
            <4>4. CASE ~(o <= k /\ k < o + len)
                <5>1. k + 1 - o \notin 1..len /\ ((k < sz) <=> (k + 1 <= sz))
                    BY <1>1, <3>1, <4>4
                <5> QED
                    BY <3>4, <3>5, <4>2, <4>4, <5>1 DEF x
            <4> QED
                BY <4>3, <4>4
        <3>6. CASE ~(k < nsz)
            <4>1. ~(k < sz) /\ ~(k < o + len)
                BY <1>1, <1>10, <3>1, <3>6
            <4> QED
                BY <3>4, <3>6, <4>1 DEF x
        <3> QED
            BY <3>5, <3>6, SMTT(60)
    <2> QED
        BY <1>8, <1>9, <2>1, <2>2 DEF Holds
<1>15. ASSUME NEW m \in Nodes, m # n PROVE Laid(m)' /\ Holds(m)' /\ Apart(n, m)' /\ Apart(m, n)'
    <2> DEFINE dm == nodes[m].data
               cm == nodes[m].capacity
    <2>1. Laid(m) /\ Holds(m) /\ nodes'[m] = nodes[m] /\ content'[m] = content[m]
        BY <1>8, <1>9, <1>15 DEF Layout
    <2>2. dm \in Int /\ cm \in Nat
        BY SMTT(60) DEF Typed, NodeType
    <2>3. /\ dm = NULL => cm = 0
          /\ dm # NULL => dm >= 0 /\ dm + cm <= at
        BY <2>1, SMTT(60) DEF Laid, at
    <2>4. ASSUME NEW k \in 0..(cm - 1) PROVE arena'[dm + k] = arena[dm + k]
        <3> HIDE DEF dm, cm
        <3>1. dm + k \in 0..(ArenaSize - 1) /\ dm + k < at
            BY <1>1, <2>2, <2>3
        <3>2. ~(at + o <= dm + k) /\ ~(at <= dm + k)
            BY <1>1, <2>2, <3>1, SMTT(60)
        <3> QED
            BY <1>12, <3>1, <3>2
    <2>5. at <= data_offset'
        BY <1>1, <1>4, <1>7, SMTT(60)
    <2>6. dm # NULL => dm + cm <= data_offset'
        <3> HIDE DEF dm, cm
        <3> QED
            BY <1>1, <1>4, <1>7, <2>2, <2>3, SMTT(60)
    <2>7. Laid(m)' /\ Holds(m)'
        <3>1. Laid(m)'
            BY <2>1, <2>6, SMTT(60) DEF Laid
        <3>2. /\ nodes[m].size = Len(content[m])
              /\ \A k \in 0..(nodes[m].capacity - 1) : arena'[nodes[m].data + k] =
                    IF k < nodes[m].size THEN content[m][k + 1] ELSE 0
            BY <2>1, <2>4 DEF Holds
        <3>3. Holds(m)'
            BY <2>1, <3>2, Zenon DEF Holds
        <3> QED
            BY <3>1, <3>3
    <2>8. Apart(n, m)' /\ Apart(m, n)'
        BY <1>8, <2>1, <2>3, Zenon DEF Apart
    <2> QED
        BY <2>7, <2>8, SMTT(60)
<1>16. ASSUME NEW a \in data_offset'..(ArenaSize - 1) PROVE arena'[a] = 0
    <2>1. a \in at..(ArenaSize - 1) /\ a \in 0..(ArenaSize - 1) /\ a >= at + cap
        BY <1>1, <1>3, <1>4, <1>7, SMTT(60)
    <2>2. ~(a < at + o + len) /\ ~(a < at + sz)
        BY <1>1, <1>3, <1>10, <2>1
    <2>3. arena[a] = 0
        BY <2>1 DEF Layout, at
    <2> QED
        BY <1>12, <2>1, <2>2, <2>3, SMTT(60)
<1>17. ASSUME NEW m \in Nodes, NEW l \in Nodes, m # l PROVE Apart(m, l)'
    <2>1. CASE m # n /\ l # n
        BY <1>8, <1>17, <2>1 DEF Layout, Apart
    <2> QED
        BY <1>15, <1>17, <2>1, SMTT(60)
<1> QED
    BY <1>13, <1>14, <1>15, <1>16, <1>17 DEF Layout

\* A node that is created or removed has no extent.
LEMMA BlankLayout ==
    ASSUME Typed, DataInv, NEW n \in Nodes,
           NEW t \in {"NONE", "FILE", "DIR"}, nodes' = [nodes EXCEPT ![n] = [NoNode EXCEPT !.type = t]],
           content' = [content EXCEPT ![n] = <<>>], UNCHANGED <<arena, data_offset, void>>
    PROVE  DataInv'
<1>1. /\ nodes'[n].data = NULL /\ nodes'[n].size = 0 /\ nodes'[n].capacity = 0
      /\ \A m \in Nodes : m # n => nodes'[m] = nodes[m]
    BY DEF Typed, NoNode
<1>2. content'[n] = <<>> /\ \A m \in Nodes : m # n => content'[m] = content[m]
    BY DEF Typed
<1>3. ASSUME Layout PROVE Layout'
    <2>1. Laid(n)' /\ Holds(n)'
        BY <1>1, <1>2 DEF Laid, Holds
    <2>2. ASSUME NEW m \in Nodes, m # n PROVE Laid(m)' /\ Holds(m)' /\ Apart(n, m)' /\ Apart(m, n)'
        BY <1>1, <1>2, <1>3, <2>2 DEF Layout, Laid, Holds, Apart
    <2>3. ASSUME NEW m \in Nodes, NEW l \in Nodes, m # n, l # n, m # l PROVE Apart(m, l)'
        BY <1>1, <1>3, <2>3 DEF Layout, Apart
    <2>4. \A a \in data_offset'..(ArenaSize - 1) : arena'[a] = 0
        BY <1>3 DEF Layout
    <2>5. \A m, l \in Nodes : m # l => Apart(m, l)'
        BY <2>2, <2>3
    <2> QED
        BY <2>1, <2>2, <2>4, <2>5 DEF Layout
<1> QED
    BY <1>1, <1>3 DEF DataInv

\* The bytes of the arena are bytes, whatever is written where.
LEMMA WriteNat ==
    ASSUME Typed, DataInv, NEW n \in Nodes, Layout \/ nodes[n].data = NULL,
           NEW o \in Nat, NEW buf \in Seq(Nat),
           WriteInPlace(n, o, buf) \/ WriteMoving(n, o, buf)
    PROVE  \A a \in 0..(ArenaSize - 1) : arena'[a] \in Nat
<1>1. arena \in [0..(ArenaSize - 1) -> Nat] /\ SizeMod \in Nat \ {0}
    BY Bounds DEF Typed, DataInv
<1>2. Moved(n) \in [0..(ArenaSize - 1) -> Nat]
    <2>1. CASE nodes[n].data = NULL
        BY <1>1, <2>1 DEF Moved
    <2>2. CASE Layout
        <3>1. Laid(n) /\ Holds(n) /\ content[n] \in Seq(Nat) /\ data_offset \in Nat
            BY <2>2, SMTT(60) DEF Layout, Typed
        <3>2. Len(content[n]) = nodes[n].size
            BY <3>1, SMTT(60) DEF Holds
        <3>3. ASSUME NEW x \in 0..(ArenaSize - 1) PROVE Moved(n)[x] \in Nat
            <4>1. Moved(n)[x] = IF data_offset <= x /\ x < data_offset + nodes[n].size
                                THEN content[n][x - data_offset + 1] ELSE arena[x]
                BY <3>1, MovedIs, SMTT(60)
            <4>2. CASE data_offset <= x /\ x < data_offset + nodes[n].size
                <5>1. x - data_offset + 1 \in 1..Len(content[n])
                    BY <3>1, <3>2, <4>2
                <5> QED
                    BY <3>1, <4>1, <4>2, <5>1, SMTT(60)
            <4> QED
                BY <1>1, <4>1, <4>2, SMTT(60)
        <3>4. Moved(n) = [a \in 0..(ArenaSize - 1) |-> Moved(n)[a]]
            BY Zenon DEF Moved, Copied, Typed
        <3> QED
            BY <3>3, <3>4
    <2> QED
        BY <2>1, <2>2, SMTT(60)
<1>3. ASSUME NEW mem \in [0..(ArenaSize - 1) -> Nat], NEW b \in Int, NEW x \in 0..(ArenaSize - 1)
      PROVE  Put(mem, b, buf)[x] \in Nat
    <2> DEFINE k == (x - b) % SizeMod
    <2>1. k \in Nat /\ Len(buf) \in Nat
        BY <1>1
    <2>2. Put(mem, b, buf)[x] = IF k < Len(buf) THEN buf[k + 1] ELSE mem[x]
        BY DEF Put
    <2> HIDE DEF k
    <2>3. k < Len(buf) => buf[k + 1] \in Nat
        BY <2>1
    <2> QED
        BY <2>2, <2>3
<1>4. nodes[n].data + o \in Int /\ data_offset + o \in Int
    BY DEF Typed, NodeType
<1> QED
    BY <1>1, <1>2, <1>3, <1>4, Zenon DEF WriteInPlace, WriteMoving

\* At boot all is 0 and no file has an extent.
LEMMA InitDataInv == Init => DataInv
<1> SUFFICES ASSUME Init PROVE DataInv
    OBVIOUS
<1>1. /\ nodes = [n \in Nodes |-> [NoNode EXCEPT !.type =
                                     CASE n = 0 -> "DIR" [] n = 1 -> "CHARDEV" [] OTHER -> "NONE"]]
      /\ arena = [a \in 0..(ArenaSize - 1) |-> 0] /\ data_offset = 0
      /\ content = [n \in Nodes |-> <<>>]
    BY DEF Init
<1>2. ASSUME NEW n \in Nodes
      PROVE  /\ nodes[n].data = NULL /\ nodes[n].size = 0 /\ nodes[n].capacity = 0
             /\ content[n] = <<>>
    BY <1>1 DEF NoNode
<1>3. \A n \in Nodes : Laid(n) /\ Holds(n)
    BY <1>2 DEF Laid, Holds
<1>4. \A n, m \in Nodes : Apart(n, m)
    BY <1>2 DEF Apart
<1>5. \A a \in 0..(ArenaSize - 1) : arena[a] = 0
    BY <1>1
<1> QED
    BY <1>1, <1>2, <1>3, <1>4, <1>5 DEF DataInv, Layout

\* Every step keeps the contents.
LEMMA NextDataInv == Typed /\ DataInv /\ [Next]_vars => DataInv'
<1> SUFFICES ASSUME Typed, DataInv, [Next]_vars PROVE DataInv'
    OBVIOUS
<1>1. CASE UNCHANGED <<nodes, data_vars>>
    BY <1>1 DEF data_vars, DataInv, Layout, Laid, Holds, Apart
<1>2. ASSUME NEW n \in Nodes, NEW t \in {"FILE", "DIR"}, Creates(n, t),
             UNCHANGED <<arena, data_offset, void>>
      PROVE  DataInv'
    BY <1>2, BlankLayout, Zenon DEF Creates
<1>3. ASSUME NEW n \in Nodes, Remove(n) PROVE DataInv'
    <2>1. NoNode = [NoNode EXCEPT !.type = "NONE"]
        BY SMTT(60) DEF NoNode
    <2> QED
        BY <1>3, <2>1, BlankLayout, ZenonT(60) DEF Remove
<1>4. ASSUME NEW f \in Files, fs_write_fd(f) PROVE DataInv'
    <2> DEFINE n == files[f].node
               o == files[f].offset
    <2>1. n \in Nodes /\ o \in Nat
        BY DEF Typed, FileType
    <2>2. nodes[n].type = "FILE" /\ ~void
        BY <1>4 DEF fs_write_fd, Opened, Followed
    <2>3. PICK buf \in Buffers : /\ o \in Far \/ o + Len(buf) <= MaxSize
                                 /\ tmpfs_write_node(n, o, buf)
        BY <1>4 DEF fs_write_fd
    <2>4. buf \in Seq(Nat)
        BY BuffersAreBytes
    <2> HIDE DEF n, o
    <2>5. Layout
        BY <2>2, SMTT(60) DEF DataInv
    <2>6. ASSUME ~void' PROVE Layout'
        <3>1. content' = [content EXCEPT ![n] = Overlaid(content[n], o, buf)] /\ o \notin Far
            BY <2>3, <2>6, Zenon DEF tmpfs_write_node, Recorded
        <3>2. o + Len(buf) + CapUnit <= WordMod
            BY <2>1, <2>3, <2>4, <3>1, Bounds, FsAssumption
        <3>3. content[n] \in Seq(Nat)
            BY <2>1 DEF Typed
        <3>4. Extends(Overlaid(content[n], o, buf), content[n], o, buf)
            BY <2>1, <2>4, <3>3, OverlaidIs, Zenon DEF Extends
        <3> QED
            BY <2>1, <2>2, <2>3, <2>4, <2>5, <3>1, <3>2, <3>4, WriteInPlaceLayout, WriteMovingLayout, Zenon
               DEF tmpfs_write_node
    <2>7. \A a \in 0..(ArenaSize - 1) : arena'[a] \in Nat
        BY <2>1, <2>3, <2>4, <2>5, WriteNat, SMTT(60) DEF tmpfs_write_node
    <2>8. \A m \in Nodes : nodes'[m].type = "NONE" => nodes'[m].data = NULL
        <3>1. nodes'[n].type = "FILE" /\ \A m \in Nodes : m # n => nodes'[m] = nodes[m]
            BY <2>1, <2>2, <2>3 DEF tmpfs_write_node, WriteInPlace, WriteMoving, Typed, NodeType
        <3> QED
            BY <3>1 DEF DataInv
    <2> QED
        BY <2>6, <2>7, <2>8 DEF DataInv
<1>5. ASSUME NEW n \in Nodes, NEW e \in Entries, Len(e.data) + CapUnit <= WordMod,
             nodes[n].type = "NONE", WriteMoving(n, 0, ReadData(e)),
             content' = [content EXCEPT ![n] = IF e.extra = 0 THEN e.data ELSE <<>>],
             void' = (void \/ e.extra # 0)
      PROVE  DataInv'
    <2>1. nodes[n].data = NULL
        BY <1>5 DEF DataInv
    <2>2. ReadData(e) \in Seq(Nat) /\ Len(ReadData(e)) = Len(e.data)
        BY ReadDataIs
    <2>3. ASSUME ~void' PROVE Layout'
        <3>1. Layout /\ e.extra = 0 /\ ReadData(e) = e.data
            BY <1>5, <2>3, ReadDataIs, Zenon DEF DataInv
        <3>2. content' = [content EXCEPT ![n] = ReadData(e)]
            BY <1>5, <3>1, SMTT(60)
        <3>3. Len(content[n]) = 0
            <4>1. Laid(n) /\ Holds(n) /\ nodes[n].size \in Nat
                BY <3>1, SMTT(60) DEF Layout, Typed, NodeType
            <4> QED
                BY <2>1, <4>1 DEF Laid, Holds
        <3>4. Extends(ReadData(e), content[n], 0, ReadData(e))
            BY <2>2, <3>3, SMTT(60) DEF Extends
        <3> DEFINE o == 0
        <3>5. o \in Nat /\ o + Len(ReadData(e)) + CapUnit <= WordMod
            BY <1>5, <2>2, FsAssumption, SMTT(60)
        <3>6. WriteMoving(n, o, ReadData(e)) /\ Extends(ReadData(e), content[n], o, ReadData(e))
            BY <1>5, <3>4, Zenon
        <3> HIDE DEF o
        <3> QED
            BY <2>2, <3>1, <3>2, <3>5, <3>6, WriteMovingLayout, Zenon
    <2>4. \A a \in 0..(ArenaSize - 1) : arena'[a] \in Nat
        BY <1>5, <2>1, <2>2, WriteNat, Zenon
    <2>5. \A m \in Nodes : nodes'[m].type = "NONE" => nodes'[m].data = NULL
        <3>1. nodes'[n].type = "FILE" /\ \A m \in Nodes : m # n => nodes'[m] = nodes[m]
            BY <1>5 DEF WriteMoving, Typed
        <3> QED
            BY <3>1, SMTT(60) DEF DataInv
    <2> QED
        BY <2>3, <2>4, <2>5, SMTT(60) DEF DataInv
<1>6. CASE MountStep
    <2>1. ASSUME NEW i \in HeadersAt(mount.archive, mount.cursor), MountEntry(mount.archive[i])
          PROVE  DataInv'
        <3> DEFINE e == mount.archive[i]
        <3>1. i \in 1..Len(mount.archive) /\ mount.archive \in Seq(Entries)
            BY DEF HeadersAt, Typed, MountOK
        <3>2. e \in Entries
            BY <3>1
        <3>3. Len(e.data) + CapUnit <= WordMod
            BY <3>1 DEF Typed, MountOK
        <3>4. MountEntry(e)
            BY <2>1
        <3> HIDE DEF e
        <3>5. CASE UNCHANGED <<nodes, data_vars>>
            BY <1>1, <3>5, SMTT(60)
        <3>6. ASSUME NEW n \in Nodes, FirstFree(n), MountFile(n, e) PROVE DataInv'
            BY <1>2, <1>5, <3>2, <3>3, <3>6, SMTT(60) DEF MountFile, FirstFree
        <3>7. \/ UNCHANGED <<nodes, data_vars>>
              \/ \E n \in Nodes, t \in {"FILE", "DIR"} :
                    Creates(n, t) /\ UNCHANGED <<arena, data_offset, void>>
              \/ \E n \in Nodes : FirstFree(n) /\ MountFile(n, e)
            BY <3>4, SMTT(60) DEF MountEntry
        <3> QED
            BY <1>2, <3>5, <3>6, <3>7
    <2> QED
        BY <1>1, <1>6, <2>1 DEF MountStep
<1>7. ASSUME NEW p \in Procs, OpenExisting(p) \/ fs_close_fd(p) \/ ExecveOpen(p) PROVE DataInv'
    BY <1>1, <1>7 DEF OpenExisting, fs_close_fd, ExecveOpen
<1>8. ASSUME NEW p \in Procs, OpenCreate(p) PROVE DataInv'
    BY <1>2, <1>8 DEF OpenCreate
<1>9. ASSUME NEW f \in Files, fs_read_fd(f) \/ fs_lseek_fd(f) PROVE DataInv'
    BY <1>1, <1>9 DEF fs_read_fd, fs_lseek_fd
<1>10. CASE fs_mkdir_path
    BY <1>2, <1>10 DEF fs_mkdir_path
<1>11. CASE ExecveEnd \/ UNCHANGED vars
    BY <1>1, <1>11 DEF ExecveEnd, vars, data_vars
<1> QED
    BY <1>3, <1>4, <1>6, <1>7, <1>8, <1>9, <1>10, <1>11, SMTT(60) DEF Next

-----------------------------------------------------------------------------
(* The theorems.                                                           *)

IInv == Typed /\ FdInv /\ DataInv

\* The three invariants hold together in every reachable state.
THEOREM Invariance == Spec => []IInv
<1>1. Init => IInv
    <2>1. Init => FdInv
        BY DEF Init, FdInv, FdsExact, ProbeOK, NoFile, None
    <2> QED
        BY <2>1, InitTyped, InitDataInv DEF IInv
<1>2. IInv /\ [Next]_vars => IInv'
    BY NextTyped, NextFdInv, NextDataInv DEF IInv
<1> QED
    BY <1>1, <1>2, PTL DEF Spec

\* Every variable stays in its type: no write leaves the arena, no offset or
\* capacity leaves its word.
THEOREM TypeCorrect == Spec => []TypeOK
<1>1. IInv => TypeOK
    BY DEF IInv, Typed, DataInv, TypeOK, NodeType, FileType
<1> QED
    BY <1>1, Invariance, PTL

\* Descriptors and open files correspond one to one (fs_open_path, fs_close_fd).
THEOREM DescriptorsExact == Spec => []FdsExact
<1>1. IInv => FdsExact
    BY DEF IInv, FdInv
<1> QED
    BY <1>1, Invariance, PTL

\* elf_probe_path gives back the one descriptor it took (sys_execve).
THEOREM ExecveRestoresFds == Spec => ExecveRestores
<1>1. IInv /\ [Next]_vars =>
         [probe # NoProbe /\ probe' = NoProbe =>
             fds' = probe.before /\ ~files'[fds[probe.proc][probe.fd]].used]_vars
    <2> SUFFICES ASSUME IInv, Next, probe # NoProbe, probe' = NoProbe
                 PROVE  fds' = probe.before /\ ~files'[fds[probe.proc][probe.fd]].used
        OBVIOUS
    <2>1. ExecveEnd
        BY DEF Next, OpenExisting, OpenCreate, fs_close_fd, ExecveOpen, Remove, fs_write_fd,
               fs_read_fd, fs_lseek_fd, fs_mkdir_path, MountStep, Followed, Ready
    <2>2. Typed /\ FdsExact /\ ProbeOK
        BY DEF IInv, FdInv
    <2>3. probe.proc \in Procs /\ probe.fd \in Fds
        BY <2>2 DEF Typed, ProbeType
    <2>4. /\ fds' = [fds EXCEPT ![probe.proc][probe.fd] = None]
          /\ ~files'[fds[probe.proc][probe.fd]].used
        BY <2>1, <2>2, <2>3, CloseExact, SMTT(60) DEF ExecveEnd
    <2> QED
        BY <2>2, <2>4, SMTT(60) DEF ProbeOK
<1> QED
    BY <1>1, Invariance, PTL DEF Spec, ExecveRestores

\* Every file holds exactly what was packed or written into it, for every arena
\* and every sequence of calls (tmpfs_write_node, alloc_storage).
THEOREM FilesHoldContents == Spec => []ContentsExact
<1>1. IInv => ContentsExact
    <2> SUFFICES ASSUME IInv, ~void, NEW n \in Nodes
                 PROVE  /\ nodes[n].size = Len(content[n])
                        /\ \A k \in 1..nodes[n].size :
                              arena[nodes[n].data + k - 1] = content[n][k]
        BY SMTT(60) DEF ContentsExact
    <2>1. Laid(n) /\ Holds(n) /\ Typed
        BY DEF IInv, DataInv, Layout
    <2>2. nodes[n].size \in Nat /\ nodes[n].capacity \in Nat /\ nodes[n].data \in Int
        BY <2>1 DEF Typed, NodeType
    <2>3. ASSUME NEW k \in 1..nodes[n].size
          PROVE  arena[nodes[n].data + k - 1] = content[n][k]
        <3>1. /\ k - 1 \in 0..(nodes[n].capacity - 1) /\ k - 1 < nodes[n].size
              /\ k - 1 + 1 = k /\ nodes[n].data + (k - 1) = nodes[n].data + k - 1
            BY <2>1, <2>2, SMTT(60) DEF Laid
        <3>2. arena[nodes[n].data + (k - 1)] = content[n][k - 1 + 1]
            BY <2>1, <3>1 DEF Holds
        <3> QED
            BY <3>1, <3>2, SMTT(60)
    <2> QED
        BY <2>1, <2>3 DEF Holds
<1> QED
    BY <1>1, Invariance, PTL

-----------------------------------------------------------------------------
(* The mount keeps in step with the archive.                               *)

\* A set of natural numbers that is not empty has a least element.
LEMMA Least ==
    ASSUME NEW T, T \subseteq Nat, T # {}
    PROVE  \E s \in T : \A t \in T : s <= t
<1> DEFINE R == OpToRel(<, Nat)
<1>1. IsWellFoundedOn(R, Nat)
    BY NatLessThanWellFounded, Zenon
<1>2. \A s, t \in Nat : t < s => <<t, s>> \in R
    BY DEF OpToRel
<1> HIDE DEF R
<1>3. PICK s \in T : \A t \in T : ~(<<t, s>> \in R)
    BY <1>1, WFMin, Zenon
<1>4. \A t \in T : ~(t < s)
    BY <1>2, <1>3, Zenon
<1> QED
    BY <1>4

\* The places one behind the other of n things of the given lengths.
Adds(n, lengths, at) ==
    /\ at \in [1..(n + 1) -> Nat] /\ at[1] = 0
    /\ \A i \in 1..n : at[i + 1] = at[i] + lengths[i]

LEMMA AddsExist ==
    ASSUME NEW n \in Nat, NEW lengths \in [1..n -> Nat]
    PROVE  \E at : Adds(n, lengths, at)
<1> DEFINE T == {m \in Nat : m <= n /\ ~\E at : Adds(m, lengths, at)}
<1>1. ASSUME T # {} PROVE FALSE
    <2>1. PICK m \in T : \A t \in T : m <= t
        BY <1>1, Least, Zenon
    <2>2. m # 0
        <3> DEFINE at == [i \in 1..1 |-> 0]
        <3>1. Adds(0, lengths, at)
            BY DEF Adds
        <3> QED
            BY <3>1
    <2>3. m - 1 \in Nat /\ m - 1 <= n /\ ~(m <= m - 1) /\ m \in 1..n /\ m \in Nat
        BY <2>2
    <2>4. PICK at : Adds(m - 1, lengths, at)
        BY <2>1, <2>3, Zenon
    <2>5. /\ at \in [1..m -> Nat] /\ at[1] = 0
          /\ \A i \in 1..(m - 1) : at[i + 1] = at[i] + lengths[i]
        BY <2>3, <2>4 DEF Adds
    <2> DEFINE more == [i \in 1..(m + 1) |-> IF i = m + 1 THEN at[m] + lengths[m] ELSE at[i]]
    <2>6. more \in [1..(m + 1) -> Nat]
        <3>1. at[m] + lengths[m] \in Nat
            BY <2>3, <2>5
        <3>2. \A i \in 1..(m + 1) : i # m + 1 => at[i] \in Nat
            BY <2>3, <2>5
        <3> QED
            BY <3>1, <3>2
    <2>7. more[1] = 0
        BY <2>3, <2>5
    <2>8. \A i \in 1..m : more[i + 1] = more[i] + lengths[i]
        <3> TAKE i \in 1..m
        <3>1. more[i] = at[i]
            BY <2>3
        <3>2. CASE i = m
            BY <2>3, <3>1, <3>2
        <3>3. CASE i # m
            BY <2>3, <2>5, <3>1, <3>3
        <3> QED
            BY <3>2, <3>3
    <2>9. Adds(m, lengths, more)
        BY <2>6, <2>7, <2>8 DEF Adds
    <2> QED
        BY <2>9
<1>2. n \notin T
    BY <1>1, Zenon
<1> QED
    BY <1>2

\* Rounding up to a multiple of 4.
LEMMA Align4Is ==
    ASSUME NEW n \in Nat
    PROVE  align4(n) \in Nat /\ n <= align4(n)
BY DEF align4

LEMMA WrittenIs ==
    ASSUME NEW e \in Entries
    PROVE  /\ e.chars \in Nat /\ e.extra \in Nat /\ Len(e.data) \in Nat /\ namesz(e) \in Nat
           /\ Written(e) \in Nat
           /\ HeaderLen + namesz(e) <= align4(HeaderLen + namesz(e))
           /\ align4(HeaderLen + namesz(e)) + Len(e.data) <= Written(e)
           /\ align4(HeaderLen + namesz(e)) \in Nat /\ align4(Len(e.data)) \in Nat
           /\ Written(e) > 0
<1>1. e.chars \in Nat /\ e.extra \in Nat /\ Len(e.data) \in Nat
    BY DEF Entries
<1>2. namesz(e) \in Nat /\ HeaderLen + namesz(e) \in Nat /\ HeaderLen + namesz(e) > 0
    BY <1>1 DEF namesz, HeaderLen
<1> PICK a \in Nat : a = HeaderLen + namesz(e)
    BY <1>2
<1> PICK b \in Nat : b = Len(e.data)
    BY <1>1
<1>3. align4(a) \in Nat /\ a <= align4(a) /\ align4(b) \in Nat /\ b <= align4(b)
    BY Align4Is
<1>4. Written(e) = align4(a) + e.extra + align4(b)
    BY DEF Written
<1> QED
    BY <1>1, <1>2, <1>3, <1>4

\* Entries follow one another, each behind the bytes of the one before.
LEMMA BeginsIs ==
    ASSUME NEW archive \in Seq(Entries)
    PROVE  LET at == Begins(archive)
           IN  /\ at \in [1..(Len(archive) + 1) -> Nat] /\ at[1] = 0
               /\ \A i \in 1..Len(archive) : at[i + 1] = at[i] + Written(archive[i])
<1> DEFINE n == Len(archive)
           lengths == [i \in 1..n |-> Written(archive[i])]
           at[i \in 1..(n + 1)] == IF i = 1 THEN 0 ELSE at[i - 1] + Written(archive[i - 1])
<1>1. n \in Nat /\ \A i \in 1..n : archive[i] \in Entries
    OBVIOUS
<1>2. lengths \in [1..n -> Nat]
    BY <1>1, WrittenIs
<1>3. \A i \in 1..n : lengths[i] = Written(archive[i])
    OBVIOUS
<1> HIDE DEF lengths, n
<1>4. PICK f : Adds(n, lengths, f)
    BY <1>1, <1>2, AddsExist
<1>5. f = [i \in 1..(n + 1) |-> IF i = 1 THEN 0 ELSE f[i - 1] + Written(archive[i - 1])]
    <2>1. f \in [1..(n + 1) -> Nat] /\ f[1] = 0
        BY <1>4 DEF Adds
    <2>2. ASSUME NEW i \in 1..(n + 1), i # 1 PROVE f[i] = f[i - 1] + Written(archive[i - 1])
        <3>1. i - 1 \in 1..n /\ i - 1 + 1 = i
            BY <1>1, <2>2
        <3> QED
            BY <1>3, <1>4, <3>1 DEF Adds
    <2> QED
        BY <2>1, <2>2
<1>6. at = [i \in 1..(n + 1) |-> IF i = 1 THEN 0 ELSE at[i - 1] + Written(archive[i - 1])]
    BY <1>5, Zenon
<1>7. Begins(archive) = at
    BY DEF Begins, n
<1> HIDE DEF at
<1>8. at[1] = 0
    BY <1>1, <1>6
<1>9. ASSUME NEW i \in 1..n PROVE at[i + 1] = at[i] + Written(archive[i])
    <2>1. PICK k \in 1..(n + 1) : k = i + 1 /\ k # 1 /\ k - 1 = i
        BY <1>1
    <2>2. at[k] = at[k - 1] + Written(archive[k - 1])
        BY <1>6, <2>1
    <2> QED
        BY <2>1, <2>2, Zenon
<1> DEFINE T == {i \in Nat : i \in 1..(n + 1) /\ at[i] \notin Nat}
<1>10. ASSUME T # {} PROVE FALSE
    <2>1. PICK i \in T : \A t \in T : i <= t
        BY <1>10, Least, Zenon
    <2>2. i # 1 /\ i \in 1..(n + 1)
        BY <1>8
    <2>3. i - 1 \in 1..n /\ i - 1 \in 1..(n + 1) /\ i - 1 \in Nat /\ ~(i <= i - 1) /\ i - 1 + 1 = i
        BY <1>1, <2>2
    <2>4. at[i - 1] \in Nat
        BY <2>1, <2>3, Zenon
    <2>5. Written(archive[i - 1]) \in Nat
        BY <1>1, <2>3, WrittenIs
    <2>6. at[i] = at[i - 1] + Written(archive[i - 1])
        BY <1>9, <2>3
    <2> QED
        BY <2>4, <2>5, <2>6
<1>11. \A i \in 1..(n + 1) : at[i] \in Nat
    BY <1>1, <1>10
<1>12. at \in [1..(n + 1) -> Nat]
    BY <1>6, <1>11
<1> QED
    BY <1>7, <1>8, <1>9, <1>12 DEF n

LEMMA BeginsRise ==
    ASSUME NEW archive \in Seq(Entries), NEW i \in 1..(Len(archive) + 1),
           NEW j \in 1..(Len(archive) + 1), i < j
    PROVE  Begins(archive)[i] < Begins(archive)[j]
<1> DEFINE n == Len(archive)
           at == Begins(archive)
           T == {k \in Nat : k \in 1..(n + 1) /\ i < k /\ ~(at[i] < at[k])}
<1>1. n \in Nat /\ \A k \in 1..n : archive[k] \in Entries
    OBVIOUS
<1>2. /\ at \in [1..(n + 1) -> Nat]
      /\ \A k \in 1..n : at[k + 1] = at[k] + Written(archive[k])
    BY BeginsIs
<1> HIDE DEF n, at
<1>3. ASSUME T # {} PROVE FALSE
    <2>1. PICK k \in T : \A t \in T : k <= t
        BY <1>3, Least, Zenon
    <2>2. /\ k - 1 \in 1..n /\ k - 1 \in 1..(n + 1) /\ k - 1 \in Nat /\ ~(k <= k - 1)
          /\ k - 1 + 1 = k /\ i <= k - 1 /\ k \in 1..(n + 1) /\ i \in 1..(n + 1)
        BY <1>1 DEF n
    <2>3. Written(archive[k - 1]) \in Nat /\ Written(archive[k - 1]) > 0
        BY <1>1, <2>2, WrittenIs
    <2>4. at[k] = at[k - 1] + Written(archive[k - 1])
        BY <1>2, <2>2
    <2>5. at[i] \in Nat /\ at[k - 1] \in Nat /\ at[k] \in Nat
        BY <1>2, <2>2
    <2>6. i = k - 1 \/ at[i] < at[k - 1]
        BY <2>1, <2>2
    <2>7. at[i] < at[k]
        BY <2>3, <2>4, <2>5, <2>6
    <2> QED
        BY <2>7
<1>4. j \notin T
    BY <1>3, Zenon
<1>5. at[i] < at[j]
    BY <1>1, <1>4 DEF n
<1> QED
    BY <1>5 DEF at

\* What emit_tree makes: entries, with a trailer at the end and nowhere else.
Whole(archive) ==
    /\ archive \in Seq(Entries) /\ Len(archive) > 0
    /\ archive[Len(archive)].name = "trailer"
    /\ \A i \in 1..(Len(archive) - 1) : archive[i].name # "trailer"

ASCII(archive) == \A i \in DOMAIN archive : archive[i].extra = 0

\* The cursor is where an entry begins.
InStep ==
    mount # Mounted =>
        /\ Whole(mount.archive)
        /\ ASCII(mount.archive) => HeadersAt(mount.archive, mount.cursor) # {}

LEMMA EmitWhole == ASSUME NEW tree \in Trees PROVE Whole(emit_tree(tree))
<1> DEFINE a == emit_tree(tree)
<1>1. a \in Seq(Entries)
    BY EmitTree
<1>2. tree \in Seq([name : {"new", "known"}, chars : Nat, extra : Nat,
                    dir : BOOLEAN, data : Seq(Nat)])
    BY TreesAssumption
<1>3. Len(tree) \in Nat /\ \A i \in 1..Len(tree) : tree[i].name \in {"new", "known"}
    <2> DEFINE Packed == [name : {"new", "known"}, chars : Nat, extra : Nat,
                          dir : BOOLEAN, data : Seq(Nat)]
    <2>1. tree \in Seq(Packed) /\ \A e \in Packed : e.name \in {"new", "known"}
        BY <1>2
    <2> HIDE DEF Packed
    <2> QED
        BY <2>1
<1>4. Len(a) = Len(tree) + 2
    BY <1>2 DEF emit_tree
<1>5. a[1] = Dot /\ a[Len(tree) + 2] = Trailer
    BY <1>2 DEF emit_tree
<1>6. \A i \in 2..(Len(tree) + 1) : a[i] = tree[i - 1]
    BY <1>2 DEF emit_tree
<1>7. Dot.name = "dot" /\ Trailer.name = "trailer"
    BY DEF Dot, Trailer
<1> HIDE DEF a
<1>8. \A i \in 1..(Len(a) - 1) : a[i].name # "trailer"
    <2> TAKE i \in 1..(Len(a) - 1)
    <2>1. i = 1 \/ (i \in 2..(Len(tree) + 1) /\ i - 1 \in 1..Len(tree))
        BY <1>3, <1>4
    <2>2. CASE i = 1
        BY <1>5, <1>7, <2>2
    <2>3. CASE i \in 2..(Len(tree) + 1) /\ i - 1 \in 1..Len(tree)
        BY <1>3, <1>6, <2>3
    <2> QED
        BY <2>1, <2>2, <2>3
<1>9. Whole(a)
    BY <1>1, <1>3, <1>4, <1>5, <1>7, <1>8 DEF Whole
<1> QED
    BY <1>9 DEF a

LEMMA InitInStep == Init => InStep
<1> SUFFICES ASSUME Init PROVE InStep
    OBVIOUS
<1>1. PICK tree \in Trees, limit \in Int :
         mount = [cursor |-> 0, limit |-> limit, archive |-> emit_tree(tree)]
    BY DEF Init
<1>2. mount.archive = emit_tree(tree) /\ mount.cursor = 0
    BY <1>1
<1>3. Whole(mount.archive)
    BY <1>2, EmitWhole
<1>4. PICK a : a = mount.archive
    OBVIOUS
<1>5. 1 \in 1..Len(a) /\ Begins(a)[1] = 0
    BY <1>3, <1>4, BeginsIs DEF Whole
<1>6. 1 \in HeadersAt(a, 0)
    BY <1>5 DEF HeadersAt
<1> QED
    BY <1>2, <1>3, <1>4, <1>6 DEF InStep

\* Where the reader goes from an entry that is not the trailer.
LEMMA NextEntry ==
    ASSUME NEW a, Whole(a), ASCII(a), NEW c \in Int, NEW i \in HeadersAt(a, c),
           a[i].name # "trailer"
    PROVE  i + 1 \in HeadersAt(a, AfterEntry(a[i], c))
<1>1. i \in 1..Len(a) /\ c = Begins(a)[i] /\ Len(a) \in Nat /\ a \in Seq(Entries)
    BY DEF HeadersAt, Whole
<1>2. i # Len(a)
    BY DEF Whole
<1>3. i + 1 \in 1..Len(a)
    BY <1>1, <1>2
<1>4. Begins(a)[i + 1] = Begins(a)[i] + Written(a[i])
    BY <1>1, BeginsIs
<1>5. a[i] \in Entries /\ a[i].extra = 0
    BY <1>1 DEF ASCII
<1>6. AfterEntry(a[i], c) = c + Written(a[i])
    <2>1. PICK x \in Nat : x = align4(HeaderLen + namesz(a[i]))
        BY <1>5, WrittenIs
    <2>2. PICK y \in Nat : y = align4(Len(a[i].data))
        BY <1>5, WrittenIs
    <2>3. AfterEntry(a[i], c) = (c + x) + y
        BY <2>1, <2>2 DEF AfterEntry, DataAt
    <2>4. Written(a[i]) = x + 0 + y
        BY <1>5, <2>1, <2>2 DEF Written
    <2> QED
        BY <2>3, <2>4
<1> QED
    BY <1>1, <1>3, <1>4, <1>6 DEF HeadersAt

\* At an entry of an archive that was not cut, the mount returns only if that
\* entry is the trailer.
LEMMA ReturnsAtTrailer ==
    ASSUME NEW a, Whole(a), NEW c \in Int, NEW i \in HeadersAt(a, c),
           MountReturns(a, c, Size(a))
    PROVE  HeadersAt(a, c) = {Len(a)}
<1>1. i \in 1..Len(a) /\ c = Begins(a)[i] /\ Len(a) \in Nat /\ a \in Seq(Entries)
    BY DEF HeadersAt, Whole
<1>2. ASSUME NEW j \in HeadersAt(a, c) PROVE j = i
    <2>1. j \in 1..Len(a) /\ Begins(a)[j] = Begins(a)[i]
        BY <1>1 DEF HeadersAt
    <2>2. i \in 1..(Len(a) + 1) /\ j \in 1..(Len(a) + 1)
        BY <1>1, <2>1
    <2>3. ~(Begins(a)[i] < Begins(a)[i])
        <3>1. Begins(a)[i] \in Nat
            BY <1>1, <2>2, BeginsIs
        <3> QED
            BY <3>1
    <2>4. ~(i < j) /\ ~(j < i)
        BY <1>1, <2>1, <2>2, <2>3, BeginsRise
    <2> QED
        BY <1>1, <2>1, <2>4
<1>3. a[i] \in Entries
    BY <1>1
<1>4. PICK L \in Nat : L = Size(a) /\ Begins(a)[i + 1] <= L
    <2>1. Len(a) + 1 \in 1..(Len(a) + 1) /\ i + 1 \in 1..(Len(a) + 1)
        BY <1>1
    <2>2. Size(a) \in Nat /\ Begins(a)[i + 1] \in Nat
        BY <1>1, <2>1, BeginsIs DEF Size
    <2>3. i + 1 = Len(a) + 1 \/ i + 1 < Len(a) + 1
        BY <1>1
    <2>4. i + 1 = Len(a) + 1 \/ Begins(a)[i + 1] < Size(a)
        BY <1>1, <2>1, <2>3, BeginsRise DEF Size
    <2>5. Begins(a)[i + 1] <= Size(a)
        BY <2>2, <2>4 DEF Size
    <2> QED
        BY <2>2, <2>5
<1>5. Begins(a)[i + 1] = c + Written(a[i])
    BY <1>1, BeginsIs
<1>6. PICK x \in Nat : x = align4(HeaderLen + namesz(a[i]))
    BY <1>3, WrittenIs
<1>7. PICK d \in Nat : d = Len(a[i].data)
    BY <1>3, WrittenIs
<1>8. PICK w \in Nat : w = Written(a[i])
    BY <1>3, WrittenIs
<1>9. PICK z \in Nat : z = namesz(a[i])
    BY <1>3, WrittenIs
<1>10. HeaderLen + z <= x /\ x + d <= w /\ c + w <= L
    BY <1>3, <1>4, <1>5, <1>6, <1>7, <1>8, <1>9, WrittenIs
<1>11. /\ ~(c + HeaderLen > L) /\ ~(c + HeaderLen + z > L) /\ ~(c + x + d > L)
    BY <1>10 DEF HeaderLen
<1>12. a[i].name = "trailer"
    <2>1. MountReturns(a, c, L)
        BY <1>4
    <2>2. \E j \in HeadersAt(a, c) :
             \/ c + HeaderLen + namesz(a[j]) > L
             \/ a[j].name = "trailer"
             \/ a[j].name # "dot" /\ DataAt(a[j], c) + Len(a[j].data) > L
        BY <1>11, <2>1, Zenon DEF MountReturns
    <2>3. \/ c + HeaderLen + z > L
          \/ a[i].name = "trailer"
          \/ c + x + d > L
        BY <1>2, <1>6, <1>7, <1>9, <2>2, Zenon DEF DataAt
    <2> QED
        BY <1>11, <2>3
<1>13. i = Len(a)
    BY <1>1, <1>12 DEF Whole
<1> QED
    BY <1>2, <1>13

LEMMA MountInStep == ASSUME Typed, InStep, MountStep PROVE InStep'
<1>1. CASE mount' = Mounted
    BY <1>1 DEF InStep
<1>2. CASE mount' # Mounted
    <2>1. /\ mount # Mounted
          /\ ~MountReturns(mount.archive, mount.cursor, mount.limit)
          /\ \E i \in HeadersAt(mount.archive, mount.cursor) :
                mount' = [mount EXCEPT !.cursor = AfterEntry(mount.archive[i], @)]
        BY <1>2, Zenon DEF MountStep
    <2>2. PICK a : a = mount.archive
        OBVIOUS
    <2>3. PICK c \in Int : c = mount.cursor
        BY DEF Typed, MountOK
    <2>4. PICK i \in HeadersAt(a, c) : mount' = [mount EXCEPT !.cursor = AfterEntry(a[i], c)]
        BY <2>1, <2>2, <2>3
    <2>5. mount'.archive = a /\ mount'.cursor = AfterEntry(a[i], c)
        BY <2>2, <2>4 DEF Typed, MountOK
    <2>6. a[i].name # "trailer"
        BY <2>1, <2>2, <2>3, Zenon DEF MountReturns
    <2>7. Whole(a)
        BY <2>1, <2>2 DEF InStep
    <2>8. ASCII(a) => HeadersAt(a, AfterEntry(a[i], c)) # {}
        BY <2>6, <2>7, NextEntry
    <2> QED
        BY <2>5, <2>7, <2>8 DEF InStep
<1> QED
    BY <1>1, <1>2

LEMMA NextInStep == Typed /\ InStep /\ [Next]_vars => InStep'
<1> SUFFICES ASSUME Typed, InStep, [Next]_vars PROVE InStep'
    OBVIOUS
<1>1. MountStep \/ UNCHANGED mount
    BY Zenon DEF Next, OpenExisting, OpenCreate, fs_close_fd, ExecveOpen, Remove, fs_write_fd,
           fs_read_fd, fs_lseek_fd, fs_mkdir_path, ExecveEnd, vars
<1> QED
    BY <1>1, MountInStep DEF InStep

\* An archive of names in ASCII that was not cut is read to its trailer, whatever
\* the number, the names and the lengths of its entries (fs_mount_initramfs).
THEOREM MountReadsAll == Spec => MountComplete
<1> DEFINE I == Typed /\ InStep
<1>1. Init => I
    BY InitTyped, InitInStep
<1>2. I /\ [Next]_vars => I'
    BY NextTyped, NextInStep
<1>3. I /\ [Next]_vars =>
         [mount # Mounted /\ mount' = Mounted /\ mount.limit = Size(mount.archive)
            /\ (\A i \in DOMAIN mount.archive : mount.archive[i].extra = 0)
          => HeadersAt(mount.archive, mount.cursor) = {Len(mount.archive)}]_vars
    <2> SUFFICES ASSUME Typed, InStep, Next, mount # Mounted, mount' = Mounted,
                        mount.limit = Size(mount.archive), ASCII(mount.archive)
                 PROVE  HeadersAt(mount.archive, mount.cursor) = {Len(mount.archive)}
        BY DEF ASCII
    <2>1. MountStep
        BY Zenon DEF Next, OpenExisting, OpenCreate, fs_close_fd, ExecveOpen, Remove, fs_write_fd,
           fs_read_fd, fs_lseek_fd, fs_mkdir_path, ExecveEnd, vars
    <2>2. PICK a : a = mount.archive /\ Whole(a) /\ HeadersAt(a, mount.cursor) # {}
        BY DEF InStep
    <2>3. PICK c \in Int : c = mount.cursor
        BY DEF Typed, MountOK
    <2>4. MountReturns(a, c, Size(a))
        <3> SUFFICES ASSUME ~MountReturns(mount.archive, mount.cursor, mount.limit) PROVE FALSE
            BY <2>2, <2>3
        <3>1. PICK e : mount' = [mount EXCEPT !.cursor = e]
            BY <2>1 DEF MountStep
        <3>2. mount'.archive = a
            BY <2>2, <3>1 DEF Typed, MountOK
        <3>3. Mounted.archive = <<>>
            BY DEF Mounted
        <3> QED
            BY <2>2, <3>2, <3>3 DEF Whole
    <2> QED
        BY <2>2, <2>3, <2>4, ReturnsAtTrailer
<1> QED
    BY <1>1, <1>2, <1>3, PTL DEF Spec, MountComplete
=============================================================================
