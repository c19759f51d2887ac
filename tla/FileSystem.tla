----------------------------- MODULE FileSystem -----------------------------
(***************************************************************************)
(* Files as tasks see them (src/kernel/fs.c, elf.c, and the data half of   *)
(* tmpfs.c): each task's descriptors, the table of open files they all     *)
(* share, the nodes, and the arena that holds the contents.  The arena is  *)
(* handed out from one end and never taken back: a file that outgrows its  *)
(* extent moves to a new one.                                              *)
(*                                                                         *)
(* Every call runs with interrupts masked and is one step; execve, which   *)
(* opens, allocates, reads and closes, is two, with nothing in between.    *)
(* The paths a call is given are abstracted to what tmpfs resolves them to *)
(* (module TmpFs): a node that exists, or one that is created.  A task     *)
(* that exits closes nothing and makes no more calls.                      *)
(*                                                                         *)
(* Offsets are size_t and wrap at SizeMod.  Capacities are rounded with a  *)
(* mask of 32 bits and keep nothing above WordMod.                         *)
(***************************************************************************)
EXTENDS Initramfs

CONSTANTS
    Procs,                 \* tasks that make calls
    MaxFds,                \* MGCORE_MAX_FDS; descriptors start at 3
    MaxFiles,              \* entries of g_open_files
    MaxNodes,              \* MGCORE_MAX_NODES
    Bytes,                 \* the bytes tasks write; memory starts as 0
    ArenaSize,             \* TMPFS_DATA_ARENA_SIZE
    CapUnit,               \* 256: capacities are multiples of it
    Align,                 \* 16: extents and heap blocks are multiples of it
    HeapSize,              \* KERNEL_HEAP_SIZE
    WordMod, SizeMod,      \* 2^32, 2^64
    MaxOffset, Far,        \* the offsets lseek sets: up to MaxOffset, and Far
    MaxCount               \* bound on the bytes of one call

ASSUME FsAssumption ==
    /\ MaxFds \in Nat /\ MaxFds >= 3 /\ MaxFiles \in Nat
    /\ MaxNodes \in Nat /\ MaxNodes >= 2
    /\ Bytes \subseteq Nat
    /\ ArenaSize \in Nat /\ HeapSize \in Nat
    /\ CapUnit \in Nat \ {0} /\ Align \in Nat \ {0}
    /\ MaxOffset \in Nat /\ MaxCount \in Nat
    /\ WordMod \in Nat /\ WordMod % CapUnit = 0 /\ WordMod > MaxOffset + MaxCount + CapUnit
    /\ SizeMod \in Nat /\ SizeMod % WordMod = 0 /\ SizeMod >= WordMod /\ SizeMod >= ArenaSize
    /\ Far \subseteq WordMod..(SizeMod - 1)

\* The archive is made of names and bytes, and no file in it nears 4 GiB.
ASSUME TreesAssumption ==
    /\ Trees \subseteq Seq([name : {"new", "known"}, chars : Nat, extra : Nat,
                            dir : BOOLEAN, data : Seq(Nat)])
    /\ \A tree \in Trees : \A i \in DOMAIN tree : Len(tree[i].data) + CapUnit <= WordMod

Fds == 3..(MaxFds - 1)
Files == 0..(MaxFiles - 1)
Nodes == 0..(MaxNodes - 1)
None == -1
NULL == -1

VARIABLES
    nodes,                 \* g_nodes: type, data (an index of the arena), size, capacity
    arena, data_offset,    \* g_data_arena, g_data_offset
    files,                 \* g_open_files: used, refs, node, offset
    fds,                   \* the descriptor tables: an open file or None
    heap,                  \* g_heap_offset
    mount,                 \* the archive being mounted, Mounted when that is over
    probe,                 \* the execve in progress, NoProbe if none
    content,               \* history: what was packed in or written to each file
    void                   \* history: the contents are no longer followed

vars == <<nodes, arena, data_offset, files, fds, heap, mount, probe, content, void>>

MaxSize == MaxOffset + MaxCount
NoNode == [type |-> "NONE", data |-> NULL, size |-> 0, capacity |-> 0]
NoFile == [used |-> FALSE, refs |-> 0, node |-> 0, offset |-> 0]

\* An execve has opened descriptor fd of task proc; before is what the
\* descriptor tables were when it began.
NoProbe == [fd |-> None]

Mounted == [cursor |-> 0, limit |-> 0, archive |-> <<>>]

TypeOK ==
    /\ nodes \in [Nodes -> [type : {"NONE", "FILE", "DIR", "CHARDEV"}, data : Int,
                            size : 0..(SizeMod - 1), capacity : 0..ArenaSize]]
    /\ arena \in [0..(ArenaSize - 1) -> Nat] /\ data_offset \in 0..ArenaSize
    /\ files \in [Files -> [used : BOOLEAN, refs : Int, node : Nodes, offset : 0..(SizeMod - 1)]]
    /\ fds \in [Procs -> [Fds -> Files \cup {None}]]
    /\ heap \in 0..HeapSize
    /\ void \in BOOLEAN
    /\ content \in [Nodes -> Seq(Nat)]

\* fs_init: the root and one device exist; nothing is open.  The archive the
\* boot loader hands over may be cut anywhere; an empty one is as good as none.
Init ==
    /\ nodes = [n \in Nodes |-> [NoNode EXCEPT !.type =
                                    CASE n = 0 -> "DIR" [] n = 1 -> "CHARDEV" [] OTHER -> "NONE"]]
    /\ arena = [a \in 0..(ArenaSize - 1) |-> 0] /\ data_offset = 0
    /\ files = [f \in Files |-> NoFile]
    /\ fds = [p \in Procs |-> [d \in Fds |-> None]]
    /\ heap = 0 /\ probe = NoProbe
    /\ content = [n \in Nodes |-> <<>>] /\ void = FALSE
    /\ \E tree \in Trees :
          \E limit \in 0..Size(emit_tree(tree)) :
             mount = [cursor |-> 0, limit |-> limit, archive |-> emit_tree(tree)]

data_vars == <<arena, data_offset, content, void>>

\* The boot is over and no execve is under way.  Once the contents are no longer
\* followed, the model goes on opening and closing only.
Ready == mount = Mounted /\ probe = NoProbe
Followed == Ready /\ ~void
RoundUp(n, unit) == ((n + unit - 1) \div unit) * unit

-----------------------------------------------------------------------------
(* Opening.                                                                *)

\* alloc_open_file takes the first unused entry, attach_fd the first free
\* descriptor.
FreeFile(f) == ~files[f].used /\ \A g \in Files : g < f => files[g].used
FreeFd(p, d) == fds[p][d] = None /\ \A e \in Fds : e < d => fds[p][e] # None
NoFreeFile == \A f \in Files : files[f].used
NoFreeFd(p) == \A d \in Fds : fds[p][d] # None

alloc_open_file(n) == [used |-> TRUE, refs |-> 1, node |-> n, offset |-> 0]

\* The call of task p on node n gets entry f and descriptor d.
Attach(p, n, f, d) ==
    /\ FreeFile(f) /\ FreeFd(p, d)
    /\ files' = [files EXCEPT ![f] = alloc_open_file(n)]
    /\ fds' = [fds EXCEPT ![p][d] = f]

\* Mutant: the entry stays taken when the task has no descriptor left.
AttachFails_leak(p, n, f) ==
    /\ FreeFile(f) /\ NoFreeFd(p)
    /\ files' = [files EXCEPT ![f] = alloc_open_file(n)]
    /\ UNCHANGED fds

\* -EMFILE: the entry is marked unused again.  Its other fields stay set, and
\* are set anew when it is next taken.
AttachFails(p, n, f) ==
    /\ FreeFile(f) /\ NoFreeFd(p)
    /\ UNCHANGED <<files, fds>>

\* What fs_open_path does once the node is found; -ENFILE changes nothing.
Opens(p, n) ==
    \/ \E f \in Files, d \in Fds : Attach(p, n, f, d)
    \/ \E f \in Files : AttachFails(p, n, f)
    \/ NoFreeFile /\ UNCHANGED <<files, fds>>

\* open of a path that exists
OpenExisting(p) ==
    /\ Ready
    /\ \E n \in Nodes : nodes[n].type # "NONE" /\ Opens(p, n)
    /\ UNCHANGED <<nodes, data_vars, heap, mount, probe>>

\* tmpfs_create_path: the first free node, emptied.
FirstFree(n) == nodes[n].type = "NONE" /\ \A m \in Nodes : m < n => nodes[m].type # "NONE"
Creates(n, t) ==
    /\ FirstFree(n)
    /\ nodes' = [nodes EXCEPT ![n] = [NoNode EXCEPT !.type = t]]
    /\ content' = [content EXCEPT ![n] = <<>>]

\* open with O_CREAT of a path that does not exist: the node is created first
\* and stays, whether or not the rest succeeds.
OpenCreate(p) ==
    /\ Followed
    /\ \E n \in Nodes : Creates(n, "FILE") /\ Opens(p, n)
    /\ UNCHANGED <<arena, data_offset, void, heap, mount, probe>>

fs_mkdir_path ==
    /\ Followed
    /\ \E n \in Nodes : Creates(n, "DIR")
    /\ UNCHANGED <<arena, data_offset, void, files, fds, heap, mount, probe>>

-----------------------------------------------------------------------------
(* Closing and removing.                                                   *)

\* The entry is cleared when the last reference goes.
Close(p, d) ==
    LET f == fds[p][d]
        left == files[f].refs - 1
    IN  /\ f # None
        /\ files' = [files EXCEPT ![f] = IF left <= 0 THEN NoFile ELSE [@ EXCEPT !.refs = left]]
        /\ fds' = [fds EXCEPT ![p][d] = None]

\* sys_close; closing what is not open changes nothing.
fs_close_fd(p) ==
    /\ Ready
    /\ \E d \in Fds : Close(p, d)
    /\ UNCHANGED <<nodes, data_vars, heap, mount, probe>>

\* unlink or rmdir of any node but the root.  Descriptors are not consulted,
\* and the extent is lost.
Remove(n) ==
    /\ Followed
    /\ n # 0 /\ nodes[n].type # "NONE"
    /\ nodes' = [nodes EXCEPT ![n] = NoNode]
    /\ content' = [content EXCEPT ![n] = <<>>]
    /\ UNCHANGED <<arena, data_offset, void, files, fds, heap, mount, probe>>

-----------------------------------------------------------------------------
(* Reading and writing.  An open file whose node is gone, is a directory   *)
(* or is a device has no contents: the calls fail or go to the console.    *)

\* The arena with n bytes copied from address a to address b, and with the
\* bytes buf put at address b; what falls outside it is lost.
Copied(mem, a, b, n) ==
    [x \in DOMAIN mem |-> IF x \in b..(b + n - 1) THEN mem[a + x - b] ELSE mem[x]]
Put(mem, b, buf) ==
    [x \in DOMAIN mem |->
        LET k == (x - b) % SizeMod IN IF k < Len(buf) THEN buf[k + 1] ELSE mem[x]]

\* alloc_storage has n bytes left to give.
StorageFits(n) == data_offset + RoundUp(n, Align) <= ArenaSize

\* end_offset, in 64 bits.
End(o, buf) == (o + Len(buf)) % SizeMod

\* The size and the history after buf is written at offset o of node n.
Grown(n, o, buf) == IF End(o, buf) > nodes[n].size THEN End(o, buf) ELSE nodes[n].size
Overlaid(s, o, buf) ==
    [k \in 1..(IF o + Len(buf) > Len(s) THEN o + Len(buf) ELSE Len(s)) |->
        IF k - o \in 1..Len(buf) THEN buf[k - o] ELSE IF k <= Len(s) THEN s[k] ELSE 0]
Recorded(n, o, buf) ==
    /\ void' = (o \in Far)
    /\ content' = IF void' THEN [m \in Nodes |-> <<>>]
                  ELSE [content EXCEPT ![n] = Overlaid(@, o, buf)]

\* With data = NULL the bytes go below the arena, or nowhere if there are none.
WriteInPlace(n, o, buf) ==
    /\ End(o, buf) <= nodes[n].capacity
    /\ arena' = IF nodes[n].data = NULL THEN arena ELSE Put(arena, nodes[n].data + o, buf)
    /\ nodes' = [nodes EXCEPT ![n].size = Grown(n, o, buf)]
    /\ UNCHANGED data_offset

\* Mutant: the old bytes do not move along.
Moved_bare(n) == arena

\* The old bytes, at the start of the new extent.
Moved(n) ==
    IF nodes[n].data = NULL \/ nodes[n].size > nodes[n].capacity THEN arena
    ELSE Copied(arena, nodes[n].data, data_offset, nodes[n].size)

\* The file moves to a new extent.
WriteMoving(n, o, buf) ==
    LET cap == RoundUp(End(o, buf), CapUnit) % WordMod
    IN  /\ End(o, buf) > nodes[n].capacity
        /\ StorageFits(cap)
        /\ arena' = Put(Moved(n), data_offset + o, buf)
        /\ nodes' = [nodes EXCEPT ![n] = [type |-> "FILE", data |-> data_offset,
                                          size |-> Grown(n, o, buf), capacity |-> cap]]
        /\ data_offset' = data_offset + RoundUp(cap, Align)

\* A full arena (-ENOSPC) changes nothing.
tmpfs_write_node(n, o, buf) ==
    (WriteInPlace(n, o, buf) \/ WriteMoving(n, o, buf)) /\ Recorded(n, o, buf)

Buffers == UNION {[1..n -> Bytes] : n \in 0..MaxCount}
Opened == {f \in Files : files[f].used /\ nodes[files[f].node].type = "FILE"}

\* write: the offset stays where it is.
fs_write_fd(f) ==
    /\ Followed /\ f \in Opened
    /\ \E buf \in Buffers :
          /\ files[f].offset \in Far \/ files[f].offset + Len(buf) <= MaxSize
          /\ tmpfs_write_node(files[f].node, files[f].offset, buf)
    /\ UNCHANGED <<files, fds, heap, mount, probe>>

\* The bytes a read of count bytes returns.
tmpfs_read_node(n, o, count) ==
    LET rest == IF o >= nodes[n].size THEN 0 ELSE nodes[n].size - o
    IN  IF count > rest THEN rest ELSE count

\* read moves the offset past what it returned.
fs_read_fd(f) ==
    /\ Followed /\ f \in Opened
    /\ \E count \in 1..MaxCount :
          files' = [files EXCEPT ![f].offset = @ + tmpfs_read_node(files[f].node, @, count)]
    /\ UNCHANGED <<nodes, data_vars, fds, heap, mount, probe>>

\* lseek adds without a check, in 64 bits: from the start, from the offset or
\* from the end, every offset can be set.  (That of a directory or a device
\* matters only once a file has its node, and can be set then as well.)
fs_lseek_fd(f) ==
    /\ Followed /\ f \in Opened
    /\ \E offset \in (0..MaxOffset) \cup Far :
          files' = [files EXCEPT ![f].offset = offset]
    /\ UNCHANGED <<nodes, data_vars, fds, heap, mount, probe>>

-----------------------------------------------------------------------------
(* The boot mounts the archive before any task makes a call: one step per  *)
(* entry.                                                                  *)

\* A new file with data: created, then written from its start, and left empty
\* when the arena is full.  The history is what was packed; under a name that
\* is not ASCII the data is read from the wrong place and not followed further.
MountFile(n, e) ==
    /\ \/ WriteMoving(n, 0, ReadData(e))
          /\ content' = [content EXCEPT ![n] = IF e.extra = 0 THEN e.data ELSE <<>>]
          /\ void' = (void \/ e.extra # 0)
       \/ ~StorageFits(RoundUp(Len(e.data), CapUnit)) /\ Creates(n, "FILE")
          /\ UNCHANGED <<arena, data_offset, void>>

\* The directory itself, and paths that are there already, are passed over, and
\* so is everything once the nodes have run out.
MountEntry(e) ==
    \/ /\ e.name \in {"dot", "known"} \/ \A n \in Nodes : nodes[n].type # "NONE"
       /\ UNCHANGED <<nodes, data_vars>>
    \/ /\ e.name = "new" /\ (e.dir \/ e.data = <<>>)
       /\ \E n \in Nodes : Creates(n, IF e.dir THEN "DIR" ELSE "FILE")
       /\ UNCHANGED <<arena, data_offset, void>>
    \/ /\ e.name = "new" /\ ~e.dir /\ e.data # <<>>
       /\ \E n \in Nodes : FirstFree(n) /\ MountFile(n, e)

MountStep ==
    /\ mount # Mounted
    /\ IF MountReturns(mount.archive, mount.cursor, mount.limit)
       THEN mount' = Mounted /\ UNCHANGED <<nodes, data_vars>>
       ELSE \E i \in HeadersAt(mount.archive, mount.cursor) :
               /\ mount' = [mount EXCEPT !.cursor = AfterEntry(mount.archive[i], @)]
               /\ MountEntry(mount.archive[i])
    /\ UNCHANGED <<files, fds, heap, probe>>

-----------------------------------------------------------------------------
(* sys_execve probes the program and starts nothing.  elf_probe_path opens *)
(* it, asks for its size, takes that much of the kernel heap, reads it and *)
(* closes it; no other call comes in between.                              *)

ExecveOpen(p) ==
    /\ Followed
    /\ \E n \in Nodes, f \in Files, d \in Fds :
          /\ nodes[n].type # "NONE"
          /\ Attach(p, n, f, d)
          /\ probe' = [proc |-> p, fd |-> d, before |-> fds]
    /\ UNCHANGED <<nodes, data_vars, heap, mount>>

\* kalloc never gets anything back; it refuses a size of 0 and one that no
\* longer fits.
kalloc(s) == IF heap + RoundUp(s, Align) > HeapSize THEN heap ELSE heap + RoundUp(s, Align)

ProbeSize == nodes[files[fds[probe.proc][probe.fd]].node].size

\* Mutant: -ENOMEM is returned without closing.
ExecveEnd_open ==
    /\ probe # NoProbe
    /\ heap' = kalloc(ProbeSize)
    /\ IF heap' = heap THEN UNCHANGED <<files, fds>> ELSE Close(probe.proc, probe.fd)
    /\ probe' = NoProbe
    /\ UNCHANGED <<nodes, data_vars, mount>>

\* Whatever kalloc and the read return, the descriptor is closed.
ExecveEnd ==
    /\ probe # NoProbe
    /\ heap' = kalloc(ProbeSize)
    /\ Close(probe.proc, probe.fd)
    /\ probe' = NoProbe
    /\ UNCHANGED <<nodes, data_vars, mount>>

Next ==
    \/ \E p \in Procs : OpenExisting(p) \/ OpenCreate(p) \/ fs_close_fd(p) \/ ExecveOpen(p)
    \/ \E n \in Nodes : Remove(n)
    \/ \E f \in Files : fs_write_fd(f) \/ fs_read_fd(f) \/ fs_lseek_fd(f)
    \/ fs_mkdir_path \/ ExecveEnd \/ MountStep

Spec == Init /\ [][Next]_vars

-----------------------------------------------------------------------------
(* Properties.                                                             *)

\* Every descriptor of every task refers to an entry in use, every entry in
\* use is referred to by exactly one descriptor and its count says so: no order
\* of opens, failed opens, closes, removals and execs leaks an entry, or lets two
\* descriptors share one.
FdsExact ==
    /\ \A p \in Procs, d \in Fds : fds[p][d] # None => files[fds[p][d]].used
    /\ \A p, q \in Procs, d, e \in Fds :
          fds[p][d] # None /\ fds[p][d] = fds[q][e] => p = q /\ d = e
    /\ \A f \in Files : files[f].used =>
          /\ files[f].refs = 1
          /\ \E p \in Procs, d \in Fds : fds[p][d] = f

\* execve gives back the descriptor it used, on every one of its paths, and
\* touches no other.
ExecveRestores ==
    [][probe # NoProbe /\ probe' = NoProbe =>
          fds' = probe.before /\ ~files'[fds[probe.proc][probe.fd]].used]_vars

\* A file is as long as what was packed or written into it and holds exactly
\* those bytes, 0 where there were none: through the layout of the archive,
\* growth, moves, holes left by lseek, reuse of nodes, writes to other files, and
\* descriptors that outlive their file.  This holds as long as nothing is written
\* at an offset of 2^32 or more, where the 64-bit end of the write wraps or its
\* capacity loses its upper half, and no packed name is other than ASCII.
ContentsExact ==
    ~void => \A n \in Nodes : nodes[n].type = "FILE" =>
                /\ nodes[n].size = Len(content[n])
                /\ \A k \in 1..nodes[n].size : arena[nodes[n].data + k - 1] = content[n][k]

\* The mount gives up only where the archive was cut, or behind a name that is
\* not ASCII: it reads every entry of a whole archive, and stops at the trailer.
MountComplete ==
    [][mount # Mounted /\ mount' = Mounted /\ mount.limit = Size(mount.archive)
         /\ (\A i \in DOMAIN mount.archive : mount.archive[i].extra = 0)
       => HeadersAt(mount.archive, mount.cursor) = {Len(mount.archive)}]_vars
=============================================================================
