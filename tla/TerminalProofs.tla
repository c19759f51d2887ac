--------------------------- MODULE TerminalProofs ---------------------------
(***************************************************************************)
(* Proofs about the console's input ring and the keyboard driver, for      *)
(* every capacity of the ring and every interleaving of the keyboard's     *)
(* interrupts with the shell's accesses.                                   *)
(* And about the shell's prompt: for every length of the line, number of   *)
(* arguments and alphabet it stays in its buffer and is the editor of      *)
(* LineEdit.                                                               *)
(***************************************************************************)
EXTENDS Terminal, Shell, FiniteSetTheorems, WellFoundedInduction, TLAPS

\* How many characters lie between the indexes, and the slot of the i-th.
Used(r, w) == (w - r) % Cap
Cell(r, i) == (r + i - 1) % Cap

\* The slots from the read index on hold the queue.
Exact ==
    /\ Len(queue) = Used(read_index, write_index)
    /\ \A i \in 1..Len(queue) : queue[i] = buffer[Cell(read_index, i)]

\* The ring between any two accesses of the shell.
RingInv ==
    /\ TypeOK
    /\ pc = "clear_write" => read_index = 0
    /\ pc \in {"store", "commit"} => char \in Chars
    /\ ~raced =>
          /\ pc # "clear_write" => Exact
          /\ pc \in {"store", "commit"} => loaded = write_index /\ ~input_buffer_is_full
          /\ pc = "commit" => buffer[write_index] = char
          /\ pc = "popped" => queue # <<>> /\ char = Head(queue)

Shifts == {"lshift", "rshift"}
Ctrls == {"lctrl", "rctrl"}

\* A keyboard without twins of Shift and Ctrl.  With both Shift keys down,
\* letting go of one makes the driver forget the other.
NoTwins == ~(Shifts \subseteq Keys) /\ ~(Ctrls \subseteq Keys)

\* The last byte of the key whose bytes are being sent.
LastByte == IF key \in held THEN K!Press(K!Code[key]) ELSE K!Release(K!Code[key])

\* The driver's flags against the keys that are down: the prefix flag is set
\* only between the bytes of a prefixed key, and the modifiers agree but for the
\* one whose own byte is still to come.
KeysInv ==
    /\ held \subseteq Keys
    /\ g_shift_active \in BOOLEAN /\ g_ctrl_active \in BOOLEAN
    /\ \/ bytes = <<>> /\ key = "none" /\ g_extended_sequence = FALSE
       \/ /\ key \in Keys /\ g_extended_sequence = FALSE
          /\ bytes = IF key \in K!Prefixed THEN <<K!E0, LastByte>> ELSE <<LastByte>>
       \/ key \in Keys \cap K!Prefixed /\ g_extended_sequence = TRUE /\ bytes = <<LastByte>>
    /\ key \notin Shifts => (g_shift_active <=> held \cap Shifts # {})
    /\ key \notin Ctrls => (g_ctrl_active <=> held \cap Ctrls # {})

----------------------------------------------------------------------------
(* Indexes.                                                                *)

LEMMA CapIs == Cap \in Nat /\ Cap >= 2 /\ \A i : i \in Slots <=> i \in Nat /\ i < Cap
    BY InputAssumption DEF Slots

LEMMA Mod ==
    ASSUME NEW m \in Nat, m >= 2, NEW x \in Int
    PROVE  /\ x >= 0 /\ x < m => x % m = x
           /\ x >= m /\ x < 2 * m => x % m = x - m
           /\ x < 0 /\ x >= -m => x % m = x + m
<1>1. x >= 0 /\ x < m => x % m = x
    OBVIOUS
<1>2. x >= m /\ x < 2 * m => x % m = x - m
    OBVIOUS
<1>3. x < 0 /\ x >= -m => x % m = x + m
    OBVIOUS
<1> QED
    BY <1>1, <1>2, <1>3

LEMMA AfterIs ==
    ASSUME NEW i \in Slots
    PROVE  After(i) \in Slots /\ After(i) = IF i + 1 = Cap THEN 0 ELSE i + 1
<1>1. Cap \in Nat /\ Cap >= 2 /\ i \in Nat /\ i < Cap
    BY CapIs
<1>2. i + 1 \in Int /\ i + 1 < 2 * Cap
    BY <1>1
<1>3. (i + 1) % Cap = IF i + 1 = Cap THEN 0 ELSE i + 1
    BY <1>1, <1>2, Mod
<1> QED
    BY <1>1, <1>3, CapIs DEF After

LEMMA UsedIs ==
    ASSUME NEW r \in Slots, NEW w \in Slots
    PROVE  Used(r, w) = IF w >= r THEN w - r ELSE w - r + Cap
<1>1. Cap \in Nat /\ Cap >= 2 /\ r \in Nat /\ r < Cap /\ w \in Nat /\ w < Cap
    BY CapIs
<1>2. PICK x \in Int : x = w - r
    BY <1>1
<1>3. x < Cap /\ x >= -Cap /\ (x >= 0 <=> w >= r)
    BY <1>1, <1>2
<1>4. (x % Cap) = IF x >= 0 THEN x ELSE x + Cap
  <2>1. CASE x >= 0
    BY <1>1, <1>3, <2>1, Mod
  <2>2. CASE ~(x >= 0)
    <3>1. x < 0
      BY <2>2
    <3>2. (x % Cap) = x + Cap
      BY <1>1, <1>3, <3>1, Mod
    <3> QED
      BY <2>2, <3>2
  <2> QED
    BY <2>1, <2>2
<1> QED
    BY <1>2, <1>3, <1>4 DEF Used

LEMMA UsedNone == ASSUME NEW r \in Slots PROVE Used(r, r) = 0
<1>1. r \in Nat /\ Cap \in Nat
    BY CapIs
<1>2. Used(r, r) = IF r >= r THEN r - r ELSE r - r + Cap
    BY UsedIs
<1> QED
    BY <1>1, <1>2

LEMMA CellIs ==
    ASSUME NEW r \in Slots, NEW i \in 1..Cap
    PROVE  /\ Cell(r, i) \in Slots
           /\ Cell(r, i) = IF r + i - 1 < Cap THEN r + i - 1 ELSE r + i - 1 - Cap
<1>1. Cap \in Nat /\ Cap >= 2 /\ r \in Nat /\ r < Cap
    BY CapIs
<1>2. i \in Nat /\ i >= 1 /\ i <= Cap
    BY <1>1
<1>3. r + i - 1 \in Int /\ r + i - 1 >= 0 /\ r + i - 1 < 2 * Cap
    BY <1>1, <1>2
<1>4. (r + i - 1) % Cap = IF r + i - 1 < Cap THEN r + i - 1 ELSE r + i - 1 - Cap
  <2>1. PICK x \in Int : x = r + i - 1
    BY <1>3
  <2>2. (x % Cap) = IF x < Cap THEN x ELSE x - Cap
    <3>1. x >= 0 /\ x < 2 * Cap
      BY <1>3, <2>1
    <3>2. CASE x < Cap
      BY <1>1, <3>1, <3>2, Mod
    <3>3. CASE ~(x < Cap)
      <4>1. x >= Cap
        BY <1>1, <3>3
      <4>2. (x % Cap) = x - Cap
        BY <1>1, <3>1, <4>1, Mod
      <4> QED
        BY <3>3, <4>2
    <3> QED
      BY <3>2, <3>3
  <2> QED
    BY <1>1, <1>2, <2>1, <2>2
<1>5. IF r + i - 1 < Cap THEN r + i - 1 \in Nat ELSE r + i - 1 - Cap \in Nat /\ r + i - 1 - Cap < Cap
    BY <1>1, <1>3
<1> QED
    BY <1>4, <1>5, CapIs DEF Cell

\* One more character: it goes into the first slot that is not in use.
LEMMA PutFacts ==
    ASSUME NEW r \in Slots, NEW w \in Slots, After(w) # r, NEW u, u = Used(r, w)
    PROVE  /\ u \in Nat /\ u + 1 <= Cap /\ Used(r, After(w)) = u + 1 /\ Cell(r, u + 1) = w
           /\ \A i \in 1..u : Cell(r, i) \in Slots /\ Cell(r, i) # w
<1>1. Cap \in Nat /\ Cap >= 2 /\ r \in Nat /\ r < Cap /\ w \in Nat /\ w < Cap
    BY CapIs
<1>2. After(w) \in Slots /\ After(w) = IF w + 1 = Cap THEN 0 ELSE w + 1
    BY AfterIs
<1>3. u = IF w >= r THEN w - r ELSE w - r + Cap
    BY UsedIs
<1>4. Used(r, After(w)) = IF After(w) >= r THEN After(w) - r ELSE After(w) - r + Cap
    BY <1>2, UsedIs
<1>5. u \in Nat /\ u + 1 <= Cap /\ u + 1 \in 1..Cap
    BY <1>1, <1>3
<1>6. Used(r, After(w)) = u + 1
  <2>1. CASE w + 1 = Cap
    <3>1. After(w) = 0 /\ r # 0
      BY <1>2, <2>1
    <3> QED
      BY <1>1, <1>3, <1>4, <2>1, <3>1
  <2>2. CASE w + 1 # Cap
    <3>1. After(w) = w + 1 /\ r # w + 1
      BY <1>2, <2>2
    <3> QED
      BY <1>1, <1>3, <1>4, <2>2, <3>1
  <2> QED
    BY <2>1, <2>2
<1>7. Cell(r, u + 1) = w
  <2>1. Cell(r, u + 1) = IF r + (u + 1) - 1 < Cap THEN r + (u + 1) - 1 ELSE r + (u + 1) - 1 - Cap
    BY <1>5, CellIs
  <2> QED
    BY <1>1, <1>3, <2>1
<1>8. ASSUME NEW i \in 1..u PROVE Cell(r, i) \in Slots /\ Cell(r, i) # w
  <2>1. i \in 1..Cap /\ i \in Nat /\ i >= 1 /\ i <= u
    BY <1>1, <1>5
  <2>2. /\ Cell(r, i) \in Slots
        /\ Cell(r, i) = IF r + i - 1 < Cap THEN r + i - 1 ELSE r + i - 1 - Cap
    BY <2>1, CellIs
  <2> QED
    BY <1>1, <1>3, <2>1, <2>2
<1> QED
    BY <1>5, <1>6, <1>7, <1>8

\* One character less.
LEMMA TakeFacts ==
    ASSUME NEW r \in Slots, NEW w \in Slots, r # w, NEW u, u = Used(r, w)
    PROVE  /\ u \in Nat /\ u >= 1 /\ Used(After(r), w) = u - 1 /\ Cell(r, 1) = r
           /\ \A i \in 1..(u - 1) : Cell(After(r), i) = Cell(r, i + 1)
<1>1. Cap \in Nat /\ Cap >= 2 /\ r \in Nat /\ r < Cap /\ w \in Nat /\ w < Cap
    BY CapIs
<1>2. After(r) \in Slots /\ After(r) = IF r + 1 = Cap THEN 0 ELSE r + 1
    BY AfterIs
<1>3. u = IF w >= r THEN w - r ELSE w - r + Cap
    BY UsedIs
<1>4. Used(After(r), w) = IF w >= After(r) THEN w - After(r) ELSE w - After(r) + Cap
    BY <1>2, UsedIs
<1>5. u \in Nat /\ u >= 1 /\ u < Cap
    BY <1>1, <1>3
<1>6. Used(After(r), w) = u - 1
  <2>1. CASE r + 1 = Cap
    BY <1>1, <1>2, <1>3, <1>4, <2>1
  <2>2. CASE r + 1 # Cap
    BY <1>1, <1>2, <1>3, <1>4, <2>2
  <2> QED
    BY <2>1, <2>2
<1>7. Cell(r, 1) = r
  <2>1. 1 \in 1..Cap
    BY <1>1
  <2>2. Cell(r, 1) = IF r + 1 - 1 < Cap THEN r + 1 - 1 ELSE r + 1 - 1 - Cap
    BY <2>1, CellIs
  <2> QED
    BY <1>1, <2>2
<1>8. ASSUME NEW i \in 1..(u - 1) PROVE Cell(After(r), i) = Cell(r, i + 1)
  <2>1. i \in Nat /\ i >= 1 /\ i \in 1..Cap /\ i + 1 \in 1..Cap
    BY <1>1, <1>5
  <2>2. Cell(r, i + 1) = IF r + (i + 1) - 1 < Cap THEN r + (i + 1) - 1 ELSE r + (i + 1) - 1 - Cap
    BY <2>1, CellIs
  <2>3. Cell(After(r), i) = IF After(r) + i - 1 < Cap THEN After(r) + i - 1 ELSE After(r) + i - 1 - Cap
    BY <1>2, <2>1, CellIs
  <2>4. i < Cap
    BY <1>1, <1>5
  <2>5. CASE r + 1 = Cap
    BY <1>1, <1>2, <2>1, <2>2, <2>3, <2>4, <2>5
  <2>6. CASE r + 1 # Cap
    BY <1>1, <1>2, <2>1, <2>2, <2>3, <2>4, <2>6
  <2> QED
    BY <2>5, <2>6
<1> QED
    BY <1>5, <1>6, <1>7, <1>8

----------------------------------------------------------------------------
(* The ring.                                                               *)

\* A character that is put into the slot of the write index joins the queue.
LEMMA ExactPut ==
    ASSUME TypeOK, Exact, ~input_buffer_is_full, NEW c \in Chars,
           \A s \in Slots : s # write_index => buffer'[s] = buffer[s], buffer'[write_index] = c,
           write_index' = After(write_index), read_index' = read_index, queue' = Append(queue, c)
    PROVE  Exact'
<1>1. read_index \in Slots /\ write_index \in Slots /\ queue \in Seq(Chars)
      /\ After(write_index) # read_index
    BY DEF TypeOK, input_buffer_is_full
<1>2. PICK r, w, u : r = read_index /\ w = write_index /\ u = Used(r, w)
    OBVIOUS
<1>3. /\ u \in Nat /\ Used(r, After(w)) = u + 1 /\ Cell(r, u + 1) = w
      /\ \A i \in 1..u : Cell(r, i) \in Slots /\ Cell(r, i) # w
    BY <1>1, <1>2, PutFacts
<1>4. Len(queue) = u /\ \A i \in 1..u : queue[i] = buffer[Cell(r, i)]
    BY <1>2 DEF Exact
<1>5. Len(queue') = u + 1 /\ \A i \in 1..(u + 1) : queue'[i] = IF i = u + 1 THEN c ELSE queue[i]
    BY <1>1, <1>3, <1>4
<1>6. \A i \in 1..(u + 1) : i # u + 1 => i \in 1..u
    BY <1>3
<1>7. \A i \in 1..(u + 1) : queue'[i] = buffer'[Cell(r, i)]
    BY <1>2, <1>3, <1>4, <1>5, <1>6
<1>8. Used(read_index', write_index') = u + 1 /\ read_index' = r
    BY <1>2, <1>3
<1> QED
    BY <1>5, <1>7, <1>8 DEF Exact, Cell, Used

LEMMA ExactTake ==
    ASSUME TypeOK, Exact, queue # <<>>, buffer' = buffer,
           write_index' = write_index, read_index' = After(read_index), queue' = Tail(queue)
    PROVE  Exact'
<1>1. read_index \in Slots /\ write_index \in Slots /\ queue \in Seq(Chars)
    BY DEF TypeOK
<1>2. PICK r, w, u : r = read_index /\ w = write_index /\ u = Used(r, w)
    OBVIOUS
<1>3. Len(queue) = u /\ \A i \in 1..u : queue[i] = buffer[Cell(r, i)]
    BY <1>2 DEF Exact
<1>4. u # 0
    BY <1>1, <1>3
<1>5. r # w
  <2> SUFFICES ASSUME r = w PROVE FALSE
    OBVIOUS
  <2>1. u = 0
    BY <1>1, <1>2, UsedNone, Zenon
  <2> QED
    BY <1>4, <2>1
<1>6. /\ u \in Nat /\ u >= 1 /\ Used(After(r), w) = u - 1
      /\ \A i \in 1..(u - 1) : Cell(After(r), i) = Cell(r, i + 1)
    BY <1>1, <1>2, <1>5, TakeFacts
<1>7. Len(queue') = u - 1 /\ \A i \in 1..(u - 1) : queue'[i] = queue[i + 1] /\ i + 1 \in 1..u
    BY <1>1, <1>3, <1>6
<1>8. Used(read_index', write_index') = u - 1 /\ read_index' = After(r)
    BY <1>2, <1>6
<1>9. \A i \in 1..(u - 1) : queue'[i] = buffer'[Cell(After(r), i)]
    BY <1>3, <1>6, <1>7
<1> QED
    BY <1>7, <1>8, <1>9 DEF Exact, Cell, Used

\* The slot of the write index is not part of the queue.
LEMMA ExactStore ==
    ASSUME TypeOK, Exact, ~input_buffer_is_full,
           \A s \in Slots : s # write_index => buffer'[s] = buffer[s],
           write_index' = write_index, read_index' = read_index, queue' = queue
    PROVE  Exact'
<1>1. read_index \in Slots /\ write_index \in Slots /\ After(write_index) # read_index
    BY DEF TypeOK, input_buffer_is_full
<1>2. PICK r, w, u : r = read_index /\ w = write_index /\ u = Used(r, w)
    OBVIOUS
<1>3. \A i \in 1..u : Cell(r, i) \in Slots /\ Cell(r, i) # w
    BY <1>1, <1>2, PutFacts
<1>4. Len(queue) = u /\ \A i \in 1..u : queue[i] = buffer[Cell(r, i)]
    BY <1>2 DEF Exact
<1>5. \A i \in 1..u : queue[i] = buffer'[Cell(r, i)]
    BY <1>2, <1>3, <1>4
<1> QED
    BY <1>2, <1>4, <1>5 DEF Exact, Cell, Used

LEMMA ExactSame ==
    ASSUME Exact, UNCHANGED <<ring, queue>>
    PROVE  Exact'
    BY DEF Exact, Cell, Used, ring

\* An empty queue and equal indexes.
LEMMA ExactEmpty ==
    ASSUME read_index' = 0, write_index' = 0, queue' = <<>>
    PROVE  Exact'
<1>1. 0 \in Slots
    BY CapIs
<1>2. Used(0, 0) = 0
    BY <1>1, UsedIs
<1> QED
    BY <1>2 DEF Exact, Used

----------------------------------------------------------------------------
(* The steps.                                                              *)

LEMMA InitRing == Init => RingInv
<1> SUFFICES ASSUME Init PROVE RingInv
    OBVIOUS
<1>1. 0 \in Slots
    BY CapIs
<1>2. \E c : c \in Chars
    BY InputAssumption
<1>3. buffer \in [Slots -> Chars]
    BY <1>2 DEF Init
<1>4. TypeOK
    BY <1>1, <1>3 DEF Init, TypeOK, Where
<1>5. Used(0, 0) = 0
    BY <1>1, UsedIs
<1>6. Exact
    BY <1>5 DEF Exact, Init
<1> QED
    BY <1>4, <1>6 DEF RingInv, Init

LEMMA KeyboardRing ==
    ASSUME RingInv, NEW c \in Chars, KeyboardIrq(c)
    PROVE  RingInv'
<1>1. TypeOK /\ write_index \in Slots /\ After(write_index) \in Slots
    BY AfterIs DEF RingInv, TypeOK
<1>2. Awake /\ char' = char /\ loaded' = loaded
    BY DEF KeyboardIrq
<1>3. CASE input_buffer_is_full
  <2>1. UNCHANGED <<ring, queue, raced>>
    BY <1>3 DEF KeyboardIrq
  <2>2. TypeOK'
    BY <1>1, <1>2, <2>1 DEF TypeOK, Awake, Where, ring
  <2>3. Exact => Exact'
    BY <2>1, ExactSame
  <2> QED
    BY <1>2, <2>1, <2>2, <2>3 DEF RingInv, Awake, ring, input_buffer_is_full
<1>4. CASE ~input_buffer_is_full
  <2>1. /\ buffer' = [buffer EXCEPT ![write_index] = c] /\ write_index' = After(write_index)
        /\ raced' = (raced \/ pc \in {"store", "commit"})
        /\ queue' = (IF raced' THEN <<>> ELSE Append(queue, c)) /\ read_index' = read_index
    BY <1>4 DEF KeyboardIrq
  <2>2. queue' \in Seq(Chars)
    BY <1>1, <2>1 DEF TypeOK
  <2>3. TypeOK'
    BY <1>1, <1>2, <2>1, <2>2 DEF TypeOK, Awake, Where
  <2>4. /\ \A s \in Slots : s # write_index => buffer'[s] = buffer[s]
        /\ buffer'[write_index] = c
    BY <1>1, <2>1 DEF TypeOK
  <2>5. ~raced' /\ Exact => Exact'
    BY <1>1, <1>4, <2>1, <2>4, ExactPut
  <2>6. ~raced' /\ queue # <<>> => queue' # <<>> /\ Head(queue') = Head(queue)
    BY <1>1, <2>1 DEF TypeOK
  <2> QED
    BY <1>2, <2>1, <2>3, <2>5, <2>6, Zenon DEF RingInv, Awake
<1> QED
    BY <1>3, <1>4

\* A step that leaves ring and queue alone, and goes where nothing new is
\* asked of them.
LEMMA QuietRing ==
    ASSUME RingInv, UNCHANGED <<ring, loaded, queue, raced>>,
           pc' \in Where, char' \in Chars \cup {Nothing}, pc # "clear_write",
           pc' \notin {"clear_write", "store", "commit", "popped"}
    PROVE  RingInv'
<1>1. TypeOK'
    BY DEF RingInv, TypeOK, ring
<1>2. Exact => Exact'
    BY ExactSame
<1> QED
    BY <1>1, <1>2 DEF RingInv, ring

LEMMA EnqueueRing ==
    ASSUME RingInv, NEW c \in SerialChars, Enqueue(c)
    PROVE  RingInv'
<1>1. TypeOK /\ c \in Chars /\ pc = "read" /\ UNCHANGED <<ring, queue, raced>>
    BY InputAssumption DEF RingInv, Enqueue
<1>2. Exact => Exact'
    BY <1>1, ExactSame
<1>3. CASE input_buffer_is_full
  <2>1. pc' = "pop" /\ char' = char /\ loaded' = loaded
    BY <1>3 DEF Enqueue
  <2> QED
    BY <1>1, <2>1, QuietRing DEF TypeOK, Where
<1>4. CASE ~input_buffer_is_full
  <2>1. pc' = "store" /\ loaded' = write_index /\ char' = c
    BY <1>4 DEF Enqueue
  <2>2. TypeOK'
    BY <1>1, <2>1 DEF TypeOK, Where, ring
  <2> QED
    BY <1>1, <1>2, <1>4, <2>1, <2>2 DEF RingInv, ring, input_buffer_is_full
<1> QED
    BY <1>3, <1>4

LEMMA StoreRing == ASSUME RingInv, EnqueueStore PROVE RingInv'
<1>1. /\ pc = "store" /\ pc' = "commit" /\ TypeOK /\ char \in Chars
      /\ UNCHANGED <<read_index, write_index, char, loaded, queue, raced>>
    BY DEF RingInv, EnqueueStore, At
<1>2. PICK w \in {loaded, write_index} : buffer' = [buffer EXCEPT ![w] = char]
    BY Zenon DEF EnqueueStore
<1>3. TypeOK'
    BY <1>1, <1>2 DEF TypeOK, Where
<1>4. ASSUME ~raced
      PROVE  Exact' /\ loaded = write_index /\ ~input_buffer_is_full /\ buffer'[write_index] = char
  <2>1. Exact /\ w = write_index /\ ~input_buffer_is_full /\ loaded = write_index
    BY <1>1, <1>2, <1>4 DEF RingInv
  <2>2. /\ \A s \in Slots : s # write_index => buffer'[s] = buffer[s]
        /\ buffer'[write_index] = char
    BY <1>1, <1>2, <2>1 DEF TypeOK
  <2> QED
    BY <1>1, <2>1, <2>2, ExactStore
<1> QED
    BY <1>1, <1>3, <1>4 DEF RingInv, input_buffer_is_full

LEMMA CommitRing == ASSUME RingInv, EnqueueCommit PROVE RingInv'
<1>1. /\ pc = "commit" /\ pc' = "pop" /\ TypeOK /\ char \in Chars
      /\ char' = Nothing /\ loaded' = 0 /\ UNCHANGED <<buffer, read_index, raced>>
      /\ queue' = IF raced THEN queue ELSE Append(queue, char)
    BY DEF RingInv, EnqueueCommit, At
<1>2. PICK w \in {loaded, write_index} : write_index' = After(w)
    BY DEF EnqueueCommit
<1>3. write_index' \in Slots
    BY <1>1, <1>2, AfterIs DEF TypeOK
<1>4. queue' \in Seq(Chars) /\ 0 \in Slots
    BY <1>1, CapIs DEF TypeOK
<1>5. TypeOK'
    BY <1>1, <1>3, <1>4 DEF TypeOK, Where
<1>6. ASSUME ~raced PROVE Exact'
  <2>1. Exact /\ ~input_buffer_is_full /\ loaded = write_index /\ buffer[write_index] = char
    BY <1>1, <1>6 DEF RingInv
  <2>2. write_index' = After(write_index) /\ queue' = Append(queue, char) /\ buffer' = buffer
        /\ read_index' = read_index
    BY <1>1, <1>2, <1>6, <2>1
  <2> QED
    BY <1>1, <2>1, <2>2, ExactPut
<1> QED
    BY <1>1, <1>5, <1>6 DEF RingInv

LEMMA PopRing == ASSUME RingInv, Pop PROVE RingInv'
<1>1. /\ pc \in {"read", "pop"} /\ pc' = "popped" /\ TypeOK /\ read_index # write_index
      /\ char' = buffer[read_index] /\ UNCHANGED <<ring, loaded, queue, raced>>
    BY DEF RingInv, Pop, PopTo, input_buffer_is_empty
<1>2. TypeOK'
    BY <1>1 DEF TypeOK, Where, ring
<1>3. ASSUME ~raced PROVE Exact' /\ queue # <<>> /\ char' = Head(queue)
  <2>1. Exact
    BY <1>1, <1>3 DEF RingInv
  <2>2. PICK r, u : r = read_index /\ u = Used(read_index, write_index)
    OBVIOUS
  <2>3. read_index \in Slots /\ write_index \in Slots /\ queue \in Seq(Chars)
    BY <1>1 DEF TypeOK
  <2>4. u \in Nat /\ u >= 1 /\ Cell(r, 1) = r
    BY <1>1, <2>2, <2>3, TakeFacts
  <2>5. Len(queue) = u /\ (1 \in 1..u => queue[1] = buffer[Cell(r, 1)])
    BY <2>1, <2>2 DEF Exact
  <2>6. 1 \in 1..u
    BY <2>4
  <2>7. queue[1] = buffer[read_index] /\ queue # <<>> /\ Head(queue) = queue[1]
    BY <2>2, <2>3, <2>4, <2>5, <2>6
  <2> QED
    BY <1>1, <2>1, <2>7, ExactSame
<1> QED
    BY <1>1, <1>2, <1>3 DEF RingInv, ring

LEMMA TakeRing == ASSUME RingInv, PopCommit PROVE RingInv'
<1>1. /\ pc = "popped" /\ pc' = "got" /\ TypeOK /\ read_index' = After(read_index)
      /\ queue' = (IF raced THEN queue ELSE Tail(queue))
      /\ UNCHANGED <<buffer, write_index, char, loaded, raced>>
    BY DEF RingInv, PopCommit, At
<1>2. read_index' \in Slots
    BY <1>1, AfterIs DEF TypeOK
<1>3. ~raced => Exact /\ queue # <<>>
    BY <1>1 DEF RingInv
<1>4. queue' \in Seq(Chars)
    BY <1>1, <1>3 DEF TypeOK
<1>5. TypeOK'
    BY <1>1, <1>2, <1>4 DEF TypeOK, Where
<1>6. ~raced => Exact'
    BY <1>1, <1>3, ExactTake
<1> QED
    BY <1>1, <1>5, <1>6 DEF RingInv

LEMMA ClearRing == ASSUME RingInv, ClearRead \/ ClearWrite PROVE RingInv'
<1>1. 0 \in Slots
    BY CapIs
<1>2. CASE ClearRead
    BY <1>1, <1>2 DEF RingInv, TypeOK, ClearRead, At, Where
<1>3. CASE ClearWrite
  <2>1. /\ pc = "clear_write" /\ pc' = "read" /\ read_index = 0 /\ TypeOK
        /\ write_index' = 0 /\ queue' = <<>> /\ raced' = FALSE
        /\ UNCHANGED <<buffer, read_index, char, loaded>>
    BY <1>3 DEF RingInv, ClearWrite, At
  <2>2. TypeOK'
    BY <1>1, <2>1 DEF TypeOK, Where
  <2>3. Exact'
    BY <2>1, ExactEmpty
  <2> QED
    BY <2>1, <2>2, <2>3 DEF RingInv
<1> QED
    BY <1>2, <1>3

LEMMA ShellRing == ASSUME RingInv, Shell PROVE RingInv'
<1>0. char \in Chars \cup {Nothing}
    BY DEF RingInv, TypeOK
<1>1. CASE \E c \in SerialChars : Enqueue(c)
    BY <1>1, EnqueueRing
<1>2. CASE EnqueueStore \/ EnqueueCommit
    BY <1>2, StoreRing, CommitRing
<1>3. CASE Pop \/ PopCommit
    BY <1>3, PopRing, TakeRing
<1>4. CASE PopNothing
    BY <1>0, <1>4, QuietRing DEF PopNothing, PopTo, Where
<1>5. CASE Halt
    BY <1>0, <1>5, QuietRing DEF Halt, At, Where
<1>6. CASE Handled
    BY <1>6, QuietRing DEF Handled, Where
<1>7. CASE ClearRead \/ ClearWrite
    BY <1>7, ClearRing
<1> QED
    BY <1>1, <1>2, <1>3, <1>4, <1>5, <1>6, <1>7 DEF Shell

LEMMA WakeRing ==
    ASSUME RingInv, Awake, UNCHANGED <<ring, char, loaded, queue, raced>>
    PROVE  RingInv'
<1>1. TypeOK'
    BY DEF RingInv, TypeOK, Awake, Where, ring
<1>2. Exact => Exact'
    BY ExactSame
<1> QED
    BY <1>1, <1>2 DEF RingInv, ring, Awake, input_buffer_is_full

LEMMA SameRing == ASSUME RingInv, UNCHANGED vars PROVE RingInv'
<1>1. TypeOK'
    BY DEF RingInv, TypeOK, vars
<1>2. Exact => Exact'
    BY ExactSame DEF ring, vars
<1> QED
    BY <1>1, <1>2 DEF RingInv, vars, input_buffer_is_full

----------------------------------------------------------------------------
(* The keyboard driver.                                                    *)

LEMMA KeyCodes ==
    /\ \A k \in Keys : /\ K!Code[k] = "SHIFT" <=> k \in Shifts
                       /\ K!Code[k] = "CTRL" <=> k \in Ctrls
                       /\ k \in K!Prefixed => k \notin Shifts
                       /\ k # "none"
    /\ K!Code["a"] = "A" /\ K!Code["bracket"] = "BRACKET" /\ K!Code["enter"] = "ENTER"
    /\ K!Code["esc"] = "ESC" /\ K!Code["up"] = "UP" /\ K!Code["left"] = "LEFT"
<1>1. Keys \subseteq {"lshift", "rshift", "lctrl", "rctrl", "a", "bracket", "enter", "esc", "up",
                      "left", "pad8", "delete"}
    BY KeyboardAssumption, Zenon DEF K!Code
<1>2. \A k \in {"lshift", "rshift", "lctrl", "rctrl", "a", "bracket", "enter", "esc", "up",
                "left", "pad8", "delete"} :
        /\ K!Code[k] = "SHIFT" <=> k \in Shifts
        /\ K!Code[k] = "CTRL" <=> k \in Ctrls
        /\ k \in K!Prefixed => k \notin Shifts
        /\ k # "none"
    BY DEF K!Code, K!Prefixed, Shifts, Ctrls
<1> QED
    BY <1>1, <1>2, SMTT(60) DEF K!Code

LEMMA ByteKinds ==
    \A c, d : /\ K!E0 # K!Press(c) /\ K!E0 # K!Release(c) /\ K!Press(c) # K!Release(d)
              /\ K!Press(c) = K!Press(d) => c = d
              /\ K!Release(c) = K!Release(d) => c = d
              /\ K!Press(c)[1] = "press" /\ K!Press(c)[2] = c
              /\ K!Release(c)[1] # "press"
    BY DEF K!E0, K!Press, K!Release

LEMMA Appends ==
    ASSUME NEW a, NEW b
    PROVE  Append(<<>>, b) = <<b>> /\ Append(<<a>>, b) = <<a, b>>
<1>1. Append(<<>>, b) = <<b>>
    OBVIOUS
<1>2. Append(<<a>>, b) = <<a, b>>
  <2> DEFINE S == {a, b}
             s == Append(<<a>>, b)
  <2>1. <<a>> \in Seq(S) /\ Len(<<a>>) = 1 /\ <<a>>[1] = a
    OBVIOUS
  <2>2. s \in Seq(S) /\ Len(s) = 2 /\ s[1] = a /\ s[2] = b
    BY <2>1
  <2> HIDE DEF s
  <2>3. s = <<a, b>>
    BY <2>2
  <2> QED
    BY <2>3 DEF s
<1> QED
    BY <1>1, <1>2

\* The keyboard sends the bytes of a key.
LEMMA KeyKeys ==
    ASSUME KeysInv, NEW k \in Keys, K!KeyDown(k) \/ K!KeyUp(k)
    PROVE  KeysInv'
<1>1. /\ bytes = <<>> /\ key' = k /\ held' \subseteq Keys
      /\ UNCHANGED <<g_shift_active, g_ctrl_active, g_extended_sequence>>
      /\ held' = held \cup {k} \/ held' = held \ {k}
    BY DEF KeysInv, K!KeyDown, K!KeyUp, K!flags
<1>2. key = "none" /\ g_extended_sequence = FALSE
    BY <1>1 DEF KeysInv
<1>3. bytes' = IF k \in K!Prefixed THEN <<K!E0, LastByte'>> ELSE <<LastByte'>>
  <2>1. bytes' = Append(K!Prefix(k), LastByte')
    BY <1>1 DEF K!KeyDown, K!KeyUp, LastByte
  <2>2. PICK b : b = LastByte'
    OBVIOUS
  <2>3. Append(<<>>, b) = <<b>> /\ Append(<<K!E0>>, b) = <<K!E0, b>>
    BY Appends
  <2> QED
    BY <2>1, <2>2, <2>3 DEF K!Prefix
<1>4. "none" \notin Shifts /\ "none" \notin Ctrls
    BY DEF Shifts, Ctrls
<1>5. /\ k \notin Shifts => (g_shift_active' <=> held' \cap Shifts # {})
      /\ k \notin Ctrls => (g_ctrl_active' <=> held' \cap Ctrls # {})
    BY <1>1, <1>2, <1>4 DEF KeysInv
<1> QED
    BY <1>1, <1>2, <1>3, <1>5 DEF KeysInv

\* The driver takes a byte.
LEMMA ByteKeys ==
    ASSUME KeysInv, NoTwins, K!keyboard_handle_irq
    PROVE  KeysInv'
<1>1. /\ bytes # <<>> /\ bytes' = Tail(bytes) /\ held' = held
      /\ key' = IF bytes' = <<>> THEN "none" ELSE key
    BY DEF K!keyboard_handle_irq
<1>2. key \in Keys
    BY <1>1 DEF KeysInv
<1>3. CASE key \in K!Prefixed /\ g_extended_sequence = FALSE
  <2>1. bytes = <<K!E0, LastByte>>
    BY <1>1, <1>3 DEF KeysInv
  <2>2. Head(bytes) = K!E0 /\ bytes' = <<LastByte>>
    BY <1>1, <2>1
  <2>3. K!prefix_byte
    BY <2>2, ByteKinds DEF K!keyboard_handle_irq, K!release_byte, K!modifier_byte, K!key_byte
  <2>4. g_extended_sequence' = TRUE /\ UNCHANGED <<g_shift_active, g_ctrl_active>>
    BY <2>3 DEF K!prefix_byte
  <2>5. <<LastByte>> # <<>>
    OBVIOUS
  <2>6. key' = key /\ LastByte' = LastByte
    BY <1>1, <2>2, <2>5 DEF LastByte
  <2> QED
    BY <1>1, <1>2, <1>3, <2>2, <2>4, <2>6, Zenon DEF KeysInv
<1>4. CASE ~(key \in K!Prefixed /\ g_extended_sequence = FALSE)
  <2>1. bytes = <<LastByte>>
    BY <1>1, <1>4 DEF KeysInv
  <2>2. Head(bytes) = LastByte /\ bytes' = <<>> /\ key' = "none"
    BY <1>1, <2>1
  <2>3. LastByte # K!E0
    BY ByteKinds DEF LastByte
  <2>4. PICK c : K!release_byte(c) \/ K!modifier_byte(c) \/ K!key_byte(c)
    BY <2>2, <2>3 DEF K!keyboard_handle_irq, K!prefix_byte
  <2>5. key \in K!Prefixed \/ g_extended_sequence = FALSE
    BY <1>1 DEF KeysInv
  <2>6. /\ K!Code[key] = "SHIFT" <=> key \in Shifts
        /\ K!Code[key] = "CTRL" <=> key \in Ctrls
        /\ key \in K!Prefixed => key \notin Shifts
    BY <1>2, KeyCodes
  <2>7. Shifts \cap Ctrls = {}
    BY DEF Shifts, Ctrls
  <2>8. held \subseteq Keys
    BY DEF KeysInv
  <2>9. CASE key \in held
    <3>1. Head(bytes) = K!Press(K!Code[key])
      BY <2>2, <2>9 DEF LastByte
    <3>2. c = K!Code[key] /\ (K!modifier_byte(c) \/ K!key_byte(c))
      BY <2>4, <3>1, ByteKinds DEF K!release_byte, K!modifier_byte, K!key_byte
    <3>3. /\ g_shift_active' = (g_shift_active \/ key \in Shifts)
          /\ g_ctrl_active' = (g_ctrl_active \/ key \in Ctrls)
          /\ g_extended_sequence' = FALSE
      BY <2>5, <2>6, <3>2, Zenon DEF K!modifier_byte, K!key_byte, KeysInv
    <3>4. /\ g_shift_active' <=> held \cap Shifts # {}
          /\ g_ctrl_active' <=> held \cap Ctrls # {}
      BY <2>9, <3>3, Zenon DEF KeysInv
    <3> QED
      BY <1>1, <2>2, <2>8, <3>3, <3>4 DEF KeysInv
  <2>10. CASE key \notin held
    <3>1. Head(bytes) = K!Release(K!Code[key])
      BY <2>2, <2>10 DEF LastByte
    <3>2. c = K!Code[key] /\ K!release_byte(c)
      BY <2>4, <3>1, ByteKinds DEF K!release_byte, K!modifier_byte, K!key_byte
    <3>3. /\ g_shift_active' = (g_shift_active /\ key \notin Shifts)
          /\ g_ctrl_active' = (g_ctrl_active /\ key \notin Ctrls)
          /\ g_extended_sequence' = FALSE
      BY <2>6, <3>2 DEF K!release_byte
    <3>4. /\ key \in Shifts => held \cap Shifts = {}
          /\ key \in Ctrls => held \cap Ctrls = {}
      BY <1>2, <2>8, <2>10 DEF NoTwins, Shifts, Ctrls
    <3>5. /\ g_shift_active' <=> held \cap Shifts # {}
          /\ g_ctrl_active' <=> held \cap Ctrls # {}
      BY <3>3, <3>4, Zenon DEF KeysInv
    <3> QED
      BY <1>1, <2>2, <2>8, <3>3, <3>5 DEF KeysInv
  <2> QED
    BY <2>9, <2>10
<1> QED
    BY <1>3, <1>4, Zenon

\* What the driver makes of the last byte of a key that goes down.
LEMMA CharacterIs ==
    ASSUME KeysInv, bytes # <<>>, Tail(bytes) = <<>>, Head(bytes)[1] = "press",
           K!Meant(key) # "none"
    PROVE  K!Character = K!Meant(key)
<1>1. key \in Keys /\ bytes = <<LastByte>> /\ (g_extended_sequence <=> key \in K!Prefixed)
      /\ g_extended_sequence \in BOOLEAN
  <2>1. CASE key \in K!Prefixed /\ bytes = <<K!E0, LastByte>>
    BY <2>1
  <2> QED
    BY <2>1, Zenon DEF KeysInv
<1>2. Head(bytes) = LastByte
    BY <1>1
<1>3. key \in held /\ Head(bytes) = K!Press(K!Code[key]) /\ Head(bytes)[2] = K!Code[key]
    BY <1>2, ByteKinds DEF LastByte
<1>4. key \in {"a", "bracket", "enter", "esc", "up", "left"}
    BY DEF K!Meant
<1>5. /\ g_shift_active \in BOOLEAN /\ g_ctrl_active \in BOOLEAN
      /\ g_shift_active <=> held \cap Shifts # {}
      /\ g_ctrl_active <=> held \cap Ctrls # {}
    BY <1>4 DEF KeysInv, Shifts, Ctrls
<1> DEFINE c == K!Code[key]
<1>6. K!Character =
        IF c \in {"SHIFT", "CTRL"} THEN "none"
        ELSE IF g_extended_sequence THEN K!translate_extended_scancode(c)
        ELSE IF c = "ESC" THEN "ESC"
        ELSE K!apply_ctrl_translation(K!translate_scancode(c))
    BY <1>3 DEF K!Character
<1>7. CASE key \in {"up", "left"}
  <2>1. g_extended_sequence
    BY <1>1, <1>7 DEF K!Prefixed
  <2> QED
    BY <1>6, <1>7, <2>1, KeyCodes, Zenon DEF K!translate_extended_scancode, K!Meant
<1>8. CASE key \in {"a", "bracket", "enter", "esc"}
  <2>1. ~g_extended_sequence
    BY <1>1, <1>8 DEF K!Prefixed
  <2>2. DOMAIN K!normal = {"A", "BRACKET", "ENTER"}
    BY DEF K!normal
  <2>3. CASE key = "a"
    <3>1. K!translate_scancode("A") = IF g_shift_active THEN "A" ELSE "a"
      BY <2>2 DEF K!translate_scancode, K!normal, K!shifted
    <3>2. K!Character = IF g_ctrl_active THEN "^A" ELSE IF g_shift_active THEN "A" ELSE "a"
      BY <1>6, <2>1, <2>3, <3>1, KeyCodes DEF K!apply_ctrl_translation
    <3> QED
      BY <1>5, <2>3, <3>2 DEF K!Meant, Shifts, Ctrls
  <2>4. CASE key = "bracket"
    <3>1. K!translate_scancode("BRACKET") = IF g_shift_active THEN "{" ELSE "["
      BY <2>2 DEF K!translate_scancode, K!normal, K!shifted
    <3>2. K!Character = IF g_shift_active THEN "{" ELSE IF g_ctrl_active THEN "ESC" ELSE "["
      BY <1>6, <2>1, <2>4, <3>1, KeyCodes, Zenon DEF K!apply_ctrl_translation
    <3> QED
      BY <1>5, <2>4, <3>2, ZenonT(60) DEF K!Meant, Shifts, Ctrls
  <2>5. CASE key = "enter"
    <3>1. K!translate_scancode("ENTER") = "LF"
      BY <2>2 DEF K!translate_scancode, K!normal, K!shifted
    <3>2. K!Character = "LF"
      BY <1>6, <2>1, <2>5, <3>1, KeyCodes DEF K!apply_ctrl_translation
    <3> QED
      BY <2>5, <3>2 DEF K!Meant
  <2>6. CASE key = "esc"
    BY <1>6, <2>1, <2>6, KeyCodes DEF K!Meant
  <2> QED
    BY <1>8, <2>3, <2>4, <2>5, <2>6
<1> QED
    BY <1>4, <1>7, <1>8

LEMMA CharacterTyped == K!Character # "none" => K!Character \in Chars
<1> DEFINE Given == {"a", "A", "[", "{", "LF", "ESC", "^A", "^B", "^P"}
<1>1. \A c : K!translate_scancode(c) \in Given \cup {"none"}
  <2>1. DOMAIN K!normal = {"A", "BRACKET", "ENTER"}
    BY DEF K!normal
  <2>2. /\ K!shifted["A"] = "A" /\ K!shifted["BRACKET"] = "{" /\ K!shifted["ENTER"] = "LF"
        /\ K!normal["A"] = "a" /\ K!normal["BRACKET"] = "[" /\ K!normal["ENTER"] = "LF"
    BY DEF K!shifted, K!normal
  <2> QED
    BY <2>1, <2>2, Zenon DEF K!translate_scancode
<1>2. \A c \in Given \cup {"none"} : K!apply_ctrl_translation(c) \in Given \cup {"none"}
    BY Zenon DEF K!apply_ctrl_translation
<1>3. \A c : K!translate_extended_scancode(c) \in Given \cup {"none"}
    BY DEF K!translate_extended_scancode
<1>4. K!Character \in Given \cup {"none"}
    BY <1>1, <1>2, <1>3, Zenon DEF K!Character
<1>5. Given \subseteq Chars
    BY KeyboardAssumption, Zenon
<1> QED
    BY <1>4, <1>5, Zenon

----------------------------------------------------------------------------
(* The theorems.                                                           *)

LEMMA RingNext == RingInv /\ [TNext]_tvars => RingInv'
<1> SUFFICES ASSUME RingInv, [TNext]_tvars PROVE RingInv'
    OBVIOUS
<1>1. CASE Shell /\ UNCHANGED kvars
    BY <1>1, ShellRing
<1>2. CASE TimerIrq /\ UNCHANGED kvars
    BY <1>2, WakeRing DEF TimerIrq
<1>3. CASE Key
    BY <1>3, SameRing DEF Key
<1>4. CASE ByteIrq
  <2>1. CASE K!Character = "none"
    BY <1>4, <2>1, WakeRing DEF ByteIrq
  <2>2. CASE K!Character # "none"
    <3>1. PICK c : c = K!Character
      OBVIOUS
    <3>2. c \in Chars /\ KeyboardIrq(c)
      BY <1>4, <2>2, <3>1, CharacterTyped DEF ByteIrq
    <3> QED
      BY <3>2, KeyboardRing
  <2> QED
    BY <2>1, <2>2
<1>5. CASE UNCHANGED tvars
    BY <1>5, SameRing DEF tvars
<1> QED
    BY <1>1, <1>2, <1>3, <1>4, <1>5 DEF TNext

LEMMA KeysNext == KeysInv /\ NoTwins /\ [TNext]_tvars => KeysInv'
<1> SUFFICES ASSUME KeysInv, NoTwins, [TNext]_tvars PROVE KeysInv'
    OBVIOUS
<1>1. CASE UNCHANGED kvars
  <2>1. /\ g_shift_active' = g_shift_active /\ g_ctrl_active' = g_ctrl_active
        /\ g_extended_sequence' = g_extended_sequence
        /\ held' = held /\ key' = key /\ bytes' = bytes
    BY <1>1 DEF kvars
  <2>2. LastByte' = LastByte
    BY <2>1 DEF LastByte
  <2> QED
    BY <2>1, <2>2 DEF KeysInv
<1>2. CASE Key
    BY <1>2, KeyKeys DEF Key
<1>3. CASE ByteIrq
    BY <1>3, ByteKeys DEF ByteIrq
<1> QED
    BY <1>1, <1>2, <1>3 DEF TNext, tvars

\* Between any two accesses of the shell, the ring is what RingInv says.
THEOREM Invariance == TSpec => []RingInv
    BY InitRing, RingNext, PTL DEF TSpec, TInit

\* The ring holds what was accepted, in order, and the shell takes the oldest
\* character, for every capacity: however the keyboard's interrupts fall into
\* the accesses of console_try_read_char and console_clear, unless one falls
\* into console_enqueue_input.
THEOREM RingIsFifo == TSpec => []FifoExact
<1>1. RingInv => FifoExact
  <2> SUFFICES ASSUME RingInv, ~raced
               PROVE  /\ pc # "clear_write" => Pending = queue
                      /\ pc = "popped" => char = Head(queue)
    BY DEF FifoExact
  <2>1. Exact => Pending = queue
    <3> SUFFICES ASSUME Exact PROVE Pending = queue
      OBVIOUS
    <3>1. queue \in Seq(Chars)
      BY DEF RingInv, TypeOK
    <3>2. queue = [i \in 1..Len(queue) |-> queue[i]]
      BY <3>1
    <3>3. Pending = [i \in 1..Len(queue) |-> buffer[Cell(read_index, i)]]
      BY DEF Exact, Pending, Used, Cell
    <3> QED
      BY <3>2, <3>3 DEF Exact
  <2> QED
    BY <2>1 DEF RingInv
<1> QED
    BY <1>1, Invariance, PTL

\* A key that goes down gives the character that the keys held with it call for,
\* in keyboard_handle_irq, on every keyboard without twins of Shift and Ctrl.
THEOREM KeysDecoded == ASSUME NoTwins PROVE TSpec => DecodesAsHeld
<1>1. TInit => KeysInv
    BY Zenon DEF TInit, K!Init, KeysInv, Shifts, Ctrls
<1>2. TSpec => []KeysInv
  <2>1. KeysInv /\ [TNext]_tvars => KeysInv'
    BY KeysNext
  <2> QED
    BY <1>1, <2>1, PTL DEF TSpec
<1> DEFINE Decoded ==
        bytes # <<>> /\ bytes' = <<>> /\ Head(bytes)[1] = "press"
        /\ K!Meant(key) # "none" /\ ~input_buffer_is_full =>
          buffer'[write_index] = K!Meant(key)
<1>3. RingInv /\ KeysInv /\ [TNext]_tvars => [Decoded]_tvars
  <2> SUFFICES ASSUME RingInv, KeysInv, TNext,
                      bytes # <<>>, bytes' = <<>>, Head(bytes)[1] = "press",
                      K!Meant(key) # "none", ~input_buffer_is_full
               PROVE  buffer'[write_index] = K!Meant(key)
    OBVIOUS
  <2>1. ByteIrq
    BY DEF TNext, Key, K!KeyDown, K!KeyUp, kvars
  <2>2. Tail(bytes) = <<>>
    BY <2>1 DEF ByteIrq, K!keyboard_handle_irq
  <2>3. K!Character = K!Meant(key)
    BY <2>2, CharacterIs
  <2>4. KeyboardIrq(K!Character)
    BY <2>1, <2>3 DEF ByteIrq
  <2>5. buffer' = [buffer EXCEPT ![write_index] = K!Character]
    BY <2>4 DEF KeyboardIrq
  <2> QED
    BY <2>3, <2>5 DEF RingInv, TypeOK
<1>4. [][Decoded]_tvars => DecodesAsHeld
    BY DEF DecodesAsHeld
<1> HIDE DEF Decoded
<1> QED
    BY Invariance, <1>2, <1>3, <1>4, PTL DEF TSpec

----------------------------------------------------------------------------
(* The shell's line *)

\* A set of natural numbers that is not empty has a least element, and Min is it.
LEMMA MinIs ==
    ASSUME NEW T, T \subseteq Nat, T # {}
    PROVE  Min(T) \in T /\ \A t \in T : Min(T) <= t
<1> DEFINE R == OpToRel(<, Nat)
<1>1. IsWellFoundedOn(R, Nat)
    BY NatLessThanWellFounded, Zenon
<1>2. \A s, t \in Nat : t < s => <<t, s>> \in R
    BY DEF OpToRel
<1> HIDE DEF R
<1>3. PICK s \in T : \A t \in T : ~(<<t, s>> \in R)
    BY <1>1, WFMin, Zenon
<1>4. \A t \in T : ~(t < s)
    BY <1>2, <1>3, Zenon
<1>5. \A t \in T : s <= t
    BY <1>4
<1> QED
    BY <1>5, Zenon DEF Min

\* First is a position of the buffer that holds what is looked for, with nothing
\* of the kind before it, or the end.
LEMMA FirstIs ==
    ASSUME NEW buf, NEW i \in Nat, NEW S
    PROVE  LET f == First(buf, i, S)
           IN  /\ f \in Nat /\ f <= MaxLine
               /\ f < MaxLine => f \in Index /\ f >= i /\ buf[f] \in S
               /\ \A j \in Index : j >= i /\ buf[j] \in S => f <= j
<1> DEFINE T == {j \in Index : j >= i /\ buf[j] \in S} \cup {MaxLine}
           f == First(buf, i, S)
<1>1. T \subseteq Nat /\ T # {}
    BY ShellAssumption DEF Index
<1>2. f \in T /\ \A t \in T : f <= t
    BY <1>1, MinIs DEF First
<1> HIDE DEF f
<1>3. f \in Nat /\ f <= MaxLine
    BY <1>1, <1>2
<1>4. f < MaxLine => f \in Index /\ f >= i /\ buf[f] \in S
    BY <1>2, ShellAssumption
<1>5. \A j \in Index : j >= i /\ buf[j] \in S => f <= j
    BY <1>2
<1> QED
    BY <1>3, <1>4, <1>5 DEF f

\* The buffers, and where a line ends.
LineInv ==
    /\ g_line \in [Index -> Bytes] /\ g_last_line \in [Index -> Bytes]
    /\ length \in Nat /\ cursor \in Nat /\ LineWhole

LEMMA IndexIs ==
    /\ MaxLine \in Nat /\ MaxLine >= 2 /\ 0 \in Index /\ "NUL" \in Bytes
    /\ \A i : i \in Index <=> i \in Nat /\ i + 1 <= MaxLine
BY ShellAssumption DEF Index, Bytes

\* What kstrncpy leaves in a buffer is a string that ends in it.
LEMMA CopyIs ==
    ASSUME NEW src \in [Index -> Bytes]
    PROVE  LET new == kstrncpy(src)
           IN  /\ new \in [Index -> Bytes] /\ kstrlen(new) \in Index
               /\ new[kstrlen(new)] = "NUL"
<1> DEFINE new == kstrncpy(src)
           len == kstrlen(new)
<1>1. new \in [Index -> Bytes]
    BY IndexIs DEF kstrncpy
<1>2. MaxLine - 1 \in Index /\ new[MaxLine - 1] = "NUL"
    BY IndexIs DEF kstrncpy
<1> HIDE DEF new
<1>3. /\ len \in Nat /\ len <= MaxLine
      /\ len < MaxLine => len \in Index /\ new[len] \in {"NUL"}
      /\ len <= MaxLine - 1
    BY <1>2, FirstIs, IndexIs DEF kstrlen
<1> HIDE DEF len
<1>4. len \in Index /\ new[len] = "NUL"
    BY <1>3, IndexIs
<1> QED
    BY <1>1, <1>4 DEF new, len

LEMMA SplitTyped == ASSUME NEW buf \in [Index -> Bytes] PROVE Split(buf) \in [Index -> Bytes]
BY IndexIs DEF Split

LEMMA SubmitLine == ASSUME LineInv, Submit PROVE LineInv'
<1> DEFINE ended == [g_line EXCEPT ![length] = "NUL"]
           split == Split(ended)
<1>1. split \in [Index -> Bytes]
    BY SplitTyped, IndexIs, Zenon DEF LineInv
<1>2. /\ g_line' = [split EXCEPT ![0] = "NUL"] /\ length' = 0 /\ cursor' = 0
      /\ g_last_line' = g_last_line \/ g_last_line' = kstrncpy(split)
    BY DEF Submit, saved
<1> HIDE DEF split
<1>3. g_last_line' \in [Index -> Bytes]
    BY <1>1, <1>2, CopyIs DEF LineInv
<1> QED
  <2>1. g_line' \in [Index -> Bytes] /\ g_line'[0] = "NUL"
    BY <1>1, <1>2, IndexIs
  <2>2. 0 \in Nat /\ 0 + 1 <= MaxLine
    BY IndexIs
  <2> QED
    BY <1>2, <1>3, <2>1, <2>2 DEF LineInv, LineWhole

LEMMA RecallLine == ASSUME LineInv, Recall PROVE LineInv'
<1> USE DEF LineInv
<1>1. CASE g_has_last_line
  <2>1. g_line' = kstrncpy(g_last_line) /\ length' = kstrlen(g_line') /\ cursor' = length'
        /\ g_last_line' = g_last_line
    BY <1>1 DEF Recall, saved
  <2>2. g_line' \in [Index -> Bytes] /\ length' \in Index /\ g_line'[length'] = "NUL"
    BY <2>1, CopyIs
  <2> QED
    BY <2>1, <2>2, IndexIs DEF LineWhole
<1>2. CASE ~g_has_last_line
    BY <1>2 DEF Recall, line, saved, LineWhole
<1> QED
    BY <1>1, <1>2

LEMMA EraseLine == ASSUME LineInv, Erase PROVE LineInv'
<1> USE DEF LineInv
<1>1. CASE cursor > 0
  <2>1. /\ g_line' = [i \in Index |->
                  IF i = length - 1 THEN "NUL"
                  ELSE IF i >= cursor - 1 /\ i + 1 < length THEN g_line[i + 1]
                  ELSE g_line[i]]
        /\ length' = length - 1 /\ cursor' = cursor - 1 /\ g_last_line' = g_last_line
    BY <1>1 DEF Erase, saved
  <2>2. length - 1 \in Index /\ cursor - 1 \in Nat /\ cursor - 1 <= length - 1
        /\ length - 1 + 1 <= MaxLine
    BY <1>1, IndexIs DEF LineWhole
  <2>3. \A i \in Index : i + 1 < length => i + 1 \in Index
    BY IndexIs DEF LineWhole
  <2>4. g_line' \in [Index -> Bytes]
    BY <2>1, <2>3, IndexIs
  <2>5. g_line'[length - 1] = "NUL"
    BY <2>1, <2>2
  <2> QED
    BY <2>1, <2>2, <2>4, <2>5, IndexIs DEF LineWhole
<1>2. CASE ~(cursor > 0)
    BY <1>2 DEF Erase, line, saved, LineWhole
<1> QED
    BY <1>1, <1>2

LEMMA InsertLine == ASSUME LineInv, NEW c \in Typed, Insert(c) PROVE LineInv'
<1> USE DEF LineInv
<1>1. CASE length + 1 < MaxLine
  <2>1. /\ g_line' = [i \in Index |->
                  IF i = length + 1 THEN "NUL"
                  ELSE IF i = cursor THEN c
                  ELSE IF i > cursor /\ i <= length THEN g_line[i - 1]
                  ELSE g_line[i]]
        /\ length' = length + 1 /\ cursor' = cursor + 1 /\ g_last_line' = g_last_line
    BY <1>1 DEF Insert, saved
  <2>2. length + 1 \in Index /\ length + 1 + 1 <= MaxLine /\ cursor + 1 <= length + 1
    BY <1>1, IndexIs DEF LineWhole
  <2>3. \A i \in Index : i > cursor => i - 1 \in Index
    BY IndexIs
  <2>4. g_line' \in [Index -> Bytes]
    BY <2>1, <2>3, IndexIs DEF Bytes
  <2>5. g_line'[length + 1] = "NUL"
    BY <2>1, <2>2
  <2> QED
    BY <2>1, <2>2, <2>4, <2>5 DEF LineWhole
<1>2. CASE ~(length + 1 < MaxLine)
    BY <1>2 DEF Insert, line, saved, LineWhole
<1> QED
    BY <1>1, <1>2

LEMMA MoveLine ==
    ASSUME LineInv, NEW c \in Nat, c <= length, MoveTo(c)
    PROVE  LineInv'
BY DEF LineInv, LineWhole, MoveTo, saved

LEMMA ClearLineInv == ASSUME LineInv, ClearLine PROVE LineInv'
BY IndexIs DEF LineInv, LineWhole, ClearLine, saved

LEMMA SameLine == ASSUME LineInv, UNCHANGED <<line, saved>> PROVE LineInv'
BY DEF LineInv, LineWhole, line, saved

LEMMA EditLine == ASSUME LineInv, NEW c, Edit(c) PROVE LineInv'
<1>1. length \in Nat /\ cursor \in Nat /\ cursor <= length
    BY DEF LineInv, LineWhole
<1>2. CASE UNCHANGED <<line, saved>>
    BY <1>2, SameLine
<1>3. CASE Submit \/ Recall \/ ClearLine \/ Erase
    BY <1>3, SubmitLine, RecallLine, ClearLineInv, EraseLine
<1>4. CASE \E t \in Typed : Insert(t)
    BY <1>4, InsertLine
<1>5. CASE \E k \in Nat : k <= length /\ MoveTo(k)
    BY <1>5, MoveLine
<1>6. CASE MoveTo(IF cursor > 0 THEN cursor - 1 ELSE cursor)
  <2>1. PICK k \in Nat : k = (IF cursor > 0 THEN cursor - 1 ELSE cursor) /\ k <= length
    BY <1>1
  <2> QED
    BY <1>5, <1>6, <2>1
<1>7. CASE MoveTo(IF cursor < length THEN cursor + 1 ELSE cursor)
  <2>1. PICK k \in Nat : k = (IF cursor < length THEN cursor + 1 ELSE cursor) /\ k <= length
    BY <1>1
  <2> QED
    BY <1>5, <1>7, <2>1
<1>8. 0 \in Nat /\ 0 <= length /\ length <= length
    BY <1>1
<1> QED
    BY <1>1, <1>2, <1>3, <1>4, <1>5, <1>6, <1>7, <1>8, Zenon DEF Edit

LEMMA LineNext == LineInv /\ [ShellNext]_shellVars => LineInv'
<1> SUFFICES ASSUME LineInv, [ShellNext]_shellVars PROVE LineInv'
    OBVIOUS
<1>1. CASE UNCHANGED shellVars
    BY <1>1, SameLine DEF shellVars, line, saved
<1>2. ASSUME NEW c, AfterEsc(c) PROVE LineInv'
    BY <1>2, SameLine, ClearLineInv DEF AfterEsc
<1>3. ASSUME NEW c, Keystroke(c) PROVE LineInv'
    BY <1>3, EditLine DEF Keystroke
<1> QED
    BY <1>1, <1>2, <1>3 DEF ShellNext

THEOREM LineInvariance == ShellSpec => []LineInv
<1>1. ShellInit => LineInv
    BY IndexIs DEF ShellInit, LineInv, LineWhole
<1> QED
    BY <1>1, LineNext, PTL DEF ShellSpec

\* The cursor is in the line and the line, with its terminator, in the buffer,
\* whatever is typed and however long the buffer is.
THEOREM LineInBuffer == ShellSpec => []LineWhole
<1>1. LineInv => LineWhole
    BY DEF LineInv
<1> QED
    BY <1>1, LineInvariance, PTL

----------------------------------------------------------------------------
(* The words of the line *)

\* A string that ends in its buffer.
Ended(buf) == buf \in [Index -> Bytes] /\ kstrlen(buf) \in Index

\* The two inner loops of dispatch_line, and one pass of the outer one.
Skip(buf, c) == First(buf, c, Bytes \ {Blank})
Stop(buf, s) == First(buf, s, {Blank, "NUL"})
Pass(buf, f, c) ==
    IF buf[Skip(buf, c)] = "NUL" THEN <<>>
    ELSE IF buf[Stop(buf, Skip(buf, c))] = "NUL" THEN <<Skip(buf, c)>>
    ELSE <<Skip(buf, c)>> \o f[Stop(buf, Skip(buf, c)) + 1]
From(buf) == CHOOSE f : f = [c \in 0..kstrlen(buf) |-> Pass(buf, f, c)]

\* A terminator anywhere in the buffer ends the string at the first one.
LEMMA EndIs ==
    ASSUME NEW buf \in [Index -> Bytes], NEW n \in Index, buf[n] = "NUL"
    PROVE  Ended(buf) /\ kstrlen(buf) <= n
<1>1. kstrlen(buf) \in Nat /\ kstrlen(buf) <= n
    BY FirstIs, IndexIs DEF kstrlen
<1> QED
    BY <1>1, IndexIs DEF Ended

LEMMA StringIs ==
    ASSUME NEW buf, Ended(buf)
    PROVE  LET p == kstrlen(buf)
           IN  /\ p \in Nat /\ p \in Index /\ buf[p] = "NUL"
               /\ \A j \in Nat : j < p => j \in Index /\ buf[j] \in Bytes /\ buf[j] # "NUL"
<1> DEFINE p == kstrlen(buf)
<1>1. p \in Index /\ p \in Nat /\ p < MaxLine
    BY IndexIs DEF Ended
<1>2. /\ p < MaxLine => buf[p] \in {"NUL"}
      /\ \A j \in Index : j >= 0 /\ buf[j] \in {"NUL"} => p <= j
    BY FirstIs DEF kstrlen
<1> HIDE DEF p
<1>3. ASSUME NEW j \in Nat, j < p PROVE j \in Index /\ buf[j] \in Bytes /\ buf[j] # "NUL"
  <2>1. j \in Index /\ j >= 0 /\ ~(p <= j)
    BY <1>1, <1>3, IndexIs
  <2> QED
    BY <1>2, <2>1 DEF Ended
<1> QED
    BY <1>1, <1>2, <1>3 DEF p

LEMMA SkipIs ==
    ASSUME NEW buf, Ended(buf), NEW c \in Nat, c <= kstrlen(buf)
    PROVE  LET s == Skip(buf, c)
           IN  /\ s \in Nat /\ c <= s /\ s <= kstrlen(buf)
               /\ buf[s] \in Bytes /\ buf[s] # Blank
               /\ \A j \in Nat : c <= j /\ j < s => buf[j] = Blank
               /\ (buf[s] = "NUL") <=> (s = kstrlen(buf))
<1> DEFINE p == kstrlen(buf)
           s == Skip(buf, c)
<1>1. /\ p \in Nat /\ p \in Index /\ buf[p] = "NUL"
      /\ \A j \in Nat : j < p => j \in Index /\ buf[j] \in Bytes /\ buf[j] # "NUL"
    BY StringIs
<1>2. /\ s \in Nat /\ s <= MaxLine
      /\ s < MaxLine => s \in Index /\ s >= c /\ buf[s] \in Bytes \ {Blank}
      /\ \A j \in Index : j >= c /\ buf[j] \in Bytes \ {Blank} => s <= j
    BY FirstIs, Zenon DEF Skip
<1>3. c <= p
    OBVIOUS
<1> HIDE DEF p, s
<1>4. buf[p] \in Bytes \ {Blank}
    BY <1>1, IndexIs DEF Blank
<1>5. s <= p /\ s < MaxLine
    BY <1>1, <1>2, <1>3, <1>4, IndexIs
<1>6. ASSUME NEW j \in Nat, c <= j, j < s PROVE buf[j] = Blank
  <2>1. j < p /\ ~(s <= j) /\ j >= c
    BY <1>1, <1>2, <1>5, <1>6
  <2> QED
    BY <1>1, <1>2, <2>1
<1>7. (buf[s] = "NUL") <=> (s = p)
  <2>1. s < p => buf[s] # "NUL"
    BY <1>1, <1>2
  <2>2. s < p \/ s = p
    BY <1>1, <1>2, <1>5
  <2>3. ~(p < p)
    BY <1>1
  <2> QED
    BY <1>1, <2>1, <2>2, <2>3
<1> QED
    BY <1>2, <1>5, <1>6, <1>7 DEF p, s

LEMMA StopIs ==
    ASSUME NEW buf, Ended(buf), NEW c \in Nat, c <= kstrlen(buf)
    PROVE  LET t == Stop(buf, c)
           IN  /\ t \in Nat /\ c <= t /\ t <= kstrlen(buf)
               /\ buf[t] \in {Blank, "NUL"}
               /\ \A j \in Nat : c <= j /\ j < t => buf[j] \notin {Blank, "NUL"}
               /\ (buf[t] = "NUL") <=> (t = kstrlen(buf))
<1> DEFINE p == kstrlen(buf)
           t == Stop(buf, c)
<1>1. /\ p \in Nat /\ p \in Index /\ buf[p] = "NUL"
      /\ \A j \in Nat : j < p => j \in Index /\ buf[j] \in Bytes /\ buf[j] # "NUL"
    BY StringIs
<1>2. /\ t \in Nat /\ t <= MaxLine
      /\ t < MaxLine => t \in Index /\ t >= c /\ buf[t] \in {Blank, "NUL"}
      /\ \A j \in Index : j >= c /\ buf[j] \in {Blank, "NUL"} => t <= j
    BY FirstIs DEF Stop
<1>3. c <= p
    OBVIOUS
<1> HIDE DEF p, t
<1>5. t <= p /\ t < MaxLine
    BY <1>1, <1>2, <1>3, IndexIs
<1>6. ASSUME NEW j \in Nat, c <= j, j < t PROVE buf[j] \notin {Blank, "NUL"}
  <2>1. j < p /\ ~(t <= j) /\ j >= c
    BY <1>1, <1>2, <1>5, <1>6, SMTT(60)
  <2> QED
    BY <1>1, <1>2, <2>1
<1>7. (buf[t] = "NUL") <=> (t = p)
  <2>1. t < p => buf[t] # "NUL"
    BY <1>1, <1>2
  <2>2. t < p \/ t = p
    BY <1>1, <1>2, <1>5, SMTT(60)
  <2>3. ~(p < p)
    BY <1>1
  <2> QED
    BY <1>1, <2>1, <2>2, <2>3
<1> QED
    BY <1>2, <1>5, <1>6, <1>7 DEF p, t

\* A pass looks at what the passes that begin behind it find, and at nothing else.
LEMMA SamePass ==
    ASSUME NEW buf, Ended(buf), NEW c \in 0..kstrlen(buf), NEW f, NEW g,
           \A d \in (c + 1)..kstrlen(buf) : f[d] = g[d]
    PROVE  Pass(buf, f, c) = Pass(buf, g, c)
<1> DEFINE p == kstrlen(buf)
           s == Skip(buf, c)
           t == Stop(buf, s)
<1>1. p \in Nat /\ c \in Nat /\ c <= p
    BY StringIs
<1>2. s \in Nat /\ c <= s /\ s <= p
    BY <1>1, SkipIs, SMTT(60)
<1>3. t \in Nat /\ s <= t /\ t <= p /\ ((buf[t] = "NUL") <=> (t = p))
    BY <1>2, StopIs
<1>4. \A d \in (c + 1)..p : f[d] = g[d]
    OBVIOUS
<1> HIDE DEF p, s, t
<1>5. t # p => t + 1 \in (c + 1)..p
    BY <1>1, <1>2, <1>3
<1>6. buf[t] # "NUL" => f[t + 1] = g[t + 1]
    BY <1>3, <1>4, <1>5
<1> QED
    BY <1>6 DEF Pass, s, t

\* The passes are defined for every string: each begins behind the one before.
LEMMA FromIs ==
    ASSUME NEW buf, Ended(buf)
    PROVE  \A c \in 0..kstrlen(buf) : From(buf)[c] = Pass(buf, From(buf), c)
<1> DEFINE p == kstrlen(buf)
           Solves(m, f) == f = [c \in (p - m)..p |-> Pass(buf, f, c)]
           T == {m \in Nat : m <= p /\ ~\E f : Solves(m, f)}
<1>1. p \in Nat
    BY StringIs
<1>2. ASSUME T # {} PROVE FALSE
  <2>1. T \subseteq Nat
    OBVIOUS
  <2>2. PICK m \in T : \A t \in T : m <= t
    <3> HIDE DEF T
    <3> QED
      BY <1>2, <2>1, MinIs, Zenon
  <2>3. m \in Nat /\ m <= p /\ ~\E f : Solves(m, f)
    BY <2>2
  <2>4. m # 0
    <3> DEFINE f == [c \in p..p |-> <<>>]
    <3>1. \A c \in p..p : c = p /\ Pass(buf, f, c) = <<>>
      <4>1. \A c \in p..p : c = p
        BY <1>1
      <4>2. buf[Skip(buf, p)] = "NUL"
        <5> PICK k \in Nat : k = p
          BY <1>1
        <5>1. k <= p
          BY <1>1
        <5> QED
          BY <5>1, SkipIs
      <4> QED
        BY <4>1, <4>2 DEF Pass
    <3>2. f = [c \in p..p |-> Pass(buf, f, c)]
      BY <3>1
    <3>3. m = 0 => Solves(m, f)
      <4>1. m = 0 => p - m = p
        BY <1>1
      <4> QED
        BY <3>2, <4>1, Zenon
    <3> QED
      BY <2>3, <3>3, Zenon
  <2>5. m - 1 \in Nat /\ m - 1 <= p /\ ~(m <= m - 1) /\ p - m \in 0..p
        /\ p - (m - 1) = (p - m) + 1
    BY <1>1, <2>3, <2>4
  <2>6. PICK g : Solves(m - 1, g)
    BY <2>2, <2>5
  <2> DEFINE k == p - m
             f == [c \in k..p |-> IF c = k THEN Pass(buf, g, k) ELSE g[c]]
  <2>7. k \in Nat /\ k <= p
    BY <2>5
  <2>8. g = [c \in (k + 1)..p |-> Pass(buf, g, c)]
    BY <2>5, <2>6, ZenonT(60)
  <2> HIDE DEF k
  <2>9. ASSUME NEW c \in k..p PROVE f[c] = Pass(buf, f, c)
    <3>1. \A d \in (c + 1)..p : g[d] = f[d]
      BY <1>1, <2>7
    <3>2. c \in 0..p
      BY <1>1, <2>7
    <3> HIDE DEF f
    <3>3. Pass(buf, g, c) = Pass(buf, f, c)
      BY <3>1, <3>2, SamePass
    <3>4. f[c] = Pass(buf, g, c)
      <4>1. CASE c = k
        BY <4>1 DEF f
      <4>2. CASE c # k
        <5>1. c \in (k + 1)..p
          BY <1>1, <2>7, <4>2
        <5>2. f[c] = g[c]
          BY <4>2 DEF f
        <5> QED
          BY <2>8, <5>1, <5>2, Zenon
      <4> QED
        BY <4>1, <4>2
    <3> QED
      BY <3>3, <3>4
  <2>10. f = [c \in k..p |-> Pass(buf, f, c)]
    <3>1. f = [c \in k..p |-> f[c]]
      OBVIOUS
    <3> HIDE DEF f
    <3> QED
      BY <2>9, <3>1
  <2> QED
    BY <2>3, <2>10, Zenon DEF k
<1>3. p \notin T
    BY <1>2
<1>4. \E f : f = [c \in 0..p |-> Pass(buf, f, c)]
  <2>1. \E f : Solves(p, f)
    BY <1>1, <1>3
  <2>2. p - p = 0
    BY <1>1
  <2> QED
    BY <2>1, <2>2
<1>5. From(buf) = [c \in 0..p |-> Pass(buf, From(buf), c)]
    BY <1>4, Zenon DEF From
<1> QED
    BY <1>5, Zenon

\* w lists the set S of numbers in rising order.
Rising(w) == w \in Seq(Nat) /\ \A i, j \in 1..Len(w) : i < j => w[i] < w[j]
Lists(w, S) ==
    /\ Rising(w)
    /\ \A i \in 1..Len(w) : w[i] \in S
    /\ \A x \in S : \E i \in 1..Len(w) : w[i] = x

LEMMA ListNone == Lists(<<>>, {})
BY DEF Lists, Rising

LEMMA ListOne == ASSUME NEW s \in Nat PROVE Lists(<<s>>, {s})
<1> DEFINE w == <<s>>
<1>1. w \in Seq(Nat) /\ Len(w) = 1 /\ w[1] = s
    OBVIOUS
<1> HIDE DEF w
<1>2. \A i \in 1..Len(w) : i = 1
    BY <1>1
<1>3. 1 \in 1..Len(w)
    BY <1>1
<1>4. Rising(w)
    BY <1>1, <1>2 DEF Rising
<1>5. Lists(w, {s})
    BY <1>1, <1>2, <1>3, <1>4 DEF Lists
<1> QED
    BY <1>5 DEF w

LEMMA ListMore ==
    ASSUME NEW s \in Nat, NEW w, NEW S, Lists(w, S), \A x \in S : s < x
    PROVE  Lists(<<s>> \o w, {s} \cup S)
<1> DEFINE v == <<s>> \o w
<1>1. w \in Seq(Nat) /\ Len(w) \in Nat
    BY DEF Lists, Rising
<1>2. v \in Seq(Nat) /\ Len(v) = Len(w) + 1 /\ v[1] = s
    BY <1>1
<1>3. \A i \in 1..Len(w) : v[i + 1] = w[i]
    BY <1>1
<1> HIDE DEF v
<1>4. \A i \in 1..Len(v) : i = 1 \/ (i - 1 \in 1..Len(w) /\ v[i] = w[i - 1])
  <2> TAKE i \in 1..Len(v)
  <2>1. i # 1 => i - 1 \in 1..Len(w) /\ (i - 1) + 1 = i
    BY <1>1, <1>2
  <2> QED
    BY <1>3, <2>1
<1>5. \A i \in 1..Len(w) : s < w[i] /\ w[i] \in Nat /\ w[i] \in S
    BY <1>1 DEF Lists
<1>6. ASSUME NEW i \in 1..Len(v), NEW j \in 1..Len(v), i < j PROVE v[i] < v[j]
  <2>1. j # 1 /\ j - 1 \in 1..Len(w) /\ v[j] = w[j - 1]
    <3>1. j # 1
      BY <1>6
    <3> QED
      BY <1>4, <3>1
  <2>2. CASE i = 1
    BY <1>2, <1>5, <2>1, <2>2
  <2>3. CASE i # 1
    <3>1. i - 1 \in 1..Len(w) /\ v[i] = w[i - 1] /\ i - 1 < j - 1
      BY <1>4, <1>6, <2>3
    <3> QED
      BY <2>1, <3>1, SMTT(60) DEF Lists, Rising
  <2> QED
    BY <2>2, <2>3
<1>7. \A i \in 1..Len(v) : v[i] \in {s} \cup S
    BY <1>2, <1>4, <1>5, Zenon
<1>8. ASSUME NEW x \in {s} \cup S PROVE \E i \in 1..Len(v) : v[i] = x
  <2>1. CASE x = s
    <3>1. 1 \in 1..Len(v)
      BY <1>1, <1>2
    <3> QED
      BY <1>2, <2>1, <3>1
  <2>2. CASE x \in S
    <3>1. PICK i \in 1..Len(w) : w[i] = x
      BY <2>2 DEF Lists
    <3>2. i + 1 \in 1..Len(v) /\ v[i + 1] = x
      BY <1>1, <1>2, <1>3, <3>1
    <3> QED
      BY <3>2
  <2> QED
    BY <2>1, <2>2
<1>9. Rising(v)
    BY <1>2, <1>6 DEF Rising
<1>10. Lists(v, {s} \cup S)
    BY <1>7, <1>8, <1>9 DEF Lists
<1> QED
    BY <1>10 DEF v

\* The positions from c on where a word of the string begins.
Heads(buf, c) ==
    {i \in c..(kstrlen(buf) - 1) : buf[i] # Blank /\ (i = 0 \/ buf[i - 1] = Blank)}

\* From a position that is not inside a word, dispatch_line finds the words that
\* begin there or later, in their order.
LEMMA FromHeads ==
    ASSUME NEW buf, Ended(buf)
    PROVE  \A c \in 0..kstrlen(buf) :
              c = 0 \/ buf[c - 1] = Blank => Lists(From(buf)[c], Heads(buf, c))
<1> DEFINE p == kstrlen(buf)
           T == {m \in Nat : /\ m <= p /\ (p - m = 0 \/ buf[p - m - 1] = Blank)
                             /\ ~Lists(From(buf)[p - m], Heads(buf, p - m))}
<1>1. p \in Nat
    BY StringIs
<1>2. ASSUME T # {} PROVE FALSE
  <2>1. T \subseteq Nat
    OBVIOUS
  <2>2. PICK m \in T : \A n \in T : m <= n
    <3> HIDE DEF T
    <3> QED
      BY <1>2, <2>1, MinIs, Zenon
  <2> DEFINE c == p - m
             s == Skip(buf, c)
             t == Stop(buf, s)
  <2>3. /\ m \in Nat /\ m <= p /\ (c = 0 \/ buf[c - 1] = Blank)
        /\ ~Lists(From(buf)[c], Heads(buf, c))
    BY <2>2
  <2>4. c \in Nat /\ c <= p /\ c \in 0..p /\ m = p - c
    BY <1>1, <2>3
  <2>5. From(buf)[c] = Pass(buf, From(buf), c)
    BY <2>4, FromIs
  <2> HIDE DEF c
  <2>6. /\ s \in Nat /\ c <= s /\ s <= p /\ buf[s] # Blank
        /\ \A j \in Nat : c <= j /\ j < s => buf[j] = Blank
        /\ (buf[s] = "NUL") <=> (s = p)
    BY <2>4, SkipIs, SMTT(60)
  <2>7. /\ t \in Nat /\ s <= t /\ t <= p /\ buf[t] \in {Blank, "NUL"}
        /\ \A j \in Nat : s <= j /\ j < t => buf[j] # Blank
        /\ (buf[t] = "NUL") <=> (t = p)
    BY <2>6, StopIs, SMTT(60)
  <2>8. From(buf)[c] = IF buf[s] = "NUL" THEN <<>>
                       ELSE IF buf[t] = "NUL" THEN <<s>>
                       ELSE <<s>> \o From(buf)[t + 1]
    BY <2>5 DEF Pass
  <2> HIDE DEF p, s, t, T
  <2>9. \A i : i \in Heads(buf, c) <=> /\ i \in Nat /\ c <= i /\ i < p
                                        /\ buf[i] # Blank /\ (i = 0 \/ buf[i - 1] = Blank)
    BY <1>1, <2>4 DEF Heads, p
  <2>10. ASSUME NEW i \in Heads(buf, c) PROVE s <= i /\ s < p /\ (i = s \/ t < i)
    <3>1. i \in Nat /\ c <= i /\ i < p /\ buf[i] # Blank /\ (i = 0 \/ buf[i - 1] = Blank)
      BY <2>9
    <3>2. s <= i
      <4>1. ~(i < s)
        BY <2>6, <3>1
      <4> QED
        BY <2>6, <3>1, <4>1
    <3>3. CASE i > s /\ i <= t
      <4>1. i - 1 \in Nat /\ s <= i - 1 /\ i - 1 < t /\ i # 0
        BY <2>6, <2>7, <3>1, <3>3, SMTT(60)
      <4> QED
        BY <2>7, <3>1, <4>1
    <3> QED
      BY <1>1, <2>6, <2>7, <3>1, <3>2, <3>3
  <2>11. CASE s = p
    <3>1. Heads(buf, c) = {}
      <4>1. ~(p < p)
        BY <1>1
      <4> QED
        BY <2>10, <2>11, <4>1
    <3> QED
      BY <2>3, <2>6, <2>8, <2>11, <3>1, ListNone, SMTT(60)
  <2>12. s # p => s \in Heads(buf, c)
    <3> SUFFICES ASSUME s # p PROVE s \in Heads(buf, c)
      OBVIOUS
    <3>1. s < p
      BY <1>1, <2>6
    <3>2. s = 0 \/ buf[s - 1] = Blank
      <4>1. CASE s = c
        BY <2>3, <4>1
      <4>2. CASE s # c
        <5>1. s - 1 \in Nat /\ c <= s - 1 /\ s - 1 < s
          BY <2>4, <2>6, <4>2, SMTT(60)
        <5> QED
          BY <2>6, <5>1
      <4> QED
        BY <4>1, <4>2
    <3> QED
      BY <2>6, <2>9, <3>1, <3>2, SMTT(60)
  <2>13. CASE s # p /\ t = p
    <3>1. Heads(buf, c) = {s}
      <4>1. \A i \in Heads(buf, c) : i < p /\ i \in Nat
        BY <2>9
      <4>2. \A i \in Heads(buf, c) : ~(t < i)
        BY <1>1, <2>13, <4>1
      <4> QED
        BY <2>10, <2>12, <2>13, <4>2
    <3> QED
      BY <2>3, <2>6, <2>7, <2>8, <2>13, <3>1, ListOne, SMTT(60)
  <2>14. CASE s # p /\ t # p
    <3> DEFINE d == t + 1
    <3>1. d \in Nat /\ d <= p /\ d > c /\ d > s /\ d - 1 = t /\ buf[t] = Blank /\ d # 0
      BY <1>1, <2>4, <2>6, <2>7, <2>14
    <3> HIDE DEF d
    <3>2. Lists(From(buf)[d], Heads(buf, d))
      <4>1. p - d \in Nat /\ p - d <= p /\ p - (p - d) = d /\ ~(m <= p - d)
        BY <1>1, <2>4, <3>1
      <4>2. p - d \notin T
        BY <2>2, <4>1
      <4>3. buf[d - 1] = Blank
        BY <3>1
      <4> PICK n \in Nat : n = p - d
        BY <4>1
      <4> QED
        BY <4>1, <4>2, <4>3 DEF T
    <3>3. \A i : i \in Heads(buf, d) <=> /\ i \in Nat /\ d <= i /\ i < p
                                          /\ buf[i] # Blank /\ (i = 0 \/ buf[i - 1] = Blank)
      BY <1>1, <3>1 DEF Heads, p
    <3>4. \A x \in Heads(buf, d) : s < x
      BY <2>6, <3>1, <3>3
    <3>5. Lists(<<s>> \o From(buf)[d], {s} \cup Heads(buf, d))
      BY <2>6, <3>2, <3>4, ListMore
    <3>6. Heads(buf, c) = {s} \cup Heads(buf, d)
      <4>1. ASSUME NEW i \in Heads(buf, c), i # s PROVE i \in Heads(buf, d)
        <5>1. t < i /\ i \in Nat
          BY <2>9, <2>10, <4>1
        <5>2. d <= i
          BY <2>7, <3>1, <5>1
        <5> QED
          BY <2>9, <3>3, <5>2
      <4>2. ASSUME NEW i \in Heads(buf, d) PROVE i \in Heads(buf, c)
        <5>1. i \in Nat /\ d <= i
          BY <3>3
        <5>2. c <= i
          BY <2>4, <3>1, <5>1, SMTT(60)
        <5> QED
          BY <2>9, <3>3, <5>2
      <4> QED
        BY <2>12, <2>14, <4>1, <4>2
    <3>7. From(buf)[c] = <<s>> \o From(buf)[d]
      BY <2>6, <2>7, <2>8, <2>14, SMTT(60) DEF d
    <3> QED
      BY <2>3, <3>5, <3>6, <3>7
  <2> QED
    BY <2>11, <2>13, <2>14
<1>3. ASSUME NEW c \in 0..p, c = 0 \/ buf[c - 1] = Blank
      PROVE  Lists(From(buf)[c], Heads(buf, c))
  <2> PICK m \in Nat : m = p - c
    BY <1>1
  <2>1. m <= p /\ p - m = c
    BY <1>1
  <2>2. m \notin T
    BY <1>2
  <2> QED
    BY <1>3, <2>1, <2>2
<1> QED
    BY <1>3

\* The k-th number of a list has k numbers of the set up to it.
LEMMA CountIs ==
    ASSUME NEW w, NEW S, Lists(w, S)
    PROVE  /\ Cardinality(S) = Len(w)
           /\ \A k \in 1..Len(w) : Cardinality({x \in S : x <= w[k]}) = k
<1> DEFINE A(k) == {w[i] : i \in 1..k}
           T == {k \in Nat : k <= Len(w) /\ ~(IsFiniteSet(A(k)) /\ Cardinality(A(k)) = k)}
<1>1. w \in Seq(Nat) /\ Len(w) \in Nat /\ \A i \in 1..Len(w) : w[i] \in Nat
    BY DEF Lists, Rising
<1>2. \A i, j \in 1..Len(w) : i < j => w[i] < w[j]
    BY DEF Lists, Rising
<1>3. ASSUME T # {} PROVE FALSE
  <2>1. T \subseteq Nat
    OBVIOUS
  <2>2. PICK k \in T : \A n \in T : k <= n
    <3> HIDE DEF T
    <3> QED
      BY <1>3, <2>1, MinIs, ZenonT(60)
  <2>3. k \in Nat /\ k <= Len(w) /\ ~(IsFiniteSet(A(k)) /\ Cardinality(A(k)) = k)
    BY <2>2
  <2>4. k # 0
    <3>1. k = 0 => A(k) = {}
      OBVIOUS
    <3> HIDE DEF A
    <3> QED
      BY <2>3, <3>1, FS_EmptySet
  <2>5. k - 1 \in Nat /\ k - 1 <= Len(w) /\ ~(k <= k - 1) /\ k \in 1..Len(w)
    BY <1>1, <2>3, <2>4
  <2>6. IsFiniteSet(A(k - 1)) /\ Cardinality(A(k - 1)) = k - 1
    BY <2>2, <2>5, Zenon
  <2>7. A(k) = A(k - 1) \cup {w[k]}
    <3>1. \A i \in 1..k : i \in 1..(k - 1) \/ i = k
      BY <2>3
    <3>2. \A i \in 1..(k - 1) : i \in 1..k
      BY <2>3
    <3>3. k \in 1..k
      BY <2>5
    <3> QED
      BY <3>1, <3>2, <3>3
  <2>8. w[k] \notin A(k - 1)
    <3>1. \A i \in 1..(k - 1) : i \in 1..Len(w) /\ i < k
      BY <1>1, <2>3, <2>5
    <3>2. \A i \in 1..(k - 1) : w[i] < w[k] /\ w[i] \in Nat
      BY <1>1, <1>2, <2>5, <3>1
    <3>3. w[k] \in Nat /\ ~(w[k] < w[k])
      BY <1>1, <2>5, SMTT(60)
    <3> QED
      BY <3>2, <3>3
  <2> HIDE DEF A
  <2>9. IsFiniteSet(A(k)) /\ Cardinality(A(k)) = Cardinality(A(k - 1)) + 1
    BY <2>6, <2>7, <2>8, FS_AddElement
  <2>10. Cardinality(A(k)) = k
    BY <2>3, <2>6, <2>9
  <2> QED
    BY <2>3, <2>9, <2>10
<1>4. \A k \in Nat : k <= Len(w) => Cardinality(A(k)) = k
    BY <1>3, Zenon
<1>5. S = A(Len(w))
    BY DEF Lists
<1>6. ASSUME NEW k \in 1..Len(w) PROVE {x \in S : x <= w[k]} = A(k)
  <2>1. ASSUME NEW x \in S, x <= w[k] PROVE x \in A(k)
    <3>1. PICK i \in 1..Len(w) : w[i] = x
      BY DEF Lists
    <3>2. ~(k < i)
      <4>1. k < i => w[k] < w[i]
        BY <1>2
      <4>2. w[k] \in Nat /\ w[i] \in Nat
        BY <1>1
      <4> QED
        BY <2>1, <3>1, <4>1, <4>2
    <3>3. i \in 1..k
      BY <1>1, <3>2
    <3> QED
      BY <3>1, <3>3
  <2>2. ASSUME NEW i \in 1..k PROVE w[i] \in S /\ w[i] <= w[k]
    <3>1. i \in 1..Len(w)
      BY <1>1
    <3>2. w[i] \in S /\ w[i] \in Nat /\ w[k] \in Nat
      BY <1>1, <3>1 DEF Lists
    <3>3. i < k \/ i = k
      BY <1>1
    <3>4. i < k => w[i] < w[k]
      BY <1>2, <3>1
    <3> QED
      BY <3>2, <3>3, <3>4
  <2> QED
    BY <2>1, <2>2
<1> HIDE DEF A
<1>7. \A k \in 1..Len(w) : k \in Nat /\ k <= Len(w)
    BY <1>1
<1>8. Len(w) <= Len(w)
    BY <1>1
<1> QED
    BY <1>1, <1>4, <1>5, <1>6, <1>7, <1>8, ZenonT(60)

\* The functions of the library are the same ones in both modules.
LEMMA CountSame == ASSUME NEW T PROVE Editor!Cardinality(T) = Cardinality(T)
BY DEF Editor!Cardinality, Editor!IsFiniteSet, Cardinality, IsFiniteSet

LEMMA NthIs ==
    ASSUME NEW w, NEW S, Lists(w, S), NEW k \in 1..Len(w)
    PROVE  Editor!Nth(S, k) = w[k]
<1>1. w[k] \in S /\ Cardinality({j \in S : j <= w[k]}) = k
    BY CountIs, Zenon DEF Lists
<1>2. ASSUME NEW i \in S, Cardinality({j \in S : j <= i}) = k PROVE i = w[k]
  <2>1. PICK n \in 1..Len(w) : w[n] = i
    BY DEF Lists
  <2>2. Cardinality({j \in S : j <= w[n]}) = n
    BY CountIs
  <2> QED
    BY <1>2, <2>1, <2>2
<1> DEFINE P(i) == Cardinality({j \in S : j <= i}) = k
<1>3. Editor!Nth(S, k) = CHOOSE i \in S : P(i)
    BY CountSame DEF Editor!Nth
<1>4. \A i \in S : P(i) <=> i = w[k]
    BY <1>1, <1>2
<1> HIDE DEF P
<1> QED
    BY <1>1, <1>3, <1>4

LEMMA MinSame ==
    ASSUME NEW T, T \subseteq Nat, T # {}
    PROVE  Editor!Min(T) \in T /\ \A t \in T : Editor!Min(T) <= t
<1>1. Editor!Min(T) = Min(T)
    BY DEF Editor!Min, Min
<1> QED
    BY <1>1, MinIs, Zenon

----------------------------------------------------------------------------
(* The line as a text *)

LEMMA SeqSame ==
    ASSUME NEW S, NEW s \in Seq(S), NEW t \in Seq(S), Len(s) = Len(t),
           \A i \in 1..Len(s) : s[i] = t[i]
    PROVE  s = t
<1>1. s = [i \in 1..Len(s) |-> s[i]] /\ t = [i \in 1..Len(t) |-> t[i]]
    OBVIOUS
<1> QED
    BY <1>1

LEMMA SliceIs ==
    ASSUME NEW buf \in [Index -> Bytes], NEW i \in Nat, NEW j \in Nat, i <= j, j <= MaxLine
    PROVE  /\ Slice(buf, i, j) \in Seq(Bytes) /\ Len(Slice(buf, i, j)) = j - i
           /\ \A k \in 1..(j - i) : Slice(buf, i, j)[k] = buf[i + k - 1]
<1>1. \A k \in 1..(j - i) : i + k - 1 \in Index
    BY IndexIs
<1>2. j - i \in Nat
    OBVIOUS
<1>3. \A k \in 1..(j - i) : buf[i + k - 1] \in Bytes
    BY <1>1
<1> QED
    BY <1>2, <1>3 DEF Slice

LEMMA SliceSame ==
    ASSUME NEW b, NEW c, NEW i \in Nat, NEW j \in Nat, NEW d \in Int,
           \A x \in Nat : i <= x /\ x < j => b[x] = c[x + d]
    PROVE  Slice(b, i, j) = Slice(c, i + d, j + d)
<1>1. (j + d) - (i + d) = j - i
    OBVIOUS
<1>2. ASSUME NEW k \in 1..(j - i) PROVE b[i + k - 1] = c[i + d + k - 1]
  <2>1. i + k - 1 \in Nat /\ i <= i + k - 1 /\ i + k - 1 < j
        /\ (i + k - 1) + d = i + d + k - 1
    OBVIOUS
  <2> QED
    BY <2>1
<1> QED
    BY <1>1, <1>2 DEF Slice

LEMMA SliceEqual ==
    ASSUME NEW b, NEW c, NEW i \in Nat, NEW j \in Nat,
           \A x \in Nat : i <= x /\ x < j => b[x] = c[x]
    PROVE  Slice(b, i, j) = Slice(c, i, j)
<1>1. ASSUME NEW k \in 1..(j - i) PROVE b[i + k - 1] = c[i + k - 1]
  <2>1. i + k - 1 \in Nat /\ i <= i + k - 1 /\ i + k - 1 < j
    OBVIOUS
  <2> QED
    BY <2>1
<1> QED
    BY <1>1 DEF Slice

LEMMA SliceNone == ASSUME NEW b, NEW i \in Nat PROVE Slice(b, i, i) = <<>>
<1>1. i - i = 0
    OBVIOUS
<1> QED
    BY <1>1 DEF Slice

LEMMA SliceJoin ==
    ASSUME NEW buf \in [Index -> Bytes], NEW i \in Nat, NEW j \in Nat, NEW k \in Nat,
           i <= j, j <= k, k <= MaxLine
    PROVE  Slice(buf, i, j) \o Slice(buf, j, k) = Slice(buf, i, k)
<1> DEFINE a == Slice(buf, i, j)
           b == Slice(buf, j, k)
           c == Slice(buf, i, k)
<1>1. j <= MaxLine /\ i <= k
    BY IndexIs
<1>2. a \in Seq(Bytes) /\ Len(a) = j - i /\ \A x \in 1..(j - i) : a[x] = buf[i + x - 1]
    BY <1>1, SliceIs, Zenon
<1>3. b \in Seq(Bytes) /\ Len(b) = k - j /\ \A x \in 1..(k - j) : b[x] = buf[j + x - 1]
    BY <1>1, SliceIs, Zenon
<1>4. c \in Seq(Bytes) /\ Len(c) = k - i /\ \A x \in 1..(k - i) : c[x] = buf[i + x - 1]
    BY <1>1, SliceIs, ZenonT(60)
<1> HIDE DEF a, b, c
<1>5. a \o b \in Seq(Bytes) /\ Len(a \o b) = k - i
  <2>1. a \o b \in Seq(Bytes)
    BY <1>2, <1>3
  <2>4. a \in Seq(Bytes) /\ b \in Seq(Bytes)
    BY <1>2, <1>3
  <2>2. Len(a \o b) = Len(a) + Len(b)
    BY <2>4
  <2>3. (j - i) + (k - j) = k - i
    OBVIOUS
  <2> QED
    BY <1>2, <1>3, <2>1, <2>2, <2>3
<1>6. ASSUME NEW x \in 1..(k - i) PROVE (a \o b)[x] = c[x]
  <2>1. CASE x <= j - i
    <3>1. (a \o b)[x] = a[x] /\ x \in 1..(j - i)
      BY <1>2, <1>3, <2>1
    <3> QED
      BY <1>2, <1>4, <3>1
  <2>2. CASE ~(x <= j - i)
    <3>1. x - (j - i) \in 1..(k - j) /\ j + (x - (j - i)) - 1 = i + x - 1
      BY <2>2
    <3>2. (a \o b)[x] = b[x - (j - i)]
      BY <1>2, <1>3, <2>2, SMTT(60)
    <3> QED
      BY <1>3, <1>4, <3>1, <3>2
  <2> QED
    BY <2>1, <2>2, ZenonT(60)
<1>7. a \o b = c
    BY <1>4, <1>5, <1>6, SeqSame, ZenonT(60)
<1> QED
    BY <1>7 DEF a, b, c

LEMMA SliceSub ==
    ASSUME NEW buf \in [Index -> Bytes], NEW n \in Nat, n <= MaxLine,
           NEW i \in Nat, NEW j \in Nat, i <= j, j <= n
    PROVE  SubSeq(Slice(buf, 0, n), i + 1, j) = Slice(buf, i, j)
<1> DEFINE a == Slice(buf, 0, n)
           b == Slice(buf, i, j)
<1>1. j <= MaxLine /\ 0 <= n /\ n - 0 = n /\ 0 \in Nat
    BY IndexIs
<1>2. a \in Seq(Bytes) /\ Len(a) = n /\ \A x \in 1..n : a[x] = buf[x - 1]
  <2>1. a \in Seq(Bytes) /\ Len(a) = n - 0 /\ \A x \in 1..(n - 0) : a[x] = buf[0 + x - 1]
    BY <1>1, SliceIs, Zenon
  <2> QED
    BY <1>1, <2>1
<1>3. b \in Seq(Bytes) /\ Len(b) = j - i /\ \A x \in 1..(j - i) : b[x] = buf[i + x - 1]
    BY <1>1, SliceIs, ZenonT(60)
<1> HIDE DEF a, b
<1>4. /\ SubSeq(a, i + 1, j) \in Seq(Bytes) /\ Len(SubSeq(a, i + 1, j)) = j - i
    BY <1>2
<1>5. ASSUME NEW x \in 1..(j - i) PROVE SubSeq(a, i + 1, j)[x] = b[x]
  <2>1. SubSeq(a, i + 1, j)[x] = a[i + x] /\ i + x \in 1..n
    BY <1>2
  <2> QED
    BY <1>2, <1>3, <2>1
<1>6. SubSeq(a, i + 1, j) = b
    BY <1>3, <1>4, <1>5, SeqSame
<1> QED
    BY <1>6 DEF a, b

\* The line as the editor has it.
LEMMA WholeIs ==
    ASSUME NEW buf \in [Index -> Bytes], NEW n \in Nat, n <= MaxLine
    PROVE  /\ Slice(buf, 0, n) \in Seq(Bytes) /\ Len(Slice(buf, 0, n)) = n
           /\ \A x \in 1..n : Slice(buf, 0, n)[x] = buf[x - 1]
<1>1. 0 <= n /\ n - 0 = n /\ 0 \in Nat
    OBVIOUS
<1>2. /\ Slice(buf, 0, n) \in Seq(Bytes) /\ Len(Slice(buf, 0, n)) = n - 0
      /\ \A x \in 1..(n - 0) : Slice(buf, 0, n)[x] = buf[0 + x - 1]
    BY <1>1, SliceIs, Zenon
<1> QED
    BY <1>1, <1>2

\* What reads the line as a string reads it up to its first NUL byte.
LEMMA TextIs ==
    ASSUME NEW buf \in [Index -> Bytes], NEW n \in Index, buf[n] = "NUL"
    PROVE  Editor!Text(Slice(buf, 0, n)) = Slice(buf, 0, kstrlen(buf))
<1> DEFINE s == Slice(buf, 0, n)
           p == kstrlen(buf)
           I == {i \in 1..Len(s) : s[i] = "NUL"}
<1>1. n \in Nat /\ n <= MaxLine
    BY IndexIs
<1>2. s \in Seq(Bytes) /\ Len(s) = n /\ \A x \in 1..n : s[x] = buf[x - 1]
    BY <1>1, WholeIs
<1>3. Ended(buf) /\ p <= n
    BY EndIs
<1>4. p \in Nat /\ buf[p] = "NUL" /\ \A j \in Nat : j < p => buf[j] # "NUL"
    BY <1>3, StringIs
<1>5. Editor!Text(s) = IF I = {} THEN s ELSE SubSeq(s, 1, Editor!Min(I) - 1)
    BY DEF Editor!Text
<1> HIDE DEF p
<1>6. CASE p = n
  <2>1. I = {}
    <3>1. ASSUME NEW i \in 1..n PROVE s[i] # "NUL"
      <4>1. i - 1 \in Nat /\ i - 1 < p
        BY <1>1, <1>6
      <4> QED
        BY <1>2, <1>4, <4>1
    <3> QED
      BY <1>2, <3>1
  <2> HIDE DEF I
  <2> QED
    BY <1>5, <1>6, <2>1 DEF p
<1>7. CASE p # n
  <2>1. p < n /\ p + 1 \in 1..n /\ (p + 1) - 1 = p /\ p + 1 \in Nat
    BY <1>1, <1>3, <1>4, <1>7
  <2>2. p + 1 \in I /\ I \subseteq Nat
    BY <1>2, <1>4, <2>1
  <2>3. ASSUME NEW i \in I PROVE p + 1 <= i
    <3>1. i \in 1..n /\ buf[i - 1] = "NUL" /\ i - 1 \in Nat
      BY <1>2
    <3>2. ~(i - 1 < p)
      BY <1>4, <3>1
    <3> QED
      BY <1>4, <3>1, <3>2
  <2> HIDE DEF I
  <2>4. Editor!Min(I) \in I /\ \A i \in I : Editor!Min(I) <= i
    BY <2>2, MinSame, Zenon
  <2>5. Editor!Min(I) = p + 1
    <3>1. Editor!Min(I) \in Nat /\ p + 1 <= Editor!Min(I) /\ Editor!Min(I) <= p + 1
      BY <2>2, <2>3, <2>4, Zenon
    <3> QED
      BY <2>1, <3>1
  <2>6. I # {} /\ Editor!Min(I) - 1 = p
    BY <1>4, <2>2, <2>5
  <2>7. Editor!Text(s) = SubSeq(s, 1, p)
    BY <1>5, <2>6
  <2>8. SubSeq(s, 0 + 1, p) = Slice(buf, 0, p)
    <3>1. 0 \in Nat /\ 0 <= p
      BY <1>4
    <3> QED
      BY <1>1, <1>3, <1>4, <3>1, SliceSub
  <2>9. 0 + 1 = 1
    OBVIOUS
  <2> QED
    BY <2>7, <2>8, <2>9, Zenon DEF p
<1> QED
    BY <1>6, <1>7

\* Where a word ends.
LEMMA WordEndIs ==
    ASSUME NEW buf, Ended(buf), NEW r \in Nat, r <= kstrlen(buf)
    PROVE  Editor!WordEnd(Slice(buf, 0, kstrlen(buf)), r + 1) = Stop(buf, r)
<1> DEFINE p == kstrlen(buf)
           s == Slice(buf, 0, p)
           t == Stop(buf, r)
           J == {j \in (r + 1)..(Len(s) + 1) : j = Len(s) + 1 \/ s[j] = Blank}
<1>1. /\ p \in Nat /\ p <= MaxLine /\ buf[p] = "NUL" /\ buf \in [Index -> Bytes] /\ r <= p
      /\ \A j \in Nat : j < p => buf[j] # "NUL"
    BY StringIs, IndexIs DEF Ended
<1>2. s \in Seq(Bytes) /\ Len(s) = p /\ \A x \in 1..p : s[x] = buf[x - 1]
    BY <1>1, WholeIs
<1>3. /\ t \in Nat /\ r <= t /\ t <= p /\ buf[t] \in {Blank, "NUL"}
      /\ \A j \in Nat : r <= j /\ j < t => buf[j] # Blank
    BY StopIs
<1>4. Editor!WordEnd(s, r + 1) = Editor!Min(J) - 1
    BY Zenon DEF Editor!WordEnd, Editor!Blank, Blank
<1> HIDE DEF p, s, t
<1>5. t + 1 \in J /\ J \subseteq Nat
  <2>1. t + 1 \in (r + 1)..(p + 1) /\ t + 1 - 1 = t
    BY <1>1, <1>3
  <2>2. CASE t = p
    BY <1>2, <2>1, <2>2
  <2>3. CASE t # p
    <3>1. t < p /\ t + 1 \in 1..p
      BY <1>1, <1>3, <2>3
    <3>2. buf[t] # "NUL"
      BY <1>1, <1>3, <3>1
    <3>3. s[t + 1] = Blank
      BY <1>2, <1>3, <2>1, <3>1, <3>2, SMTT(60)
    <3> QED
      BY <1>2, <2>1, <3>3
  <2>4. J \subseteq Nat
    BY <1>2, <1>1
  <2> QED
    BY <2>2, <2>3, <2>4, SMTT(60)
<1>6. ASSUME NEW j \in J PROVE t + 1 <= j
  <2>1. j \in (r + 1)..(p + 1) /\ (j = p + 1 \/ s[j] = Blank)
    BY <1>2
  <2>2. CASE j = p + 1
    BY <1>1, <1>3, <2>2
  <2>3. CASE j # p + 1
    <3>1. j \in 1..p /\ j - 1 \in Nat /\ r <= j - 1
      BY <1>1, <2>1, <2>3
    <3>2. buf[j - 1] = Blank
      BY <1>2, <2>1, <2>3, <3>1, SMTT(60)
    <3>3. ~(j - 1 < t)
      BY <1>3, <3>1, <3>2
    <3> QED
      BY <1>3, <3>1, <3>3
  <2> QED
    BY <2>2, <2>3
<1> HIDE DEF J
<1>7. Editor!Min(J) \in J /\ \A i \in J : Editor!Min(J) <= i
    BY <1>5, MinSame, Zenon
<1>8. Editor!Min(J) \in Nat /\ t + 1 <= Editor!Min(J) /\ Editor!Min(J) <= t + 1
    BY <1>5, <1>6, <1>7, Zenon
<1>9. Editor!Min(J) - 1 = t
    BY <1>3, <1>8, SMTT(60)
<1> QED
    BY <1>4, <1>9 DEF p, s, t

\* Where words begin.
LEMMA StartsAre ==
    ASSUME NEW buf, Ended(buf)
    PROVE  Editor!Starts(Slice(buf, 0, kstrlen(buf))) = {r + 1 : r \in Heads(buf, 0)}
<1> DEFINE p == kstrlen(buf)
           s == Slice(buf, 0, p)
           X == Editor!Starts(s)
<1>1. p \in Nat /\ p <= MaxLine /\ buf \in [Index -> Bytes]
    BY StringIs, IndexIs DEF Ended
<1>2. s \in Seq(Bytes) /\ Len(s) = p /\ \A x \in 1..p : s[x] = buf[x - 1]
    BY <1>1, WholeIs
<1>3. X = {i \in DOMAIN s : s[i] # Blank /\ (i = 1 \/ s[i - 1] = Blank)}
    BY Zenon DEF Editor!Starts, Editor!Blank, Blank
<1>4. \A i : i \in Heads(buf, 0) <=> /\ i \in Nat /\ i < p /\ buf[i] # Blank
                                      /\ (i = 0 \/ buf[i - 1] = Blank)
    BY <1>1 DEF Heads, p
<1> HIDE DEF p, s, X
<1>5. DOMAIN s = 1..p
    BY <1>2
<1>6. ASSUME NEW i \in X PROVE i \in {r + 1 : r \in Heads(buf, 0)}
  <2>1. i \in 1..p /\ s[i] # Blank /\ (i = 1 \/ s[i - 1] = Blank)
    BY <1>3, <1>5
  <2>2. i - 1 \in Nat /\ i - 1 < p /\ (i - 1) + 1 = i /\ (i # 1 => i - 1 \in 1..p) /\ (i = 1 => i - 1 = 0)
    BY <1>1, <2>1
  <2>3. buf[i - 1] # Blank
    BY <1>2, <2>1
  <2>4. i - 1 = 0 \/ buf[i - 1 - 1] = Blank
    <3>1. i # 1 => s[i - 1] = buf[i - 1 - 1]
      BY <1>2, <2>2
    <3> QED
      BY <2>1, <2>2, <3>1
  <2>5. i - 1 \in Heads(buf, 0)
    BY <1>4, <2>2, <2>3, <2>4
  <2> QED
    BY <2>2, <2>5
<1>7. ASSUME NEW r \in Heads(buf, 0) PROVE r + 1 \in X
  <2>1. r \in Nat /\ r < p /\ buf[r] # Blank /\ (r = 0 \/ buf[r - 1] = Blank)
    BY <1>4
  <2>2. r + 1 \in 1..p /\ (r + 1) - 1 = r /\ (r = 0 => r + 1 = 1) /\ (r # 0 => r \in 1..p)
    BY <1>1, <2>1
  <2>3. s[r + 1] # Blank
    BY <1>2, <2>1, <2>2, SMTT(60)
  <2>4. r + 1 = 1 \/ s[(r + 1) - 1] = Blank
    <3>1. r # 0 => s[r] = buf[r - 1]
      BY <1>2, <2>2
    <3> QED
      BY <2>1, <2>2, <3>1, SMTT(60)
  <2> QED
    BY <1>3, <1>5, <2>2, <2>3, <2>4, SMTT(60)
<1>8. X = {r + 1 : r \in Heads(buf, 0)}
    BY <1>6, <1>7
<1> QED
    BY <1>8 DEF p, s, X

\* argv has the first MaxArgs of the words the passes find.
LEMMA WordsAre ==
    ASSUME NEW buf, Ended(buf)
    PROVE  LET w == From(buf)[0]
           IN  /\ Lists(w, Heads(buf, 0))
               /\ Words(buf) \in Seq(Nat) /\ Len(Words(buf)) = Min({MaxArgs, Len(w)})
               /\ Min({MaxArgs, Len(w)}) \in Nat /\ Min({MaxArgs, Len(w)}) <= Len(w)
               /\ w # <<>> => 1 \in 1..Len(Words(buf))
               /\ \A k \in 1..Len(Words(buf)) : k \in 1..Len(w) /\ Words(buf)[k] = w[k]
<1> DEFINE w == From(buf)[0]
           m == Min({MaxArgs, Len(w)})
           v == Words(buf)
<1>1. Lists(w, Heads(buf, 0))
  <2>1. 0 \in 0..kstrlen(buf)
    BY StringIs
  <2> QED
    BY <2>1, FromHeads
<1>2. v = SubSeq(w, 1, m)
    BY Zenon DEF Words, From, Pass, Skip, Stop
<1> HIDE DEF v
<1>3. w \in Seq(Nat) /\ Len(w) \in Nat
    BY <1>1 DEF Lists, Rising
<1> HIDE DEF w
<1>4. m \in {MaxArgs, Len(w)} /\ \A t \in {MaxArgs, Len(w)} : m <= t
  <2>1. {MaxArgs, Len(w)} \subseteq Nat /\ {MaxArgs, Len(w)} # {}
    BY <1>3, ShellAssumption
  <2> QED
    BY <2>1, MinIs
<1> HIDE DEF m
<1>5. m \in Nat /\ m <= Len(w) /\ MaxArgs \in Nat /\ MaxArgs >= 1
    BY <1>3, <1>4, ShellAssumption, SMTT(60)
<1>6. v \in Seq(Nat) /\ Len(v) = m /\ \A k \in 1..m : v[k] = w[k]
    BY <1>2, <1>3, <1>5
<1>7. w # <<>> => 1 \in 1..m
  <2>1. w # <<>> => Len(w) >= 1
    BY <1>3
  <2> QED
    BY <1>4, <1>5, <2>1
<1>8. \A k \in 1..m : k \in 1..Len(w)
    BY <1>3, <1>5
<1> QED
    BY <1>1, <1>5, <1>6, <1>7, <1>8, Zenon DEF w, m, v

\* A word that was found is inside the string.
LEMMA HeadIs ==
    ASSUME NEW buf, Ended(buf), NEW k \in 1..Len(Words(buf))
    PROVE  LET r == Words(buf)[k]
           IN  /\ r \in Nat /\ r <= kstrlen(buf) /\ r \in Index
               /\ r \in Heads(buf, 0)
<1> DEFINE w == From(buf)[0]
           r == Words(buf)[k]
<1>1. Lists(w, Heads(buf, 0)) /\ k \in 1..Len(w) /\ r = w[k]
    BY WordsAre, Zenon
<1>2. r \in Heads(buf, 0)
    BY <1>1 DEF Lists
<1> HIDE DEF r
<1>3. kstrlen(buf) \in Nat /\ kstrlen(buf) + 1 <= MaxLine
    BY StringIs, IndexIs
<1>4. r \in 0..(kstrlen(buf) - 1)
    BY <1>2 DEF Heads
<1>5. r \in Nat /\ r <= kstrlen(buf) /\ r + 1 <= MaxLine
    BY <1>3, <1>4, IndexIs, SMTT(60)
<1> QED
    BY <1>2, <1>5, IndexIs, SMTT(60) DEF r

\* The terminators: one behind each word that was found, nothing else touched.
LEMMA SplitIs ==
    ASSUME NEW buf, Ended(buf)
    PROVE  LET split == Split(buf)
               v == Words(buf)
           IN  /\ split \in [Index -> Bytes]
               /\ \A k \in 1..Len(v) : split[Stop(buf, v[k])] = "NUL"
               /\ \A i \in Index :
                     \/ split[i] = buf[i]
                     \/ split[i] = "NUL" /\ \E k \in 1..Len(v) : i = Stop(buf, v[k])
<1> DEFINE split == Split(buf)
           v == Words(buf)
           ends == {First(buf, s, {Blank, "NUL"}) : s \in Range(v)}
<1>1. split = [i \in Index |-> IF i \in ends THEN "NUL" ELSE buf[i]]
    BY DEF Split
<1>2. split \in [Index -> Bytes]
    BY SplitTyped DEF Ended
<1>7. v \in Seq(Nat)
    BY WordsAre, Zenon
<1> HIDE DEF v
<1>8. DOMAIN v = 1..Len(v)
    BY <1>7
<1>3. Range(v) = {v[k] : k \in 1..Len(v)}
    BY <1>8 DEF Range
<1>4. ends = {Stop(buf, v[k]) : k \in 1..Len(v)}
    BY <1>3, Zenon DEF Stop
<1>5. ASSUME NEW k \in 1..Len(v) PROVE split[Stop(buf, v[k])] = "NUL"
  <2>1. v[k] \in Nat /\ v[k] <= kstrlen(buf)
    BY HeadIs DEF v
  <2>2. Stop(buf, v[k]) \in Nat /\ Stop(buf, v[k]) <= kstrlen(buf) /\ kstrlen(buf) \in Nat
        /\ kstrlen(buf) + 1 <= MaxLine
    BY <2>1, StopIs, StringIs, IndexIs
  <2>3. Stop(buf, v[k]) \in Index
    BY <2>2, IndexIs
  <2> QED
    BY <1>1, <1>4, <2>3, SMTT(60)
<1>6. ASSUME NEW i \in Index
      PROVE  \/ split[i] = buf[i]
             \/ split[i] = "NUL" /\ \E k \in 1..Len(v) : i = Stop(buf, v[k])
    BY <1>1, <1>4, ZenonT(60)
<1> HIDE DEF split
<1> QED
    BY <1>2, <1>5, <1>6, SMTT(60) DEF split, v

\* A word of argv ends where the blank behind it was, or the string did.
LEMMA ArgIs ==
    ASSUME NEW buf, Ended(buf), NEW k \in 1..Len(Words(buf))
    PROVE  LET r == Words(buf)[k]
           IN  String(Split(buf), r) = Slice(buf, r, Stop(buf, r))
<1> DEFINE split == Split(buf)
           v == Words(buf)
           r == v[k]
           t == Stop(buf, r)
           f == First(split, r, {"NUL"})
<1>1. r \in Nat /\ r <= kstrlen(buf) /\ kstrlen(buf) \in Nat /\ kstrlen(buf) + 1 <= MaxLine
    BY HeadIs, StringIs, IndexIs
<1>2. /\ t \in Nat /\ r <= t /\ t <= kstrlen(buf)
      /\ \A j \in Nat : r <= j /\ j < t => buf[j] \notin {Blank, "NUL"}
    BY <1>1, StopIs, SMTT(60)
<1>3. split[t] = "NUL" /\ \A i \in Index : split[i] = buf[i] \/ buf[i] \in {Blank, "NUL"}
  <2>1. split[t] = "NUL"
    BY SplitIs
  <2>2. ASSUME NEW i \in Index, NEW n \in 1..Len(v), i = Stop(buf, v[n])
        PROVE  buf[i] \in {Blank, "NUL"}
    <3>1. v[n] \in Nat /\ v[n] <= kstrlen(buf)
      BY HeadIs, SMTT(60)
    <3> QED
      BY <2>2, <3>1, StopIs
  <2> QED
    BY <2>1, <2>2, SplitIs, SMTT(60)
<1>4. /\ f \in Nat /\ f <= MaxLine
      /\ f < MaxLine => f \in Index /\ f >= r /\ split[f] \in {"NUL"}
      /\ \A j \in Index : j >= r /\ split[j] \in {"NUL"} => f <= j
    BY <1>1, FirstIs
<1> HIDE DEF split, r, t, f
<1>5. t \in Index
    BY <1>1, <1>2, IndexIs
<1>6. \A j \in Nat : r <= j /\ j < t => j \in Index /\ split[j] = buf[j] /\ buf[j] # "NUL"
  <2>1. \A j \in Nat : j < t => j \in Index
    BY <1>1, <1>2, IndexIs
  <2> QED
    BY <1>2, <1>3, <2>1
<1>7. f <= t
    BY <1>2, <1>3, <1>4, <1>5
<1>8. ~(f < t)
  <2> SUFFICES ASSUME f < t PROVE FALSE
    OBVIOUS
  <2>3. t < MaxLine /\ t \in Nat /\ f \in Nat /\ MaxLine \in Nat
    BY <1>4, <1>5, IndexIs
  <2>1. f < MaxLine
    BY <2>3
  <2>2. f \in Nat /\ r <= f /\ split[f] = "NUL"
    BY <1>1, <1>4, <2>1
  <2> QED
    BY <1>6, <2>2
<1>9. f = t
    BY <1>2, <1>4, <1>7, <1>8
<1>10. Slice(split, r, t) = Slice(buf, r, t)
    BY <1>1, <1>2, <1>6, SliceEqual, SMTT(60)
<1> QED
    BY <1>9, <1>10 DEF String, split, r, t, f

\* The words the command runs with are the words of the text.
LEMMA RunIs ==
    ASSUME NEW buf, Ended(buf)
    PROVE  [k \in DOMAIN Words(buf) |-> String(Split(buf), Words(buf)[k])]
              = Editor!Words(Slice(buf, 0, kstrlen(buf)))
<1> DEFINE p == kstrlen(buf)
           s == Slice(buf, 0, p)
           v == Words(buf)
           w == From(buf)[0]
           X == Editor!Starts(s)
           u == [k \in 1..Len(w) |-> w[k] + 1]
           m == Min({MaxArgs, Len(w)})
           Word(i) == SubSeq(s, i, Editor!WordEnd(s, i))
<1>1. /\ Lists(w, Heads(buf, 0)) /\ v \in Seq(Nat) /\ Len(v) = m /\ m \in Nat /\ m <= Len(w)
      /\ \A k \in 1..Len(v) : k \in 1..Len(w) /\ v[k] = w[k]
    BY WordsAre, ZenonT(60)
<1>2. X = {r + 1 : r \in Heads(buf, 0)}
    BY StartsAre
<1>3. Editor!Words(s) = [k \in 1..Editor!Min({MaxArgs, Editor!Cardinality(X)}) |->
                            Word(Editor!Nth(X, k))]
    BY Zenon DEF Editor!Words
<1>4. p \in Nat /\ p <= MaxLine /\ buf \in [Index -> Bytes]
    BY StringIs, IndexIs DEF Ended
<1>5. \A k \in 1..Len(v) : /\ v[k] \in Nat /\ v[k] <= p
                           /\ String(Split(buf), v[k]) = Slice(buf, v[k], Stop(buf, v[k]))
    BY HeadIs, ArgIs, SMTT(60)
<1>6. \A r \in Nat : r <= p => Editor!WordEnd(s, r + 1) = Stop(buf, r)
    BY WordEndIs
<1>7. \A r \in Nat : r <= p => Stop(buf, r) \in Nat /\ r <= Stop(buf, r) /\ Stop(buf, r) <= p
    BY StopIs
<1>8. \A r, t \in Nat : r <= t /\ t <= p => SubSeq(s, r + 1, t) = Slice(buf, r, t)
    BY <1>4, SliceSub, ZenonT(60)
<1>9. DOMAIN v = 1..m
    BY <1>1
<1> HIDE DEF p, s, v, w, X, m
<1>10. w \in Seq(Nat) /\ Len(w) \in Nat /\ \A i \in 1..Len(w) : w[i] \in Nat
    BY <1>1 DEF Lists, Rising
<1>11. u \in Seq(Nat) /\ Len(u) = Len(w) /\ \A k \in 1..Len(w) : u[k] = w[k] + 1
    BY <1>10
<1> HIDE DEF u
<1>12. Lists(u, X)
  <2>1. ASSUME NEW i \in 1..Len(u), NEW j \in 1..Len(u), i < j PROVE u[i] < u[j]
    <3>1. w[i] < w[j] /\ w[i] \in Nat /\ w[j] \in Nat
      BY <1>1, <1>10, <1>11, <2>1, SMTT(60) DEF Lists, Rising
    <3> QED
      BY <1>11, <3>1, SMTT(60)
  <2>2. ASSUME NEW i \in 1..Len(u) PROVE u[i] \in X
    BY <1>1, <1>2, <1>11, SMTT(60) DEF Lists
  <2>3. ASSUME NEW x \in X PROVE \E i \in 1..Len(u) : u[i] = x
    <3>1. PICK r \in Heads(buf, 0) : x = r + 1
      BY <1>2, SMTT(60)
    <3>2. PICK i \in 1..Len(w) : w[i] = r
      BY <1>1 DEF Lists
    <3> QED
      BY <1>11, <3>1, <3>2
  <2> QED
    BY <1>11, <2>1, <2>2, <2>3, SMTT(60) DEF Lists, Rising
<1>13. Editor!Cardinality(X) = Len(w)
    BY <1>11, <1>12, CountIs, CountSame
<1>14. Editor!Min({MaxArgs, Editor!Cardinality(X)}) = m
    BY <1>13 DEF Editor!Min, Min, m
<1>15. ASSUME NEW k \in 1..m PROVE String(Split(buf), v[k]) = Word(Editor!Nth(X, k))
  <2>1. k \in 1..Len(v) /\ k \in 1..Len(w) /\ k \in 1..Len(u) /\ v[k] = w[k]
    BY <1>1, <1>11
  <2>2. Editor!Nth(X, k) = v[k] + 1
    <3>1. Editor!Nth(X, k) = u[k]
      BY <1>12, <2>1, NthIs
    <3> QED
      BY <1>11, <2>1, <3>1, SMTT(60)
  <2>3. v[k] \in Nat /\ v[k] <= p
    BY <1>5, <2>1
  <2>4. Editor!WordEnd(s, v[k] + 1) = Stop(buf, v[k])
    BY <1>6, <2>3
  <2>5. SubSeq(s, v[k] + 1, Stop(buf, v[k])) = Slice(buf, v[k], Stop(buf, v[k]))
    BY <1>7, <1>8, <2>3, ZenonT(60)
  <2> QED
    BY <1>5, <2>1, <2>2, <2>4, <2>5, SMTT(60)
<1> HIDE DEF Word
<1>16. [k \in DOMAIN v |-> String(Split(buf), v[k])] = Editor!Words(s)
    BY <1>3, <1>9, <1>14, <1>15
<1> QED
    BY <1>16 DEF p, s, v

LEMMA LenIs ==
    ASSUME NEW buf \in [Index -> Bytes], NEW n \in Index, buf[n] = "NUL",
           \A j \in Nat : j < n => buf[j] # "NUL"
    PROVE  Ended(buf) /\ kstrlen(buf) = n
<1>1. Ended(buf) /\ kstrlen(buf) <= n
    BY EndIs
<1>2. kstrlen(buf) \in Nat /\ buf[kstrlen(buf)] = "NUL"
    BY <1>1, StringIs
<1>3. n \in Nat /\ ~(kstrlen(buf) < n)
    BY <1>2, IndexIs
<1> QED
    BY <1>1, <1>2, <1>3

\* kstrncpy copies a string that ends in its buffer as it is.
LEMMA CopySame ==
    ASSUME NEW src, Ended(src)
    PROVE  LET new == kstrncpy(src)
           IN  /\ new \in [Index -> Bytes] /\ Ended(new) /\ kstrlen(new) = kstrlen(src)
               /\ Slice(new, 0, kstrlen(src)) = Slice(src, 0, kstrlen(src))
<1> DEFINE new == kstrncpy(src)
           p == kstrlen(src)
<1>1. /\ p \in Nat /\ p \in Index /\ p <= MaxLine - 1
      /\ \A j \in Nat : j < p => j \in Index /\ src[j] # "NUL"
    BY StringIs, IndexIs
<1>2. new \in [Index -> Bytes]
    BY CopyIs DEF Ended
<1>3. \A i \in Index : new[i] = IF i < p /\ i < MaxLine - 1 THEN src[i] ELSE "NUL"
    BY DEF kstrncpy
<1> HIDE DEF new, p
<1>4. new[p] = "NUL"
    BY <1>1, <1>3
<1>5. \A j \in Nat : j < p => new[j] = src[j]
  <2>1. \A j \in Nat : j < p => j < MaxLine - 1
    BY <1>1, IndexIs
  <2> QED
    BY <1>1, <1>3, <2>1
<1>6. Ended(new) /\ kstrlen(new) = p
    BY <1>1, <1>2, <1>4, <1>5, LenIs, SMTT(60)
<1>7. Slice(new, 0, p) = Slice(src, 0, p)
  <2>1. 0 \in Nat
    OBVIOUS
  <2>2. \A x \in Nat : 0 <= x /\ x < p => new[x] = src[x]
    BY <1>5
  <2> QED
    BY <1>1, <2>1, <2>2, SliceEqual, ZenonT(60)
<1> QED
    BY <1>2, <1>6, <1>7 DEF new, p

LEMMA StringAt0 == ASSUME NEW buf PROVE String(buf, 0) = Slice(buf, 0, kstrlen(buf))
BY DEF String, kstrlen

\* What is remembered is the text up to the end of its first word.
LEMMA KeptIs ==
    ASSUME NEW buf, Ended(buf)
    PROVE  /\ Ended(Split(buf))
           /\ Slice(Split(buf), 0, kstrlen(Split(buf)))
                 = Editor!Remembered(Slice(buf, 0, kstrlen(buf)))
<1> DEFINE p == kstrlen(buf)
           s == Slice(buf, 0, p)
           v == Words(buf)
           w == From(buf)[0]
           X == Editor!Starts(s)
           split == Split(buf)
<1>1. /\ Lists(w, Heads(buf, 0)) /\ v \in Seq(Nat)
      /\ w # <<>> => 1 \in 1..Len(v)
      /\ \A k \in 1..Len(v) : k \in 1..Len(w) /\ v[k] = w[k]
    BY WordsAre, Zenon
<1>2. X = {r + 1 : r \in Heads(buf, 0)}
    BY StartsAre
<1>3. Editor!Remembered(s) = IF X = {} THEN s
                             ELSE SubSeq(s, 1, Editor!WordEnd(s, Editor!Min(X)))
    BY DEF Editor!Remembered
<1>4. /\ p \in Nat /\ p \in Index /\ p + 1 <= MaxLine /\ buf \in [Index -> Bytes] /\ buf[p] = "NUL"
      /\ \A j \in Nat : j < p => j \in Index /\ buf[j] # "NUL"
    BY StringIs, IndexIs DEF Ended
<1>5. \A k \in 1..Len(v) : v[k] \in Nat /\ v[k] <= p
    BY HeadIs, SMTT(60)
<1>6. /\ split \in [Index -> Bytes]
      /\ \A k \in 1..Len(v) : split[Stop(buf, v[k])] = "NUL"
      /\ \A i \in Index :
            \/ split[i] = buf[i]
            \/ split[i] = "NUL" /\ \E k \in 1..Len(v) : i = Stop(buf, v[k])
    BY SplitIs, SMTT(60)
<1>7. \A r \in Nat : r <= p => Editor!WordEnd(s, r + 1) = Stop(buf, r)
    BY WordEndIs
<1>8. \A r \in Nat : r <= p =>
         /\ Stop(buf, r) \in Nat /\ r <= Stop(buf, r) /\ Stop(buf, r) <= p
         /\ buf[Stop(buf, r)] \in {Blank, "NUL"}
         /\ \A j \in Nat : r <= j /\ j < Stop(buf, r) => buf[j] \notin {Blank, "NUL"}
    BY StopIs
<1>9. \A t \in Nat : t <= p => SubSeq(s, 1, t) = Slice(buf, 0, t)
  <2> TAKE t \in Nat
  <2>1. 0 \in Nat /\ 0 <= t /\ 0 + 1 = 1 /\ p <= MaxLine
    BY <1>4, IndexIs
  <2>2. t <= p => SubSeq(s, 0 + 1, t) = Slice(buf, 0, t)
    BY <1>4, <2>1, SliceSub, ZenonT(60)
  <2> QED
    BY <2>1, <2>2
<1> HIDE DEF p, s, v, w, X, split
<1>10. w \in Seq(Nat) /\ Len(w) \in Nat /\ \A i \in 1..Len(w) : w[i] \in Nat /\ w[i] \in Heads(buf, 0)
    BY <1>1 DEF Lists, Rising
<1>11. CASE w = <<>>
  <2>1. X = {} /\ \A k \in 1..Len(v) : FALSE
    <3>1. \A k \in 1..Len(w) : FALSE
      BY <1>11
    <3>2. Heads(buf, 0) = {}
      BY <1>1, <3>1 DEF Lists
    <3> QED
      BY <1>1, <1>2, <3>1, <3>2, SMTT(60)
  <2>2. \A i \in Index : split[i] = buf[i]
    BY <1>6, <2>1
  <2>3. Ended(split) /\ kstrlen(split) = p
    BY <1>4, <1>6, <2>2, LenIs, SMTT(60)
  <2>4. Slice(split, 0, p) = Slice(buf, 0, p)
    <3>1. 0 \in Nat
      OBVIOUS
    <3>2. \A x \in Nat : 0 <= x /\ x < p => split[x] = buf[x]
      BY <1>4, <2>2
    <3> QED
      BY <1>4, <3>1, <3>2, SliceEqual, SMTT(60)
  <2> QED
    BY <1>3, <2>1, <2>3, <2>4 DEF p, s, split
<1>12. CASE w # <<>>
  <2> DEFINE r == v[1]
             t == Stop(buf, r)
  <2>1. r \in Nat /\ r <= p /\ r = w[1] /\ 1 \in 1..Len(v) /\ 1 \in 1..Len(w)
    BY <1>1, <1>5, <1>12, SMTT(60)
  <2>2. /\ t \in Nat /\ r <= t /\ t <= p /\ split[t] = "NUL" /\ t \in Index
        /\ \A j \in Nat : r <= j /\ j < t => buf[j] \notin {Blank, "NUL"}
    <3>1. /\ t \in Nat /\ r <= t /\ t <= p
          /\ \A j \in Nat : r <= j /\ j < t => buf[j] \notin {Blank, "NUL"}
      BY <1>8, <2>1
    <3>2. split[t] = "NUL"
      BY <1>6, <2>1, SMTT(60)
    <3>3. t \in Index
      BY <1>4, <3>1, IndexIs
    <3> QED
      BY <3>1, <3>2, <3>3, SMTT(60)
  <2>3. \A i \in 1..Len(w) : r <= w[i]
    <3> TAKE i \in 1..Len(w)
    <3>1. 1 < i \/ i = 1
      OBVIOUS
    <3>2. 1 < i => w[1] < w[i]
      BY <1>1, <2>1, SMTT(60) DEF Lists, Rising
    <3> QED
      BY <1>10, <2>1, <3>1, <3>2, SMTT(60)
  <2>4. \A k \in 1..Len(v) : r <= v[k]
    BY <1>1, <2>3, SMTT(60)
  <2> HIDE DEF r, t
  <2>5. ASSUME NEW j \in Nat, j < t PROVE split[j] = buf[j] /\ buf[j] # "NUL"
    <3>1. j < p /\ j \in Index /\ buf[j] # "NUL"
      <4>1. j < p
        BY <1>4, <2>2, <2>5
      <4> QED
        BY <1>4, <4>1
    <3>2. ASSUME NEW k \in 1..Len(v), j = Stop(buf, v[k]) PROVE FALSE
      <4>1. v[k] \in Nat /\ v[k] <= p /\ r <= v[k]
        BY <1>5, <2>4
      <4>2. v[k] <= j /\ buf[j] \in {Blank, "NUL"}
        BY <1>8, <3>2, <4>1, SMTT(60)
      <4>3. r <= j
        BY <2>1, <4>1, <4>2, SMTT(60)
      <4> QED
        BY <2>2, <2>5, <4>2, <4>3, SMTT(60)
    <3> QED
      BY <1>6, <3>1, <3>2
  <2>6. Ended(split) /\ kstrlen(split) = t
    BY <1>6, <2>2, <2>5, LenIs, SMTT(60)
  <2>7. Slice(split, 0, t) = Slice(buf, 0, t)
    <3>1. 0 \in Nat
      OBVIOUS
    <3>2. \A x \in Nat : 0 <= x /\ x < t => split[x] = buf[x]
      BY <2>5
    <3> QED
      BY <2>2, <3>1, <3>2, SliceEqual, SMTT(60)
  <2>8. Editor!Min(X) = r + 1 /\ X # {}
    <3>1. r + 1 \in X
      BY <1>2, <1>10, <2>1
    <3>2. X \subseteq Nat /\ \A x \in X : r + 1 <= x
      <4>1. ASSUME NEW x \in X PROVE x \in Nat /\ r + 1 <= x
        <5>1. PICK y \in Heads(buf, 0) : x = y + 1
          BY <1>2
        <5>2. PICK i \in 1..Len(w) : w[i] = y
          BY <1>1 DEF Lists
        <5>3. y \in Nat /\ r <= y
          BY <1>10, <2>3, <5>2
        <5> QED
          BY <2>1, <5>1, <5>3, SMTT(60)
      <4> QED
        BY <4>1
    <3>3. Editor!Min(X) \in X /\ \A x \in X : Editor!Min(X) <= x
      BY <3>1, <3>2, MinSame, Zenon
    <3>4. Editor!Min(X) \in Nat /\ r + 1 <= Editor!Min(X) /\ Editor!Min(X) <= r + 1 /\ r + 1 \in Nat
      BY <3>1, <3>2, <3>3, Zenon
    <3> QED
      BY <3>1, <3>4
  <2>9. Editor!WordEnd(s, r + 1) = t
    BY <1>7, <2>1 DEF t
  <2>10. Editor!Remembered(s) = Slice(buf, 0, t)
    BY <1>3, <1>9, <2>2, <2>8, <2>9, SMTT(60)
  <2> QED
    BY <2>6, <2>7, <2>10 DEF p, s, split
<1> QED
    BY <1>11, <1>12

----------------------------------------------------------------------------
(* The prompt is an editor *)

\* The line and the remembered one are strings; a command has just run only when
\* the line is empty.
EditInv == LineInv /\ Ended(g_last_line) /\ (argv # <<>> => length = 0)

LEMMA LineIs ==
    ASSUME LineInv
    PROVE  /\ Editor!Line = Slice(g_line, 0, length)
           /\ Slice(g_line, 0, length) \in Seq(Bytes) /\ Len(Slice(g_line, 0, length)) = length
           /\ Slice(g_line, 0, cursor) \in Seq(Bytes) /\ Len(Slice(g_line, 0, cursor)) = cursor
<1>1. /\ g_line \in [Index -> Bytes] /\ length \in Nat /\ cursor \in Nat
      /\ 0 \in Nat /\ 0 <= cursor /\ cursor <= length /\ length <= MaxLine /\ cursor <= MaxLine
    BY IndexIs DEF LineInv, LineWhole
<1>2. Slice(g_line, 0, cursor) \o Slice(g_line, cursor, length) = Slice(g_line, 0, length)
    BY <1>1, SliceJoin, SMTT(60)
<1> QED
    BY <1>1, <1>2, WholeIs DEF Editor!Line

LEMMA EditClear == ASSUME ClearLine PROVE Editor!Clear
<1>1. 0 \in Nat /\ cursor' = 0 /\ length' = 0 /\ argv' = <<>>
      /\ g_last_line' = g_last_line /\ g_has_last_line' = g_has_last_line
    BY DEF ClearLine, saved
<1>2. Slice(g_line', 0, cursor') = <<>> /\ Slice(g_line', cursor', length') = <<>>
    BY <1>1, SliceNone
<1> QED
    BY <1>1, <1>2 DEF Editor!Clear

\* A character that changes nothing: at most, what has just run is forgotten.
LEMMA EditQuiet ==
    ASSUME EditInv, argv' = <<>>, UNCHANGED <<line, saved>>
    PROVE  [Editor!Next]_Editor!vars
<1>1. /\ g_line' = g_line /\ length' = length /\ cursor' = cursor
      /\ g_last_line' = g_last_line /\ g_has_last_line' = g_has_last_line
    BY DEF line, saved
<1>2. CASE argv = <<>>
    BY <1>1, <1>2 DEF Editor!vars
<1>3. CASE argv # <<>>
  <2>1. length = 0 /\ cursor = 0 /\ 0 \in Nat
    BY <1>3 DEF EditInv, LineInv, LineWhole
  <2>2. Slice(g_line', 0, cursor') = <<>> /\ Slice(g_line', cursor', length') = <<>>
    BY <1>1, <2>1, SliceNone
  <2>3. Editor!Clear
    BY <1>1, <2>2 DEF Editor!Clear
  <2> QED
    BY <2>3 DEF Editor!Next
<1> QED
    BY <1>2, <1>3

LEMMA EditMove ==
    ASSUME EditInv, NEW c \in Nat, c <= length,
           c \in {0, length, cursor - 1, cursor + 1, cursor}, MoveTo(c)
    PROVE  [Editor!Next]_Editor!vars
<1>1. /\ cursor' = c /\ g_line' = g_line /\ length' = length /\ argv' = <<>>
      /\ g_last_line' = g_last_line /\ g_has_last_line' = g_has_last_line
    BY DEF MoveTo, saved
<1>2. LineInv
    BY DEF EditInv
<1>3. CASE c = cursor
  <2>1. UNCHANGED <<line, saved>>
    BY <1>1, <1>3 DEF line, saved
  <2> QED
    BY <1>1, <2>1, EditQuiet, SMTT(60)
<1>4. CASE c # cursor
  <2> DEFINE L == Slice(g_line, 0, cursor)
             W == Slice(g_line, 0, length)
  <2>1. /\ Editor!Line = W /\ Len(W) = length /\ Len(L) = cursor
        /\ length \in Nat /\ cursor \in Nat /\ g_line \in [Index -> Bytes] /\ length <= MaxLine
    BY <1>2, LineIs, IndexIs DEF LineInv, LineWhole
  <2>2. c \in {0, Len(W), Len(L) - 1, Len(L) + 1} \cap (0..Len(W))
    BY <1>4, <2>1
  <2>3. 0 \in Nat /\ 0 <= c /\ 0 + 1 = 1 /\ length <= length
    BY <2>1
  <2>4. Slice(g_line, 0, c) = SubSeq(W, 0 + 1, c)
    BY <2>1, <2>3, SliceSub, ZenonT(60)
  <2>5. Slice(g_line, c, length) = SubSeq(W, c + 1, length)
    BY <2>1, <2>3, SliceSub, ZenonT(60)
  <2>6. Slice(g_line', 0, cursor') = SubSeq(W, 1, c)
        /\ Slice(g_line', cursor', length') = SubSeq(W, c + 1, Len(W))
    BY <1>1, <2>1, <2>3, <2>4, <2>5, ZenonT(60)
  <2> HIDE DEF W, L
  <2>7. \E k \in {0, Len(W), Len(L) - 1, Len(L) + 1} \cap (0..Len(W)) :
           /\ Slice(g_line', 0, cursor') = SubSeq(W, 1, k)
           /\ Slice(g_line', cursor', length') = SubSeq(W, k + 1, Len(W))
    BY <2>2, <2>6
  <2>8. Editor!Move
    BY <1>1, <2>1, <2>7 DEF Editor!Move, L
  <2> QED
    BY <2>8 DEF Editor!Next
<1> QED
    BY <1>3, <1>4

LEMMA EditInsert ==
    ASSUME EditInv, NEW c \in Typed, Insert(c)
    PROVE  [Editor!Next]_Editor!vars
<1>1. LineInv /\ LineInv'
    BY InsertLine DEF EditInv
<1>2. CASE ~(length + 1 < MaxLine)
  <2>1. argv' = <<>> /\ UNCHANGED <<line, saved>>
    BY <1>2 DEF Insert
  <2> QED
    BY <2>1, EditQuiet
<1>3. CASE length + 1 < MaxLine
  <2> DEFINE L == Slice(g_line, 0, cursor)
             M == Slice(g_line', 0, cursor')
  <2>1. /\ g_line' = [i \in Index |->
                  IF i = length + 1 THEN "NUL"
                  ELSE IF i = cursor THEN c
                  ELSE IF i > cursor /\ i <= length THEN g_line[i - 1]
                  ELSE g_line[i]]
        /\ length' = length + 1 /\ cursor' = cursor + 1 /\ argv' = <<>>
        /\ g_last_line' = g_last_line /\ g_has_last_line' = g_has_last_line
    BY <1>3 DEF Insert, saved
  <2>2. /\ length \in Nat /\ cursor \in Nat /\ cursor <= length /\ cursor + 1 <= MaxLine
        /\ g_line \in [Index -> Bytes] /\ g_line' \in [Index -> Bytes] /\ cursor <= MaxLine
        /\ cursor + 1 \in Nat /\ MaxLine \in Nat
    BY <1>1, <1>3, IndexIs DEF LineInv, LineWhole
  <2>3. \A i \in Nat : i <= length => i \in Index /\ i # length + 1
    BY <1>3, <2>2, IndexIs, SMTT(60)
  <2>4. /\ \A i \in Nat : i < cursor => g_line'[i] = g_line[i]
        /\ g_line'[cursor] = c
    <3>1. \A i \in Nat : i < cursor => i <= length /\ i # cursor /\ ~(i > cursor)
      BY <2>2
    <3> QED
      BY <2>1, <2>2, <2>3, <3>1, SMTT(60)
  <2>5. \A i \in Nat : cursor <= i /\ i < length => g_line[i] = g_line'[i + 1]
    <3> TAKE i \in Nat
    <3>1. cursor <= i /\ i < length =>
             /\ i + 1 \in Nat /\ i + 1 <= length /\ i + 1 > cursor /\ i + 1 # cursor
             /\ (i + 1) - 1 = i
      BY <2>2
    <3> QED
      BY <2>1, <2>3, <3>1, SMTT(60)
  <2>6. Slice(g_line', cursor', length') = Slice(g_line, cursor, length)
    <3>1. 1 \in Int
      OBVIOUS
    <3>2. Slice(g_line, cursor, length) = Slice(g_line', cursor + 1, length + 1)
      BY <2>2, <2>5, <3>1, SliceSame, SMTT(60)
    <3> QED
      BY <2>1, <3>2
  <2>7. L \in Seq(Bytes) /\ Len(L) = cursor /\ \A x \in 1..cursor : L[x] = g_line[x - 1]
    BY <2>2, WholeIs, SMTT(60)
  <2>8. M \in Seq(Bytes) /\ Len(M) = cursor + 1 /\ \A x \in 1..(cursor + 1) : M[x] = g_line'[x - 1]
    <3>1. LET N == Slice(g_line', 0, cursor + 1)
          IN  /\ N \in Seq(Bytes) /\ Len(N) = cursor + 1
              /\ \A x \in 1..(cursor + 1) : N[x] = g_line'[x - 1]
      BY <2>2, WholeIs
    <3> QED
      BY <2>1, <3>1
  <2>9. Len(Slice(g_line, 0, length)) = length /\ Editor!Line = Slice(g_line, 0, length)
    BY <1>1, LineIs, SMTT(60)
  <2> HIDE DEF L, M
  <2>10. M = Append(L, c)
    <3>1. c \in Bytes
      BY DEF Bytes
    <3>2. Append(L, c) \in Seq(Bytes) /\ Len(Append(L, c)) = cursor + 1
      BY <2>7, <3>1, SMTT(60)
    <3>3. ASSUME NEW x \in 1..(cursor + 1) PROVE M[x] = Append(L, c)[x]
      <4>1. CASE x = cursor + 1
        <5>1. Append(L, c)[x] = c /\ x - 1 = cursor
          BY <2>2, <2>7, <4>1, SMTT(60)
        <5> QED
          BY <2>4, <2>8, <5>1
      <4>2. CASE x # cursor + 1
        <5>1. x \in 1..cursor /\ x - 1 \in Nat /\ x - 1 < cursor
          BY <2>2, <4>2, SMTT(60)
        <5>2. Append(L, c)[x] = L[x]
          BY <2>7, <5>1, SMTT(60)
        <5> QED
          BY <2>4, <2>7, <2>8, <5>1, <5>2, SMTT(60)
      <4> QED
        BY <4>1, <4>2, ZenonT(60)
    <3> QED
      BY <2>8, <3>2, <3>3, SeqSame, SMTT(60)
  <2>11. Editor!Insert(c)
    BY <1>3, <2>1, <2>6, <2>9, <2>10, SMTT(60) DEF Editor!Insert, L, M
  <2> QED
    BY <2>11 DEF Editor!Next
<1> QED
    BY <1>2, <1>3

LEMMA EditErase == ASSUME EditInv, Erase PROVE [Editor!Next]_Editor!vars
<1>1. LineInv /\ LineInv'
    BY EraseLine DEF EditInv
<1>2. CASE ~(cursor > 0)
  <2>1. argv' = <<>> /\ UNCHANGED <<line, saved>>
    BY <1>2 DEF Erase
  <2> QED
    BY <2>1, EditQuiet
<1>3. CASE cursor > 0
  <2> DEFINE L == Slice(g_line, 0, cursor)
             b == cursor - 1
  <2>1. /\ g_line' = [i \in Index |->
                  IF i = length - 1 THEN "NUL"
                  ELSE IF i >= cursor - 1 /\ i + 1 < length THEN g_line[i + 1]
                  ELSE g_line[i]]
        /\ length' = length - 1 /\ cursor' = b /\ argv' = <<>>
        /\ g_last_line' = g_last_line /\ g_has_last_line' = g_has_last_line
    BY <1>3 DEF Erase, saved
  <2>2. /\ length \in Nat /\ cursor \in Nat /\ cursor <= length /\ cursor <= MaxLine
        /\ g_line \in [Index -> Bytes] /\ b \in Nat /\ b <= cursor /\ length + 1 <= MaxLine
    BY <1>1, <1>3, IndexIs, SMTT(60) DEF LineInv, LineWhole
  <2>3. \A i \in Nat : i < length => i \in Index
    BY <2>2, IndexIs
  <2>4. \A i \in Nat : 0 <= i /\ i < b => g_line'[i] = g_line[i]
    <3>1. \A i \in Nat : i < b => i < length /\ i # length - 1 /\ ~(i >= cursor - 1)
      BY <2>2
    <3> QED
      BY <2>1, <2>3, <3>1
  <2>5. \A i \in Nat : cursor <= i /\ i < length => g_line[i] = g_line'[i + (-1)]
    <3> TAKE i \in Nat
    <3> SUFFICES ASSUME cursor <= i, i < length PROVE g_line[i] = g_line'[i + (-1)]
      OBVIOUS
    <3> PICK k \in Nat : k = i - 1
      BY <1>3, <2>2
    <3>1. /\ k < length /\ k # length - 1 /\ k >= cursor - 1 /\ k + 1 < length
          /\ k + 1 = i /\ i + (-1) = k
      BY <2>2
    <3>2. g_line'[k] = g_line[k + 1]
      BY <2>1, <2>3, <3>1, SMTT(60)
    <3> QED
      BY <3>1, <3>2
  <2>6. Slice(g_line', cursor', length') = Slice(g_line, cursor, length)
    <3>1. -1 \in Int /\ cursor + (-1) = b /\ length + (-1) = length - 1
      BY <2>2
    <3>2. Slice(g_line, cursor, length) = Slice(g_line', cursor + (-1), length + (-1))
      BY <2>2, <2>5, <3>1, SliceSame, SMTT(60)
    <3> QED
      BY <2>1, <3>1, <3>2
  <2>7. L \in Seq(Bytes) /\ Len(L) = cursor
    BY <1>1, LineIs
  <2> HIDE DEF b
  <2>8. Slice(g_line', 0, b) = SubSeq(L, 1, b)
    <3>1. 0 \in Nat /\ 0 <= b /\ 0 + 1 = 1
      BY <2>2
    <3>2. Slice(g_line', 0, b) = Slice(g_line, 0, b)
      BY <2>2, <2>4, <3>1, SliceEqual, SMTT(60)
    <3>3. SubSeq(L, 0 + 1, b) = Slice(g_line, 0, b)
      BY <2>2, <3>1, SliceSub
    <3> QED
      BY <3>1, <3>2, <3>3
  <2> HIDE DEF L
  <2>9. L # <<>>
    BY <1>3, <2>7
  <2>10. Slice(g_line', 0, cursor') = Editor!Front(L)
    BY <2>1, <2>7, <2>8, SMTT(60) DEF Editor!Front, b
  <2>11. Editor!Erase
    BY <2>1, <2>6, <2>9, <2>10 DEF Editor!Erase, L
  <2> QED
    BY <2>11 DEF Editor!Next
<1> QED
    BY <1>2, <1>3

LEMMA EditRecall == ASSUME EditInv, Recall PROVE [Editor!Next]_Editor!vars
<1>1. CASE ~g_has_last_line
  <2>1. argv' = <<>> /\ UNCHANGED <<line, saved>>
    BY <1>1 DEF Recall
  <2> QED
    BY <2>1, EditQuiet
<1>2. CASE g_has_last_line
  <2> DEFINE p == kstrlen(g_last_line)
             old == String(g_last_line, 0)
  <2>1. /\ g_line' = kstrncpy(g_last_line) /\ length' = kstrlen(g_line') /\ cursor' = length'
        /\ argv' = <<>> /\ g_last_line' = g_last_line /\ g_has_last_line' = g_has_last_line
    BY <1>2 DEF Recall, saved
  <2>2. Ended(g_last_line)
    BY DEF EditInv
  <2>3. p \in Nat /\ p <= MaxLine /\ g_last_line \in [Index -> Bytes]
    BY <2>2, StringIs, IndexIs, SMTT(60) DEF Ended
  <2>4. length' = p /\ Slice(g_line', 0, p) = Slice(g_last_line, 0, p)
    BY <2>1, <2>2, CopySame
  <2>5. old = Slice(g_last_line, 0, p)
    BY StringAt0
  <2>6. old \in Seq(Bytes)
    BY <2>3, <2>5, WholeIs, SMTT(60)
  <2>7. Slice(g_line', 0, cursor') = old /\ Slice(g_line', cursor', length') = <<>>
    BY <2>1, <2>3, <2>4, <2>5, SliceNone, SMTT(60)
  <2> HIDE DEF old
  <2>8. old # <<"no_line">>
    <3>1. "no_line" \notin Bytes
      BY ShellAssumption DEF Bytes
    <3>2. <<"no_line">>[1] = "no_line" /\ Len(<<"no_line">>) = 1
      OBVIOUS
    <3>3. Len(old) = 1 => old[1] \in Bytes
      <4>1. Len(old) = 1 => 1 \in 1..Len(old)
        OBVIOUS
      <4>2. \A i \in 1..Len(old) : old[i] \in Bytes
        BY <2>6
      <4> QED
        BY <4>1, <4>2
    <3> QED
      BY <3>1, <3>2, <3>3
  <2>9. Editor!Recall
    BY <1>2, <2>1, <2>7, <2>8, SMTT(60) DEF Editor!Recall, Editor!NoLine, old
  <2> QED
    BY <2>9 DEF Editor!Next
<1> QED
    BY <1>1, <1>2, SMTT(60)

LEMMA EditSubmit ==
    ASSUME EditInv, Submit
    PROVE  Editor!Submit /\ Ended(g_last_line') /\ length' = 0
<1> DEFINE split == Split(g_line)
           s == Slice(g_line, 0, length)
           text == Slice(g_line, 0, kstrlen(g_line))
<1>1. /\ LineInv /\ g_line \in [Index -> Bytes] /\ length \in Nat /\ length \in Index
      /\ g_line[length] = "NUL" /\ Ended(g_last_line)
    BY IndexIs DEF EditInv, LineInv, LineWhole
<1>2. [g_line EXCEPT ![length] = "NUL"] = g_line
    BY <1>1
<1>3. /\ argv' = [k \in DOMAIN Words(g_line) |-> String(split, Words(g_line)[k])]
      /\ length > 0 => g_last_line' = kstrncpy(split) /\ g_has_last_line' = TRUE
      /\ ~(length > 0) => g_last_line' = g_last_line /\ g_has_last_line' = g_has_last_line
      /\ length' = 0 /\ cursor' = 0
    BY <1>2, Zenon DEF Submit, saved
<1>4. Ended(g_line)
    BY <1>1, EndIs
<1>5. Editor!Line = s /\ s \in Seq(Bytes) /\ Len(s) = length
    BY <1>1, LineIs
<1>6. Editor!Text(s) = text
    BY <1>1, TextIs, SMTT(60)
<1>7. argv' = Editor!Words(text)
    BY <1>3, <1>4, RunIs, SMTT(60)
<1>8. Ended(split) /\ Slice(split, 0, kstrlen(split)) = Editor!Remembered(text)
    BY <1>4, KeptIs
<1>9. Slice(g_line', 0, cursor') = <<>> /\ Slice(g_line', cursor', length') = <<>>
  <2>1. 0 \in Nat
    OBVIOUS
  <2> QED
    BY <1>3, <2>1, SliceNone
<1> HIDE DEF split, s, text
<1>10. CASE length > 0
  <2>1. s # <<>>
    BY <1>5, <1>10, SMTT(60)
  <2>2. /\ Ended(g_last_line') /\ kstrlen(g_last_line') = kstrlen(split)
        /\ Slice(g_last_line', 0, kstrlen(split)) = Slice(split, 0, kstrlen(split))
    BY <1>3, <1>8, <1>10, CopySame, SMTT(60)
  <2>3. String(g_last_line', 0) = Editor!Remembered(text)
    <3> PICK new : new = g_last_line'
      OBVIOUS
    <3>1. String(new, 0) = Slice(new, 0, kstrlen(new))
      BY StringAt0
    <3> QED
      BY <1>8, <2>2, <3>1
  <2>4. g_has_last_line'
    BY <1>3, <1>10, SMTT(60)
  <2>5. Editor!Submit
    BY <1>5, <1>6, <1>7, <1>9, <2>1, <2>3, <2>4, SMTT(60) DEF Editor!Submit
  <2> QED
    BY <1>3, <2>2, <2>5
<1>11. CASE ~(length > 0)
  <2>1. s = <<>>
    <3>1. length = 0
      BY <1>1, <1>11
    <3> QED
      BY <1>5, <3>1
  <2>2. g_last_line' = g_last_line /\ g_has_last_line' = g_has_last_line
    BY <1>3, <1>11
  <2>3. Editor!Submit
    BY <1>5, <1>6, <1>7, <1>9, <2>1, <2>2, SMTT(60) DEF Editor!Submit
  <2> QED
    BY <1>1, <1>3, <2>2, <2>3
<1> QED
    BY <1>10, <1>11, SMTT(60)

\* Each character the shell reads is a step of the editor.
LEMMA EditStep == ASSUME EditInv, NEW c, Edit(c) PROVE [Editor!Next]_Editor!vars
<1>1. length \in Nat /\ cursor \in Nat /\ cursor <= length
    BY DEF EditInv, LineInv, LineWhole
<1>2. CASE argv' = <<>> /\ UNCHANGED <<line, saved>>
    BY <1>2, EditQuiet
<1>3. CASE Submit \/ ClearLine
    BY <1>3, EditSubmit, EditClear DEF Editor!Next
<1>4. CASE Recall \/ Erase
    BY <1>4, EditRecall, EditErase
<1>5. CASE \E t \in Typed : Insert(t)
    BY <1>5, EditInsert
<1>6. CASE \E k \in Nat : /\ k <= length /\ k \in {0, length, cursor - 1, cursor + 1, cursor}
                          /\ MoveTo(k)
    BY <1>6, EditMove
<1>7. CASE MoveTo(0)
  <2>1. 0 \in Nat /\ 0 <= length
    BY <1>1
  <2> QED
    BY <1>6, <1>7, <2>1
<1>8. CASE MoveTo(length)
  <2>1. length <= length
    BY <1>1
  <2> QED
    BY <1>1, <1>6, <1>8, <2>1
<1>9. CASE MoveTo(IF cursor > 0 THEN cursor - 1 ELSE cursor)
  <2>1. PICK k \in Nat : /\ k = (IF cursor > 0 THEN cursor - 1 ELSE cursor) /\ k <= length
                         /\ k \in {0, length, cursor - 1, cursor + 1, cursor}
    BY <1>1
  <2> QED
    BY <1>6, <1>9, <2>1, SMTT(60)
<1>10. CASE MoveTo(IF cursor < length THEN cursor + 1 ELSE cursor)
  <2>1. PICK k \in Nat : /\ k = (IF cursor < length THEN cursor + 1 ELSE cursor) /\ k <= length
                         /\ k \in {0, length, cursor - 1, cursor + 1, cursor}
    BY <1>1
  <2> QED
    BY <1>6, <1>10, <2>1
<1> QED
    BY <1>2, <1>3, <1>4, <1>5, <1>7, <1>8, <1>9, <1>10, Zenon DEF Edit

\* Only a submitted line changes the remembered one or runs a command.
LEMMA EditKept ==
    ASSUME EditInv, NEW c, Edit(c)
    PROVE  Ended(g_last_line') /\ (argv' # <<>> => length' = 0)
<1>1. CASE Submit
    BY <1>1, EditSubmit
<1>2. CASE argv' = <<>> /\ g_last_line' = g_last_line
    BY <1>2 DEF EditInv
<1>3. Submit \/ (argv' = <<>> /\ UNCHANGED saved)
    BY Zenon DEF Edit, ClearLine, MoveTo, Recall, Erase, Insert, saved
<1> QED
    BY <1>1, <1>2, <1>3 DEF saved

LEMMA EditNext ==
    EditInv /\ [ShellNext]_shellVars => EditInv' /\ [Editor!Next]_Editor!vars
<1> SUFFICES ASSUME EditInv, [ShellNext]_shellVars
             PROVE  EditInv' /\ [Editor!Next]_Editor!vars
    OBVIOUS
<1>1. LineInv'
    BY LineNext DEF EditInv
<1>2. CASE UNCHANGED shellVars
    BY <1>1, <1>2 DEF shellVars, EditInv, Editor!vars
<1>3. ASSUME NEW c, AfterEsc(c) PROVE EditInv' /\ [Editor!Next]_Editor!vars
  <2>1. argv' = <<>> /\ g_last_line' = g_last_line
    BY <1>3 DEF AfterEsc, ClearLine, saved
  <2>4. [Editor!Next]_Editor!vars
    <3>1. CASE argv' = <<>> /\ UNCHANGED <<line, saved>>
      BY <3>1, EditQuiet
    <3>2. CASE ClearLine
      BY <3>2, EditClear, SMTT(60) DEF Editor!Next
    <3> QED
      BY <1>3, <3>1, <3>2, SMTT(60) DEF AfterEsc
  <2> QED
    BY <1>1, <2>1, <2>4, SMTT(60) DEF EditInv
<1>4. ASSUME NEW c, Keystroke(c) PROVE EditInv' /\ [Editor!Next]_Editor!vars
  <2>1. PICK k : Edit(k)
    BY <1>4 DEF Keystroke
  <2> QED
    BY <1>1, <2>1, EditStep, EditKept, SMTT(60) DEF EditInv
<1> QED
    BY <1>2, <1>3, <1>4 DEF ShellNext

\* The buffers of cli_run and the in-place splitting of dispatch_line implement the
\* editor of LineEdit, for every length of the line, every number of arguments and
\* every alphabet: each character inserts, erases, moves, clears, recalls or submits
\* there, and a command runs with exactly the words of the line.
THEOREM PromptIsEditor == ShellSpec => ImplementsLineEdit
<1>1. ShellInit => EditInv
  <2> SUFFICES ASSUME ShellInit PROVE EditInv
    OBVIOUS
  <2>1. LineInv
    BY IndexIs DEF ShellInit, LineInv, LineWhole
  <2>2. Ended(g_last_line)
    <3>1. g_last_line \in [Index -> Bytes] /\ g_last_line[0] = "NUL" /\ 0 \in Index
      BY IndexIs DEF ShellInit
    <3> QED
      BY <3>1, EndIs
  <2> QED
    BY <2>1, <2>2 DEF EditInv, ShellInit
<1>2. ShellInit => Editor!Init
  <2> SUFFICES ASSUME ShellInit PROVE Editor!Init
    OBVIOUS
  <2>1. cursor = 0 /\ length = 0 /\ ~g_has_last_line /\ argv = <<>> /\ 0 \in Nat
    BY DEF ShellInit
  <2>2. Slice(g_line, 0, cursor) = <<>> /\ Slice(g_line, cursor, length) = <<>>
    BY <2>1, SliceNone
  <2> QED
    BY <2>1, <2>2 DEF Editor!Init, Editor!NoLine
<1> QED
    BY <1>1, <1>2, EditNext, PTL DEF ShellSpec, ImplementsLineEdit, Editor!Spec
=============================================================================
