---------------------------- MODULE MemoryProofs ----------------------------
(***************************************************************************)
(* Proofs about the page allocator and the swap accounting, for every size *)
(* of the bitmap and of a page, every memory map and every place of the    *)
(* kernel image.                                                           *)
(***************************************************************************)
EXTENDS Memory, FiniteSetTheorems, TLAPS

\* The counters: an overlap of entries adds to both alike.
Counted ==
    /\ Clear \subseteq ram
    /\ phase = "map" => Clear = ram
    /\ total_pages = Cardinality(ram) + doubled
    /\ free_pages = Cardinality(Clear) + doubled

\* What is reserved is neither clear nor held by a caller.
LowPages == RangePages(0, LowEnd)
KernelPages == RangePages(KernelStart, KernelEnd)
Reserved ==
    /\ owned \subseteq ram \cap bitmap
    /\ phase # "run" => owned = {}
    /\ phase \in {"kernel", "run"} => (Clear \cup owned) \cap LowPages = {}
    /\ phase = "run" => (Clear \cup owned) \cap KernelPages = {}

\* The entries that pmm_init has passed, and what it has found in them.
Passed == Len(map) - Len(todo)
Apart == \A i, j \in DOMAIN map : i < j => ~Overlap(i, j)
Walked ==
    /\ Len(todo) <= Len(map)
    /\ \A i \in DOMAIN todo : todo[i] = map[Passed + i]
    /\ ram = {p \in Pages : \E i \in DOMAIN map : i <= Passed /\ p \in Usable(map[i])}
    /\ Apart => doubled = 0

PInv == TypeOK /\ Counted /\ Reserved /\ Walked

SwapInv == swap_total \in Nat /\ swap_used \in Nat /\ S!UsedFits

IInv == PInv /\ SwapInv

----------------------------------------------------------------------------
(* Sets of pages and their sizes; addresses and pages.                     *)

LEMMA PagesFinite ==
    ASSUME NEW T, T \subseteq Pages
    PROVE  IsFiniteSet(T) /\ Cardinality(T) \in Nat
<1>1. MaxPages - 1 \in Int
    BY PmmAssumption
<1>2. IsFiniteSet(Pages)
    BY <1>1, FS_Interval DEF Pages
<1>3. IsFiniteSet(T)
    BY <1>2, FS_Subset
<1> QED
    BY <1>3, FS_CardinalityType

LEMMA UnionSize ==
    ASSUME NEW T, NEW U, T \subseteq Pages, U \subseteq Pages
    PROVE  /\ Cardinality(T \cup U) = Cardinality(T) + Cardinality(U) - Cardinality(T \cap U)
           /\ Cardinality(T) \in Nat /\ Cardinality(U) \in Nat /\ Cardinality(T \cap U) \in Nat
           /\ Cardinality(T \cup U) \in Nat
<1>1. T \cap U \subseteq Pages /\ T \cup U \subseteq Pages
    OBVIOUS
<1> QED
    BY <1>1, PagesFinite, FS_Union

LEMMA SplitSize ==
    ASSUME NEW T, NEW U, T \subseteq Pages, U \subseteq Pages
    PROVE  /\ Cardinality(T) = Cardinality(T \cap U) + Cardinality(T \ U)
           /\ Cardinality(T) \in Nat /\ Cardinality(T \cap U) \in Nat /\ Cardinality(T \ U) \in Nat
<1> DEFINE A == T \cap U
           B == T \ U
<1>1. A \subseteq Pages /\ B \subseteq Pages /\ A \cup B = T /\ A \cap B = {}
    OBVIOUS
<1>2. Cardinality({}) = 0
    BY FS_EmptySet
<1> HIDE DEF A, B
<1>3. /\ Cardinality(T) = Cardinality(A) + Cardinality(B)
      /\ Cardinality(A) \in Nat /\ Cardinality(B) \in Nat
  <2>1. /\ Cardinality(A \cup B) = Cardinality(A) + Cardinality(B) - Cardinality(A \cap B)
        /\ Cardinality(A) \in Nat /\ Cardinality(B) \in Nat
    BY <1>1, UnionSize, Zenon
  <2>2. Cardinality(A \cup B) = Cardinality(T) /\ Cardinality(A \cap B) = 0
    BY <1>1, <1>2
  <2> QED
    BY <2>1, <2>2
<1>4. Cardinality(T) \in Nat
    BY PagesFinite
<1> QED
    BY <1>3, <1>4 DEF A, B

LEMMA PageOf ==
    ASSUME NEW p \in Nat
    PROVE  (p * PageSize) \div PageSize = p
<1>1. PageSize \in Nat /\ PageSize > 0
    BY PmmAssumption
<1> DEFINE a == p * PageSize
           q == a \div PageSize
           r == a % PageSize
<1>2. a \in Nat
    BY <1>1
<1>3. q \in Int /\ r \in Nat /\ a = PageSize * q + r /\ r < PageSize
    BY <1>1, <1>2
<1>4. a = PageSize * p
    BY <1>1
<1> HIDE DEF a, q, r
<1>5. ASSUME q >= p + 1 PROVE FALSE
  <2>1. PageSize * q >= PageSize * (p + 1)
    BY <1>1, <1>3, <1>5
  <2>2. PageSize * (p + 1) = PageSize * p + PageSize
    BY <1>1
  <2> QED
    BY <1>1, <1>3, <1>4, <2>1, <2>2
<1>6. ASSUME p >= q + 1 PROVE FALSE
  <2>1. PageSize * p >= PageSize * (q + 1)
    BY <1>1, <1>3, <1>6
  <2>2. PageSize * (q + 1) = PageSize * q + PageSize
    BY <1>1, <1>3
  <2> QED
    BY <1>1, <1>3, <1>4, <2>1, <2>2
<1>7. q = p
    BY <1>3, <1>5, <1>6
<1> QED
    BY <1>7 DEF q, a

----------------------------------------------------------------------------
(* pmm_init                                                                *)

LEMMA InitPInv == Init => PInv
<1> SUFFICES ASSUME Init PROVE PInv
    OBVIOUS
<1>1. map \in Seq(Entry) /\ Len(map) \in Nat
    BY PmmAssumption DEF Init
<1>2. TypeOK
    BY <1>1 DEF Init, TypeOK
<1>3. Counted
    BY FS_EmptySet DEF Init, Counted, Clear
<1>4. Reserved
    BY DEF Init, Reserved
<1>5. Walked
  <2>1. Passed = 0 /\ Len(todo) <= Len(map)
    BY <1>1 DEF Init, Passed
  <2>2. \A i \in DOMAIN map : i \in Nat /\ i > 0
    BY <1>1
  <2> QED
    BY <2>1, <2>2 DEF Init, Walked
<1> QED
    BY <1>2, <1>3, <1>4, <1>5 DEF PInv

LEMMA MapEntryPInv == PInv /\ map_entry => PInv'
<1> SUFFICES ASSUME PInv, map_entry PROVE PInv'
    OBVIOUS
<1> DEFINE e == Head(todo)
           ps == Usable(e)
           k == Passed
<1>1. /\ phase = "map" /\ todo # <<>> /\ todo' = Tail(todo)
      /\ bitmap' = bitmap \ ps /\ ram' = ram \cup ps
      /\ total_pages' = total_pages + Cardinality(ps) /\ free_pages' = free_pages + Cardinality(ps)
      /\ doubled' = doubled + Cardinality(ps \cap ram)
      /\ UNCHANGED <<phase, owned, map>>
    BY DEF map_entry
<1>2. /\ todo \in Seq(Entry) /\ map \in Seq(Entry) /\ Len(todo) \in Nat /\ Len(map) \in Nat
      /\ Len(todo) >= 1 /\ Len(todo) <= Len(map)
    BY <1>1, PmmAssumption DEF PInv, TypeOK, Walked
<1>3. /\ Tail(todo) \in Seq(Entry) /\ Len(Tail(todo)) = Len(todo) - 1
      /\ \A i \in DOMAIN Tail(todo) : Tail(todo)[i] = todo[i + 1] /\ i + 1 \in DOMAIN todo
      /\ \A i \in DOMAIN Tail(todo) : i \in Nat
    BY <1>1, <1>2
<1>4. k \in Nat /\ k + 1 \in DOMAIN map /\ e = map[k + 1] /\ Passed' = k + 1
  <2>1. k \in Nat /\ k + 1 <= Len(map)
    BY <1>2 DEF Passed
  <2>2. e = todo[1] /\ 1 \in DOMAIN todo
    BY <1>1, <1>2
  <2>3. e = map[k + 1]
    BY <2>2 DEF PInv, Walked
  <2>4. Passed' = k + 1
    BY <1>1, <1>2, <1>3, SMTT(60) DEF Passed
  <2> QED
    BY <1>2, <2>1, <2>3, <2>4
<1>5. ps \subseteq Pages /\ ram \subseteq Pages /\ Clear = ram /\ bitmap \subseteq Pages
    BY <1>1 DEF Usable, EntryPages, PInv, TypeOK, Counted
<1> HIDE DEF ps, e, k
<1>6. /\ Cardinality(ram \cup ps) = Cardinality(ram) + Cardinality(ps) - Cardinality(ram \cap ps)
      /\ Cardinality(ram) \in Nat /\ Cardinality(ps) \in Nat /\ Cardinality(ram \cap ps) \in Nat
    BY <1>5, UnionSize, Zenon
<1>7. ps \cap ram = ram \cap ps
    OBVIOUS
<1>8. Clear' = ram \cup ps
    BY <1>1, <1>5 DEF Clear
<1>9. total_pages \in Nat /\ free_pages \in Nat /\ doubled \in Nat
    BY DEF PInv, TypeOK
<1> DEFINE a == Cardinality(ram)
           b == Cardinality(ps)
           c == Cardinality(ram \cap ps)
           u == Cardinality(ram \cup ps)
<1>10. total_pages = a + doubled /\ free_pages = a + doubled
    BY <1>5 DEF PInv, Counted
<1>11. total_pages' = total_pages + b /\ free_pages' = free_pages + b /\ doubled' = doubled + c
    BY <1>1, <1>7, Zenon
<1>12. u = a + b - c /\ a \in Nat /\ b \in Nat /\ c \in Nat
    BY <1>6
<1> HIDE DEF a, b, c, u
<1>13. TypeOK'
  <2>1. total_pages' \in Nat /\ free_pages' \in Nat /\ doubled' \in Nat
    BY <1>9, <1>11, <1>12
  <2> QED
    BY <1>1, <1>3, <1>5, <2>1 DEF PInv, TypeOK
<1>14. Counted'
  <2>1. total_pages' = u + doubled' /\ free_pages' = u + doubled'
    BY <1>9, <1>10, <1>11, <1>12
  <2> QED
    BY <1>1, <1>8, <2>1 DEF Counted, u
<1>15. Reserved'
    BY <1>1 DEF PInv, Reserved
<1>16. Walked'
  <2>1. Len(todo') <= Len(map')
    BY <1>1, <1>2, <1>3
  <2>2. ASSUME NEW i \in DOMAIN todo' PROVE todo'[i] = map'[Passed' + i]
    <3>1. i + 1 \in DOMAIN todo /\ todo'[i] = todo[i + 1] /\ i \in Nat
      BY <1>1, <1>3
    <3>2. todo[i + 1] = map[k + (i + 1)]
      BY <3>1 DEF PInv, Walked, k
    <3>3. k + (i + 1) = (k + 1) + i
      BY <1>4, <3>1
    <3> QED
      BY <1>1, <1>4, <3>1, <3>2, <3>3
  <2>3. \A i \in DOMAIN map : i \in Nat
    BY <1>2
  <2>4. \A i \in DOMAIN map : i <= k + 1 <=> i <= k \/ i = k + 1
    BY <1>4, <2>3
  <2>5. ram = {p \in Pages : \E i \in DOMAIN map : i <= k /\ p \in Usable(map[i])}
    BY DEF PInv, Walked, k
  <2>6. ram' = {p \in Pages : \E i \in DOMAIN map : i <= k + 1 /\ p \in Usable(map[i])}
    BY <1>1, <1>4, <1>5, <2>4, <2>5 DEF ps
  <2>7. ASSUME Apart PROVE doubled' = 0
    <3>1. \A i \in DOMAIN map : i <= k => i < k + 1
      BY <1>4, <2>3
    <3>2. ram \cap ps = {}
      BY <1>4, <2>5, <2>7, <3>1 DEF Apart, Overlap, ps
    <3>3. doubled = 0
      BY <2>7 DEF PInv, Walked
    <3> QED
      BY <1>11, <3>2, <3>3, FS_EmptySet DEF c
  <2>8. Apart' => Apart
    BY <1>1 DEF Apart, Overlap, Usable, EntryPages
  <2> QED
    BY <1>1, <1>4, <2>1, <2>2, <2>6, <2>7, <2>8 DEF Walked
<1> QED
    BY <1>13, <1>14, <1>15, <1>16 DEF PInv

\* Reserving a range: the count goes down by as many pages as were clear.
LEMMA ReserveCounts ==
    ASSUME PInv, NEW start \in Nat, NEW end \in Nat, reserve_range(start, end)
    PROVE  /\ UNCHANGED <<todo, total_pages, map, ram, doubled, owned>>
           /\ bitmap' \subseteq Pages /\ bitmap \subseteq bitmap' /\ free_pages' \in Nat
           /\ Clear' = Clear \ RangePages(start, end)
           /\ free_pages' = Cardinality(Clear') + doubled
<1> DEFINE ps == RangePages(start, end)
           n == Cardinality(ps \ bitmap)
<1>1. /\ bitmap' = bitmap \cup ps
      /\ free_pages' = IF n <= free_pages THEN free_pages - n ELSE 0
      /\ UNCHANGED <<todo, total_pages, map, ram, doubled, owned>>
    BY DEF reserve_range
<1>2. ps \subseteq Pages /\ bitmap \subseteq Pages /\ Clear \subseteq Pages
    BY DEF RangePages, PInv, TypeOK, Clear
<1> HIDE DEF ps
<1>3. ps \ bitmap = Clear \cap ps /\ Clear' = Clear \ ps
    BY <1>1, <1>2 DEF Clear
<1> DEFINE c == Cardinality(Clear)
           d == Cardinality(Clear \ ps)
<1>4. c = n + d /\ c \in Nat /\ n \in Nat /\ d \in Nat
    BY <1>2, <1>3, SplitSize, Zenon
<1>5. doubled \in Nat /\ free_pages \in Nat /\ free_pages = c + doubled
    BY DEF PInv, TypeOK, Counted
<1>6. free_pages' = IF n <= free_pages THEN free_pages - n ELSE 0
    BY <1>1
<1> HIDE DEF n, c, d
<1>7. free_pages' = d + doubled /\ free_pages' \in Nat
    BY <1>4, <1>5, <1>6
<1> QED
    BY <1>1, <1>2, <1>3, <1>7 DEF d, ps

LEMMA ReservePInv == PInv /\ (map_done \/ reserve_low \/ reserve_kernel) => PInv'
<1> SUFFICES ASSUME PInv, map_done \/ reserve_low \/ reserve_kernel PROVE PInv'
    OBVIOUS
<1>1. CASE map_done
  <2>1. /\ phase = "map" /\ phase' = "low"
        /\ UNCHANGED <<todo, bitmap, total_pages, free_pages, map, ram, doubled, owned>>
    BY <1>1 DEF map_done
  <2>2. TypeOK'
    BY <2>1 DEF PInv, TypeOK
  <2>3. Counted' /\ Reserved'
    BY <2>1 DEF PInv, Counted, Reserved, Clear
  <2>4. Walked'
    BY <2>1 DEF PInv, Walked, Passed, Apart, Overlap, Usable, EntryPages
  <2> QED
    BY <2>2, <2>3, <2>4 DEF PInv
<1>2. CASE reserve_low \/ reserve_kernel
  <2>1. PICK start \in Nat, end \in Nat :
          /\ reserve_range(start, end)
          /\ \/ phase = "low" /\ phase' = "kernel" /\ RangePages(start, end) = LowPages
             \/ phase = "kernel" /\ phase' = "run" /\ RangePages(start, end) = KernelPages
    BY <1>2, PmmAssumption DEF reserve_low, reserve_kernel, LowPages, KernelPages
  <2>2. /\ UNCHANGED <<todo, total_pages, map, ram, doubled, owned>>
        /\ bitmap' \subseteq Pages /\ bitmap \subseteq bitmap' /\ free_pages' \in Nat
        /\ Clear' = Clear \ RangePages(start, end)
        /\ free_pages' = Cardinality(Clear') + doubled
    BY <2>1, ReserveCounts
  <2>3. TypeOK'
    BY <2>1, <2>2 DEF PInv, TypeOK
  <2>4. Counted'
    BY <2>1, <2>2 DEF PInv, Counted
  <2>5. Reserved'
    BY <2>1, <2>2 DEF PInv, Reserved, LowPages, KernelPages, RangePages
  <2>6. Walked'
    BY <2>2 DEF PInv, Walked, Passed, Apart, Overlap, Usable, EntryPages
  <2> QED
    BY <2>3, <2>4, <2>5, <2>6 DEF PInv
<1> QED
    BY <1>1, <1>2

----------------------------------------------------------------------------
(* Allocation                                                              *)

LEMMA AllocPInv == PInv /\ pmm_alloc_page => PInv'
<1> SUFFICES ASSUME PInv, pmm_alloc_page PROVE PInv'
    OBVIOUS
<1>1. PICK p \in Clear :
        /\ bitmap' = bitmap \cup {p} /\ owned' = owned \cup {p}
        /\ free_pages' = IF free_pages # 0 THEN free_pages - 1 ELSE 0
    BY DEF pmm_alloc_page
<1>2. phase = "run" /\ UNCHANGED <<todo, phase, total_pages, map, ram, doubled>>
    BY DEF pmm_alloc_page
<1>3. p \in Pages /\ p \notin bitmap /\ Clear \subseteq Pages /\ bitmap \subseteq Pages
      /\ p \in ram
    BY DEF Clear, PInv, TypeOK, Counted
<1>4. Clear' = Clear \ {p}
    BY <1>1 DEF Clear
<1> DEFINE c == Cardinality(Clear)
           d == Cardinality(Clear \ {p})
<1>5. c \in Nat /\ d \in Nat /\ d = c - 1
    <2>1. Clear \ {p} \subseteq Pages
      BY <1>3
    <2> QED
      BY <1>3, <2>1, PagesFinite, FS_RemoveElement
<1>6. doubled \in Nat /\ free_pages \in Nat /\ free_pages = c + doubled
    BY DEF PInv, TypeOK, Counted
<1>7. free_pages' = IF free_pages # 0 THEN free_pages - 1 ELSE 0
    BY <1>1
<1> HIDE DEF c, d
<1>8. free_pages' = d + doubled /\ free_pages' \in Nat
    BY <1>5, <1>6, <1>7
<1>9. TypeOK'
    BY <1>1, <1>2, <1>3, <1>8 DEF PInv, TypeOK
<1>10. Counted'
    BY <1>2, <1>4, <1>8 DEF PInv, Counted, d
<1>11. Reserved'
    BY <1>1, <1>2, <1>3, <1>4 DEF PInv, Reserved, LowPages, KernelPages, RangePages
<1>12. Walked'
    BY <1>2 DEF PInv, Walked, Passed, Apart, Overlap, Usable, EntryPages
<1> QED
    BY <1>9, <1>10, <1>11, <1>12 DEF PInv

\* A page freed twice and an address beyond the bitmap are ignored.
LEMMA FreePInv == PInv /\ (\E a \in Freeable : pmm_free_page(a)) => PInv'
<1> SUFFICES ASSUME PInv, NEW p \in owned \cup Clear \cup {MaxPages}, pmm_free_page(p * PageSize)
             PROVE  PInv'
    BY DEF Freeable
<1>1. phase = "run" /\ UNCHANGED <<todo, phase, total_pages, map, ram, doubled>>
    BY DEF pmm_free_page
<1>2. MaxPages \in Nat /\ MaxPages \notin Pages /\ \A q \in Pages : q \in Nat
    BY PmmAssumption DEF Pages
<1>3. owned \subseteq Pages /\ Clear \subseteq Pages /\ bitmap \subseteq Pages
    BY DEF PInv, TypeOK, Clear
<1>4. (p * PageSize) \div PageSize = p
    BY <1>2, <1>3, PageOf
<1>5. CASE p \in Pages /\ p \in bitmap
  <2>1. /\ bitmap' = bitmap \ {p} /\ owned' = owned \ {p} /\ free_pages' = free_pages + 1
    BY <1>4, <1>5 DEF pmm_free_page
  <2>2. p \in owned /\ p \notin Clear
    BY <1>2, <1>5 DEF Clear
  <2>3. Clear' = Clear \cup {p}
    BY <1>5, <2>1 DEF Clear
  <2> DEFINE c == Cardinality(Clear)
             d == Cardinality(Clear \cup {p})
  <2>4. c \in Nat /\ d = c + 1
    BY <1>3, <2>2, PagesFinite, FS_AddElement
  <2>5. doubled \in Nat /\ free_pages \in Nat /\ free_pages = c + doubled
    BY DEF PInv, TypeOK, Counted
  <2> HIDE DEF c, d
  <2>6. free_pages' = d + doubled /\ free_pages' \in Nat
    BY <2>1, <2>4, <2>5
  <2>7. TypeOK'
    BY <1>1, <1>3, <2>1, <2>6 DEF PInv, TypeOK
  <2>8. Counted'
    BY <1>1, <2>2, <2>3, <2>6 DEF PInv, Counted, Reserved, d
  <2>9. Reserved'
    BY <1>1, <2>1, <2>2, <2>3 DEF PInv, Reserved, LowPages, KernelPages, RangePages
  <2>10. Walked'
    BY <1>1, SMTT(60) DEF PInv, Walked, Passed, Apart, Overlap, Usable, EntryPages
  <2> QED
    BY <2>7, <2>8, <2>9, <2>10 DEF PInv
<1>6. CASE ~(p \in Pages /\ p \in bitmap)
  <2>1. UNCHANGED vars
    BY <1>1, <1>4, <1>6 DEF pmm_free_page, vars
  <2> QED
    BY <2>1, ZenonT(60) DEF vars, PInv, TypeOK, Counted, Reserved, Walked, Passed, Apart, Overlap, Usable,
                EntryPages, Clear, LowPages, KernelPages, RangePages
<1> QED
    BY <1>5, <1>6

----------------------------------------------------------------------------
(* Swap, and the whole.                                                    *)

LEMMA SwapSteps ==
    ASSUME PInv, SwapInv, SwapInit \/ SwapCommand
    PROVE  SwapInv'
<1>1. /\ MaxRequest \in Nat /\ Divisor \in Nat /\ Divisor > 0 /\ MinDefault \in Nat
      /\ total_pages \in Nat /\ swap_total \in Nat /\ swap_used \in Nat /\ swap_used <= swap_total
    BY SwapAssumption DEF PInv, TypeOK, SwapInv, S!UsedFits
<1>2. CASE SwapInit
  <2> DEFINE share == total_pages \div Divisor
  <2>1. share \in Nat
    BY <1>1
  <2>2. swap_used' = 0 /\ swap_total' = S!swap_init_total(total_pages)
    BY <1>2 DEF SwapInit, S!swap_init
  <2>3. S!swap_init_total(total_pages) \in Nat
    BY <1>1, <2>1 DEF S!swap_init_total
  <2> QED
    BY <2>2, <2>3 DEF SwapInv, S!UsedFits
<1>3. CASE SwapCommand
  <2>1. CASE \E pages \in 0..MaxRequest : S!swap_enable(pages)
    <3>1. PICK pages \in Nat : S!swap_enable(pages)
      BY <1>1, <2>1
    <3> DEFINE cap == IF pages # 0 THEN pages ELSE swap_total
    <3>2. cap \in Nat
      BY <1>1
    <3>3. /\ swap_total' = cap
          /\ swap_used' = IF cap = 0 THEN swap_used ELSE IF swap_used > cap THEN cap ELSE swap_used
      BY <3>1 DEF S!swap_enable
    <3>4. cap = 0 => swap_used = 0
      BY <1>1
    <3> HIDE DEF cap
    <3> QED
      BY <1>1, <3>2, <3>3, <3>4 DEF SwapInv, S!UsedFits
  <2>2. CASE S!swap_disable
    BY <1>1, <2>2 DEF S!swap_disable, SwapInv, S!UsedFits
  <2>3. CASE \E pages \in 0..MaxRequest : S!swap_set_used_pages(pages)
    BY <1>1, <2>3 DEF S!swap_set_used_pages, SwapInv, S!UsedFits
  <2> QED
    BY <1>3, <2>1, <2>2, <2>3 DEF SwapCommand, S!Next
<1> QED
    BY <1>2, <1>3

LEMMA PUnchanged == PInv /\ UNCHANGED vars => PInv'
    BY ZenonT(60) DEF vars, PInv, TypeOK, Counted, Reserved, Walked, Passed, Apart, Overlap, Usable,
           EntryPages, Clear, LowPages, KernelPages, RangePages

LEMMA MNextIInv == IInv /\ [MNext]_mvars => IInv'
<1> SUFFICES ASSUME IInv, [MNext]_mvars PROVE IInv'
    OBVIOUS
<1>1. CASE PageStep
  <2>1. SwapInv'
    BY <1>1 DEF PageStep, IInv, SwapInv, swapvars, S!UsedFits
  <2>2. PInv'
    BY <1>1, MapEntryPInv, ReservePInv, AllocPInv, FreePInv DEF PageStep, Next, IInv
  <2> QED
    BY <2>1, <2>2 DEF IInv
<1>2. CASE SwapInit \/ SwapCommand
    BY <1>2, SwapSteps, PUnchanged, Zenon DEF SwapInit, SwapCommand, IInv
<1>3. CASE UNCHANGED mvars
    BY <1>3, PUnchanged DEF mvars, swapvars, IInv, SwapInv, S!UsedFits
<1> QED
    BY <1>1, <1>2, <1>3 DEF MNext

\* The inductive invariant of the page allocator and the swap accounting.
THEOREM Invariance == MSpec => []IInv
<1>1. MInit => IInv
    BY InitPInv DEF MInit, S!Init, IInv, SwapInv, S!UsedFits
<1> QED
    BY <1>1, MNextIInv, PTL DEF MSpec

\* pmm_used_pages() counts the RAM pages in use, exactly and for every memory
\* map; pmm_free_pages() is never less than the clear bits and is their number
\* when no entries overlap; swap_free_pages() does not wrap.
THEOREM CountsAddUp == MSpec => []AccountsExact
<1>1. IInv => AccountsExact
  <2> SUFFICES ASSUME IInv PROVE AccountsExact
      OBVIOUS
  <2>1. /\ ram \subseteq Pages /\ bitmap \subseteq Pages /\ doubled \in Nat /\ Clear \subseteq ram
        /\ total_pages = Cardinality(ram) + doubled /\ free_pages = Cardinality(Clear) + doubled
      BY DEF IInv, PInv, TypeOK, Counted
  <2>2. ram \ bitmap = Clear /\ Clear \subseteq Pages
      BY <2>1 DEF Clear
  <2> DEFINE r == Cardinality(ram)
             u == Cardinality(ram \cap bitmap)
             c == Cardinality(Clear)
  <2>3. r = u + c /\ r \in Nat /\ u \in Nat /\ c \in Nat
      BY <2>1, <2>2, SplitSize, Zenon
  <2>4. total_pages = r + doubled /\ free_pages = c + doubled
      BY <2>1
  <2> HIDE DEF r, u, c
  <2>5. total_pages - free_pages = u /\ c <= free_pages /\ (doubled = 0 => free_pages = c)
      BY <2>1, <2>3, <2>4
  <2>6. Apart => doubled = 0
      BY DEF IInv, PInv, Walked
  <2> QED
      BY <2>5, <2>6 DEF AccountsExact, CountersExact, pmm_used_pages, Apart, IInv, SwapInv, u, c
<1> QED
    BY <1>1, Invariance, PTL

\* Bytes of pages.
LEMMA RangeTouched ==
    ASSUME NEW p \in Pages, NEW start \in Nat, NEW end \in Nat, Touches(p, start, end)
    PROVE  p \in RangePages(start, end)
<1>1. PageSize \in Nat /\ PageSize > 0 /\ p \in Nat
    BY PmmAssumption DEF Pages
<1>2. p * PageSize < end /\ start < (p + 1) * PageSize
    BY DEF Touches
<1> DEFINE q == start \div PageSize
           r == start % PageSize
           l == end + PageSize - 1
           v == l \div PageSize
           w == l % PageSize
<1>3. l \in Nat /\ l >= p * PageSize + PageSize
    BY <1>1, <1>2
<1>4. q \in Nat /\ r \in Nat /\ start = PageSize * q + r /\ r < PageSize
    BY <1>1
<1> HIDE DEF l
<1>5. v \in Nat /\ w \in Nat /\ l = PageSize * v + w /\ w < PageSize
    BY <1>1, <1>3
<1> HIDE DEF q, r, v, w
<1>6. ASSUME q >= p + 1 PROVE FALSE
  <2>1. PageSize * q >= PageSize * (p + 1)
    BY <1>1, <1>4, <1>6
  <2>2. PageSize * (p + 1) = (p + 1) * PageSize
    BY <1>1
  <2> QED
    BY <1>1, <1>2, <1>4, <2>1, <2>2
<1>7. ASSUME p >= v PROVE FALSE
  <2>1. PageSize * p >= PageSize * v
    BY <1>1, <1>5, <1>7
  <2>2. PageSize * p = p * PageSize
    BY <1>1
  <2> QED
    BY <1>1, <1>3, <1>5, <2>1, <2>2
<1>8. q <= p /\ p < v
    BY <1>1, <1>4, <1>5, <1>6, <1>7
<1> QED
    BY <1>8 DEF RangePages, q, v, l

LEMMA EntryInside ==
    ASSUME NEW e \in Entry, NEW p \in EntryPages(e)
    PROVE  /\ (p + 1) * PageSize <= e.addr + e.len
           /\ e.addr % PageSize = 0 => e.addr <= p * PageSize
<1>1. PageSize \in Nat /\ PageSize > 0 /\ p \in Nat /\ e.addr \in Nat /\ e.len \in Nat
    BY PmmAssumption DEF Pages, EntryPages, Entry
<1> DEFINE a == e.addr
           b == e.addr + e.len
           q == a \div PageSize
           r == a % PageSize
           v == b \div PageSize
           w == b % PageSize
<1>2. b \in Nat /\ a \in Nat
    BY <1>1
<1>3. q <= p /\ p < v
    BY DEF EntryPages
<1> HIDE DEF a, b
<1>4. q \in Nat /\ r \in Nat /\ a = PageSize * q + r
    BY <1>1, <1>2
<1>5. v \in Nat /\ w \in Nat /\ b = PageSize * v + w
    BY <1>1, <1>2
<1>6. q <= p /\ p + 1 <= v
    BY <1>1, <1>3, <1>4, <1>5
<1> HIDE DEF q, r, v, w
<1>7. PageSize * q <= PageSize * p
    BY <1>1, <1>4, <1>6
<1>8. PageSize * (p + 1) <= PageSize * v
    BY <1>1, <1>5, <1>6
<1>9. PageSize * p = p * PageSize /\ PageSize * (p + 1) = (p + 1) * PageSize
    BY <1>1
<1>10. (r = 0 => a <= p * PageSize) /\ (p + 1) * PageSize <= b
    BY <1>1, <1>2, <1>4, <1>5, <1>7, <1>8, <1>9
<1> QED
    BY <1>10 DEF a, b, r

\* A page handed out is free RAM outside low memory and the kernel image, never
\* page 0, and inside one usable entry if the entries start on page boundaries.
THEOREM PagesAreFresh == MSpec => AllocFresh
<1>1. IInv /\ [MNext]_mvars =>
        [\A p \in owned' \ owned :
            /\ p \in ram \ bitmap
            /\ p # 0
            /\ ~Touches(p, 0, LowEnd)
            /\ ~Touches(p, KernelStart, KernelEnd)
            /\ StartsOnPages =>
                  \E i \in DOMAIN map : Inside(map[i], p * PageSize, (p + 1) * PageSize)]_vars
  <2> SUFFICES ASSUME IInv, MNext, NEW p \in owned' \ owned
               PROVE  /\ p \in ram \ bitmap
                      /\ p # 0
                      /\ ~Touches(p, 0, LowEnd)
                      /\ ~Touches(p, KernelStart, KernelEnd)
                      /\ StartsOnPages =>
                          \E i \in DOMAIN map :
                              Inside(map[i], p * PageSize, (p + 1) * PageSize)
      BY DEF mvars
  <2>1. pmm_alloc_page
      BY DEF MNext, PageStep, SwapInit, SwapCommand, Next, map_entry, map_done, reserve_low,
             reserve_kernel, reserve_range, pmm_free_page, vars
  <2>2. phase = "run" /\ p \in Clear /\ p \notin LowPages /\ p \notin KernelPages
      BY <2>1 DEF pmm_alloc_page, IInv, PInv, Reserved
  <2>3. p \in ram /\ p \notin bitmap /\ p \in Pages
      BY <2>2 DEF IInv, PInv, Counted, Clear
  <2>4. ~Touches(p, 0, LowEnd) /\ ~Touches(p, KernelStart, KernelEnd)
      BY <2>2, <2>3, RangeTouched, PmmAssumption DEF LowPages, KernelPages
  <2>5. PageSize \in Nat /\ PageSize > 0 /\ p \in Nat /\ LowEnd \in Nat /\ LowEnd > 0
      BY <2>3, PmmAssumption DEF Pages
  <2>6. p * PageSize \in Nat /\ (p + 1) * PageSize = p * PageSize + PageSize
      BY <2>5
  <2>7. p * PageSize >= LowEnd
      BY <2>4, <2>5, <2>6 DEF Touches
  <2>8. p # 0
      BY <2>5, <2>7
  <2>9. ASSUME StartsOnPages
        PROVE  \E i \in DOMAIN map : Inside(map[i], p * PageSize, (p + 1) * PageSize)
    <3>1. PICK i \in DOMAIN map : p \in Usable(map[i])
      BY <2>3 DEF IInv, PInv, Walked
    <3>2. map[i] \in Entry /\ map[i].type = 1 /\ p \in EntryPages(map[i])
      BY <3>1, PmmAssumption DEF IInv, PInv, TypeOK, Usable
    <3> DEFINE a == map[i].addr
               b == map[i].addr + map[i].len
    <3>3. (p + 1) * PageSize <= b /\ (a % PageSize = 0 => a <= p * PageSize)
      BY <3>2, EntryInside
    <3>4. b \in Nat
      BY <3>2 DEF Entry
    <3> HIDE DEF b
    <3>5. b > LowEnd
      BY <2>5, <2>6, <2>7, <3>3, <3>4
    <3>6. a % PageSize = 0
      BY <2>9, <3>2, <3>5 DEF StartsOnPages, b
    <3> QED
      BY <3>2, <3>3, <3>6 DEF Inside, b
  <2> QED
      BY <2>3, <2>4, <2>8, <2>9
<1> QED
    BY <1>1, Invariance, PTL DEF MSpec, AllocFresh

=============================================================================
