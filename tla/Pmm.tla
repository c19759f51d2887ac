-------------------------------- MODULE Pmm --------------------------------
(***************************************************************************)
(* The physical page allocator: a bitmap, a count of pages of RAM and a    *)
(* count of free pages.  pmm_init walks the memory map of the boot loader  *)
(* one entry at a time and then reserves low memory and the kernel image;  *)
(* afterwards pages are allocated and freed.                               *)
(*                                                                         *)
(* Addresses are byte addresses, so that the rounding to pages is the      *)
(* code's.  Nothing in the tree calls pmm_alloc_page or pmm_free_page yet. *)
(* A caller is assumed to free only pages it was given, but may free a     *)
(* page twice or pass an address beyond the bitmap.                        *)
(***************************************************************************)
EXTENDS Integers, Sequences, FiniteSets

CONSTANTS
    MaxPages,              \* PMM_MAX_PAGES
    PageSize,              \* 4096
    Maps,                  \* memory maps: sequences of [addr, len, type]
    LowEnd,                \* 0x100000, the end of low memory
    KernelStart, KernelEnd \* kernel_image_start(), kernel_image_end()

Entry == [addr : Nat, len : Nat, type : Nat]

ASSUME PmmAssumption ==
    /\ MaxPages \in Nat \ {0} /\ PageSize \in Nat \ {0}
    /\ Maps \subseteq Seq(Entry)
    /\ LowEnd \in Nat \ {0} /\ KernelStart \in Nat /\ KernelEnd \in Nat

Pages == 0..(MaxPages - 1)

VARIABLES
    todo,                  \* the map entries pmm_init has not reached
    phase,                 \* where pmm_init is
    bitmap,                \* the pages whose bit in g_bitmap is set
    total_pages,           \* g_total_pages
    free_pages,            \* g_free_pages
    map,                   \* history: the memory map of this boot
    ram,                   \* history: pages that some usable entry covers
    doubled,               \* history: pages counted again by a later entry
    owned                  \* history: pages the callers hold

vars == <<todo, phase, bitmap, total_pages, free_pages, map, ram, doubled,
          owned>>

TypeOK ==
    /\ todo \in Seq(Entry)
    /\ map \in Maps
    /\ phase \in {"map", "low", "kernel", "run"}
    /\ bitmap \subseteq Pages
    /\ total_pages \in Nat
    /\ free_pages \in Nat
    /\ ram \subseteq Pages
    /\ doubled \in Nat
    /\ owned \subseteq Pages

Init ==
    /\ map \in Maps
    /\ todo = map
    /\ phase = "map"
    /\ bitmap = Pages
    /\ total_pages = 0
    /\ free_pages = 0
    /\ ram = {}
    /\ doubled = 0
    /\ owned = {}

-----------------------------------------------------------------------------
(* pmm_init.                                                               *)

\* The pages of a usable entry: the start is rounded down and the end too.
EntryPages(e) ==
    {p \in Pages : /\ e.addr \div PageSize <= p
                   /\ p < (e.addr + e.len) \div PageSize}

Usable(e) == IF e.type = 1 THEN EntryPages(e) ELSE {}

\* Mutant: a page that is free already is not counted in the total again.
map_entry_once ==
    /\ phase = "map" /\ todo # <<>>
    /\ LET ps == Usable(Head(todo))
       IN  /\ bitmap' = bitmap \ ps
           /\ total_pages' = total_pages + Cardinality(ps \ ram)
           /\ free_pages' = free_pages + Cardinality(ps)
           /\ ram' = ram \cup ps
           /\ doubled' = doubled + Cardinality(ps \cap ram)
    /\ todo' = Tail(todo)
    /\ UNCHANGED <<phase, owned, map>>

\* The loop body: every page is cleared and counted, whether or not an
\* earlier entry covered it.
map_entry ==
    /\ phase = "map" /\ todo # <<>>
    /\ LET ps == Usable(Head(todo))
       IN  /\ bitmap' = bitmap \ ps
           /\ total_pages' = total_pages + Cardinality(ps)
           /\ free_pages' = free_pages + Cardinality(ps)
           /\ ram' = ram \cup ps
           /\ doubled' = doubled + Cardinality(ps \cap ram)
    /\ todo' = Tail(todo)
    /\ UNCHANGED <<phase, owned, map>>

map_done ==
    /\ phase = "map" /\ todo = <<>>
    /\ phase' = "low"
    /\ UNCHANGED <<todo, bitmap, total_pages, free_pages, map, ram, doubled,
                   owned>>

\* Mutant: a page the range ends in is left out.
RangePages_down(start, end) ==
    {p \in Pages : start \div PageSize <= p /\ p < end \div PageSize}

\* The pages of a reserved range: every page it touches.
RangePages(start, end) ==
    {p \in Pages : /\ start \div PageSize <= p
                   /\ p < (end + PageSize - 1) \div PageSize}

\* The count goes down for the pages that were free, and stops at 0.
reserve_range(start, end) ==
    LET ps == RangePages(start, end)
        n  == Cardinality(ps \ bitmap)
    IN  /\ bitmap' = bitmap \cup ps
        /\ free_pages' = IF n <= free_pages THEN free_pages - n ELSE 0
        /\ UNCHANGED <<todo, total_pages, map, ram, doubled, owned>>

reserve_low ==
    phase = "low" /\ reserve_range(0, LowEnd) /\ phase' = "kernel"

reserve_kernel ==
    phase = "kernel" /\ reserve_range(KernelStart, KernelEnd) /\ phase' = "run"

-----------------------------------------------------------------------------
(* Allocation.                                                             *)

Clear == Pages \ bitmap

\* pmm_alloc_page takes the first clear bit; with none it returns 0 and
\* changes nothing.
pmm_alloc_page ==
    /\ phase = "run"
    /\ \E p \in Clear :
          /\ \A q \in Clear : p <= q
          /\ bitmap' = bitmap \cup {p}
          /\ free_pages' = IF free_pages # 0 THEN free_pages - 1 ELSE 0
          /\ owned' = owned \cup {p}
    /\ UNCHANGED <<todo, phase, total_pages, map, ram, doubled>>

\* pmm_free_page ignores an address beyond the bitmap and a clear bit.
pmm_free_page(physical) ==
    LET p == physical \div PageSize
    IN  /\ phase = "run"
        /\ IF p \in Pages /\ p \in bitmap
           THEN /\ bitmap' = bitmap \ {p}
                /\ free_pages' = free_pages + 1
                /\ owned' = owned \ {p}
           ELSE UNCHANGED <<bitmap, free_pages, owned>>
        /\ UNCHANGED <<todo, phase, total_pages, map, ram, doubled>>

\* The addresses a caller may pass: pages it owns, pages freed already, and
\* the first address beyond the bitmap.
Freeable == {p * PageSize : p \in owned \cup Clear \cup {MaxPages}}

Next ==
    \/ map_entry \/ map_done \/ reserve_low \/ reserve_kernel
    \/ pmm_alloc_page
    \/ \E a \in Freeable : pmm_free_page(a)

Spec == Init /\ [][Next]_vars

-----------------------------------------------------------------------------
(* Properties.                                                             *)

pmm_used_pages == total_pages - free_pages

\* Entries i and j cover a page in common.
Overlap(i, j) == Usable(map[i]) \cap Usable(map[j]) # {}

\* pmm_used_pages() is exact for every memory map, and never negative: an
\* overlap between entries inflates both counters alike, so what they differ
\* by is the RAM pages that are reserved or allocated.  pmm_free_pages(), which
\* the memory guard relies on, is the number of clear bits if no two entries
\* overlap; it is never too low, so the saturating decrements never saturate.
CountersExact ==
    /\ pmm_used_pages = Cardinality(ram \cap bitmap)
    /\ Cardinality(Clear) <= free_pages
    /\ (\A i, j \in DOMAIN map : i < j => ~Overlap(i, j))
          => free_pages = Cardinality(Clear)

\* Page p and the bytes start .. end - 1 have an address in common.
Touches(p, start, end) == p * PageSize < end /\ start < (p + 1) * PageSize

\* Every byte of [lo, hi) is inside usable entry e.
Inside(e, lo, hi) == e.type = 1 /\ e.addr <= lo /\ hi <= e.addr + e.len

\* Every usable entry that ends above low memory starts on a page boundary.
StartsOnPages ==
    \A i \in DOMAIN map : map[i].type = 1 /\ map[i].addr + map[i].len > LowEnd
                             => map[i].addr % PageSize = 0

\* A page handed out is RAM, holds no byte of low memory or of the kernel
\* image, and is not held by anyone.  It is not page 0, so the 0 that
\* pmm_alloc_page returns can only mean failure.  All of it is inside one usable
\* entry, provided that the entries start on page boundaries.
AllocFresh ==
    [][\A p \in owned' \ owned :
          /\ p \in ram \ bitmap
          /\ p # 0
          /\ ~Touches(p, 0, LowEnd)
          /\ ~Touches(p, KernelStart, KernelEnd)
          /\ StartsOnPages =>
                \E i \in DOMAIN map : Inside(map[i], p * PageSize, (p + 1) * PageSize)]_vars
=============================================================================
