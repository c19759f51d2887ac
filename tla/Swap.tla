-------------------------------- MODULE Swap --------------------------------
(***************************************************************************)
(* Swap accounting: a capacity, a use count and a switch, driven by the    *)
(* swap command of the shell.  No page is ever written anywhere.  Module   *)
(* Memory runs it after the page allocator, which gives it its size.       *)
(***************************************************************************)
EXTENDS Integers

CONSTANTS
    MaxRequest,            \* bound on the page counts typed at the shell
    Divisor,               \* SWAP_DEFAULT_DIVISOR
    MinDefault             \* SWAP_MIN_DEFAULT_PAGES

VARIABLES total, used, enabled     \* g_swap_*

vars == <<total, used, enabled>>

TypeOK == total \in Nat /\ used \in Nat /\ enabled \in BOOLEAN

\* The capacity swap_init chooses for a machine with ram pages.
swap_init_total(ram) ==
    LET share == ram \div Divisor
        some  == IF share = 0 /\ ram > 0 THEN 1 ELSE share
    IN  IF some < MinDefault /\ ram >= MinDefault THEN MinDefault ELSE some

\* The variables are static: zero until swap_init.
Init == total = 0 /\ used = 0 /\ enabled = FALSE

swap_init(ram) ==
    /\ total' = swap_init_total(ram)
    /\ used' = 0
    /\ enabled' = FALSE

\* swap on [pages]: 0 keeps the capacity, and a capacity of 0 is refused.
swap_enable(pages) ==
    LET cap == IF pages # 0 THEN pages ELSE total
    IN  /\ total' = cap
        /\ IF cap = 0 THEN UNCHANGED <<used, enabled>>
           ELSE /\ used' = IF used > cap THEN cap ELSE used
                /\ enabled' = TRUE

\* swap off
swap_disable ==
    /\ enabled' = FALSE
    /\ used' = 0
    /\ UNCHANGED total

\* swap use <pages>; refused when swap is off or the capacity is exceeded.
swap_set_used_pages(pages) ==
    /\ enabled
    /\ pages <= total
    /\ used' = pages
    /\ UNCHANGED <<total, enabled>>

Next ==
    \/ \E pages \in 0..MaxRequest : swap_enable(pages)
    \/ swap_disable
    \/ \E pages \in 0..MaxRequest : swap_set_used_pages(pages)

-----------------------------------------------------------------------------
(* Properties.                                                             *)

\* swap_free_pages() subtracts without looking: whatever order the capacity
\* and the use count are changed in, the subtraction does not wrap.
UsedFits == used <= total

=============================================================================
