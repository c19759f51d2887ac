------------------------------- MODULE Memory -------------------------------
(***************************************************************************)
(* The page allocator and the swap accounting, in the order kernel_main    *)
(* sets them up: swap_init is given the pages pmm_init counted, overlaps   *)
(* of the memory map and all.  Afterwards pages are allocated and freed    *)
(* while the shell's swap command changes the accounting.                  *)
(***************************************************************************)
EXTENDS Pmm

CONSTANTS MaxRequest, Divisor, MinDefault      \* see Swap

ASSUME SwapAssumption ==
    MaxRequest \in Nat /\ Divisor \in Nat \ {0} /\ MinDefault \in Nat

VARIABLES
    swap_total, swap_used, swap_enabled,       \* g_swap_*
    swap_ready                                 \* whether swap_init has run

S == INSTANCE Swap WITH total <- swap_total, used <- swap_used, enabled <- swap_enabled

swapvars == <<swap_total, swap_used, swap_enabled, swap_ready>>
mvars == <<vars, swapvars>>

MInit == Init /\ S!Init /\ swap_ready = FALSE

\* kernel_main, once pmm_init has returned.
SwapInit ==
    /\ phase = "run" /\ ~swap_ready
    /\ S!swap_init(total_pages)
    /\ swap_ready' = TRUE
    /\ UNCHANGED vars

\* The swap command: the shell starts last.
SwapCommand ==
    /\ swap_ready
    /\ S!Next
    /\ UNCHANGED <<vars, swap_ready>>

\* pmm_init, and page requests once the kernel is set up.
PageStep ==
    /\ phase = "run" => swap_ready
    /\ Next
    /\ UNCHANGED swapvars

MNext ==
    \/ PageStep
    \/ SwapInit
    \/ SwapCommand

MSpec == MInit /\ [][MNext]_mvars

-----------------------------------------------------------------------------
(* Properties.                                                             *)

\* What meminfo shows adds up.  Pages: see CountersExact.  Swap:
\* swap_free_pages() subtracts without looking; whatever memory map the capacity
\* came from, and whatever order capacity and use are changed in, the
\* subtraction does not wrap.
AccountsExact == CountersExact /\ S!UsedFits
=============================================================================
