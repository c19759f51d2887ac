------------------------------ MODULE Console ------------------------------
(***************************************************************************)
(* The console's output side and the mouse together: kernel_main clears    *)
(* the console and sets up the mouse before it enables interrupts; then    *)
(* the main thread prints, and each byte of the mouse is an interrupt that *)
(* comes between any two steps of the main thread and may scroll.          *)
(***************************************************************************)
EXTENDS ConsoleView, Mouse

\* A turn of the wheel (int8_t, times 3) is nothing beside 2^64 rows.
ASSUME ScrollAssumption == \A t \in Turns : t * LinesPerTurn + MaxRow < SizeMod

vars == <<viewVars, mouseVars>>

Init == ViewInit /\ MouseInit

Boot == MouseBoot /\ UNCHANGED viewVars

Output == g_mouse_ready /\ MainThread /\ UNCHANGED mouseVars

\* The byte completes a packet or not: ScrollBy is 0 if it does not.
MouseIrq ==
    \E mark \in BOOLEAN, turn \in Turns \cup {-t : t \in Turns} :
        mouse_handle_irq(mark) /\ console_scroll_view(ScrollBy(turn))

Next == Boot \/ Output \/ MouseIrq

Spec == Init /\ [][Next]_vars
=============================================================================
