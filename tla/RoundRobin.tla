----------------------------- MODULE RoundRobin -----------------------------
(***************************************************************************)
(* What the task table promises of its scheduling, without clocks, process *)
(* identifiers or accounting.  A task is a slot that is unused, runnable,  *)
(* running, asleep or a zombie; one slot is the current one.  Time shows   *)
(* only as the freedom to choose which sleepers a tick wakes.              *)
(*                                                                         *)
(* Module Tasks, which follows task.c, implements this specification.      *)
(***************************************************************************)
EXTENDS Integers

CONSTANT MaxTasks          \* MGCORE_MAX_TASKS

VARIABLES
    state,                 \* state of every slot
    current                \* g_current_index

vars == <<state, current>>

Slots == 0..(MaxTasks - 1)

\* bootstrap runs; kidle and init are ready.
BootState == [i \in Slots |-> CASE i = 0 -> "RUNNING"
                                [] i \in {1, 2} -> "RUNNABLE"
                                [] OTHER -> "UNUSED"]

Init ==
    /\ state = BootState
    /\ current = 0

\* The slot k places after slot c, cyclically; k = 0 is the next one.
SlotAfter(c, k) == (c + 1 + k) % MaxTasks

\* n is where the round-robin search that starts after slot c stops: at the
\* first runnable slot, or at c itself when no slot is runnable.
StopsAt(st, c, n) ==
    \/ \E k \in Slots :
          /\ n = SlotAfter(c, k)
          /\ st[n] = "RUNNABLE"
          /\ \A j \in 0..(k - 1) : st[SlotAfter(c, j)] # "RUNNABLE"
    \/ /\ \A i \in Slots : st[i] # "RUNNABLE"
       /\ n = c

\* The states after the current task gives up the processor and the sleepers
\* in W wake.
Released(W) ==
    [i \in Slots |-> IF \/ i \in W
                        \/ i = current /\ state[i] = "RUNNING"
                     THEN "RUNNABLE" ELSE state[i]]

\* The states st with slot n dispatched, if it can run.
Dispatched(st, n) ==
    IF st[n] = "RUNNABLE" THEN [st EXCEPT ![n] = "RUNNING"] ELSE st

Tick ==
    \E W \in SUBSET {i \in Slots : state[i] = "SLEEPING"}, n \in Slots :
        /\ StopsAt(Released(W), current, n)
        /\ current' = n
        /\ state' = Dispatched(Released(W), n)

Spawn ==
    \E i \in Slots :
        /\ state[i] = "UNUSED"
        /\ state' = [state EXCEPT ![i] = "RUNNABLE"]
        /\ UNCHANGED current

Exit ==
    /\ state' = [state EXCEPT ![current] = "ZOMBIE"]
    /\ UNCHANGED current

Sleep ==
    /\ state' = [state EXCEPT ![current] = "SLEEPING"]
    /\ UNCHANGED current

Next == Tick \/ Spawn \/ Exit \/ Sleep

Safety == Init /\ [][Next]_vars

=============================================================================
