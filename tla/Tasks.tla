-------------------------------- MODULE Tasks --------------------------------
(***************************************************************************)
(* The task table of task.c, the system calls that change it (fork, exit,  *)
(* nanosleep) and the scheduling part of the timer interrupt.              *)
(*                                                                         *)
(* A system call runs with interrupts masked (SFMASK clears IF) and the    *)
(* timer interrupt runs to completion, so each is one action.  A call acts *)
(* on task_current() whatever the state of that task: exit and nanosleep   *)
(* mark the task and return, and nothing switches away before the next     *)
(* tick.  Names, exit codes and g_task_count are only ever displayed or    *)
(* copied out and are left out.                                            *)
(***************************************************************************)
EXTENDS Integers, FiniteSets

CONSTANTS
    MaxTasks,              \* MGCORE_MAX_TASKS
    TickMod,               \* 2^64: ticks are uint64_t
    MaxUptime,             \* bound on the number of ticks explored
    SleepRequests          \* sleep lengths asked for, in whole ticks

ASSUME MaxTasksAssumption == MaxTasks \in Nat /\ MaxTasks >= 3
ASSUME TickAssumption ==
    /\ TickMod \in Nat /\ MaxUptime \in Nat /\ MaxUptime < TickMod
    /\ SleepRequests \subseteq 0..(TickMod - 1)

VARIABLES
    state,                 \* g_tasks[i].state
    pid,                   \* g_tasks[i].pid
    ppid,                  \* g_tasks[i].ppid
    wakeup_tick,           \* g_tasks[i].wakeup_tick
    next_pid,              \* g_next_pid
    current,               \* g_current_index
    uptime                 \* g_uptime_ticks

vars == <<state, pid, ppid, wakeup_tick, next_pid, current,
          uptime>>

Slots == 0..(MaxTasks - 1)

TaskState == {"UNUSED", "RUNNABLE", "RUNNING", "SLEEPING", "ZOMBIE"}

Used(i) == state[i] # "UNUSED"

TypeOK ==
    /\ state \in [Slots -> TaskState]
    /\ pid \in [Slots -> Nat]
    /\ ppid \in [Slots -> Nat]
    /\ wakeup_tick \in [Slots -> 0..(TickMod - 1)]
    /\ next_pid \in Nat
    /\ current \in Slots
    /\ uptime \in 0..MaxUptime

-----------------------------------------------------------------------------

\* The table when kernel_main enables interrupts: task_init has made
\* bootstrap (pid 1, running), task_create_kernel kidle (pid 2) and
\* task_spawn_user init (pid 3, a child of bootstrap).
Init ==
    /\ state = [i \in Slots |-> CASE i = 0 -> "RUNNING"
                                  [] i \in {1, 2} -> "RUNNABLE"
                                  [] OTHER -> "UNUSED"]
    /\ pid = [i \in Slots |-> IF i <= 2 THEN i + 1 ELSE 0]
    /\ ppid = [i \in Slots |-> IF i = 2 THEN 1 ELSE 0]
    /\ wakeup_tick = [i \in Slots |-> 0]
    /\ next_pid = 4
    /\ current = 0
    /\ uptime = 0

\* Mutant: the slot of a zombie is handed out again.
FreeSlot_reaped(i) ==
    /\ state[i] \in {"UNUSED", "ZOMBIE"}
    /\ \A j \in Slots : j < i => state[j] \notin {"UNUSED", "ZOMBIE"}

\* The first unused slot, as task_alloc finds it.
FreeSlot(i) ==
    /\ ~Used(i)
    /\ \A j \in Slots : j < i => Used(j)

\* task_alloc fills slot i for a task whose parent is pp (task_spawn_user
\* sets ppid right after, inside the same system call).
task_alloc(i, pp) ==
    /\ FreeSlot(i)
    /\ state' = [state EXCEPT ![i] = "RUNNABLE"]
    /\ pid' = [pid EXCEPT ![i] = next_pid]
    /\ next_pid' = next_pid + 1
    /\ ppid' = [ppid EXCEPT ![i] = pp]
    /\ wakeup_tick' = [wakeup_tick EXCEPT ![i] = 0]

\* sys_fork; with the table full it returns -ENOMEM and changes nothing.
sys_fork ==
    /\ \E i \in Slots : task_alloc(i, pid[current])
    /\ UNCHANGED <<current, uptime>>

\* sys_exit marks the current task and returns to it.
sys_exit ==
    /\ state' = [state EXCEPT ![current] = "ZOMBIE"]
    /\ UNCHANGED <<pid, ppid, wakeup_tick, next_pid, current,
                   uptime>>

\* A request of no whole tick sleeps for one.
sleep_ticks(req) == IF req = 0 THEN 1 ELSE req

\* sys_nanosleep: task_sleep_until does not look at the state it overwrites.
sys_nanosleep(req) ==
    /\ state' = [state EXCEPT ![current] = "SLEEPING"]
    /\ wakeup_tick' = [wakeup_tick EXCEPT
                          ![current] = (uptime + sleep_ticks(req)) % TickMod]
    /\ UNCHANGED <<pid, ppid, next_pid, current, uptime>>

-----------------------------------------------------------------------------
(* The timer interrupt: task_scheduler_tick(now).                          *)

\* Mutants: the current task keeps its RUNNING mark; a sleeper due now waits
\* for the next tick; whatever the current task is, it is queued again.
Woken_keeps(now) ==
    [i \in Slots |->
        IF state[i] = "SLEEPING" /\ wakeup_tick[i] <= now
        THEN "RUNNABLE" ELSE state[i]]
Woken_late(now) ==
    [i \in Slots |->
        IF \/ i = current /\ state[i] = "RUNNING"
           \/ state[i] = "SLEEPING" /\ wakeup_tick[i] < now
        THEN "RUNNABLE" ELSE state[i]]
Woken_any(now) ==
    [i \in Slots |->
        IF \/ i = current
           \/ state[i] = "SLEEPING" /\ wakeup_tick[i] <= now
        THEN "RUNNABLE" ELSE state[i]]

\* States once the current task is put back in the queue and every sleeper
\* that is due at now is woken.
Woken(now) ==
    [i \in Slots |->
        IF \/ i = current /\ state[i] = "RUNNING"
           \/ state[i] = "SLEEPING" /\ wakeup_tick[i] <= now
        THEN "RUNNABLE" ELSE state[i]]

\* Mutant: the search starts at the current task.
candidate_same(k) == (current + k) % MaxTasks

candidate(k) == (current + 1 + k) % MaxTasks

\* Mutant: every search starts at slot 0.
Chosen_first(st, n) ==
    \/ /\ st[n] = "RUNNABLE"
       /\ \A j \in 0..(n - 1) : st[j] # "RUNNABLE"
    \/ /\ \A i \in Slots : st[i] # "RUNNABLE"
       /\ n = current

\* n is the slot at which the round-robin search over st ends.
Chosen(st, n) ==
    \/ \E k \in Slots :
          /\ n = candidate(k)
          /\ st[n] = "RUNNABLE"
          /\ \A j \in 0..(k - 1) : st[candidate(j)] # "RUNNABLE"
    \/ /\ \A i \in Slots : st[i] # "RUNNABLE"
       /\ n = current

\* The states st with slot n made running if it is ready.
Dispatch(st, n) ==
    IF st[n] = "RUNNABLE" THEN [st EXCEPT ![n] = "RUNNING"] ELSE st

task_scheduler_tick(now) ==
    /\ \E n \in Slots :
          /\ Chosen(Woken(now), n)
          /\ current' = n
          /\ state' = Dispatch(Woken(now), n)
    /\ UNCHANGED <<pid, ppid, wakeup_tick, next_pid>>

\* scheduler_tick without the memory guard (module Kernel adds it).
Tick ==
    /\ uptime < MaxUptime
    /\ uptime' = uptime + 1
    /\ task_scheduler_tick(uptime + 1)

Next ==
    \/ sys_fork
    \/ sys_exit
    \/ \E req \in SleepRequests : sys_nanosleep(req)
    \/ Tick

Spec == Init /\ [][Next]_vars

-----------------------------------------------------------------------------
(* sys_wait4 reads the table only.  It asks task_find for the pids         *)
(* 1 .. MGCORE_MAX_TASKS - 1 in turn, returns the first zombie child of    *)
(* the caller that it meets, and -ECHILD if it meets none.                 *)

ZombieChild(i) == state[i] = "ZOMBIE" /\ ppid[i] = pid[current]

\* Mutant: the loop also leaves out the last pid but one.
Wait4Finds_short == {p \in 1..(MaxTasks - 2) :
                        \E i \in Slots : pid[i] = p /\ ZombieChild(i)}

Wait4Finds == {p \in 1..(MaxTasks - 1) :
                  \E i \in Slots : pid[i] = p /\ ZombieChild(i)}

sys_wait4_ECHILD == Wait4Finds = {}

-----------------------------------------------------------------------------
(* Properties.                                                             *)

\* At most one task is marked running, and it is the one task_current()
\* names: a system call is never charged to a task while another one is
\* marked as running.
OneRunning == \A i \in Slots : state[i] = "RUNNING" => i = current

\* The current task is never left in the ready queue: whatever exit, sleep,
\* fork and ticks did, it runs, sleeps or is a zombie.
CurrentNotQueued == state[current] \in {"RUNNING", "SLEEPING", "ZOMBIE"}

\* Slots are filled in order and never given back, so a task's pid is its
\* slot plus one.  This is what lets sys_wait4 enumerate pids instead of
\* slots and makes the slot that task_find returns the only one.
PidOfSlot ==
    /\ next_pid \in 1..(MaxTasks + 1)
    /\ \A i \in Slots : /\ Used(i) <=> i + 1 < next_pid
                        /\ Used(i) => pid[i] = i + 1

\* A parent is a task of the table that is older than its child, so that
\* following ppid from any task ends at a kernel task.
ParentOlder ==
    \A i \in Slots : Used(i) /\ ppid[i] # 0 =>
        /\ ppid[i] < pid[i]
        /\ \E j \in Slots : Used(j) /\ pid[j] = ppid[i]

\* sys_wait4 reports a zombie child whenever there is one, except that its
\* loop ends at pid MGCORE_MAX_TASKS - 1: it never sees the task that took
\* the last slot of the table.
Wait4MissesOnlyLast ==
    sys_wait4_ECHILD =>
        \A i \in Slots : ZombieChild(i) => i = MaxTasks - 1

\* The slots the search looks at before it comes to slot i, if slot c is the
\* current one.
Ahead(c, i) == IF c < i THEN i - c - 1 ELSE MaxTasks + i - c - 1

\* A ready task is dispatched within MGCORE_MAX_TASKS ticks: each tick that
\* does not dispatch it leaves fewer slots ahead of it, whatever forks, exits
\* and wakeups do to the slots in between.  In particular the processor does
\* not idle while a task is ready.
BoundedWait ==
    [][uptime' # uptime =>
          \A i \in Slots : state[i] = "RUNNABLE" /\ state'[i] = "RUNNABLE"
              => Ahead(current', i) < Ahead(current, i)]_vars

\* A tick leaves asleep exactly the sleepers whose wakeup_tick is still to
\* come: none is woken early, none is forgotten.
SleepersWakeOnTime ==
    [][uptime' # uptime =>
          \A i \in Slots : state[i] = "SLEEPING" =>
              (state'[i] = "SLEEPING" <=> wakeup_tick[i] > uptime')]_vars

\* A zombie leaves that state in one way only: it is still the current task
\* and calls nanosleep before the next tick.  No tick schedules a zombie.
OnlySleepRevives ==
    [][\A i \in Slots : state[i] = "ZOMBIE" /\ state'[i] # "ZOMBIE" =>
          /\ i = current /\ state'[i] = "SLEEPING"
          /\ uptime' = uptime]_vars

\* The table follows the abstract round-robin scheduler.
RR == INSTANCE RoundRobin
ImplementsRoundRobin == RR!Safety

=============================================================================
