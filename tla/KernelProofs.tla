---------------------------- MODULE KernelProofs -----------------------------
(***************************************************************************)
(* Proofs about the task table, for every size of the table, every word    *)
(* width and every set of sleep requests; and, at the end, about the table *)
(* in the kernel, with the memory guard and safe boot, for every amount of *)
(* memory and every setting of the guard.                                  *)
(***************************************************************************)
EXTENDS Kernel, TLAPS

\* The inductive invariant.  OneRunning needs CurrentNotQueued (a tick that
\* finds nothing to run must leave no RUNNING mark), and ParentOlder needs
\* PidOfSlot and that the caller of fork is itself in the table.
IInv ==
    /\ TypeOK
    /\ OneRunning
    /\ CurrentNotQueued
    /\ PidOfSlot
    /\ ParentOlder

\* The slot task_alloc finds is the one the next pid stands for.
LEMMA FreeSlotIsNext ==
    ASSUME IInv, NEW i \in Slots, FreeSlot(i)
    PROVE  i + 1 = next_pid
<1>1. i + 1 >= next_pid
    BY MaxTasksAssumption DEF IInv, TypeOK, PidOfSlot, FreeSlot, Slots
<1>2. ASSUME i + 1 > next_pid PROVE FALSE
    <2>1. next_pid - 1 \in Slots /\ next_pid - 1 < i
        BY <1>2, MaxTasksAssumption DEF IInv, TypeOK, PidOfSlot, Slots
    <2>2. Used(next_pid - 1)
        BY <2>1 DEF FreeSlot
    <2> QED
        BY <2>1, <2>2 DEF IInv, TypeOK, PidOfSlot, Slots
<1> QED
    BY <1>1, <1>2, MaxTasksAssumption DEF IInv, TypeOK, Slots

\* The boot-time table satisfies the invariant.
LEMMA InitIInv == Init => IInv
<1> SUFFICES ASSUME Init PROVE IInv
    OBVIOUS
<1> USE MaxTasksAssumption, TickAssumption
<1>1. TypeOK
    BY DEF Init, TypeOK, Slots, TaskState
<1>2. OneRunning /\ CurrentNotQueued
    BY DEF Init, OneRunning, CurrentNotQueued, Slots
<1>3. PidOfSlot
    BY DEF Init, PidOfSlot, Slots, Used
<1>4. ParentOlder
    <2> SUFFICES ASSUME NEW i \in Slots, Used(i), ppid[i] # 0
                 PROVE  /\ ppid[i] < pid[i]
                        /\ \E j \in Slots : Used(j) /\ pid[j] = ppid[i]
        BY DEF ParentOlder
    <2>1. i = 2 /\ ppid[i] = 1 /\ pid[i] = 3
        BY DEF Init, Slots
    <2>2. 0 \in Slots /\ Used(0) /\ pid[0] = 1
        BY DEF Init, Slots, Used
    <2> QED
        BY <2>1, <2>2
<1> QED
    BY <1>1, <1>2, <1>3, <1>4 DEF IInv

\* fork keeps the invariant: the new task takes the next slot and the next
\* pid, and its parent is the caller.
LEMMA ForkIInv == IInv /\ sys_fork => IInv'
<1> SUFFICES ASSUME IInv, sys_fork PROVE IInv'
    OBVIOUS
<1> USE MaxTasksAssumption, TickAssumption
<1>1. PICK i \in Slots : task_alloc(i, pid[current])
    BY DEF sys_fork
<1>2. i + 1 = next_pid
    BY <1>1, FreeSlotIsNext DEF task_alloc
<1>3. UNCHANGED <<current, uptime>>
    BY DEF sys_fork
<1>4. i # current
    BY <1>1 DEF task_alloc, FreeSlot, IInv, CurrentNotQueued, Used
<1>5. TypeOK'
    <2>1. pid[current] \in Nat /\ next_pid \in Nat /\ 0 \in 0..(TickMod - 1)
        BY DEF IInv, TypeOK
    <2>2. state' \in [Slots -> TaskState]
        BY <1>1 DEF IInv, TypeOK, task_alloc, TaskState
    <2>3. pid' \in [Slots -> Nat] /\ ppid' \in [Slots -> Nat]
        BY <1>1, <2>1 DEF IInv, TypeOK, task_alloc
    <2>4. wakeup_tick' \in [Slots -> 0..(TickMod - 1)]
        BY <1>1, <2>1 DEF IInv, TypeOK, task_alloc
    <2> QED
        BY <1>1, <1>3, <2>1, <2>2, <2>3, <2>4 DEF IInv, TypeOK, task_alloc
<1>6. OneRunning' /\ CurrentNotQueued'
    BY <1>1, <1>3, <1>4 DEF IInv, TypeOK, OneRunning, CurrentNotQueued, task_alloc
<1>7. PidOfSlot'
    <2>1. next_pid' = next_pid + 1 /\ next_pid' \in 1..(MaxTasks + 1)
        BY <1>1, <1>2 DEF IInv, TypeOK, task_alloc, Slots
    <2> SUFFICES ASSUME NEW k \in Slots
                 PROVE  /\ Used(k)' <=> k + 1 < next_pid'
                        /\ Used(k)' => pid'[k] = k + 1
        BY <2>1 DEF PidOfSlot
    <2>2. CASE k = i
        BY <1>1, <1>2, <2>1, <2>2 DEF IInv, TypeOK, task_alloc, Used, Slots
    <2>3. CASE k # i
        <3>1. state'[k] = state[k] /\ pid'[k] = pid[k]
            BY <1>1, <2>3 DEF IInv, TypeOK, task_alloc
        <3>2. (k + 1 < next_pid) <=> (k + 1 < next_pid')
            BY <1>2, <2>1, <2>3 DEF IInv, TypeOK, Slots
        <3> QED
            BY <3>1, <3>2 DEF IInv, PidOfSlot, Used
    <2> QED
        BY <2>2, <2>3
<1>8. ParentOlder'
    <2> SUFFICES ASSUME NEW k \in Slots, Used(k)', ppid'[k] # 0
                 PROVE  /\ ppid'[k] < pid'[k]
                        /\ \E j \in Slots : Used(j)' /\ pid'[j] = ppid'[k]
        BY DEF ParentOlder
    <2>1. CASE k = i
        <3>1. Used(current) /\ current \in Slots /\ current + 1 < next_pid
            BY DEF IInv, TypeOK, CurrentNotQueued, PidOfSlot, Used
        <3>2. pid[current] = current + 1
            BY <3>1 DEF IInv, PidOfSlot
        <3>3. ppid'[k] = current + 1 /\ pid'[k] = next_pid
            BY <1>1, <2>1, <3>2 DEF task_alloc, IInv, TypeOK
        <3>4. state'[current] # "UNUSED" /\ pid'[current] = current + 1
            BY <1>1, <1>4, <3>1, <3>2 DEF task_alloc, IInv, TypeOK, Used
        <3>5. current + 1 < next_pid
            BY <3>1
        <3> QED
            BY <3>1, <3>3, <3>4, <3>5 DEF Used
    <2>2. CASE k # i
        <3>1. Used(k) /\ ppid[k] # 0 /\ ppid'[k] = ppid[k] /\ pid'[k] = pid[k]
            BY <1>1, <2>2 DEF task_alloc, IInv, TypeOK, Used
        <3>2. PICK j \in Slots : Used(j) /\ pid[j] = ppid[k]
            BY <3>1 DEF IInv, ParentOlder
        <3>3. j # i
            BY <1>1, <3>2 DEF task_alloc, FreeSlot
        <3>4. Used(j)' /\ pid'[j] = ppid'[k]
            BY <1>1, <3>1, <3>2, <3>3 DEF task_alloc, IInv, TypeOK, Used
        <3> QED
            BY <3>1, <3>4 DEF IInv, ParentOlder
    <2> QED
        BY <2>1, <2>2
<1> QED
    BY <1>5, <1>6, <1>7, <1>8 DEF IInv

\* What keeps every pid, every parent and the set of used slots keeps the
\* two invariants that speak of nothing else.
LEMMA SameTable ==
    ASSUME IInv, UNCHANGED <<pid, ppid, next_pid>>,
           \A i \in Slots : Used(i)' <=> Used(i)
    PROVE  PidOfSlot' /\ ParentOlder'
<1>1. PidOfSlot'
    BY DEF IInv, PidOfSlot
<1>2. ParentOlder'
    BY DEF IInv, ParentOlder
<1> QED
    BY <1>1, <1>2

\* exit and nanosleep move the current task out of RUNNING.
LEMMA MarkIInv ==
    ASSUME IInv, sys_exit \/ \E req \in SleepRequests : sys_nanosleep(req)
    PROVE  IInv'
<1> USE MaxTasksAssumption, TickAssumption
<1>1. PICK s \in {"ZOMBIE", "SLEEPING"} : state' = [state EXCEPT ![current] = s]
    BY DEF sys_exit, sys_nanosleep
<1>2. UNCHANGED <<pid, ppid, next_pid, current, uptime>>
    BY DEF sys_exit, sys_nanosleep
<1>3. wakeup_tick' \in [Slots -> 0..(TickMod - 1)]
    <2>1. CASE sys_exit
        BY <2>1 DEF sys_exit, IInv, TypeOK
    <2>2. ASSUME NEW req \in SleepRequests, sys_nanosleep(req)
          PROVE  wakeup_tick' \in [Slots -> 0..(TickMod - 1)]
        <3>1. uptime + sleep_ticks(req) \in Nat
            BY DEF IInv, TypeOK, sleep_ticks
        <3>2. TickMod \in Nat \ {0}
            OBVIOUS
        <3>3. (uptime + sleep_ticks(req)) % TickMod \in 0..(TickMod - 1)
            BY <3>1, <3>2
        <3> QED
            BY <2>2, <3>3 DEF sys_nanosleep, IInv, TypeOK
    <2> QED
        BY <2>1, <2>2
<1>4. TypeOK'
    BY <1>1, <1>2, <1>3 DEF IInv, TypeOK, TaskState
<1>5. OneRunning' /\ CurrentNotQueued'
    BY <1>1, <1>2 DEF IInv, TypeOK, OneRunning, CurrentNotQueued
<1>6. \A i \in Slots : Used(i)' <=> Used(i)
    BY <1>1 DEF IInv, TypeOK, CurrentNotQueued, Used
<1>7. PidOfSlot' /\ ParentOlder'
    BY <1>2, <1>6, SameTable
<1> QED
    BY <1>4, <1>5, <1>7 DEF IInv

\* A tick takes every RUNNING mark away before it makes the chosen task, if
\* any is ready, the running one; it uses, frees and buries nobody.
LEMMA TickTable ==
    ASSUME IInv, uptime < MaxUptime, NEW n \in Slots, Chosen(Woken(uptime + 1), n)
    PROVE  LET st == Dispatch(Woken(uptime + 1), n)
           IN  /\ st \in [Slots -> TaskState]
               /\ \A i \in Slots : st[i] = "RUNNING" => i = n
               /\ st[n] \in {"RUNNING", "SLEEPING", "ZOMBIE"}
               /\ \A i \in Slots : st[i] # "UNUSED" <=> Used(i)
               /\ \A i \in Slots : st[i] = "ZOMBIE" <=> state[i] = "ZOMBIE"
<1> DEFINE W == Woken(uptime + 1)
           st == Dispatch(W, n)
<1>3. W \in [Slots -> TaskState]
    BY DEF IInv, TypeOK, Woken, TaskState
<1>4. \A i \in Slots : W[i] # "RUNNING"
    BY DEF IInv, TypeOK, OneRunning, Woken
<1>5. \A i \in Slots : /\ W[i] # "UNUSED" <=> Used(i)
                       /\ W[i] = "ZOMBIE" <=> state[i] = "ZOMBIE"
    BY DEF IInv, TypeOK, Woken, Used
<1>6. W[n] = "RUNNABLE" \/ (n = current /\ W[n] # "RUNNABLE")
    BY DEF Chosen, IInv, TypeOK
<1> HIDE DEF W
<1>7. \A i \in Slots : st[i] = IF i = n /\ W[n] = "RUNNABLE" THEN "RUNNING" ELSE W[i]
    BY <1>3 DEF Dispatch
<1>8. st \in [Slots -> TaskState]
    BY <1>3 DEF Dispatch, TaskState
<1> HIDE DEF st
<1>9. \A i \in Slots : st[i] = "RUNNING" => i = n
    BY <1>4, <1>7
<1>10. st[n] \in {"RUNNING", "SLEEPING", "ZOMBIE"}
    <2>1. CASE W[n] = "RUNNABLE"
        BY <1>7, <2>1
    <2>2. CASE n = current /\ W[n] # "RUNNABLE"
        <3>1. W[n] # "UNUSED"
            BY <1>5, <2>2 DEF IInv, TypeOK, CurrentNotQueued, Used
        <3>2. st[n] = W[n]
            BY <1>7, <2>2
        <3> QED
            BY <1>3, <1>4, <2>2, <3>1, <3>2 DEF TaskState
    <2> QED
        BY <1>6, <2>1, <2>2
<1>11. \A i \in Slots : /\ st[i] # "UNUSED" <=> Used(i)
                        /\ st[i] = "ZOMBIE" <=> state[i] = "ZOMBIE"
    BY <1>5, <1>7
<1> QED
    BY <1>8, <1>9, <1>10, <1>11 DEF st, W

\* So a tick keeps the invariant, ...
LEMMA TickIInv == IInv /\ Tick => IInv'
<1> SUFFICES ASSUME IInv, Tick PROVE IInv'
    OBVIOUS
<1> DEFINE W == Woken(uptime + 1)
<1>1. PICK n \in Slots : /\ Chosen(W, n)
                         /\ current' = n
                         /\ state' = Dispatch(W, n)
    BY DEF Tick, task_scheduler_tick
<1>2. /\ uptime < MaxUptime /\ uptime' = uptime + 1
      /\ UNCHANGED <<pid, ppid, wakeup_tick, next_pid>>
    BY DEF Tick, task_scheduler_tick
<1>3. /\ state' \in [Slots -> TaskState]
      /\ \A i \in Slots : state'[i] = "RUNNING" => i = n
      /\ state'[n] \in {"RUNNING", "SLEEPING", "ZOMBIE"}
      /\ \A i \in Slots : state'[i] # "UNUSED" <=> Used(i)
    BY <1>1, <1>2, TickTable
<1>4. TypeOK'
    BY <1>1, <1>2, <1>3, TickAssumption DEF IInv, TypeOK
<1>5. OneRunning' /\ CurrentNotQueued'
    BY <1>1, <1>3 DEF OneRunning, CurrentNotQueued
<1>6. PidOfSlot' /\ ParentOlder'
    BY <1>2, <1>3, SameTable DEF Used
<1> QED
    BY <1>4, <1>5, <1>6 DEF IInv

\* Every step keeps the invariant.
LEMMA NextIInv == IInv /\ [Next]_vars => IInv'
<1> SUFFICES ASSUME IInv, [Next]_vars PROVE IInv'
    OBVIOUS
<1>1. CASE sys_fork
    BY <1>1, ForkIInv
<1>2. CASE sys_exit
    BY <1>2, MarkIInv
<1>3. CASE \E req \in SleepRequests : sys_nanosleep(req)
    BY <1>3, MarkIInv
<1>4. CASE Tick
    BY <1>4, TickIInv
<1>5. CASE UNCHANGED vars
    BY <1>5 DEF vars, IInv, TypeOK, OneRunning, CurrentNotQueued, PidOfSlot,
                ParentOlder, Used
<1> QED
    BY <1>1, <1>2, <1>3, <1>4, <1>5 DEF Next

\* The inductive invariant holds in every reachable state.
THEOREM Invariance == Spec => []IInv
<1> QED
    BY InitIInv, NextIInv, PTL DEF Spec

\* The table is well typed: no index, pid or tick leaves its range.
THEOREM TypeCorrect == Spec => []TypeOK
<1>1. IInv => TypeOK
    BY DEF IInv
<1> QED
    BY <1>1, Invariance, PTL

\* At most one task is marked running, and it is the current one.
THEOREM SingleRunner == Spec => []OneRunning
<1>1. IInv => OneRunning
    BY DEF IInv
<1> QED
    BY <1>1, Invariance, PTL

\* A used slot holds the task whose pid is the slot number plus one.
THEOREM PidsAreSlots == Spec => []PidOfSlot
<1>1. IInv => PidOfSlot
    BY DEF IInv
<1> QED
    BY <1>1, Invariance, PTL

\* Every parent is an older task of the table.
THEOREM ParentsAreOlder == Spec => []ParentOlder
<1>1. IInv => ParentOlder
    BY DEF IInv
<1> QED
    BY <1>1, Invariance, PTL

-----------------------------------------------------------------------------

\* What a tick does to one slot.
LEMMA TickStates ==
    ASSUME IInv, Tick
    PROVE  /\ current' \in Slots
           /\ \/ /\ state'[current'] = "RUNNING"
                 /\ Woken(uptime + 1)[current'] = "RUNNABLE"
              \/ \A i \in Slots : state'[i] # "RUNNABLE"
           /\ \A i \in Slots : \/ state'[i] = Woken(uptime + 1)[i]
                               \/ /\ i = current' /\ state'[i] = "RUNNING"
                                  /\ Woken(uptime + 1)[i] = "RUNNABLE"
<1> DEFINE W == Woken(uptime + 1)
<1>1. PICK n \in Slots : /\ Chosen(W, n)
                         /\ current' = n
                         /\ state' = Dispatch(W, n)
    BY DEF Tick, task_scheduler_tick
<1>2. W = [i \in Slots |-> W[i]]
    BY DEF Woken
<1>3. W[n] = "RUNNABLE" \/ \A i \in Slots : W[i] # "RUNNABLE"
    BY <1>1 DEF Chosen
<1> HIDE DEF W
<1>4. CASE W[n] = "RUNNABLE"
    BY <1>1, <1>2, <1>4 DEF Dispatch, W
<1>5. CASE W[n] # "RUNNABLE"
    BY <1>1, <1>3, <1>5 DEF Dispatch, W
<1> QED
    BY <1>4, <1>5

\* Steps other than a tick leave the clock alone.
LEMMA ClockMovesInTick ==
    ASSUME [Next]_vars, uptime' # uptime
    PROVE  Tick
BY DEF Next, vars, sys_fork, sys_exit, sys_nanosleep

\* The slots in the order in which the search visits them.
LEMMA CandidateIs ==
    ASSUME current \in Slots, NEW k \in Slots
    PROVE  candidate(k) = IF current + 1 + k < MaxTasks THEN current + 1 + k
                          ELSE current + 1 + k - MaxTasks
<1> DEFINE x == current + 1 + k
<1>1. x \in Nat /\ x < 2 * MaxTasks
    BY MaxTasksAssumption DEF Slots
<1> HIDE DEF x
<1>2. x < MaxTasks => x % MaxTasks = x
    BY <1>1, MaxTasksAssumption
<1>3. ASSUME x >= MaxTasks PROVE x % MaxTasks = x - MaxTasks
    <2> DEFINE q == x \div MaxTasks
               r == x % MaxTasks
    <2>1. /\ q \in Int /\ r \in 0..(MaxTasks - 1)
          /\ x = MaxTasks * q + r
        BY <1>1, MaxTasksAssumption
    <2> HIDE DEF q, r
    <2>2. CASE q <= 0
        <3>1. MaxTasks * q <= 0
            BY <2>1, <2>2, MaxTasksAssumption
        <3> QED
            BY <1>1, <1>3, <2>1, <3>1, MaxTasksAssumption
    <2>3. CASE q = 1
        BY <1>1, <2>1, <2>3, MaxTasksAssumption DEF r
    <2>4. CASE q >= 2
        <3>1. MaxTasks * q >= MaxTasks * 2
            BY <2>1, <2>4, MaxTasksAssumption
        <3> QED
            BY <1>1, <2>1, <3>1, MaxTasksAssumption
    <2> QED
        BY <2>1, <2>2, <2>3, <2>4
<1>4. candidate(k) = x % MaxTasks
    BY DEF candidate, x
<1>5. candidate(k) = IF x < MaxTasks THEN x ELSE x - MaxTasks
    BY <1>1, <1>2, <1>3, <1>4, MaxTasksAssumption
<1> QED
    BY <1>5, MaxTasksAssumption DEF x, Slots

\* Each tick brings the search closer to a task that stays ready.
THEOREM ReadyTaskGetsCloser == Spec => BoundedWait
<1>1. IInv /\ [Next]_vars =>
        [uptime' # uptime =>
            \A i \in Slots : state[i] = "RUNNABLE" /\ state'[i] = "RUNNABLE"
                => Ahead(current', i) < Ahead(current, i)]_vars
    <2> SUFFICES ASSUME IInv, Tick, NEW i \in Slots,
                        state[i] = "RUNNABLE", state'[i] = "RUNNABLE"
                 PROVE  Ahead(current', i) < Ahead(current, i)
        BY ClockMovesInTick
    <2> DEFINE W == Woken(uptime + 1)
               a == Ahead(current, i)
    <2>1. PICK n \in Slots : /\ Chosen(W, n)
                             /\ current' = n
                             /\ state' = Dispatch(W, n)
        BY DEF Tick, task_scheduler_tick
    <2>2. W[i] = "RUNNABLE" /\ W = [j \in Slots |-> W[j]]
        BY DEF Woken
    <2>3. current \in Slots /\ i # current
        BY DEF IInv, TypeOK, CurrentNotQueued
    <2>4. a \in Slots
        BY <2>3, MaxTasksAssumption DEF Ahead, Slots
    <2>5. candidate(a) = i
        BY <2>3, <2>4, CandidateIs, MaxTasksAssumption DEF Ahead, Slots
    <2> HIDE DEF W, a
    <2>6. PICK k \in Slots : /\ n = candidate(k)
                             /\ W[n] = "RUNNABLE"
                             /\ \A j \in 0..(k - 1) : W[candidate(j)] # "RUNNABLE"
        BY <2>1, <2>2 DEF Chosen
    <2>7. n # i
        BY <2>1, <2>2, <2>6 DEF Dispatch
    <2>8. k < a
        BY <2>2, <2>4, <2>5, <2>6, <2>7 DEF Slots
    <2>9. n = IF current + 1 + k < MaxTasks THEN current + 1 + k
              ELSE current + 1 + k - MaxTasks
        BY <2>3, <2>6, CandidateIs
    <2> QED
        BY <2>1, <2>3, <2>8, <2>9, MaxTasksAssumption DEF Ahead, Slots, a
<1> QED
    BY <1>1, Invariance, PTL DEF Spec, BoundedWait

\* Ticks wake the sleepers that are due and no other.
THEOREM SleepersWakeWhenDue == Spec => SleepersWakeOnTime
<1>1. IInv /\ [Next]_vars =>
        [uptime' # uptime =>
            \A i \in Slots : state[i] = "SLEEPING" =>
                (state'[i] = "SLEEPING" <=> wakeup_tick[i] > uptime')]_vars
    <2> SUFFICES ASSUME IInv, Tick, NEW i \in Slots, state[i] = "SLEEPING"
                 PROVE  state'[i] = "SLEEPING" <=> wakeup_tick[i] > uptime'
        BY ClockMovesInTick
    <2>1. uptime' = uptime + 1 /\ uptime \in Nat /\ wakeup_tick[i] \in Nat
        BY TickAssumption DEF Tick, IInv, TypeOK
    <2>2. Woken(uptime + 1)[i] = IF wakeup_tick[i] <= uptime + 1
                                 THEN "RUNNABLE" ELSE "SLEEPING"
        BY DEF Woken
    <2>3. \/ state'[i] = Woken(uptime + 1)[i]
          \/ /\ state'[i] = "RUNNING"
             /\ Woken(uptime + 1)[i] = "RUNNABLE"
        BY TickStates
    <2> QED
        BY <2>1, <2>2, <2>3
<1> QED
    BY <1>1, Invariance, PTL DEF Spec, SleepersWakeOnTime

\* A zombie comes back only by its own nanosleep.
THEOREM ZombiesReviveOnlyBySleep == Spec => OnlySleepRevives
<1>1. IInv /\ [Next]_vars =>
        [\A i \in Slots : state[i] = "ZOMBIE" /\ state'[i] # "ZOMBIE" =>
            /\ i = current /\ state'[i] = "SLEEPING"
            /\ uptime' = uptime]_vars
    <2> SUFFICES ASSUME IInv, Next, NEW i \in Slots,
                        state[i] = "ZOMBIE", state'[i] # "ZOMBIE"
                 PROVE  /\ i = current /\ state'[i] = "SLEEPING"
                        /\ uptime' = uptime
        OBVIOUS
    <2>1. CASE sys_fork
        BY <2>1 DEF sys_fork, task_alloc, FreeSlot, Used, IInv, TypeOK
    <2>2. CASE sys_exit
        BY <2>2 DEF sys_exit, IInv, TypeOK
    <2>3. CASE \E req \in SleepRequests : sys_nanosleep(req)
        BY <2>3 DEF sys_nanosleep, IInv, TypeOK
    <2>4. CASE Tick
        <3>1. Woken(uptime + 1)[i] = "ZOMBIE"
            BY DEF Woken
        <3> QED
            BY <2>4, <3>1, TickStates
    <2> QED
        BY <2>1, <2>2, <2>3, <2>4 DEF Next
<1> QED
    BY <1>1, Invariance, PTL DEF Spec, OnlySleepRevives

\* wait4 overlooks no zombie child but one in the last slot.
THEOREM Wait4Complete == Spec => []Wait4MissesOnlyLast
<1>1. IInv => Wait4MissesOnlyLast
    <2> SUFFICES ASSUME IInv, sys_wait4_ECHILD,
                        NEW i \in Slots, ZombieChild(i), i # MaxTasks - 1
                 PROVE  FALSE
        BY DEF Wait4MissesOnlyLast
    <2>1. pid[i] = i + 1
        BY DEF IInv, PidOfSlot, ZombieChild, Used
    <2>2. pid[i] \in Wait4Finds
        BY <2>1, MaxTasksAssumption DEF Wait4Finds, Slots
    <2> QED
        BY <2>2 DEF sys_wait4_ECHILD
<1> QED
    BY <1>1, Invariance, PTL

-----------------------------------------------------------------------------

\* The task table implements the abstract round-robin scheduler: each system
\* call and each tick is a step of it, the sleepers a tick wakes being the
\* ones that are due.
THEOREM Refinement == Spec => ImplementsRoundRobin
<1>1. Init => RR!Init
    BY DEF Init, RR!Init, RR!BootState, RR!Slots, Slots
<1>2. IInv /\ [Next]_vars => [RR!Next]_(RR!vars)
    <2> SUFFICES ASSUME IInv, Next PROVE RR!Next \/ UNCHANGED RR!vars
        BY DEF vars, RR!vars
    <2>1. CASE sys_fork
        BY <2>1 DEF sys_fork, task_alloc, FreeSlot, Used, RR!Next, RR!Spawn,
                    RR!Slots, Slots
    <2>2. CASE sys_exit
        BY <2>2 DEF sys_exit, RR!Next, RR!Exit
    <2>3. CASE \E req \in SleepRequests : sys_nanosleep(req)
        BY <2>3 DEF sys_nanosleep, RR!Next, RR!Sleep
    <2>4. CASE Tick
        <3> DEFINE Due == {i \in Slots : state[i] = "SLEEPING"
                                         /\ wakeup_tick[i] <= uptime + 1}
        <3>1. Woken(uptime + 1) = RR!Released(Due)
            BY DEF Woken, RR!Released, RR!Slots, Slots
        <3>2. Due \in SUBSET {i \in RR!Slots : state[i] = "SLEEPING"}
            BY DEF RR!Slots, Slots
        <3>3. PICK n \in Slots : /\ Chosen(Woken(uptime + 1), n)
                                 /\ current' = n
                                 /\ state' = Dispatch(Woken(uptime + 1), n)
            BY <2>4 DEF Tick, task_scheduler_tick
        <3>4. RR!StopsAt(Woken(uptime + 1), current, n)
            BY <3>3 DEF Chosen, candidate, RR!StopsAt, RR!SlotAfter, RR!Slots,
                        Slots
        <3>5. state' = RR!Dispatched(Woken(uptime + 1), n)
            BY <3>3 DEF Dispatch, RR!Dispatched
        <3>6. n \in RR!Slots
            BY DEF RR!Slots, Slots
        <3> HIDE DEF Due
        <3> QED
            BY <3>1, <3>2, <3>3, <3>4, <3>5, <3>6 DEF RR!Next, RR!Tick
    <2> QED
        BY <2>1, <2>2, <2>3, <2>4 DEF Next
<1> QED
    BY <1>1, <1>2, Invariance, PTL DEF Spec, ImplementsRoundRobin, RR!Safety

-----------------------------------------------------------------------------
(* The kernel: the table with the memory guard and safe boot.              *)

\* The looks at memory come at the multiples of HZ.  The last calm one was
\* the a-th, and the streak counts all that came since.
LooksCounted ==
    \E a \in 0..calm_at : /\ calm_at = a * HZ
                          /\ (a + streak) * HZ <= uptime
                          /\ uptime < (a + streak + 1) * HZ

KInv == IInv /\ KTypeOK /\ LooksCounted

\* The machine's initial state.
LEMMA InitKInv == KInit => KInv
<1> SUFFICES ASSUME KInit PROVE KInv
    OBVIOUS
<1>1. IInv
    BY InitIInv DEF KInit
<1>2. KTypeOK
    BY <1>1, GuardAssumption DEF KInit, Init, IInv, KTypeOK
<1>3. LooksCounted
  <2>1. uptime = 0 /\ calm_at = 0 /\ streak = 0 /\ HZ \in Nat /\ HZ > 0
    BY GuardAssumption DEF KInit, Init
  <2>2. 0 \in 0..calm_at /\ calm_at = 0 * HZ /\ (0 + streak) * HZ <= uptime
        /\ uptime < (0 + streak + 1) * HZ
    BY <2>1
  <2> QED
    BY <2>2 DEF LooksCounted
<1> QED
    BY <1>1, <1>2, <1>3 DEF KInv

\* What safe boot does to the table: nothing, or one user task with memory of
\* its own becomes a zombie.
LEMMA SafebootStates ==
    ASSUME NEW st, safeboot_trigger(st)
    PROVE  \/ state' = st
           \/ \E i \in Slots : /\ state' = [j \in Slots |-> IF j = i THEN "ZOMBIE" ELSE st[j]]
                               /\ st[i] \notin {"UNUSED", "ZOMBIE"}
                               /\ ppid[i] # 0 /\ task_estimated_pages(i) > 0
BY DEF safeboot_trigger, Leaker, Suspects, task_kill

\* The states after a timer interrupt, with or without a look at memory.
LEMMA TickOrSafeboot ==
    ASSUME NEW st, NEW now, \/ memory_guard_tick(st, now)
                            \/ state' = st /\ UNCHANGED <<guardvars, machine>>
    PROVE  state' = st \/ safeboot_trigger(st)
BY DEF memory_guard_tick, memory_guard_calm, memory_guard_critical

\* Safe boot on top of a table that satisfies the invariant's part about states
\* keeps it.
LEMMA TableKept ==
    ASSUME IInv, NEW st, NEW n \in Slots, current' = n, uptime' \in 0..MaxUptime,
           UNCHANGED <<pid, ppid, wakeup_tick, next_pid>>,
           st \in [Slots -> TaskState],
           \A i \in Slots : st[i] = "RUNNING" => i = n,
           st[n] \in {"RUNNING", "SLEEPING", "ZOMBIE"},
           \A i \in Slots : st[i] # "UNUSED" <=> Used(i),
           state' = st \/ safeboot_trigger(st)
    PROVE  IInv'
<1>1. /\ state' \in [Slots -> TaskState]
      /\ \A i \in Slots : state'[i] = "RUNNING" => i = n
      /\ state'[n] \in {"RUNNING", "SLEEPING", "ZOMBIE"}
      /\ \A i \in Slots : state'[i] # "UNUSED" <=> Used(i)
  <2>1. CASE state' = st
    BY <2>1
  <2>2. CASE safeboot_trigger(st) /\ state' # st
    <3>1. PICK k \in Slots : /\ state' = [j \in Slots |-> IF j = k THEN "ZOMBIE" ELSE st[j]]
                             /\ st[k] \notin {"UNUSED", "ZOMBIE"}
      BY <2>2, SafebootStates
    <3>2. \A j \in Slots : state'[j] = IF j = k THEN "ZOMBIE" ELSE st[j]
      BY <3>1
    <3>3. state' \in [Slots -> TaskState]
      BY <3>1 DEF TaskState
    <3> QED
      BY <3>1, <3>2, <3>3
  <2> QED
    BY <2>1, <2>2
<1>2. TypeOK'
    BY <1>1 DEF IInv, TypeOK
<1>3. OneRunning' /\ CurrentNotQueued'
    BY <1>1 DEF OneRunning, CurrentNotQueued
<1>4. PidOfSlot' /\ ParentOlder'
    BY <1>1, SameTable DEF Used
<1> QED
    BY <1>2, <1>3, <1>4 DEF IInv

\* Every step of the kernel keeps the task table's invariant.
LEMMA KNextIInv == IInv /\ [KNext]_kvars => IInv'
<1> SUFFICES ASSUME IInv, [KNext]_kvars PROVE IInv'
    OBVIOUS
<1>1. CASE TaskCall
    BY <1>1, NextIInv DEF TaskCall, Next
<1>2. CASE UNCHANGED vars
    BY <1>2, NextIInv
<1>3. CASE scheduler_tick
  <2>1. PICK n \in Slots :
            LET st == Dispatch(Woken(uptime + 1), n)
            IN  /\ Chosen(Woken(uptime + 1), n) /\ current' = n
                /\ \/ memory_guard_tick(st, uptime + 1)
                   \/ state' = st /\ UNCHANGED <<guardvars, machine>>
    BY <1>3 DEF scheduler_tick
  <2> DEFINE st == Dispatch(Woken(uptime + 1), n)
  <2>2. /\ uptime < MaxUptime /\ uptime' = uptime + 1
        /\ UNCHANGED <<pid, ppid, wakeup_tick, next_pid>>
    BY <1>3 DEF scheduler_tick
  <2>3. uptime' \in 0..MaxUptime
    BY <2>2, TickAssumption DEF IInv, TypeOK
  <2>4. state' = st \/ safeboot_trigger(st)
    BY <2>1, TickOrSafeboot
  <2>5. /\ st \in [Slots -> TaskState]
        /\ \A i \in Slots : st[i] = "RUNNING" => i = n
        /\ st[n] \in {"RUNNING", "SLEEPING", "ZOMBIE"}
        /\ \A i \in Slots : st[i] # "UNUSED" <=> Used(i)
    BY <2>1, <2>2, TickTable
  <2> HIDE DEF st
  <2> QED
    BY <2>1, <2>2, <2>3, <2>4, <2>5, TableKept
<1>4. CASE kernel_panic
  <2>1. /\ current \in Slots /\ current' = current /\ uptime' \in 0..MaxUptime
        /\ UNCHANGED <<pid, ppid, wakeup_tick, next_pid>>
        /\ safeboot_trigger(state)
    BY <1>4 DEF kernel_panic, IInv, TypeOK
  <2>2. /\ state \in [Slots -> TaskState]
        /\ \A i \in Slots : state[i] = "RUNNING" => i = current
        /\ state[current] \in {"RUNNING", "SLEEPING", "ZOMBIE"}
        /\ \A i \in Slots : state[i] # "UNUSED" <=> Used(i)
    BY DEF IInv, TypeOK, OneRunning, CurrentNotQueued, Used
  <2> QED
    BY <2>1, <2>2, TableKept
<1> QED
    BY <1>1, <1>2, <1>3, <1>4 DEF KNext, kvars, sys_brk, sys_mmap, AllocPage, FreePage,
                                  cmd_mgctl_power, safeboot_set_action, Power

\* The multiple of m right after t, if t is not yet one less.
LEMMA NextMultiple ==
    ASSUME NEW m \in Nat \ {0}, NEW k \in Nat, NEW t \in Nat,
           k * m <= t, t < (k + 1) * m
    PROVE  /\ (t + 1) % m = 0 => t + 1 = (k + 1) * m
           /\ (t + 1) % m # 0 => t + 1 < (k + 1) * m
<1>1. CASE t + 1 = (k + 1) * m
  <2>1. ((k + 1) * m) % m = 0
    BY SMT
  <2> QED
    BY <1>1, <2>1
<1>2. CASE t + 1 < (k + 1) * m
  <2> DEFINE q == (t + 1) \div m
  <2>1. SUFFICES ASSUME (t + 1) % m = 0 PROVE FALSE
    BY <1>2
  <2>2. q \in Int /\ t + 1 = m * q + ((t + 1) % m)
    OBVIOUS
  <2> HIDE DEF q
  <2>3. m * q = t + 1
    BY <2>1, <2>2
  <2>4. CASE q <= k
    <3>1. m * q <= m * k
      BY <2>2, <2>4
    <3> QED
      BY <2>3, <3>1
  <2>5. CASE q >= k + 1
    <3>1. m * q >= m * (k + 1)
      BY <2>2, <2>5
    <3> QED
      BY <1>2, <2>3, <3>1
  <2> QED
    BY <2>2, <2>4, <2>5
<1> QED
    BY <1>1, <1>2

\* Of the kernel's steps only the timer interrupt moves the clock or the guard.
LEMMA OnlyTickLooks ==
    ASSUME [KNext]_kvars, ~scheduler_tick
    PROVE  UNCHANGED <<uptime, streak, calm_at, prev_free>>
BY DEF KNext, kvars, vars, guardvars, TaskCall, sys_fork, sys_exit, sys_nanosleep, sys_brk, sys_mmap,
       AllocPage, FreePage, cmd_mgctl_power, safeboot_set_action, Power, kernel_panic

\* A timer interrupt that looks at memory, and one that does not.
LEMMA TickGuard ==
    ASSUME KInv, scheduler_tick
    PROVE  /\ uptime' = uptime + 1 /\ uptime \in Nat
           /\ (uptime + 1) % HZ = 0 =>
                 /\ prev_free' = free_pages
                 /\ \/ streak' = 0 /\ calm_at' = uptime + 1 /\ machine' = machine
                    \/ /\ streak' = streak + 1 /\ calm_at' = calm_at
                       /\ machine' = machine \/ streak + 1 >= MinStreak
           /\ (uptime + 1) % HZ # 0 => UNCHANGED <<guardvars, machine>>
<1>1. uptime' = uptime + 1 /\ uptime \in Nat
    BY TickAssumption DEF scheduler_tick, KInv, IInv, TypeOK
<1>2. PICK n \in Slots :
          LET st == Dispatch(Woken(uptime + 1), n)
          IN  IF (uptime + 1) % HZ = 0
              THEN memory_guard_tick(st, uptime + 1)
              ELSE state' = st /\ UNCHANGED <<guardvars, machine>>
    BY DEF scheduler_tick
<1> DEFINE st == Dispatch(Woken(uptime + 1), n)
<1>3. (uptime + 1) % HZ # 0 => UNCHANGED <<guardvars, machine>>
    BY <1>2
<1>4. (uptime + 1) % HZ = 0 => memory_guard_tick(st, uptime + 1)
    BY <1>2
<1> HIDE DEF st
<1>5. ASSUME memory_guard_tick(st, uptime + 1)
      PROVE  /\ prev_free' = free_pages
             /\ \/ streak' = 0 /\ calm_at' = uptime + 1 /\ machine' = machine
                \/ /\ streak' = streak + 1 /\ calm_at' = calm_at
                   /\ machine' = machine \/ streak + 1 >= MinStreak
    BY <1>5 DEF memory_guard_tick, memory_guard_calm, memory_guard_critical, GuardActs
<1> QED
    BY <1>1, <1>3, <1>4, <1>5

LEMMA KNextLooks == KInv /\ [KNext]_kvars => LooksCounted'
<1> SUFFICES ASSUME KInv, [KNext]_kvars PROVE LooksCounted'
    OBVIOUS
<1>1. CASE ~scheduler_tick
    BY <1>1, OnlyTickLooks DEF KInv, LooksCounted
<1>2. CASE scheduler_tick
  <2>1. PICK a \in 0..calm_at : /\ calm_at = a * HZ
                                /\ (a + streak) * HZ <= uptime
                                /\ uptime < (a + streak + 1) * HZ
    BY DEF KInv, LooksCounted
  <2>2. /\ a \in Nat /\ streak \in Nat /\ uptime \in Nat /\ calm_at \in Nat
        /\ HZ \in Nat \ {0} /\ a + streak \in Nat
    BY <2>1, GuardAssumption, TickAssumption DEF KInv, KTypeOK, IInv, TypeOK
  <2> DEFINE k == a + streak
  <2>3. k \in Nat /\ k * HZ <= uptime /\ uptime < (k + 1) * HZ
    BY <2>1, <2>2
  <2> HIDE DEF k
  <2>4. /\ (uptime + 1) % HZ = 0 => uptime + 1 = (k + 1) * HZ
        /\ (uptime + 1) % HZ # 0 => uptime + 1 < (k + 1) * HZ
    BY <2>2, <2>3, NextMultiple
  <2>5. CASE (uptime + 1) % HZ # 0
    <3>1. UNCHANGED <<streak, calm_at>> /\ uptime' = uptime + 1
      BY <1>2, <2>5, TickGuard DEF guardvars
    <3>2. (a + streak) * HZ <= uptime + 1 /\ uptime + 1 < (a + streak + 1) * HZ
      BY <2>1, <2>2, <2>4, <2>5 DEF k
    <3> QED
      BY <2>1, <3>1, <3>2 DEF LooksCounted
  <2>6. CASE (uptime + 1) % HZ = 0
    <3>1. uptime + 1 = (k + 1) * HZ /\ uptime' = uptime + 1
      BY <1>2, <2>4, <2>6, TickGuard
    <3>2. CASE streak' = 0 /\ calm_at' = uptime + 1
      <4>1. k + 1 \in 0..(uptime + 1)
        BY <2>2, <2>3, <3>1
      <4>2. (k + 1) * HZ <= uptime + 1 /\ uptime + 1 < (k + 1 + 1) * HZ
        BY <2>2, <2>3, <3>1
      <4>3. k + 1 + 0 = k + 1 /\ k + 1 + 0 + 1 = k + 1 + 1
        BY <2>3
      <4> DEFINE b == k + 1
      <4>4. /\ b \in 0..calm_at' /\ calm_at' = b * HZ
            /\ (b + streak') * HZ <= uptime' /\ uptime' < (b + streak' + 1) * HZ
        BY <3>1, <3>2, <4>1, <4>2, <4>3
      <4> HIDE DEF b
      <4> QED
        BY <4>4 DEF LooksCounted
    <3>3. CASE streak' = streak + 1 /\ calm_at' = calm_at
      <4>1. a + (streak + 1) = k + 1 /\ a + (streak + 1) + 1 = k + 1 + 1
        BY <2>2 DEF k
      <4>2. (k + 1) * HZ <= uptime + 1 /\ uptime + 1 < (k + 1 + 1) * HZ
        BY <2>2, <2>3, <3>1
      <4>3. (a + streak') * HZ <= uptime' /\ uptime' < (a + streak' + 1) * HZ
        BY <3>1, <3>3, <4>1, <4>2
      <4> QED
        BY <2>1, <3>3, <4>3 DEF LooksCounted
    <3> QED
      BY <1>2, <2>6, <3>2, <3>3, TickGuard
  <2> QED
    BY <2>5, <2>6
<1> QED
    BY <1>1, <1>2

\* The address spaces, the count of free pages and the guard stay in range.
LEMMA KNextTyped == KInv /\ [KNext]_kvars => KTypeOK'
<1> SUFFICES ASSUME KInv, [KNext]_kvars PROVE KTypeOK'
    OBVIOUS
<1> DEFINE Rest == <<brk_pages, mmap_pages, free_pages, prev_free, streak, policy, machine, calm_at>>
<1>1. TypeOK' /\ KTypeOK
    BY KNextIInv DEF KInv, IInv
<1>2. /\ MaxBrk \in Nat /\ MaxPages \in Nat /\ BootFree \in Nat /\ current \in Slots
      /\ uptime \in Nat
    BY GuardAssumption, TickAssumption DEF KInv, IInv, TypeOK
<1>3. uptime' = uptime \/ uptime' = uptime + 1
    BY OnlyTickLooks, TickGuard
<1>4. calm_at \in 0..uptime'
    BY <1>1, <1>2, <1>3 DEF KTypeOK
<1>5. CASE TaskCall
    BY <1>1, <1>4, <1>5 DEF TaskCall, memvars, guardvars, KTypeOK
<1>6. CASE sys_brk
    BY <1>1, <1>2, <1>4, <1>6 DEF sys_brk, memvars, guardvars, KTypeOK
<1>7. CASE sys_mmap
  <2>1. PICK n \in 1..MaxPages :
            /\ task_estimated_pages(current) + n + 1 <= MaxPages
            /\ mmap_pages' = [mmap_pages EXCEPT ![current] = @ + n + 1]
    BY <1>7 DEF sys_mmap
  <2>2. mmap_pages[current] + n + 1 \in 0..MaxPages
    BY <1>1, <1>2, <2>1 DEF KTypeOK, task_estimated_pages
  <2>3. mmap_pages' \in [Slots -> 0..MaxPages]
    BY <1>1, <2>1, <2>2 DEF KTypeOK
  <2> QED
    BY <1>1, <1>4, <1>7, <2>3 DEF sys_mmap, guardvars, KTypeOK
<1>8. CASE AllocPage \/ FreePage
    BY <1>1, <1>2, <1>4, <1>8 DEF AllocPage, FreePage, guardvars, KTypeOK
<1>9. CASE scheduler_tick
  <2>1. UNCHANGED <<brk_pages, mmap_pages, free_pages, policy>>
    BY <1>9 DEF scheduler_tick, memvars
  <2>2. machine' \in {"up", "halted", "rebooting"}
    BY <1>1, <1>9 DEF scheduler_tick, memory_guard_tick, memory_guard_calm,
                      memory_guard_critical, safeboot_trigger, KTypeOK
  <2>3. streak' \in Nat /\ calm_at' \in 0..uptime' /\ prev_free' \in 0..BootFree
    BY <1>1, <1>2, <1>4, <1>9, TickGuard DEF KTypeOK, guardvars
  <2> QED
    BY <1>1, <2>1, <2>2, <2>3 DEF KTypeOK
<1>10. CASE kernel_panic
    BY <1>1, <1>4, <1>10 DEF kernel_panic, safeboot_trigger, memvars, guardvars, KTypeOK
<1>11. CASE cmd_mgctl_power
    BY <1>1, <1>4, <1>11 DEF cmd_mgctl_power, safeboot_set_action, Power, memvars, guardvars, KTypeOK
<1>12. CASE UNCHANGED kvars
    BY <1>1, <1>4, <1>12 DEF kvars, memvars, guardvars, KTypeOK
<1> QED
    BY <1>5, <1>6, <1>7, <1>8, <1>9, <1>10, <1>11, <1>12 DEF KNext

\* The kernel's inductive invariant holds in every reachable state.
THEOREM KernelInvariance == KSpec => []KInv
<1>1. KInv /\ [KNext]_kvars => KInv'
    BY KNextIInv, KNextLooks, KNextTyped DEF KInv
<1> QED
    BY <1>1, InitKInv, PTL DEF KSpec

\* Safe boot, whether the guard or a panic asks for it, leaves the table a
\* table: one runner, the current task not queued, pids that are slots, parents
\* that are older.
THEOREM KernelKeepsTable ==
    KSpec => [](TypeOK /\ OneRunning /\ CurrentNotQueued /\ PidOfSlot /\ ParentOlder)
<1>1. KInv => TypeOK /\ OneRunning /\ CurrentNotQueued /\ PidOfSlot /\ ParentOlder
    BY DEF KInv, IInv
<1> QED
    BY <1>1, KernelInvariance, PTL

\* memory_guard_tick does not stop the machine before MinStreak looks in a row
\* found memory low.
THEOREM GuardWaits == KSpec => GuardPatient
<1>1. ASSUME KInv, [KNext]_kvars, machine' # machine, uptime' # uptime
      PROVE  uptime' - calm_at >= MinStreak * HZ
  <2>1. scheduler_tick
    BY <1>1, OnlyTickLooks
  <2>2. PICK a \in 0..calm_at : /\ calm_at = a * HZ
                                /\ (a + streak) * HZ <= uptime
                                /\ uptime < (a + streak + 1) * HZ
    BY <1>1 DEF KInv, LooksCounted
  <2>3. /\ a \in Nat /\ streak \in Nat /\ uptime \in Nat /\ calm_at \in Nat
        /\ HZ \in Nat \ {0} /\ MinStreak \in Nat /\ a + streak \in Nat
    BY <1>1, <2>2, GuardAssumption, TickAssumption DEF KInv, KTypeOK, IInv, TypeOK
  <2>4. (uptime + 1) % HZ = 0 /\ streak + 1 >= MinStreak /\ uptime' = uptime + 1
    BY <1>1, <2>1, TickGuard
  <2> DEFINE k == a + streak
  <2>5. k \in Nat /\ k * HZ <= uptime /\ uptime < (k + 1) * HZ
    BY <2>2, <2>3
  <2> HIDE DEF k
  <2>6. uptime + 1 = (k + 1) * HZ
    BY <2>3, <2>4, <2>5, NextMultiple
  <2>7. (k + 1) * HZ - a * HZ = (streak + 1) * HZ
    BY <2>3 DEF k
  <2>8. (streak + 1) * HZ >= MinStreak * HZ
    BY <2>3, <2>4
  <2> QED
    BY <2>2, <2>4, <2>6, <2>7, <2>8
<1>2. KInv /\ [KNext]_kvars =>
        [machine' # machine /\ uptime' # uptime => uptime' - calm_at >= MinStreak * HZ]_kvars
    BY <1>1
<1> QED
    BY <1>2, KernelInvariance, PTL DEF KSpec, GuardPatient

\* safeboot_trigger kills at most one task, a user task with pages of its own.
THEOREM SafebootSparesKernel == KSpec => KillsOneUserTask
<1> DEFINE killed == {i \in Slots : state[i] # "ZOMBIE" /\ state'[i] = "ZOMBIE"}
           Spared == /\ \A i \in killed : ppid[i] # 0 /\ task_estimated_pages(i) > 0
                     /\ \A i, j \in killed : i = j
<1>1. ASSUME NEW st, safeboot_trigger(st) \/ state' = st,
             \A i \in Slots : st[i] = "ZOMBIE" <=> state[i] = "ZOMBIE"
      PROVE  Spared
  <2>1. CASE state' = st
    BY <1>1, <2>1
  <2>2. ASSUME NEW k \in Slots, state' = [j \in Slots |-> IF j = k THEN "ZOMBIE" ELSE st[j]],
               ppid[k] # 0, task_estimated_pages(k) > 0
        PROVE  Spared
    <3>1. \A i \in killed : i = k
      BY <1>1, <2>2
    <3> QED
      BY <2>2, <3>1
  <2> QED
    BY <1>1, <2>1, <2>2, SafebootStates
<1>2. ASSUME KInv, [KNext]_kvars, machine' # machine PROVE Spared
  <2>1. CASE scheduler_tick
    <3>1. PICK n \in Slots :
              LET st == Dispatch(Woken(uptime + 1), n)
              IN  /\ Chosen(Woken(uptime + 1), n) /\ current' = n
                  /\ \/ memory_guard_tick(st, uptime + 1)
                     \/ state' = st /\ UNCHANGED <<guardvars, machine>>
      BY <2>1 DEF scheduler_tick
    <3> DEFINE st == Dispatch(Woken(uptime + 1), n)
    <3>2. uptime < MaxUptime
      BY <2>1 DEF scheduler_tick
    <3>3. state' = st \/ safeboot_trigger(st)
      BY <3>1, TickOrSafeboot
    <3>4. \A i \in Slots : st[i] = "ZOMBIE" <=> state[i] = "ZOMBIE"
      BY <1>2, <3>1, <3>2, TickTable DEF KInv
    <3> HIDE DEF st
    <3> QED
      BY <1>1, <3>3, <3>4
  <2>2. CASE kernel_panic
    BY <1>1, <2>2 DEF kernel_panic
  <2>3. CASE cmd_mgctl_power
    BY <2>3 DEF cmd_mgctl_power, safeboot_set_action, Power, vars
  <2> QED
    BY <1>2, <2>1, <2>2, <2>3 DEF KNext, kvars, TaskCall, sys_brk, sys_mmap, AllocPage, FreePage
<1>3. KInv /\ [KNext]_kvars => [machine' # machine => Spared]_kvars
    BY <1>2
<1> QED
    BY <1>3, KernelInvariance, PTL DEF KSpec, KillsOneUserTask
=============================================================================
