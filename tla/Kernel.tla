------------------------------- MODULE Kernel -------------------------------
(***************************************************************************)
(* The task table together with what stops the machine: the memory guard   *)
(* that the timer interrupt runs once a second, the safe-boot policy it    *)
(* shares with kernel_panic, and the power commands.                       *)
(*                                                                         *)
(* Address spaces are kept as page counts (what task_estimated_pages       *)
(* derives from brk_current and next_mmap_base) and physical memory as its *)
(* count of free pages; module Pmm has the bitmap behind that count.       *)
(***************************************************************************)
EXTENDS Tasks

CONSTANTS
    HZ,                    \* MGCORE_HZ: ticks between two looks at memory
    TotalPages,            \* pmm_total_pages()
    BootFree,              \* pmm_free_pages() when scheduler_init ran
    CriticalPercent,       \* 5
    FloorPages,            \* 128
    MinDrop,               \* min_drop_pages, 256
    MinStreak,             \* min_streak, 5
    MaxBrk,                \* bound on the pages brk asks for
    MaxPages               \* bound on the pages of a task

ASSUME GuardAssumption ==
    /\ HZ \in Nat \ {0} /\ MinStreak \in Nat \ {0}
    /\ TotalPages \in Nat \ {0} /\ BootFree \in 0..TotalPages
    /\ CriticalPercent \in Nat /\ FloorPages \in Nat /\ MinDrop \in Nat
    /\ MaxBrk \in Nat /\ MaxPages \in Nat

VARIABLES
    brk_pages,             \* pages between brk_base and brk_current
    mmap_pages,            \* pages between the mmap base and next_mmap_base
    free_pages,            \* g_free_pages
    prev_free,             \* g_memguard_prev_free_pages
    streak,                \* g_memguard_critical_streak
    policy,                \* g_safeboot_action
    machine,               \* whether the processor still runs
    calm_at                \* history: tick of the last look that was not critical

memvars == <<brk_pages, mmap_pages, free_pages>>
guardvars == <<prev_free, streak, calm_at>>
kvars == <<vars, memvars, guardvars, policy, machine>>

KTypeOK ==
    /\ TypeOK
    /\ brk_pages \in [Slots -> 0..MaxBrk]
    /\ mmap_pages \in [Slots -> 0..MaxPages]
    /\ free_pages \in 0..BootFree
    /\ prev_free \in 0..BootFree
    /\ streak \in Nat
    /\ policy \in {"REBOOT", "SHUTDOWN"}
    /\ machine \in {"up", "halted", "rebooting"}
    /\ calm_at \in 0..uptime

KInit ==
    /\ Init
    /\ brk_pages = [i \in Slots |-> 0]
    /\ mmap_pages = [i \in Slots |-> 0]
    /\ free_pages = BootFree
    /\ prev_free = BootFree
    /\ streak = 0
    /\ policy = "REBOOT"
    /\ machine = "up"
    /\ calm_at = 0

-----------------------------------------------------------------------------
(* System calls.                                                           *)

task_estimated_pages(i) == brk_pages[i] + mmap_pages[i]

\* The calls of module Tasks.  A new task starts with an empty address space
\* (vmm_address_space_init); its slot was never used, so it has one already.
TaskCall ==
    /\ machine = "up"
    /\ \/ sys_fork
       \/ sys_exit
       \/ \E req \in SleepRequests : sys_nanosleep(req)
    /\ UNCHANGED <<memvars, guardvars, policy, machine>>

\* sys_brk: any address above brk_base is accepted.
sys_brk ==
    /\ machine = "up"
    /\ \E p \in 0..MaxBrk :
          /\ p + mmap_pages[current] <= MaxPages
          /\ brk_pages' = [brk_pages EXCEPT ![current] = p]
    /\ UNCHANGED <<vars, mmap_pages, free_pages, guardvars, policy, machine>>

\* sys_mmap of n pages: vmm_reserve_range adds a guard page.  A length of 0
\* is refused, and munmap gives nothing back.
sys_mmap ==
    /\ machine = "up"
    /\ \E n \in 1..MaxPages :
          /\ task_estimated_pages(current) + n + 1 <= MaxPages
          /\ mmap_pages' = [mmap_pages EXCEPT ![current] = @ + n + 1]
    /\ UNCHANGED <<vars, brk_pages, free_pages, guardvars, policy, machine>>

-----------------------------------------------------------------------------
(* Physical pages.  Nothing in the tree calls pmm_alloc_page or            *)
(* pmm_free_page yet; a caller frees only what it was given.               *)

AllocPage ==
    /\ machine = "up"
    /\ free_pages > 0
    /\ free_pages' = free_pages - 1
    /\ UNCHANGED <<vars, brk_pages, mmap_pages, guardvars, policy, machine>>

FreePage ==
    /\ machine = "up"
    /\ free_pages < BootFree
    /\ free_pages' = free_pages + 1
    /\ UNCHANGED <<vars, brk_pages, mmap_pages, guardvars, policy, machine>>

-----------------------------------------------------------------------------
(* Safe boot.                                                              *)

\* Mutant: kernel tasks are suspects too.
Suspects_kernel(st) ==
    {i \in Slots : /\ st[i] \notin {"UNUSED", "ZOMBIE"}
                   /\ task_estimated_pages(i) > 0}

\* The tasks task_find_likely_memory_leaker considers, given states st.
Suspects(st) ==
    {i \in Slots : /\ st[i] \notin {"UNUSED", "ZOMBIE"}
                   /\ ppid[i] # 0
                   /\ task_estimated_pages(i) > 0}

\* i is the one it names: the largest, the first of them in slot order.
Leaker(st, i) ==
    /\ i \in Suspects(st)
    /\ \A j \in Suspects(st) :
          \/ task_estimated_pages(j) < task_estimated_pages(i)
          \/ task_estimated_pages(j) = task_estimated_pages(i) /\ i <= j

task_kill(st, i) == [j \in Slots |-> IF j = i THEN "ZOMBIE" ELSE st[j]]

\* safeboot_trigger kills the suspect, if there is one and it is not pid 1,
\* and stops the machine the way the policy says.
safeboot_trigger(st) ==
    /\ \/ /\ Suspects(st) = {}
          /\ state' = st
       \/ \E i \in Slots :
            /\ Leaker(st, i)
            /\ state' = IF pid[i] > 1 THEN task_kill(st, i) ELSE st
    /\ machine' = IF policy = "SHUTDOWN" THEN "halted" ELSE "rebooting"

\* kernel_panic, from interrupt_dispatch on a processor exception.
kernel_panic ==
    /\ machine = "up"
    /\ safeboot_trigger(state)
    /\ UNCHANGED <<pid, ppid, wakeup_tick, next_pid, current,
                   uptime, memvars, guardvars, policy>>

\* mgctl power safe reboot|shutdown
safeboot_set_action ==
    /\ machine = "up"
    /\ policy' \in {"REBOOT", "SHUTDOWN"}
    /\ UNCHANGED <<vars, memvars, guardvars, machine>>

\* The shutdown and reboot commands, and sys_reboot.
Power ==
    /\ machine = "up"
    /\ machine' \in {"halted", "rebooting"}
    /\ UNCHANGED <<vars, memvars, guardvars, policy>>

\* The shell's commands for these.
cmd_mgctl_power == safeboot_set_action \/ Power

-----------------------------------------------------------------------------
(* The timer interrupt with its memory guard.                              *)

Critical(free) ==
    ~(free * 100 > TotalPages * CriticalPercent /\ free > FloorPages)

LeakSignature(free) == BootFree > free + MinDrop \/ prev_free > free

\* A look at memory that finds enough of it.
memory_guard_calm(st, now) ==
    /\ ~Critical(free_pages)
    /\ streak' = 0
    /\ calm_at' = now
    /\ state' = st
    /\ UNCHANGED machine

\* Mutant: one critical look too few is enough.
GuardActs_early(st) ==
    /\ LeakSignature(free_pages)
    /\ streak + 2 >= MinStreak
    /\ Suspects(st) # {}

\* The guard gives up on the machine when pressure has lasted, memory went
\* down and some task can be blamed.
GuardActs(st) ==
    /\ LeakSignature(free_pages)
    /\ streak + 1 >= MinStreak
    /\ Suspects(st) # {}

\* A look that finds memory critically low.
memory_guard_critical(st) ==
    /\ Critical(free_pages)
    /\ streak' = streak + 1
    /\ UNCHANGED calm_at
    /\ IF GuardActs(st) THEN safeboot_trigger(st)
       ELSE state' = st /\ UNCHANGED machine

memory_guard_tick(st, now) ==
    /\ prev_free' = free_pages
    /\ memory_guard_calm(st, now) \/ memory_guard_critical(st)

\* scheduler_tick
scheduler_tick ==
    /\ machine = "up"
    /\ uptime < MaxUptime
    /\ uptime' = uptime + 1
    /\ \E n \in Slots :
          /\ Chosen(Woken(uptime + 1), n)
          /\ current' = n
          /\ LET st == Dispatch(Woken(uptime + 1), n)
             IN  IF (uptime + 1) % HZ = 0
                 THEN memory_guard_tick(st, uptime + 1)
                 ELSE state' = st /\ UNCHANGED <<guardvars, machine>>
    /\ UNCHANGED <<pid, ppid, wakeup_tick, next_pid, memvars, policy>>

KNext ==
    \/ TaskCall \/ sys_brk \/ sys_mmap
    \/ AllocPage \/ FreePage
    \/ scheduler_tick \/ kernel_panic
    \/ cmd_mgctl_power

KSpec == KInit /\ [][KNext]_kvars

-----------------------------------------------------------------------------
(* Properties.                                                             *)

\* The guard stops the machine only after MinStreak consecutive critical
\* looks, the first of them MinStreak - 1 periods before.
GuardPatient ==
    [][machine' # machine /\ uptime' # uptime =>
          uptime' - calm_at >= MinStreak * HZ]_kvars

\* Safe boot, from the guard or from a panic, never marks a kernel task
\* (bootstrap, kidle) or a task that owns no memory as killed, and kills at
\* most one task.
KillsOneUserTask ==
    [][machine' # machine =>
          LET killed == {i \in Slots : state[i] # "ZOMBIE" /\ state'[i] = "ZOMBIE"}
          IN  /\ \A i \in killed : ppid[i] # 0 /\ task_estimated_pages(i) > 0
              /\ \A i, j \in killed : i = j]_kvars

=============================================================================
