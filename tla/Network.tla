------------------------------ MODULE Network ------------------------------
(***************************************************************************)
(* The life of the network in the boot thread: startup, which ends with an *)
(* address (module Dhcp), and then the commands ping of the shell (module  *)
(* Ping), while replies of the DHCP servers keep coming.                   *)
(***************************************************************************)
EXTENDS Dhcp, Ping

vars == <<dhcpVars, pingVars>>

Init == DhcpInit /\ PingInit

Startup == Exchange /\ UNCHANGED pingVars

Pinging ==
    /\ pc = "done" /\ UNCHANGED dhcpVars
    /\ net_ping \/ Command \/ PingTick \/ IcmpFrame

\* Every run the bound allows has been made.
Rest == pc = "done" /\ ping_pc = "idle" /\ run = MaxRuns /\ UNCHANGED vars

Next == Startup \/ Pinging \/ Rest

\* The processor executes the thread, and the timer ticks; the network owes
\* nothing.
Fairness ==
    /\ WF_vars(Thread /\ UNCHANGED pingVars) /\ WF_vars(StartupTick /\ UNCHANGED pingVars)
    /\ WF_vars(pc = "done" /\ Command /\ UNCHANGED dhcpVars)
    /\ WF_vars(pc = "done" /\ PingTick /\ UNCHANGED dhcpVars)

Spec == Init /\ [][Next]_vars /\ Fairness
=============================================================================
