-------------------------------- MODULE Arp --------------------------------
(***************************************************************************)
(* The ARP cache of src/kernel/net.c and the wait for an address to be     *)
(* resolved.  The main thread asks (net_resolve_arp), polls the card, and  *)
(* learns from the ARP frames it finds; the network interrupt learns from  *)
(* the frames it finds, at any moment, and runs to its end once begun.     *)
(*                                                                         *)
(* Host h has the address h and the hardware address <<h, h>>: two parts,  *)
(* because kmemcpy copies it byte by byte.  Time is counted from the start *)
(* of the resolution under way.                                            *)
(***************************************************************************)
EXTENDS Integers

CONSTANTS
    Hosts,       \* the hosts whose ARP frames are heard
    MaxCache,    \* NET_MAX_ARP_CACHE
    Timeout,     \* timeout_ticks
    ProbeGap     \* MGCORE_HZ / 2

Nobody == "nobody"     \* 0, the address in an entry that was never used

ASSUME ArpAssumption ==
    /\ Hosts # {} /\ Nobody \notin Hosts /\ MaxCache \in Nat \ {0}
    /\ Timeout \in Nat \ {0} /\ ProbeGap \in Nat \ {0}

VARIABLES
    valid, ip, mac,    \* g_arp_cache, by slot
    pc,                \* where the main thread is
    target,            \* the address it resolves
    sender,            \* the host whose frame it is learning from
    i, free_slot,      \* the scan it is in
    slot,              \* the entry it has chosen
    got, result,       \* out_mac, and what net_resolve_arp returned
    now, next_probe, probes,
    raced              \* the interrupt added a host while the main thread had an
                       \* entry in hand

cache == <<valid, ip, mac>>
time == <<now, next_probe, probes>>
arpVars == <<valid, ip, mac, pc, target, sender, i, free_slot, slot, got, result,
          now, next_probe, probes, raced>>

Slots == 0..(MaxCache - 1)
Address == Hosts \cup {Nobody}

ArpTypeOK ==
    /\ valid \in [Slots -> BOOLEAN] /\ ip \in [Slots -> Address]
    /\ mac \in [Slots -> Address \X Address]
    /\ pc \in {"idle", "first lookup", "loop", "poll", "scan", "valid", "ip", "mac1",
               "mac2", "lookup", "copy1", "copy2", "wait"}
    /\ target \in Address /\ sender \in Address
    /\ i \in 0..MaxCache /\ free_slot \in 0..MaxCache /\ slot \in Slots
    /\ got \in Address \X Address /\ result \in {"none", "found", "failed"}
    /\ now \in 0..Timeout /\ next_probe \in 0..(Timeout + ProbeGap)
    /\ probes \in 0..Timeout /\ raced \in BOOLEAN

ArpInit ==
    /\ valid = [s \in Slots |-> FALSE] /\ ip = [s \in Slots |-> Nobody]
    /\ mac = [s \in Slots |-> <<Nobody, Nobody>>]
    /\ pc = "idle" /\ target = Nobody /\ sender = Nobody
    /\ i = 0 /\ free_slot = MaxCache /\ slot = 0
    /\ got = <<Nobody, Nobody>> /\ result = "none"
    /\ now = 0 /\ next_probe = 0 /\ probes = 0 /\ raced = FALSE

Holds(s, h) == valid[s] /\ ip[s] = h

----------------------------------------------------------------------------
(* The interrupt: arp_cache_update at one go *)

\* The entry the update writes: the host's own, the first free one, the first.
EntryFor(h) ==
    LET least(S) == CHOOSE s \in S : \A t \in S : s <= t
        own == {s \in Slots : Holds(s, h)}
        free == {s \in Slots : ~valid[s]}
    IN  IF own # {} THEN least(own) ELSE IF free # {} THEN least(free) ELSE 0

\* Adding h to entry s comes between the main thread's choice of an entry and
\* its last access to it.
Disturbs(s, h) ==
    /\ ~Holds(s, h)
    /\ \/ pc \in {"valid", "ip", "mac1", "mac2", "copy1", "copy2"}
       \/ pc = "scan" /\ s = free_slot /\ h # sender

Irq(h) ==
    LET s == EntryFor(h)
    IN  /\ valid' = [valid EXCEPT ![s] = TRUE]
        /\ ip' = [ip EXCEPT ![s] = h]
        /\ mac' = [mac EXCEPT ![s] = <<h, h>>]
        /\ raced' = (raced \/ Disturbs(s, h))
        /\ pc' = IF pc = "wait" THEN "loop" ELSE pc
        /\ UNCHANGED <<target, sender, i, free_slot, slot, got, result, time>>

\* Time that has run out is not counted further; the tick still ends a halt.
Tick ==
    /\ pc # "idle" /\ (now < Timeout \/ pc = "wait")
    /\ now' = IF now < Timeout THEN now + 1 ELSE now
    /\ pc' = IF pc = "wait" THEN "loop" ELSE pc
    /\ UNCHANGED <<cache, target, sender, i, free_slot, slot, got, result, next_probe,
                   probes, raced>>

----------------------------------------------------------------------------
(* The main thread *)

At(here, next) == pc = here /\ pc' = next

net_resolve_arp(h) ==
    /\ At("idle", "first lookup")
    /\ target' = h /\ i' = 0 /\ result' = "none" /\ got' = <<Nobody, Nobody>>
    /\ now' = 0 /\ next_probe' = 0 /\ probes' = 0
    /\ UNCHANGED <<cache, sender, free_slot, slot, raced>>

\* arp_cache_lookup looks at one entry after the other.
Lookup(here, missing) ==
    /\ pc = here
    /\ \/ i < MaxCache /\ Holds(i, target) /\ slot' = i /\ pc' = "copy1" /\ UNCHANGED i
       \/ i < MaxCache /\ ~Holds(i, target) /\ i' = i + 1 /\ UNCHANGED <<slot, pc>>
       \/ i = MaxCache /\ pc' = missing /\ i' = 0 /\ UNCHANGED slot
    /\ UNCHANGED <<cache, target, sender, free_slot, got, result, time, raced>>

Copy1 ==
    /\ At("copy1", "copy2") /\ got' = <<mac[slot][1], got[2]>>
    /\ UNCHANGED <<cache, target, sender, i, free_slot, slot, result, time, raced>>
Copy2 ==
    /\ At("copy2", "idle") /\ got' = <<got[1], mac[slot][2]>> /\ result' = "found"
    /\ i' = 0 /\ slot' = 0
    /\ UNCHANGED <<cache, target, sender, free_slot, time, raced>>

arp_send_request == probes' = probes + 1

\* Mutant: the time of the next request is not moved on.
Ask_always ==
    IF now >= next_probe
    THEN arp_send_request /\ UNCHANGED next_probe
    ELSE UNCHANGED <<probes, next_probe>>

Ask ==
    IF now >= next_probe
    THEN arp_send_request /\ next_probe' = now + ProbeGap
    ELSE UNCHANGED <<probes, next_probe>>

\* Mutant: the deadline is never looked at.
Loop_forever ==
    /\ At("loop", "poll") /\ Ask
    /\ UNCHANGED <<cache, target, sender, i, free_slot, slot, got, result, now, raced>>

\* The head of the loop: the deadline, then a request if one is due.
Loop ==
    /\ \/ now < Timeout /\ At("loop", "poll") /\ Ask /\ UNCHANGED result
       \/ now >= Timeout /\ At("loop", "idle") /\ result' = "failed"
          /\ UNCHANGED <<probes, next_probe>>
    /\ UNCHANGED <<cache, target, sender, i, free_slot, slot, got, now, raced>>

\* rtl_poll_rx comes upon an ARP frame of h, or is through.
PollFrame(h) ==
    /\ At("poll", "scan") /\ sender' = h /\ i' = 0 /\ free_slot' = MaxCache
    /\ UNCHANGED <<cache, target, slot, got, result, time, raced>>
PollDone ==
    /\ At("poll", "lookup") /\ i' = 0
    /\ UNCHANGED <<cache, target, sender, free_slot, slot, got, result, time, raced>>

\* arp_cache_update: the scan ...
Scan ==
    /\ pc = "scan"
    /\ \/ i < MaxCache /\ Holds(i, sender) /\ pc' = "mac1" /\ slot' = i
          /\ UNCHANGED <<i, free_slot>>
       \/ /\ i < MaxCache /\ ~Holds(i, sender) /\ i' = i + 1
          /\ free_slot' = IF ~valid[i] /\ free_slot = MaxCache THEN i ELSE free_slot
          /\ UNCHANGED <<pc, slot>>
       \/ i = MaxCache /\ pc' = "valid" /\ slot' = (IF free_slot = MaxCache THEN 0 ELSE free_slot)
          /\ UNCHANGED <<i, free_slot>>
    /\ UNCHANGED <<cache, target, sender, got, result, time, raced>>

\* ... and the entry, in the order it is written.
SetValid ==
    /\ At("valid", "ip") /\ valid' = [valid EXCEPT ![slot] = TRUE]
    /\ UNCHANGED <<ip, mac, target, sender, i, free_slot, slot, got, result, time, raced>>
SetIp ==
    /\ At("ip", "mac1") /\ ip' = [ip EXCEPT ![slot] = sender]
    /\ UNCHANGED <<valid, mac, target, sender, i, free_slot, slot, got, result, time, raced>>
SetMac1 ==
    /\ At("mac1", "mac2") /\ mac' = [mac EXCEPT ![slot][1] = sender]
    /\ UNCHANGED <<valid, ip, target, sender, i, free_slot, slot, got, result, time, raced>>

\* Mutant: the copy stops short.
SetMac2_short ==
    /\ At("mac2", "poll") /\ sender' = Nobody /\ i' = 0 /\ free_slot' = MaxCache /\ slot' = 0
    /\ UNCHANGED <<cache, target, got, result, time, raced>>

SetMac2 ==
    /\ At("mac2", "poll") /\ mac' = [mac EXCEPT ![slot][2] = sender]
    /\ sender' = Nobody /\ i' = 0 /\ free_slot' = MaxCache /\ slot' = 0
    /\ UNCHANGED <<valid, ip, target, got, result, time, raced>>

Main ==
    \/ Lookup("first lookup", "loop") \/ Lookup("lookup", "wait")
    \/ Copy1 \/ Copy2 \/ Loop \/ PollDone
    \/ Scan \/ SetValid \/ SetIp \/ SetMac1 \/ SetMac2

ArpNext ==
    \/ \E h \in Hosts : net_resolve_arp(h) \/ PollFrame(h) \/ Irq(h)
    \/ Tick \/ Main

\* The main thread is executed, a poll does not find frames for ever (it has a
\* budget), and the timer ticks.
Fairness == WF_arpVars(Main) /\ SF_arpVars(PollDone) /\ WF_arpVars(Tick)

ArpSpec == ArpInit /\ [][ArpNext]_arpVars /\ Fairness

----------------------------------------------------------------------------
(* Properties *)

\* No address has two entries, and every entry gives the hardware address of
\* the host that has its address, as does a successful resolution, even when
\* both callers learn of the same host at once: each looks for the address
\* before it adds it, and what the other adds during the search is found or goes
\* to the entry about to be taken.  Only a host added while an entry is being
\* filled in escapes this (raced).
CacheTrue ==
    ~raced =>
        /\ \A s, t \in Slots : \A h \in Hosts : Holds(s, h) /\ Holds(t, h) => s = t
        /\ \A s \in Slots : \A h \in Hosts :
              Holds(s, h) /\ ~(s = slot /\ pc \in {"mac1", "mac2"}) => mac[s] = <<h, h>>
        /\ result = "found" => got = <<target, target>>

\* However often the main thread is woken while it waits, it sends at most one
\* request in ProbeGap ticks.
ProbesSpaced == probes <= now \div ProbeGap + 1

\* A resolution ends, answered or not.
ResolveEnds == (pc = "first lookup") ~> (result # "none")
=============================================================================
