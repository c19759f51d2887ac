-------------------------------- MODULE Ping --------------------------------
(***************************************************************************)
(* The command ping: net_ping of src/kernel/net.c sends one echo request   *)
(* after the other and waits for each answer up to a deadline, while the   *)
(* network interrupt (or its own poll) hands echo replies to               *)
(* net_process_icmp at any moment.  Replies may be lost, late, doubled and *)
(* out of order.  Who sent a reply is left out, as the code does not look. *)
(*                                                                         *)
(* The next hop has been resolved (module Arp).  A run of the command uses *)
(* one identifier, taken from the clock: two runs within 65536 ticks of    *)
(* one another have different ones, and here the run's number is used.     *)
(***************************************************************************)
EXTENDS Frames, FiniteSets

CONSTANTS
    Count,        \* how many requests a run sends
    WordMod,      \* 2^16
    Deadline,     \* MGCORE_HZ: how long an answer is waited for
    MaxRuns       \* bound: how often the command is run

ASSUME PingAssumption ==
    /\ Count \in Nat \ {0} /\ WordMod \in Nat /\ WordMod > 8
    /\ WordMod > Count + 1 /\ WordMod > MaxRuns + 1
    /\ Deadline \in Nat \ {0} /\ MaxRuns \in Nat

VARIABLES
    ping_pc, run, seq, elapsed, received,
    ping_active, identifier, sequence, answered, by,   \* g_ping_wait, and by: the reply that set it
    replies,      \* the echo replies that may yet arrive
    reported      \* the lines "64 bytes from": request and the reply behind it

wait == <<ping_active, identifier, sequence, answered, by>>
pingVars == <<ping_pc, run, seq, elapsed, received, ping_active, identifier, sequence,
          answered, by, replies, reported>>

Reply == [run : 1..MaxRuns, seq : 1..Count]
Nobody == [run |-> 0, seq |-> 0]

PingTypeOK ==
    /\ ping_pc \in {"idle", "next", "active", "identifier", "sequence", "send", "wait", "hlt"}
    /\ run \in 0..MaxRuns /\ seq \in 0..Count /\ elapsed \in 0..Deadline
    /\ received \in 0..Count
    /\ ping_active \in BOOLEAN /\ identifier \in 0..MaxRuns /\ sequence \in 0..Count
    /\ answered \in BOOLEAN /\ by \in Reply \cup {Nobody}
    /\ replies \subseteq Reply
    /\ reported \subseteq [run : 1..MaxRuns, seq : 1..Count, reply : Reply \cup {Nobody}]

PingInit ==
    /\ ping_pc = "idle" /\ run = 0 /\ seq = 0 /\ elapsed = 0 /\ received = 0
    /\ ping_active = FALSE /\ identifier = 0 /\ sequence = 0 /\ answered = FALSE /\ by = Nobody
    /\ replies = {} /\ reported = {}

----------------------------------------------------------------------------
(* Replies *)

\* The words of an echo message: its type, the identifier, the sequence number
\* and the checksum over them.
EchoReply == 0
Echo(type, id, s) ==
    LET words == <<type, id, s>> IN Append(words, checksum16(words, WordMod))

\* What may come of a reply: itself, or with one word damaged on the way.
Arriving ==
    {[reply |-> r, words |-> [Echo(EchoReply, r.run, r.seq) EXCEPT ![k] = v]] :
        r \in Reply, k \in 1..4, v \in 0..(WordMod - 1)}

\* Mutant: the checksum is not looked at.
Passed_any == Arriving

\* What the checksum lets through.
Passed == {p \in Arriving : checksum16(p.words, WordMod) = 0}

Matches(w) == w[1] = EchoReply /\ ping_active /\ identifier = w[2] /\ sequence = w[3]

\* An echo reply arrives; it may arrive again, or never.
net_process_icmp(r) ==
    /\ r \in replies
    /\ \E p \in Passed :
          /\ p.reply = r
          /\ IF Matches(p.words) THEN answered' = TRUE /\ by' = r ELSE UNCHANGED <<answered, by>>
    /\ ping_pc' = IF ping_pc = "hlt" THEN "wait" ELSE ping_pc
    /\ UNCHANGED <<run, seq, elapsed, received, ping_active, identifier, sequence,
                   replies, reported>>

\* The network gives up on a reply.
Lose(r) ==
    /\ r \in replies /\ replies' = replies \ {r}
    /\ UNCHANGED <<ping_pc, run, seq, elapsed, received, wait, reported>>

\* Time beyond the deadline is not counted; the tick still ends a halt.
PingTick ==
    /\ ping_pc \notin {"idle", "next"} /\ (elapsed < Deadline \/ ping_pc = "hlt")
    /\ elapsed' = IF elapsed < Deadline THEN elapsed + 1 ELSE elapsed
    /\ ping_pc' = IF ping_pc = "hlt" THEN "wait" ELSE ping_pc
    /\ UNCHANGED <<run, seq, received, wait, replies, reported>>

----------------------------------------------------------------------------
(* net_ping *)

net_ping ==
    /\ ping_pc = "idle" /\ run < MaxRuns /\ ping_pc' = "next"
    /\ run' = run + 1 /\ seq' = 0 /\ received' = 0
    /\ UNCHANGED <<elapsed, wait, replies, reported>>

\* The next request: g_ping_wait is cleared and then filled in, field by field.
NextRequest ==
    /\ ping_pc = "next" /\ seq < Count /\ ping_pc' = "active"
    /\ seq' = seq + 1 /\ elapsed' = 0
    /\ ping_active' = FALSE /\ identifier' = 0 /\ sequence' = 0
    /\ answered' = FALSE /\ by' = Nobody
    /\ UNCHANGED <<run, received, replies, reported>>

SetActive ==
    /\ ping_pc = "active" /\ ping_pc' = "identifier" /\ ping_active' = TRUE
    /\ UNCHANGED <<run, seq, elapsed, received, identifier, sequence, answered,
                   by, replies, reported>>
SetIdentifier ==
    /\ ping_pc = "identifier" /\ ping_pc' = "sequence" /\ identifier' = run
    /\ UNCHANGED <<run, seq, elapsed, received, ping_active, sequence, answered, by,
                   replies, reported>>
SetSequence ==
    /\ ping_pc = "sequence" /\ ping_pc' = "send" /\ sequence' = seq
    /\ UNCHANGED <<run, seq, elapsed, received, ping_active, identifier, answered, by,
                   replies, reported>>

\* The request may be answered.
ip_send_icmp_echo(id, s) ==
    replies' \in {replies, replies \cup {[run |-> id, seq |-> s]}}

\* Sending fails only if the card is not ready, which net_ping has ruled out.
Send ==
    /\ ping_pc = "send" /\ ping_pc' = "wait"
    /\ ip_send_icmp_echo(run, seq)
    /\ UNCHANGED <<run, seq, elapsed, received, wait, reported>>

\* Within the deadline: the answer is reported, or the processor halts.
Report ==
    /\ ping_pc = "wait" /\ elapsed < Deadline /\ answered
    /\ received' = received + 1
    /\ reported' = reported \cup {[run |-> run, seq |-> seq, reply |-> by]}
    /\ ping_pc' = "next" /\ ping_active' = FALSE
    /\ UNCHANGED <<run, seq, elapsed, identifier, sequence, answered, by, replies>>
Halt ==
    /\ ping_pc = "wait" /\ elapsed < Deadline /\ ~answered /\ ping_pc' = "hlt"
    /\ UNCHANGED <<run, seq, elapsed, received, wait, replies, reported>>

\* Mutant: the deadline is never looked at.
TimedOut_never ==
    /\ ping_pc = "wait" /\ elapsed >= Deadline /\ ping_pc' = "hlt"
    /\ UNCHANGED <<run, seq, elapsed, received, wait, replies, reported>>

\* The deadline has passed, whatever has come in since the last look.
TimedOut ==
    /\ ping_pc = "wait" /\ elapsed >= Deadline
    /\ ping_pc' = "next" /\ ping_active' = FALSE
    /\ UNCHANGED <<run, seq, elapsed, received, identifier, sequence, answered,
                   by, replies, reported>>

\* The statistics are printed.
Finish ==
    /\ ping_pc = "next" /\ seq = Count /\ ping_pc' = "idle"
    /\ UNCHANGED <<run, seq, elapsed, received, wait, replies, reported>>

Command ==
    \/ NextRequest \/ SetActive \/ SetIdentifier \/ SetSequence
    \/ Send \/ Report \/ Halt \/ TimedOut \/ Finish

IcmpFrame == \E r \in replies : net_process_icmp(r) \/ Lose(r)

----------------------------------------------------------------------------
(* Properties *)

\* Each "64 bytes from" line rests on a reply to that very request: a late or
\* doubled reply to an earlier request or an earlier run, or one with a damaged
\* word, is never taken for it, not even while g_ping_wait is half filled in.
\* The statistics count these lines, one for a request at most.
GenuineReply ==
    /\ \A l \in reported : l.reply = [run |-> l.run, seq |-> l.seq]
    /\ received = Cardinality({l \in reported : l.run = run})

\* The command comes back to the prompt, answered or not.
PingEnds == (ping_pc = "next") ~> (ping_pc = "idle")
=============================================================================
