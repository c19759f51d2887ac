------------------------------- MODULE NetTx -------------------------------
(***************************************************************************)
(* Sending frames with the RTL8139: rtl_send_raw_frame of                  *)
(* src/kernel/net.c.  A frame is copied into the buffer of the current     *)
(* descriptor, the descriptor is given to the card, its completion is      *)
(* waited for (not for ever), and the next descriptor becomes the current  *)
(* one.  The main thread does this with interrupts on; the interrupt       *)
(* handler does it too, to answer ARP requests, at one go.                 *)
(*                                                                         *)
(* The card (external) serves the descriptors in turn, and reads a         *)
(* frame's buffer when it sends it.  It is ready, and the frames the       *)
(* kernel builds (of 42, 66 and at most 590 bytes) fit a buffer, so that   *)
(* none is refused.                                                        *)
(***************************************************************************)
EXTENDS Integers, Sequences

CONSTANTS
    TxCount,         \* RTL_TX_DESC_COUNT
    Payloads         \* what frames are told apart by

Torn == "torn"            \* a buffer that does not hold one frame

ASSUME TxAssumption == TxCount \in Nat \ {0} /\ Torn \notin Payloads

Desc == 0..(TxCount - 1)

VARIABLES
    g_tx_index,
    buffer,          \* g_tx_buffer: the frame in each, Torn if it is not one
    tsad,            \* the buffer each descriptor refers to
    owned,           \* the descriptors given to the card and not sent yet
    tx_next,         \* the descriptor the card serves next
    send,            \* the main thread's call: how far it is, frame, slot, index
    queue,           \* history: the frames given to the card, not sent yet
    tx_raced,        \* history: the handler sent during a send of the main thread
    overrun          \* history: a descriptor was used that the card still had

txVars == <<g_tx_index, buffer, tsad, owned, tx_next, send, queue, tx_raced, overrun>>

NoSend == [at |-> "none"]

\* rtl_hw_init
TxInit ==
    /\ g_tx_index = 0 /\ buffer = [d \in Desc |-> Torn] /\ tsad = [d \in Desc |-> 0]
    /\ owned = {} /\ tx_next = 0 /\ send = NoSend /\ queue = <<>>
    /\ tx_raced = FALSE /\ overrun = FALSE

Succ(d) == (d + 1) % TxCount

\* From then on the order of the frames is not followed.
Excused == tx_raced \/ overrun

----------------------------------------------------------------------------
(* The card *)

Transmit ==
    /\ tx_next \in owned
    /\ owned' = owned \ {tx_next} /\ tx_next' = Succ(tx_next)
    /\ queue' = IF queue = <<>> THEN queue ELSE Tail(queue)
    /\ UNCHANGED <<g_tx_index, buffer, tsad, send, tx_raced, overrun>>

----------------------------------------------------------------------------
(* rtl_send_raw_frame *)

\* The main thread begins: the current buffer is cleared ...
SendBegin(frame) ==
    /\ send = NoSend
    /\ send' = [at |-> "copy", frame |-> frame, slot |-> g_tx_index]
    /\ buffer' = [buffer EXCEPT ![g_tx_index] = Torn]
    /\ overrun' = (overrun \/ g_tx_index \in owned)
    /\ UNCHANGED <<g_tx_index, tsad, owned, tx_next, tx_raced>>
    /\ queue' = IF Excused' THEN <<>> ELSE queue

\* ... and filled, on top of what the handler may have put there since.
SendCopy ==
    /\ send.at = "copy"
    /\ buffer' \in {[buffer EXCEPT ![send.slot] = f] :
                       f \in {send.frame} \cup (IF tx_raced THEN {Torn} ELSE {})}
    /\ send' = [send EXCEPT !.at = "start"]
    /\ UNCHANGED <<g_tx_index, tsad, owned, tx_next, queue, tx_raced, overrun>>

\* Descriptor d, with the frame of the given buffer, goes to the card.
Give(d, slot) ==
    /\ tsad' = [tsad EXCEPT ![d] = slot]
    /\ owned' = owned \cup {d}

\* The descriptor is the one whose buffer was filled, or the current one if the
\* compiler loads g_tx_index again.
SendStart ==
    /\ send.at = "start"
    /\ \E d \in {send.slot, g_tx_index} : Give(d, send.slot)
    /\ queue' = IF Excused THEN <<>> ELSE Append(queue, send.frame)
    /\ send' = [send EXCEPT !.at = "wait"]
    /\ UNCHANGED <<g_tx_index, buffer, tx_next, tx_raced, overrun>>

\* Mutant: the index is not moved on.
SendEnd_stays ==
    /\ send.at = "wait" /\ send' = NoSend
    /\ UNCHANGED <<g_tx_index, buffer, tsad, owned, tx_next, queue, tx_raced, overrun>>

\* The wait is over, with the frame sent or not.
SendEnd ==
    /\ send.at = "wait" /\ send' = NoSend
    /\ \E d \in {send.slot, g_tx_index} : g_tx_index' = Succ(d)
    /\ UNCHANGED <<buffer, tsad, owned, tx_next, queue, tx_raced, overrun>>

rtl_send_raw_frame == (\E f \in Payloads : SendBegin(f)) \/ SendCopy \/ SendStart \/ SendEnd

\* The handler's call.
SendAtOnce(frame) ==
    /\ buffer' = [buffer EXCEPT ![g_tx_index] = frame]
    /\ Give(g_tx_index, g_tx_index)
    /\ g_tx_index' = Succ(g_tx_index)
    /\ tx_raced' = (tx_raced \/ send # NoSend)
    /\ overrun' = (overrun \/ g_tx_index \in owned)
    /\ queue' = IF Excused' THEN <<>> ELSE Append(queue, frame)
    /\ UNCHANGED <<tx_next, send>>

TxNext == Transmit \/ rtl_send_raw_frame \/ \E f \in Payloads : SendAtOnce(f)

TxSpec == TxInit /\ [][TxNext]_txVars

----------------------------------------------------------------------------
(* Properties *)

\* The card sends what it was given, each frame once, whole and in the order of
\* the calls, and it waits at the descriptor the driver will use next.  Excepted
\* is what follows a send of the handler in the middle of one of the main thread
\* (tx_raced), and the use of a descriptor the card had not finished with when
\* the driver stopped waiting for it (overrun).
SentAsGiven ==
    ~Excused =>
        /\ queue = [k \in 1..Len(queue) |-> buffer[tsad[(tx_next + k - 1) % TxCount]]]
        /\ owned = {(tx_next + k - 1) % TxCount : k \in 1..Len(queue)}
        /\ (tx_next + Len(queue)) % TxCount
              = (IF send # NoSend /\ send.at = "wait" THEN Succ(g_tx_index) ELSE g_tx_index)
=============================================================================
