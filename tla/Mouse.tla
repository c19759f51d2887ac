------------------------------- MODULE Mouse -------------------------------
(***************************************************************************)
(* The PS/2 mouse driver (drivers/mouse.c).  mouse_init sends the mouse a  *)
(* series of commands and reads the answers by polling, each with a        *)
(* timeout; a read that times out goes on with 0, and the answer it was    *)
(* for is taken by a later read.  From then on each interrupt takes one    *)
(* byte, and g_packet_size bytes make a packet, whose last byte is the     *)
(* turn of the wheel.                                                      *)
(*                                                                         *)
(* The mouse (external) answers its commands in order, and then sends      *)
(* packets of 4 bytes if it has a wheel and of 3 if not.  Of a byte the    *)
(* driver looks at bit 3, which is set in the first byte of a packet, and  *)
(* at its value as a turn; elsewhere both can be anything.                 *)
(***************************************************************************)
EXTENDS Integers

CONSTANTS
    Turns,           \* how far the wheel can be turned at once, either way
    LinesPerTurn,    \* 3
    MaxLate          \* bound on the reads that time out

ASSUME MouseAssumption ==
    Turns \subseteq Nat /\ 0 \in Turns /\ LinesPerTurn \in Nat /\ MaxLate \in Nat

VARIABLES
    wheel,           \* whether the mouse has one
    sent, answered,  \* commands sent, answers given
    reads, timeouts, \* answers waited for, in vain
    taken,           \* answers read, by mouse_init or by the handler
    g_mouse_ready, g_packet_size, g_packet_index,
    first,           \* bit 3 of g_packet[0]
    position         \* the byte of its packet the mouse sends next

dialogue == <<wheel, sent, answered, reads, timeouts>>
packet == <<g_packet_index, first, position>>
mouseVars == <<dialogue, taken, g_mouse_ready, g_packet_size, packet>>

\* The commands of mouse_init that are answered: the controller's status byte,
\* the defaults, three sample rates (two commands each), the device id, which
\* follows its acknowledgement, and the start of reporting.
Commands == 10
Ack == "ack"
Id == "id"
Answer(k) == IF k = 10 THEN Id ELSE Ack
Answers == 11

\* The answers to the first c commands.
AnswersTo(c) == IF c >= 9 THEN c + 1 ELSE c

Reported == IF wheel THEN 4 ELSE 3

MouseTypeOK ==
    /\ wheel \in BOOLEAN /\ g_mouse_ready \in BOOLEAN /\ first \in BOOLEAN
    /\ sent \in 0..Commands /\ answered \in 0..Answers
    /\ reads \in 0..Answers /\ taken \in 0..Answers /\ timeouts \in 0..MaxLate
    /\ g_packet_size \in {3, 4} /\ g_packet_index \in 0..3 /\ position \in 0..3

MouseInit ==
    /\ wheel \in BOOLEAN
    /\ sent = 0 /\ answered = 0 /\ reads = 0 /\ timeouts = 0 /\ taken = 0
    /\ g_mouse_ready = FALSE /\ g_packet_size = 4 /\ g_packet_index = 0
    /\ first = FALSE /\ position = 0

----------------------------------------------------------------------------
(* mouse_init, with interrupts off *)

\* The mouse answers the next command it was sent.
Answers_next ==
    /\ answered < AnswersTo(sent)
    /\ answered' = answered + 1
    /\ UNCHANGED <<wheel, sent, reads, timeouts, taken, g_mouse_ready, g_packet_size, packet>>

mouse_write ==
    /\ ~g_mouse_ready /\ sent < Commands /\ reads = AnswersTo(sent)
    /\ sent' = sent + 1
    /\ UNCHANGED <<wheel, answered, reads, timeouts, taken, g_mouse_ready, g_packet_size,
                   packet>>

\* The tenth read is the one whose result is taken for the device id.
SizeFrom(got) == IF reads + 1 = 10
                 THEN IF got = Id /\ wheel THEN 4 ELSE 3
                 ELSE g_packet_size

\* ps2_read_data gets the oldest answer that was not read yet ...
ps2_read_data ==
    /\ reads < AnswersTo(sent) /\ taken < answered
    /\ reads' = reads + 1 /\ taken' = taken + 1
    /\ g_packet_size' = SizeFrom(Answer(taken + 1))
    /\ UNCHANGED <<wheel, sent, answered, timeouts, g_mouse_ready, packet>>

\* ... or gives up.
ps2_read_timeout ==
    /\ reads < AnswersTo(sent) /\ taken = answered /\ timeouts < MaxLate
    /\ reads' = reads + 1 /\ timeouts' = timeouts + 1
    /\ g_packet_size' = SizeFrom("nothing")
    /\ UNCHANGED <<wheel, sent, answered, taken, g_mouse_ready, packet>>

mouse_ready ==
    /\ ~g_mouse_ready /\ sent = Commands /\ reads = Answers
    /\ g_mouse_ready' = TRUE
    /\ UNCHANGED <<dialogue, taken, g_packet_size, packet>>

MouseBoot == Answers_next \/ mouse_write \/ ps2_read_data \/ ps2_read_timeout \/ mouse_ready

----------------------------------------------------------------------------
(* mouse_handle_irq: a byte with bit 3 equal to mark *)

\* What the mouse has to send: an answer nobody read, or its next packet byte.
NextByte(mark) ==
    IF taken < Answers
    THEN /\ taken < answered /\ taken' = taken + 1
         /\ mark = (Answer(taken + 1) = Ack)             \* 0xFA has bit 3 set
         /\ UNCHANGED position
    ELSE /\ position = 0 => mark
         /\ position' = (position + 1) % Reported
         /\ UNCHANGED taken

\* Mutant: a packet whose first byte is wrong keeps its place in the buffer.
Assemble_stuck(mark) ==
    /\ first' = (IF g_packet_index = 0 THEN mark ELSE first)
    /\ g_packet_index' = IF g_packet_index + 1 < g_packet_size \/ ~first'
                         THEN (g_packet_index + 1) % 4 ELSE 0

\* The byte goes into the buffer; a full buffer is empty for the next packet.
Assemble(mark) ==
    /\ first' = (IF g_packet_index = 0 THEN mark ELSE first)
    /\ g_packet_index' = IF g_packet_index + 1 < g_packet_size THEN g_packet_index + 1 ELSE 0

\* The lines the view scrolls by: those of a complete packet with a right
\* first byte, if packets have a wheel byte.
ScrollBy(turn) ==
    IF g_packet_index + 1 = g_packet_size /\ first /\ g_packet_size = 4
    THEN turn * LinesPerTurn ELSE 0

mouse_handle_irq(mark) ==
    /\ g_mouse_ready
    /\ NextByte(mark) /\ Assemble(mark)
    /\ UNCHANGED <<dialogue, g_mouse_ready, g_packet_size>>

----------------------------------------------------------------------------
(* Properties *)

\* The handler is ahead of the mouse, in the packet, by exactly the late answers
\* it took for packet bytes, for ever: a single timeout of mouse_init puts the
\* two out of step, and the test of bit 3 does not bring them together again.
\* Without a timeout they are in step and agree on the size of packets, so
\* that what is taken for a turn of the wheel is one.
MouseInStep ==
    g_mouse_ready =>
        /\ timeouts = 0 => g_packet_size = Reported
        /\ g_packet_size = Reported
              => g_packet_index = (position + taken + timeouts - Answers) % Reported
=============================================================================
