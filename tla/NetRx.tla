------------------------------- MODULE NetRx -------------------------------
(***************************************************************************)
(* Receiving frames from the RTL8139 (src/kernel/net.c): the card writes   *)
(* frames behind one another into a ring and raises an interrupt;          *)
(* rtl_poll_rx takes them out.  It is called by the interrupt handler,     *)
(* which runs to its end once it has begun, and by the main thread with    *)
(* interrupts on (while it waits for a DHCP, ARP or ping answer), so that  *)
(* the handler may poll in the middle of a poll.                           *)
(*                                                                         *)
(* A frame is its length; what the layers above do with it is in the       *)
(* modules Dhcp, Arp and Ping.  Where no frame begins, a header is read    *)
(* out of the bytes of some frame and can say anything.                    *)
(***************************************************************************)
EXTENDS Integers, Sequences

CONSTANTS
    RingSize,        \* 8192, a multiple of the 4 bytes frames are aligned to
    Lengths,         \* the frame lengths the card stores
    MaxLength,       \* 1792: no header with a greater length is believed
    Budget           \* 64: a poll stops after taking more frames than this

ASSUME RxAssumption ==
    /\ RingSize \in Nat \ {0} /\ RingSize % 4 = 0 /\ Budget \in Nat
    /\ MaxLength \in Nat /\ Lengths \subseteq 4..MaxLength

VARIABLES
    write_offset,      \* where the card writes the next frame
    isr,               \* the card has something to report
    ring,              \* the length of the frame that begins at an offset, or 0
    g_rx_read_offset, capr,
    rx_pc, hold, processed,  \* for each of the two callers of rtl_poll_rx
    backlog,           \* where the frames begin that were not handed up yet
    rx_raced,          \* the handler took a frame while the main thread had one
    capped             \* the last poll stopped at its budget

card == <<write_offset, isr, ring>>
rxVars == <<write_offset, isr, ring, g_rx_read_offset, capr, rx_pc, hold, processed,
            backlog, rx_raced, capped>>

Callers == {"main", "irq"}
Offsets == {o \in 0..(RingSize - 1) : o % 4 = 0}

\* Header and frame of the given length, up to the next multiple of 4.
\* Mutant: the header is not counted.
Beyond_short(offset, length) == (((offset + length + 3) \div 4) * 4) % RingSize

Beyond(offset, length) == (((offset + length + 4 + 3) \div 4) * 4) % RingSize

RxTypeOK ==
    /\ write_offset \in Offsets /\ isr \in BOOLEAN
    /\ ring \in [Offsets -> {0} \cup Lengths]
    /\ g_rx_read_offset \in Offsets /\ capr \in Offsets
    /\ rx_pc \in [Callers -> {"off", "check", "header", "advance"}]
    /\ hold \in [Callers -> Offsets \X (0..MaxLength)]
    /\ processed \in [Callers -> 0..Budget + 1]
    /\ backlog \in Seq(Offsets) /\ rx_raced \in BOOLEAN /\ capped \in BOOLEAN

\* rtl_hw_init
RxInit ==
    /\ write_offset = 0 /\ isr = FALSE /\ ring = [o \in Offsets |-> 0]
    /\ g_rx_read_offset = 0 /\ capr = 0
    /\ rx_pc = [c \in Callers |-> "off"] /\ hold = [c \in Callers |-> <<0, 0>>]
    /\ processed = [c \in Callers |-> 0]
    /\ backlog = <<>> /\ rx_raced = FALSE /\ capped = FALSE

----------------------------------------------------------------------------
(* The card *)

\* The room a frame takes, its header included.
Stored(length) == ((length + 4 + 3) \div 4) * 4

\* The frame is stored if it fits behind the others; what began in the room
\* it takes is overwritten.
Receive(length) ==
    LET size == Stored(length)
        used == (write_offset - capr) % RingSize
        covered == {(write_offset + k) % RingSize : k \in 0..(size - 1)}
    IN  /\ used + size < RingSize
        /\ ring' = [o \in Offsets |-> IF o = write_offset THEN length
                                      ELSE IF o \in covered THEN 0 ELSE ring[o]]
        /\ write_offset' = (write_offset + size) % RingSize
        /\ isr' = TRUE
        /\ backlog' = IF rx_raced THEN <<>> ELSE Append(backlog, write_offset)
        /\ UNCHANGED <<g_rx_read_offset, capr, rx_pc, hold, processed, rx_raced, capped>>

----------------------------------------------------------------------------
(* The driver *)

\* The main thread moves only when no handler runs.
Runs(c) == c = "main" => rx_pc["irq"] = "off"

\* net_handle_irq acknowledges what the card reports, and then polls.
net_handle_irq ==
    /\ rx_pc["irq"] = "off" /\ isr
    /\ isr' = FALSE
    /\ rx_pc' = [rx_pc EXCEPT !["irq"] = "check"]
    /\ processed' = [processed EXCEPT !["irq"] = 0]
    /\ UNCHANGED <<write_offset, ring, g_rx_read_offset, capr, hold, backlog, rx_raced, capped>>

poll_begin ==
    /\ rx_pc["main"] = "off" /\ Runs("main")
    /\ rx_pc' = [rx_pc EXCEPT !["main"] = "check"]
    /\ processed' = [processed EXCEPT !["main"] = 0]
    /\ UNCHANGED <<card, g_rx_read_offset, capr, hold, backlog, rx_raced, capped>>

\* The card says whether its ring is empty (RTL_CR_BUFE).
poll_check(c) ==
    /\ rx_pc[c] = "check" /\ Runs(c)
    /\ rx_pc' = [rx_pc EXCEPT ![c] = IF write_offset = capr THEN "off" ELSE "header"]
    /\ capped' = (capped /\ write_offset # capr)
    /\ UNCHANGED <<card, g_rx_read_offset, capr, hold, processed, backlog, rx_raced>>

\* The lengths the header at the read offset may show.
HeaderLengths ==
    IF ring[g_rx_read_offset] # 0 THEN {ring[g_rx_read_offset]} ELSE {0} \cup Lengths

\* A header that cannot be right ends the poll and moves nothing.
poll_bad_header(c) ==
    /\ rx_pc[c] = "header" /\ Runs(c)
    /\ \E length \in HeaderLengths : length < 4 \/ length > MaxLength
    /\ rx_pc' = [rx_pc EXCEPT ![c] = "off"]
    /\ UNCHANGED <<card, g_rx_read_offset, capr, hold, processed, backlog, rx_raced, capped>>

\* The frame is handed up, or counted as dropped when its status says so.
poll_frame(c) ==
    /\ rx_pc[c] = "header" /\ Runs(c)
    /\ \E length \in HeaderLengths :
          /\ length >= 4 /\ length <= MaxLength
          /\ hold' = [hold EXCEPT ![c] = <<g_rx_read_offset, length>>]
    /\ rx_pc' = [rx_pc EXCEPT ![c] = "advance"]
    /\ rx_raced' = (rx_raced \/ (c = "irq" /\ rx_pc["main"] \in {"header", "advance"}))
    /\ backlog' = IF rx_raced' THEN <<>> ELSE Tail(backlog)
    /\ UNCHANGED <<card, g_rx_read_offset, capr, processed, capped>>

\* Mutant: a poll takes one frame and leaves the rest.
poll_advance_once(c) ==
    /\ rx_pc[c] = "advance" /\ Runs(c)
    /\ \E offset \in {hold[c][1], g_rx_read_offset} :
          g_rx_read_offset' = Beyond(offset, hold[c][2])
    /\ capr' = g_rx_read_offset'
    /\ processed' = [processed EXCEPT ![c] = @ + 1]
    /\ capped' = (processed'[c] > Budget)
    /\ rx_pc' = [rx_pc EXCEPT ![c] = "off"]
    /\ hold' = [hold EXCEPT ![c] = <<0, 0>>]
    /\ UNCHANGED <<card, backlog, rx_raced>>

\* The new offset is computed from the variable, or from the value it had when
\* the frame was looked at if the compiler kept that.
poll_advance(c) ==
    /\ rx_pc[c] = "advance" /\ Runs(c)
    /\ \E offset \in {hold[c][1], g_rx_read_offset} :
          g_rx_read_offset' = Beyond(offset, hold[c][2])
    /\ capr' = g_rx_read_offset'
    /\ processed' = [processed EXCEPT ![c] = @ + 1]
    /\ capped' = (processed'[c] > Budget)
    /\ rx_pc' = [rx_pc EXCEPT ![c] = IF processed'[c] > Budget THEN "off" ELSE "check"]
    /\ hold' = [hold EXCEPT ![c] = <<0, 0>>]
    /\ UNCHANGED <<card, backlog, rx_raced>>

rtl_poll_rx(c) == poll_check(c) \/ poll_bad_header(c) \/ poll_frame(c) \/ poll_advance(c)

RxNext ==
    \/ \E length \in Lengths : Receive(length)
    \/ net_handle_irq \/ poll_begin
    \/ \E c \in Callers : rtl_poll_rx(c)

RxSpec == RxInit /\ [][RxNext]_rxVars

----------------------------------------------------------------------------
(* Properties *)

\* Between frames the driver's offset is where the oldest frame that was not
\* handed up begins, or where the next one will: no frame is skipped, handed
\* up twice, or read from its middle, across the end of the ring and for any
\* mix of the two callers, as long as the handler did not take a frame while
\* the main thread was between a frame's header and its own new offset (rx_raced).
RxInSync ==
    ~rx_raced /\ (\A c \in Callers : rx_pc[c] \in {"off", "check"}) =>
        g_rx_read_offset = (IF backlog = <<>> THEN write_offset ELSE Head(backlog))

\* A frame in the ring has somebody coming for it: an interrupt not yet
\* answered or a poll under way.  Only a poll that stopped at its budget
\* leaves frames behind, until the next interrupt or poll.
NoFrameForgotten ==
    ~rx_raced /\ backlog # <<>> => isr \/ capped \/ \E c \in Callers : rx_pc[c] # "off"
=============================================================================
