------------------------------- MODULE Frames -------------------------------
(***************************************************************************)
(* Taking a received frame apart (src/kernel/net.c): Ethernet, IPv4 and    *)
(* UDP headers, whose length fields must agree with one another and with   *)
(* the bytes received, and the options of a DHCP packet, each with a       *)
(* length of its own.  And the checksum of IPv4 and ICMP.                  *)
(*                                                                         *)
(* What is in the headers besides lengths (addresses, ports, the           *)
(* transaction) is right in the frames described here; the modules Dhcp    *)
(* and Ping say which messages they carry.                                 *)
(***************************************************************************)
EXTENDS Integers, Sequences

ETH == 14                  \* bytes before the IPv4 header
BOOTP == 240               \* bytes of a DHCP packet before its options

\* Codes of options.
PAD == 0
ROUTER == 3
MSG_TYPE == 53
SERVER_ID == 54
END == 255

\* The bytes of options as servers lay them out, address bytes abstracted to
\* 1: the usual order, another order with padding, options of other codes and
\* no end, and an option whose length goes past the end of the packet.
TypeOption == <<MSG_TYPE, 1, 1>>
ServerOption == <<SERVER_ID, 4, 1, 1, 1, 1>>
RouterOption == <<ROUTER, 4, 1, 1, 1, 1>>
Layouts ==
    {TypeOption \o ServerOption \o RouterOption \o <<END>>,
     <<PAD, PAD>> \o RouterOption \o <<PAD>> \o ServerOption \o TypeOption \o <<END, PAD>>,
     <<12, 2, 7, 7>> \o TypeOption \o RouterOption \o ServerOption,
     ServerOption \o TypeOption \o <<ROUTER, 5, 1, 1, 1, 1>>}

\* A frame: bytes received, words of IPv4 header, the two length fields, and
\* the options.  The lengths fit a layout or are off by the given amounts.
Frame(opts, ihl, extra, total_off, udp_off) ==
    LET udp == 8 + BOOTP + Len(opts)
    IN  [length |-> ETH + 4 * ihl + udp + extra, ihl |-> 4 * ihl,
         total |-> 4 * ihl + udp + total_off, udp_len |-> udp + udp_off,
         options |-> opts]
Received ==
    {Frame(opts, ihl, extra, total_off, udp_off) :
        opts \in Layouts, ihl \in {4, 5, 6}, extra \in {-12, -1, 0, 6},
        total_off \in {-3, 0, 1}, udp_off \in {-260, -246, -9, -3, 0, 2}}

----------------------------------------------------------------------------
(* The parser.  Each step says what it accepts, and how many bytes of what  *)
(* it is given it has read.                                                 *)

\* Mutant: an option that ends behind the packet is used all the same.
OptionFits_not(i, opt_len, n) == TRUE

OptionFits(i, opt_len, n) == i + opt_len <= n

\* What lies behind the options is not theirs.
Byte(o, k) == IF k <= Len(o) THEN o[k] ELSE PAD

\* One pass of the loop of dhcp_parse_options over the first n bytes of o: the
\* bytes up to i have been read, and found are the options kept so far.
ParseOption(o, n, s) ==
    LET code == Byte(o, s.i + 1)
        opt_len == Byte(o, s.i + 2)
        known == \/ code = MSG_TYPE /\ opt_len = 1
                 \/ code = SERVER_ID /\ opt_len = 4
                 \/ code = ROUTER /\ opt_len >= 4
        Break(bytes) == [i |-> s.i + bytes, found |-> s.found, more |-> FALSE]
        Continue(bytes, kept) == [i |-> s.i + bytes, found |-> kept, more |-> TRUE]
    IN  IF ~s.more \/ s.i >= n THEN s
        ELSE IF code = END THEN Break(1)
        ELSE IF code = PAD THEN Continue(1, s.found)
        ELSE IF s.i + 1 >= n THEN Break(1)
        ELSE IF ~OptionFits(s.i + 2, opt_len, n) THEN Break(2)
        ELSE Continue(2 + opt_len, IF known THEN s.found \cup {code} ELSE s.found)

Nothing == {}

\* A pass reads a byte at least, so that n passes are all there can be.
dhcp_parse_options(o, n) ==
    LET Pass[k \in 0..n] == IF k = 0 THEN [i |-> 0, found |-> Nothing, more |-> TRUE]
                            ELSE ParseOption(o, n, Pass[k - 1])
    IN  Pass[n]

Dropped(bytes) == [found |-> Nothing, read |-> bytes]

\* dhcp_process_packet on n bytes that begin at byte "at" of the frame.
dhcp_process_packet(f, at, n) ==
    IF n < BOOTP THEN Dropped(at)
    ELSE LET p == dhcp_parse_options(f.options, n - BOOTP)
         IN  [found |-> p.found, read |-> at + BOOTP + p.i]

net_process_udp(f, ip_length) ==
    IF ip_length < f.ihl + 8 THEN Dropped(ETH + 20)
    ELSE IF f.udp_len < 8 \/ ip_length < f.ihl + f.udp_len THEN Dropped(ETH + f.ihl + 6)
    ELSE dhcp_process_packet(f, ETH + f.ihl + 8, f.udp_len - 8)

\* The header checksum covers the ihl bytes.
net_process_ipv4(f, length) ==
    IF length < 20 THEN Dropped(ETH)
    ELSE IF f.ihl < 20 \/ length < f.ihl THEN Dropped(ETH + 1)
    ELSE IF f.total < f.ihl \/ f.total > length THEN Dropped(ETH + 4)
    ELSE net_process_udp(f, f.total)

net_process_frame(f) ==
    IF f.length < ETH THEN Dropped(0) ELSE net_process_ipv4(f, f.length - ETH)

\* What the frames come to: the options found, and whether every byte that was
\* read is one that was received.
Outcomes ==
    {LET r == net_process_frame(f) IN [found |-> r.found, inside |-> r.read <= f.length] :
        f \in Received}

\* Everything a server sends was understood.
Whole == {MSG_TYPE, SERVER_ID, ROUTER}

----------------------------------------------------------------------------
(* checksum16 *)

\* One's complement of the sum of the words, carries added in again.
checksum16(words, mod) ==
    LET Sum[n \in 0..Len(words)] == IF n = 0 THEN 0 ELSE Sum[n - 1] + words[n]
        Fold[s \in 0..(mod * Len(words))] ==
            IF s < mod THEN s ELSE Fold[(s % mod) + (s \div mod)]
    IN  mod - 1 - Fold[Sum[Len(words)]]
=============================================================================
