--------------------------- MODULE NetworkProofs ---------------------------
(***************************************************************************)
(* Proofs about startup and ping: for every frame, every set of servers,   *)
(* every number of requests and runs, every timeout and every word size.   *)
(***************************************************************************)
EXTENDS Network, FiniteSetTheorems, WellFoundedInduction, TLAPS

----------------------------------------------------------------------------
(* The inductive invariant *)

DhcpTyped ==
    /\ half \in Message \cup {NoMessage}
    /\ {active, got_offer, got_ack, connected, overread} \subseteq BOOLEAN
    /\ net \subseteq Message
    /\ heard \subseteq Servers \cup {Garbled} /\ IsFiniteSet(heard)

\* The replies handled, if any, came from one server and were whole.
Alone == \A x, y \in heard : x = y

Ack(s) == [type |-> "ACK", server |-> s]

\* Where the thread is tells what it may rely on.
Staged ==
    /\ connected <=> pc = "done"
    /\ half # NoMessage => pc = "half"
    /\ pc \in {"start", "fallback", "done"} => ~active
    /\ pc \in {"install", "finish"} => got_ack

\* What g_dhcp holds comes from the one server.
FromOne ==
    /\ Garbled \notin heard
    /\ {offered_ip, router} \subseteq heard \cup {zero}
    /\ half # NoMessage => /\ half \in net /\ half.server \in heard
                           /\ half.type # "NAK" => router = half.server
    /\ got_offer \/ got_ack => offered_ip \in heard /\ router \in heard
    /\ got_ack => \A s \in heard : Ack(s) \in net
    /\ pc = "finish" => ip \in heard

Leased == connected => ip = "default" \/ (ip = gw /\ Ack(ip) \in net)

DhcpInv ==
    /\ DhcpTyped /\ Staged /\ ~overread
    /\ Alone => Leased /\ (~connected => FromOne)

Asking == {"active", "identifier", "sequence", "send", "wait", "hlt"}

PingTyped ==
    /\ ping_pc \in Asking \cup {"idle", "next"}
    /\ run \in 0..MaxRuns /\ seq \in 0..Count /\ received \in Nat
    /\ ping_active \in BOOLEAN /\ answered \in BOOLEAN
    /\ replies \subseteq Reply /\ IsFiniteSet(reported)

\* How far g_ping_wait is filled in, and whose reply it has.
Filled ==
    /\ ping_pc \in {"idle", "next", "active"} => ~ping_active
    /\ ping_pc \in {"active", "identifier", "sequence"} => ~answered /\ sequence = 0
    /\ ping_pc \in {"active", "identifier"} => identifier = 0
    /\ ping_pc \in {"sequence", "send", "wait", "hlt"} => identifier = run
    /\ ping_pc \in {"send", "wait", "hlt"} =>
          /\ sequence = seq
          /\ answered => by = [run |-> run, seq |-> seq]
    /\ ping_pc # "idle" => run > 0
    /\ ping_pc \in Asking => seq > 0

\* The lines reported are of earlier requests.
Earlier ==
    \A l \in reported : /\ l.run \in 1..run /\ l.seq \in Nat
                        /\ l.run = run => l.seq <= seq /\ (ping_pc \in Asking => l.seq # seq)

PingInv == PingTyped /\ Filled /\ Earlier /\ GenuineReply

NetInv == DhcpInv /\ PingInv

----------------------------------------------------------------------------
(* Recursive functions *)

\* A set of natural numbers that is not empty has a least element.
LEMMA Least ==
    ASSUME NEW T, T \subseteq Nat, T # {}
    PROVE  \E s \in T : \A t \in T : s <= t
<1> DEFINE R == OpToRel(<, Nat)
<1>1. IsWellFoundedOn(R, Nat)
    BY NatLessThanWellFounded, Zenon
<1>2. \A s, t \in Nat : t < s => <<t, s>> \in R
    BY DEF OpToRel
<1> HIDE DEF R
<1>3. PICK s \in T : \A t \in T : ~(<<t, s>> \in R)
    BY <1>1, WFMin, Zenon
<1>4. \A t \in T : ~(t < s)
    BY <1>2, <1>3, Zenon
<1> QED
    BY <1>4

\* c starts from a and takes the step g[i] for every i up to n.
Steps(A, a, n, g, c) ==
    c \in [0..n -> A] /\ c = [i \in 0..n |-> IF i = 0 THEN a ELSE g[i][c[i - 1]]]

\* What is defined from its value one step before exists.
LEMMA Recursion ==
    ASSUME NEW A, NEW a \in A, NEW n \in Nat, NEW g \in [1..n -> [A -> A]]
    PROVE  \E c : Steps(A, a, n, g, c)
<1> DEFINE P(m, c) == /\ c \in [0..m -> A] /\ c[0] = a
                      /\ \A i \in 1..m : c[i] = g[i][c[i - 1]]
           T == {m \in Nat : m <= n /\ ~\E c : P(m, c)}
<1>1. ASSUME T # {} PROVE FALSE
  <2>1. PICK m \in T : \A t \in T : m <= t
    BY <1>1, Least, Zenon
  <2>2. m # 0
    <3> DEFINE c == [i \in 0..0 |-> a]
    <3>1. P(0, c)
      OBVIOUS
    <3> QED
      BY <3>1, Zenon
  <2>3. m - 1 \in Nat /\ m - 1 <= n /\ ~(m <= m - 1) /\ m \in 1..n /\ m \in Nat
    BY <2>2
  <2>4. m - 1 \notin T
    BY <2>1, <2>3, Zenon
  <2>5. PICK c : P(m - 1, c)
    BY <2>3, <2>4, Zenon
  <2> DEFINE e == [i \in 0..m |-> IF i = m THEN g[m][c[m - 1]] ELSE c[i]]
  <2>6. \A i \in 0..m : i # m => i \in 0..(m - 1)
    BY <2>3
  <2>7. m - 1 \in 0..(m - 1) /\ g[m] \in [A -> A] /\ c \in [0..(m - 1) -> A]
    BY <2>3, <2>5
  <2>8. e \in [0..m -> A]
    BY <2>6, <2>7
  <2>9. e[0] = a
    <3>1. 0 \in 0..m /\ 0 # m /\ c[0] = a
      BY <2>2, <2>3, <2>5
    <3> QED
      BY <3>1
  <2>10. ASSUME NEW i \in 1..m PROVE e[i] = g[i][e[i - 1]]
    <3>1. i - 1 \in 0..m /\ i - 1 # m /\ i \in 0..m /\ (i # m => i \in 1..(m - 1))
      BY <2>3
    <3>2. e[i - 1] = c[i - 1]
      BY <3>1
    <3>3. CASE i = m
      BY <3>1, <3>2, <3>3
    <3>4. CASE i # m
      BY <2>5, <3>1, <3>2, <3>4
    <3> QED
      BY <3>3, <3>4
  <2> HIDE DEF e
  <2>11. P(m, e)
    BY <2>8, <2>9, <2>10, Zenon
  <2> HIDE DEF P
  <2> QED
    BY <2>11
<1>2. n \notin T
    BY <1>1, Zenon
<1> HIDE DEF P
<1>3. PICK c : P(n, c)
    BY <1>2
<1>4. \A i \in 0..n : i # 0 => i \in 1..n
    OBVIOUS
<1>5. c \in [0..n -> A] /\ c[0] = a /\ \A i \in 1..n : c[i] = g[i][c[i - 1]]
    BY <1>3 DEF P
<1>6. c = [i \in 0..n |-> IF i = 0 THEN a ELSE g[i][c[i - 1]]]
    BY <1>4, <1>5
<1> QED
    BY <1>5, <1>6 DEF Steps

----------------------------------------------------------------------------
(* Frames *)

\* The state of the option parser.
ParseState == [i : Nat, found : SUBSET Nat, more : BOOLEAN]

LEMMA ByteNat ==
    ASSUME NEW o \in Seq(Nat), NEW k \in Nat \ {0}
    PROVE  Byte(o, k) \in Nat
BY DEF Byte, PAD

\* A pass stays within the n bytes and reads one, unless there is nothing to do.
LEMMA PassIs ==
    ASSUME NEW o \in Seq(Nat), NEW n \in Nat, NEW s \in ParseState,
           NEW r, r = ParseOption(o, n, s)
    PROVE  /\ r \in ParseState
           /\ s.i <= n => r.i <= n
           /\ (r.more /\ r.i < n) => s.more /\ s.i < n /\ s.i < r.i
<1> DEFINE code == Byte(o, s.i + 1)
           opt_len == Byte(o, s.i + 2)
           kept == IF \/ code = MSG_TYPE /\ opt_len = 1
                      \/ code = SERVER_ID /\ opt_len = 4
                      \/ code = ROUTER /\ opt_len >= 4
                   THEN s.found \cup {code} ELSE s.found
<1>1. s.i \in Nat /\ s.found \subseteq Nat /\ s.more \in BOOLEAN
    BY DEF ParseState
<1>2. code \in Nat /\ opt_len \in Nat
    BY <1>1, ByteNat
<1>3. kept \in SUBSET Nat
    BY <1>1, <1>2
<1>4. r = IF ~s.more \/ s.i >= n THEN s
          ELSE IF code = END THEN [i |-> s.i + 1, found |-> s.found, more |-> FALSE]
          ELSE IF code = PAD THEN [i |-> s.i + 1, found |-> s.found, more |-> TRUE]
          ELSE IF s.i + 1 >= n THEN [i |-> s.i + 1, found |-> s.found, more |-> FALSE]
          ELSE IF ~(s.i + 2 + opt_len <= n)
               THEN [i |-> s.i + 2, found |-> s.found, more |-> FALSE]
          ELSE [i |-> s.i + (2 + opt_len), found |-> kept, more |-> TRUE]
    BY DEF ParseOption, OptionFits
<1> HIDE DEF code, opt_len, kept
<1>5. CASE ~s.more \/ s.i >= n
    BY <1>1, <1>4, <1>5
<1>6. CASE s.more /\ s.i < n
  <2>1. PICK x \in Nat, f \in SUBSET Nat, b \in BOOLEAN :
            r = [i |-> x, found |-> f, more |-> b] /\ x <= n /\ s.i < x
    <3>1. CASE code = END
      <4>1. /\ r = [i |-> s.i + 1, found |-> s.found, more |-> FALSE]
            /\ s.i + 1 \in Nat /\ s.i + 1 <= n /\ s.i < s.i + 1
        BY <1>1, <1>4, <1>6, <3>1
      <4>2. s.found \in SUBSET Nat /\ FALSE \in BOOLEAN
        BY <1>1
      <4> QED
        BY <4>1, <4>2, Zenon
    <3>2. CASE code # END /\ code = PAD
      <4>1. /\ r = [i |-> s.i + 1, found |-> s.found, more |-> TRUE]
            /\ s.i + 1 \in Nat /\ s.i + 1 <= n /\ s.i < s.i + 1
        BY <1>1, <1>4, <1>6, <3>2
      <4>2. s.found \in SUBSET Nat /\ TRUE \in BOOLEAN
        BY <1>1
      <4> QED
        BY <4>1, <4>2, Zenon
    <3>3. CASE code # END /\ code # PAD /\ s.i + 1 >= n
      <4>1. /\ r = [i |-> s.i + 1, found |-> s.found, more |-> FALSE]
            /\ s.i + 1 \in Nat /\ s.i + 1 <= n /\ s.i < s.i + 1
        BY <1>1, <1>4, <1>6, <3>3
      <4>2. s.found \in SUBSET Nat /\ FALSE \in BOOLEAN
        BY <1>1
      <4> QED
        BY <4>1, <4>2, Zenon
    <3>4. CASE code # END /\ code # PAD /\ s.i + 1 < n /\ ~(s.i + 2 + opt_len <= n)
      <4>1. /\ r = [i |-> s.i + 2, found |-> s.found, more |-> FALSE]
            /\ s.i + 2 \in Nat /\ s.i + 2 <= n /\ s.i < s.i + 2
        BY <1>1, <1>2, <1>4, <1>6, <3>4
      <4>2. s.found \in SUBSET Nat /\ FALSE \in BOOLEAN
        BY <1>1
      <4> QED
        BY <4>1, <4>2, Zenon
    <3>5. CASE code # END /\ code # PAD /\ s.i + 1 < n /\ s.i + 2 + opt_len <= n
      <4>1. /\ r = [i |-> s.i + (2 + opt_len), found |-> kept, more |-> TRUE]
            /\ s.i + (2 + opt_len) \in Nat
            /\ s.i + (2 + opt_len) <= n /\ s.i < s.i + (2 + opt_len)
        BY <1>1, <1>2, <1>4, <1>6, <3>5, SMTT(60)
      <4> QED
        BY <1>3, <4>1, Zenon
    <3> QED
      BY <1>1, <1>2, <3>1, <3>2, <3>3, <3>4, <3>5
  <2>2. r.i = x /\ r.more = b /\ r \in ParseState
    BY <2>1 DEF ParseState
  <2> QED
    BY <2>1, <2>2, <1>6
<1> QED
    BY <1>1, <1>5, <1>6

\* dhcp_parse_options reads none but the n bytes it is given, whatever they are,
\* and n passes are enough for it.
LEMMA ParseInside ==
    ASSUME NEW o \in Seq(Nat), NEW n \in Nat
    PROVE  LET p == dhcp_parse_options(o, n)
           IN  p \in ParseState /\ p.i <= n /\ ~(p.more /\ p.i < n)
<1> DEFINE a == [i |-> 0, found |-> Nothing, more |-> TRUE]
           f == [s \in ParseState |-> ParseOption(o, n, s)]
           g == [k \in 1..n |-> f]
           c[k \in 0..n] == IF k = 0 THEN a ELSE ParseOption(o, n, c[k - 1])
<1>1. a \in ParseState /\ a.i = 0
    BY DEF ParseState, Nothing
<1>2. \A s \in ParseState : ParseOption(o, n, s) \in ParseState
    BY PassIs
<1>3. f \in [ParseState -> ParseState]
    BY <1>2
<1>4. g \in [1..n -> [ParseState -> ParseState]]
    BY <1>3
<1> HIDE DEF a, g
<1>5. PICK e : Steps(ParseState, a, n, g, e)
    BY <1>1, <1>4, Recursion
<1>6. \A k \in 0..n : k # 0 => k \in 1..n /\ k - 1 \in 0..n
    OBVIOUS
<1>7. e = [k \in 0..n |-> IF k = 0 THEN a ELSE ParseOption(o, n, e[k - 1])]
  <2>1. \A k \in 0..n : k # 0 => g[k][e[k - 1]] = ParseOption(o, n, e[k - 1])
    BY <1>5, <1>6, Zenon DEF g, Steps
  <2> QED
    BY <1>5, <2>1 DEF Steps
<1> HIDE DEF f
<1>8. c = [k \in 0..n |-> IF k = 0 THEN a ELSE ParseOption(o, n, c[k - 1])]
    BY <1>7, Zenon
<1>9. dhcp_parse_options(o, n) = c[n]
    BY DEF dhcp_parse_options, a
<1> HIDE DEF c
<1> DEFINE Good(k) == /\ c[k] \in ParseState /\ c[k].i <= n
                      /\ c[k].more /\ c[k].i < n => c[k].i >= k
           T == {k \in Nat : k <= n /\ ~Good(k)}
<1>10. ASSUME T # {} PROVE FALSE
  <2>1. PICK k \in T : \A t \in T : k <= t
    BY <1>10, Least, Zenon
  <2>2. k \in Nat /\ k <= n /\ ~Good(k)
    OBVIOUS
  <2>3. k # 0
    <3>1. c[0] = a
      BY <1>8
    <3>2. Good(0)
      BY <1>1, <3>1
    <3> HIDE DEF Good
    <3> QED
      BY <2>2, <3>2
  <2>4. k - 1 \in Nat /\ k - 1 <= n /\ ~(k <= k - 1) /\ k \in 0..n
    BY <2>2, <2>3
  <2>5. Good(k - 1)
    BY <2>1, <2>4, Zenon
  <2>6. c[k] = ParseOption(o, n, c[k - 1])
    BY <1>8, <2>3, <2>4
  <2> PICK s \in ParseState : s = c[k - 1]
    BY <2>5
  <2> PICK r : r = c[k]
    OBVIOUS
  <2>7. s.i <= n /\ (s.more /\ s.i < n => s.i >= k - 1)
    BY <2>5
  <2>8. /\ r \in ParseState
        /\ s.i <= n => r.i <= n
        /\ (r.more /\ r.i < n) => s.more /\ s.i < n /\ s.i < r.i
    BY <2>6, PassIs
  <2>9. s.i \in Nat /\ r.i \in Nat
    BY <2>8 DEF ParseState
  <2>10. Good(k)
    BY <2>2, <2>7, <2>8, <2>9
  <2> HIDE DEF Good
  <2> QED
    BY <2>2, <2>10
<1> HIDE DEF Good
<1>11. Good(n)
    BY <1>10
<1> QED
    BY <1>9, <1>11 DEF Good, ParseState

\* The length fields of a frame may say anything.
AnyFrame == [length : Nat, ihl : Nat, total : Int, udp_len : Int, options : Seq(Nat)]

\* No byte behind the end of a frame is read, whatever its headers and options
\* say: each length is compared with the one around it before it is used.
THEOREM ReadsInside ==
    ASSUME NEW f \in AnyFrame
    PROVE  net_process_frame(f).read <= f.length
<1>1. /\ f.length \in Nat /\ f.ihl \in Nat /\ f.total \in Int /\ f.udp_len \in Int
      /\ f.options \in Seq(Nat)
    BY DEF AnyFrame
<1>2. \A k : Dropped(k).read = k
    BY DEF Dropped
<1>3. ASSUME NEW at \in Nat, NEW n \in Int, at + n <= f.length, at <= f.length
      PROVE  dhcp_process_packet(f, at, n).read <= f.length
  <2>1. CASE n < BOOTP
    BY <1>2, <1>3, <2>1 DEF dhcp_process_packet
  <2>2. CASE ~(n < BOOTP)
    <3>1. n - BOOTP \in Nat
      BY <2>2 DEF BOOTP
    <3> DEFINE p == dhcp_parse_options(f.options, n - BOOTP)
    <3>2. p.i \in Nat /\ p.i <= n - BOOTP
      BY <1>1, <3>1, ParseInside, Zenon DEF ParseState
    <3>3. dhcp_process_packet(f, at, n).read = at + BOOTP + p.i
      BY <2>2 DEF dhcp_process_packet
    <3> HIDE DEF p
    <3> QED
      BY <1>1, <1>3, <3>2, <3>3 DEF BOOTP
  <2> QED
    BY <2>1, <2>2
<1>4. ASSUME NEW m \in Int, m >= f.ihl, m >= 20 \/ f.ihl >= 20, ETH + m <= f.length,
             f.length >= ETH + 20
      PROVE  net_process_udp(f, m).read <= f.length
  <2>1. CASE m < f.ihl + 8
    BY <1>1, <1>2, <1>4, <2>1 DEF net_process_udp, ETH
  <2>2. CASE ~(m < f.ihl + 8) /\ (f.udp_len < 8 \/ m < f.ihl + f.udp_len)
    BY <1>1, <1>2, <1>4, <2>2, SMTT(60) DEF net_process_udp, ETH
  <2>3. CASE ~(m < f.ihl + 8) /\ ~(f.udp_len < 8 \/ m < f.ihl + f.udp_len)
    <3>1. /\ ETH + f.ihl + 8 \in Nat /\ f.udp_len - 8 \in Int
          /\ (ETH + f.ihl + 8) + (f.udp_len - 8) <= f.length /\ ETH + f.ihl + 8 <= f.length
      <4>1. /\ f.ihl + f.udp_len <= m /\ f.udp_len >= 8 /\ ETH + m <= f.length
        BY <1>1, <1>4, <2>3
      <4>2. f.ihl \in Nat /\ f.udp_len \in Int /\ f.length \in Nat
        BY <1>1
      <4> DEFINE h == f.ihl
                 u == f.udp_len
                 l == f.length
      <4> HIDE DEF h, u, l
      <4>3. h + u <= m /\ u >= 8 /\ 14 + m <= l /\ h \in Nat /\ u \in Int /\ l \in Nat
        BY <4>1, <4>2 DEF h, u, l, ETH
      <4>4. 14 + h + 8 \in Nat /\ u - 8 \in Int /\ (14 + h + 8) + (u - 8) <= l /\ 14 + h + 8 <= l
        BY <4>3
      <4> QED
        BY <4>4 DEF h, u, l, ETH
    <3>2. net_process_udp(f, m) = dhcp_process_packet(f, ETH + f.ihl + 8, f.udp_len - 8)
      BY <2>3 DEF net_process_udp
    <3> QED
      BY <1>3, <3>1, <3>2
  <2> QED
    BY <2>1, <2>2, <2>3
<1>5. ASSUME NEW m \in Nat, ETH + m = f.length
      PROVE  net_process_ipv4(f, m).read <= f.length
  <2>1. CASE m < 20
    BY <1>2, <1>5, <2>1 DEF net_process_ipv4, ETH
  <2>2. CASE ~(m < 20) /\ (f.ihl < 20 \/ m < f.ihl)
    BY <1>1, <1>2, <1>5, <2>2 DEF net_process_ipv4, ETH
  <2>3. CASE ~(m < 20) /\ ~(f.ihl < 20 \/ m < f.ihl) /\ (f.total < f.ihl \/ f.total > m)
    BY <1>1, <1>2, <1>5, <2>3 DEF net_process_ipv4, ETH
  <2>4. CASE ~(m < 20) /\ ~(f.ihl < 20 \/ m < f.ihl) /\ ~(f.total < f.ihl \/ f.total > m)
    <3>1. net_process_ipv4(f, m) = net_process_udp(f, f.total)
      BY <2>4 DEF net_process_ipv4
    <3>2. /\ f.total >= f.ihl /\ f.ihl >= 20 /\ ETH + f.total <= f.length
          /\ f.length >= ETH + 20
      BY <1>1, <1>5, <2>4 DEF ETH
    <3> QED
      BY <1>1, <1>4, <3>1, <3>2
  <2> QED
    BY <2>1, <2>2, <2>3, <2>4
<1>6. CASE f.length < ETH
    BY <1>1, <1>2, <1>6 DEF net_process_frame
<1>7. CASE ~(f.length < ETH)
  <2>1. f.length - ETH \in Nat /\ ETH + (f.length - ETH) = f.length
    BY <1>1, <1>7 DEF ETH
  <2> QED
    BY <1>5, <1>7, <2>1 DEF net_process_frame
<1> QED
    BY <1>6, <1>7

\* The frames described in module Frames are frames.
LEMMA ReceivedFrames == Received \subseteq AnyFrame
<1>1. Layouts \subseteq Seq(Nat)
  <2>1. TypeOption \in Seq(Nat) /\ ServerOption \in Seq(Nat) /\ RouterOption \in Seq(Nat)
    BY DEF TypeOption, ServerOption, RouterOption, MSG_TYPE, SERVER_ID, ROUTER
  <2>2. /\ <<END>> \in Seq(Nat) /\ <<PAD, PAD>> \in Seq(Nat) /\ <<PAD>> \in Seq(Nat)
        /\ <<END, PAD>> \in Seq(Nat) /\ <<12, 2, 7, 7>> \in Seq(Nat)
        /\ <<ROUTER, 5, 1, 1, 1, 1>> \in Seq(Nat)
    BY DEF END, PAD, ROUTER
  <2>3. \A s, t \in Seq(Nat) : s \o t \in Seq(Nat)
    OBVIOUS
  <2>4. TypeOption \o ServerOption \o RouterOption \o <<END>> \in Seq(Nat)
    BY <2>1, <2>2, <2>3, Zenon
  <2>5. <<PAD, PAD>> \o RouterOption \o <<PAD>> \o ServerOption \o TypeOption \o <<END, PAD>>
            \in Seq(Nat)
    BY <2>1, <2>2, <2>3, Zenon
  <2>6. <<12, 2, 7, 7>> \o TypeOption \o RouterOption \o ServerOption \in Seq(Nat)
    BY <2>1, <2>2, <2>3, Zenon
  <2>7. ServerOption \o TypeOption \o <<ROUTER, 5, 1, 1, 1, 1>> \in Seq(Nat)
    BY <2>1, <2>2, <2>3, Zenon
  <2> QED
    BY <2>4, <2>5, <2>6, <2>7, Zenon DEF Layouts
<1>2. ASSUME NEW opts \in Seq(Nat), NEW ihl \in {4, 5, 6}, NEW extra \in {-12, -1, 0, 6},
             NEW total_off \in {-3, 0, 1}, NEW udp_off \in {-260, -246, -9, -3, 0, 2}
      PROVE  Frame(opts, ihl, extra, total_off, udp_off) \in AnyFrame
  <2> DEFINE udp == 8 + BOOTP + Len(opts)
  <2>1. udp \in Nat /\ udp >= 248
    BY DEF BOOTP
  <2> HIDE DEF udp
  <2>2. ihl \in Nat /\ extra \in Int /\ extra >= -12 /\ total_off \in Int /\ udp_off \in Int
    OBVIOUS
  <2>3. /\ ETH + 4 * ihl + udp + extra \in Nat /\ 4 * ihl \in Nat
        /\ 4 * ihl + udp + total_off \in Int /\ udp + udp_off \in Int
    BY <2>1, <2>2 DEF ETH
  <2> QED
    BY <2>3 DEF Frame, AnyFrame, udp
<1> QED
    BY <1>1, <1>2 DEF Received

LEMMA OutcomesInside == \A o \in Outcomes : o.inside
<1> TAKE o \in Outcomes
<1>1. PICK f \in Received :
          o = [found |-> net_process_frame(f).found,
               inside |-> net_process_frame(f).read <= f.length]
    BY DEF Outcomes
<1>2. net_process_frame(f).read <= f.length
    BY ReceivedFrames, ReadsInside
<1> QED
    BY <1>1, <1>2, Zenon

----------------------------------------------------------------------------
(* The checksum *)

\* The sum with its carries added in again: less than mod, and the same as the
\* sum but for a multiple of mod - 1.
Folds(mod, N, F) ==
    F = [s \in 0..N |-> IF s < mod THEN s ELSE F[(s % mod) + (s \div mod)]]

LEMMA CarrySmaller ==
    ASSUME NEW mod \in Nat, mod > 1, NEW s \in Nat, s >= mod
    PROVE  /\ (s % mod) + (s \div mod) \in Nat /\ (s % mod) + (s \div mod) < s
           /\ s \div mod \in Nat
           /\ s = (s % mod) + (s \div mod) + (s \div mod) * (mod - 1)
<1>1. PICK r \in 0..(mod - 1) : r = s % mod
    OBVIOUS
<1>2. PICK q \in Nat : q = s \div mod
    OBVIOUS
<1>3. s = q * mod + r
    BY <1>1, <1>2
<1>4. q >= 1
  <2> SUFFICES ASSUME q = 0 PROVE FALSE
    OBVIOUS
  <2> QED
    BY <1>3
<1>5. q * mod = q + q * (mod - 1)
    OBVIOUS
<1>6. q * (mod - 1) >= 1
    BY <1>4
<1>7. s = r + q + q * (mod - 1) /\ q * (mod - 1) \in Int
    BY <1>3, <1>5
<1>8. r + q < s
    BY <1>6, <1>7
<1> QED
    BY <1>1, <1>2, <1>7, <1>8

LEMMA FoldExists ==
    ASSUME NEW mod \in Nat, mod > 1, NEW N \in Nat
    PROVE  \E F : Folds(mod, N, F)
<1> DEFINE T == {m \in Nat : m <= N /\ ~\E F : Folds(mod, m, F)}
           Next1(s) == (s % mod) + (s \div mod)
<1>0. \A s \in Nat : s >= mod => Next1(s) \in Nat /\ Next1(s) < s
    BY CarrySmaller
<1>1. ASSUME T # {} PROVE FALSE
  <2>1. PICK m \in T : \A t \in T : m <= t
    BY <1>1, Least, Zenon
  <2>2. m # 0
    <3> DEFINE F == [s \in 0..0 |-> 0]
    <3>1. Folds(mod, 0, F)
      BY DEF Folds
    <3> QED
      BY <3>1
  <2>3. m - 1 \in Nat /\ m - 1 <= N /\ ~(m <= m - 1) /\ m \in Nat
    BY <2>2
  <2>4. m - 1 \notin T
    BY <2>1, <2>3, Zenon
  <2>5. PICK F : Folds(mod, m - 1, F)
    BY <2>3, <2>4, Zenon
  <2> HIDE DEF Next1
  <2>6. F = [s \in 0..(m - 1) |-> IF s < mod THEN s ELSE F[Next1(s)]]
    BY <2>5, Zenon DEF Folds, Next1
  <2> DEFINE G == [s \in 0..m |-> IF s = m THEN (IF m < mod THEN m ELSE F[Next1(m)]) ELSE F[s]]
  <2>7. \A s \in 0..(m - 1) : s \in 0..m /\ G[s] = F[s]
    BY <2>3
  <2>8. ASSUME NEW s \in 0..m PROVE G[s] = IF s < mod THEN s ELSE G[Next1(s)]
    <3>1. s \in Nat /\ (s # m => s \in 0..(m - 1))
      BY <2>3
    <3>2. s >= mod => Next1(s) \in 0..(m - 1)
      BY <1>0, <2>3, <3>1
    <3>3. s >= mod => G[Next1(s)] = F[Next1(s)]
      BY <2>7, <3>2
    <3>4. CASE s = m
      BY <3>1, <3>3, <3>4
    <3>5. CASE s # m
      <4>1. G[s] = F[s] /\ F[s] = IF s < mod THEN s ELSE F[Next1(s)]
        BY <2>6, <2>7, <3>1, <3>5
      <4> HIDE DEF G
      <4> QED
        BY <3>1, <3>3, <4>1
    <3> QED
      BY <3>4, <3>5
  <2>9. DOMAIN G = 0..m /\ G = [s \in 0..m |-> G[s]]
    OBVIOUS
  <2> HIDE DEF G
  <2>10. G = [s \in 0..m |-> IF s < mod THEN s ELSE G[Next1(s)]]
    BY <2>8, <2>9, Zenon
  <2>11. Folds(mod, m, G)
    BY <2>10, Zenon DEF Folds, Next1
  <2> QED
    BY <2>11
<1>2. N \notin T
    BY <1>1, Zenon
<1> QED
    BY <1>2

\* x and y differ by a multiple of m.
Congruent(x, y, m) == \E q \in Int : x = y + q * m

LEMMA FoldIs ==
    ASSUME NEW mod \in Nat, mod > 1, NEW N \in Nat, NEW F, Folds(mod, N, F)
    PROVE  \A s \in 0..N : F[s] \in 0..(mod - 1) /\ Congruent(s, F[s], mod - 1)
<1> DEFINE Good(s) == F[s] \in 0..(mod - 1) /\ Congruent(s, F[s], mod - 1)
           T == {s \in Nat : s <= N /\ ~Good(s)}
<1>1. ASSUME T # {} PROVE FALSE
  <2>1. PICK s \in T : \A t \in T : s <= t
    BY <1>1, Least, Zenon
  <2>2. s \in Nat /\ s <= N /\ ~Good(s) /\ s \in 0..N
    OBVIOUS
  <2>3. F[s] = IF s < mod THEN s ELSE F[(s % mod) + (s \div mod)]
    BY <2>2, Zenon DEF Folds
  <2>4. CASE s < mod
    <3>1. F[s] = s /\ s = s + 0 * (mod - 1)
      BY <2>3, <2>4
    <3> QED
      BY <2>2, <2>4, <3>1 DEF Congruent
  <2>5. CASE s >= mod
    <3>1. PICK q \in Nat : q = s \div mod
      BY <2>2, CarrySmaller, <2>5, Zenon
    <3>2. PICK t \in Nat : t = (s % mod) + (s \div mod)
      BY <2>2, CarrySmaller, <2>5, Zenon
    <3>3. t < s /\ s = t + q * (mod - 1)
      BY <2>2, <2>5, <3>1, <3>2, CarrySmaller, Zenon
    <3>4. t <= N /\ ~(s <= t)
      BY <2>2, <3>3
    <3>5. t \notin T
      BY <2>1, <3>4, Zenon
    <3>6. Good(t)
      BY <3>4, <3>5, Zenon
    <3>7. F[s] = F[t]
      BY <2>2, <2>3, <2>5, <3>2
    <3>8. PICK p \in Int : t = F[t] + p * (mod - 1)
      BY <3>6, Zenon DEF Congruent
    <3>9. F[t] \in Int
      BY <3>6
    <3>10. s = F[t] + (p + q) * (mod - 1)
      <4> PICK x \in Int : x = F[t]
        BY <3>9
      <4>1. p * (mod - 1) + q * (mod - 1) = (p + q) * (mod - 1)
        OBVIOUS
      <4> QED
        BY <3>3, <3>8, <4>1
    <3>11. Congruent(s, F[s], mod - 1)
      <4>1. p + q \in Int /\ s = F[s] + (p + q) * (mod - 1)
        BY <3>7, <3>10
      <4> QED
        BY <4>1, Zenon DEF Congruent
    <3> QED
      BY <2>2, <3>6, <3>7, <3>11
  <2> QED
    BY <2>2, <2>4, <2>5
<1> HIDE DEF Good
<1> QED
    BY <1>1 DEF Good

\* What checksum16 returns is the complement of the sum s of the words, but for
\* a multiple of mod - 1.
LEMMA ChecksumIs ==
    ASSUME NEW mod \in Nat, mod > 1, NEW words \in Seq(0..(mod - 1)),
           NEW s \in 0..(mod * Len(words)),
           \A T : T = [n \in 0..Len(words) |-> IF n = 0 THEN 0 ELSE T[n - 1] + words[n]]
                    => T[Len(words)] = s
    PROVE  LET c == checksum16(words, mod)
           IN  c \in 0..(mod - 1) /\ Congruent(s, mod - 1 - c, mod - 1)
<1> DEFINE L == Len(words)
           f == [n \in 1..L |-> [x \in Int |-> x + words[n]]]
           Sum[n \in 0..L] == IF n = 0 THEN 0 ELSE Sum[n - 1] + words[n]
           Fold[t \in 0..(mod * L)] == IF t < mod THEN t ELSE Fold[(t % mod) + (t \div mod)]
<1>1. L \in Nat /\ \A n \in 1..L : words[n] \in Int
    OBVIOUS
<1>2. f \in [1..L -> [Int -> Int]]
    BY <1>1
<1> HIDE DEF L
<1>3. PICK e : Steps(Int, 0, L, f, e)
  <2> HIDE DEF f
  <2>1. 0 \in Int
    OBVIOUS
  <2> QED
    BY <1>1, <1>2, <2>1, Recursion, Zenon
<1>4. \A n \in 0..L : n # 0 => n \in 1..L /\ n - 1 \in 0..L
    BY <1>1, SMTT(60)
<1>5. e = [n \in 0..L |-> IF n = 0 THEN 0 ELSE e[n - 1] + words[n]]
  <2>1. \A n \in 0..L : n # 0 => f[n][e[n - 1]] = e[n - 1] + words[n]
    BY <1>3, <1>4, Zenon DEF Steps
  <2> HIDE DEF f
  <2> QED
    BY <1>3, <2>1, Zenon DEF Steps
<1> HIDE DEF f
<1>6. Sum = [n \in 0..L |-> IF n = 0 THEN 0 ELSE Sum[n - 1] + words[n]]
    BY <1>5, Zenon
<1>7. mod * L \in Nat
    BY <1>1
<1>8. Fold = [t \in 0..(mod * L) |-> IF t < mod THEN t ELSE Fold[(t % mod) + (t \div mod)]]
  <2>1. PICK F : Folds(mod, mod * L, F)
    BY <1>7, FoldExists
  <2> QED
    BY <2>1, Zenon DEF Folds
<1>9. checksum16(words, mod) = mod - 1 - Fold[Sum[L]]
    BY DEF checksum16, L
<1> HIDE DEF Sum, Fold
<1>10. Sum[L] = s
    BY <1>6, Zenon DEF L
<1>11. Folds(mod, mod * L, Fold)
    BY <1>8, Zenon DEF Folds
<1>12. Fold[s] \in 0..(mod - 1) /\ Congruent(s, Fold[s], mod - 1)
    BY <1>7, <1>11, FoldIs DEF L
<1>13. PICK x \in 0..(mod - 1) : x = Fold[s]
    BY <1>12
<1>14. PICK c : c = checksum16(words, mod)
    OBVIOUS
<1>15. c = mod - 1 - x
    BY <1>9, <1>10, <1>13, <1>14
<1>16. c \in 0..(mod - 1) /\ mod - 1 - c = x
    BY <1>13, <1>15
<1> QED
    BY <1>12, <1>13, <1>14, <1>16

\* The same for the words an echo message is made of, and for all its words.
LEMMA ChecksumThree ==
    ASSUME NEW mod \in Nat, mod > 1, NEW x1 \in 0..(mod - 1), NEW x2 \in 0..(mod - 1),
           NEW x3 \in 0..(mod - 1)
    PROVE  LET c == checksum16(<<x1, x2, x3>>, mod)
           IN  c \in 0..(mod - 1) /\ Congruent(x1 + x2 + x3, mod - 1 - c, mod - 1)
<1> DEFINE words == <<x1, x2, x3>>
<1>1. words \in Seq(0..(mod - 1)) /\ Len(words) = 3
    OBVIOUS
<1>2. words[1] = x1 /\ words[2] = x2 /\ words[3] = x3
    OBVIOUS
<1> HIDE DEF words
<1>3. x1 + x2 + x3 \in 0..(mod * 3)
    OBVIOUS
<1>4. ASSUME NEW T, T = [n \in 0..3 |-> IF n = 0 THEN 0 ELSE T[n - 1] + words[n]]
      PROVE  T[3] = x1 + x2 + x3
  <2>1. T[0] = 0
    BY <1>4
  <2>2. T[1] = T[0] + words[1]
    BY <1>4
  <2>3. T[2] = T[1] + words[2]
    BY <1>4
  <2>4. T[3] = T[2] + words[3]
    BY <1>4
  <2> QED
    BY <1>2, <2>1, <2>2, <2>3, <2>4
<1>5. \A T : T = [n \in 0..Len(words) |-> IF n = 0 THEN 0 ELSE T[n - 1] + words[n]]
                => T[Len(words)] = x1 + x2 + x3
    BY <1>1, <1>4, Zenon
<1>6. LET c == checksum16(words, mod)
      IN  c \in 0..(mod - 1) /\ Congruent(x1 + x2 + x3, mod - 1 - c, mod - 1)
    BY <1>1, <1>3, <1>5, ChecksumIs, Zenon
<1> QED
    BY <1>6 DEF words

LEMMA ChecksumFour ==
    ASSUME NEW mod \in Nat, mod > 1, NEW x1 \in 0..(mod - 1), NEW x2 \in 0..(mod - 1),
           NEW x3 \in 0..(mod - 1), NEW x4 \in 0..(mod - 1)
    PROVE  LET c == checksum16(<<x1, x2, x3, x4>>, mod)
           IN  c \in 0..(mod - 1) /\ Congruent(x1 + x2 + x3 + x4, mod - 1 - c, mod - 1)
<1> DEFINE words == <<x1, x2, x3, x4>>
<1>1. words \in Seq(0..(mod - 1)) /\ Len(words) = 4
    OBVIOUS
<1>2. words[1] = x1 /\ words[2] = x2 /\ words[3] = x3 /\ words[4] = x4
    OBVIOUS
<1> HIDE DEF words
<1>3. x1 + x2 + x3 + x4 \in 0..(mod * 4)
    OBVIOUS
<1>4. ASSUME NEW T, T = [n \in 0..4 |-> IF n = 0 THEN 0 ELSE T[n - 1] + words[n]]
      PROVE  T[4] = x1 + x2 + x3 + x4
  <2>1. T[0] = 0
    BY <1>4
  <2>2. T[1] = T[0] + words[1]
    BY <1>4
  <2>3. T[2] = T[1] + words[2]
    BY <1>4
  <2>4. T[3] = T[2] + words[3]
    BY <1>4
  <2>5. T[4] = T[3] + words[4]
    BY <1>4
  <2> QED
    BY <1>2, <2>1, <2>2, <2>3, <2>4, <2>5
<1>5. \A T : T = [n \in 0..Len(words) |-> IF n = 0 THEN 0 ELSE T[n - 1] + words[n]]
                => T[Len(words)] = x1 + x2 + x3 + x4
    BY <1>1, <1>4, Zenon
<1>6. LET c == checksum16(words, mod)
      IN  c \in 0..(mod - 1) /\ Congruent(x1 + x2 + x3 + x4, mod - 1 - c, mod - 1)
    BY <1>1, <1>3, <1>5, ChecksumIs, Zenon
<1> QED
    BY <1>6 DEF words

\* Numbers below m that differ by a multiple of m are the same.
LEMMA SameBelow ==
    ASSUME NEW m \in Nat, NEW x \in 1..(m - 1), NEW y \in 0..m, NEW q \in Int, y = x + q * m
    PROVE  x = y
<1>1. CASE q = 0
    BY <1>1
<1>2. CASE q >= 1
  <2>1. q * m >= m
    BY <1>2
  <2> QED
    BY <2>1
<1>3. CASE q <= -1
  <2>1. q * m <= -m
    BY <1>3
  <2> QED
    BY <2>1
<1> QED
    BY <1>1, <1>2, <1>3

\* A reply the checksum lets through has the identifier and the sequence number
\* it was sent with: damage to one word does not leave the checksum right, but
\* for a zero that becomes all ones or the reverse, and neither number is one of
\* these.
LEMMA PassedGenuine ==
    ASSUME NEW p \in Passed
    PROVE  p.reply \in Reply /\ p.words[2] = p.reply.run /\ p.words[3] = p.reply.seq
<1> DEFINE M == WordMod - 1
<1>1. PICK r \in Reply, k \in 1..4, v \in 0..M :
          p = [reply |-> r, words |-> [Echo(EchoReply, r.run, r.seq) EXCEPT ![k] = v]]
    BY DEF Passed, Arriving
<1>2. checksum16(p.words, WordMod) = 0
    BY DEF Passed
<1>3. WordMod \in Nat /\ WordMod > 1 /\ M \in Nat /\ M > 1
    BY PingAssumption
<1>4. PICK a \in 1..(M - 1) : a = r.run
    BY PingAssumption DEF Reply
<1>5. PICK b \in 1..(M - 1) : b = r.seq
    BY PingAssumption DEF Reply
<1>6. PICK c : c = checksum16(<<0, a, b>>, WordMod)
    OBVIOUS
<1>7. a \in 0..(WordMod - 1) /\ b \in 0..(WordMod - 1) /\ 0 \in 0..(WordMod - 1)
    BY <1>3
<1>8. c \in 0..(WordMod - 1) /\ Congruent(0 + a + b, WordMod - 1 - c, WordMod - 1)
    BY <1>3, <1>6, <1>7, ChecksumThree, Zenon
<1>9. PICK q \in Int : a + b = M - c + q * M
    BY <1>7, <1>8 DEF Congruent
<1>10. Echo(EchoReply, r.run, r.seq) = <<0, a, b, c>>
  <2>1. Echo(EchoReply, r.run, r.seq) = Append(<<0, a, b>>, c)
    BY <1>4, <1>5, <1>6, Zenon DEF Echo, EchoReply
  <2> DEFINE w == Append(<<0, a, b>>, c)
  <2>2. c \in Int /\ a \in Int /\ b \in Int
    BY <1>8
  <2>3. w[1] = 0 /\ w[2] = a /\ w[3] = b /\ w[4] = c /\ Len(w) = 4
    BY <2>2
  <2>4. w \in Seq(Int)
    BY <2>2
  <2> HIDE DEF w
  <2>5. w = <<0, a, b, c>>
    BY <2>3, <2>4
  <2> QED
    BY <2>1, <2>5 DEF w
<1> DEFINE y1 == IF k = 1 THEN v ELSE 0
           y2 == IF k = 2 THEN v ELSE a
           y3 == IF k = 3 THEN v ELSE b
           y4 == IF k = 4 THEN v ELSE c
<1>11. p.words = <<y1, y2, y3, y4>>
    BY <1>1, <1>10
<1>12. /\ y1 \in 0..(WordMod - 1) /\ y2 \in 0..(WordMod - 1)
       /\ y3 \in 0..(WordMod - 1) /\ y4 \in 0..(WordMod - 1)
    BY <1>7, <1>8, SMTT(60)
<1>13. Congruent(y1 + y2 + y3 + y4, WordMod - 1 - 0, WordMod - 1)
  <2> HIDE DEF y1, y2, y3, y4
  <2> QED
    BY <1>2, <1>3, <1>11, <1>12, ChecksumFour, ZenonT(60)
<1>14. PICK t \in Int : y1 + y2 + y3 + y4 = M + t * M
  <2> HIDE DEF y1, y2, y3, y4
  <2>1. PICK t \in Int : y1 + y2 + y3 + y4 = WordMod - 1 - 0 + t * (WordMod - 1)
    BY <1>13 DEF Congruent
  <2>2. y1 + y2 + y3 + y4 = M + t * M
    BY <2>1, <1>3
  <2> QED
    BY <2>2
<1>15. c \in Int /\ v \in Int /\ M \in Int /\ t * M \in Int /\ q * M \in Int
    BY <1>3, <1>8
<1>16. k = 2 => v = a
  <2> SUFFICES ASSUME k = 2 PROVE v = a
    OBVIOUS
  <2>1. v = a + (t * M - q * M)
    BY <1>9, <1>14, <1>15
  <2>2. t * M - q * M = (t - q) * M
    BY <1>3
  <2>3. v = a + (t - q) * M /\ t - q \in Int
    BY <2>1, <2>2
  <2> HIDE DEF M
  <2> QED
    BY <1>3, <2>3, SameBelow
<1>17. k = 3 => v = b
  <2> SUFFICES ASSUME k = 3 PROVE v = b
    OBVIOUS
  <2>1. v = b + (t * M - q * M)
    BY <1>9, <1>14, <1>15
  <2>2. t * M - q * M = (t - q) * M
    BY <1>3
  <2>3. v = b + (t - q) * M /\ t - q \in Int
    BY <2>1, <2>2
  <2> HIDE DEF M
  <2> QED
    BY <1>3, <2>3, SameBelow
<1>18. y2 = a /\ y3 = b
    BY <1>16, <1>17
<1> HIDE DEF y1, y2, y3, y4
<1>19. p.words[2] = a /\ p.words[3] = b
    BY <1>11, <1>18
<1> QED
    BY <1>1, <1>4, <1>5, <1>19, SMTT(60)

----------------------------------------------------------------------------
(* ping *)

LEMMA SameLines ==
    ASSUME GenuineReply, UNCHANGED <<run, received, reported>>
    PROVE  GenuineReply'
BY Zenon DEF GenuineReply

\* A reply that matches what g_ping_wait is filled with answers that request.
LEMMA IcmpPingInv ==
    ASSUME PingInv, NEW r, net_process_icmp(r)
    PROVE  PingInv'
<1>1. PICK p \in Passed :
          /\ p.reply = r
          /\ IF Matches(p.words) THEN answered' = TRUE /\ by' = r ELSE UNCHANGED <<answered, by>>
    BY DEF net_process_icmp
<1>2. r \in Reply /\ p.words[2] = r.run /\ p.words[3] = r.seq
    BY <1>1, PassedGenuine
<1>3. r.run > 0 /\ r.seq > 0 /\ r = [run |-> r.run, seq |-> r.seq]
    BY <1>2, PingAssumption DEF Reply
<1>4. \/ UNCHANGED <<answered, by>>
      \/ answered' = TRUE /\ by' = r /\ ping_active /\ identifier = r.run /\ sequence = r.seq
    BY <1>1, <1>2 DEF Matches
<1>5. /\ ping_pc' = IF ping_pc = "hlt" THEN "wait" ELSE ping_pc
      /\ UNCHANGED <<run, seq, received, ping_active, identifier, sequence, replies, reported>>
    BY DEF net_process_icmp
<1>6. PingTyped'
  <2>1. answered' \in BOOLEAN
    BY <1>4, Zenon DEF PingInv, PingTyped
  <2>2. IsFiniteSet(reported)'
    BY <1>5 DEF PingInv, PingTyped
  <2> QED
    BY <1>5, <2>1, <2>2 DEF PingInv, PingTyped, Asking
<1>7. Filled'
  <2>1. Filled
    BY DEF PingInv
  <2>2. CASE UNCHANGED <<answered, by>>
    BY <1>5, <2>1, <2>2 DEF Filled, Asking
  <2>3. CASE answered' = TRUE /\ by' = r /\ ping_active /\ identifier = r.run /\ sequence = r.seq
    <3>1. ping_pc \notin {"idle", "next", "active"}
      BY <2>1, <2>3 DEF Filled
    <3>2. ping_pc \notin {"identifier", "sequence"}
      BY <1>3, <2>1, <2>3 DEF Filled
    <3>3. ping_pc \in {"send", "wait", "hlt"} => by' = [run |-> run, seq |-> seq]
      BY <1>3, <2>1, <2>3 DEF Filled
    <3> QED
      BY <1>5, <2>1, <3>1, <3>2, <3>3, SMTT(60) DEF Filled, Asking
  <2> QED
    BY <1>4, <2>2, <2>3, Zenon
<1>8. Earlier'
    BY <1>5 DEF PingInv, Earlier, Asking
<1>9. GenuineReply'
    BY <1>5, SameLines DEF PingInv
<1> QED
    BY <1>6, <1>7, <1>8, <1>9 DEF PingInv

\* The steps that leave the lines, the request and its answer alone.
LEMMA QuietPingInv ==
    ASSUME PingInv,
           \/ (\E r : Lose(r)) \/ PingTick \/ SetActive \/ SetIdentifier \/ SetSequence
           \/ Send \/ Halt \/ TimedOut \/ Finish
    PROVE  PingInv'
<1> USE DEF PingInv
<1>1. UNCHANGED <<run, seq, received, answered, by, reported>>
    BY SMTT(60) DEF Lose, PingTick, SetActive, SetIdentifier, SetSequence, Send, Halt, TimedOut, Finish,
           wait
<1>2. ping_pc' \in Asking => ping_pc \in Asking
    BY DEF Lose, PingTick, SetActive, SetIdentifier, SetSequence, Send, Halt, TimedOut, Finish,
           Asking
<1>3. Earlier'
    BY <1>1, <1>2 DEF Earlier
<1>4. GenuineReply'
    BY <1>1, SameLines
<1>5. replies' \subseteq Reply
  <2>1. CASE Send
    <3>1. run \in 1..MaxRuns /\ seq \in 1..Count
      BY <2>1, PingAssumption DEF Send, Filled, PingTyped, Asking
    <3>2. [run |-> run, seq |-> seq] \in Reply
      BY <3>1, SMTT(60) DEF Reply
    <3> QED
      BY <2>1, <3>2, SMTT(60) DEF Send, ip_send_icmp_echo, PingTyped
  <2>2. CASE ~Send
    BY <2>2, SMTT(60) DEF Lose, PingTick, SetActive, SetIdentifier, SetSequence, Halt, TimedOut, Finish,
                PingTyped
  <2> QED
    BY <2>1, <2>2
<1>6. ping_pc' \in Asking \cup {"idle", "next"} /\ ping_active' \in BOOLEAN
    BY Zenon DEF Lose, PingTick, SetActive, SetIdentifier, SetSequence, Send, Halt, TimedOut, Finish,
           Asking, PingTyped, wait
<1>7. IsFiniteSet(reported)'
    BY <1>1 DEF PingTyped
<1>8. PingTyped'
    BY <1>1, <1>5, <1>6, <1>7 DEF PingTyped
<1>9. Filled'
  <2>1. CASE \E r : Lose(r)
    BY <1>1, <2>1 DEF Lose, Filled, wait, Asking
  <2>2. CASE PingTick
    BY <1>1, <2>2, SMTT(60) DEF PingTick, Filled, wait, Asking
  <2>3. CASE SetActive \/ SetIdentifier \/ SetSequence
    BY <1>1, <2>3, SMTT(60) DEF SetActive, SetIdentifier, SetSequence, Filled, Asking
  <2>4. CASE Send \/ Halt
    BY <1>1, <2>4, SMTT(60) DEF Send, Halt, Filled, wait, Asking
  <2>5. CASE TimedOut \/ Finish
    BY <1>1, <2>5 DEF TimedOut, Finish, Filled, wait, Asking
  <2> QED
    BY <2>1, <2>2, <2>3, <2>4, <2>5
<1> QED
    BY <1>3, <1>4, <1>8, <1>9, SMTT(60)

LEMMA StartPingInv ==
    ASSUME PingInv, net_ping
    PROVE  PingInv'
<1> USE DEF PingInv, net_ping
<1>1. run \in Nat /\ run + 1 \in 0..MaxRuns /\ run' = run + 1 /\ reported' = reported
    BY PingAssumption DEF PingTyped
<1>2. Earlier'
    BY <1>1 DEF Earlier, Asking
<1>3. {l \in reported' : l.run = run'} = {}
    BY <1>1 DEF Earlier
<1>4. GenuineReply'
  <2>1. received' = Cardinality({})
    BY FS_EmptySet, SMT
  <2>2. received' = Cardinality({l \in reported' : l.run = run'})
    BY <1>3, <2>1, Zenon
  <2>3. \A l \in reported' : l.reply = [run |-> l.run, seq |-> l.seq]
    BY <1>1, Zenon DEF GenuineReply
  <2> QED
    BY <2>2, <2>3, Zenon DEF GenuineReply
<1>5. PingTyped'
  <2>1. IsFiniteSet(reported)'
    BY <1>1 DEF PingTyped
  <2>2. /\ ping_pc' \in Asking \cup {"idle", "next"} /\ run' \in 0..MaxRuns
        /\ seq' \in 0..Count /\ received' \in Nat
    BY <1>1, PingAssumption
  <2>3. ping_active' \in BOOLEAN /\ answered' \in BOOLEAN /\ replies' \subseteq Reply
    BY DEF wait, PingTyped
  <2> QED
    BY <2>1, <2>2, <2>3 DEF PingTyped
<1>6. Filled'
    BY <1>1 DEF Filled, wait, Asking
<1> QED
    BY <1>2, <1>4, <1>5, <1>6

LEMMA NextPingInv ==
    ASSUME PingInv, NextRequest
    PROVE  PingInv'
<1> USE DEF PingInv, NextRequest
<1>1. /\ seq \in Nat /\ seq' = seq + 1 /\ seq + 1 \in 0..Count
      /\ UNCHANGED <<run, received, replies, reported>>
    BY PingAssumption DEF PingTyped
<1>2. Earlier'
    BY <1>1 DEF Earlier
<1>3. GenuineReply'
    BY <1>1, SameLines
<1>4. PingTyped'
  <2>1. IsFiniteSet(reported)'
    BY <1>1 DEF PingTyped
  <2> QED
    BY <1>1, <2>1, ZenonT(60) DEF PingTyped, Asking
<1>5. Filled'
    BY <1>1 DEF Filled, Asking
<1> QED
    BY <1>2, <1>3, <1>4, <1>5

\* A line is new: the earlier ones are of other requests.
LEMMA ReportPingInv ==
    ASSUME PingInv, Report
    PROVE  PingInv'
<1> USE DEF PingInv, Report
<1> DEFINE new == [run |-> run, seq |-> seq, reply |-> by]
           Lines == {l \in reported : l.run = run}
<1>1. /\ UNCHANGED <<run, seq, replies>> /\ reported' = reported \cup {new}
      /\ received' = received + 1 /\ ping_pc' = "next"
    OBVIOUS
<1>2. run \in 1..MaxRuns /\ seq \in 1..Count /\ by = [run |-> run, seq |-> seq]
    BY PingAssumption DEF PingTyped, Filled, Asking
<1>3. new.run = run /\ new.seq = seq /\ new.reply = by
    OBVIOUS
<1>4. new \notin Lines
    BY <1>3, SMTT(60) DEF Earlier, Asking
<1>5. {l \in reported' : l.run = run'} = Lines \cup {new}
    BY <1>1, <1>3
<1>6. IsFiniteSet(Lines)
    BY FS_Subset DEF PingTyped
<1> HIDE DEF new, Lines
<1>7. Cardinality(Lines \cup {new}) = Cardinality(Lines) + 1
    BY <1>4, <1>6, FS_AddElement
<1>8. received = Cardinality(Lines)
    BY Zenon DEF GenuineReply, Lines
<1>9. GenuineReply'
  <2>1. received' = Cardinality({l \in reported' : l.run = run'})
    BY <1>1, <1>5, <1>7, <1>8, SMTT(60)
  <2>2. \A l \in reported' : l.reply = [run |-> l.run, seq |-> l.seq]
    BY <1>1, <1>2, <1>3, Zenon DEF GenuineReply
  <2> QED
    BY <2>1, <2>2, Zenon DEF GenuineReply
<1>10. Earlier'
    BY <1>1, <1>2, <1>3, SMTT(60) DEF Earlier, Asking
<1>11. IsFiniteSet(reported')
    BY <1>1, FS_AddElement DEF PingTyped
<1>12. PingTyped'
  <2>1. /\ ping_pc' \in Asking \cup {"idle", "next"} /\ received' \in Nat
        /\ run' \in 0..MaxRuns /\ seq' \in 0..Count /\ replies' \subseteq Reply
    BY <1>1 DEF PingTyped
  <2>2. ping_active' \in BOOLEAN /\ answered' \in BOOLEAN
    BY ZenonT(60) DEF PingTyped
  <2> QED
    BY <1>11, <2>1, <2>2, SMTT(60) DEF PingTyped
<1>13. Filled'
    BY <1>1, <1>2 DEF Filled, Asking
<1> QED
    BY <1>9, <1>10, <1>12, <1>13

LEMMA PingInvNext ==
    ASSUME PingInv, net_ping \/ Command \/ PingTick \/ IcmpFrame
    PROVE  PingInv'
BY IcmpPingInv, QuietPingInv, StartPingInv, NextPingInv, ReportPingInv DEF Command, IcmpFrame

LEMMA PingInvInit == PingInit => PingInv
<1> SUFFICES ASSUME PingInit PROVE PingInv
    OBVIOUS
<1> USE DEF PingInit
<1>1. reported = {} /\ IsFiniteSet({}) /\ Cardinality({}) = 0
    BY FS_EmptySet
<1>2. {l \in reported : l.run = run} = {}
    BY <1>1
<1>3. GenuineReply
  <2>1. received = Cardinality({l \in reported : l.run = run})
    BY <1>1, <1>2
  <2> QED
    BY <1>1, <2>1 DEF GenuineReply
<1>4. PingTyped
  <2>1. /\ ping_pc \in Asking \cup {"idle", "next"} /\ received \in Nat
        /\ run \in 0..MaxRuns /\ seq \in 0..Count /\ replies \subseteq Reply
    BY PingAssumption
  <2>2. ping_active \in BOOLEAN /\ answered \in BOOLEAN /\ IsFiniteSet(reported)
    BY <1>1, Zenon
  <2> QED
    BY <2>1, <2>2 DEF PingTyped
<1>5. Filled /\ Earlier
    BY DEF Filled, Earlier, Asking
<1> QED
    BY <1>3, <1>4, <1>5 DEF PingInv

----------------------------------------------------------------------------
(* Startup *)

\* What messages are made of.
LEMMA Messages ==
    /\ NoMessage.type = "none" /\ NoMessage \notin Message
    /\ \A m \in Message : /\ m.type \in {"OFFER", "ACK", "NAK"} /\ m.server \in Servers
                          /\ m.type = "ACK" => m = Ack(m.server)
    /\ \A s \in Servers : s # zero /\ s # Garbled /\ s # "default"
    /\ Garbled # zero
<1>1. NoMessage.type = "none"
    BY DEF NoMessage
<1>2. \A m \in Message : /\ m.type \in {"OFFER", "ACK", "NAK"} /\ m.server \in Servers
                         /\ m.type = "ACK" => m = Ack(m.server)
    BY DEF Message, Ack
<1>3. NoMessage \notin Message
    BY <1>1, <1>2
<1>4. \A s \in Servers : s # zero /\ s # Garbled /\ s # "default"
    BY DhcpAssumption DEF zero, Garbled
<1>5. Garbled # zero
    BY DEF zero, Garbled
<1> QED
    BY <1>1, <1>2, <1>3, <1>4, <1>5

\* If after a packet all that was handled came from one server and was whole,
\* the packet was whole and from that server, or nothing in it was used.
LEMMA ParsedIs ==
    ASSUME DhcpTyped, ~overread, NEW m \in net, NEW o \in Outcomes, Parsed(m, o)
    PROVE  /\ overread' \in BOOLEAN /\ ~overread'
           /\ heard' \subseteq Servers \cup {Garbled} /\ IsFiniteSet(heard')
           /\ heard \subseteq heard'
           /\ Alone' => \/ o.found = {} /\ heard' = heard
                        \/ o.found = Whole /\ heard' = {m.server}
<1>1. m \in Message /\ m.server \in Servers /\ m.server # Garbled
    BY Messages DEF DhcpTyped
<1>2. Whole # {}
    BY DEF Whole
<1>3. \/ o.found = {} /\ heard' = heard
      \/ o.found = Whole /\ heard' = heard \cup {m.server}
      \/ heard' = heard \cup {m.server, Garbled}
    BY <1>2 DEF Parsed
<1>4. overread' = (overread \/ ~o.inside) /\ o.inside
    BY OutcomesInside DEF Parsed
<1>5. IsFiniteSet(heard')
  <2>1. IsFiniteSet(heard) /\ IsFiniteSet(heard \cup {m.server})
    BY FS_AddElement DEF DhcpTyped
  <2>2. IsFiniteSet((heard \cup {m.server}) \cup {Garbled})
    BY <2>1, FS_AddElement
  <2>3. (heard \cup {m.server}) \cup {Garbled} = heard \cup {m.server, Garbled}
    OBVIOUS
  <2> QED
    BY <1>3, <2>1, <2>2, <2>3
<1>6. heard' \subseteq Servers \cup {Garbled} /\ heard \subseteq heard'
    BY <1>1, <1>3, SMTT(60) DEF DhcpTyped
<1>7. Alone' => \/ o.found = {} /\ heard' = heard
                \/ o.found = Whole /\ heard' = {m.server}
  <2> SUFFICES ASSUME Alone'
               PROVE  \/ o.found = {} /\ heard' = heard
                      \/ o.found = Whole /\ heard' = {m.server}
    OBVIOUS
  <2>1. \A x, y \in heard' : x = y
    BY DEF Alone
  <2> QED
    BY <1>1, <1>3, <2>1
<1> QED
    BY <1>4, <1>5, <1>6, <1>7, Zenon

\* A packet without options that are used changes nothing but a server id.
LEMMA NothingFound ==
    ASSUME NEW m, NEW o, o.found = {}
    PROVE  TypeOf(m, o) = NoMessage /\ RouterIn(m, o) = router
BY DEF TypeOf, RouterIn

LEMMA WholeFound ==
    ASSUME NEW m, NEW o, o.found = Whole
    PROVE  TypeOf(m, o) = m /\ RouterIn(m, o) = IF m.type # "NAK" THEN m.server ELSE router
BY DEF TypeOf, RouterIn, Whole

LEMMA TypedIs ==
    ASSUME {got_offer, got_ack} \subseteq BOOLEAN, NEW m, NEW left, Typed(m, left)
    PROVE  {got_offer', got_ack'} \subseteq BOOLEAN
BY DEF Typed

LEMMA TypedNothing ==
    ASSUME {got_offer, got_ack} \subseteq BOOLEAN, Typed(NoMessage, router)
    PROVE  UNCHANGED <<got_offer, got_ack, offered_ip, router>>
<1>1. NoMessage.type = "none"
    BY Messages
<1> QED
    BY <1>1 DEF Typed

\* The same facts hold of g_dhcp before and after.
LEMMA SameOne ==
    ASSUME Alone => FromOne, net \subseteq net', pc' # "finish" \/ (pc = "finish" /\ ip' = ip),
           UNCHANGED <<half, got_offer, got_ack, offered_ip, router, heard>>
    PROVE  Alone' => FromOne'
<1>1. Alone' => Alone
    BY SMTT(60) DEF Alone
<1>2. FromOne => FromOne'
  <2> SUFFICES ASSUME FromOne PROVE FromOne'
    OBVIOUS
  <2> USE DEF FromOne
  <2>1. Garbled \notin heard' /\ {offered_ip, router}' \subseteq heard' \cup {zero}
    OBVIOUS
  <2>2. half' # NoMessage => /\ half' \in net' /\ half'.server \in heard'
                             /\ half'.type # "NAK" => router' = half'.server
    OBVIOUS
  <2>3. got_offer' \/ got_ack' => offered_ip' \in heard' /\ router' \in heard'
    OBVIOUS
  <2>4. got_ack' => \A s \in heard' : Ack(s) \in net'
    OBVIOUS
  <2>5. pc' = "finish" => ip' \in heard'
    OBVIOUS
  <2> QED
    BY <2>1, <2>2, <2>3, <2>4, <2>5 DEF Ack
<1> QED
    BY <1>1, <1>2

\* A whole packet from the one server, taken by the interrupt.
LEMMA IrqDhcpInv ==
    ASSUME DhcpInv, IrqDeliver
    PROVE  DhcpInv'
<1> USE DEF DhcpInv
<1>1. PICK m \in net, o \in Outcomes : Parsed(m, o) /\ Typed(TypeOf(m, o), RouterIn(m, o))
    BY DEF IrqDeliver
<1>2. /\ active /\ UNCHANGED <<pc, half, active, ip, gw, connected, net>>
    BY DEF IrqDeliver, thread, address, wire
<1>3. ~connected /\ pc \notin {"start", "fallback", "done"}
    BY <1>2, SMTT(60) DEF Staged
<1>4. /\ overread' \in BOOLEAN /\ ~overread'
      /\ heard' \subseteq Servers \cup {Garbled} /\ IsFiniteSet(heard')
      /\ heard \subseteq heard'
      /\ Alone' => \/ o.found = {} /\ heard' = heard
                   \/ o.found = Whole /\ heard' = {m.server}
    BY <1>1, ParsedIs, SMTT(60)
<1>5. {got_offer', got_ack'} \subseteq BOOLEAN
    BY <1>1, TypedIs, SMTT(60) DEF DhcpTyped
<1>6. DhcpTyped'
    BY <1>2, <1>4, <1>5, SMTT(60) DEF DhcpTyped
<1>7. Staged'
    BY <1>1, <1>2, ZenonT(60) DEF Staged, Typed
<1>8. ASSUME Alone', Alone PROVE FromOne'
  <2>1. FromOne
    BY <1>3, <1>8
  <2>2. CASE o.found = {} /\ heard' = heard
    <3>1. Typed(NoMessage, router)
      BY <1>1, <2>2, NothingFound, SMTT(60)
    <3>2. UNCHANGED <<got_offer, got_ack, offered_ip, router>>
      BY <3>1, TypedNothing DEF DhcpTyped
    <3> QED
      BY <1>2, <1>8, <2>1, <2>2, <3>2, SameOne, Zenon
  <2>3. CASE o.found = Whole /\ heard' = {m.server}
    <3>1. m \in Message
      BY DEF DhcpTyped
    <3>2. /\ m.type \in {"OFFER", "ACK", "NAK"} /\ m.server \in Servers
          /\ m.server # zero /\ m.server # Garbled
          /\ m.type = "ACK" => m = Ack(m.server)
      BY <3>1, Messages
    <3>3. Typed(m, IF m.type # "NAK" THEN m.server ELSE router)
      BY <1>1, <2>3, WholeFound, SMTT(60)
    <3>4. /\ Garbled \notin heard' /\ heard' = {m.server} /\ heard \subseteq {m.server}
          /\ half' = half /\ net' = net
      BY <1>2, <1>4, <2>3, <3>2, SMTT(60)
    <3>5. pc' = "finish" => ip' \in heard'
      BY <1>2, <1>4, <2>1, SMTT(60) DEF FromOne
    <3>6. half # NoMessage => half \in net /\ half.server \in heard' /\ half.server = m.server
      BY <2>1, <3>4, SMTT(60) DEF FromOne
    <3>7. CASE m.type = "NAK"
      <4>1. UNCHANGED <<offered_ip, router, got_offer, got_ack>>
        BY <3>3, <3>7, SMTT(60) DEF Typed, DhcpTyped
      <4>2. got_ack => m.server \in heard
        BY <2>1, <3>4, SMTT(60) DEF FromOne
      <4>3. got_ack' => \A s \in heard' : Ack(s) \in net'
        BY <2>1, <3>4, <4>1, <4>2, SMTT(60) DEF FromOne
      <4>4. /\ {offered_ip', router'} \subseteq heard' \cup {zero}
            /\ got_offer' \/ got_ack' => offered_ip' \in heard' /\ router' \in heard'
            /\ half # NoMessage => (half.type # "NAK" => router' = half.server)
        BY <2>1, <3>4, <4>1, SMTT(60) DEF FromOne
      <4> QED
        BY <3>4, <3>5, <3>6, <4>3, <4>4, SMTT(60) DEF FromOne, Ack
    <3>8. CASE m.type # "NAK"
      <4>1. /\ offered_ip' = m.server /\ router' = m.server
            /\ got_ack' => got_ack \/ m.type = "ACK"
        BY <3>2, <3>3, <3>8, ZenonT(60) DEF Typed
      <4>2. got_ack => m.server \in heard
        BY <2>1, <3>4 DEF FromOne
      <4>3. got_ack' => Ack(m.server) \in net'
        BY <2>1, <3>2, <3>4, <4>1, <4>2 DEF FromOne
      <4>4. got_ack' => \A s \in heard' : Ack(s) \in net'
        BY <3>4, <4>3
      <4>5. /\ {offered_ip', router'} \subseteq heard' \cup {zero}
            /\ offered_ip' \in heard' /\ router' \in heard'
            /\ half # NoMessage => (half.type # "NAK" => router' = half.server)
        BY <3>4, <3>6, <4>1
      <4> QED
        BY <3>4, <3>5, <3>6, <4>4, <4>5, SMTT(60) DEF FromOne, Ack
    <3> QED
      BY <3>7, <3>8
  <2> QED
    BY <1>4, <1>8, <2>2, <2>3
<1>9. Alone' => Alone
    BY <1>4 DEF Alone
<1>10. Leased'
    BY <1>2, <1>3, SMTT(60) DEF Leased
<1> QED
    BY <1>4, <1>6, <1>7, <1>8, <1>9, <1>10

\* The first half of that in the thread: the options are kept ...
LEMMA ParseDhcpInv ==
    ASSUME DhcpInv, PollParse
    PROVE  DhcpInv'
<1> USE DEF DhcpInv
<1>1. PICK m \in net, o \in Outcomes :
          Parsed(m, o) /\ router' = RouterIn(m, o) /\ half' = TypeOf(m, o)
    BY DEF PollParse
<1>2. /\ pc = "poll" /\ pc' = "half"
      /\ UNCHANGED <<active, got_offer, got_ack, offered_ip, ip, gw, connected, net>>
    BY DEF PollParse, Goto, address, wire
<1>3. ~connected /\ half = NoMessage
    BY <1>2, SMTT(60) DEF Staged
<1>4. /\ overread' \in BOOLEAN /\ ~overread'
      /\ heard' \subseteq Servers \cup {Garbled} /\ IsFiniteSet(heard')
      /\ heard \subseteq heard'
      /\ Alone' => \/ o.found = {} /\ heard' = heard
                   \/ o.found = Whole /\ heard' = {m.server}
    BY <1>1, ParsedIs
<1>5. m \in Message
    BY DEF DhcpTyped
<1>6. half' \in Message \cup {NoMessage}
    BY <1>1, <1>5, SMTT(60) DEF TypeOf
<1>7. DhcpTyped'
    BY <1>2, <1>4, <1>6 DEF DhcpTyped
<1>8. Staged'
    BY <1>2, <1>3 DEF Staged
<1>9. ASSUME Alone', Alone PROVE FromOne'
  <2>1. FromOne
    BY <1>3, <1>9, SMTT(60)
  <2>2. CASE o.found = {} /\ heard' = heard
    <3>1. UNCHANGED <<half, router>>
      BY <1>1, <1>3, <2>2, NothingFound, SMTT(60)
    <3> QED
      BY <1>2, <1>9, <2>1, <2>2, <3>1, SameOne, SMTT(60)
  <2>3. CASE o.found = Whole /\ heard' = {m.server}
    <3>1. m.server \in Servers /\ m.server # zero /\ m.server # Garbled
      BY <1>5, Messages
    <3>2. half' = m /\ router' = IF m.type # "NAK" THEN m.server ELSE router
      BY <1>1, <2>3, WholeFound, SMTT(60)
    <3>3. Garbled \notin heard' /\ heard' = {m.server} /\ heard \subseteq {m.server}
      BY <1>4, <2>3, <3>1, SMTT(60)
    <3>4. /\ {offered_ip', router'} \subseteq heard' \cup {zero}
          /\ got_offer' \/ got_ack' => offered_ip' \in heard' /\ router' \in heard'
      BY <1>2, <2>1, <3>2, <3>3, SMTT(60) DEF FromOne
    <3>5. got_ack => m.server \in heard
      BY <2>1, <3>3, SMTT(60) DEF FromOne
    <3>6. got_ack' => \A s \in heard' : Ack(s) \in net'
      BY <1>2, <2>1, <3>3, <3>5, SMTT(60) DEF FromOne
    <3>7. /\ half' \in net' /\ half'.server \in heard'
          /\ half'.type # "NAK" => router' = half'.server
      BY <1>2, <3>2, <3>3, SMTT(60)
    <3> QED
      BY <1>2, <3>3, <3>4, <3>6, <3>7, SMTT(60) DEF FromOne, Ack
  <2> QED
    BY <1>4, <1>9, <2>2, <2>3
<1>10. Alone' => Alone
    BY <1>4 DEF Alone
<1>11. Leased'
    BY <1>2, <1>3 DEF Leased
<1> QED
    BY <1>4, <1>7, <1>8, <1>9, <1>10, <1>11

\* ... and the second: the type is looked at.
LEMMA TypedDhcpInv ==
    ASSUME DhcpInv, PollTyped
    PROVE  DhcpInv'
<1> USE DEF DhcpInv
<1>1. /\ pc = "half" /\ pc' = "poll" /\ half' = NoMessage /\ Typed(half, router)
      /\ UNCHANGED <<active, heard, overread, ip, gw, connected, net>>
    BY DEF PollTyped, Goto, address, wire
<1>2. ~connected
    BY <1>1, SMTT(60) DEF Staged
<1>3. {got_offer', got_ack'} \subseteq BOOLEAN
    BY <1>1, TypedIs, SMTT(60) DEF DhcpTyped
<1>4. IsFiniteSet(heard')
    BY <1>1, SMTT(60) DEF DhcpTyped
<1>5. DhcpTyped'
    BY <1>1, <1>3, <1>4 DEF DhcpTyped
<1>6. Staged'
    BY <1>1 DEF Staged
<1>7. ASSUME Alone PROVE FromOne'
  <2>1. FromOne
    BY <1>2, <1>7
  <2>2. CASE half = NoMessage
    <3>1. UNCHANGED <<half, got_offer, got_ack, offered_ip, router>>
      BY <1>1, <2>2, TypedNothing DEF DhcpTyped
    <3>2. Alone'
      BY <1>1, <1>7 DEF Alone
    <3> QED
      BY <1>1, <2>1, <3>1, <3>2, SameOne, SMTT(60)
  <2>3. CASE half # NoMessage
    <3>1. half \in Message /\ half \in net /\ half.server \in heard
      BY <2>1, <2>3 DEF FromOne, DhcpTyped
    <3>2. half.type \in {"OFFER", "ACK", "NAK"} /\ (half.type = "ACK" => half = Ack(half.server))
      BY <3>1, Messages
    <3>3. half.server # zero
      BY <3>1, Messages
    <3>4. \A s \in heard : s = half.server
      BY <1>7, <3>1, SMTT(60) DEF Alone
    <3>5. CASE half.type = "NAK"
      <4>1. UNCHANGED <<offered_ip, router, got_offer, got_ack>>
        BY <1>1, <3>5, SMTT(60) DEF Typed, DhcpTyped
      <4> QED
        BY <1>1, <2>1, <4>1, SMTT(60) DEF FromOne, Ack
    <3>6. CASE half.type # "NAK"
      <4>1. router = half.server
        BY <2>1, <2>3, <3>6 DEF FromOne
      <4>2. /\ offered_ip' = half.server /\ router' = half.server
            /\ got_ack' => got_ack \/ half.type = "ACK"
        BY <1>1, <3>2, <3>3, <3>6, <4>1, ZenonT(60) DEF Typed
      <4>3. got_ack' => \A s \in heard' : Ack(s) \in net'
        <5>1. CASE got_ack
          BY <1>1, <2>1, <5>1 DEF FromOne
        <5>2. CASE half.type = "ACK"
          BY <1>1, <3>1, <3>2, <3>4, <5>2
        <5> QED
          BY <4>2, <5>1, <5>2
      <4>4. Garbled \notin heard' /\ offered_ip' \in heard' /\ router' \in heard'
        BY <1>1, <2>1, <3>1, <4>2 DEF FromOne
      <4> QED
        BY <1>1, <4>3, <4>4 DEF FromOne, Ack
    <3> QED
      BY <3>5, <3>6, SMTT(60)
  <2> QED
    BY <2>2, <2>3
<1>8. Alone' => Alone
    BY <1>1 DEF Alone
<1>9. Leased'
    BY <1>1, <1>2 DEF Leased
<1> QED
    BY <1>1, <1>5, <1>6, <1>7, <1>8, <1>9, SMTT(60)

LEMMA StartDhcpInv ==
    ASSUME DhcpInv, Start
    PROVE  DhcpInv'
<1> USE DEF DhcpInv
<1>1. /\ pc = "start" /\ got_offer' = FALSE /\ got_ack' = FALSE /\ heard' = {}
      /\ offered_ip' = zero /\ router' = zero
      /\ UNCHANGED <<half, overread, ip, gw, connected, net>>
    BY DEF Start, address
<1>2. (active' = TRUE /\ pc' = "head") \/ (active' = FALSE /\ pc' = "fallback")
    BY DEF Start, BeginWait, Goto
<1>3. ~connected /\ half = NoMessage
    BY <1>1 DEF Staged
<1>4. IsFiniteSet(heard')
    BY <1>1, FS_EmptySet, SMTT(60)
<1>5. DhcpTyped'
    BY <1>1, <1>2, <1>4, Zenon DEF DhcpTyped
<1>6. Staged'
    BY <1>1, <1>2, <1>3 DEF Staged
<1>7. FromOne'
    BY <1>1, <1>2, <1>3 DEF FromOne
<1>8. Leased'
    BY <1>1, <1>3 DEF Leased
<1> QED
    BY <1>1, <1>5, <1>6, <1>7, <1>8, SMTT(60)

\* The steps of the thread between packets, the tick and the servers.
LEMMA QuietDhcpInv ==
    ASSUME DhcpInv,
           \/ LoopHead \/ PollDone \/ Check \/ RequestIp \/ RequestSend
           \/ StartupTick \/ ServerReply
    PROVE  DhcpInv'
<1> USE DEF DhcpInv
<1>1. UNCHANGED <<half, got_offer, got_ack, offered_ip, router, heard, overread,
                  ip, gw, connected>>
    BY Zenon DEF LoopHead, PollDone, Check, RequestIp, RequestSend, StartupTick, ServerReply,
           dhcp, address, thread
<1>2. net \subseteq net' /\ net' \subseteq Message
  <2>1. CASE ServerReply
    <3>1. PICK s \in Servers, t \in {"OFFER", "ACK", "NAK"} :
              net' = net \cup {[type |-> t, server |-> s]}
      BY <2>1 DEF ServerReply
    <3>2. [type |-> t, server |-> s] \in Message
      BY SMTT(60) DEF Message
    <3> QED
      BY <3>1, <3>2, ZenonT(60) DEF DhcpTyped
  <2>2. CASE ~ServerReply
    <3>1. net' = net
      BY <2>2, Zenon DEF LoopHead, PollDone, Check, RequestIp, RequestSend, StartupTick, wire
    <3> QED
      BY <3>1 DEF DhcpTyped
  <2> QED
    BY <2>1, <2>2, Zenon
<1>3. \/ UNCHANGED <<pc, active>>
      \/ /\ pc \notin {"start", "half", "install", "finish", "fallback", "done"}
         /\ \/ pc' \in {"head", "poll", "check", "request", "send"} /\ active' = active
            \/ pc' = "install" /\ got_ack /\ active' = active
            \/ pc' = "fallback" /\ active' = FALSE
  <2>1. CASE LoopHead
    BY <2>1 DEF LoopHead, Goto
  <2>2. CASE PollDone
    BY <2>2 DEF PollDone, Goto, dhcp
  <2>3. CASE Check
    BY <2>3, SMTT(60) DEF Check, Goto, dhcp, Answered
  <2>4. CASE RequestIp
    BY <2>4, SMTT(60) DEF RequestIp, Goto
  <2>5. CASE RequestSend
    BY <2>5, SMTT(60) DEF RequestSend, Goto, BeginWait
  <2>6. CASE StartupTick \/ ServerReply
    BY <2>6, ZenonT(60) DEF StartupTick, ServerReply, dhcp, thread
  <2> QED
    BY <2>1, <2>2, <2>3, <2>4, <2>5, <2>6, Zenon
<1>4. IsFiniteSet(heard')
    BY <1>1, SMTT(60) DEF DhcpTyped
<1>5. DhcpTyped'
    BY <1>1, <1>2, <1>3, <1>4, ZenonT(60) DEF DhcpTyped
<1>6. Staged'
    BY <1>1, <1>3 DEF Staged
<1>7. ~connected => (Alone' => FromOne')
    BY <1>1, <1>2, <1>3, SameOne
<1>8. Alone' => Leased'
  <2>1. Alone' => Alone
    BY <1>1 DEF Alone
  <2> QED
    BY <1>1, <1>2, <2>1 DEF Leased, Ack
<1> QED
    BY <1>1, <1>5, <1>6, <1>7, <1>8, SMTT(60)

LEMMA InstallIpDhcpInv ==
    ASSUME DhcpInv, InstallIp
    PROVE  DhcpInv'
<1> USE DEF DhcpInv
<1>1. /\ pc = "install" /\ pc' = "finish" /\ ip' = offered_ip
      /\ UNCHANGED <<half, active, got_offer, got_ack, offered_ip, router, heard, overread,
                     connected, net>>
    BY DEF InstallIp, Goto, dhcp, wire
<1>2. ~connected /\ got_ack /\ half = NoMessage
    BY <1>1, SMTT(60) DEF Staged
<1>3. IsFiniteSet(heard')
    BY <1>1, SMTT(60) DEF DhcpTyped
<1>4. DhcpTyped'
    BY <1>1, <1>3 DEF DhcpTyped
<1>5. Staged'
    BY <1>1, <1>2, SMTT(60) DEF Staged
<1>6. ASSUME Alone PROVE FromOne'
    BY <1>1, <1>2, <1>6 DEF FromOne, Ack
<1>7. Alone' => Alone
    BY <1>1 DEF Alone
<1>8. Leased'
    BY <1>1, <1>2 DEF Leased
<1> QED
    BY <1>1, <1>4, <1>5, <1>6, <1>7, <1>8, SMTT(60)

\* The lease is taken: the address was kept from the one server, and so is the
\* router, whatever has come in between.
LEMMA InstallGwDhcpInv ==
    ASSUME DhcpInv, InstallGw
    PROVE  DhcpInv'
<1> USE DEF DhcpInv
<1>1. /\ pc = "finish" /\ pc' = "done" /\ ip' = ip /\ connected' = TRUE
      /\ gw' = IF router # zero THEN router ELSE "default"
      /\ active' = FALSE /\ got_offer' = FALSE /\ got_ack' = FALSE
      /\ net' = {m \in net : m.type = "ACK"}
      /\ UNCHANGED <<half, heard, overread>>
    BY DEF InstallGw, Leave, Goto
<1>2. ~connected /\ got_ack /\ half = NoMessage
    BY <1>1, SMTT(60) DEF Staged
<1>3. IsFiniteSet(heard')
    BY <1>1, SMTT(60) DEF DhcpTyped
<1>4. DhcpTyped'
    BY <1>1, <1>3, Zenon DEF DhcpTyped
<1>5. Staged'
    BY <1>1, <1>2 DEF Staged
<1>6. ASSUME Alone PROVE Leased'
  <2>1. ip \in heard /\ router \in heard /\ Ack(ip) \in net
    BY <1>1, <1>2, <1>6 DEF FromOne
  <2>2. ip = router
    BY <1>6, <2>1 DEF Alone
  <2>3. router # zero
    BY <2>1, Messages, SMTT(60) DEF DhcpTyped
  <2>4. Ack(ip) \in net'
    BY <1>1, <2>1 DEF Ack
  <2> QED
    BY <1>1, <2>2, <2>3, <2>4 DEF Leased, Ack
<1>7. Alone' => Alone
    BY <1>1 DEF Alone
<1> QED
    BY <1>1, <1>4, <1>5, <1>6, <1>7, SMTT(60)

LEMMA FallbackDhcpInv ==
    ASSUME DhcpInv, Fallback
    PROVE  DhcpInv'
<1> USE DEF DhcpInv
<1>1. /\ pc = "fallback" /\ pc' = "done" /\ ip' = "default" /\ connected' = TRUE
      /\ active' = FALSE /\ got_offer' = FALSE /\ got_ack' = FALSE
      /\ net' = {m \in net : m.type = "ACK"}
      /\ UNCHANGED <<half, heard, overread>>
    BY DEF Fallback, Leave, Goto
<1>2. half = NoMessage
    BY <1>1, SMTT(60) DEF Staged
<1>3. IsFiniteSet(heard')
    BY <1>1, SMTT(60) DEF DhcpTyped
<1>4. DhcpTyped'
    BY <1>1, <1>3, Zenon DEF DhcpTyped
<1>5. Staged'
    BY <1>1, <1>2 DEF Staged
<1>6. Leased'
    BY <1>1 DEF Leased
<1> QED
    BY <1>1, <1>4, <1>5, <1>6, SMTT(60)

LEMMA DhcpInvNext ==
    ASSUME DhcpInv, Exchange
    PROVE  DhcpInv'
BY IrqDhcpInv, ParseDhcpInv, TypedDhcpInv, StartDhcpInv, QuietDhcpInv, InstallIpDhcpInv,
   InstallGwDhcpInv, FallbackDhcpInv
   DEF Exchange, Thread

LEMMA DhcpInvInit == DhcpInit => DhcpInv
<1> SUFFICES ASSUME DhcpInit PROVE DhcpInv
    OBVIOUS
<1> USE DEF DhcpInit
<1>1. IsFiniteSet(heard)
    BY FS_EmptySet
<1>2. DhcpTyped
    BY <1>1, ZenonT(60) DEF DhcpTyped
<1>3. Staged
    BY DEF Staged
<1>4. FromOne /\ Leased
    BY DEF FromOne, Leased
<1> QED
    BY <1>2, <1>3, <1>4 DEF DhcpInv

----------------------------------------------------------------------------
(* Theorems *)

LEMMA SameDhcpInv ==
    ASSUME DhcpInv, UNCHANGED dhcpVars
    PROVE  DhcpInv'
<1> USE DEF DhcpInv
<1>1. UNCHANGED <<pc, half, active, got_offer, got_ack, offered_ip, router, heard, overread,
                  ip, gw, connected, net>>
    BY DEF dhcpVars, thread, dhcp, address, wire
<1>2. IsFiniteSet(heard')
    BY <1>1, SMTT(60) DEF DhcpTyped
<1>3. DhcpTyped'
    BY <1>1, <1>2 DEF DhcpTyped
<1>4. Staged'
    BY <1>1 DEF Staged
<1>5. (Alone => FromOne) => (Alone' => FromOne')
    BY <1>1, SameOne, SMTT(60)
<1>6. (Alone => Leased) => (Alone' => Leased')
    BY <1>1 DEF Alone, Leased, Ack
<1> QED
    BY <1>1, <1>3, <1>4, <1>5, <1>6

LEMMA SamePingInv ==
    ASSUME PingInv, UNCHANGED pingVars
    PROVE  PingInv'
<1> USE DEF PingInv, pingVars
<1>1. GenuineReply'
    BY SameLines
<1>2. IsFiniteSet(reported)'
    BY DEF PingTyped
<1>3. PingTyped'
    BY <1>2, SMTT(60) DEF PingTyped
<1>4. Filled' /\ Earlier'
    BY DEF Filled, Earlier
<1> QED
    BY <1>1, <1>3, <1>4

\* The inductive invariant holds in every state.
THEOREM NetInvariance == Spec => []NetInv
<1>1. Init => NetInv
    BY DhcpInvInit, PingInvInit DEF Init, NetInv
<1>2. NetInv /\ [Next]_vars => NetInv'
  <2> SUFFICES ASSUME NetInv, [Next]_vars PROVE NetInv'
    OBVIOUS
  <2>1. DhcpInv /\ PingInv
    BY DEF NetInv
  <2>2. CASE Startup
    BY <2>1, <2>2, DhcpInvNext, SamePingInv DEF Startup, NetInv
  <2>3. CASE Pinging
    BY <2>1, <2>3, PingInvNext, SameDhcpInv DEF Pinging, NetInv
  <2>4. CASE Rest \/ UNCHANGED vars
    <3>1. UNCHANGED dhcpVars /\ UNCHANGED pingVars
      BY <2>4 DEF Rest, vars
    <3> QED
      BY <2>1, <3>1, SameDhcpInv, SamePingInv DEF NetInv
  <2> QED
    BY <2>2, <2>3, <2>4 DEF Next
<1> QED
    BY <1>1, <1>2, PTL DEF Spec

\* No byte is read that was not received, whatever the headers and options of
\* the frames say.
THEOREM ReadsWithinFrame == Spec => []FrameReadsInside
<1>1. NetInv => FrameReadsInside
    BY DEF NetInv, DhcpInv, FrameReadsInside
<1> QED
    BY <1>1, NetInvariance, PTL

\* For any number of servers: a machine that has heard one server only uses the
\* address and the router that server acknowledged.
THEOREM LeaseAcknowledged == Spec => []LeaseIsAcked
<1>1. NetInv => LeaseIsAcked
  <2> SUFFICES ASSUME NetInv, connected, Cardinality(heard) <= 1
               PROVE  \/ ip = "default"
                      \/ ip = gw /\ [type |-> "ACK", server |-> ip] \in net
    BY DEF LeaseIsAcked
  <2>1. Alone
    <3> SUFFICES ASSUME NEW x \in heard, NEW y \in heard, x # y PROVE FALSE
      BY DEF Alone
    <3>1. IsFiniteSet(heard)
      BY DEF NetInv, DhcpInv, DhcpTyped
    <3>2. Cardinality({x}) = 1 /\ IsFiniteSet({x})
      BY FS_Singleton, Zenon
    <3>3. Cardinality({x} \cup {y}) = 2
      BY <3>2, FS_AddElement
    <3>4. {x} \cup {y} \subseteq heard
      OBVIOUS
    <3>5. Cardinality({x} \cup {y}) <= Cardinality(heard) /\ Cardinality(heard) \in Nat
      BY <3>1, <3>4, FS_Subset, FS_CardinalityType
    <3> QED
      BY <3>3, <3>5
  <2> QED
    BY <2>1 DEF NetInv, DhcpInv, Leased, Ack
<1> QED
    BY <1>1, NetInvariance, PTL

\* For any number of requests and runs and any word size: a line of ping rests
\* on the reply to its request, and the statistics count these lines.
THEOREM RepliesGenuine == Spec => []GenuineReply
<1>1. NetInv => GenuineReply
    BY DEF NetInv, PingInv
<1> QED
    BY <1>1, NetInvariance, PTL

\* The address and the router stay as startup leaves them.
THEOREM AddressKept == Spec => AddressStable
<1>1. NetInv /\ [Next]_vars => [connected => UNCHANGED address]_address
  <2> SUFFICES ASSUME NetInv, [Next]_vars, connected PROVE UNCHANGED address
    OBVIOUS
  <2>1. pc = "done"
    BY SMTT(60) DEF NetInv, DhcpInv, Staged
  <2>2. CASE Startup
    <3>1. ~Thread
      BY <2>1, Zenon DEF Thread, Start, LoopHead, PollParse, PollTyped, PollDone, Check, RequestIp,
                  RequestSend, InstallIp, InstallGw, Fallback
    <3> QED
      BY <2>2, <3>1, ZenonT(60) DEF Startup, Exchange, StartupTick, IrqDeliver, ServerReply
  <2>3. CASE Pinging \/ Rest \/ UNCHANGED vars
    BY <2>3 DEF Pinging, Rest, vars, dhcpVars
  <2> QED
    BY <2>2, <2>3 DEF Next
<1> QED
    BY <1>1, NetInvariance, PTL DEF Spec, AddressStable
=============================================================================
