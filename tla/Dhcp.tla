-------------------------------- MODULE Dhcp --------------------------------
(***************************************************************************)
(* Network startup: net_startup_connect acquires an address by DHCP, or    *)
(* falls back to a static one when no server answers in time.              *)
(*                                                                         *)
(* The boot thread runs with interrupts enabled.  Received packets are     *)
(* handled by rtl_poll_rx, which both the thread (in its wait loops) and   *)
(* the interrupt handler of the card call; a packet the thread is in the   *)
(* middle of can be overtaken by packets that the interrupt handles.  The  *)
(* network delivers replies late, repeatedly, in any order, or never.      *)
(*                                                                         *)
(* An address, a router and a server id are all named by the server they   *)
(* come from.  Only replies to this exchange (right xid and hardware       *)
(* address) are modelled; the code drops the others.  A reply comes in any *)
(* of the frames of module Frames, some of which lack options, have wrong  *)
(* lengths or are cut short.                                               *)
(***************************************************************************)
EXTENDS Frames, FiniteSets

CONSTANTS
    Servers,               \* DHCP servers on the network
    Timeout,               \* ticks each wait lasts, MGCORE_HZ * 3
    MaxPoll                \* packets rtl_poll_rx takes before it returns, 65

ASSUME DhcpAssumption ==
    /\ Timeout \in Nat \ {0} /\ MaxPoll \in Nat \ {0}
    /\ Servers \cap {"zero", "default", "garbled"} = {}

zero == "zero"             \* an address or router that is not set
Value == Servers \cup {zero, "default"}
Message == [type : {"OFFER", "ACK", "NAK"}, server : Servers]
NoMessage == [type |-> "none"]
Garbled == "garbled"

VARIABLES
    pc,                    \* where the thread is
    waiting,               \* the wait it is in: for an offer or for an ack
    waited,                \* ticks since that wait began
    polled,                \* packets taken by this call of rtl_poll_rx
    half,                  \* packet whose options the thread has parsed
    active, got_offer, got_ack, offered_ip, server_ip, router,  \* g_dhcp
    heard,                 \* history: servers whose replies were handled, and
                           \* Garbled if one of those lacked an option
    overread,              \* history: a byte was read that was not received
    req_ip,                \* address copied into the request
    ip, gw, connected,     \* g_ip_addr, g_ip_gw, g_connected
    discovered,            \* whether the DISCOVER was sent
    requested,             \* the REQUEST that was sent, or NoMessage
    net                    \* replies sent by the servers

dhcp == <<active, got_offer, got_ack, offered_ip, server_ip, router, heard, overread>>
address == <<ip, gw, connected>>
wire == <<discovered, requested, net>>
thread == <<pc, waiting, waited, polled, half, req_ip>>
dhcpVars == <<thread, dhcp, address, wire>>

DhcpTypeOK ==
    /\ pc \in {"start", "head", "poll", "half", "check", "request", "send",
               "install", "finish", "fallback", "done"}
    /\ waiting \in {"OFFER", "ACK"}
    /\ waited \in 0..Timeout
    /\ polled \in 0..MaxPoll
    /\ half \in Message \cup {NoMessage}
    /\ {active, got_offer, got_ack, connected, discovered} \subseteq BOOLEAN
    /\ {offered_ip, server_ip, router, req_ip, ip, gw} \subseteq Value
    /\ requested \in [ip : Servers, server : Servers] \cup {NoMessage}
    /\ net \subseteq Message
    /\ heard \subseteq Servers \cup {Garbled} /\ overread \in BOOLEAN

\* After net_init, with the card working.
DhcpInit ==
    /\ pc = "start" /\ waiting = "OFFER" /\ waited = 0 /\ polled = 0
    /\ half = NoMessage
    /\ active = FALSE /\ got_offer = FALSE /\ got_ack = FALSE
    /\ offered_ip = zero /\ server_ip = zero /\ router = zero /\ heard = {}
    /\ overread = FALSE /\ req_ip = zero
    /\ ip = zero /\ gw = "default" /\ connected = FALSE
    /\ discovered = FALSE /\ requested = NoMessage /\ net = {}

-----------------------------------------------------------------------------
(* The servers (external).                                                 *)

ServerReply ==
    /\ \E s \in Servers :
          \/ /\ discovered
             /\ net' = net \cup {[type |-> "OFFER", server |-> s]}
          \/ /\ requested # NoMessage /\ requested.server = s
             /\ net' = net \cup {[type |-> IF requested.ip = s THEN "ACK" ELSE "NAK",
                                 server |-> s]}
    /\ UNCHANGED <<thread, dhcp, address, discovered, requested>>

-----------------------------------------------------------------------------
(* Handling a packet.                                                      *)

\* dhcp_parse_options stores what it finds before the type is looked at; a
\* NAK names no router.
RouterIn(m, o) == IF ROUTER \in o.found /\ m.type # "NAK" THEN m.server ELSE router
Parsed(m, o) ==
    /\ server_ip' = IF SERVER_ID \in o.found THEN m.server ELSE server_ip
    /\ heard' = CASE o.found = {} -> heard
                  [] o.found = Whole -> heard \cup {m.server}
                  [] OTHER -> heard \cup {m.server, Garbled}
    /\ overread' = (overread \/ ~o.inside)

\* The rest of dhcp_process_packet, given the router the options left.  Both
\* kinds of reply set offered_ip.
Typed(m, left) ==
    /\ offered_ip' = IF m.type \in {"OFFER", "ACK"} THEN m.server ELSE offered_ip
    /\ router' = IF m.type \in {"OFFER", "ACK"} /\ left = zero THEN "default" ELSE left
    /\ got_offer' = (got_offer \/ m.type = "OFFER")
    /\ got_ack' = (got_ack \/ m.type = "ACK")

\* A reply without a type is no more than its options.
TypeOf(m, o) == IF MSG_TYPE \in o.found THEN m ELSE NoMessage

\* net_handle_irq: a packet handled from start to end by the interrupt.
IrqDeliver ==
    /\ active
    /\ \E m \in net, o \in Outcomes : Parsed(m, o) /\ Typed(TypeOf(m, o), RouterIn(m, o))
    /\ UNCHANGED <<thread, active, address, wire>>

-----------------------------------------------------------------------------
(* The thread: net_dhcp_acquire.                                           *)

Goto(label) == pc' = label

\* The start of a wait loop.
BeginWait(kind) ==
    /\ waiting' = kind /\ waited' = 0
    /\ Goto("head")
    /\ UNCHANGED polled

dhcp_send_discover == discovered' = TRUE

\* net_dhcp_acquire begins; sending may fail.
Start ==
    /\ pc = "start"
    /\ got_offer' = FALSE /\ got_ack' = FALSE
    /\ offered_ip' = zero /\ server_ip' = zero /\ router' = zero /\ heard' = {}
    /\ UNCHANGED overread
    /\ \/ active' = TRUE /\ dhcp_send_discover /\ BeginWait("OFFER")
       \/ /\ active' = FALSE
          /\ Goto("fallback")
          /\ UNCHANGED <<discovered, waiting, waited, polled>>
    /\ UNCHANGED <<half, req_ip, address, requested, net>>

Answered == IF waiting = "OFFER" THEN got_offer ELSE got_ack

\* Mutant: the loop has no end.
LoopHead_forever ==
    /\ pc = "head"
    /\ Goto("poll") /\ polled' = 0
    /\ UNCHANGED <<waiting, waited, half, req_ip, dhcp, address, wire>>

\* The loop condition.  After the wait for an offer got_offer is looked at
\* again; after the wait for an ack got_ack is not.
LoopHead ==
    /\ pc = "head"
    /\ IF waited < Timeout
       THEN Goto("poll") /\ polled' = 0 /\ UNCHANGED active
       ELSE /\ UNCHANGED polled
            /\ IF waiting = "OFFER" /\ got_offer
               THEN Goto("request") /\ UNCHANGED active
               ELSE Goto("fallback") /\ active' = FALSE
    /\ UNCHANGED <<waiting, waited, half, req_ip, got_offer, got_ack, offered_ip,
                   server_ip, router, heard, overread, address, wire>>

\* rtl_poll_rx takes a packet: up to the end of dhcp_parse_options.
PollParse ==
    /\ pc = "poll" /\ polled < MaxPoll
    /\ \E m \in net, o \in Outcomes :
          Parsed(m, o) /\ router' = RouterIn(m, o) /\ half' = TypeOf(m, o)
    /\ polled' = polled + 1
    /\ Goto("half")
    /\ UNCHANGED <<waiting, waited, req_ip, active, got_offer, got_ack,
                   offered_ip, address, wire>>

\* The rest of that packet.
PollTyped ==
    /\ pc = "half"
    /\ Typed(half, router)
    /\ half' = NoMessage
    /\ Goto("poll")
    /\ UNCHANGED <<waiting, waited, polled, req_ip, active, server_ip, heard, overread,
                   address, wire>>

\* rtl_poll_rx returns.
PollDone ==
    /\ pc = "poll"
    /\ Goto("check")
    /\ UNCHANGED <<waiting, waited, polled, half, req_ip, dhcp, address, wire>>

\* Mutant: an offer is enough to take the address.
Check_offer ==
    /\ pc = "check"
    /\ Goto(IF ~got_offer THEN "head"
            ELSE IF waiting = "OFFER" THEN "request" ELSE "install")
    /\ UNCHANGED <<waiting, waited, polled, half, req_ip, dhcp, address, wire>>

\* The test after the poll; with no answer the thread halts until the next
\* interrupt and goes round.
Check ==
    /\ pc = "check"
    /\ Goto(IF ~Answered THEN "head"
            ELSE IF waiting = "OFFER" THEN "request" ELSE "install")
    /\ UNCHANGED <<waiting, waited, polled, half, req_ip, dhcp, address, wire>>

\* dhcp_send_request tests the fields and copies the address ...
RequestIp ==
    /\ pc = "request"
    /\ IF got_offer /\ server_ip # zero /\ offered_ip # zero
       THEN Goto("send") /\ req_ip' = offered_ip /\ UNCHANGED active
       ELSE Goto("fallback") /\ active' = FALSE /\ UNCHANGED req_ip
    /\ UNCHANGED <<waiting, waited, polled, half, got_offer, got_ack, offered_ip,
                   server_ip, router, heard, overread, address, wire>>

\* ... then the server id, and sends, which may fail.
RequestSend ==
    /\ pc = "send"
    /\ \/ /\ requested' = [ip |-> req_ip, server |-> server_ip]
          /\ BeginWait("ACK")
          /\ UNCHANGED active
       \/ /\ Goto("fallback")
          /\ active' = FALSE
          /\ UNCHANGED <<requested, waiting, waited, polled>>
    /\ UNCHANGED <<half, req_ip, got_offer, got_ack, offered_ip, server_ip,
                   router, heard, overread, address, discovered, net>>

\* The address is taken from offered_ip as it is now ...
InstallIp ==
    /\ pc = "install"
    /\ ip' = offered_ip
    /\ Goto("finish")
    /\ UNCHANGED <<waiting, waited, polled, half, req_ip, dhcp, gw, connected,
                   wire>>

\* Mutant: the exchange is left open and the thread goes back to waiting.
InstallGw_active ==
    /\ pc = "finish"
    /\ gw' = router
    /\ connected' = TRUE
    /\ Goto("head")
    /\ UNCHANGED <<waiting, waited, polled, half, req_ip, dhcp, ip, wire>>

\* The thread goes on.  What it had on its stack is gone, g_dhcp is not read
\* again, and servers that still reply do it in vain: these are forgotten, but
\* for the acknowledgements.
Leave ==
    /\ Goto("done")
    /\ waiting' = "OFFER" /\ waited' = 0 /\ polled' = 0 /\ req_ip' = zero
    /\ active' = FALSE /\ got_offer' = FALSE /\ got_ack' = FALSE
    /\ offered_ip' = zero /\ server_ip' = zero /\ router' = zero
    /\ discovered' = FALSE /\ requested' = NoMessage
    /\ net' = {m \in net : m.type = "ACK"}
    /\ UNCHANGED <<half, heard, overread>>

\* ... and the router a moment later; then the exchange is over.
InstallGw ==
    /\ pc = "finish"
    /\ gw' = IF router # zero THEN router ELSE "default"
    /\ connected' = TRUE
    /\ Leave
    /\ UNCHANGED ip

\* net_startup_connect without a lease.
Fallback ==
    /\ pc = "fallback"
    /\ ip' = "default" /\ gw' = "default" /\ connected' = TRUE
    /\ Leave

\* The timer interrupt, as far as the waits count it.
StartupTick ==
    /\ pc \in {"head", "poll", "half", "check"}
    /\ waited < Timeout
    /\ waited' = waited + 1
    /\ UNCHANGED <<pc, waiting, polled, half, req_ip, dhcp, address, wire>>

Thread ==
    \/ Start \/ LoopHead \/ PollParse \/ PollTyped \/ PollDone \/ Check
    \/ RequestIp \/ RequestSend \/ InstallIp \/ InstallGw \/ Fallback

Exchange == Thread \/ StartupTick \/ IrqDeliver \/ ServerReply

-----------------------------------------------------------------------------
(* Properties.                                                             *)

\* Startup ends, connected, whatever the servers send or do not send: the
\* kernel never hangs before the shell.
StartupEnds == <>(pc = "done" /\ connected)

\* Once the machine is connected its address and router stay as they are:
\* replies that are late or repeated do not move it, through any number of pings.
AddressStable == [][connected => UNCHANGED address]_address

\* No byte is looked at that was not received, whatever the length fields of
\* the headers and options say.
FrameReadsInside == ~overread

\* net_startup_connect reports "DHCP lease acquired": if the replies handled
\* all came from one server and were whole, late and repeated ones included, the
\* address and router in use are the ones it acknowledged.  (With two servers the
\* offer of one may overwrite offered_ip or router after the ack of the other
\* and before InstallIp or InstallGw reads it.)
LeaseIsAcked ==
    connected /\ Cardinality(heard) <= 1 =>
        \/ ip = "default"
        \/ ip = gw /\ [type |-> "ACK", server |-> ip] \in net

=============================================================================
