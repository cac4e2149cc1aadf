---------------------------------- MODULE Dhcp ----------------------------------
(***************************************************************************)
(* The DHCP exchange of start-up (r_dhcp_client.c) on channel 0, polled by *)
(* the main program against the wait_timer of the T4 driver, and the       *)
(* servers and the network it meets.                                       *)
(*                                                                         *)
(* The client's transaction identifier is a constant, and it looks at      *)
(* nothing else that would tell its own exchange from the one of another   *)
(* board with this program or from one before a reset.  Whatever has been  *)
(* sent may arrive later, any number of times or never.  Servers           *)
(* (external) keep to RFC 2131: an address is kept for the board it was    *)
(* offered to, and acknowledged to that board only.                        *)
(***************************************************************************)
EXTENDS Integers, Sequences

CONSTANTS
  Addresses,     \* what the servers have to give
  NoAddress,
  DHCP_TIMEOUT,
  RING,          \* receive descriptors of channel 0
  RESTARTS       \* bound: resets of the board

ASSUME DhcpAssumption ==
  /\ NoAddress \notin Addresses /\ DHCP_TIMEOUT \in Nat
  /\ RING \in Nat \ {0} /\ RESTARTS \in Nat

VARIABLES
  pc,           \* the function the main program is in
  link_detect,  \* the channels the driver has told to be up
  cable,        \* the channels whose signal is there
  wait_timer,
  ipaddr,       \* dhcp.ipaddr
  env,          \* tcpudp_env[0].ipaddr; NoAddress is the configured default
  ring,         \* frames received and not read
  sent,         \* frames sent so far: by the client, and servers' replies
  boot,         \* number of resets so far
  intruder      \* the ACK the client took was of another exchange

dhcpVars == <<pc, link_detect, cable, wait_timer, ipaddr, env, ring, sent,
              boot, intruder>>

(* A frame: "of" is the boot whose exchange it belongs to, or Else.        *)
Else == RESTARTS + 1
Frame(type, ip, of) == [type |-> type, ip |-> ip, of |-> of]
Noise == Frame("other", NoAddress, Else)
Types == {"DISCOVER", "OFFER", "REQUEST", "ACK", "NAK", "other"}
Frames == [type : Types, ip : Addresses \cup {NoAddress}, of : 0 .. Else]

Go(from, to) == pc = from /\ pc' = to

DhcpInit ==
  /\ pc = "start_system_time" /\ link_detect = {} /\ wait_timer = 0
  /\ ipaddr = NoAddress /\ env = NoAddress /\ ring = <<>>
  /\ intruder = FALSE

DhcpReset ==
  /\ pc' = "start_system_time" /\ link_detect' = {} /\ wait_timer' = 0
  /\ ipaddr' = NoAddress /\ env' = NoAddress /\ ring' = <<>>
  /\ intruder' = FALSE

-----------------------------------------------------------------------------
(* lan_write on channel 0, whose result is not looked at.                  *)
LanWrite(f) == sent' = IF 0 \in link_detect THEN sent \cup {f} ELSE sent

Sends(f) ==
  /\ LanWrite(f) /\ wait_timer' = 0   \* reset_timer of the wait that follows
  /\ UNCHANGED <<link_detect, cable, ipaddr, env, ring, boot, intruder>>

Discover ==
  /\ Go("dhcp_discover", "dhcp_wait_offer")
  /\ Sends(Frame("DISCOVER", NoAddress, boot))

Request ==
  /\ Go("dhcp_request", "dhcp_wait_ack")
  /\ Sends(Frame("REQUEST", ipaddr, boot))

Waiting == {"dhcp_wait_offer", "dhcp_wait_ack"}

TimesOut ==
  /\ pc \in Waiting /\ wait_timer > DHCP_TIMEOUT
  /\ pc' = "CloseTimer"
  /\ UNCHANGED <<link_detect, cable, wait_timer, ipaddr, env, ring, sent,
                 boot, intruder>>

(* One turn of a wait: lan_read and rcv_buff_release.                      *)
Reads ==
  /\ wait_timer <= DHCP_TIMEOUT /\ ring # <<>>
  /\ ring' = Tail(ring)
  /\ UNCHANGED <<link_detect, cable, wait_timer, env, sent, boot>>

WaitOffer ==
  LET f == Head(ring) IN
  /\ pc = "dhcp_wait_offer" /\ Reads
  /\ pc' = IF f.type = "OFFER" THEN "dhcp_request" ELSE pc
  /\ ipaddr' = IF f.type = "OFFER" THEN f.ip ELSE ipaddr
  /\ UNCHANGED intruder

Acked(ends) ==
  /\ pc = "dhcp_wait_ack" /\ Reads
  /\ pc' = IF ends THEN "set_tcpudp_env" ELSE pc
  /\ intruder' = (intruder \/ (ends /\ Head(ring).of # boot))
  /\ UNCHANGED ipaddr

(* Mutant: the message type is not looked at. *)
WaitAckAny == Acked(Head(ring).type # "other")

(* The mask, the gateway and the name servers are the options of this      *)
(* frame, as far as it has them.                                           *)
WaitAck == Acked(Head(ring).type = "ACK")

(* main, when r_dhcp_open has returned 0.                                  *)
SetEnv ==
  /\ Go("set_tcpudp_env", "CloseTimer") /\ env' = ipaddr
  /\ UNCHANGED <<link_detect, cable, wait_timer, ipaddr, ring, sent, boot,
                 intruder>>

DhcpStep == Discover \/ TimesOut \/ WaitOffer \/ Request \/ WaitAck \/ SetEnv

-----------------------------------------------------------------------------
(* The servers.                                                            *)
boardVars == <<pc, link_detect, cable, wait_timer, ipaddr, env, boot, intruder>>

Given(type, boards) == {f.ip : f \in {g \in sent : g.type = type /\ g.of \in boards}}
Ours == 0 .. RESTARTS
Leased == Given("ACK", Ours)
Others == Given("OFFER", {Else}) \cup Given("ACK", {Else})

ServerOffers ==
  \E f \in sent, a \in Addresses \ Others :
    /\ f.type = "DISCOVER" /\ sent' = sent \cup {Frame("OFFER", a, f.of)}
    /\ UNCHANGED <<boardVars, ring>>

ServerAcks ==
  \E f \in sent :
    /\ f.type = "REQUEST" /\ f.ip \in Given("OFFER", Ours)
    /\ sent' = sent \cup {Frame("ACK", f.ip, f.of)}
    /\ UNCHANGED <<boardVars, ring>>

(* A reply broadcast to another board of this make.                        *)
ServesOther ==
  \E a \in Addresses \ Given("OFFER", Ours), type \in {"OFFER", "ACK"} :
    /\ sent' = sent \cup {Frame(type, a, Else)}
    /\ UNCHANGED <<boardVars, ring>>

(* From a server that has not offered the address.                         *)
Refusals == {Frame("NAK", NoAddress, f.of) : f \in {g \in sent : g.type = "REQUEST"}}

(* The driver receives; what comes later than the exchange is T4's.        *)
Receive ==
  /\ pc \in {"link", "link0", "link1", "dhcp_discover", "dhcp_request"} \cup Waiting
  /\ 0 \in link_detect \cap cable /\ Len(ring) < RING
  /\ \E f \in {Noise} \cup Refusals \cup {g \in sent : g.type \in {"OFFER", "ACK"}} :
       ring' = Append(ring, f)
  /\ UNCHANGED <<boardVars, sent>>

NetStep ==
  ServerOffers \/ ServerAcks \/ ServesOther \/ Receive

(* An address the board configures has been leased to it, unless the ACK   *)
(* it took belongs to another exchange: an address refused, not answered   *)
(* for or offered to another board is never used (r_dhcp_open, main).      *)
AddressIsLeased == env \in Addresses => env \in Leased \/ intruder
=============================================================================
