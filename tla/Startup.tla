--------------------------------- MODULE Startup ---------------------------------
(***************************************************************************)
(* main (main.c) from reset to its loop: the system time, the Ethernet     *)
(* channels, T4's timer for the time of the DHCP exchange, and again for   *)
(* the TCP/IP library.  The interrupts of the timers come between any two  *)
(* steps.  The USB driver, started in between, takes no part.              *)
(***************************************************************************)
EXTENDS Cmt, Dhcp

CONSTANT CHANGES   \* bound: times that a cable is put in or pulled

ASSUME StartupAssumption == CHANGES \in Nat

VARIABLES
  tcpip_flag,   \* the interrupts run the library
  moves         \* times that a cable may still be moved

vars == <<cmtVars, dhcpVars, tcpip_flag, moves>>
rest == <<link_detect, cable, wait_timer, ipaddr, env, ring, sent, boot, intruder>>
timers == <<cmt_lock, locks, modes, callbacks, powered, counting, channel>>

Ports == {0, 1}
Functions == {"start_system_time", "lan_open", "OpenTimer", "link", "link0", "link1",
              "dhcp_discover", "dhcp_wait_offer", "dhcp_request", "dhcp_wait_ack",
              "set_tcpudp_env", "CloseTimer", "tcpudp_open", "loop",
              "no_lan"}

Init ==
  /\ CmtInit /\ DhcpInit /\ sent = {} /\ boot = 0
  /\ cable \in SUBSET Ports /\ tcpip_flag = FALSE /\ moves = CHANGES

-----------------------------------------------------------------------------
StartSystemTime ==
  /\ Go("start_system_time", "lan_open") /\ Create("clock")
  /\ UNCHANGED <<timers, rest, tcpip_flag, moves>>

(* A PHY may not come out of its reset: main stops.                        *)
LanOpen ==
  /\ pc = "lan_open" /\ call = NotCalled /\ pc' \in {"OpenTimer", "no_lan"}
  /\ UNCHANGED <<cmtVars, rest, tcpip_flag, moves>>

OpenTimer ==
  /\ Go("OpenTimer", "link") /\ Create("t4")
  /\ UNCHANGED <<timers, rest, tcpip_flag, moves>>

(* R_ETHER_LinkProcess and callback_ether.                                 *)
LinkProcess(p) ==
  /\ link_detect' = IF p \in cable THEN link_detect \cup {p} ELSE link_detect \ {p}
  /\ UNCHANGED <<cmtVars, cable, wait_timer, ipaddr, env, ring, sent, boot,
                 intruder, tcpip_flag, moves>>

(* Mutant: waits for both channels. *)
LinkDetectedBoth ==
  /\ pc = "link" /\ call = NotCalled
  /\ pc' = IF link_detect # Ports THEN "link0" ELSE "dhcp_discover"
  /\ UNCHANGED <<cmtVars, rest, tcpip_flag, moves>>

LinkDetected ==
  /\ pc = "link" /\ call = NotCalled
  /\ pc' = IF link_detect = {} THEN "link0" ELSE "dhcp_discover"
  /\ UNCHANGED <<cmtVars, rest, tcpip_flag, moves>>

WaitLink ==
  \/ Go("link0", "link1") /\ LinkProcess(0)
  \/ Go("link1", "link") /\ LinkProcess(1)

Exchange == DhcpStep /\ UNCHANGED <<cmtVars, tcpip_flag, moves>>

CloseTimer ==
  /\ Go("CloseTimer", "tcpudp_open") /\ Stop("t4")
  /\ UNCHANGED <<timers, rest, tcpip_flag, moves>>

(* tcpudp_open has the driver call tcpudp_act_cyc(1).                      *)
TcpudpOpen ==
  /\ Go("tcpudp_open", "loop") /\ Create("t4") /\ tcpip_flag' = TRUE
  /\ UNCHANGED <<timers, rest, moves>>

MainLoop ==
  /\ pc = "loop" /\ call = NotCalled /\ \E p \in Ports : LinkProcess(p)
  /\ UNCHANGED pc

Driver == CmtStep /\ UNCHANGED <<dhcpVars, tcpip_flag, moves>>

Main ==
  \/ StartSystemTime \/ LanOpen \/ OpenTimer \/ LinkDetected \/ WaitLink
  \/ Exchange \/ CloseTimer \/ TcpudpOpen \/ MainLoop \/ Driver

-----------------------------------------------------------------------------
(* Beyond DHCP_TIMEOUT the value makes no difference.                      *)
TimerInterrupt ==
  /\ \E c \in Channels : Counts(c) /\ callbacks[c] = "t4"
  /\ wait_timer <= DHCP_TIMEOUT
  /\ wait_timer' = wait_timer + 1
  /\ UNCHANGED <<cmtVars, pc, link_detect, cable, ipaddr, env, ring, sent, boot,
                 intruder, tcpip_flag, moves>>

Network == NetStep /\ UNCHANGED <<cmtVars, tcpip_flag, moves>>

CableMoves ==
  /\ moves > 0 /\ moves' = moves - 1
  /\ \E p \in Ports : cable' = (cable \ {p}) \cup ({p} \ cable)
  /\ UNCHANGED <<cmtVars, pc, link_detect, wait_timer, ipaddr, env, ring, sent,
                 boot, intruder, tcpip_flag>>

(* Power fails: the servers and the network keep what they have.           *)
Restart ==
  /\ boot < RESTARTS /\ boot' = boot + 1
  /\ CmtReset /\ DhcpReset /\ tcpip_flag' = FALSE
  /\ UNCHANGED <<cable, sent, moves>>

Next == Main \/ TimerInterrupt \/ Network \/ CableMoves \/ Restart

Fairness == WF_vars(Main) /\ WF_vars(TimerInterrupt)
Spec == Init /\ [][Next]_vars /\ Fairness

-----------------------------------------------------------------------------
TypeOK ==
  /\ CmtTypeOK /\ pc \in Functions
  /\ link_detect \subseteq Ports /\ cable \subseteq Ports
  /\ wait_timer \in 0 .. DHCP_TIMEOUT + 1
  /\ ipaddr \in Addresses \cup {NoAddress} /\ env \in Addresses \cup {NoAddress}
  /\ ring \in Seq(Frames) /\ sent \subseteq Frames
  /\ boot \in 0 .. RESTARTS /\ intruder \in BOOLEAN
  /\ tcpip_flag \in BOOLEAN /\ moves \in 0 .. CHANGES

(* Once started, the system time never stops, although T4's timer is       *)
(* created, stopped and created again on the other channel of its module:  *)
(* its counter runs with its own callback (power_off, cmt_find_channel).   *)
ClockRuns ==
  pc = "start_system_time" \/ call.for = "clock"
    \/ (/\ channel["clock"] \in Channels /\ Counts(channel["clock"])
        /\ callbacks[channel["clock"]] = "clock")

(* While some cable is in, main comes to its loop in the end, with or      *)
(* without an address, whatever becomes of the exchange: a dead server, a  *)
(* flood of other frames, a link on the other port or lost on the way      *)
(* (r_dhcp_open, main).                                                    *)
StartsUp == <>[](cable # {}) => <>[](pc \in {"loop", "no_lan"})
=============================================================================
