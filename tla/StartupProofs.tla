------------------------------ MODULE StartupProofs ------------------------------
(***************************************************************************)
(* Theorems about Startup, for any number of channels, any sharing of      *)
(* modules, any addresses, timeout, ring and bounds, and about SysTime.    *)
(***************************************************************************)
EXTENDS Startup, SysTime, TLAPS

(* How far the creation of the system time's channel has come; afterwards  *)
(* T4's calls meet another channel.                                        *)
Clock == channel["clock"]

Creating == {"lock", "find", "power", "mode", "callback", "start", "unlock"}
Stopping == {"stop", "off", "disable", "free"}
Past(stage) ==
  CASE stage = "power" -> {"power", "mode", "callback", "start", "unlock"}
    [] stage = "mode" -> {"mode", "callback", "start", "unlock"}
    [] stage = "callback" -> {"callback", "start", "unlock"}
    [] stage = "start" -> {"start", "unlock"}

ClockBegins ==
  /\ pc = "lan_open" /\ call.at \in Creating /\ channel["t4"] = NoChannel
  /\ call.at \in Past("power") => Clock \in locks
  /\ call.at \in Past("mode") => UnitOf[Clock] \in powered
  /\ call.at \in Past("callback") => modes[Clock] = "PERIODIC"
  /\ call.at \in Past("start") => callbacks[Clock] = "clock"
  /\ call.at = "unlock" => Clock \in counting

ClockGoes ==
  /\ Clock \in locks /\ Counts(Clock)
  /\ modes[Clock] = "PERIODIC" /\ callbacks[Clock] = "clock"
  /\ channel["t4"] # Clock
  /\ call.at \in Past("power") \cup Stopping => Chan \in Channels

ClockInv ==
  \/ pc = "start_system_time" /\ call = NotCalled /\ channel["t4"] = NoChannel
  \/ pc # "start_system_time" /\ call.for = "clock" /\ ClockBegins
  \/ pc # "start_system_time" /\ call.for = "t4" /\ ClockGoes

(* What this boot's exchange has sent.                                     *)
Late == {"dhcp_wait_ack", "set_tcpudp_env", "CloseTimer", "tcpudp_open", "loop"}

FramesInv ==
  /\ \A f \in sent :
       /\ f.of \in 0 .. boot \cup {Else}
       /\ f.of = boot /\ f.type \in {"REQUEST", "ACK"} => f.ip = ipaddr /\ pc \in Late
  /\ \A i \in 1 .. Len(ring) : ring[i].type = "ACK" => ring[i] \in sent

LeaseInv ==
  /\ pc = "set_tcpudp_env" => intruder \/ ipaddr \in Leased
  /\ env \in Addresses => pc \in Late
  /\ AddressIsLeased

IInv == TypeOK /\ ClockInv /\ FramesInv /\ LeaseInv

Assumptions == CmtAssumption /\ DhcpAssumption /\ StartupAssumption

LEMMA ConstantsAssumed == Assumptions
BY CmtAssumption, DhcpAssumption, StartupAssumption DEF Assumptions

-----------------------------------------------------------------------------
(* The steps that change the timers only.                                  *)
LEMMA DriverKeepsType == TypeOK /\ ClockInv /\ Driver => CmtTypeOK'
<1> SUFFICES ASSUME TypeOK, ClockInv, Driver PROVE CmtTypeOK'
  OBVIOUS
<1> USE ConstantsAssumed DEF Assumptions, CmtAssumption, TypeOK, CmtTypeOK, Users, Stages,
      At, To, Returns, NotCalled, Chan
<1>1. call.at \in Past("power") \cup Stopping => Chan \in Channels
  <2>1. CASE call = NotCalled
    BY <2>1 DEF Past, Stopping
  <2>2. CASE call.for = "clock" /\ ClockBegins
    BY <2>2 DEF ClockBegins, Clock, Past, Creating, Stopping
  <2>3. CASE ClockGoes
    BY <2>3 DEF ClockGoes
  <2> QED BY <2>1, <2>2, <2>3 DEF ClockInv
<1>2. UnitOf[Chan] \in Units \/ Chan \notin Channels
  OBVIOUS
<1>3. CASE LockState BY <1>3 DEF LockState
<1>4. CASE FindChannel BY <1>4 DEF FindChannel
<1>5. CASE PowerOn BY <1>1, <1>2, <1>5 DEF PowerOn, Past
<1>6. CASE SetMode BY <1>6 DEF SetMode
<1>7. CASE SetCallback BY <1>7 DEF SetCallback
<1>8. CASE CounterStart BY <1>1, <1>8 DEF CounterStart, Past
<1>9. CASE UnlockState BY <1>9 DEF UnlockState
<1>10. CASE CounterStop BY <1>10 DEF CounterStop
<1>11. CASE PowerOff BY <1>11 DEF PowerOff
<1>12. CASE Disable BY <1>12 DEF Disable
<1>13. CASE Unlock BY <1>13 DEF Unlock
<1> QED
  BY <1>3, <1>4, <1>5, <1>6, <1>7, <1>8, <1>9, <1>10, <1>11, <1>12, <1>13
  DEF Driver, CmtStep

LEMMA FrameType ==
  ASSUME TypeOK, NEW type \in Types, NEW a \in Addresses \cup {NoAddress},
         NEW of \in 0 .. Else
  PROVE  /\ Frame(type, a, of) \in Frames /\ Noise \in Frames
         /\ boot \in 0 .. Else /\ Else \notin 0 .. RESTARTS /\ Else \in Nat
BY ConstantsAssumed
DEF Assumptions, DhcpAssumption, TypeOK, Frame, Noise, Frames, Types, Else

LEMMA RepliesType ==
  ASSUME sent \subseteq Frames, ServerOffers \/ ServerAcks \/ ServesOther
  PROVE  sent' \subseteq Frames
<1>1. \A f \in sent : f.ip \in Addresses \cup {NoAddress} /\ f.of \in 0 .. Else
  BY DEF Frames
<1>2. \A type \in {"OFFER", "ACK"}, a \in Addresses \cup {NoAddress}, of \in 0 .. Else :
        Frame(type, a, of) \in Frames
  BY DEF Frame, Frames, Types
<1>3. Else \in 0 .. Else
  BY ConstantsAssumed DEF Assumptions, DhcpAssumption, Else
<1>4. CASE ServerOffers
  <2>1. PICK f \in sent, a \in Addresses \ Others :
          /\ f.type = "DISCOVER" /\ sent' = sent \cup {Frame("OFFER", a, f.of)}
          /\ UNCHANGED <<boardVars, ring>>
    BY <1>4, Zenon DEF ServerOffers
  <2>2. Frame("OFFER", a, f.of) \in Frames
    BY <1>1, <1>2
  <2> QED BY <2>1, <2>2
<1>5. CASE ServerAcks
  <2>1. PICK f \in sent :
          /\ f.type = "REQUEST" /\ f.ip \in Given("OFFER", Ours)
          /\ sent' = sent \cup {Frame("ACK", f.ip, f.of)}
          /\ UNCHANGED <<boardVars, ring>>
    BY <1>5, Zenon DEF ServerAcks
  <2>2. Frame("ACK", f.ip, f.of) \in Frames
    BY <1>1, <1>2
  <2> QED BY <2>1, <2>2
<1>6. CASE ServesOther
  <2>1. PICK a \in Addresses \ Given("OFFER", Ours), type \in {"OFFER", "ACK"} :
          /\ sent' = sent \cup {Frame(type, a, Else)}
          /\ UNCHANGED <<boardVars, ring>>
    BY <1>6, Zenon DEF ServesOther
  <2>2. Frame(type, a, Else) \in Frames
    BY <1>2, <1>3
  <2> QED BY <2>1, <2>2
<1> QED BY <1>4, <1>5, <1>6

LEMMA TypeStep == TypeOK /\ ClockInv /\ [Next]_vars => TypeOK'
<1> SUFFICES ASSUME TypeOK, ClockInv, [Next]_vars PROVE TypeOK'
  OBVIOUS
<1> USE ConstantsAssumed DEF Assumptions, CmtAssumption, DhcpAssumption,
      StartupAssumption, TypeOK, Functions, Go
<1>1. CASE Driver
  <2>1. CmtTypeOK' BY <1>1, DriverKeepsType
  <2> QED BY <1>1, <2>1 DEF Driver, dhcpVars
<1>2. CASE StartSystemTime \/ OpenTimer \/ TcpudpOpen \/ CloseTimer
  <2>1. call' \in [at : Stages, for : Users]
    BY <1>2 DEF StartSystemTime, OpenTimer, TcpudpOpen, CloseTimer, Create, Stop,
      CmtTypeOK, Stages, Users
  <2>2. CmtTypeOK'
    BY <1>2, <2>1 DEF StartSystemTime, OpenTimer, TcpudpOpen, CloseTimer,
      CmtTypeOK, timers
  <2>3. CASE StartSystemTime BY <2>2, <2>3 DEF StartSystemTime, rest
  <2>4. CASE OpenTimer BY <2>2, <2>4 DEF OpenTimer, rest
  <2>5. CASE TcpudpOpen BY <2>2, <2>5 DEF TcpudpOpen, rest
  <2>6. CASE CloseTimer BY <2>2, <2>6 DEF CloseTimer, rest
  <2> QED BY <1>2, <2>3, <2>4, <2>5, <2>6
<1>3. CASE LanOpen \/ LinkDetected
  BY <1>3 DEF LanOpen, LinkDetected, CmtTypeOK, cmtVars, rest
<1>4. CASE WaitLink \/ MainLoop
  BY <1>4 DEF WaitLink, MainLoop, LinkProcess, CmtTypeOK, cmtVars, Ports
<1>5. CASE Exchange
  <2>1. CmtTypeOK' BY <1>5 DEF Exchange, CmtTypeOK, cmtVars
  <2>2. CASE Discover \/ Request
    <3>1. /\ Frame("DISCOVER", NoAddress, boot) \in Frames
          /\ Frame("REQUEST", ipaddr, boot) \in Frames
      BY FrameType DEF Types, Else, Frames, Frame
    <3>2. sent' \subseteq Frames
      BY <2>2, <3>1 DEF Discover, Request, Sends, LanWrite
    <3> QED BY <1>5, <2>1, <2>2, <3>2 DEF Exchange, Discover, Request, Sends
  <2>3. CASE WaitOffer \/ WaitAck
    <3>1. ring # <<>> BY <2>3 DEF WaitOffer, WaitAck, Acked, Reads
    <3>2. Head(ring) \in Frames /\ Tail(ring) \in Seq(Frames)
      BY <3>1
    <3>3. Head(ring).ip \in Addresses \cup {NoAddress}
      BY <3>2 DEF Frames
    <3> QED BY <1>5, <2>1, <2>3, <3>2, <3>3
        DEF Exchange, WaitOffer, WaitAck, Acked, Reads
  <2>4. CASE TimesOut \/ SetEnv
    BY <1>5, <2>1, <2>4 DEF Exchange, TimesOut, SetEnv
  <2> QED BY <1>5, <2>2, <2>3, <2>4 DEF Exchange, DhcpStep
<1>6. CASE TimerInterrupt
  BY <1>6 DEF TimerInterrupt, CmtTypeOK, cmtVars
<1>7. CASE Network
  <2>1. CmtTypeOK' BY <1>7 DEF Network, CmtTypeOK, cmtVars
  <2>2. CASE ServerOffers \/ ServerAcks \/ ServesOther
    <3>1. sent' \subseteq Frames
      BY <2>2, RepliesType
    <3> QED BY <1>7, <2>1, <2>2, <3>1
        DEF Network, ServerOffers, ServerAcks, ServesOther, boardVars
  <2>3. CASE Receive
    <3>1. Noise \in Frames
      BY ConstantsAssumed DEF Noise, Frame, Frames, Types, Else
    <3>2. \A f \in Refusals : f \in Frames
      BY DEF Refusals, Frame, Frames, Types, Else
    <3>3. ring' \in Seq(Frames)
      BY <2>3, <3>1, <3>2 DEF Receive
    <3> QED BY <1>7, <2>1, <2>3, <3>3 DEF Network, Receive, boardVars
  <2> QED BY <1>7, <2>2, <2>3 DEF Network, NetStep
<1>8. CASE CableMoves
  BY <1>8 DEF CableMoves, CmtTypeOK, cmtVars, Ports
<1>9. CASE Restart
  <2>1. call' \in [at : Stages, for : Users]
    BY <1>9 DEF Restart, CmtReset, Users, Stages, NotCalled
  <2>2. /\ modes' \in [Channels -> {"DISABLED", "PERIODIC"}]
        /\ callbacks' \in [Channels -> Users \cup {"none"}]
        /\ channel' \in [Users -> Channels \cup {NoChannel}]
    BY <1>9 DEF Restart, CmtReset
  <2>3. cmt_lock' \in BOOLEAN
    BY <1>9, Zenon DEF Restart, CmtReset
  <2>4. locks' \subseteq Channels /\ powered' \subseteq Units /\ counting' \subseteq Channels
    BY <1>9 DEF Restart, CmtReset
  <2>5. CmtTypeOK'
    BY <2>1, <2>2, <2>3, <2>4, Zenon DEF CmtTypeOK
  <2>6. tcpip_flag' \in BOOLEAN /\ intruder' \in BOOLEAN
    BY <1>9, Zenon DEF Restart, DhcpReset
  <2>7. boot' \in 0 .. RESTARTS /\ wait_timer' \in 0 .. DHCP_TIMEOUT + 1
    BY <1>9 DEF Restart, DhcpReset
  <2>8. ring' \in Seq(Frames) /\ sent' \subseteq Frames
    BY <1>9 DEF Restart, DhcpReset
  <2>9. /\ pc' \in Functions /\ link_detect' \subseteq Ports
        /\ ipaddr' = NoAddress /\ env' = NoAddress /\ UNCHANGED <<cable, moves>>
    BY <1>9 DEF Restart, DhcpReset
  <2> QED BY <2>5, <2>6, <2>7, <2>8, <2>9
<1>10. CASE UNCHANGED vars
  BY <1>10 DEF vars, cmtVars, dhcpVars, CmtTypeOK
<1> QED
  BY <1>1, <1>2, <1>3, <1>4, <1>5, <1>6, <1>7, <1>8, <1>9, <1>10 DEF Next, Main

-----------------------------------------------------------------------------
(* T4's calls leave the clock's channel alone: theirs is another one, and  *)
(* the clock's mode keeps the module running.                              *)
LEMMA ClockStep == TypeOK /\ ClockInv /\ [Next]_vars => ClockInv'
<1> SUFFICES ASSUME TypeOK, ClockInv, [Next]_vars PROVE ClockInv'
  OBVIOUS
<1> USE ConstantsAssumed DEF Assumptions, CmtAssumption, TypeOK, CmtTypeOK
<1>1. CASE Driver
  <2> USE <1>1 DEF Driver, dhcpVars, To, At, Returns, NotCalled, Chan, Clock
  <2>1. pc' = pc /\ call # NotCalled
    BY DEF CmtStep, LockState, FindChannel, PowerOn, SetMode, SetCallback,
      CounterStart, UnlockState, CounterStop, PowerOff, Disable, Unlock
  <2>2. CASE call.for = "clock" /\ ClockBegins /\ pc # "start_system_time"
    <3> USE <2>1, <2>2 DEF ClockInv, ClockBegins, ClockGoes, Creating, Stopping, Past,
          Counts, Users
    <3>1. CASE LockState BY <3>1 DEF LockState
    <3>2. CASE FindChannel BY <3>2 DEF FindChannel
    <3>3. CASE PowerOn BY <3>3 DEF PowerOn
    <3>4. CASE SetMode BY <3>4 DEF SetMode
    <3>5. CASE SetCallback BY <3>5 DEF SetCallback
    <3>6. CASE CounterStart BY <3>6 DEF CounterStart
    <3>7. CASE UnlockState BY <3>7 DEF UnlockState
    <3>8. CASE CounterStop \/ PowerOff \/ Disable \/ Unlock
      BY <3>8 DEF CounterStop, PowerOff, Disable, Unlock
    <3> QED BY <3>1, <3>2, <3>3, <3>4, <3>5, <3>6, <3>7, <3>8 DEF CmtStep
  <2>3. CASE call.for = "t4" /\ ClockGoes /\ pc # "start_system_time"
    <3> USE <2>1, <2>3 DEF ClockInv, ClockGoes, Stopping, Past, Counts, Users
    <3>1. CASE LockState BY <3>1 DEF LockState
    <3>2. CASE FindChannel BY <3>2 DEF FindChannel
    <3>3. CASE PowerOn BY <3>3 DEF PowerOn
    <3>4. CASE SetMode BY <3>4 DEF SetMode
    <3>5. CASE SetCallback BY <3>5 DEF SetCallback
    <3>6. CASE CounterStart BY <3>6 DEF CounterStart
    <3>7. CASE UnlockState BY <3>7 DEF UnlockState
    <3>8. CASE CounterStop BY <3>8 DEF CounterStop
    <3>9. CASE PowerOff
      <4>1. UnitOf[Clock] = UnitOf[Chan] => Clock \in Siblings(Chan)
        BY <3>9 DEF Siblings, PowerOff
      <4>2. UnitOf[Clock] \in powered'
        BY <3>9, <4>1 DEF PowerOff
      <4> QED BY <3>9, <4>2 DEF PowerOff
    <3>10. CASE Disable BY <3>10 DEF Disable
    <3>11. CASE Unlock BY <3>11 DEF Unlock
    <3> QED BY <3>1, <3>2, <3>3, <3>4, <3>5, <3>6, <3>7, <3>8, <3>9, <3>10, <3>11
            DEF CmtStep
  <2> QED BY <2>1, <2>2, <2>3 DEF ClockInv
<1>2. CASE StartSystemTime
  BY <1>2 DEF StartSystemTime, Go, Create, NotCalled, timers, ClockInv, ClockBegins,
    ClockGoes, Creating, Past
<1>3. CASE OpenTimer \/ TcpudpOpen \/ CloseTimer
  <2>1. /\ pc # "start_system_time" /\ pc' # "start_system_time"
        /\ call = NotCalled /\ UNCHANGED timers
        /\ call' \in {NotCalled, [at |-> "lock", for |-> "t4"], [at |-> "stop", for |-> "t4"]}
        /\ call'.at = "stop" => channel["t4"] # NoChannel
    BY <1>3 DEF OpenTimer, TcpudpOpen, CloseTimer, Go, Create, Stop, NotCalled
  <2> QED BY <2>1 DEF timers, ClockInv, ClockBegins, ClockGoes, Counts, Clock, Chan,
        NotCalled, Past, Stopping, Creating, Users
<1>4. CASE Restart
  BY <1>4 DEF Restart, CmtReset, DhcpReset, ClockInv, Users
<1>5. CASE \/ LanOpen \/ LinkDetected \/ WaitLink \/ MainLoop \/ Exchange
           \/ TimerInterrupt \/ Network \/ CableMoves \/ UNCHANGED vars
  <2>1. /\ UNCHANGED cmtVars
        /\ pc' = pc \/ (pc # "start_system_time" /\ pc' # "start_system_time" /\
                        (pc = "lan_open" => call = NotCalled))
    BY <1>5 DEF LanOpen, LinkDetected, WaitLink, LinkProcess, MainLoop, Exchange,
      DhcpStep, Discover, Request, Sends, TimesOut, WaitOffer, WaitAck, Acked, Reads,
      SetEnv, Waiting, Go, TimerInterrupt, Network, NetStep, ServerOffers, ServerAcks,
      ServesOther, Receive, boardVars, CableMoves, vars, dhcpVars
  <2> QED BY <2>1 DEF cmtVars, ClockInv, ClockBegins, ClockGoes, Counts, Clock, Chan,
        NotCalled, Creating
<1> QED
  BY <1>1, <1>2, <1>3, <1>4, <1>5 DEF Next, Main

-----------------------------------------------------------------------------
(* A board's exchange requests one address, and an ACK of it is for that.  *)
LEMMA FramesStep == TypeOK /\ FramesInv /\ [Next]_vars => FramesInv'
<1> SUFFICES ASSUME TypeOK, FramesInv, [Next]_vars PROVE FramesInv'
  OBVIOUS
<1>0. /\ boot \in 0 .. RESTARTS /\ Else = RESTARTS + 1 /\ RESTARTS \in Nat
      /\ Noise.type = "other" /\ ring \in Seq(Frames)
  BY ConstantsAssumed DEF Assumptions, DhcpAssumption, Else, Noise, Frame, TypeOK
<1>1. CASE Discover
  BY <1>0, <1>1 DEF Discover, Sends, LanWrite, Go, Frame, FramesInv, Late
<1>2. CASE Request
  BY <1>0, <1>2 DEF Request, Sends, LanWrite, Go, Frame, FramesInv, Late
<1>3. CASE WaitOffer \/ WaitAck
  <2>1. ring # <<>> /\ ring' = Tail(ring) /\ UNCHANGED <<sent, boot>>
    BY <1>3 DEF WaitOffer, WaitAck, Acked, Reads
  <2>2. \A i \in 1 .. Len(ring') : ring'[i].type = "ACK" => ring'[i] \in sent'
    <3>1. /\ Len(ring') = Len(ring) - 1
          /\ \A i \in 1 .. Len(ring') : ring'[i] = ring[i + 1]
      BY <1>0, <2>1
    <3>2. Len(ring) \in Nat
      BY <1>0
    <3> QED BY <2>1, <3>1, <3>2 DEF FramesInv
  <2>3. CASE WaitOffer
    BY <2>1, <2>2, <2>3 DEF WaitOffer, FramesInv, Late
  <2>4. CASE WaitAck
    BY <2>1, <2>2, <2>4 DEF WaitAck, Acked, FramesInv, Late
  <2> QED BY <1>3, <2>3, <2>4
<1>4. CASE ServerOffers \/ ServesOther \/ ServerAcks
  <2>1. UNCHANGED <<pc, ipaddr, boot, ring>>
    BY <1>4 DEF ServerOffers, ServesOther, ServerAcks, boardVars
  <2>2. CASE ServerOffers
    <3>1. PICK f \in sent, a \in Addresses \ Others :
            /\ f.type = "DISCOVER" /\ sent' = sent \cup {Frame("OFFER", a, f.of)}
            /\ UNCHANGED <<boardVars, ring>>
      BY <2>2, Zenon DEF ServerOffers
    <3> QED BY <1>0, <2>1, <3>1 DEF FramesInv, Frame
  <2>3. CASE ServerAcks
    <3>1. PICK f \in sent :
            /\ f.type = "REQUEST" /\ f.ip \in Given("OFFER", Ours)
            /\ sent' = sent \cup {Frame("ACK", f.ip, f.of)}
            /\ UNCHANGED <<boardVars, ring>>
      BY <2>3, Zenon DEF ServerAcks
    <3> QED BY <1>0, <2>1, <3>1 DEF FramesInv, Frame
  <2>4. CASE ServesOther
    <3>1. PICK a \in Addresses \ Given("OFFER", Ours), type \in {"OFFER", "ACK"} :
            /\ sent' = sent \cup {Frame(type, a, Else)}
            /\ UNCHANGED <<boardVars, ring>>
      BY <2>4, Zenon DEF ServesOther
    <3> QED BY <1>0, <2>1, <3>1 DEF FramesInv, Frame
  <2> QED BY <1>4, <2>2, <2>3, <2>4
<1>5. CASE Receive
  <2>1. PICK f \in {Noise} \cup Refusals \cup {g \in sent : g.type \in {"OFFER", "ACK"}} :
          ring' = Append(ring, f)
    BY <1>5 DEF Receive
  <2>2. f.type = "ACK" => f \in sent
    BY <1>0, <2>1 DEF Refusals, Frame
  <2>3. \A i \in 1 .. Len(ring') : ring'[i].type = "ACK" => ring'[i] \in sent
    BY <1>0, <2>1, <2>2 DEF FramesInv
  <2> QED BY <1>5, <2>3 DEF Receive, boardVars, FramesInv
<1>6. CASE Restart
  BY <1>0, <1>6 DEF Restart, DhcpReset, FramesInv
<1>7. CASE \/ UNCHANGED <<pc, ipaddr, sent, boot, ring>>
           \/ UNCHANGED <<ipaddr, sent, boot, ring>> /\ (pc \in Late => pc' \in Late)
  BY <1>7 DEF FramesInv
<1>8. CASE \/ StartSystemTime \/ LanOpen \/ OpenTimer \/ LinkDetected \/ WaitLink
           \/ CloseTimer \/ TcpudpOpen \/ MainLoop \/ Driver
           \/ TimerInterrupt \/ CableMoves \/ UNCHANGED vars
  <2>1. \/ UNCHANGED <<pc, ipaddr, sent, boot, ring>>
        \/ UNCHANGED <<ipaddr, sent, boot, ring>> /\ (pc \in Late => pc' \in Late)
    BY <1>8 DEF StartSystemTime, LanOpen, OpenTimer, LinkDetected, WaitLink,
      LinkProcess, CloseTimer, TcpudpOpen, MainLoop, Driver, TimerInterrupt,
      CableMoves, vars, dhcpVars, rest, Go, Late
  <2> QED BY <1>7, <2>1
<1>9. CASE TimesOut \/ SetEnv
  BY <1>9 DEF TimesOut, SetEnv, Go, Late, Waiting, FramesInv
<1> QED
  BY <1>1, <1>2, <1>3, <1>4, <1>5, <1>6, <1>8, <1>9
  DEF Next, Main, Exchange, DhcpStep, Network, NetStep

-----------------------------------------------------------------------------
(* An address is configured when this exchange's ACK has come, and what    *)
(* was acknowledged stays so.                                              *)
LEMMA LeaseStep == IInv /\ [Next]_vars => LeaseInv'
<1> SUFFICES ASSUME IInv, [Next]_vars PROVE LeaseInv'
  OBVIOUS
<1>0. /\ TypeOK /\ FramesInv /\ LeaseInv /\ NoAddress \notin Addresses
      /\ boot \in Ours /\ Else \notin Ours
  BY ConstantsAssumed
  DEF IInv, Assumptions, DhcpAssumption, Else, TypeOK, Ours
<1>1. sent \subseteq sent' => Leased \subseteq Leased'
  BY DEF Leased, Given
<1>2. CASE WaitAck
  <2>1. ring # <<>> /\ ring \in Seq(Frames) /\ Head(ring) = ring[1] /\ 1 \in 1 .. Len(ring)
    BY <1>0, <1>2 DEF WaitAck, Acked, Reads, TypeOK
  <2>2. Head(ring).type = "ACK" => Head(ring) \in sent
    BY <1>0, <2>1 DEF FramesInv
  <2>3. Head(ring).type = "ACK" /\ Head(ring).of = boot => ipaddr \in Leased
    BY <1>0, <2>2 DEF FramesInv, Leased, Given
  <2>4. pc' = "set_tcpudp_env" => intruder' \/ ipaddr' \in Leased'
    <3>1. UNCHANGED <<sent, ipaddr>> /\ pc = "dhcp_wait_ack"
      BY <1>2 DEF WaitAck, Acked, Reads
    <3>2. CASE Head(ring).type = "ACK"
      BY <1>2, <2>3, <3>1, <3>2 DEF WaitAck, Acked, Leased, Given
    <3>3. CASE Head(ring).type # "ACK"
      BY <1>2, <3>1, <3>3 DEF WaitAck, Acked
    <3> QED BY <3>2, <3>3
  <2>5. UNCHANGED <<env, sent, boot>> /\ (intruder => intruder') /\ pc' \in Late
    BY <1>2 DEF WaitAck, Acked, Reads, Late
  <2> QED BY <1>0, <1>1, <2>4, <2>5 DEF LeaseInv, AddressIsLeased
<1>3. CASE SetEnv
  BY <1>0, <1>1, <1>3 DEF SetEnv, Go, LeaseInv, AddressIsLeased, Late
<1>4. CASE Restart
  BY <1>0, <1>4 DEF Restart, DhcpReset, LeaseInv, AddressIsLeased
<1>5. CASE /\ sent \subseteq sent' /\ UNCHANGED <<ipaddr, env, intruder>>
           /\ (pc' = pc \/ pc' # "set_tcpudp_env") /\ (pc \in Late => pc' \in Late)
  BY <1>0, <1>1, <1>5 DEF LeaseInv, AddressIsLeased
<1>6. CASE WaitOffer
  BY <1>0, <1>1, <1>6 DEF WaitOffer, Reads, LeaseInv, AddressIsLeased, Late
<1>7. CASE \/ StartSystemTime \/ LanOpen \/ OpenTimer \/ LinkDetected \/ WaitLink
           \/ CloseTimer \/ TcpudpOpen \/ MainLoop \/ Driver
           \/ TimerInterrupt \/ CableMoves \/ UNCHANGED vars
  <2>1. /\ sent \subseteq sent' /\ UNCHANGED <<ipaddr, env, intruder>>
        /\ (pc' = pc \/ pc' # "set_tcpudp_env") /\ (pc \in Late => pc' \in Late)
    BY <1>7 DEF StartSystemTime, LanOpen, OpenTimer, LinkDetected, WaitLink,
      LinkProcess, CloseTimer, TcpudpOpen, MainLoop, Driver, TimerInterrupt,
      CableMoves, vars, dhcpVars, rest, Go, Late
  <2> QED BY <1>5, <2>1
<1>8. CASE Discover \/ Request \/ TimesOut \/ NetStep
  <2>1. /\ sent \subseteq sent' /\ UNCHANGED <<ipaddr, env, intruder>>
        /\ (pc' = pc \/ pc' # "set_tcpudp_env") /\ (pc \in Late => pc' \in Late)
    BY <1>8 DEF Discover, Request, Sends, LanWrite, TimesOut, NetStep, ServerOffers,
      ServerAcks, ServesOther, Receive, boardVars, Waiting, Go, Late
  <2> QED BY <1>5, <2>1
<1> QED
  BY <1>2, <1>3, <1>4, <1>6, <1>7, <1>8 DEF Next, Main, Exchange, DhcpStep, Network

LEMMA InitInv == Init => IInv
<1> SUFFICES ASSUME Init PROVE IInv
  OBVIOUS
<1> USE ConstantsAssumed DEF Assumptions, DhcpAssumption, StartupAssumption, Init
<1>1. CmtTypeOK
  <2>1. call \in [at : Stages, for : Users]
    BY DEF CmtInit, NotCalled, Stages, Users
  <2>2. /\ modes \in [Channels -> {"DISABLED", "PERIODIC"}]
        /\ callbacks \in [Channels -> Users \cup {"none"}]
        /\ channel \in [Users -> Channels \cup {NoChannel}]
    BY DEF CmtInit
  <2>3. cmt_lock \in BOOLEAN
    BY Zenon DEF CmtInit
  <2>4. locks \subseteq Channels /\ powered \subseteq Units /\ counting \subseteq Channels
    BY DEF CmtInit
  <2> QED BY <2>1, <2>2, <2>3, <2>4, Zenon DEF CmtTypeOK
<1>2. tcpip_flag \in BOOLEAN /\ intruder \in BOOLEAN
  BY Zenon DEF DhcpInit
<1>3. /\ boot \in 0 .. RESTARTS /\ wait_timer \in 0 .. DHCP_TIMEOUT + 1
      /\ moves \in 0 .. CHANGES /\ ring \in Seq(Frames) /\ sent \subseteq Frames
      /\ pc \in Functions /\ link_detect \subseteq Ports /\ cable \subseteq Ports
      /\ ipaddr = NoAddress /\ env = NoAddress
  BY DEF DhcpInit, Functions
<1>4. TypeOK BY <1>1, <1>2, <1>3 DEF TypeOK
<1>5. ClockInv BY DEF ClockInv, CmtInit, DhcpInit, Users
<1>6. FramesInv BY DEF FramesInv, DhcpInit
<1>7. LeaseInv BY DEF LeaseInv, AddressIsLeased, DhcpInit
<1> QED BY <1>4, <1>5, <1>6, <1>7 DEF IInv

LEMMA Inductive == Spec => []IInv
<1>1. IInv /\ [Next]_vars => IInv'
  BY TypeStep, ClockStep, FramesStep, LeaseStep DEF IInv
<1> QED BY InitInv, <1>1, PTL DEF Spec

(* Every variable keeps its type.                                          *)
THEOREM TypeCorrect == Spec => []TypeOK
<1>1. IInv => TypeOK BY DEF IInv
<1> QED BY <1>1, Inductive, PTL

(* The system time never stops once it has been started, whatever calls    *)
(* T4's timer makes of the same driver and the same module.                *)
THEOREM ClockNeverStops == Spec => []ClockRuns
<1>1. IInv => ClockRuns
  BY DEF IInv, TypeOK, CmtTypeOK, ClockInv, ClockGoes, ClockRuns, Clock
<1> QED BY <1>1, Inductive, PTL

(* No address is configured that was not acknowledged to this board,       *)
(* except on the ACK of another exchange.                                  *)
THEOREM OnlyLeasedAddresses == Spec => []AddressIsLeased
<1>1. IInv => AddressIsLeased BY DEF IInv, LeaseInv
<1> QED BY <1>1, Inductive, PTL

-----------------------------------------------------------------------------
(* The calendar.  Within the century every fourth year is a leap year, as  *)
(* the code has it, and a year begins where the last one ends.             *)
LEMMA CenturyYears ==
  ASSUME NEW y \in Century
  PROVE  /\ Leap(y) <=> y % 4 = 0
         /\ DaysBeforeYear(y) =
              DaysBeforeYear(y - 1) + (IF y % 4 = 0 THEN 366 ELSE 365)
         /\ DaysBeforeYear(y - 1) \in Int
<1>1. Leap(y) <=> y % 4 = 0
  BY DEF Century, Leap
<1>2. /\ y \div 4 = ((y - 1) \div 4) + (IF y % 4 = 0 THEN 1 ELSE 0)
      /\ y \div 100 = (y - 1) \div 100 /\ y \div 400 = (y - 1) \div 400
  BY DEF Century
<1>3. /\ (y - 1) \div 4 \in Int /\ (y - 1) \div 100 \in Int
      /\ (y - 1) \div 400 \in Int /\ y \in Int
  BY DEF Century
<1> QED BY <1>1, <1>2, <1>3 DEF DaysBeforeYear

LEMMA MonthLength ==
  ASSUME NEW y \in Century, NEW m \in 1 .. 12
  PROVE  MonthDays(m, y) = LengthOf(m, y) /\ LengthOf(m, y) \in 28 .. 31
BY CenturyYears DEF MonthDays, LengthOf, stTime

(* Each day of the calendar is followed by the next of the Gregorian one.  *)
THEOREM CalendarCounts ==
  ASSUME NEW y \in Century, NEW m \in 1 .. 12, NEW d \in 1 .. LengthOf(m, y)
  PROVE  LET n == NextDate(d, m, y)
         IN  /\ n[1] \in 1 .. LengthOf(n[2], n[3])
             /\ DayNumber(n[1], n[2], n[3]) = DayNumber(d, m, y) + 1
<1>1. MonthDays(m, y) = LengthOf(m, y) /\ d \in Int /\ LengthOf(m, y) \in 28 .. 31
  BY MonthLength
<1>2. CASE d < LengthOf(m, y)
  <2>1. NextDate(d, m, y) = <<d + 1, m, y>>
    BY <1>1, <1>2 DEF NextDate
  <2>2. DayNumber(d + 1, m, y) = DayNumber(d, m, y) + 1
    BY <1>1, CenturyYears DEF DayNumber, DaysBeforeMonth
  <2> QED BY <1>1, <1>2, <2>1, <2>2
<1>3. CASE ~(d < LengthOf(m, y)) /\ m < 12
  <2>1. NextDate(d, m, y) = <<1, m + 1, y>> /\ d = LengthOf(m, y)
    BY <1>1, <1>3 DEF NextDate
  <2>2. LengthOf(m + 1, y) \in 28 .. 31
    BY <1>3, MonthLength
  <2>3. DayNumber(1, m + 1, y) = DayNumber(LengthOf(m, y), m, y) + 1
    BY <1>3, CenturyYears DEF DayNumber, DaysBeforeMonth, LengthOf
  <2> QED BY <2>1, <2>2, <2>3
<1>4. CASE ~(d < LengthOf(m, y)) /\ ~(m < 12)
  <2>1. NextDate(d, m, y) = <<1, 1, y + 1>> /\ d = 31 /\ m = 12
    BY <1>1, <1>4 DEF NextDate, LengthOf
  <2>2. LengthOf(1, y + 1) = 31
    BY DEF LengthOf
  <2>3. DayNumber(1, 1, y + 1) = DaysBeforeYear(y) + 1
    <3>1. (y + 1) - 1 = y BY DEF Century
    <3>2. DaysBeforeYear(y) \in Int BY CenturyYears
    <3> QED BY <3>1, <3>2 DEF DayNumber, DaysBeforeMonth
  <2>4. DayNumber(31, 12, y) = DaysBeforeYear(y)
    BY CenturyYears DEF DayNumber, DaysBeforeMonth
  <2>5. DaysBeforeYear(y) \in Int
    BY CenturyYears
  <2> QED BY <2>1, <2>2, <2>3, <2>4, <2>5
<1> QED BY <1>2, <1>3, <1>4

(* Each second of the day is followed by the next, the last of a day by    *)
(* the first of the next day.                                              *)
THEOREM ClockCounts ==
  ASSUME NEW sec \in 0 .. 59, NEW min \in 0 .. 59, NEW hour \in 0 .. 23, NEW date
  PROVE  LET t == SecondPasses(sec, min, hour, date)
         IN  IF SecondOfDay(sec, min, hour) + 1 = DayLength
             THEN t = <<0, 0, 0, NextDate(date[1], date[2], date[3])>>
             ELSE /\ t[1] \in 0 .. 59 /\ t[2] \in 0 .. 59 /\ t[3] \in 0 .. 23
                  /\ SecondOfDay(t[1], t[2], t[3]) = SecondOfDay(sec, min, hour) + 1
                  /\ t[4] = date
<1>1. CASE sec < 59
  <2>1. SecondPasses(sec, min, hour, date) = <<sec + 1, min, hour, date>>
    BY <1>1, Zenon DEF SecondPasses
  <2>2. SecondOfDay(sec, min, hour) + 1 # DayLength
    BY <1>1 DEF SecondOfDay, DayLength
  <2>3. SecondOfDay(sec + 1, min, hour) = SecondOfDay(sec, min, hour) + 1
    BY DEF SecondOfDay
  <2> QED BY <1>1, <2>1, <2>2, <2>3
<1>2. CASE ~(sec < 59) /\ min < 59
  <2>1. SecondPasses(sec, min, hour, date) = <<0, min + 1, hour, date>>
    BY <1>2, Zenon DEF SecondPasses
  <2>2. SecondOfDay(sec, min, hour) + 1 # DayLength
    BY <1>2 DEF SecondOfDay, DayLength
  <2>3. SecondOfDay(0, min + 1, hour) = SecondOfDay(sec, min, hour) + 1
    BY <1>2 DEF SecondOfDay
  <2> QED BY <1>2, <2>1, <2>2, <2>3
<1>3. CASE ~(sec < 59) /\ ~(min < 59) /\ hour < 23
  <2>1. SecondPasses(sec, min, hour, date) = <<0, 0, hour + 1, date>>
    BY <1>3, Zenon DEF SecondPasses
  <2>2. SecondOfDay(sec, min, hour) + 1 # DayLength
    BY <1>3 DEF SecondOfDay, DayLength
  <2>3. SecondOfDay(0, 0, hour + 1) = SecondOfDay(sec, min, hour) + 1
    BY <1>3 DEF SecondOfDay
  <2> QED BY <1>3, <2>1, <2>2, <2>3
<1>4. CASE ~(sec < 59) /\ ~(min < 59) /\ ~(hour < 23)
  <2>1. SecondPasses(sec, min, hour, date)
          = <<0, 0, 0, NextDate(date[1], date[2], date[3])>>
    BY <1>4, Zenon DEF SecondPasses
  <2>2. SecondOfDay(sec, min, hour) + 1 = DayLength
    BY <1>4 DEF SecondOfDay, DayLength
  <2> QED BY <2>1, <2>2, Zenon
<1> QED BY <1>1, <1>2, <1>3, <1>4, Zenon
=============================================================================
