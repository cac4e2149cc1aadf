--------------------------- MODULE EtherLinkProofs ---------------------------
(* Proofs about EtherLink, for any number of link changes and calls.       *)
EXTENDS EtherLink, TLAPS

(* The interrupt handler runs only while the interrupt is enabled, and     *)
(* what it has read of ECSR stays set until it clears it.                  *)
HandlerInv ==
  /\ ~ icu => isr = "no"
  /\ isr = "no" => snapshot = {}
  /\ snapshot \subseteq ecsr

(* The PHY has a link only under the LINK signal; while the channel is     *)
(* being closed or opened its interrupt is disabled.                       *)
ChannelInv ==
  /\ status => lmon
  /\ step \in {"closing", "open", "opening", "enable"} => ~ icu
  /\ step \in {"opening", "enable"} =>
       lchng_flag = "OFF" /\ transfer_enable_flag = FALSE

(* A change of the signal the main program has yet to see: signalled in    *)
(* ECSR, or judged and flagged.                                            *)
Announced == "LCHNG" \in ecsr \/ lchng_flag = FlagOf(lmon)

(* What transfer_enable_flag will be at the end of the link processing     *)
(* under way.                                                              *)
Outcome ==
  IF step \in {"on_configure", "on_link", "on_enable"} THEN TRUE
  ELSE IF step \in {"off_check", "off_disable"} THEN FALSE
  ELSE transfer_enable_flag

(* Unless a change was lost, the flag is not older than the signal, and    *)
(* the outcome agrees with the signal or a change is announced.            *)
TrackInv ==
  ~ lost =>
    /\ lchng_flag # "OFF" => Announced
    /\ icu \/ step = "enable" => (Outcome <=> lmon) \/ Announced

IInv == TypeOK /\ HandlerInv /\ ChannelInv /\ TrackInv
-----------------------------------------------------------------------------
LEMMA InitInv == Init => IInv
<1>1. Init => TypeOK
  <2> SUFFICES ASSUME Init
               PROVE  TypeOK
    OBVIOUS
  <2>1. /\ lmon \in BOOLEAN /\ status \in BOOLEAN /\ dropped \in BOOLEAN
        /\ icu \in BOOLEAN /\ re \in BOOLEAN /\ mpde \in BOOLEAN
        /\ mpd_flag \in BOOLEAN /\ transfer_enable_flag \in BOOLEAN
        /\ magic_packet_detect \in BOOLEAN /\ lost \in BOOLEAN
    BY Zenon DEF Init
  <2> QED BY <2>1 DEF Init, TypeOK, Steps, Detects
<1>2. Init => HandlerInv /\ ChannelInv /\ TrackInv
  BY DEF Init, HandlerInv, ChannelInv, TrackInv
<1> QED BY <1>1, <1>2 DEF IInv

LEMMA ChangeCableInv == IInv /\ ChangeCable => IInv'
<1> SUFFICES ASSUME IInv, ChangeCable
             PROVE  IInv'
  OBVIOUS
<1>1. TypeOK'
  BY DEF IInv, TypeOK, Steps, Detects, FlagOf, ChangeCable, hardware, flags,
         detect
<1>2. HandlerInv'
  BY DEF IInv, TypeOK, HandlerInv, ChangeCable, hardware, flags, detect
<1>3. ChannelInv'
  BY DEF IInv, TypeOK, ChannelInv, HandlerInv, ChangeCable, hardware, flags,
         detect
<1>4. TrackInv'
  BY DEF IInv, TypeOK, ChannelInv, HandlerInv, TrackInv, Announced, Outcome,
         FlagOf, ChangeCable, hardware, flags, detect
<1> QED BY <1>1, <1>2, <1>3, <1>4 DEF IInv

LEMMA SignalChangeInv == IInv /\ SignalChange => IInv'
<1> SUFFICES ASSUME IInv, SignalChange
             PROVE  IInv'
  OBVIOUS
<1>1. TypeOK'
  <2>1. lmon' \in BOOLEAN
    BY Zenon DEF IInv, TypeOK, SignalChange
  <2>2. status' \in BOOLEAN
    BY Zenon DEF IInv, TypeOK, SignalChange
  <2>3. dropped' \in BOOLEAN
    BY Zenon DEF IInv, TypeOK, SignalChange
  <2> QED
    BY <2>1, <2>2, <2>3
       DEF IInv, TypeOK, Steps, Detects, FlagOf, SignalChange, hardware, flags,
           detect
<1>2. HandlerInv'
  BY DEF IInv, TypeOK, HandlerInv, SignalChange, hardware, flags, detect
<1>3. ChannelInv'
  BY DEF IInv, TypeOK, ChannelInv, HandlerInv, SignalChange, hardware, flags,
         detect
<1>4. TrackInv'
  BY DEF IInv, TypeOK, ChannelInv, HandlerInv, TrackInv, Announced, Outcome,
         FlagOf, SignalChange, hardware, flags, detect
<1> QED BY <1>1, <1>2, <1>3, <1>4 DEF IInv

LEMMA DetectLinkInv == IInv /\ DetectLink => IInv'
<1> SUFFICES ASSUME IInv, DetectLink
             PROVE  IInv'
  OBVIOUS
<1>1. TypeOK'
  BY DEF IInv, TypeOK, Steps, Detects, FlagOf, DetectLink, hardware, flags,
         detect
<1>2. HandlerInv'
  BY DEF IInv, TypeOK, HandlerInv, DetectLink, hardware, flags, detect
<1>3. ChannelInv'
  BY DEF IInv, TypeOK, ChannelInv, HandlerInv, DetectLink, hardware, flags,
         detect
<1>4. TrackInv'
  BY DEF IInv, TypeOK, ChannelInv, HandlerInv, TrackInv, Announced, Outcome,
         FlagOf, DetectLink, hardware, flags, detect
<1> QED BY <1>1, <1>2, <1>3, <1>4 DEF IInv

LEMMA MagicPacketInv == IInv /\ MagicPacket => IInv'
<1> SUFFICES ASSUME IInv, MagicPacket
             PROVE  IInv'
  OBVIOUS
<1>1. TypeOK'
  BY DEF IInv, TypeOK, Steps, Detects, FlagOf, MagicPacket, hardware, flags,
         detect
<1>2. HandlerInv'
  BY DEF IInv, TypeOK, HandlerInv, MagicPacket, hardware, flags, detect
<1>3. ChannelInv'
  BY DEF IInv, TypeOK, ChannelInv, HandlerInv, MagicPacket, hardware, flags,
         detect
<1>4. TrackInv'
  BY DEF IInv, TypeOK, ChannelInv, HandlerInv, TrackInv, Announced, Outcome,
         FlagOf, MagicPacket, hardware, flags, detect
<1> QED BY <1>1, <1>2, <1>3, <1>4 DEF IInv

LEMMA IsrEnterInv == IInv /\ IsrEnter => IInv'
<1> SUFFICES ASSUME IInv, IsrEnter
             PROVE  IInv'
  OBVIOUS
<1>1. TypeOK'
  BY DEF IInv, TypeOK, Steps, Detects, FlagOf, IsrEnter, hardware, flags,
         detect
<1>2. HandlerInv'
  BY DEF IInv, TypeOK, HandlerInv, IsrEnter, hardware, flags, detect
<1>3. ChannelInv'
  BY DEF IInv, TypeOK, ChannelInv, HandlerInv, IsrEnter, hardware, flags,
         detect
<1>4. TrackInv'
  BY DEF IInv, TypeOK, ChannelInv, HandlerInv, TrackInv, Announced, Outcome,
         FlagOf, IsrEnter, hardware, flags, detect
<1> QED BY <1>1, <1>2, <1>3, <1>4 DEF IInv

LEMMA IsrJudgeInv == IInv /\ IsrJudge => IInv'
<1> SUFFICES ASSUME IInv, IsrJudge
             PROVE  IInv'
  OBVIOUS
<1>1. TypeOK'
  <2>1. mpd_flag' \in BOOLEAN
    BY Zenon DEF IInv, TypeOK, IsrJudge
  <2>2. lost' \in BOOLEAN
    BY Zenon DEF IInv, TypeOK, IsrJudge
  <2> QED
    BY <2>1, <2>2
       DEF IInv, TypeOK, Steps, Detects, FlagOf, IsrJudge, FlagOf, hardware,
           flags, detect
<1>2. HandlerInv'
  BY DEF IInv, TypeOK, HandlerInv, IsrJudge, FlagOf, hardware, flags, detect
<1>3. ChannelInv'
  BY DEF IInv, TypeOK, ChannelInv, HandlerInv, IsrJudge, FlagOf, hardware,
         flags, detect
<1>4. TrackInv'
  BY DEF IInv, TypeOK, ChannelInv, HandlerInv, TrackInv, Announced, Outcome,
         FlagOf, IsrJudge, FlagOf, hardware, flags, detect
<1> QED BY <1>1, <1>2, <1>3, <1>4 DEF IInv

LEMMA IsrClearInv == IInv /\ IsrClear => IInv'
<1> SUFFICES ASSUME IInv, IsrClear
             PROVE  IInv'
  OBVIOUS
<1>1. TypeOK'
  BY DEF IInv, TypeOK, Steps, Detects, FlagOf, IsrClear, FlagOf, hardware,
         flags, detect
<1>2. HandlerInv'
  BY DEF IInv, TypeOK, HandlerInv, IsrClear, FlagOf, hardware, flags, detect
<1>3. ChannelInv'
  BY DEF IInv, TypeOK, ChannelInv, HandlerInv, IsrClear, FlagOf, hardware,
         flags, detect
<1>4. TrackInv'
  BY DEF IInv, TypeOK, ChannelInv, HandlerInv, TrackInv, Announced, Outcome,
         FlagOf, IsrClear, FlagOf, hardware, flags, detect
<1> QED BY <1>1, <1>2, <1>3, <1>4 DEF IInv

LEMMA MagicPacketFoundInv == IInv /\ MagicPacketFound => IInv'
<1> SUFFICES ASSUME IInv, MagicPacketFound
             PROVE  IInv'
  OBVIOUS
<1>1. TypeOK'
  <2>1. mpd_flag' \in BOOLEAN
    BY Zenon DEF IInv, TypeOK, MagicPacketFound
  <2>2. magic_packet_detect' \in BOOLEAN
    BY Zenon DEF IInv, TypeOK, MagicPacketFound
  <2> QED
    BY <2>1, <2>2
       DEF IInv, TypeOK, Steps, Detects, FlagOf, MagicPacketFound, From,
           hardware, flags, detect
<1>2. HandlerInv'
  BY DEF IInv, TypeOK, HandlerInv, MagicPacketFound, From, hardware, flags,
         detect
<1>3. ChannelInv'
  BY DEF IInv, TypeOK, ChannelInv, HandlerInv, MagicPacketFound, From,
         hardware, flags, detect
<1>4. TrackInv'
  BY DEF IInv, TypeOK, ChannelInv, HandlerInv, TrackInv, Announced, Outcome,
         FlagOf, MagicPacketFound, From, hardware, flags, detect
<1> QED BY <1>1, <1>2, <1>3, <1>4 DEF IInv

LEMMA NoMagicPacketInv == IInv /\ NoMagicPacket => IInv'
<1> SUFFICES ASSUME IInv, NoMagicPacket
             PROVE  IInv'
  OBVIOUS
<1>1. TypeOK'
  BY DEF IInv, TypeOK, Steps, Detects, FlagOf, NoMagicPacket, From, hardware,
         flags, detect
<1>2. HandlerInv'
  BY DEF IInv, TypeOK, HandlerInv, NoMagicPacket, From, hardware, flags, detect
<1>3. ChannelInv'
  BY DEF IInv, TypeOK, ChannelInv, HandlerInv, NoMagicPacket, From, hardware,
         flags, detect
<1>4. TrackInv'
  BY DEF IInv, TypeOK, ChannelInv, HandlerInv, TrackInv, Announced, Outcome,
         FlagOf, NoMagicPacket, From, hardware, flags, detect
<1> QED BY <1>1, <1>2, <1>3, <1>4 DEF IInv

LEMMA TestFlagsInv == IInv /\ TestFlags => IInv'
<1> SUFFICES ASSUME IInv, TestFlags
             PROVE  IInv'
  OBVIOUS
<1>1. TypeOK'
  BY DEF IInv, TypeOK, Steps, Detects, FlagOf, TestFlags, From, hardware,
         flags, detect
<1>2. HandlerInv'
  BY DEF IInv, TypeOK, HandlerInv, TestFlags, From, hardware, flags, detect
<1>3. ChannelInv'
  BY DEF IInv, TypeOK, ChannelInv, HandlerInv, TestFlags, From, hardware,
         flags, detect
<1>4. TrackInv'
  BY DEF IInv, TypeOK, ChannelInv, HandlerInv, TrackInv, Announced, Outcome,
         FlagOf, TestFlags, From, hardware, flags, detect
<1> QED BY <1>1, <1>2, <1>3, <1>4 DEF IInv

LEMMA OnCheckInv == IInv /\ OnCheck => IInv'
<1> SUFFICES ASSUME IInv, OnCheck
             PROVE  IInv'
  OBVIOUS
<1>1. TypeOK'
  <2>1. dropped' \in BOOLEAN
    BY Zenon DEF IInv, TypeOK, OnCheck
  <2> QED
    BY <2>1
       DEF IInv, TypeOK, Steps, Detects, FlagOf, OnCheck, LinkUp, From,
           hardware, flags, detect
<1>2. HandlerInv'
  BY DEF IInv, TypeOK, HandlerInv, OnCheck, LinkUp, From, hardware, flags,
         detect
<1>3. ChannelInv'
  BY DEF IInv, TypeOK, ChannelInv, HandlerInv, OnCheck, LinkUp, From, hardware,
         flags, detect
<1>4. TrackInv'
  BY DEF IInv, TypeOK, ChannelInv, HandlerInv, TrackInv, Announced, Outcome,
         FlagOf, OnCheck, LinkUp, From, hardware, flags, detect
<1> QED BY <1>1, <1>2, <1>3, <1>4 DEF IInv

LEMMA OnClearInv == IInv /\ OnClear => IInv'
<1> SUFFICES ASSUME IInv, OnClear
             PROVE  IInv'
  OBVIOUS
<1>1. TypeOK'
  BY DEF IInv, TypeOK, Steps, Detects, FlagOf, OnClear, From, hardware, flags,
         detect
<1>2. HandlerInv'
  BY DEF IInv, TypeOK, HandlerInv, OnClear, From, hardware, flags, detect
<1>3. ChannelInv'
  BY DEF IInv, TypeOK, ChannelInv, HandlerInv, OnClear, From, hardware, flags,
         detect
<1>4. TrackInv'
  BY DEF IInv, TypeOK, ChannelInv, HandlerInv, TrackInv, Announced, Outcome,
         FlagOf, OnClear, From, hardware, flags, detect
<1> QED BY <1>1, <1>2, <1>3, <1>4 DEF IInv

LEMMA OnConfigureInv == IInv /\ OnConfigure => IInv'
<1> SUFFICES ASSUME IInv, OnConfigure
             PROVE  IInv'
  OBVIOUS
<1>1. TypeOK'
  <2>1. re' \in BOOLEAN
    BY Zenon DEF IInv, TypeOK, OnConfigure, ConfigureMac
  <2>2. mpde' \in BOOLEAN
    BY Zenon DEF IInv, TypeOK, OnConfigure, ConfigureMac
  <2>3. lost' \in BOOLEAN
    BY Zenon DEF IInv, TypeOK, OnConfigure, ConfigureMac
  <2> QED
    BY <2>1, <2>2, <2>3
       DEF IInv, TypeOK, Steps, Detects, FlagOf, OnConfigure, ConfigureMac,
           From, hardware, flags, detect
<1>2. HandlerInv'
  BY DEF IInv, TypeOK, HandlerInv, OnConfigure, ConfigureMac, From, hardware,
         flags, detect
<1>3. ChannelInv'
  BY DEF IInv, TypeOK, ChannelInv, HandlerInv, OnConfigure, ConfigureMac, From,
         hardware, flags, detect
<1>4. TrackInv'
  BY DEF IInv, TypeOK, ChannelInv, HandlerInv, TrackInv, Announced, Outcome,
         FlagOf, OnConfigure, ConfigureMac, From, hardware, flags, detect
<1> QED BY <1>1, <1>2, <1>3, <1>4 DEF IInv

LEMMA OnLinkInv == IInv /\ OnLink => IInv'
<1> SUFFICES ASSUME IInv, OnLink
             PROVE  IInv'
  OBVIOUS
<1>1. TypeOK'
  <2>1. re' \in BOOLEAN
    BY Zenon DEF IInv, TypeOK, OnLink, DoLink
  <2>2. mpde' \in BOOLEAN
    BY Zenon DEF IInv, TypeOK, OnLink, DoLink
  <2>3. dropped' \in BOOLEAN
    BY Zenon DEF IInv, TypeOK, OnLink, DoLink
  <2> QED
    BY <2>1, <2>2, <2>3
       DEF IInv, TypeOK, Steps, Detects, FlagOf, OnLink, DoLink, From,
           hardware, flags, detect
<1>2. HandlerInv'
  BY DEF IInv, TypeOK, HandlerInv, OnLink, DoLink, From, hardware, flags,
         detect
<1>3. ChannelInv'
  BY DEF IInv, TypeOK, ChannelInv, HandlerInv, OnLink, DoLink, From, hardware,
         flags, detect
<1>4. TrackInv'
  BY DEF IInv, TypeOK, ChannelInv, HandlerInv, TrackInv, Announced, Outcome,
         FlagOf, OnLink, DoLink, From, hardware, flags, detect
<1> QED BY <1>1, <1>2, <1>3, <1>4 DEF IInv

LEMMA OnEnableInv == IInv /\ OnEnable => IInv'
<1> SUFFICES ASSUME IInv, OnEnable
             PROVE  IInv'
  OBVIOUS
<1>1. TypeOK'
  BY DEF IInv, TypeOK, Steps, Detects, FlagOf, OnEnable, From, hardware, flags,
         detect
<1>2. HandlerInv'
  BY DEF IInv, TypeOK, HandlerInv, OnEnable, From, hardware, flags, detect
<1>3. ChannelInv'
  BY DEF IInv, TypeOK, ChannelInv, HandlerInv, OnEnable, From, hardware, flags,
         detect
<1>4. TrackInv'
  BY DEF IInv, TypeOK, ChannelInv, HandlerInv, TrackInv, Announced, Outcome,
         FlagOf, OnEnable, From, hardware, flags, detect
<1> QED BY <1>1, <1>2, <1>3, <1>4 DEF IInv

LEMMA OffClearInv == IInv /\ OffClear => IInv'
<1> SUFFICES ASSUME IInv, OffClear
             PROVE  IInv'
  OBVIOUS
<1>1. TypeOK'
  BY DEF IInv, TypeOK, Steps, Detects, FlagOf, OffClear, From, hardware, flags,
         detect
<1>2. HandlerInv'
  BY DEF IInv, TypeOK, HandlerInv, OffClear, From, hardware, flags, detect
<1>3. ChannelInv'
  BY DEF IInv, TypeOK, ChannelInv, HandlerInv, OffClear, From, hardware, flags,
         detect
<1>4. TrackInv'
  BY DEF IInv, TypeOK, ChannelInv, HandlerInv, TrackInv, Announced, Outcome,
         FlagOf, OffClear, From, hardware, flags, detect
<1> QED BY <1>1, <1>2, <1>3, <1>4 DEF IInv

LEMMA OffCheckInv == IInv /\ OffCheck => IInv'
<1> SUFFICES ASSUME IInv, OffCheck
             PROVE  IInv'
  OBVIOUS
<1>1. TypeOK'
  <2>1. dropped' \in BOOLEAN
    BY Zenon DEF IInv, TypeOK, OffCheck
  <2> QED
    BY <2>1
       DEF IInv, TypeOK, Steps, Detects, FlagOf, OffCheck, LinkUp, From,
           hardware, flags, detect
<1>2. HandlerInv'
  BY DEF IInv, TypeOK, HandlerInv, OffCheck, LinkUp, From, hardware, flags,
         detect
<1>3. ChannelInv'
  BY DEF IInv, TypeOK, ChannelInv, HandlerInv, OffCheck, LinkUp, From,
         hardware, flags, detect
<1>4. TrackInv'
  BY DEF IInv, TypeOK, ChannelInv, HandlerInv, TrackInv, Announced, Outcome,
         FlagOf, OffCheck, LinkUp, From, hardware, flags, detect
<1> QED BY <1>1, <1>2, <1>3, <1>4 DEF IInv

LEMMA OffDisableInv == IInv /\ OffDisable => IInv'
<1> SUFFICES ASSUME IInv, OffDisable
             PROVE  IInv'
  OBVIOUS
<1>1. TypeOK'
  <2>1. re' \in BOOLEAN
    BY Zenon DEF IInv, TypeOK, OffDisable
  <2>2. transfer_enable_flag' \in BOOLEAN
    BY Zenon DEF IInv, TypeOK, OffDisable
  <2> QED
    BY <2>1, <2>2
       DEF IInv, TypeOK, Steps, Detects, FlagOf, OffDisable, From, hardware,
           flags, detect
<1>2. HandlerInv'
  BY DEF IInv, TypeOK, HandlerInv, OffDisable, From, hardware, flags, detect
<1>3. ChannelInv'
  BY DEF IInv, TypeOK, ChannelInv, HandlerInv, OffDisable, From, hardware,
         flags, detect
<1>4. TrackInv'
  BY DEF IInv, TypeOK, ChannelInv, HandlerInv, TrackInv, Announced, Outcome,
         FlagOf, OffDisable, From, hardware, flags, detect
<1> QED BY <1>1, <1>2, <1>3, <1>4 DEF IInv

LEMMA CloseIcuInv == IInv /\ CloseIcu => IInv'
<1> SUFFICES ASSUME IInv, CloseIcu
             PROVE  IInv'
  OBVIOUS
<1>1. TypeOK'
  <2>1. icu' \in BOOLEAN
    BY Zenon DEF IInv, TypeOK, CloseIcu
  <2> QED
    BY <2>1
       DEF IInv, TypeOK, Steps, Detects, FlagOf, CloseIcu, From, hardware,
           flags, detect
<1>2. HandlerInv'
  BY DEF IInv, TypeOK, HandlerInv, CloseIcu, From, hardware, flags, detect
<1>3. ChannelInv'
  BY DEF IInv, TypeOK, ChannelInv, HandlerInv, CloseIcu, From, hardware, flags,
         detect
<1>4. TrackInv'
  BY DEF IInv, TypeOK, ChannelInv, HandlerInv, TrackInv, Announced, Outcome,
         FlagOf, CloseIcu, From, hardware, flags, detect
<1> QED BY <1>1, <1>2, <1>3, <1>4 DEF IInv

LEMMA CloseFlagsInv == IInv /\ CloseFlags => IInv'
<1> SUFFICES ASSUME IInv, CloseFlags
             PROVE  IInv'
  OBVIOUS
<1>1. TypeOK'
  BY DEF IInv, TypeOK, Steps, Detects, FlagOf, CloseFlags, FlagsOff, From,
         hardware, flags, detect
<1>2. HandlerInv'
  BY DEF IInv, TypeOK, HandlerInv, CloseFlags, FlagsOff, From, hardware, flags,
         detect
<1>3. ChannelInv'
  BY DEF IInv, TypeOK, ChannelInv, HandlerInv, CloseFlags, FlagsOff, From,
         hardware, flags, detect
<1>4. TrackInv'
  BY DEF IInv, TypeOK, ChannelInv, HandlerInv, TrackInv, Announced, Outcome,
         FlagOf, CloseFlags, FlagsOff, From, hardware, flags, detect
<1> QED BY <1>1, <1>2, <1>3, <1>4 DEF IInv

LEMMA OpenResetInv == IInv /\ OpenReset => IInv'
<1> SUFFICES ASSUME IInv, OpenReset
             PROVE  IInv'
  OBVIOUS
<1>1. TypeOK'
  BY DEF IInv, TypeOK, Steps, Detects, FlagOf, OpenReset, FlagsOff, From,
         hardware, flags, detect
<1>2. HandlerInv'
  BY DEF IInv, TypeOK, HandlerInv, OpenReset, FlagsOff, From, hardware, flags,
         detect
<1>3. ChannelInv'
  BY DEF IInv, TypeOK, ChannelInv, HandlerInv, OpenReset, FlagsOff, From,
         hardware, flags, detect
<1>4. TrackInv'
  BY DEF IInv, TypeOK, ChannelInv, HandlerInv, TrackInv, Announced, Outcome,
         FlagOf, OpenReset, FlagsOff, From, hardware, flags, detect
<1> QED BY <1>1, <1>2, <1>3, <1>4 DEF IInv

LEMMA OpenClearInv == IInv /\ OpenClear => IInv'
<1> SUFFICES ASSUME IInv, OpenClear
             PROVE  IInv'
  OBVIOUS
<1>1. TypeOK'
  BY DEF IInv, TypeOK, Steps, Detects, FlagOf, OpenClear, From, hardware,
         flags, detect
<1>2. HandlerInv'
  BY DEF IInv, TypeOK, HandlerInv, OpenClear, From, hardware, flags, detect
<1>3. ChannelInv'
  BY DEF IInv, TypeOK, ChannelInv, HandlerInv, OpenClear, From, hardware,
         flags, detect
<1>4. TrackInv'
  BY DEF IInv, TypeOK, ChannelInv, HandlerInv, TrackInv, Announced, Outcome,
         FlagOf, OpenClear, From, hardware, flags, detect
<1> QED BY <1>1, <1>2, <1>3, <1>4 DEF IInv

LEMMA OpenEnableInv == IInv /\ OpenEnable => IInv'
<1> SUFFICES ASSUME IInv, OpenEnable
             PROVE  IInv'
  OBVIOUS
<1>1. TypeOK'
  BY DEF IInv, TypeOK, Steps, Detects, FlagOf, OpenEnable, From, hardware,
         flags, detect
<1>2. HandlerInv'
  BY DEF IInv, TypeOK, HandlerInv, OpenEnable, From, hardware, flags, detect
<1>3. ChannelInv'
  BY DEF IInv, TypeOK, ChannelInv, HandlerInv, OpenEnable, From, hardware,
         flags, detect
<1>4. TrackInv'
  BY DEF IInv, TypeOK, ChannelInv, HandlerInv, TrackInv, Announced, Outcome,
         FlagOf, OpenEnable, From, hardware, flags, detect
<1> QED BY <1>1, <1>2, <1>3, <1>4 DEF IInv

LEMMA MagicConfigureInv == IInv /\ MagicConfigure => IInv'
<1> SUFFICES ASSUME IInv, MagicConfigure
             PROVE  IInv'
  OBVIOUS
<1>1. TypeOK'
  <2>1. re' \in BOOLEAN
    BY Zenon DEF IInv, TypeOK, MagicConfigure, ConfigureMac
  <2>2. mpde' \in BOOLEAN
    BY Zenon DEF IInv, TypeOK, MagicConfigure, ConfigureMac
  <2>3. lost' \in BOOLEAN
    BY Zenon DEF IInv, TypeOK, MagicConfigure, ConfigureMac
  <2> QED
    BY <2>1, <2>2, <2>3
       DEF IInv, TypeOK, Steps, Detects, FlagOf, MagicConfigure, ConfigureMac,
           From, hardware, flags, detect
<1>2. HandlerInv'
  BY DEF IInv, TypeOK, HandlerInv, MagicConfigure, ConfigureMac, From,
         hardware, flags, detect
<1>3. ChannelInv'
  BY DEF IInv, TypeOK, ChannelInv, HandlerInv, MagicConfigure, ConfigureMac,
         From, hardware, flags, detect
<1>4. TrackInv'
  BY DEF IInv, TypeOK, ChannelInv, HandlerInv, TrackInv, Announced, Outcome,
         FlagOf, MagicConfigure, ConfigureMac, From, hardware, flags, detect
<1> QED BY <1>1, <1>2, <1>3, <1>4 DEF IInv

LEMMA MagicLinkInv == IInv /\ MagicLink => IInv'
<1> SUFFICES ASSUME IInv, MagicLink
             PROVE  IInv'
  OBVIOUS
<1>1. TypeOK'
  <2>1. re' \in BOOLEAN
    BY Zenon DEF IInv, TypeOK, MagicLink, DoLink
  <2>2. mpde' \in BOOLEAN
    BY Zenon DEF IInv, TypeOK, MagicLink, DoLink
  <2>3. dropped' \in BOOLEAN
    BY Zenon DEF IInv, TypeOK, MagicLink, DoLink
  <2> QED
    BY <2>1, <2>2, <2>3
       DEF IInv, TypeOK, Steps, Detects, FlagOf, MagicLink, DoLink, From,
           hardware, flags, detect
<1>2. HandlerInv'
  BY DEF IInv, TypeOK, HandlerInv, MagicLink, DoLink, From, hardware, flags,
         detect
<1>3. ChannelInv'
  BY DEF IInv, TypeOK, ChannelInv, HandlerInv, MagicLink, DoLink, From,
         hardware, flags, detect
<1>4. TrackInv'
  BY DEF IInv, TypeOK, ChannelInv, HandlerInv, TrackInv, Announced, Outcome,
         FlagOf, MagicLink, DoLink, From, hardware, flags, detect
<1> QED BY <1>1, <1>2, <1>3, <1>4 DEF IInv

LEMMA WakeOnLANInv == IInv /\ WakeOnLAN => IInv'
<1> SUFFICES ASSUME IInv, WakeOnLAN
             PROVE  IInv'
  OBVIOUS
<1>1. TypeOK'
  BY DEF IInv, TypeOK, Steps, Detects, FlagOf, WakeOnLAN, Call, From, hardware,
         flags, detect
<1>2. HandlerInv'
  BY DEF IInv, TypeOK, HandlerInv, WakeOnLAN, Call, From, hardware, flags,
         detect
<1>3. ChannelInv'
  BY DEF IInv, TypeOK, ChannelInv, HandlerInv, WakeOnLAN, Call, From, hardware,
         flags, detect
<1>4. TrackInv'
  BY DEF IInv, TypeOK, ChannelInv, HandlerInv, TrackInv, Announced, Outcome,
         FlagOf, WakeOnLAN, Call, From, hardware, flags, detect
<1> QED BY <1>1, <1>2, <1>3, <1>4 DEF IInv

LEMMA lan_resetInv == IInv /\ lan_reset => IInv'
<1> SUFFICES ASSUME IInv, lan_reset
             PROVE  IInv'
  OBVIOUS
<1>1. TypeOK'
  BY DEF IInv, TypeOK, Steps, Detects, FlagOf, lan_reset, Call, From, hardware,
         flags, detect
<1>2. HandlerInv'
  BY DEF IInv, TypeOK, HandlerInv, lan_reset, Call, From, hardware, flags,
         detect
<1>3. ChannelInv'
  BY DEF IInv, TypeOK, ChannelInv, HandlerInv, lan_reset, Call, From, hardware,
         flags, detect
<1>4. TrackInv'
  BY DEF IInv, TypeOK, ChannelInv, HandlerInv, TrackInv, Announced, Outcome,
         FlagOf, lan_reset, Call, From, hardware, flags, detect
<1> QED BY <1>1, <1>2, <1>3, <1>4 DEF IInv

LEMMA lan_closeInv == IInv /\ lan_close => IInv'
<1> SUFFICES ASSUME IInv, lan_close
             PROVE  IInv'
  OBVIOUS
<1>1. TypeOK'
  BY DEF IInv, TypeOK, Steps, Detects, FlagOf, lan_close, Call, From, hardware,
         flags, detect
<1>2. HandlerInv'
  BY DEF IInv, TypeOK, HandlerInv, lan_close, Call, From, hardware, flags,
         detect
<1>3. ChannelInv'
  BY DEF IInv, TypeOK, ChannelInv, HandlerInv, lan_close, Call, From, hardware,
         flags, detect
<1>4. TrackInv'
  BY DEF IInv, TypeOK, ChannelInv, HandlerInv, TrackInv, Announced, Outcome,
         FlagOf, lan_close, Call, From, hardware, flags, detect
<1> QED BY <1>1, <1>2, <1>3, <1>4 DEF IInv

LEMMA lan_openInv == IInv /\ lan_open => IInv'
<1> SUFFICES ASSUME IInv, lan_open
             PROVE  IInv'
  OBVIOUS
<1>1. TypeOK'
  BY DEF IInv, TypeOK, Steps, Detects, FlagOf, lan_open, Call, From, hardware,
         flags, detect
<1>2. HandlerInv'
  BY DEF IInv, TypeOK, HandlerInv, lan_open, Call, From, hardware, flags,
         detect
<1>3. ChannelInv'
  BY DEF IInv, TypeOK, ChannelInv, HandlerInv, lan_open, Call, From, hardware,
         flags, detect
<1>4. TrackInv'
  BY DEF IInv, TypeOK, ChannelInv, HandlerInv, TrackInv, Announced, Outcome,
         FlagOf, lan_open, Call, From, hardware, flags, detect
<1> QED BY <1>1, <1>2, <1>3, <1>4 DEF IInv

LEMMA UnchangedInv == IInv /\ UNCHANGED vars => IInv'
<1> SUFFICES ASSUME IInv, UNCHANGED vars
             PROVE  IInv'
  OBVIOUS
<1>1. TypeOK' /\ HandlerInv'
  BY DEF IInv, TypeOK, HandlerInv, vars, hardware, flags, detect
<1>2. ChannelInv' /\ TrackInv'
  BY DEF IInv, ChannelInv, TrackInv, Announced, Outcome, vars, hardware, flags
<1> QED BY <1>1, <1>2 DEF IInv

-----------------------------------------------------------------------------
LEMMA NextInv == IInv /\ [Next]_vars => IInv'
<1> SUFFICES ASSUME IInv, [Next]_vars
             PROVE  IInv'
  OBVIOUS
<1>1. CASE Hardware
  BY <1>1, ChangeCableInv, SignalChangeInv, DetectLinkInv, MagicPacketInv
     DEF Hardware
<1>2. CASE Interrupt
  BY <1>2, IsrEnterInv, IsrJudgeInv, IsrClearInv DEF Interrupt
<1>3. CASE LinkProcess
  BY <1>3, MagicPacketFoundInv, NoMagicPacketInv, TestFlagsInv, OnCheckInv,
     OnClearInv, OnConfigureInv, OnLinkInv, OnEnableInv, OffClearInv,
     OffCheckInv, OffDisableInv, CloseIcuInv, CloseFlagsInv, OpenResetInv,
     OpenClearInv, OpenEnableInv DEF LinkProcess
<1>4. CASE WakeProcess
  BY <1>4, MagicConfigureInv, MagicLinkInv DEF WakeProcess
<1>5. CASE Application
  BY <1>5, WakeOnLANInv, lan_resetInv, lan_closeInv, lan_openInv
     DEF Application
<1>6. CASE UNCHANGED vars
  BY <1>6, UnchangedInv
<1> QED BY <1>1, <1>2, <1>3, <1>4, <1>5, <1>6 DEF Next

(* The inductive invariant: what a step of the handler, of the main        *)
(* program or of the hardware may leave in the channel's flags.            *)
THEOREM Invariance == Spec => []IInv
  BY InitInv, NextInv, PTL DEF Spec

(* The variables keep their types (flags, registers, steps).               *)
THEOREM TypeCorrect == Spec => []TypeOK
<1>1. IInv => TypeOK
  BY DEF IInv
<1> QED BY <1>1, Invariance, PTL

(* No interleaving of the interrupt handler with R_ETHER_LinkProcess loses *)
(* a change of the link, outside the windows in which the model sets lost. *)
THEOREM LinkChangesTracked == Spec => []ChangesTracked
<1>1. IInv => ChangesTracked
  <2> SUFFICES ASSUME IInv, step = "idle", icu, ~ lost
               PROVE  transfer_enable_flag = lmon \/ Announced
    BY DEF ChangesTracked, Announced
  <2>1. (Outcome <=> lmon) \/ Announced
    BY DEF IInv, TrackInv
  <2>2. /\ Outcome <=> transfer_enable_flag
        /\ transfer_enable_flag \in BOOLEAN /\ lmon \in BOOLEAN
    BY DEF Outcome, IInv, TypeOK
  <2> QED BY <2>1, <2>2
<1> QED BY <1>1, Invariance, PTL

=============================================================================
