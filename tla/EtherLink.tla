------------------------------- MODULE EtherLink -------------------------------
(***************************************************************************)
(* Link processing of one Ethernet channel (r_ether_rx/src/r_ether_rx.c,   *)
(* r_t4_driver_rx/src/ether_callback.c, r_ether_rx/src/phy/phy.c).         *)
(*                                                                         *)
(* Three parties share the channel's flags and registers: the hardware     *)
(* (cable, LINK signal, link status bit of the PHY, ECSR), the interrupt   *)
(* handler ether_int_common, and the main program, which polls             *)
(* R_ETHER_LinkProcess and may call R_ETHER_WakeOnLAN, lan_reset and       *)
(* lan_close.  The handler interrupts the main program between any two     *)
(* steps and runs to its end; the hardware moves at any time.              *)
(***************************************************************************)
EXTENDS Integers

CONSTANTS
  Callback,    \* cb_func.pcb_func is registered (callback_ether_regist)
  MaxChanges,  \* bound: how often the cable is plugged or unplugged
  MaxCalls     \* bound: calls of WakeOnLAN, lan_reset, lan_close, lan_open

ASSUME LinkAssumption ==
  Callback \in BOOLEAN /\ MaxChanges \in Nat /\ MaxCalls \in Nat

VARIABLES
  cable, changes,  \* the cable carries a link; changes of it so far
  lmon, status,    \* PSR.LMON says link present; the PHY's link status
  dropped,         \* the status bit has latched a loss of the link
  ecsr,            \* ECSR: subset of {"LCHNG", "MPD"}
  icu,             \* the channel's interrupt is enabled
  re, mpde,        \* ECMR.RE (and TE, except with MPDE); ECMR.MPDE
  isr, snapshot,   \* step of ether_int_common, its status_ecsr
  step, then,      \* step of the main program; what follows R_ETHER_Close
  lchng_flag, mpd_flag, transfer_enable_flag,
  link_detect, magic_packet_detect,  \* ether_callback.c
  calls,           \* calls made so far
  lost             \* the last change of the LINK signal was lost

hardware == <<cable, changes, lmon, status>>
flags == <<lchng_flag, mpd_flag, transfer_enable_flag>>
detect == <<link_detect, magic_packet_detect>>
vars == <<hardware, dropped, ecsr, icu, re, mpde, isr, snapshot, step, then,
          flags, detect, calls, lost>>

(* Mutant: the wrong one of two similar constants, ETHER_FLAG_ON. *)
FlagOfOther(present) == IF present THEN "ON" ELSE "LINK_OFF"

FlagOf(present) == IF present THEN "LINK_ON" ELSE "LINK_OFF"

Init ==
  /\ cable \in BOOLEAN /\ changes = 0 /\ lmon = FALSE /\ status = FALSE
  /\ dropped = FALSE /\ ecsr = {} /\ icu = FALSE /\ re = FALSE /\ mpde = FALSE
  /\ isr = "no" /\ snapshot = {} /\ step = "open" /\ then = "idle"
  /\ lchng_flag = "OFF" /\ mpd_flag = FALSE /\ transfer_enable_flag = FALSE
  /\ link_detect = "OFF" /\ magic_packet_detect = FALSE
  /\ calls = 0 /\ lost = FALSE

-----------------------------------------------------------------------------
(* Hardware.  The LINK signal rises before the PHY has detected a link     *)
(* (the comment in R_ETHER_LinkProcess) and both fall together.  A change  *)
(* of the signal sets ECSR.LCHNG.                                          *)
ChangeCable ==
  /\ changes < MaxChanges
  /\ changes' = changes + 1 /\ cable' = ~ cable
  /\ UNCHANGED <<lmon, status, dropped, ecsr, icu, re, mpde, isr, snapshot,
                 step, then, flags, detect, calls, lost>>

SignalChange ==
  /\ lmon # cable
  /\ lmon' = cable /\ ecsr' = ecsr \cup {"LCHNG"}
  /\ status' = FALSE /\ dropped' = (dropped \/ status)
  /\ UNCHANGED <<cable, changes, icu, re, mpde, isr, snapshot, step, then,
                 flags, detect, calls, lost>>

DetectLink ==
  /\ lmon /\ ~ status /\ status' = TRUE
  /\ UNCHANGED <<cable, changes, lmon, dropped, ecsr, icu, re, mpde, isr,
                 snapshot, step, then, flags, detect, calls, lost>>

MagicPacket ==
  /\ mpde /\ re /\ status /\ "MPD" \notin ecsr
  /\ ecsr' = ecsr \cup {"MPD"}
  /\ UNCHANGED <<hardware, dropped, icu, re, mpde, isr, snapshot, step, then,
                 flags, detect, calls, lost>>

-----------------------------------------------------------------------------
(* ether_int_common: read ECSR, judge by LMON, clear the bits read.  A     *)
(* change after the judgement is cleared with the bits and lost.           *)
IsrEnter ==
  /\ isr = "no" /\ icu /\ ecsr # {}
  /\ isr' = "judge" /\ snapshot' = ecsr
  /\ UNCHANGED <<hardware, dropped, ecsr, icu, re, mpde, step, then, flags,
                 detect, calls, lost>>

IsrJudge ==
  /\ isr = "judge" /\ isr' = "clear"
  /\ IF "LCHNG" \in snapshot
       THEN lchng_flag' = FlagOf(lmon) /\ lost' = FALSE
       ELSE UNCHANGED <<lchng_flag, lost>>
  /\ mpd_flag' = (mpd_flag \/ "MPD" \in snapshot)
  /\ UNCHANGED <<hardware, dropped, ecsr, icu, re, mpde, snapshot, step, then,
                 transfer_enable_flag, detect, calls>>

IsrClear ==
  /\ isr = "clear" /\ isr' = "no" /\ snapshot' = {}
  /\ ecsr' = ecsr \ snapshot
  /\ lost' = (lost \/ ("LCHNG" \in snapshot /\ lchng_flag # FlagOf(lmon)))
  /\ UNCHANGED <<hardware, dropped, icu, re, mpde, step, then, flags, detect,
                 calls>>

-----------------------------------------------------------------------------
(* Goes from one step of the main program to the next, between interrupts. *)
From(a, b) == isr = "no" /\ step = a /\ step' = b

(* The link status bit, read once: down if it is, or has latched a loss.   *)
LinkUp == status /\ ~ dropped

(* Mutant: the channel is not opened again. *)
MagicPacketOnlyNoted ==
  /\ From("idle", "flags") /\ mpd_flag
  /\ mpd_flag' = FALSE
  /\ magic_packet_detect' = (magic_packet_detect \/ Callback)
  /\ UNCHANGED <<hardware, dropped, ecsr, icu, re, mpde, isr, snapshot, then,
                 lchng_flag, transfer_enable_flag, link_detect, calls, lost>>

(* R_ETHER_LinkProcess, a magic packet: callback, then Close and Open if   *)
(* there is one.                                                           *)
MagicPacketFound ==
  /\ From("idle", IF Callback THEN "close" ELSE "flags") /\ mpd_flag
  /\ mpd_flag' = FALSE
  /\ magic_packet_detect' = (magic_packet_detect \/ Callback)
  /\ then' = "open"
  /\ UNCHANGED <<hardware, dropped, ecsr, icu, re, mpde, isr, snapshot,
                 lchng_flag, transfer_enable_flag, link_detect, calls, lost>>

NoMagicPacket ==
  /\ From("idle", "flags") /\ ~ mpd_flag
  /\ UNCHANGED <<hardware, dropped, ecsr, icu, re, mpde, isr, snapshot, then,
                 flags, detect, calls, lost>>

TestFlags ==
  /\ From("flags", CASE lchng_flag = "LINK_ON" -> "on_check"
                     [] lchng_flag = "LINK_OFF" -> "off_clear"
                     [] OTHER -> "idle")
  /\ UNCHANGED <<hardware, dropped, ecsr, icu, re, mpde, isr, snapshot, then,
                 flags, detect, calls, lost>>

(* Mutant: clears the flag before the link is confirmed. *)
OnCheckClears ==
  /\ From("on_check", IF LinkUp THEN "on_clear" ELSE "idle")
  /\ dropped' = FALSE /\ lchng_flag' = IF LinkUp THEN lchng_flag ELSE "OFF"
  /\ UNCHANGED <<hardware, ecsr, icu, re, mpde, isr, snapshot, then, mpd_flag,
                 transfer_enable_flag, detect, calls, lost>>

(* Link up: the flag stays set until R_ETHER_CheckLink_ZC confirms it ...  *)
OnCheck ==
  /\ From("on_check", IF LinkUp THEN "on_clear" ELSE "idle")
  /\ dropped' = FALSE
  /\ UNCHANGED <<hardware, ecsr, icu, re, mpde, isr, snapshot, then, flags,
                 detect, calls, lost>>

OnClear ==
  /\ From("on_clear", "on_configure")
  /\ lchng_flag' = "OFF"
  /\ lost' = (lost \/ lchng_flag # "LINK_ON")
  /\ UNCHANGED <<hardware, dropped, ecsr, icu, re, mpde, isr, snapshot, then,
                 mpd_flag, transfer_enable_flag, detect, calls>>

(* ... then ether_configure_mac, whose software reset clears ECMR and      *)
(* ECSR, and ether_do_link, which fails without a link or before the       *)
(* auto-negotiation is complete.                                           *)
ConfigureMac(a, b) ==
  /\ From(a, b)
  /\ re' = FALSE /\ mpde' = FALSE /\ ecsr' = {}
  /\ lost' = (lost \/ "LCHNG" \in ecsr)
  /\ UNCHANGED <<hardware, dropped, icu, isr, snapshot, then, flags, detect,
                 calls>>

DoLink(a, b, magic) ==
  /\ From(a, b)
  /\ \E complete \in BOOLEAN :
       /\ re' = (status /\ complete)
       /\ mpde' = (status /\ complete /\ magic)
  /\ dropped' = FALSE
  /\ UNCHANGED <<hardware, ecsr, icu, isr, snapshot, then, flags, detect,
                 calls, lost>>

OnConfigure == ConfigureMac("on_configure", "on_link")
OnLink == DoLink("on_link", "on_enable", FALSE)

OnEnable ==
  /\ From("on_enable", "idle")
  /\ transfer_enable_flag' = TRUE
  /\ link_detect' = IF Callback THEN "LINK_ON" ELSE link_detect
  /\ UNCHANGED <<hardware, dropped, ecsr, icu, re, mpde, isr, snapshot, then,
                 lchng_flag, mpd_flag, magic_packet_detect, calls, lost>>

(* Link down: the flag is cleared first, and the transfer stops if         *)
(* R_ETHER_CheckLink_ZC confirms it.                                       *)
OffClear ==
  /\ From("off_clear", "off_check")
  /\ lchng_flag' = "OFF"
  /\ lost' = (lost \/ lchng_flag # "LINK_OFF")
  /\ UNCHANGED <<hardware, dropped, ecsr, icu, re, mpde, isr, snapshot, then,
                 mpd_flag, transfer_enable_flag, detect, calls>>

OffCheck ==
  /\ From("off_check", IF LinkUp THEN "idle" ELSE "off_disable")
  /\ dropped' = FALSE
  /\ UNCHANGED <<hardware, ecsr, icu, re, mpde, isr, snapshot, then, flags,
                 detect, calls, lost>>

OffDisable ==
  /\ From("off_disable", "idle")
  /\ re' = FALSE /\ transfer_enable_flag' = FALSE
  /\ link_detect' = IF Callback THEN "LINK_OFF" ELSE link_detect
  /\ UNCHANGED <<hardware, dropped, ecsr, icu, mpde, isr, snapshot, then,
                 lchng_flag, mpd_flag, magic_packet_detect, calls, lost>>

-----------------------------------------------------------------------------
(* Calls of the application, between two calls of R_ETHER_LinkProcess.     *)
Call(b) ==
  /\ From("idle", b)
  /\ calls < MaxCalls /\ calls' = calls + 1
  /\ UNCHANGED <<hardware, dropped, ecsr, icu, re, mpde, isr, snapshot, flags,
                 detect, lost>>

WakeOnLAN == Call("magic_configure") /\ transfer_enable_flag /\ UNCHANGED then
lan_reset == Call("close") /\ then' = "open"
lan_close == Call("close") /\ then' = "idle"
lan_open == Call("open") /\ ~ icu /\ then' = "idle"

MagicConfigure == ConfigureMac("magic_configure", "magic_link")
MagicLink == DoLink("magic_link", "idle", TRUE)

(* R_ETHER_Close_ZC2: interrupts off, ECMR = 0, flags OFF.                 *)
CloseIcu ==
  /\ From("close", "closing")
  /\ icu' = FALSE
  /\ UNCHANGED <<hardware, dropped, ecsr, re, mpde, isr, snapshot, then, flags,
                 detect, calls, lost>>

FlagsOff ==
  lchng_flag' = "OFF" /\ mpd_flag' = FALSE /\ transfer_enable_flag' = FALSE

CloseFlags ==
  /\ From("closing", then)
  /\ re' = FALSE /\ mpde' = FALSE /\ FlagsOff
  /\ UNCHANGED <<hardware, dropped, ecsr, icu, isr, snapshot, then, detect,
                 calls, lost>>

(* R_ETHER_Open_ZC2: flags OFF, reset of the MAC and of the PHY, which     *)
(* drops the link; an error of phy_init leaves the interrupt disabled ...  *)
OpenReset ==
  /\ FlagsOff
  /\ re' = FALSE /\ mpde' = FALSE
  /\ lmon' = FALSE /\ status' = FALSE /\ dropped' = (dropped \/ status)
  /\ ecsr' = IF lmon THEN {"LCHNG"} ELSE {}
  /\ From("open", "opening") \/ From("open", "idle")
  /\ UNCHANGED <<cable, changes, icu, isr, snapshot, then, detect, calls,
                 lost>>

(* ... otherwise ECSR is cleared, then the interrupt enabled.              *)
OpenClear ==
  /\ From("opening", "enable")
  /\ ecsr' = {} /\ lost' = lmon
  /\ UNCHANGED <<hardware, dropped, icu, re, mpde, isr, snapshot, then, flags,
                 detect, calls>>

OpenEnable ==
  /\ From("enable", "idle")
  /\ icu' = TRUE
  /\ UNCHANGED <<hardware, dropped, ecsr, re, mpde, isr, snapshot, then, flags,
                 detect, calls, lost>>

-----------------------------------------------------------------------------
Hardware == ChangeCable \/ SignalChange \/ DetectLink \/ MagicPacket
Interrupt == IsrEnter \/ IsrJudge \/ IsrClear
LinkProcess ==
  \/ MagicPacketFound \/ NoMagicPacket \/ TestFlags
  \/ OnCheck \/ OnClear \/ OnConfigure \/ OnLink \/ OnEnable
  \/ OffClear \/ OffCheck \/ OffDisable
  \/ CloseIcu \/ CloseFlags \/ OpenReset \/ OpenClear \/ OpenEnable
WakeProcess == MagicConfigure \/ MagicLink
Application == WakeOnLAN \/ lan_reset \/ lan_close \/ lan_open

Next == Hardware \/ Interrupt \/ LinkProcess \/ WakeProcess \/ Application

(* The main loop calls R_ETHER_LinkProcess in every turn and runs between  *)
(* the interrupts, however many there are; an interrupt is taken and ends; *)
(* the hardware follows the cable.  Nothing obliges the cable to change,   *)
(* a magic packet to come or the application to call.                      *)
Fairness ==
  /\ WF_vars(Interrupt) /\ SF_vars(LinkProcess) /\ SF_vars(WakeProcess)
  /\ WF_vars(SignalChange) /\ WF_vars(DetectLink)

Spec == Init /\ [][Next]_vars /\ Fairness
-----------------------------------------------------------------------------
Steps == {"idle", "flags", "on_check", "on_clear", "on_configure", "on_link",
          "on_enable", "off_clear", "off_check", "off_disable",
          "magic_configure", "magic_link", "close", "closing", "open",
          "opening", "enable"}
Detects == {"OFF", "LINK_ON", "LINK_OFF"}

TypeOK ==
  /\ cable \in BOOLEAN /\ changes \in Nat /\ lmon \in BOOLEAN
  /\ status \in BOOLEAN /\ dropped \in BOOLEAN
  /\ ecsr \subseteq {"LCHNG", "MPD"} /\ icu \in BOOLEAN
  /\ re \in BOOLEAN /\ mpde \in BOOLEAN
  /\ isr \in {"no", "judge", "clear"} /\ snapshot \subseteq {"LCHNG", "MPD"}
  /\ step \in Steps /\ then \in {"idle", "open"}
  /\ lchng_flag \in Detects /\ mpd_flag \in BOOLEAN
  /\ transfer_enable_flag \in BOOLEAN
  /\ link_detect \in Detects /\ magic_packet_detect \in BOOLEAN
  /\ calls \in Nat /\ lost \in BOOLEAN

(* Between two calls of the main program, when the transfer flag does not  *)
(* agree with the LINK signal, a change is signalled or flagged, whatever  *)
(* the interleaving (ether_int_common, R_ETHER_LinkProcess), unless it     *)
(* fell in one of the windows in which the code loses it.                  *)
ChangesTracked ==
  step = "idle" /\ isr = "no" /\ icu /\ ~ lost
    => \/ transfer_enable_flag = lmon
       \/ "LCHNG" \in ecsr
       \/ lchng_flag = FlagOf(lmon)

(* In the end the transfer flag follows the link, unless the last change   *)
(* was lost or the channel is closed or failed to open (LinkProcess).      *)
LinkFollowed == <>[](transfer_enable_flag = status \/ lost \/ ~ icu)

(* A magic packet ends the magic packet mode: the channel is opened again  *)
(* (R_ETHER_LinkProcess), if a callback is registered.                     *)
MagicPacketEndsMode == Callback => (mpde /\ "MPD" \in ecsr ~> ~ mpde)

(* The comment on transfer_enable_flag: "ETHER_FLAG_ON  (1): It is         *)
(* possible to communicate."                                               *)
EnabledMeansUsable ==
  step = "idle" /\ transfer_enable_flag => re
=============================================================================
