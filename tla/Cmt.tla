---------------------------------- MODULE Cmt ----------------------------------
(***************************************************************************)
(* The compare match timers (r_cmt_rx.c) and their two users in this       *)
(* program: "clock", the system time (r_sys_time.c), and "t4", the timer   *)
(* of the TCP/IP driver (timer.c).  Channels share a module, and with it   *)
(* the bit that stops its clock.  The main program makes every call; the   *)
(* timers' interrupts come between any two steps of a call.                *)
(*                                                                         *)
(* The program creates periodic timers of one frequency, which the         *)
(* dividers can always make.  Interrupt enable bits are set and cleared    *)
(* together with the start bit.                                            *)
(***************************************************************************)
EXTENDS Integers

CONSTANTS
  Channels,    \* CMT_RX_NUM_CHANNELS of them
  Units,       \* the modules: a clock for each
  UnitOf,      \* the module of a channel
  NoChannel    \* 0xff

ASSUME CmtAssumption ==
  /\ Channels \subseteq Nat /\ NoChannel \notin Channels
  /\ UnitOf \in [Channels -> Units]

VARIABLES
  cmt_lock,   \* BSP_LOCK_CMT is taken
  locks,      \* the channels whose BSP_LOCK_CMTn is taken
  modes,      \* g_cmt_modes
  callbacks,  \* g_cmt_callbacks
  powered,    \* the modules whose MSTP bit is 0
  counting,   \* the channels whose STR bit is set
  channel,    \* system_time_cmt_channel and cmt_channel
  call        \* the call under way: for whom, and where it is

cmtVars == <<cmt_lock, locks, modes, callbacks, powered, counting, channel, call>>

Users == {"clock", "t4"}
NotCalled == [at |-> "no", for |-> "t4"]
Stages == {"no", "lock", "find", "power", "mode", "callback", "start", "unlock",
           "stop", "off", "disable", "free"}

CmtInit ==
  /\ cmt_lock = FALSE /\ locks = {} /\ powered = {} /\ counting = {}
  /\ modes = [c \in Channels |-> "DISABLED"]
  /\ callbacks = [c \in Channels |-> "none"]
  /\ channel = [u \in Users |-> NoChannel] /\ call = NotCalled

CmtReset ==
  /\ cmt_lock' = FALSE /\ locks' = {} /\ powered' = {} /\ counting' = {}
  /\ modes' = [c \in Channels |-> "DISABLED"]
  /\ callbacks' = [c \in Channels |-> "none"]
  /\ channel' = [u \in Users |-> NoChannel] /\ call' = NotCalled

Siblings(c) == {d \in Channels \ {c} : UnitOf[d] = UnitOf[c]}
Counts(c) == c \in counting /\ UnitOf[c] \in powered
Chan == channel[call.for]

To(stage) == call' = [call EXCEPT !.at = stage]
At(stage) == call.at = stage
Returns == call' = NotCalled

-----------------------------------------------------------------------------
(* cmt_create.  Where it would return FALSE, the lock or all channels being *)
(* taken, its users wait for ever: it has no further step.                 *)
Create(u) == call = NotCalled /\ call' = [at |-> "lock", for |-> u]

LockState ==
  /\ At("lock") /\ ~cmt_lock
  /\ cmt_lock' = TRUE /\ To("find")
  /\ UNCHANGED <<locks, modes, callbacks, powered, counting, channel>>

FindChannel ==
  /\ At("find")
  /\ \E c \in Channels \ locks :
       /\ \A d \in Channels \ locks : c <= d
       /\ locks' = locks \cup {c}
       /\ channel' = [channel EXCEPT ![call.for] = c]
  /\ To("power")
  /\ UNCHANGED <<cmt_lock, modes, callbacks, powered, counting>>

PowerOn ==
  /\ At("power")
  /\ powered' = powered \cup {UnitOf[Chan]} /\ counting' = counting \ {Chan}
  /\ To("mode")
  /\ UNCHANGED <<cmt_lock, locks, modes, callbacks, channel>>

SetMode ==
  /\ At("mode")
  /\ modes' = [modes EXCEPT ![Chan] = "PERIODIC"] /\ To("callback")
  /\ UNCHANGED <<cmt_lock, locks, callbacks, powered, counting, channel>>

SetCallback ==
  /\ At("callback")
  /\ callbacks' = [callbacks EXCEPT ![Chan] = call.for] /\ To("start")
  /\ UNCHANGED <<cmt_lock, locks, modes, powered, counting, channel>>

(* A write to a register of a stopped module has no effect.                *)
CounterStart ==
  /\ At("start")
  /\ counting' = IF UnitOf[Chan] \in powered THEN counting \cup {Chan} ELSE counting
  /\ To("unlock")
  /\ UNCHANGED <<cmt_lock, locks, modes, callbacks, powered, channel>>

UnlockState ==
  /\ At("unlock")
  /\ cmt_lock' = FALSE /\ Returns
  /\ UNCHANGED <<locks, modes, callbacks, powered, counting, channel>>

-----------------------------------------------------------------------------
(* R_CMT_Stop, with the test of CloseTimer.                                *)
Stop(u) ==
  /\ call = NotCalled
  /\ call' = IF channel[u] = NoChannel THEN call ELSE [at |-> "stop", for |-> u]

CounterStop ==
  /\ At("stop")
  /\ counting' = counting \ {Chan} /\ To("off")
  /\ UNCHANGED <<cmt_lock, locks, modes, callbacks, powered, channel>>

(* Mutant: the other channel's mode is not looked at. *)
PowerOffBlindly ==
  /\ At("off")
  /\ powered' = powered \ {UnitOf[Chan]} /\ counting' = counting \ {Chan}
  /\ To("disable")
  /\ UNCHANGED <<cmt_lock, locks, modes, callbacks, channel>>

PowerOff ==
  /\ At("off")
  /\ powered' = IF \A d \in Siblings(Chan) : modes[d] = "DISABLED"
                THEN powered \ {UnitOf[Chan]} ELSE powered
  /\ counting' = counting \ {Chan} /\ To("disable")
  /\ UNCHANGED <<cmt_lock, locks, modes, callbacks, channel>>

Disable ==
  /\ At("disable")
  /\ modes' = [modes EXCEPT ![Chan] = "DISABLED"] /\ To("free")
  /\ UNCHANGED <<cmt_lock, locks, callbacks, powered, counting, channel>>

(* The user keeps the number of the channel it has given back.             *)
Unlock ==
  /\ At("free")
  /\ locks' = locks \ {Chan} /\ Returns
  /\ UNCHANGED <<cmt_lock, modes, callbacks, powered, counting, channel>>

CmtStep ==
  \/ LockState \/ FindChannel \/ PowerOn \/ SetMode \/ SetCallback
  \/ CounterStart \/ UnlockState
  \/ CounterStop \/ PowerOff \/ Disable \/ Unlock

CmtTypeOK ==
  /\ cmt_lock \in BOOLEAN /\ locks \subseteq Channels
  /\ modes \in [Channels -> {"DISABLED", "PERIODIC"}]
  /\ callbacks \in [Channels -> Users \cup {"none"}]
  /\ powered \subseteq Units /\ counting \subseteq Channels
  /\ channel \in [Users -> Channels \cup {NoChannel}]
  /\ call \in [at : Stages, for : Users]
=============================================================================
