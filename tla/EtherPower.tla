------------------------------ MODULE EtherPower ------------------------------
(***************************************************************************)
(* Power control of the two Ethernet modules (r_ether_rx/src/r_ether_rx.c).*)
(*                                                                         *)
(* Channel c owns one ETHERC/EDMAC pair, "module c".  The PHY of channel c *)
(* is managed through the PIR register of module PhyAccess[c], so module m *)
(* has to run for channel m and for every channel that reaches its PHY     *)
(* through m.  The driver counts those uses in etherc_edmac_power_cont     *)
(* and guards every module with two r_bsp hardware locks.                  *)
(*                                                                         *)
(* The application is sequential: one power call at a time, its memory     *)
(* writes being separate steps, because the timer and Ethernet interrupts  *)
(* may read etherc_edmac_power_cont between two of them.                   *)
(***************************************************************************)
EXTENDS Naturals

CONSTANT PhyAccess  \* ETHER_CFG_CH0_PHY_ACCESS, ETHER_CFG_CH1_PHY_ACCESS

Channel == {0, 1}   \* ETHER_CHANNEL_0, ETHER_CHANNEL_1

(* Any wiring but the crossed one: with the PHY of channel 0 behind module *)
(* 1 and that of channel 1 behind module 0, the call for one channel locks *)
(* both modules and the other can never be powered.                        *)
ASSUME PhyAccessAssumption ==
  /\ PhyAccess \in [Channel -> Channel]
  /\ ~ (PhyAccess[0] = 1 /\ PhyAccess[1] = 0)

VARIABLES
  power_cont,  \* etherc_edmac_power_cont[phy access channel][channel] = 1
  locks,       \* the r_bsp locks BSP_LOCK_ETHERCm and BSP_LOCK_EDMACm held
  running,     \* modules whose MSTP bit is 0
  op, chan,    \* the last or current power call ("on", "off") and its channel
  at,          \* its next step: "own", "phy", or "done"
  ret,         \* its return value so far
  link         \* driver state of a channel, see LinkState

vars == <<power_cont, locks, running, op, chan, at, ret, link>>
call == <<op, chan, at, ret>>

Result == {"SUCCESS", "ERR_CHAN_OPEN", "ERR_OTHER"}

(* Closed; opened, its interrupt enabled; transfer_enable_flag set; the    *)
(* latter in magic packet detection mode, its ECMR.MPDE bit 1.             *)
LinkState == {"closed", "open", "up", "wake"}

LocksOf(m) == {"ETHERC", "EDMAC"} \X {m}

Init ==
  /\ power_cont = [p \in Channel |-> [c \in Channel |-> FALSE]]
  /\ locks = {} /\ running = {}
  /\ op = "off" /\ chan = 0 /\ at = "done" /\ ret = "SUCCESS"
  /\ link = [c \in Channel |-> "closed"]

-----------------------------------------------------------------------------
(* power_on(m): take both locks or neither, then release the module stop.  *)
CanLock(m) == locks \cap LocksOf(m) = {}

(* Mutant: the module stop bit of the next module. *)
PowerUpNext(m) ==
  /\ CanLock(m)
  /\ locks' = locks \cup LocksOf(m)
  /\ running' = running \cup {m + 1}

PowerUp(m) ==
  /\ CanLock(m)
  /\ locks' = locks \cup LocksOf(m)
  /\ running' = running \cup {m}

(* power_off(m): stop the module, release its locks whoever holds them.    *)
PowerDown(m) ==
  /\ running' = running \ {m}
  /\ locks' = locks \ LocksOf(m)

FirstStep(c) == IF c # PhyAccess[c] THEN "own" ELSE "phy"

Noted(p) == {c \in Channel : power_cont[p][c]}

(* R_ETHER_Control(CONTROL_POWER_ON, c) -> power_on_control(c).            *)
PowerOnCall(c) ==
  /\ at = "done"
  /\ op' = "on" /\ chan' = c /\ at' = FirstStep(c) /\ ret' = "ERR_OTHER"
  /\ power_cont' = [power_cont EXCEPT ![PhyAccess[c]][c] = TRUE]
  /\ UNCHANGED <<locks, running, link>>

PowerOnOwn ==
  /\ op = "on" /\ at = "own"
  /\ \/ PowerUp(chan) /\ ret' = "SUCCESS" /\ at' = "phy"
     \/ /\ ~ CanLock(chan)
        /\ ret' = "ERR_CHAN_OPEN" /\ at' = "done"
        /\ UNCHANGED <<locks, running>>
  /\ UNCHANGED <<power_cont, op, chan, link>>

(* Mutant: skips the module of the PHY bus when any channel has noted it.  *)
PowerOnPhySkips ==
  /\ op = "on" /\ at = "phy" /\ at' = "done"
  /\ Noted(PhyAccess[chan]) # {}
  /\ UNCHANGED <<power_cont, locks, running, op, chan, ret, link>>

PowerOnPhy ==
  LET m == PhyAccess[chan] IN
  /\ op = "on" /\ at = "phy" /\ at' = "done"
  /\ \/ /\ Noted(m) = Channel
        /\ UNCHANGED <<locks, running, ret>>
     \/ Noted(m) # Channel /\ PowerUp(m) /\ ret' = "SUCCESS"
     \/ /\ Noted(m) # Channel /\ ~ CanLock(m)
        /\ ret' = "ERR_CHAN_OPEN"
        /\ UNCHANGED <<locks, running>>
  /\ UNCHANGED <<power_cont, op, chan, link>>

(* R_ETHER_Control(CONTROL_POWER_OFF, c) -> power_off_control(c); as in    *)
(* lan_close and lan_reset, the channel has been closed before.            *)
PowerOffCall(c) ==
  /\ at = "done" /\ link[c] = "closed"
  /\ op' = "off" /\ chan' = c /\ at' = FirstStep(c) /\ ret' = "SUCCESS"
  /\ power_cont' = [power_cont EXCEPT ![PhyAccess[c]][c] = FALSE]
  /\ UNCHANGED <<locks, running, link>>

PowerOffOwn ==
  /\ op = "off" /\ at = "own" /\ at' = "phy"
  /\ PowerDown(chan)
  /\ UNCHANGED <<power_cont, op, chan, ret, link>>

(* Mutant: never stops the module of the PHY bus. *)
PowerOffPhyKeeps ==
  /\ op = "off" /\ at = "phy" /\ at' = "done"
  /\ UNCHANGED <<power_cont, locks, running, op, chan, ret, link>>

(* Mutant: stops it whether or not the other channel has noted it. *)
PowerOffPhyAlways ==
  /\ op = "off" /\ at = "phy" /\ at' = "done"
  /\ PowerDown(PhyAccess[chan])
  /\ UNCHANGED <<power_cont, op, chan, ret, link>>

PowerOffPhy ==
  /\ op = "off" /\ at = "phy" /\ at' = "done"
  /\ \/ Noted(PhyAccess[chan]) = {} /\ PowerDown(PhyAccess[chan])
     \/ /\ Noted(PhyAccess[chan]) # {}
        /\ UNCHANGED <<locks, running>>
  /\ UNCHANGED <<power_cont, op, chan, ret, link>>

-----------------------------------------------------------------------------
(* What the driver does with a powered channel, as far as power goes.      *)
Powered(c) == power_cont[PhyAccess[c]][c]

(* R_ETHER_Open_ZC2 after POWER_ON, as in lan_open and lan_reset: phy_init *)
(* may fail, and the channel then stays without its interrupt.             *)
OpenZC2(c) ==
  /\ at = "done" /\ Powered(c) /\ link[c] = "closed"
  /\ \E phy_ok \in BOOLEAN :
       link' = [link EXCEPT ![c] = IF phy_ok THEN "open" ELSE "closed"]
  /\ UNCHANGED <<power_cont, locks, running, call>>

(* R_ETHER_LinkProcess sets or clears transfer_enable_flag; on a magic     *)
(* packet it closes and opens the channel, and the PHY may fail again.     *)
LinkProcess(c) ==
  /\ at = "done" /\ link[c] # "closed"
  /\ \E state \in {"closed", "open", "up"} : link' = [link EXCEPT ![c] = state]
  /\ UNCHANGED <<power_cont, locks, running, call>>

(* R_ETHER_WakeOnLAN: ether_do_link sets MPDE if the link is still up.     *)
WakeOnLAN(c) ==
  /\ at = "done" /\ link[c] \in {"up", "wake"}
  /\ \E linked \in BOOLEAN :
       link' = [link EXCEPT ![c] = IF linked THEN "wake" ELSE "up"]
  /\ UNCHANGED <<power_cont, locks, running, call>>

(* R_ETHER_Close_ZC2: registers of the module are written, then the flags. *)
CloseZC2(c) ==
  /\ at = "done" /\ Powered(c)
  /\ link' = [link EXCEPT ![c] = "closed"]
  /\ UNCHANGED <<power_cont, locks, running, call>>

(* Mutant: the indices of etherc_edmac_power_cont swapped. *)
MpdeReferredSwapped == {m \in Channel : \E p \in Channel : power_cont[m][p]}

(* The modules whose ECMR register check_mpde_bit refers to.               *)
MpdeReferred == {m \in Channel : \E p \in Channel : power_cont[p][m]}

PowerOn == (\E c \in Channel : PowerOnCall(c)) \/ PowerOnOwn \/ PowerOnPhy
PowerOff == (\E c \in Channel : PowerOffCall(c)) \/ PowerOffOwn \/ PowerOffPhy
Use == \E c \in Channel :
  OpenZC2(c) \/ LinkProcess(c) \/ WakeOnLAN(c) \/ CloseZC2(c)

Next == PowerOn \/ PowerOff \/ Use

Spec == Init /\ [][Next]_vars

-----------------------------------------------------------------------------
TypeOK ==
  /\ power_cont \in [Channel -> [Channel -> BOOLEAN]]
  /\ locks \in SUBSET ({"ETHERC", "EDMAC"} \X Channel)
  /\ running \in SUBSET Channel
  /\ op \in {"on", "off"} /\ chan \in Channel
  /\ at \in {"own", "phy", "done"} /\ ret \in Result
  /\ link \in [Channel -> LinkState]

(* The channels that need module m: its own, and those with a PHY behind.  *)
Needs(m) == {c \in Channel : Powered(c) /\ (c = m \/ PhyAccess[c] = m)}

(* Between two power calls a module runs exactly while some powered        *)
(* channel needs it, whatever the order of the calls and their results:    *)
(* no module is left running by the last POWER_OFF, none is stopped under  *)
(* the other channel (power_on_control, power_off_control).                *)
RunsIffNeeded ==
  at = "done" => running = {m \in Channel : Needs(m) # {}}

(* At every step of every power call, an open channel has its own module   *)
(* and the module of its PHY bus running: a POWER_OFF or a refused         *)
(* POWER_ON of the other channel never stops them (power_off_control).     *)
OpenHasPower ==
  \A c \in Channel : link[c] # "closed" => {c, PhyAccess[c]} \subseteq running

(* Whatever POWER_ON returns, ETHER_ERR_OTHER and ETHER_ERR_CHAN_OPEN      *)
(* included, the channel has all its modules when it returns.              *)
PowerOnPowers ==
  at = "done" /\ op = "on" => {chan, PhyAccess[chan]} \subseteq running

(* While some channel waits for a magic packet, check_mpde_bit finds its   *)
(* bit at every step of every power call, so that no read or write of      *)
(* either channel touches the descriptors: the bit it looks at is one of a *)
(* module that runs and of a channel that it refers to.                    *)
WakeIsSeen ==
  \A c \in Channel : link[c] = "wake" => c \in MpdeReferred \cap running

(* The comments of check_mpde_bit: "The MPDE bit can be referred to only   *)
(* when ETHERC0 operates", and the same for ETHERC1.  It is called by      *)
(* every read and write, in an interrupt too, while a link is up.          *)
MpdeReferredRuns ==
  (\E c \in Channel : link[c] = "up") => MpdeReferred \subseteq running
=============================================================================
