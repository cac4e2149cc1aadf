--------------------------- MODULE EtherPowerProofs ---------------------------
(* Proofs of the safety properties of EtherPower for every legal wiring.   *)
EXTENDS EtherPower, TLAPS

PoweredSet == {c \in Channel : Powered(c)}

(* The modules that the channels of S need.                                *)
NeededBy(S) == {m \in Channel : \E c \in S : c = m \/ PhyAccess[c] = m}

(***************************************************************************)
(* The inductive invariant.  RunsIffNeeded says nothing inside a call; the *)
(* last three conjuncts say how far the module stops have followed the     *)
(* bookkeeping at each step of one.                                        *)
(***************************************************************************)
Bookkeeping ==
  /\ \A p, c \in Channel : power_cont[p][c] => p = PhyAccess[c]
  /\ \A c \in Channel : link[c] # "closed" => Powered(c)
  /\ locks = {"ETHERC", "EDMAC"} \X running
  /\ op = "on" => Powered(chan)
  /\ at # "done" /\ op = "off" => ~ Powered(chan)

DoneInv == at = "done" => running = NeededBy(PoweredSet)

OnInv ==
  op = "on" =>
    /\ at = "own" => /\ chan # PhyAccess[chan]
                     /\ running \in {NeededBy(PoweredSet),
                                     NeededBy(PoweredSet \ {chan})}
    /\ at = "phy" => /\ running \cup {PhyAccess[chan]} = NeededBy(PoweredSet)
                     /\ NeededBy(PoweredSet \ {chan}) \subseteq running

OffInv ==
  op = "off" =>
    /\ at = "own" => /\ chan # PhyAccess[chan]
                     /\ running \in {NeededBy(PoweredSet),
                                     NeededBy(PoweredSet \cup {chan})}
    /\ at = "phy" => running \in {NeededBy(PoweredSet),
                                  NeededBy(PoweredSet) \cup {PhyAccess[chan]}}

IInv ==
  TypeOK /\ Bookkeeping /\ OpenHasPower /\ DoneInv /\ OnInv /\ OffInv
-----------------------------------------------------------------------------
USE PhyAccessAssumption DEF Channel

LEMMA InitIInv == Init => IInv
BY DEF Init, IInv, TypeOK, Bookkeeping, OpenHasPower, DoneInv, OnInv, OffInv,
       NeededBy, PoweredSet, Powered, Result, LinkState

LEMMA PowerOnCallStep ==
  ASSUME NEW c \in Channel, IInv, PowerOnCall(c)
  PROVE  IInv'
<1>1. TypeOK'
  BY DEF IInv, TypeOK, PowerOnCall, FirstStep, call, Result, LinkState
<1>2. Bookkeeping'
  BY DEF IInv, TypeOK, Bookkeeping, Powered, PowerOnCall, FirstStep, call
<1>3. OpenHasPower'
  BY DEF IInv, TypeOK, Bookkeeping, OpenHasPower, DoneInv, OnInv, OffInv,
         NeededBy, PoweredSet, Powered, PowerOnCall, FirstStep, call
<1>4. DoneInv'
  BY DEF IInv, TypeOK, Bookkeeping, OpenHasPower, DoneInv, OnInv, OffInv,
         NeededBy, PoweredSet, Powered, PowerOnCall, FirstStep, call
<1>5. OnInv'
  BY DEF IInv, TypeOK, Bookkeeping, OpenHasPower, DoneInv, OnInv, OffInv,
         NeededBy, PoweredSet, Powered, PowerOnCall, FirstStep, call
<1>6. OffInv'
  BY DEF IInv, TypeOK, Bookkeeping, OpenHasPower, DoneInv, OnInv, OffInv,
         NeededBy, PoweredSet, Powered, PowerOnCall, FirstStep, call
<1> QED BY <1>1, <1>2, <1>3, <1>4, <1>5, <1>6 DEF IInv

LEMMA PowerOnOwnStep ==
  ASSUME IInv, PowerOnOwn
  PROVE  IInv'
<1>1. TypeOK'
  BY DEF IInv, TypeOK, PowerOnOwn, PowerUp, CanLock, LocksOf, Result, LinkState
<1>2. Bookkeeping'
  BY DEF IInv, TypeOK, Bookkeeping, Powered, PowerOnOwn, PowerUp, CanLock,
         LocksOf
<1>3. OpenHasPower'
  BY DEF IInv, TypeOK, Bookkeeping, OpenHasPower, DoneInv, OnInv, OffInv,
         NeededBy, PoweredSet, Powered, PowerOnOwn, PowerUp, CanLock, LocksOf
<1>4. DoneInv'
  BY DEF IInv, TypeOK, Bookkeeping, OpenHasPower, DoneInv, OnInv, OffInv,
         NeededBy, PoweredSet, Powered, PowerOnOwn, PowerUp, CanLock, LocksOf
<1>5. OnInv'
  BY DEF IInv, TypeOK, Bookkeeping, OpenHasPower, DoneInv, OnInv, OffInv,
         NeededBy, PoweredSet, Powered, PowerOnOwn, PowerUp, CanLock, LocksOf
<1>6. OffInv'
  BY DEF IInv, TypeOK, Bookkeeping, OpenHasPower, DoneInv, OnInv, OffInv,
         NeededBy, PoweredSet, Powered, PowerOnOwn, PowerUp, CanLock, LocksOf
<1> QED BY <1>1, <1>2, <1>3, <1>4, <1>5, <1>6 DEF IInv

LEMMA PowerOnPhyStep ==
  ASSUME IInv, PowerOnPhy
  PROVE  IInv'
<1>1. TypeOK'
  BY DEF IInv, TypeOK, PowerOnPhy, PowerUp, CanLock, LocksOf, Noted, Result,
         LinkState
<1>2. Bookkeeping'
  BY DEF IInv, TypeOK, Bookkeeping, Powered, PowerOnPhy, PowerUp, CanLock,
         LocksOf, Noted
<1>3. OpenHasPower'
  BY DEF IInv, TypeOK, Bookkeeping, OpenHasPower, DoneInv, OnInv, OffInv,
         NeededBy, PoweredSet, Powered, PowerOnPhy, PowerUp, CanLock, LocksOf,
         Noted
<1>4. DoneInv'
  BY DEF IInv, TypeOK, Bookkeeping, OpenHasPower, DoneInv, OnInv, OffInv,
         NeededBy, PoweredSet, Powered, PowerOnPhy, PowerUp, CanLock, LocksOf,
         Noted
<1>5. OnInv'
  BY DEF IInv, TypeOK, Bookkeeping, OpenHasPower, DoneInv, OnInv, OffInv,
         NeededBy, PoweredSet, Powered, PowerOnPhy, PowerUp, CanLock, LocksOf,
         Noted
<1>6. OffInv'
  BY DEF IInv, TypeOK, Bookkeeping, OpenHasPower, DoneInv, OnInv, OffInv,
         NeededBy, PoweredSet, Powered, PowerOnPhy, PowerUp, CanLock, LocksOf,
         Noted
<1> QED BY <1>1, <1>2, <1>3, <1>4, <1>5, <1>6 DEF IInv

LEMMA PowerOffCallStep ==
  ASSUME NEW c \in Channel, IInv, PowerOffCall(c)
  PROVE  IInv'
<1>1. TypeOK'
  BY DEF IInv, TypeOK, PowerOffCall, FirstStep, Result, LinkState
<1>2. Bookkeeping'
  BY DEF IInv, TypeOK, Bookkeeping, Powered, PowerOffCall, FirstStep
<1>3. OpenHasPower'
  BY DEF IInv, TypeOK, Bookkeeping, OpenHasPower, DoneInv, OnInv, OffInv,
         NeededBy, PoweredSet, Powered, PowerOffCall, FirstStep
<1>4. DoneInv'
  BY DEF IInv, TypeOK, Bookkeeping, OpenHasPower, DoneInv, OnInv, OffInv,
         NeededBy, PoweredSet, Powered, PowerOffCall, FirstStep
<1>5. OnInv'
  BY DEF IInv, TypeOK, Bookkeeping, OpenHasPower, DoneInv, OnInv, OffInv,
         NeededBy, PoweredSet, Powered, PowerOffCall, FirstStep
<1>6. OffInv'
  BY DEF IInv, TypeOK, Bookkeeping, OpenHasPower, DoneInv, OnInv, OffInv,
         NeededBy, PoweredSet, Powered, PowerOffCall, FirstStep
<1> QED BY <1>1, <1>2, <1>3, <1>4, <1>5, <1>6 DEF IInv

LEMMA PowerOffOwnStep ==
  ASSUME IInv, PowerOffOwn
  PROVE  IInv'
<1>1. TypeOK'
  BY DEF IInv, TypeOK, PowerOffOwn, PowerDown, LocksOf, Result, LinkState
<1>2. Bookkeeping'
  BY DEF IInv, TypeOK, Bookkeeping, Powered, PowerOffOwn, PowerDown, LocksOf
<1>3. OpenHasPower'
  BY DEF IInv, TypeOK, Bookkeeping, OpenHasPower, DoneInv, OnInv, OffInv,
         NeededBy, PoweredSet, Powered, PowerOffOwn, PowerDown, LocksOf
<1>4. DoneInv'
  BY DEF IInv, TypeOK, Bookkeeping, OpenHasPower, DoneInv, OnInv, OffInv,
         NeededBy, PoweredSet, Powered, PowerOffOwn, PowerDown, LocksOf
<1>5. OnInv'
  BY DEF IInv, TypeOK, Bookkeeping, OpenHasPower, DoneInv, OnInv, OffInv,
         NeededBy, PoweredSet, Powered, PowerOffOwn, PowerDown, LocksOf
<1>6. OffInv'
  BY DEF IInv, TypeOK, Bookkeeping, OpenHasPower, DoneInv, OnInv, OffInv,
         NeededBy, PoweredSet, Powered, PowerOffOwn, PowerDown, LocksOf
<1> QED BY <1>1, <1>2, <1>3, <1>4, <1>5, <1>6 DEF IInv

LEMMA PowerOffPhyStep ==
  ASSUME IInv, PowerOffPhy
  PROVE  IInv'
<1>1. TypeOK'
  BY DEF IInv, TypeOK, PowerOffPhy, PowerDown, LocksOf, Noted, Result,
         LinkState
<1>2. Bookkeeping'
  BY DEF IInv, TypeOK, Bookkeeping, Powered, PowerOffPhy, PowerDown, LocksOf,
         Noted
<1>3. OpenHasPower'
  BY DEF IInv, TypeOK, Bookkeeping, OpenHasPower, DoneInv, OnInv, OffInv,
         NeededBy, PoweredSet, Powered, PowerOffPhy, PowerDown, LocksOf, Noted
<1>4. DoneInv'
  BY DEF IInv, TypeOK, Bookkeeping, OpenHasPower, DoneInv, OnInv, OffInv,
         NeededBy, PoweredSet, Powered, PowerOffPhy, PowerDown, LocksOf, Noted
<1>5. OnInv'
  BY DEF IInv, TypeOK, Bookkeeping, OpenHasPower, DoneInv, OnInv, OffInv,
         NeededBy, PoweredSet, Powered, PowerOffPhy, PowerDown, LocksOf, Noted
<1>6. OffInv'
  BY DEF IInv, TypeOK, Bookkeeping, OpenHasPower, DoneInv, OnInv, OffInv,
         NeededBy, PoweredSet, Powered, PowerOffPhy, PowerDown, LocksOf, Noted
<1> QED BY <1>1, <1>2, <1>3, <1>4, <1>5, <1>6 DEF IInv

LEMMA UseStep ==
  ASSUME NEW c \in Channel, IInv,
         OpenZC2(c) \/ LinkProcess(c) \/ WakeOnLAN(c) \/ CloseZC2(c)
  PROVE  IInv'
<1>1. /\ UNCHANGED <<power_cont, locks, running, call>>
      /\ \E state \in LinkState : link' = [link EXCEPT ![c] = state]
      /\ at = "done" /\ Powered(c)
  BY DEF IInv, Bookkeeping, OpenZC2, LinkProcess, WakeOnLAN, CloseZC2,
         LinkState
<1>2. TypeOK'
  BY <1>1 DEF IInv, TypeOK, call
<1>3. Bookkeeping'
  BY <1>1 DEF IInv, TypeOK, Bookkeeping, Powered, call
<1>4. OpenHasPower'
  BY <1>1 DEF IInv, TypeOK, OpenHasPower, DoneInv, NeededBy, PoweredSet, call
<1>5. DoneInv' /\ OnInv' /\ OffInv'
  BY <1>1 DEF IInv, DoneInv, OnInv, OffInv, NeededBy, PoweredSet, Powered, call
<1> QED BY <1>2, <1>3, <1>4, <1>5 DEF IInv

LEMMA NextIInv == IInv /\ [Next]_vars => IInv'
<1> SUFFICES ASSUME IInv, [Next]_vars
             PROVE  IInv'
  OBVIOUS
<1>1. CASE PowerOn
  BY <1>1, PowerOnCallStep, PowerOnOwnStep, PowerOnPhyStep DEF PowerOn
<1>2. CASE PowerOff
  BY <1>2, PowerOffCallStep, PowerOffOwnStep, PowerOffPhyStep DEF PowerOff
<1>3. CASE Use
  BY <1>3, UseStep DEF Use
<1>4. CASE UNCHANGED vars
  BY <1>4 DEF vars, IInv, TypeOK, Bookkeeping, OpenHasPower, DoneInv, OnInv,
              OffInv, NeededBy, PoweredSet, Powered
<1> QED BY <1>1, <1>2, <1>3, <1>4 DEF Next

(* The inductive invariant: what power_on_control and power_off_control    *)
(* have noted and powered at each of their steps.                          *)
THEOREM Invariance == Spec => []IInv
BY InitIInv, NextIInv, PTL DEF Spec

-----------------------------------------------------------------------------
(* Type correctness, from the inductive invariant.                         *)
THEOREM TypeCorrect == Spec => []TypeOK
<1>1. IInv => TypeOK
  BY DEF IInv
<1> QED BY <1>1, Invariance, PTL

(* For every legal wiring, between two power calls a module runs exactly   *)
(* while some powered channel needs it.                                    *)
THEOREM ModulesRunIffNeeded == Spec => []RunsIffNeeded
<1>1. IInv => RunsIffNeeded
  BY DEF IInv, DoneInv, RunsIffNeeded, Needs, NeededBy, PoweredSet
<1> QED BY <1>1, Invariance, PTL

(* For every legal wiring and at every step of every power call, no open   *)
(* channel loses its module or the module of its PHY.                      *)
THEOREM OpenChannelsHavePower == Spec => []OpenHasPower
<1>1. IInv => OpenHasPower
  BY DEF IInv
<1> QED BY <1>1, Invariance, PTL

(* For every legal wiring, a channel has its modules when POWER_ON returns,*)
(* whatever it returns.                                                    *)
THEOREM PowerOnIsEffective == Spec => []PowerOnPowers
<1>1. IInv => PowerOnPowers
  BY DEF IInv, TypeOK, Bookkeeping, DoneInv, PowerOnPowers, NeededBy,
         PoweredSet
<1> QED BY <1>1, Invariance, PTL

(* For every legal wiring, the magic packet mode of a channel is seen by   *)
(* every read and write, in the middle of a power call too.                *)
THEOREM WakeModeIsSeen == Spec => []WakeIsSeen
<1>1. IInv => WakeIsSeen
  BY DEF IInv, TypeOK, Bookkeeping, OpenHasPower, Powered, WakeIsSeen,
         MpdeReferred
<1> QED BY <1>1, Invariance, PTL
=============================================================================
