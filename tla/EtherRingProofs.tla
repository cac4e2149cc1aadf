--------------------------- MODULE EtherRingProofs ---------------------------
(* Proofs about EtherRing, for rings of every size.                        *)
EXTENDS EtherRing, TLAPS

(* How many descriptors after p the descriptor i comes, in a ring of n.    *)
Distance(p, i, n) == IF i >= p THEN i - p ELSE i - p + n

-----------------------------------------------------------------------------
(***************************************************************************)
(* Receive ring.  A release counts as done from its first step, the RACT   *)
(* bit, on: RxOldest is the descriptor that is then the oldest in use, and *)
(* RxFreed the number of its frame.                                        *)
(***************************************************************************)
RxOldest == IF release = "no" THEN papp_rx ELSE RxNextOf(papp_rx)
RxFreed == IF release = "no" THEN freed ELSE freed + 1
RxUsed == filled - RxFreed
RxDistance(i) == Distance(RxOldest, i, RxDescriptors)

(* The descriptors in use are RxUsed consecutive ones, numbered like the   *)
(* frames received, and the EDMAC's pointer comes right after them.        *)
RxRingInv ==
  /\ RxUsed \in 0 .. RxDescriptors
  /\ \A i \in RxIndex : ~ rx[i].act <=> RxDistance(i) < RxUsed
  /\ \A i \in RxIndex : ~ rx[i].act =>
       /\ rx[i].frame = RxFreed + RxDistance(i)
       /\ rx[i].err <=> rx[i].frame \in bad
  /\ \/ RxUsed < RxDescriptors /\ RxDistance(edmac_rx) = RxUsed
     \/ RxUsed = RxDescriptors /\ edmac_rx = RxOldest
  /\ release \in {"marked", "loaded"} => rx[papp_rx].act
  /\ release = "loaded" => loaded.act

RxInv ==
  /\ RxTypeOK
  /\ held => release = "no" /\ ~ rx[papp_rx].err
  /\ HeldFrameStable
  /\ \A f \in bad : f < filled
  /\ ~ raced => RxRingInv

-----------------------------------------------------------------------------
(***************************************************************************)
(* Transmit ring, seen from the EDMAC's descriptor: the active ones are    *)
(* the TxUsed next ones, and the driver's pointer comes right after them.  *)
(***************************************************************************)
TxUsed == accepted - sent
TxDistance(i) == Distance(edmac_tx, i, TxDescriptors)
TxFree == IF write = "active" THEN TxNextOf(papp_tx) ELSE papp_tx

TxInv ==
  /\ TxTypeOK
  /\ TxUsed \in 0 .. TxDescriptors
  /\ \A i \in TxIndex : tx[i].act <=> TxDistance(i) < TxUsed
  /\ \A i \in TxIndex : tx[i].act => tx[i].frame = sent + 1 + TxDistance(i)
  /\ \/ TxUsed < TxDescriptors /\ TxDistance(TxFree) = TxUsed
     \/ TxUsed = TxDescriptors /\ TxFree = edmac_tx
  /\ write = "copying" => ~ tx[papp_tx].act /\ tx[papp_tx].frame = accepted + 1

IInv ==
  RxInv /\ TxInv /\ transfer_enable_flag \in BOOLEAN /\ enabled \in BOOLEAN

-----------------------------------------------------------------------------
USE RxAssumption, TxAssumption DEF RxIndex, TxIndex

LEMMA RxInitInv ==
  ASSUME NEW linked \in BOOLEAN, RxInit(linked)
  PROVE  RxInv
<1>1. RxTypeOK
  <2>1. [act |-> TRUE, err |-> FALSE, frame |-> 0] \in
          [act : BOOLEAN, err : BOOLEAN, frame : Nat]
    OBVIOUS
  <2>2. rx \in [RxIndex -> [act : BOOLEAN, err : BOOLEAN, frame : Nat]]
    BY <2>1 DEF RxInit, RxReady
  <2>3. NoStatus \in [act : BOOLEAN, err : BOOLEAN]
    BY DEF NoStatus
  <2>4. papp_rx \in RxIndex /\ edmac_rx \in RxIndex
    BY DEF RxInit, RxReady
  <2>5. rr \in BOOLEAN /\ held \in BOOLEAN /\ raced \in BOOLEAN
    BY Zenon DEF RxInit, RxReady
  <2>6. /\ release \in {"no", "marked", "loaded", "cleared"}
        /\ got \in Nat /\ filled \in Nat /\ freed \in Nat /\ bad \in SUBSET Nat
    BY DEF RxInit
  <2>7. loaded \in [act : BOOLEAN, err : BOOLEAN]
    BY <2>3, Zenon DEF RxInit
  <2> QED BY <2>2, <2>4, <2>5, <2>6, <2>7 DEF RxTypeOK
<1>2. RxRingInv
  BY DEF RxInit, RxReady, NoStatus, RxRingInv, RxUsed, RxFreed, RxOldest,
         RxDistance, Distance
<1> QED BY <1>1, <1>2 DEF RxInit, RxInv, HeldFrameStable

LEMMA RxReinitInv ==
  ASSUME NEW linked \in BOOLEAN,
         RxInv, ~ held, release = "no", RxReinit(linked)
  PROVE  RxInv'
<1>1. RxTypeOK'
  <2>1. [act |-> TRUE, err |-> FALSE, frame |-> 0] \in
          [act : BOOLEAN, err : BOOLEAN, frame : Nat]
    OBVIOUS
  <2>2. (rx \in [RxIndex -> [act : BOOLEAN, err : BOOLEAN, frame : Nat]])'
    BY <2>1 DEF RxReinit, RxReady
  <2>3. (papp_rx \in RxIndex /\ edmac_rx \in RxIndex)'
    BY DEF RxReinit, RxReady
  <2>5. rr' \in BOOLEAN
    BY Zenon DEF RxReinit, RxReady
  <2>6. (filled \in Nat /\ freed \in Nat /\ bad \in SUBSET Nat)'
    BY DEF RxReinit
  <2>7. raced' \in BOOLEAN
    BY Zenon DEF RxReinit
  <2>4. (/\ release \in {"no", "marked", "loaded", "cleared"}
         /\ loaded \in [act : BOOLEAN, err : BOOLEAN]
         /\ held \in BOOLEAN /\ got \in Nat)'
    BY DEF RxInv, RxTypeOK, RxReinit
  <2> QED BY <2>2, <2>3, <2>4, <2>5, <2>6, <2>7 DEF RxTypeOK
<1>2. RxRingInv'
  BY DEF RxReinit, RxReady, RxRingInv, RxUsed, RxFreed, RxOldest, RxDistance,
         Distance
<1> QED BY <1>1, <1>2 DEF RxReinit, RxInv, HeldFrameStable

LEMMA EdmacReceiveInv == RxInv /\ EdmacReceive => RxInv'
<1> SUFFICES ASSUME RxInv, EdmacReceive
             PROVE  RxInv'
  OBVIOUS
<1>1. RxTypeOK'
  BY DEF RxInv, RxTypeOK, EdmacReceive, RxNextOf
<1>2. (held => release = "no" /\ ~ rx[papp_rx].err)' /\ HeldFrameStable'
  BY DEF RxInv, RxTypeOK, HeldFrameStable, EdmacReceive, RxNextOf
<1>3. (\A f \in bad : f < filled)'
  BY DEF RxInv, RxTypeOK, EdmacReceive
<1>4. ASSUME ~ raced'
      PROVE  RxRingInv'
  <2>1. /\ RxRingInv /\ RxOldest \in RxIndex /\ edmac_rx \in RxIndex
        /\ RxFreed \in Nat /\ filled \in Nat /\ RxUsed \in Int
        /\ RxOldest' = RxOldest /\ RxFreed' = RxFreed /\ RxUsed' = RxUsed + 1
        /\ filled = RxFreed + RxUsed
    BY <1>4
       DEF RxInv, RxTypeOK, RxOldest, RxUsed, RxFreed, EdmacReceive, RxNextOf
  <2>2. /\ release' = release /\ papp_rx' = papp_rx /\ loaded' = loaded
        /\ edmac_rx' = RxNextOf(edmac_rx) /\ rx[edmac_rx].act
        /\ release \in {"marked", "loaded"} => edmac_rx # papp_rx
    BY <1>4 DEF RxInv, RxTypeOK, EdmacReceive
  <2>3. \A i \in RxIndex : RxDistance(i)' = RxDistance(i)
    BY <2>1 DEF RxDistance
  <2>4. RxUsed < RxDescriptors /\ RxDistance(edmac_rx) = RxUsed
    BY <2>1, <2>2 DEF RxRingInv, RxDistance, Distance
  <2>5. \A i \in RxIndex : RxDistance(i) = RxUsed => i = edmac_rx
    BY <2>1, <2>4 DEF RxDistance, Distance
  <2>6. /\ ~ rx'[edmac_rx].act /\ rx'[edmac_rx].frame = filled
        /\ rx'[edmac_rx].err <=> filled \in bad'
        /\ \A i \in RxIndex : i # edmac_rx => rx'[i] = rx[i]
        /\ \A f \in Nat : f # filled => (f \in bad' <=> f \in bad)
    <3>1. PICK e \in BOOLEAN :
            /\ rx' = [rx EXCEPT ![edmac_rx] =
                         [act |-> FALSE, err |-> e, frame |-> filled]]
            /\ bad' = IF e THEN bad \cup {filled} ELSE bad
      BY DEF EdmacReceive
    <3>2. filled \notin bad
      BY <2>1 DEF RxInv
    <3> QED BY <3>1, <3>2, <2>1 DEF RxInv, RxTypeOK
  <2>7. ASSUME NEW i \in RxIndex
        PROVE  /\ (~ rx[i].act <=> RxDistance(i) < RxUsed)'
               /\ ~ rx'[i].act => /\ rx'[i].frame = (RxFreed + RxDistance(i))'
                                  /\ rx'[i].err <=> rx'[i].frame \in bad'
    <3>1. RxDistance(i) \in 0 .. RxDescriptors - 1
      BY <2>1 DEF RxDistance, Distance
    <3>2. CASE i = edmac_rx
      BY <2>1, <2>3, <2>4, <2>6, <3>2
    <3>3. CASE i # edmac_rx
      BY <2>1, <2>3, <2>4, <2>5, <2>6, <3>1, <3>3 DEF RxRingInv
    <3> QED BY <3>2, <3>3
  <2>8. (\/ RxUsed < RxDescriptors /\ RxDistance(edmac_rx) = RxUsed
         \/ RxUsed = RxDescriptors /\ edmac_rx = RxOldest)'
    BY <2>1, <2>2, <2>3, <2>4 DEF RxNextOf, RxDistance, Distance
  <2>9. (RxUsed \in 0 .. RxDescriptors)'
    BY <2>1, <2>4 DEF RxRingInv
  <2>10. (/\ release \in {"marked", "loaded"} => rx[papp_rx].act
          /\ release = "loaded" => loaded.act)'
    BY <2>1, <2>2, <2>6 DEF RxInv, RxTypeOK, RxRingInv
  <2> QED BY <2>7, <2>8, <2>9, <2>10 DEF RxRingInv
<1> QED BY <1>1, <1>2, <1>3, <1>4 DEF RxInv

LEMMA EdmacRxStopInv == RxInv /\ EdmacRxStop => RxInv'
<1> SUFFICES ASSUME RxInv, EdmacRxStop
             PROVE  RxInv'
  OBVIOUS
<1>1. RxTypeOK'
  BY DEF RxInv, RxTypeOK, EdmacRxStop
<1>2. (held => release = "no" /\ ~ rx[papp_rx].err)' /\ HeldFrameStable'
  BY DEF RxInv, RxTypeOK, HeldFrameStable, EdmacRxStop
<1>3. (\A f \in bad : f < filled)'
  BY DEF RxInv, RxTypeOK, EdmacRxStop
<1>4. (~ raced => RxRingInv)'
  BY DEF RxInv, RxTypeOK, HeldFrameStable, RxRingInv, RxUsed, RxFreed,
         RxOldest, RxDistance, Distance, EdmacRxStop, RxNextOf
<1> QED BY <1>1, <1>2, <1>3, <1>4 DEF RxInv

LEMMA ReadZC2Inv == RxInv /\ ReadZC2 => RxInv'
<1> SUFFICES ASSUME RxInv, ReadZC2
             PROVE  RxInv'
  OBVIOUS
<1>1. RxTypeOK'
  BY DEF RxInv, RxTypeOK, ReadZC2
<1>2. (held => release = "no" /\ ~ rx[papp_rx].err)' /\ HeldFrameStable'
  BY DEF RxInv, RxTypeOK, HeldFrameStable, ReadZC2
<1>3. (\A f \in bad : f < filled)'
  BY DEF RxInv, RxTypeOK, ReadZC2
<1>4. (~ raced => RxRingInv)'
  BY DEF RxInv, RxTypeOK, HeldFrameStable, RxRingInv, RxUsed, RxFreed,
         RxOldest, RxDistance, Distance, ReadZC2, RxNextOf
<1> QED BY <1>1, <1>2, <1>3, <1>4 DEF RxInv

LEMMA BufReleaseMarkInv == RxInv /\ BufReleaseMark => RxInv'
<1> SUFFICES ASSUME RxInv, BufReleaseMark
             PROVE  RxInv'
  OBVIOUS
<1>1. RxTypeOK'
  BY DEF RxInv, RxTypeOK, BufReleaseMark
<1>2. (held => release = "no" /\ ~ rx[papp_rx].err)' /\ HeldFrameStable'
  BY DEF RxInv, RxTypeOK, HeldFrameStable, BufReleaseMark
<1>3. (\A f \in bad : f < filled)'
  BY DEF RxInv, RxTypeOK, BufReleaseMark
<1>4. ASSUME ~ raced
      PROVE  RxRingInv'
  <2> DEFINE new == RxNextOf(papp_rx)
  <2>1. /\ RxRingInv /\ RxOldest = papp_rx /\ RxOldest' = new
        /\ RxUsed' = RxUsed - 1 /\ RxFreed' = RxFreed + 1
    BY <1>4
       DEF RxInv, RxTypeOK, RxOldest, RxUsed, RxFreed, BufReleaseMark, RxNextOf
  <2>2. \A i \in RxIndex : RxDistance(i)' =
          IF i = papp_rx THEN RxDescriptors - 1 ELSE RxDistance(i) - 1
    BY <2>1 DEF RxInv, RxTypeOK, RxDistance, Distance, RxNextOf
  <2>3. /\ papp_rx \in RxIndex /\ edmac_rx \in RxIndex /\ ~ rx[papp_rx].act
        /\ papp_rx' = papp_rx /\ edmac_rx' = edmac_rx /\ bad' = bad
        /\ release' = "marked"
        /\ \A i \in RxIndex : /\ rx'[i].act <=> (i = papp_rx \/ rx[i].act)
                              /\ rx'[i].frame = rx[i].frame
                              /\ rx'[i].err <=> rx[i].err
    BY DEF RxInv, RxTypeOK, BufReleaseMark
  <2>4. RxDistance(papp_rx) = 0 /\ RxUsed > 0
    BY <2>1, <2>3
       DEF RxInv, RxTypeOK, RxRingInv, RxDistance, Distance, RxUsed, RxFreed
  <2>5. (RxUsed \in 0 .. RxDescriptors)'
    BY <2>1, <2>4 DEF RxRingInv
  <2>6. ASSUME NEW i \in RxIndex
        PROVE  /\ (~ rx[i].act <=> RxDistance(i) < RxUsed)'
               /\ ~ rx'[i].act => /\ rx'[i].frame = (RxFreed + RxDistance(i))'
                                  /\ rx'[i].err <=> rx'[i].frame \in bad'
    <3>1. RxDistance(i) \in 0 .. RxDescriptors - 1
      BY <2>1, <2>3 DEF RxDistance, Distance
    <3>2. RxUsed \in Int /\ RxFreed \in Int
      BY DEF RxInv, RxTypeOK, RxUsed, RxFreed, BufReleaseMark
    <3>3. CASE i = papp_rx
      BY <2>1, <2>2, <2>3, <3>2, <3>3 DEF RxRingInv
    <3>4. CASE i # papp_rx
      BY <2>1, <2>2, <2>3, <3>1, <3>2, <3>4 DEF RxRingInv
    <3> QED BY <3>3, <3>4
  <2>7. (\/ RxUsed < RxDescriptors /\ RxDistance(edmac_rx) = RxUsed
         \/ RxUsed = RxDescriptors /\ edmac_rx = RxOldest)'
    <3>1. CASE edmac_rx = papp_rx
      <4>1. RxUsed = RxDescriptors
        BY <2>1, <2>4, <3>1 DEF RxRingInv
      <4> QED BY <2>1, <2>2, <2>3, <3>1, <4>1
    <3>2. CASE edmac_rx # papp_rx
      <4>1. /\ RxUsed \in Int
            /\ RxUsed < RxDescriptors /\ RxDistance(edmac_rx) = RxUsed
        BY <2>1, <3>2 DEF RxRingInv
      <4> QED BY <2>1, <2>2, <2>3, <3>2, <4>1
    <3> QED BY <3>1, <3>2
  <2> QED BY <2>3, <2>5, <2>6, <2>7 DEF RxRingInv
<1> QED BY <1>1, <1>2, <1>3, <1>4 DEF RxInv, BufReleaseMark

LEMMA BufReleaseLoadInv == RxInv /\ BufReleaseLoad => RxInv'
<1> SUFFICES ASSUME RxInv, BufReleaseLoad
             PROVE  RxInv'
  OBVIOUS
<1>1. RxTypeOK'
  BY DEF RxInv, RxTypeOK, BufReleaseLoad
<1>2. (held => release = "no" /\ ~ rx[papp_rx].err)' /\ HeldFrameStable'
  BY DEF RxInv, RxTypeOK, HeldFrameStable, BufReleaseLoad
<1>3. (\A f \in bad : f < filled)'
  BY DEF RxInv, RxTypeOK, BufReleaseLoad
<1>4. (~ raced => RxRingInv)'
  BY DEF RxInv, RxTypeOK, HeldFrameStable, RxRingInv, RxUsed, RxFreed,
         RxOldest, RxDistance, Distance, BufReleaseLoad, RxNextOf
<1> QED BY <1>1, <1>2, <1>3, <1>4 DEF RxInv

LEMMA BufReleaseClearInv == RxInv /\ BufReleaseClear => RxInv'
<1> SUFFICES ASSUME RxInv, BufReleaseClear
             PROVE  RxInv'
  OBVIOUS
<1>1. RxTypeOK'
  BY DEF RxInv, RxTypeOK, BufReleaseClear, NoStatus
<1>2. (held => release = "no" /\ ~ rx[papp_rx].err)' /\ HeldFrameStable'
  BY DEF RxInv, RxTypeOK, HeldFrameStable, BufReleaseClear, NoStatus
<1>3. (\A f \in bad : f < filled)'
  BY DEF RxInv, RxTypeOK, BufReleaseClear
<1>4. (~ raced => RxRingInv)'
  BY DEF RxInv, RxTypeOK, HeldFrameStable, RxRingInv, RxUsed, RxFreed,
         RxOldest, RxDistance, Distance, BufReleaseClear, RxNextOf, NoStatus
<1> QED BY <1>1, <1>2, <1>3, <1>4 DEF RxInv

LEMMA BufReleaseAdvanceInv == RxInv /\ BufReleaseAdvance => RxInv'
<1> SUFFICES ASSUME RxInv, BufReleaseAdvance
             PROVE  RxInv'
  OBVIOUS
<1>1. RxTypeOK'
  BY DEF RxInv, RxTypeOK, BufReleaseAdvance, RxNextOf
<1>2. (held => release = "no" /\ ~ rx[papp_rx].err)' /\ HeldFrameStable'
  BY DEF RxInv, RxTypeOK, HeldFrameStable, BufReleaseAdvance, RxNextOf
<1>3. (\A f \in bad : f < filled)'
  BY DEF RxInv, RxTypeOK, BufReleaseAdvance
<1>4. (~ raced => RxRingInv)'
  BY DEF RxInv, RxTypeOK, HeldFrameStable, RxRingInv, RxUsed, RxFreed,
         RxOldest, RxDistance, Distance, BufReleaseAdvance, RxNextOf
<1> QED BY <1>1, <1>2, <1>3, <1>4 DEF RxInv

LEMMA BufReleaseRefusedInv == RxInv /\ BufReleaseRefused => RxInv'
<1> SUFFICES ASSUME RxInv, BufReleaseRefused
             PROVE  RxInv'
  OBVIOUS
<1>1. RxTypeOK'
  BY DEF RxInv, RxTypeOK, BufReleaseRefused
<1>2. (held => release = "no" /\ ~ rx[papp_rx].err)' /\ HeldFrameStable'
  BY DEF RxInv, RxTypeOK, HeldFrameStable, BufReleaseRefused
<1>3. (\A f \in bad : f < filled)'
  BY DEF RxInv, RxTypeOK, BufReleaseRefused
<1>4. (~ raced => RxRingInv)'
  BY DEF RxInv, RxTypeOK, HeldFrameStable, RxRingInv, RxUsed, RxFreed,
         RxOldest, RxDistance, Distance, BufReleaseRefused, RxNextOf
<1> QED BY <1>1, <1>2, <1>3, <1>4 DEF RxInv

-----------------------------------------------------------------------------
LEMMA TxInitInv == TxInit => TxInv
<1> SUFFICES ASSUME TxInit
             PROVE  TxInv
  OBVIOUS
<1>1. TxTypeOK
  <2>1. [act |-> FALSE, frame |-> 0] \in [act : BOOLEAN, frame : Nat]
    OBVIOUS
  <2>2. tx \in [TxIndex -> [act : BOOLEAN, frame : Nat]]
    BY <2>1 DEF TxInit, TxReady
  <2>3. tr \in BOOLEAN
    BY Zenon DEF TxInit, TxReady
  <2>4. /\ papp_tx \in TxIndex /\ edmac_tx \in TxIndex
        /\ write \in {"no", "copying", "active"}
        /\ accepted \in Nat /\ sent \in Nat
    BY DEF TxInit, TxReady
  <2> QED BY <2>2, <2>3, <2>4 DEF TxTypeOK
<1> QED
  BY <1>1 DEF TxInit, TxReady, TxInv, TxUsed, TxDistance, Distance, TxFree

LEMMA TxReinitInv == TxInv /\ write = "no" /\ TxReinit => TxInv'
<1> SUFFICES ASSUME TxInv, write = "no", TxReinit
             PROVE  TxInv'
  OBVIOUS
<1>1. TxTypeOK'
  <2>1. [act |-> FALSE, frame |-> 0] \in [act : BOOLEAN, frame : Nat]
    OBVIOUS
  <2>2. (tx \in [TxIndex -> [act : BOOLEAN, frame : Nat]])'
    BY <2>1 DEF TxReinit, TxReady
  <2>3. (tr \in BOOLEAN)'
    BY Zenon DEF TxReinit, TxReady
  <2>4. (/\ papp_tx \in TxIndex /\ edmac_tx \in TxIndex
         /\ write \in {"no", "copying", "active"}
         /\ accepted \in Nat /\ sent \in Nat)'
    BY DEF TxReinit, TxReady
  <2> QED BY <2>2, <2>3, <2>4 DEF TxTypeOK
<1> QED
  BY <1>1 DEF TxReinit, TxReady, TxInv, TxUsed, TxDistance, Distance, TxFree

(* The EDMAC's pointer moves on: every distance shrinks by one, the sent   *)
(* descriptor becomes the last one of the ring.                            *)
LEMMA EdmacTransmitInv ==
  TxInv /\ EdmacTransmit =>
    TxInv' /\ TxUsed > 0 /\ sent' = sent + 1 /\ tx[edmac_tx].frame = sent + 1
<1> SUFFICES ASSUME TxInv, EdmacTransmit
             PROVE  /\ TxInv' /\ TxUsed > 0
                    /\ sent' = sent + 1 /\ tx[edmac_tx].frame = sent + 1
  OBVIOUS
<1>1. TxTypeOK'
  <2>1. /\ tx \in [TxIndex -> [act : BOOLEAN, frame : Nat]]
        /\ edmac_tx \in TxIndex
        /\ tx' = [tx EXCEPT ![edmac_tx].act = FALSE]
        /\ sent' = tx[edmac_tx].frame /\ edmac_tx' = TxNextOf(edmac_tx)
    BY DEF TxInv, TxTypeOK, EdmacTransmit
  <2>2. (tx \in [TxIndex -> [act : BOOLEAN, frame : Nat]])'
    BY <2>1
  <2>3. sent' \in Nat /\ edmac_tx' \in TxIndex
    BY <2>1 DEF TxNextOf
  <2> QED BY <2>2, <2>3 DEF TxInv, TxTypeOK, EdmacTransmit
<1>2. /\ TxUsed \in Int /\ sent \in Nat /\ accepted = sent + TxUsed
      /\ edmac_tx \in TxIndex /\ papp_tx \in TxIndex /\ TxFree \in TxIndex
      /\ TxFree' = TxFree /\ edmac_tx' = TxNextOf(edmac_tx)
      /\ write' = write /\ accepted' = accepted /\ papp_tx' = papp_tx
      /\ sent' = tx[edmac_tx].frame
  <2>1. /\ UNCHANGED <<papp_tx, write, accepted>>
        /\ edmac_tx' = TxNextOf(edmac_tx) /\ sent' = tx[edmac_tx].frame
        /\ edmac_tx \in TxIndex /\ papp_tx \in TxIndex
        /\ accepted \in Nat /\ sent \in Nat
    BY DEF TxInv, TxTypeOK, EdmacTransmit
  <2>2. TxFree \in TxIndex /\ TxFree' = TxFree
    BY <2>1 DEF TxFree, TxNextOf
  <2> QED BY <2>1, <2>2 DEF TxUsed
<1>3. /\ TxDistance(edmac_tx) = 0 /\ TxUsed > 0 /\ tx[edmac_tx].frame = sent + 1
  BY <1>2 DEF TxInv, EdmacTransmit, TxDistance, Distance
<1>4. TxUsed' = TxUsed - 1 /\ sent' = sent + 1
  BY <1>2, <1>3 DEF TxUsed
<1>5. \A i \in TxIndex : TxDistance(i)' =
        IF i = edmac_tx THEN TxDescriptors - 1 ELSE TxDistance(i) - 1
  BY <1>2 DEF TxDistance, Distance, TxNextOf
<1>6. \A i \in TxIndex : /\ tx'[i].act <=> (i # edmac_tx /\ tx[i].act)
                         /\ tx'[i].frame = tx[i].frame
  BY DEF TxInv, TxTypeOK, EdmacTransmit
<1>7. ASSUME NEW i \in TxIndex
      PROVE  /\ (tx[i].act <=> TxDistance(i) < TxUsed)'
             /\ (tx[i].act => tx[i].frame = sent + 1 + TxDistance(i))'
  <2>1. TxDistance(i) \in 0 .. TxDescriptors - 1
    BY <1>2 DEF TxDistance, Distance
  <2>2. TxUsed <= TxDescriptors
    BY DEF TxInv
  <2>3. CASE i = edmac_tx
    BY <1>2, <1>4, <1>5, <1>6, <2>2, <2>3
  <2>4. CASE i # edmac_tx
    BY <1>2, <1>4, <1>5, <1>6, <2>1, <2>4 DEF TxInv
  <2> QED BY <2>3, <2>4
<1>8. (\/ TxUsed < TxDescriptors /\ TxDistance(TxFree) = TxUsed
       \/ TxUsed = TxDescriptors /\ TxFree = edmac_tx)'
  <2>1. CASE TxFree = edmac_tx
    <3>1. TxUsed = TxDescriptors
      BY <1>2, <1>3, <2>1 DEF TxInv
    <3> QED BY <1>2, <1>4, <1>5, <2>1, <3>1
  <2>2. CASE TxFree # edmac_tx
    <3>1. TxUsed < TxDescriptors /\ TxDistance(TxFree) = TxUsed
      BY <2>2 DEF TxInv
    <3> QED BY <1>2, <1>4, <1>5, <2>2, <3>1
  <2> QED BY <2>1, <2>2
<1>9. (write = "copying" =>
         ~ tx[papp_tx].act /\ tx[papp_tx].frame = accepted + 1)'
  BY <1>2, <1>6 DEF TxInv
<1>10. (TxUsed \in 0 .. TxDescriptors)'
  BY <1>2, <1>3, <1>4 DEF TxInv
<1> QED BY <1>1, <1>3, <1>4, <1>7, <1>8, <1>9, <1>10 DEF TxInv

LEMMA EdmacTxStopInv == TxInv /\ EdmacTxStop => TxInv'
<1> SUFFICES ASSUME TxInv, EdmacTxStop
             PROVE  TxInv'
  OBVIOUS
<1>1. TxTypeOK'
  BY DEF TxInv, TxTypeOK, EdmacTxStop
<1>2. UNCHANGED <<tx, papp_tx, edmac_tx, write, accepted, sent>>
  BY DEF EdmacTxStop
<1> QED BY <1>1, <1>2 DEF TxInv, TxUsed, TxDistance, TxFree

LEMMA WriteGetBufInv == TxInv /\ WriteGetBuf => TxInv'
<1> SUFFICES ASSUME TxInv, WriteGetBuf
             PROVE  TxInv'
  OBVIOUS
<1>1. TxTypeOK'
  BY DEF TxInv, TxTypeOK, WriteGetBuf
<1>2. /\ write = "no" /\ write' = "copying" /\ papp_tx' = papp_tx
      /\ edmac_tx' = edmac_tx /\ accepted' = accepted /\ sent' = sent
      /\ papp_tx \in TxIndex /\ ~ tx[papp_tx].act
      /\ tx'[papp_tx].frame = accepted + 1
      /\ \A i \in TxIndex : /\ tx'[i].act <=> tx[i].act
                            /\ i # papp_tx => tx'[i].frame = tx[i].frame
  BY DEF TxInv, TxTypeOK, WriteGetBuf
<1>3. /\ TxUsed' = TxUsed /\ TxFree' = TxFree
      /\ \A i \in TxIndex : TxDistance(i)' = TxDistance(i)
  BY <1>2 DEF TxUsed, TxFree, TxDistance
<1>4. TxFree \in TxIndex
  BY <1>2 DEF TxFree
<1> QED BY <1>1, <1>2, <1>3, <1>4 DEF TxInv

LEMMA WriteRefusedInv == TxInv /\ WriteRefused => TxInv'
<1> SUFFICES ASSUME TxInv, WriteRefused
             PROVE  TxInv'
  OBVIOUS
<1>1. TxTypeOK'
  BY DEF TxInv, TxTypeOK, WriteRefused
<1>2. /\ UNCHANGED <<tx, papp_tx, edmac_tx, accepted, sent>>
      /\ write = "copying" /\ write' = "no"
  BY DEF WriteRefused
<1> QED BY <1>1, <1>2 DEF TxInv, TxUsed, TxDistance, TxFree

LEMMA WriteActivateInv ==
  TxInv /\ WriteActivate => TxInv' /\ TxUsed < TxDescriptors
<1> SUFFICES ASSUME TxInv, WriteActivate
             PROVE  TxInv' /\ TxUsed < TxDescriptors
  OBVIOUS
<1>1. TxTypeOK'
  <2>1. /\ tx \in [TxIndex -> [act : BOOLEAN, frame : Nat]]
        /\ tx' = [tx EXCEPT ![papp_tx].act = TRUE]
    BY DEF TxInv, TxTypeOK, WriteActivate
  <2>2. (tx \in [TxIndex -> [act : BOOLEAN, frame : Nat]])'
    BY <2>1
  <2> QED BY <2>2 DEF TxInv, TxTypeOK, WriteActivate
<1>2. /\ write = "copying" /\ write' = "active" /\ papp_tx' = papp_tx
      /\ edmac_tx' = edmac_tx /\ accepted' = accepted + 1 /\ sent' = sent
      /\ papp_tx \in TxIndex /\ edmac_tx \in TxIndex
      /\ accepted \in Nat /\ sent \in Nat /\ TxUsed \in Int
      /\ accepted = sent + TxUsed /\ TxFree = papp_tx
      /\ ~ tx[papp_tx].act /\ tx[papp_tx].frame = accepted + 1
      /\ \A i \in TxIndex : /\ tx'[i].act <=> (i = papp_tx \/ tx[i].act)
                            /\ tx'[i].frame = tx[i].frame
  <2>1. /\ tx' = [tx EXCEPT ![papp_tx].act = TRUE]
        /\ tx \in [TxIndex -> [act : BOOLEAN, frame : Nat]]
        /\ write = "copying" /\ write' = "active" /\ papp_tx' = papp_tx
        /\ edmac_tx' = edmac_tx /\ accepted' = accepted + 1 /\ sent' = sent
        /\ papp_tx \in TxIndex /\ edmac_tx \in TxIndex
        /\ accepted \in Nat /\ sent \in Nat
        /\ ~ tx[papp_tx].act /\ tx[papp_tx].frame = accepted + 1
    BY DEF TxInv, TxTypeOK, WriteActivate
  <2>2. \A i \in TxIndex : /\ tx'[i].act <=> (i = papp_tx \/ tx[i].act)
                            /\ tx'[i].frame = tx[i].frame
    BY <2>1
  <2> QED BY <2>1, <2>2 DEF TxUsed, TxFree
<1>3. /\ TxUsed' = TxUsed + 1 /\ TxFree' = TxNextOf(papp_tx)
      /\ \A i \in TxIndex : TxDistance(i)' = TxDistance(i)
  BY <1>2 DEF TxUsed, TxFree, TxDistance, TxNextOf
<1>4. TxUsed < TxDescriptors /\ TxDistance(papp_tx) = TxUsed
  BY <1>2 DEF TxInv, TxDistance, Distance
<1>5. \A i \in TxIndex : TxDistance(i) = TxUsed => i = papp_tx
  BY <1>2, <1>4 DEF TxDistance, Distance
<1>6. ASSUME NEW i \in TxIndex
      PROVE  /\ (tx[i].act <=> TxDistance(i) < TxUsed)'
             /\ (tx[i].act => tx[i].frame = sent + 1 + TxDistance(i))'
  <2>1. TxDistance(i) \in 0 .. TxDescriptors - 1
    BY <1>2 DEF TxDistance, Distance
  <2>2. CASE i = papp_tx
    BY <1>2, <1>3, <1>4, <2>2
  <2>3. CASE i # papp_tx
    BY <1>2, <1>3, <1>5, <2>1, <2>3 DEF TxInv
  <2> QED BY <2>2, <2>3
<1>7. (\/ TxUsed < TxDescriptors /\ TxDistance(TxFree) = TxUsed
       \/ TxUsed = TxDescriptors /\ TxFree = edmac_tx)'
  BY <1>2, <1>3, <1>4 DEF TxNextOf, TxDistance, Distance
<1>8. (TxUsed \in 0 .. TxDescriptors)'
  BY <1>2, <1>3, <1>4 DEF TxInv
<1> QED BY <1>1, <1>2, <1>4, <1>6, <1>7, <1>8 DEF TxInv

LEMMA WriteAdvanceInv == TxInv /\ WriteAdvance => TxInv'
<1> SUFFICES ASSUME TxInv, WriteAdvance
             PROVE  TxInv'
  OBVIOUS
<1>1. TxTypeOK'
  BY DEF TxInv, TxTypeOK, WriteAdvance, TxNextOf
<1>2. /\ UNCHANGED <<tx, edmac_tx, accepted, sent>>
      /\ write = "active" /\ write' = "no" /\ papp_tx' = TxNextOf(papp_tx)
  BY DEF WriteAdvance
<1>3. /\ TxFree' = TxFree /\ TxUsed' = TxUsed
      /\ \A i \in TxIndex \cup {TxFree} : TxDistance(i)' = TxDistance(i)
  BY <1>2 DEF TxFree, TxUsed, TxDistance
<1> QED BY <1>1, <1>2, <1>3 DEF TxInv

-----------------------------------------------------------------------------
LEMMA InitInv == Init => IInv
  BY RxInitInv, TxInitInv DEF Init, IInv

LEMMA NextInv == IInv /\ [Next]_vars => IInv'
<1> SUFFICES ASSUME IInv, [Next]_vars
             PROVE  IInv'
  OBVIOUS
<1>1. rxVars' = rxVars => RxInv'
  BY DEF IInv, rxVars, RxInv, RxTypeOK, HeldFrameStable, RxRingInv, RxUsed,
         RxFreed, RxOldest, RxDistance
<1>2. txVars' = txVars => TxInv'
  BY DEF IInv, txVars, TxInv, TxTypeOK, TxUsed, TxDistance, TxFree
<1>3. CASE Receive
  BY <1>2, <1>3, EdmacReceiveInv, EdmacRxStopInv
  DEF IInv, Receive, EdmacRx, link
<1>4. CASE Transmit
  BY <1>1, <1>4, EdmacTransmitInv, EdmacTxStopInv
  DEF IInv, Transmit, EdmacTx, link
<1>5. CASE Read
  BY <1>2, <1>5, ReadZC2Inv DEF IInv, Read, link
<1>6. CASE Release
  BY <1>2, <1>6, BufReleaseMarkInv, BufReleaseLoadInv, BufReleaseClearInv,
     BufReleaseAdvanceInv, BufReleaseRefusedInv
  DEF IInv, Release, BufRelease, link
<1>7. CASE LanWrite
  BY <1>1, <1>7, WriteGetBufInv, WriteRefusedInv, WriteActivateInv,
     WriteAdvanceInv DEF IInv, LanWrite, Write, link
<1>8. CASE LinkOff
  BY <1>1, <1>2, <1>8 DEF IInv, LinkOff, link
<1>9. CASE LinkOn
  BY <1>9, RxReinitInv, TxReinitInv DEF IInv, LinkOn, NoCall
<1>10. CASE UNCHANGED vars
  BY <1>1, <1>2, <1>10 DEF IInv, vars, link
<1> QED BY <1>3, <1>4, <1>5, <1>6, <1>7, <1>8, <1>9, <1>10 DEF Next

(* The inductive invariant: which descriptors are in use and which frames  *)
(* they hold follows from two counters and a pointer (both rings).         *)
THEOREM Invariance == Spec => []IInv
  BY InitInv, NextInv, PTL DEF Spec

(* The variables keep their types (descriptor fields, ring pointers).      *)
THEOREM TypeCorrect == Spec => []TypeOK
<1>1. IInv => TypeOK
  BY DEF IInv, RxInv, TxInv, TypeOK
<1> QED BY <1>1, Invariance, PTL

(* The EDMAC never writes the buffer T4 is working on (R_ETHER_Read_ZC2).  *)
THEOREM HeldFrameIsStable == Spec => []HeldFrameStable
<1>1. IInv => HeldFrameStable
  BY DEF IInv, RxInv
<1> QED BY <1>1, Invariance, PTL

(* T4 is given the frames in the order of their reception, each once, and  *)
(* none that has an error, as long as no frame races with a release.       *)
THEOREM FramesReadInOrder == Spec => []ReadInOrder
<1>1. IInv => ReadInOrder
  <2> SUFFICES ASSUME RxInv, held, ~ raced
               PROVE  got = freed /\ got \notin bad
    BY DEF IInv, ReadInOrder
  <2>1. /\ RxRingInv /\ RxTypeOK /\ release = "no"
        /\ ~ rx[papp_rx].act /\ rx[papp_rx].frame = got /\ ~ rx[papp_rx].err
    BY DEF RxInv, HeldFrameStable
  <2>2. /\ papp_rx \in RxIndex /\ RxFreed = freed /\ freed \in Nat
        /\ RxDistance(papp_rx) = 0
    BY <2>1 DEF RxTypeOK, RxFreed, RxDistance, RxOldest, Distance
  <2> QED BY <2>1, <2>2 DEF RxRingInv
<1> QED BY <1>1, Invariance, PTL

-----------------------------------------------------------------------------
(* Under TxInv the frames queued are the next ones after the last sent.    *)
Following(n, s) == [k \in 1 .. n |-> s + k]

LEMMA QueueIsFollowing == TxInv => TxQueue = Following(TxUsed, sent)
<1> SUFFICES ASSUME TxInv
             PROVE  TxQueue = Following(TxUsed, sent)
  OBVIOUS
<1>1. edmac_tx \in TxIndex /\ sent \in Nat /\ TxUsed \in 0 .. TxDescriptors
  BY DEF TxInv, TxTypeOK
<1>2. ASSUME NEW k \in 1 .. TxUsed
      PROVE  tx[TxAfter(k - 1)].frame = sent + k
  <2>1. TxAfter(k - 1) \in TxIndex /\ TxDistance(TxAfter(k - 1)) = k - 1
    BY <1>1 DEF TxAfter, TxDistance, Distance
  <2> QED BY <1>1, <2>1 DEF TxInv
<1> QED BY <1>2 DEF TxQueue, TxUsed, Following

LEMMA FollowingAppend ==
  ASSUME NEW n \in Nat, NEW s \in Nat
  PROVE  /\ Len(Following(n, s)) = n
         /\ Following(n + 1, s) = Append(Following(n, s), s + n + 1)
  BY DEF Following

LEMMA FollowingTail ==
  ASSUME NEW n \in Nat \ {0}, NEW s \in Nat
  PROVE  /\ Following(n, s) # <<>> /\ Head(Following(n, s)) = s + 1
         /\ Following(n - 1, s + 1) = Tail(Following(n, s))
<1>1. Following(n, s) \in Seq(Nat) /\ Len(Following(n, s)) = n
  BY DEF Following
<1>2. Following(n, s) # <<>> /\ Head(Following(n, s)) = s + 1
  BY <1>1 DEF Following
<1>3. Following(n - 1, s + 1) = Tail(Following(n, s))
  BY <1>1, <1>2 DEF Following
<1> QED BY <1>2, <1>3

LEMMA LineStep == IInv /\ [Next]_vars => [Line!Next]_<<TxQueue, sent>>
<1> SUFFICES ASSUME IInv, [Next]_vars
             PROVE  [Line!Next]_<<TxQueue, sent>>
  OBVIOUS
<1>1. TxInv /\ TxInv'
  BY NextInv DEF IInv
<1>2. /\ TxQueue = Following(TxUsed, sent)
      /\ TxQueue' = Following(TxUsed', sent')
      /\ TxUsed \in Nat /\ sent \in Nat /\ accepted \in Nat
  <2>1. TxInv' => (TxQueue = Following(TxUsed, sent))'
    BY QueueIsFollowing, PTL
  <2>2. TxQueue' = Following(TxUsed', sent')
    BY <1>1, <2>1
  <2>3. TxUsed \in Nat /\ sent \in Nat /\ accepted \in Nat
    BY <1>1 DEF TxInv, TxTypeOK
  <2> QED BY <1>1, <2>2, <2>3, QueueIsFollowing
<1>3. UNCHANGED <<accepted, sent>> => UNCHANGED <<TxQueue, sent>>
  BY <1>2 DEF TxUsed
<1>4. CASE EdmacTransmit
  <2>1. TxUsed > 0 /\ sent' = sent + 1 /\ TxUsed' = TxUsed - 1
    BY <1>1, <1>2, <1>4, EdmacTransmitInv DEF TxUsed, EdmacTransmit
  <2>2. /\ TxQueue # <<>> /\ Head(TxQueue) = sent + 1
        /\ Following(TxUsed - 1, sent + 1) = Tail(TxQueue)
    <3>1. TxUsed \in Nat \ {0}
      BY <1>2, <2>1
    <3>2. /\ Following(TxUsed, sent) # <<>>
          /\ Head(Following(TxUsed, sent)) = sent + 1
          /\ Following(TxUsed - 1, sent + 1) = Tail(Following(TxUsed, sent))
      BY <1>2, <3>1, FollowingTail, Zenon
    <3> QED BY <1>2, <3>2, Zenon
  <2>3. TxQueue' = Tail(TxQueue) /\ sent' = Head(TxQueue)
    BY <1>2, <2>1, <2>2
  <2> QED BY <2>2, <2>3 DEF Line!Next, Line!Take
<1>5. CASE WriteActivate
  <2>1. TxUsed < TxDescriptors /\ sent' = sent /\ TxUsed' = TxUsed + 1
    BY <1>1, <1>2, <1>5, WriteActivateInv DEF TxUsed, WriteActivate
  <2> QED BY <1>2, <2>1, FollowingAppend DEF Line!Next, Line!Put
<1>6. CASE LinkOn
  <2>1. TxUsed' = 0 /\ sent' = 0
    BY <1>6 DEF LinkOn, TxReinit, TxUsed
  <2>2. Following(0, 0) = <<>>
    BY DEF Following
  <2> QED BY <1>2, <2>1, <2>2 DEF Line!Next, Line!Flush
<1>7. CASE Receive \/ Read \/ Release \/ LinkOff \/ UNCHANGED vars
  BY <1>3, <1>7 DEF Receive, Read, Release, LinkOff, txVars, vars
<1>8. CASE EdmacTxStop \/ WriteGetBuf \/ WriteRefused \/ WriteAdvance
  BY <1>3, <1>8 DEF EdmacTxStop, WriteGetBuf, WriteRefused, WriteAdvance
<1> QED
  BY <1>4, <1>5, <1>6, <1>7, <1>8 DEF Next, Transmit, EdmacTx, LanWrite, Write

(* The transmit ring implements a bounded first-in first-out queue: every  *)
(* frame lan_write has accepted is sent once, in order, none invented, and *)
(* only a link-up drops frames (Write_ZC2_GetBuf, _SetBuf and the EDMAC).  *)
THEOREM SendsLikeAQueue == Spec => SendsInOrder
<1>1. Init => Line!Init
  BY InitInv, QueueIsFollowing
     DEF Init, IInv, TxInit, TxUsed, Following, Line!Init
<1> QED BY <1>1, LineStep, Invariance, PTL DEF Spec, SendsInOrder, Line!Spec

=============================================================================
