-------------------------------- MODULE EtherRx --------------------------------
(***************************************************************************)
(* The receive ring of one Ethernet channel (r_ether_rx/src/r_ether_rx.c): *)
(* the EDMAC fills the descriptors, T4 reads the frame of the oldest one   *)
(* in place (zero copy) and releases it with rcv_buff_release.             *)
(*                                                                         *)
(* The EDMAC runs beside the processor, so R_ETHER_Read_ZC2_BufRelease is  *)
(* cut at each of its accesses to a descriptor: it sets RACT first, and    *)
(* clears the status bits of the last frame with a load and a store when   *)
(* the descriptor is already the EDMAC's.                                  *)
(*                                                                         *)
(* Frames are numbered in the order the EDMAC writes them.                 *)
(***************************************************************************)
EXTENDS Integers

CONSTANTS
  RxDescriptors,  \* ETHER_CFG_EMAC_RX_DESCRIPTORS
  MaxRxFrames     \* bound: frames the model's EDMAC receives per link-up

ASSUME RxAssumption ==
  RxDescriptors \in Nat \ {0} /\ MaxRxFrames \in Nat

VARIABLES
  rx,        \* the descriptors: RACT, RFE, and the frame in the buffer
  papp_rx,   \* papp_rx_desc, the driver's next descriptor
  edmac_rx,  \* the EDMAC's next descriptor
  rr,        \* EDRRR.RR, reception requested
  release,   \* step of BufRelease: "no", "marked", "loaded", "cleared"
  loaded,    \* the status word BufRelease has loaded
  held,      \* T4 holds the buffer of papp_rx
  got,       \* number of the frame it was given
  filled,    \* frames received since link-up
  freed,     \* descriptors released since link-up
  bad,       \* numbers of the frames received with an error
  raced      \* a frame was written to a descriptor under release

rxVars == <<rx, papp_rx, edmac_rx, rr, release, loaded, held, got,
            filled, freed, bad, raced>>

RxIndex == 0 .. RxDescriptors - 1

(* Mutant: the last descriptor points past the ring. *)
RxNextOfStraight(i) == i + 1

(* The next field of a descriptor; the last one points to the first.       *)
RxNextOf(i) == IF i = RxDescriptors - 1 THEN 0 ELSE i + 1

(* ether_init_descriptors and ether_config_ethernet (RDLAR), receive side. *)
RxReady(desc, papp, edmac) ==
  /\ desc = [i \in RxIndex |-> [act |-> TRUE, err |-> FALSE, frame |-> 0]]
  /\ papp = 0 /\ edmac = 0

NoStatus == [act |-> FALSE, err |-> FALSE]

(* The software reset clears EDRRR; ether_do_link sets it, if the link was *)
(* agreed upon (linked).                                                   *)
RxInit(linked) ==
  /\ RxReady(rx, papp_rx, edmac_rx) /\ rr = linked
  /\ release = "no" /\ loaded = NoStatus
  /\ held = FALSE /\ got = 0
  /\ filled = 0 /\ freed = 0 /\ bad = {} /\ raced = FALSE

RxReinit(linked) ==
  /\ RxReady(rx', papp_rx', edmac_rx') /\ rr' = linked
  /\ filled' = 0 /\ freed' = 0 /\ bad' = {} /\ raced' = FALSE
  /\ UNCHANGED <<release, loaded, held, got>>

-----------------------------------------------------------------------------
(* The EDMAC (hardware): write a frame and hand the descriptor over ...    *)
EdmacReceive ==
  /\ rr /\ rx[edmac_rx].act /\ filled < MaxRxFrames
  /\ \E err \in BOOLEAN :
       /\ rx' = [rx EXCEPT ![edmac_rx] =
                   [act |-> FALSE, err |-> err, frame |-> filled]]
       /\ bad' = IF err THEN bad \cup {filled} ELSE bad
  /\ edmac_rx' = RxNextOf(edmac_rx)
  /\ filled' = filled + 1
  /\ raced' = \/ raced
              \/ release \in {"marked", "loaded"} /\ edmac_rx = papp_rx
  /\ UNCHANGED <<papp_rx, rr, release, loaded, held, got, freed>>

(* ... or find no active descriptor for one and stop (EESR.RDE).           *)
EdmacRxStop ==
  /\ rr /\ ~ rx[edmac_rx].act
  /\ rr' = FALSE
  /\ UNCHANGED <<rx, papp_rx, edmac_rx, release, loaded, held, got,
                 filled, freed, bad, raced>>

-----------------------------------------------------------------------------
(* Mutant: does not look at RACT. *)
ReadZC2Active ==
  /\ ~ held /\ release = "no" /\ ~ rx[papp_rx].err
  /\ held' = TRUE /\ got' = rx[papp_rx].frame
  /\ UNCHANGED <<rx, papp_rx, edmac_rx, rr, release, loaded,
                 filled, freed, bad, raced>>

(* Mutant: does not look at RFE. *)
ReadZC2Error ==
  /\ ~ held /\ release = "no" /\ ~ rx[papp_rx].act
  /\ held' = TRUE /\ got' = rx[papp_rx].frame
  /\ UNCHANGED <<rx, papp_rx, edmac_rx, rr, release, loaded,
                 filled, freed, bad, raced>>

(* R_ETHER_Read_ZC2: give T4 the frame of a descriptor without RFE.        *)
ReadZC2 ==
  /\ ~ held /\ release = "no"
  /\ ~ rx[papp_rx].act /\ ~ rx[papp_rx].err
  /\ held' = TRUE /\ got' = rx[papp_rx].frame
  /\ UNCHANGED <<rx, papp_rx, edmac_rx, rr, release, loaded,
                 filled, freed, bad, raced>>

(* R_ETHER_Read_ZC2_BufRelease, called by R_ETHER_Read_ZC2 for a frame     *)
(* with RFE, and by rcv_buff_release for a frame T4 has finished with.     *)
BufReleaseMark ==
  /\ release = "no" /\ ~ rx[papp_rx].act
  /\ held \/ rx[papp_rx].err
  /\ rx' = [rx EXCEPT ![papp_rx].act = TRUE]
  /\ release' = "marked" /\ held' = FALSE
  /\ UNCHANGED <<papp_rx, edmac_rx, rr, loaded, got, filled, freed, bad, raced>>

BufReleaseLoad ==
  /\ release = "marked" /\ release' = "loaded"
  /\ loaded' = [act |-> rx[papp_rx].act, err |-> rx[papp_rx].err]
  /\ UNCHANGED <<rx, papp_rx, edmac_rx, rr, held, got, filled, freed, bad,
                 raced>>

BufReleaseClear ==
  /\ release = "loaded" /\ release' = "cleared"
  /\ rx' = [rx EXCEPT ![papp_rx] =
              [act |-> loaded.act, err |-> FALSE, frame |-> @.frame]]
  /\ loaded' = NoStatus
  /\ UNCHANGED <<papp_rx, edmac_rx, rr, held, got, filled, freed, bad, raced>>

(* Mutant: does not restart the EDMAC. *)
BufReleaseAdvanceOnly ==
  /\ release = "cleared" /\ release' = "no"
  /\ papp_rx' = RxNextOf(papp_rx)
  /\ freed' = freed + 1
  /\ UNCHANGED <<rx, edmac_rx, rr, loaded, held, got, filled, bad, raced>>

(* ... move to the next descriptor, and restart the EDMAC if it stopped.   *)
BufReleaseAdvance ==
  /\ release = "cleared" /\ release' = "no"
  /\ papp_rx' = RxNextOf(papp_rx)
  /\ rr' = TRUE
  /\ freed' = freed + 1
  /\ UNCHANGED <<rx, edmac_rx, loaded, held, got, filled, bad, raced>>

(* rcv_buff_release while transfer_enable_flag is OFF: ETHER_ERR_LINK, and *)
(* T4 no longer uses the buffer.                                           *)
BufReleaseRefused ==
  /\ held /\ held' = FALSE
  /\ UNCHANGED <<rx, papp_rx, edmac_rx, rr, release, loaded, got,
                 filled, freed, bad, raced>>

EdmacRx == EdmacReceive \/ EdmacRxStop
BufRelease ==
  BufReleaseMark \/ BufReleaseLoad \/ BufReleaseClear \/ BufReleaseAdvance
-----------------------------------------------------------------------------
RxTypeOK ==
  /\ rx \in [RxIndex -> [act : BOOLEAN, err : BOOLEAN, frame : Nat]]
  /\ papp_rx \in RxIndex /\ edmac_rx \in RxIndex /\ rr \in BOOLEAN
  /\ release \in {"no", "marked", "loaded", "cleared"}
  /\ loaded \in [act : BOOLEAN, err : BOOLEAN]
  /\ held \in BOOLEAN /\ got \in Nat
  /\ filled \in Nat /\ freed \in Nat
  /\ bad \in SUBSET Nat /\ raced \in BOOLEAN

(* While T4 works on a frame in place, the EDMAC cannot write its buffer:  *)
(* the descriptor stays the driver's and keeps the frame T4 was given,     *)
(* even after a frame has raced with a release (R_ETHER_Read_ZC2).         *)
HeldFrameStable ==
  held => ~ rx[papp_rx].act /\ rx[papp_rx].frame = got

(* Unless a frame arrives in the two instructions between the setting of   *)
(* RACT and the clearing of the status, T4 is given every frame received   *)
(* without error, in the order of reception and once: frame number n is    *)
(* the one of the n-th descriptor released (Read_ZC2, BufRelease).         *)
ReadInOrder ==
  held /\ ~ raced => got = freed /\ got \notin bad
=============================================================================
