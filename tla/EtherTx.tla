-------------------------------- MODULE EtherTx --------------------------------
(***************************************************************************)
(* The transmit ring of one Ethernet channel (r_ether_rx/src/r_ether_rx.c  *)
(* and lan_write of r_t4_driver_rx/src/t4_driver.c): lan_write takes the   *)
(* next free descriptor's buffer, copies the frame and activates the       *)
(* descriptor; the EDMAC sends the active descriptors in ring order and    *)
(* clears EDTRR.TR when it meets an inactive one.                          *)
(*                                                                         *)
(* Frames are numbered in the order lan_write accepts them, from 1.        *)
(***************************************************************************)
EXTENDS Integers, Sequences

CONSTANTS
  TxDescriptors,  \* ETHER_CFG_EMAC_TX_DESCRIPTORS
  MaxTxFrames     \* bound: frames the model's T4 sends per link-up

ASSUME TxAssumption ==
  TxDescriptors \in Nat \ {0} /\ MaxTxFrames \in Nat

VARIABLES
  tx,        \* the descriptors: TACT, and the frame in the buffer
  papp_tx,   \* papp_tx_desc, the driver's next descriptor
  edmac_tx,  \* the EDMAC's next descriptor
  tr,        \* EDTRR.TR, transmission requested
  write,     \* step of lan_write: "no", "copying", "active"
  accepted,  \* number of the last frame activated since link-up
  sent       \* number of the last frame sent since link-up

txVars == <<tx, papp_tx, edmac_tx, tr, write, accepted, sent>>

TxIndex == 0 .. TxDescriptors - 1

(* The next field of a descriptor; the last one points to the first.       *)
TxNextOf(i) == IF i = TxDescriptors - 1 THEN 0 ELSE i + 1

(* ether_init_descriptors and ether_config_ethernet (TDLAR), transmit side.*)
TxReady(desc, papp, edmac, request) ==
  /\ desc = [i \in TxIndex |-> [act |-> FALSE, frame |-> 0]]
  /\ papp = 0 /\ edmac = 0 /\ request = FALSE

TxInit ==
  /\ TxReady(tx, papp_tx, edmac_tx, tr)
  /\ write = "no" /\ accepted = 0 /\ sent = 0

TxReinit ==
  /\ TxReady(tx', papp_tx', edmac_tx', tr')
  /\ accepted' = 0 /\ sent' = 0
  /\ UNCHANGED write

-----------------------------------------------------------------------------
(* The EDMAC (hardware): send the next active descriptor, or stop.         *)
EdmacTransmit ==
  /\ tr /\ tx[edmac_tx].act
  /\ tx' = [tx EXCEPT ![edmac_tx].act = FALSE]
  /\ sent' = tx[edmac_tx].frame
  /\ edmac_tx' = TxNextOf(edmac_tx)
  /\ UNCHANGED <<papp_tx, tr, write, accepted>>

EdmacTxStop ==
  /\ tr /\ ~ tx[edmac_tx].act
  /\ tr' = FALSE
  /\ UNCHANGED <<tx, papp_tx, edmac_tx, write, accepted, sent>>

-----------------------------------------------------------------------------
(* Mutant: does not look at TACT. *)
WriteGetBufActive ==
  /\ write = "no" /\ accepted < MaxTxFrames
  /\ tx' = [tx EXCEPT ![papp_tx].frame = accepted + 1]
  /\ write' = "copying"
  /\ UNCHANGED <<papp_tx, edmac_tx, tr, accepted, sent>>

(* lan_write: R_ETHER_Write_ZC2_GetBuf succeeds on an inactive descriptor  *)
(* (ETHER_ERR_TACT otherwise), and the frame is copied into its buffer.    *)
WriteGetBuf ==
  /\ write = "no" /\ accepted < MaxTxFrames
  /\ ~ tx[papp_tx].act
  /\ tx' = [tx EXCEPT ![papp_tx].frame = accepted + 1]
  /\ write' = "copying"
  /\ UNCHANGED <<papp_tx, edmac_tx, tr, accepted, sent>>

(* R_ETHER_Write_ZC2_SetBuf refuses a frame shorter than 60 bytes, and     *)
(* lan_write returns -5; the descriptor stays as it is.                    *)
WriteRefused ==
  /\ write = "copying" /\ write' = "no"
  /\ UNCHANGED <<tx, papp_tx, edmac_tx, tr, accepted, sent>>

(* R_ETHER_Write_ZC2_SetBuf: activate the descriptor ...                   *)
WriteActivate ==
  /\ write = "copying" /\ write' = "active"
  /\ tx' = [tx EXCEPT ![papp_tx].act = TRUE]
  /\ accepted' = accepted + 1
  /\ UNCHANGED <<papp_tx, edmac_tx, tr, sent>>

(* Mutant: does not restart the EDMAC. *)
WriteAdvanceOnly ==
  /\ write = "active" /\ write' = "no"
  /\ papp_tx' = TxNextOf(papp_tx)
  /\ UNCHANGED <<tx, edmac_tx, tr, accepted, sent>>

(* ... then move to the next one, and restart the EDMAC if it stopped.     *)
WriteAdvance ==
  /\ write = "active" /\ write' = "no"
  /\ papp_tx' = TxNextOf(papp_tx)
  /\ tr' = TRUE
  /\ UNCHANGED <<tx, edmac_tx, accepted, sent>>

EdmacTx == EdmacTransmit \/ EdmacTxStop
Write == WriteGetBuf \/ WriteRefused \/ WriteActivate \/ WriteAdvance

-----------------------------------------------------------------------------
TxTypeOK ==
  /\ tx \in [TxIndex -> [act : BOOLEAN, frame : Nat]]
  /\ papp_tx \in TxIndex /\ edmac_tx \in TxIndex /\ tr \in BOOLEAN
  /\ write \in {"no", "copying", "active"}
  /\ accepted \in Nat /\ sent \in Nat

(* The frames accepted and not sent, from the EDMAC's descriptor on.       *)
TxAfter(k) ==
  IF edmac_tx + k < TxDescriptors THEN edmac_tx + k
                                  ELSE edmac_tx + k - TxDescriptors

TxQueue == [k \in 1 .. accepted - sent |-> tx[TxAfter(k - 1)].frame]

Line == INSTANCE FrameQueue WITH
          Capacity <- TxDescriptors, queue <- TxQueue, sent <- sent

(* The ring sends every frame lan_write has accepted, in order and once:   *)
(* it is the bounded queue of FrameQueue (Write_ZC2_GetBuf, _SetBuf).      *)
SendsInOrder == Line!Spec
=============================================================================
