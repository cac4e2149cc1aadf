------------------------------- MODULE EtherRing -------------------------------
(***************************************************************************)
(* One Ethernet channel: its receive ring, its transmit ring, and the link *)
(* processing of R_ETHER_LinkProcess, which initialises both again.        *)
(*                                                                         *)
(* The driver's calls of one channel run one at a time: T4 calls lan_read, *)
(* rcv_buff_release and lan_write in an interrupt, which the main program, *)
(* and with it R_ETHER_LinkProcess, does not interrupt.  Magic packet      *)
(* detection, in which these calls return an error, is in EtherLink.       *)
(***************************************************************************)
EXTENDS EtherRx, EtherTx

VARIABLES
  transfer_enable_flag,
  enabled  \* ECMR.RE and ECMR.TE, which are set and cleared together

link == <<transfer_enable_flag, enabled>>
vars == <<rxVars, txVars, link>>

(* After the first link-up.                                                *)
Init ==
  /\ enabled \in BOOLEAN /\ RxInit(enabled) /\ TxInit
  /\ transfer_enable_flag = TRUE

(* The EDMAC receives and sends while ECMR.RE and ECMR.TE are set.         *)
Receive ==
  /\ enabled /\ EdmacRx
  /\ UNCHANGED <<txVars, link>>

Transmit ==
  /\ enabled /\ EdmacTx
  /\ UNCHANGED <<rxVars, link>>

(* A call of T4 that has begun goes on to its end; none begins while the   *)
(* flag is OFF (ETHER_ERR_LINK).                                           *)
Read ==
  /\ transfer_enable_flag /\ write = "no" /\ ReadZC2
  /\ UNCHANGED <<txVars, link>>

Release ==
  /\ write = "no"
  /\ IF transfer_enable_flag THEN BufRelease ELSE BufReleaseRefused
  /\ UNCHANGED <<txVars, link>>

LanWrite ==
  /\ transfer_enable_flag /\ release = "no" /\ Write
  /\ UNCHANGED <<rxVars, link>>

NoCall == release = "no" /\ write = "no"

(* R_ETHER_LinkProcess, link down: the EDMAC is cut off, the flag cleared. *)
LinkOff ==
  /\ NoCall
  /\ transfer_enable_flag' = FALSE /\ enabled' = FALSE
  /\ UNCHANGED <<rxVars, txVars>>

(* R_ETHER_LinkProcess, link up, for the first time or again: software     *)
(* reset, ether_init_descriptors, ether_do_link.  When ether_do_link fails *)
(* (the link has gone, the auto-negotiation is not complete) RE, TE and    *)
(* EDRRR stay cleared; the flag is set all the same.  T4 holds no buffer   *)
(* then: it releases a frame in the interrupt in which it read it.         *)
LinkOn ==
  /\ NoCall /\ ~ held
  /\ enabled' \in BOOLEAN
  /\ RxReinit(enabled') /\ TxReinit
  /\ transfer_enable_flag' = TRUE

Next == Receive \/ Transmit \/ Read \/ Release \/ LanWrite \/ LinkOff \/ LinkOn

(* The EDMAC sends while it is enabled.  T4 polls the receive ring at     *)
(* every timer interrupt and finishes the calls it has begun, so that      *)
(* writing frames does not keep it from reading and releasing them for     *)
(* ever.  Nothing obliges frames to arrive.                                *)
Fairness ==
  /\ WF_vars(Transmit) /\ SF_vars(Read) /\ SF_vars(Release)
  /\ WF_vars(LanWrite /\ write # "no")

Spec == Init /\ [][Next]_vars /\ Fairness
-----------------------------------------------------------------------------
TypeOK ==
  /\ RxTypeOK /\ TxTypeOK
  /\ transfer_enable_flag \in BOOLEAN /\ enabled \in BOOLEAN

(* Where ether_do_link has enabled it, reception never stays stopped: once *)
(* the EDMAC has run out of active descriptors, a release restarts it (the *)
(* end of BufRelease).  A channel whose ether_do_link failed receives      *)
(* nothing until the next link-up, whatever transfer_enable_flag says.     *)
ReceptionRestarts == enabled /\ ~ rr ~> rr \/ ~ enabled

(* A frame in a descriptor leaves it where ether_do_link has enabled the   *)
(* transmission: SetBuf restarts the EDMAC if it stopped before the        *)
(* descriptor was active.  Where ether_do_link failed, lan_write accepts   *)
(* frames all the same, and they stay until the next link-up.              *)
AcceptedFramesLeave ==
  \A i \in TxIndex : enabled /\ tx[i].act ~> ~ tx[i].act \/ ~ enabled
=============================================================================
