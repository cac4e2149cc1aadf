----------------------------- MODULE MCEtherPower -----------------------------
(* EtherPower with the wiring of r_config/r_ether_rx_config.h: both PHYs   *)
(* are managed through the registers of module 0.                          *)
EXTENDS EtherPower, TLC

ShippedPhyAccess == (0 :> 0) @@ (1 :> 0)
=============================================================================
