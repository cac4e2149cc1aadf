------------------------------ MODULE MCEtherRing ------------------------------
(* EtherRing with two descriptors in each ring, so that the pointers of    *)
(* the driver and of the EDMAC can differ and wrap around.                 *)
EXTENDS EtherRing, TLC
=============================================================================
