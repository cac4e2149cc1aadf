------------------------------ MODULE MCEtherLink ------------------------------
(* EtherLink with the callback of ether_callback.c registered, a cable     *)
(* that changes three times and two calls of the application.              *)
EXTENDS EtherLink, TLC
=============================================================================
