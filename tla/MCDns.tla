--------------------------------- MODULE MCDns ---------------------------------
(* Dns with two requests, so that replies, cancels and callbacks of the    *)
(* first can meet the second.                                              *)
EXTENDS Dns, TLC
=============================================================================
