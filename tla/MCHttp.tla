-------------------------------- MODULE MCHttp ---------------------------------
(* Http with two endpoints and files of more than one block.               *)
EXTENDS Http, TLC
=============================================================================
