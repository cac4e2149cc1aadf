---------------------------------- MODULE MCFtp ---------------------------------
(* Two entries and uploads of up to a buffer of two bytes at a time.       *)
EXTENDS Ftp, FiniteSets, TLC

Busy == {i \in Entry : owner[i] # "free"}

(* Not explored further: a session whose properties are excused from here  *)
(* on (it had a stale store; or it was refused a call and the client spoke *)
(* out of turn), and a full table except with the HTTP server's file in    *)
(* front of the session's.                                                 *)
Fresh ==
  /\ "stale" \notin slips /\ (slips = {} \/ ~outOfTurn)
  /\ Cardinality(Busy) <= 1 \/ owner = (0 :> "http" @@ 1 :> "ftp")
====
