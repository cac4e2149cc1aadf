------------------------------ MODULE FrameQueue ------------------------------
(***************************************************************************)
(* What a transmit ring promises: a bounded first-in first-out queue of    *)
(* frames.  The sender appends, the line takes the oldest, and a link-up   *)
(* may throw away what was not sent.                                       *)
(***************************************************************************)
EXTENDS Naturals, Sequences

CONSTANT Capacity
VARIABLES queue, sent  \* the frames queued, the number of the last one sent

Put ==
  /\ Len(queue) < Capacity
  /\ queue' = Append(queue, sent + Len(queue) + 1)
  /\ sent' = sent

Take ==
  /\ queue # <<>>
  /\ queue' = Tail(queue) /\ sent' = Head(queue)

Flush == queue' = <<>> /\ sent' = 0

Init == queue = <<>> /\ sent = 0
Next == Put \/ Take \/ Flush
Spec == Init /\ [][Next]_<<queue, sent>>
=============================================================================
