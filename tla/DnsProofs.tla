------------------------------- MODULE DnsProofs -------------------------------
(* Proofs about Dns, for any number of requests, responses, repetitions,   *)
(* identifiers and any timeout.                                            *)
EXTENDS Dns, TLAPS

(* What the interrupts may have made of proc since the main program read   *)
(* it and entered a handler.                                               *)
HandlerInv ==
  /\ main = "INIT" => proc = "INIT"
  /\ main \in {"START", "sent", "refused"} => proc = "START"
  /\ main \in {"SENDING", "D2 late"} =>
       proc \in {"SENDING", "RECEIVING", "FINISH", "CANCELLED"}
  /\ main \in {"RECEIVING", "E2 late"} =>
       proc \in {"RECEIVING", "FINISH", "CANCELLED"}
  /\ main \in {"FINISH", "called"} => proc = "FINISH"
  /\ main \in {"CANCELLING", "cancelled", "nothing"} => proc = "CANCELLING"
  /\ main \in {"CANCELLING_WAIT", "H2 late"} =>
       proc \in {"CANCELLING_WAIT", "CANCELLED"}
  /\ main = "CANCELLED" => proc = "CANCELLED"
  /\ main = "report" => proc \in {"UNRECEIVED", "INIT"}

(* The queries still allowed: those of this server, those of the other one *)
(* and the one that is about to be sent.                                   *)
ThisServer == retry_cnt
OtherServer == IF dns_select = "PRIMARY" THEN DNS_ERROR_COUNT + 1 ELSE 0
NextQuery ==
  IF proc \in {"INIT", "START"} /\ main \notin {"sent", "refused"} THEN 1 ELSE 0
Allowed == ThisServer + OtherServer + NextQuery

BudgetInv == tries + Allowed <= 2 * (DNS_ERROR_COUNT + 1)

(* A query waits to be sent only while its request is being sent or is     *)
(* about to be cancelled.                                                  *)
SendingInv ==
  endpoint = "sending" =>
    \/ proc = "START" /\ main = "sent"
    \/ proc = "SENDING"
    \/ proc = "CANCELLING" /\ main \in {"loop", "CANCELLING"}

(* An answer in the table was read for the current request.                *)
AnswerInv == SuccessReachesAsker /\ (proc = "FINISH" => name_table.to = request)

(* Requests are numbered as they are accepted, and the current one is      *)
(* answered only at the end of F2.                                         *)
NumberInv ==
  /\ request = asked /\ (proc # "UNRECEIVED" => request >= 1)
  /\ \A d \in done : 1 <= d /\ d <= asked
  /\ request \in done => proc = "UNRECEIVED" \/ main = "called"

(* The identifier n steps after id, for less than a whole turn of them.    *)
Later(id, n) == IF id + n < Ids THEN id + n ELSE id + n - Ids

(* An identifier has been spent since any query of an answered request,    *)
(* and as long as they have not gone round, TRANSACTION_ID tells how many. *)
PassedInv ==
  \A r \in replies :
    /\ r.at <= spent /\ r.of <= asked
    /\ r.of \in done \/ proc = "FINISH" => r.at < spent
    /\ r.of # 0 /\ spent - r.at < Ids =>
         TRANSACTION_ID = Later(r.id, spent - r.at)

IInv ==
  /\ TypeOK /\ HandlerInv /\ BudgetInv /\ CallsBalance /\ SendingInv
  /\ AnswerInv /\ NumberInv /\ PassedInv /\ AnswerIsFresh
-----------------------------------------------------------------------------
(* Spending one more identifier goes one step on; none comes back within a *)
(* turn.                                                                   *)
LEMMA LaterSteps ==
  ASSUME NEW id \in 0 .. Ids - 1, NEW n \in Nat, n < Ids
  PROVE  /\ Later(id, n) \in 0 .. Ids - 1
         /\ n + 1 < Ids => Later(id, n + 1) = IdAfter(Later(id, n))
         /\ Later(id, n) = id => n = 0
  BY DnsAssumption DEF Later, IdAfter

LEMMA InitInv == Init => IInv
<1> SUFFICES ASSUME Init
             PROVE  IInv
  OBVIOUS
<1>1. TypeOK
  BY DnsAssumption DEF Init, TypeOK, Steps, Procs, Waits, Reply
<1>2. HandlerInv /\ SendingInv /\ CallsBalance
  BY DEF Init, HandlerInv, SendingInv, CallsBalance
<1>3. BudgetInv
  BY DnsAssumption
     DEF Init, BudgetInv, Allowed, ThisServer, OtherServer, NextQuery
<1>4. AnswerInv /\ NumberInv /\ PassedInv /\ AnswerIsFresh
  BY <1>1 DEF Init, AnswerInv, SuccessReachesAsker, NumberInv, PassedInv,
         AnswerIsFresh, TypeOK, Reply
<1> QED BY <1>1, <1>2, <1>3, <1>4 DEF IInv

LEMMA ProcessInv == IInv /\ Process => IInv'
<1> SUFFICES ASSUME IInv, Process
             PROVE  IInv'
  OBVIOUS
<1>1. TypeOK'
  BY DnsAssumption
     DEF IInv, TypeOK, Steps, Procs, Waits, Reply, Process, From, dns_mng,
         history
<1>2. HandlerInv'
  BY DEF IInv, TypeOK, HandlerInv, SendingInv, Procs, Waits, Process, From,
         dns_mng, history
<1>3. BudgetInv'
  BY DnsAssumption
     DEF IInv, TypeOK, BudgetInv, HandlerInv, Allowed, ThisServer, OtherServer,
         NextQuery, Process, From, dns_mng, history
<1>4. CallsBalance'
  BY DEF IInv, TypeOK, CallsBalance, HandlerInv, SendingInv, Procs, Waits,
         Process, From, dns_mng, history
<1>5. SendingInv'
  BY DEF IInv, TypeOK, SendingInv, HandlerInv, Procs, Waits, Process, From,
         dns_mng, history
<1>6. NumberInv'
  BY DEF IInv, TypeOK, NumberInv, HandlerInv, SendingInv, Process, From,
         dns_mng, history
<1>7. AnswerIsFresh'
  BY DEF IInv, TypeOK, AnswerIsFresh, HandlerInv, PassedInv, SendingInv,
         Process, From, dns_mng, history
<1>8. AnswerInv' /\ PassedInv'
  BY DEF IInv, AnswerInv, SuccessReachesAsker, PassedInv, Process, From,
         dns_mng, history
<1> QED BY <1>1, <1>2, <1>3, <1>4, <1>5, <1>6, <1>7, <1>8 DEF IInv

LEMMA B2Inv == IInv /\ B2 => IInv'
<1> SUFFICES ASSUME IInv, B2
             PROVE  IInv'
  OBVIOUS
<1>1. TypeOK'
  BY DnsAssumption
     DEF IInv, TypeOK, Steps, Procs, Waits, Reply, B2, From, Store, dns_mng,
         history
<1>2. HandlerInv'
  BY DEF IInv, TypeOK, HandlerInv, SendingInv, Procs, Waits, B2, From, Store,
         dns_mng, history
<1>3. BudgetInv'
  BY DnsAssumption
     DEF IInv, TypeOK, BudgetInv, HandlerInv, Allowed, ThisServer, OtherServer,
         NextQuery, B2, From, Store, dns_mng, history
<1>4. CallsBalance'
  BY DEF IInv, TypeOK, CallsBalance, HandlerInv, SendingInv, Procs, Waits, B2,
         From, Store, dns_mng, history
<1>5. SendingInv'
  BY DEF IInv, TypeOK, SendingInv, HandlerInv, Procs, Waits, B2, From, Store,
         dns_mng, history
<1>6. AnswerInv'
  BY DEF IInv, TypeOK, AnswerInv, HandlerInv, SuccessReachesAsker, B2, From,
         Store, dns_mng, history
<1>7. NumberInv'
  BY DEF IInv, TypeOK, NumberInv, HandlerInv, SendingInv, B2, From, Store,
         dns_mng, history
<1>8. PassedInv'
  BY DEF IInv, TypeOK, PassedInv, HandlerInv, NumberInv, SendingInv, Reply, B2,
         From, Store, dns_mng, history
<1>9. AnswerIsFresh'
  BY DEF IInv, TypeOK, AnswerIsFresh, HandlerInv, PassedInv, SendingInv, B2,
         From, Store, dns_mng, history
<1> QED BY <1>1, <1>2, <1>3, <1>4, <1>5, <1>6, <1>7, <1>8, <1>9 DEF IInv

LEMMA C2Inv == IInv /\ C2 => IInv'
<1> SUFFICES ASSUME IInv, C2
             PROVE  IInv'
  OBVIOUS
<1>1. TypeOK'
  <2>1. tries' \in Nat /\ timer' \in Nat
    BY DEF IInv, TypeOK, C2
  <2>2. main' \in Steps /\ endpoint' \in {"idle", "sending", "cancelled"}
    BY DEF IInv, TypeOK, C2, send_dns_request, From, Steps
  <2> QED
    BY <2>1, <2>2
       DEF IInv, TypeOK, C2, dns_mng
<1>2. HandlerInv'
  BY DEF IInv, TypeOK, HandlerInv, SendingInv, Procs, Waits, C2, From, dns_mng,
         history
<1>3. BudgetInv'
  <2>1. NextQuery = 1 /\ NextQuery' = 0 /\ tries' = tries + 1
        /\ retry_cnt' = retry_cnt
    BY DEF IInv, TypeOK, HandlerInv, NextQuery, C2, From, dns_mng
  <2>2. OtherServer \in Nat /\ OtherServer' = OtherServer /\ NextQuery \in Nat
    BY DnsAssumption DEF OtherServer, NextQuery, C2, dns_mng
  <2> QED
    BY <2>1, <2>2, DnsAssumption
       DEF IInv, TypeOK, BudgetInv, Allowed, ThisServer
<1>4. CallsBalance'
  BY DEF IInv, TypeOK, CallsBalance, HandlerInv, SendingInv, Procs, Waits, C2,
         From, dns_mng, history
<1>5. SendingInv'
  BY DEF IInv, TypeOK, SendingInv, HandlerInv, Procs, Waits, C2,
         send_dns_request, From, dns_mng, history
<1>6. NumberInv'
  BY DEF IInv, TypeOK, NumberInv, HandlerInv, SendingInv, C2, From, dns_mng,
         history
<1>7. AnswerIsFresh'
  BY DEF IInv, TypeOK, AnswerIsFresh, HandlerInv, PassedInv, SendingInv, C2,
         From, dns_mng, history
<1>8. AnswerInv' /\ PassedInv'
  BY DEF IInv, AnswerInv, SuccessReachesAsker, PassedInv, C2, From, dns_mng,
         history
<1> QED BY <1>1, <1>2, <1>3, <1>4, <1>5, <1>6, <1>7, <1>8 DEF IInv

LEMMA C2SentInv == IInv /\ C2Sent => IInv'
<1> SUFFICES ASSUME IInv, C2Sent
             PROVE  IInv'
  OBVIOUS
<1>1. TypeOK'
  BY DnsAssumption
     DEF IInv, TypeOK, Steps, Procs, Waits, Reply, C2Sent, From, Store,
         dns_mng, history
<1>2. HandlerInv'
  BY DEF IInv, TypeOK, HandlerInv, SendingInv, Procs, Waits, C2Sent, From,
         Store, dns_mng, history
<1>3. BudgetInv'
  BY DnsAssumption
     DEF IInv, TypeOK, BudgetInv, HandlerInv, Allowed, ThisServer, OtherServer,
         NextQuery, C2Sent, From, Store, dns_mng, history
<1>4. CallsBalance'
  BY DEF IInv, TypeOK, CallsBalance, HandlerInv, SendingInv, Procs, Waits,
         C2Sent, From, Store, dns_mng, history
<1>5. SendingInv'
  BY DEF IInv, TypeOK, SendingInv, HandlerInv, Procs, Waits, C2Sent, From,
         Store, dns_mng, history
<1>6. AnswerInv'
  BY DEF IInv, TypeOK, AnswerInv, HandlerInv, SuccessReachesAsker, C2Sent,
         From, Store, dns_mng, history
<1>7. NumberInv'
  BY DEF IInv, TypeOK, NumberInv, HandlerInv, SendingInv, C2Sent, From, Store,
         dns_mng, history
<1>8. PassedInv'
  BY DEF IInv, TypeOK, PassedInv, HandlerInv, NumberInv, SendingInv, Reply,
         C2Sent, From, Store, dns_mng, history
<1>9. AnswerIsFresh'
  BY DEF IInv, TypeOK, AnswerIsFresh, HandlerInv, PassedInv, SendingInv,
         C2Sent, From, Store, dns_mng, history
<1> QED BY <1>1, <1>2, <1>3, <1>4, <1>5, <1>6, <1>7, <1>8, <1>9 DEF IInv

LEMMA C2RefusedInv == IInv /\ C2Refused => IInv'
<1> SUFFICES ASSUME IInv, C2Refused
             PROVE  IInv'
  OBVIOUS
<1>1. TypeOK'
  BY DnsAssumption
     DEF IInv, TypeOK, Steps, Procs, Waits, Reply, C2Refused, From, Store,
         dns_mng, history
<1>2. HandlerInv'
  BY DEF IInv, TypeOK, HandlerInv, SendingInv, Procs, Waits, C2Refused, From,
         Store, dns_mng, history
<1>3. BudgetInv'
  BY DnsAssumption
     DEF IInv, TypeOK, BudgetInv, HandlerInv, Allowed, ThisServer, OtherServer,
         NextQuery, C2Refused, From, Store, dns_mng, history
<1>4. CallsBalance'
  BY DEF IInv, TypeOK, CallsBalance, HandlerInv, SendingInv, Procs, Waits,
         C2Refused, From, Store, dns_mng, history
<1>5. SendingInv'
  BY DEF IInv, TypeOK, SendingInv, HandlerInv, Procs, Waits, C2Refused, From,
         Store, dns_mng, history
<1>6. AnswerInv'
  BY DEF IInv, TypeOK, AnswerInv, HandlerInv, SuccessReachesAsker, C2Refused,
         From, Store, dns_mng, history
<1>7. NumberInv'
  BY DEF IInv, TypeOK, NumberInv, HandlerInv, SendingInv, C2Refused, From,
         Store, dns_mng, history
<1>8. PassedInv'
  BY DEF IInv, TypeOK, PassedInv, HandlerInv, NumberInv, SendingInv, Reply,
         C2Refused, From, Store, dns_mng, history
<1>9. AnswerIsFresh'
  BY DEF IInv, TypeOK, AnswerIsFresh, HandlerInv, PassedInv, SendingInv,
         C2Refused, From, Store, dns_mng, history
<1> QED BY <1>1, <1>2, <1>3, <1>4, <1>5, <1>6, <1>7, <1>8, <1>9 DEF IInv

LEMMA D2Inv == IInv /\ D2 => IInv'
<1> SUFFICES ASSUME IInv, D2
             PROVE  IInv'
  OBVIOUS
<1>1. TypeOK'
  BY DnsAssumption
     DEF IInv, TypeOK, Steps, Procs, Waits, Reply, D2, Poll, From, dns_mng,
         history
<1>2. HandlerInv'
  BY DEF IInv, TypeOK, HandlerInv, SendingInv, Procs, Waits, D2, Poll, From,
         dns_mng, history
<1>3. BudgetInv'
  BY DnsAssumption
     DEF IInv, TypeOK, BudgetInv, HandlerInv, Allowed, ThisServer, OtherServer,
         NextQuery, D2, Poll, From, dns_mng, history
<1>4. CallsBalance'
  BY DEF IInv, TypeOK, CallsBalance, HandlerInv, SendingInv, Procs, Waits, D2,
         Poll, From, dns_mng, history
<1>5. SendingInv'
  BY DEF IInv, TypeOK, SendingInv, HandlerInv, Procs, Waits, D2, Poll, From,
         dns_mng, history
<1>6. NumberInv'
  BY DEF IInv, TypeOK, NumberInv, HandlerInv, SendingInv, D2, Poll, From,
         dns_mng, history
<1>7. AnswerIsFresh'
  BY DEF IInv, TypeOK, AnswerIsFresh, HandlerInv, PassedInv, SendingInv, D2,
         Poll, From, dns_mng, history
<1>8. AnswerInv' /\ PassedInv'
  BY DEF IInv, AnswerInv, SuccessReachesAsker, PassedInv, D2, Poll, From,
         dns_mng, history
<1> QED BY <1>1, <1>2, <1>3, <1>4, <1>5, <1>6, <1>7, <1>8 DEF IInv

LEMMA D2LateInv == IInv /\ D2Late => IInv'
<1> SUFFICES ASSUME IInv, D2Late
             PROVE  IInv'
  OBVIOUS
<1>1. TypeOK'
  BY DnsAssumption
     DEF IInv, TypeOK, Steps, Procs, Waits, Reply, D2Late, From, Store,
         dns_mng, history
<1>2. HandlerInv'
  BY DEF IInv, TypeOK, HandlerInv, SendingInv, Procs, Waits, D2Late, From,
         Store, dns_mng, history
<1>3. BudgetInv'
  BY DnsAssumption
     DEF IInv, TypeOK, BudgetInv, HandlerInv, Allowed, ThisServer, OtherServer,
         NextQuery, D2Late, From, Store, dns_mng, history
<1>4. CallsBalance'
  BY DEF IInv, TypeOK, CallsBalance, HandlerInv, SendingInv, Procs, Waits,
         D2Late, From, Store, dns_mng, history
<1>5. SendingInv'
  BY DEF IInv, TypeOK, SendingInv, HandlerInv, Procs, Waits, D2Late, From,
         Store, dns_mng, history
<1>6. AnswerInv'
  BY DEF IInv, TypeOK, AnswerInv, HandlerInv, SuccessReachesAsker, D2Late,
         From, Store, dns_mng, history
<1>7. NumberInv'
  BY DEF IInv, TypeOK, NumberInv, HandlerInv, SendingInv, D2Late, From, Store,
         dns_mng, history
<1>8. PassedInv'
  BY DEF IInv, TypeOK, PassedInv, HandlerInv, NumberInv, SendingInv, Reply,
         D2Late, From, Store, dns_mng, history
<1>9. AnswerIsFresh'
  BY DEF IInv, TypeOK, AnswerIsFresh, HandlerInv, PassedInv, SendingInv,
         D2Late, From, Store, dns_mng, history
<1> QED BY <1>1, <1>2, <1>3, <1>4, <1>5, <1>6, <1>7, <1>8, <1>9 DEF IInv

LEMMA E2Inv == IInv /\ E2 => IInv'
<1> SUFFICES ASSUME IInv, E2
             PROVE  IInv'
  OBVIOUS
<1>1. TypeOK'
  BY DnsAssumption
     DEF IInv, TypeOK, Steps, Procs, Waits, Reply, E2, Poll, From, dns_mng,
         history
<1>2. HandlerInv'
  BY DEF IInv, TypeOK, HandlerInv, SendingInv, Procs, Waits, E2, Poll, From,
         dns_mng, history
<1>3. BudgetInv'
  BY DnsAssumption
     DEF IInv, TypeOK, BudgetInv, HandlerInv, Allowed, ThisServer, OtherServer,
         NextQuery, E2, Poll, From, dns_mng, history
<1>4. CallsBalance'
  BY DEF IInv, TypeOK, CallsBalance, HandlerInv, SendingInv, Procs, Waits, E2,
         Poll, From, dns_mng, history
<1>5. SendingInv'
  BY DEF IInv, TypeOK, SendingInv, HandlerInv, Procs, Waits, E2, Poll, From,
         dns_mng, history
<1>6. NumberInv'
  BY DEF IInv, TypeOK, NumberInv, HandlerInv, SendingInv, E2, Poll, From,
         dns_mng, history
<1>7. AnswerIsFresh'
  BY DEF IInv, TypeOK, AnswerIsFresh, HandlerInv, PassedInv, SendingInv, E2,
         Poll, From, dns_mng, history
<1>8. AnswerInv' /\ PassedInv'
  BY DEF IInv, AnswerInv, SuccessReachesAsker, PassedInv, E2, Poll, From,
         dns_mng, history
<1> QED BY <1>1, <1>2, <1>3, <1>4, <1>5, <1>6, <1>7, <1>8 DEF IInv

LEMMA E2LateInv == IInv /\ E2Late => IInv'
<1> SUFFICES ASSUME IInv, E2Late
             PROVE  IInv'
  OBVIOUS
<1>1. TypeOK'
  BY DnsAssumption
     DEF IInv, TypeOK, Steps, Procs, Waits, Reply, E2Late, From, Store,
         dns_mng, history
<1>2. HandlerInv'
  BY DEF IInv, TypeOK, HandlerInv, SendingInv, Procs, Waits, E2Late, From,
         Store, dns_mng, history
<1>3. BudgetInv'
  BY DnsAssumption
     DEF IInv, TypeOK, BudgetInv, HandlerInv, Allowed, ThisServer, OtherServer,
         NextQuery, E2Late, From, Store, dns_mng, history
<1>4. CallsBalance'
  BY DEF IInv, TypeOK, CallsBalance, HandlerInv, SendingInv, Procs, Waits,
         E2Late, From, Store, dns_mng, history
<1>5. SendingInv'
  BY DEF IInv, TypeOK, SendingInv, HandlerInv, Procs, Waits, E2Late, From,
         Store, dns_mng, history
<1>6. AnswerInv'
  BY DEF IInv, TypeOK, AnswerInv, HandlerInv, SuccessReachesAsker, E2Late,
         From, Store, dns_mng, history
<1>7. NumberInv'
  BY DEF IInv, TypeOK, NumberInv, HandlerInv, SendingInv, E2Late, From, Store,
         dns_mng, history
<1>8. PassedInv'
  BY DEF IInv, TypeOK, PassedInv, HandlerInv, NumberInv, SendingInv, Reply,
         E2Late, From, Store, dns_mng, history
<1>9. AnswerIsFresh'
  BY DEF IInv, TypeOK, AnswerIsFresh, HandlerInv, PassedInv, SendingInv,
         E2Late, From, Store, dns_mng, history
<1> QED BY <1>1, <1>2, <1>3, <1>4, <1>5, <1>6, <1>7, <1>8, <1>9 DEF IInv

LEMMA H2Inv == IInv /\ H2 => IInv'
<1> SUFFICES ASSUME IInv, H2
             PROVE  IInv'
  OBVIOUS
<1>1. TypeOK'
  BY DnsAssumption
     DEF IInv, TypeOK, Steps, Procs, Waits, Reply, H2, Poll, From, dns_mng,
         history
<1>2. HandlerInv'
  BY DEF IInv, TypeOK, HandlerInv, SendingInv, Procs, Waits, H2, Poll, From,
         dns_mng, history
<1>3. BudgetInv'
  BY DnsAssumption
     DEF IInv, TypeOK, BudgetInv, HandlerInv, Allowed, ThisServer, OtherServer,
         NextQuery, H2, Poll, From, dns_mng, history
<1>4. CallsBalance'
  BY DEF IInv, TypeOK, CallsBalance, HandlerInv, SendingInv, Procs, Waits, H2,
         Poll, From, dns_mng, history
<1>5. SendingInv'
  BY DEF IInv, TypeOK, SendingInv, HandlerInv, Procs, Waits, H2, Poll, From,
         dns_mng, history
<1>6. NumberInv'
  BY DEF IInv, TypeOK, NumberInv, HandlerInv, SendingInv, H2, Poll, From,
         dns_mng, history
<1>7. AnswerIsFresh'
  BY DEF IInv, TypeOK, AnswerIsFresh, HandlerInv, PassedInv, SendingInv, H2,
         Poll, From, dns_mng, history
<1>8. AnswerInv' /\ PassedInv'
  BY DEF IInv, AnswerInv, SuccessReachesAsker, PassedInv, H2, Poll, From,
         dns_mng, history
<1> QED BY <1>1, <1>2, <1>3, <1>4, <1>5, <1>6, <1>7, <1>8 DEF IInv

LEMMA H2LateInv == IInv /\ H2Late => IInv'
<1> SUFFICES ASSUME IInv, H2Late
             PROVE  IInv'
  OBVIOUS
<1>1. TypeOK'
  BY DnsAssumption
     DEF IInv, TypeOK, Steps, Procs, Waits, Reply, H2Late, From, Store,
         dns_mng, history
<1>2. HandlerInv'
  BY DEF IInv, TypeOK, HandlerInv, SendingInv, Procs, Waits, H2Late, From,
         Store, dns_mng, history
<1>3. BudgetInv'
  <2>1. NextQuery' = 0 /\ tries' = tries /\ retry_cnt' = 0
    BY DEF IInv, TypeOK, HandlerInv, NextQuery, H2Late, From, Store, history
  <2>2. OtherServer \in Nat /\ NextQuery \in Nat
    BY DnsAssumption DEF OtherServer, NextQuery
  <2>3. OtherServer' = OtherServer
    BY DEF OtherServer, H2Late, Store
  <2> QED
    BY <2>1, <2>2, <2>3, DnsAssumption
       DEF IInv, TypeOK, BudgetInv, Allowed, ThisServer
<1>4. CallsBalance'
  BY DEF IInv, TypeOK, CallsBalance, HandlerInv, SendingInv, Procs, Waits,
         H2Late, From, Store, dns_mng, history
<1>5. SendingInv'
  BY DEF IInv, TypeOK, SendingInv, HandlerInv, Procs, Waits, H2Late, From,
         Store, dns_mng, history
<1>6. AnswerInv'
  BY DEF IInv, TypeOK, AnswerInv, HandlerInv, SuccessReachesAsker, H2Late,
         From, Store, dns_mng, history
<1>7. NumberInv'
  BY DEF IInv, TypeOK, NumberInv, HandlerInv, SendingInv, H2Late, From, Store,
         dns_mng, history
<1>8. PassedInv'
  BY DEF IInv, TypeOK, PassedInv, HandlerInv, NumberInv, SendingInv, Reply,
         H2Late, From, Store, dns_mng, history
<1>9. AnswerIsFresh'
  BY DEF IInv, TypeOK, AnswerIsFresh, HandlerInv, PassedInv, SendingInv,
         H2Late, From, Store, dns_mng, history
<1> QED BY <1>1, <1>2, <1>3, <1>4, <1>5, <1>6, <1>7, <1>8, <1>9 DEF IInv

LEMMA F2Inv == IInv /\ F2 => IInv'
<1> SUFFICES ASSUME IInv, F2
             PROVE  IInv'
  OBVIOUS
<1>1. TypeOK'
  BY DnsAssumption
     DEF IInv, TypeOK, Steps, Procs, Waits, Reply, F2, From, dns_mng, history
<1>2. HandlerInv'
  BY DEF IInv, TypeOK, HandlerInv, SendingInv, Procs, Waits, F2, From, dns_mng,
         history
<1>3. BudgetInv'
  BY DnsAssumption
     DEF IInv, TypeOK, BudgetInv, HandlerInv, Allowed, ThisServer, OtherServer,
         NextQuery, F2, From, dns_mng, history
<1>4. CallsBalance'
  BY DEF IInv, TypeOK, CallsBalance, HandlerInv, SendingInv, Procs, Waits, F2,
         From, dns_mng, history
<1>5. SendingInv'
  BY DEF IInv, TypeOK, SendingInv, HandlerInv, Procs, Waits, F2, From, dns_mng,
         history
<1>6. AnswerInv'
  BY DEF IInv, TypeOK, AnswerInv, HandlerInv, SuccessReachesAsker, F2, From,
         dns_mng, history
<1>7. NumberInv'
  BY DEF IInv, TypeOK, NumberInv, HandlerInv, SendingInv, F2, From, dns_mng,
         history
<1>8. PassedInv'
  BY DEF IInv, TypeOK, PassedInv, HandlerInv, NumberInv, SendingInv, Reply, F2,
         From, dns_mng, history
<1>9. AnswerIsFresh'
  BY DEF IInv, TypeOK, AnswerIsFresh, HandlerInv, PassedInv, SendingInv, F2,
         From, dns_mng, history
<1> QED BY <1>1, <1>2, <1>3, <1>4, <1>5, <1>6, <1>7, <1>8, <1>9 DEF IInv

LEMMA F2FreeInv == IInv /\ F2Free => IInv'
<1> SUFFICES ASSUME IInv, F2Free
             PROVE  IInv'
  OBVIOUS
<1>1. TypeOK'
  BY DnsAssumption
     DEF IInv, TypeOK, Steps, Procs, Waits, Reply, F2Free, From, Store,
         dns_mng, history
<1>2. HandlerInv'
  BY DEF IInv, TypeOK, HandlerInv, SendingInv, Procs, Waits, F2Free, From,
         Store, dns_mng, history
<1>3. BudgetInv'
  BY DnsAssumption
     DEF IInv, TypeOK, BudgetInv, HandlerInv, Allowed, ThisServer, OtherServer,
         NextQuery, F2Free, From, Store, dns_mng, history
<1>4. CallsBalance'
  BY DEF IInv, TypeOK, CallsBalance, HandlerInv, SendingInv, Procs, Waits,
         F2Free, From, Store, dns_mng, history
<1>5. SendingInv'
  BY DEF IInv, TypeOK, SendingInv, HandlerInv, Procs, Waits, F2Free, From,
         Store, dns_mng, history
<1>6. AnswerInv'
  BY DEF IInv, TypeOK, AnswerInv, HandlerInv, SuccessReachesAsker, F2Free,
         From, Store, dns_mng, history
<1>7. NumberInv'
  BY DEF IInv, TypeOK, NumberInv, HandlerInv, SendingInv, F2Free, From, Store,
         dns_mng, history
<1>8. PassedInv'
  BY DEF IInv, TypeOK, PassedInv, HandlerInv, NumberInv, SendingInv, Reply,
         F2Free, From, Store, dns_mng, history
<1>9. AnswerIsFresh'
  BY DEF IInv, TypeOK, AnswerIsFresh, HandlerInv, PassedInv, SendingInv,
         F2Free, From, Store, dns_mng, history
<1> QED BY <1>1, <1>2, <1>3, <1>4, <1>5, <1>6, <1>7, <1>8, <1>9 DEF IInv

LEMMA G2Inv == IInv /\ G2 => IInv'
<1> SUFFICES ASSUME IInv, G2
             PROVE  IInv'
  OBVIOUS
<1>1. TypeOK'
  BY DnsAssumption
     DEF IInv, TypeOK, Steps, Procs, Waits, Reply, G2, From, dns_mng, history
<1>2. HandlerInv'
  BY DEF IInv, TypeOK, HandlerInv, SendingInv, Procs, Waits, G2, From, dns_mng,
         history
<1>3. BudgetInv'
  BY DnsAssumption
     DEF IInv, TypeOK, BudgetInv, HandlerInv, Allowed, ThisServer, OtherServer,
         NextQuery, G2, From, dns_mng, history
<1>4. CallsBalance'
  BY DEF IInv, TypeOK, CallsBalance, HandlerInv, SendingInv, Procs, Waits, G2,
         From, dns_mng, history
<1>5. SendingInv'
  BY DEF IInv, TypeOK, SendingInv, HandlerInv, Procs, Waits, G2, From, dns_mng,
         history
<1>6. NumberInv'
  BY DEF IInv, TypeOK, NumberInv, HandlerInv, SendingInv, G2, From, dns_mng,
         history
<1>7. AnswerIsFresh'
  BY DEF IInv, TypeOK, AnswerIsFresh, HandlerInv, PassedInv, SendingInv, G2,
         From, dns_mng, history
<1>8. AnswerInv' /\ PassedInv'
  BY DEF IInv, AnswerInv, SuccessReachesAsker, PassedInv, G2, From, dns_mng,
         history
<1> QED BY <1>1, <1>2, <1>3, <1>4, <1>5, <1>6, <1>7, <1>8 DEF IInv

LEMMA G2WaitInv == IInv /\ G2Wait => IInv'
<1> SUFFICES ASSUME IInv, G2Wait
             PROVE  IInv'
  OBVIOUS
<1>1. TypeOK'
  BY DnsAssumption
     DEF IInv, TypeOK, Steps, Procs, Waits, Reply, G2Wait, From, Store,
         dns_mng, history
<1>2. HandlerInv'
  BY DEF IInv, TypeOK, HandlerInv, SendingInv, Procs, Waits, G2Wait, From,
         Store, dns_mng, history
<1>3. BudgetInv'
  BY DnsAssumption
     DEF IInv, TypeOK, BudgetInv, HandlerInv, Allowed, ThisServer, OtherServer,
         NextQuery, G2Wait, From, Store, dns_mng, history
<1>4. CallsBalance'
  BY DEF IInv, TypeOK, CallsBalance, HandlerInv, SendingInv, Procs, Waits,
         G2Wait, From, Store, dns_mng, history
<1>5. SendingInv'
  BY DEF IInv, TypeOK, SendingInv, HandlerInv, Procs, Waits, G2Wait, From,
         Store, dns_mng, history
<1>6. AnswerInv'
  BY DEF IInv, TypeOK, AnswerInv, HandlerInv, SuccessReachesAsker, G2Wait,
         From, Store, dns_mng, history
<1>7. NumberInv'
  BY DEF IInv, TypeOK, NumberInv, HandlerInv, SendingInv, G2Wait, From, Store,
         dns_mng, history
<1>8. PassedInv'
  BY DEF IInv, TypeOK, PassedInv, HandlerInv, NumberInv, SendingInv, Reply,
         G2Wait, From, Store, dns_mng, history
<1>9. AnswerIsFresh'
  BY DEF IInv, TypeOK, AnswerIsFresh, HandlerInv, PassedInv, SendingInv,
         G2Wait, From, Store, dns_mng, history
<1> QED BY <1>1, <1>2, <1>3, <1>4, <1>5, <1>6, <1>7, <1>8, <1>9 DEF IInv

LEMMA G2FreeInv == IInv /\ G2Free => IInv'
<1> SUFFICES ASSUME IInv, G2Free
             PROVE  IInv'
  OBVIOUS
<1>1. TypeOK'
  BY DnsAssumption
     DEF IInv, TypeOK, Steps, Procs, Waits, Reply, G2Free, From, Store,
         dns_mng, history
<1>2. HandlerInv'
  BY DEF IInv, TypeOK, HandlerInv, SendingInv, Procs, Waits, G2Free, From,
         Store, dns_mng, history
<1>3. BudgetInv'
  BY DnsAssumption
     DEF IInv, TypeOK, BudgetInv, HandlerInv, Allowed, ThisServer, OtherServer,
         NextQuery, G2Free, From, Store, dns_mng, history
<1>4. CallsBalance'
  BY DEF IInv, TypeOK, CallsBalance, HandlerInv, SendingInv, Procs, Waits,
         G2Free, From, Store, dns_mng, history
<1>5. SendingInv'
  BY DEF IInv, TypeOK, SendingInv, HandlerInv, Procs, Waits, G2Free, From,
         Store, dns_mng, history
<1>6. AnswerInv'
  BY DEF IInv, TypeOK, AnswerInv, HandlerInv, SuccessReachesAsker, G2Free,
         From, Store, dns_mng, history
<1>7. NumberInv'
  BY DEF IInv, TypeOK, NumberInv, HandlerInv, SendingInv, G2Free, From, Store,
         dns_mng, history
<1>8. PassedInv'
  BY DEF IInv, TypeOK, PassedInv, HandlerInv, NumberInv, SendingInv, Reply,
         G2Free, From, Store, dns_mng, history
<1>9. AnswerIsFresh'
  BY DEF IInv, TypeOK, AnswerIsFresh, HandlerInv, PassedInv, SendingInv,
         G2Free, From, Store, dns_mng, history
<1> QED BY <1>1, <1>2, <1>3, <1>4, <1>5, <1>6, <1>7, <1>8, <1>9 DEF IInv

LEMMA I2RetryInv == IInv /\ I2Retry => IInv'
<1> SUFFICES ASSUME IInv, I2Retry
             PROVE  IInv'
  OBVIOUS
<1>1. TypeOK'
  BY DnsAssumption
     DEF IInv, TypeOK, Steps, Procs, Waits, Reply, I2Retry, From, Store,
         dns_mng, history
<1>2. HandlerInv'
  BY DEF IInv, TypeOK, HandlerInv, SendingInv, Procs, Waits, I2Retry, From,
         Store, dns_mng, history
<1>3. BudgetInv'
  BY DnsAssumption
     DEF IInv, TypeOK, BudgetInv, HandlerInv, Allowed, ThisServer, OtherServer,
         NextQuery, I2Retry, From, Store, dns_mng, history
<1>4. CallsBalance'
  BY DEF IInv, TypeOK, CallsBalance, HandlerInv, SendingInv, Procs, Waits,
         I2Retry, From, Store, dns_mng, history
<1>5. SendingInv'
  BY DEF IInv, TypeOK, SendingInv, HandlerInv, Procs, Waits, I2Retry, From,
         Store, dns_mng, history
<1>6. AnswerInv'
  BY DEF IInv, TypeOK, AnswerInv, HandlerInv, SuccessReachesAsker, I2Retry,
         From, Store, dns_mng, history
<1>7. NumberInv'
  BY DEF IInv, TypeOK, NumberInv, HandlerInv, SendingInv, I2Retry, From, Store,
         dns_mng, history
<1>8. PassedInv'
  BY DEF IInv, TypeOK, PassedInv, HandlerInv, NumberInv, SendingInv, Reply,
         I2Retry, From, Store, dns_mng, history
<1>9. AnswerIsFresh'
  BY DEF IInv, TypeOK, AnswerIsFresh, HandlerInv, PassedInv, SendingInv,
         I2Retry, From, Store, dns_mng, history
<1> QED BY <1>1, <1>2, <1>3, <1>4, <1>5, <1>6, <1>7, <1>8, <1>9 DEF IInv

LEMMA I2SecondaryInv == IInv /\ I2Secondary => IInv'
<1> SUFFICES ASSUME IInv, I2Secondary
             PROVE  IInv'
  OBVIOUS
<1>1. TypeOK'
  BY DnsAssumption
     DEF IInv, TypeOK, Steps, Procs, Waits, Reply, I2Secondary, From, dns_mng,
         history
<1>2. HandlerInv'
  BY DEF IInv, TypeOK, HandlerInv, SendingInv, Procs, Waits, I2Secondary, From,
         dns_mng, history
<1>3. BudgetInv'
  BY DnsAssumption
     DEF IInv, TypeOK, BudgetInv, HandlerInv, Allowed, ThisServer, OtherServer,
         NextQuery, I2Secondary, From, dns_mng, history
<1>4. CallsBalance'
  BY DEF IInv, TypeOK, CallsBalance, HandlerInv, SendingInv, Procs, Waits,
         I2Secondary, From, dns_mng, history
<1>5. SendingInv'
  BY DEF IInv, TypeOK, SendingInv, HandlerInv, Procs, Waits, I2Secondary, From,
         dns_mng, history
<1>6. AnswerInv'
  BY DEF IInv, TypeOK, AnswerInv, HandlerInv, SuccessReachesAsker, I2Secondary,
         From, dns_mng, history
<1>7. NumberInv'
  BY DEF IInv, TypeOK, NumberInv, HandlerInv, SendingInv, I2Secondary, From,
         dns_mng, history
<1>8. PassedInv'
  BY DEF IInv, TypeOK, PassedInv, HandlerInv, NumberInv, SendingInv, Reply,
         I2Secondary, From, dns_mng, history
<1>9. AnswerIsFresh'
  BY DEF IInv, TypeOK, AnswerIsFresh, HandlerInv, PassedInv, SendingInv,
         I2Secondary, From, dns_mng, history
<1> QED BY <1>1, <1>2, <1>3, <1>4, <1>5, <1>6, <1>7, <1>8, <1>9 DEF IInv

LEMMA I2GiveUpInv == IInv /\ I2GiveUp => IInv'
<1> SUFFICES ASSUME IInv, I2GiveUp
             PROVE  IInv'
  OBVIOUS
<1>1. TypeOK'
  BY DnsAssumption
     DEF IInv, TypeOK, Steps, Procs, Waits, Reply, I2GiveUp, From, Store,
         dns_mng, history
<1>2. HandlerInv'
  BY DEF IInv, TypeOK, HandlerInv, SendingInv, Procs, Waits, I2GiveUp, From,
         Store, dns_mng, history
<1>3. BudgetInv'
  BY DnsAssumption
     DEF IInv, TypeOK, BudgetInv, HandlerInv, Allowed, ThisServer, OtherServer,
         NextQuery, I2GiveUp, From, Store, dns_mng, history
<1>4. CallsBalance'
  BY DEF IInv, TypeOK, CallsBalance, HandlerInv, SendingInv, Procs, Waits,
         I2GiveUp, From, Store, dns_mng, history
<1>5. SendingInv'
  BY DEF IInv, TypeOK, SendingInv, HandlerInv, Procs, Waits, I2GiveUp, From,
         Store, dns_mng, history
<1>6. AnswerInv'
  BY DEF IInv, TypeOK, AnswerInv, HandlerInv, SuccessReachesAsker, I2GiveUp,
         From, Store, dns_mng, history
<1>7. NumberInv'
  BY DEF IInv, TypeOK, NumberInv, HandlerInv, SendingInv, I2GiveUp, From,
         Store, dns_mng, history
<1>8. PassedInv'
  BY DEF IInv, TypeOK, PassedInv, HandlerInv, NumberInv, SendingInv, Reply,
         I2GiveUp, From, Store, dns_mng, history
<1>9. AnswerIsFresh'
  BY DEF IInv, TypeOK, AnswerIsFresh, HandlerInv, PassedInv, SendingInv,
         I2GiveUp, From, Store, dns_mng, history
<1> QED BY <1>1, <1>2, <1>3, <1>4, <1>5, <1>6, <1>7, <1>8, <1>9 DEF IInv

LEMMA ReportInv == IInv /\ Report => IInv'
<1> SUFFICES ASSUME IInv, Report
             PROVE  IInv'
  OBVIOUS
<1>1. TypeOK'
  BY DnsAssumption
     DEF IInv, TypeOK, Steps, Procs, Waits, Reply, Report, From, dns_mng,
         history
<1>2. HandlerInv'
  BY DEF IInv, TypeOK, HandlerInv, SendingInv, Procs, Waits, Report, From,
         dns_mng, history
<1>3. BudgetInv'
  BY DnsAssumption
     DEF IInv, TypeOK, BudgetInv, HandlerInv, Allowed, ThisServer, OtherServer,
         NextQuery, Report, From, dns_mng, history
<1>4. CallsBalance'
  BY DEF IInv, TypeOK, CallsBalance, HandlerInv, SendingInv, Procs, Waits,
         Report, From, dns_mng, history
<1>5. SendingInv'
  BY DEF IInv, TypeOK, SendingInv, HandlerInv, Procs, Waits, Report, From,
         dns_mng, history
<1>6. NumberInv'
  BY DEF IInv, TypeOK, NumberInv, HandlerInv, SendingInv, Report, From,
         dns_mng, history
<1>7. AnswerIsFresh'
  BY DEF IInv, TypeOK, AnswerIsFresh, HandlerInv, PassedInv, SendingInv,
         Report, From, dns_mng, history
<1>8. AnswerInv' /\ PassedInv'
  BY DEF IInv, AnswerInv, SuccessReachesAsker, PassedInv, Report, From,
         dns_mng, history
<1> QED BY <1>1, <1>2, <1>3, <1>4, <1>5, <1>6, <1>7, <1>8 DEF IInv

LEMMA ResolveNameInv == IInv /\ ResolveName => IInv'
<1> SUFFICES ASSUME IInv, ResolveName
             PROVE  IInv'
  OBVIOUS
<1>1. TypeOK'
  <2>1. asked' \in Nat /\ request' \in Nat
    BY DEF IInv, TypeOK, ResolveName
  <2>2. tries' \in Nat /\ proc' \in Procs
    BY DEF IInv, TypeOK, ResolveName, Procs, Waits
  <2>3. retry_cnt' \in Nat
    BY DnsAssumption DEF ResolveName
  <2> QED
    BY <2>1, <2>2, <2>3
       DEF IInv, TypeOK, ResolveName
<1>2. HandlerInv'
  BY DEF IInv, TypeOK, HandlerInv, SendingInv, Procs, Waits, ResolveName,
         dns_mng, history
<1>3. BudgetInv'
  <2>1. NextQuery' = 1 /\ tries' = 0 /\ retry_cnt' = DNS_ERROR_COUNT
    BY DEF IInv, TypeOK, HandlerInv, NextQuery, ResolveName
  <2>2. /\ OtherServer \in Nat /\ NextQuery \in Nat
        /\ OtherServer' = DNS_ERROR_COUNT + 1
    BY DnsAssumption DEF OtherServer, NextQuery, ResolveName
  <2> QED
    BY <2>1, <2>2, DnsAssumption
       DEF IInv, TypeOK, BudgetInv, Allowed, ThisServer
<1>4. CallsBalance'
  <2>1. asked' = asked + 1 /\ calls' = calls /\ main' = main
    BY DEF ResolveName
  <2>2. proc = "UNRECEIVED" /\ proc' = "INIT" /\ main # "called"
    BY DEF IInv, HandlerInv, ResolveName
  <2>3. CASE main = "report"
    BY <2>1, <2>2, <2>3 DEF IInv, TypeOK, CallsBalance
  <2>4. CASE main # "report"
    BY <2>1, <2>2, <2>4 DEF IInv, TypeOK, CallsBalance
  <2> QED BY <2>3, <2>4
<1>5. SendingInv'
  BY DEF IInv, TypeOK, SendingInv, HandlerInv, Procs, Waits, ResolveName,
         dns_mng, history
<1>6. AnswerInv'
  BY DEF IInv, TypeOK, AnswerInv, HandlerInv, SuccessReachesAsker, ResolveName,
         dns_mng, history
<1>7. NumberInv'
  <2>1. asked' = asked + 1 /\ request' = asked' /\ done' = done
    BY DEF ResolveName
  <2>2. \A d \in done : d \in Nat /\ 1 <= d /\ d <= asked
    BY DEF IInv, TypeOK, NumberInv
  <2>3. \A d \in done' : 1 <= d /\ d <= asked'
    BY <2>1, <2>2 DEF IInv, TypeOK
  <2>4. request' \notin done' /\ request' >= 1
    BY <2>1, <2>2 DEF IInv, TypeOK
  <2> QED BY <2>1, <2>3, <2>4 DEF NumberInv
<1>8. PassedInv'
  <2>1. asked' = asked + 1 /\ replies' = replies /\ done' = done
        /\ TRANSACTION_ID' = TRANSACTION_ID /\ proc' = "INIT" /\ spent' = spent
    BY DEF ResolveName
  <2>2. \A r \in replies : r.at \in Nat /\ r.of \in Nat
    BY DEF IInv, TypeOK, Reply
  <2> QED BY <2>1, <2>2 DEF IInv, TypeOK, PassedInv
<1>9. AnswerIsFresh'
  BY DEF IInv, TypeOK, AnswerIsFresh, HandlerInv, PassedInv, SendingInv,
         ResolveName, dns_mng, history
<1> QED BY <1>1, <1>2, <1>3, <1>4, <1>5, <1>6, <1>7, <1>8, <1>9 DEF IInv

LEMMA TickInv == IInv /\ Tick => IInv'
<1> SUFFICES ASSUME IInv, Tick
             PROVE  IInv'
  OBVIOUS
<1>1. TypeOK'
  <2>1. timer' \in Nat
    BY DEF IInv, TypeOK, Tick
  <2> QED
    BY <2>1
       DEF IInv, TypeOK, Tick, dns_mng, history
<1>2. /\ HandlerInv' /\ BudgetInv' /\ CallsBalance' /\ SendingInv'
      /\ AnswerInv' /\ NumberInv' /\ PassedInv' /\ AnswerIsFresh'
  BY DEF IInv, HandlerInv, BudgetInv, Allowed, ThisServer, OtherServer,
         NextQuery, CallsBalance, SendingInv, AnswerInv, SuccessReachesAsker,
         NumberInv, PassedInv, AnswerIsFresh, Tick, dns_mng, history
<1> QED BY <1>1, <1>2 DEF IInv

LEMMA SendCompletedInv == IInv /\ SendCompleted => IInv'
<1> SUFFICES ASSUME IInv, SendCompleted
             PROVE  IInv'
  OBVIOUS
<1>1. TypeOK'
  <2>1. [id |-> TRANSACTION_ID, of |-> request, at |-> spent] \in Reply
    BY DEF IInv, TypeOK, SendCompleted, Reply
  <2>2. replies' \in SUBSET Reply
    BY <2>1 DEF IInv, TypeOK, SendCompleted
  <2>3. proc' \in Procs /\ timer' \in Nat /\ hung' \in {"no", "state"}
    BY DEF IInv, TypeOK, SendCompleted, ExpectedIn, Procs, Waits
  <2> QED
    BY <2>1, <2>2, <2>3
       DEF IInv, TypeOK, SendCompleted, history
<1>2. HandlerInv'
  BY DEF IInv, TypeOK, HandlerInv, SendingInv, Procs, Waits, SendCompleted,
         ExpectedIn, dns_mng, history
<1>3. BudgetInv'
  BY DnsAssumption
     DEF IInv, TypeOK, BudgetInv, HandlerInv, Allowed, ThisServer, OtherServer,
         NextQuery, SendCompleted, ExpectedIn, dns_mng, history
<1>4. CallsBalance'
  BY DEF IInv, TypeOK, CallsBalance, HandlerInv, SendingInv, Procs, Waits,
         SendCompleted, ExpectedIn, dns_mng, history
<1>5. SendingInv'
  BY DEF IInv, TypeOK, SendingInv, HandlerInv, Procs, Waits, SendCompleted,
         ExpectedIn, dns_mng, history
<1>6. AnswerInv'
  BY DEF IInv, TypeOK, AnswerInv, HandlerInv, SuccessReachesAsker,
         SendCompleted, ExpectedIn, dns_mng, history
<1>7. NumberInv'
  BY DEF IInv, TypeOK, NumberInv, HandlerInv, SendingInv, SendCompleted,
         ExpectedIn, dns_mng, history
<1>8. PassedInv'
  <2> DEFINE new == [id |-> TRANSACTION_ID, of |-> request, at |-> spent]
  <2>1. request \notin done /\ proc # "FINISH" /\ proc' # "FINISH"
    BY DEF IInv, NumberInv, SendingInv, HandlerInv, SendCompleted
  <2>2. replies' = replies \/ replies' = replies \cup {new}
    BY DEF SendCompleted
  <2>3. /\ TRANSACTION_ID' = TRANSACTION_ID /\ spent' = spent
        /\ asked' = asked /\ done' = done
    BY DEF SendCompleted, history
  <2>4. /\ new.at <= spent /\ new.of <= asked /\ new.of \notin done
        /\ TRANSACTION_ID = Later(new.id, spent - new.at)
    BY <2>1, DnsAssumption DEF IInv, TypeOK, NumberInv, Later
  <2> HIDE DEF new
  <2> QED BY <2>1, <2>2, <2>3, <2>4 DEF IInv, PassedInv
<1>9. AnswerIsFresh'
  BY DEF IInv, TypeOK, AnswerIsFresh, HandlerInv, PassedInv, SendingInv,
         SendCompleted, ExpectedIn, dns_mng, history
<1> QED BY <1>1, <1>2, <1>3, <1>4, <1>5, <1>6, <1>7, <1>8, <1>9 DEF IInv

LEMMA ArpTimeoutInv == IInv /\ ArpTimeout => IInv'
<1> SUFFICES ASSUME IInv, ArpTimeout
             PROVE  IInv'
  OBVIOUS
<1>1. TypeOK'
  <2>1. proc' \in Procs /\ retry_cnt' \in Nat
    BY DEF IInv, TypeOK, ArpTimeout, Procs, Waits, ExpectedIn
  <2>2. hung' \in {"no", "state"}
    BY DEF IInv, TypeOK, ArpTimeout, ExpectedIn
  <2> QED
    BY <2>1, <2>2
       DEF IInv, TypeOK, ArpTimeout, history
<1>2. HandlerInv'
  BY DEF IInv, TypeOK, HandlerInv, SendingInv, Procs, Waits, ArpTimeout,
         ExpectedIn, dns_mng, history
<1>3. BudgetInv'
  <2>1. tries' = tries /\ (retry_cnt' = retry_cnt \/ retry_cnt' = 0)
    BY DEF ArpTimeout, history
  <2>2. NextQuery' <= NextQuery /\ NextQuery \in Nat /\ NextQuery' \in Nat
    BY DEF NextQuery, ArpTimeout
  <2>3. OtherServer \in Nat /\ OtherServer' = OtherServer
    BY DnsAssumption DEF OtherServer, ArpTimeout
  <2> QED
    BY <2>1, <2>2, <2>3, DnsAssumption
       DEF IInv, TypeOK, BudgetInv, Allowed, ThisServer
<1>4. CallsBalance'
  BY DEF IInv, TypeOK, CallsBalance, HandlerInv, SendingInv, Procs, Waits,
         ArpTimeout, ExpectedIn, dns_mng, history
<1>5. SendingInv'
  BY DEF IInv, TypeOK, SendingInv, HandlerInv, Procs, Waits, ArpTimeout,
         ExpectedIn, dns_mng, history
<1>6. AnswerInv'
  BY DEF IInv, TypeOK, AnswerInv, HandlerInv, SuccessReachesAsker, ArpTimeout,
         ExpectedIn, dns_mng, history
<1>7. NumberInv'
  BY DEF IInv, TypeOK, NumberInv, HandlerInv, SendingInv, ArpTimeout,
         ExpectedIn, dns_mng, history
<1>8. PassedInv'
  BY DEF IInv, TypeOK, PassedInv, HandlerInv, NumberInv, SendingInv, Reply,
         ArpTimeout, ExpectedIn, dns_mng, history
<1>9. AnswerIsFresh'
  BY DEF IInv, TypeOK, AnswerIsFresh, HandlerInv, PassedInv, SendingInv,
         ArpTimeout, ExpectedIn, dns_mng, history
<1> QED BY <1>1, <1>2, <1>3, <1>4, <1>5, <1>6, <1>7, <1>8, <1>9 DEF IInv

LEMMA CancelCompletedInv == IInv /\ CancelCompleted => IInv'
<1> SUFFICES ASSUME IInv, CancelCompleted
             PROVE  IInv'
  OBVIOUS
<1>1. TypeOK'
  BY DnsAssumption
     DEF IInv, TypeOK, Steps, Procs, Waits, Reply, CancelCompleted, ExpectedIn,
         dns_mng, history
<1>2. HandlerInv'
  BY DEF IInv, TypeOK, HandlerInv, SendingInv, Procs, Waits, CancelCompleted,
         ExpectedIn, dns_mng, history
<1>3. BudgetInv'
  BY DnsAssumption
     DEF IInv, TypeOK, BudgetInv, HandlerInv, Allowed, ThisServer, OtherServer,
         NextQuery, CancelCompleted, ExpectedIn, dns_mng, history
<1>4. CallsBalance'
  BY DEF IInv, TypeOK, CallsBalance, HandlerInv, SendingInv, Procs, Waits,
         CancelCompleted, ExpectedIn, dns_mng, history
<1>5. SendingInv'
  BY DEF IInv, TypeOK, SendingInv, HandlerInv, Procs, Waits, CancelCompleted,
         ExpectedIn, dns_mng, history
<1>6. AnswerInv'
  BY DEF IInv, TypeOK, AnswerInv, HandlerInv, SuccessReachesAsker,
         CancelCompleted, ExpectedIn, dns_mng, history
<1>7. NumberInv'
  BY DEF IInv, TypeOK, NumberInv, HandlerInv, SendingInv, CancelCompleted,
         ExpectedIn, dns_mng, history
<1>8. PassedInv'
  BY DEF IInv, TypeOK, PassedInv, HandlerInv, NumberInv, SendingInv, Reply,
         CancelCompleted, ExpectedIn, dns_mng, history
<1>9. AnswerIsFresh'
  BY DEF IInv, TypeOK, AnswerIsFresh, HandlerInv, PassedInv, SendingInv,
         CancelCompleted, ExpectedIn, dns_mng, history
<1> QED BY <1>1, <1>2, <1>3, <1>4, <1>5, <1>6, <1>7, <1>8, <1>9 DEF IInv

LEMMA ReceiveInv ==
  ASSUME NEW r \in replies,
         NEW kind \in {"answer", "empty", "refused", "unknown"},
         IInv, Receive(r, kind)
  PROVE  IInv'
<1>1. TypeOK'
  <2>1. replies' \in SUBSET Reply /\ hung' \in {"no", "endpoint", "answer"}
    BY DEF IInv, TypeOK, Receive, E4, NextId, Answers
  <2>2. proc' \in Procs /\ retry_cnt' \in Nat
    BY DEF IInv, TypeOK, Procs, Waits, Receive, E4, NextId, Answers
  <2>3. TRANSACTION_ID' \in 0 .. Ids - 1 /\ spent' \in Nat
    BY DnsAssumption DEF IInv, TypeOK, Receive, E4, NextId, IdAfter
  <2>4. name_table' \in [of : Nat, to : Nat, age : Nat]
    <3>1. r.of \in Nat /\ spent - r.at \in Nat
      BY DEF IInv, TypeOK, Reply, PassedInv
    <3> QED BY <3>1 DEF IInv, TypeOK, Receive, E4
  <2> QED
    BY <2>1, <2>2, <2>3, <2>4 DEF IInv, TypeOK, Receive, history
<1>2. HandlerInv'
  BY DEF IInv, TypeOK, HandlerInv, SendingInv, Procs, Waits, Receive, E4,
         NextId, Answers, dns_mng, history
<1>3. BudgetInv'
  <2>1. retry_cnt' = retry_cnt \/ retry_cnt' = 0
    BY DEF Receive, E4
  <2>2. NextQuery' <= NextQuery /\ NextQuery \in Nat /\ NextQuery' \in Nat
    BY DEF NextQuery, Receive, E4
  <2>3. OtherServer \in Nat /\ OtherServer' = OtherServer /\ tries' = tries
    BY DnsAssumption DEF OtherServer, Receive, history
  <2> QED
    BY <2>1, <2>2, <2>3, DnsAssumption
       DEF IInv, TypeOK, BudgetInv, Allowed, ThisServer
<1>4. CallsBalance'
  BY DEF IInv, TypeOK, CallsBalance, HandlerInv, SendingInv, Procs, Waits,
         Receive, E4, NextId, Answers, dns_mng, history
<1>5. SendingInv'
  BY DEF IInv, TypeOK, SendingInv, HandlerInv, Procs, Waits, Receive, E4,
         NextId, Answers, dns_mng, history
<1>6. AnswerInv'
  <2>1. last' = last /\ request' = request
    BY DEF Receive, history
  <2>2. CASE proc = "RECEIVING" /\ request # 0
    BY <2>1, <2>2 DEF IInv, TypeOK, AnswerInv, SuccessReachesAsker, Receive, E4
  <2>3. CASE ~ (proc = "RECEIVING" /\ request # 0)
    BY <2>1, <2>3 DEF IInv, AnswerInv, SuccessReachesAsker, Receive
  <2> QED BY <2>2, <2>3
<1>7. NumberInv'
  BY DEF IInv, TypeOK, NumberInv, HandlerInv, SendingInv, Receive, E4, NextId,
         Answers, dns_mng, history
<1>8. PassedInv'
  <2>1. replies' \subseteq replies /\ asked' = asked /\ done' = done
    BY DEF Receive
  <2>2. \A q \in replies : q.id \in 0 .. Ids - 1 /\ q.at \in Nat /\ q.of \in Nat
    BY DEF IInv, TypeOK, Reply
  <2>3. CASE TRANSACTION_ID' = IdAfter(TRANSACTION_ID) /\ spent' = spent + 1
    <3> SUFFICES ASSUME NEW q \in replies'
                 PROVE  /\ q.at < spent' /\ q.of <= asked'
                        /\ q.of # 0 /\ spent' - q.at < Ids =>
                             TRANSACTION_ID' = Later(q.id, spent' - q.at)
      BY <2>1, <2>2, <2>3 DEF IInv, TypeOK, PassedInv
    <3>1. q \in replies /\ q.at <= spent /\ q.of <= asked
      BY <2>1 DEF IInv, PassedInv
    <3>2. q.at < spent' /\ q.of <= asked' /\ spent' - q.at = (spent - q.at) + 1
      BY <2>1, <2>2, <2>3, <3>1 DEF IInv, TypeOK
    <3>3. ASSUME q.of # 0, spent' - q.at < Ids
          PROVE  TRANSACTION_ID' = Later(q.id, spent' - q.at)
      <4>1. spent - q.at \in Nat /\ spent - q.at < Ids
        BY <2>2, <3>1, <3>2, <3>3, DnsAssumption DEF IInv, TypeOK
      <4>2. TRANSACTION_ID = Later(q.id, spent - q.at)
        BY <3>1, <3>3, <4>1 DEF IInv, PassedInv
      <4> QED BY <2>2, <2>3, <3>1, <3>2, <3>3, <4>1, <4>2, LaterSteps
    <3> QED BY <3>2, <3>3
  <2>4. CASE /\ TRANSACTION_ID' = TRANSACTION_ID /\ spent' = spent
             /\ proc' = "FINISH" => proc = "FINISH"
    BY <2>1, <2>2, <2>4 DEF IInv, TypeOK, PassedInv
  <2>5. \/ TRANSACTION_ID' = IdAfter(TRANSACTION_ID) /\ spent' = spent + 1
        \/ /\ TRANSACTION_ID' = TRANSACTION_ID /\ spent' = spent
           /\ proc' = "FINISH" => proc = "FINISH"
    BY DEF IInv, TypeOK, Receive, E4, NextId, Answers
  <2> QED BY <2>3, <2>4, <2>5
<1>9. AnswerIsFresh'
  <2>1. main' = main /\ done' = done
    BY DEF Receive
  <2>2. CASE proc = "RECEIVING" /\ request # 0
    <3>1. CASE Answers(r, kind)
      <4>1. name_table'.of = r.of /\ name_table'.age = spent - r.at
        BY <2>2, <3>1 DEF Receive, E4
      <4>2. /\ r.id = TRANSACTION_ID /\ r.id \in 0 .. Ids - 1
            /\ r.at \in Nat /\ spent \in Nat /\ r.at <= spent
        BY <3>1 DEF IInv, TypeOK, Reply, Answers, Matches, PassedInv
      <4>3. ASSUME spent - r.at < Ids, r.of \in done
            PROVE  FALSE
        <5>1. r.of # 0 /\ r.at < spent
          BY <4>3 DEF IInv, NumberInv, PassedInv
        <5>2. r.id = Later(r.id, spent - r.at)
          BY <4>2, <4>3, <5>1 DEF IInv, PassedInv
        <5>3. spent - r.at \in Nat
          BY <4>2
        <5>4. spent - r.at = 0
          BY <4>2, <4>3, <5>2, <5>3, LaterSteps
        <5> QED BY <4>2, <5>1, <5>4
      <4> QED BY <2>1, <4>1, <4>3 DEF AnswerIsFresh
    <3>2. CASE ~ Answers(r, kind)
      <4>1. proc' = "CANCELLED"
        BY <2>2, <3>2 DEF Receive, E4
      <4> QED BY <4>1 DEF AnswerIsFresh
    <3> QED BY <3>1, <3>2
  <2>3. CASE ~ (proc = "RECEIVING" /\ request # 0)
    BY <2>1, <2>3 DEF IInv, AnswerIsFresh, Receive
  <2> QED BY <2>2, <2>3
<1> QED BY <1>1, <1>2, <1>3, <1>4, <1>5, <1>6, <1>7, <1>8, <1>9 DEF IInv

LEMMA StutterInv == IInv /\ UNCHANGED vars => IInv'
<1> SUFFICES ASSUME IInv, UNCHANGED vars
             PROVE  IInv'
  OBVIOUS
<1>1. TypeOK'
  BY DEF IInv, TypeOK, vars, dns_mng, history
<1>2. HandlerInv' /\ SendingInv' /\ CallsBalance'
  BY DEF IInv, HandlerInv, SendingInv, CallsBalance, vars, dns_mng, history
<1>3. BudgetInv'
  BY DEF IInv, BudgetInv, Allowed, ThisServer, OtherServer, NextQuery, vars,
         dns_mng, history
<1>4. AnswerInv' /\ NumberInv' /\ PassedInv' /\ AnswerIsFresh'
  BY DEF IInv, AnswerInv, SuccessReachesAsker, NumberInv, PassedInv,
         AnswerIsFresh, vars, dns_mng, history
<1> QED BY <1>1, <1>2, <1>3, <1>4 DEF IInv

LEMMA NextInv == IInv /\ [Next]_vars => IInv'
<1>1. IInv /\ Main => IInv'
  BY ProcessInv, B2Inv, C2Inv, C2SentInv, C2RefusedInv, D2Inv, D2LateInv,
     E2Inv, E2LateInv, H2Inv, H2LateInv, F2Inv, F2FreeInv, G2Inv, G2WaitInv,
     G2FreeInv, I2RetryInv, I2SecondaryInv, I2GiveUpInv, ReportInv DEF Main
<1>2. IInv /\ Interrupt => IInv'
  BY ResolveNameInv, SendCompletedInv, ArpTimeoutInv, CancelCompletedInv,
     ReceiveInv DEF Interrupt
<1> QED BY <1>1, <1>2, TickInv, StutterInv DEF Next

(* The inductive invariant holds throughout every behaviour of the client. *)
THEOREM Invariance == Spec => []IInv
BY InitInv, NextInv, PTL DEF Spec

(* Every variable keeps its type; retry_cnt never wraps below zero.        *)
THEOREM TypeCorrect == Spec => []TypeOK
<1>1. IInv => TypeOK
  BY DEF IInv
<1> QED BY <1>1, Invariance, PTL

(* No mixture of timeouts, cancels, refusals and responses makes a request *)
(* put more than DNS_ERROR_COUNT + 1 queries to each of the two servers.   *)
THEOREM QueriesAreBounded == Spec => []TriesBounded
<1>1. IInv => TriesBounded
  BY DnsAssumption
     DEF IInv, TypeOK, BudgetInv, Allowed, ThisServer, OtherServer, NextQuery,
         TriesBounded
<1> QED BY <1>1, Invariance, PTL

(* The client makes exactly one call for every request it accepts, the     *)
(* calls still owed being told by proc and by the handler being run.       *)
THEOREM OneCallPerRequest == Spec => []CallsBalance
<1>1. IInv => CallsBalance
  BY DEF IInv
<1> QED BY <1>1, Invariance, PTL

(* A successful call goes to the function of the request the answer was    *)
(* read for.                                                               *)
THEOREM AnswersReachTheirRequest == Spec => []SuccessReachesAsker
<1>1. IInv => SuccessReachesAsker
  BY DEF IInv, AnswerInv
<1> QED BY <1>1, Invariance, PTL

(* No late or repeated reply to a request that has been answered is ever   *)
(* delivered as the answer to another one, as the identifier has passed,   *)
(* also after it has wrapped, unless the reply has been under way while    *)
(* all Ids values of it were spent (receive_dns_response).                 *)
THEOREM AnswersAreFresh == Spec => []AnswerIsFresh
<1>1. IInv => AnswerIsFresh
  BY DEF IInv
<1> QED BY <1>1, Invariance, PTL

================================================================================
