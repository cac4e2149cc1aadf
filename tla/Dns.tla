---------------------------------- MODULE Dns ----------------------------------
(***************************************************************************)
(* The DNS client (r_t4_dns_client_rx/src/r_dns_client.c).                 *)
(*                                                                         *)
(* The main program calls R_dns_process over and over; it looks proc up in *)
(* dns_proc_table and runs the handler of the periodic event.  The TCP/IP  *)
(* library calls dns_callback from its interrupts, and the HTTP server     *)
(* calls R_dns_resolve_name from them: both run to their end between two   *)
(* steps of the main program, which are therefore split where a handler    *)
(* reads what it acts upon later: the table look-up, get_timer, and the    *)
(* return of udp_snd_dat and udp_can_cep.                                  *)
(***************************************************************************)
EXTENDS Integers

CONSTANTS
  DNS_ERROR_COUNT,  \* repetitions of a query per server
  DNS_TIMEOUT,      \* ticks the client waits for each event
  Ids,              \* how many values TRANSACTION_ID has (2^16, uint16_t)
  MaxRequests,      \* bound: names the application resolves
  MaxSpent          \* bound: identifiers spent, one by each response read

ASSUME DnsAssumption ==
  /\ DNS_ERROR_COUNT \in Nat /\ DNS_TIMEOUT \in Nat
  /\ Ids \in Nat \ {0} /\ MaxRequests \in Nat /\ MaxSpent \in Nat

VARIABLES
  proc,        \* dns_mng.proc
  dns_select,  \* dns_mng.dns_select
  retry_cnt,   \* dns_mng.retry_cnt
  request,     \* whose name, cb_func and cepid dns_mng holds; 0: none yet
  TRANSACTION_ID,
  name_table,  \* whose name was answered, who was asking, and how many
               \* identifiers had been spent since the answered query
  timer,       \* wait_timer (t4_driver.c)
  main,        \* the handler R_dns_process is in, or the step of it
  endpoint,    \* what the UDP endpoint owes: nothing, a send, a cancel
  replies,     \* replies of the servers in the network: identifier, whose
               \* name, identifiers spent before the query
  hung,        \* a handler of the interrupts never returns
  asked, calls, done, last, tries,  \* requests accepted, calls of cb_func,
                                    \* requests with a successful call, that
                                    \* call, queries of this request
  spent                             \* identifiers spent, without the wrap

dns_mng == <<proc, dns_select, retry_cnt, request>>
history == <<asked, calls, done, last, tries, spent>>
vars == <<dns_mng, TRANSACTION_ID, name_table, timer, main, endpoint, replies,
          hung, history>>

Waits == {"SENDING", "RECEIVING", "CANCELLING_WAIT"}
Procs == Waits \cup {"UNRECEIVED", "INIT", "START", "FINISH", "CANCELLING",
                     "CANCELLED"}

(* A reply to a query sent before the board restarted may still arrive,    *)
(* with any identifier; 0 stands for whoever asked then.                   *)
Init ==
  /\ proc = "UNRECEIVED" /\ dns_select = "PRIMARY"
  /\ retry_cnt = DNS_ERROR_COUNT /\ request = 0
  /\ TRANSACTION_ID = 0 /\ name_table = [of |-> 0, to |-> 0, age |-> 0]
  /\ timer = 0 /\ main = "loop" /\ endpoint = "idle"
  /\ hung = "no"
  /\ \/ replies = {}
     \/ \E i \in 0 .. Ids - 1 : replies = {[id |-> i, of |-> 0, at |-> 0]}
  /\ asked = 0 /\ calls = 0 /\ done = {} /\ tries = 0 /\ spent = 0
  /\ last = [asker |-> 0, to |-> 0]

-----------------------------------------------------------------------------
(* The main program: R_dns_process and the handlers of the periodic event. *)
From(a, b) == hung = "no" /\ main = a /\ main' = b

(* proc is read here and may have changed when the handler runs.           *)
Process ==
  /\ proc # "UNRECEIVED" /\ From("loop", proc)
  /\ UNCHANGED <<dns_mng, TRANSACTION_ID, name_table, timer, endpoint,
                 replies, hung, history>>

Store(p) ==
  /\ proc' = p
  /\ UNCHANGED <<dns_select, request, TRANSACTION_ID, name_table, endpoint,
                 replies, hung, history>>

B2 == From("INIT", "loop") /\ Store("START") /\ UNCHANGED <<retry_cnt, timer>>

(* udp_snd_dat takes the query (E_WBLK) unless the endpoint still owes a   *)
(* callback, or refuses it for a reason of its own.                        *)
send_dns_request(taken) ==
  IF taken THEN endpoint = "idle" /\ endpoint' = "sending"
           ELSE UNCHANGED endpoint

C2 ==
  /\ \E taken \in BOOLEAN :
       /\ From("START", IF taken THEN "sent" ELSE "refused")
       /\ send_dns_request(taken)
  /\ timer' = 0 /\ tries' = tries + 1
  /\ UNCHANGED <<dns_mng, TRANSACTION_ID, name_table, replies, hung, asked,
                 calls, done, last, spent>>

C2Sent ==
  From("sent", "loop") /\ Store("SENDING") /\ UNCHANGED <<retry_cnt, timer>>

C2Refused ==
  From("refused", "loop") /\ Store("CANCELLED") /\ retry_cnt' = 0
  /\ UNCHANGED timer

(* D2, E2 and H2 read the timer, compare, and store proc when it is late.  *)
Poll(wait, late) ==
  /\ IF timer > DNS_TIMEOUT THEN From(wait, late) ELSE From(wait, "loop")
  /\ UNCHANGED <<dns_mng, TRANSACTION_ID, name_table, timer, endpoint,
                 replies, hung, history>>

D2 == Poll("SENDING", "D2 late")

D2Late ==
  From("D2 late", "loop") /\ Store("CANCELLING")
  /\ UNCHANGED <<retry_cnt, timer>>

(* Mutant: waits for the response without a limit. *)
E2Forever == Poll("RECEIVING", "loop")

E2 == Poll("RECEIVING", "E2 late")

E2Late ==
  From("E2 late", "loop") /\ Store("CANCELLED")
  /\ UNCHANGED <<retry_cnt, timer>>

H2 == Poll("CANCELLING_WAIT", "H2 late")

H2Late ==
  From("H2 late", "loop") /\ Store("CANCELLED") /\ retry_cnt' = 0
  /\ UNCHANGED timer

(* cb_func(E_OK, &name_table), then the client is free.                    *)
F2 ==
  /\ From("FINISH", "called")
  /\ calls' = calls + 1 /\ done' = done \cup {request}
  /\ last' = [asker |-> request, to |-> name_table.to]
  /\ UNCHANGED <<dns_mng, TRANSACTION_ID, name_table, timer, endpoint,
                 replies, hung, asked, tries, spent>>

F2Free ==
  From("called", "loop") /\ Store("UNRECEIVED")
  /\ UNCHANGED <<retry_cnt, timer>>

(* udp_can_cep has something to cancel, or refuses.                        *)
G2 ==
  /\ timer' = 0
  /\ \/ From("CANCELLING", "cancelled") /\ endpoint = "sending"
        /\ endpoint' = "cancelled"
     \/ From("CANCELLING", "nothing") /\ endpoint # "sending"
        /\ UNCHANGED endpoint
  /\ UNCHANGED <<dns_mng, TRANSACTION_ID, name_table, replies, hung, history>>

G2Wait ==
  From("cancelled", "loop") /\ Store("CANCELLING_WAIT")
  /\ UNCHANGED <<retry_cnt, timer>>

(* Mutant: the refused cancel frees the client and calls nobody. *)
G2Silent ==
  From("nothing", "loop") /\ Store("UNRECEIVED")
  /\ UNCHANGED <<retry_cnt, timer>>

G2Free ==
  From("nothing", "report") /\ Store("UNRECEIVED")
  /\ UNCHANGED <<retry_cnt, timer>>

(* Mutant: repeats the query without looking at the count. *)
I2RetryAlways ==
  /\ From("CANCELLED", "loop")
  /\ retry_cnt' = retry_cnt - 1 /\ Store("START") /\ UNCHANGED timer

I2Retry ==
  /\ From("CANCELLED", "loop") /\ retry_cnt > 0
  /\ retry_cnt' = retry_cnt - 1 /\ Store("START") /\ UNCHANGED timer

(* Mutant: starts the count of the second server one too high. *)
I2SecondaryOneMore ==
  /\ From("CANCELLED", "loop") /\ retry_cnt = 0 /\ dns_select = "PRIMARY"
  /\ dns_select' = "SECONDARY" /\ retry_cnt' = DNS_ERROR_COUNT + 1
  /\ proc' = "START"
  /\ UNCHANGED <<request, TRANSACTION_ID, name_table, timer, endpoint, replies,
                 hung, history>>

I2Secondary ==
  /\ From("CANCELLED", "loop") /\ retry_cnt = 0 /\ dns_select = "PRIMARY"
  /\ dns_select' = "SECONDARY" /\ retry_cnt' = DNS_ERROR_COUNT
  /\ proc' = "START"
  /\ UNCHANGED <<request, TRANSACTION_ID, name_table, timer, endpoint, replies,
                 hung, history>>

I2GiveUp ==
  /\ From("CANCELLED", "report") /\ retry_cnt = 0 /\ dns_select # "PRIMARY"
  /\ Store("UNRECEIVED") /\ UNCHANGED <<retry_cnt, timer>>

(* cb_func(ercd, NULL) of G2 and I2.  The client is already free: cb_func  *)
(* may be the function of a request accepted since.                        *)
Report ==
  /\ From("report", "loop") /\ calls' = calls + 1
  /\ UNCHANGED <<dns_mng, TRANSACTION_ID, name_table, timer, endpoint,
                 replies, hung, asked, done, last, tries, spent>>

Main ==
  \/ Process \/ B2 \/ C2 \/ C2Sent \/ C2Refused \/ D2 \/ D2Late \/ E2 \/ E2Late
  \/ F2 \/ F2Free \/ G2 \/ G2Wait \/ G2Free \/ H2 \/ H2Late
  \/ I2Retry \/ I2Secondary \/ I2GiveUp \/ Report

-----------------------------------------------------------------------------
(* The interrupts.  A busy client refuses the request (E_DNS_PROCESSING).  *)

(* Mutant: does not look whether a request is being processed. *)
ResolveBusy ==
  /\ hung = "no" /\ asked < MaxRequests
  /\ asked' = asked + 1 /\ request' = asked' /\ tries' = 0
  /\ dns_select' = "PRIMARY" /\ retry_cnt' = DNS_ERROR_COUNT /\ proc' = "INIT"
  /\ UNCHANGED <<TRANSACTION_ID, name_table, timer, main, endpoint, replies,
                 hung, calls, done, last, spent>>

ResolveName ==
  /\ hung = "no" /\ proc = "UNRECEIVED" /\ asked < MaxRequests
  /\ asked' = asked + 1 /\ request' = asked' /\ tries' = 0
  /\ dns_select' = "PRIMARY" /\ retry_cnt' = DNS_ERROR_COUNT /\ proc' = "INIT"
  /\ UNCHANGED <<TRANSACTION_ID, name_table, timer, main, endpoint, replies,
                 hung, calls, done, last, spent>>

(* timer_interrupt; the count stops past the only value it is compared to. *)
Tick ==
  /\ hung = "no" /\ timer <= DNS_TIMEOUT /\ timer' = timer + 1
  /\ UNCHANGED <<dns_mng, TRANSACTION_ID, name_table, main, endpoint, replies,
                 hung, history>>

(* dns_proc_table: the event is for a client in state p, and every other   *)
(* entry is dns_dummy_proc, which never returns.                           *)
ExpectedIn(p) == hung' = IF proc = p THEN "no" ELSE "state"

(* D3: the query has left, and a reply may come.                           *)
SendCompleted ==
  /\ hung = "no" /\ endpoint = "sending" /\ endpoint' = "idle"
  /\ replies' \in {replies,
                   replies \cup {[id |-> TRANSACTION_ID, of |-> request,
                                 at |-> spent]}}
  /\ ExpectedIn("SENDING")
  /\ IF proc = "SENDING" THEN proc' = "RECEIVING" /\ timer' = 0
                         ELSE UNCHANGED <<proc, timer>>
  /\ UNCHANGED <<dns_select, retry_cnt, request, TRANSACTION_ID, name_table,
                 main, history>>

(* D6: E_CLS, nobody answered the ARP request for the server.              *)
ArpTimeout ==
  /\ hung = "no" /\ endpoint = "sending" /\ endpoint' = "idle"
  /\ ExpectedIn("SENDING")
  /\ IF proc = "SENDING" THEN proc' = "CANCELLED" /\ retry_cnt' = 0
                         ELSE UNCHANGED <<proc, retry_cnt>>
  /\ UNCHANGED <<dns_select, request, TRANSACTION_ID, name_table, timer, main,
                 replies, history>>

(* H5: E_RLWAI, the pending send has been cancelled.                       *)
CancelCompleted ==
  /\ hung = "no" /\ endpoint = "cancelled" /\ endpoint' = "idle"
  /\ ExpectedIn("CANCELLING_WAIT")
  /\ IF proc = "CANCELLING_WAIT" THEN proc' = "CANCELLED" ELSE UNCHANGED proc
  /\ UNCHANGED <<dns_select, retry_cnt, request, TRANSACTION_ID, name_table,
                 timer, main, replies, history>>

(* TRANSACTION_ID++ of a uint16_t.                                         *)
IdAfter(id) == IF id = Ids - 1 THEN 0 ELSE id + 1

(* Mutant: the identifier advances only when the response is refused. *)
NextIdKept(r, kind) ==
  IF kind # "empty" /\ r.id # TRANSACTION_ID THEN IdAfter(TRANSACTION_ID)
                                             ELSE TRANSACTION_ID

(* receive_dns_response compares the identifier and increments it, except  *)
(* that a response without an answer record is refused before.             *)
NextId(r, kind) ==
  IF kind = "empty" THEN TRANSACTION_ID ELSE IdAfter(TRANSACTION_ID)

Matches(r) == r.id = TRANSACTION_ID

(* receive_dns_response takes the response ...                             *)
Answers(r, kind) == kind = "answer" /\ Matches(r)

(* ... or never returns: a record that is neither an address nor an alias  *)
(* has length 0 in check_answer, and the loop over the answers stays at it.*)
NeverEnds(r, kind) == kind = "unknown" /\ Matches(r)

E4(r, kind) ==
  /\ TRANSACTION_ID' = NextId(r, kind)
  /\ spent' = IF kind = "empty" THEN spent ELSE spent + 1
  /\ hung' = IF NeverEnds(r, kind) THEN "answer" ELSE "no"
  /\ IF Answers(r, kind)
       THEN /\ proc' = "FINISH" /\ UNCHANGED retry_cnt
            /\ name_table' = [of |-> r.of, to |-> request, age |-> spent - r.at]
       ELSE /\ proc' = "CANCELLED" /\ retry_cnt' = 0
            /\ name_table' = [of |-> 0, to |-> 0, age |-> 0]

(* A reply arrives, and may arrive again.  Outside E it is not read.  The  *)
(* endpoint is compared with dns_mng.cepid, which R_dns_init makes 0.      *)
Receive(r, kind) ==
  /\ hung = "no" /\ spent < MaxSpent
  /\ replies' \in {replies, replies \ {r}}
  /\ IF proc = "RECEIVING" /\ request # 0
       THEN E4(r, kind)
       ELSE /\ hung' = IF request = 0 THEN "endpoint" ELSE "no"
            /\ UNCHANGED <<proc, retry_cnt, TRANSACTION_ID, name_table, spent>>
  /\ UNCHANGED <<dns_select, request, timer, main, endpoint, asked, calls, done,
                 last, tries>>

Interrupt ==
  \/ ResolveName \/ SendCompleted \/ ArpTimeout \/ CancelCompleted
  \/ \E r \in replies, kind \in {"answer", "empty", "refused", "unknown"} :
       Receive(r, kind)

Next == Main \/ Tick \/ Interrupt

(* The main loop keeps calling R_dns_process and the timer keeps running.  *)
Spec == Init /\ [][Next]_vars /\ WF_vars(Main) /\ WF_vars(Tick)

-----------------------------------------------------------------------------
Reply == [id : 0 .. Ids - 1, of : Nat, at : Nat]
Steps == {"loop", "sent", "refused", "D2 late", "E2 late", "H2 late", "called",
          "cancelled", "nothing", "report"} \cup (Procs \ {"UNRECEIVED"})

(* Every variable has its type; in particular retry_cnt never wraps.       *)
TypeOK ==
  /\ proc \in Procs /\ dns_select \in {"PRIMARY", "SECONDARY"}
  /\ retry_cnt \in Nat /\ request \in Nat /\ TRANSACTION_ID \in 0 .. Ids - 1
  /\ name_table \in [of : Nat, to : Nat, age : Nat] /\ timer \in Nat
  /\ main \in Steps
  /\ endpoint \in {"idle", "sending", "cancelled"} /\ replies \in SUBSET Reply
  /\ hung \in {"no", "state", "endpoint", "answer"}
  /\ asked \in Nat /\ calls \in Nat /\ done \in SUBSET Nat /\ tries \in Nat
  /\ spent \in Nat /\ last \in [asker : Nat, to : Nat]

(* A request puts at most DNS_ERROR_COUNT + 1 queries to each server,      *)
(* whatever mixture of timeouts, cancels and refusals it meets.            *)
TriesBounded == tries <= 2 * (DNS_ERROR_COUNT + 1)

(* Callbacks and accepted requests balance: the client owes a call while   *)
(* it is busy and has not called yet, and one more when it freed itself    *)
(* before it reports an error.                                             *)
CallsBalance ==
  asked - calls =
    (IF proc # "UNRECEIVED" /\ main # "called" THEN 1 ELSE 0)
    + (IF main = "report" THEN 1 ELSE 0)

(* A successful call goes to the function of the request that was being    *)
(* resolved when the answer was read.                                      *)
SuccessReachesAsker == last.asker = last.to

(* The answer about to be delivered is not a late or repeated reply to a   *)
(* request that has already been answered (receive_dns_response), unless   *)
(* the reply has been under way while the identifier went once round all   *)
(* its values.                                                             *)
AnswerIsFresh ==
  proc = "FINISH" /\ main # "called" /\ name_table.age < Ids
    => name_table.of \notin done

(* Every request ends, unless an interrupt handler has hung.               *)
EveryRequestEnds == proc # "UNRECEIVED" ~> (proc = "UNRECEIVED" \/ hung # "no")

(* dns_dummy_proc, "System Error!!", is never entered.                     *)
NoSystemError == hung # "state"
=============================================================================
