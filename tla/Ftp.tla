----------------------------------- MODULE Ftp ----------------------------------
(***************************************************************************)
(* One session of the FTP server (r_t4_ftp_server_rx/src/r_ftp_server.c)   *)
(* with the table of open files of the file driver                         *)
(* (use_external_mem/r_file_driver_external.c), which the HTTP server      *)
(* uses too.                                                               *)
(*                                                                         *)
(* A session has two endpoints, the command and the data connection.  The  *)
(* main program calls R_ftpd over and over; the library calls              *)
(* ftp_callback and ftp_data_callback from its interrupts, which may come  *)
(* between two steps of R_ftpd.  A library call with TMO_NBLK is owed one  *)
(* callback; an endpoint takes one such call at a time and refuses others. *)
(* The server reads none of these refusals.                                *)
(*                                                                         *)
(* A send that succeeds has taken all its bytes, so a block is the unit of *)
(* RETR and LIST.  Texts of replies, paths and the directory commands are  *)
(* abstracted to whether the command succeeds.                             *)
(***************************************************************************)
EXTENDS Integers

CONSTANTS
  SERVER_MAX_OPEN_FILE,  \* entries of the file driver
  DATA_BUF_SIZE          \* bytes of data_buff

ASSUME FtpAssumption ==
  SERVER_MAX_OPEN_FILE \in Nat \ {0} /\ DATA_BUF_SIZE \in Nat \ {0}

VARIABLES
  status, api_cancel, now_data,   \* ftp_cep: the endpoints whose api_cancel
                                  \* is 1, now_data of the data endpoint
  exec, subseq, file_index,       \* ftp_stat: exec_command, ...
  reset, bits,                    \* cep_reset_req: high and low digit
  lib,                            \* the endpoints as the library knows them
  owner,                          \* id[]: who has the entry open, or "free"
  main, pending,                  \* the step of R_ftpd, its pending |=
  \* History:
  dropped,    \* data of this transfer was lost inside the server
  verdict,    \* what the client was told of the last transfer
  outOfTurn,  \* the client gave a command or hung up in a transfer, or
              \* asked for one without a data connection
  slips       \* "refused": a call the dialogue waits for was refused;
              \* "stale": R_ftpd acted on, or stored back, a value that a
              \* callback had changed since; "astray": it cancelled a call
              \* that nothing follows

cep == <<status, api_cancel, now_data>>
stat == <<exec, subseq, file_index, reset, bits>>
loop == <<main, pending>>
history == <<dropped, verdict, outOfTurn, slips>>
vars == <<cep, stat, lib, owner, loop, history>>

Ep == {"cmd", "data"}
Entry == 0 .. SERVER_MAX_OPEN_FILE - 1
Status ==
  {"CLOSED", "CLOSING", "ACCEPT", "CONNECTION", "PASS_WORD", "LOGIN"}
Exec == {"NONE", "LIST", "STOR", "RETR", "ABOR", "PORT"}
Transfer == {"LIST", "STOR", "RETR"}
Subseq == {-1, 0, 4, 8, 12, 16}
Bits == {1, 2, 4, 8}
Call == {"none", "acp", "con", "rcv", "snd", "cls"}

Put(f, e, x) == [f EXCEPT ![e] = x]

-----------------------------------------------------------------------------
(* The library: call is what a callback is owed for, can that tcp_can_cep  *)
(* has cancelled it, up that there is a connection.                        *)
Unused == [call |-> "none", can |-> FALSE, up |-> FALSE]
Takes(l, e, what) ==
  l[e].call = "none" /\ (l[e].up <=> what \in {"rcv", "snd", "cls"})
Begin(l, e, what) ==
  IF Takes(l, e, what) THEN [l EXCEPT ![e].call = what] ELSE l
Done(l, e) ==
  [l EXCEPT ![e] = [call |-> "none", can |-> FALSE,
                    up |-> (l[e].up \/ l[e].call \in {"acp", "con"})
                           /\ l[e].call # "cls"]]
Broken(l, e) == [l EXCEPT ![e].call = "none"]
Cancel(l, e) == IF l[e].call = "none" THEN l ELSE [l EXCEPT ![e].can = TRUE]
ForceClose(l, e) == [l EXCEPT ![e] = Unused]

(* A call that the dialogue waits for, and its refusal that nobody reads.  *)
Needs(l, e, what) ==
  /\ lib' = Begin(l, e, what)
  /\ slips' = IF Takes(l, e, what) THEN slips ELSE slips \cup {"refused"}

-----------------------------------------------------------------------------
(* file_open_sub takes the first free entry; file_close_sub closes an      *)
(* entry that is open, whoever opened it.                                  *)
FreeEntry(i) == owner[i] = "free" /\ \A j \in Entry : j < i => owner[j] # "free"
FileClose(i) == owner' = Put(owner, i, "free")

HttpOpens ==
  /\ \E i \in Entry : FreeEntry(i) /\ owner' = Put(owner, i, "http")
  /\ UNCHANGED <<cep, stat, lib, loop, history>>

HttpCloses ==
  /\ \E i \in Entry : owner[i] = "http" /\ FileClose(i)
  /\ UNCHANGED <<cep, stat, lib, loop, history>>

Nothing == [high |-> "none", seen |-> {}, add |-> {}, then |-> "idle"]

Init ==
  /\ status = [e \in Ep |-> "CLOSED"] /\ api_cancel = {}
  /\ now_data = 0 /\ exec = "NONE" /\ subseq = 0 /\ file_index = 0
  /\ reset = "none" /\ bits = {}
  /\ lib = [e \in Ep |-> Unused] /\ owner = [i \in Entry |-> "free"]
  /\ main = "idle" /\ pending = Nothing
  /\ dropped = FALSE /\ verdict = "none" /\ outOfTurn = FALSE /\ slips = {}

-----------------------------------------------------------------------------
(* R_ftpd.  Where it finds nothing to do it goes on to its next check, so  *)
(* "idle" stands for all places where a check is made.                     *)
From(a, b) == main = a /\ main' = b

Accept ==
  /\ main = "idle" /\ status["cmd"] = "CLOSED"
  /\ \/ Takes(lib, "cmd", "acp") /\ main' = "accepted"
     \/ ~Takes(lib, "cmd", "acp") /\ main' = "halt"   \* while (1)
  /\ lib' = Begin(lib, "cmd", "acp")
  /\ UNCHANGED <<cep, stat, owner, pending, history>>

(* A store over what the callbacks have made of the status since.          *)
AcceptStore ==
  /\ From("accepted", "idle") /\ status' = Put(status, "cmd", "ACCEPT")
  /\ slips' = IF status["cmd"] # "CLOSED" \/ lib["cmd"].call # "acp"
              THEN slips \cup {"stale"} ELSE slips
  /\ UNCHANGED <<api_cancel, now_data, stat, lib, owner, pending, dropped,
                 verdict, outOfTurn>>

(* cep_reset_req |= x: the load, and later the store.                      *)
OrLoad(high, seen, x, then) ==
  /\ main' = "or"
  /\ pending' = [high |-> high, seen |-> seen, add |-> x, then |-> then]

OrStore ==
  /\ main = "or" /\ main' = pending.then /\ pending' = Nothing
  /\ reset' = pending.high /\ bits' = pending.seen \cup pending.add
  /\ slips' = IF bits \subseteq bits' THEN slips
              ELSE slips \cup {"stale"}
  /\ UNCHANGED <<cep, exec, subseq, file_index, lib, owner, dropped, verdict,
                 outOfTurn>>

(* case 0x10: an endpoint that has nothing to cancel is closed at once.    *)
CancelOrClose(e, x, then) ==
  \/ /\ lib[e].call # "none" /\ lib' = Cancel(lib, e)
     /\ main' = then /\ UNCHANGED pending
  \/ /\ lib[e].call = "none" /\ lib' = ForceClose(lib, e)
     /\ OrLoad(reset', bits', x, then)

ResetData ==
  /\ main = "idle" /\ reset = "cancel"
  /\ api_cancel' = {} /\ reset' = "close" /\ bits' = {}
  /\ CancelOrClose("data", {1, 2}, "reset_cmd")
  /\ UNCHANGED <<status, now_data, exec, subseq, file_index, owner, history>>

ResetCmd ==
  /\ main = "reset_cmd" /\ UNCHANGED <<reset, bits>>
  /\ CancelOrClose("cmd", {4, 8}, "close_data")
  /\ UNCHANGED <<cep, exec, subseq, file_index, owner, history>>

(* case 0x20: an endpoint whose cancelled call has ended is closed.        *)
CloseEp(e, a, b, x, y) ==
  /\ main = a
  /\ \/ /\ x \in bits /\ y \notin bits
        /\ lib' = ForceClose(lib, e) /\ OrLoad(reset, bits, {y}, b)
     \/ /\ ~(x \in bits /\ y \notin bits)
        /\ main' = b /\ UNCHANGED <<lib, pending>>
  /\ UNCHANGED <<cep, stat, owner, history>>

ResetAgain ==
  /\ From("idle", "close_data") /\ reset = "close"
  /\ api_cancel' = {}
  /\ UNCHANGED <<status, now_data, stat, lib, owner, pending, history>>
CloseData == CloseEp("data", "close_data", "close_cmd", 1, 2)
(* Mutant: the bit of the data endpoint is looked at for the command's.    *)
CloseCmdForData == CloseEp("cmd", "close_cmd", "finish", 1, 8)
CloseCmd == CloseEp("cmd", "close_cmd", "finish", 4, 8)

(* All four bits: the file is closed and the session memset to 0.          *)
Finish ==
  /\ From("finish", "idle") /\ bits = Bits
  /\ FileClose(file_index)
  /\ status' = [e \in Ep |-> "CLOSED"] /\ api_cancel' = {}
  /\ now_data' = 0 /\ exec' = "NONE" /\ subseq' = 0 /\ file_index' = 0
  /\ reset' = "none" /\ bits' = {}
  /\ dropped' = FALSE /\ verdict' = "none"
  /\ UNCHANGED <<lib, pending, outOfTurn, slips>>

NotFinished ==
  /\ From("finish", "idle") /\ bits # Bits
  /\ UNCHANGED <<cep, stat, lib, owner, pending, history>>

CheckCancel(e, b) ==
  /\ From("idle", b) /\ e \in api_cancel
  /\ UNCHANGED <<cep, stat, lib, owner, pending, history>>

(* tcp_can_cep and the store of 2, which nothing tells from 0.             *)
DoCancel(e, a) ==
  /\ From(a, "idle") /\ api_cancel' = api_cancel \ {e}
  /\ lib' = Cancel(lib, e)
  /\ slips' = slips \cup (IF lib[e].call = "none" THEN {"refused"} ELSE {})
                    \cup (IF e \notin api_cancel THEN {"stale"} ELSE {})
  /\ UNCHANGED <<status, now_data, stat, owner, pending, dropped, verdict,
                 outOfTurn>>

Cancels ==
  \/ CheckCancel("cmd", "cancel_cmd") \/ DoCancel("cmd", "cancel_cmd")
  \/ CheckCancel("data", "cancel_data") \/ DoCancel("data", "cancel_data")
Resets == ResetData \/ ResetCmd \/ ResetAgain \/ CloseData \/ CloseCmd
          \/ OrStore \/ Finish \/ NotFinished

Main == Accept \/ AcceptStore \/ Resets \/ Cancels

-----------------------------------------------------------------------------
(* Both callbacks, before they look at what has ended.                     *)
Handles(e, what) ==
  /\ lib[e].call = what /\ ~lib[e].can /\ reset = "none"
  /\ UNCHANGED <<reset, bits, loop>>

(* A negative result resets the session.                                   *)
OnError(e) ==
  /\ lib[e].call # "none" /\ ~lib[e].can
  /\ lib' = Broken(lib, e) /\ reset' = "cancel" /\ bits' = {}
  /\ UNCHANGED <<cep, exec, subseq, file_index, owner, loop, history>>

(* While it is being reset, the rest is ignored,                           *)
OnIgnored(e) ==
  /\ lib[e].call # "none" /\ ~lib[e].can /\ reset # "none"
  /\ lib' = Done(lib, e)
  /\ UNCHANGED <<cep, stat, owner, loop, history>>

(* but for the end of a cancelled call (E_RLWAI).                          *)
OnCancelledInReset(e) ==
  /\ lib[e].call # "none" /\ lib[e].can /\ reset # "none"
  /\ lib' = [lib EXCEPT ![e].call = "none", ![e].can = FALSE]
  /\ bits' = bits \cup {IF e = "data" THEN 1 ELSE 4}
  /\ UNCHANGED <<cep, exec, subseq, file_index, reset, owner, loop, history>>

Released(e) ==
  /\ lib[e].call # "none" /\ lib[e].can /\ reset = "none"
  /\ api_cancel' = api_cancel \ {e}
  /\ UNCHANGED <<now_data, file_index, reset, bits, owner, loop, dropped,
                 outOfTurn>>
Free(e) == [lib EXCEPT ![e].call = "none", ![e].can = FALSE]

(* R_ftpd has cancelled the receive of the next command, for the reply at  *)
(* the end of a transfer: ftps_list_nlst_finish, ..._stor_, ..._retr_.     *)
Success == [LIST |-> 16, STOR |-> 4, RETR |-> 16]
OnCmdReleased ==
  /\ Released("cmd") /\ UNCHANGED status
  /\ \/ /\ exec \in Transfer /\ exec' = "NONE" /\ subseq' = 0
        /\ verdict' = IF subseq # Success[exec] THEN "error"
                      ELSE IF status["data"] = "CLOSED" THEN "complete"
                      ELSE "early"
        /\ LET l == Free("cmd") IN Needs(l, "cmd", "snd")
     \/ /\ exec \notin Transfer /\ lib' = Free("cmd")
        /\ slips' = slips \cup {"astray"} /\ UNCHANGED <<exec, subseq, verdict>>

(* ftps_abor_finish: the reply to the transfer, then the one to ABOR.      *)
AborFinish ==
  /\ exec' = IF subseq = 8 THEN "NONE" ELSE exec
  /\ subseq' = IF subseq = 4 THEN 8 ELSE IF subseq = 8 THEN 0 ELSE subseq

OnDataReleased ==
  /\ Released("data") /\ UNCHANGED verdict
  /\ \/ /\ exec = "ABOR" /\ AborFinish
        /\ status' = Put(status, "data", "CLOSING")
        /\ LET l == Begin(Free("data"), "data", "cls") IN Needs(l, "cmd", "snd")
     \/ /\ exec # "ABOR" /\ lib' = Free("data")
        /\ slips' = slips \cup {"astray"} /\ UNCHANGED <<exec, subseq, status>>

-----------------------------------------------------------------------------
(* The next block of a download or a list: more, the end, or a failure.    *)
RetrDataport ==
  {[call |-> "snd", subseq |-> 8, close |-> FALSE],
   [call |-> "cls", subseq |-> 12, close |-> TRUE],
   [call |-> "cls", subseq |-> -1, close |-> TRUE]}
ListDataport ==
  {[call |-> "snd", subseq |-> 8, close |-> FALSE],
   [call |-> "snd", subseq |-> 12, close |-> FALSE],
   [call |-> "cls", subseq |-> 12, close |-> FALSE],
   [call |-> "cls", subseq |-> -1, close |-> FALSE]}

(* A block is lost when the endpoint still sends the one before it, and    *)
(* is not of this file when the entry is no longer the session's.          *)
Dataport(l, r) ==
  /\ r \in (IF exec = "RETR" THEN RetrDataport ELSE ListDataport)
  /\ subseq' = r.subseq
  /\ IF r.close THEN FileClose(file_index) ELSE UNCHANGED owner
  /\ status' = IF r.call = "cls" THEN Put(status, "data", "CLOSING") ELSE status
  /\ dropped' = \/ dropped
                \/ r.call = "snd" /\ ~Takes(l, "data", "snd")
                \/ exec = "RETR" /\ owner[file_index] # "ftp"

(* ftp_callback.                                                           *)
OnCmdAccepted ==
  /\ Handles("cmd", "acp") /\ status' = Put(status, "cmd", "CONNECTION")
  /\ Needs(Done(lib, "cmd"), "cmd", "snd")
  /\ UNCHANGED <<api_cancel, now_data, exec, subseq, file_index, owner, dropped,
                 verdict, outOfTurn>>

OnReplySent ==
  /\ Handles("cmd", "snd") /\ UNCHANGED <<api_cancel, now_data, file_index>>
  /\ LET l == Done(lib, "cmd") IN
     \/ /\ status["cmd"] = "CLOSING" /\ lib' = Begin(l, "cmd", "cls")
        /\ UNCHANGED <<status, exec, subseq, owner, dropped, slips>>
     \/ /\ status["cmd"] # "CLOSING" /\ exec \in {"LIST", "RETR"}
        /\ \E r \in RetrDataport \cup ListDataport :
             Dataport(l, r) /\ Needs(Begin(l, "data", r.call), "cmd", "rcv")
        /\ UNCHANGED exec
     \/ /\ status["cmd"] # "CLOSING" /\ exec \in {"NONE", "STOR"}
        /\ Needs(l, "cmd", "rcv")
        /\ UNCHANGED <<status, exec, subseq, owner, dropped>>
     \/ /\ status["cmd"] # "CLOSING" /\ exec = "ABOR"
        /\ AborFinish /\ Needs(l, "cmd", "snd")
        /\ UNCHANGED <<status, owner, dropped>>
     \/ /\ status["cmd"] # "CLOSING" /\ exec = "PORT" /\ lib' = l
        /\ UNCHANGED <<status, exec, subseq, owner, dropped, slips>>
  /\ UNCHANGED <<verdict, outOfTurn>>

OnCmdClosed ==
  /\ Handles("cmd", "cls") /\ lib' = Done(lib, "cmd")
  /\ status' = Put(status, "cmd", "CLOSED")
  /\ UNCHANGED <<api_cancel, now_data, exec, subseq, file_index, owner, history>>

(* The end of the connection, or more than cmd_buff holds.                 *)
OnHangup ==
  /\ Handles("cmd", "rcv") /\ status' = Put(status, "cmd", "CLOSING")
  /\ lib' = Begin(Done(lib, "cmd"), "cmd", "cls")
  /\ outOfTurn' = (outOfTurn \/ exec \in Transfer)
  /\ UNCHANGED <<api_cancel, now_data, exec, subseq, file_index, owner, dropped,
                 verdict, slips>>

OnPieceOfCommand ==
  /\ Handles("cmd", "rcv") /\ lib' = lib
  /\ UNCHANGED <<cep, exec, subseq, file_index, owner, history>>

-----------------------------------------------------------------------------
(* The commands.  func_ret < 0 ends what x is executing, or was about to.  *)
Command == Handles("cmd", "rcv")
InTurn == outOfTurn' = (outOfTurn \/ exec \in Transfer)

Fails(l, x, st) ==
  /\ exec' = "NONE" /\ subseq' = IF x = "NONE" THEN subseq ELSE 0
  /\ status' = IF x = "NONE" THEN st ELSE Put(st, "data", "CLOSING")
  /\ Needs(IF x = "NONE" THEN l ELSE Begin(l, "data", "cls"), "cmd", "snd")
  /\ UNCHANGED <<api_cancel, now_data, file_index, owner, dropped, verdict>>

(* Otherwise the reply goes out; an upload (re)starts its receive.         *)
Answer(l, x) ==
  /\ now_data' = IF x = "STOR" THEN 0 ELSE now_data
  /\ Needs(IF x = "STOR" THEN Begin(l, "data", "rcv") ELSE l, "cmd", "snd")

Succeeds(l, st) ==
  /\ status' = st /\ Answer(l, exec)
  /\ dropped' = (dropped \/ (exec = "STOR" /\ now_data > 0))
  /\ UNCHANGED <<api_cancel, exec, subseq, file_index, owner, verdict>>

(* Not logged in, or an unknown user: the connection ends with the reply.  *)
OnRejected ==
  /\ Command /\ InTurn
  /\ LET l == Done(lib, "cmd") IN
     Fails(l, exec, Put(status, "cmd", "CLOSING"))

OnUserPass ==
  /\ Command /\ InTurn
  /\ LET l == Done(lib, "cmd") IN
     \/ Succeeds(l, Put(status, "cmd", "PASS_WORD"))
     \/ status["cmd"] = "PASS_WORD" /\ Succeeds(l, Put(status, "cmd", "LOGIN"))
     \/ status["cmd"] = "PASS_WORD" /\ Fails(l, exec, status)
     \/ Fails(l, exec, Put(status, "cmd", "CONNECTION"))

(* NOOP, TYPE, PWD, the directory commands, QUIT; and unknown commands.    *)
OnPlain ==
  /\ Command /\ InTurn
  /\ LET l == Done(lib, "cmd") IN
     \/ Succeeds(l, status)
     \/ status["cmd"] = "LOGIN" /\ Fails(l, exec, status)
     \/ /\ Needs(l, "cmd", "snd")
        /\ UNCHANGED <<cep, exec, subseq, file_index, owner, dropped, verdict>>

OnPasv ==
  /\ Command /\ InTurn /\ status["cmd"] = "LOGIN"
  /\ LET l == Done(lib, "cmd") IN
     \/ Takes(l, "data", "acp") /\ Succeeds(Begin(l, "data", "acp"), status)
     \/ ~Takes(l, "data", "acp") /\ Fails(l, exec, status)

(* The reply to PORT waits for the callback of tcp_con_cep.                *)
OnPort ==
  /\ Command /\ InTurn /\ status["cmd"] = "LOGIN" /\ exec' = "PORT"
  /\ LET l == Done(lib, "cmd") IN Needs(l, "data", "con")
  /\ UNCHANGED <<cep, subseq, file_index, owner, dropped, verdict>>

OnTransferFailed ==
  /\ Command /\ InTurn /\ status["cmd"] = "LOGIN"
  /\ LET l == Done(lib, "cmd") IN \E x \in Transfer : Fails(l, x, status)

Transfers(x) ==
  /\ Command /\ status["cmd"] = "LOGIN" /\ exec' = x /\ subseq' = 4
  /\ LET l == Done(lib, "cmd") IN Answer(l, x)
  /\ outOfTurn' = (outOfTurn \/ exec \in Transfer
                               \/ status["data"] # "CONNECTION")
  /\ dropped' = FALSE /\ verdict' = "none"
  /\ UNCHANGED <<status, api_cancel>>

OnList == Transfers("LIST") /\ UNCHANGED <<file_index, owner>>

(* Mutant: the entries are numbered from 1.                                *)
OpensFromOne(i) == owner' = Put(owner, i, "ftp") /\ file_index' = i + 1
Opens(i) == owner' = Put(owner, i, "ftp") /\ file_index' = i
OnRetrStor ==
  \E x \in {"RETR", "STOR"}, i \in Entry :
    Transfers(x) /\ FreeEntry(i) /\ Opens(i)

(* Mutant: ABOR leaves the file open.                                      *)
AborKeepsFile ==
  /\ Command /\ status["cmd"] = "LOGIN" /\ exec # "NONE" /\ exec' = "ABOR"
  /\ LET l == Done(lib, "cmd") IN
     \/ /\ status["data"] # "CLOSED" /\ subseq' = 4
        /\ api_cancel' = {"data"}
        /\ lib' = l /\ UNCHANGED slips
     \/ /\ status["data"] = "CLOSED" /\ subseq' = 8
        /\ api_cancel' = api_cancel \ {"cmd"} /\ Needs(l, "cmd", "snd")
  /\ UNCHANGED <<status, now_data, file_index, owner, dropped, verdict,
                 outOfTurn>>

(* ABOR leaves it to R_ftpd to cancel the call of the data endpoint.       *)
OnAbor ==
  /\ Command /\ status["cmd"] = "LOGIN" /\ exec # "NONE" /\ exec' = "ABOR"
  /\ IF exec \in {"RETR", "STOR"} THEN FileClose(file_index)
                                  ELSE UNCHANGED owner
  /\ LET l == Done(lib, "cmd") IN
     \/ /\ status["data"] # "CLOSED" /\ subseq' = 4
        /\ api_cancel' = {"data"}
        /\ lib' = l /\ UNCHANGED slips
     \/ /\ status["data"] = "CLOSED" /\ subseq' = 8
        /\ api_cancel' = api_cancel \ {"cmd"} /\ Needs(l, "cmd", "snd")
  /\ UNCHANGED <<status, now_data, file_index, dropped, verdict, outOfTurn>>

OnIdleAbor ==
  /\ Command /\ status["cmd"] = "LOGIN" /\ exec = "NONE"
  /\ LET l == Done(lib, "cmd") IN Succeeds(l, status)
  /\ UNCHANGED outOfTurn

-----------------------------------------------------------------------------
(* ftp_data_callback.                                                      *)
DataCloses(l) ==
  lib' = Begin(l, "data", "cls") /\ status' = Put(status, "data", "CLOSING")

OnDataConnected ==
  /\ Handles("data", "acp") \/ Handles("data", "con")
  /\ now_data' = 0 /\ status' = Put(status, "data", "CONNECTION")
  /\ LET l == Done(lib, "data") IN
     IF lib["data"].call = "con" /\ exec = "PORT"
     THEN Needs(l, "cmd", "snd") /\ exec' = "NONE"
     ELSE lib' = l /\ UNCHANGED <<exec, slips>>
  /\ UNCHANGED <<api_cancel, subseq, file_index, owner, dropped, verdict,
                 outOfTurn>>

OnDataFin ==
  /\ Handles("data", "rcv") /\ DataCloses(Done(lib, "data"))
  /\ UNCHANGED <<api_cancel, now_data, exec, subseq, file_index, owner, history>>

(* n bytes of an upload.  A full buffer is written; after a failure the    *)
(* rest is received and ignored.                                           *)
WriteFails == subseq' = -1 /\ FileClose(file_index) /\ dropped' = TRUE
WriteSucceeds ==
  UNCHANGED <<subseq, owner>>
  /\ dropped' = (dropped \/ owner[file_index] # "ftp")
OnDataReceived(n) ==
  /\ Handles("data", "rcv") /\ exec = "STOR"
  /\ LET l == Done(lib, "data") IN lib' = Begin(l, "data", "rcv")
  /\ \/ /\ subseq = 4 /\ now_data + n < DATA_BUF_SIZE /\ now_data' = now_data + n
        /\ UNCHANGED <<subseq, owner, dropped>>
     \/ /\ subseq = 4 /\ now_data + n = DATA_BUF_SIZE /\ now_data' = 0
        /\ WriteFails \/ WriteSucceeds
     \/ /\ subseq # 4 /\ now_data' = 0 /\ dropped' = TRUE
        /\ UNCHANGED <<subseq, owner>>
  /\ UNCHANGED <<status, api_cancel, exec, file_index, verdict, outOfTurn, slips>>

(* Data when nothing is uploaded, as after ABOR: no receive is started.    *)
OnDataUnwanted ==
  /\ Handles("data", "rcv") /\ exec # "STOR" /\ lib' = Done(lib, "data")
  /\ UNCHANGED <<cep, exec, subseq, file_index, owner, history>>

(* A block is out.  remain_data is the one of the block read last: when    *)
(* that is another one, the end of it may be sent instead of the next.     *)
OnBlockSent ==
  /\ Handles("data", "snd")
  /\ UNCHANGED <<api_cancel, exec, file_index, verdict, outOfTurn, slips>>
  /\ LET l == Done(lib, "data") IN
     \/ /\ exec \in {"LIST", "RETR"} /\ dropped /\ lib' = Begin(l, "data", "snd")
        /\ UNCHANGED <<status, subseq, owner, dropped, now_data>>
     \/ /\ exec \in {"LIST", "RETR"} /\ subseq = 8 /\ now_data' = 0
        /\ \E r \in RetrDataport \cup ListDataport :
             Dataport(l, r) /\ lib' = Begin(l, "data", r.call)
     \/ /\ exec \notin {"LIST", "RETR"} \/ subseq # 8
        /\ now_data' = 0 /\ DataCloses(l)
        /\ UNCHANGED <<subseq, owner, dropped>>

(* The data connection is closed: the verdict, and R_ftpd is asked to end  *)
(* the receive of the next command.                                        *)
DataClosed == Handles("data", "cls") /\ status' = Put(status, "data", "CLOSED")
(* Mutant: nobody is asked to end the receive of the next command.         *)
AsksNobody == UNCHANGED <<api_cancel, exec>>
AsksForReply == api_cancel' = api_cancel \cup {"cmd"} /\ UNCHANGED exec

OnListClosed ==
  /\ DataClosed /\ exec = "LIST" /\ AsksForReply /\ lib' = Done(lib, "data")
  /\ subseq' = IF subseq >= 12 THEN 16 ELSE -1
  /\ UNCHANGED <<now_data, file_index, owner, history>>

OnRetrClosed ==
  /\ DataClosed /\ exec = "RETR" /\ AsksForReply /\ lib' = Done(lib, "data")
  /\ \/ subseq = 12 /\ subseq' = 16 /\ UNCHANGED owner
     \/ subseq # 12 /\ subseq' = -1 /\ FileClose(file_index)
  /\ UNCHANGED <<now_data, file_index, history>>

(* Mutant: the bytes behind the last full buffer are not written.          *)
StorClosedUnwritten ==
  /\ DataClosed /\ exec = "STOR" /\ AsksForReply /\ lib' = Done(lib, "data")
  /\ dropped' = (dropped \/ now_data > 0) /\ FileClose(file_index)
  /\ UNCHANGED <<now_data, subseq, file_index, verdict, outOfTurn, slips>>

(* The last, unfilled buffer is written.                                   *)
OnStorClosed ==
  /\ DataClosed /\ exec = "STOR" /\ AsksForReply /\ lib' = Done(lib, "data")
  /\ \/ now_data > 0 /\ subseq' = -1 /\ dropped' = TRUE
     \/ /\ now_data > 0 /\ UNCHANGED subseq
        /\ dropped' = (dropped \/ owner[file_index] # "ftp")
     \/ now_data = 0 /\ UNCHANGED <<subseq, dropped>>
  /\ FileClose(file_index)
  /\ UNCHANGED <<now_data, file_index, verdict, outOfTurn, slips>>

OnAborClosed ==
  /\ DataClosed /\ exec = "ABOR" /\ api_cancel' = api_cancel \ {"data"}
  /\ LET l == Done(lib, "data") IN
     \/ subseq = 4 /\ AborFinish /\ Needs(l, "cmd", "snd")
     \/ subseq # 4 /\ lib' = l /\ UNCHANGED <<exec, subseq, slips>>
  /\ UNCHANGED <<now_data, file_index, owner, dropped, verdict, outOfTurn>>

OnIdleClosed ==
  /\ DataClosed /\ exec \in {"NONE", "PORT"} /\ lib' = Done(lib, "data")
  /\ UNCHANGED <<api_cancel, now_data, exec, subseq, file_index, owner, history>>

OnCommand == OnRejected \/ OnUserPass \/ OnPlain \/ OnPasv \/ OnPort
             \/ OnTransferFailed \/ OnList \/ OnRetrStor \/ OnAbor \/ OnIdleAbor
CmdCallback == OnCmdAccepted \/ OnReplySent \/ OnCmdClosed \/ OnHangup
               \/ OnPieceOfCommand \/ OnCommand
DataCallback == OnDataConnected \/ OnDataFin
                \/ (\E n \in 1 .. DATA_BUF_SIZE : OnDataReceived(n))
                \/ OnDataUnwanted \/ OnBlockSent \/ OnListClosed \/ OnRetrClosed
                \/ OnStorClosed \/ OnAborClosed \/ OnIdleClosed
Interrupted(e) == OnError(e) \/ OnIgnored(e) \/ OnCancelledInReset(e)

Callback == CmdCallback \/ DataCallback \/ OnCmdReleased \/ OnDataReleased
            \/ \E e \in Ep : Interrupted(e)

Next == Main \/ Callback \/ HttpOpens \/ HttpCloses

(* The main program comes back to R_ftpd for ever; the library ends a      *)
(* cancelled call.                                                         *)
Spec ==
  /\ Init /\ [][Next]_vars /\ WF_vars(Resets) /\ WF_vars(Main)
  /\ \A e \in Ep : WF_vars(OnCancelledInReset(e))

-----------------------------------------------------------------------------
(* Every variable has its type.                                            *)
CepOK ==
  /\ status \in [Ep -> Status] /\ api_cancel \in SUBSET Ep
  /\ now_data \in 0 .. DATA_BUF_SIZE - 1
StatOK ==
  /\ exec \in Exec /\ subseq \in Subseq /\ file_index \in Entry
  /\ reset \in {"none", "cancel", "close"} /\ bits \in SUBSET Bits
LibOK == lib \in [Ep -> [call : Call, can : BOOLEAN, up : BOOLEAN]]
OwnerOK == owner \in [Entry -> {"free", "ftp", "http"}]
LoopOK ==
  /\ main \in {"idle", "accepted", "halt", "or", "reset_cmd", "close_data",
               "close_cmd", "finish", "cancel_cmd", "cancel_data"}
  /\ pending \in [high : {"none", "cancel", "close"}, seen : SUBSET Bits,
             add : SUBSET Bits,
             then : {"idle", "reset_cmd", "close_data", "close_cmd", "finish"}]
HistoryOK ==
  /\ dropped \in BOOLEAN /\ verdict \in {"none", "complete", "early", "error"}
  /\ outOfTurn \in BOOLEAN /\ slips \in SUBSET {"refused", "stale", "astray"}
TypeOK == CepOK /\ StatOK /\ LibOK /\ OwnerOK /\ LoopOK /\ HistoryOK

(* A session that gets its commands in turn has at most one file open, and *)
(* only while it reads or writes it: no way a transfer ends (failures of   *)
(* the file, of either connection, ABOR) leaks an entry of the driver.     *)
FilesAreClosed ==
  outOfTurn \/ "stale" \in slips \/ \A i \in Entry :
    owner[i] = "ftp" =>
      i = file_index /\ (exec \in {"RETR", "STOR"} \/ reset # "none")

(* "Transfer complete" is only said of a transfer that lost nothing: each  *)
(* block of the file went out, each byte received was written.             *)
Exempt == outOfTurn \/ "stale" \in slips
WholeTransfer ==
  /\ verdict = "complete" => Exempt \/ ~dropped
  /\ verdict = "early" => Exempt

(* A session always has something under way that goes on to its next step: *)
(* it hangs only when a library call was refused unnoticed, or R_ftpd      *)
(* stored over a callback.  Nor does a transfer come to a stop of which    *)
(* the client is never told, unless it spoke out of turn.  The endless     *)
(* loop of R_ftpd is never entered.                                        *)
Asked(e) == e \in api_cancel \/ main = IF e = "cmd" THEN "cancel_cmd"
                                                     ELSE "cancel_data"
Hangs ==
  /\ reset = "none" /\ lib["cmd"].call = "none" /\ status["cmd"] # "CLOSED"
  /\ ~(exec = "PORT" /\ lib["data"].call = "con")
  /\ ~(exec = "ABOR" /\ (lib["data"].call # "none" \/ Asked("data")))
Untold ==
  /\ reset = "none" /\ exec \in Transfer /\ ~Asked("cmd")
  /\ lib["data"].call = "none" /\ lib["cmd"].call = "rcv" /\ ~lib["cmd"].can
Answered ==
  /\ Hangs => slips # {}
  /\ Untold => slips # {} \/ outOfTurn
  /\ main # "halt"

(* A reset comes to its end, unless a bit of cep_reset_req was lost.       *)
ResetEnds == (reset # "none") ~> (reset = "none" \/ "stale" \in slips)
====
