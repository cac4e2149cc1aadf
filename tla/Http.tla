---------------------------------- MODULE Http ---------------------------------
(***************************************************************************)
(* The HTTP server (r_t4_http_server_rx/src/r_http_server.c).              *)
(*                                                                         *)
(* The main program calls R_httpd over and over, and the TCP/IP library    *)
(* calls http_callback from its interrupts: a callback runs to its end     *)
(* between two stores of the main program.  Both write the fields of       *)
(* http_cep, and nothing excludes them.                                    *)
(*                                                                         *)
(* The library has no transmit window (config_tcpudp.c): a send that       *)
(* succeeds has taken all its bytes.  A call without waiting is owed one   *)
(* callback, and an endpoint has one such call at a time.                  *)
(***************************************************************************)
EXTENDS Integers

CONSTANTS
  HTTP_TCP_CEP_NUM,  \* endpoints of the server
  RCV_BUF_SIZE,      \* bytes of rcv_buff
  BODY_BUF_SIZE,     \* bytes of body_buff
  HdrSize,           \* bytes of a response header
  MaxFile            \* bound: bytes of the longest file

ASSUME HttpAssumption ==
  /\ HTTP_TCP_CEP_NUM \in Nat \ {0} /\ RCV_BUF_SIZE \in Nat \ {0, 1}
  /\ BODY_BUF_SIZE \in Nat \ {0, 1} /\ HdrSize \in Nat \ {0}
  /\ MaxFile \in Nat

VARIABLES
  status, remain_data, total_rcv_len, res, fileid,  \* http_cep; fileid is -1,
                           \* or how much of the file has been read
  call, len,               \* what the library owes a callback for, its length
  alive,                   \* the library has a connection on the endpoint
  cgi,                     \* endpoints whose CGI has not finished
  main, at,                \* the step of R_httpd, and its i
  got, cut,                \* body bytes the peer has, the response was cut
  lost,                    \* endpoints nothing will ever call or visit again
  overlap                  \* the main program called an endpoint that is owed

cep == <<status, remain_data, total_rcv_len, res, fileid>>
library == <<call, len, alive>>
loop == <<main, at>>
vars == <<cep, library, cgi, loop, got, cut, lost, overlap>>

Cep == 1..HTTP_TCP_CEP_NUM
Status == {"CLOSED", "ACCEPT", "WAIT_REQUEST", "CGI_PENDING",
           "CGI_GEN_RESPONSE", "SEND_RESPONSE_HEADER", "SEND_RESPONSE_BODY",
           "CLOSING"}
Call == {"none", "acp", "rcv", "snd", "cls"}
Min2(a, b) == IF a < b THEN a ELSE b

All(x) == [c \in Cep |-> x]
Put(f, c, x) == [f EXCEPT ![c] = x]

(* What a request is answered with.  An error page has no body, a page     *)
(* made in body_buff fits it with its final 0.                             *)
Page(type) == {[type |-> type, size |-> n] : n \in 1 .. BODY_BUF_SIZE - 1}
ErrorPage == [type |-> "NONE", size |-> 0]
CgiError == [type |-> "CGI", size |-> 0]
File == {[type |-> "FILE", size |-> n] : n \in 0 .. MaxFile}
Resource ==
  Page("INDEXES") \cup Page("CGI") \cup File \cup {ErrorPage, CgiError}

Init ==
  /\ status = All("CLOSED") /\ remain_data = All(0) /\ total_rcv_len = All(0)
  /\ res = All(ErrorPage) /\ fileid = All(-1)
  /\ call = All("none") /\ len = All(0) /\ alive = All(FALSE) /\ cgi = {}
  /\ main = "loop" /\ at = 1
  /\ got = All(0) /\ cut = All(FALSE) /\ lost = {} /\ overlap = FALSE

-----------------------------------------------------------------------------
(* R_httpd.  Each store is a step: callbacks may run before it.            *)
From(a, b) == main = a /\ main' = b
Visited == at' = (at % HTTP_TCP_CEP_NUM) + 1

Start(c, what, n) == call' = Put(call, c, what) /\ len' = Put(len, c, n)
MainStart(c, what, n) ==
  Start(c, what, n) /\ overlap' = (overlap \/ call[c] # "none")
  /\ UNCHANGED alive

(* A store over a status that the callbacks have brought to CLOSED hides   *)
(* it from R_httpd, and no callback is owed any more.                      *)
Overwrites(c) ==
  lost' = IF call[c] = "none" /\ c \notin cgi THEN lost \cup {c} ELSE lost

(* Mutant: accepts already while the old connection is being closed. *)
AcceptEarly ==
  /\ From("loop", "accepting") /\ status[at] \in {"CLOSED", "CLOSING"}
  /\ MainStart(at, "acp", 0)
  /\ UNCHANGED <<cep, cgi, at, got, cut, lost>>

Accept ==
  /\ From("loop", "accepting") /\ status[at] = "CLOSED"
  /\ MainStart(at, "acp", 0)
  /\ UNCHANGED <<cep, cgi, at, got, cut, lost>>

AcceptStore ==
  /\ From("accepting", "loop") /\ Visited /\ Overwrites(at)
  /\ status' = Put(status, at, "ACCEPT")
  /\ UNCHANGED <<remain_data, total_rcv_len, res, fileid, library, cgi, got,
                 cut, overlap>>

(* cgi_cb_func makes the page or fails, httpd_gen_response_cgi the header. *)
(* The header of an error page always fits, so the call never fails.       *)
Generate ==
  /\ From("loop", "generated") /\ status[at] = "CGI_GEN_RESPONSE"
  /\ \E page \in Page("CGI") \cup {CgiError} : res' = Put(res, at, page)
  /\ MainStart(at, "snd", HdrSize)
  /\ UNCHANGED <<status, remain_data, total_rcv_len, fileid, cgi, at, got, cut,
                 lost>>

GenerateStore ==
  /\ From("generated", "header") /\ Overwrites(at)
  /\ status' = Put(status, at, "SEND_RESPONSE_HEADER")
  /\ UNCHANGED <<remain_data, total_rcv_len, res, fileid, library, cgi, at, got,
                 cut, overlap>>

RemainStore ==
  /\ From("header", "loop") /\ Visited
  /\ remain_data' = Put(remain_data, at, HdrSize)
  /\ UNCHANGED <<status, total_rcv_len, res, fileid, library, cgi, got, cut,
                 lost, overlap>>

Skip ==
  /\ From("loop", "loop") /\ status[at] \notin {"CLOSED", "CGI_GEN_RESPONSE"}
  /\ Visited
  /\ UNCHANGED <<cep, library, cgi, got, cut, lost, overlap>>

(* R_httpd_pending_release_request, when the CGI of c has finished: by the *)
(* main program between two rounds of R_httpd, as cgi_dns_calback does.    *)
Release(c) ==
  /\ From("loop", "loop") /\ at = 1 /\ UNCHANGED at /\ c \in cgi
  /\ cgi' = cgi \ {c} /\ status' = Put(status, c, "CGI_GEN_RESPONSE")
  /\ UNCHANGED <<remain_data, total_rcv_len, res, fileid, library, got, cut,
                 lost, overlap>>

Main == Accept \/ AcceptStore \/ Generate \/ GenerateStore \/ RemainStore
        \/ Skip

-----------------------------------------------------------------------------
(* http_callback.  A handler ends with the call it starts, if any.         *)
Handles(c, what) == call[c] = what /\ UNCHANGED <<loop, overlap>>
Aborts(c) == cut' = Put(cut, c, TRUE)
Close(c) ==
  /\ status' = Put(status, c, "CLOSING") /\ Start(c, "cls", 0)
  /\ UNCHANGED alive

(* TFN_TCP_ACP_CEP: nothing of http_cep is reset but the status.           *)
OnAccept(c) ==
  /\ Handles(c, "acp") /\ Start(c, "rcv", RCV_BUF_SIZE)
  /\ status' = Put(status, c, "WAIT_REQUEST") /\ alive' = Put(alive, c, TRUE)
  /\ got' = Put(got, c, 0) /\ cut' = Put(cut, c, FALSE)
  /\ UNCHANGED <<remain_data, total_rcv_len, res, fileid, cgi, lost>>

(* Mutant: leaves no room for the final 0. *)
FullTooLate(n) == n > RCV_BUF_SIZE

(* TFN_TCP_RCV_DAT: httpd_rcv_request.                                     *)
Full(n) == n > RCV_BUF_SIZE - 1

(* Mutant: the length of an unfinished request survives its connection. *)
ReceiveFailedKeepsLength(c) ==
  /\ Handles(c, "rcv") /\ Close(c) /\ Aborts(c)
  /\ UNCHANGED <<remain_data, total_rcv_len, res, fileid, cgi, got, lost>>

OnReceiveFailed(c) ==
  /\ Handles(c, "rcv") /\ Close(c) /\ Aborts(c)
  /\ total_rcv_len' = Put(total_rcv_len, c, 0)
  /\ UNCHANGED <<remain_data, res, fileid, cgi, got, lost>>

OnReceive(c, n) ==
  LET total == total_rcv_len[c] + n IN
  /\ Handles(c, "rcv") /\ UNCHANGED <<remain_data, res, fileid, cgi, got, lost>>
  /\ \/ /\ Full(total) /\ Close(c) /\ Aborts(c)
        /\ total_rcv_len' = Put(total_rcv_len, c, 0)
     \/ /\ ~Full(total) /\ Start(c, "rcv", RCV_BUF_SIZE - total)
        /\ total_rcv_len' = Put(total_rcv_len, c, total)
        /\ UNCHANGED <<status, alive, cut>>

(* The end of the request has come.  httpd_parse_request opens the file,   *)
(* makes the page or starts the CGI.                                       *)
OnRequest(c, n) ==
  /\ Handles(c, "rcv") /\ ~Full(total_rcv_len[c] + n)
  /\ total_rcv_len' = Put(total_rcv_len, c, 0)
  /\ \E r \in Resource :
       /\ res' = Put(res, c, r)
       /\ fileid' = Put(fileid, c, IF r.type = "FILE" THEN 0 ELSE fileid[c])
  /\ Start(c, "snd", HdrSize) /\ remain_data' = Put(remain_data, c, HdrSize)
  /\ status' = Put(status, c, "SEND_RESPONSE_HEADER")
  /\ UNCHANGED <<alive, cgi, got, cut, lost>>

OnPendingRequest(c, n) ==
  /\ Handles(c, "rcv") /\ ~Full(total_rcv_len[c] + n)
  /\ total_rcv_len' = Put(total_rcv_len, c, 0) /\ res' = Put(res, c, CgiError)
  /\ cgi' = cgi \cup {c} /\ status' = Put(status, c, "CGI_PENDING")
  /\ Start(c, "none", 0)
  /\ UNCHANGED <<remain_data, fileid, alive, got, cut, lost>>

(* Mutant: the response is given up, and the connection is not closed. *)
SendFailedStays(c) ==
  /\ Handles(c, "snd") /\ Start(c, "none", 0) /\ Aborts(c)
  /\ remain_data' = Put(remain_data, c, 0)
  /\ UNCHANGED <<status, total_rcv_len, res, fileid, alive, cgi, got, lost>>

(* TFN_TCP_SND_DAT with an error, whatever the status.                     *)
OnSendFailed(c) ==
  /\ Handles(c, "snd") /\ Close(c) /\ Aborts(c)
  /\ remain_data' = Put(remain_data, c, 0)
  /\ UNCHANGED <<total_rcv_len, res, fileid, cgi, got, lost>>

(* file_read moves past the next block of the file; a failure, and so one  *)
(* of a file that is not open, ends the response.                          *)
Read(c) ==
  /\ fileid[c] # -1
  /\ fileid' = Put(fileid, c, Min2(fileid[c] + BODY_BUF_SIZE, res[c].size))
ReadFailed(c) ==
  /\ Close(c) /\ Aborts(c) /\ remain_data' = Put(remain_data, c, 0)
  /\ UNCHANGED fileid

Finish(c) == Close(c) /\ remain_data' = Put(remain_data, c, 0) /\ UNCHANGED cut
SendBlock(c, n) ==
  /\ remain_data' = Put(remain_data, c, n)
  /\ Start(c, "snd", Min2(n, BODY_BUF_SIZE))
  /\ UNCHANGED <<alive, cut>>

(* The header is out.                                                      *)
OnHeaderSent(c) ==
  /\ Handles(c, "snd") /\ status[c] = "SEND_RESPONSE_HEADER"
  /\ remain_data[c] = len[c]
  /\ \/ res[c].type = "FILE" /\ ReadFailed(c)
     \/ /\ IF res[c].type = "FILE" THEN Read(c) ELSE UNCHANGED fileid
        /\ \/ /\ res[c].size > 0 /\ SendBlock(c, res[c].size)
              /\ status' = Put(status, c, "SEND_RESPONSE_BODY")
           \/ res[c].size = 0 /\ Finish(c)
  /\ UNCHANGED <<total_rcv_len, res, cgi, got, lost>>

(* remain_data says otherwise: the header is sent from where it stopped,   *)
(* again with its whole length.  Bounded to once before RemainStore.       *)
OnHeaderUnfinished(c) ==
  /\ Handles(c, "snd") /\ status[c] = "SEND_RESPONSE_HEADER"
  /\ remain_data[c] # len[c] /\ remain_data[c] >= 0
  /\ remain_data' = Put(remain_data, c, remain_data[c] - len[c])
  /\ Start(c, "snd",
           IF remain_data'[c] > BODY_BUF_SIZE THEN BODY_BUF_SIZE ELSE HdrSize)
  /\ UNCHANGED <<status, total_rcv_len, res, fileid, alive, cgi, got, cut,
                 lost>>

OnBodySent(c) ==
  /\ Handles(c, "snd") /\ status[c] = "SEND_RESPONSE_BODY"
  /\ remain_data[c] = len[c] /\ got' = Put(got, c, got[c] + len[c]) /\ Finish(c)
  /\ UNCHANGED <<total_rcv_len, res, fileid, cgi, lost>>

(* Mutant: takes every block for the last one. *)
EveryBlockIsLast(c) ==
  /\ Handles(c, "snd") /\ status[c] = "SEND_RESPONSE_BODY"
  /\ remain_data[c] # len[c] /\ got' = Put(got, c, got[c] + len[c]) /\ Finish(c)
  /\ UNCHANGED <<total_rcv_len, res, fileid, cgi, lost>>

(* Mutant: sends body_buff again without reading the file. *)
BlockNotRead(c) ==
  /\ Handles(c, "snd") /\ status[c] = "SEND_RESPONSE_BODY"
  /\ remain_data[c] # len[c] /\ got' = Put(got, c, got[c] + len[c])
  /\ SendBlock(c, remain_data[c] - len[c])
  /\ UNCHANGED <<status, total_rcv_len, res, fileid, cgi, lost>>

OnBlockSent(c) ==
  /\ Handles(c, "snd") /\ status[c] = "SEND_RESPONSE_BODY"
  /\ remain_data[c] # len[c] /\ got' = Put(got, c, got[c] + len[c])
  /\ \/ ReadFailed(c)
     \/ /\ Read(c) /\ SendBlock(c, remain_data[c] - len[c])
        /\ UNCHANGED status
  /\ UNCHANGED <<total_rcv_len, res, cgi, lost>>

(* The main program has not stored SEND_RESPONSE_HEADER yet, or has stored *)
(* ACCEPT since: the callback does nothing, and it was the last one.       *)
OnSentIgnored(c) ==
  /\ Handles(c, "snd")
  /\ status[c] \notin {"SEND_RESPONSE_HEADER", "SEND_RESPONSE_BODY"}
  /\ Start(c, "none", 0) /\ lost' = lost \cup {c}
  /\ UNCHANGED <<cep, alive, cgi, got, cut>>

(* Mutant: leaves the file open. *)
CloseKeepsFile(c) ==
  /\ Handles(c, "cls") /\ Start(c, "none", 0) /\ alive' = Put(alive, c, FALSE)
  /\ status' = Put(status, c, "CLOSED")
  /\ UNCHANGED <<remain_data, total_rcv_len, res, fileid, cgi, got, cut, lost>>

OnClose(c) ==
  /\ Handles(c, "cls") /\ Start(c, "none", 0) /\ alive' = Put(alive, c, FALSE)
  /\ status' = Put(status, c, "CLOSED") /\ fileid' = Put(fileid, c, -1)
  /\ UNCHANGED <<remain_data, total_rcv_len, res, cgi, got, cut, lost>>

Received(c) ==
  \/ OnReceiveFailed(c)
  \/ \E n \in 1 .. len[c] :
       OnReceive(c, n) \/ OnRequest(c, n) \/ OnPendingRequest(c, n)
Sent(c) ==
  OnSendFailed(c) \/ OnHeaderSent(c) \/ OnHeaderUnfinished(c) \/ OnBodySent(c)
  \/ OnBlockSent(c) \/ OnSentIgnored(c)

Callback(c) == OnAccept(c) \/ Received(c) \/ Sent(c) \/ OnClose(c)

Next == Main \/ \E c \in Cep : Release(c) \/ Callback(c)

(* The main loop runs for ever and comes back to the other tasks, where a  *)
(* CGI finishes; the library ends each send and each close; a peer that    *)
(* does not end its request leaves in the end.                             *)
Spec ==
  /\ Init /\ [][Next]_vars /\ WF_vars(Main)
  /\ \A c \in Cep : /\ SF_vars(Release(c)) /\ WF_vars(Sent(c))
                    /\ WF_vars(OnClose(c)) /\ WF_vars(OnReceiveFailed(c))

-----------------------------------------------------------------------------
(* Every variable has its type; total_rcv_len leaves room in rcv_buff for  *)
(* the 0 that ends the request.                                            *)
TypeOK ==
  /\ status \in [Cep -> Status] /\ remain_data \in [Cep -> Int]
  /\ total_rcv_len \in [Cep -> 0 .. RCV_BUF_SIZE - 1]
  /\ res \in [Cep -> Resource] /\ fileid \in [Cep -> -1 .. MaxFile]
  /\ call \in [Cep -> Call] /\ len \in [Cep -> Nat]
  /\ alive \in [Cep -> BOOLEAN] /\ cgi \in SUBSET Cep
  /\ main \in {"loop", "accepting", "generated", "header"} /\ at \in Cep
  /\ got \in [Cep -> Nat] /\ cut \in [Cep -> BOOLEAN] /\ lost \in SUBSET Cep
  /\ overlap \in BOOLEAN

(* R_httpd never calls the library for an endpoint that is still owed a    *)
(* callback, however the callbacks change the status it decides by.        *)
OneCallAtATime == ~overlap

(* A request that comes in pieces is received behind its first pieces and  *)
(* to the end of rcv_buff, and a new connection starts at its beginning.   *)
ReceiveInBounds ==
  \A c \in Cep : call[c] = "rcv" =>
    len[c] > 0 /\ total_rcv_len[c] + len[c] = RCV_BUF_SIZE

(* A file is open only while the connection that asked for it lives: none  *)
(* of the ways a connection ends leaks one of the few entries of the file  *)
(* driver.                                                                 *)
FilesFollowConnections == \A c \in Cep : fileid[c] # -1 => alive[c]

(* body_buff is the block the peer is waiting for: of a file, the next one *)
(* after what it has; of a page, all of it.                                *)
BufferHoldsWhatIsSent ==
  \A c \in Cep :
    status[c] = "SEND_RESPONSE_BODY" /\ call[c] = "snd" =>
      IF res[c].type = "FILE" THEN got[c] + len[c] = fileid[c]
                              ELSE got[c] = 0 /\ len[c] = res[c].size

(* A connection the server closes, without a failure of the library, of    *)
(* the file or of the request, has carried the whole body.                 *)
WholeResponse ==
  \A c \in Cep : call[c] = "cls" /\ ~cut[c] => got[c] = res[c].size

(* Every endpoint accepts again and again, unless the main program has     *)
(* stored a status over the one a callback left, or too late for it.       *)
ServesAgain == \A c \in Cep : []<>(call[c] = "acp" \/ c \in lost)

(* Every endpoint accepts again and again.                                 *)
EndpointsServeAgain == \A c \in Cep : []<>(call[c] = "acp")
=============================================================================
