------------------------------- MODULE HttpProofs ------------------------------
(***************************************************************************)
(* Theorems about Http, for any number of endpoints and any sizes of the   *)
(* buffers, of the header and of the files.  One invariant, IInv, carries  *)
(* them all: what an endpoint is owed and what its fields hold depend on   *)
(* each other, and on the step of R_httpd the endpoint is in.              *)
(***************************************************************************)
EXTENDS Http, TLAPS

(* R_httpd has sent the header of a finished CGI, and not stored it all.   *)
Sending(c) == main \in {"generated", "header"} /\ at = c
Accepting(c) == main = "accepting" /\ at = c
Generated(c) == main = "generated" /\ at = c

(* When an endpoint is owed no callback.                                   *)
Owed(c) ==
  /\ status[c] = "CLOSED" => call[c] = "none" \/ Accepting(c)
  /\ status[c] = "CGI_GEN_RESPONSE" => call[c] = "none" \/ Generated(c)
  /\ c \in cgi => /\ call[c] = "none" /\ ~Sending(c)
                  /\ status[c] \notin {"CLOSED", "CGI_GEN_RESPONSE"}
  /\ Sending(c) => call[c] \in {"none", "snd", "cls"}

(* total_rcv_len is what has come of the request being received.           *)
Receiving(c) ==
  IF call[c] = "rcv"
    THEN len[c] > 0 /\ total_rcv_len[c] + len[c] = RCV_BUF_SIZE
    ELSE total_rcv_len[c] = 0

(* A file is open while the response made from it is sent.                 *)
FileOpen(c) ==
  /\ fileid[c] # -1 => /\ alive[c] /\ res[c].type = "FILE"
                       /\ call[c] \notin {"acp", "rcv"}
                       /\ status[c] # "CLOSED"
  /\ call[c] \in {"rcv", "snd", "cls"} => alive[c]
  /\ c \in cgi \/ status[c] = "CGI_GEN_RESPONSE" => alive[c]
  /\ c \in cgi \/ status[c] = "CGI_GEN_RESPONSE" \/ Sending(c) =>
       res[c].type = "CGI"

(* Nothing of the body is out before the header is.                        *)
Fresh(c) ==
  /\ call[c] = "rcv" \/ c \in cgi \/ status[c] = "CGI_GEN_RESPONSE" =>
       got[c] = 0
  /\ call[c] = "snd" /\ status[c] = "SEND_RESPONSE_HEADER" =>
       got[c] = 0 /\ (res[c].type = "FILE" => fileid[c] = 0)
  /\ call[c] = "snd" /\ Generated(c) => got[c] = 0

(* Where the response is while a block of its body is out.                 *)
Body(c) ==
  status[c] = "SEND_RESPONSE_BODY" /\ call[c] = "snd" =>
    IF res[c].type = "FILE"
      THEN /\ got[c] + remain_data[c] = res[c].size
           /\ got[c] + len[c] = fileid[c]
           /\ len[c] = Min2(remain_data[c], BODY_BUF_SIZE)
      ELSE got[c] = 0 /\ len[c] = res[c].size

Closing(c) == call[c] = "cls" /\ ~cut[c] => got[c] = res[c].size

Local(c) ==
  Owed(c) /\ Receiving(c) /\ FileOpen(c) /\ Fresh(c) /\ Body(c) /\ Closing(c)

IInv == TypeOK /\ ~overlap /\ \A c \in Cep : Local(c)

-----------------------------------------------------------------------------
(* What a resource may be.                                                 *)
LEMMA ResourceFacts ==
  /\ \A r \in Resource :
       /\ r.size \in Nat /\ r.type \in {"NONE", "INDEXES", "FILE", "CGI"}
       /\ IF r.type = "FILE" THEN r.size <= MaxFile ELSE r.size < BODY_BUF_SIZE
  /\ CgiError \in Resource /\ CgiError.type = "CGI"
  /\ ErrorPage \in Resource
  /\ \A page \in Page("CGI") \cup {CgiError} :
       page \in Resource /\ page.type = "CGI"
BY HttpAssumption
DEF HttpAssumption, Resource, Page, File, CgiError, ErrorPage

(* An endpoint a step does not touch.                                      *)
Same(d) ==
  /\ status'[d] = status[d] /\ remain_data'[d] = remain_data[d]
  /\ total_rcv_len'[d] = total_rcv_len[d] /\ res'[d] = res[d]
  /\ fileid'[d] = fileid[d] /\ call'[d] = call[d] /\ len'[d] = len[d]
  /\ alive'[d] = alive[d] /\ got'[d] = got[d] /\ cut'[d] = cut[d]
  /\ d \in cgi' <=> d \in cgi
  /\ Sending(d)' <=> Sending(d)
  /\ Accepting(d)' <=> Accepting(d)
  /\ Generated(d)' <=> Generated(d)

(* Its part of the invariant stays.                                        *)
LEMMA SameLocal ==
  ASSUME NEW d \in Cep, Local(d), Same(d)
  PROVE  Local(d)'
<1>1. Owed(d)'
  BY DEF Local, Owed, Same
<1>2. Receiving(d)'
  BY DEF Local, Receiving, Same
<1>3. FileOpen(d)'
  BY DEF Local, FileOpen, Same
<1>4. Fresh(d)'
  BY DEF Local, Fresh, Same
<1>5. Body(d)'
  BY DEF Local, Body, Same
<1>6. Closing(d)'
  BY DEF Local, Closing, Same
<1>7. QED
  BY <1>1, <1>2, <1>3, <1>4, <1>5, <1>6 DEF Local

(* R_httpd goes from each endpoint to another one.                         *)
LEMMA NextCep ==
  ASSUME NEW c \in Cep
  PROVE  (c % HTTP_TCP_CEP_NUM) + 1 \in Cep
<1>1. c \in Nat /\ HTTP_TCP_CEP_NUM \in Nat \ {0}
  BY HttpAssumption DEF HttpAssumption, Cep
<1>2. c % HTTP_TCP_CEP_NUM \in 0 .. HTTP_TCP_CEP_NUM - 1
  BY <1>1
<1>3. QED
  BY <1>1, <1>2 DEF Cep

-----------------------------------------------------------------------------
LEMMA Initially == Init => IInv
<1>1. SUFFICES ASSUME Init PROVE IInv
  OBVIOUS
<1>2. TypeOK
  <2>1. 0 \in 0 .. RCV_BUF_SIZE - 1 /\ -1 \in -1 .. MaxFile /\ 1 \in Cep
    BY HttpAssumption DEF HttpAssumption, Cep
  <2>2. /\ status \in [Cep -> Status] /\ call \in [Cep -> Call]
        /\ res \in [Cep -> Resource] /\ fileid \in [Cep -> -1 .. MaxFile]
        /\ total_rcv_len \in [Cep -> 0 .. RCV_BUF_SIZE - 1]
    BY <1>1, <2>1, ResourceFacts DEF Init, All, Status, Call
  <2>3. /\ remain_data \in [Cep -> Int] /\ len \in [Cep -> Nat]
        /\ got \in [Cep -> Nat]
    BY <1>1 DEF Init, All
  <2>4. alive \in [Cep -> BOOLEAN] /\ cut \in [Cep -> BOOLEAN]
    BY <1>1 DEF Init, All
  <2>5. QED
    BY <1>1, <2>1, <2>2, <2>3, <2>4 DEF Init, TypeOK
<1>3. ASSUME NEW c \in Cep PROVE Local(c)
  BY <1>1, <1>3
  DEF Init, All, Local, Owed, Receiving, FileOpen, Fresh, Body, Closing,
      Sending, Accepting, Generated
<1>4. QED
  BY <1>1, <1>2, <1>3 DEF IInv, Init

-----------------------------------------------------------------------------
(* R_httpd accepts: nothing is owed to a closed endpoint.                  *)
LEMMA AcceptStep ==
  ASSUME NEW c \in Cep, c = at, IInv, Accept
  PROVE  IInv'
<1>1. TypeOK /\ ~overlap /\ c \in Cep /\ Local(c)
  BY DEF IInv, TypeOK
<1>2. TypeOK'
  <2>1. call' \in [Cep -> Call]
    BY <1>1 DEF Accept, MainStart, From, cep, loop, Put, Start, TypeOK, Call
  <2>2. len' \in [Cep -> Nat]
    BY <1>1, HttpAssumption, ResourceFacts
    DEF Accept, MainStart, From, cep, loop, Put, Start, TypeOK, HttpAssumption
  <2>3. main' \in {"loop", "accepting", "generated", "header"}
    BY <1>1 DEF Accept, MainStart, From, cep, loop, Put, Start, TypeOK
  <2>4. overlap' \in BOOLEAN
    BY <1>1 DEF Accept, MainStart, From, cep, loop, Put, Start, TypeOK
  <2>5. QED
    BY <1>1, <2>1, <2>2, <2>3, <2>4
    DEF Accept, MainStart, From, cep, loop, Put, Start, TypeOK
<1>3. ~overlap'
  BY <1>1
  DEF Accept, MainStart, From, cep, loop, Put, Start, TypeOK, Local, Owed,
      Accepting, Generated
<1>4. ASSUME NEW d \in Cep, d # c PROVE Local(d)'
  <2>1. Same(d)
    BY <1>1, <1>4
    DEF Accept, MainStart, From, cep, loop, Put, Start, TypeOK, Same, Sending,
        Accepting, Generated
  <2>2. QED
    BY <1>4, <2>1, SameLocal DEF IInv
<1>5. Local(c)'
  <2>1. Owed(c)'
    BY <1>1
    DEF Accept, MainStart, From, cep, loop, Put, Start, TypeOK, Local, Owed,
        Sending, Accepting, Generated
  <2>2. Receiving(c)'
    BY <1>1, HttpAssumption
    DEF Accept, MainStart, From, cep, loop, Put, Start, TypeOK, HttpAssumption,
        Local, Receiving, Owed, Sending, Accepting, Generated
  <2>3. FileOpen(c)'
    BY <1>1
    DEF Accept, MainStart, From, cep, loop, Put, Start, TypeOK, Local,
        FileOpen, Owed, Sending, Accepting, Generated
  <2>4. Fresh(c)'
    BY <1>1
    DEF Accept, MainStart, From, cep, loop, Put, Start, TypeOK, Local, Fresh,
        Owed, FileOpen, Sending, Accepting, Generated
  <2>5. Body(c)'
    BY <1>1
    DEF Accept, MainStart, From, cep, loop, Put, Start, TypeOK, Local, Body,
        Fresh, Owed, FileOpen, Sending, Accepting, Generated
  <2>6. Closing(c)'
    BY <1>1
    DEF Accept, MainStart, From, cep, loop, Put, Start, TypeOK, Local, Closing,
        Body, Fresh, Owed, FileOpen, Sending, Accepting, Generated
  <2>7. QED
    BY <2>1, <2>2, <2>3, <2>4, <2>5, <2>6 DEF Local
<1>6. QED
  BY <1>2, <1>3, <1>4, <1>5 DEF IInv
-----------------------------------------------------------------------------
(* R_httpd stores ACCEPT over whatever the callbacks left.                 *)
LEMMA AcceptStoreStep ==
  ASSUME NEW c \in Cep, c = at, IInv, AcceptStore
  PROVE  IInv'
<1>1. TypeOK /\ ~overlap /\ c \in Cep /\ Local(c)
  BY DEF IInv, TypeOK
<1>2. TypeOK'
  <2>1. status' \in [Cep -> Status]
    BY <1>1
    DEF AcceptStore, From, Visited, Overwrites, library, loop, Put, TypeOK,
        Status
  <2>2. main' \in {"loop", "accepting", "generated", "header"}
    BY <1>1
    DEF AcceptStore, From, Visited, Overwrites, library, loop, Put, TypeOK
  <2>3. at' \in Cep
    BY <1>1, NextCep
    DEF AcceptStore, From, Visited, Overwrites, library, loop, Put, TypeOK
  <2>4. lost' \in SUBSET Cep
    BY <1>1
    DEF AcceptStore, From, Visited, Overwrites, library, loop, Put, TypeOK
  <2>5. QED
    BY <1>1, <2>1, <2>2, <2>3, <2>4
    DEF AcceptStore, From, Visited, Overwrites, library, loop, Put, TypeOK
<1>3. ~overlap'
  BY <1>1
  DEF AcceptStore, From, Visited, Overwrites, library, loop, Put, TypeOK,
      Local, Owed, Accepting, Generated
<1>4. ASSUME NEW d \in Cep, d # c PROVE Local(d)'
  <2>1. Same(d)
    BY <1>1, <1>4
    DEF AcceptStore, From, Visited, Overwrites, library, loop, Put, TypeOK,
        Same, Sending, Accepting, Generated
  <2>2. QED
    BY <1>4, <2>1, SameLocal DEF IInv
<1>5. Local(c)'
  <2>1. Owed(c)'
    BY <1>1
    DEF AcceptStore, From, Visited, Overwrites, library, loop, Put, TypeOK,
        Local, Owed, Sending, Accepting, Generated
  <2>2. Receiving(c)'
    BY <1>1, HttpAssumption
    DEF AcceptStore, From, Visited, Overwrites, library, loop, Put, TypeOK,
        HttpAssumption, Local, Receiving, Owed, Sending, Accepting, Generated
  <2>3. FileOpen(c)'
    BY <1>1
    DEF AcceptStore, From, Visited, Overwrites, library, loop, Put, TypeOK,
        Local, FileOpen, Owed, Sending, Accepting, Generated
  <2>4. Fresh(c)'
    BY <1>1
    DEF AcceptStore, From, Visited, Overwrites, library, loop, Put, TypeOK,
        Local, Fresh, Owed, FileOpen, Sending, Accepting, Generated
  <2>5. Body(c)'
    BY <1>1
    DEF AcceptStore, From, Visited, Overwrites, library, loop, Put, TypeOK,
        Local, Body, Fresh, Owed, FileOpen, Sending, Accepting, Generated
  <2>6. Closing(c)'
    BY <1>1
    DEF AcceptStore, From, Visited, Overwrites, library, loop, Put, TypeOK,
        Local, Closing, Body, Fresh, Owed, FileOpen, Sending, Accepting,
        Generated
  <2>7. QED
    BY <2>1, <2>2, <2>3, <2>4, <2>5, <2>6 DEF Local
<1>6. QED
  BY <1>2, <1>3, <1>4, <1>5 DEF IInv
-----------------------------------------------------------------------------
(* R_httpd sends the header of a finished CGI.                             *)
LEMMA GenerateStep ==
  ASSUME NEW c \in Cep, c = at, IInv, Generate
  PROVE  IInv'
<1>1. TypeOK /\ ~overlap /\ c \in Cep /\ Local(c)
  BY DEF IInv, TypeOK
<1>2. TypeOK'
  <2>1. res' \in [Cep -> Resource]
    BY <1>1, ResourceFacts
    DEF Generate, MainStart, From, loop, Put, Start, TypeOK
  <2>2. call' \in [Cep -> Call]
    BY <1>1 DEF Generate, MainStart, From, loop, Put, Start, TypeOK, Call
  <2>3. len' \in [Cep -> Nat]
    BY <1>1, HttpAssumption, ResourceFacts
    DEF Generate, MainStart, From, loop, Put, Start, TypeOK, HttpAssumption
  <2>4. main' \in {"loop", "accepting", "generated", "header"}
    BY <1>1 DEF Generate, MainStart, From, loop, Put, Start, TypeOK
  <2>5. overlap' \in BOOLEAN
    BY <1>1 DEF Generate, MainStart, From, loop, Put, Start, TypeOK
  <2>6. QED
    BY <1>1, <2>1, <2>2, <2>3, <2>4, <2>5
    DEF Generate, MainStart, From, loop, Put, Start, TypeOK
<1>3. ~overlap'
  BY <1>1
  DEF Generate, MainStart, From, loop, Put, Start, TypeOK, Local, Owed,
      Accepting, Generated
<1>4. ASSUME NEW d \in Cep, d # c PROVE Local(d)'
  <2>1. Same(d)
    BY <1>1, <1>4
    DEF Generate, MainStart, From, loop, Put, Start, TypeOK, Same, Sending,
        Accepting, Generated
  <2>2. QED
    BY <1>4, <2>1, SameLocal DEF IInv
<1>5. Local(c)'
  <2>1. Owed(c)'
    BY <1>1
    DEF Generate, MainStart, From, loop, Put, Start, TypeOK, Local, Owed,
        Sending, Accepting, Generated
  <2>2. Receiving(c)'
    BY <1>1, HttpAssumption
    DEF Generate, MainStart, From, loop, Put, Start, TypeOK, HttpAssumption,
        Local, Receiving, Owed, Sending, Accepting, Generated
  <2>3. FileOpen(c)'
    <3>1. fileid[c] = -1 /\ fileid'[c] = -1
      BY <1>1 DEF Generate, cep, Local, FileOpen
    <3>2. res'[c].type = "CGI"
      BY <1>1, ResourceFacts DEF Generate, Put, TypeOK
    <3>3. alive'[c]
      BY <1>1 DEF Generate, MainStart, Local, FileOpen
    <3>4. QED
      BY <3>1, <3>2, <3>3 DEF FileOpen
  <2>4. Fresh(c)'
    BY <1>1
    DEF Generate, MainStart, From, loop, Put, Start, TypeOK, Local, Fresh,
        Owed, FileOpen, Sending, Accepting, Generated
  <2>5. Body(c)'
    BY <1>1
    DEF Generate, MainStart, From, loop, Put, Start, TypeOK, Local, Body,
        Fresh, Owed, FileOpen, Sending, Accepting, Generated
  <2>6. Closing(c)'
    BY <1>1
    DEF Generate, MainStart, From, loop, Put, Start, TypeOK, Local, Closing,
        Body, Fresh, Owed, FileOpen, Sending, Accepting, Generated
  <2>7. QED
    BY <2>1, <2>2, <2>3, <2>4, <2>5, <2>6 DEF Local
<1>6. QED
  BY <1>2, <1>3, <1>4, <1>5 DEF IInv
-----------------------------------------------------------------------------
(* R_httpd stores the status of that response.                             *)
LEMMA GenerateStoreStep ==
  ASSUME NEW c \in Cep, c = at, IInv, GenerateStore
  PROVE  IInv'
<1>1. TypeOK /\ ~overlap /\ c \in Cep /\ Local(c)
  BY DEF IInv, TypeOK
<1>2. TypeOK'
  <2>1. status' \in [Cep -> Status]
    BY <1>1 DEF GenerateStore, From, Overwrites, library, Put, TypeOK, Status
  <2>2. main' \in {"loop", "accepting", "generated", "header"}
    BY <1>1 DEF GenerateStore, From, Overwrites, library, Put, TypeOK
  <2>3. lost' \in SUBSET Cep
    BY <1>1 DEF GenerateStore, From, Overwrites, library, Put, TypeOK
  <2>4. QED
    BY <1>1, <2>1, <2>2, <2>3
    DEF GenerateStore, From, Overwrites, library, Put, TypeOK
<1>3. ~overlap'
  BY <1>1
  DEF GenerateStore, From, Overwrites, library, Put, TypeOK, Local, Owed,
      Accepting, Generated
<1>4. ASSUME NEW d \in Cep, d # c PROVE Local(d)'
  <2>1. Same(d)
    BY <1>1, <1>4
    DEF GenerateStore, From, Overwrites, library, Put, TypeOK, Same, Sending,
        Accepting, Generated
  <2>2. QED
    BY <1>4, <2>1, SameLocal DEF IInv
<1>5. Local(c)'
  <2>1. Owed(c)'
    BY <1>1
    DEF GenerateStore, From, Overwrites, library, Put, TypeOK, Local, Owed,
        Sending, Accepting, Generated
  <2>2. Receiving(c)'
    BY <1>1, HttpAssumption
    DEF GenerateStore, From, Overwrites, library, Put, TypeOK, HttpAssumption,
        Local, Receiving, Owed, Sending, Accepting, Generated
  <2>3. FileOpen(c)'
    BY <1>1
    DEF GenerateStore, From, Overwrites, library, Put, TypeOK, Local, FileOpen,
        Owed, Sending, Accepting, Generated
  <2>4. Fresh(c)'
    BY <1>1
    DEF GenerateStore, From, Overwrites, library, Put, TypeOK, Local, Fresh,
        Owed, FileOpen, Sending, Accepting, Generated
  <2>5. Body(c)'
    BY <1>1
    DEF GenerateStore, From, Overwrites, library, Put, TypeOK, Local, Body,
        Fresh, Owed, FileOpen, Sending, Accepting, Generated
  <2>6. Closing(c)'
    BY <1>1
    DEF GenerateStore, From, Overwrites, library, Put, TypeOK, Local, Closing,
        Body, Fresh, Owed, FileOpen, Sending, Accepting, Generated
  <2>7. QED
    BY <2>1, <2>2, <2>3, <2>4, <2>5, <2>6 DEF Local
<1>6. QED
  BY <1>2, <1>3, <1>4, <1>5 DEF IInv
-----------------------------------------------------------------------------
(* R_httpd stores its length.                                              *)
LEMMA RemainStoreStep ==
  ASSUME NEW c \in Cep, c = at, IInv, RemainStore
  PROVE  IInv'
<1>1. TypeOK /\ ~overlap /\ c \in Cep /\ Local(c)
  BY DEF IInv, TypeOK
<1>2. TypeOK'
  <2>1. remain_data' \in [Cep -> Int]
    BY <1>1, HttpAssumption, ResourceFacts
    DEF RemainStore, From, Visited, library, loop, Put, TypeOK, HttpAssumption
  <2>2. main' \in {"loop", "accepting", "generated", "header"}
    BY <1>1 DEF RemainStore, From, Visited, library, loop, Put, TypeOK
  <2>3. at' \in Cep
    BY <1>1, NextCep DEF RemainStore, From, Visited, library, loop, Put, TypeOK
  <2>4. QED
    BY <1>1, <2>1, <2>2, <2>3
    DEF RemainStore, From, Visited, library, loop, Put, TypeOK
<1>3. ~overlap'
  BY <1>1
  DEF RemainStore, From, Visited, library, loop, Put, TypeOK, Local, Owed,
      Accepting, Generated
<1>4. ASSUME NEW d \in Cep, d # c PROVE Local(d)'
  <2>1. Same(d)
    BY <1>1, <1>4
    DEF RemainStore, From, Visited, library, loop, Put, TypeOK, Same, Sending,
        Accepting, Generated
  <2>2. QED
    BY <1>4, <2>1, SameLocal DEF IInv
<1>5. Local(c)'
  <2>1. Owed(c)'
    BY <1>1
    DEF RemainStore, From, Visited, library, loop, Put, TypeOK, Local, Owed,
        Sending, Accepting, Generated
  <2>2. Receiving(c)'
    BY <1>1, HttpAssumption
    DEF RemainStore, From, Visited, library, loop, Put, TypeOK, HttpAssumption,
        Local, Receiving, Owed, Sending, Accepting, Generated
  <2>3. FileOpen(c)'
    BY <1>1
    DEF RemainStore, From, Visited, library, loop, Put, TypeOK, Local,
        FileOpen, Owed, Sending, Accepting, Generated
  <2>4. Fresh(c)'
    BY <1>1
    DEF RemainStore, From, Visited, library, loop, Put, TypeOK, Local, Fresh,
        Owed, FileOpen, Sending, Accepting, Generated
  <2>5. Body(c)'
    BY <1>1
    DEF RemainStore, From, Visited, library, loop, Put, TypeOK, Local, Body,
        Fresh, Owed, FileOpen, Sending, Accepting, Generated
  <2>6. Closing(c)'
    BY <1>1
    DEF RemainStore, From, Visited, library, loop, Put, TypeOK, Local, Closing,
        Body, Fresh, Owed, FileOpen, Sending, Accepting, Generated
  <2>7. QED
    BY <2>1, <2>2, <2>3, <2>4, <2>5, <2>6 DEF Local
<1>6. QED
  BY <1>2, <1>3, <1>4, <1>5 DEF IInv
-----------------------------------------------------------------------------
(* R_httpd passes an endpoint.                                             *)
LEMMA SkipStep ==
  ASSUME NEW c \in Cep, c = at, IInv, Skip
  PROVE  IInv'
<1>1. TypeOK /\ ~overlap /\ c \in Cep /\ Local(c)
  BY DEF IInv, TypeOK
<1>2. TypeOK'
  <2>1. at' \in Cep
    BY <1>1, NextCep DEF Skip, From, Visited, cep, library, loop, TypeOK
  <2>2. QED
    BY <1>1, <2>1 DEF Skip, From, Visited, cep, library, loop, TypeOK
<1>3. ~overlap'
  BY <1>1
  DEF Skip, From, Visited, cep, library, loop, TypeOK, Local, Owed, Accepting,
      Generated
<1>4. ASSUME NEW d \in Cep, d # c PROVE Local(d)'
  <2>1. Same(d)
    BY <1>1, <1>4
    DEF Skip, From, Visited, cep, library, loop, TypeOK, Same, Sending,
        Accepting, Generated
  <2>2. QED
    BY <1>4, <2>1, SameLocal DEF IInv
<1>5. Local(c)'
  <2>1. Owed(c)'
    BY <1>1
    DEF Skip, From, Visited, cep, library, loop, TypeOK, Local, Owed, Sending,
        Accepting, Generated
  <2>2. Receiving(c)'
    BY <1>1, HttpAssumption
    DEF Skip, From, Visited, cep, library, loop, TypeOK, HttpAssumption, Local,
        Receiving, Owed, Sending, Accepting, Generated
  <2>3. FileOpen(c)'
    BY <1>1
    DEF Skip, From, Visited, cep, library, loop, TypeOK, Local, FileOpen, Owed,
        Sending, Accepting, Generated
  <2>4. Fresh(c)'
    BY <1>1
    DEF Skip, From, Visited, cep, library, loop, TypeOK, Local, Fresh, Owed,
        FileOpen, Sending, Accepting, Generated
  <2>5. Body(c)'
    BY <1>1
    DEF Skip, From, Visited, cep, library, loop, TypeOK, Local, Body, Fresh,
        Owed, FileOpen, Sending, Accepting, Generated
  <2>6. Closing(c)'
    BY <1>1
    DEF Skip, From, Visited, cep, library, loop, TypeOK, Local, Closing, Body,
        Fresh, Owed, FileOpen, Sending, Accepting, Generated
  <2>7. QED
    BY <2>1, <2>2, <2>3, <2>4, <2>5, <2>6 DEF Local
<1>6. QED
  BY <1>2, <1>3, <1>4, <1>5 DEF IInv
-----------------------------------------------------------------------------
(* A CGI has finished.                                                     *)
LEMMA ReleaseStep ==
  ASSUME NEW c \in Cep, IInv, Release(c)
  PROVE  IInv'
<1>1. TypeOK /\ ~overlap /\ c \in Cep /\ Local(c)
  BY DEF IInv, TypeOK
<1>2. TypeOK'
  <2>1. status' \in [Cep -> Status]
    BY <1>1 DEF Release, From, library, loop, Put, TypeOK, Status
  <2>2. cgi' \in SUBSET Cep
    BY <1>1 DEF Release, From, library, loop, Put, TypeOK
  <2>3. QED
    BY <1>1, <2>1, <2>2 DEF Release, From, library, loop, Put, TypeOK
<1>3. ~overlap'
  BY <1>1
  DEF Release, From, library, loop, Put, TypeOK, Local, Owed, Accepting,
      Generated
<1>4. ASSUME NEW d \in Cep, d # c PROVE Local(d)'
  <2>1. Same(d)
    BY <1>1, <1>4
    DEF Release, From, library, loop, Put, TypeOK, Same, Sending, Accepting,
        Generated
  <2>2. QED
    BY <1>4, <2>1, SameLocal DEF IInv
<1>5. Local(c)'
  <2>1. Owed(c)'
    BY <1>1
    DEF Release, From, library, loop, Put, TypeOK, Local, Owed, Sending,
        Accepting, Generated
  <2>2. Receiving(c)'
    BY <1>1, HttpAssumption
    DEF Release, From, library, loop, Put, TypeOK, HttpAssumption, Local,
        Receiving, Owed, Sending, Accepting, Generated
  <2>3. FileOpen(c)'
    BY <1>1
    DEF Release, From, library, loop, Put, TypeOK, Local, FileOpen, Owed,
        Sending, Accepting, Generated
  <2>4. Fresh(c)'
    BY <1>1
    DEF Release, From, library, loop, Put, TypeOK, Local, Fresh, Owed,
        FileOpen, Sending, Accepting, Generated
  <2>5. Body(c)'
    BY <1>1
    DEF Release, From, library, loop, Put, TypeOK, Local, Body, Fresh, Owed,
        FileOpen, Sending, Accepting, Generated
  <2>6. Closing(c)'
    BY <1>1
    DEF Release, From, library, loop, Put, TypeOK, Local, Closing, Body, Fresh,
        Owed, FileOpen, Sending, Accepting, Generated
  <2>7. QED
    BY <2>1, <2>2, <2>3, <2>4, <2>5, <2>6 DEF Local
<1>6. QED
  BY <1>2, <1>3, <1>4, <1>5 DEF IInv
-----------------------------------------------------------------------------
(* A connection is accepted.                                               *)
LEMMA OnAcceptStep ==
  ASSUME NEW c \in Cep, IInv, OnAccept(c)
  PROVE  IInv'
<1>1. TypeOK /\ ~overlap /\ c \in Cep /\ Local(c)
  BY DEF IInv, TypeOK
<1>2. TypeOK'
  <2>1. status' \in [Cep -> Status]
    BY <1>1 DEF OnAccept, Handles, loop, Put, Start, TypeOK, Status
  <2>2. call' \in [Cep -> Call]
    BY <1>1 DEF OnAccept, Handles, loop, Put, Start, TypeOK, Call
  <2>3. len' \in [Cep -> Nat]
    BY <1>1, HttpAssumption, ResourceFacts
    DEF OnAccept, Handles, loop, Put, Start, TypeOK, HttpAssumption
  <2>4. alive' \in [Cep -> BOOLEAN]
    BY <1>1 DEF OnAccept, Handles, loop, Put, Start, TypeOK
  <2>5. got' \in [Cep -> Nat]
    BY <1>1 DEF OnAccept, Handles, loop, Put, Start, TypeOK
  <2>6. cut' \in [Cep -> BOOLEAN]
    BY <1>1 DEF OnAccept, Handles, loop, Put, Start, TypeOK
  <2>7. QED
    BY <1>1, <2>1, <2>2, <2>3, <2>4, <2>5, <2>6
    DEF OnAccept, Handles, loop, Put, Start, TypeOK
<1>3. ~overlap'
  BY <1>1
  DEF OnAccept, Handles, loop, Put, Start, TypeOK, Local, Owed, Accepting,
      Generated
<1>4. ASSUME NEW d \in Cep, d # c PROVE Local(d)'
  <2>1. Same(d)
    BY <1>1, <1>4
    DEF OnAccept, Handles, loop, Put, Start, TypeOK, Same, Sending, Accepting,
        Generated
  <2>2. QED
    BY <1>4, <2>1, SameLocal DEF IInv
<1>5. Local(c)'
  <2>1. Owed(c)'
    BY <1>1
    DEF OnAccept, Handles, loop, Put, Start, TypeOK, Local, Owed, Sending,
        Accepting, Generated
  <2>2. Receiving(c)'
    BY <1>1, HttpAssumption
    DEF OnAccept, Handles, loop, Put, Start, TypeOK, HttpAssumption, Local,
        Receiving, Owed, Sending, Accepting, Generated
  <2>3. FileOpen(c)'
    BY <1>1
    DEF OnAccept, Handles, loop, Put, Start, TypeOK, Local, FileOpen, Owed,
        Sending, Accepting, Generated
  <2>4. Fresh(c)'
    BY <1>1
    DEF OnAccept, Handles, loop, Put, Start, TypeOK, Local, Fresh, Owed,
        FileOpen, Sending, Accepting, Generated
  <2>5. Body(c)'
    BY <1>1
    DEF OnAccept, Handles, loop, Put, Start, TypeOK, Local, Body, Fresh, Owed,
        FileOpen, Sending, Accepting, Generated
  <2>6. Closing(c)'
    BY <1>1
    DEF OnAccept, Handles, loop, Put, Start, TypeOK, Local, Closing, Body,
        Fresh, Owed, FileOpen, Sending, Accepting, Generated
  <2>7. QED
    BY <2>1, <2>2, <2>3, <2>4, <2>5, <2>6 DEF Local
<1>6. QED
  BY <1>2, <1>3, <1>4, <1>5 DEF IInv
-----------------------------------------------------------------------------
(* The peer leaves.                                                        *)
LEMMA OnReceiveFailedStep ==
  ASSUME NEW c \in Cep, IInv, OnReceiveFailed(c)
  PROVE  IInv'
<1>1. TypeOK /\ ~overlap /\ c \in Cep /\ Local(c)
  BY DEF IInv, TypeOK
<1>2. TypeOK'
  <2>1. status' \in [Cep -> Status]
    BY <1>1
    DEF OnReceiveFailed, Handles, Close, Aborts, loop, Put, Start, TypeOK,
        Status
  <2>2. total_rcv_len' \in [Cep -> 0 .. RCV_BUF_SIZE - 1]
    BY <1>1, HttpAssumption
    DEF OnReceiveFailed, Handles, Close, Aborts, loop, Put, Start, TypeOK,
        HttpAssumption
  <2>3. call' \in [Cep -> Call]
    BY <1>1
    DEF OnReceiveFailed, Handles, Close, Aborts, loop, Put, Start, TypeOK, Call
  <2>4. len' \in [Cep -> Nat]
    BY <1>1, HttpAssumption, ResourceFacts
    DEF OnReceiveFailed, Handles, Close, Aborts, loop, Put, Start, TypeOK,
        HttpAssumption
  <2>5. cut' \in [Cep -> BOOLEAN]
    BY <1>1
    DEF OnReceiveFailed, Handles, Close, Aborts, loop, Put, Start, TypeOK
  <2>6. QED
    BY <1>1, <2>1, <2>2, <2>3, <2>4, <2>5
    DEF OnReceiveFailed, Handles, Close, Aborts, loop, Put, Start, TypeOK
<1>3. ~overlap'
  BY <1>1
  DEF OnReceiveFailed, Handles, Close, Aborts, loop, Put, Start, TypeOK, Local,
      Owed, Accepting, Generated
<1>4. ASSUME NEW d \in Cep, d # c PROVE Local(d)'
  <2>1. Same(d)
    BY <1>1, <1>4
    DEF OnReceiveFailed, Handles, Close, Aborts, loop, Put, Start, TypeOK,
        Same, Sending, Accepting, Generated
  <2>2. QED
    BY <1>4, <2>1, SameLocal DEF IInv
<1>5. Local(c)'
  <2>1. Owed(c)'
    BY <1>1
    DEF OnReceiveFailed, Handles, Close, Aborts, loop, Put, Start, TypeOK,
        Local, Owed, Sending, Accepting, Generated
  <2>2. Receiving(c)'
    BY <1>1, HttpAssumption
    DEF OnReceiveFailed, Handles, Close, Aborts, loop, Put, Start, TypeOK,
        HttpAssumption, Local, Receiving, Owed, Sending, Accepting, Generated
  <2>3. FileOpen(c)'
    BY <1>1
    DEF OnReceiveFailed, Handles, Close, Aborts, loop, Put, Start, TypeOK,
        Local, FileOpen, Owed, Sending, Accepting, Generated
  <2>4. Fresh(c)'
    BY <1>1
    DEF OnReceiveFailed, Handles, Close, Aborts, loop, Put, Start, TypeOK,
        Local, Fresh, Owed, FileOpen, Sending, Accepting, Generated
  <2>5. Body(c)'
    BY <1>1
    DEF OnReceiveFailed, Handles, Close, Aborts, loop, Put, Start, TypeOK,
        Local, Body, Fresh, Owed, FileOpen, Sending, Accepting, Generated
  <2>6. Closing(c)'
    BY <1>1
    DEF OnReceiveFailed, Handles, Close, Aborts, loop, Put, Start, TypeOK,
        Local, Closing, Body, Fresh, Owed, FileOpen, Sending, Accepting,
        Generated
  <2>7. QED
    BY <2>1, <2>2, <2>3, <2>4, <2>5, <2>6 DEF Local
<1>6. QED
  BY <1>2, <1>3, <1>4, <1>5 DEF IInv
-----------------------------------------------------------------------------
(* A piece of the request comes.                                           *)
LEMMA OnReceiveStep ==
  ASSUME NEW c \in Cep, IInv, NEW n \in 1 .. len[c], OnReceive(c, n)
  PROVE  IInv'
<1>1. TypeOK /\ ~overlap /\ c \in Cep /\ Local(c)
  BY DEF IInv, TypeOK
<1>2. TypeOK'
  <2>1. status' \in [Cep -> Status]
    BY <1>1
    DEF OnReceive, Handles, Close, Aborts, Full, loop, Put, Start, TypeOK,
        Status
  <2>2. total_rcv_len' \in [Cep -> 0 .. RCV_BUF_SIZE - 1]
    BY <1>1, HttpAssumption
    DEF OnReceive, Handles, Close, Aborts, Full, loop, Put, Start, TypeOK,
        HttpAssumption
  <2>3. call' \in [Cep -> Call]
    BY <1>1
    DEF OnReceive, Handles, Close, Aborts, Full, loop, Put, Start, TypeOK, Call
  <2>4. len' \in [Cep -> Nat]
    BY <1>1, HttpAssumption, ResourceFacts
    DEF OnReceive, Handles, Close, Aborts, Full, loop, Put, Start, TypeOK,
        HttpAssumption
  <2>5. cut' \in [Cep -> BOOLEAN]
    BY <1>1
    DEF OnReceive, Handles, Close, Aborts, Full, loop, Put, Start, TypeOK
  <2>6. QED
    BY <1>1, <2>1, <2>2, <2>3, <2>4, <2>5
    DEF OnReceive, Handles, Close, Aborts, Full, loop, Put, Start, TypeOK
<1>3. ~overlap'
  BY <1>1
  DEF OnReceive, Handles, Close, Aborts, Full, loop, Put, Start, TypeOK, Local,
      Owed, Accepting, Generated
<1>4. ASSUME NEW d \in Cep, d # c PROVE Local(d)'
  <2>1. Same(d)
    BY <1>1, <1>4
    DEF OnReceive, Handles, Close, Aborts, Full, loop, Put, Start, TypeOK,
        Same, Sending, Accepting, Generated
  <2>2. QED
    BY <1>4, <2>1, SameLocal DEF IInv
<1>5. Local(c)'
  <2>1. Owed(c)'
    BY <1>1
    DEF OnReceive, Handles, Close, Aborts, Full, loop, Put, Start, TypeOK,
        Local, Owed, Sending, Accepting, Generated
  <2>2. Receiving(c)'
    BY <1>1, HttpAssumption
    DEF OnReceive, Handles, Close, Aborts, Full, loop, Put, Start, TypeOK,
        HttpAssumption, Local, Receiving, Owed, Sending, Accepting, Generated
  <2>3. FileOpen(c)'
    BY <1>1
    DEF OnReceive, Handles, Close, Aborts, Full, loop, Put, Start, TypeOK,
        Local, FileOpen, Owed, Sending, Accepting, Generated
  <2>4. Fresh(c)'
    BY <1>1
    DEF OnReceive, Handles, Close, Aborts, Full, loop, Put, Start, TypeOK,
        Local, Fresh, Owed, FileOpen, Sending, Accepting, Generated
  <2>5. Body(c)'
    BY <1>1
    DEF OnReceive, Handles, Close, Aborts, Full, loop, Put, Start, TypeOK,
        Local, Body, Fresh, Owed, FileOpen, Sending, Accepting, Generated
  <2>6. Closing(c)'
    BY <1>1
    DEF OnReceive, Handles, Close, Aborts, Full, loop, Put, Start, TypeOK,
        Local, Closing, Body, Fresh, Owed, FileOpen, Sending, Accepting,
        Generated
  <2>7. QED
    BY <2>1, <2>2, <2>3, <2>4, <2>5, <2>6 DEF Local
<1>6. QED
  BY <1>2, <1>3, <1>4, <1>5 DEF IInv
-----------------------------------------------------------------------------
(* The request is complete.                                                *)
LEMMA OnRequestStep ==
  ASSUME NEW c \in Cep, IInv, NEW n \in 1 .. len[c], OnRequest(c, n)
  PROVE  IInv'
<1>1. TypeOK /\ ~overlap /\ c \in Cep /\ Local(c)
  BY DEF IInv, TypeOK
<1>2. TypeOK'
  <2>1. status' \in [Cep -> Status]
    BY <1>1 DEF OnRequest, Handles, Full, loop, Put, Start, TypeOK, Status
  <2>2. remain_data' \in [Cep -> Int]
    BY <1>1, HttpAssumption, ResourceFacts
    DEF OnRequest, Handles, Full, loop, Put, Start, TypeOK, HttpAssumption
  <2>3. total_rcv_len' \in [Cep -> 0 .. RCV_BUF_SIZE - 1]
    BY <1>1, HttpAssumption
    DEF OnRequest, Handles, Full, loop, Put, Start, TypeOK, HttpAssumption
  <2>4. res' \in [Cep -> Resource]
    BY <1>1, ResourceFacts
    DEF OnRequest, Handles, Full, loop, Put, Start, TypeOK
  <2>5. fileid' \in [Cep -> -1 .. MaxFile]
    BY <1>1, HttpAssumption, ResourceFacts
    DEF OnRequest, Handles, Full, loop, Put, Start, TypeOK, HttpAssumption
  <2>6. call' \in [Cep -> Call]
    BY <1>1 DEF OnRequest, Handles, Full, loop, Put, Start, TypeOK, Call
  <2>7. len' \in [Cep -> Nat]
    BY <1>1, HttpAssumption, ResourceFacts
    DEF OnRequest, Handles, Full, loop, Put, Start, TypeOK, HttpAssumption
  <2>8. QED
    BY <1>1, <2>1, <2>2, <2>3, <2>4, <2>5, <2>6, <2>7
    DEF OnRequest, Handles, Full, loop, Put, Start, TypeOK
<1>3. ~overlap'
  BY <1>1
  DEF OnRequest, Handles, Full, loop, Put, Start, TypeOK, Local, Owed,
      Accepting, Generated
<1>4. ASSUME NEW d \in Cep, d # c PROVE Local(d)'
  <2>1. Same(d)
    BY <1>1, <1>4
    DEF OnRequest, Handles, Full, loop, Put, Start, TypeOK, Same, Sending,
        Accepting, Generated
  <2>2. QED
    BY <1>4, <2>1, SameLocal DEF IInv
<1>5. Local(c)'
  <2>1. Owed(c)'
    BY <1>1
    DEF OnRequest, Handles, Full, loop, Put, Start, TypeOK, Local, Owed,
        Sending, Accepting, Generated
  <2>2. Receiving(c)'
    BY <1>1, HttpAssumption
    DEF OnRequest, Handles, Full, loop, Put, Start, TypeOK, HttpAssumption,
        Local, Receiving, Owed, Sending, Accepting, Generated
  <2>3. FileOpen(c)'
    BY <1>1
    DEF OnRequest, Handles, Full, loop, Put, Start, TypeOK, Local, FileOpen,
        Owed, Sending, Accepting, Generated
  <2>4. Fresh(c)'
    BY <1>1
    DEF OnRequest, Handles, Full, loop, Put, Start, TypeOK, Local, Fresh, Owed,
        FileOpen, Sending, Accepting, Generated
  <2>5. Body(c)'
    BY <1>1
    DEF OnRequest, Handles, Full, loop, Put, Start, TypeOK, Local, Body, Fresh,
        Owed, FileOpen, Sending, Accepting, Generated
  <2>6. Closing(c)'
    BY <1>1
    DEF OnRequest, Handles, Full, loop, Put, Start, TypeOK, Local, Closing,
        Body, Fresh, Owed, FileOpen, Sending, Accepting, Generated
  <2>7. QED
    BY <2>1, <2>2, <2>3, <2>4, <2>5, <2>6 DEF Local
<1>6. QED
  BY <1>2, <1>3, <1>4, <1>5 DEF IInv
-----------------------------------------------------------------------------
(* The request starts a CGI.                                               *)
LEMMA OnPendingRequestStep ==
  ASSUME NEW c \in Cep, IInv, NEW n \in 1 .. len[c], OnPendingRequest(c, n)
  PROVE  IInv'
<1>1. TypeOK /\ ~overlap /\ c \in Cep /\ Local(c)
  BY DEF IInv, TypeOK
<1>2. TypeOK'
  <2>1. status' \in [Cep -> Status]
    BY <1>1
    DEF OnPendingRequest, Handles, Full, loop, Put, Start, TypeOK, Status
  <2>2. total_rcv_len' \in [Cep -> 0 .. RCV_BUF_SIZE - 1]
    BY <1>1, HttpAssumption
    DEF OnPendingRequest, Handles, Full, loop, Put, Start, TypeOK,
        HttpAssumption
  <2>3. res' \in [Cep -> Resource]
    BY <1>1, ResourceFacts
    DEF OnPendingRequest, Handles, Full, loop, Put, Start, TypeOK
  <2>4. call' \in [Cep -> Call]
    BY <1>1 DEF OnPendingRequest, Handles, Full, loop, Put, Start, TypeOK, Call
  <2>5. len' \in [Cep -> Nat]
    BY <1>1, HttpAssumption, ResourceFacts
    DEF OnPendingRequest, Handles, Full, loop, Put, Start, TypeOK,
        HttpAssumption
  <2>6. cgi' \in SUBSET Cep
    BY <1>1 DEF OnPendingRequest, Handles, Full, loop, Put, Start, TypeOK
  <2>7. QED
    BY <1>1, <2>1, <2>2, <2>3, <2>4, <2>5, <2>6
    DEF OnPendingRequest, Handles, Full, loop, Put, Start, TypeOK
<1>3. ~overlap'
  BY <1>1
  DEF OnPendingRequest, Handles, Full, loop, Put, Start, TypeOK, Local, Owed,
      Accepting, Generated
<1>4. ASSUME NEW d \in Cep, d # c PROVE Local(d)'
  <2>1. Same(d)
    BY <1>1, <1>4
    DEF OnPendingRequest, Handles, Full, loop, Put, Start, TypeOK, Same,
        Sending, Accepting, Generated
  <2>2. QED
    BY <1>4, <2>1, SameLocal DEF IInv
<1>5. Local(c)'
  <2>1. Owed(c)'
    BY <1>1
    DEF OnPendingRequest, Handles, Full, loop, Put, Start, TypeOK, Local, Owed,
        Sending, Accepting, Generated
  <2>2. Receiving(c)'
    BY <1>1, HttpAssumption
    DEF OnPendingRequest, Handles, Full, loop, Put, Start, TypeOK,
        HttpAssumption, Local, Receiving, Owed, Sending, Accepting, Generated
  <2>3. FileOpen(c)'
    BY <1>1, ResourceFacts
    DEF OnPendingRequest, Handles, Full, loop, Put, Start, TypeOK, Local,
        FileOpen, Owed, Sending, Accepting, Generated
  <2>4. Fresh(c)'
    BY <1>1
    DEF OnPendingRequest, Handles, Full, loop, Put, Start, TypeOK, Local,
        Fresh, Owed, FileOpen, Sending, Accepting, Generated
  <2>5. Body(c)'
    BY <1>1
    DEF OnPendingRequest, Handles, Full, loop, Put, Start, TypeOK, Local, Body,
        Fresh, Owed, FileOpen, Sending, Accepting, Generated
  <2>6. Closing(c)'
    BY <1>1
    DEF OnPendingRequest, Handles, Full, loop, Put, Start, TypeOK, Local,
        Closing, Body, Fresh, Owed, FileOpen, Sending, Accepting, Generated
  <2>7. QED
    BY <2>1, <2>2, <2>3, <2>4, <2>5, <2>6 DEF Local
<1>6. QED
  BY <1>2, <1>3, <1>4, <1>5 DEF IInv
-----------------------------------------------------------------------------
(* The peer cannot be reached.                                             *)
LEMMA OnSendFailedStep ==
  ASSUME NEW c \in Cep, IInv, OnSendFailed(c)
  PROVE  IInv'
<1>1. TypeOK /\ ~overlap /\ c \in Cep /\ Local(c)
  BY DEF IInv, TypeOK
<1>2. TypeOK'
  <2>1. status' \in [Cep -> Status]
    BY <1>1
    DEF OnSendFailed, Handles, Close, Aborts, loop, Put, Start, TypeOK, Status
  <2>2. remain_data' \in [Cep -> Int]
    BY <1>1, HttpAssumption, ResourceFacts
    DEF OnSendFailed, Handles, Close, Aborts, loop, Put, Start, TypeOK,
        HttpAssumption
  <2>3. call' \in [Cep -> Call]
    BY <1>1
    DEF OnSendFailed, Handles, Close, Aborts, loop, Put, Start, TypeOK, Call
  <2>4. len' \in [Cep -> Nat]
    BY <1>1, HttpAssumption, ResourceFacts
    DEF OnSendFailed, Handles, Close, Aborts, loop, Put, Start, TypeOK,
        HttpAssumption
  <2>5. cut' \in [Cep -> BOOLEAN]
    BY <1>1 DEF OnSendFailed, Handles, Close, Aborts, loop, Put, Start, TypeOK
  <2>6. QED
    BY <1>1, <2>1, <2>2, <2>3, <2>4, <2>5
    DEF OnSendFailed, Handles, Close, Aborts, loop, Put, Start, TypeOK
<1>3. ~overlap'
  BY <1>1
  DEF OnSendFailed, Handles, Close, Aborts, loop, Put, Start, TypeOK, Local,
      Owed, Accepting, Generated
<1>4. ASSUME NEW d \in Cep, d # c PROVE Local(d)'
  <2>1. Same(d)
    BY <1>1, <1>4
    DEF OnSendFailed, Handles, Close, Aborts, loop, Put, Start, TypeOK, Same,
        Sending, Accepting, Generated
  <2>2. QED
    BY <1>4, <2>1, SameLocal DEF IInv
<1>5. Local(c)'
  <2>1. Owed(c)'
    BY <1>1
    DEF OnSendFailed, Handles, Close, Aborts, loop, Put, Start, TypeOK, Local,
        Owed, Sending, Accepting, Generated
  <2>2. Receiving(c)'
    BY <1>1, HttpAssumption
    DEF OnSendFailed, Handles, Close, Aborts, loop, Put, Start, TypeOK,
        HttpAssumption, Local, Receiving, Owed, Sending, Accepting, Generated
  <2>3. FileOpen(c)'
    BY <1>1
    DEF OnSendFailed, Handles, Close, Aborts, loop, Put, Start, TypeOK, Local,
        FileOpen, Owed, Sending, Accepting, Generated
  <2>4. Fresh(c)'
    BY <1>1
    DEF OnSendFailed, Handles, Close, Aborts, loop, Put, Start, TypeOK, Local,
        Fresh, Owed, FileOpen, Sending, Accepting, Generated
  <2>5. Body(c)'
    BY <1>1
    DEF OnSendFailed, Handles, Close, Aborts, loop, Put, Start, TypeOK, Local,
        Body, Fresh, Owed, FileOpen, Sending, Accepting, Generated
  <2>6. Closing(c)'
    BY <1>1
    DEF OnSendFailed, Handles, Close, Aborts, loop, Put, Start, TypeOK, Local,
        Closing, Body, Fresh, Owed, FileOpen, Sending, Accepting, Generated
  <2>7. QED
    BY <2>1, <2>2, <2>3, <2>4, <2>5, <2>6 DEF Local
<1>6. QED
  BY <1>2, <1>3, <1>4, <1>5 DEF IInv
-----------------------------------------------------------------------------
(* The header is out.                                                      *)
LEMMA OnHeaderSentStep ==
  ASSUME NEW c \in Cep, IInv, OnHeaderSent(c)
  PROVE  IInv'
<1>1. TypeOK /\ ~overlap /\ c \in Cep /\ Local(c)
  BY DEF IInv, TypeOK
<1>2. TypeOK'
  <2>1. status' \in [Cep -> Status]
    BY <1>1
    DEF OnHeaderSent, Handles, Close, Aborts, ReadFailed, Read, SendBlock,
        Finish, Min2, loop, Put, Start, TypeOK, Status, Local, Owed, Receiving,
        FileOpen, Fresh, Body, Closing, Sending, Accepting, Generated
  <2>2. remain_data' \in [Cep -> Int]
    BY <1>1, HttpAssumption, ResourceFacts
    DEF OnHeaderSent, Handles, Close, Aborts, ReadFailed, Read, SendBlock,
        Finish, Min2, loop, Put, Start, TypeOK, HttpAssumption, Local, Owed,
        Receiving, FileOpen, Fresh, Body, Closing, Sending, Accepting,
        Generated
  <2>3. fileid' \in [Cep -> -1 .. MaxFile]
    BY <1>1, HttpAssumption, ResourceFacts
    DEF OnHeaderSent, Handles, Close, Aborts, ReadFailed, Read, SendBlock,
        Finish, Min2, loop, Put, Start, TypeOK, HttpAssumption, Local, Owed,
        Receiving, FileOpen, Fresh, Body, Closing, Sending, Accepting,
        Generated
  <2>4. call' \in [Cep -> Call]
    BY <1>1
    DEF OnHeaderSent, Handles, Close, Aborts, ReadFailed, Read, SendBlock,
        Finish, Min2, loop, Put, Start, TypeOK, Call, Local, Owed, Receiving,
        FileOpen, Fresh, Body, Closing, Sending, Accepting, Generated
  <2>5. len' \in [Cep -> Nat]
    BY <1>1, HttpAssumption, ResourceFacts
    DEF OnHeaderSent, Handles, Close, Aborts, ReadFailed, Read, SendBlock,
        Finish, Min2, loop, Put, Start, TypeOK, HttpAssumption, Local, Owed,
        Receiving, FileOpen, Fresh, Body, Closing, Sending, Accepting,
        Generated
  <2>6. cut' \in [Cep -> BOOLEAN]
    BY <1>1
    DEF OnHeaderSent, Handles, Close, Aborts, ReadFailed, Read, SendBlock,
        Finish, Min2, loop, Put, Start, TypeOK, Local, Owed, Receiving,
        FileOpen, Fresh, Body, Closing, Sending, Accepting, Generated
  <2>7. QED
    BY <1>1, <2>1, <2>2, <2>3, <2>4, <2>5, <2>6
    DEF OnHeaderSent, Handles, Close, Aborts, ReadFailed, Read, SendBlock,
        Finish, Min2, loop, Put, Start, TypeOK
<1>3. ~overlap'
  BY <1>1
  DEF OnHeaderSent, Handles, Close, Aborts, ReadFailed, Read, SendBlock,
      Finish, Min2, loop, Put, Start, TypeOK, Local, Owed, Accepting, Generated
<1>4. ASSUME NEW d \in Cep, d # c PROVE Local(d)'
  <2>1. Same(d)
    BY <1>1, <1>4
    DEF OnHeaderSent, Handles, Close, Aborts, ReadFailed, Read, SendBlock,
        Finish, Min2, loop, Put, Start, TypeOK, Same, Sending, Accepting,
        Generated
  <2>2. QED
    BY <1>4, <2>1, SameLocal DEF IInv
<1>5. Local(c)'
  <2>1. Owed(c)'
    BY <1>1, ResourceFacts
    DEF OnHeaderSent, Handles, Close, Aborts, ReadFailed, Read, SendBlock,
        Finish, Min2, loop, Put, Start, TypeOK, Local, Owed, Sending,
        Accepting, Generated
  <2>2. Receiving(c)'
    BY <1>1, HttpAssumption, ResourceFacts
    DEF OnHeaderSent, Handles, Close, Aborts, ReadFailed, Read, SendBlock,
        Finish, Min2, loop, Put, Start, TypeOK, HttpAssumption, Local,
        Receiving, Owed, Sending, Accepting, Generated
  <2>3. FileOpen(c)'
    BY <1>1, ResourceFacts
    DEF OnHeaderSent, Handles, Close, Aborts, ReadFailed, Read, SendBlock,
        Finish, Min2, loop, Put, Start, TypeOK, Local, FileOpen, Owed, Sending,
        Accepting, Generated
  <2>4. Fresh(c)'
    BY <1>1, ResourceFacts
    DEF OnHeaderSent, Handles, Close, Aborts, ReadFailed, Read, SendBlock,
        Finish, Min2, loop, Put, Start, TypeOK, Local, Fresh, Owed, FileOpen,
        Sending, Accepting, Generated
  <2>5. Body(c)'
    <3>1. CASE status'[c] = "CLOSING"
      BY <3>1 DEF Body
    <3>2. CASE SendBlock(c, res[c].size)
      <4>1. got[c] = 0 /\ got'[c] = 0 /\ res'[c] = res[c] /\ res[c].size \in Nat
        BY <1>1, ResourceFacts DEF OnHeaderSent, Handles, TypeOK, Local, Fresh
      <4>2. /\ remain_data'[c] = res[c].size
            /\ len'[c] = Min2(res[c].size, BODY_BUF_SIZE)
        BY <1>1, <3>2 DEF SendBlock, Start, Put, TypeOK
      <4>3. CASE res[c].type = "FILE"
        <5>1. CASE Read(c)
          <6>1. fileid[c] = 0
            BY <1>1, <4>3 DEF OnHeaderSent, Handles, Local, Fresh
          <6>2. fileid'[c] = Min2(BODY_BUF_SIZE, res[c].size)
            BY <1>1, <5>1, <6>1, HttpAssumption
            DEF Read, Put, TypeOK, Min2, HttpAssumption
          <6>3. QED
            BY <4>1, <4>2, <4>3, <6>2, HttpAssumption
            DEF Body, Min2, HttpAssumption
        <5>2. CASE ReadFailed(c)
          BY <1>1, <5>2 DEF ReadFailed, Close, Put, TypeOK, Body
        <5>3. QED
          BY <1>1, <4>3, <5>1, <5>2 DEF OnHeaderSent
      <4>4. CASE res[c].type # "FILE"
        <5>1. res[c].size < BODY_BUF_SIZE
          BY <1>1, <4>4, ResourceFacts DEF TypeOK
        <5>2. QED
          BY <4>1, <4>2, <4>4, <5>1, HttpAssumption
          DEF Body, Min2, HttpAssumption
      <4>5. QED
        BY <4>3, <4>4
    <3>3. QED
      BY <1>1, <3>1, <3>2
      DEF OnHeaderSent, ReadFailed, Finish, Close, Put, TypeOK
  <2>6. Closing(c)'
    BY <1>1, ResourceFacts
    DEF OnHeaderSent, Handles, Close, Aborts, ReadFailed, Read, SendBlock,
        Finish, Min2, loop, Put, Start, TypeOK, Local, Closing, Body, Fresh,
        Owed, FileOpen, Sending, Accepting, Generated
  <2>7. QED
    BY <2>1, <2>2, <2>3, <2>4, <2>5, <2>6 DEF Local
<1>6. QED
  BY <1>2, <1>3, <1>4, <1>5 DEF IInv
-----------------------------------------------------------------------------
(* The header is sent again.                                               *)
LEMMA OnHeaderUnfinishedStep ==
  ASSUME NEW c \in Cep, IInv, OnHeaderUnfinished(c)
  PROVE  IInv'
<1>1. TypeOK /\ ~overlap /\ c \in Cep /\ Local(c)
  BY DEF IInv, TypeOK
<1>2. TypeOK'
  <2>1. remain_data' \in [Cep -> Int]
    BY <1>1, HttpAssumption, ResourceFacts
    DEF OnHeaderUnfinished, Handles, loop, Put, Start, TypeOK, HttpAssumption
  <2>2. call' \in [Cep -> Call]
    BY <1>1 DEF OnHeaderUnfinished, Handles, loop, Put, Start, TypeOK, Call
  <2>3. len' \in [Cep -> Nat]
    BY <1>1, HttpAssumption, ResourceFacts
    DEF OnHeaderUnfinished, Handles, loop, Put, Start, TypeOK, HttpAssumption
  <2>4. QED
    BY <1>1, <2>1, <2>2, <2>3
    DEF OnHeaderUnfinished, Handles, loop, Put, Start, TypeOK
<1>3. ~overlap'
  BY <1>1
  DEF OnHeaderUnfinished, Handles, loop, Put, Start, TypeOK, Local, Owed,
      Accepting, Generated
<1>4. ASSUME NEW d \in Cep, d # c PROVE Local(d)'
  <2>1. Same(d)
    BY <1>1, <1>4
    DEF OnHeaderUnfinished, Handles, loop, Put, Start, TypeOK, Same, Sending,
        Accepting, Generated
  <2>2. QED
    BY <1>4, <2>1, SameLocal DEF IInv
<1>5. Local(c)'
  <2>1. Owed(c)'
    BY <1>1
    DEF OnHeaderUnfinished, Handles, loop, Put, Start, TypeOK, Local, Owed,
        Sending, Accepting, Generated
  <2>2. Receiving(c)'
    BY <1>1, HttpAssumption
    DEF OnHeaderUnfinished, Handles, loop, Put, Start, TypeOK, HttpAssumption,
        Local, Receiving, Owed, Sending, Accepting, Generated
  <2>3. FileOpen(c)'
    BY <1>1
    DEF OnHeaderUnfinished, Handles, loop, Put, Start, TypeOK, Local, FileOpen,
        Owed, Sending, Accepting, Generated
  <2>4. Fresh(c)'
    BY <1>1
    DEF OnHeaderUnfinished, Handles, loop, Put, Start, TypeOK, Local, Fresh,
        Owed, FileOpen, Sending, Accepting, Generated
  <2>5. Body(c)'
    BY <1>1
    DEF OnHeaderUnfinished, Handles, loop, Put, Start, TypeOK, Local, Body,
        Fresh, Owed, FileOpen, Sending, Accepting, Generated
  <2>6. Closing(c)'
    BY <1>1
    DEF OnHeaderUnfinished, Handles, loop, Put, Start, TypeOK, Local, Closing,
        Body, Fresh, Owed, FileOpen, Sending, Accepting, Generated
  <2>7. QED
    BY <2>1, <2>2, <2>3, <2>4, <2>5, <2>6 DEF Local
<1>6. QED
  BY <1>2, <1>3, <1>4, <1>5 DEF IInv
-----------------------------------------------------------------------------
(* The last block is out.                                                  *)
LEMMA OnBodySentStep ==
  ASSUME NEW c \in Cep, IInv, OnBodySent(c)
  PROVE  IInv'
<1>1. TypeOK /\ ~overlap /\ c \in Cep /\ Local(c)
  BY DEF IInv, TypeOK
<1>2. TypeOK'
  <2>1. status' \in [Cep -> Status]
    BY <1>1
    DEF OnBodySent, Handles, Close, Finish, loop, Put, Start, TypeOK, Status
  <2>2. remain_data' \in [Cep -> Int]
    BY <1>1, HttpAssumption, ResourceFacts
    DEF OnBodySent, Handles, Close, Finish, loop, Put, Start, TypeOK,
        HttpAssumption
  <2>3. call' \in [Cep -> Call]
    BY <1>1
    DEF OnBodySent, Handles, Close, Finish, loop, Put, Start, TypeOK, Call
  <2>4. len' \in [Cep -> Nat]
    BY <1>1, HttpAssumption, ResourceFacts
    DEF OnBodySent, Handles, Close, Finish, loop, Put, Start, TypeOK,
        HttpAssumption
  <2>5. got' \in [Cep -> Nat]
    BY <1>1 DEF OnBodySent, Handles, Close, Finish, loop, Put, Start, TypeOK
  <2>6. QED
    BY <1>1, <2>1, <2>2, <2>3, <2>4, <2>5
    DEF OnBodySent, Handles, Close, Finish, loop, Put, Start, TypeOK
<1>3. ~overlap'
  BY <1>1
  DEF OnBodySent, Handles, Close, Finish, loop, Put, Start, TypeOK, Local,
      Owed, Accepting, Generated
<1>4. ASSUME NEW d \in Cep, d # c PROVE Local(d)'
  <2>1. Same(d)
    BY <1>1, <1>4
    DEF OnBodySent, Handles, Close, Finish, loop, Put, Start, TypeOK, Same,
        Sending, Accepting, Generated
  <2>2. QED
    BY <1>4, <2>1, SameLocal DEF IInv
<1>5. Local(c)'
  <2>1. Owed(c)'
    BY <1>1
    DEF OnBodySent, Handles, Close, Finish, loop, Put, Start, TypeOK, Local,
        Owed, Sending, Accepting, Generated
  <2>2. Receiving(c)'
    BY <1>1, HttpAssumption
    DEF OnBodySent, Handles, Close, Finish, loop, Put, Start, TypeOK,
        HttpAssumption, Local, Receiving, Owed, Sending, Accepting, Generated
  <2>3. FileOpen(c)'
    BY <1>1
    DEF OnBodySent, Handles, Close, Finish, loop, Put, Start, TypeOK, Local,
        FileOpen, Owed, Sending, Accepting, Generated
  <2>4. Fresh(c)'
    BY <1>1
    DEF OnBodySent, Handles, Close, Finish, loop, Put, Start, TypeOK, Local,
        Fresh, Owed, FileOpen, Sending, Accepting, Generated
  <2>5. Body(c)'
    BY <1>1
    DEF OnBodySent, Handles, Close, Finish, loop, Put, Start, TypeOK, Local,
        Body, Fresh, Owed, FileOpen, Sending, Accepting, Generated
  <2>6. Closing(c)'
    BY <1>1
    DEF OnBodySent, Handles, Close, Finish, loop, Put, Start, TypeOK, Local,
        Closing, Body, Fresh, Owed, FileOpen, Sending, Accepting, Generated
  <2>7. QED
    BY <2>1, <2>2, <2>3, <2>4, <2>5, <2>6 DEF Local
<1>6. QED
  BY <1>2, <1>3, <1>4, <1>5 DEF IInv
-----------------------------------------------------------------------------
(* A block is out.                                                         *)
LEMMA OnBlockSentStep ==
  ASSUME NEW c \in Cep, IInv, OnBlockSent(c)
  PROVE  IInv'
<1>1. TypeOK /\ ~overlap /\ c \in Cep /\ Local(c)
  BY DEF IInv, TypeOK
<1>2. TypeOK'
  <2>1. status' \in [Cep -> Status]
    BY <1>1
    DEF OnBlockSent, Handles, Close, Aborts, ReadFailed, Read, SendBlock, Min2,
        loop, Put, Start, TypeOK, Status, Local, Owed, Receiving, FileOpen,
        Fresh, Body, Closing, Sending, Accepting, Generated
  <2>2. remain_data' \in [Cep -> Int]
    BY <1>1, HttpAssumption, ResourceFacts
    DEF OnBlockSent, Handles, Close, Aborts, ReadFailed, Read, SendBlock, Min2,
        loop, Put, Start, TypeOK, HttpAssumption, Local, Owed, Receiving,
        FileOpen, Fresh, Body, Closing, Sending, Accepting, Generated
  <2>3. fileid' \in [Cep -> -1 .. MaxFile]
    BY <1>1, HttpAssumption, ResourceFacts
    DEF OnBlockSent, Handles, Close, Aborts, ReadFailed, Read, SendBlock, Min2,
        loop, Put, Start, TypeOK, HttpAssumption, Local, Owed, Receiving,
        FileOpen, Fresh, Body, Closing, Sending, Accepting, Generated
  <2>4. call' \in [Cep -> Call]
    BY <1>1
    DEF OnBlockSent, Handles, Close, Aborts, ReadFailed, Read, SendBlock, Min2,
        loop, Put, Start, TypeOK, Call, Local, Owed, Receiving, FileOpen,
        Fresh, Body, Closing, Sending, Accepting, Generated
  <2>5. len' \in [Cep -> Nat]
    BY <1>1, HttpAssumption, ResourceFacts
    DEF OnBlockSent, Handles, Close, Aborts, ReadFailed, Read, SendBlock, Min2,
        loop, Put, Start, TypeOK, HttpAssumption, Local, Owed, Receiving,
        FileOpen, Fresh, Body, Closing, Sending, Accepting, Generated
  <2>6. got' \in [Cep -> Nat]
    BY <1>1
    DEF OnBlockSent, Handles, Close, Aborts, ReadFailed, Read, SendBlock, Min2,
        loop, Put, Start, TypeOK, Local, Owed, Receiving, FileOpen, Fresh,
        Body, Closing, Sending, Accepting, Generated
  <2>7. cut' \in [Cep -> BOOLEAN]
    BY <1>1
    DEF OnBlockSent, Handles, Close, Aborts, ReadFailed, Read, SendBlock, Min2,
        loop, Put, Start, TypeOK, Local, Owed, Receiving, FileOpen, Fresh,
        Body, Closing, Sending, Accepting, Generated
  <2>8. QED
    BY <1>1, <2>1, <2>2, <2>3, <2>4, <2>5, <2>6, <2>7
    DEF OnBlockSent, Handles, Close, Aborts, ReadFailed, Read, SendBlock, Min2,
        loop, Put, Start, TypeOK
<1>3. ~overlap'
  BY <1>1
  DEF OnBlockSent, Handles, Close, Aborts, ReadFailed, Read, SendBlock, Min2,
      loop, Put, Start, TypeOK, Local, Owed, Accepting, Generated
<1>4. ASSUME NEW d \in Cep, d # c PROVE Local(d)'
  <2>1. Same(d)
    BY <1>1, <1>4
    DEF OnBlockSent, Handles, Close, Aborts, ReadFailed, Read, SendBlock, Min2,
        loop, Put, Start, TypeOK, Same, Sending, Accepting, Generated
  <2>2. QED
    BY <1>4, <2>1, SameLocal DEF IInv
<1>5. Local(c)'
  <2>1. Owed(c)'
    BY <1>1
    DEF OnBlockSent, Handles, Close, Aborts, ReadFailed, Read, SendBlock, Min2,
        loop, Put, Start, TypeOK, Local, Owed, Sending, Accepting, Generated
  <2>2. Receiving(c)'
    BY <1>1, HttpAssumption
    DEF OnBlockSent, Handles, Close, Aborts, ReadFailed, Read, SendBlock, Min2,
        loop, Put, Start, TypeOK, HttpAssumption, Local, Receiving, Owed,
        Sending, Accepting, Generated
  <2>3. FileOpen(c)'
    BY <1>1
    DEF OnBlockSent, Handles, Close, Aborts, ReadFailed, Read, SendBlock, Min2,
        loop, Put, Start, TypeOK, Local, FileOpen, Owed, Sending, Accepting,
        Generated
  <2>4. Fresh(c)'
    BY <1>1
    DEF OnBlockSent, Handles, Close, Aborts, ReadFailed, Read, SendBlock, Min2,
        loop, Put, Start, TypeOK, Local, Fresh, Owed, FileOpen, Sending,
        Accepting, Generated
  <2>5. Body(c)'
    BY <1>1
    DEF OnBlockSent, Handles, Close, Aborts, ReadFailed, Read, SendBlock, Min2,
        loop, Put, Start, TypeOK, Local, Body, Fresh, Owed, FileOpen, Sending,
        Accepting, Generated
  <2>6. Closing(c)'
    BY <1>1
    DEF OnBlockSent, Handles, Close, Aborts, ReadFailed, Read, SendBlock, Min2,
        loop, Put, Start, TypeOK, Local, Closing, Body, Fresh, Owed, FileOpen,
        Sending, Accepting, Generated
  <2>7. QED
    BY <2>1, <2>2, <2>3, <2>4, <2>5, <2>6 DEF Local
<1>6. QED
  BY <1>2, <1>3, <1>4, <1>5 DEF IInv
-----------------------------------------------------------------------------
(* Nobody acts on a completed send.                                        *)
LEMMA OnSentIgnoredStep ==
  ASSUME NEW c \in Cep, IInv, OnSentIgnored(c)
  PROVE  IInv'
<1>1. TypeOK /\ ~overlap /\ c \in Cep /\ Local(c)
  BY DEF IInv, TypeOK
<1>2. TypeOK'
  <2>1. call' \in [Cep -> Call]
    BY <1>1 DEF OnSentIgnored, Handles, cep, loop, Put, Start, TypeOK, Call
  <2>2. len' \in [Cep -> Nat]
    BY <1>1, HttpAssumption, ResourceFacts
    DEF OnSentIgnored, Handles, cep, loop, Put, Start, TypeOK, HttpAssumption
  <2>3. lost' \in SUBSET Cep
    BY <1>1 DEF OnSentIgnored, Handles, cep, loop, Put, Start, TypeOK
  <2>4. QED
    BY <1>1, <2>1, <2>2, <2>3
    DEF OnSentIgnored, Handles, cep, loop, Put, Start, TypeOK
<1>3. ~overlap'
  BY <1>1
  DEF OnSentIgnored, Handles, cep, loop, Put, Start, TypeOK, Local, Owed,
      Accepting, Generated
<1>4. ASSUME NEW d \in Cep, d # c PROVE Local(d)'
  <2>1. Same(d)
    BY <1>1, <1>4
    DEF OnSentIgnored, Handles, cep, loop, Put, Start, TypeOK, Same, Sending,
        Accepting, Generated
  <2>2. QED
    BY <1>4, <2>1, SameLocal DEF IInv
<1>5. Local(c)'
  <2>1. Owed(c)'
    BY <1>1
    DEF OnSentIgnored, Handles, cep, loop, Put, Start, TypeOK, Local, Owed,
        Sending, Accepting, Generated
  <2>2. Receiving(c)'
    BY <1>1, HttpAssumption
    DEF OnSentIgnored, Handles, cep, loop, Put, Start, TypeOK, HttpAssumption,
        Local, Receiving, Owed, Sending, Accepting, Generated
  <2>3. FileOpen(c)'
    BY <1>1
    DEF OnSentIgnored, Handles, cep, loop, Put, Start, TypeOK, Local, FileOpen,
        Owed, Sending, Accepting, Generated
  <2>4. Fresh(c)'
    BY <1>1
    DEF OnSentIgnored, Handles, cep, loop, Put, Start, TypeOK, Local, Fresh,
        Owed, FileOpen, Sending, Accepting, Generated
  <2>5. Body(c)'
    BY <1>1
    DEF OnSentIgnored, Handles, cep, loop, Put, Start, TypeOK, Local, Body,
        Fresh, Owed, FileOpen, Sending, Accepting, Generated
  <2>6. Closing(c)'
    BY <1>1
    DEF OnSentIgnored, Handles, cep, loop, Put, Start, TypeOK, Local, Closing,
        Body, Fresh, Owed, FileOpen, Sending, Accepting, Generated
  <2>7. QED
    BY <2>1, <2>2, <2>3, <2>4, <2>5, <2>6 DEF Local
<1>6. QED
  BY <1>2, <1>3, <1>4, <1>5 DEF IInv
-----------------------------------------------------------------------------
(* The connection is closed.                                               *)
LEMMA OnCloseStep ==
  ASSUME NEW c \in Cep, IInv, OnClose(c)
  PROVE  IInv'
<1>1. TypeOK /\ ~overlap /\ c \in Cep /\ Local(c)
  BY DEF IInv, TypeOK
<1>2. TypeOK'
  <2>1. status' \in [Cep -> Status]
    BY <1>1 DEF OnClose, Handles, loop, Put, Start, TypeOK, Status
  <2>2. fileid' \in [Cep -> -1 .. MaxFile]
    BY <1>1, HttpAssumption, ResourceFacts
    DEF OnClose, Handles, loop, Put, Start, TypeOK, HttpAssumption
  <2>3. call' \in [Cep -> Call]
    BY <1>1 DEF OnClose, Handles, loop, Put, Start, TypeOK, Call
  <2>4. len' \in [Cep -> Nat]
    BY <1>1, HttpAssumption, ResourceFacts
    DEF OnClose, Handles, loop, Put, Start, TypeOK, HttpAssumption
  <2>5. alive' \in [Cep -> BOOLEAN]
    BY <1>1 DEF OnClose, Handles, loop, Put, Start, TypeOK
  <2>6. QED
    BY <1>1, <2>1, <2>2, <2>3, <2>4, <2>5
    DEF OnClose, Handles, loop, Put, Start, TypeOK
<1>3. ~overlap'
  BY <1>1
  DEF OnClose, Handles, loop, Put, Start, TypeOK, Local, Owed, Accepting,
      Generated
<1>4. ASSUME NEW d \in Cep, d # c PROVE Local(d)'
  <2>1. Same(d)
    BY <1>1, <1>4
    DEF OnClose, Handles, loop, Put, Start, TypeOK, Same, Sending, Accepting,
        Generated
  <2>2. QED
    BY <1>4, <2>1, SameLocal DEF IInv
<1>5. Local(c)'
  <2>1. Owed(c)'
    BY <1>1
    DEF OnClose, Handles, loop, Put, Start, TypeOK, Local, Owed, Sending,
        Accepting, Generated
  <2>2. Receiving(c)'
    BY <1>1, HttpAssumption
    DEF OnClose, Handles, loop, Put, Start, TypeOK, HttpAssumption, Local,
        Receiving, Owed, Sending, Accepting, Generated
  <2>3. FileOpen(c)'
    BY <1>1
    DEF OnClose, Handles, loop, Put, Start, TypeOK, Local, FileOpen, Owed,
        Sending, Accepting, Generated
  <2>4. Fresh(c)'
    BY <1>1
    DEF OnClose, Handles, loop, Put, Start, TypeOK, Local, Fresh, Owed,
        FileOpen, Sending, Accepting, Generated
  <2>5. Body(c)'
    BY <1>1
    DEF OnClose, Handles, loop, Put, Start, TypeOK, Local, Body, Fresh, Owed,
        FileOpen, Sending, Accepting, Generated
  <2>6. Closing(c)'
    BY <1>1
    DEF OnClose, Handles, loop, Put, Start, TypeOK, Local, Closing, Body,
        Fresh, Owed, FileOpen, Sending, Accepting, Generated
  <2>7. QED
    BY <2>1, <2>2, <2>3, <2>4, <2>5, <2>6 DEF Local
<1>6. QED
  BY <1>2, <1>3, <1>4, <1>5 DEF IInv

-----------------------------------------------------------------------------
LEMMA Inductive == IInv /\ [Next]_vars => IInv'
<1>1. SUFFICES ASSUME IInv, [Next]_vars PROVE IInv'
  OBVIOUS
<1>2. CASE Main
  <2>1. at \in Cep
    BY <1>1 DEF IInv, TypeOK
  <2>2. QED
    BY <1>1, <1>2, <2>1, AcceptStep, AcceptStoreStep, GenerateStep,
       GenerateStoreStep, RemainStoreStep, SkipStep DEF Main
<1>3. ASSUME NEW c \in Cep, Release(c) PROVE IInv'
  BY <1>1, <1>3, ReleaseStep
<1>4. ASSUME NEW c \in Cep, Received(c) PROVE IInv'
  BY <1>1, <1>4, OnReceiveFailedStep, OnReceiveStep, OnRequestStep,
     OnPendingRequestStep DEF Received
<1>5. ASSUME NEW c \in Cep, Sent(c) PROVE IInv'
  BY <1>1, <1>5, OnSendFailedStep, OnHeaderSentStep, OnHeaderUnfinishedStep,
     OnBodySentStep, OnBlockSentStep, OnSentIgnoredStep DEF Sent
<1>6. ASSUME NEW c \in Cep, OnAccept(c) \/ OnClose(c) PROVE IInv'
  BY <1>1, <1>6, OnAcceptStep, OnCloseStep
<1>7. CASE UNCHANGED vars
  <2>1. TypeOK' /\ ~overlap'
    BY <1>1, <1>7
    DEF IInv, TypeOK, vars, cep, library, loop, Status, Call
  <2>2. ASSUME NEW d \in Cep PROVE Local(d)'
    <3>1. Same(d)
      BY <1>7 DEF Same, vars, cep, library, loop, Sending, Accepting, Generated
    <3>2. QED
      BY <1>1, <2>2, <3>1, SameLocal DEF IInv
  <2>3. QED
    BY <2>1, <2>2 DEF IInv
<1>8. QED
  BY <1>1, <1>2, <1>3, <1>4, <1>5, <1>6, <1>7 DEF Next, Callback

(* The invariant holds in every state.                                     *)
THEOREM Invariance == Spec => []IInv
BY Initially, Inductive, PTL DEF Spec

(* Every variable keeps its type, so the 0 that ends a request is always   *)
(* written inside rcv_buff.                                                *)
THEOREM TypeCorrect == Spec => []TypeOK
<1>1. IInv => TypeOK
  BY DEF IInv
<1>2. QED
  BY <1>1, Invariance, PTL

(* R_httpd never calls the library for an endpoint that is still owed a    *)
(* callback.                                                               *)
THEOREM CallsDoNotOverlap == Spec => []OneCallAtATime
<1>1. IInv => OneCallAtATime
  BY DEF IInv, OneCallAtATime
<1>2. QED
  BY <1>1, Invariance, PTL

(* The pieces of a request are received one behind the other, within       *)
(* rcv_buff.                                                               *)
THEOREM RequestsStayInBuffer == Spec => []ReceiveInBounds
<1>1. IInv => ReceiveInBounds
  BY DEF IInv, ReceiveInBounds, Local, Receiving
<1>2. QED
  BY <1>1, Invariance, PTL

(* No way a connection ends leaves its file open.                          *)
THEOREM FilesAreClosed == Spec => []FilesFollowConnections
<1>1. IInv => FilesFollowConnections
  BY DEF IInv, FilesFollowConnections, Local, FileOpen
<1>2. QED
  BY <1>1, Invariance, PTL

(* While a block is out, body_buff holds that block.                       *)
THEOREM BlocksAreInOrder == Spec => []BufferHoldsWhatIsSent
<1>1. IInv => BufferHoldsWhatIsSent
  BY DEF IInv, BufferHoldsWhatIsSent, Local, Body
<1>2. QED
  BY <1>1, Invariance, PTL

(* A connection closed without a failure has carried the whole body.       *)
THEOREM ResponsesAreWhole == Spec => []WholeResponse
<1>1. IInv => WholeResponse
  BY DEF IInv, WholeResponse, Local, Closing
<1>2. QED
  BY <1>1, Invariance, PTL
=============================================================================
