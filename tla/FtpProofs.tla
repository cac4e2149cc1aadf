-------------------------------- MODULE FtpProofs -------------------------------
(***************************************************************************)
(* Theorems about Ftp, for a table and an upload buffer of any size.       *)
(*                                                                         *)
(* That no file leaks rests on the request to R_ftpd, api_cancel: it is    *)
(* only made when the file of the transfer is closed, and nothing else     *)
(* ends a transfer whose client keeps its turn (FilesInv).                 *)
(*                                                                         *)
(* That a session is told the truth, and goes on, needs three more parts:  *)
(*   ResetInv    what the bits of cep_reset_req say of the endpoints, in   *)
(*               every state, so that a session starts with both shut;     *)
(*   SessionInv  the phases that a transfer goes through, for a client     *)
(*               that keeps its turn, when R_ftpd stores over no callback; *)
(*   GoesOn      what each command waits for, as long as no call that the  *)
(*               dialogue needs is refused.                                *)
(***************************************************************************)
EXTENDS Ftp, TLAPS

Lib == [Ep -> [call : Call, can : BOOLEAN, up : BOOLEAN]]

(* While R_ftpd resets a session, cep_reset_req is not 0.                  *)
Resetting ==
  /\ main \in {"reset_cmd", "close_data", "close_cmd", "finish"} =>
       reset # "none"
  /\ main = "or" => reset # "none" /\ pending.high # "none"

NoFile == \A i \in Entry : owner[i] # "ftp"
OneFile ==
  \A i \in Entry :
    owner[i] = "ftp" =>
      i = file_index /\ (exec \in {"RETR", "STOR"} \/ reset # "none")

(* A transfer is only ended when its file is closed.                       *)
EndsClosed ==
  reset = "none" =>
    /\ "cmd" \in api_cancel => exec \in Transfer /\ NoFile
    /\ lib["cmd"].can /\ exec \in Transfer => NoFile
    /\ exec = "RETR" /\ subseq \in {12, 16} => NoFile

FilesInv ==
  outOfTurn \/ "stale" \in slips \/ (OneFile /\ EndsClosed)

IInv == TypeOK /\ Resetting /\ FilesInv

-----------------------------------------------------------------------------
(* What the library's calls and callbacks do to its endpoints.             *)
LEMMA LibFacts ==
  ASSUME NEW l \in Lib, NEW e \in Ep
  PROVE  /\ Done(l, e) \in Lib /\ Broken(l, e) \in Lib
         /\ Cancel(l, e) \in Lib /\ ForceClose(l, e) \in Lib
         /\ [l EXCEPT ![e].call = "none", ![e].can = FALSE] \in Lib
         /\ \A what \in Call : Begin(l, e, what) \in Lib
<1>1. PICK c \in Call, b \in BOOLEAN, u \in BOOLEAN :
        l[e] = [call |-> c, can |-> b, up |-> u]
  BY DEF Lib
<1>2. [call |-> "none", can |-> FALSE, up |-> u]
        \in [call : Call, can : BOOLEAN, up : BOOLEAN]
  BY DEF Call
<1>3. /\ [call |-> "none", can |-> b, up |-> u]
           \in [call : Call, can : BOOLEAN, up : BOOLEAN]
      /\ [call |-> c, can |-> TRUE, up |-> u]
           \in [call : Call, can : BOOLEAN, up : BOOLEAN]
      /\ \A what \in Call : [call |-> what, can |-> b, up |-> u]
           \in [call : Call, can : BOOLEAN, up : BOOLEAN]
      /\ \A v \in BOOLEAN : [call |-> "none", can |-> FALSE, up |-> v]
           \in [call : Call, can : BOOLEAN, up : BOOLEAN]
  BY DEF Call
<1>4. Done(l, e) \in Lib
  BY <1>1, <1>3 DEF Done, Lib
<1>5. Broken(l, e) \in Lib
  BY <1>1, <1>3 DEF Broken, Lib
<1>6. Cancel(l, e) \in Lib
  BY <1>1, <1>3 DEF Cancel, Lib
<1>7. ForceClose(l, e) \in Lib
  BY <1>3 DEF ForceClose, Unused, Lib
<1>8. [l EXCEPT ![e].call = "none", ![e].can = FALSE] \in Lib
  BY <1>1, <1>2 DEF Lib
<1>9. \A what \in Call : Begin(l, e, what) \in Lib
  BY <1>1, <1>3 DEF Begin, Lib
<1>10. QED
  BY <1>4, <1>5, <1>6, <1>7, <1>8, <1>9

(* Only R_ftpd cancels; every end of the call clears the mark.             *)
LEMMA CanFacts ==
  ASSUME NEW l \in Lib, NEW e \in Ep, NEW f \in Ep
  PROVE  /\ Done(l, e)[f].can => l[f].can
         /\ Broken(l, e)[f].can => l[f].can
         /\ ForceClose(l, e)[f].can => l[f].can
         /\ [l EXCEPT ![e].call = "none", ![e].can = FALSE][f].can => l[f].can
         /\ ~Done(l, e)[e].can
         /\ ~[l EXCEPT ![e].call = "none", ![e].can = FALSE][e].can
         /\ Cancel(l, e)[f].can => e = f \/ l[f].can
         /\ \A what \in Call : Begin(l, e, what)[f].can => l[f].can
BY DEF Lib, Done, Broken, ForceClose, Unused, Cancel, Begin

(* The states of the library's endpoints that a callback goes through.     *)
LEMMA Steps ==
  ASSUME TypeOK
  PROVE  /\ lib \in Lib
         /\ \A e \in Ep :
              /\ Done(lib, e) \in Lib /\ Free(e) \in Lib
              /\ Broken(lib, e) \in Lib /\ Cancel(lib, e) \in Lib
              /\ ForceClose(lib, e) \in Lib
              /\ [lib EXCEPT ![e].call = "none", ![e].can = FALSE] \in Lib
         /\ \A e \in Ep, l \in Lib, what \in Call : Begin(l, e, what) \in Lib
         /\ {"acp", "con", "rcv", "snd", "cls"} \subseteq Call
         /\ "cmd" \in Ep /\ "data" \in Ep
BY LibFacts DEF TypeOK, LibOK, Lib, Free, Ep, Call

(* What a pending |= of cep_reset_req may hold.                            *)
Pending ==
  [high : {"none", "cancel", "close"}, seen : SUBSET Bits, add : SUBSET Bits,
   then : {"idle", "reset_cmd", "close_data", "close_cmd", "finish"}]
LEMMA OrFacts ==
  /\ \A high \in {"none", "cancel", "close"},
        seen \in SUBSET Bits, x \in SUBSET Bits,
        then \in {"reset_cmd", "close_data", "close_cmd", "finish"} :
       [high |-> high, seen |-> seen, add |-> x, then |-> then] \in Pending
  /\ Nothing \in Pending
  /\ {} \in SUBSET Bits /\ {1, 2} \in SUBSET Bits /\ {4, 8} \in SUBSET Bits
  /\ {2} \in SUBSET Bits /\ {8} \in SUBSET Bits
BY DEF Pending, Nothing, Bits

(* file_index stays in the table.                                          *)
LEMMA EntryFacts == 0 \in Entry
BY FtpAssumption DEF FtpAssumption, Entry

-----------------------------------------------------------------------------
(* What the operators that the actions share leave behind.                 *)
LEMMA PutFacts ==
  ASSUME TypeOK, NEW e \in Ep, NEW x \in Status
  PROVE  Put(status, e, x) \in [Ep -> Status]
BY DEF TypeOK, CepOK, Put

LEMMA NeedsFacts ==
  ASSUME NEW l \in Lib, NEW e \in Ep, NEW what \in Call, Needs(l, e, what)
  PROVE  lib' \in Lib
BY LibFacts DEF Needs

LEMMA AnswerFacts ==
  ASSUME TypeOK, NEW l \in Lib, NEW x, Answer(l, x)
  PROVE  lib' \in Lib /\ now_data' \in 0 .. DATA_BUF_SIZE - 1
<1>1. lib' \in Lib
  BY Steps, NeedsFacts DEF Answer
<1>2. now_data' \in 0 .. DATA_BUF_SIZE - 1
  BY FtpAssumption DEF Answer, FtpAssumption, TypeOK, CepOK
<1>3. QED
  BY <1>1, <1>2

LEMMA FailsFacts ==
  ASSUME TypeOK, NEW l \in Lib, NEW x, NEW st \in [Ep -> Status],
         Fails(l, x, st)
  PROVE  lib' \in Lib /\ CepOK'
<1>1. lib' \in Lib
  <2>1. (IF x = "NONE" THEN l ELSE Begin(l, "data", "cls")) \in Lib
    BY Steps
  <2>2. QED
    BY <2>1, Steps, NeedsFacts DEF Fails
<1>2. CepOK'
  BY DEF Fails, TypeOK, CepOK, Put, Status, Ep
<1>3. QED
  BY <1>1, <1>2

LEMMA SucceedsFacts ==
  ASSUME TypeOK, NEW l \in Lib, NEW st \in [Ep -> Status], Succeeds(l, st)
  PROVE  lib' \in Lib /\ CepOK'
<1>1. lib' \in Lib /\ now_data' \in 0 .. DATA_BUF_SIZE - 1
  BY AnswerFacts DEF Succeeds
<1>2. CepOK'
  BY <1>1 DEF Succeeds, TypeOK, CepOK
<1>3. QED
  BY <1>1, <1>2

LEMMA DataportFacts ==
  ASSUME TypeOK, NEW l \in Lib, NEW r \in RetrDataport \cup ListDataport,
         Dataport(l, r)
  PROVE  /\ subseq' \in Subseq /\ OwnerOK' /\ status' \in [Ep -> Status]
         /\ r.call \in Call
<1>1. subseq' \in Subseq /\ r.call \in Call
  BY DEF Dataport, RetrDataport, ListDataport, Subseq, Call
<1>2. OwnerOK'
  BY DEF Dataport, FileClose, Put, TypeOK, OwnerOK
<1>3. status' \in [Ep -> Status]
  BY DEF Dataport, TypeOK, CepOK, Put, Status, Ep
<1>4. QED
  BY <1>1, <1>2, <1>3

-----------------------------------------------------------------------------
(* Every part of the state has its type at the start.                      *)
LEMMA InitType == Init => TypeOK
<1> SUFFICES ASSUME Init PROVE TypeOK
  OBVIOUS
<1>1. Unused \in [call : Call, can : BOOLEAN, up : BOOLEAN]
  BY DEF Unused, Call
<1>2. LibOK /\ OwnerOK
  BY <1>1 DEF Init, LibOK, OwnerOK
<1>3. CepOK /\ StatOK
  BY EntryFacts, FtpAssumption
  DEF Init, CepOK, StatOK, FtpAssumption, Ep, Status, Exec, Subseq
<1>4. LoopOK
  BY DEF Init, LoopOK, Nothing
<1>5. HistoryOK
  BY DEF Init, HistoryOK
<1>6. QED
  BY <1>2, <1>3, <1>4, <1>5 DEF TypeOK

(* R_ftpd.                                                                 *)
LEMMA MainType ==
  ASSUME TypeOK, Main
  PROVE  TypeOK'
<1>0. /\ pending \in Pending /\ bits \in SUBSET Bits
      /\ reset \in {"none", "cancel", "close"}
  BY DEF TypeOK, LoopOK, StatOK, Pending
<1>1. CASE Accept
  <2>1. lib' \in Lib
    BY <1>1, Steps
    DEF Accept, Takes, cep, stat, history
  <2>2. CepOK' /\ StatOK' /\ OwnerOK'
    BY <1>1, EntryFacts, FtpAssumption
    DEF Accept, Takes, cep, stat, history, TypeOK, CepOK, StatOK, OwnerOK, Ep,
        Status, Exec, Subseq, Bits, FtpAssumption
  <2>3. LoopOK' /\ HistoryOK'
    BY <1>1
    DEF Accept, Takes, cep, stat, history, TypeOK, LoopOK, HistoryOK, Bits
  <2>4. QED
    BY <2>1, <2>2, <2>3
    DEF TypeOK, LibOK, Lib
<1>2. CASE AcceptStore
  <2>1. lib' \in Lib
    BY <1>2, Steps
    DEF AcceptStore, From, Put, stat
  <2>2. CepOK' /\ StatOK' /\ OwnerOK'
    BY <1>2, EntryFacts, FtpAssumption
    DEF AcceptStore, From, Put, stat, TypeOK, CepOK, StatOK, OwnerOK, Ep,
        Status, Exec, Subseq, Bits, FtpAssumption
  <2>3. LoopOK' /\ HistoryOK'
    BY <1>2
    DEF AcceptStore, From, Put, stat, TypeOK, LoopOK, HistoryOK, Bits
  <2>4. QED
    BY <2>1, <2>2, <2>3
    DEF TypeOK, LibOK, Lib
<1>3. CASE ResetData
  <2>1. lib' \in Lib
    BY <1>3, Steps
    DEF ResetData, CancelOrClose, OrLoad, history
  <2>2. CepOK'
    BY <1>3, FtpAssumption
    DEF ResetData, CancelOrClose, OrLoad, history, TypeOK, CepOK, Ep, Status,
        FtpAssumption
  <2>3. StatOK' /\ OwnerOK'
    BY <1>3, EntryFacts
    DEF ResetData, CancelOrClose, OrLoad, history, TypeOK, StatOK, OwnerOK,
        Exec, Subseq, Bits
  <2>4. LoopOK'
    <3>1. pending' \in Pending
      BY <1>3, <1>0, OrFacts
      DEF ResetData, CancelOrClose, OrLoad
    <3>2. QED
      BY <1>3, <3>1, <1>0 DEF ResetData, CancelOrClose, OrLoad, LoopOK, Pending
  <2>5. HistoryOK'
    BY <1>3
    DEF ResetData, CancelOrClose, OrLoad, history, TypeOK, HistoryOK
  <2>6. QED
    BY <2>1, <2>2, <2>3, <2>4, <2>5
    DEF TypeOK, LibOK, Lib
<1>4. CASE ResetCmd
  <2>1. lib' \in Lib
    BY <1>4, Steps
    DEF ResetCmd, CancelOrClose, OrLoad, cep, history
  <2>2. CepOK'
    BY <1>4, FtpAssumption
    DEF ResetCmd, CancelOrClose, OrLoad, cep, history, TypeOK, CepOK, Ep,
        Status, FtpAssumption
  <2>3. StatOK' /\ OwnerOK'
    BY <1>4, EntryFacts
    DEF ResetCmd, CancelOrClose, OrLoad, cep, history, TypeOK, StatOK,
        OwnerOK, Exec, Subseq, Bits
  <2>4. LoopOK'
    <3>1. pending' \in Pending
      BY <1>4, <1>0, OrFacts
      DEF ResetCmd, CancelOrClose, OrLoad
    <3>2. QED
      BY <1>4, <3>1, <1>0 DEF ResetCmd, CancelOrClose, OrLoad, LoopOK, Pending
  <2>5. HistoryOK'
    BY <1>4
    DEF ResetCmd, CancelOrClose, OrLoad, cep, history, TypeOK, HistoryOK
  <2>6. QED
    BY <2>1, <2>2, <2>3, <2>4, <2>5
    DEF TypeOK, LibOK, Lib
<1>5. CASE ResetAgain
  <2>1. lib' \in Lib
    BY <1>5, Steps
    DEF ResetAgain, From, stat, history
  <2>2. CepOK' /\ StatOK' /\ OwnerOK'
    BY <1>5, EntryFacts, FtpAssumption
    DEF ResetAgain, From, stat, history, TypeOK, CepOK, StatOK, OwnerOK, Ep,
        Status, Exec, Subseq, Bits, FtpAssumption
  <2>3. LoopOK' /\ HistoryOK'
    BY <1>5
    DEF ResetAgain, From, stat, history, TypeOK, LoopOK, HistoryOK, Bits
  <2>4. QED
    BY <2>1, <2>2, <2>3
    DEF TypeOK, LibOK, Lib
<1>6. CASE CloseData
  <2>1. lib' \in Lib
    BY <1>6, Steps
    DEF CloseData, CloseEp, OrLoad, cep, stat, history
  <2>2. CepOK'
    BY <1>6, FtpAssumption
    DEF CloseData, CloseEp, OrLoad, cep, stat, history, TypeOK, CepOK, Ep,
        Status, FtpAssumption
  <2>3. StatOK' /\ OwnerOK'
    BY <1>6, EntryFacts
    DEF CloseData, CloseEp, OrLoad, cep, stat, history, TypeOK, StatOK,
        OwnerOK, Exec, Subseq, Bits
  <2>4. LoopOK'
    <3>1. pending' \in Pending
      BY <1>6, <1>0, OrFacts
      DEF CloseData, CloseEp, OrLoad
    <3>2. QED
      BY <1>6, <3>1, <1>0 DEF CloseData, CloseEp, OrLoad, LoopOK, Pending
  <2>5. HistoryOK'
    BY <1>6
    DEF CloseData, CloseEp, OrLoad, cep, stat, history, TypeOK, HistoryOK
  <2>6. QED
    BY <2>1, <2>2, <2>3, <2>4, <2>5
    DEF TypeOK, LibOK, Lib
<1>7. CASE CloseCmd
  <2>1. lib' \in Lib
    BY <1>7, Steps
    DEF CloseCmd, CloseEp, OrLoad, cep, stat, history
  <2>2. CepOK'
    BY <1>7, FtpAssumption
    DEF CloseCmd, CloseEp, OrLoad, cep, stat, history, TypeOK, CepOK, Ep,
        Status, FtpAssumption
  <2>3. StatOK' /\ OwnerOK'
    BY <1>7, EntryFacts
    DEF CloseCmd, CloseEp, OrLoad, cep, stat, history, TypeOK, StatOK,
        OwnerOK, Exec, Subseq, Bits
  <2>4. LoopOK'
    <3>1. pending' \in Pending
      BY <1>7, <1>0, OrFacts
      DEF CloseCmd, CloseEp, OrLoad
    <3>2. QED
      BY <1>7, <3>1, <1>0 DEF CloseCmd, CloseEp, OrLoad, LoopOK, Pending
  <2>5. HistoryOK'
    BY <1>7
    DEF CloseCmd, CloseEp, OrLoad, cep, stat, history, TypeOK, HistoryOK
  <2>6. QED
    BY <2>1, <2>2, <2>3, <2>4, <2>5
    DEF TypeOK, LibOK, Lib
<1>8. CASE OrStore
  <2>1. lib' \in Lib
    BY <1>8, Steps
    DEF OrStore, Nothing, cep
  <2>2. CepOK'
    BY <1>8, FtpAssumption
    DEF OrStore, Nothing, cep, TypeOK, CepOK, Ep, Status, FtpAssumption
  <2>3. StatOK' /\ OwnerOK'
    BY <1>8, <1>0
    DEF OrStore, TypeOK, StatOK, OwnerOK, Pending
  <2>4. LoopOK'
    <3>1. pending' \in Pending
      BY <1>8, <1>0, OrFacts
      DEF OrStore
    <3>2. QED
      BY <1>8, <3>1, <1>0 DEF OrStore, LoopOK, Pending
  <2>5. HistoryOK'
    BY <1>8
    DEF OrStore, Nothing, cep, TypeOK, HistoryOK
  <2>6. QED
    BY <2>1, <2>2, <2>3, <2>4, <2>5
    DEF TypeOK, LibOK, Lib
<1>9. CASE Finish
  <2>1. lib' \in Lib
    BY <1>9, Steps
    DEF Finish, From, FileClose, Put
  <2>2. CepOK'
    BY <1>9, FtpAssumption
    DEF Finish, From, FileClose, Put, TypeOK, CepOK, Ep, Status, Bits,
        FtpAssumption
  <2>3. StatOK' /\ OwnerOK'
    BY <1>9, EntryFacts
    DEF Finish, From, FileClose, Put, TypeOK, StatOK, OwnerOK, Ep, Exec,
        Subseq, Bits
  <2>4. LoopOK'
    BY <1>9
    DEF Finish, From, FileClose, Put, TypeOK, LoopOK, Ep, Bits
  <2>5. HistoryOK'
    BY <1>9
    DEF Finish, From, FileClose, Put, TypeOK, HistoryOK, Ep, Bits
  <2>6. QED
    BY <2>1, <2>2, <2>3, <2>4, <2>5
    DEF TypeOK, LibOK, Lib
<1>10. CASE NotFinished
  <2>1. lib' \in Lib
    BY <1>10, Steps
    DEF NotFinished, From, cep, stat, history
  <2>2. CepOK' /\ StatOK' /\ OwnerOK'
    BY <1>10, EntryFacts, FtpAssumption
    DEF NotFinished, From, cep, stat, history, TypeOK, CepOK, StatOK, OwnerOK,
        Ep, Status, Exec, Subseq, Bits, FtpAssumption
  <2>3. LoopOK' /\ HistoryOK'
    BY <1>10
    DEF NotFinished, From, cep, stat, history, TypeOK, LoopOK, HistoryOK,
        Bits
  <2>4. QED
    BY <2>1, <2>2, <2>3
    DEF TypeOK, LibOK, Lib
<1>11. CASE Cancels
  <2>1. lib' \in Lib
    BY <1>11, Steps
    DEF Cancels, CheckCancel, DoCancel, From, cep, stat, history
  <2>2. CepOK' /\ StatOK' /\ OwnerOK'
    BY <1>11, EntryFacts, FtpAssumption
    DEF Cancels, CheckCancel, DoCancel, From, cep, stat, history, TypeOK,
        CepOK, StatOK, OwnerOK, Ep, Status, Exec, Subseq, Bits, FtpAssumption
  <2>3. LoopOK' /\ HistoryOK'
    BY <1>11
    DEF Cancels, CheckCancel, DoCancel, From, cep, stat, history, TypeOK,
        LoopOK, HistoryOK, Bits
  <2>4. QED
    BY <2>1, <2>2, <2>3
    DEF TypeOK, LibOK, Lib
<1>12. QED
  BY <1>1, <1>2, <1>3, <1>4, <1>5, <1>6, <1>7, <1>8, <1>9, <1>10, <1>11
  DEF Main, Resets

(* The command connection.                                                 *)
LEMMA CmdCallbackType ==
  ASSUME TypeOK, CmdCallback, ~OnCommand
  PROVE  TypeOK'
<1>1. CASE OnCmdAccepted
  <2>1. lib' \in Lib
    BY <1>1, Steps
    DEF OnCmdAccepted, Handles, Put, Needs, Takes, loop
  <2>2. CepOK' /\ StatOK' /\ OwnerOK'
    BY <1>1, EntryFacts, FtpAssumption
    DEF OnCmdAccepted, Handles, Put, Needs, Takes, loop, TypeOK, CepOK,
        StatOK, OwnerOK, Ep, Status, Exec, Subseq, Bits, FtpAssumption
  <2>3. LoopOK' /\ HistoryOK'
    BY <1>1
    DEF OnCmdAccepted, Handles, Put, Needs, Takes, loop, TypeOK, LoopOK,
        HistoryOK, Bits
  <2>4. QED
    BY <2>1, <2>2, <2>3
    DEF TypeOK, LibOK, Lib
<1>2. CASE OnReplySent
  <2>1. lib' \in Lib
    BY <1>2, Steps, NeedsFacts, DataportFacts
    DEF OnReplySent
  <2>2. CepOK'
    BY <1>2, FtpAssumption
    DEF OnReplySent, Handles, RetrDataport, ListDataport, Dataport, Needs,
        AborFinish, FileClose, Put, Takes, loop, TypeOK, CepOK, Ep, Status,
        FtpAssumption
  <2>3. StatOK' /\ OwnerOK'
    BY <1>2, DataportFacts, Steps
    DEF OnReplySent, Handles, AborFinish, TypeOK, StatOK, OwnerOK, Exec,
        Subseq
  <2>4. LoopOK'
    BY <1>2
    DEF OnReplySent, Handles, RetrDataport, ListDataport, Dataport, Needs,
        AborFinish, FileClose, Put, Takes, loop, TypeOK, LoopOK, Bits
  <2>5. HistoryOK'
    BY <1>2
    DEF OnReplySent, Handles, RetrDataport, ListDataport, Dataport, Needs,
        AborFinish, FileClose, Put, Takes, loop, TypeOK, HistoryOK
  <2>6. QED
    BY <2>1, <2>2, <2>3, <2>4, <2>5
    DEF TypeOK, LibOK, Lib
<1>3. CASE OnCmdClosed
  <2>1. lib' \in Lib
    BY <1>3, Steps
    DEF OnCmdClosed, Handles, Put, loop, history
  <2>2. CepOK' /\ StatOK' /\ OwnerOK'
    BY <1>3, EntryFacts, FtpAssumption
    DEF OnCmdClosed, Handles, Put, loop, history, TypeOK, CepOK, StatOK,
        OwnerOK, Ep, Status, Exec, Subseq, Bits, FtpAssumption
  <2>3. LoopOK' /\ HistoryOK'
    BY <1>3
    DEF OnCmdClosed, Handles, Put, loop, history, TypeOK, LoopOK, HistoryOK,
        Bits
  <2>4. QED
    BY <2>1, <2>2, <2>3
    DEF TypeOK, LibOK, Lib
<1>4. CASE OnHangup
  <2>1. lib' \in Lib
    BY <1>4, Steps
    DEF OnHangup, Handles, Put, loop
  <2>2. CepOK' /\ StatOK' /\ OwnerOK'
    BY <1>4, EntryFacts, FtpAssumption
    DEF OnHangup, Handles, Put, loop, TypeOK, CepOK, StatOK, OwnerOK, Ep,
        Status, Exec, Transfer, Subseq, Bits, FtpAssumption
  <2>3. LoopOK' /\ HistoryOK'
    BY <1>4
    DEF OnHangup, Handles, Put, loop, TypeOK, LoopOK, HistoryOK, Transfer,
        Bits
  <2>4. QED
    BY <2>1, <2>2, <2>3
    DEF TypeOK, LibOK, Lib
<1>5. CASE OnPieceOfCommand
  <2>1. lib' \in Lib
    BY <1>5, Steps
    DEF OnPieceOfCommand, Handles, cep, loop, history
  <2>2. CepOK' /\ StatOK' /\ OwnerOK'
    BY <1>5, EntryFacts, FtpAssumption
    DEF OnPieceOfCommand, Handles, cep, loop, history, TypeOK, CepOK, StatOK,
        OwnerOK, Ep, Status, Exec, Subseq, Bits, FtpAssumption
  <2>3. LoopOK' /\ HistoryOK'
    BY <1>5
    DEF OnPieceOfCommand, Handles, cep, loop, history, TypeOK, LoopOK,
        HistoryOK, Bits
  <2>4. QED
    BY <2>1, <2>2, <2>3
    DEF TypeOK, LibOK, Lib
<1>6. QED
  BY <1>1, <1>2, <1>3, <1>4, <1>5
  DEF CmdCallback

(* The commands.                                                           *)
LEMMA CommandType ==
  ASSUME TypeOK, OnCommand
  PROVE  TypeOK'
<1>1. CASE OnRejected
  <2>1. lib' \in Lib
    BY <1>1, Steps, FailsFacts, SucceedsFacts, NeedsFacts, PutFacts
    DEF OnRejected, TypeOK, CepOK, Status
  <2>2. CepOK'
    BY <1>1, Steps, FailsFacts, SucceedsFacts, PutFacts
    DEF OnRejected, TypeOK, CepOK, Status
  <2>3. StatOK' /\ OwnerOK'
    BY <1>1, EntryFacts
    DEF OnRejected, Command, InTurn, Fails, Put, Handles, Needs, Takes, loop,
        TypeOK, StatOK, OwnerOK, Exec, Transfer, Subseq, Bits
  <2>4. LoopOK'
    BY <1>1
    DEF OnRejected, Command, InTurn, Fails, Put, Handles, Needs, Takes, loop,
        TypeOK, LoopOK, Transfer, Bits
  <2>5. HistoryOK'
    BY <1>1
    DEF OnRejected, Command, InTurn, Fails, Put, Handles, Needs, Takes, loop,
        TypeOK, HistoryOK, Transfer
  <2>6. QED
    BY <2>1, <2>2, <2>3, <2>4, <2>5
    DEF TypeOK, LibOK, Lib
<1>2. CASE OnUserPass
  <2>1. lib' \in Lib
    BY <1>2, Steps, FailsFacts, SucceedsFacts, NeedsFacts, PutFacts
    DEF OnUserPass, TypeOK, CepOK, Status
  <2>2. CepOK'
    BY <1>2, Steps, FailsFacts, SucceedsFacts, PutFacts
    DEF OnUserPass, TypeOK, CepOK, Status
  <2>3. StatOK' /\ OwnerOK'
    BY <1>2, EntryFacts
    DEF OnUserPass, Command, InTurn, Succeeds, Put, Fails, Handles, Answer,
        Needs, Takes, loop, TypeOK, StatOK, OwnerOK, Exec, Transfer, Subseq,
        Bits
  <2>4. LoopOK'
    BY <1>2
    DEF OnUserPass, Command, InTurn, Succeeds, Put, Fails, Handles, Answer,
        Needs, Takes, loop, TypeOK, LoopOK, Transfer, Bits
  <2>5. HistoryOK'
    BY <1>2
    DEF OnUserPass, Command, InTurn, Succeeds, Put, Fails, Handles, Answer,
        Needs, Takes, loop, TypeOK, HistoryOK, Transfer
  <2>6. QED
    BY <2>1, <2>2, <2>3, <2>4, <2>5
    DEF TypeOK, LibOK, Lib
<1>3. CASE OnPlain
  <2>1. lib' \in Lib
    BY <1>3, Steps, FailsFacts, SucceedsFacts, NeedsFacts, PutFacts
    DEF OnPlain, TypeOK, CepOK, Status
  <2>2. CepOK'
    BY <1>3, Steps, FailsFacts, SucceedsFacts, PutFacts
    DEF OnPlain, cep, TypeOK, CepOK, Status
  <2>3. StatOK' /\ OwnerOK'
    BY <1>3, EntryFacts
    DEF OnPlain, Command, InTurn, Succeeds, Fails, Needs, Handles, Answer,
        Put, Takes, cep, loop, TypeOK, StatOK, OwnerOK, Exec, Transfer,
        Subseq, Bits
  <2>4. LoopOK'
    BY <1>3
    DEF OnPlain, Command, InTurn, Succeeds, Fails, Needs, Handles, Answer,
        Put, Takes, cep, loop, TypeOK, LoopOK, Transfer, Bits
  <2>5. HistoryOK'
    BY <1>3
    DEF OnPlain, Command, InTurn, Succeeds, Fails, Needs, Handles, Answer,
        Put, Takes, cep, loop, TypeOK, HistoryOK, Transfer
  <2>6. QED
    BY <2>1, <2>2, <2>3, <2>4, <2>5
    DEF TypeOK, LibOK, Lib
<1>4. CASE OnPasv
  <2>1. lib' \in Lib
    BY <1>4, Steps, FailsFacts, SucceedsFacts, NeedsFacts, PutFacts
    DEF OnPasv, TypeOK, CepOK, Status
  <2>2. CepOK'
    BY <1>4, Steps, FailsFacts, SucceedsFacts, PutFacts
    DEF OnPasv, TypeOK, CepOK, Status
  <2>3. StatOK' /\ OwnerOK'
    BY <1>4, EntryFacts
    DEF OnPasv, Command, InTurn, Takes, Succeeds, Fails, Handles, Answer, Put,
        Needs, loop, TypeOK, StatOK, OwnerOK, Exec, Transfer, Subseq, Bits
  <2>4. LoopOK'
    BY <1>4
    DEF OnPasv, Command, InTurn, Takes, Succeeds, Fails, Handles, Answer, Put,
        Needs, loop, TypeOK, LoopOK, Transfer, Bits
  <2>5. HistoryOK'
    BY <1>4
    DEF OnPasv, Command, InTurn, Takes, Succeeds, Fails, Handles, Answer, Put,
        Needs, loop, TypeOK, HistoryOK, Transfer
  <2>6. QED
    BY <2>1, <2>2, <2>3, <2>4, <2>5
    DEF TypeOK, LibOK, Lib
<1>5. CASE OnPort
  <2>1. lib' \in Lib
    BY <1>5, Steps
    DEF OnPort, Command, InTurn, Needs, Handles, Takes, cep, loop
  <2>2. CepOK' /\ StatOK' /\ OwnerOK'
    BY <1>5, EntryFacts, FtpAssumption
    DEF OnPort, Command, InTurn, Needs, Handles, Takes, cep, loop, TypeOK,
        CepOK, StatOK, OwnerOK, Ep, Status, Exec, Transfer, Subseq, Bits,
        FtpAssumption
  <2>3. LoopOK' /\ HistoryOK'
    BY <1>5
    DEF OnPort, Command, InTurn, Needs, Handles, Takes, cep, loop, TypeOK,
        LoopOK, HistoryOK, Transfer, Bits
  <2>4. QED
    BY <2>1, <2>2, <2>3
    DEF TypeOK, LibOK, Lib
<1>6. CASE OnTransferFailed
  <2>1. lib' \in Lib
    BY <1>6, Steps, FailsFacts, SucceedsFacts, NeedsFacts, PutFacts
    DEF OnTransferFailed, TypeOK, CepOK, Status
  <2>2. CepOK'
    BY <1>6, Steps, FailsFacts, SucceedsFacts, PutFacts
    DEF OnTransferFailed, TypeOK, CepOK, Status
  <2>3. StatOK' /\ OwnerOK'
    BY <1>6, EntryFacts
    DEF OnTransferFailed, Command, InTurn, Fails, Handles, Put, Needs, Takes,
        loop, TypeOK, StatOK, OwnerOK, Exec, Transfer, Subseq, Bits
  <2>4. LoopOK'
    BY <1>6
    DEF OnTransferFailed, Command, InTurn, Fails, Handles, Put, Needs, Takes,
        loop, TypeOK, LoopOK, Transfer, Bits
  <2>5. HistoryOK'
    BY <1>6
    DEF OnTransferFailed, Command, InTurn, Fails, Handles, Put, Needs, Takes,
        loop, TypeOK, HistoryOK, Transfer
  <2>6. QED
    BY <2>1, <2>2, <2>3, <2>4, <2>5
    DEF TypeOK, LibOK, Lib
<1>7. CASE OnList
  <2>1. lib' \in Lib
    BY <1>7, Steps, AnswerFacts
    DEF OnList, Transfers
  <2>2. CepOK' /\ StatOK' /\ OwnerOK'
    BY <1>7, EntryFacts, FtpAssumption
    DEF OnList, Transfers, Command, Answer, Handles, Needs, Takes, loop,
        TypeOK, CepOK, StatOK, OwnerOK, Ep, Status, Exec, Transfer, Subseq,
        Bits, FtpAssumption
  <2>3. LoopOK' /\ HistoryOK'
    BY <1>7
    DEF OnList, Transfers, Command, Answer, Handles, Needs, Takes, loop,
        TypeOK, LoopOK, HistoryOK, Transfer, Bits
  <2>4. QED
    BY <2>1, <2>2, <2>3
    DEF TypeOK, LibOK, Lib
<1>8. CASE OnRetrStor
  <2>1. lib' \in Lib
    BY <1>8, Steps, AnswerFacts
    DEF OnRetrStor, Transfers
  <2>2. CepOK' /\ StatOK' /\ OwnerOK'
    BY <1>8, EntryFacts, FtpAssumption
    DEF OnRetrStor, Transfers, FreeEntry, Opens, Command, Answer, Put,
        Handles, Needs, Takes, loop, TypeOK, CepOK, StatOK, OwnerOK, Ep,
        Status, Exec, Transfer, Subseq, Bits, FtpAssumption
  <2>3. LoopOK' /\ HistoryOK'
    BY <1>8
    DEF OnRetrStor, Transfers, FreeEntry, Opens, Command, Answer, Put,
        Handles, Needs, Takes, loop, TypeOK, LoopOK, HistoryOK, Transfer,
        Bits
  <2>4. QED
    BY <2>1, <2>2, <2>3
    DEF TypeOK, LibOK, Lib
<1>9. CASE OnAbor
  <2>1. lib' \in Lib
    BY <1>9, Steps, NeedsFacts
    DEF OnAbor
  <2>2. CepOK' /\ StatOK' /\ OwnerOK'
    BY <1>9, EntryFacts, FtpAssumption
    DEF OnAbor, Command, FileClose, Needs, Handles, Put, Takes, loop, TypeOK,
        CepOK, StatOK, OwnerOK, Ep, Status, Exec, Subseq, Bits, FtpAssumption
  <2>3. LoopOK' /\ HistoryOK'
    BY <1>9
    DEF OnAbor, Command, FileClose, Needs, Handles, Put, Takes, loop, TypeOK,
        LoopOK, HistoryOK, Bits
  <2>4. QED
    BY <2>1, <2>2, <2>3
    DEF TypeOK, LibOK, Lib
<1>10. CASE OnIdleAbor
  <2>1. lib' \in Lib
    BY <1>10, Steps
    DEF OnIdleAbor, Command, Succeeds, Handles, Answer, Needs, Takes, loop
  <2>2. CepOK' /\ StatOK' /\ OwnerOK'
    BY <1>10, EntryFacts, FtpAssumption
    DEF OnIdleAbor, Command, Succeeds, Handles, Answer, Needs, Takes, loop,
        TypeOK, CepOK, StatOK, OwnerOK, Ep, Status, Exec, Subseq, Bits,
        FtpAssumption
  <2>3. LoopOK' /\ HistoryOK'
    BY <1>10
    DEF OnIdleAbor, Command, Succeeds, Handles, Answer, Needs, Takes, loop,
        TypeOK, LoopOK, HistoryOK, Bits
  <2>4. QED
    BY <2>1, <2>2, <2>3
    DEF TypeOK, LibOK, Lib
<1>11. QED
  BY <1>1, <1>2, <1>3, <1>4, <1>5, <1>6, <1>7, <1>8, <1>9, <1>10
  DEF OnCommand

(* The data connection.                                                    *)
LEMMA DataCallbackType ==
  ASSUME TypeOK, DataCallback
  PROVE  TypeOK'
<1>1. CASE OnDataConnected
  <2>1. lib' \in Lib
    BY <1>1, Steps, NeedsFacts
    DEF OnDataConnected
  <2>2. CepOK'
    BY <1>1, FtpAssumption
    DEF OnDataConnected, Handles, Put, Needs, Takes, loop, TypeOK, CepOK, Ep,
        Status, FtpAssumption
  <2>3. StatOK' /\ OwnerOK'
    BY <1>1, EntryFacts
    DEF OnDataConnected, Handles, Put, Needs, Takes, loop, TypeOK, StatOK,
        OwnerOK, Exec, Subseq, Bits
  <2>4. LoopOK'
    BY <1>1
    DEF OnDataConnected, Handles, Put, Needs, Takes, loop, TypeOK, LoopOK,
        Bits
  <2>5. HistoryOK'
    BY <1>1
    DEF OnDataConnected, Handles, Put, Needs, Takes, loop, TypeOK, HistoryOK
  <2>6. QED
    BY <2>1, <2>2, <2>3, <2>4, <2>5
    DEF TypeOK, LibOK, Lib
<1>2. CASE OnDataFin
  <2>1. lib' \in Lib
    BY <1>2, Steps
    DEF OnDataFin, Handles, DataCloses, Put, loop, history
  <2>2. CepOK' /\ StatOK' /\ OwnerOK'
    BY <1>2, EntryFacts, FtpAssumption
    DEF OnDataFin, Handles, DataCloses, Put, loop, history, TypeOK, CepOK,
        StatOK, OwnerOK, Ep, Status, Exec, Subseq, Bits, FtpAssumption
  <2>3. LoopOK' /\ HistoryOK'
    BY <1>2
    DEF OnDataFin, Handles, DataCloses, Put, loop, history, TypeOK, LoopOK,
        HistoryOK, Bits
  <2>4. QED
    BY <2>1, <2>2, <2>3
    DEF TypeOK, LibOK, Lib
<1>3. CASE \E n \in 1 .. DATA_BUF_SIZE : OnDataReceived(n)
  <2>1. lib' \in Lib
    BY <1>3, Steps
    DEF OnDataReceived, Handles, WriteFails, WriteSucceeds, FileClose, Put,
        loop
  <2>2. CepOK'
    BY <1>3, FtpAssumption
    DEF OnDataReceived, Handles, WriteFails, WriteSucceeds, FileClose, Put,
        loop, TypeOK, CepOK, Ep, Status, FtpAssumption
  <2>3. StatOK' /\ OwnerOK'
    BY <1>3, EntryFacts
    DEF OnDataReceived, Handles, WriteFails, WriteSucceeds, FileClose, Put,
        loop, TypeOK, StatOK, OwnerOK, Exec, Subseq, Bits
  <2>4. LoopOK'
    BY <1>3
    DEF OnDataReceived, Handles, WriteFails, WriteSucceeds, FileClose, Put,
        loop, TypeOK, LoopOK, Bits
  <2>5. HistoryOK'
    BY <1>3
    DEF OnDataReceived, Handles, WriteFails, WriteSucceeds, FileClose, Put,
        loop, TypeOK, HistoryOK
  <2>6. QED
    BY <2>1, <2>2, <2>3, <2>4, <2>5
    DEF TypeOK, LibOK, Lib
<1>4. CASE OnDataUnwanted
  <2>1. lib' \in Lib
    BY <1>4, Steps
    DEF OnDataUnwanted, Handles, cep, loop, history
  <2>2. CepOK' /\ StatOK' /\ OwnerOK'
    BY <1>4, EntryFacts, FtpAssumption
    DEF OnDataUnwanted, Handles, cep, loop, history, TypeOK, CepOK, StatOK,
        OwnerOK, Ep, Status, Exec, Subseq, Bits, FtpAssumption
  <2>3. LoopOK' /\ HistoryOK'
    BY <1>4
    DEF OnDataUnwanted, Handles, cep, loop, history, TypeOK, LoopOK,
        HistoryOK, Bits
  <2>4. QED
    BY <2>1, <2>2, <2>3
    DEF TypeOK, LibOK, Lib
<1>5. CASE OnBlockSent
  <2>1. lib' \in Lib
    BY <1>5, Steps, DataportFacts
    DEF OnBlockSent, DataCloses
  <2>2. CepOK'
    <3>1. status' \in [Ep -> Status]
      <4>1. /\ status \in [Ep -> Status]
            /\ Put(status, "data", "CLOSING") \in [Ep -> Status]
        BY Steps, PutFacts DEF TypeOK, CepOK, Status
      <4>2. QED
        BY <1>5, <4>1, Steps, DataportFacts DEF OnBlockSent, DataCloses
    <3>2. api_cancel' = api_cancel /\ now_data' \in {0, now_data}
      BY <1>5 DEF OnBlockSent
    <3>3. QED
      BY <3>1, <3>2, FtpAssumption DEF FtpAssumption, TypeOK, CepOK
  <2>3. StatOK' /\ OwnerOK'
    BY <1>5, Steps, DataportFacts
    DEF OnBlockSent, DataCloses, Handles, TypeOK, StatOK, OwnerOK
  <2>4. LoopOK'
    BY <1>5
    DEF OnBlockSent, Handles, RetrDataport, ListDataport, Dataport,
        DataCloses, FileClose, Put, Takes, loop, TypeOK, LoopOK, Bits
  <2>5. HistoryOK'
    BY <1>5
    DEF OnBlockSent, Handles, RetrDataport, ListDataport, Dataport,
        DataCloses, FileClose, Put, Takes, loop, TypeOK, HistoryOK
  <2>6. QED
    BY <2>1, <2>2, <2>3, <2>4, <2>5
    DEF TypeOK, LibOK, Lib
<1>6. CASE OnListClosed
  <2>1. lib' \in Lib
    BY <1>6, Steps
    DEF OnListClosed, DataClosed, AsksForReply, Handles, Put, loop, history
  <2>2. CepOK' /\ StatOK' /\ OwnerOK'
    BY <1>6, EntryFacts, FtpAssumption
    DEF OnListClosed, DataClosed, AsksForReply, Handles, Put, loop, history,
        TypeOK, CepOK, StatOK, OwnerOK, Ep, Status, Exec, Subseq, Bits,
        FtpAssumption
  <2>3. LoopOK' /\ HistoryOK'
    BY <1>6
    DEF OnListClosed, DataClosed, AsksForReply, Handles, Put, loop, history,
        TypeOK, LoopOK, HistoryOK, Bits
  <2>4. QED
    BY <2>1, <2>2, <2>3
    DEF TypeOK, LibOK, Lib
<1>7. CASE OnRetrClosed
  <2>1. lib' \in Lib
    BY <1>7, Steps
    DEF OnRetrClosed, DataClosed, AsksForReply, FileClose, Handles, Put, loop,
        history
  <2>2. CepOK' /\ StatOK' /\ OwnerOK'
    BY <1>7, EntryFacts, FtpAssumption
    DEF OnRetrClosed, DataClosed, AsksForReply, FileClose, Handles, Put, loop,
        history, TypeOK, CepOK, StatOK, OwnerOK, Ep, Status, Exec, Subseq,
        Bits, FtpAssumption
  <2>3. LoopOK' /\ HistoryOK'
    BY <1>7
    DEF OnRetrClosed, DataClosed, AsksForReply, FileClose, Handles, Put, loop,
        history, TypeOK, LoopOK, HistoryOK, Bits
  <2>4. QED
    BY <2>1, <2>2, <2>3
    DEF TypeOK, LibOK, Lib
<1>8. CASE OnStorClosed
  <2>1. lib' \in Lib
    BY <1>8, Steps
    DEF OnStorClosed, DataClosed, AsksForReply, FileClose, Handles, Put, loop
  <2>2. CepOK' /\ StatOK' /\ OwnerOK'
    BY <1>8, EntryFacts, FtpAssumption
    DEF OnStorClosed, DataClosed, AsksForReply, FileClose, Handles, Put, loop,
        TypeOK, CepOK, StatOK, OwnerOK, Ep, Status, Exec, Subseq, Bits,
        FtpAssumption
  <2>3. LoopOK' /\ HistoryOK'
    BY <1>8
    DEF OnStorClosed, DataClosed, AsksForReply, FileClose, Handles, Put, loop,
        TypeOK, LoopOK, HistoryOK, Bits
  <2>4. QED
    BY <2>1, <2>2, <2>3
    DEF TypeOK, LibOK, Lib
<1>9. CASE OnAborClosed
  <2>1. lib' \in Lib
    BY <1>9, Steps
    DEF OnAborClosed, DataClosed, AborFinish, Needs, Handles, Put, Takes,
        loop
  <2>2. CepOK' /\ StatOK' /\ OwnerOK'
    BY <1>9, EntryFacts, FtpAssumption
    DEF OnAborClosed, DataClosed, AborFinish, Needs, Handles, Put, Takes,
        loop, TypeOK, CepOK, StatOK, OwnerOK, Ep, Status, Exec, Subseq, Bits,
        FtpAssumption
  <2>3. LoopOK' /\ HistoryOK'
    BY <1>9
    DEF OnAborClosed, DataClosed, AborFinish, Needs, Handles, Put, Takes,
        loop, TypeOK, LoopOK, HistoryOK, Bits
  <2>4. QED
    BY <2>1, <2>2, <2>3
    DEF TypeOK, LibOK, Lib
<1>10. CASE OnIdleClosed
  <2>1. lib' \in Lib
    BY <1>10, Steps
    DEF OnIdleClosed, DataClosed, Handles, Put, loop, history
  <2>2. CepOK' /\ StatOK' /\ OwnerOK'
    BY <1>10, EntryFacts, FtpAssumption
    DEF OnIdleClosed, DataClosed, Handles, Put, loop, history, TypeOK, CepOK,
        StatOK, OwnerOK, Ep, Status, Exec, Subseq, Bits, FtpAssumption
  <2>3. LoopOK' /\ HistoryOK'
    BY <1>10
    DEF OnIdleClosed, DataClosed, Handles, Put, loop, history, TypeOK, LoopOK,
        HistoryOK, Bits
  <2>4. QED
    BY <2>1, <2>2, <2>3
    DEF TypeOK, LibOK, Lib
<1>11. QED
  BY <1>1, <1>2, <1>3, <1>4, <1>5, <1>6, <1>7, <1>8, <1>9, <1>10
  DEF DataCallback

(* Errors, cancelled calls and the HTTP server.                            *)
LEMMA OtherType ==
  ASSUME TypeOK, (\E e \in Ep : Interrupted(e)) \/ OnCmdReleased
         \/ OnDataReleased \/ HttpOpens \/ HttpCloses
  PROVE  TypeOK'
<1>1. CASE \E e \in Ep : Interrupted(e)
  <2>1. lib' \in Lib
    BY <1>1, Steps
    DEF Interrupted, OnError, OnIgnored, OnCancelledInReset, cep, stat, loop,
        history
  <2>2. CepOK' /\ StatOK' /\ OwnerOK'
    BY <1>1, EntryFacts, FtpAssumption
    DEF Interrupted, OnError, OnIgnored, OnCancelledInReset, cep, stat, loop,
        history, TypeOK, CepOK, StatOK, OwnerOK, Ep, Status, Exec, Subseq,
        Bits, FtpAssumption
  <2>3. LoopOK' /\ HistoryOK'
    BY <1>1
    DEF Interrupted, OnError, OnIgnored, OnCancelledInReset, cep, stat, loop,
        history, TypeOK, LoopOK, HistoryOK, Bits
  <2>4. QED
    BY <2>1, <2>2, <2>3
    DEF TypeOK, LibOK, Lib
<1>2. CASE OnCmdReleased
  <2>1. lib' \in Lib
    BY <1>2, Steps
    DEF OnCmdReleased, Released, Success, Needs, Takes, loop
  <2>2. CepOK' /\ StatOK' /\ OwnerOK'
    BY <1>2, EntryFacts, FtpAssumption
    DEF OnCmdReleased, Released, Success, Needs, Takes, loop, TypeOK, CepOK,
        StatOK, OwnerOK, Ep, Status, Exec, Transfer, Subseq, Bits,
        FtpAssumption
  <2>3. LoopOK' /\ HistoryOK'
    BY <1>2
    DEF OnCmdReleased, Released, Success, Needs, Takes, loop, TypeOK, LoopOK,
        HistoryOK, Transfer, Bits
  <2>4. QED
    BY <2>1, <2>2, <2>3
    DEF TypeOK, LibOK, Lib
<1>3. CASE OnDataReleased
  <2>1. lib' \in Lib
    BY <1>3, Steps, NeedsFacts
    DEF OnDataReleased
  <2>2. CepOK' /\ StatOK' /\ OwnerOK'
    BY <1>3, EntryFacts, FtpAssumption
    DEF OnDataReleased, Released, AborFinish, Put, Needs, Takes, loop, TypeOK,
        CepOK, StatOK, OwnerOK, Ep, Status, Exec, Subseq, Bits, FtpAssumption
  <2>3. LoopOK' /\ HistoryOK'
    BY <1>3
    DEF OnDataReleased, Released, AborFinish, Put, Needs, Takes, loop, TypeOK,
        LoopOK, HistoryOK, Bits
  <2>4. QED
    BY <2>1, <2>2, <2>3
    DEF TypeOK, LibOK, Lib
<1>4. CASE HttpOpens
  <2>1. lib' \in Lib
    BY <1>4, Steps
    DEF HttpOpens, FreeEntry, Put, cep, stat, loop, history
  <2>2. CepOK' /\ StatOK' /\ OwnerOK'
    BY <1>4, EntryFacts, FtpAssumption
    DEF HttpOpens, FreeEntry, Put, cep, stat, loop, history, TypeOK, CepOK,
        StatOK, OwnerOK, Ep, Status, Exec, Subseq, Bits, FtpAssumption
  <2>3. LoopOK' /\ HistoryOK'
    BY <1>4
    DEF HttpOpens, FreeEntry, Put, cep, stat, loop, history, TypeOK, LoopOK,
        HistoryOK, Bits
  <2>4. QED
    BY <2>1, <2>2, <2>3
    DEF TypeOK, LibOK, Lib
<1>5. CASE HttpCloses
  <2>1. lib' \in Lib
    BY <1>5, Steps
    DEF HttpCloses, FileClose, Put, cep, stat, loop, history
  <2>2. CepOK' /\ StatOK' /\ OwnerOK'
    BY <1>5, EntryFacts, FtpAssumption
    DEF HttpCloses, FileClose, Put, cep, stat, loop, history, TypeOK, CepOK,
        StatOK, OwnerOK, Ep, Status, Exec, Subseq, Bits, FtpAssumption
  <2>3. LoopOK' /\ HistoryOK'
    BY <1>5
    DEF HttpCloses, FileClose, Put, cep, stat, loop, history, TypeOK, LoopOK,
        HistoryOK, Bits
  <2>4. QED
    BY <2>1, <2>2, <2>3
    DEF TypeOK, LibOK, Lib
<1>6. QED
  BY <1>1, <1>2, <1>3, <1>4, <1>5

LEMMA TypeStep == TypeOK /\ [Next]_vars => TypeOK'
<1> SUFFICES ASSUME TypeOK, [Next]_vars PROVE TypeOK'
  OBVIOUS
<1>1. CASE Main
  BY <1>1, MainType
<1>2. CASE Callback \/ HttpOpens \/ HttpCloses
  BY <1>2, CmdCallbackType, CommandType, DataCallbackType, OtherType
  DEF Callback, CmdCallback
<1>3. CASE UNCHANGED vars
  <2>1. CepOK' /\ StatOK' /\ LibOK' /\ OwnerOK'
    BY <1>3 DEF vars, cep, stat, TypeOK, CepOK, StatOK, LibOK, OwnerOK
  <2>2. LoopOK'
    BY <1>3 DEF vars, loop, TypeOK, LoopOK
  <2>3. HistoryOK'
    BY <1>3 DEF vars, history, TypeOK, HistoryOK
  <2>4. QED
    BY <2>1, <2>2, <2>3 DEF TypeOK
<1>4. QED
  BY <1>1, <1>2, <1>3 DEF Next

(* Every variable keeps its type: an upload never passes the end of its    *)
(* buffer, and file_index stays in the table of the file driver.           *)
THEOREM TypeCorrect == Spec => []TypeOK
<1>1. QED
  BY InitType, TypeStep, PTL DEF Spec

-----------------------------------------------------------------------------
(* cep_reset_req stays set until the session is reset.                     *)
LEMMA ResettingStep == TypeOK /\ Resetting /\ [Next]_vars => Resetting'
<1> SUFFICES ASSUME TypeOK, Resetting, [Next]_vars PROVE Resetting'
  OBVIOUS
<1>0. pending \in Pending
  BY DEF TypeOK, LoopOK, Pending
<1>1. CASE ResetData \/ ResetCmd
  <2>1. reset' # "none"
    BY <1>1 DEF ResetData, ResetCmd, Resetting
  <2>2. CASE main' # "or"
    BY <2>1, <2>2 DEF Resetting
  <2>3. CASE main' = "or"
    <3>1. pending'.high = reset'
      BY <1>1, <2>3 DEF ResetData, ResetCmd, CancelOrClose, OrLoad
    <3>2. QED
      BY <2>1, <3>1 DEF Resetting
  <2>4. QED
    BY <2>2, <2>3
<1>2. CASE ResetAgain \/ CloseData \/ CloseCmd
  <2>1. reset # "none" /\ reset' = reset
    BY <1>2 DEF ResetAgain, CloseData, CloseCmd, CloseEp, Resetting, stat
  <2>2. CASE ResetAgain
    BY <2>1, <2>2 DEF ResetAgain, From, Resetting
  <2>3. CASE CloseData \/ CloseCmd
    <3>1. main' = "or" => pending'.high = reset
      BY <2>3 DEF CloseData, CloseCmd, CloseEp, OrLoad
    <3>2. QED
      BY <2>1, <3>1 DEF Resetting
  <2>4. QED
    BY <1>2, <2>2, <2>3
<1>3. CASE OrStore
  <2>1. pending.then # "or"
    BY <1>0 DEF Pending
  <2>2. QED
    BY <1>3, <2>1 DEF OrStore, Resetting
<1>4. CASE Accept \/ AcceptStore \/ Finish \/ NotFinished \/ Cancels
  BY <1>4
  DEF Accept, AcceptStore, Finish, NotFinished, Cancels, CheckCancel,
      DoCancel, From, Resetting
<1>5. CASE CmdCallback
  BY <1>5
  DEF CmdCallback, OnCommand, OnCmdAccepted, OnReplySent, OnCmdClosed,
      OnHangup, OnPieceOfCommand, OnRejected, OnUserPass, OnPlain, OnPasv,
      OnPort, OnTransferFailed, OnList, OnRetrStor, Transfers, OnAbor,
      OnIdleAbor, Command, Handles, Resetting, loop
<1>6. CASE DataCallback
  BY <1>6
  DEF DataCallback, OnDataConnected, OnDataFin, OnDataReceived,
      OnDataUnwanted, OnBlockSent, OnListClosed, OnRetrClosed, OnStorClosed,
      OnAborClosed, OnIdleClosed, DataClosed, Handles, Resetting, loop
<1>7. CASE OnCmdReleased \/ OnDataReleased \/ \E e \in Ep : Interrupted(e)
  BY <1>7
  DEF OnCmdReleased, OnDataReleased, Released, Interrupted, OnError,
      OnIgnored, OnCancelledInReset, Resetting, loop, stat
<1>8. CASE HttpOpens \/ HttpCloses \/ UNCHANGED vars
  BY <1>8 DEF HttpOpens, HttpCloses, vars, stat, loop, Resetting
<1>9. QED
  BY <1>1, <1>2, <1>3, <1>4, <1>5, <1>6, <1>7, <1>8
  DEF Next, Main, Resets, Callback

-----------------------------------------------------------------------------
(* No call leaves an endpoint cancelled that was not.                      *)
LEMMA NeedsCan ==
  ASSUME NEW l \in Lib, NEW what \in Call, Needs(l, "cmd", what),
         lib'["cmd"].can
  PROVE  l["cmd"].can
BY CanFacts DEF Needs, Ep

LEMMA AnswerCan ==
  ASSUME TypeOK, NEW l \in Lib, NEW x, Answer(l, x), lib'["cmd"].can
  PROVE  l["cmd"].can
<1>1. CASE x = "STOR"
  <2>1. Begin(l, "data", "rcv") \in Lib
    BY Steps
  <2>2. Needs(Begin(l, "data", "rcv"), "cmd", "snd")
    BY <1>1 DEF Answer
  <2>3. Begin(l, "data", "rcv")["cmd"].can
    BY <2>1, <2>2, Steps, NeedsCan
  <2>4. QED
    BY <2>3, Steps, CanFacts
<1>2. CASE x # "STOR"
  BY <1>2, Steps, NeedsCan DEF Answer
<1>3. QED
  BY <1>1, <1>2

(* A session once excused stays so.                                        *)
LEMMA Monotone ==
  ASSUME [Next]_vars
  PROVE  /\ outOfTurn => outOfTurn'
         /\ slips \subseteq slips'
<1>1. ASSUME NEW l, NEW e, NEW what, Needs(l, e, what)
      PROVE  slips \subseteq slips'
  BY <1>1 DEF Needs
<1>2. CASE Accept \/ AcceptStore \/ Cancels
  BY <1>2
  DEF Accept, AcceptStore, Cancels, CheckCancel, DoCancel, history
<1>3. CASE Resets
  BY <1>3
  DEF Resets, ResetData, ResetCmd, ResetAgain, CloseData, CloseCmd, CloseEp,
      OrStore, Finish, NotFinished, history
<1>4. CASE OnCmdAccepted \/ OnCmdClosed \/ OnHangup \/ OnPieceOfCommand
  <2>1. CASE OnCmdAccepted
    BY <1>1, <2>1 DEF OnCmdAccepted
  <2>2. CASE OnCmdClosed \/ OnPieceOfCommand
    BY <2>2 DEF OnCmdClosed, OnPieceOfCommand, history
  <2>3. CASE OnHangup
    BY <2>3 DEF OnHangup
  <2>4. QED
    BY <1>4, <2>1, <2>2, <2>3
<1>5. CASE OnReplySent
  BY <1>1, <1>5 DEF OnReplySent
<1>6. CASE OnCommand
  <2>1. ASSUME NEW l, NEW x, Answer(l, x)
        PROVE  slips \subseteq slips'
    BY <1>1, <2>1 DEF Answer
  <2>2. CASE OnRejected \/ OnUserPass \/ OnPlain \/ OnPasv \/ OnTransferFailed
    BY <1>1, <2>1, <2>2
    DEF OnRejected, OnUserPass, OnPlain, OnPasv, OnTransferFailed, InTurn,
        Fails, Succeeds
  <2>3. CASE OnPort \/ OnIdleAbor
    <3>1. CASE OnPort
      BY <1>1, <3>1 DEF OnPort, InTurn
    <3>2. CASE OnIdleAbor
      BY <2>1, <3>2 DEF OnIdleAbor, Succeeds
    <3>3. QED
      BY <2>3, <3>1, <3>2
  <2>4. CASE OnList \/ OnRetrStor
    <3>1. PICK x \in Exec : Transfers(x)
      BY <2>4 DEF OnList, OnRetrStor, Exec
    <3>2. QED
      BY <2>1, <3>1 DEF Transfers
  <2>5. CASE OnAbor
    BY <1>1, <2>5 DEF OnAbor
  <2>6. QED
    BY <1>6, <2>2, <2>3, <2>4, <2>5 DEF OnCommand
<1>7. CASE DataCallback
  BY <1>1, <1>7
  DEF DataCallback, OnDataConnected, OnDataFin, OnDataReceived,
      OnDataUnwanted, OnBlockSent, OnListClosed, OnRetrClosed, OnStorClosed,
      OnAborClosed, OnIdleClosed, history
<1>8. CASE OnCmdReleased \/ OnDataReleased
  BY <1>1, <1>8 DEF OnCmdReleased, OnDataReleased, Released
<1>9. CASE \E e \in Ep : Interrupted(e)
  BY <1>9 DEF Interrupted, OnError, OnIgnored, OnCancelledInReset, history
<1>10. CASE HttpOpens \/ HttpCloses \/ UNCHANGED vars
  BY <1>10 DEF HttpOpens, HttpCloses, vars, history
<1>11. QED
  BY <1>2, <1>3, <1>4, <1>5, <1>6, <1>7, <1>8, <1>9, <1>10
  DEF Next, Main, Callback, CmdCallback

(* What closing and opening do to the session's entries.                   *)
LEMMA EntriesFacts ==
  ASSUME TypeOK, NEW i \in Entry
  PROVE  /\ file_index \in Entry
         /\ FileClose(i) =>
              \A j \in Entry : owner'[j] = "ftp" => owner[j] = "ftp" /\ j # i
         /\ Opens(i) =>
              /\ file_index' = i
              /\ \A j \in Entry : owner'[j] = "ftp" => owner[j] = "ftp" \/ j = i
         /\ owner' = Put(owner, i, "http") =>
              \A j \in Entry : owner'[j] = "ftp" => owner[j] = "ftp"
BY DEF TypeOK, StatOK, OwnerOK, FileClose, Opens, Put

(* A download that has come to its end has its file closed.                *)
LEMMA DataportFiles ==
  ASSUME TypeOK, OneFile, NEW l, NEW r, Dataport(l, r)
  PROVE  /\ exec = "RETR" /\ subseq' \in {12, 16} => NoFile'
         /\ NoFile => NoFile'
<1>1. file_index \in Entry
  BY EntriesFacts, EntryFacts
<1>2. NoFile => NoFile'
  BY <1>1, EntriesFacts DEF Dataport, NoFile
<1>3. ASSUME exec = "RETR", subseq' \in {12, 16}
      PROVE  NoFile'
  <2>1. FileClose(file_index)
    BY <1>3 DEF Dataport, RetrDataport
  <2>2. QED
    BY <1>1, <2>1, EntriesFacts DEF OneFile, NoFile
<1>4. QED
  BY <1>2, <1>3

-----------------------------------------------------------------------------
(* R_ftpd.                                                                 *)
LEMMA MainFiles ==
  ASSUME TypeOK, Resetting, OneFile, EndsClosed,
         Main,
         ~outOfTurn', "stale" \notin slips'
  PROVE  OneFile' /\ EndsClosed'
<1>1. CASE Accept
  <2>1. OneFile'
    BY <1>1, EntriesFacts
    DEF Accept, Takes, cep, stat, history, OneFile, EndsClosed, NoFile,
        Transfer
  <2>2. EndsClosed'
    BY <1>1, EntriesFacts, Steps, CanFacts
    DEF Accept, Takes, cep, stat, history, OneFile, EndsClosed, NoFile,
        Transfer
  <2>3. QED
    BY <2>1, <2>2
<1>2. CASE AcceptStore
  <2>1. OneFile'
    BY <1>2, EntriesFacts
    DEF AcceptStore, From, stat, OneFile, EndsClosed, NoFile, Transfer
  <2>2. EndsClosed'
    BY <1>2, EntriesFacts, Steps, CanFacts
    DEF AcceptStore, From, stat, OneFile, EndsClosed, NoFile, Transfer
  <2>3. QED
    BY <2>1, <2>2
<1>3. CASE ResetData
  <2>1. OneFile'
    BY <1>3, EntriesFacts
    DEF ResetData, CancelOrClose, OrLoad, history, OneFile, EndsClosed,
        NoFile, Transfer
  <2>2. EndsClosed'
    BY <1>3, EntriesFacts, Steps, CanFacts
    DEF ResetData, CancelOrClose, OrLoad, history, OneFile, EndsClosed,
        NoFile, Transfer
  <2>3. QED
    BY <2>1, <2>2
<1>4. CASE ResetCmd
  <2>1. OneFile'
    BY <1>4, EntriesFacts
    DEF ResetCmd, CancelOrClose, OrLoad, cep, history, Resetting, OneFile,
        EndsClosed, NoFile, Transfer
  <2>2. EndsClosed'
    BY <1>4, EntriesFacts, Steps, CanFacts
    DEF ResetCmd, CancelOrClose, OrLoad, cep, history, Resetting, OneFile,
        EndsClosed, NoFile, Transfer
  <2>3. QED
    BY <2>1, <2>2
<1>5. CASE ResetAgain
  <2>1. OneFile'
    BY <1>5, EntriesFacts
    DEF ResetAgain, From, stat, history, OneFile, EndsClosed, NoFile,
        Transfer
  <2>2. EndsClosed'
    BY <1>5, EntriesFacts, Steps, CanFacts
    DEF ResetAgain, From, stat, history, OneFile, EndsClosed, NoFile,
        Transfer
  <2>3. QED
    BY <2>1, <2>2
<1>6. CASE CloseData
  <2>1. OneFile'
    BY <1>6, EntriesFacts
    DEF CloseData, CloseEp, OrLoad, cep, stat, history, OneFile, EndsClosed,
        NoFile, Transfer
  <2>2. EndsClosed'
    BY <1>6, EntriesFacts, Steps, CanFacts
    DEF CloseData, CloseEp, OrLoad, cep, stat, history, OneFile, EndsClosed,
        NoFile, Transfer
  <2>3. QED
    BY <2>1, <2>2
<1>7. CASE CloseCmd
  <2>1. OneFile'
    BY <1>7, EntriesFacts
    DEF CloseCmd, CloseEp, OrLoad, cep, stat, history, OneFile, EndsClosed,
        NoFile, Transfer
  <2>2. EndsClosed'
    BY <1>7, EntriesFacts, Steps, CanFacts
    DEF CloseCmd, CloseEp, OrLoad, cep, stat, history, OneFile, EndsClosed,
        NoFile, Transfer
  <2>3. QED
    BY <2>1, <2>2
<1>8. CASE OrStore
  <2>1. OneFile'
    BY <1>8, EntriesFacts
    DEF OrStore, Nothing, cep, Resetting, OneFile, EndsClosed, NoFile,
        Transfer
  <2>2. EndsClosed'
    BY <1>8, EntriesFacts, Steps, CanFacts
    DEF OrStore, Nothing, cep, Resetting, OneFile, EndsClosed, NoFile,
        Transfer
  <2>3. QED
    BY <2>1, <2>2
<1>9. CASE Finish
  <2>1. OneFile'
    BY <1>9, EntriesFacts
    DEF Finish, From, OneFile, EndsClosed, NoFile, Transfer
  <2>2. EndsClosed'
    BY <1>9, EntriesFacts, Steps, CanFacts
    DEF Finish, From, OneFile, EndsClosed, NoFile, Transfer
  <2>3. QED
    BY <2>1, <2>2
<1>10. CASE NotFinished
  <2>1. OneFile'
    BY <1>10, EntriesFacts
    DEF NotFinished, From, cep, stat, history, OneFile, EndsClosed, NoFile,
        Transfer
  <2>2. EndsClosed'
    BY <1>10, EntriesFacts, Steps, CanFacts
    DEF NotFinished, From, cep, stat, history, OneFile, EndsClosed, NoFile,
        Transfer
  <2>3. QED
    BY <2>1, <2>2
<1>11. CASE Cancels
  <2>1. OneFile'
    BY <1>11, EntriesFacts
    DEF Cancels, CheckCancel, DoCancel, From, cep, stat, history, OneFile,
        EndsClosed, NoFile, Transfer
  <2>2. EndsClosed'
    BY <1>11, EntriesFacts, Steps, CanFacts
    DEF Cancels, CheckCancel, DoCancel, From, cep, stat, history, OneFile,
        EndsClosed, NoFile, Transfer
  <2>3. QED
    BY <2>1, <2>2
<1>12. QED
  BY <1>1, <1>2, <1>3, <1>4, <1>5, <1>6, <1>7, <1>8, <1>9, <1>10, <1>11
  DEF Main, Resets

(* The command connection.                                                 *)
LEMMA CmdCallbackFiles ==
  ASSUME TypeOK, Resetting, OneFile, EndsClosed,
         CmdCallback, ~OnCommand,
         ~outOfTurn', "stale" \notin slips'
  PROVE  OneFile' /\ EndsClosed'
<1>1. CASE OnCmdAccepted
  <2>1. OneFile'
    BY <1>1, EntriesFacts
    DEF OnCmdAccepted, Handles, loop, OneFile, EndsClosed, NoFile, Transfer
  <2>2. lib'["cmd"].can => lib["cmd"].can
    BY <1>1, Steps, CanFacts, NeedsCan
    DEF OnCmdAccepted, Handles, Ep
  <2>3. EndsClosed'
    BY <1>1, <2>2, EntriesFacts
    DEF OnCmdAccepted, Handles, loop, EndsClosed, OneFile, NoFile, Transfer
  <2>4. QED
    BY <2>1, <2>3
<1>2. CASE OnReplySent
  <2>1. OneFile'
    BY <1>2, EntriesFacts
    DEF OnReplySent, Handles, RetrDataport, ListDataport, Dataport,
        AborFinish, Takes, loop, OneFile, EndsClosed, NoFile, Transfer
  <2>2. ~lib'["cmd"].can
    <3>1. Done(lib, "cmd") \in Lib /\ ~Done(lib, "cmd")["cmd"].can
      BY Steps, CanFacts
    <3>2. ASSUME NEW what \in Call
          PROVE  /\ Begin(Done(lib, "cmd"), "data", what) \in Lib
                 /\ ~Begin(Done(lib, "cmd"), "data", what)["cmd"].can
      BY <3>1, Steps, CanFacts
    <3>3. \A r \in RetrDataport \cup ListDataport : r.call \in Call
      BY DEF RetrDataport, ListDataport, Call
    <3>4. CASE lib' = Begin(Done(lib, "cmd"), "cmd", "cls")
      BY <3>1, <3>4, Steps, CanFacts
    <3>5. CASE \E what \in Call :
                 Needs(Begin(Done(lib, "cmd"), "data", what), "cmd", "rcv")
      BY <3>2, <3>5, Steps, NeedsCan
    <3>6. CASE \E what \in {"rcv", "snd"} : Needs(Done(lib, "cmd"), "cmd", what)
      BY <3>1, <3>6, Steps, NeedsCan
    <3>7. CASE lib' = Done(lib, "cmd")
      BY <3>1, <3>7
    <3>8. QED
      BY <1>2, <3>3, <3>4, <3>5, <3>6, <3>7 DEF OnReplySent
  <2>3. EndsClosed'
    <3>1. CASE /\ exec \in {"LIST", "RETR"} /\ exec' = exec
               /\ \E l, r : Dataport(l, r)
      BY <1>2, <2>2, <3>1, DataportFiles
      DEF OnReplySent, Handles, EndsClosed, Transfer
    <3>2. CASE UNCHANGED <<exec, subseq, owner>>
      BY <1>2, <2>2, <3>2 DEF OnReplySent, Handles, EndsClosed, NoFile
    <3>3. CASE exec = "ABOR" /\ AborFinish /\ UNCHANGED owner
      BY <1>2, <2>2, <3>3
      DEF OnReplySent, Handles, AborFinish, EndsClosed, Transfer
    <3>4. QED
      BY <1>2, <3>1, <3>2, <3>3 DEF OnReplySent
  <2>4. QED
    BY <2>1, <2>3
<1>3. CASE OnCmdClosed
  <2>1. OneFile'
    BY <1>3, EntriesFacts
    DEF OnCmdClosed, Handles, loop, history, OneFile, EndsClosed, NoFile,
        Transfer
  <2>2. EndsClosed'
    BY <1>3, EntriesFacts, Steps, CanFacts
    DEF OnCmdClosed, Handles, loop, history, OneFile, EndsClosed, NoFile,
        Transfer
  <2>3. QED
    BY <2>1, <2>2
<1>4. CASE OnHangup
  <2>1. OneFile'
    BY <1>4, EntriesFacts
    DEF OnHangup, Handles, loop, OneFile, EndsClosed, NoFile, Transfer
  <2>2. EndsClosed'
    BY <1>4, EntriesFacts, Steps, CanFacts
    DEF OnHangup, Handles, loop, OneFile, EndsClosed, NoFile, Transfer
  <2>3. QED
    BY <2>1, <2>2
<1>5. CASE OnPieceOfCommand
  <2>1. OneFile'
    BY <1>5, EntriesFacts
    DEF OnPieceOfCommand, Handles, cep, loop, history, OneFile, EndsClosed,
        NoFile, Transfer
  <2>2. EndsClosed'
    BY <1>5, EntriesFacts, Steps, CanFacts
    DEF OnPieceOfCommand, Handles, cep, loop, history, OneFile, EndsClosed,
        NoFile, Transfer
  <2>3. QED
    BY <2>1, <2>2
<1>6. QED
  BY <1>1, <1>2, <1>3, <1>4, <1>5
  DEF CmdCallback

(* The commands.                                                           *)
LEMMA CommandFiles ==
  ASSUME TypeOK, Resetting, OneFile, EndsClosed,
         OnCommand,
         ~outOfTurn', "stale" \notin slips'
  PROVE  OneFile' /\ EndsClosed'
<1>1. CASE OnRejected
  <2>1. OneFile'
    BY <1>1, EntriesFacts
    DEF OnRejected, Command, InTurn, Fails, Handles, loop, OneFile,
        EndsClosed, NoFile, Transfer
  <2>2. EndsClosed'
    BY <1>1, EntriesFacts, Steps, CanFacts, NeedsCan
    DEF OnRejected, Command, InTurn, Fails, Handles, loop, OneFile,
        EndsClosed, NoFile, Transfer
  <2>3. QED
    BY <2>1, <2>2
<1>2. CASE OnUserPass
  <2>1. OneFile'
    BY <1>2, EntriesFacts
    DEF OnUserPass, Command, InTurn, Succeeds, Fails, Handles, loop, OneFile,
        EndsClosed, NoFile, Transfer
  <2>2. EndsClosed'
    BY <1>2, EntriesFacts, Steps, CanFacts, NeedsCan, AnswerCan
    DEF OnUserPass, Command, InTurn, Succeeds, Fails, Handles, loop, OneFile,
        EndsClosed, NoFile, Transfer
  <2>3. QED
    BY <2>1, <2>2
<1>3. CASE OnPlain
  <2>1. OneFile'
    BY <1>3, EntriesFacts
    DEF OnPlain, Command, InTurn, Succeeds, Fails, Handles, cep, loop,
        OneFile, EndsClosed, NoFile, Transfer
  <2>2. EndsClosed'
    BY <1>3, EntriesFacts, Steps, CanFacts, NeedsCan, AnswerCan
    DEF OnPlain, Command, InTurn, Succeeds, Fails, Handles, cep, loop,
        OneFile, EndsClosed, NoFile, Transfer
  <2>3. QED
    BY <2>1, <2>2
<1>4. CASE OnPasv
  <2>1. OneFile'
    BY <1>4, EntriesFacts
    DEF OnPasv, Command, InTurn, Takes, Succeeds, Fails, Handles, loop,
        OneFile, EndsClosed, NoFile, Transfer
  <2>2. EndsClosed'
    BY <1>4, EntriesFacts, Steps, CanFacts, NeedsCan, AnswerCan
    DEF OnPasv, Command, InTurn, Takes, Succeeds, Fails, Handles, loop,
        OneFile, EndsClosed, NoFile, Transfer
  <2>3. QED
    BY <2>1, <2>2
<1>5. CASE OnPort
  <2>1. OneFile'
    BY <1>5, EntriesFacts
    DEF OnPort, Command, InTurn, Handles, cep, loop, OneFile, EndsClosed,
        NoFile, Transfer
  <2>2. EndsClosed'
    BY <1>5, EntriesFacts, Steps, CanFacts, NeedsCan
    DEF OnPort, Command, InTurn, Handles, cep, loop, OneFile, EndsClosed,
        NoFile, Transfer
  <2>3. QED
    BY <2>1, <2>2
<1>6. CASE OnTransferFailed
  <2>1. OneFile'
    BY <1>6, EntriesFacts
    DEF OnTransferFailed, Command, InTurn, Fails, Handles, loop, OneFile,
        EndsClosed, NoFile, Transfer
  <2>2. EndsClosed'
    BY <1>6, EntriesFacts, Steps, CanFacts, NeedsCan
    DEF OnTransferFailed, Command, InTurn, Fails, Handles, loop, OneFile,
        EndsClosed, NoFile, Transfer
  <2>3. QED
    BY <2>1, <2>2
<1>7. CASE OnList
  <2>1. OneFile'
    BY <1>7, EntriesFacts
    DEF OnList, Transfers, Command, Handles, loop, OneFile, EndsClosed,
        NoFile, Transfer
  <2>2. EndsClosed'
    BY <1>7, EntriesFacts, Steps, CanFacts, AnswerCan
    DEF OnList, Transfers, Command, Handles, loop, OneFile, EndsClosed,
        NoFile, Transfer
  <2>3. QED
    BY <2>1, <2>2
<1>8. CASE OnRetrStor
  <2>1. OneFile'
    BY <1>8, EntriesFacts
    DEF OnRetrStor, Transfers, Command, Handles, loop, OneFile, EndsClosed,
        NoFile, Transfer
  <2>2. lib'["cmd"].can => lib["cmd"].can
    BY <1>8, Steps, CanFacts, AnswerCan
    DEF OnRetrStor, Transfers, Command, Handles, Ep
  <2>3. EndsClosed'
    <3>1. PICK x \in Transfer : Transfers(x)
      BY <1>8 DEF OnRetrStor, Transfer
    <3>2. reset = "none" /\ ~lib["cmd"].can /\ api_cancel' = api_cancel
      BY <3>1 DEF Transfers, Command, Handles
    <3>3. exec \notin Transfer /\ subseq' = 4
      BY <3>1 DEF Transfers
    <3>4. QED
      BY <2>2, <3>2, <3>3 DEF EndsClosed
  <2>4. QED
    BY <2>1, <2>3
<1>9. CASE OnAbor
  <2>1. OneFile'
    BY <1>9, EntriesFacts
    DEF OnAbor, Command, Handles, loop, OneFile, EndsClosed, NoFile, Transfer
  <2>2. lib'["cmd"].can => lib["cmd"].can
    BY <1>9, Steps, CanFacts, NeedsCan
    DEF OnAbor, Command, Handles, Ep
  <2>3. EndsClosed'
    BY <1>9, <2>2, EntriesFacts
    DEF OnAbor, Command, Handles, loop, EndsClosed, OneFile, NoFile, Transfer
  <2>4. QED
    BY <2>1, <2>3
<1>10. CASE OnIdleAbor
  <2>1. OneFile'
    BY <1>10, EntriesFacts
    DEF OnIdleAbor, Command, Succeeds, Handles, loop, OneFile, EndsClosed,
        NoFile, Transfer
  <2>2. EndsClosed'
    BY <1>10, EntriesFacts, Steps, CanFacts, AnswerCan
    DEF OnIdleAbor, Command, Succeeds, Handles, loop, OneFile, EndsClosed,
        NoFile, Transfer
  <2>3. QED
    BY <2>1, <2>2
<1>11. QED
  BY <1>1, <1>2, <1>3, <1>4, <1>5, <1>6, <1>7, <1>8, <1>9, <1>10
  DEF OnCommand

(* The data connection.                                                    *)
LEMMA DataCallbackFiles ==
  ASSUME TypeOK, Resetting, OneFile, EndsClosed,
         DataCallback,
         ~outOfTurn', "stale" \notin slips'
  PROVE  OneFile' /\ EndsClosed'
<1>1. CASE OnDataConnected
  <2>1. OneFile'
    BY <1>1, EntriesFacts
    DEF OnDataConnected, Handles, loop, OneFile, EndsClosed, NoFile, Transfer
  <2>2. EndsClosed'
    BY <1>1, EntriesFacts, Steps, CanFacts, NeedsCan
    DEF OnDataConnected, Handles, loop, OneFile, EndsClosed, NoFile, Transfer
  <2>3. QED
    BY <2>1, <2>2
<1>2. CASE OnDataFin
  <2>1. OneFile'
    BY <1>2, EntriesFacts
    DEF OnDataFin, Handles, DataCloses, loop, history, OneFile, EndsClosed,
        NoFile, Transfer
  <2>2. lib'["cmd"].can => lib["cmd"].can
    BY <1>2, Steps, CanFacts
    DEF OnDataFin, Handles, DataCloses, Ep
  <2>3. EndsClosed'
    BY <1>2, <2>2, EntriesFacts
    DEF OnDataFin, Handles, DataCloses, loop, history, EndsClosed, OneFile,
        NoFile, Transfer
  <2>4. QED
    BY <2>1, <2>3
<1>3. CASE \E n \in 1 .. DATA_BUF_SIZE : OnDataReceived(n)
  <2>1. OneFile'
    BY <1>3, EntriesFacts
    DEF OnDataReceived, Handles, WriteFails, WriteSucceeds, loop, OneFile,
        EndsClosed, NoFile, Transfer
  <2>2. lib'["cmd"].can => lib["cmd"].can
    <3>1. Done(lib, "data") \in Lib /\ "rcv" \in Call
      BY Steps
    <3>2. lib' = Begin(Done(lib, "data"), "data", "rcv")
      BY <1>3 DEF OnDataReceived
    <3>3. QED
      BY <3>1, <3>2, Steps, CanFacts
  <2>3. EndsClosed'
    BY <1>3, <2>2, EntriesFacts
    DEF OnDataReceived, Handles, WriteFails, WriteSucceeds, loop, EndsClosed,
        OneFile, NoFile, Transfer
  <2>4. QED
    BY <2>1, <2>3
<1>4. CASE OnDataUnwanted
  <2>1. OneFile'
    BY <1>4, EntriesFacts
    DEF OnDataUnwanted, Handles, cep, loop, history, OneFile, EndsClosed,
        NoFile, Transfer
  <2>2. EndsClosed'
    BY <1>4, EntriesFacts, Steps, CanFacts
    DEF OnDataUnwanted, Handles, cep, loop, history, OneFile, EndsClosed,
        NoFile, Transfer
  <2>3. QED
    BY <2>1, <2>2
<1>5. CASE OnBlockSent
  <2>1. OneFile'
    BY <1>5, EntriesFacts
    DEF OnBlockSent, Handles, RetrDataport, ListDataport, Dataport,
        DataCloses, Takes, loop, OneFile, EndsClosed, NoFile, Transfer
  <2>2. lib'["cmd"].can => lib["cmd"].can
    <3>1. Done(lib, "data") \in Lib
      BY Steps
    <3>2. \A r \in RetrDataport \cup ListDataport : r.call \in Call
      BY DEF RetrDataport, ListDataport, Call
    <3>3. \E what \in Call : lib' = Begin(Done(lib, "data"), "data", what)
      BY <1>5, <3>2, Steps DEF OnBlockSent, DataCloses
    <3>4. QED
      BY <3>1, <3>3, Steps, CanFacts
  <2>3. EndsClosed'
    <3>1. CASE exec \in {"LIST", "RETR"} /\ \E l, r : Dataport(l, r)
      BY <1>5, <2>2, <3>1, DataportFiles
      DEF OnBlockSent, Handles, EndsClosed, Transfer
    <3>2. CASE UNCHANGED <<subseq, owner>>
      BY <1>5, <2>2, <3>2 DEF OnBlockSent, Handles, EndsClosed, NoFile
    <3>3. QED
      BY <1>5, <3>1, <3>2 DEF OnBlockSent
  <2>4. QED
    BY <2>1, <2>3
<1>6. CASE OnListClosed
  <2>1. OneFile'
    BY <1>6, EntriesFacts
    DEF OnListClosed, DataClosed, AsksForReply, Handles, loop, history,
        OneFile, EndsClosed, NoFile, Transfer
  <2>2. EndsClosed'
    BY <1>6, EntriesFacts, Steps, CanFacts
    DEF OnListClosed, DataClosed, AsksForReply, Handles, loop, history,
        OneFile, EndsClosed, NoFile, Transfer
  <2>3. QED
    BY <2>1, <2>2
<1>7. CASE OnRetrClosed
  <2>1. OneFile'
    BY <1>7, EntriesFacts
    DEF OnRetrClosed, DataClosed, AsksForReply, Handles, loop, history,
        OneFile, EndsClosed, NoFile, Transfer
  <2>2. lib'["cmd"].can => lib["cmd"].can
    BY <1>7, Steps, CanFacts
    DEF OnRetrClosed, DataClosed, AsksForReply, Handles, Ep
  <2>3. EndsClosed'
    BY <1>7, <2>2, EntriesFacts
    DEF OnRetrClosed, DataClosed, AsksForReply, Handles, loop, history,
        EndsClosed, OneFile, NoFile, Transfer
  <2>4. QED
    BY <2>1, <2>3
<1>8. CASE OnStorClosed
  <2>1. OneFile'
    BY <1>8, EntriesFacts
    DEF OnStorClosed, DataClosed, AsksForReply, Handles, loop, OneFile,
        EndsClosed, NoFile, Transfer
  <2>2. lib'["cmd"].can => lib["cmd"].can
    BY <1>8, Steps, CanFacts
    DEF OnStorClosed, DataClosed, AsksForReply, Handles, Ep
  <2>3. EndsClosed'
    BY <1>8, <2>2, EntriesFacts
    DEF OnStorClosed, DataClosed, AsksForReply, Handles, loop, EndsClosed,
        OneFile, NoFile, Transfer
  <2>4. QED
    BY <2>1, <2>3
<1>9. CASE OnAborClosed
  <2>1. OneFile'
    BY <1>9, EntriesFacts
    DEF OnAborClosed, DataClosed, AborFinish, Handles, loop, OneFile,
        EndsClosed, NoFile, Transfer
  <2>2. EndsClosed'
    BY <1>9, EntriesFacts, Steps, CanFacts, NeedsCan
    DEF OnAborClosed, DataClosed, AborFinish, Handles, loop, OneFile,
        EndsClosed, NoFile, Transfer
  <2>3. QED
    BY <2>1, <2>2
<1>10. CASE OnIdleClosed
  <2>1. OneFile'
    BY <1>10, EntriesFacts
    DEF OnIdleClosed, DataClosed, Handles, loop, history, OneFile, EndsClosed,
        NoFile, Transfer
  <2>2. EndsClosed'
    BY <1>10, EntriesFacts, Steps, CanFacts
    DEF OnIdleClosed, DataClosed, Handles, loop, history, OneFile, EndsClosed,
        NoFile, Transfer
  <2>3. QED
    BY <2>1, <2>2
<1>11. QED
  BY <1>1, <1>2, <1>3, <1>4, <1>5, <1>6, <1>7, <1>8, <1>9, <1>10
  DEF DataCallback

(* Errors, cancelled calls and the HTTP server.                            *)
LEMMA OtherFiles ==
  ASSUME TypeOK, Resetting, OneFile, EndsClosed,
         (\E e \in Ep : Interrupted(e)) \/ OnCmdReleased
         \/ OnDataReleased \/ HttpOpens \/ HttpCloses,
         ~outOfTurn', "stale" \notin slips'
  PROVE  OneFile' /\ EndsClosed'
<1>1. CASE \E e \in Ep : Interrupted(e)
  <2>1. OneFile'
    BY <1>1, EntriesFacts
    DEF Interrupted, OnError, OnIgnored, OnCancelledInReset, cep, stat, loop,
        history, OneFile, EndsClosed, NoFile, Transfer
  <2>2. EndsClosed'
    BY <1>1, EntriesFacts, Steps, CanFacts
    DEF Interrupted, OnError, OnIgnored, OnCancelledInReset, cep, stat, loop,
        history, OneFile, EndsClosed, NoFile, Transfer
  <2>3. QED
    BY <2>1, <2>2
<1>2. CASE OnCmdReleased
  <2>1. OneFile'
    BY <1>2, EntriesFacts
    DEF OnCmdReleased, Released, Success, loop, OneFile, EndsClosed, NoFile,
        Transfer
  <2>2. EndsClosed'
    BY <1>2, EntriesFacts, Steps, CanFacts, NeedsCan
    DEF OnCmdReleased, Released, Success, loop, OneFile, EndsClosed, NoFile,
        Transfer
  <2>3. QED
    BY <2>1, <2>2
<1>3. CASE OnDataReleased
  <2>1. OneFile'
    BY <1>3, EntriesFacts
    DEF OnDataReleased, Released, AborFinish, loop, OneFile, EndsClosed,
        NoFile, Transfer
  <2>2. lib'["cmd"].can => lib["cmd"].can
    <3>1. Free("data") \in Lib /\ (Free("data")["cmd"].can => lib["cmd"].can)
      BY Steps, CanFacts DEF Free
    <3>2. CASE lib' = Free("data")
      BY <3>1, <3>2
    <3>3. CASE Needs(Begin(Free("data"), "data", "cls"), "cmd", "snd")
      <4>1. Begin(Free("data"), "data", "cls") \in Lib
        BY <3>1, Steps
      <4>2. lib'["cmd"].can => Begin(Free("data"), "data", "cls")["cmd"].can
        BY <3>3, <4>1, Steps, NeedsCan
      <4>3. QED
        BY <3>1, <4>2, Steps, CanFacts
    <3>4. QED
      BY <1>3, <3>2, <3>3 DEF OnDataReleased
  <2>3. EndsClosed'
    BY <1>3, <2>2, EntriesFacts
    DEF OnDataReleased, Released, AborFinish, loop, EndsClosed, OneFile,
        NoFile, Transfer
  <2>4. QED
    BY <2>1, <2>3
<1>4. CASE HttpOpens
  <2>1. OneFile'
    BY <1>4, EntriesFacts
    DEF HttpOpens, cep, stat, loop, history, OneFile, EndsClosed, NoFile,
        Transfer
  <2>2. EndsClosed'
    BY <1>4, EntriesFacts, Steps, CanFacts
    DEF HttpOpens, cep, stat, loop, history, OneFile, EndsClosed, NoFile,
        Transfer
  <2>3. QED
    BY <2>1, <2>2
<1>5. CASE HttpCloses
  <2>1. OneFile'
    BY <1>5, EntriesFacts
    DEF HttpCloses, cep, stat, loop, history, OneFile, EndsClosed, NoFile,
        Transfer
  <2>2. EndsClosed'
    BY <1>5, EntriesFacts, Steps, CanFacts
    DEF HttpCloses, cep, stat, loop, history, OneFile, EndsClosed, NoFile,
        Transfer
  <2>3. QED
    BY <2>1, <2>2
<1>6. QED
  BY <1>1, <1>2, <1>3, <1>4, <1>5

LEMMA InitFiles == Init => IInv
<1>1. Init => Resetting /\ FilesInv
  BY DEF Init, Resetting, FilesInv, OneFile, EndsClosed, NoFile, Unused, Ep,
         Transfer
<1>2. QED
  BY <1>1, InitType DEF IInv

LEMMA FilesStep == IInv /\ [Next]_vars => FilesInv'
<1> SUFFICES ASSUME IInv, [Next]_vars, ~outOfTurn', "stale" \notin slips'
             PROVE  OneFile' /\ EndsClosed'
  BY DEF FilesInv
<1>0. TypeOK /\ Resetting /\ OneFile /\ EndsClosed
  BY Monotone DEF IInv, FilesInv
<1>1. CASE Main
  BY <1>0, <1>1, MainFiles
<1>2. CASE Callback \/ HttpOpens \/ HttpCloses
  BY <1>0, <1>2, CmdCallbackFiles, CommandFiles, DataCallbackFiles, OtherFiles
  DEF Callback, CmdCallback
<1>3. CASE UNCHANGED vars
  BY <1>0, <1>3
  DEF vars, cep, stat, loop, history, OneFile, EndsClosed,
      NoFile
<1>4. QED
  BY <1>1, <1>2, <1>3 DEF Next

(* A session that gets its commands in turn has at most the file of its    *)
(* transfer open, whatever fails and however callbacks and R_ftpd          *)
(* interleave: no entry of the file driver leaks.                          *)
THEOREM NoFileLeaks == Spec => []FilesAreClosed
<1>1. Init => IInv
  BY InitFiles
<1>2. IInv /\ [Next]_vars => IInv'
  BY TypeStep, ResettingStep, FilesStep DEF IInv
<1>3. IInv => FilesAreClosed
  BY DEF IInv, FilesInv, FilesAreClosed, OneFile
<1>4. QED
  BY <1>1, <1>2, <1>3, PTL DEF Spec

-----------------------------------------------------------------------------
(* What the calls and callbacks of the library leave of its two endpoints. *)
LEMMA DoneFields ==
  ASSUME NEW l \in Lib, NEW e \in Ep
  PROVE  /\ Done(l, e) \in Lib
         /\ Done(l, e)[e].call = "none" /\ ~Done(l, e)[e].can
         /\ Done(l, e)[e].up <=> /\ l[e].up \/ l[e].call \in {"acp", "con"}
                                 /\ l[e].call # "cls"
         /\ l[e].call \in {"rcv", "snd"} => Done(l, e)[e].up = l[e].up
         /\ \A f \in Ep : f # e => Done(l, e)[f] = l[f]
<1>1. Done(l, e) \in Lib
  BY LibFacts
<1>2. Done(l, e)[e] = [call |-> "none", can |-> FALSE,
                       up |-> (l[e].up \/ l[e].call \in {"acp", "con"})
                              /\ l[e].call # "cls"]
  BY DEF Done, Lib
<1>3. \A f \in Ep : f # e => Done(l, e)[f] = l[f]
  BY DEF Done, Lib
<1>4. Done(l, e)[e].call = "none" /\ ~Done(l, e)[e].can
  BY <1>2
<1>5. Done(l, e)[e].up = ((l[e].up \/ l[e].call \in {"acp", "con"})
                         /\ l[e].call # "cls")
  BY <1>2
<1>6. l[e].call \in {"rcv", "snd"} => Done(l, e)[e].up = l[e].up
  <2>1. CASE l[e].up = TRUE
    BY <1>5, <2>1
  <2>2. CASE l[e].up = FALSE
    BY <1>5, <2>2
  <2>3. QED
    BY <2>1, <2>2 DEF Lib
<1>7. QED
  BY <1>1, <1>3, <1>4, <1>5, <1>6

LEMMA BeginFields ==
  ASSUME NEW l \in Lib, NEW e \in Ep, NEW what \in Call
  PROVE  /\ Begin(l, e, what) \in Lib
         /\ Takes(l, e, what) => Begin(l, e, what)[e].call = what
         /\ ~Takes(l, e, what) => Begin(l, e, what) = l
         /\ Begin(l, e, what)[e].can = l[e].can
         /\ Begin(l, e, what)[e].up = l[e].up
         /\ \A f \in Ep : f # e => Begin(l, e, what)[f] = l[f]
BY LibFacts DEF Begin, Lib

LEMMA NeedsFields ==
  ASSUME NEW l \in Lib, NEW e \in Ep, NEW what \in Call, Needs(l, e, what)
  PROVE  /\ lib' \in Lib
         /\ Takes(l, e, what) => lib'[e].call = what /\ slips' = slips
         /\ ~Takes(l, e, what) => lib' = l /\ slips' = slips \cup {"refused"}
         /\ lib'[e].can = l[e].can /\ lib'[e].up = l[e].up
         /\ \A f \in Ep : f # e => lib'[f] = l[f]
BY BeginFields DEF Needs

LEMMA EndFields ==
  ASSUME NEW l \in Lib, NEW e \in Ep
  PROVE  /\ Broken(l, e)[e].call = "none"
         /\ Broken(l, e)[e].can = l[e].can /\ Broken(l, e)[e].up = l[e].up
         /\ ForceClose(l, e)[e] = Unused
         /\ Cancel(l, e)[e].call = l[e].call /\ Cancel(l, e)[e].up = l[e].up
         /\ Cancel(l, e)[e].can <=> l[e].can \/ l[e].call # "none"
         /\ \A f \in Ep : f # e =>
              /\ Broken(l, e)[f] = l[f] /\ ForceClose(l, e)[f] = l[f]
              /\ Cancel(l, e)[f] = l[f]
BY DEF Broken, ForceClose, Cancel, Lib

LEMMA FreeFields ==
  ASSUME TypeOK, NEW e \in Ep
  PROVE  /\ Free(e) \in Lib
         /\ Free(e)[e].call = "none" /\ ~Free(e)[e].can
         /\ Free(e)[e].up = lib[e].up
         /\ \A f \in Ep : f # e => Free(e)[f] = lib[f]
<1>1. lib \in Lib /\ Free(e) \in Lib
  BY Steps
<1>2. /\ Free(e)[e].call = "none" /\ ~Free(e)[e].can
      /\ Free(e)[e].up = lib[e].up
      /\ \A f \in Ep : f # e => Free(e)[f] = lib[f]
  BY <1>1 DEF Free, Lib
<1>3. QED
  BY <1>1, <1>2

-----------------------------------------------------------------------------
(* What the callbacks of one endpoint do to the command connection.        *)
LEMMA CmdKeepsOpen ==
  ASSUME TypeOK, CmdCallback \/ OnCmdReleased
  PROVE  /\ lib["cmd"].call # "none"
         /\ reset = "none" /\ UNCHANGED <<reset, bits, main, pending>>
         /\ status'["cmd"] = "CLOSED" => status["cmd"] = "CLOSED" \/ OnCmdClosed
<1>0. \A x \in Status : Put(status, "cmd", x)["cmd"] = x
                        /\ Put(status, "data", x)["cmd"] = status["cmd"]
  BY DEF Put, TypeOK, CepOK, Ep
<1>1. CASE OnCmdAccepted \/ OnHangup \/ OnPieceOfCommand \/ OnCmdReleased
  BY <1>0, <1>1
  DEF OnCmdAccepted, OnHangup, OnPieceOfCommand, OnCmdReleased, Released,
      Handles, loop, cep, Status
<1>2. CASE OnCmdClosed
  BY <1>2 DEF OnCmdClosed, Handles, loop
<1>3. CASE OnReplySent
  <2>1. status' \in {status, Put(status, "data", "CLOSING")}
    BY <1>3 DEF OnReplySent, Dataport
  <2>2. QED
    BY <1>0, <1>3, <2>1 DEF OnReplySent, Handles, loop, Status
<1>4. CASE OnCommand
  <2>1. Handles("cmd", "rcv")
    BY <1>4
    DEF OnCommand, OnRejected, OnUserPass, OnPlain, OnPasv, OnPort,
        OnTransferFailed, OnList, OnRetrStor, Transfers, OnAbor, OnIdleAbor,
        Command
  <2>2. ASSUME NEW l, NEW x, NEW st, Fails(l, x, st)
        PROVE  status' \in {st, Put(st, "data", "CLOSING")}
    BY <2>2 DEF Fails
  <2>3. ASSUME NEW x \in {"CLOSING", "PASS_WORD", "LOGIN", "CONNECTION"}
        PROVE  /\ Put(status, "cmd", x)["cmd"] = x
               /\ Put(Put(status, "cmd", x), "data", "CLOSING")["cmd"] = x
    BY DEF Put, TypeOK, CepOK, Ep
  <2>4. CASE OnRejected \/ OnUserPass \/ OnPlain \/ OnPasv \/ OnTransferFailed
             \/ OnIdleAbor
    BY <1>0, <2>1, <2>2, <2>3, <2>4
    DEF OnRejected, OnUserPass, OnPlain, OnPasv, OnTransferFailed, OnIdleAbor,
        Succeeds, Handles, loop, cep, Status
  <2>5. CASE OnPort \/ OnList \/ OnRetrStor \/ OnAbor
    BY <2>1, <2>5
    DEF OnPort, OnList, OnRetrStor, Transfers, OnAbor, Handles, loop, cep
  <2>6. QED
    BY <1>4, <2>4, <2>5 DEF OnCommand
<1>5. QED
  BY <1>1, <1>2, <1>3, <1>4 DEF CmdCallback

LEMMA DataKeepsCmd ==
  ASSUME TypeOK, DataCallback \/ OnDataReleased
  PROVE  /\ lib["data"].call # "none"
         /\ reset = "none" /\ UNCHANGED <<reset, bits, main, pending>>
         /\ status'["cmd"] = status["cmd"]
         /\ \/ lib'["cmd"] = lib["cmd"]
            \/ Takes(lib, "cmd", "snd") /\ lib'["cmd"].call = "snd"
<1>0. \A x \in Status : Put(status, "data", x)["cmd"] = status["cmd"]
  BY DEF Put, TypeOK, CepOK, Ep
<1>1. ASSUME NEW l \in Lib, l["cmd"] = lib["cmd"]
      PROVE  /\ \A what \in Call :
                  Begin(l, "data", what) \in Lib
                  /\ Begin(l, "data", what)["cmd"] = lib["cmd"]
             /\ Needs(l, "cmd", "snd") =>
                  \/ lib'["cmd"] = lib["cmd"]
                  \/ Takes(lib, "cmd", "snd") /\ lib'["cmd"].call = "snd"
  <2>1. "cmd" \in Ep /\ "data" \in Ep /\ "snd" \in Call
    BY Steps
  <2>2. \A what \in Call : Begin(l, "data", what) \in Lib
                          /\ Begin(l, "data", what)["cmd"] = lib["cmd"]
    BY <1>1, <2>1, BeginFields
  <2>3. ASSUME Needs(l, "cmd", "snd")
        PROVE  \/ lib'["cmd"] = lib["cmd"]
               \/ Takes(lib, "cmd", "snd") /\ lib'["cmd"].call = "snd"
    <3>1. (Takes(l, "cmd", "snd") /\ lib'["cmd"].call = "snd") \/ lib' = l
      BY <2>1, <2>3, NeedsFields
    <3>2. Takes(l, "cmd", "snd") => Takes(lib, "cmd", "snd")
      BY <1>1 DEF Takes
    <3>3. QED
      BY <1>1, <3>1, <3>2
  <2>4. QED
    BY <2>2, <2>3
<1>2. Done(lib, "data") \in Lib /\ Done(lib, "data")["cmd"] = lib["cmd"]
  BY Steps, DoneFields
<1>3. Free("data") \in Lib /\ Free("data")["cmd"] = lib["cmd"]
  BY Steps, FreeFields
<1>4. CASE OnDataConnected
  <2>1. Handles("data", "acp") \/ Handles("data", "con")
    BY <1>4 DEF OnDataConnected
  <2>2. status'["cmd"] = status["cmd"]
    BY <1>0, <1>4 DEF OnDataConnected, Status
  <2>3. \/ lib'["cmd"] = lib["cmd"]
        \/ Takes(lib, "cmd", "snd") /\ lib'["cmd"].call = "snd"
    BY <1>1, <1>2, <1>4 DEF OnDataConnected
  <2>4. QED
    BY <2>1, <2>2, <2>3 DEF Handles, loop
<1>5. CASE OnDataFin \/ OnDataUnwanted \/ \E n \in 1 .. DATA_BUF_SIZE : OnDataReceived(n)
  BY <1>0, <1>1, <1>2, <1>5, Steps
  DEF OnDataFin, OnDataUnwanted, OnDataReceived, DataCloses, Handles, loop, cep,
      Status
<1>6. CASE OnBlockSent
  <2>1. status' \in {status, Put(status, "data", "CLOSING")}
    BY <1>6 DEF OnBlockSent, Dataport, DataCloses
  <2>2. \A r \in RetrDataport \cup ListDataport : r.call \in Call
    BY DEF RetrDataport, ListDataport, Call
  <2>3. \E what \in Call : lib' = Begin(Done(lib, "data"), "data", what)
    BY <1>6, <2>2, Steps DEF OnBlockSent, DataCloses
  <2>4. status'["cmd"] = status["cmd"] /\ lib'["cmd"] = lib["cmd"]
    BY <1>0, <1>1, <1>2, <2>1, <2>3 DEF Status
  <2>5. QED
    BY <1>6, <2>4 DEF OnBlockSent, Handles, loop
<1>7. CASE OnListClosed \/ OnRetrClosed \/ OnStorClosed \/ OnIdleClosed
  BY <1>0, <1>2, <1>7
  DEF OnListClosed, OnRetrClosed, OnStorClosed, OnIdleClosed, DataClosed,
      Handles, loop, Status
<1>8. CASE OnAborClosed
  <2>1. Handles("data", "cls") /\ status'["cmd"] = status["cmd"]
    BY <1>0, <1>8 DEF OnAborClosed, DataClosed, Status
  <2>2. \/ lib'["cmd"] = lib["cmd"]
        \/ Takes(lib, "cmd", "snd") /\ lib'["cmd"].call = "snd"
    BY <1>1, <1>2, <1>8 DEF OnAborClosed
  <2>3. QED
    BY <2>1, <2>2 DEF Handles, loop
<1>9. CASE OnDataReleased
  <2>1. status'["cmd"] = status["cmd"]
    BY <1>0, <1>9 DEF OnDataReleased, Status
  <2>2. \/ lib'["cmd"] = lib["cmd"]
        \/ Takes(lib, "cmd", "snd") /\ lib'["cmd"].call = "snd"
    BY <1>1, <1>3, <1>9, Steps DEF OnDataReleased
  <2>3. QED
    BY <1>9, <2>1, <2>2 DEF OnDataReleased, Released, loop
<1>10. QED
  BY <1>4, <1>5, <1>6, <1>7, <1>8, <1>9 DEF DataCallback

-----------------------------------------------------------------------------
(* That R_ftpd never enters its endless loop: a command connection that is *)
(* CLOSED takes a tcp_acp_cep.  It is CLOSED only when its close has ended *)
(* or when a reset has closed both endpoints, as bits 8 and 2 say; a       *)
(* session that is reset while it is CLOSED has nothing to cancel, and is  *)
(* reset in one pass, so that no tcp_acp_cep comes in between.             *)
Shut(e) == lib[e].call = "none" /\ ~lib[e].can /\ ~lib[e].up
Coming == IF main = "or" THEN pending.seen \cup pending.add ELSE {}

Listens ==
  main # "accepted" /\ status["cmd"] = "CLOSED" =>
    /\ lib["cmd"].call = "none" /\ ~lib["cmd"].up
    /\ reset # "none" => lib["data"].call = "none"

OnePass ==
  reset # "none" /\ main # "accepted" /\ status["cmd"] = "CLOSED" =>
    /\ main \in {"idle", "cancel_cmd", "cancel_data"} =>
         reset = "cancel" /\ bits = {}
    /\ main = "reset_cmd" => {1, 2} \subseteq bits
    /\ main \in {"close_data", "close_cmd", "finish"} => bits = Bits
    /\ main = "or" => \/ pending.then = "reset_cmd" /\ {1, 2} \subseteq Coming
                      \/ pending.then = "close_data" /\ Coming = Bits

ClosedBits ==
  reset # "none" =>
    /\ 8 \in bits \cup Coming => Shut("cmd")
    /\ 2 \in bits \cup Coming => Shut("data")

ResetInv == main # "halt" /\ Listens /\ OnePass /\ ClosedBits

(* R_ftpd.                                                                 *)
LEMMA MainReset ==
  ASSUME TypeOK, Resetting, ResetInv, Main
  PROVE  ResetInv'
<1>0. /\ "cmd" \in Ep /\ "data" \in Ep /\ lib \in Lib /\ "acp" \in Call
      /\ lib["cmd"].call # "none" /\ main = "idle" => status["cmd"] # "CLOSED"
  BY Steps DEF ResetInv, Listens
<1>1. CASE Accept
  <2>1. Takes(lib, "cmd", "acp") /\ main' = "accepted"
    BY <1>1 DEF Accept, ResetInv, Listens, Takes
  <2>2. lib'["data"] = lib["data"] /\ UNCHANGED <<reset, bits>>
    BY <1>0, <1>1, BeginFields DEF Accept, stat
  <2>3. reset # "none" => bits = {}
    BY <1>1 DEF Accept, ResetInv, OnePass
  <2>4. QED
    BY <2>1, <2>2, <2>3 DEF ResetInv, Listens, OnePass, ClosedBits, Coming, Shut
<1>2. CASE AcceptStore
  <2>1. status'["cmd"] = "ACCEPT" /\ main' = "idle" /\ UNCHANGED <<reset, bits, lib>>
    BY <1>0, <1>2 DEF AcceptStore, From, Put, stat, TypeOK, CepOK
  <2>2. QED
    BY <2>1 DEF ResetInv, Listens, OnePass, ClosedBits, Coming, Shut
<1>3. CASE Cancels
  <2>1. /\ main \in {"idle", "cancel_cmd", "cancel_data"}
        /\ main' \in {"idle", "cancel_cmd", "cancel_data"}
        /\ UNCHANGED <<reset, bits, status>>
    BY <1>3 DEF Cancels, CheckCancel, DoCancel, From, stat, cep
  <2>2. \A e \in Ep : lib'[e].call = lib[e].call /\ lib'[e].up = lib[e].up
                      /\ (Shut(e) => lib'[e] = lib[e])
    <3>1. ASSUME NEW e \in Ep, NEW f \in Ep
          PROVE  /\ Cancel(lib, f)[e].call = lib[e].call
                 /\ Cancel(lib, f)[e].up = lib[e].up
                 /\ lib[e].call = "none" => Cancel(lib, f)[e] = lib[e]
      <4>1. CASE e = f
        BY <1>0, <4>1, EndFields DEF Cancel
      <4>2. CASE e # f
        BY <1>0, <4>2, EndFields
      <4>3. QED
        BY <4>1, <4>2
    <3>2. lib' = lib \/ \E f \in Ep : lib' = Cancel(lib, f)
      BY <1>0, <1>3 DEF Cancels, CheckCancel, DoCancel
    <3>3. QED
      BY <3>1, <3>2 DEF Shut
  <2>3. QED
    BY <1>0, <2>1, <2>2 DEF ResetInv, Listens, OnePass, ClosedBits, Coming, Shut
<1>4. CASE ResetData
  <2>1. reset = "cancel" /\ reset' = "close" /\ bits' = {} /\ UNCHANGED status
    BY <1>4 DEF ResetData
  <2>2. /\ lib'["cmd"] = lib["cmd"]
        /\ lib["data"].call = "none" => lib'["data"].call = "none"
    BY <1>0, <1>4, EndFields DEF ResetData, CancelOrClose, Unused
  <2>3. CASE lib["data"].call # "none"
    <3>1. main' = "reset_cmd" /\ main = "idle"
      BY <1>4, <2>3 DEF ResetData, CancelOrClose
    <3>2. status["cmd"] # "CLOSED"
      BY <2>1, <2>3, <3>1 DEF ResetInv, Listens
    <3>3. QED
      BY <2>1, <3>1, <3>2 DEF ResetInv, Listens, OnePass, ClosedBits, Coming
  <2>4. CASE lib["data"].call = "none"
    <3>1. /\ lib' = ForceClose(lib, "data") /\ main' = "or" /\ main = "idle"
          /\ pending' = [high |-> reset', seen |-> bits', add |-> {1, 2},
                         then |-> "reset_cmd"]
      BY <1>4, <2>4 DEF ResetData, CancelOrClose, OrLoad
    <3>2. Shut("data")'
      BY <1>0, <3>1, EndFields DEF Shut, Unused
    <3>3. Coming' = {1, 2} /\ pending'.then = "reset_cmd"
      BY <2>1, <3>1 DEF Coming
    <3>4. QED
      BY <2>1, <2>2, <3>1, <3>2, <3>3
      DEF ResetInv, Listens, OnePass, ClosedBits, Shut
  <2>5. QED
    BY <2>3, <2>4
<1>5. CASE ResetCmd
  <2>1. reset # "none" /\ main = "reset_cmd" /\ UNCHANGED <<reset, bits, status>>
    BY <1>5 DEF ResetCmd, Resetting, cep
  <2>2. /\ lib'["data"] = lib["data"] /\ main' \in {"close_data", "or"}
        /\ lib["cmd"].call = "none" /\ ~lib["cmd"].up =>
             lib'["cmd"].call = "none" /\ ~lib'["cmd"].up
    BY <1>0, <1>5, EndFields DEF ResetCmd, CancelOrClose, OrLoad, Unused
  <2>3. Coming = {}
    BY <2>1 DEF Coming
  <2>4. Listens'
    BY <2>1, <2>2 DEF ResetInv, Listens
  <2>5. CASE lib["cmd"].call # "none"
    <3>1. main' = "close_data" /\ status["cmd"] # "CLOSED"
      BY <1>5, <2>1, <2>5 DEF ResetCmd, CancelOrClose, ResetInv, Listens
    <3>2. ~Shut("cmd") /\ Coming' = {}
      BY <2>5, <3>1 DEF Shut, Coming
    <3>3. QED
      BY <2>1, <2>2, <2>3, <2>4, <3>1, <3>2 DEF ResetInv, OnePass, ClosedBits, Shut
  <2>6. CASE lib["cmd"].call = "none"
    <3>1. /\ lib' = ForceClose(lib, "cmd") /\ main' = "or"
          /\ pending' = [high |-> reset', seen |-> bits', add |-> {4, 8},
                         then |-> "close_data"]
      BY <1>5, <2>6 DEF ResetCmd, CancelOrClose, OrLoad
    <3>2. Shut("cmd")'
      BY <1>0, <3>1, EndFields DEF Shut, Unused
    <3>3. Coming' = bits \cup {4, 8} /\ pending'.then = "close_data"
      BY <2>1, <3>1 DEF Coming
    <3>4. OnePass'
      <4>1. {1, 2} \subseteq bits => bits \cup {4, 8} = Bits
        BY DEF TypeOK, StatOK, Bits
      <4>2. QED
        BY <2>1, <3>1, <3>3, <4>1 DEF ResetInv, OnePass
    <3>5. ClosedBits'
      BY <2>1, <2>2, <2>3, <3>2, <3>3 DEF ResetInv, ClosedBits, Shut
    <3>6. QED
      BY <2>4, <3>1, <3>4, <3>5 DEF ResetInv
  <2>7. QED
    BY <2>5, <2>6
<1>6. CASE ResetAgain
  <2>1. /\ reset = "close" /\ main = "idle" /\ main' = "close_data"
        /\ UNCHANGED <<reset, bits, status, lib>>
    BY <1>6 DEF ResetAgain, From, stat
  <2>2. status["cmd"] # "CLOSED"
    BY <2>1 DEF ResetInv, OnePass
  <2>3. QED
    BY <2>1, <2>2 DEF ResetInv, Listens, OnePass, ClosedBits, Coming, Shut
<1>7. CASE CloseData
  <2>1. reset # "none" /\ main = "close_data" /\ UNCHANGED <<reset, bits, status>>
    BY <1>7 DEF CloseData, CloseEp, Resetting, cep, stat
  <2>2. Coming = {}
    BY <2>1 DEF Coming
  <2>3. CASE 1 \in bits /\ 2 \notin bits
    <3>1. /\ lib' = ForceClose(lib, "data") /\ main' = "or"
          /\ pending' = [high |-> reset, seen |-> bits, add |-> {2},
                         then |-> "close_cmd"]
      BY <1>7, <2>3 DEF CloseData, CloseEp, OrLoad
    <3>2. Shut("data")' /\ lib'["cmd"] = lib["cmd"]
      BY <1>0, <3>1, EndFields DEF Shut, Unused
    <3>3. Coming' = bits \cup {2}
      BY <3>1 DEF Coming
    <3>4. status["cmd"] # "CLOSED"
      BY <2>1, <2>3 DEF ResetInv, OnePass, Bits
    <3>5. QED
      BY <2>1, <2>2, <3>1, <3>2, <3>3, <3>4
      DEF ResetInv, Listens, OnePass, ClosedBits, Shut
  <2>4. CASE ~(1 \in bits /\ 2 \notin bits)
    <3>1. lib' = lib /\ main' = "close_cmd"
      BY <1>7, <2>4 DEF CloseData, CloseEp
    <3>2. QED
      BY <2>1, <2>2, <3>1
      DEF ResetInv, Listens, OnePass, ClosedBits, Coming, Shut
  <2>5. QED
    BY <2>3, <2>4
<1>8. CASE CloseCmd
  <2>1. reset # "none" /\ main = "close_cmd" /\ UNCHANGED <<reset, bits, status>>
    BY <1>8 DEF CloseCmd, CloseEp, Resetting, cep, stat
  <2>2. Coming = {}
    BY <2>1 DEF Coming
  <2>3. CASE 4 \in bits /\ 8 \notin bits
    <3>1. /\ lib' = ForceClose(lib, "cmd") /\ main' = "or"
          /\ pending' = [high |-> reset, seen |-> bits, add |-> {8},
                         then |-> "finish"]
      BY <1>8, <2>3 DEF CloseCmd, CloseEp, OrLoad
    <3>2. Shut("cmd")' /\ lib'["data"] = lib["data"]
      BY <1>0, <3>1, EndFields DEF Shut, Unused
    <3>3. Coming' = bits \cup {8}
      BY <3>1 DEF Coming
    <3>4. status["cmd"] # "CLOSED"
      BY <2>1, <2>3 DEF ResetInv, OnePass, Bits
    <3>5. QED
      BY <2>1, <2>2, <3>1, <3>2, <3>3, <3>4
      DEF ResetInv, Listens, OnePass, ClosedBits, Shut
  <2>4. CASE ~(4 \in bits /\ 8 \notin bits)
    <3>1. lib' = lib /\ main' = "finish"
      BY <1>8, <2>4 DEF CloseCmd, CloseEp
    <3>2. QED
      BY <2>1, <2>2, <3>1
      DEF ResetInv, Listens, OnePass, ClosedBits, Coming, Shut
  <2>5. QED
    BY <2>3, <2>4
<1>9. CASE OrStore
  <2>1. /\ main = "or" /\ reset # "none" /\ reset' # "none"
        /\ main' = pending.then /\ bits' = Coming /\ UNCHANGED <<status, lib>>
    BY <1>9 DEF OrStore, Resetting, Coming, cep
  <2>2. pending.then \in {"idle", "reset_cmd", "close_data", "close_cmd", "finish"}
    BY DEF TypeOK, LoopOK
  <2>3. Coming' = {}
    BY <2>1, <2>2 DEF Coming
  <2>4. QED
    BY <2>1, <2>2, <2>3
    DEF ResetInv, Listens, OnePass, ClosedBits, Shut
<1>10. CASE Finish
  <2>1. /\ reset # "none" /\ reset' = "none" /\ main' = "idle" /\ bits = Bits
        /\ lib' = lib
    BY <1>10 DEF Finish, From, Resetting
  <2>2. Shut("cmd")
    BY <2>1 DEF ResetInv, ClosedBits, Bits
  <2>3. QED
    BY <2>1, <2>2 DEF ResetInv, Listens, OnePass, ClosedBits, Shut
<1>11. CASE NotFinished
  <2>1. /\ reset # "none" /\ main = "finish" /\ main' = "idle" /\ bits # Bits
        /\ UNCHANGED <<reset, bits, status, lib>>
    BY <1>11 DEF NotFinished, From, Resetting, cep, stat
  <2>2. status["cmd"] # "CLOSED"
    BY <2>1 DEF ResetInv, OnePass
  <2>3. QED
    BY <2>1, <2>2 DEF ResetInv, Listens, OnePass, ClosedBits, Coming, Shut
<1>12. QED
  BY <1>1, <1>2, <1>3, <1>4, <1>5, <1>6, <1>7, <1>8, <1>9, <1>10, <1>11
  DEF Main, Resets

(* The callbacks and the HTTP server.                                      *)
LEMMA CallbackReset ==
  ASSUME TypeOK, Resetting, ResetInv, Callback \/ HttpOpens \/ HttpCloses
  PROVE  ResetInv'
<1>0. "cmd" \in Ep /\ "data" \in Ep /\ lib \in Lib
  BY Steps
<1>1. CASE CmdCallback \/ OnCmdReleased
  <2>1. /\ lib["cmd"].call # "none" /\ reset' = "none" /\ main' = main
        /\ status'["cmd"] = "CLOSED" => status["cmd"] = "CLOSED" \/ OnCmdClosed
    BY <1>1, CmdKeepsOpen
  <2>2. OnCmdClosed => lib'["cmd"].call = "none" /\ ~lib'["cmd"].up
    BY <1>0, DoneFields DEF OnCmdClosed, Handles
  <2>3. QED
    BY <2>1, <2>2 DEF ResetInv, Listens, OnePass, ClosedBits
<1>2. CASE DataCallback \/ OnDataReleased
  <2>1. /\ reset' = "none" /\ main' = main /\ status'["cmd"] = status["cmd"]
        /\ lib'["cmd"] = lib["cmd"] \/ Takes(lib, "cmd", "snd")
    BY <1>2, DataKeepsCmd
  <2>2. QED
    BY <2>1 DEF ResetInv, Listens, OnePass, ClosedBits, Takes
<1>3. ASSUME NEW e \in Ep, Interrupted(e)
      PROVE  ResetInv'
  <2>0. lib[e].call # "none" /\ UNCHANGED <<status, main, pending>>
    BY <1>3 DEF Interrupted, OnError, OnIgnored, OnCancelledInReset, cep, stat,
                loop
  <2>1. /\ e = "cmd" \/ reset # "none" =>
             main = "accepted" \/ status["cmd"] # "CLOSED"
        /\ e = "cmd" \/ e = "data"
    BY <1>0, <2>0 DEF ResetInv, Listens, Ep
  <2>2. \A f \in Ep : f # e => lib'[f] = lib[f]
    <3>1. lib' \in {Broken(lib, e), Done(lib, e), Free(e)}
      BY <1>3 DEF Interrupted, OnError, OnIgnored, OnCancelledInReset, Free
    <3>2. \A f \in Ep : f # e =>
            Broken(lib, e)[f] = lib[f] /\ Done(lib, e)[f] = lib[f]
      BY <1>0, DoneFields, EndFields
    <3>3. \A f \in Ep : f # e => Free(e)[f] = lib[f]
      BY FreeFields
    <3>4. QED
      BY <3>1, <3>2, <3>3
  <2>3. CASE OnError(e)
    <3>1. reset' = "cancel" /\ bits' = {} /\ lib'[e].call = "none"
      BY <1>0, <2>3, EndFields DEF OnError
    <3>2. Listens'
      BY <1>0, <2>0, <2>1, <2>2, <3>1 DEF ResetInv, Listens
    <3>3. OnePass'
      BY <2>0, <2>1, <3>1 DEF Resetting, ResetInv, OnePass
    <3>4. ClosedBits'
      <4>1. Coming' = Coming /\ ~Shut(e) /\ (Coming # {} => reset # "none")
        BY <2>0 DEF Coming, Shut, Resetting
      <4>2. QED
        BY <1>0, <2>1, <2>2, <3>1, <4>1 DEF ResetInv, ClosedBits, Shut
    <3>5. QED
      BY <2>0, <3>2, <3>3, <3>4 DEF ResetInv
  <2>4. CASE OnIgnored(e) \/ OnCancelledInReset(e)
    <3>1. /\ reset # "none" /\ reset' = reset
          /\ bits' \in {bits, bits \cup {1}, bits \cup {4}}
      BY <2>4 DEF OnIgnored, OnCancelledInReset, stat
    <3>2. Coming' = Coming /\ ~Shut(e)
      BY <2>0 DEF Coming, Shut
    <3>3. ClosedBits'
      BY <1>0, <2>1, <2>2, <3>1, <3>2 DEF ResetInv, ClosedBits, Shut
    <3>4. QED
      BY <2>0, <2>1, <3>1, <3>3 DEF ResetInv, Listens, OnePass
  <2>5. QED
    BY <1>3, <2>3, <2>4 DEF Interrupted
<1>4. CASE HttpOpens \/ HttpCloses
  BY <1>4
  DEF HttpOpens, HttpCloses, cep, stat, loop, ResetInv, Listens, OnePass,
      ClosedBits, Coming, Shut
<1>5. QED
  BY <1>1, <1>2, <1>3, <1>4 DEF Callback

LEMMA ResetStep ==
  TypeOK /\ Resetting /\ ResetInv /\ [Next]_vars => ResetInv'
<1> SUFFICES ASSUME TypeOK, Resetting, ResetInv, [Next]_vars PROVE ResetInv'
  OBVIOUS
<1>1. CASE UNCHANGED vars
  BY <1>1
  DEF vars, cep, stat, loop, ResetInv, Listens, OnePass, ClosedBits, Coming, Shut
<1>2. QED
  BY <1>1, MainReset, CallbackReset DEF Next

-----------------------------------------------------------------------------
(* What the callbacks of the command connection do to the data endpoint: a *)
(* call is begun only while it is closed, or closing, or for a transfer.   *)
LEMMA CmdKeepsData ==
  ASSUME TypeOK, CmdCallback \/ OnCmdReleased
  PROVE  /\ lib'["data"].can = lib["data"].can
         /\ lib'["data"].up = lib["data"].up
         /\ status'["data"] \in {status["data"], "CLOSING"}
         /\ \/ lib'["data"].call = lib["data"].call
            \/ status'["data"] = "CLOSING" \/ ~lib["data"].up
            \/ exec' \in Transfer
<1>0. /\ "cmd" \in Ep /\ "data" \in Ep /\ lib \in Lib
      /\ {"acp", "con", "rcv", "snd", "cls"} \subseteq Call
  BY Steps
<1>1. ASSUME NEW x \in Status, NEW st \in [Ep -> Status]
      PROVE  /\ Put(st, "cmd", x) \in [Ep -> Status]
             /\ Put(st, "cmd", x)["data"] = st["data"]
             /\ Put(st, "data", x)["data"] = x
  BY <1>0 DEF Put, Ep
<1>2. DEFINE l == Done(lib, "cmd")
<1>3. l \in Lib /\ l["data"] = lib["data"]
  BY <1>0, DoneFields
<1> HIDE DEF l
<1>4. ASSUME NEW k \in Lib, NEW what \in Call, Needs(k, "cmd", what)
      PROVE  lib' \in Lib /\ lib'["data"] = k["data"]
  BY <1>0, <1>4, NeedsFields
<1>5. ASSUME NEW what \in Call
      PROVE  /\ Begin(l, "data", what) \in Lib
             /\ Begin(l, "data", what)["data"].can = lib["data"].can
             /\ Begin(l, "data", what)["data"].up = lib["data"].up
  <2>1. "data" \in Ep
    BY Steps
  <2>2. QED
    BY <1>3, <2>1, BeginFields
<1>6. /\ Begin(l, "cmd", "cls")["data"] = lib["data"]
      /\ status \in [Ep -> Status]
  <2>1. "cmd" \in Ep /\ "data" \in Ep /\ "cls" \in Call
    BY Steps
  <2>2. Begin(l, "cmd", "cls")["data"] = lib["data"]
    BY <1>3, <2>1, BeginFields
  <2>3. QED
    BY <2>2 DEF TypeOK, CepOK
<1>7. CASE OnCmdAccepted \/ OnCmdClosed \/ OnHangup \/ OnPieceOfCommand
  <2>1. lib'["data"] = lib["data"]
    BY <1>0, <1>3, <1>4, <1>6, <1>7
    DEF OnCmdAccepted, OnCmdClosed, OnHangup, OnPieceOfCommand, l
  <2>2. status'["data"] = status["data"]
    BY <1>1, <1>6, <1>7
    DEF OnCmdAccepted, OnCmdClosed, OnHangup, OnPieceOfCommand, cep, Status
  <2>3. QED
    BY <2>1, <2>2
<1>8. CASE OnReplySent
  <2>1. status' \in {status, Put(status, "data", "CLOSING")}
    BY <1>8 DEF OnReplySent, Dataport
  <2>2. \A r \in RetrDataport \cup ListDataport : r.call \in Call
    BY <1>0 DEF RetrDataport, ListDataport
  <2>3. CASE exec \in {"LIST", "RETR"} /\ exec' = exec
             /\ \E what \in Call : Needs(Begin(l, "data", what), "cmd", "rcv")
    BY <1>0, <1>1, <1>4, <1>5, <1>6, <2>1, <2>3 DEF Transfer, Status
  <2>4. CASE lib'["data"] = lib["data"]
    BY <1>1, <1>6, <2>1, <2>4 DEF Status
  <2>5. QED
    BY <1>0, <1>3, <1>4, <1>6, <1>8, <2>2, <2>3, <2>4 DEF OnReplySent, l
<1>9. CASE OnCmdReleased
  <2>1. Free("cmd") \in Lib /\ Free("cmd")["data"] = lib["data"]
    BY <1>0, FreeFields
  <2>2. lib'["data"] = lib["data"] /\ status' = status
    BY <1>0, <1>4, <1>9, <2>1 DEF OnCmdReleased
  <2>3. QED
    BY <2>2
<1>10. CASE OnCommand
  <2>1. ASSUME NEW x \in Exec, NEW st \in [Ep -> Status], Fails(l, x, st),
               st["data"] = status["data"]
        PROVE  /\ lib'["data"].can = lib["data"].can
               /\ lib'["data"].up = lib["data"].up
               /\ status'["data"] \in {status["data"], "CLOSING"}
               /\ lib'["data"].call = lib["data"].call \/ status'["data"] = "CLOSING"
    <3>1. CASE x = "NONE"
      BY <1>0, <1>3, <1>4, <2>1, <3>1 DEF Fails
    <3>2. CASE x # "NONE"
      <4>1. Needs(Begin(l, "data", "cls"), "cmd", "snd")
            /\ status' = Put(st, "data", "CLOSING")
        BY <2>1, <3>2 DEF Fails
      <4>2. status'["data"] = "CLOSING"
        BY <1>1, <4>1 DEF Status
      <4>3. QED
        BY <1>0, <1>4, <1>5, <4>1, <4>2
    <3>3. QED
      BY <3>1, <3>2
  <2>2. ASSUME NEW k \in Lib, NEW x, Answer(k, x)
        PROVE  /\ x # "STOR" => lib'["data"] = k["data"]
               /\ lib'["data"].can = k["data"].can
               /\ lib'["data"].up = k["data"].up
    <3>1. CASE x = "STOR"
      <4>1. Needs(Begin(k, "data", "rcv"), "cmd", "snd")
        BY <2>2, <3>1 DEF Answer
      <4>2. /\ Begin(k, "data", "rcv") \in Lib
            /\ Begin(k, "data", "rcv")["data"].can = k["data"].can
            /\ Begin(k, "data", "rcv")["data"].up = k["data"].up
        BY <1>0, BeginFields
      <4>3. QED
        BY <1>0, <1>4, <3>1, <4>1, <4>2
    <3>2. CASE x # "STOR"
      BY <1>0, <1>4, <2>2, <3>2 DEF Answer
    <3>3. QED
      BY <3>1, <3>2
  <2>3. ASSUME NEW st, NEW k \in Lib, Succeeds(k, st), st["data"] = status["data"]
        PROVE  /\ status'["data"] = status["data"]
               /\ lib'["data"].can = k["data"].can
               /\ lib'["data"].up = k["data"].up
               /\ lib'["data"] = k["data"] \/ exec' \in Transfer
    BY <2>2, <2>3 DEF Succeeds, Transfer
  <2>4. exec \in Exec /\ Transfer \subseteq Exec
    BY DEF TypeOK, StatOK, Exec, Transfer
  <2>5. CASE OnRejected
    BY <1>1, <1>6, <2>1, <2>4, <2>5 DEF OnRejected, Status, l
  <2>6. CASE OnUserPass
    BY <1>1, <1>3, <1>6, <2>1, <2>3, <2>4, <2>6 DEF OnUserPass, Status, l
  <2>7. CASE OnPlain \/ OnIdleAbor
    BY <1>0, <1>3, <1>4, <1>6, <2>1, <2>3, <2>4, <2>7
    DEF OnPlain, OnIdleAbor, cep, l
  <2>8. CASE OnPasv
    <3>1. CASE Takes(l, "data", "acp") /\ Succeeds(Begin(l, "data", "acp"), status)
      <4>1. ~lib["data"].up
        BY <1>3, <3>1 DEF Takes
      <4>2. QED
        BY <1>0, <1>5, <2>3, <3>1, <4>1
    <3>2. CASE Fails(l, exec, status)
      BY <1>6, <2>1, <2>4, <3>2
    <3>3. QED
      BY <2>8, <3>1, <3>2 DEF OnPasv, l
  <2>9. CASE OnPort
    <3>1. Needs(l, "data", "con") /\ status' = status
      BY <2>9 DEF OnPort, cep, l
    <3>2. Takes(l, "data", "con") => ~lib["data"].up
      BY <1>3 DEF Takes
    <3>3. QED
      BY <1>0, <1>3, <3>1, <3>2, NeedsFields
  <2>10. CASE OnTransferFailed
    BY <1>6, <2>1, <2>4, <2>10 DEF OnTransferFailed, l
  <2>11. CASE OnList \/ OnRetrStor
    <3>1. PICK x \in Transfer : Transfers(x)
      BY <2>11 DEF OnList, OnRetrStor, Transfer
    <3>2. exec' \in Transfer /\ status' = status /\ Answer(l, x)
      BY <3>1 DEF Transfers, l
    <3>3. QED
      BY <1>3, <2>2, <3>2
  <2>12. CASE OnAbor
    BY <1>0, <1>3, <1>4, <2>12 DEF OnAbor, l
  <2>13. QED
    BY <1>10, <2>5, <2>6, <2>7, <2>8, <2>9, <2>10, <2>11, <2>12 DEF OnCommand
<1>11. QED
  BY <1>7, <1>8, <1>9, <1>10 DEF CmdCallback

(* What the callbacks of the data connection do to a session.              *)
LEMMA DataEffects ==
  ASSUME TypeOK, DataCallback \/ OnDataReleased
  PROVE  /\ ~lib'["data"].can
         /\ \/ lib'["data"].up = lib["data"].up
            \/ status'["data"] = "CLOSED" \/ OnDataConnected
         /\ OnDataConnected => lib'["data"].call = "none" /\ lib'["data"].up
         /\ status'["data"] = "CONNECTION" =>
              status["data"] = "CONNECTION" \/ OnDataConnected
<1>0. "cmd" \in Ep /\ "data" \in Ep /\ lib \in Lib
  BY Steps
<1>1. \A x \in Status : Put(status, "data", x)["data"] = x
  BY <1>0 DEF Put, TypeOK, CepOK
<1>2. DEFINE l == Done(lib, "data")
<1>3. /\ l \in Lib /\ l["data"].call = "none" /\ ~l["data"].can
      /\ lib["data"].call # "cls" =>
           (l["data"].up <=> lib["data"].up \/ lib["data"].call \in {"acp", "con"})
  BY <1>0, DoneFields
<1>4. lib["data"].call \in {"rcv", "snd"} => l["data"].up = lib["data"].up
  BY <1>0, DoneFields
<1> HIDE DEF l
<1>5. ASSUME NEW k \in Lib, NEW what \in Call
      PROVE  /\ Needs(k, "cmd", what) => lib'["data"] = k["data"]
             /\ Begin(k, "data", what) \in Lib
             /\ Begin(k, "data", what)["data"].can = k["data"].can
             /\ Begin(k, "data", what)["data"].up = k["data"].up
  BY <1>0, NeedsFields, BeginFields
<1>6. "snd" \in Call /\ "cls" \in Call /\ "rcv" \in Call
  BY Steps
<1>7. CASE OnDataConnected
  <2>1. lib'["data"] = l["data"] /\ lib["data"].call \in {"acp", "con"}
    BY <1>3, <1>5, <1>6, <1>7 DEF OnDataConnected, Handles, l
  <2>2. QED
    BY <1>3, <1>7, <2>1
<1>8. CASE OnDataFin \/ OnDataUnwanted \/ \E n \in 1 .. DATA_BUF_SIZE : OnDataReceived(n)
  <2>1. /\ lib["data"].call = "rcv" /\ status' \in {status, Put(status, "data", "CLOSING")}
        /\ lib' \in {l, Begin(l, "data", "cls"), Begin(l, "data", "rcv")}
    BY <1>8 DEF OnDataFin, OnDataUnwanted, OnDataReceived, DataCloses, Handles, cep, l
  <2>2. ~OnDataConnected
    BY <2>1 DEF OnDataConnected, Handles
  <2>3. lib'["data"].up = lib["data"].up /\ ~lib'["data"].can
    BY <1>3, <1>4, <1>5, <1>6, <2>1
  <2>4. status'["data"] = "CONNECTION" => status["data"] = "CONNECTION"
    BY <1>1, <2>1 DEF Status
  <2>5. QED
    BY <2>2, <2>3, <2>4
<1>9. CASE OnBlockSent
  <2>1. /\ lib["data"].call = "snd" /\ status' \in {status, Put(status, "data", "CLOSING")}
    BY <1>9 DEF OnBlockSent, Dataport, DataCloses, Handles
  <2>2. \E what \in Call : lib' = Begin(l, "data", what)
    <3>1. \A r \in RetrDataport \cup ListDataport : r.call \in Call
      BY DEF RetrDataport, ListDataport, Call
    <3>2. QED
      BY <1>6, <1>9, <3>1 DEF OnBlockSent, DataCloses, l
  <2>3. ~OnDataConnected
    BY <2>1 DEF OnDataConnected, Handles
  <2>4. lib'["data"].up = lib["data"].up /\ ~lib'["data"].can
    BY <1>3, <1>4, <1>5, <2>1, <2>2
  <2>5. status'["data"] = "CONNECTION" => status["data"] = "CONNECTION"
    BY <1>1, <2>1 DEF Status
  <2>6. QED
    BY <2>3, <2>4, <2>5
<1>10. CASE OnListClosed \/ OnRetrClosed \/ OnStorClosed \/ OnIdleClosed \/ OnAborClosed
  <2>1. lib["data"].call = "cls" /\ status'["data"] = "CLOSED"
    BY <1>1, <1>10
    DEF OnListClosed, OnRetrClosed, OnStorClosed, OnIdleClosed, OnAborClosed,
        DataClosed, Handles, Status
  <2>2. ~OnDataConnected
    BY <2>1 DEF OnDataConnected, Handles
  <2>3. lib' = l \/ Needs(l, "cmd", "snd")
    BY <1>10
    DEF OnListClosed, OnRetrClosed, OnStorClosed, OnIdleClosed, OnAborClosed, l
  <2>4. QED
    BY <1>3, <1>5, <1>6, <2>1, <2>2, <2>3
<1>11. CASE OnDataReleased
  <2>1. /\ Free("data") \in Lib /\ ~Free("data")["data"].can
        /\ Free("data")["data"].up = lib["data"].up
    BY <1>0, FreeFields
  <2>2. lib["data"].can
    BY <1>11 DEF OnDataReleased, Released
  <2>3. ~OnDataConnected
    BY <2>2 DEF OnDataConnected, Handles
  <2>4. \/ lib' = Free("data") /\ status' = status
        \/ /\ Needs(Begin(Free("data"), "data", "cls"), "cmd", "snd")
           /\ status' = Put(status, "data", "CLOSING")
    BY <1>11 DEF OnDataReleased
  <2>5. lib'["data"].up = lib["data"].up /\ ~lib'["data"].can
    BY <1>5, <1>6, <2>1, <2>4
  <2>6. status'["data"] = "CONNECTION" => status["data"] = "CONNECTION"
    BY <1>1, <2>4 DEF Status
  <2>7. QED
    BY <2>3, <2>5, <2>6
<1>12. QED
  BY <1>7, <1>8, <1>9, <1>10, <1>11 DEF DataCallback

-----------------------------------------------------------------------------
(* The session between two resets, as long as its client keeps its turn    *)
(* and nothing is stored over a callback.  ABOR waits for the call of the  *)
(* data endpoint to end; without that, and without a transfer, an open     *)
(* data connection has no call.                                            *)
Ending == exec = "ABOR" /\ subseq = 4

Connected == status["data"] = "CONNECTION" => lib["data"].up
OnlyAborCancels == lib["data"].can \/ "data" \in api_cancel => Ending
AborWaits ==
  exec = "ABOR" =>
    /\ subseq \in {4, 8} /\ lib["cmd"].call # "rcv"
    /\ subseq = 4 => lib["cmd"].call = "none" /\ status["cmd"] # "CLOSED"
Quiet ==
  status["data"] = "CONNECTION" /\ exec \notin Transfer /\ ~Ending =>
    lib["data"].call = "none"

(* The phases of a transfer: its reply is under way; blocks are sent, or   *)
(* received and written; the connection is closed; it is over.             *)
FileMine == owner[file_index] = "ftp"
Begun ==
  /\ exec \in {"LIST", "RETR"} /\ subseq = 4 /\ ~dropped
  /\ status["data"] = "CONNECTION" /\ lib["data"].call = "none"
  /\ lib["cmd"].call # "rcv" /\ (exec = "RETR" => FileMine)
Sends ==
  /\ \/ exec = "LIST" /\ subseq \in {8, 12}
     \/ exec = "RETR" /\ subseq = 8 /\ FileMine
  /\ ~dropped /\ status["data"] = "CONNECTION" /\ lib["data"].call = "snd"
Closes ==
  /\ exec \in {"LIST", "RETR"} /\ subseq \in {12, -1}
  /\ subseq = 12 => ~dropped
  /\ status["data"] = "CLOSING" /\ lib["data"].call = "cls"
Stores ==
  /\ exec = "STOR" /\ subseq \in {4, -1}
  /\ subseq = 4 => ~dropped /\ FileMine
  /\ \/ status["data"] = "CONNECTION" /\ lib["data"].call = "rcv"
     \/ status["data"] = "CLOSING" /\ lib["data"].call = "cls"
Over ==
  /\ exec \in Transfer /\ subseq \in {Success[exec], -1}
  /\ subseq # -1 => ~dropped
  /\ status["data"] = "CLOSED" /\ lib["data"].call = "none"

Asks == "cmd" \in api_cancel \/ lib["cmd"].can
Phases ==
  exec \in Transfer =>
    /\ status["cmd"] = "LOGIN" /\ lib["cmd"].call \notin {"acp", "cls"}
    /\ Begun \/ Sends \/ Closes \/ Stores \/ Over
    /\ exec # "STOR" /\ ~Begun => lib["cmd"].call # "snd"
    /\ Asks => Over
    /\ Over => Asks \/ slips # {}

SessionInv ==
  reset = "none" => Connected /\ OnlyAborCancels /\ AborWaits /\ Quiet /\ Phases

(* The client is told of no transfer while one is under way.               *)
Told == verdict # "none" => exec \notin Transfer
Truthful == (verdict = "complete" => ~dropped) /\ verdict # "early"
WholeInv == Exempt \/ (SessionInv /\ Truthful)

-----------------------------------------------------------------------------
(* A client that keeps its turn ends no transfer by what it says; but for  *)
(* its ABOR, nothing on the command connection starts or prolongs one.     *)
LEMMA CmdDialogue ==
  ASSUME TypeOK, CmdCallback \/ OnCmdReleased, ~OnAbor, ~outOfTurn', AborWaits
  PROVE  /\ "data" \in api_cancel' => "data" \in api_cancel
         /\ exec' = "ABOR" => /\ exec = "ABOR" /\ subseq' = subseq
                              /\ lib'["cmd"].call # "rcv"
         /\ exec \in Transfer => \/ exec' \in Transfer
                                 \/ lib["cmd"].can /\ status' = status
<1>0. /\ "cmd" \in Ep /\ "data" \in Ep /\ lib \in Lib
      /\ "snd" \in Call /\ "cls" \in Call
  BY Steps
<1>1. DEFINE l == Done(lib, "cmd")
<1>2. l \in Lib /\ l["cmd"].call = "none"
  BY <1>0, DoneFields
<1> HIDE DEF l
<1>3. ASSUME NEW what \in {"snd", "cls"}
      PROVE  /\ Begin(l, "cmd", what)["cmd"].call # "rcv"
             /\ Needs(l, "cmd", what) => lib'["cmd"].call # "rcv"
  <2>0. what \in Call /\ what # "rcv"
    BY DEF Call
  <2>1. Begin(l, "cmd", what)["cmd"].call # "rcv"
    <3>1. \/ Begin(l, "cmd", what)["cmd"].call = what
          \/ Begin(l, "cmd", what) = l
      BY <1>0, <1>2, <2>0, BeginFields
    <3>2. QED
      BY <1>2, <2>0, <3>1
  <2>2. QED
    BY <2>1 DEF Needs
<1>4. CASE OnCmdAccepted \/ OnCmdClosed \/ OnHangup \/ OnPieceOfCommand
  <2>1. /\ UNCHANGED <<api_cancel, exec, subseq>>
        /\ OnPieceOfCommand => exec # "ABOR"
    BY <1>4 DEF OnCmdAccepted, OnCmdClosed, OnHangup, OnPieceOfCommand, cep,
                Handles, AborWaits
  <2>2. ~OnPieceOfCommand => lib'["cmd"].call # "rcv"
    BY <1>2, <1>3, <1>4 DEF OnCmdAccepted, OnCmdClosed, OnHangup, l
  <2>3. QED
    BY <2>1, <2>2
<1>5. CASE OnReplySent
  <2>1. api_cancel' = api_cancel /\ lib["cmd"].call = "snd"
    BY <1>5 DEF OnReplySent, Handles
  <2>2. exec' = exec \/ exec = "ABOR"
    BY <1>5 DEF OnReplySent
  <2>3. CASE exec = "ABOR"
    <3>1. subseq = 8
      BY <2>1, <2>3 DEF AborWaits
    <3>2. CASE lib' = Begin(l, "cmd", "cls") /\ UNCHANGED <<exec, subseq>>
      BY <1>3, <2>1, <2>3, <3>2 DEF Transfer
    <3>3. CASE AborFinish
      BY <2>1, <2>3, <3>1, <3>3 DEF AborFinish, Transfer
    <3>4. QED
      BY <1>5, <2>3, <3>2, <3>3 DEF OnReplySent, l
  <2>4. CASE exec # "ABOR"
    BY <2>1, <2>2, <2>4
  <2>5. QED
    BY <2>3, <2>4
<1>6. CASE OnCmdReleased
  <2>1. Free("cmd")["cmd"].call = "none" /\ lib["cmd"].can /\ status' = status
    BY <1>0, <1>6, FreeFields DEF OnCmdReleased, Released
  <2>2. api_cancel' = api_cancel \ {"cmd"}
    BY <1>6 DEF OnCmdReleased, Released
  <2>3. \/ exec \in Transfer /\ exec' = "NONE"
        \/ exec' = exec /\ subseq' = subseq /\ lib' = Free("cmd")
    BY <1>6 DEF OnCmdReleased
  <2>4. QED
    BY <2>1, <2>2, <2>3 DEF Transfer
<1>7. CASE OnCommand
  <2>1. lib["cmd"].call = "rcv" /\ exec # "ABOR"
    BY <1>7
    DEF OnCommand, OnRejected, OnUserPass, OnPlain, OnPasv, OnPort,
        OnTransferFailed, OnList, OnRetrStor, Transfers, OnAbor, OnIdleAbor,
        Command, Handles, AborWaits
  <2>2. exec \notin Transfer
    BY <1>7
    DEF OnCommand, OnRejected, OnUserPass, OnPlain, OnPasv, OnPort,
        OnTransferFailed, OnList, OnRetrStor, Transfers, OnIdleAbor,
        InTurn, Transfer
  <2>3. exec' # "ABOR" /\ api_cancel' = api_cancel
    BY <1>7, <2>1
    DEF OnCommand, OnRejected, OnUserPass, OnPlain, OnPasv, OnPort,
        OnTransferFailed, OnList, OnRetrStor, Transfers, OnIdleAbor,
        Fails, Succeeds, cep
  <2>4. QED
    BY <2>2, <2>3
<1>8. QED
  BY <1>4, <1>5, <1>6, <1>7 DEF CmdCallback

(* The four facts about the endpoints, under a callback of the command     *)
(* connection.                                                             *)
LEMMA CmdEndpoints ==
  ASSUME TypeOK, CmdCallback \/ OnCmdReleased, SessionInv, ~outOfTurn'
  PROVE  Connected' /\ OnlyAborCancels' /\ AborWaits' /\ Quiet'
<1>0. /\ "cmd" \in Ep /\ "data" \in Ep /\ lib \in Lib
      /\ "snd" \in Call /\ "cls" \in Call
  BY Steps
<1>1. /\ Connected /\ OnlyAborCancels /\ AborWaits /\ Quiet /\ Phases
      /\ lib["cmd"].call # "none"
  BY CmdKeepsOpen DEF SessionInv
<1>2. ~Ending /\ ~lib["data"].can /\ "data" \notin api_cancel
  BY <1>1 DEF Ending, OnlyAborCancels, AborWaits
<1>3. Connected'
  BY <1>1, CmdKeepsData DEF Connected
<1>4. CASE OnAbor
  <2>1. lib["cmd"].call = "rcv" /\ status["cmd"] = "LOGIN" /\ status' = status
    BY <1>4 DEF OnAbor, Command, Handles
  <2>2. Done(lib, "cmd") \in Lib /\ Done(lib, "cmd")["cmd"].call = "none"
    BY <1>0, DoneFields
  <2>3. exec' = "ABOR" /\ lib'["data"].can = lib["data"].can
    BY <1>4, CmdKeepsData DEF OnAbor, CmdCallback, OnCommand
  <2>4. CASE /\ subseq' = 4 /\ api_cancel' = {"data"} /\ lib' = Done(lib, "cmd")
    BY <1>1, <1>3, <2>1, <2>2, <2>3, <2>4
    DEF OnlyAborCancels, AborWaits, Quiet, Ending, Transfer
  <2>5. CASE /\ status["data"] = "CLOSED" /\ subseq' = 8
             /\ api_cancel' = api_cancel \ {"cmd"}
             /\ Needs(Done(lib, "cmd"), "cmd", "snd")
    <3>1. lib'["cmd"].call # "rcv"
      BY <1>0, <2>2, <2>5, NeedsFields
    <3>2. QED
      BY <1>1, <1>2, <1>3, <2>1, <2>3, <2>5, <3>1
      DEF OnlyAborCancels, AborWaits, Quiet, Ending
  <2>6. QED
    BY <1>4, <2>4, <2>5 DEF OnAbor
<1>5. CASE ~OnAbor
  <2>1. /\ "data" \in api_cancel' => "data" \in api_cancel
        /\ exec' = "ABOR" => /\ exec = "ABOR" /\ subseq' = subseq
                             /\ lib'["cmd"].call # "rcv"
        /\ exec \in Transfer => \/ exec' \in Transfer
                                \/ lib["cmd"].can /\ status' = status
    BY <1>1, <1>5, CmdDialogue
  <2>2. lib["cmd"].can /\ exec \in Transfer => status["data"] = "CLOSED"
    BY <1>1 DEF Phases, Asks, Over
  <2>3. Quiet'
    BY <1>1, <1>2, <2>1, <2>2, CmdKeepsData DEF Quiet, Connected, Ending
  <2>4. QED
    BY <1>1, <1>2, <1>3, <2>1, <2>3, CmdKeepsData
    DEF OnlyAborCancels, AborWaits, Ending
<1>6. QED
  BY <1>4, <1>5

-----------------------------------------------------------------------------
(* The callbacks of the data connection leave the command in execution to  *)
(* the command connection, but for the two steps of ABOR.                  *)
LEMMA DataDialogue ==
  ASSUME TypeOK, DataCallback \/ OnDataReleased, AborWaits
  PROVE  /\ "data" \in api_cancel' => "data" \in api_cancel
         /\ exec' = "ABOR" => exec = "ABOR"
         /\ exec' \in Transfer \/ exec \in Transfer => exec' = exec
         /\ exec = "ABOR" =>
              \/ UNCHANGED <<exec, subseq>> /\ lib'["cmd"] = lib["cmd"]
              \/ /\ "data" \notin api_cancel' /\ status'["data"] # "CONNECTION"
                 /\ exec' = "ABOR" => subseq' = 8
<1>0. "cmd" \in Ep /\ "data" \in Ep /\ lib \in Lib /\ "cls" \in Call
  BY Steps
<1>1. \A x \in Status : Put(status, "data", x)["data"] = x
  BY <1>0 DEF Put, TypeOK, CepOK
<1>2. DEFINE l == Done(lib, "data")
<1>3. l \in Lib /\ l["cmd"] = lib["cmd"]
  BY <1>0, DoneFields
<1> HIDE DEF l
<1>4. CASE OnDataConnected
  <2>1. api_cancel' = api_cancel /\ subseq' = subseq
    BY <1>4 DEF OnDataConnected
  <2>2. \/ exec' = exec /\ lib' = l
        \/ exec = "PORT" /\ exec' = "NONE"
    BY <1>4 DEF OnDataConnected, l
  <2>3. QED
    BY <1>3, <2>1, <2>2 DEF Transfer
<1>5. CASE OnDataFin \/ OnDataUnwanted \/ OnBlockSent
           \/ \E n \in 1 .. DATA_BUF_SIZE : OnDataReceived(n)
  <2>1. api_cancel' = api_cancel /\ exec' = exec
    BY <1>5 DEF OnDataFin, OnDataUnwanted, OnBlockSent, OnDataReceived, cep
  <2>2. exec = "ABOR" => /\ subseq' = subseq
                         /\ lib' = l \/ lib' = Begin(l, "data", "cls")
    BY <1>5
    DEF OnDataFin, OnDataUnwanted, OnBlockSent, OnDataReceived, DataCloses, l
  <2>3. Begin(l, "data", "cls")["cmd"] = lib["cmd"]
    BY <1>0, <1>3, BeginFields
  <2>4. QED
    BY <1>3, <2>1, <2>2, <2>3
<1>6. CASE OnListClosed \/ OnRetrClosed \/ OnStorClosed \/ OnIdleClosed
  <2>1. /\ "data" \in api_cancel' => "data" \in api_cancel
        /\ exec' = exec /\ exec # "ABOR"
    BY <1>6
    DEF OnListClosed, OnRetrClosed, OnStorClosed, OnIdleClosed, AsksForReply
  <2>2. QED
    BY <2>1
<1>7. CASE OnAborClosed
  <2>1. /\ exec = "ABOR" /\ status'["data"] = "CLOSED"
        /\ api_cancel' = api_cancel \ {"data"}
    BY <1>1, <1>7 DEF OnAborClosed, DataClosed, Status
  <2>2. subseq = 4 \/ subseq = 8
    BY <2>1 DEF AborWaits
  <2>3. \/ subseq = 4 /\ exec' = exec /\ subseq' = 8
        \/ subseq # 4 /\ UNCHANGED <<exec, subseq>>
    BY <1>7, <2>2 DEF OnAborClosed, AborFinish
  <2>4. QED
    BY <2>1, <2>2, <2>3 DEF Transfer
<1>8. CASE OnDataReleased
  <2>1. api_cancel' = api_cancel \ {"data"}
    BY <1>8 DEF OnDataReleased, Released
  <2>2. CASE exec = "ABOR" /\ AborFinish /\ status' = Put(status, "data", "CLOSING")
    BY <1>1, <2>1, <2>2 DEF AborWaits, AborFinish, Status, Transfer
  <2>3. CASE exec # "ABOR" /\ UNCHANGED exec
    BY <2>1, <2>3
  <2>4. QED
    BY <1>8, <2>2, <2>3 DEF OnDataReleased
<1>9. QED
  BY <1>4, <1>5, <1>6, <1>7, <1>8 DEF DataCallback

(* The four facts about the endpoints, under a callback of the data        *)
(* connection.                                                             *)
LEMMA DataEndpoints ==
  ASSUME TypeOK, DataCallback \/ OnDataReleased, SessionInv
  PROVE  Connected' /\ OnlyAborCancels' /\ AborWaits' /\ Quiet'
<1>1. /\ Connected /\ OnlyAborCancels /\ AborWaits /\ Quiet
      /\ lib["data"].call # "none" /\ status'["cmd"] = status["cmd"]
      /\ lib'["cmd"] = lib["cmd"] \/ lib'["cmd"].call = "snd"
  BY DataKeepsCmd DEF SessionInv
<1>2. Connected'
  BY <1>1, DataEffects DEF Connected
<1>3. AborWaits'
  BY <1>1, DataDialogue DEF AborWaits
<1>4. OnlyAborCancels'
  BY <1>1, DataEffects, DataDialogue DEF OnlyAborCancels, Ending
<1>5. Quiet'
  <2>1. SUFFICES ASSUME status'["data"] = "CONNECTION", exec' \notin Transfer,
                        ~Ending', ~OnDataConnected
                 PROVE  FALSE
    BY DataEffects DEF Quiet
  <2>2. status["data"] = "CONNECTION"
    BY <2>1, DataEffects
  <2>3. exec \notin Transfer
    BY <1>1, <2>1, DataDialogue
  <2>4. Ending
    BY <1>1, <2>2, <2>3 DEF Quiet
  <2>5. QED
    BY <1>1, <2>1, <2>4, DataDialogue DEF Ending
<1>6. QED
  BY <1>2, <1>3, <1>4, <1>5

-----------------------------------------------------------------------------
(* R_ftpd.  That its store over the status of the command connection       *)
(* changes nothing but CLOSED is what slips excludes; what it cancels is   *)
(* what it was asked to.                                                   *)
LEMMA MainSession ==
  ASSUME TypeOK, Resetting, ResetInv, SessionInv, Main, "stale" \notin slips'
  PROVE  SessionInv'
<1>0. "cmd" \in Ep /\ "data" \in Ep /\ lib \in Lib /\ "acp" \in Call
  BY Steps
<1> SUFFICES ASSUME reset' = "none"
             PROVE  Connected' /\ OnlyAborCancels' /\ AborWaits' /\ Quiet' /\ Phases'
  BY DEF SessionInv
<1>1. CASE Accept
  <2>1. /\ Connected /\ OnlyAborCancels /\ AborWaits /\ Quiet /\ Phases
        /\ status["cmd"] = "CLOSED" /\ lib' = Begin(lib, "cmd", "acp")
        /\ UNCHANGED <<status, api_cancel, exec, subseq>>
    BY <1>1 DEF Accept, stat, cep, SessionInv
  <2>2. lib'["data"] = lib["data"]
        /\ (lib'["cmd"].call = lib["cmd"].call \/ lib'["cmd"].call = "acp")
    BY <1>0, <2>1, BeginFields
  <2>3. exec' \notin Transfer
    BY <2>1 DEF Phases
  <2>4. QED
    BY <2>1, <2>2, <2>3
    DEF Connected, OnlyAborCancels, AborWaits, Quiet, Phases, Ending
<1>2. CASE AcceptStore
  <2>1. /\ Connected /\ OnlyAborCancels /\ AborWaits /\ Quiet /\ Phases
        /\ status["cmd"] = "CLOSED" /\ status' = Put(status, "cmd", "ACCEPT")
        /\ UNCHANGED <<lib, api_cancel, exec, subseq>>
    BY <1>2 DEF AcceptStore, stat, SessionInv
  <2>2. status'["data"] = status["data"]
    BY <1>0, <2>1 DEF Put, TypeOK, CepOK
  <2>3. exec' \notin Transfer
    BY <2>1 DEF Phases
  <2>4. QED
    BY <2>1, <2>2, <2>3
    DEF Connected, OnlyAborCancels, AborWaits, Quiet, Phases, Ending
<1>3. CASE Cancels
  <2>1. /\ Connected /\ OnlyAborCancels /\ AborWaits /\ Quiet /\ Phases
        /\ UNCHANGED <<status, exec, subseq, dropped, file_index, owner>>
    BY <1>3
    DEF Cancels, CheckCancel, DoCancel, stat, cep, history, SessionInv
  <2>2. CASE UNCHANGED <<lib, api_cancel, slips>>
    BY <2>1, <2>2
    DEF Connected, OnlyAborCancels, AborWaits, Quiet, Phases, Ending, FileMine,
        Begun, Sends, Closes, Stores, Over, Asks
  <2>3. CASE DoCancel("data", "cancel_data")
    <3>1. /\ "data" \in api_cancel /\ lib' = Cancel(lib, "data")
          /\ api_cancel' = api_cancel \ {"data"}
      BY <2>3 DEF DoCancel
    <3>2. /\ lib'["data"].call = lib["data"].call
          /\ lib'["data"].up = lib["data"].up /\ lib'["cmd"] = lib["cmd"]
      BY <1>0, <3>1, EndFields
    <3>3. Ending
      BY <2>1, <3>1 DEF OnlyAborCancels
    <3>4. QED
      BY <2>1, <3>2, <3>3
      DEF Connected, OnlyAborCancels, AborWaits, Quiet, Phases, Ending, Transfer
  <2>4. CASE DoCancel("cmd", "cancel_cmd")
    <3>1. /\ "cmd" \in api_cancel /\ lib' = Cancel(lib, "cmd")
          /\ api_cancel' = api_cancel \ {"cmd"}
          /\ lib["cmd"].call = "none" => slips' # {}
      BY <2>4 DEF DoCancel
    <3>2. /\ lib'["cmd"].call = lib["cmd"].call
          /\ lib["cmd"].call # "none" => lib'["cmd"].can
          /\ lib'["data"] = lib["data"]
      BY <1>0, <3>1, EndFields
    <3>3. Connected' /\ OnlyAborCancels' /\ AborWaits' /\ Quiet'
      BY <2>1, <3>1, <3>2
      DEF Connected, OnlyAborCancels, AborWaits, Quiet, Ending
    <3>4. Phases'
      <4>1. SUFFICES ASSUME exec \in Transfer
                     PROVE  Phases'
        BY <2>1 DEF Phases
      <4>2. Asks /\ Over
        BY <2>1, <3>1, <4>1 DEF Phases, Asks
      <4>3. Over' /\ (Begun' => Begun)
        BY <2>1, <3>2, <4>2 DEF Over, Begun, FileMine
      <4>4. Asks' \/ slips' # {}
        BY <3>1, <3>2 DEF Asks
      <4>5. ~Begun
        BY <4>2 DEF Begun, Over
      <4>6. QED
        BY <2>1, <3>2, <4>1, <4>2, <4>3, <4>4, <4>5 DEF Phases
    <3>5. QED
      BY <3>3, <3>4
  <2>5. QED
    BY <1>3, <2>2, <2>3, <2>4 DEF Cancels, CheckCancel, cep, history
<1>4. CASE Finish
  <2>1. Shut("data")
    BY <1>4 DEF Finish, From, Resetting, ResetInv, ClosedBits, Bits
  <2>2. /\ lib' = lib /\ exec' = "NONE" /\ api_cancel' = {}
        /\ status' = [e \in Ep |-> "CLOSED"]
    BY <1>4 DEF Finish
  <2>3. QED
    BY <1>0, <2>1, <2>2
    DEF Shut, Connected, OnlyAborCancels, AborWaits, Quiet, Phases, Transfer
<1>5. CASE Resets /\ ~Finish
  <2>1. reset' # "none"
    BY <1>5
    DEF Resets, ResetData, ResetCmd, ResetAgain, CloseData, CloseCmd, CloseEp,
        OrStore, NotFinished, From, Resetting, stat
  <2>2. QED
    BY <2>1
<1>6. QED
  BY <1>1, <1>2, <1>3, <1>4, <1>5 DEF Main

-----------------------------------------------------------------------------
(* The next block, when the data endpoint takes it.                        *)
LEMMA DataportPhase ==
  ASSUME TypeOK, NEW l \in Lib, NEW r, Dataport(l, r),
         exec \in {"LIST", "RETR"}, l["data"].call = "none", l["data"].up,
         status["data"] = "CONNECTION", ~dropped, exec = "RETR" => FileMine,
         exec' = exec, file_index' = file_index,
         lib'["data"] = Begin(l, "data", r.call)["data"]
  PROVE  Sends' \/ Closes'
<1>0. "data" \in Ep /\ "snd" \in Call /\ "cls" \in Call
  BY Steps
<1>1. /\ r \in RetrDataport \cup ListDataport
      /\ exec = "RETR" => r \in RetrDataport
      /\ exec = "LIST" => r \in ListDataport
  BY DEF Dataport
<1>2. CASE r.call = "snd"
  <2>1. Takes(l, "data", "snd")
    BY DEF Takes
  <2>2. lib'["data"].call = "snd"
    BY <1>0, <1>2, <2>1, BeginFields
  <2>3. /\ exec = "RETR" => subseq' = 8
        /\ exec = "LIST" => subseq' \in {8, 12}
    BY <1>1, <1>2 DEF Dataport, RetrDataport, ListDataport
  <2>4. UNCHANGED <<owner, status>> /\ ~dropped'
    BY <1>1, <1>2, <2>1 DEF Dataport, FileMine, RetrDataport, ListDataport
  <2>5. QED
    BY <2>2, <2>3, <2>4 DEF Sends, FileMine
<1>3. CASE r.call = "cls"
  <2>1. Takes(l, "data", "cls")
    BY DEF Takes
  <2>2. lib'["data"].call = "cls"
    BY <1>0, <1>3, <2>1, BeginFields
  <2>3. subseq' \in {12, -1}
    BY <1>1, <1>3 DEF Dataport, RetrDataport, ListDataport
  <2>4. status'["data"] = "CLOSING" /\ ~dropped'
    BY <1>0, <1>3 DEF Dataport, FileMine, Put, TypeOK, CepOK
  <2>5. QED
    BY <2>2, <2>3, <2>4 DEF Closes
<1>4. QED
  BY <1>1, <1>2, <1>3 DEF RetrDataport, ListDataport

(* The reply to a transfer is out.                                         *)
LEMMA ReplyPhases ==
  ASSUME TypeOK, OnReplySent, SessionInv, exec' \in Transfer
  PROVE  Phases'
<1>0. "cmd" \in Ep /\ "data" \in Ep /\ lib \in Lib /\ "rcv" \in Call
  BY Steps
<1>1. DEFINE l == Done(lib, "cmd")
<1>2. /\ l \in Lib /\ l["cmd"].call = "none" /\ ~l["cmd"].can
      /\ l["data"] = lib["data"]
  BY <1>0, DoneFields
<1> HIDE DEF l
<1>3. /\ lib["cmd"].call = "snd" /\ ~lib["cmd"].can
      /\ UNCHANGED <<api_cancel, file_index>>
      /\ Connected /\ Phases
  BY DEF OnReplySent, Handles, SessionInv
<1>4. exec' = exec
  BY DEF OnReplySent, AborFinish, Transfer
<1>5. status["cmd"] = "LOGIN"
  BY <1>3, <1>4 DEF Phases
<1>6. ASSUME NEW k \in Lib, k["cmd"] = l["cmd"], Needs(k, "cmd", "rcv")
      PROVE  /\ lib'["data"] = k["data"] /\ ~lib'["cmd"].can
             /\ lib'["cmd"].call \in {"none", "rcv"}
             /\ slips \subseteq slips'
  <2>1. /\ lib'["data"] = k["data"] /\ ~lib'["cmd"].can
        /\ lib'["cmd"].call \in {"none", "rcv"}
    BY <1>0, <1>2, <1>6, NeedsFields
  <2>2. slips \subseteq slips'
    BY <1>6 DEF Needs
  <2>3. QED
    BY <2>1, <2>2
<1>7. CASE exec \in {"LIST", "RETR"}
  <2>1. Begun /\ ~Asks
    BY <1>3, <1>7 DEF Phases, Begun, Over, Transfer
  <2>2. PICK r \in RetrDataport \cup ListDataport :
          Dataport(l, r) /\ Needs(Begin(l, "data", r.call), "cmd", "rcv")
    BY <1>5, <1>7 DEF OnReplySent, l
  <2>3. r.call \in Call
    BY DEF RetrDataport, ListDataport, Call
  <2>4. Begin(l, "data", r.call) \in Lib
        /\ Begin(l, "data", r.call)["cmd"] = l["cmd"]
    BY <1>0, <1>2, <2>3, BeginFields
  <2>5. Sends' \/ Closes'
    BY <1>2, <1>3, <1>4, <1>6, <1>7, <2>1, <2>2, <2>4, DataportPhase
    DEF Begun, Connected
  <2>6. status'["cmd"] = "LOGIN"
    BY <1>0, <1>5, <2>2 DEF Dataport, Put, TypeOK, CepOK
  <2>7. ~Asks' /\ lib'["cmd"].call \in {"none", "rcv"}
    BY <1>3, <1>6, <2>1, <2>2, <2>4 DEF Asks
  <2>8. ~Over'
    BY <2>5 DEF Sends, Closes, Over
  <2>9. QED
    BY <2>5, <2>6, <2>7, <2>8 DEF Phases
<1>8. CASE exec = "STOR"
  <2>1. Needs(l, "cmd", "rcv") /\ UNCHANGED <<status, subseq, owner, dropped>>
    BY <1>5, <1>8 DEF OnReplySent, l
  <2>2. /\ lib'["data"] = lib["data"] /\ ~lib'["cmd"].can
        /\ lib'["cmd"].call \in {"none", "rcv"} /\ slips \subseteq slips'
    BY <1>2, <1>6, <2>1
  <2>3. (Stores' <=> Stores) /\ (Over' <=> Over) /\ (Asks' <=> Asks)
    BY <1>3, <1>4, <2>1, <2>2 DEF Stores, Over, Asks, FileMine
  <2>4. Stores \/ Over
    BY <1>3, <1>8 DEF Phases, Begun, Sends, Closes, Transfer
  <2>5. QED
    BY <1>3, <1>4, <1>5, <1>8, <2>1, <2>2, <2>3, <2>4 DEF Phases
<1>9. QED
  BY <1>4, <1>7, <1>8 DEF Transfer

(* A transfer starts: the data connection is there, and has no call.       *)
LEMMA StartPhases ==
  ASSUME TypeOK, OnList \/ OnRetrStor, SessionInv, EndsClosed, ~outOfTurn'
  PROVE  Phases'
<1>0. /\ "cmd" \in Ep /\ "data" \in Ep /\ lib \in Lib
      /\ "snd" \in Call /\ "rcv" \in Call
  BY Steps
<1>1. DEFINE l == Done(lib, "cmd")
<1>2. /\ l \in Lib /\ l["cmd"].call = "none" /\ ~l["cmd"].can
      /\ l["data"] = lib["data"]
  BY <1>0, DoneFields
<1> HIDE DEF l
<1>3. PICK x \in Transfer : Transfers(x)
  BY DEF OnList, OnRetrStor, Transfer
<1>4. /\ exec' = x /\ subseq' = 4 /\ ~dropped' /\ Answer(l, x)
      /\ UNCHANGED <<status, api_cancel>>
      /\ exec \notin Transfer /\ status["data"] = "CONNECTION"
      /\ status["cmd"] = "LOGIN" /\ lib["cmd"].call = "rcv" /\ reset = "none"
  BY <1>3 DEF Transfers, Command, Handles, l
<1>5. /\ Connected /\ AborWaits /\ Quiet
      /\ "cmd" \notin api_cancel
  BY <1>4 DEF SessionInv, EndsClosed
<1>6. l["data"].call = "none" /\ l["data"].up
  BY <1>2, <1>4, <1>5 DEF AborWaits, Connected, Quiet, Ending
<1>7. x \in {"RETR", "STOR"} => FileMine'
  <2>1. OnList => exec' = "LIST"
    BY DEF OnList, Transfers
  <2>2. OnRetrStor => \E i \in Entry : Opens(i)
    BY DEF OnRetrStor
  <2>3. (\E i \in Entry : Opens(i)) => FileMine'
    BY DEF Opens, Put, FileMine, TypeOK, OwnerOK
  <2>4. QED
    BY <1>4, <2>1, <2>2, <2>3
<1>8. ASSUME NEW k \in Lib, k["cmd"] = l["cmd"], Needs(k, "cmd", "snd")
      PROVE  /\ lib'["data"] = k["data"] /\ ~lib'["cmd"].can
             /\ lib'["cmd"].call \in {"none", "snd"}
  BY <1>0, <1>2, <1>8, NeedsFields
<1>9. CASE x = "STOR"
  <2>1. Takes(l, "data", "rcv")
    BY <1>6 DEF Takes
  <2>2. /\ Begin(l, "data", "rcv") \in Lib
        /\ Begin(l, "data", "rcv")["data"].call = "rcv"
        /\ Begin(l, "data", "rcv")["cmd"] = l["cmd"]
    BY <1>0, <1>2, <2>1, BeginFields
  <2>3. Needs(Begin(l, "data", "rcv"), "cmd", "snd")
    BY <1>4, <1>9 DEF Answer
  <2>4. /\ lib'["data"].call = "rcv" /\ ~lib'["cmd"].can
        /\ lib'["cmd"].call \in {"none", "snd"}
    BY <1>8, <2>2, <2>3
  <2>5. Stores' /\ ~Asks' /\ ~Over'
    BY <1>4, <1>5, <1>7, <1>9, <2>4 DEF Stores, Asks, Over
  <2>6. QED
    BY <1>4, <1>9, <2>4, <2>5 DEF Phases
<1>10. CASE x # "STOR"
  <2>1. Needs(l, "cmd", "snd")
    BY <1>4, <1>10 DEF Answer
  <2>2. /\ lib'["data"] = l["data"] /\ ~lib'["cmd"].can
        /\ lib'["cmd"].call \in {"none", "snd"}
    BY <1>2, <1>8, <2>1
  <2>3. Begun' /\ ~Asks' /\ ~Over'
    BY <1>4, <1>5, <1>6, <1>7, <1>10, <2>2 DEF Begun, Asks, Over, Transfer
  <2>4. QED
    BY <1>4, <2>2, <2>3 DEF Phases
<1>11. QED
  BY <1>9, <1>10

(* The other callbacks of the command connection end a transfer, or are    *)
(* not met in one.                                                         *)
LEMMA CmdPhases ==
  ASSUME TypeOK, CmdCallback \/ OnCmdReleased, SessionInv, EndsClosed,
         ~outOfTurn'
  PROVE  Phases'
<1>0. Phases /\ reset = "none"
  BY CmdKeepsOpen DEF SessionInv
<1> SUFFICES ASSUME exec' \in Transfer PROVE Phases'
  BY DEF Phases
<1>1. CASE OnCmdAccepted \/ OnCmdClosed \/ OnHangup
  <2>1. exec' = exec
    BY <1>1 DEF OnCmdAccepted, OnCmdClosed, OnHangup
  <2>2. lib["cmd"].call \in {"acp", "cls"} \/ exec \notin Transfer
    BY <1>1 DEF OnCmdAccepted, OnCmdClosed, OnHangup, Handles
  <2>3. QED
    BY <1>0, <2>1, <2>2 DEF Phases
<1>2. CASE OnPieceOfCommand
  <2>1. UNCHANGED <<status, api_cancel, exec, subseq, file_index, lib, owner,
                    dropped, slips>>
    BY <1>2 DEF OnPieceOfCommand, cep, history
  <2>2. QED
    BY <1>0, <2>1
    DEF Phases, Begun, Sends, Closes, Stores, Over, Asks, FileMine
<1>3. CASE OnReplySent
  BY <1>3, ReplyPhases
<1>4. CASE OnCmdReleased
  BY <1>4 DEF OnCmdReleased, Transfer
<1>5. CASE OnList \/ OnRetrStor
  BY <1>5, StartPhases
<1>6. CASE OnRejected \/ OnUserPass \/ OnPlain \/ OnPasv \/ OnPort
           \/ OnTransferFailed \/ OnAbor \/ OnIdleAbor
  <2>1. CASE OnRejected \/ OnUserPass \/ OnPlain \/ OnPasv \/ OnPort
             \/ OnTransferFailed
    <3>1. exec \notin Transfer
      BY <2>1
      DEF OnRejected, OnUserPass, OnPlain, OnPasv, OnPort, OnTransferFailed,
          InTurn
    <3>2. exec' \in {exec, "NONE", "PORT"}
      BY <2>1
      DEF OnRejected, OnUserPass, OnPlain, OnPasv, OnPort, OnTransferFailed,
          Fails, Succeeds
    <3>3. QED
      BY <3>1, <3>2 DEF Transfer
  <2>2. CASE OnAbor \/ OnIdleAbor
    BY <2>2 DEF OnAbor, OnIdleAbor, Succeeds, Transfer
  <2>3. QED
    BY <1>6, <2>1, <2>2
<1>7. QED
  BY <1>1, <1>2, <1>3, <1>4, <1>5, <1>6 DEF CmdCallback, OnCommand

(* The steps of a transfer on the data connection.                         *)
LEMMA DataPhases ==
  ASSUME TypeOK, DataCallback \/ OnDataReleased, SessionInv
  PROVE  Phases'
<1>0. /\ "cmd" \in Ep /\ "data" \in Ep /\ lib \in Lib
      /\ "snd" \in Call /\ "rcv" \in Call /\ "cls" \in Call
  BY Steps
<1>1. /\ Connected /\ OnlyAborCancels /\ AborWaits /\ Phases
      /\ status'["cmd"] = status["cmd"]
  BY DataKeepsCmd DEF SessionInv
<1> SUFFICES ASSUME exec' \in Transfer PROVE Phases'
  BY DEF Phases
<1>2. exec \in Transfer /\ exec' = exec
  BY <1>1, DataDialogue
<1>3. /\ status["cmd"] = "LOGIN" /\ lib["cmd"].call \notin {"acp", "cls"}
      /\ Begun \/ Sends \/ Closes \/ Stores \/ Over
      /\ exec # "STOR" /\ ~Begun => lib["cmd"].call # "snd"
      /\ Asks => Over
  BY <1>1, <1>2 DEF Phases
<1>4. DEFINE l == Done(lib, "data")
<1>5. /\ l \in Lib /\ l["data"].call = "none" /\ l["cmd"] = lib["cmd"]
      /\ lib["data"].call \in {"rcv", "snd"} => l["data"].up = lib["data"].up
  BY <1>0, DoneFields
<1> HIDE DEF l
<1>6. \A x \in Status : Put(status, "data", x)["data"] = x
  BY <1>0 DEF Put, TypeOK, CepOK
<1>7. ASSUME NEW what \in {"snd", "rcv", "cls"}, l["data"].up
      PROVE  /\ Begin(l, "data", what)["data"].call = what
             /\ Begin(l, "data", what)["cmd"] = lib["cmd"]
  <2>1. what \in Call /\ Takes(l, "data", what)
    BY <1>5, <1>7 DEF Takes, Call
  <2>2. QED
    BY <1>0, <1>5, <2>1, BeginFields
<1>8. lib["data"].call \in {"rcv", "snd"} => ~Over /\ ~Asks /\ ~Closes /\ ~Begun
  BY <1>3 DEF Over, Closes, Begun
<1>9. CASE OnDataConnected \/ OnAborClosed \/ OnIdleClosed \/ OnDataUnwanted
           \/ OnDataReleased
  <2>1. ~OnAborClosed /\ ~OnIdleClosed
    BY <1>2 DEF OnAborClosed, OnIdleClosed, Transfer
  <2>2. ~OnDataReleased
    <3>1. ~lib["data"].can
      BY <1>1, <1>2 DEF OnlyAborCancels, Ending, Transfer
    <3>2. QED
      BY <3>1 DEF OnDataReleased, Released
  <2>3. ~OnDataConnected /\ ~OnDataUnwanted
    BY <1>3
    DEF OnDataConnected, OnDataUnwanted, Handles, Begun, Sends, Closes, Stores,
        Over
  <2>4. QED
    BY <1>9, <2>1, <2>2, <2>3
<1>10. CASE OnDataFin
  <2>1. /\ lib["data"].call = "rcv" /\ UNCHANGED <<api_cancel, subseq,
                                       file_index, owner, dropped>>
        /\ lib' = Begin(l, "data", "cls")
        /\ status' = Put(status, "data", "CLOSING")
    BY <1>10 DEF OnDataFin, Handles, DataCloses, history, l
  <2>2. Stores
    BY <1>3, <1>8, <2>1 DEF Sends
  <2>3. l["data"].up
    BY <1>1, <1>5, <2>1, <2>2 DEF Stores, Connected
  <2>4. lib'["data"].call = "cls" /\ lib'["cmd"] = lib["cmd"]
        /\ status'["data"] = "CLOSING"
    BY <1>6, <1>7, <2>1, <2>3 DEF Status
  <2>5. Stores' /\ ~Over' /\ ~Asks'
    BY <1>2, <1>8, <2>1, <2>2, <2>4 DEF Stores, Over, Asks, FileMine
  <2>6. QED
    BY <1>1, <1>2, <1>3, <2>2, <2>4, <2>5 DEF Phases, Stores
<1>11. CASE \E n \in 1 .. DATA_BUF_SIZE : OnDataReceived(n)
  <2>1. PICK n \in 1 .. DATA_BUF_SIZE : OnDataReceived(n)
    BY <1>11
  <2>2. /\ lib["data"].call = "rcv" /\ exec = "STOR"
        /\ UNCHANGED <<status, api_cancel, file_index>>
        /\ lib' = Begin(l, "data", "rcv")
    BY <2>1 DEF OnDataReceived, Handles, l
  <2>3. Stores
    BY <1>3, <1>8, <2>2 DEF Sends
  <2>4. l["data"].up
    BY <1>1, <1>5, <2>2, <2>3 DEF Stores, Connected
  <2>5. lib'["data"].call = "rcv" /\ lib'["cmd"] = lib["cmd"]
    BY <1>7, <2>2, <2>4
  <2>6. \/ subseq' = -1
        \/ UNCHANGED <<subseq, owner>> /\ (subseq = 4 => ~dropped')
    BY <2>1, <2>3
    DEF OnDataReceived, WriteFails, WriteSucceeds, Stores, FileMine
  <2>7. status["data"] = "CONNECTION"
    BY <2>2, <2>3 DEF Stores
  <2>8. Stores' /\ ~Over' /\ ~Asks'
    BY <1>2, <1>8, <2>2, <2>3, <2>5, <2>6, <2>7
    DEF Stores, Over, Asks, FileMine
  <2>9. QED
    BY <1>1, <1>2, <1>3, <2>2, <2>5, <2>8 DEF Phases
<1>12. CASE OnBlockSent
  <2>1. /\ lib["data"].call = "snd" /\ UNCHANGED <<api_cancel, file_index>>
    BY <1>12 DEF OnBlockSent, Handles
  <2>2. Sends
    BY <1>3, <1>8, <2>1 DEF Stores
  <2>3. l["data"].up
    BY <1>1, <1>5, <2>1, <2>2 DEF Sends, Connected
  <2>4. /\ ~dropped /\ exec \in {"LIST", "RETR"}
        /\ status["data"] = "CONNECTION" /\ (exec = "RETR" => FileMine)
    BY <2>2 DEF Sends
  <2>5. CASE \E r \in RetrDataport \cup ListDataport :
               Dataport(l, r) /\ lib' = Begin(l, "data", r.call)
    <3>1. PICK r \in RetrDataport \cup ListDataport :
            Dataport(l, r) /\ lib' = Begin(l, "data", r.call)
      BY <2>5
    <3>2. Sends' \/ Closes'
      BY <1>2, <1>5, <2>1, <2>3, <2>4, <3>1, DataportPhase
    <3>3. lib'["cmd"] = lib["cmd"]
      <4>1. r.call \in {"snd", "cls"}
        BY DEF RetrDataport, ListDataport
      <4>2. QED
        BY <1>7, <2>3, <3>1, <4>1
    <3>4. ~Over' /\ ~Asks'
      BY <1>8, <2>1, <3>2, <3>3 DEF Sends, Closes, Over, Asks
    <3>5. QED
      BY <1>1, <1>2, <1>3, <1>8, <2>1, <3>2, <3>3, <3>4 DEF Phases
  <2>6. CASE subseq # 8 /\ DataCloses(l) /\ UNCHANGED <<subseq, dropped>>
    <3>1. exec = "LIST" /\ subseq = 12
      BY <2>2, <2>6 DEF Sends
    <3>2. lib'["data"].call = "cls" /\ lib'["cmd"] = lib["cmd"]
          /\ status'["data"] = "CLOSING"
      BY <1>6, <1>7, <2>3, <2>6 DEF DataCloses, Status
    <3>3. Closes' /\ ~Over' /\ ~Asks'
      BY <1>2, <1>8, <2>1, <2>4, <2>6, <3>1, <3>2 DEF Closes, Over, Asks
    <3>4. QED
      BY <1>1, <1>2, <1>3, <1>8, <2>1, <3>2, <3>3 DEF Phases
  <2>7. QED
    BY <1>12, <2>4, <2>5, <2>6 DEF OnBlockSent, l
<1>13. CASE OnListClosed \/ OnRetrClosed \/ OnStorClosed
  <2>1. /\ lib["data"].call = "cls" /\ status'["data"] = "CLOSED"
        /\ lib' = l /\ "cmd" \in api_cancel'
    BY <1>6, <1>13
    DEF OnListClosed, OnRetrClosed, OnStorClosed, DataClosed, Handles,
        AsksForReply, Status, l
  <2>2. Closes \/ Stores
    BY <1>3, <2>1 DEF Begun, Sends, Over
  <2>3. subseq' = -1 \/ (subseq' = Success[exec] /\ ~dropped')
    <3>1. CASE OnListClosed
      <4>1. exec = "LIST" /\ (subseq = 12 \/ subseq = -1) /\ dropped' = dropped
            /\ subseq' = IF subseq >= 12 THEN 16 ELSE -1
        BY <2>2, <3>1 DEF OnListClosed, Closes, Stores, history
      <4>2. CASE subseq = 12
        BY <2>2, <4>1, <4>2 DEF Closes, Stores, Success
      <4>3. CASE subseq = -1
        BY <4>1, <4>3
      <4>4. QED
        BY <4>1, <4>2, <4>3
    <3>2. CASE OnRetrClosed
      <4>1. exec = "RETR" /\ dropped' = dropped
            /\ (\/ subseq = 12 /\ subseq' = 16
                \/ subseq' = -1)
        BY <3>2 DEF OnRetrClosed, history
      <4>2. QED
        BY <2>2, <4>1 DEF Closes, Stores, Success
    <3>3. CASE OnStorClosed
      <4>1. exec = "STOR" /\ Stores
        BY <2>2, <3>3 DEF OnStorClosed, Closes
      <4>2. subseq' = -1 \/ (subseq' = subseq /\ (subseq = 4 => ~dropped'))
        BY <3>3, <4>1 DEF OnStorClosed, Stores, FileMine
      <4>3. QED
        BY <4>1, <4>2 DEF Stores, Success
    <3>4. QED
      BY <1>13, <3>1, <3>2, <3>3
  <2>4. lib'["data"].call = "none" /\ lib'["cmd"] = lib["cmd"]
    BY <1>5, <2>1
  <2>5. Over' /\ Asks'
    BY <1>2, <2>1, <2>3, <2>4 DEF Over, Asks
  <2>6. exec # "STOR" => lib'["cmd"].call # "snd"
    BY <1>3, <2>1, <2>4 DEF Begun
  <2>7. QED
    BY <1>1, <1>2, <1>3, <2>4, <2>5, <2>6 DEF Phases
<1>14. QED
  BY <1>9, <1>10, <1>11, <1>12, <1>13 DEF DataCallback

-----------------------------------------------------------------------------
(* What the client was told stands until the next transfer; data is lost   *)
(* in a transfer only.                                                     *)
LEMMA VerdictFacts ==
  ASSUME TypeOK, [Next]_vars, ~outOfTurn', ~OnCmdReleased
  PROVE  /\ verdict' \in {verdict, "none"}
         /\ dropped' => dropped \/ exec \in Transfer
<1>1. CASE Accept \/ AcceptStore \/ Cancels
  BY <1>1
  DEF Accept, AcceptStore, Cancels, CheckCancel, DoCancel, history
<1>2. CASE Resets
  BY <1>2
  DEF Resets, ResetData, ResetCmd, ResetAgain, CloseData, CloseCmd, CloseEp,
      OrStore, Finish, NotFinished, history
<1>3. CASE OnCmdAccepted \/ OnCmdClosed \/ OnHangup \/ OnPieceOfCommand
  BY <1>3
  DEF OnCmdAccepted, OnCmdClosed, OnHangup, OnPieceOfCommand, history
<1>4. CASE OnReplySent
  <2>1. UNCHANGED verdict
    BY <1>4 DEF OnReplySent
  <2>2. exec \in {"LIST", "RETR"} \/ dropped' = dropped
    BY <1>4 DEF OnReplySent
  <2>3. QED
    BY <2>1, <2>2 DEF Transfer
<1>5. CASE OnCommand
  <2>1. CASE OnRejected \/ OnUserPass \/ OnPlain \/ OnPasv \/ OnTransferFailed
             \/ OnIdleAbor
    <3>1. ASSUME NEW l, NEW x, NEW st, Fails(l, x, st)
          PROVE  UNCHANGED <<verdict, dropped>>
      BY <3>1 DEF Fails
    <3>2. ASSUME NEW l, NEW st, Succeeds(l, st)
          PROVE  /\ UNCHANGED verdict
                 /\ dropped' => dropped \/ exec \in Transfer
      BY <3>2 DEF Succeeds, Transfer
    <3>3. QED
      BY <2>1, <3>1, <3>2
      DEF OnRejected, OnUserPass, OnPlain, OnPasv, OnTransferFailed, OnIdleAbor
  <2>2. CASE OnPort \/ OnAbor
    BY <2>2 DEF OnPort, OnAbor
  <2>3. CASE OnList \/ OnRetrStor
    BY <2>3 DEF OnList, OnRetrStor, Transfers
  <2>4. QED
    BY <1>5, <2>1, <2>2, <2>3 DEF OnCommand
<1>6. CASE OnDataConnected \/ OnDataFin \/ OnDataUnwanted \/ OnBlockSent
           \/ \E n \in 1 .. DATA_BUF_SIZE : OnDataReceived(n)
  BY <1>6
  DEF OnDataConnected, OnDataFin, OnDataReceived, OnDataUnwanted, OnBlockSent,
      DataCloses, history, Transfer
<1>7. CASE OnListClosed \/ OnRetrClosed \/ OnStorClosed \/ OnAborClosed
           \/ OnIdleClosed
  BY <1>7
  DEF OnListClosed, OnRetrClosed, OnStorClosed, OnAborClosed, OnIdleClosed,
      history, Transfer
<1>8. CASE OnDataReleased
  BY <1>8 DEF OnDataReleased, Released
<1>9. CASE \E e \in Ep : Interrupted(e)
  BY <1>9 DEF Interrupted, OnError, OnIgnored, OnCancelledInReset, history
<1>10. CASE HttpOpens \/ HttpCloses \/ UNCHANGED vars
  BY <1>10 DEF HttpOpens, HttpCloses, vars, history
<1>11. QED
  BY <1>1, <1>2, <1>3, <1>4, <1>5, <1>6, <1>7, <1>8, <1>9, <1>10
  DEF Next, Main, Callback, CmdCallback, DataCallback

LEMMA ToldStep == TypeOK /\ Told /\ [Next]_vars => Told'
<1> SUFFICES ASSUME TypeOK, Told, [Next]_vars, exec' \in Transfer
             PROVE  verdict' = "none"
  BY DEF Told
<1>0. (exec \in Transfer /\ UNCHANGED verdict) => verdict' = "none"
  BY DEF Told
<1>1. CASE Main
  BY <1>0, <1>1
  DEF Main, Accept, AcceptStore, Cancels, CheckCancel, DoCancel, Resets,
      ResetData, ResetCmd, ResetAgain, CloseData, CloseCmd, CloseEp, OrStore,
      Finish, NotFinished, history, stat
<1>2. CASE OnCmdAccepted \/ OnCmdClosed \/ OnHangup \/ OnPieceOfCommand
  BY <1>0, <1>2
  DEF OnCmdAccepted, OnCmdClosed, OnHangup, OnPieceOfCommand, history
<1>3. CASE OnReplySent
  <2>1. UNCHANGED verdict
    BY <1>3 DEF OnReplySent
  <2>2. exec' = exec \/ exec' = "NONE"
    BY <1>3 DEF OnReplySent, AborFinish
  <2>3. QED
    BY <1>0, <2>1, <2>2 DEF Transfer
<1>4. CASE OnCommand
  <2>1. CASE OnRejected \/ OnUserPass \/ OnPlain \/ OnPasv \/ OnTransferFailed
             \/ OnIdleAbor
    BY <1>0, <2>1
    DEF OnRejected, OnUserPass, OnPlain, OnPasv, OnTransferFailed, OnIdleAbor,
        Fails, Succeeds, Transfer
  <2>2. CASE OnPort \/ OnAbor
    BY <2>2 DEF OnPort, OnAbor, Transfer
  <2>3. CASE OnList \/ OnRetrStor
    BY <2>3 DEF OnList, OnRetrStor, Transfers
  <2>4. QED
    BY <1>4, <2>1, <2>2, <2>3 DEF OnCommand
<1>5. CASE OnDataConnected \/ OnDataFin \/ OnDataUnwanted \/ OnBlockSent
           \/ \E n \in 1 .. DATA_BUF_SIZE : OnDataReceived(n)
  BY <1>0, <1>5
  DEF OnDataConnected, OnDataFin, OnDataReceived, OnDataUnwanted, OnBlockSent,
      history, Transfer
<1>6. CASE OnListClosed \/ OnRetrClosed \/ OnStorClosed \/ OnIdleClosed
  BY <1>0, <1>6
  DEF OnListClosed, OnRetrClosed, OnStorClosed, OnIdleClosed, AsksForReply,
      history
<1>7. CASE OnAborClosed
  <2>1. UNCHANGED verdict /\ exec = "ABOR"
    BY <1>7 DEF OnAborClosed
  <2>2. exec' = exec \/ exec' = "NONE"
    BY <1>7 DEF OnAborClosed, AborFinish
  <2>3. QED
    BY <2>1, <2>2 DEF Transfer
<1>8. CASE OnCmdReleased
  BY <1>0, <1>8 DEF OnCmdReleased, Transfer
<1>9. CASE OnDataReleased
  <2>1. UNCHANGED verdict
    BY <1>9 DEF OnDataReleased
  <2>2. exec' = exec \/ exec' = "NONE"
    BY <1>9 DEF OnDataReleased, AborFinish
  <2>3. QED
    BY <1>0, <2>1, <2>2 DEF Transfer
<1>10. CASE \E e \in Ep : Interrupted(e)
  BY <1>0, <1>10 DEF Interrupted, OnError, OnIgnored, OnCancelledInReset,
                     history, stat
<1>11. CASE HttpOpens \/ HttpCloses \/ UNCHANGED vars
  BY <1>0, <1>11 DEF HttpOpens, HttpCloses, vars, history, stat
<1>12. QED
  BY <1>1, <1>2, <1>3, <1>4, <1>5, <1>6, <1>7, <1>8, <1>9, <1>10, <1>11
  DEF Next, Callback, CmdCallback, DataCallback

(* A verdict is given when the transfer is over, and says how it went.     *)
LEMMA TruthfulStep ==
  ASSUME TypeOK, [Next]_vars, ~outOfTurn', SessionInv, Told, Truthful
  PROVE  Truthful'
<1>1. CASE OnCmdReleased
  <2>1. CASE exec \in Transfer
    <3>1. reset = "none" /\ lib["cmd"].can /\ UNCHANGED dropped
      BY <1>1 DEF OnCmdReleased, Released
    <3>2. Over
      BY <2>1, <3>1 DEF SessionInv, Phases, Asks
    <3>3. verdict' = IF subseq # Success[exec] THEN "error" ELSE "complete"
      BY <1>1, <2>1, <3>2 DEF OnCmdReleased, Over
    <3>4. subseq = Success[exec] => ~dropped
      BY <2>1, <3>2 DEF Over, Success, Transfer
    <3>5. QED
      BY <3>1, <3>3, <3>4 DEF Truthful
  <2>2. CASE exec \notin Transfer
    BY <1>1, <2>2 DEF OnCmdReleased, Released, Truthful
  <2>3. QED
    BY <2>1, <2>2
<1>2. CASE ~OnCmdReleased
  BY <1>2, VerdictFacts DEF Told, Truthful
<1>3. QED
  BY <1>1, <1>2

LEMMA SessionStep ==
  ASSUME TypeOK, Resetting, ResetInv, EndsClosed, SessionInv, [Next]_vars,
         ~outOfTurn', "stale" \notin slips'
  PROVE  SessionInv'
<1>1. CASE Main
  BY <1>1, MainSession
<1>2. CASE CmdCallback \/ OnCmdReleased
  BY <1>2, CmdEndpoints, CmdPhases DEF SessionInv
<1>3. CASE DataCallback \/ OnDataReleased
  BY <1>3, DataEndpoints, DataPhases DEF SessionInv
<1>4. CASE \E e \in Ep : Interrupted(e)
  BY <1>4
  DEF Interrupted, OnError, OnIgnored, OnCancelledInReset, stat, SessionInv
<1>5. CASE HttpOpens \/ HttpCloses \/ UNCHANGED vars
  <2>1. /\ UNCHANGED <<status, api_cancel, exec, subseq, file_index, reset,
                       lib, dropped, slips>>
        /\ FileMine => FileMine'
    <3>1. /\ UNCHANGED <<status, api_cancel, exec, subseq, file_index, reset,
                         lib, dropped, slips>>
      BY <1>5 DEF HttpOpens, HttpCloses, vars, cep, stat, history
    <3>2. FileMine => FileMine'
      BY <1>5, <3>1
      DEF HttpOpens, HttpCloses, FreeEntry, FileClose, FileMine, Put, TypeOK,
          OwnerOK, StatOK, vars
    <3>3. QED
      BY <3>1, <3>2
  <2>2. QED
    BY <2>1
    DEF SessionInv, Connected, OnlyAborCancels, AborWaits, Quiet, Phases,
        Ending, Begun, Sends, Closes, Stores, Over, Asks
<1>6. QED
  BY <1>1, <1>2, <1>3, <1>4, <1>5 DEF Next, Callback

WInv == IInv /\ ResetInv /\ Told /\ WholeInv

LEMMA InitWhole == Init => WInv
<1>1. Init => IInv
  BY InitFiles
<1>2. Init => ResetInv
  BY DEF Init, ResetInv, Listens, OnePass, ClosedBits, Unused, Ep
<1>3. Init => Told /\ WholeInv
  BY DEF Init, Told, WholeInv, SessionInv, Truthful, Connected,
         OnlyAborCancels, AborWaits, Quiet, Phases, Transfer, Unused, Ep
<1>4. QED
  BY <1>1, <1>2, <1>3 DEF WInv

LEMMA WholeStep == WInv /\ [Next]_vars => WInv'
<1> SUFFICES ASSUME WInv, [Next]_vars PROVE WInv'
  OBVIOUS
<1>1. IInv' /\ ResetInv' /\ Told'
  BY TypeStep, ResettingStep, FilesStep, ResetStep, ToldStep DEF WInv, IInv
<1>2. WholeInv'
  <2>1. SUFFICES ASSUME ~outOfTurn', "stale" \notin slips'
                 PROVE  SessionInv' /\ Truthful'
    BY DEF WholeInv, Exempt
  <2>2. /\ TypeOK /\ Resetting /\ ResetInv /\ EndsClosed /\ SessionInv
        /\ Told /\ Truthful
    BY <2>1, Monotone DEF WInv, IInv, FilesInv, WholeInv, Exempt
  <2>3. QED
    BY <2>1, <2>2, SessionStep, TruthfulStep
<1>3. QED
  BY <1>1, <1>2 DEF WInv

(* "Transfer complete" is only said when every block was sent or every     *)
(* byte written, and when the data connection is closed: the phases of a   *)
(* transfer follow each other whatever fails, and the reply at its end     *)
(* waits for the last.                                                     *)
THEOREM WholeTransfers == Spec => []WholeTransfer
<1>1. WInv => WholeTransfer
  BY DEF WInv, WholeInv, Truthful, WholeTransfer
<1>2. QED
  BY <1>1, InitWhole, WholeStep, PTL DEF Spec

-----------------------------------------------------------------------------
(* What keeps a session going, as long as no call is refused and nothing   *)
(* is stored over a callback: a call of the command endpoint, or for PORT  *)
(* the connection of the data endpoint, or for ABOR the call there that is *)
(* being cancelled.                                                        *)
CmdUp == lib["cmd"].call \in {"rcv", "snd", "cls"} => lib["cmd"].up
PortWaits ==
  exec = "PORT" =>
    status["cmd"] = "LOGIN" /\ lib["cmd"].call = "none" /\ lib["data"].call = "con"
AborGoes ==
  exec = "ABOR" =>
    /\ status["cmd"] = "LOGIN" /\ subseq \in {4, 8}
    /\ subseq = 8 => lib["cmd"].call = "snd"
    /\ subseq = 4 =>
         /\ lib["cmd"].call = "none"
         /\ "data" \in api_cancel \/ (lib["data"].can /\ lib["data"].call # "none")
CmdGoes ==
  exec \notin {"PORT", "ABOR"} =>
    lib["cmd"].call # "none" \/ status["cmd"] = "CLOSED"

Goes == CmdUp /\ PortWaits /\ AborGoes /\ CmdGoes /\ OnlyAborCancels
GoesOn == slips = {} /\ reset = "none" => Goes

(* A call that is taken.                                                   *)
LEMMA NeedsTaken ==
  ASSUME NEW l \in Lib, NEW e \in Ep, NEW what \in Call, Needs(l, e, what),
         slips' = {}
  PROVE  /\ lib' \in Lib /\ Takes(l, e, what) /\ lib'[e].call = what
         /\ lib'[e].can = l[e].can /\ lib'[e].up = l[e].up
         /\ \A f \in Ep : f # e => lib'[f] = l[f]
BY NeedsFields

(* R_ftpd.                                                                 *)
LEMMA MainGoes ==
  ASSUME TypeOK, Resetting, ResetInv, Goes, Main, reset = "none", slips' = {}
  PROVE  GoesOn'
<1>0. "cmd" \in Ep /\ "data" \in Ep /\ lib \in Lib /\ "acp" \in Call
  BY Steps
<1> SUFFICES ASSUME reset' = "none" PROVE Goes'
  BY DEF GoesOn
<1>1. CASE Accept
  <2>1. /\ status["cmd"] = "CLOSED" /\ lib' = Begin(lib, "cmd", "acp")
        /\ UNCHANGED <<status, api_cancel, exec, subseq>>
    BY <1>1 DEF Accept, stat, cep
  <2>2. /\ lib'["data"] = lib["data"] /\ lib'["cmd"].up = lib["cmd"].up
        /\ (lib'["cmd"].call = lib["cmd"].call \/ lib'["cmd"].call = "acp")
    BY <1>0, <2>1, BeginFields
  <2>3. exec \notin {"PORT", "ABOR"}
    BY <2>1 DEF Goes, PortWaits, AborGoes
  <2>4. QED
    BY <2>1, <2>2, <2>3
    DEF Goes, CmdUp, PortWaits, AborGoes, CmdGoes, OnlyAborCancels, Ending
<1>2. CASE AcceptStore
  <2>1. /\ status["cmd"] = "CLOSED" /\ lib["cmd"].call = "acp"
        /\ UNCHANGED <<lib, api_cancel, exec, subseq>>
    BY <1>2 DEF AcceptStore, stat
  <2>2. exec \notin {"PORT", "ABOR"}
    BY <2>1 DEF Goes, PortWaits, AborGoes
  <2>3. QED
    BY <2>1, <2>2
    DEF Goes, CmdUp, PortWaits, AborGoes, CmdGoes, OnlyAborCancels, Ending
<1>3. CASE Cancels
  <2>1. UNCHANGED <<status, exec, subseq>>
    BY <1>3 DEF Cancels, CheckCancel, DoCancel, stat, cep
  <2>2. CASE UNCHANGED <<lib, api_cancel>>
    BY <2>1, <2>2
    DEF Goes, CmdUp, PortWaits, AborGoes, CmdGoes, OnlyAborCancels, Ending
  <2>3. CASE DoCancel("data", "cancel_data")
    <3>1. /\ "data" \in api_cancel /\ lib' = Cancel(lib, "data")
          /\ lib["data"].call # "none"
      BY <2>3 DEF DoCancel
    <3>2. /\ lib'["data"].call = lib["data"].call
          /\ lib'["data"].can /\ lib'["cmd"] = lib["cmd"]
      BY <1>0, <3>1, EndFields
    <3>3. Ending
      BY <3>1 DEF Goes, OnlyAborCancels
    <3>4. QED
      BY <2>1, <3>1, <3>2, <3>3
      DEF Goes, CmdUp, PortWaits, AborGoes, CmdGoes, OnlyAborCancels, Ending
  <2>4. CASE DoCancel("cmd", "cancel_cmd")
    <3>1. /\ lib' = Cancel(lib, "cmd") /\ api_cancel' = api_cancel \ {"cmd"}
      BY <2>4 DEF DoCancel
    <3>2. /\ lib'["cmd"].call = lib["cmd"].call /\ lib'["cmd"].up = lib["cmd"].up
          /\ lib'["data"] = lib["data"]
      BY <1>0, <3>1, EndFields
    <3>3. QED
      BY <2>1, <3>1, <3>2
      DEF Goes, CmdUp, PortWaits, AborGoes, CmdGoes, OnlyAborCancels, Ending
  <2>5. QED
    BY <1>3, <2>2, <2>3, <2>4 DEF Cancels, CheckCancel, cep
<1>4. CASE Resets
  BY <1>4
  DEF Resets, ResetData, ResetCmd, ResetAgain, CloseData, CloseCmd, CloseEp,
      OrStore, NotFinished, Finish, From, Resetting, ResetInv, Listens, stat
<1>5. QED
  BY <1>1, <1>2, <1>3, <1>4 DEF Main

(* A reset that comes to its end starts with a listening session.          *)
LEMMA FinishGoes ==
  ASSUME TypeOK, Resetting, ResetInv, Next, reset # "none", reset' = "none"
  PROVE  Goes'
<1>1. Finish
  BY CmdKeepsOpen, DataKeepsCmd
  DEF Next, Main, Accept, AcceptStore, Cancels, CheckCancel, DoCancel, Resets,
      ResetData, ResetCmd, ResetAgain, CloseData, CloseCmd, CloseEp, OrStore,
      NotFinished, Callback, Interrupted, OnError, OnIgnored,
      OnCancelledInReset, HttpOpens, HttpCloses, From, Resetting, stat
<1>2. Shut("data") /\ Shut("cmd")
  BY <1>1 DEF Finish, From, Resetting, ResetInv, ClosedBits, Bits
<1>3. /\ lib' = lib /\ exec' = "NONE" /\ api_cancel' = {}
      /\ status' = [e \in Ep |-> "CLOSED"]
  BY <1>1 DEF Finish
<1>4. QED
  BY <1>2, <1>3
  DEF Shut, Ep, Goes, CmdUp, PortWaits, AborGoes, CmdGoes, OnlyAborCancels

(* The callbacks of the command connection.                                *)
LEMMA CmdCallbackGoes ==
  ASSUME TypeOK, CmdCallback \/ OnCmdReleased, Goes, slips' = {}
  PROVE  Goes'
<1>0. /\ "cmd" \in Ep /\ "data" \in Ep /\ lib \in Lib
      /\ "snd" \in Call /\ "cls" \in Call /\ "rcv" \in Call /\ "con" \in Call
  BY Steps
<1>1. /\ CmdUp /\ PortWaits /\ AborGoes /\ CmdGoes /\ OnlyAborCancels
      /\ lib["cmd"].call # "none" /\ exec # "PORT" /\ ~Ending
      /\ ~lib["data"].can /\ "data" \notin api_cancel
      /\ lib'["data"].can = lib["data"].can
  BY CmdKeepsOpen, CmdKeepsData
  DEF Goes, PortWaits, AborGoes, OnlyAborCancels, Ending
<1>2. DEFINE l == Done(lib, "cmd")
<1>3. /\ l \in Lib /\ l["cmd"].call = "none" /\ l["data"] = lib["data"]
      /\ lib["cmd"].call \in {"rcv", "snd"} => l["cmd"].up = lib["cmd"].up
  BY <1>0, DoneFields
<1> HIDE DEF l
(* It takes the call that follows.                                         *)
<1>4. ASSUME NEW k, NEW what \in {"snd", "rcv"}, Needs(k, "cmd", what), k \in Lib
      PROVE  lib'["cmd"].call = what /\ lib'["cmd"].up
  <2>1. what \in Call
    BY <1>0
  <2>2. Takes(k, "cmd", what) /\ lib'["cmd"].call = what
        /\ lib'["cmd"].up = k["cmd"].up
    BY <1>0, <1>4, <2>1, NeedsTaken
  <2>3. QED
    BY <2>2, <1>4 DEF Takes
<1>5. CASE exec' \notin {"PORT", "ABOR"} /\ "data" \notin api_cancel'
           /\ lib'["cmd"].call # "none" /\ CmdUp'
  BY <1>1, <1>5 DEF Goes, PortWaits, AborGoes, CmdGoes, OnlyAborCancels
<1>6. ASSUME lib["cmd"].call \in {"rcv", "snd"}, lib' = Begin(l, "cmd", "cls")
      PROVE  lib'["cmd"].call = "cls" /\ lib'["cmd"].up
  <2>1. l["cmd"].up /\ Takes(l, "cmd", "cls")
    BY <1>1, <1>3, <1>6 DEF CmdUp, Takes
  <2>2. QED
    BY <1>0, <1>3, <1>6, <2>1, BeginFields
<1>7. CASE OnCmdAccepted
  <2>1. /\ lib["cmd"].call = "acp" /\ UNCHANGED <<exec, api_cancel>>
        /\ Needs(l, "cmd", "snd")
    BY <1>7 DEF OnCmdAccepted, Handles, l
  <2>2. exec # "ABOR"
    BY <1>1, <2>1 DEF AborGoes
  <2>3. QED
    BY <1>1, <1>3, <1>4, <1>5, <2>1, <2>2 DEF CmdUp
<1>8. CASE OnCmdClosed
  <2>1. /\ lib["cmd"].call = "cls" /\ UNCHANGED <<exec, api_cancel>>
        /\ lib' = l /\ status' = Put(status, "cmd", "CLOSED")
    BY <1>8 DEF OnCmdClosed, Handles, l
  <2>2. exec # "ABOR" /\ status'["cmd"] = "CLOSED"
    BY <1>0, <1>1, <2>1 DEF AborGoes, Put, TypeOK, CepOK
  <2>3. QED
    BY <1>1, <1>3, <2>1, <2>2
    DEF Goes, CmdUp, PortWaits, AborGoes, CmdGoes, OnlyAborCancels
<1>9. CASE OnHangup
  <2>1. /\ lib["cmd"].call = "rcv" /\ UNCHANGED <<exec, api_cancel>>
        /\ lib' = Begin(l, "cmd", "cls")
    BY <1>9 DEF OnHangup, Handles, l
  <2>2. exec # "ABOR"
    BY <1>1, <2>1 DEF AborGoes
  <2>3. QED
    BY <1>1, <1>5, <1>6, <2>1, <2>2 DEF CmdUp
<1>10. CASE OnPieceOfCommand
  <2>1. /\ lib["cmd"].call = "rcv" /\ lib' = lib /\ UNCHANGED <<exec, api_cancel>>
    BY <1>10 DEF OnPieceOfCommand, Handles, cep
  <2>2. exec # "ABOR"
    BY <1>1, <2>1 DEF AborGoes
  <2>3. QED
    BY <1>1, <1>5, <2>1, <2>2 DEF CmdUp
<1>11. CASE OnReplySent
  <2>1. lib["cmd"].call = "snd" /\ UNCHANGED api_cancel
    BY <1>11 DEF OnReplySent, Handles
  <2>2. exec = "ABOR" => status["cmd"] = "LOGIN" /\ subseq = 8
    BY <1>1 DEF AborGoes, Ending
  <2>3. exec' \notin {"PORT", "ABOR"}
    BY <1>1, <1>11, <2>2 DEF OnReplySent, AborFinish
  <2>4. \/ lib' = Begin(l, "cmd", "cls")
        \/ \E what \in {"snd", "rcv"}, k \in Lib : Needs(k, "cmd", what)
    <3>1. \A r \in RetrDataport \cup ListDataport : Begin(l, "data", r.call) \in Lib
      <4>1. \A r \in RetrDataport \cup ListDataport : r.call \in Call
        BY DEF RetrDataport, ListDataport, Call
      <4>2. QED
        BY <1>0, <1>3, <4>1, BeginFields
    <3>2. QED
      BY <1>1, <1>3, <1>11, <3>1 DEF OnReplySent, l
  <2>5. lib'["cmd"].call # "none" /\ lib'["cmd"].up
    BY <1>4, <1>6, <2>1, <2>4
  <2>6. QED
    BY <1>1, <1>5, <2>1, <2>3, <2>5 DEF CmdUp
<1>12. CASE OnCmdReleased
  <2>1. /\ exec' = "NONE" /\ api_cancel' = api_cancel \ {"cmd"}
        /\ Needs(Free("cmd"), "cmd", "snd")
    BY <1>12 DEF OnCmdReleased, Released
  <2>2. QED
    BY <1>0, <1>1, <1>4, <1>5, <2>1, FreeFields DEF CmdUp
<1>13. CASE OnCommand
  <2>0. lib["cmd"].call = "rcv" /\ exec # "ABOR"
    BY <1>1, <1>13
    DEF OnCommand, OnRejected, OnUserPass, OnPlain, OnPasv, OnPort,
        OnTransferFailed, OnList, OnRetrStor, Transfers, OnAbor, OnIdleAbor,
        Command, Handles, AborGoes
  <2>1. \A what \in Call : Begin(l, "data", what) \in Lib
    BY <1>0, <1>3, BeginFields
  <2>2. ASSUME NEW x, NEW st, Fails(l, x, st)
        PROVE  /\ exec' = "NONE" /\ UNCHANGED api_cancel
               /\ lib'["cmd"].call = "snd" /\ lib'["cmd"].up
    <3>1. \E k \in Lib : Needs(k, "cmd", "snd")
      BY <1>0, <1>3, <2>1, <2>2 DEF Fails
    <3>2. QED
      BY <1>4, <2>2, <3>1 DEF Fails
  <2>3. ASSUME NEW k \in Lib, NEW x, Answer(k, x)
        PROVE  lib'["cmd"].call = "snd" /\ lib'["cmd"].up
    <3>1. Begin(k, "data", "rcv") \in Lib
      BY <1>0, BeginFields
    <3>2. \E m \in Lib : Needs(m, "cmd", "snd")
      BY <2>3, <3>1 DEF Answer
    <3>3. QED
      BY <1>4, <3>2
  <2>4. ASSUME NEW k \in Lib, NEW st, Succeeds(k, st)
        PROVE  /\ UNCHANGED <<exec, api_cancel>>
               /\ lib'["cmd"].call = "snd" /\ lib'["cmd"].up
    BY <2>3, <2>4 DEF Succeeds
  <2>5. CASE OnRejected \/ OnUserPass \/ OnPlain \/ OnPasv \/ OnTransferFailed
             \/ OnIdleAbor
    <3>1. /\ exec' \in {exec, "NONE"} /\ UNCHANGED api_cancel
          /\ lib'["cmd"].call = "snd" /\ lib'["cmd"].up
      <4>1. CASE OnRejected \/ OnUserPass \/ OnTransferFailed \/ OnIdleAbor
        BY <1>3, <2>2, <2>4, <4>1
        DEF OnRejected, OnUserPass, OnTransferFailed, OnIdleAbor, l
      <4>2. CASE OnPlain
        <5>1. ASSUME Needs(l, "cmd", "snd"), UNCHANGED <<cep, exec>>
              PROVE  /\ UNCHANGED <<exec, api_cancel>>
                     /\ lib'["cmd"].call = "snd" /\ lib'["cmd"].up
          BY <1>3, <1>4, <5>1 DEF cep
        <5>2. QED
          BY <1>3, <2>2, <2>4, <4>2, <5>1 DEF OnPlain, l
      <4>3. CASE OnPasv
        <5>1. Begin(l, "data", "acp") \in Lib
          BY Steps, <1>3
        <5>2. QED
          BY <1>3, <2>2, <2>4, <4>3, <5>1 DEF OnPasv, l
      <4>4. QED
        BY <2>5, <4>1, <4>2, <4>3
    <3>2. QED
      BY <1>1, <1>5, <2>0, <3>1 DEF CmdUp
  <2>6. CASE OnPort
    <3>1. /\ exec' = "PORT" /\ UNCHANGED <<status, api_cancel>>
          /\ status["cmd"] = "LOGIN" /\ Needs(l, "data", "con")
      BY <2>6 DEF OnPort, cep, l
    <3>2. lib'["data"].call = "con" /\ lib'["cmd"].call = "none"
      BY <1>0, <1>3, <3>1, NeedsTaken
    <3>3. QED
      BY <1>1, <3>1, <3>2
      DEF Goes, CmdUp, PortWaits, AborGoes, CmdGoes, OnlyAborCancels
  <2>7. CASE OnList \/ OnRetrStor
    <3>1. PICK x \in Transfer : Transfers(x)
      BY <2>7 DEF OnList, OnRetrStor, Transfer
    <3>2. exec' = x /\ UNCHANGED api_cancel /\ Answer(l, x)
      BY <3>1 DEF Transfers, l
    <3>3. QED
      BY <1>1, <1>3, <1>5, <2>3, <3>2 DEF CmdUp, Transfer
  <2>8. CASE OnAbor
    <3>1. exec' = "ABOR" /\ UNCHANGED status /\ status["cmd"] = "LOGIN"
      BY <2>8 DEF OnAbor
    <3>2. CASE subseq' = 4 /\ api_cancel' = {"data"} /\ lib' = l
      BY <1>1, <1>3, <3>1, <3>2
      DEF Goes, CmdUp, PortWaits, AborGoes, CmdGoes, OnlyAborCancels, Ending
    <3>3. CASE subseq' = 8 /\ api_cancel' = api_cancel \ {"cmd"}
               /\ Needs(l, "cmd", "snd")
      <4>1. lib'["cmd"].call = "snd" /\ lib'["cmd"].up
        BY <1>3, <1>4, <3>3
      <4>2. QED
        BY <1>1, <3>1, <3>3, <4>1
        DEF Goes, CmdUp, PortWaits, AborGoes, CmdGoes, OnlyAborCancels, Ending
    <3>4. QED
      BY <2>8, <3>2, <3>3 DEF OnAbor, l
  <2>9. QED
    BY <1>13, <2>5, <2>6, <2>7, <2>8 DEF OnCommand
<1>14. QED
  BY <1>7, <1>8, <1>9, <1>10, <1>11, <1>12, <1>13 DEF CmdCallback

(* The callbacks of the data connection.                                   *)
LEMMA DataCallbackGoes ==
  ASSUME TypeOK, DataCallback \/ OnDataReleased, Goes, slips' = {}
  PROVE  Goes'
<1>0. /\ "cmd" \in Ep /\ "data" \in Ep /\ lib \in Lib
      /\ "snd" \in Call /\ "cls" \in Call /\ "rcv" \in Call
  BY Steps
<1>1. /\ CmdUp /\ PortWaits /\ AborGoes /\ CmdGoes /\ OnlyAborCancels
      /\ lib["data"].call # "none" /\ status'["cmd"] = status["cmd"]
      /\ ~lib'["data"].can
  BY DataKeepsCmd, DataEffects DEF Goes
<1>2. AborWaits
  BY <1>1 DEF AborGoes, AborWaits
<1>3. OnlyAborCancels'
  BY <1>1, <1>2, DataDialogue DEF OnlyAborCancels, Ending
<1>4. DEFINE l == Done(lib, "data")
<1>5. l \in Lib /\ l["cmd"] = lib["cmd"]
  BY <1>0, DoneFields
<1> HIDE DEF l
<1>6. ASSUME NEW what \in {"snd", "rcv", "cls"}
      PROVE  Begin(l, "data", what)["cmd"] = lib["cmd"]
  <2>1. what \in Call
    BY <1>0
  <2>2. QED
    BY <1>0, <1>5, <2>1, BeginFields
<1>7. CASE exec # "PORT" /\ exec' = exec /\ lib'["cmd"] = lib["cmd"]
           /\ (exec = "ABOR" => subseq' = subseq /\ api_cancel' = api_cancel
                                /\ ~lib["data"].can)
  BY <1>1, <1>3, <1>7
  DEF Goes, CmdUp, PortWaits, AborGoes, CmdGoes, OnlyAborCancels, Ending
<1>8. ASSUME NEW k \in Lib, Needs(k, "cmd", "snd")
      PROVE  lib'["cmd"].call = "snd" /\ lib'["cmd"].up
  BY <1>0, <1>8, NeedsTaken DEF Takes
<1>9. CASE OnDataConnected
  <2>1. UNCHANGED <<api_cancel, subseq>> /\ ~lib["data"].can
    BY <1>9 DEF OnDataConnected, Handles
  <2>2. CASE Needs(l, "cmd", "snd") /\ exec' = "NONE"
    BY <1>1, <1>3, <1>5, <1>8, <2>2
    DEF Goes, CmdUp, PortWaits, AborGoes, CmdGoes
  <2>3. CASE lib' = l /\ exec' = exec /\ exec # "PORT"
    BY <1>5, <1>7, <2>1, <2>3
  <2>4. QED
    BY <1>1, <1>9, <2>2, <2>3 DEF OnDataConnected, PortWaits, l
<1>10. CASE OnDataFin \/ OnDataUnwanted \/ OnBlockSent
            \/ \E n \in 1 .. DATA_BUF_SIZE : OnDataReceived(n)
  <2>1. /\ lib["data"].call # "con" /\ ~lib["data"].can
        /\ UNCHANGED <<exec, api_cancel>>
    BY <1>10
    DEF OnDataFin, OnDataUnwanted, OnBlockSent, OnDataReceived, Handles, cep
  <2>2. exec = "ABOR" => subseq' = subseq
    BY <1>10
    DEF OnDataFin, OnDataUnwanted, OnBlockSent, OnDataReceived
  <2>3. \/ lib' = l
        \/ \E what \in {"snd", "rcv", "cls"} : lib' = Begin(l, "data", what)
    <3>1. \A r \in RetrDataport \cup ListDataport : r.call \in {"snd", "rcv", "cls"}
      BY DEF RetrDataport, ListDataport
    <3>2. QED
      BY <1>10, <3>1
      DEF OnDataFin, OnDataUnwanted, OnBlockSent, OnDataReceived, DataCloses, l
  <2>4. QED
    BY <1>1, <1>5, <1>6, <1>7, <2>1, <2>2, <2>3 DEF PortWaits
<1>11. CASE OnListClosed \/ OnRetrClosed \/ OnStorClosed \/ OnIdleClosed
  <2>1. /\ lib["data"].call # "con" /\ exec # "ABOR" /\ exec' = exec /\ lib' = l
    BY <1>11
    DEF OnListClosed, OnRetrClosed, OnStorClosed, OnIdleClosed, AsksForReply,
        DataClosed, Handles, l
  <2>2. QED
    BY <1>1, <1>5, <1>7, <2>1 DEF PortWaits
<1>12. ASSUME exec = "ABOR", AborFinish, subseq = 4,
              NEW k \in Lib, Needs(k, "cmd", "snd")
       PROVE  Goes'
  <2>1. exec' = "ABOR" /\ subseq' = 8
    BY <1>12 DEF AborFinish
  <2>2. QED
    BY <1>1, <1>3, <1>8, <1>12, <2>1
    DEF Goes, CmdUp, PortWaits, AborGoes, CmdGoes
<1>13. CASE OnAborClosed
  <2>1. exec = "ABOR" /\ api_cancel' = api_cancel \ {"data"} /\ subseq \in {4, 8}
    BY <1>1, <1>13 DEF OnAborClosed, AborGoes
  <2>2. CASE subseq = 4 /\ AborFinish /\ Needs(l, "cmd", "snd")
    BY <1>5, <1>12, <2>1, <2>2
  <2>3. CASE subseq = 8 /\ lib' = l /\ UNCHANGED <<exec, subseq>>
    BY <1>1, <1>3, <1>5, <2>1, <2>3
    DEF Goes, CmdUp, PortWaits, AborGoes, CmdGoes
  <2>4. QED
    BY <1>13, <2>1, <2>2, <2>3 DEF OnAborClosed, l
<1>14. CASE OnDataReleased
  <2>1. Ending
    BY <1>1, <1>14 DEF OnDataReleased, Released, OnlyAborCancels
  <2>2. Begin(Free("data"), "data", "cls") \in Lib
    BY <1>0, FreeFields, BeginFields
  <2>3. AborFinish /\ Needs(Begin(Free("data"), "data", "cls"), "cmd", "snd")
    BY <1>14, <2>1 DEF OnDataReleased, Ending
  <2>4. QED
    BY <1>12, <2>1, <2>2, <2>3 DEF Ending
<1>15. QED
  BY <1>9, <1>10, <1>11, <1>13, <1>14 DEF DataCallback

LEMMA GoesStep ==
  TypeOK /\ Resetting /\ ResetInv /\ GoesOn /\ [Next]_vars => GoesOn'
<1> SUFFICES ASSUME TypeOK, Resetting, ResetInv, GoesOn, [Next]_vars,
                    slips' = {}, reset' = "none"
             PROVE  Goes'
  BY DEF GoesOn
<1>1. slips = {}
  BY Monotone
<1>2. CASE reset # "none" /\ Next
  BY <1>2, FinishGoes
<1>3. CASE reset = "none"
  <2>1. Goes
    BY <1>1, <1>3 DEF GoesOn
  <2>2. CASE Main
    BY <1>3, <2>1, <2>2, MainGoes DEF GoesOn
  <2>3. CASE CmdCallback \/ OnCmdReleased
    BY <2>1, <2>3, CmdCallbackGoes
  <2>4. CASE DataCallback \/ OnDataReleased
    BY <2>1, <2>4, DataCallbackGoes
  <2>5. CASE \E e \in Ep : Interrupted(e)
    BY <1>3, <2>5
    DEF Interrupted, OnError, OnIgnored, OnCancelledInReset
  <2>6. CASE HttpOpens \/ HttpCloses \/ UNCHANGED vars
    BY <2>1, <2>6
    DEF HttpOpens, HttpCloses, vars, cep, stat, Goes, CmdUp, PortWaits,
        AborGoes, CmdGoes, OnlyAborCancels, Ending
  <2>7. QED
    BY <2>2, <2>3, <2>4, <2>5, <2>6 DEF Next, Callback
<1>4. CASE reset # "none" /\ UNCHANGED vars
  BY <1>4 DEF vars, stat
<1>5. QED
  BY <1>2, <1>3, <1>4

(* A session hangs only when a call was refused unnoticed or R_ftpd stored *)
(* over a callback, and no transfer comes to a stop of which its client is *)
(* not told; the endless loop of R_ftpd is never entered.                  *)
THEOREM NeverHangs == Spec => []Answered
<1>1. Init => WInv /\ GoesOn
  <2>1. Init => GoesOn
    BY DEF Init, GoesOn, Goes, CmdUp, PortWaits, AborGoes, CmdGoes,
           OnlyAborCancels, Unused, Ep
  <2>2. QED
    BY <2>1, InitWhole
<1>2. WInv /\ GoesOn /\ [Next]_vars => (WInv /\ GoesOn)'
  BY WholeStep, GoesStep DEF WInv, IInv
<1>3. WInv /\ GoesOn => Answered
  <2> SUFFICES ASSUME WInv, GoesOn PROVE Answered
    OBVIOUS
  <2>1. Hangs => slips # {}
    BY DEF Hangs, Asked, GoesOn, Goes, PortWaits, AborGoes, CmdGoes
  <2>2. Untold => slips # {} \/ outOfTurn
    <3>1. SUFFICES ASSUME Untold, slips = {}, ~outOfTurn PROVE FALSE
      OBVIOUS
    <3>2. Phases /\ exec \in Transfer
      BY <3>1 DEF Untold, WInv, WholeInv, Exempt, SessionInv
    <3>3. ~Asks
      BY <3>1 DEF Untold, Asked, Asks
    <3>4. lib["data"].call = "none" /\ lib["cmd"].call = "rcv"
      BY <3>1 DEF Untold
    <3>5. QED
      BY <3>1, <3>2, <3>3, <3>4 DEF Phases, Begun, Sends, Closes, Stores
  <2>3. main # "halt"
    BY DEF WInv, ResetInv
  <2>4. QED
    BY <2>1, <2>2, <2>3 DEF Answered
<1>4. QED
  BY <1>1, <1>2, <1>3, PTL DEF Spec

=============================================================================
