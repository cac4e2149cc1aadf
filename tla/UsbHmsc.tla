--------------------------------- MODULE UsbHmsc --------------------------------
(***************************************************************************)
(* The mass storage class driver (r_usb_hmsc_driver.c, r_usb_hmsc_hci.c):  *)
(* a command is a chain of messages of the task to itself, of transfers    *)
(* and of their results, led by the process and its sequence number.  It   *)
(* ends with one message to the storage driver.                            *)
(*                                                                         *)
(* Where the code reads memory it has not set (the status of a message     *)
(* that carries none, the pointer of CheckCsw) the value g decides.        *)
(***************************************************************************)
EXTENDS UsbHost

Process == {"NO_DATA", "DATA_IN", "DATA_OUT"}

HmscInit ==
  [process |-> "NONE",         \* usb_shmsc_Process
   seq |-> [p \in Process \cup {"DATA_STALL", "STALL_ERR"} |-> 0],
   root |-> "zero",            \* usb_ghmsc_RootDrive
   chk |-> {},                 \* the drives with DriveChk[..][0] = USB_YES:
                               \* number 0 and USB_MAXDRIVE, the search's
   roop |-> FALSE,             \* usb_ghmsc_CswErrRoop
   buf |-> [p \in {"out", "in"} |-> "data"],  \* TransData, ReceiveData
   by |-> "none", bumped |-> FALSE,   \* Cbw: whose command; CbwTagNo is past
                                      \* its tag
   dev |-> [cur |-> FALSE, by |-> "none"],    \* what the device was sent, and
                                              \* whether with the tag of Cbw
   csw |-> [cur |-> FALSE, st |-> "NG"],      \* Csw: its tag is Cbw's
   proof |-> "none",           \* history: whose command was found passed
   phase |-> FALSE]            \* history: a phase error was reported

Known(u) == u.root \in u.chk

-----------------------------------------------------------------------------
(* R_usb_hmsc_Read10, _Write10, _TestUnit ...: SetRwCbw or SetElsCbw, then *)
(* DataIn, DataOut or NoData; nothing where the drive is not known.        *)
SetCbw(u, by) ==
  IF u.bumped
  THEN [u EXCEPT !.by = by, !.bumped = FALSE, !.dev.cur = FALSE, !.csw.cur = FALSE]
  ELSE [u EXCEPT !.by = by]
Command(u, p, drv, by) ==
  IF drv \notin u.chk THEN u
  ELSE [Post([SetCbw(u, by) EXCEPT !.process = p], "HMSC", p, "none", drv)
          EXCEPT !.seq[p] = 0]
RequestSense(u) == Command(u, "DATA_IN", u.root, "sense")

SpecifiedPath(u, m, p) ==
  LET v == [u EXCEPT !.process = p] IN Post(v, "HMSC", p, m.arg, u.root)
CommandResult(u, result) == Post(u, "HSTRG", u.strg, result, "none")

CommandEndsPassed(u, result) == CommandResult([u EXCEPT !.roop = FALSE], result)
(* The result of a command, with what follows Request Sense.               *)
CommandEnds(u, result) ==
  IF u.roop THEN CommandResult([u EXCEPT !.roop = FALSE], "CSW_ERR")
  ELSE CommandResult(u, result)

(* GetCswCheck and CheckCsw.                                               *)
CswCheck(u, m) ==
  CASE ~Known(u) -> "CSW_ERR"
    [] Known(u) /\ m.arg = "STALL" -> "DATA_STALL"
    [] Known(u) /\ m.arg = "DATA_OK" /\ u.csw.cur /\ u.csw.st = "OK" -> "OK"
    [] Known(u) /\ m.arg = "DATA_OK" /\ u.csw.cur /\ u.csw.st = "PHASE" -> "PHASE"
    [] OTHER -> "CSW_ERR"

(* A phase error starts its recovery, through a pointer nobody has set,    *)
(* and is reported as well.                                                *)
PhaseError(u, g) ==
  LET v == [u EXCEPT !.process = "PHASE_ERR", !.seq["STALL_ERR"] = 0,
                     !.phase = TRUE] IN
  CommandEnds(Post(v, "HMSC", IF g THEN "PHASE_ERR" ELSE "unknown",
                   "none", u.root), "PHASE_ERR")

Final(u, m, onStall, g) ==
  LET r == CswCheck(u, m) IN
  CASE r = "OK" ->
         CommandEnds([u EXCEPT !.proof = IF u.roop THEN "none" ELSE u.dev.by], "OK")
    [] r = "CSW_ERR" -> RequestSense([u EXCEPT !.roop = TRUE])
    [] r = "DATA_STALL" -> SpecifiedPath(u, m, onStall)
    [] r = "PHASE" -> PhaseError(u, g)

-----------------------------------------------------------------------------
(* SubmitutrReq: the toggle, then the transfer; refusals are not read.     *)
Request(u, p) == IF Known(u) THEN Start(SetToggle(u), p, "bulk") ELSE u
Next1(u, p) == [u EXCEPT !.seq[p] = @ + 1]
Back(u, p) == [u EXCEPT !.seq[p] = 0]
(* SendData, GetData, GetCsw: what the next transfer of the pipe carries.  *)
Prepare(u, pipe, what) == IF Known(u) THEN [u EXCEPT !.buf[pipe] = what] ELSE u
GetCsw(u) == Prepare(u, "in", "csw")

Stage(p, n) ==
  IF p = "NO_DATA"
  THEN <<"cbw", "cbw_req", "cbw_check", "csw_req", "csw_check">>[n + 1]
  ELSE <<"cbw", "cbw_req", "cbw_check", "data_req", "data_check", "csw_req",
         "csw_check">>[n + 1]
DataPipe(p) == IF p = "DATA_IN" THEN "in" ELSE "out"
DataDone(p) == IF p = "DATA_IN" THEN "DATA_OK" ELSE "NONE"

SendCbw(u, m, p) ==
  LET v == [u EXCEPT !.root = m.drv] IN
  SpecifiedPath(Next1(IF Known(v) THEN [v EXCEPT !.buf["out"] = "cbw",
                                                  !.bumped = TRUE]
                      ELSE v, p), m, p)

SendCbwReq(u, p) ==
  Next1(Request(IF p = "DATA_IN" THEN u ELSE [u EXCEPT !.process = p], "out"), p)

SendCbwCheck(u, m, p) ==
  CASE Known(u) /\ m.arg = "NONE" ->
         SpecifiedPath(Next1(IF p = "NO_DATA" THEN GetCsw(u)
                             ELSE Prepare(u, DataPipe(p), "data"), p), m, p)
    [] Known(u) /\ m.arg = "STALL" ->
         Back(SpecifiedPath([u EXCEPT !.seq["STALL_ERR"] = 0], m, "CBW_ERR"), p)
    [] OTHER -> Back(CommandResult(u, "ERR"), p)

(* After a stall of the data GetCsw is left out: see CSW_ERR.              *)
DataCheck(u, m, p) ==
  CASE Known(u) /\ m.arg = DataDone(p) -> SpecifiedPath(Next1(GetCsw(u), p), m, p)
    [] Known(u) /\ m.arg = "STALL" ->
         Next1(ClearStall([u EXCEPT !.process = p], DataPipe(p), "check2"), p)
    [] OTHER -> Back(CommandResult(u, "ERR"), p)

Act(u, m, p, g) ==
  LET at == Stage(p, u.seq[p])
      req == [u EXCEPT !.process = p] IN
  CASE at = "cbw" -> SendCbw(u, m, p)
    [] at = "cbw_req" -> SendCbwReq(u, p)
    [] at = "cbw_check" -> SendCbwCheck(u, m, p)
    [] at = "data_req" -> Next1(Request(req, DataPipe(p)), p)
    [] at = "data_check" -> DataCheck(u, m, p)
    [] at = "csw_req" -> Next1(Request(req, "in"), p)
    [] at = "csw_check" -> Back(Final(u, m, "DATA_STALL", g), p)

-----------------------------------------------------------------------------
(* The reset of the device after a command it stalled, or a phase error.   *)
ClearStallCheck(u, g) == IF g THEN SetToggle(u) ELSE u

MassStorageReset(u, m) ==
  LET v == [u EXCEPT !.root = m.drv] IN
  IF StartedCtl(v) = "QOVR" THEN Post(v, "HMSC", m.what, m.arg, m.drv)
  ELSE Next1(StartCtl(v, "reset"), "STALL_ERR")

StallErrCounts(u, g) ==
  Next1(CommandResult(ClearStallCheck(u, g), "ERR"), "STALL_ERR")
StallErrEnds(u, g) ==
  Back(CommandResult(ClearStallCheck(u, g), "ERR"), "STALL_ERR")
StallErr(u, m, g) ==
  LET n == u.seq["STALL_ERR"] IN
  CASE ~Known(u) -> u
    [] Known(u) /\ n = 0 -> MassStorageReset(u, m)
    [] Known(u) /\ n = 1 -> Next1(ClearStall(u, "out", "check_result"), "STALL_ERR")
    [] Known(u) /\ n = 2 ->
         Next1(ClearStall(ClearStallCheck(u, g), "in", "check_result"), "STALL_ERR")
    [] Known(u) /\ n = 3 -> StallErrEnds(u, g)

(* The second try for a status wrapper that was stalled.                   *)
DataStall(u, m, g) ==
  LET n == u.seq["DATA_STALL"]
      v == [u EXCEPT !.process = "DATA_STALL"] IN
  CASE ~Known(u) -> u
    [] Known(u) /\ n = 0 ->
         Next1([ClearStall([u EXCEPT !.root = m.drv], "in", "check_result")
                  EXCEPT !.process = "DATA_STALL"], "DATA_STALL")
    [] Known(u) /\ n = 1 ->
         Next1(SpecifiedPath(GetCsw(ClearStallCheck(u, g)), m, "DATA_STALL"),
               "DATA_STALL")
    [] Known(u) /\ n = 2 -> Next1(Request(v, "in"), "DATA_STALL")
    [] Known(u) /\ n = 3 -> Back(Final(u, m, "PHASE_ERR", g), "DATA_STALL")

HmscTask(u, m, g) ==
  RelBlk(CASE m.what \in Process -> Act(u, m, m.what, g)
           [] m.what = "DATA_STALL" -> DataStall(u, m, g)
           [] m.what \in {"CBW_ERR", "PHASE_ERR"} -> StallErr(u, m, g)
           [] OTHER -> u, m)
=============================================================================
