--------------------------------- MODULE UsbHost --------------------------------
(***************************************************************************)
(* The host controller driver and the manager (r_usb_hdriver.c,            *)
(* r_usb_hmanager.c, r_usb_hreg_abs.c): what their tasks do with a         *)
(* message, as operators on the driver's state u.                          *)
(*                                                                         *)
(* Three pipes: control, bulk out, bulk in.  A transfer is asked for with  *)
(* TransferStart, which queues the request, and ends with an interrupt,    *)
(* which is queued too; its end calls back the task that asked.  The       *)
(* requests of the enumeration are abstracted to one control transfer.     *)
(* Hubs, suspend and resume are left out.                                  *)
(***************************************************************************)
EXTENDS UsbScheduler

Pipe == {"ctl", "out", "in"}

HostInit ==
  [pipe |-> [p \in Pipe |-> "idle"], \* usb_gcstd_Pipe: what is transferred
   ended |-> {},               \* the pipes whose interrupt is queued
   conn |-> FALSE,             \* DEVADD: the device's address is set up
   mode |-> "DETACHED",        \* usb_ghstd_MgrMode
   ep |-> FALSE,               \* DeviceInfo[1]: configured
   plug |-> FALSE,             \* the line
   ints |-> "attch",           \* which change of the line interrupts
   stall |-> "none",           \* usb_shstd_ClearStallCall
   halt |-> FALSE]             \* while( 1 )

-----------------------------------------------------------------------------
(* TransferStart.  A refusal changes nothing; only the control transfers'  *)
(* callers look at it.                                                     *)
Started(u, p) ==
  IF u.pipe[p] # "idle" THEN "QOVR"
  ELSE IF ~u.conn \/ ~HasRoom(u, "HCD") THEN "ERROR" ELSE "OK"
Start(u, p, utr) ==
  IF Started(u, p) = "OK" THEN SndMsg(u, Msg("HCD", 0, "submit", p, utr)) ELSE u

(* R_usb_hstd_TransferStart: no control transfers during an enumeration.   *)
StartedCtl(u) == IF u.mode = "DEFAULT" THEN "QOVR" ELSE Started(u, "ctl")
StartCtl(u, utr) == IF StartedCtl(u) = "OK" THEN Start(u, "ctl", utr) ELSE u

ClearStall(u, p, call) == Post(u, "HCD", "clr_stall", call, p)
SetToggle(u) == Post(u, "HCD", "seq", "none", "none")

(* The callbacks: CheckResult of the class driver, StrgCheckResult of the  *)
(* storage driver, ClearStallResult, and SubmitResult of the manager.      *)
CheckResult(u, status) == Post(u, "HMSC", u.process, status, "none")
Callback(u, utr, status) ==
  CASE utr = "enum" -> Post(u, "MGR", "submit", status, "none")
    [] utr = "lun" -> Post(u, "HSTRG", u.strg, status, "none")
    [] utr = "clear" -> Post(u, "HCD", "clr_result", status, "none")
    [] OTHER -> CheckResult(u, status)

(* The end of a transfer.  A command block that went out is what the       *)
(* device answers from now on; what came in for a status wrapper is the    *)
(* wrapper of that answer.                                                 *)
CswStatus == {"OK", "NG", "PHASE"}
Transferred(u, utr, status) ==
  CASE utr = "cbw" /\ status = "NONE" ->
         [u EXCEPT !.dev = [cur |-> TRUE, by |-> u.by]]
    [] utr = "csw" /\ status \in CswStatus ->
         [u EXCEPT !.csw = [cur |-> u.dev.cur, st |-> status]]
    [] OTHER -> u
DataEnd(u, p, status) ==
  LET utr == u.pipe[p]
      idle == [u EXCEPT !.pipe[p] = "idle", !.ended = @ \ {p}] IN
  IF utr = "idle" THEN u
  ELSE Callback(Transferred(idle, utr, status), utr,
                IF utr = "csw" /\ status \in CswStatus THEN "DATA_OK" ELSE status)

-----------------------------------------------------------------------------
(* The tasks.                                                              *)
SetSubmitutr(u, m) ==
  LET p == m.arg
      utr == IF p = "ctl" THEN m.drv ELSE u.buf[p]
      set == [u EXCEPT !.pipe[p] = utr, !.ended = @ \ {p}] IN
  IF ~u.conn \/ (p = "ctl" /\ u.pipe[p] # "idle") THEN DataEnd(set, p, "ERR")
  ELSE set

NotifAtorDetach(u, change) == Post(u, "MGR", change, "none", "none")

AttachProcess(u) ==
  IF u.plug THEN NotifAtorDetach([u EXCEPT !.ints = "dtch"], "attach")
  ELSE NotifAtorDetach([u EXCEPT !.ints = "attch"], "detach")

(* DetachProcess up to the point where it waits for the line to settle,    *)
(* and from there on.                                                      *)
EndTransfers(u) ==
  IF ~u.conn THEN u
  ELSE [DataEnd(DataEnd(DataEnd(u, "ctl", "ERR"), "out", "ERR"), "in", "ERR")
          EXCEPT !.conn = FALSE]
Bounced(u) == u.plug
DetachProcess(u) == AttachProcess(u)

ClrStall(u, m) ==
  CASE Started(u, "ctl") = "QOVR" -> SndMsg(u, m)     \* WAI_MSG
    [] OTHER -> RelBlk(Start([u EXCEPT !.stall = m.arg], "ctl", "clear"), m)

(* ClearStallCall is CheckResult or ClearStallCheck2.                      *)
ClrStallResult(u, m) ==
  IF u.stall = "check_result" THEN CheckResult(u, m.arg)
  ELSE Post(IF m.arg = "OK" THEN SetToggle(u) ELSE u,
            "HMSC", u.process, m.arg, "none")

HcdTask(u, m) ==
  CASE m.what = "submit" -> SetSubmitutr(u, m)
    [] m.what = "end" -> DataEnd(u, m.drv, m.arg)
    [] m.what = "attch" -> AttachProcess(u)
    [] m.what = "dtch" -> DetachProcess(EndTransfers(u))
    [] m.what = "clr_stall" -> ClrStall(u, m)
    [] m.what = "clr_result" -> RelBlk(ClrStallResult(u, m), m)
    [] OTHER -> RelBlk(u, m)

(* A message without which the program stops.                              *)
PostOrHalt(u, id, what) ==
  IF CanPost(u, id) THEN Post(u, id, what, "none", "none")
  ELSE [u EXCEPT !.halt = TRUE]

(* SmpFsiDriveClear: the drive's slot or, where none is set yet, the       *)
(* search's.                                                               *)
DriveClose(u) ==
  [u EXCEPT !.chk = IF "zero" \in @ THEN @ \ {"zero"} ELSE @ \ {"max"}]

MgrAttach(u) ==
  IF u.mode # "DETACHED" THEN u
  ELSE [u EXCEPT !.mode = "DEFAULT", !.conn = TRUE, !.pipe["ctl"] = "enum"]
MgrDetach(u) ==
  [IF u.ep THEN DriveClose(u) ELSE u EXCEPT !.mode = "DETACHED", !.ep = FALSE]
SubmitResult(u, m) ==
  IF u.mode # "DEFAULT" THEN u
  ELSE IF m.arg # "OK" THEN [u EXCEPT !.mode = "DETACHED"]
  ELSE PostOrHalt([u EXCEPT !.mode = "CONFIGURED", !.ep = TRUE],
                  "HMSCSMP", "open")

MgrTask(u, m) ==
  RelBlk(CASE m.what = "attach" -> MgrAttach(u)
           [] m.what = "detach" -> MgrDetach(u)
           [] m.what = "submit" -> SubmitResult(u, m), m)
=============================================================================
