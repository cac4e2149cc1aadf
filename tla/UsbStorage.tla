------------------------------- MODULE UsbStorage -------------------------------
(***************************************************************************)
(* The USB memory as the servers' file system sees it: the storage driver  *)
(* (r_usb_hstorage_driver.c) and the program's task (r_usb_hmsc_apl.c)     *)
(* that search and mount a new device, the disk accesses of the FAT        *)
(* library (r_tfat_drv_if_usb.c), and the main loop that runs the tasks.   *)
(*                                                                         *)
(* A disk access posts its command and then runs tasks itself until it     *)
(* receives a message for the storage driver, which it takes for its       *)
(* answer, or finds the device detached.  The HTTP and FTP servers make    *)
(* accesses from their callbacks, thus inside an interrupt, at any place   *)
(* of the main program; R_ftpd makes one from the main program.            *)
(* Devices have one logical unit.                                          *)
(***************************************************************************)
EXTENDS UsbHmsc, FiniteSets, TLC

CONSTANTS
  RETRIES,   \* of the partition table (10)
  FAULTS,    \* bound: transfers that do not end as they should
  MOVES      \* bound: these and the times the plug is put in or pulled

ASSUME StorageAssumption == RETRIES \in Nat \ {0} /\ FAULTS \in Nat /\ MOVES \in Nat

VARIABLES
  u,      \* the driver's state
  pc,     \* the main loop: "sched", "check", "run", "detaching"; "trcv" in
          \* an access
  acc,    \* accesses under way: "none", "wait", or "leave" for the last turn;
          \* of the main program and of an interrupt
  det,    \* what the main program's access found in DeviceInformation
  left,   \* how many faults and moves are left
  told,   \* how the last access ended: "failed", or with success that its
          \* command's status wrapper "passed", or not: "wrong"
  spoil   \* history, see Spoil

vars == <<u, pc, acc, det, left, told, spoil>>

Who == {"main", "irq"}
Place == {"sched", "check", "run", "detaching", "trcv"}

(* What the code does not keep apart:                                      *)
(*   "window"     an interrupt's access began while the main program held  *)
(*                a message it had picked and not finished with,           *)
(*   "search"     one began before the search of a new device had ended,   *)
(*   "phase"      one began after the device had reported a phase error,   *)
(*                which is answered twice,                                 *)
(*   "nested"     one began inside the main program's own,                 *)
(*   "gaveup"     one gave up on a detached device with a message picked,  *)
(*                which the main loop's next pick overwrites,              *)
(*   "bounced"    the line was attached again when a detach was handled,   *)
(*   "early"      a device was attached while something of the one before  *)
(*                remained: its drive, a transfer or a message.            *)
Spoil == {"window", "search", "phase", "nested", "gaveup", "bounced", "early"}

StorageInit ==
  [strg |-> "NONE",             \* usb_shmsc_StrgProcess
   sseq |-> 0, pseq |-> 0,      \* StrgDriveSearchSeq, DevReadPartitionSeq
   errs |-> 0, loops |-> 0,     \* StrgDriveSearchErrCount, LoopCont
   ready |-> FALSE,             \* DeviceReady[0] = USB_PDT_DIRECT
   att |-> FALSE, mounted |-> FALSE]   \* AttSts, the mounted file system

(* The driver's memory, each module's part of it.                          *)
MemoryInit ==
  [f \in DOMAIN ScheInit \cup DOMAIN HostInit \cup DOMAIN HmscInit \cup DOMAIN StorageInit |->
     CASE f \in DOMAIN ScheInit -> ScheInit[f]
       [] f \in DOMAIN HostInit -> HostInit[f]
       [] f \in DOMAIN HmscInit -> HmscInit[f]
       [] f \in DOMAIN StorageInit -> StorageInit[f]]

Init ==
  /\ u = MemoryInit
  /\ pc = "sched" /\ acc = [w \in Who |-> "none"] /\ det = FALSE
  /\ left = [faults |-> FAULTS, moves |-> MOVES]
  /\ told = "failed" /\ spoil = {}

-----------------------------------------------------------------------------
(* The search of a new device.                                             *)
Search(v, n) == [v EXCEPT !.sseq = n, !.strg = "SEARCH"]
StrgSpecifiedPath(v, m) == Post(v, "HSTRG", v.strg, m.arg, m.drv)
SearchCommand(v, p, n) == Search(Command(v, p, "max", "search"), n)

GetMaxUnit(v, m) ==
  LET w == [v EXCEPT !.strg = "SEARCH"] IN
  IF StartedCtl(w) = "QOVR" THEN Post(w, "HSTRG", m.what, m.arg, m.drv)
  ELSE [StartCtl(w, "lun") EXCEPT !.sseq = 1]

(* Inquiry, three times where its status failed.                           *)
InquiryResult(v, m, direct) ==
  LET again == m.arg = "CSW_ERR" /\ v.errs < 2 IN
  StrgSpecifiedPath(
    [Search(v, IF again THEN 2 ELSE 4)
       EXCEPT !.errs = IF again THEN @ + 1 ELSE 0,
              !.ready = IF m.arg = "OK" THEN direct ELSE @], m)

ReadPartition(v) ==
  Post([v EXCEPT !.pseq = 0, !.sseq = 9], "HSTRG", "PARTITION", "none", "none")

(* StrgCommandResult: the device is attached, whatever was found on it.    *)
SearchEnds(v) ==
  [PostOrHalt([v EXCEPT !.att = TRUE], "HMSCSMP", "mount")
     EXCEPT !.sseq = 0, !.strg = "NONE"]

StrgDriveSearchAct(v, m, g) ==
  LET n == v.sseq IN
  CASE n = 0 -> GetMaxUnit(v, m)
    [] n = 1 -> StrgSpecifiedPath(Search([v EXCEPT !.chk = @ \cup {"max"}], 2), m)
    [] n = 2 -> [SearchCommand(v, "DATA_IN", 3) EXCEPT !.ready = FALSE]
    [] n = 3 -> InquiryResult(v, m, g)
    [] n = 4 -> SearchCommand(v, "DATA_IN", 5)
    [] n = 5 -> SearchCommand(v, "DATA_IN", 6)
    [] n = 6 -> IF m.arg # "OK" THEN SearchCommand(v, "NO_DATA", 7)
                ELSE StrgSpecifiedPath(Search(v, 8), m)
    [] n = 7 -> IF m.arg # "OK" THEN SearchCommand(v, "NO_DATA", 7)
                ELSE SearchCommand(v, "DATA_IN", 8)
    [] n = 8 -> IF v.ready THEN ReadPartition(v)
                ELSE StrgSpecifiedPath(Search(v, 9), m)
    [] n = 9 -> SearchEnds(v)

(* The boot record: a FAT partition (g), none, or not read.                *)
PartitionRead(v, m, g) ==
  LET found == [v EXCEPT !.loops = 0, !.strg = "SEARCH"] IN
  CASE m.arg = "OK" /\ g ->
         Post([found EXCEPT !.chk = @ \cup {"zero"}], "HSTRG", "SEARCH", "OK", "none")
    [] m.arg # "OK" /\ v.loops + 1 < RETRIES ->
         StrgSpecifiedPath([v EXCEPT !.loops = @ + 1], m)
    [] OTHER -> Post(found, "HSTRG", "SEARCH", "ERR", "none")

SmpDevReadPartitionAct(v, m, g) ==
  IF v.pseq = 0
  THEN [Command(v, "DATA_IN", "max", "search")
          EXCEPT !.pseq = 1, !.strg = "PARTITION"]
  ELSE PartitionRead([v EXCEPT !.pseq = 0], m, g)

StrgDriveTaskKeeps(v, m, g) ==
  CASE m.what = "SEARCH" -> StrgDriveSearchAct(v, m, g)
    [] m.what = "PARTITION" -> SmpDevReadPartitionAct(v, m, g)
    [] OTHER -> RelBlk(v, m)
StrgDriveTask(v, m, g) ==
  RelBlk(CASE m.what = "SEARCH" -> StrgDriveSearchAct(v, m, g)
           [] m.what = "PARTITION" -> SmpDevReadPartitionAct(v, m, g)
           [] OTHER -> v, m)

(* SampleAplTask.                                                          *)
SampleAplTask(v, m) ==
  RelBlk(IF m.what = "open"
         THEN Post([v EXCEPT !.sseq = 0], "HSTRG", "SEARCH", "none", "none")
         ELSE [v EXCEPT !.mounted = TRUE], m)

-----------------------------------------------------------------------------
(* The tasks that WaitLoop runs, and all of them.                          *)
DriverTasks(v, g) ==
  CASE RecMsg(v, "HCD") -> HcdTask(v, v.use)
    [] RecMsg(v, "MGR") -> MgrTask(v, v.use)
    [] RecMsg(v, "HMSC") -> HmscTask(v, v.use, g)
    [] OTHER -> v
Tasks(v, g) ==
  CASE RecMsg(v, "HSTRG") -> StrgDriveTask(v, v.use, g)
    [] RecMsg(v, "HMSCSMP") -> SampleAplTask(v, v.use)
    [] OTHER -> DriverTasks(v, g)

MainTasks(v, g) ==
  IF acc["main"] = "none" THEN Tasks(v, g) ELSE DriverTasks(v, g)

Detaches(v) == RecMsg(v, "HCD") /\ v.use.what = "dtch"
Bounce(v) == IF v.flag /\ Detaches(v) /\ Bounced(v) THEN {"bounced"} ELSE {}
Attaches(v) == RecMsg(v, "MGR") /\ v.use.what = "attach" /\ v.mode = "DETACHED"
Remains(v) ==
  \/ "zero" \in v.chk \/ \E p \in Pipe : v.pipe[p] # "idle"
  \/ \E m \in Queued(v) : m.id # "HCD" \/ m.what \notin {"attch", "dtch"}
Early(v) == IF Attaches(v) /\ Remains(v) THEN {"early"} ELSE {}

WaitLoop(v, g) ==
  Scheduler(IF v.flag THEN DriverTasks(CheckSchedule(v), g) ELSE v)

Running == ~u.halt
NoIrq == Running /\ acc["irq"] = "none"
Goto(a, b) == pc = a /\ pc' = b

(* An access ends, with a message for the storage driver or without one.   *)
Answer(w, v) ==
  /\ u' = RelBlk([v EXCEPT !.proof = "none"], v.use)
  /\ told' = IF acc[w] # "wait" \/ v.use.arg # "OK" THEN "failed"
             ELSE IF v.proof = w THEN "passed" ELSE "wrong"
  /\ acc' = [acc EXCEPT ![w] = "none"]
GiveUp(w) ==
  /\ acc[w] = "leave" /\ acc' = [acc EXCEPT ![w] = "none"] /\ told' = "failed"
TurnAgainBlindly(w, detached) ==
  /\ acc[w] = "wait" /\ UNCHANGED <<told, acc>>
TurnAgain(w, detached) ==
  /\ acc[w] = "wait" /\ UNCHANGED told
  /\ acc' = [acc EXCEPT ![w] = IF detached THEN "leave" ELSE "wait"]

-----------------------------------------------------------------------------
(* The main loop, usb_apl_task_switch.                                     *)
MainSchedule ==
  /\ NoIrq /\ pc = "sched" /\ u' = Scheduler(u)
  /\ pc' = IF acc["main"] = "none" THEN "check" ELSE "trcv"
  /\ UNCHANGED <<acc, det, left, told, spoil>>

MainCheck ==
  /\ NoIrq /\ Goto("check", IF u.flag THEN "run" ELSE "sched")
  /\ u' = CheckSchedule(u)
  /\ UNCHANGED <<acc, det, left, told, spoil>>

MainRuns ==
  /\ NoIrq /\ ~Detaches(u) /\ Goto("run", "sched")
  /\ \E g \in BOOLEAN : \E v \in {MainTasks(u, g)} : u' = v
  /\ spoil' = spoil \cup Early(u)
  /\ UNCHANGED <<acc, det, left, told>>

(* DetachProcess waits 30 ms and more for the line to settle.              *)
MainDetaches ==
  /\ NoIrq /\ Detaches(u) /\ Goto("run", "detaching")
  /\ u' = EndTransfers(u)
  /\ UNCHANGED <<acc, det, left, told, spoil>>

MainDetached ==
  /\ NoIrq /\ Goto("detaching", "sched")
  /\ \E g \in BOOLEAN :
       u' = IF RecMsg(u, "HCD") THEN DetachProcess(u)
            ELSE MainTasks(DetachProcess(u), g)
  /\ spoil' = spoil \cup (IF Bounced(u) THEN {"bounced"} ELSE {})
  /\ UNCHANGED <<acc, det, left, told>>

(* R_ftpd closes the file of a finished upload, which writes to the disk.  *)
Ready(v) == v.mounted /\ v.att /\ "zero" \in v.chk /\ v.ep
Searching ==
  \/ u.strg # "NONE"
  \/ \E m \in Queued(u) : m.what = "mount"
  \/ u.use.what = "mount" /\ (u.flag \/ pc = "run")
BegunTooEarly ==
  (IF Searching THEN {"search"} ELSE {}) \cup (IF u.phase THEN {"phase"} ELSE {})
Begin(w, p) ==
  /\ Running /\ acc[w] = "none" /\ Ready(u)
  /\ u' = [Command(u, p, "zero", w) EXCEPT !.proof = "none"]
  /\ acc' = [acc EXCEPT ![w] = "wait"]
  /\ UNCHANGED <<left, told>>

MainAccess ==
  /\ acc["irq"] = "none" /\ Goto("sched", "check") /\ Begin("main", "DATA_OUT")
  /\ det' = ~u.ep
  /\ spoil' = spoil \cup BegunTooEarly

LosesPicked(w, v) ==
  IF acc[w] = "leave" /\ v.flag /\ ~RecMsg(v, "HSTRG") THEN {"gaveup"} ELSE {}

MainReceives ==
  /\ NoIrq /\ pc = "trcv" /\ RecMsg(u, "HSTRG") /\ Answer("main", u)
  /\ pc' = "sched" /\ UNCHANGED <<det, left, spoil>>

MainTurns ==
  /\ NoIrq /\ pc = "trcv" /\ ~RecMsg(u, "HSTRG")
  /\ \/ GiveUp("main") /\ pc' = "sched" /\ UNCHANGED det
     \/ TurnAgain("main", det) /\ pc' = "check" /\ det' = ~u.ep
  /\ spoil' = spoil \cup LosesPicked("main", u)
  /\ UNCHANGED <<u, left>>

-----------------------------------------------------------------------------
(* An access from a callback.  One turn of its loop is one step: the main  *)
(* program stands still, and what the device does meanwhile is queued.     *)
IrqAccess ==
  /\ \E p \in {"DATA_IN", "DATA_OUT"} : Begin("irq", p)
  /\ spoil' = spoil
       \cup (IF pc \in {"run", "detaching"} THEN {"window"} ELSE {})
       \cup BegunTooEarly
       \cup (IF acc["main"] # "none" THEN {"nested"} ELSE {})
  /\ UNCHANGED <<pc, det, left>>

IrqTurn ==
  /\ Running /\ acc["irq"] # "none"
  /\ \E g \in BOOLEAN : \E v \in {WaitLoop(u, g)} :
       /\ IF RecMsg(v, "HSTRG") THEN Answer("irq", v)
          ELSE u' = v /\ (GiveUp("irq") \/ TurnAgain("irq", ~u.ep))
       /\ spoil' = spoil \cup Bounce(u) \cup LosesPicked("irq", v)
                         \cup (IF u.flag THEN Early(u) ELSE {})
  /\ UNCHANGED <<pc, det, left>>

-----------------------------------------------------------------------------
(* The device and the line, with the interrupts they raise.                *)
Interrupt(v, m) == u' = IF HasRoom(v, "HCD") THEN SndMsg(v, m) ELSE v

Outcomes(p) ==
  CASE p = "ctl" -> {"OK", "STALL"}
    [] p = "out" -> {"NONE", "STALL"}
    [] p = "in" /\ u.pipe["in"] = "csw" -> CswStatus \cup {"STALL"}
    [] OTHER -> {"DATA_OK", "STALL"}
Good == {"OK", "NONE", "DATA_OK"}

Ends(p, status) ==
  /\ Running /\ u.pipe[p] # "idle" /\ p \notin u.ended
  /\ Interrupt([u EXCEPT !.ended = @ \cup {p}], Msg("HCD", 0, "end", status, p))
  /\ IF status \in Good THEN UNCHANGED left
     ELSE /\ left.faults > 0 /\ left.moves > 0
          /\ left' = [faults |-> left.faults - 1, moves |-> left.moves - 1]
  /\ UNCHANGED <<pc, acc, det, told, spoil>>

DeviceAnswers(p) == u.plug /\ \E status \in Outcomes(p) : Ends(p, status)
TransferFails(p) == Ends(p, "ERR")

PlugOrPull ==
  /\ Running /\ left.moves > 0 /\ left' = [left EXCEPT !.moves = @ - 1]
  /\ u' = [u EXCEPT !.plug = ~@]
  /\ UNCHANGED <<pc, acc, det, told, spoil>>

(* A short break of the line interrupts as a detach does.                  *)
LineChanges ==
  /\ Running /\ u.ints # "none" /\ (u.ints = "attch" => u.plug)
  /\ Interrupt([u EXCEPT !.ints = "none"], Msg("HCD", 0, u.ints, "none", "none"))
  /\ UNCHANGED <<pc, acc, det, left, told, spoil>>

Main ==
  \/ MainSchedule \/ MainCheck \/ MainRuns \/ MainDetaches \/ MainDetached
  \/ MainReceives \/ MainTurns

Next ==
  \/ Main \/ MainAccess \/ IrqAccess \/ IrqTurn
  \/ \E p \in Pipe : DeviceAnswers(p) \/ TransferFails(p)
  \/ PlugOrPull \/ LineChanges

(* The main loop and an interrupt go on; a device in its socket answers    *)
(* each transfer; what the line does is seen.                              *)
MainGoesOn == NoIrq /\ pc' \in Place
Fairness ==
  /\ WF_pc(MainGoesOn) /\ WF_vars(IrqTurn)
  /\ \A p \in Pipe : WF_vars(DeviceAnswers(p))
  /\ WF_vars(LineChanges)

Spec == Init /\ [][Next]_vars /\ Fairness
-----------------------------------------------------------------------------
(* The type of every variable.                                             *)
TypeOK ==
  /\ u.used \subseteq 1 .. BLKMAX /\ u.flag \in BOOLEAN
  /\ u.ended \subseteq Pipe /\ u.conn \in BOOLEAN /\ u.ep \in BOOLEAN
  /\ u.mode \in {"DETACHED", "DEFAULT", "CONFIGURED"}
  /\ u.ints \in {"none", "attch", "dtch"} /\ u.chk \subseteq {"zero", "max"}
  /\ \A p \in Process : u.seq[p] \in 0 .. 6
  /\ u.seq["DATA_STALL"] \in 0 .. 3 /\ u.seq["STALL_ERR"] \in 0 .. 3
  /\ u.strg \in {"NONE", "SEARCH", "PARTITION"}
  /\ u.sseq \in 0 .. 9 /\ u.pseq \in 0 .. 1
  /\ u.errs \in 0 .. 2 /\ u.loops \in 0 .. RETRIES - 1
  /\ pc \in Place
  /\ acc \in [Who -> {"none", "wait", "leave"}] /\ det \in BOOLEAN
  /\ told \in {"failed", "passed", "wrong"} /\ spoil \subseteq Spoil

(* disk_read and disk_write take whatever message reaches the storage      *)
(* driver for their answer.  Where nothing of Spoil has happened, one that *)
(* reports success had its own command's status wrapper, and it said       *)
(* "passed".                                                               *)
Truthful == told = "wrong" => spoil # {}

(* A block is queued once, is not queued while it is free, and is not lost *)
(* while it is in use: it is in a queue or it is the message just picked.  *)
InHand == IF u.flag \/ pc \in {"run", "detaching", "trcv"} THEN {u.use} ELSE {}
BlocksAccounted ==
  \/ spoil # {}
  \/ /\ BlocksAreDistinct(u)
     /\ u.used \subseteq Blocks(Queued(u) \cup InHand)

(* An access ends: it is answered, or it finds the device detached.        *)
AccessEnds ==
  \A w \in Who : acc[w] # "none" ~> acc[w] = "none" \/ spoil # {}
=============================================================================
