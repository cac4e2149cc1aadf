------------------------------ MODULE UsbScheduler ------------------------------
(***************************************************************************)
(* The scheduler of the USB driver (r_usb_cscheduler.c): the pool of       *)
(* message blocks, one queue per priority, and the one message that        *)
(* R_usb_cstd_Scheduler has picked for the task that runs next.            *)
(*                                                                         *)
(* Operators on a record s with fields                                     *)
(*   used  BlkFlg: the blocks handed out,                                  *)
(*   q     TableID, TableAdd: the queues by priority,                      *)
(*   use   ID_use, Add_use: the message picked last, never cleared,        *)
(*   flag  ScheduleFlag.                                                   *)
(* A message holds the number of its block, or 0 when its memory is the    *)
(* sender's own.                                                           *)
(***************************************************************************)
EXTENDS Integers, Sequences

CONSTANTS
  BLKMAX,    \* USB_BLKMAX, blocks of the pool
  TABLEMAX   \* USB_TABLEMAX, entries of a queue

ASSUME SchedulerAssumption == BLKMAX \in Nat \ {0} /\ TABLEMAX \in Nat \ {0, 1}

Task == {"HCD", "MGR", "HMSC", "HSTRG", "HMSCSMP"}
Priority == 1 .. 4
Pri == [t \in Task |-> CASE t = "HCD" -> 1 [] t = "MGR" -> 2
                         [] t \in {"HMSC", "HSTRG"} -> 3 [] t = "HMSCSMP" -> 4]

Msg(id, blk, what, arg, drv) ==
  [id |-> id, blk |-> blk, what |-> what, arg |-> arg, drv |-> drv]

ScheInit ==
  [used |-> {}, q |-> [p \in Priority |-> <<>>], flag |-> FALSE,
   use |-> Msg("none", 0, "none", "none", "none")]

(* iSndMsg keeps one entry of the ring empty.                              *)
HasRoom(s, id) == Len(s.q[Pri[id]]) < TABLEMAX - 1
SndMsg(s, m) == [s EXCEPT !.q[Pri[m.id]] = Append(@, m)]

(* The first block that is free, 0 when the pool is exhausted.             *)
FirstFree ==
  [used \in SUBSET (1 .. BLKMAX) |->
     LET free == (1 .. BLKMAX) \ used IN
     IF free = {} THEN 0 ELSE CHOOSE b \in free : \A c \in free : b <= c]
PgetBlk(s) == FirstFree[s.used]
CanPost(s, id) == PgetBlk(s) # 0 /\ HasRoom(s, id)

(* The block and SndMsg, with RelBlk where the queue is full: what every     *)
(* task does to send, and on failure it goes on without having sent.       *)
Post(s, id, what, arg, drv) ==
  LET b == PgetBlk(s) IN
  IF ~CanPost(s, id) THEN s
  ELSE SndMsg([s EXCEPT !.used = @ \cup {b}], Msg(id, b, what, arg, drv))

RelBlk(s, m) == [s EXCEPT !.used = @ \ {m.blk}]

FirstWaiting ==
  [waits \in [Priority -> BOOLEAN] |->
     IF \E p \in Priority : waits[p]
     THEN CHOOSE p \in Priority : waits[p] /\ \A r \in 1 .. p - 1 : ~waits[r]
     ELSE 0]

(* The first message of the highest priority that has one; where no queue  *)
(* has one, the message picked before stays.                               *)
Scheduler(s) ==
  LET p == FirstWaiting[[r \in Priority |-> s.q[r] # <<>>]] IN
  IF p = 0 THEN s
  ELSE [s EXCEPT !.use = Head(s.q[p]), !.q[p] = Tail(@), !.flag = TRUE]

(* RecMsg does not look at the flag: a task whose message was picked       *)
(* receives it at every call until another is picked.                      *)
RecMsg(s, id) == s.use.id = id
CheckSchedule(s) == [s EXCEPT !.flag = FALSE]

-----------------------------------------------------------------------------
Queued(s) == UNION {{s.q[p][i] : i \in 1 .. Len(s.q[p])} : p \in Priority}
Blocks(ms) == {m.blk : m \in ms} \ {0}

(* No block has two messages in the queues, or one while it is free.       *)
BlocksAreDistinct(s) ==
  /\ Blocks(Queued(s)) \subseteq s.used
  /\ \A p, r \in Priority : \A i \in 1 .. Len(s.q[p]), j \in 1 .. Len(s.q[r]) :
       s.q[p][i].blk = s.q[r][j].blk =>
         (p = r /\ i = j) \/ s.q[p][i].blk = 0
=============================================================================
