---------------------------- MODULE UsbStorageProofs ----------------------------
(***************************************************************************)
(* The USB memory, for pools and queues of any size and any number of      *)
(* moves of the plug: what sending, picking and releasing keep of the      *)
(* blocks (UsbScheduler), the type of the driver's memory, that no block   *)
(* is lost or sent twice, and that an access is told of a success only by  *)
(* its own command, where nothing of Spoil has happened.                   *)
(*                                                                         *)
(* The tasks call one another deep.  Each is described once, by what it    *)
(* does to a state (Do: which fields it may set, which messages it may     *)
(* send), and the description is composed along the calls; the invariants  *)
(* (Safe for the blocks, Trusted for the answers) are then shown to be     *)
(* kept by whatever is so described.                                       *)
(***************************************************************************)
EXTENDS UsbStorage, WellFoundedInduction, TLAPS

-----------------------------------------------------------------------------
(* The scheduler.                                                          *)

(* A driver's state, of which the scheduler's fields are a part, with      *)
(* messages from M in its queues.                                          *)
State(s, M) ==
  /\ s = [f \in DOMAIN s |-> s[f]]
  /\ {"used", "q", "use", "flag"} \subseteq DOMAIN s
  /\ s.used \subseteq 1 .. BLKMAX /\ s.q \in [Priority -> Seq(M)]

LEMMA Priorities == \A t \in Task : Pri[t] \in Priority
BY DEF Task, Priority, Pri

(* Sending changes one queue, at its end.                                  *)
LEMMA FieldsOfSnd ==
  ASSUME NEW M, NEW s, State(s, M), NEW m \in M, m.id \in Task
  PROVE  LET t == SndMsg(s, m)
         IN  /\ t.used = s.used /\ DOMAIN t = DOMAIN s
             /\ t.q = [s.q EXCEPT ![Pri[m.id]] = Append(@, m)]
             /\ State(t, M)
<1>1. Pri[m.id] \in Priority BY Priorities
<1>2. SndMsg(s, m) = [s EXCEPT !.q = [s.q EXCEPT ![Pri[m.id]] = Append(@, m)]]
  BY DEF SndMsg
<1> DEFINE Q == [s.q EXCEPT ![Pri[m.id]] = Append(@, m)]
<1>3. Q \in [Priority -> Seq(M)]
  BY <1>1 DEF State
<1> HIDE DEF Q
<1>4. /\ [s EXCEPT !.q = Q].used = s.used /\ DOMAIN [s EXCEPT !.q = Q] = DOMAIN s
      /\ [s EXCEPT !.q = Q].q = Q
  BY DEF State
<1>5. [s EXCEPT !.q = Q] = [f \in DOMAIN s |-> [s EXCEPT !.q = Q][f]]
  BY DEF State
<1>6. State([s EXCEPT !.q = Q], M)
  BY <1>3, <1>4, <1>5 DEF State
<1>7. SndMsg(s, m) = [s EXCEPT !.q = Q] BY <1>2 DEF Q
<1> QED BY <1>4, <1>6, <1>7 DEF Q

-----------------------------------------------------------------------------
(* Where the messages of a state are: what is in the queues, slot by slot. *)
LEMMA QueuedBlocks ==
  ASSUME NEW M, NEW s, State(s, M)
  PROVE  /\ \A p \in Priority : \A i \in 1 .. Len(s.q[p]) :
              s.q[p][i].blk # 0 => s.q[p][i].blk \in Blocks(Queued(s))
         /\ \A b \in Blocks(Queued(s)) : b # 0 /\
              \E p \in Priority : \E i \in 1 .. Len(s.q[p]) : b = s.q[p][i].blk
BY DEF Blocks, Queued

LEMMA SndKeepsBlocks ==
  ASSUME NEW M, NEW s, State(s, M), BlocksAreDistinct(s), NEW m \in M, m.id \in Task,
         m.blk # 0 => m.blk \in s.used /\ m.blk \notin Blocks(Queued(s))
  PROVE  BlocksAreDistinct(SndMsg(s, m))
<1> DEFINE t == SndMsg(s, m)
           to == Pri[m.id]
<1>1. to \in Priority BY Priorities
<1>2. /\ t.used = s.used /\ t.q = [s.q EXCEPT ![to] = Append(@, m)] /\ State(t, M)
  BY FieldsOfSnd
<1> HIDE DEF t, to
<1>3. \A p \in Priority : \A i \in 1 .. Len(t.q[p]) :
        \/ i \in 1 .. Len(s.q[p]) /\ t.q[p][i] = s.q[p][i]
        \/ p = to /\ i = Len(s.q[p]) + 1 /\ t.q[p][i] = m
  <2> TAKE p \in Priority
  <2>1. s.q[p] \in Seq(M) /\ s.q \in [Priority -> Seq(M)] BY DEF State
  <2>2. CASE p = to
    <3>1. t.q[p] = Append(s.q[p], m) BY <1>2, <2>1, <2>2
    <3> QED BY <2>1, <2>2, <3>1
  <2>3. CASE p # to
    <3>1. t.q[p] = s.q[p] BY <1>1, <1>2, <2>1, <2>3
    <3> QED BY <3>1
  <2> QED BY <2>2, <2>3
<1>4. Blocks(Queued(t)) \subseteq t.used
  <2> SUFFICES ASSUME NEW b \in Blocks(Queued(t)) PROVE b \in t.used
    OBVIOUS
  <2>0. PICK p \in Priority :
          b # 0 /\ \E i \in 1 .. Len(t.q[p]) : b = t.q[p][i].blk
    <3>1. State(t, M) BY <1>2
    <3>2. \A c \in Blocks(Queued(t)) : c # 0 /\
            \E p \in Priority : \E i \in 1 .. Len(t.q[p]) : c = t.q[p][i].blk
      BY <3>1, QueuedBlocks
    <3> QED BY <3>2, Zenon
  <2>1. PICK i \in 1 .. Len(t.q[p]) : b = t.q[p][i].blk /\ b # 0
    BY <2>0
  <2>2. CASE i \in 1 .. Len(s.q[p]) /\ t.q[p][i] = s.q[p][i]
    BY <1>2, <2>1, <2>2, QueuedBlocks DEF BlocksAreDistinct
  <2>3. CASE t.q[p][i] = m
    BY <1>2, <2>1, <2>3
  <2> QED BY <1>3, <2>2, <2>3
<1>5. ASSUME NEW p \in Priority, NEW r \in Priority,
             NEW i \in 1 .. Len(t.q[p]), NEW j \in 1 .. Len(t.q[r]),
             t.q[p][i].blk = t.q[r][j].blk, t.q[p][i].blk # 0
      PROVE  p = r /\ i = j
  <2>1. CASE /\ i \in 1 .. Len(s.q[p]) /\ t.q[p][i] = s.q[p][i]
             /\ j \in 1 .. Len(s.q[r]) /\ t.q[r][j] = s.q[r][j]
    BY <1>5, <2>1 DEF BlocksAreDistinct
  <2>2. CASE /\ i \in 1 .. Len(s.q[p]) /\ t.q[p][i] = s.q[p][i]
             /\ t.q[r][j] = m
    BY <1>5, <2>2, QueuedBlocks
  <2>3. CASE /\ t.q[p][i] = m
             /\ j \in 1 .. Len(s.q[r]) /\ t.q[r][j] = s.q[r][j]
    BY <1>5, <2>3, QueuedBlocks
  <2>4. CASE /\ p = to /\ i = Len(s.q[p]) + 1 /\ r = to /\ j = Len(s.q[r]) + 1
    BY <2>4
  <2> QED BY <1>3, <2>1, <2>2, <2>3, <2>4
<1> QED BY <1>4, <1>5 DEF BlocksAreDistinct, t

(* Taking a block of the pool, and giving one back.                        *)
LEMMA FieldsOfUsed ==
  ASSUME NEW M, NEW s, State(s, M), NEW used \in SUBSET (1 .. BLKMAX)
  PROVE  LET t == [s EXCEPT !.used = used]
         IN  t.used = used /\ t.q = s.q /\ t.use = s.use /\ State(t, M)
BY DEF State

LEMMA PoolKeepsBlocks ==
  ASSUME NEW M, NEW s, State(s, M), BlocksAreDistinct(s),
         NEW used \in SUBSET (1 .. BLKMAX), Blocks(Queued(s)) \subseteq used
  PROVE  BlocksAreDistinct([s EXCEPT !.used = used])
<1> DEFINE t == [s EXCEPT !.used = used]
<1>1. t.used = used /\ t.q = s.q BY FieldsOfUsed
<1> HIDE DEF t
<1>2. Queued(t) = Queued(s) BY <1>1 DEF Queued
<1>3. BlocksAreDistinct(t) BY <1>1, <1>2 DEF BlocksAreDistinct
<1> QED BY <1>3 DEF t

LEMMA FirstFreeIsFree ==
  ASSUME NEW used \in SUBSET (1 .. BLKMAX), FirstFree[used] # 0
  PROVE  FirstFree[used] \in 1 .. BLKMAX /\ FirstFree[used] \notin used
<1> DEFINE free == (1 .. BLKMAX) \ used
<1>1. free # {} BY DEF FirstFree
<1>2. FirstFree[used] = CHOOSE b \in free : \A c \in free : b <= c
  BY <1>1 DEF FirstFree
<1>3. \E b \in free : \A c \in free : b <= c
  <2> DEFINE R == OpToRel(<, Nat)
  <2>1. free \subseteq Nat
    BY SchedulerAssumption
  <2>2. IsWellFoundedOn(R, Nat) BY NatLessThanWellFounded
  <2>3. R = {r \in Nat \X Nat : r[1] < r[2]} BY DEF OpToRel
  <2> HIDE DEF R
  <2>4. \E b \in free : \A c \in free : <<c, b>> \notin R
    BY <1>1, <2>1, <2>2, WFMin
  <2>5. \A b, c \in Nat : <<c, b>> \notin R => b <= c
    BY <2>3
  <2> HIDE DEF free
  <2> QED BY <2>1, <2>4, <2>5
<1> QED BY <1>2, <1>3

(* PGET_BLK and SND_MSG, as every task sends: the block taken is one that  *)
(* no message has, and the refusal of either changes nothing               *)
(* (usb_cstd_PgetBlk, usb_cstd_SndMsg).                                    *)
THEOREM PostKeepsBlocks ==
  ASSUME NEW M, NEW s, State(s, M), BlocksAreDistinct(s),
         NEW id \in Task, NEW what, NEW arg, NEW drv,
         \A b \in 1 .. BLKMAX : Msg(id, b, what, arg, drv) \in M
  PROVE  LET t == Post(s, id, what, arg, drv)
         IN  State(t, M) /\ BlocksAreDistinct(t)
<1>1. CASE ~CanPost(s, id) BY <1>1 DEF Post
<1>2. CASE CanPost(s, id)
  <2> DEFINE b == PgetBlk(s)
             z == [s EXCEPT !.used = s.used \cup {b}]
             m == Msg(id, b, what, arg, drv)
  <2>1. b \in 1 .. BLKMAX /\ b \notin s.used
    BY <1>2, FirstFreeIsFree DEF CanPost, PgetBlk, State
  <2>2. m \in M /\ m.id = id /\ m.blk = b
    BY <2>1 DEF Msg
  <2>3. Post(s, id, what, arg, drv) = SndMsg(z, m)
    BY <1>2 DEF Post
  <2> HIDE DEF b, m
  <2>4. s.used \cup {b} \in SUBSET (1 .. BLKMAX) /\ Blocks(Queued(s)) \subseteq s.used
    BY <2>1 DEF State, BlocksAreDistinct
  <2>5. z.used = s.used \cup {b} /\ z.q = s.q /\ State(z, M)
    BY <2>4, FieldsOfUsed
  <2>6. BlocksAreDistinct(z)
    BY <2>4, PoolKeepsBlocks
  <2> HIDE DEF z
  <2>7. Queued(z) = Queued(s) BY <2>5 DEF Queued
  <2>8. State(SndMsg(z, m), M) BY <2>2, <2>5, FieldsOfSnd
  <2>9. BlocksAreDistinct(SndMsg(z, m))
    BY <2>1, <2>2, <2>4, <2>5, <2>6, <2>7, SndKeepsBlocks
  <2> QED BY <2>3, <2>8, <2>9
<1> QED BY <1>1, <1>2

(* A message whose block is in no queue any more gives it back without     *)
(* taking it from another (usb_cstd_RelBlk).                               *)
THEOREM RelBlkKeepsBlocks ==
  ASSUME NEW M, NEW s, State(s, M), BlocksAreDistinct(s), NEW m,
         m.blk \notin Blocks(Queued(s))
  PROVE  State(RelBlk(s, m), M) /\ BlocksAreDistinct(RelBlk(s, m))
<1>1. /\ s.used \ {m.blk} \in SUBSET (1 .. BLKMAX)
      /\ Blocks(Queued(s)) \subseteq s.used \ {m.blk}
  BY DEF State, BlocksAreDistinct
<1>2. RelBlk(s, m) = [s EXCEPT !.used = s.used \ {m.blk}]
  BY DEF RelBlk
<1> QED BY <1>1, <1>2, FieldsOfUsed, PoolKeepsBlocks

-----------------------------------------------------------------------------
LEMMA FirstWaitingIsFirst ==
  ASSUME NEW waits \in [Priority -> BOOLEAN], NEW p \in Priority,
         waits[p], \A r \in 1 .. p - 1 : ~waits[r]
  PROVE  FirstWaiting[waits] = p
<1>1. FirstWaiting[waits] =
        CHOOSE n \in Priority : waits[n] /\ \A r \in 1 .. n - 1 : ~waits[r]
  BY DEF FirstWaiting
<1>2. \A n \in Priority : waits[n] /\ (\A r \in 1 .. n - 1 : ~waits[r]) => n = p
  BY DEF Priority
<1> QED BY <1>1, <1>2

(* What usb_cstd_Scheduler makes of a queue that has a message.            *)
Picked(s, p, h) == [s EXCEPT !.use = h, !.q[p] = Tail(@), !.flag = TRUE]

LEMMA FieldsOfPick ==
  ASSUME NEW M, NEW s, State(s, M), NEW p \in Priority, s.q[p] # <<>>, NEW h
  PROVE  LET t == Picked(s, p, h)
         IN  /\ t.used = s.used /\ t.use = h /\ State(t, M)
             /\ t.q = [s.q EXCEPT ![p] = Tail(@)]
<1> DEFINE Q == [s.q EXCEPT ![p] = Tail(@)]
           t == [s EXCEPT !.use = h, !.q = Q, !.flag = TRUE]
<1>1. Picked(s, p, h) = t
  BY DEF State, Picked
<1>2. Q \in [Priority -> Seq(M)]
  BY DEF State
<1> HIDE DEF Q
<1>3. t.used = s.used /\ t.use = h /\ t.q = Q /\ DOMAIN t = DOMAIN s
  BY DEF State
<1>4. t = [f \in DOMAIN t |-> t[f]]
  BY <1>3 DEF State
<1>5. State(t, M)
  BY <1>2, <1>3, <1>4 DEF State
<1> QED BY <1>1, <1>3, <1>5 DEF Q

(* usb_cstd_Scheduler picks the first message of the highest priority that *)
(* has one, and its block is then in no queue, so that the task which      *)
(* receives the message may release it (RelBlkKeepsBlocks).                *)
THEOREM SchedulerPicksFirst ==
  ASSUME NEW M, NEW s, State(s, M), BlocksAreDistinct(s),
         NEW p \in Priority, s.q[p] # <<>>, \A r \in 1 .. p - 1 : s.q[r] = <<>>
  PROVE  LET t == Scheduler(s)
         IN  /\ t.use = Head(s.q[p]) /\ t.used = s.used
             /\ State(t, M) /\ BlocksAreDistinct(t)
             /\ t.use.blk \notin Blocks(Queued(t))
<1> DEFINE h == Head(s.q[p])
           t == Picked(s, p, h)
<1>1. Scheduler(s) = t
  <2> DEFINE waits == [r \in Priority |-> s.q[r] # <<>>]
  <2>1. waits \in [Priority -> BOOLEAN] OBVIOUS
  <2>2. waits[p] /\ \A r \in 1 .. p - 1 : ~waits[r]
    <3>1. \A r \in 1 .. p - 1 : r \in Priority BY DEF Priority
    <3> QED BY <3>1
  <2> HIDE DEF waits
  <2>3. FirstWaiting[waits] = p BY <2>1, <2>2, FirstWaitingIsFirst
  <2>4. p # 0 BY DEF Priority
  <2> QED BY <2>3, <2>4, Zenon DEF Scheduler, Picked, waits
<1>2. /\ t.used = s.used /\ t.use = h /\ State(t, M)
      /\ t.q = [s.q EXCEPT ![p] = Tail(@)]
  BY FieldsOfPick
<1> HIDE DEF t
<1>3. s.q[p] \in Seq(M) /\ Len(s.q[p]) > 0 /\ h = s.q[p][1]
  BY DEF State
<1> HIDE DEF h
<1>4. \A r \in Priority : \A i \in 1 .. Len(t.q[r]) :
        IF r = p THEN i + 1 \in 1 .. Len(s.q[r]) /\ t.q[r][i] = s.q[r][i + 1]
                 ELSE i \in 1 .. Len(s.q[r]) /\ t.q[r][i] = s.q[r][i]
  <2> TAKE r \in Priority
  <2>1. s.q \in [Priority -> Seq(M)] BY DEF State
  <2>2. CASE r = p
    <3>1. t.q[r] = Tail(s.q[p]) BY <1>2, <2>1, <2>2
    <3> QED BY <1>3, <2>2, <3>1
  <2>3. CASE r # p
    <3>1. t.q[r] = s.q[r] BY <1>2, <2>1, <2>3
    <3> QED BY <2>3, <3>1
  <2> QED BY <2>2, <2>3
<1>5. \A b \in Blocks(Queued(t)) : b # 0 /\
        \E r \in Priority : \E i \in 1 .. Len(t.q[r]) : b = t.q[r][i].blk
  BY <1>2, QueuedBlocks
<1>6. Blocks(Queued(t)) \subseteq Blocks(Queued(s))
  <2> SUFFICES ASSUME NEW b \in Blocks(Queued(t)) PROVE b \in Blocks(Queued(s))
    OBVIOUS
  <2>1. PICK r \in Priority : b # 0 /\ \E i \in 1 .. Len(t.q[r]) : b = t.q[r][i].blk
    BY <1>5
  <2>2. PICK i \in 1 .. Len(t.q[r]) : b = t.q[r][i].blk
    BY <2>1
  <2>3. \E j \in 1 .. Len(s.q[r]) : b = s.q[r][j].blk
    BY <1>4, <2>2
  <2> QED BY <2>1, <2>3, QueuedBlocks
<1>7. h.blk \notin Blocks(Queued(t))
  <2> SUFFICES ASSUME h.blk \in Blocks(Queued(t)) PROVE FALSE
    OBVIOUS
  <2>1. PICK r \in Priority :
          h.blk # 0 /\ \E i \in 1 .. Len(t.q[r]) : h.blk = t.q[r][i].blk
    BY <1>5
  <2>2. PICK i \in 1 .. Len(t.q[r]) : h.blk = t.q[r][i].blk
    BY <2>1
  <2>3. PICK j \in 1 .. Len(s.q[r]) : h.blk = s.q[r][j].blk /\ (r = p => j # 1)
    <3>1. CASE r = p
      <4>1. i + 1 \in 1 .. Len(s.q[r]) /\ t.q[r][i] = s.q[r][i + 1] /\ i + 1 # 1
        BY <1>4, <3>1
      <4> QED BY <2>2, <4>1
    <3>2. CASE r # p
      BY <1>4, <2>2, <3>2
    <3> QED BY <3>1, <3>2
  <2>4. 1 \in 1 .. Len(s.q[p]) BY <1>3
  <2> QED BY <1>3, <2>1, <2>3, <2>4 DEF BlocksAreDistinct
<1>8. BlocksAreDistinct(t)
  <2>1. Blocks(Queued(t)) \subseteq t.used
    BY <1>2, <1>6 DEF BlocksAreDistinct
  <2>2. ASSUME NEW q \in Priority, NEW r \in Priority,
               NEW i \in 1 .. Len(t.q[q]), NEW j \in 1 .. Len(t.q[r]),
               t.q[q][i].blk = t.q[r][j].blk, t.q[q][i].blk # 0
        PROVE  q = r /\ i = j
    <3> DEFINE k == IF q = p THEN i + 1 ELSE i
               l == IF r = p THEN j + 1 ELSE j
    <3>1. k \in 1 .. Len(s.q[q]) /\ t.q[q][i] = s.q[q][k]
      BY <1>4
    <3>2. l \in 1 .. Len(s.q[r]) /\ t.q[r][j] = s.q[r][l]
      BY <1>4
    <3> HIDE DEF k, l
    <3>3. q = r /\ k = l
      BY <2>2, <3>1, <3>2 DEF BlocksAreDistinct
    <3> QED BY <3>3 DEF k, l
  <2> QED BY <2>1, <2>2 DEF BlocksAreDistinct
<1> QED BY <1>1, <1>2, <1>7, <1>8 DEF t, h

-----------------------------------------------------------------------------
(* The memory and its fields.                                              *)

(* The words that occur in the driver's memory and in its messages.        *)
Word ==
  {"none", "submit", "end", "attch", "dtch", "seq", "clr_stall", "clr_result",
   "attach", "detach", "NO_DATA", "DATA_IN", "DATA_OUT", "DATA_STALL", "CBW_ERR",
   "PHASE_ERR", "unknown", "SEARCH", "PARTITION", "NONE", "open", "mount", "OK",
   "NG", "PHASE", "STALL", "DATA_OK", "ERR", "CSW_ERR", "ctl", "out", "in",
   "check2", "check_result", "zero", "max", "bulk", "lun", "clear", "reset",
   "main", "irq", "search", "sense", "idle", "enum", "data", "cbw", "csw"}

LEMMA Words ==
  /\ "none" \in Word /\ "submit" \in Word /\ "end" \in Word /\ "attch" \in Word
  /\ "dtch" \in Word /\ "seq" \in Word /\ "clr_stall" \in Word
  /\ "clr_result" \in Word /\ "attach" \in Word /\ "detach" \in Word
  /\ "NO_DATA" \in Word /\ "DATA_IN" \in Word /\ "DATA_OUT" \in Word
  /\ "DATA_STALL" \in Word /\ "CBW_ERR" \in Word /\ "PHASE_ERR" \in Word
  /\ "unknown" \in Word /\ "SEARCH" \in Word /\ "PARTITION" \in Word
  /\ "NONE" \in Word /\ "open" \in Word /\ "mount" \in Word /\ "OK" \in Word
  /\ "NG" \in Word /\ "PHASE" \in Word /\ "STALL" \in Word /\ "DATA_OK" \in Word
  /\ "ERR" \in Word /\ "CSW_ERR" \in Word /\ "ctl" \in Word /\ "out" \in Word
  /\ "in" \in Word /\ "check2" \in Word /\ "check_result" \in Word
  /\ "zero" \in Word /\ "max" \in Word /\ "bulk" \in Word /\ "lun" \in Word
  /\ "clear" \in Word /\ "reset" \in Word /\ "main" \in Word /\ "irq" \in Word
  /\ "search" \in Word /\ "sense" \in Word /\ "idle" \in Word /\ "enum" \in Word
  /\ "data" \in Word /\ "cbw" \in Word /\ "csw" \in Word
BY DEF Word

(* The messages that are sent: those without a block are the requests for  *)
(* a transfer and what the interrupts send.                                *)
Direct == {"submit", "end", "attch", "dtch"}
Messages ==
  {m \in [id : Task, blk : 0 .. BLKMAX, what : Word, arg : Word, drv : Word] :
     /\ m.blk = 0 <=> m.id = "HCD" /\ m.what \in Direct
     /\ m.id = "HCD" =>
          /\ m.what \in Direct \cup {"seq", "clr_stall", "clr_result"}
          /\ m.what = "submit" =>
               m.arg \in {"out", "in"} \/ (m.arg = "ctl" /\ m.drv \in {"lun", "clear", "reset"})
          /\ m.what = "end" => m.drv \in Pipe
     /\ m.id = "MGR" => m.what \in {"attach", "detach", "submit"}}

Counters ==
  {f \in [Process \cup {"DATA_STALL", "STALL_ERR"} -> 0 .. 6] :
     f["NO_DATA"] <= 4 /\ f["DATA_STALL"] <= 3 /\ f["STALL_ERR"] <= 3}
Pipes ==
  {f \in [Pipe -> Word] :
     /\ f["ctl"] \in {"idle", "enum", "lun", "clear", "reset"}
     /\ f["out"] \in {"idle", "data", "cbw", "csw"}
     /\ f["in"] \in {"idle", "data", "cbw", "csw"}}

(* The driver's memory, field by field.                                    *)
Kinds ==
  [used |-> SUBSET (1 .. BLKMAX), q |-> [Priority -> Seq(Messages)], flag |-> BOOLEAN,
   use |-> Messages \cup {Msg("none", 0, "none", "none", "none")},
   pipe |-> Pipes, ended |-> SUBSET Pipe, conn |-> BOOLEAN,
   mode |-> {"DETACHED", "DEFAULT", "CONFIGURED"}, ep |-> BOOLEAN, plug |-> BOOLEAN,
   ints |-> {"none", "attch", "dtch"}, stall |-> Word, halt |-> BOOLEAN,
   process |-> Word, seq |-> Counters, root |-> Word, chk |-> SUBSET {"zero", "max"},
   roop |-> BOOLEAN, buf |-> [{"out", "in"} -> {"data", "cbw", "csw"}], by |-> Word,
   bumped |-> BOOLEAN, dev |-> [cur : BOOLEAN, by : Word],
   csw |-> [cur : BOOLEAN, st : Word], proof |-> Word, phase |-> BOOLEAN,
   strg |-> {"NONE", "SEARCH", "PARTITION"}, sseq |-> 0 .. 9, pseq |-> 0 .. 1,
   errs |-> 0 .. 2, loops |-> 0 .. RETRIES - 1, ready |-> BOOLEAN, att |-> BOOLEAN,
   mounted |-> BOOLEAN]
Fields == DOMAIN Kinds
Typed(s) == s = [f \in Fields |-> s[f]] /\ \A f \in Fields : s[f] \in Kinds[f]

(* t is s but for some fields.                                             *)
Same(s, t, F) == \A f \in Fields \ F : t[f] = s[f]

LEMMA FieldSet ==
  Fields =
    {"used", "q", "flag", "use", "pipe", "ended", "conn", "mode", "ep", "plug",
     "ints", "stall", "halt", "process", "seq", "root", "chk", "roop", "buf", "by",
     "bumped", "dev", "csw", "proof", "phase", "strg", "sseq", "pseq", "errs",
     "loops", "ready", "att", "mounted"}
BY DEF Fields, Kinds

LEMMA IsField ==
  /\ "used" \in Fields /\ "q" \in Fields /\ "flag" \in Fields /\ "use" \in Fields
  /\ "pipe" \in Fields /\ "ended" \in Fields /\ "conn" \in Fields
  /\ "mode" \in Fields /\ "ep" \in Fields /\ "plug" \in Fields /\ "ints" \in Fields
  /\ "stall" \in Fields /\ "halt" \in Fields /\ "process" \in Fields
  /\ "seq" \in Fields /\ "root" \in Fields /\ "chk" \in Fields /\ "roop" \in Fields
  /\ "buf" \in Fields /\ "by" \in Fields /\ "bumped" \in Fields /\ "dev" \in Fields
  /\ "csw" \in Fields /\ "proof" \in Fields /\ "phase" \in Fields
  /\ "strg" \in Fields /\ "sseq" \in Fields /\ "pseq" \in Fields
  /\ "errs" \in Fields /\ "loops" \in Fields /\ "ready" \in Fields
  /\ "att" \in Fields /\ "mounted" \in Fields
BY FieldSet

(* The fields that are not the scheduler's pool and queues.                *)
Plain == Fields \ {"used", "q"}

LEMMA IsPlain ==
  /\ "flag" \in Plain /\ "use" \in Plain
  /\ "pipe" \in Plain /\ "ended" \in Plain /\ "conn" \in Plain
  /\ "mode" \in Plain /\ "ep" \in Plain /\ "plug" \in Plain /\ "ints" \in Plain
  /\ "stall" \in Plain /\ "halt" \in Plain /\ "process" \in Plain
  /\ "seq" \in Plain /\ "root" \in Plain /\ "chk" \in Plain /\ "roop" \in Plain
  /\ "buf" \in Plain /\ "by" \in Plain /\ "bumped" \in Plain /\ "dev" \in Plain
  /\ "csw" \in Plain /\ "proof" \in Plain /\ "phase" \in Plain
  /\ "strg" \in Plain /\ "sseq" \in Plain /\ "pseq" \in Plain
  /\ "errs" \in Plain /\ "loops" \in Plain /\ "ready" \in Plain
  /\ "att" \in Plain /\ "mounted" \in Plain
BY FieldSet DEF Plain

LEMMA KindOf ==
  /\ Kinds.used = SUBSET (1 .. BLKMAX) /\ Kinds.q = [Priority -> Seq(Messages)]
  /\ Kinds.flag = BOOLEAN
  /\ Kinds.use = Messages \cup {Msg("none", 0, "none", "none", "none")}
  /\ Kinds.pipe = Pipes /\ Kinds.ended = SUBSET Pipe /\ Kinds.conn = BOOLEAN
  /\ Kinds.mode = {"DETACHED", "DEFAULT", "CONFIGURED"} /\ Kinds.ep = BOOLEAN
  /\ Kinds.plug = BOOLEAN /\ Kinds.ints = {"none", "attch", "dtch"}
  /\ Kinds.stall = Word /\ Kinds.halt = BOOLEAN /\ Kinds.process = Word
  /\ Kinds.seq = Counters /\ Kinds.root = Word /\ Kinds.chk = SUBSET {"zero", "max"}
  /\ Kinds.roop = BOOLEAN /\ Kinds.buf = [{"out", "in"} -> {"data", "cbw", "csw"}]
  /\ Kinds.by = Word /\ Kinds.bumped = BOOLEAN
  /\ Kinds.dev = [cur : BOOLEAN, by : Word] /\ Kinds.csw = [cur : BOOLEAN, st : Word]
  /\ Kinds.proof = Word /\ Kinds.phase = BOOLEAN
  /\ Kinds.strg = {"NONE", "SEARCH", "PARTITION"} /\ Kinds.sseq = 0 .. 9
  /\ Kinds.pseq = 0 .. 1 /\ Kinds.errs = 0 .. 2 /\ Kinds.loops = 0 .. RETRIES - 1
  /\ Kinds.ready = BOOLEAN /\ Kinds.att = BOOLEAN /\ Kinds.mounted = BOOLEAN
BY DEF Kinds

(* One field set.                                                          *)
LEMMA Upd ==
  ASSUME NEW s, Typed(s), NEW f \in Fields, NEW v \in Kinds[f]
  PROVE  LET t == [s EXCEPT ![f] = v]
         IN  Typed(t) /\ t[f] = v /\ Same(s, t, {f})
BY DEF Typed, Same

LEMMA TypedFields ==
  ASSUME NEW s, Typed(s)
  PROVE  /\ s.used \in SUBSET (1 .. BLKMAX) /\ s.q \in [Priority -> Seq(Messages)]
         /\ s.flag \in BOOLEAN
         /\ s.use \in Messages \cup {Msg("none", 0, "none", "none", "none")}
         /\ s.pipe \in Pipes /\ s.ended \in SUBSET Pipe /\ s.conn \in BOOLEAN
         /\ s.mode \in {"DETACHED", "DEFAULT", "CONFIGURED"} /\ s.ep \in BOOLEAN
         /\ s.plug \in BOOLEAN /\ s.ints \in {"none", "attch", "dtch"}
         /\ s.stall \in Word /\ s.halt \in BOOLEAN /\ s.process \in Word
         /\ s.seq \in Counters /\ s.root \in Word /\ s.chk \in SUBSET {"zero", "max"}
         /\ s.roop \in BOOLEAN /\ s.buf \in [{"out", "in"} -> {"data", "cbw", "csw"}]
         /\ s.by \in Word /\ s.bumped \in BOOLEAN
         /\ s.dev \in [cur : BOOLEAN, by : Word] /\ s.csw \in [cur : BOOLEAN, st : Word]
         /\ s.proof \in Word /\ s.phase \in BOOLEAN
         /\ s.strg \in {"NONE", "SEARCH", "PARTITION"} /\ s.sseq \in 0 .. 9
         /\ s.pseq \in 0 .. 1 /\ s.errs \in 0 .. 2 /\ s.loops \in 0 .. RETRIES - 1
         /\ s.ready \in BOOLEAN /\ s.att \in BOOLEAN /\ s.mounted \in BOOLEAN
BY IsField, KindOf DEF Typed

-----------------------------------------------------------------------------
(* Blocks and messages.                                                    *)

(* The messages by which work goes on: all but those of the interrupts and *)
(* those that announce a change of the line or set a toggle.               *)
IsWork(m) ==
  \/ m.id \in {"HMSC", "HSTRG", "HMSCSMP"}
  \/ m.id = "MGR" /\ m.what = "submit"
  \/ m.id = "HCD" /\ m.what \in {"submit", "clr_stall", "clr_result"}
NoMsg(s) == \A m \in Queued(s) : ~IsWork(m)
OneMsg(s) ==
  \A p, r \in Priority : \A i \in 1 .. Len(s.q[p]), j \in 1 .. Len(s.q[r]) :
    IsWork(s.q[p][i]) /\ IsWork(s.q[r][j]) => p = r /\ i = j

(* Every block in use is in one slot of the queues, but for b, which is in *)
(* none (0: there is no such block).                                       *)
Acc(s, b) ==
  /\ BlocksAreDistinct(s)
  /\ s.used \subseteq Blocks(Queued(s)) \cup {b}
  /\ b # 0 => b \in s.used \ Blocks(Queued(s))

LEMMA IsState == ASSUME NEW s, Typed(s) PROVE State(s, Messages)
<1>1. s.used \in SUBSET (1 .. BLKMAX) /\ s.q \in [Priority -> Seq(Messages)]
  BY TypedFields
<1>2. s = [f \in Fields |-> s[f]] BY DEF Typed
<1>3. DOMAIN s = Fields BY <1>2
<1> QED BY <1>1, <1>2, <1>3, IsField DEF State

LEMMA QueuedMessages ==
  ASSUME NEW s, Typed(s)
  PROVE  /\ Queued(s) \subseteq Messages
         /\ \A p \in Priority : \A i \in 1 .. Len(s.q[p]) : s.q[p][i] \in Queued(s)
         /\ \A m \in Queued(s) : \E p \in Priority : \E i \in 1 .. Len(s.q[p]) : m = s.q[p][i]
<1>1. s.q \in [Priority -> Seq(Messages)] BY TypedFields
<1> QED BY <1>1 DEF Queued

LEMMA SameQueues ==
  ASSUME NEW s, NEW t, t.q = s.q
  PROVE  Queued(t) = Queued(s) /\ NoMsg(t) = NoMsg(s) /\ OneMsg(t) = OneMsg(s)
BY DEF Queued, NoMsg, OneMsg

LEMMA SameBlocks ==
  ASSUME NEW s, NEW t, t.q = s.q, t.used = s.used, NEW b
  PROVE  Acc(t, b) = Acc(s, b)
<1>1. Queued(t) = Queued(s) BY SameQueues
<1> QED BY <1>1 DEF Acc, BlocksAreDistinct

(* A message at the end of its queue.                                      *)
LEMMA Snd ==
  ASSUME NEW s, Typed(s), NEW m \in Messages
  PROVE  LET t == SndMsg(s, m)
         IN  /\ Typed(t) /\ Same(s, t, {"q"})
             /\ Queued(t) = Queued(s) \cup {m}
             /\ NoMsg(s) => OneMsg(t)
             /\ ~IsWork(m) /\ OneMsg(s) => OneMsg(t)
<1> DEFINE t == SndMsg(s, m)
           to == Pri[m.id]
           Q == [s.q EXCEPT ![to] = Append(@, m)]
<1>0. to \in Priority
  BY Priorities DEF Messages
<1>1. s.q \in [Priority -> Seq(Messages)] BY TypedFields
<1>2. Q \in [Priority -> Seq(Messages)] BY <1>0, <1>1
<1>3. t = [s EXCEPT !.q = Q] BY DEF SndMsg
<1>4. Typed(t) /\ t.q = Q /\ Same(s, t, {"q"})
  <2> HIDE DEF Q, t
  <2>1. LET v == [s EXCEPT !.q = Q] IN Typed(v) /\ v.q = Q /\ Same(s, v, {"q"})
    BY <1>2, Upd, IsField, KindOf
  <2> QED BY <1>3, <2>1
<1> HIDE DEF t, to
<1>5. \A p \in Priority : \A i \in 1 .. Len(t.q[p]) :
        \/ i \in 1 .. Len(s.q[p]) /\ t.q[p][i] = s.q[p][i]
        \/ p = to /\ i = Len(s.q[p]) + 1 /\ t.q[p][i] = m
  <2> TAKE p \in Priority
  <2>1. s.q[p] \in Seq(Messages) BY <1>1
  <2>2. CASE p = to
    <3>1. t.q[p] = Append(s.q[p], m) BY <1>1, <1>4, <2>2
    <3> QED BY <2>1, <2>2, <3>1
  <2>3. CASE p # to
    <3>1. t.q[p] = s.q[p] BY <1>0, <1>1, <1>4, <2>3
    <3> QED BY <3>1
  <2> QED BY <2>2, <2>3
<1>6. \A p \in Priority : \A i \in 1 .. Len(s.q[p]) :
        i \in 1 .. Len(t.q[p]) /\ t.q[p][i] = s.q[p][i]
  <2> TAKE p \in Priority
  <2>1. s.q[p] \in Seq(Messages) BY <1>1
  <2>2. CASE p = to
    <3>1. t.q[p] = Append(s.q[p], m) BY <1>1, <1>4, <2>2
    <3> QED BY <2>1, <2>2, <3>1
  <2>3. CASE p # to
    <3>1. t.q[p] = s.q[p] BY <1>0, <1>1, <1>4, <2>3
    <3> QED BY <3>1
  <2> QED BY <2>2, <2>3
<1>7. Len(s.q[to]) + 1 \in 1 .. Len(t.q[to]) /\ t.q[to][Len(s.q[to]) + 1] = m
  <2>1. s.q[to] \in Seq(Messages) BY <1>0, <1>1
  <2>2. t.q[to] = Append(s.q[to], m) BY <1>0, <1>1, <1>4
  <2> QED BY <2>1, <2>2
<1>8. Queued(t) = Queued(s) \cup {m}
  <2>1. ASSUME NEW n \in Queued(t) PROVE n \in Queued(s) \cup {m}
    <3>0. \A k \in Queued(t) : \E p \in Priority : \E i \in 1 .. Len(t.q[p]) : k = t.q[p][i]
      BY <1>4, QueuedMessages
    <3>1. PICK p \in Priority : \E i \in 1 .. Len(t.q[p]) : n = t.q[p][i]
      BY <3>0
    <3>2. PICK i \in 1 .. Len(t.q[p]) : n = t.q[p][i] BY <3>1
    <3> QED BY <1>5, <3>2, QueuedMessages
  <2>2. ASSUME NEW n \in Queued(s) PROVE n \in Queued(t)
    <3>1. PICK p \in Priority : \E i \in 1 .. Len(s.q[p]) : n = s.q[p][i]
      BY QueuedMessages
    <3>2. PICK i \in 1 .. Len(s.q[p]) : n = s.q[p][i] BY <3>1
    <3>3. i \in 1 .. Len(t.q[p]) /\ t.q[p][i] = n BY <1>6, <3>2
    <3> QED BY <1>4, <3>3, QueuedMessages
  <2>3. m \in Queued(t) BY <1>0, <1>4, <1>7, QueuedMessages
  <2> QED BY <2>1, <2>2, <2>3
<1>9. NoMsg(s) => OneMsg(t)
  <2> SUFFICES ASSUME NoMsg(s),
                      NEW p \in Priority, NEW r \in Priority,
                      NEW i \in 1 .. Len(t.q[p]), NEW j \in 1 .. Len(t.q[r]),
                      IsWork(t.q[p][i]), IsWork(t.q[r][j])
               PROVE  p = r /\ i = j
    BY DEF OneMsg
  <2>1. ~(i \in 1 .. Len(s.q[p]) /\ t.q[p][i] = s.q[p][i])
    BY QueuedMessages DEF NoMsg
  <2>2. ~(j \in 1 .. Len(s.q[r]) /\ t.q[r][j] = s.q[r][j])
    BY QueuedMessages DEF NoMsg
  <2>3. p = to /\ i = Len(s.q[p]) + 1 /\ r = to /\ j = Len(s.q[r]) + 1
    BY <1>5, <2>1, <2>2
  <2> QED BY <2>3
<1>10. ~IsWork(m) /\ OneMsg(s) => OneMsg(t)
  <2> SUFFICES ASSUME ~IsWork(m), OneMsg(s),
                      NEW p \in Priority, NEW r \in Priority,
                      NEW i \in 1 .. Len(t.q[p]), NEW j \in 1 .. Len(t.q[r]),
                      IsWork(t.q[p][i]), IsWork(t.q[r][j])
               PROVE  p = r /\ i = j
    BY DEF OneMsg
  <2>1. i \in 1 .. Len(s.q[p]) /\ t.q[p][i] = s.q[p][i]
    BY <1>5
  <2>2. j \in 1 .. Len(s.q[r]) /\ t.q[r][j] = s.q[r][j]
    BY <1>5
  <2> QED BY <2>1, <2>2 DEF OneMsg
<1> QED BY <1>4, <1>8, <1>9, <1>10 DEF t

LEMMA BlocksOfOneMore ==
  ASSUME NEW ms, NEW m
  PROVE  Blocks(ms \cup {m}) = Blocks(ms) \cup (IF m.blk = 0 THEN {} ELSE {m.blk})
BY DEF Blocks

LEMMA MessageFields ==
  ASSUME NEW m \in Messages
  PROVE  m.id \in Task /\ m.blk \in 0 .. BLKMAX
BY DEF Messages

(* A message without a block, or with the one in nobody's queue.           *)
LEMMA SndAcc ==
  ASSUME NEW s, Typed(s), NEW m \in Messages, NEW b, Acc(s, b),
         m.blk = 0 \/ m.blk = b
  PROVE  Acc(SndMsg(s, m), IF m.blk = 0 THEN b ELSE 0)
<1> DEFINE t == SndMsg(s, m)
<1>1. t.used = s.used /\ Queued(t) = Queued(s) \cup {m}
  BY Snd, IsField DEF Same
<1>2. m.id \in Task /\ State(s, Messages) /\ BlocksAreDistinct(s)
  BY MessageFields, IsState DEF Acc
<1>3. m.blk # 0 => m.blk \in s.used /\ m.blk \notin Blocks(Queued(s))
  BY DEF Acc
<1>4. BlocksAreDistinct(t)
  BY <1>2, <1>3, SndKeepsBlocks
<1>5. Blocks(Queued(t)) = Blocks(Queued(s)) \cup (IF m.blk = 0 THEN {} ELSE {m.blk})
  BY <1>1, BlocksOfOneMore
<1> HIDE DEF t
<1>6. Acc(t, IF m.blk = 0 THEN b ELSE 0)
  BY <1>1, <1>4, <1>5 DEF Acc
<1> QED BY <1>6 DEF t

Blk == 0 .. BLKMAX

(* t is s with some of the fields F set, and messages of N sent: all, some *)
(* or none; Do: and at most one by which work goes on.                     *)
Done(s, t, F, N) ==
  /\ Typed(t) /\ Same(s, t, F \cup {"used", "q"})
  /\ Queued(s) \subseteq Queued(t) /\ Queued(t) \subseteq Queued(s) \cup N
  /\ \A b \in Blk : Acc(s, b) => Acc(t, b)
Idly(N) == \A n \in N : ~IsWork(n)
Do(s, t, F, N) ==
  /\ Done(s, t, F, N)
  /\ NoMsg(s) => OneMsg(t)
  /\ Idly(N) /\ OneMsg(s) => OneMsg(t)

LEMMA DoIdly ==
  ASSUME NEW s, NEW t, NEW F, NEW N, Do(s, t, F, N), Idly(N)
  PROVE  (NoMsg(s) => NoMsg(t)) /\ (OneMsg(s) => OneMsg(t))
BY DEF Do, Done, Idly, NoMsg

LEMMA DoneMore ==
  ASSUME NEW s, NEW t, NEW F, NEW N, Done(s, t, F, N),
         NEW H, F \subseteq H, NEW K, N \subseteq K
  PROVE  Done(s, t, H, K)
BY DEF Done, Same

LEMMA DoneThen ==
  ASSUME NEW s, NEW t, NEW v, NEW F, NEW G, NEW N, NEW M,
         Done(s, t, F, N), Done(t, v, G, M),
         NEW H, F \subseteq H, G \subseteq H, NEW K, N \subseteq K, M \subseteq K
  PROVE  Done(s, v, H, K)
<1>1. Typed(v) /\ Same(s, v, H \cup {"used", "q"})
  BY DEF Done, Same
<1>2. Queued(s) \subseteq Queued(v) /\ Queued(v) \subseteq Queued(s) \cup K
  BY DEF Done
<1>3. \A b \in Blk : Acc(s, b) => Acc(v, b)
  BY DEF Done
<1> QED BY <1>1, <1>2, <1>3 DEF Done

LEMMA DoMore ==
  ASSUME NEW s, NEW t, NEW F, NEW N, Do(s, t, F, N),
         NEW H, F \subseteq H, NEW K, N \subseteq K
  PROVE  Do(s, t, H, K)
<1>1. Done(s, t, H, K) BY DoneMore DEF Do
<1>2. Idly(K) => Idly(N) BY DEF Idly
<1> QED BY <1>1, <1>2 DEF Do

LEMMA DoThen ==
  ASSUME NEW s, NEW t, NEW v, NEW F, NEW G, NEW N, NEW M,
         Do(s, t, F, N), Do(t, v, G, M), Idly(N) \/ Idly(M),
         NEW H, F \subseteq H, G \subseteq H, NEW K, N \subseteq K, M \subseteq K
  PROVE  Do(s, v, H, K)
<1>1. Done(s, v, H, K) BY DoneThen DEF Do
<1>2. NoMsg(s) => OneMsg(v) BY DoIdly DEF Do
<1>3. Idly(K) => Idly(N) /\ Idly(M) BY DEF Idly
<1>4. Idly(K) /\ OneMsg(s) => OneMsg(v) BY <1>3, DoIdly
<1> QED BY <1>1, <1>2, <1>4 DEF Do

(* One of the two sends nothing.                                           *)
LEMMA SetThenDo ==
  ASSUME NEW s, NEW t, NEW v, NEW F, NEW G, NEW N, Do(s, t, F, {}), Do(t, v, G, N),
         NEW H, F \subseteq H, G \subseteq H
  PROVE  Do(s, v, H, N)
<1>1. Idly({}) BY DEF Idly
<1> QED BY <1>1, DoThen

LEMMA DoThenSet ==
  ASSUME NEW s, NEW t, NEW v, NEW F, NEW G, NEW N, Do(s, t, F, N), Do(t, v, G, {}),
         NEW H, F \subseteq H, G \subseteq H
  PROVE  Do(s, v, H, N)
<1>1. Idly({}) BY DEF Idly
<1> QED BY <1>1, DoThen

LEMMA NoMsgOneMsg == ASSUME NEW s, Typed(s), NoMsg(s) PROVE OneMsg(s)
BY QueuedMessages DEF NoMsg, OneMsg

LEMMA DoNothing == ASSUME NEW s, Typed(s) PROVE Do(s, s, {}, {})
BY NoMsgOneMsg DEF Do, Done, Same

(* Fields set.                                                             *)
Sets(s, t, f, v) == Do(s, t, {f}, {}) /\ t[f] = v
Sets2(s, t, f, v, g, w) == Do(s, t, {f, g}, {}) /\ t[f] = v /\ t[g] = w

LEMMA Set1 ==
  ASSUME NEW s, Typed(s), NEW f \in Plain, NEW v \in Kinds[f]
  PROVE  Sets(s, [s EXCEPT ![f] = v], f, v)
<1> DEFINE t == [s EXCEPT ![f] = v]
<1>0. f \in Fields /\ f # "used" /\ f # "q" BY DEF Plain
<1>1. Typed(t) /\ t[f] = v /\ Same(s, t, {f}) BY <1>0, Upd
<1> HIDE DEF t
<1>2. t.q = s.q /\ t.used = s.used BY <1>0, <1>1, IsField DEF Same
<1>3. Queued(t) = Queued(s) /\ NoMsg(t) = NoMsg(s) /\ OneMsg(t) = OneMsg(s)
  BY <1>2, SameQueues
<1>4. \A b \in Blk : Acc(t, b) = Acc(s, b) BY <1>2, SameBlocks
<1>5. Same(s, t, {f} \cup {"used", "q"}) BY <1>1 DEF Same
<1>6. NoMsg(s) => OneMsg(s) BY NoMsgOneMsg
<1>7. Do(s, t, {f}, {}) BY <1>1, <1>3, <1>4, <1>5, <1>6 DEF Do, Done
<1> QED BY <1>1, <1>7 DEF t, Sets

LEMMA Set2 ==
  ASSUME NEW s, Typed(s), NEW f \in Plain, NEW v \in Kinds[f],
         NEW g \in Plain, NEW w \in Kinds[g], f # g
  PROVE  Sets2(s, [s EXCEPT ![f] = v, ![g] = w], f, v, g, w)
<1> DEFINE a == [s EXCEPT ![f] = v]
           b == [a EXCEPT ![g] = w]
<1>0. [s EXCEPT ![f] = v, ![g] = w] = b OBVIOUS
<1>1. Sets(s, a, f, v) BY Set1
<1> HIDE DEF a
<1>2. Typed(a) BY <1>1 DEF Do, Done, Sets
<1>3. Sets(a, b, g, w) BY <1>2, Set1
<1> HIDE DEF b
<1>4. b[f] = v
  <2>1. f \in Fields \ ({g} \cup {"used", "q"}) BY DEF Plain
  <2> QED BY <1>1, <1>3, <2>1 DEF Do, Done, Same, Sets
<1>5. Do(s, b, {f, g}, {}) BY <1>1, <1>3, SetThenDo DEF Sets
<1> QED BY <1>0, <1>3, <1>4, <1>5 DEF Sets, Sets2

(* What is not set stays.                                                  *)
LEMMA Stays ==
  ASSUME NEW s, NEW t, NEW F, NEW N, Done(s, t, F, N), NEW f \in Plain, f \notin F
  PROVE  t[f] = s[f]
BY DEF Done, Same, Plain

LEMMA DoTyped ==
  ASSUME NEW s, NEW t, NEW F, NEW N, Do(s, t, F, N)
  PROVE  Done(s, t, F, N) /\ Typed(t)
BY DEF Do, Done

Some(id, what, arg, drv) == {Msg(id, b, what, arg, drv) : b \in 1 .. BLKMAX}

LEMMA DoPost ==
  ASSUME NEW s, Typed(s), NEW id, NEW what, NEW arg, NEW drv,
         Some(id, what, arg, drv) \subseteq Messages
  PROVE  Do(s, Post(s, id, what, arg, drv), {}, Some(id, what, arg, drv))
<1> DEFINE N == Some(id, what, arg, drv)
           t == Post(s, id, what, arg, drv)
<1>0. Do(s, s, {}, {}) BY DoNothing
<1>1. CASE ~CanPost(s, id)
  <2>1. t = s BY <1>1 DEF Post
  <2>2. Do(s, s, {}, N) BY <1>0, DoMore
  <2> QED BY <2>1, <2>2
<1>2. CASE CanPost(s, id)
  <2> DEFINE c == PgetBlk(s)
             U == s.used \cup {c}
             v == [s EXCEPT !.used = U]
             m == Msg(id, c, what, arg, drv)
  <2>0. s.used \in SUBSET (1 .. BLKMAX) BY TypedFields
  <2>1. c \in 1 .. BLKMAX /\ c \notin s.used
    BY <1>2, <2>0, FirstFreeIsFree DEF CanPost, PgetBlk
  <2>2. m \in N /\ m \in Messages /\ m.blk = c
    BY <2>1 DEF Some, Msg
  <2>3. t = SndMsg(v, m) BY <1>2 DEF Post
  <2>4. U \in SUBSET (1 .. BLKMAX) BY <2>0, <2>1
  <2> HIDE DEF c, m, U
  <2>5. Typed(v) /\ v.used = U /\ Same(s, v, {"used"})
    BY <2>4, Upd, IsField, KindOf
  <2> HIDE DEF v
  <2>6. v.q = s.q BY <2>5, IsField DEF Same
  <2>7. Queued(v) = Queued(s) /\ NoMsg(v) = NoMsg(s) /\ OneMsg(v) = OneMsg(s)
    BY <2>6, SameQueues
  <2>8. /\ Typed(t) /\ Same(v, t, {"q"}) /\ Queued(t) = Queued(v) \cup {m}
        /\ NoMsg(v) => OneMsg(t)
        /\ ~IsWork(m) /\ OneMsg(v) => OneMsg(t)
    <3> HIDE DEF t
    <3> QED BY <2>2, <2>3, <2>5, Snd
  <2>9. Same(s, t, {} \cup {"used", "q"})
    BY <2>5, <2>8 DEF Same
  <2>10. ASSUME NEW b \in Blk, Acc(s, b) PROVE Acc(t, b)
    <3>1. BlocksAreDistinct(s) /\ Blocks(Queued(s)) \subseteq U
      BY <2>10 DEF Acc, BlocksAreDistinct, U
    <3>2. BlocksAreDistinct(v)
      BY <2>4, <3>1, IsState, PoolKeepsBlocks DEF v
    <3>3. State(v, Messages) /\ m.id \in Task
      BY <2>2, <2>5, IsState, MessageFields
    <3>4. m.blk \in v.used /\ m.blk \notin Blocks(Queued(v))
      BY <2>1, <2>2, <2>5, <2>7, <3>1, <2>10 DEF U, BlocksAreDistinct
    <3>5. BlocksAreDistinct(t)
      BY <2>2, <2>3, <3>2, <3>3, <3>4, SndKeepsBlocks
    <3>6. Blocks(Queued(t)) = Blocks(Queued(s)) \cup {c}
      <4>1. c # 0 BY <2>1
      <4> QED BY <2>2, <2>7, <2>8, <4>1, BlocksOfOneMore
    <3>7. t.used = s.used \cup {c}
      BY <2>5, <2>8, IsField DEF Same, U
    <3> HIDE DEF t
    <3> QED BY <2>1, <2>10, <3>5, <3>6, <3>7 DEF Acc
  <2> HIDE DEF t, N
  <2>11. Idly(N) /\ OneMsg(s) => OneMsg(t)
    BY <2>2, <2>7, <2>8 DEF Idly
  <2>12. Do(s, t, {}, N)
    BY <2>2, <2>7, <2>8, <2>9, <2>10, <2>11 DEF Do, Done
  <2> QED BY <2>12 DEF t, N
<1> QED BY <1>1, <1>2

(* A message of the sender's own memory.                                   *)
LEMMA DoSnd ==
  ASSUME NEW s, Typed(s), NEW m \in Messages, m.blk = 0
  PROVE  Do(s, SndMsg(s, m), {}, {m})
<1> DEFINE t == SndMsg(s, m)
<1>1. /\ Typed(t) /\ Same(s, t, {"q"}) /\ Queued(t) = Queued(s) \cup {m}
      /\ NoMsg(s) => OneMsg(t)
      /\ ~IsWork(m) /\ OneMsg(s) => OneMsg(t)
  BY Snd
<1>2. \A b \in Blk : Acc(s, b) => Acc(t, b)
  BY SndAcc
<1> HIDE DEF t
<1>3. Same(s, t, {} \cup {"used", "q"}) BY <1>1 DEF Same
<1>4. Do(s, t, {}, {m}) BY <1>1, <1>2, <1>3 DEF Do, Done, Idly
<1> QED BY <1>4 DEF t

(* The block of a message that is done with.                               *)
LEMMA Released ==
  ASSUME NEW s, Typed(s), NEW m
  PROVE  LET t == RelBlk(s, m)
         IN  /\ Typed(t) /\ Same(s, t, {"used"}) /\ t.used = s.used \ {m.blk}
             /\ Queued(t) = Queued(s) /\ NoMsg(t) = NoMsg(s) /\ OneMsg(t) = OneMsg(s)
             /\ Acc(s, m.blk) => Acc(t, 0)
<1> DEFINE t == RelBlk(s, m)
           U == s.used \ {m.blk}
<1>1. t = [s EXCEPT !.used = U] BY DEF RelBlk
<1>2. U \in SUBSET (1 .. BLKMAX) BY TypedFields
<1>3. Typed(t) /\ t.used = U /\ Same(s, t, {"used"})
  <2> HIDE DEF U, t
  <2>1. LET v == [s EXCEPT !.used = U] IN Typed(v) /\ v.used = U /\ Same(s, v, {"used"})
    BY <1>2, Upd, IsField, KindOf
  <2> QED BY <1>1, <2>1
<1>4. t.q = s.q
  <2> HIDE DEF t
  <2> QED BY <1>3, IsField DEF Same
<1>5. Queued(t) = Queued(s) /\ NoMsg(t) = NoMsg(s) /\ OneMsg(t) = OneMsg(s)
  BY <1>4, SameQueues
<1>6. ASSUME Acc(s, m.blk) PROVE Acc(t, 0)
  <2>1. State(s, Messages) /\ BlocksAreDistinct(s)
    BY <1>6, IsState DEF Acc
  <2>2. m.blk \notin Blocks(Queued(s)) BY <1>6 DEF Acc, Blocks
  <2>3. BlocksAreDistinct(t) BY <2>1, <2>2, RelBlkKeepsBlocks
  <2> HIDE DEF t
  <2> QED BY <1>3, <1>5, <1>6, <2>3 DEF Acc, U
<1> QED BY <1>3, <1>5, <1>6 DEF t, U

LEMMA NoneWaiting ==
  ASSUME NEW s, Typed(s), Queued(s) = {}
  PROVE  Scheduler(s) = s
<1> DEFINE waits == [r \in Priority |-> s.q[r] # <<>>]
<1>1. waits \in [Priority -> BOOLEAN] OBVIOUS
<1>2. s.q \in [Priority -> Seq(Messages)] BY TypedFields
<1>3. \A p \in Priority : s.q[p] = <<>>
  <2> TAKE p \in Priority
  <2>1. s.q[p] \in Seq(Messages) BY <1>2
  <2>2. ~(1 \in 1 .. Len(s.q[p])) BY QueuedMessages
  <2> QED BY <2>1, <2>2
<1>4. \A p \in Priority : ~waits[p] BY <1>3
<1>5. FirstWaiting[waits] = 0
  <2> HIDE DEF waits
  <2> QED BY <1>1, <1>4 DEF FirstWaiting
<1> QED BY <1>5 DEF Scheduler

LEMMA SomeFirst ==
  ASSUME NEW s, Typed(s), Queued(s) # {}
  PROVE  \E p \in Priority : s.q[p] # <<>> /\ \A r \in 1 .. p - 1 : s.q[r] = <<>>
<1>1. \E p \in Priority : s.q[p] # <<>>
  <2>1. PICK m \in Queued(s) : TRUE OBVIOUS
  <2>2. PICK p \in Priority : \E i \in 1 .. Len(s.q[p]) : m = s.q[p][i]
    BY QueuedMessages
  <2>3. s.q \in [Priority -> Seq(Messages)] BY TypedFields
  <2> QED BY <2>2, <2>3
<1>2. Priority = {1, 2, 3, 4} BY DEF Priority
<1>3. CASE s.q[1] # <<>> BY <1>2, <1>3
<1>4. CASE s.q[1] = <<>> /\ s.q[2] # <<>>
  <2>1. \A r \in 1 .. 2 - 1 : r = 1 OBVIOUS
  <2> QED BY <1>2, <1>4, <2>1
<1>5. CASE s.q[1] = <<>> /\ s.q[2] = <<>> /\ s.q[3] # <<>>
  <2>1. \A r \in 1 .. 3 - 1 : r = 1 \/ r = 2 OBVIOUS
  <2> QED BY <1>2, <1>5, <2>1
<1>6. CASE s.q[1] = <<>> /\ s.q[2] = <<>> /\ s.q[3] = <<>> /\ s.q[4] # <<>>
  <2>1. \A r \in 1 .. 4 - 1 : r = 1 \/ r = 2 \/ r = 3 OBVIOUS
  <2> QED BY <1>2, <1>6, <2>1
<1> QED BY <1>1, <1>2, <1>3, <1>4, <1>5, <1>6

(* The first message of the first queue that has one leaves it.            *)
LEMMA Picks ==
  ASSUME NEW s, Typed(s), Queued(s) # {}
  PROVE  LET t == Scheduler(s)
         IN  /\ Typed(t) /\ Same(s, t, {"use", "q", "flag"}) /\ t.flag = TRUE
             /\ t.use \in Messages /\ Queued(s) = Queued(t) \cup {t.use}
             /\ Acc(s, 0) => Acc(t, t.use.blk)
             /\ OneMsg(s) => OneMsg(t)
             /\ OneMsg(s) /\ IsWork(t.use) => NoMsg(t)
<1>1. PICK p \in Priority : s.q[p] # <<>> /\ \A r \in 1 .. p - 1 : s.q[r] = <<>>
  BY SomeFirst
<1> DEFINE h == Head(s.q[p])
           Q == [s.q EXCEPT ![p] = Tail(@)]
           t == Picked(s, p, h)
<1>2. Scheduler(s) = t
  <2> DEFINE waits == [r \in Priority |-> s.q[r] # <<>>]
  <2>1. waits \in [Priority -> BOOLEAN] OBVIOUS
  <2>2. waits[p] /\ \A r \in 1 .. p - 1 : ~waits[r]
    <3>1. \A r \in 1 .. p - 1 : r \in Priority BY DEF Priority
    <3> QED BY <1>1, <3>1
  <2> HIDE DEF waits
  <2>3. FirstWaiting[waits] = p BY <2>1, <2>2, FirstWaitingIsFirst
  <2>4. p # 0 BY DEF Priority
  <2> QED BY <2>3, <2>4, Zenon DEF Scheduler, Picked, waits
<1>3. s.q \in [Priority -> Seq(Messages)] BY TypedFields
<1>4. s.q[p] \in Seq(Messages) /\ Len(s.q[p]) > 0 /\ h = s.q[p][1] /\ h \in Messages
  BY <1>1, <1>3
<1>5. Q \in [Priority -> Seq(Messages)] BY <1>1, <1>3
<1>6. Typed(t) /\ Same(s, t, {"use", "q", "flag"}) /\ t.flag = TRUE /\ t.use = h /\ t.q = Q
  <2> DEFINE a == [s EXCEPT !.use = h]
             b == [a EXCEPT !.q = Q]
             c == [b EXCEPT !.flag = TRUE]
  <2>1. t = c
    <3>1. t = [s EXCEPT !.use = h, !.q = Q, !.flag = TRUE]
      BY <1>1, IsState DEF Picked, State
    <3> HIDE DEF h, Q, t
    <3> QED BY <3>1
  <2> HIDE DEF h, Q, t
  <2>2. Typed(a) /\ a.use = h /\ Same(s, a, {"use"})
    <3>1. h \in Kinds["use"] BY <1>4, KindOf
    <3> QED BY <3>1, Upd, IsField
  <2> HIDE DEF a
  <2>3. Typed(b) /\ b.q = Q /\ Same(a, b, {"q"})
    BY <1>5, <2>2, Upd, IsField, KindOf
  <2> HIDE DEF b
  <2>4. Typed(c) /\ c.flag = TRUE /\ Same(b, c, {"flag"})
    BY <2>3, Upd, IsField, KindOf
  <2> HIDE DEF c
  <2>5. c.q = Q /\ c.use = h
    BY <2>2, <2>3, <2>4, IsField DEF Same
  <2>6. Same(s, c, {"use", "q", "flag"})
    BY <2>2, <2>3, <2>4 DEF Same
  <2> QED BY <2>1, <2>4, <2>5, <2>6
<1> HIDE DEF t
<1>7. \A r \in Priority : \A i \in 1 .. Len(t.q[r]) :
        IF r = p THEN i + 1 \in 1 .. Len(s.q[r]) /\ t.q[r][i] = s.q[r][i + 1]
                 ELSE i \in 1 .. Len(s.q[r]) /\ t.q[r][i] = s.q[r][i]
  <2> TAKE r \in Priority
  <2>2. CASE r = p
    <3>1. t.q[r] = Tail(s.q[p]) BY <1>3, <1>6, <2>2
    <3> QED BY <1>4, <2>2, <3>1
  <2>3. CASE r # p
    <3>1. t.q[r] = s.q[r] BY <1>3, <1>6, <2>3
    <3> QED BY <2>3, <3>1
  <2> QED BY <2>2, <2>3
<1>8. \A r \in Priority : \A i \in 1 .. Len(s.q[r]) :
        IF r = p THEN i = 1 \/ (i - 1 \in 1 .. Len(t.q[r]) /\ t.q[r][i - 1] = s.q[r][i])
                 ELSE i \in 1 .. Len(t.q[r]) /\ t.q[r][i] = s.q[r][i]
  <2> TAKE r \in Priority
  <2>2. CASE r = p
    <3>1. t.q[r] = Tail(s.q[p]) BY <1>3, <1>6, <2>2
    <3> QED BY <1>4, <2>2, <3>1
  <2>3. CASE r # p
    <3>1. t.q[r] = s.q[r] BY <1>3, <1>6, <2>3
    <3> QED BY <2>3, <3>1
  <2> QED BY <2>2, <2>3
<1> HIDE DEF h, Q
<1>9. Queued(s) = Queued(t) \cup {h}
  <2>0. \A k \in Queued(t) : \E r \in Priority : \E i \in 1 .. Len(t.q[r]) : k = t.q[r][i]
    BY <1>6, QueuedMessages
  <2>1. ASSUME NEW n \in Queued(t) PROVE n \in Queued(s)
    <3>1. PICK r \in Priority : \E i \in 1 .. Len(t.q[r]) : n = t.q[r][i]
      BY <2>0
    <3>2. PICK i \in 1 .. Len(t.q[r]) : n = t.q[r][i] BY <3>1
    <3> QED BY <1>7, <3>2, QueuedMessages
  <2>2. h \in Queued(s)
    <3>1. 1 \in 1 .. Len(s.q[p]) BY <1>4
    <3> QED BY <1>4, <3>1, QueuedMessages
  <2>3. ASSUME NEW n \in Queued(s) PROVE n \in Queued(t) \cup {h}
    <3>1. PICK r \in Priority : \E i \in 1 .. Len(s.q[r]) : n = s.q[r][i]
      BY QueuedMessages
    <3>2. PICK i \in 1 .. Len(s.q[r]) : n = s.q[r][i] BY <3>1
    <3>3. \A x \in Priority : \A y \in 1 .. Len(t.q[x]) : t.q[x][y] \in Queued(t)
      BY <1>6, QueuedMessages
    <3> QED BY <1>4, <1>8, <3>2, <3>3
  <2> QED BY <2>1, <2>2, <2>3
<1>10. Acc(s, 0) => Acc(t, h.blk)
  <2> SUFFICES ASSUME Acc(s, 0) PROVE Acc(t, h.blk)
    OBVIOUS
  <2>1. /\ t.used = s.used /\ BlocksAreDistinct(t)
        /\ t.use.blk \notin Blocks(Queued(t))
    BY <1>1, <1>2, IsState, SchedulerPicksFirst DEF Acc
  <2>2. Blocks(Queued(s)) = Blocks(Queued(t)) \cup (IF h.blk = 0 THEN {} ELSE {h.blk})
    BY <1>9, BlocksOfOneMore
  <2>3. s.used \subseteq Blocks(Queued(s)) \cup {0} /\ Blocks(Queued(s)) \subseteq s.used
    BY DEF Acc, BlocksAreDistinct
  <2>4. ~(0 \in s.used)
    BY TypedFields
  <2> QED BY <1>6, <2>1, <2>2, <2>3, <2>4 DEF Acc
<1>11. OneMsg(s) => OneMsg(t)
  <2> SUFFICES ASSUME OneMsg(s),
                      NEW a \in Priority, NEW r \in Priority,
                      NEW i \in 1 .. Len(t.q[a]), NEW j \in 1 .. Len(t.q[r]),
                      IsWork(t.q[a][i]), IsWork(t.q[r][j])
               PROVE  a = r /\ i = j
    BY DEF OneMsg
  <2> DEFINE k == IF a = p THEN i + 1 ELSE i
             l == IF r = p THEN j + 1 ELSE j
  <2>1. k \in 1 .. Len(s.q[a]) /\ t.q[a][i] = s.q[a][k] BY <1>7
  <2>2. l \in 1 .. Len(s.q[r]) /\ t.q[r][j] = s.q[r][l] BY <1>7
  <2> HIDE DEF k, l
  <2>3. a = r /\ k = l BY <2>1, <2>2 DEF OneMsg
  <2> QED BY <2>3 DEF k, l
<1>12. OneMsg(s) /\ IsWork(h) => NoMsg(t)
  <2> SUFFICES ASSUME OneMsg(s), IsWork(h), NEW n \in Queued(t), IsWork(n)
               PROVE  FALSE
    BY DEF NoMsg
  <2>0. \A k \in Queued(t) : \E r \in Priority : \E i \in 1 .. Len(t.q[r]) : k = t.q[r][i]
    BY <1>6, QueuedMessages
  <2>1. PICK r \in Priority : \E i \in 1 .. Len(t.q[r]) : n = t.q[r][i] BY <2>0
  <2>2. PICK i \in 1 .. Len(t.q[r]) : n = t.q[r][i] BY <2>1
  <2> DEFINE k == IF r = p THEN i + 1 ELSE i
  <2>3. k \in 1 .. Len(s.q[r]) /\ n = s.q[r][k] BY <1>7, <2>2
  <2>4. r = p => k # 1 OBVIOUS
  <2>5. 1 \in 1 .. Len(s.q[p]) /\ h = s.q[p][1] BY <1>4
  <2> HIDE DEF k
  <2> QED BY <2>3, <2>4, <2>5 DEF OneMsg
<1> QED BY <1>2, <1>4, <1>6, <1>9, <1>10, <1>11, <1>12

-----------------------------------------------------------------------------
(* The commands and their stages: the class driver.                        *)

LEMMA SomeMessages ==
  ASSUME NEW id, NEW what \in Word, NEW arg \in Word, NEW drv \in Word,
         \/ id \in {"HMSC", "HSTRG", "HMSCSMP"}
         \/ id = "MGR" /\ what \in {"attach", "detach", "submit"}
         \/ id = "HCD" /\ what \in {"seq", "clr_stall", "clr_result"}
  PROVE  Some(id, what, arg, drv) \subseteq Messages
BY DEF Some, Msg, Messages, Task, Direct

LEMMA DoSetCbw ==
  ASSUME NEW s, Typed(s), NEW by \in Word
  PROVE  LET t == SetCbw(s, by)
         IN  /\ Do(s, t, {"by", "bumped", "dev", "csw"}, {})
             /\ t.by = by /\ t.bumped = FALSE
             /\ s.bumped => t.dev.cur = FALSE /\ t.csw.cur = FALSE
             /\ ~s.bumped => t.dev = s.dev /\ t.csw = s.csw
<1>1. CASE s.bumped
  <2> DEFINE D == [s.dev EXCEPT !.cur = FALSE]
             C == [s.csw EXCEPT !.cur = FALSE]
             a == [s EXCEPT !.by = by, !.bumped = FALSE]
             b == [a EXCEPT !.dev = D, !.csw = C]
  <2>1. SetCbw(s, by) = b BY <1>1 DEF SetCbw
  <2>2. D \in [cur : BOOLEAN, by : Word] /\ D.cur = FALSE BY TypedFields
  <2>3. C \in [cur : BOOLEAN, st : Word] /\ C.cur = FALSE BY TypedFields
  <2> HIDE DEF D, C
  <2>4. Sets2(s, a, "by", by, "bumped", FALSE) BY Set2, IsPlain, KindOf
  <2> HIDE DEF a
  <2>5. Typed(a) BY <2>4, DoTyped DEF Sets2
  <2>6. Sets2(a, b, "dev", D, "csw", C) BY <2>2, <2>3, <2>5, Set2, IsPlain, KindOf
  <2> HIDE DEF b
  <2>7. Do(s, b, {"by", "bumped", "dev", "csw"}, {})
    BY <2>4, <2>6, SetThenDo DEF Sets2
  <2>8. b.by = by /\ b.bumped = FALSE
    BY <2>4, <2>6, IsField DEF Do, Done, Same, Sets2
  <2> QED BY <1>1, <2>1, <2>2, <2>3, <2>6, <2>7, <2>8 DEF Sets2
<1>2. CASE ~s.bumped
  <2> DEFINE a == [s EXCEPT !.by = by]
  <2>1. SetCbw(s, by) = a BY <1>2 DEF SetCbw
  <2>2. Sets(s, a, "by", by) BY Set1, IsPlain, KindOf
  <2> HIDE DEF a
  <2>3. Do(s, a, {"by", "bumped", "dev", "csw"}, {}) BY <2>2, DoMore DEF Sets
  <2>4. a.bumped = s.bumped /\ a.dev = s.dev /\ a.csw = s.csw
    BY <2>2, IsField DEF Do, Done, Same, Sets
  <2>5. a.bumped = FALSE BY <1>2, <2>4, TypedFields
  <2> QED BY <1>2, <2>1, <2>2, <2>3, <2>4, <2>5 DEF Sets
<1> QED BY <1>1, <1>2

(* What a command leaves of the state, its message apart.                  *)
Commanded(s, t, p, by) ==
  /\ t.process = p /\ t.by = by /\ t.bumped = FALSE /\ t.seq = [s.seq EXCEPT ![p] = 0]
  /\ s.bumped => t.dev.cur = FALSE /\ t.csw.cur = FALSE
  /\ ~s.bumped => t.dev = s.dev /\ t.csw = s.csw
CommandFields == {"by", "bumped", "dev", "csw", "process", "seq"}

LEMMA ZeroCounter ==
  ASSUME NEW f \in Counters, NEW p \in Process \cup {"DATA_STALL", "STALL_ERR"}
  PROVE  [f EXCEPT ![p] = 0] \in Counters
BY DEF Counters, Process

LEMMA DoCommand ==
  ASSUME NEW s, Typed(s), NEW p \in Process, NEW drv \in Word, NEW by \in Word
  PROVE  LET t == Command(s, p, drv, by)
         IN  /\ Do(s, t, CommandFields, Some("HMSC", p, "none", drv))
             /\ drv \notin s.chk => t = s
             /\ drv \in s.chk => Commanded(s, t, p, by)
<1> DEFINE N == Some("HMSC", p, "none", drv)
<1>1. CASE drv \notin s.chk
  <2>1. Command(s, p, drv, by) = s BY <1>1 DEF Command
  <2>2. Do(s, s, CommandFields, N) BY DoNothing, DoMore
  <2> QED BY <1>1, <2>1, <2>2
<1>2. CASE drv \in s.chk
  <2> DEFINE a == SetCbw(s, by)
             b == [a EXCEPT !.process = p]
             c == Post(b, "HMSC", p, "none", drv)
             f == [c.seq EXCEPT ![p] = 0]
             t == [c EXCEPT !.seq = f]
  <2>0. p \in Word /\ p \in Process \cup {"DATA_STALL", "STALL_ERR"}
    BY Words DEF Process
  <2>1. Command(s, p, drv, by) = t BY <1>2 DEF Command
  <2>2. N \subseteq Messages BY <2>0, Words, SomeMessages
  <2>3. /\ Do(s, a, {"by", "bumped", "dev", "csw"}, {})
        /\ a.by = by /\ a.bumped = FALSE
        /\ s.bumped => a.dev.cur = FALSE /\ a.csw.cur = FALSE
        /\ ~s.bumped => a.dev = s.dev /\ a.csw = s.csw
    BY DoSetCbw
  <2> HIDE DEF a
  <2>4. Sets(a, b, "process", p) BY <2>0, <2>3, DoTyped, Set1, IsPlain, KindOf
  <2> HIDE DEF b
  <2>5. Do(b, c, {}, N) BY <2>2, <2>4, DoTyped, DoPost DEF Sets
  <2> HIDE DEF c, N
  <2>6. c.seq = s.seq /\ c.process = p /\ c.by = by /\ c.bumped = FALSE
        /\ c.dev = a.dev /\ c.csw = a.csw
    BY <2>3, <2>4, <2>5, IsField DEF Do, Done, Same, Sets
  <2>7. f \in Counters
    BY <2>0, <2>6, TypedFields, ZeroCounter
  <2>8. Typed(c) BY <2>5, DoTyped
  <2> HIDE DEF f
  <2>9. Sets(c, t, "seq", f) BY <2>7, <2>8, Set1, IsPlain, KindOf
  <2> HIDE DEF t
  <2>10. Do(s, b, {"by", "bumped", "dev", "csw", "process"}, {})
    BY <2>3, <2>4, SetThenDo DEF Sets
  <2>11. Do(s, c, {"by", "bumped", "dev", "csw", "process"}, N)
    BY <2>5, <2>10, SetThenDo
  <2>12. Do(s, t, CommandFields, N)
    BY <2>9, <2>11, DoThenSet DEF Sets, CommandFields
  <2>13. /\ t.seq = f /\ t.process = p /\ t.by = by /\ t.bumped = FALSE
         /\ t.dev = a.dev /\ t.csw = a.csw
    BY <2>6, <2>9, IsField DEF Do, Done, Same, Sets
  <2>14. Commanded(s, t, p, by)
    BY <2>3, <2>6, <2>13 DEF Commanded, f
  <2> QED BY <1>2, <2>1, <2>12, <2>14 DEF N
<1> QED BY <1>1, <1>2

LEMMA MessageWords ==
  ASSUME NEW m \in Messages
  PROVE  m.what \in Word /\ m.arg \in Word /\ m.drv \in Word
BY DEF Messages

(* Requests for transfers.                                                 *)
Toggles == Some("HCD", "seq", "none", "none")
Asks(p, utr) == {Msg("HCD", 0, "submit", p, utr)}

LEMMA SeqIsIdle == Toggles \subseteq Messages /\ Idly(Toggles)
<1>1. Toggles \subseteq Messages BY Words, SomeMessages DEF Toggles
<1>2. Idly(Toggles) BY DEF Toggles, Some, Msg, Idly, IsWork
<1> QED BY <1>1, <1>2

LEMMA AskIsMessage ==
  ASSUME NEW p, NEW utr \in Word,
         p \in {"out", "in"} \/ (p = "ctl" /\ utr \in {"lun", "clear", "reset"})
  PROVE  Msg("HCD", 0, "submit", p, utr) \in Messages
<1>1. p \in Word /\ "submit" \in Word BY Words
<1>2. 0 \in 0 .. BLKMAX BY SchedulerAssumption
<1> QED BY <1>1, <1>2 DEF Msg, Messages, Task, Direct

LEMMA DoStart ==
  ASSUME NEW s, Typed(s), NEW p, NEW utr \in Word,
         p \in {"out", "in"} \/ (p = "ctl" /\ utr \in {"lun", "clear", "reset"})
  PROVE  Do(s, Start(s, p, utr), {}, Asks(p, utr))
<1> DEFINE m == Msg("HCD", 0, "submit", p, utr)
<1>1. m \in Messages BY AskIsMessage
<1>2. m.blk = 0 BY DEF Msg
<1>3. Do(s, SndMsg(s, m), {}, {m}) BY <1>1, <1>2, DoSnd
<1>4. Do(s, s, {}, {m}) BY DoNothing, DoMore
<1>5. Start(s, p, utr) = SndMsg(s, m) \/ Start(s, p, utr) = s BY DEF Start
<1> QED BY <1>3, <1>4, <1>5 DEF Asks

LEMMA DoStartCtl ==
  ASSUME NEW s, Typed(s), NEW utr \in {"lun", "clear", "reset"}
  PROVE  Do(s, StartCtl(s, utr), {}, Asks("ctl", utr))
<1>1. utr \in Word BY Words
<1>2. Do(s, Start(s, "ctl", utr), {}, Asks("ctl", utr)) BY <1>1, DoStart
<1>3. Do(s, s, {}, Asks("ctl", utr)) BY DoNothing, DoMore
<1> QED BY <1>2, <1>3 DEF StartCtl

LEMMA DoSetToggle ==
  ASSUME NEW s, Typed(s)
  PROVE  Do(s, SetToggle(s), {}, Toggles)
<1>1. Some("HCD", "seq", "none", "none") \subseteq Messages BY SeqIsIdle DEF Toggles
<1>2. Do(s, Post(s, "HCD", "seq", "none", "none"), {}, Some("HCD", "seq", "none", "none"))
  BY <1>1, DoPost
<1> QED BY <1>2 DEF SetToggle, Toggles

LEMMA DoClearStall ==
  ASSUME NEW s, Typed(s), NEW p \in Word, NEW call \in Word
  PROVE  Do(s, ClearStall(s, p, call), {}, Some("HCD", "clr_stall", call, p))
<1>1. Some("HCD", "clr_stall", call, p) \subseteq Messages BY Words, SomeMessages
<1> QED BY <1>1, DoPost DEF ClearStall

LEMMA DoRequest ==
  ASSUME NEW s, Typed(s), NEW p \in {"out", "in"}
  PROVE  /\ Do(s, Request(s, p), {}, Toggles \cup Asks(p, "bulk"))
         /\ ~Known(s) => Request(s, p) = s
<1> DEFINE a == SetToggle(s)
           b == Start(a, p, "bulk")
<1>1. Do(s, a, {}, Toggles) BY DoSetToggle
<1>2. Typed(a) BY <1>1, DoTyped
<1> HIDE DEF a
<1>3. Do(a, b, {}, Asks(p, "bulk")) BY <1>2, Words, DoStart
<1> HIDE DEF b
<1>4. Do(s, b, {}, Toggles \cup Asks(p, "bulk")) BY <1>1, <1>3, SeqIsIdle, DoThen
<1>5. Do(s, s, {}, Toggles \cup Asks(p, "bulk")) BY DoNothing, DoMore
<1>6. Request(s, p) = IF Known(s) THEN b ELSE s BY DEF Request, b, a
<1> QED BY <1>4, <1>5, <1>6

(* The counters.                                                           *)
Last(p) == CASE p = "NO_DATA" -> 4
             [] p \in {"DATA_IN", "DATA_OUT"} -> 6
             [] p \in {"DATA_STALL", "STALL_ERR"} -> 3
Counted == Process \cup {"DATA_STALL", "STALL_ERR"}

LEMMA CounterValue ==
  ASSUME NEW s, Typed(s), NEW p \in Counted
  PROVE  s.seq[p] \in 0 .. Last(p) /\ DOMAIN s.seq = Counted
<1>1. s.seq \in Counters BY TypedFields
<1> QED BY <1>1 DEF Counters, Counted, Last, Process

LEMMA MoreCounter ==
  ASSUME NEW f \in Counters, NEW p \in Counted, f[p] < Last(p)
  PROVE  [f EXCEPT ![p] = f[p] + 1] \in Counters
<1>1. f \in [Counted -> 0 .. 6] BY DEF Counters, Counted
<1>2. f[p] + 1 \in 0 .. 6 BY <1>1 DEF Last, Counted, Process
<1>3. [f EXCEPT ![p] = f[p] + 1] \in [Counted -> 0 .. 6] BY <1>1, <1>2
<1>4. "NO_DATA" \in Counted /\ "DATA_STALL" \in Counted /\ "STALL_ERR" \in Counted
  BY DEF Counted, Process
<1> QED BY <1>1, <1>3, <1>4 DEF Counters, Counted, Last, Process

LEMMA DoNext1 ==
  ASSUME NEW s, Typed(s), NEW p \in Counted, s.seq[p] < Last(p)
  PROVE  Sets(s, Next1(s, p), "seq", [s.seq EXCEPT ![p] = @ + 1])
<1> DEFINE f == [s.seq EXCEPT ![p] = s.seq[p] + 1]
<1>1. f \in Counters BY TypedFields, MoreCounter
<1>2. Next1(s, p) = [s EXCEPT !.seq = f] BY DEF Next1
<1> HIDE DEF f
<1>3. Sets(s, [s EXCEPT !.seq = f], "seq", f) BY <1>1, Set1, IsPlain, KindOf
<1> QED BY <1>2, <1>3 DEF f

LEMMA DoBack ==
  ASSUME NEW s, Typed(s), NEW p \in Counted
  PROVE  Sets(s, Back(s, p), "seq", [s.seq EXCEPT ![p] = 0])
<1> DEFINE f == [s.seq EXCEPT ![p] = 0]
<1>1. f \in Counters BY TypedFields, ZeroCounter DEF Counted
<1>2. Back(s, p) = [s EXCEPT !.seq = f] BY DEF Back
<1> HIDE DEF f
<1>3. Sets(s, [s EXCEPT !.seq = f], "seq", f) BY <1>1, Set1, IsPlain, KindOf
<1> QED BY <1>2, <1>3 DEF f

LEMMA DoPrepare ==
  ASSUME NEW s, Typed(s), NEW p \in {"out", "in"}, NEW what \in {"data", "cbw", "csw"}
  PROVE  Do(s, Prepare(s, p, what), {"buf"}, {})
<1> DEFINE f == [s.buf EXCEPT ![p] = what]
           t == [s EXCEPT !.buf = f]
<1>1. f \in [{"out", "in"} -> {"data", "cbw", "csw"}] BY TypedFields
<1>2. Prepare(s, p, what) = IF Known(s) THEN t ELSE s BY DEF Prepare
<1> HIDE DEF f
<1>3. Sets(s, t, "buf", f) BY <1>1, Set1, IsPlain, KindOf
<1> HIDE DEF t
<1>4. Do(s, s, {"buf"}, {}) BY DoNothing, DoMore
<1> QED BY <1>2, <1>3, <1>4 DEF Sets

LEMMA DoGetCsw ==
  ASSUME NEW s, Typed(s)
  PROVE  Do(s, GetCsw(s), {"buf"}, {})
BY DoPrepare DEF GetCsw

(* Messages of the class driver to itself and to the storage driver.       *)
LEMMA DoSpecifiedPath ==
  ASSUME NEW s, Typed(s), NEW m \in Messages, NEW p \in Word
  PROVE  LET t == SpecifiedPath(s, m, p)
         IN  /\ Do(s, t, {"process"}, Some("HMSC", p, m.arg, s.root))
             /\ t.process = p
<1> DEFINE v == [s EXCEPT !.process = p]
           N == Some("HMSC", p, m.arg, s.root)
           t == Post(v, "HMSC", p, m.arg, s.root)
<1>1. N \subseteq Messages BY MessageWords, TypedFields, SomeMessages
<1>2. Sets(s, v, "process", p) BY Set1, IsPlain, KindOf
<1>3. SpecifiedPath(s, m, p) = t BY DEF SpecifiedPath
<1> HIDE DEF v
<1>4. Do(v, t, {}, N) BY <1>1, <1>2, DoTyped, DoPost DEF Sets
<1> HIDE DEF N, t
<1>5. Do(s, t, {"process"}, N) BY <1>2, <1>4, SetThenDo DEF Sets
<1>6. t.process = p BY <1>2, <1>4, IsField DEF Do, Done, Same, Sets
<1> QED BY <1>3, <1>5, <1>6 DEF N

LEMMA DoCommandResult ==
  ASSUME NEW s, Typed(s), NEW result \in Word
  PROVE  Do(s, CommandResult(s, result), {}, Some("HSTRG", s.strg, result, "none"))
<1>1. s.strg \in Word BY TypedFields, Words
<1>2. Some("HSTRG", s.strg, result, "none") \subseteq Messages
  BY <1>1, Words, SomeMessages
<1> QED BY <1>2, DoPost DEF CommandResult

LEMMA DoCommandEnds ==
  ASSUME NEW s, Typed(s), NEW result \in Word
  PROVE  LET t == CommandEnds(s, result)
         IN  /\ Do(s, t, {"roop"},
                   Some("HSTRG", s.strg, IF s.roop THEN "CSW_ERR" ELSE result, "none"))
             /\ t.roop = FALSE
<1> DEFINE a == [s EXCEPT !.roop = FALSE]
           t == CommandEnds(s, result)
<1>1. Sets(s, a, "roop", FALSE) BY Set1, IsPlain, KindOf
<1> HIDE DEF a
<1>2. CASE s.roop
  <2> DEFINE N == Some("HSTRG", a.strg, "CSW_ERR", "none")
  <2>1. t = CommandResult(a, "CSW_ERR") BY <1>2 DEF CommandEnds, a
  <2> HIDE DEF t
  <2>2. Do(a, t, {}, N)
    BY <1>1, <2>1, Words, DoTyped, DoCommandResult DEF Sets
  <2> HIDE DEF N
  <2>3. Do(s, t, {"roop"}, N) BY <1>1, <2>2, SetThenDo DEF Sets
  <2>4. a.strg = s.strg /\ t.roop = FALSE
    BY <1>1, <2>2, IsField DEF Do, Done, Same, Sets
  <2> QED BY <1>2, <2>3, <2>4 DEF t, N
<1>3. CASE ~s.roop
  <2> DEFINE N == Some("HSTRG", s.strg, result, "none")
  <2>1. t = CommandResult(s, result) BY <1>3 DEF CommandEnds
  <2> HIDE DEF t
  <2>2. Do(s, t, {}, N) BY <2>1, DoCommandResult
  <2> HIDE DEF N
  <2>3. Do(s, t, {"roop"}, N) BY <2>2, DoMore
  <2>4. t.roop = s.roop BY <2>2, IsField DEF Do, Done, Same
  <2>5. t.roop = FALSE BY <1>3, <2>4, TypedFields
  <2> QED BY <1>3, <2>3, <2>5 DEF t, N
<1> QED BY <1>2, <1>3

(* The result of a command, in its four ways.                              *)
Recovers(s) == Some("HMSC", "PHASE_ERR", "none", s.root) \cup Some("HMSC", "unknown", "none", s.root)
Reports(s, result) == Some("HSTRG", s.strg, IF s.roop THEN "CSW_ERR" ELSE result, "none")

EndsOk(s, t) ==
  /\ Do(s, t, {"proof", "roop"}, Reports(s, "OK"))
  /\ t.proof = (IF s.roop THEN "none" ELSE s.dev.by) /\ t.roop = FALSE
  /\ s.csw.cur
AsksSense(s, t) ==
  /\ Do(s, t, CommandFields \cup {"roop"}, Some("HMSC", "DATA_IN", "none", s.root))
  /\ s.root \notin s.chk => Do(s, t, {"roop"}, {})
  /\ s.root \in s.chk => Commanded(s, t, "DATA_IN", "sense") /\ t.roop = TRUE
TriesAgain(s, t, m, p) ==
  /\ Do(s, t, {"process"}, Some("HMSC", p, m.arg, s.root)) /\ t.process = p
  /\ Known(s)
BreaksPhase(s, t) ==
  /\ Done(s, t, {"process", "seq", "phase", "roop"}, Recovers(s) \cup Reports(s, "PHASE_ERR"))
  /\ t.phase = TRUE /\ t.process = "PHASE_ERR"

LEMMA DoEndsOk ==
  ASSUME NEW s, Typed(s), s.csw.cur
  PROVE  EndsOk(s, CommandEnds([s EXCEPT !.proof = IF s.roop THEN "none" ELSE s.dev.by], "OK"))
<1> DEFINE x == IF s.roop THEN "none" ELSE s.dev.by
           a == [s EXCEPT !.proof = x]
           t == CommandEnds(a, "OK")
<1>1. x \in Word BY TypedFields, Words
<1> HIDE DEF x
<1>2. Sets(s, a, "proof", x) BY <1>1, Set1, IsPlain, KindOf
<1> HIDE DEF a
<1>3. a.strg = s.strg /\ a.roop = s.roop
  BY <1>2, IsField DEF Do, Done, Same, Sets
<1>4. /\ Do(a, t, {"roop"}, Some("HSTRG", a.strg, IF a.roop THEN "CSW_ERR" ELSE "OK", "none"))
      /\ t.roop = FALSE
  BY <1>2, Words, DoTyped, DoCommandEnds DEF Sets
<1> HIDE DEF t
<1>5. Do(a, t, {"roop"}, Reports(s, "OK")) BY <1>3, <1>4 DEF Reports
<1>6. Do(s, t, {"proof", "roop"}, Reports(s, "OK"))
  BY <1>2, <1>5, SetThenDo DEF Sets
<1>7. t.proof = x BY <1>2, <1>4, IsField DEF Do, Done, Same, Sets
<1>8. EndsOk(s, t) BY <1>4, <1>6, <1>7 DEF EndsOk, x
<1> QED BY <1>8 DEF t, a, x

LEMMA DoAsksSense ==
  ASSUME NEW s, Typed(s)
  PROVE  AsksSense(s, RequestSense([s EXCEPT !.roop = TRUE]))
<1> DEFINE a == [s EXCEPT !.roop = TRUE]
           t == RequestSense(a)
           N == Some("HMSC", "DATA_IN", "none", s.root)
<1>1. Sets(s, a, "roop", TRUE) BY Set1, IsPlain, KindOf
<1> HIDE DEF a
<1>2. /\ a.root = s.root /\ a.chk = s.chk /\ a.bumped = s.bumped /\ a.dev = s.dev
      /\ a.csw = s.csw /\ a.seq = s.seq
  BY <1>1, IsField DEF Do, Done, Same, Sets
<1>3. t = Command(a, "DATA_IN", s.root, "sense") BY <1>2 DEF RequestSense
<1>4. Typed(a) /\ s.root \in Word BY <1>1, DoTyped, TypedFields DEF Sets
<1>5. "DATA_IN" \in Process BY DEF Process
<1> HIDE DEF t
<1>6. /\ Do(a, t, CommandFields, N)
      /\ s.root \notin a.chk => t = a
      /\ s.root \in a.chk => Commanded(a, t, "DATA_IN", "sense")
  BY <1>3, <1>4, <1>5, Words, DoCommand
<1> HIDE DEF N
<1>7. Do(s, t, CommandFields \cup {"roop"}, N)
  BY <1>1, <1>6, SetThenDo DEF Sets
<1>8. s.root \notin s.chk => Do(s, t, {"roop"}, {})
  BY <1>1, <1>2, <1>6 DEF Sets
<1>9. s.root \in s.chk => Commanded(s, t, "DATA_IN", "sense")
  BY <1>2, <1>6 DEF Commanded
<1>10. t.roop = TRUE
  BY <1>1, <1>6, IsField DEF Do, Done, Same, Sets, CommandFields
<1>11. AsksSense(s, t) BY <1>7, <1>8, <1>9, <1>10 DEF AsksSense, N
<1> QED BY <1>11 DEF t, a

LEMMA DoBreaksPhase ==
  ASSUME NEW s, Typed(s), NEW g
  PROVE  BreaksPhase(s, PhaseError(s, g))
<1> DEFINE f == [s.seq EXCEPT !["STALL_ERR"] = 0]
           a == [s EXCEPT !.process = "PHASE_ERR", !.seq = f]
           b == [a EXCEPT !.phase = TRUE]
           w == IF g THEN "PHASE_ERR" ELSE "unknown"
           c == Post(b, "HMSC", w, "none", s.root)
           t == CommandEnds(c, "PHASE_ERR")
<1>1. PhaseError(s, g) = t
  <2>1. b = [s EXCEPT !.process = "PHASE_ERR", !.seq["STALL_ERR"] = 0, !.phase = TRUE]
    OBVIOUS
  <2> QED BY <2>1 DEF PhaseError
<1>2. f \in Counters BY TypedFields, ZeroCounter
<1> HIDE DEF f, t
<1>3. Sets2(s, a, "process", "PHASE_ERR", "seq", f)
  BY <1>2, Words, Set2, IsPlain, KindOf
<1> HIDE DEF a
<1>4. Typed(a) BY <1>3, DoTyped DEF Sets2
<1>5. Sets(a, b, "phase", TRUE) BY <1>4, Set1, IsPlain, KindOf
<1> HIDE DEF b
<1>6. Typed(b) BY <1>5, DoTyped DEF Sets
<1>7. w \in Word /\ s.root \in Word BY Words, TypedFields
<1> HIDE DEF w
<1>8. Some("HMSC", w, "none", s.root) \subseteq Messages BY <1>7, Words, SomeMessages
<1>9. Do(b, c, {}, Some("HMSC", w, "none", s.root)) BY <1>6, <1>8, DoPost
<1>10. Some("HMSC", w, "none", s.root) \subseteq Recovers(s) BY DEF Recovers, w
<1> HIDE DEF c
<1>11. Done(b, c, {}, Recovers(s)) BY <1>9, <1>10, DoMore, DoTyped
<1>12. Typed(c) /\ c.strg = s.strg /\ c.roop = s.roop /\ c.phase = TRUE /\ c.process = "PHASE_ERR"
  BY <1>3, <1>5, <1>9, IsField DEF Do, Done, Same, Sets, Sets2
<1>13. /\ Do(c, t, {"roop"}, Some("HSTRG", c.strg, IF c.roop THEN "CSW_ERR" ELSE "PHASE_ERR", "none"))
       /\ t.roop = FALSE
  BY <1>12, Words, DoCommandEnds DEF t
<1>14. Done(c, t, {"roop"}, Reports(s, "PHASE_ERR")) BY <1>12, <1>13, DoTyped DEF Reports
<1>15. Done(s, a, {"process", "seq"}, {}) /\ Done(a, b, {"phase"}, {})
  BY <1>3, <1>5, DoTyped DEF Sets, Sets2
<1>16. Done(s, b, {"process", "seq", "phase"}, {}) BY <1>15, DoneThen
<1>17. Done(s, c, {"process", "seq", "phase"}, Recovers(s)) BY <1>11, <1>16, DoneThen
<1>18. Done(s, t, {"process", "seq", "phase", "roop"}, Recovers(s) \cup Reports(s, "PHASE_ERR"))
  BY <1>14, <1>17, DoneThen
<1>19. t.phase = TRUE /\ t.process = "PHASE_ERR"
  BY <1>12, <1>14, IsField DEF Done, Same
<1> QED BY <1>1, <1>18, <1>19 DEF BreaksPhase

LEMMA DoFinal ==
  ASSUME NEW s, Typed(s), NEW m \in Messages, NEW p \in Word, NEW g
  PROVE  LET t == Final(s, m, p, g)
         IN  \/ EndsOk(s, t) \/ AsksSense(s, t)
             \/ TriesAgain(s, t, m, p) \/ BreaksPhase(s, t)
<1> DEFINE r == CswCheck(s, m)
           t == Final(s, m, p, g)
<1>1. CASE r = "OK"
  <2>1. s.csw.cur BY <1>1 DEF CswCheck
  <2>2. t = CommandEnds([s EXCEPT !.proof = IF s.roop THEN "none" ELSE s.dev.by], "OK")
    BY <1>1 DEF Final
  <2> QED BY <2>1, <2>2, DoEndsOk
<1>2. CASE r = "CSW_ERR"
  <2>1. t = RequestSense([s EXCEPT !.roop = TRUE]) BY <1>2 DEF Final
  <2> QED BY <2>1, DoAsksSense
<1>3. CASE r = "DATA_STALL"
  <2>1. t = SpecifiedPath(s, m, p) BY <1>3 DEF Final
  <2>2. Known(s) BY <1>3 DEF CswCheck
  <2> QED BY <2>1, <2>2, DoSpecifiedPath DEF TriesAgain
<1>4. CASE r = "PHASE"
  <2>1. t = PhaseError(s, g) BY <1>4 DEF Final
  <2> QED BY <2>1, DoBreaksPhase
<1>5. r \in {"OK", "CSW_ERR", "DATA_STALL", "PHASE"}
  BY DEF CswCheck
<1> QED BY <1>1, <1>2, <1>3, <1>4, <1>5

LEMMA StageOf ==
  ASSUME NEW p \in Process, NEW n \in 0 .. Last(p)
  PROVE  /\ Stage(p, n) \in {"cbw", "cbw_req", "cbw_check", "data_req", "data_check",
                             "csw_req", "csw_check"}
         /\ Stage(p, n) = "cbw" <=> n = 0
         /\ Stage(p, n) # "csw_check" => n < Last(p)
         /\ Stage(p, n) \in {"data_req", "data_check"} => p # "NO_DATA"
<1>1. CASE p = "NO_DATA"
  <2>1. n \in {0, 1, 2, 3, 4} /\ Last(p) = 4 BY <1>1 DEF Last
  <2> QED BY <1>1, <2>1 DEF Stage
<1>2. CASE p \in {"DATA_IN", "DATA_OUT"}
  <2>1. n \in {0, 1, 2, 3, 4, 5, 6} /\ Last(p) = 6 BY <1>2 DEF Last
  <2> QED BY <1>2, <2>1 DEF Stage
<1> QED BY <1>1, <1>2 DEF Process

LEMMA Processes ==
  ASSUME NEW p \in Process
  PROVE  p \in Counted /\ p \in Word /\ DataPipe(p) \in {"out", "in"} /\ DataPipe(p) \in Word
BY Words DEF Process, Counted, DataPipe

(* The first stage: the command block is made.                             *)
Begins(s, t, m, p) ==
  /\ Do(s, t, {"root", "buf", "bumped", "seq", "process"}, Some("HMSC", p, m.arg, m.drv))
  /\ t.root = m.drv /\ t.process = p /\ t.seq = [s.seq EXCEPT ![p] = @ + 1]
  /\ m.drv \in s.chk => t.bumped = TRUE
  /\ m.drv \notin s.chk => t.bumped = s.bumped

LEMMA DoSendCbw ==
  ASSUME NEW s, Typed(s), NEW m \in Messages, NEW p \in Process, s.seq[p] < Last(p)
  PROVE  Begins(s, SendCbw(s, m, p), m, p)
<1> DEFINE a == [s EXCEPT !.root = m.drv]
           f == [a.buf EXCEPT !["out"] = "cbw"]
           k == [a EXCEPT !.buf = f, !.bumped = TRUE]
           b == IF Known(a) THEN k ELSE a
           c == Next1(b, p)
           t == SpecifiedPath(c, m, p)
           F == {"root", "buf", "bumped"}
<1>1. SendCbw(s, m, p) = t
  <2>1. k = [a EXCEPT !.buf["out"] = "cbw", !.bumped = TRUE] OBVIOUS
  <2> QED BY <2>1 DEF SendCbw
<1>2. m.drv \in Word /\ p \in Counted /\ p \in Word BY MessageWords, Processes
<1> HIDE DEF t
<1>3. Sets(s, a, "root", m.drv) BY <1>2, Set1, IsPlain, KindOf
<1>4. Known(a) <=> m.drv \in s.chk
  <2> HIDE DEF a
  <2> QED BY <1>3, IsField DEF Known, Sets, Do, Done, Same
<1> HIDE DEF a
<1>5. Typed(a) BY <1>3, DoTyped DEF Sets
<1>6. f \in [{"out", "in"} -> {"data", "cbw", "csw"}] BY <1>5, TypedFields
<1> HIDE DEF f
<1>7. Sets2(a, k, "buf", f, "bumped", TRUE) BY <1>5, <1>6, Set2, IsPlain, KindOf
<1> HIDE DEF k
<1>8. Do(a, b, {"buf", "bumped"}, {})
  <2>1. Do(a, a, {"buf", "bumped"}, {}) BY <1>5, DoNothing, DoMore
  <2> QED BY <1>7, <2>1 DEF Sets2
<1>9. /\ Known(a) => b.bumped = TRUE
      /\ ~Known(a) => b.bumped = s.bumped
  <2>1. a.bumped = s.bumped BY <1>3, IsField DEF Sets, Do, Done, Same
  <2> QED BY <1>7, <2>1 DEF Sets2
<1> HIDE DEF b
<1>10. b.root = m.drv /\ b.seq = s.seq
  BY <1>3, <1>8, IsField DEF Sets, Do, Done, Same
<1>11. Sets(b, c, "seq", [b.seq EXCEPT ![p] = @ + 1])
  BY <1>2, <1>8, <1>10, DoTyped, DoNext1
<1> HIDE DEF c
<1>12. Typed(c) /\ c.root = m.drv /\ c.bumped = b.bumped /\ c.seq = [s.seq EXCEPT ![p] = @ + 1]
  BY <1>10, <1>11, DoTyped, IsField DEF Sets, Do, Done, Same
<1>13. Do(c, t, {"process"}, Some("HMSC", p, m.arg, c.root)) /\ t.process = p
  BY <1>2, <1>12, DoSpecifiedPath DEF t
<1>14. Do(s, b, {"root", "buf", "bumped"}, {}) BY <1>3, <1>8, SetThenDo DEF Sets
<1>15. Do(s, c, {"root", "buf", "bumped", "seq"}, {}) BY <1>11, <1>14, SetThenDo DEF Sets
<1>16. Do(s, t, {"root", "buf", "bumped", "seq", "process"}, Some("HMSC", p, m.arg, m.drv))
  BY <1>12, <1>13, <1>15, SetThenDo
<1>17. t.root = c.root /\ t.bumped = c.bumped /\ t.seq = c.seq
  BY <1>13, IsField DEF Do, Done, Same
<1> QED BY <1>1, <1>4, <1>9, <1>12, <1>13, <1>16, <1>17 DEF Begins

(* A stage that asks for a transfer.                                       *)
Requests(s, t, pipe) ==
  /\ Do(s, t, {"process", "seq"}, Toggles \cup Asks(pipe, "bulk"))
  /\ ~Known(s) => Do(s, t, {"process", "seq"}, {})

LEMMA DoRequests ==
  ASSUME NEW s, Typed(s), NEW a, Do(s, a, {"process"}, {}),
         NEW p \in Counted, s.seq[p] < Last(p), NEW pipe \in {"out", "in"}
  PROVE  Requests(s, Next1(Request(a, pipe), p), pipe)
<1> DEFINE b == Request(a, pipe)
           c == Next1(b, p)
           N == Toggles \cup Asks(pipe, "bulk")
<1>1. Typed(a) BY DoTyped
<1>2. Do(a, b, {}, N) /\ (~Known(a) => b = a) BY <1>1, DoRequest
<1> HIDE DEF b, N
<1>3. b.seq = s.seq /\ Typed(b)
  BY <1>2, DoTyped, IsField DEF Do, Done, Same
<1>4. Sets(b, c, "seq", [b.seq EXCEPT ![p] = @ + 1])
  BY <1>3, DoNext1
<1> HIDE DEF c
<1>5. Do(s, b, {"process"}, N) BY <1>2, SetThenDo
<1>6. Do(s, c, {"process", "seq"}, N) BY <1>4, <1>5, DoThenSet DEF Sets
<1>7. ASSUME ~Known(s) PROVE Do(s, c, {"process", "seq"}, {})
  <2>1. ~Known(a) BY <1>7, IsField DEF Known, Do, Done, Same
  <2>2. Do(s, b, {"process"}, {}) BY <1>2, <2>1
  <2> QED BY <1>4, <2>2, DoThenSet DEF Sets
<1> QED BY <1>6, <1>7 DEF Requests, N, c, b

LEMMA DoProcess ==
  ASSUME NEW s, Typed(s), NEW p \in Word
  PROVE  Do(s, [s EXCEPT !.process = p], {"process"}, {})
<1>1. Sets(s, [s EXCEPT !.process = p], "process", p) BY Set1, IsPlain, KindOf
<1> QED BY <1>1 DEF Sets

LEMMA DoSendCbwReq ==
  ASSUME NEW s, Typed(s), NEW p \in Process, s.seq[p] < Last(p)
  PROVE  Requests(s, SendCbwReq(s, p), "out")
<1> DEFINE a == IF p = "DATA_IN" THEN s ELSE [s EXCEPT !.process = p]
<1>1. Do(s, s, {"process"}, {}) BY DoNothing, DoMore
<1>2. Do(s, [s EXCEPT !.process = p], {"process"}, {}) BY Processes, DoProcess
<1>3. Do(s, a, {"process"}, {}) BY <1>1, <1>2
<1>4. SendCbwReq(s, p) = Next1(Request(a, "out"), p) BY DEF SendCbwReq
<1> HIDE DEF a
<1> QED BY <1>3, <1>4, Processes, DoRequests

LEMMA DoRequestStage ==
  ASSUME NEW s, Typed(s), NEW p \in Process, s.seq[p] < Last(p), NEW pipe \in {"out", "in"}
  PROVE  Requests(s, Next1(Request([s EXCEPT !.process = p], pipe), p), pipe)
<1> DEFINE a == [s EXCEPT !.process = p]
<1>1. Do(s, a, {"process"}, {}) BY Processes, DoProcess
<1> HIDE DEF a
<1>2. Requests(s, Next1(Request(a, pipe), p), pipe) BY <1>1, Processes, DoRequests
<1> QED BY <1>2 DEF a

(* A stage that goes on to the next, with or without what comes in as the  *)
(* status wrapper.                                                         *)
GoesOn(s, t, m, p) ==
  Do(s, t, {"buf", "seq", "process"}, Some("HMSC", p, m.arg, s.root)) /\ Known(s)
Fails(s, t) ==
  Do(s, t, {"seq"}, Some("HSTRG", s.strg, "ERR", "none"))

LEMMA DoGoesOn ==
  ASSUME NEW s, Typed(s), NEW a, Do(s, a, {"buf"}, {}), Known(s),
         NEW m \in Messages, NEW p \in Process, s.seq[p] < Last(p)
  PROVE  GoesOn(s, SpecifiedPath(Next1(a, p), m, p), m, p)
<1> DEFINE c == Next1(a, p)
           t == SpecifiedPath(c, m, p)
<1>1. Typed(a) /\ a.seq = s.seq /\ a.root = s.root
  BY DoTyped, IsField DEF Do, Done, Same
<1>2. Sets(a, c, "seq", [a.seq EXCEPT ![p] = @ + 1])
  BY <1>1, Processes, DoNext1
<1> HIDE DEF c
<1>3. Typed(c) /\ c.root = s.root
  BY <1>1, <1>2, DoTyped, IsField DEF Sets, Do, Done, Same
<1>4. Do(c, t, {"process"}, Some("HMSC", p, m.arg, c.root))
  BY <1>3, Processes, DoSpecifiedPath
<1> HIDE DEF t
<1>5. Do(s, c, {"buf", "seq"}, {}) BY <1>2, SetThenDo DEF Sets
<1>6. Do(s, t, {"buf", "seq", "process"}, Some("HMSC", p, m.arg, s.root))
  BY <1>3, <1>4, <1>5, SetThenDo
<1> QED BY <1>6 DEF GoesOn, t, c

LEMMA DoFails ==
  ASSUME NEW s, Typed(s), NEW p \in Counted
  PROVE  Fails(s, Back(CommandResult(s, "ERR"), p))
<1> DEFINE a == CommandResult(s, "ERR")
           t == Back(a, p)
           N == Some("HSTRG", s.strg, "ERR", "none")
<1>1. Do(s, a, {}, N) BY Words, DoCommandResult
<1> HIDE DEF a, N
<1>2. Sets(a, t, "seq", [a.seq EXCEPT ![p] = 0]) BY <1>1, DoTyped, DoBack
<1> HIDE DEF t
<1>3. Do(s, t, {"seq"}, N) BY <1>1, <1>2, DoThenSet DEF Sets
<1> QED BY <1>3 DEF Fails, t, a, N

ResetsAfterCbw(s, t, m) ==
  Do(s, t, {"seq", "process"}, Some("HMSC", "CBW_ERR", m.arg, s.root)) /\ Known(s)

LEMMA DoSendCbwCheck ==
  ASSUME NEW s, Typed(s), NEW m \in Messages, NEW p \in Process, s.seq[p] < Last(p)
  PROVE  LET t == SendCbwCheck(s, m, p)
         IN  GoesOn(s, t, m, p) \/ ResetsAfterCbw(s, t, m) \/ Fails(s, t)
<1> DEFINE t == SendCbwCheck(s, m, p)
<1>1. CASE Known(s) /\ m.arg = "NONE"
  <2> DEFINE a == IF p = "NO_DATA" THEN GetCsw(s) ELSE Prepare(s, DataPipe(p), "data")
  <2>1. t = SpecifiedPath(Next1(a, p), m, p) BY <1>1 DEF SendCbwCheck
  <2>2. Do(s, GetCsw(s), {"buf"}, {}) BY DoGetCsw
  <2>3. Do(s, Prepare(s, DataPipe(p), "data"), {"buf"}, {}) BY Processes, DoPrepare
  <2>4. Do(s, a, {"buf"}, {}) BY <2>2, <2>3
  <2> HIDE DEF a
  <2>5. GoesOn(s, t, m, p) BY <1>1, <2>1, <2>4, DoGoesOn
  <2> QED BY <2>5
<1>2. CASE Known(s) /\ m.arg = "STALL"
  <2> DEFINE f == [s.seq EXCEPT !["STALL_ERR"] = 0]
             a == [s EXCEPT !.seq = f]
             b == SpecifiedPath(a, m, "CBW_ERR")
             N == Some("HMSC", "CBW_ERR", m.arg, s.root)
  <2>1. t = Back(b, p)
    <3>1. a = [s EXCEPT !.seq["STALL_ERR"] = 0] OBVIOUS
    <3>2. m.arg # "NONE" BY <1>2
    <3> QED BY <1>2, <3>1, <3>2 DEF SendCbwCheck
  <2>2. f \in Counters BY TypedFields, ZeroCounter
  <2> HIDE DEF f, t
  <2>3. Sets(s, a, "seq", f) BY <2>2, Set1, IsPlain, KindOf
  <2> HIDE DEF a
  <2>4. Typed(a) /\ a.root = s.root
    BY <2>3, DoTyped, IsField DEF Sets, Do, Done, Same
  <2>5. Do(a, b, {"process"}, Some("HMSC", "CBW_ERR", m.arg, a.root))
    BY <2>4, Words, DoSpecifiedPath
  <2> HIDE DEF b
  <2>6. Do(a, b, {"process"}, N) BY <2>4, <2>5
  <2> HIDE DEF N
  <2>7. Do(s, b, {"seq", "process"}, N) BY <2>3, <2>6, SetThenDo DEF Sets
  <2>8. Sets(b, t, "seq", [b.seq EXCEPT ![p] = 0])
    BY <2>1, <2>7, DoTyped, Processes, DoBack
  <2>9. Do(s, t, {"seq", "process"}, N) BY <2>7, <2>8, DoThenSet DEF Sets
  <2>10. ResetsAfterCbw(s, t, m) BY <1>2, <2>9 DEF ResetsAfterCbw, N
  <2> QED BY <2>10 DEF t
<1>3. CASE ~(Known(s) /\ m.arg = "NONE") /\ ~(Known(s) /\ m.arg = "STALL")
  <2>1. t = Back(CommandResult(s, "ERR"), p) BY <1>3 DEF SendCbwCheck
  <2> QED BY <2>1, Processes, DoFails
<1> QED BY <1>1, <1>2, <1>3

ClearsStall(s, t, p, call) ==
  Do(s, t, {"process", "seq"}, Some("HCD", "clr_stall", call, p)) /\ Known(s)

LEMMA DoDataCheck ==
  ASSUME NEW s, Typed(s), NEW m \in Messages, NEW p \in Process, s.seq[p] < Last(p)
  PROVE  LET t == DataCheck(s, m, p)
         IN  GoesOn(s, t, m, p) \/ ClearsStall(s, t, DataPipe(p), "check2") \/ Fails(s, t)
<1> DEFINE t == DataCheck(s, m, p)
<1>1. CASE Known(s) /\ m.arg = DataDone(p)
  <2>1. t = SpecifiedPath(Next1(GetCsw(s), p), m, p)
    <3>1. m.arg # "STALL" BY <1>1 DEF DataDone
    <3> QED BY <1>1, <3>1 DEF DataCheck
  <2>2. Do(s, GetCsw(s), {"buf"}, {}) BY DoGetCsw
  <2>5. GoesOn(s, t, m, p) BY <1>1, <2>1, <2>2, DoGoesOn
  <2> QED BY <2>5
<1>2. CASE Known(s) /\ m.arg = "STALL"
  <2> DEFINE a == [s EXCEPT !.process = p]
             b == ClearStall(a, DataPipe(p), "check2")
             N == Some("HCD", "clr_stall", "check2", DataPipe(p))
  <2>1. t = Next1(b, p)
    <3>1. m.arg # DataDone(p) BY <1>2 DEF DataDone
    <3> QED BY <1>2, <3>1 DEF DataCheck
  <2> HIDE DEF t
  <2>2. Do(s, a, {"process"}, {}) BY Processes, DoProcess
  <2> HIDE DEF a
  <2>3. Do(a, b, {}, N) BY <2>2, DoTyped, Words, Processes, DoClearStall
  <2> HIDE DEF b, N
  <2>4. Do(s, b, {"process"}, N) BY <2>2, <2>3, SetThenDo
  <2>5. b.seq = s.seq BY <2>4, IsField DEF Do, Done, Same
  <2>6. Sets(b, t, "seq", [b.seq EXCEPT ![p] = @ + 1])
    BY <2>1, <2>4, <2>5, DoTyped, Processes, DoNext1
  <2>7. Do(s, t, {"process", "seq"}, N) BY <2>4, <2>6, DoThenSet DEF Sets
  <2> QED BY <1>2, <2>7 DEF ClearsStall, N, t
<1>3. CASE ~(Known(s) /\ m.arg = DataDone(p)) /\ ~(Known(s) /\ m.arg = "STALL")
  <2>1. t = Back(CommandResult(s, "ERR"), p) BY <1>3 DEF DataCheck
  <2> QED BY <2>1, Processes, DoFails
<1> QED BY <1>1, <1>2, <1>3

(* What the class driver's task does, whatever the stage.                  *)
HmscFields ==
  {"process", "seq", "root", "roop", "buf", "by", "bumped", "dev", "csw", "proof", "phase"}
Out(s) ==
  {n \in Messages :
     \/ n.id = "HMSC"
     \/ n.id = "HSTRG" /\ n.what = s.strg
     \/ n.id = "HCD" /\ n.what \in {"seq", "submit", "clr_stall"} /\ n.drv # "lun"}
(* Of these a command's success is reported by none; a step without effect *)
(* on the device sends no other than Mute; the recovery from a phase error *)
(* repeats itself.                                                         *)
Recovering == {"PHASE_ERR", "unknown"}
Fine(s) == {n \in Out(s) : n.id = "HSTRG" => n.arg # "OK"}
Mute(s) == {n \in Fine(s) : n.id = "HSTRG" \/ (n.id = "HCD" /\ n.what = "seq")}
Again(s) == {n \in Fine(s) : n.id = "HMSC" => n.what \in Recovering}
HmscDoes(s, t) ==
  /\ Done(s, t, HmscFields, Out(s))
  /\ t.phase = TRUE \/ (t.phase = s.phase /\ Do(s, t, HmscFields, Out(s)))

LEMMA IsOut ==
  ASSUME NEW s, Typed(s), NEW what \in Word, NEW arg \in Word, NEW drv \in Word
  PROVE  /\ Some("HMSC", what, arg, drv) \subseteq Out(s)
         /\ Some("HSTRG", s.strg, arg, drv) \subseteq Out(s)
         /\ Toggles \subseteq Out(s)
         /\ drv # "lun" => Some("HCD", "clr_stall", arg, drv) \subseteq Out(s)
         /\ \A p \in {"in", "out"} : Asks(p, "bulk") \subseteq Out(s)
         /\ Asks("ctl", "reset") \subseteq Out(s)
<1>1. s.strg \in Word BY TypedFields, Words
<1>2. /\ Some("HMSC", what, arg, drv) \subseteq Messages
      /\ Some("HSTRG", s.strg, arg, drv) \subseteq Messages
      /\ Some("HCD", "clr_stall", arg, drv) \subseteq Messages
  BY <1>1, Words, SomeMessages
<1>3. Toggles \subseteq Messages BY SeqIsIdle
<1>4. \A p \in {"in", "out"} : Asks(p, "bulk") \subseteq Messages
  BY Words, AskIsMessage DEF Asks
<1>5. Asks("ctl", "reset") \subseteq Messages BY Words, AskIsMessage DEF Asks
<1>6. Some("HMSC", what, arg, drv) \subseteq Out(s)
  <2>1. ASSUME NEW n \in Some("HMSC", what, arg, drv) PROVE n \in Out(s)
    <3>1. n.id = "HMSC" BY DEF Some, Msg
    <3>2. n \in Messages BY <1>2
    <3> QED BY <3>1, <3>2 DEF Out
  <2> QED BY <2>1
<1>7. Some("HSTRG", s.strg, arg, drv) \subseteq Out(s) BY <1>2 DEF Out, Some, Msg
<1>8. Toggles \subseteq Out(s) BY <1>3 DEF Out, Some, Msg, Toggles
<1>9. drv # "lun" => Some("HCD", "clr_stall", arg, drv) \subseteq Out(s)
  BY <1>2 DEF Out, Some, Msg
<1>10. \A p \in {"in", "out"} : Asks(p, "bulk") \subseteq Out(s)
  BY <1>4 DEF Out, Asks, Msg
<1>11. Asks("ctl", "reset") \subseteq Out(s) BY <1>5 DEF Out, Asks, Msg
<1> QED BY <1>6, <1>7, <1>8, <1>9, <1>10, <1>11

LEMMA FineMessages ==
  ASSUME NEW s, Typed(s), NEW what \in Word, NEW arg \in Word, NEW drv \in Word
  PROVE  /\ Some("HMSC", what, arg, drv) \subseteq Fine(s)
         /\ what \in Recovering => Some("HMSC", what, arg, drv) \subseteq Again(s)
<1>1. Some("HMSC", what, arg, drv) \subseteq Out(s) BY IsOut
<1>2. \A n \in Some("HMSC", what, arg, drv) : n.id = "HMSC" /\ n.what = what BY DEF Some, Msg
<1> HIDE DEF Some, Out
<1> QED BY <1>1, <1>2 DEF Fine, Again

LEMMA FineResults ==
  ASSUME NEW s, Typed(s), NEW arg \in Word, arg # "OK", NEW drv \in Word
  PROVE  /\ Some("HSTRG", s.strg, arg, drv) \subseteq Fine(s)
         /\ Some("HSTRG", s.strg, arg, drv) \subseteq Mute(s)
         /\ Some("HSTRG", s.strg, arg, drv) \subseteq Again(s)
<1>1. Some("HSTRG", s.strg, arg, drv) \subseteq Out(s) BY IsOut
<1>2. \A n \in Some("HSTRG", s.strg, arg, drv) : n.id = "HSTRG" /\ n.arg = arg BY DEF Some, Msg
<1> HIDE DEF Some, Out
<1> QED BY <1>1, <1>2 DEF Fine, Mute, Again

LEMMA FineRequests ==
  ASSUME NEW s, Typed(s)
  PROVE  /\ Toggles \subseteq Fine(s) /\ Toggles \subseteq Mute(s) /\ Toggles \subseteq Again(s)
         /\ \A p \in {"in", "out"} : Toggles \cup Asks(p, "bulk") \subseteq Fine(s)
         /\ Asks("ctl", "reset") \subseteq Fine(s) /\ Asks("ctl", "reset") \subseteq Again(s)
<1>0. "none" \in Word BY Words
<1>1. /\ Toggles \subseteq Out(s)
      /\ \A p \in {"in", "out"} : Asks(p, "bulk") \subseteq Out(s)
      /\ Asks("ctl", "reset") \subseteq Out(s)
  BY <1>0, IsOut
<1>2. \A n \in Toggles : n.id = "HCD" /\ n.what = "seq" BY DEF Toggles, Some, Msg
<1>3. \A p, utr : \A n \in Asks(p, utr) : n.id = "HCD" BY DEF Asks, Msg
<1> HIDE DEF Toggles, Asks, Out
<1>4. Toggles \subseteq Fine(s) /\ Toggles \subseteq Mute(s) /\ Toggles \subseteq Again(s)
  BY <1>1, <1>2 DEF Fine, Mute, Again
<1>5. \A p \in {"in", "out"} : Asks(p, "bulk") \subseteq Fine(s) BY <1>1, <1>3 DEF Fine
<1>6. Asks("ctl", "reset") \subseteq Fine(s) /\ Asks("ctl", "reset") \subseteq Again(s)
  BY <1>1, <1>3 DEF Fine, Again
<1> QED BY <1>4, <1>5, <1>6

LEMMA FineStalls ==
  ASSUME NEW s, Typed(s), NEW call \in Word, NEW p \in {"in", "out"}
  PROVE  /\ Some("HCD", "clr_stall", call, p) \subseteq Fine(s)
         /\ Some("HCD", "clr_stall", call, p) \subseteq Again(s)
<1>0. p \in Word /\ p # "lun" BY Words
<1>1. Some("HCD", "clr_stall", call, p) \subseteq Out(s) BY <1>0, IsOut
<1>2. \A n \in Some("HCD", "clr_stall", call, p) : n.id = "HCD" BY DEF Some, Msg
<1> HIDE DEF Some, Out
<1> QED BY <1>1, <1>2 DEF Fine, Again

LEMMA HmscMore ==
  ASSUME NEW s, Typed(s), NEW t, NEW F, F \subseteq HmscFields, "phase" \notin F,
         NEW N, N \subseteq Out(s), Do(s, t, F, N)
  PROVE  HmscDoes(s, t)
<1>1. Do(s, t, HmscFields, Out(s)) BY DoMore
<1>2. t.phase = s.phase BY IsField DEF Do, Done, Same
<1> QED BY <1>1, <1>2 DEF HmscDoes, Do

(* A counter set back or forth besides.                                    *)
LEMMA HmscThenSeq ==
  ASSUME NEW s, Typed(s), NEW t, HmscDoes(s, t), NEW v, NEW f, Sets(t, v, "seq", f)
  PROVE  HmscDoes(s, v)
<1>1. Done(s, v, HmscFields, Out(s))
  <2>1. Done(t, v, {"seq"}, {}) BY DEF Sets, Do
  <2> QED BY <2>1, DoneThen DEF HmscDoes, HmscFields
<1>2. v.phase = t.phase BY IsField DEF Sets, Do, Done, Same
<1>3. CASE t.phase = TRUE BY <1>1, <1>2, <1>3 DEF HmscDoes
<1>4. CASE t.phase = s.phase /\ Do(s, t, HmscFields, Out(s))
  <2>1. Do(s, v, HmscFields, Out(s))
    BY <1>4, DoThenSet DEF Sets, HmscFields
  <2> QED BY <1>1, <1>2, <1>4, <2>1 DEF HmscDoes
<1> QED BY <1>3, <1>4 DEF HmscDoes

(* A command goes on, or ends without a success: nothing the report of a   *)
(* success rests on is set. Where the drive is not known any more, or the  *)
(* command block was never made, nothing reaches the device.               *)
Passing == {"process", "seq", "root", "buf"}
Passes(s, t, m) ==
  /\ Do(s, t, Passing, Fine(s))
  /\ m.what \in Process => (Known(s) /\ s.seq[m.what] # 0) \/ Do(s, t, Passing, Mute(s))
  /\ m.what \in Recovering => t.process = s.process /\ Do(s, t, Passing, Again(s))
(* The status wrapper is judged.                                           *)
Concludes(s, v) == EndsOk(s, v) \/ AsksSense(s, v) \/ BreaksPhase(s, v)
HmscTakes(s, t, m) ==
  \/ Passes(s, t, m)
  \/ m.what \in Process /\ Begins(s, t, m, m.what)
  \/ /\ m.what \notin Recovering
     /\ \E v : \E p \in Counted :
          Concludes(s, v) /\ Sets(v, t, "seq", [v.seq EXCEPT ![p] = 0])

LEMMA PassesMore ==
  ASSUME NEW s, NEW t, NEW m, NEW F, F \subseteq Passing, NEW N, N \subseteq Fine(s),
         Do(s, t, F, N),
         m.what \in Process => (Known(s) /\ s.seq[m.what] # 0) \/ N \subseteq Mute(s),
         m.what \in Recovering => "process" \notin F /\ N \subseteq Again(s)
  PROVE  HmscTakes(s, t, m)
<1>1. Do(s, t, Passing, Fine(s)) BY DoMore
<1>2. m.what \in Process => (Known(s) /\ s.seq[m.what] # 0) \/ Do(s, t, Passing, Mute(s))
  BY DoMore
<1>3. m.what \in Recovering => Do(s, t, Passing, Again(s)) BY DoMore
<1>4. "process" \notin F => t.process = s.process BY IsField DEF Do, Done, Same
<1> QED BY <1>1, <1>2, <1>3, <1>4 DEF HmscTakes, Passes

LEMMA TakesFinal ==
  ASSUME NEW s, Typed(s), NEW m \in Messages, NEW p \in Word, NEW g, NEW c \in Counted,
         m.what \notin Recovering, m.what \in Process => s.seq[m.what] # 0
  PROVE  HmscTakes(s, Back(Final(s, m, p, g), c), m)
<1> DEFINE v == Final(s, m, p, g)
           t == Back(v, c)
<1> SUFFICES HmscTakes(s, t, m) OBVIOUS
<1>1. EndsOk(s, v) \/ AsksSense(s, v) \/ TriesAgain(s, v, m, p) \/ BreaksPhase(s, v)
  BY DoFinal
<1> HIDE DEF v
<1>2. Typed(v)
  BY <1>1 DEF EndsOk, AsksSense, TriesAgain, BreaksPhase, Do, Done
<1>3. Sets(v, t, "seq", [v.seq EXCEPT ![c] = 0]) BY <1>2, DoBack
<1> HIDE DEF t
<1>4. CASE Concludes(s, v) BY <1>3, <1>4 DEF HmscTakes
<1>5. CASE TriesAgain(s, v, m, p)
  <2> DEFINE N == Some("HMSC", p, m.arg, s.root)
  <2>1. N \subseteq Fine(s) BY TypedFields, MessageWords, FineMessages
  <2>2. Do(s, v, {"process"}, N) /\ Known(s) BY <1>5 DEF TriesAgain
  <2> HIDE DEF N
  <2>3. Do(s, t, {"process", "seq"}, N) BY <1>3, <2>2, DoThenSet DEF Sets
  <2>4. {"process", "seq"} \subseteq Passing BY DEF Passing
  <2> QED BY <2>1, <2>2, <2>3, <2>4, PassesMore
<1> QED BY <1>1, <1>4, <1>5 DEF Concludes

LEMMA TakesAct ==
  ASSUME NEW s, Typed(s), NEW m \in Messages, NEW g, m.what \in Process
  PROVE  HmscTakes(s, Act(s, m, m.what, g), m)
<1> DEFINE p == m.what
           at == Stage(p, s.seq[p])
           t == Act(s, m, p, g)
<1> SUFFICES HmscTakes(s, t, m) OBVIOUS
<1>0. p \in Counted /\ p \in Word /\ DataPipe(p) \in {"out", "in"} /\ DataPipe(p) # "lun"
      /\ DataPipe(p) \in Word
  BY Processes
<1>1. s.seq[p] \in 0 .. Last(p) BY <1>0, CounterValue
<1>2. /\ at \in {"cbw", "cbw_req", "cbw_check", "data_req", "data_check", "csw_req",
                 "csw_check"}
      /\ at # "csw_check" => s.seq[p] < Last(p)
      /\ at = "cbw" <=> s.seq[p] = 0
  BY <1>1, StageOf
<1>a. s.root \in Word /\ m.arg \in Word /\ m.drv \in Word BY TypedFields, MessageWords
<1>b. /\ Some("HMSC", p, m.arg, s.root) \subseteq Fine(s)
      /\ Some("HMSC", "CBW_ERR", m.arg, s.root) \subseteq Fine(s)
      /\ Some("HSTRG", s.strg, "ERR", "none") \subseteq Fine(s)
      /\ Some("HSTRG", s.strg, "ERR", "none") \subseteq Mute(s)
      /\ Toggles \cup Asks(DataPipe(p), "bulk") \subseteq Fine(s)
      /\ Toggles \cup Asks("out", "bulk") \subseteq Fine(s)
      /\ Toggles \cup Asks("in", "bulk") \subseteq Fine(s)
      /\ Some("HCD", "clr_stall", "check2", DataPipe(p)) \subseteq Fine(s)
  BY <1>0, <1>a, Words, FineMessages, FineResults, FineRequests, FineStalls
<1>c. m.what = p /\ p \notin Recovering BY DEF Process, Recovering
<1>d. /\ {"process", "seq"} \subseteq Passing /\ {"buf", "seq", "process"} \subseteq Passing
      /\ {"seq", "process"} \subseteq Passing /\ {"seq"} \subseteq Passing
  BY DEF Passing
<1>e. {} \subseteq Fine(s) /\ {} \subseteq Mute(s) OBVIOUS
<1>f. ASSUME NEW pipe \in {"in", "out"}, at # "cbw", Requests(s, t, pipe)
      PROVE  HmscTakes(s, t, m)
  <2>1. Toggles \cup Asks(pipe, "bulk") \subseteq Fine(s) BY FineRequests
  <2>2. s.seq[p] # 0 BY <1>2, <1>f
  <2> HIDE DEF p, t, at, Fine, Mute, Recovering, Passing
  <2>3. CASE Known(s) BY <1>c, <1>d, <1>f, <2>1, <2>2, <2>3, PassesMore DEF Requests
  <2>4. CASE ~Known(s) BY <1>c, <1>d, <1>e, <1>f, <2>4, PassesMore DEF Requests
  <2> QED BY <2>3, <2>4
<1>g. ASSUME GoesOn(s, t, m, p) \/ ResetsAfterCbw(s, t, m) \/ Fails(s, t)
             \/ ClearsStall(s, t, DataPipe(p), "check2"),
             at # "cbw"
      PROVE  HmscTakes(s, t, m)
  <2>1. s.seq[p] # 0 BY <1>2, <1>g
  <2> HIDE DEF p, t, at, Fine, Mute, Recovering, Passing
  <2>2. CASE GoesOn(s, t, m, p) BY <1>b, <1>c, <1>d, <2>1, <2>2, PassesMore DEF GoesOn
  <2>3. CASE ResetsAfterCbw(s, t, m)
    BY <1>b, <1>c, <1>d, <2>1, <2>3, PassesMore DEF ResetsAfterCbw
  <2>4. CASE Fails(s, t) BY <1>b, <1>c, <1>d, <2>4, PassesMore DEF Fails
  <2>5. CASE ClearsStall(s, t, DataPipe(p), "check2")
    BY <1>b, <1>c, <1>d, <2>1, <2>5, PassesMore DEF ClearsStall
  <2> QED BY <1>g, <2>2, <2>3, <2>4, <2>5
<1>3. CASE at = "cbw"
  <2>1. t = SendCbw(s, m, p) BY <1>3 DEF Act
  <2>2. Begins(s, t, m, p) BY <1>2, <1>3, <2>1, DoSendCbw
  <2> QED BY <2>2 DEF HmscTakes
<1>4. CASE at = "cbw_req"
  <2>1. t = SendCbwReq(s, p) BY <1>4 DEF Act
  <2>2. Requests(s, t, "out") BY <1>2, <1>4, <2>1, DoSendCbwReq
  <2> QED BY <1>4, <1>f, <2>2
<1>5. CASE at = "cbw_check"
  <2>1. t = SendCbwCheck(s, m, p) BY <1>5 DEF Act
  <2>2. GoesOn(s, t, m, p) \/ ResetsAfterCbw(s, t, m) \/ Fails(s, t)
    BY <1>2, <1>5, <2>1, DoSendCbwCheck
  <2> QED BY <1>5, <1>g, <2>2
<1>6. CASE at = "data_req"
  <2>1. t = Next1(Request([s EXCEPT !.process = p], DataPipe(p)), p) BY <1>6 DEF Act
  <2>2. Requests(s, t, DataPipe(p)) BY <1>0, <1>2, <1>6, <2>1, DoRequestStage
  <2> QED BY <1>0, <1>6, <1>f, <2>2
<1>7. CASE at = "data_check"
  <2>1. t = DataCheck(s, m, p) BY <1>7 DEF Act
  <2>2. GoesOn(s, t, m, p) \/ ClearsStall(s, t, DataPipe(p), "check2") \/ Fails(s, t)
    BY <1>2, <1>7, <2>1, DoDataCheck
  <2> QED BY <1>7, <1>g, <2>2
<1>8. CASE at = "csw_req"
  <2>1. t = Next1(Request([s EXCEPT !.process = p], "in"), p) BY <1>8 DEF Act
  <2>2. Requests(s, t, "in") BY <1>2, <1>8, <2>1, DoRequestStage
  <2> QED BY <1>8, <1>f, <2>2
<1>9. CASE at = "csw_check"
  <2>1. t = Back(Final(s, m, "DATA_STALL", g), p) BY <1>9 DEF Act
  <2>2. s.seq[p] # 0 BY <1>2, <1>9
  <2>3. HmscTakes(s, Back(Final(s, m, "DATA_STALL", g), p), m)
    BY <1>0, <1>c, <2>2, Words, TakesFinal
  <2> QED BY <2>1, <2>3
<1> QED BY <1>2, <1>3, <1>4, <1>5, <1>6, <1>7, <1>8, <1>9

(* A step that keeps to a part of the fields, and sends some of N.         *)
LEMMA DoClearStallCheck ==
  ASSUME NEW s, Typed(s), NEW g
  PROVE  Do(s, ClearStallCheck(s, g), {}, Toggles)
<1>1. Do(s, SetToggle(s), {}, Toggles) BY DoSetToggle
<1>2. Do(s, s, {}, Toggles) BY DoNothing, DoMore
<1> QED BY <1>1, <1>2 DEF ClearStallCheck

(* After a toggle, one more message, and a counter.                        *)
LEMMA ToggleThen ==
  ASSUME NEW s, Typed(s), NEW a, Do(s, a, {}, Toggles),
         NEW b, NEW F, NEW N, Do(a, b, F, N), NEW t, NEW f, Sets(b, t, "seq", f)
  PROVE  Do(s, t, F \cup {"seq"}, Toggles \cup N)
<1>1. Do(s, b, F, Toggles \cup N) BY SeqIsIdle, DoThen
<1> QED BY <1>1, DoThenSet DEF Sets

LEMMA TakesNothing ==
  ASSUME NEW s, Typed(s), NEW m
  PROVE  HmscTakes(s, s, m)
<1>1. Do(s, s, Passing, Fine(s)) /\ Do(s, s, Passing, Mute(s)) /\ Do(s, s, Passing, Again(s))
  BY DoNothing, DoMore
<1> QED BY <1>1 DEF HmscTakes, Passes

LEMMA TakesReset ==
  ASSUME NEW s, Typed(s), NEW m \in Messages, m.id = "HMSC", s.seq["STALL_ERR"] < 3,
         m.what \notin Process
  PROVE  HmscTakes(s, MassStorageReset(s, m), m)
<1> DEFINE v == [s EXCEPT !.root = m.drv]
           t == MassStorageReset(s, m)
<1> SUFFICES HmscTakes(s, t, m) OBVIOUS
<1>0. m.what \in Word /\ m.arg \in Word /\ m.drv \in Word BY MessageWords
<1>1. Sets(s, v, "root", m.drv) BY <1>0, Set1, IsPlain, KindOf
<1>2. t = IF StartedCtl(v) = "QOVR" THEN Post(v, "HMSC", m.what, m.arg, m.drv)
          ELSE Next1(StartCtl(v, "reset"), "STALL_ERR")
  BY DEF MassStorageReset
<1> HIDE DEF v, t
<1>3. Typed(v) /\ v.seq = s.seq /\ Do(s, v, {"root"}, {})
  BY <1>1, DoTyped, IsField DEF Sets, Do, Done, Same
<1>4. CASE StartedCtl(v) = "QOVR"
  <2> DEFINE N == Some("HMSC", m.what, m.arg, m.drv)
  <2>1. N \subseteq Messages /\ N \subseteq Fine(s)
        /\ (m.what \in Recovering => N \subseteq Again(s))
    BY <1>0, SomeMessages, FineMessages
  <2>2. Do(v, t, {}, N) BY <1>2, <1>3, <1>4, <2>1, DoPost
  <2> HIDE DEF N
  <2>3. Do(s, t, {"root"}, N) BY <1>3, <2>2, SetThenDo
  <2>4. {"root"} \subseteq Passing BY DEF Passing
  <2> QED BY <2>1, <2>3, <2>4, PassesMore
<1>5. CASE StartedCtl(v) # "QOVR"
  <2> DEFINE a == StartCtl(v, "reset")
             N == Asks("ctl", "reset")
  <2>1. N \subseteq Fine(s) /\ N \subseteq Again(s) BY FineRequests
  <2>2. Do(v, a, {}, N) BY <1>3, DoStartCtl
  <2>3. t = Next1(a, "STALL_ERR") BY <1>2, <1>5
  <2> HIDE DEF a, N
  <2>4. Do(s, a, {"root"}, N) BY <1>3, <2>2, SetThenDo
  <2>5. a.seq = s.seq BY <1>3, <2>2, IsField DEF Do, Done, Same
  <2>6. Typed(a) /\ "STALL_ERR" \in Counted /\ a.seq["STALL_ERR"] < Last("STALL_ERR")
    BY <2>2, <2>5, DoTyped DEF Counted, Last, Process
  <2>7. Sets(a, t, "seq", [a.seq EXCEPT !["STALL_ERR"] = @ + 1])
    BY <2>3, <2>6, DoNext1
  <2>8. Do(s, t, {"root", "seq"}, N) BY <2>4, <2>7, DoThenSet DEF Sets
  <2>9. {"root", "seq"} \subseteq Passing BY DEF Passing
  <2> QED BY <2>1, <2>8, <2>9, PassesMore
<1> QED BY <1>4, <1>5

LEMMA TakesStallErr ==
  ASSUME NEW s, Typed(s), NEW m \in Messages, m.id = "HMSC", NEW g, m.what \notin Process
  PROVE  HmscTakes(s, StallErr(s, m, g), m)
<1> DEFINE n == s.seq["STALL_ERR"]
           t == StallErr(s, m, g)
           c == ClearStallCheck(s, g)
<1> SUFFICES HmscTakes(s, t, m) OBVIOUS
<1>0. "STALL_ERR" \in Counted /\ Last("STALL_ERR") = 3 BY DEF Counted, Last, Process
<1>1. n \in 0 .. 3 BY <1>0, CounterValue
<1>2. Do(s, c, {}, Toggles) BY DoClearStallCheck
<1>3. /\ ~Known(s) => t = s
      /\ Known(s) /\ n = 0 => t = MassStorageReset(s, m)
      /\ Known(s) /\ n = 1 => t = Next1(ClearStall(s, "out", "check_result"), "STALL_ERR")
      /\ Known(s) /\ n = 2 => t = Next1(ClearStall(c, "in", "check_result"), "STALL_ERR")
      /\ Known(s) /\ n = 3 => t = Back(CommandResult(c, "ERR"), "STALL_ERR")
  BY <1>1 DEF StallErr, StallErrEnds
<1> HIDE DEF t, c
<1>4. Typed(c) /\ c.seq = s.seq /\ c.strg = s.strg
  BY <1>2, DoTyped, IsField DEF Do, Done, Same
<1>a. {"seq"} \subseteq Passing BY DEF Passing
<1>b. Toggles \subseteq Fine(s) /\ Toggles \subseteq Again(s) BY FineRequests
<1>5. CASE ~Known(s)
  <2>1. t = s BY <1>3, <1>5
  <2> QED BY <2>1, TakesNothing
<1>6. CASE Known(s) /\ n = 0 BY <1>3, <1>6, TakesReset
<1>7. CASE Known(s) /\ n = 1
  <2> DEFINE b == ClearStall(s, "out", "check_result")
             N == Some("HCD", "clr_stall", "check_result", "out")
  <2>1. Do(s, b, {}, N) BY Words, DoClearStall
  <2>2. t = Next1(b, "STALL_ERR") BY <1>3, <1>7
  <2>3. N \subseteq Fine(s) /\ N \subseteq Again(s) BY Words, FineStalls
  <2> HIDE DEF b, N
  <2>4. Typed(b) /\ b.seq = s.seq BY <2>1, DoTyped, IsField DEF Do, Done, Same
  <2>5. Sets(b, t, "seq", [b.seq EXCEPT !["STALL_ERR"] = @ + 1])
    BY <1>0, <1>7, <2>2, <2>4, DoNext1
  <2>6. Do(s, t, {"seq"}, N) BY <2>1, <2>5, DoThenSet DEF Sets
  <2> QED BY <1>a, <2>3, <2>6, PassesMore
<1>8. CASE Known(s) /\ n = 2
  <2> DEFINE b == ClearStall(c, "in", "check_result")
             N == Some("HCD", "clr_stall", "check_result", "in")
  <2>1. Do(c, b, {}, N) BY <1>4, Words, DoClearStall
  <2>2. t = Next1(b, "STALL_ERR") BY <1>3, <1>8
  <2>3. N \subseteq Fine(s) /\ N \subseteq Again(s) BY Words, FineStalls
  <2> HIDE DEF b, N
  <2>4. Typed(b) /\ b.seq = s.seq BY <1>4, <2>1, DoTyped, IsField DEF Do, Done, Same
  <2>5. Sets(b, t, "seq", [b.seq EXCEPT !["STALL_ERR"] = @ + 1])
    BY <1>0, <1>8, <2>2, <2>4, DoNext1
  <2>6. Do(s, t, {} \cup {"seq"}, Toggles \cup N) BY <1>2, <2>1, <2>5, ToggleThen
  <2> QED BY <1>a, <1>b, <2>3, <2>6, PassesMore
<1>9. CASE Known(s) /\ n = 3
  <2> DEFINE b == CommandResult(c, "ERR")
             N == Some("HSTRG", s.strg, "ERR", "none")
  <2>1. Do(c, b, {}, N) BY <1>4, Words, DoCommandResult
  <2>2. t = Back(b, "STALL_ERR") BY <1>3, <1>9
  <2>3. N \subseteq Fine(s) /\ N \subseteq Again(s) BY Words, FineResults
  <2> HIDE DEF b, N
  <2>4. Typed(b) BY <2>1, DoTyped
  <2>5. Sets(b, t, "seq", [b.seq EXCEPT !["STALL_ERR"] = 0])
    BY <1>0, <2>2, <2>4, DoBack
  <2>6. Do(s, t, {} \cup {"seq"}, Toggles \cup N) BY <1>2, <2>1, <2>5, ToggleThen
  <2> QED BY <1>a, <1>b, <2>3, <2>6, PassesMore
<1> QED BY <1>1, <1>5, <1>6, <1>7, <1>8, <1>9

LEMMA TakesDataStall ==
  ASSUME NEW s, Typed(s), NEW m \in Messages, NEW g, m.what = "DATA_STALL"
  PROVE  HmscTakes(s, DataStall(s, m, g), m)
<1> DEFINE n == s.seq["DATA_STALL"]
           t == DataStall(s, m, g)
           v == [s EXCEPT !.process = "DATA_STALL"]
           a == [s EXCEPT !.root = m.drv]
           b == ClearStall(a, "in", "check_result")
           c == [b EXCEPT !.process = "DATA_STALL"]
           d == ClearStallCheck(s, g)
           e == GetCsw(d)
           h == SpecifiedPath(e, m, "DATA_STALL")
<1> SUFFICES HmscTakes(s, t, m) OBVIOUS
<1>0. "DATA_STALL" \in Counted /\ Last("DATA_STALL") = 3 BY DEF Counted, Last, Process
<1>1. n \in 0 .. 3 BY <1>0, CounterValue
<1>2. m.arg \in Word /\ m.drv \in Word BY MessageWords
<1>3. /\ ~Known(s) => t = s
      /\ Known(s) /\ n = 0 => t = Next1(c, "DATA_STALL")
      /\ Known(s) /\ n = 1 => t = Next1(h, "DATA_STALL")
      /\ Known(s) /\ n = 2 => t = Next1(Request(v, "in"), "DATA_STALL")
      /\ Known(s) /\ n = 3 => t = Back(Final(s, m, "PHASE_ERR", g), "DATA_STALL")
  BY <1>1 DEF DataStall
<1> HIDE DEF t
<1>4. m.what \notin Process /\ m.what \notin Recovering BY DEF Process, Recovering
<1>5. CASE ~Known(s)
  <2>1. t = s BY <1>3, <1>5
  <2> QED BY <2>1, TakesNothing
<1>6. CASE Known(s) /\ n = 0
  <2> DEFINE N == Some("HCD", "clr_stall", "check_result", "in")
             F == {"root", "process", "seq"}
  <2>1. t = Next1(c, "DATA_STALL") BY <1>3, <1>6
  <2>2. Sets(s, a, "root", m.drv) BY <1>2, Set1, IsPlain, KindOf
  <2> HIDE DEF a
  <2>3. Typed(a) BY <2>2, DoTyped DEF Sets
  <2>4. Do(a, b, {}, N) BY <2>3, Words, DoClearStall
  <2>5. N \subseteq Fine(s) BY Words, FineStalls
  <2> HIDE DEF b, N
  <2>6. Typed(b) BY <2>4, DoTyped
  <2>7. Do(b, c, {"process"}, {}) BY <2>6, Words, DoProcess
  <2> HIDE DEF c
  <2>8. Do(s, b, {"root"}, N) BY <2>2, <2>4, SetThenDo DEF Sets
  <2>9. Do(s, c, {"root", "process"}, N) BY <2>7, <2>8, DoThenSet
  <2>10. Typed(c) /\ c.seq = s.seq BY <2>9, DoTyped, IsField DEF Do, Done, Same
  <2>11. Sets(c, t, "seq", [c.seq EXCEPT !["DATA_STALL"] = @ + 1])
    BY <1>0, <1>6, <2>1, <2>10, DoNext1
  <2>12. Do(s, t, F, N) BY <2>9, <2>11, DoThenSet DEF Sets
  <2>13. F \subseteq Passing BY DEF Passing
  <2> HIDE DEF F
  <2> QED BY <1>4, <2>5, <2>12, <2>13, PassesMore
<1>7. CASE Known(s) /\ n = 1
  <2> DEFINE N == Some("HMSC", "DATA_STALL", m.arg, s.root)
             F == {"buf", "process"}
  <2>1. t = Next1(h, "DATA_STALL") BY <1>3, <1>7
  <2>2. Do(s, d, {}, Toggles) BY DoClearStallCheck
  <2> HIDE DEF d
  <2>3. Typed(d) BY <2>2, DoTyped
  <2>4. Do(d, e, {"buf"}, {}) BY <2>3, DoGetCsw
  <2> HIDE DEF e
  <2>5. Typed(e) /\ e.root = s.root
    BY <2>2, <2>4, DoTyped, IsField DEF Do, Done, Same
  <2>6. Do(e, h, {"process"}, N) BY <2>5, Words, DoSpecifiedPath
  <2>7. N \subseteq Fine(s) BY <1>2, Words, TypedFields, FineMessages
  <2> HIDE DEF h, N
  <2>8. Do(d, h, F, N) BY <2>4, <2>6, SetThenDo
  <2>9. Typed(h) /\ h.seq = s.seq
    BY <2>2, <2>8, DoTyped, IsField DEF Do, Done, Same
  <2>10. Sets(h, t, "seq", [h.seq EXCEPT !["DATA_STALL"] = @ + 1])
    BY <1>0, <1>7, <2>1, <2>9, DoNext1
  <2>11. F \cup {"seq"} \subseteq Passing BY DEF Passing
  <2> HIDE DEF F
  <2>12. Do(s, t, F \cup {"seq"}, Toggles \cup N) BY <2>2, <2>8, <2>10, ToggleThen
  <2>13. Toggles \cup N \subseteq Fine(s) BY <2>7, FineRequests
  <2> QED BY <1>4, <2>11, <2>12, <2>13, PassesMore
<1>8. CASE Known(s) /\ n = 2
  <2>1. t = Next1(Request(v, "in"), "DATA_STALL") BY <1>3, <1>8
  <2>2. Do(s, v, {"process"}, {}) BY Words, DoProcess
  <2> HIDE DEF v
  <2>3. Requests(s, t, "in") BY <1>0, <1>8, <2>1, <2>2, DoRequests
  <2>4. Toggles \cup Asks("in", "bulk") \subseteq Fine(s) BY FineRequests
  <2>5. {"process", "seq"} \subseteq Passing BY DEF Passing
  <2> QED BY <1>4, <2>3, <2>4, <2>5, PassesMore DEF Requests
<1>9. CASE Known(s) /\ n = 3
  <2>1. t = Back(Final(s, m, "PHASE_ERR", g), "DATA_STALL") BY <1>3, <1>9
  <2>2. HmscTakes(s, Back(Final(s, m, "PHASE_ERR", g), "DATA_STALL"), m)
    BY <1>0, <1>4, Words, TakesFinal
  <2> QED BY <2>1, <2>2
<1> QED BY <1>1, <1>5, <1>6, <1>7, <1>8, <1>9

(* What the task does leaves the work to one message.                      *)
LEMMA TakesDoes ==
  ASSUME NEW s, Typed(s), NEW m \in Messages, NEW t, HmscTakes(s, t, m)
  PROVE  HmscDoes(s, t)
<1>0. s.root \in Word /\ m.arg \in Word /\ m.drv \in Word BY TypedFields, MessageWords
<1>1. CASE Passes(s, t, m)
  <2>1. Fine(s) \subseteq Out(s) BY DEF Fine
  <2>2. Passing \subseteq HmscFields /\ "phase" \notin Passing BY DEF Passing, HmscFields
  <2> QED BY <1>1, <2>1, <2>2, HmscMore DEF Passes
<1>2. CASE m.what \in Process /\ Begins(s, t, m, m.what)
  <2>1. Some("HMSC", m.what, m.arg, m.drv) \subseteq Out(s)
    BY <1>0, <1>2, Processes, IsOut
  <2> QED BY <1>2, <2>1, HmscMore DEF Begins, HmscFields
<1>3. ASSUME NEW v, NEW p \in Counted, Concludes(s, v),
             Sets(v, t, "seq", [v.seq EXCEPT ![p] = 0])
      PROVE  HmscDoes(s, t)
  <2>1. Reports(s, "OK") \subseteq Out(s) /\ Reports(s, "PHASE_ERR") \subseteq Out(s)
    BY Words, IsOut DEF Reports
  <2>2. CASE EndsOk(s, v)
    <3>1. HmscDoes(s, v) BY <2>1, <2>2, HmscMore DEF EndsOk, HmscFields
    <3> QED BY <1>3, <3>1, HmscThenSeq
  <2>3. CASE AsksSense(s, v)
    <3>1. Some("HMSC", "DATA_IN", "none", s.root) \subseteq Out(s) BY <1>0, Words, IsOut
    <3>2. Do(s, v, CommandFields \cup {"roop"}, Some("HMSC", "DATA_IN", "none", s.root))
      BY <2>3 DEF AsksSense
    <3>3. CommandFields \cup {"roop"} \subseteq HmscFields /\ "phase" \notin CommandFields \cup {"roop"}
      BY DEF CommandFields, HmscFields
    <3>4. HmscDoes(s, v) BY <3>1, <3>2, <3>3, HmscMore
    <3> QED BY <1>3, <3>4, HmscThenSeq
  <2>4. CASE BreaksPhase(s, v)
    <3>1. Recovers(s) \subseteq Out(s) BY <1>0, Words, IsOut DEF Recovers
    <3>2. Done(s, v, HmscFields, Out(s))
      BY <2>1, <2>4, <3>1, DoneMore DEF BreaksPhase, HmscFields
    <3>3. HmscDoes(s, v) BY <2>4, <3>2 DEF BreaksPhase, HmscDoes
    <3> QED BY <1>3, <3>3, HmscThenSeq
  <2> QED BY <1>3, <2>2, <2>3, <2>4 DEF Concludes
<1> QED BY <1>1, <1>2, <1>3 DEF HmscTakes

(* The task but for the block that it gives back.                          *)
HmscKeeps(s, m, g) ==
  CASE m.what \in Process -> Act(s, m, m.what, g)
    [] m.what = "DATA_STALL" -> DataStall(s, m, g)
    [] m.what \in {"CBW_ERR", "PHASE_ERR"} -> StallErr(s, m, g)
    [] OTHER -> s

LEMMA HmscTaskDoes ==
  ASSUME NEW s, Typed(s), NEW m \in Messages, m.id = "HMSC", NEW g
  PROVE  /\ HmscTask(s, m, g) = RelBlk(HmscKeeps(s, m, g), m)
         /\ HmscTakes(s, HmscKeeps(s, m, g), m)
         /\ HmscDoes(s, HmscKeeps(s, m, g))
<1> DEFINE t == HmscKeeps(s, m, g)
<1>1. HmscTask(s, m, g) = RelBlk(t, m) BY DEF HmscTask, HmscKeeps
<1>2. HmscTakes(s, t, m)
  <2>1. CASE m.what \in Process
    <3>1. t = Act(s, m, m.what, g) BY <2>1 DEF HmscKeeps, Process
    <3> QED BY <2>1, <3>1, TakesAct
  <2>2. CASE m.what = "DATA_STALL"
    <3>1. t = DataStall(s, m, g) BY <2>2 DEF HmscKeeps, Process
    <3> QED BY <2>2, <3>1, TakesDataStall
  <2>3. CASE m.what \in {"CBW_ERR", "PHASE_ERR"}
    <3>1. t = StallErr(s, m, g) BY <2>3 DEF HmscKeeps, Process
    <3>2. m.what \notin Process BY <2>3 DEF Process
    <3> QED BY <3>1, <3>2, TakesStallErr
  <2>4. CASE m.what \notin Process \cup {"DATA_STALL", "CBW_ERR", "PHASE_ERR"}
    <3>1. t = s BY <2>4 DEF HmscKeeps
    <3> QED BY <3>1, TakesNothing
  <2> QED BY <2>1, <2>2, <2>3, <2>4
<1> QED BY <1>1, <1>2, TakesDoes

-----------------------------------------------------------------------------
(* The work under way: the host driver.                                    *)

(* The work that is under way: a message or a transfer, not both.          *)
Idle(s) == \A p \in Pipe : s.pipe[p] = "idle"
OnePipe(s) == \A p, r \in Pipe : s.pipe[p] # "idle" /\ s.pipe[r] # "idle" => p = r
NoWork(s) == NoMsg(s) /\ Idle(s)
OneWork(s) == OneMsg(s) /\ OnePipe(s) /\ (NoMsg(s) \/ Idle(s))

(* The end of a transfer.                                                  *)
EndFields == {"pipe", "ended", "dev", "csw"}
Called(s, utr, status) ==
  CASE utr = "enum" -> Some("MGR", "submit", status, "none")
    [] utr = "lun" -> Some("HSTRG", s.strg, status, "none")
    [] utr = "clear" -> Some("HCD", "clr_result", status, "none")
    [] OTHER -> Some("HMSC", s.process, status, "none")
Told(utr, status) == IF utr = "csw" /\ status \in CswStatus THEN "DATA_OK" ELSE status
DevAfter(s, utr, status) ==
  IF utr = "cbw" /\ status = "NONE" THEN [cur |-> TRUE, by |-> s.by] ELSE s.dev
CswAfter(s, utr, status) ==
  IF utr = "csw" /\ status \in CswStatus THEN [cur |-> s.dev.cur, st |-> status] ELSE s.csw

LEMMA DoCallback ==
  ASSUME NEW s, Typed(s), NEW utr, NEW status \in Word
  PROVE  /\ Called(s, utr, status) \subseteq Messages
         /\ Do(s, Callback(s, utr, status), {}, Called(s, utr, status))
<1>1. s.strg \in Word /\ s.process \in Word BY TypedFields, Words
<1>2. /\ Some("MGR", "submit", status, "none") \subseteq Messages
      /\ Some("HSTRG", s.strg, status, "none") \subseteq Messages
      /\ Some("HCD", "clr_result", status, "none") \subseteq Messages
      /\ Some("HMSC", s.process, status, "none") \subseteq Messages
  BY <1>1, Words, SomeMessages
<1>3. CASE utr = "enum" BY <1>2, <1>3, DoPost DEF Callback, Called
<1>4. CASE utr = "lun" BY <1>2, <1>4, DoPost DEF Callback, Called
<1>5. CASE utr = "clear" BY <1>2, <1>5, DoPost DEF Callback, Called
<1>6. CASE utr \notin {"enum", "lun", "clear"}
  BY <1>2, <1>6, DoPost DEF Callback, Called, CheckResult
<1> QED BY <1>3, <1>4, <1>5, <1>6

LEMMA DoTransferred ==
  ASSUME NEW s, Typed(s), NEW utr, NEW status \in Word
  PROVE  Sets2(s, Transferred(s, utr, status),
               "dev", DevAfter(s, utr, status), "csw", CswAfter(s, utr, status))
<1> DEFINE d == [cur |-> TRUE, by |-> s.by]
           c == [cur |-> s.dev.cur, st |-> status]
           t == Transferred(s, utr, status)
<1>1. d \in [cur : BOOLEAN, by : Word] BY TypedFields
<1>2. c \in [cur : BOOLEAN, st : Word] BY TypedFields
<1> HIDE DEF d, c
<1>3. CASE utr = "cbw" /\ status = "NONE"
  <2>1. t = [s EXCEPT !.dev = d] BY <1>3 DEF Transferred, d
  <2> HIDE DEF t
  <2>2. Sets(s, t, "dev", d) BY <1>1, <2>1, Set1, IsPlain, KindOf
  <2>3. t.csw = s.csw BY <2>2, IsField DEF Sets, Do, Done, Same
  <2>4. Do(s, t, {"dev", "csw"}, {}) BY <2>2, DoMore DEF Sets
  <2>5. Sets2(s, t, "dev", DevAfter(s, utr, status), "csw", CswAfter(s, utr, status))
    BY <1>3, <2>2, <2>3, <2>4 DEF Sets, Sets2, DevAfter, CswAfter, d
  <2> QED BY <2>5 DEF t
<1>4. CASE utr = "csw" /\ status \in CswStatus
  <2>1. t = [s EXCEPT !.csw = c] BY <1>4 DEF Transferred, c
  <2> HIDE DEF t
  <2>2. Sets(s, t, "csw", c) BY <1>2, <2>1, Set1, IsPlain, KindOf
  <2>3. t.dev = s.dev BY <2>2, IsField DEF Sets, Do, Done, Same
  <2>4. Do(s, t, {"dev", "csw"}, {}) BY <2>2, DoMore DEF Sets
  <2>5. Sets2(s, t, "dev", DevAfter(s, utr, status), "csw", CswAfter(s, utr, status))
    BY <1>4, <2>2, <2>3, <2>4 DEF Sets, Sets2, DevAfter, CswAfter, c
  <2> QED BY <2>5 DEF t
<1>5. CASE ~(utr = "cbw" /\ status = "NONE") /\ ~(utr = "csw" /\ status \in CswStatus)
  <2>1. t = s BY <1>5 DEF Transferred
  <2>2. Do(s, s, {"dev", "csw"}, {}) BY DoNothing, DoMore
  <2>3. Sets2(s, s, "dev", DevAfter(s, utr, status), "csw", CswAfter(s, utr, status))
    BY <1>5, <2>2 DEF Sets2, DevAfter, CswAfter
  <2> QED BY <2>1, <2>3
<1> QED BY <1>3, <1>4, <1>5

LEMMA ToldWord == ASSUME NEW utr, NEW status \in Word PROVE Told(utr, status) \in Word
BY Words DEF Told

Ended(s, t, p, status) ==
  LET utr == s.pipe[p] IN
  /\ Do(s, t, EndFields, Called(s, utr, Told(utr, status)))
  /\ t.pipe = [s.pipe EXCEPT ![p] = "idle"]
  /\ t.dev = DevAfter(s, utr, status) /\ t.csw = CswAfter(s, utr, status)

LEMMA IdlePipe ==
  ASSUME NEW f \in Pipes, NEW p \in Pipe
  PROVE  [f EXCEPT ![p] = "idle"] \in Pipes
<1>1. "idle" \in Word BY Words
<1> QED BY <1>1 DEF Pipes, Pipe

LEMMA DoDataEnd ==
  ASSUME NEW s, Typed(s), NEW p \in Pipe, NEW status \in Word
  PROVE  /\ s.pipe[p] = "idle" => DataEnd(s, p, status) = s
         /\ s.pipe[p] # "idle" => Ended(s, DataEnd(s, p, status), p, status)
<1> DEFINE utr == s.pipe[p]
           f == [s.pipe EXCEPT ![p] = "idle"]
           E == s.ended \ {p}
           a == [s EXCEPT !.pipe = f, !.ended = E]
           b == Transferred(a, utr, status)
           t == Callback(b, utr, Told(utr, status))
<1>1. CASE utr = "idle" BY <1>1 DEF DataEnd
<1>2. CASE utr # "idle"
  <2>1. DataEnd(s, p, status) = t BY <1>2 DEF DataEnd, Told
  <2>2. f \in Pipes /\ E \in SUBSET Pipe BY TypedFields, IdlePipe
  <2> HIDE DEF f, E, t
  <2>3. Sets2(s, a, "pipe", f, "ended", E) BY <2>2, Set2, IsPlain, KindOf
  <2> HIDE DEF a
  <2>4. Typed(a) /\ a.by = s.by /\ a.dev = s.dev /\ a.csw = s.csw
    BY <2>3, DoTyped, IsField DEF Sets2, Do, Done, Same
  <2>5. DevAfter(a, utr, status) = DevAfter(s, utr, status)
        /\ CswAfter(a, utr, status) = CswAfter(s, utr, status)
    BY <2>4 DEF DevAfter, CswAfter
  <2>6. Sets2(a, b, "dev", DevAfter(s, utr, status), "csw", CswAfter(s, utr, status))
    BY <2>4, <2>5, DoTransferred
  <2> HIDE DEF b
  <2>7. Do(s, b, EndFields, {}) BY <2>3, <2>6, SetThenDo DEF Sets2, EndFields
  <2>8. b.strg = s.strg /\ b.process = s.process /\ b.pipe = f
    BY <2>3, <2>6, IsField DEF Sets2, Do, Done, Same
  <2>9. Do(b, t, {}, Called(b, utr, Told(utr, status)))
    BY <2>7, ToldWord, DoTyped, DoCallback DEF t
  <2>10. Called(b, utr, Told(utr, status)) = Called(s, utr, Told(utr, status))
    BY <2>8 DEF Called
  <2>11. Do(s, t, EndFields, Called(s, utr, Told(utr, status)))
    BY <2>7, <2>9, <2>10, SetThenDo
  <2>12. t.pipe = f /\ t.dev = b.dev /\ t.csw = b.csw
    BY <2>8, <2>9, IsField DEF Do, Done, Same
  <2>13. Ended(s, t, p, status) BY <2>6, <2>11, <2>12 DEF Ended, Sets2, f
  <2> QED BY <1>2, <2>1, <2>13
<1> QED BY <1>1, <1>2

LEMMA EndKeepsOneWork ==
  ASSUME NEW s, Typed(s), NEW p \in Pipe, NEW status \in Word, OneWork(s)
  PROVE  OneWork(DataEnd(s, p, status))
<1> DEFINE t == DataEnd(s, p, status)
<1>1. CASE s.pipe[p] = "idle" BY <1>1, DoDataEnd
<1>2. CASE s.pipe[p] # "idle"
  <2>1. Ended(s, t, p, status) BY <1>2, DoDataEnd
  <2> HIDE DEF t
  <2>2. NoMsg(s) BY <1>2 DEF OneWork, Idle
  <2>3. OneMsg(t) BY <2>1, <2>2 DEF Ended, Do
  <2>4. s.pipe \in [Pipe -> Word] BY TypedFields DEF Pipes
  <2>5. Idle(t) BY <1>2, <2>1, <2>4 DEF OneWork, OnePipe, Idle, Ended
  <2>6. OnePipe(t) BY <2>5 DEF Idle, OnePipe
  <2>7. OneWork(t) BY <2>3, <2>5, <2>6 DEF OneWork
  <2> QED BY <2>7 DEF t
<1> QED BY <1>1, <1>2

(* What the host driver's task may send.                                   *)
HcdFields == {"pipe", "ended", "dev", "csw", "conn", "ints", "stall"}
HcdOut(s) ==
  {n \in Messages :
     \/ n.id = "MGR" /\ n.what \in {"attach", "detach"}
     \/ n.id = "MGR" /\ n.what = "submit" /\ s.pipe["ctl"] = "enum"
     \/ n.id = "HSTRG" /\ n.what = s.strg
     \/ n.id = "HMSC"
     \/ n.id = "HCD"}

LEMMA CalledOut ==
  ASSUME NEW s, Typed(s), NEW p \in Pipe, NEW status \in Word
  PROVE  Called(s, s.pipe[p], status) \subseteq HcdOut(s)
<1> DEFINE N == Called(s, s.pipe[p], status)
<1> SUFFICES N \subseteq HcdOut(s) OBVIOUS
<1>1. N \subseteq Messages BY DoCallback
<1>2. s.pipe[p] = "enum" => p = "ctl" BY TypedFields DEF Pipes, Pipe
<1>3. CASE s.pipe[p] = "enum"
  <2>1. \A n \in N : n.id = "MGR" /\ n.what = "submit" BY <1>3 DEF Called, Some, Msg
  <2> HIDE DEF N
  <2> QED BY <1>1, <1>2, <1>3, <2>1 DEF HcdOut
<1>4. CASE s.pipe[p] = "lun"
  <2>1. \A n \in N : n.id = "HSTRG" /\ n.what = s.strg BY <1>4 DEF Called, Some, Msg
  <2> HIDE DEF N
  <2> QED BY <1>1, <2>1 DEF HcdOut
<1>5. CASE s.pipe[p] = "clear"
  <2>1. \A n \in N : n.id = "HCD" BY <1>5 DEF Called, Some, Msg
  <2> HIDE DEF N
  <2> QED BY <1>1, <2>1 DEF HcdOut
<1>6. CASE s.pipe[p] \notin {"enum", "lun", "clear"}
  <2>1. \A n \in N : n.id = "HMSC" BY <1>6 DEF Called, Some, Msg
  <2> HIDE DEF N
  <2> QED BY <1>1, <2>1 DEF HcdOut
<1> QED BY <1>3, <1>4, <1>5, <1>6

LEMMA EndDoes ==
  ASSUME NEW s, Typed(s), NEW p \in Pipe, NEW status \in Word
  PROVE  LET t == DataEnd(s, p, status)
         IN  /\ Done(s, t, EndFields, HcdOut(s))
             /\ OneWork(s) => OneWork(t)
             /\ Idle(s) => t = s
             /\ t.pipe["ctl"] = "enum" => s.pipe["ctl"] = "enum"
<1> DEFINE t == DataEnd(s, p, status)
<1>1. OneWork(s) => OneWork(t) BY EndKeepsOneWork
<1>2. Idle(s) => t = s BY DoDataEnd DEF Idle
<1>3. CASE s.pipe[p] = "idle"
  <2>1. t = s BY <1>3, DoDataEnd
  <2>2. Done(s, s, EndFields, HcdOut(s)) BY DoNothing, DoMore, DoTyped
  <2> QED BY <1>1, <1>2, <2>1, <2>2
<1>4. CASE s.pipe[p] # "idle"
  <2> DEFINE st == Told(s.pipe[p], status)
             N == Called(s, s.pipe[p], st)
  <2>1. Ended(s, t, p, status) BY <1>4, DoDataEnd
  <2>2. st \in Word BY ToldWord
  <2>3. N \subseteq HcdOut(s)
    <3> HIDE DEF st
    <3> QED BY <2>2, CalledOut
  <2>4. Do(s, t, EndFields, N) BY <2>1 DEF Ended
  <2>5. s.pipe \in [Pipe -> Word] /\ "ctl" \in Pipe BY TypedFields DEF Pipes, Pipe
  <2>6. t.pipe = [s.pipe EXCEPT ![p] = "idle"] BY <2>1 DEF Ended
  <2> HIDE DEF t, N
  <2>7. Done(s, t, EndFields, HcdOut(s)) BY <2>3, <2>4, DoMore, DoTyped
  <2>8. t.pipe["ctl"] = "enum" => s.pipe["ctl"] = "enum" BY <2>5, <2>6
  <2> QED BY <1>1, <1>2, <2>7, <2>8 DEF t
<1> QED BY <1>3, <1>4

HcdDoes(s, t) ==
  /\ Done(s, t, HcdFields, HcdOut(s))
  /\ t.pipe["ctl"] = "enum" => s.pipe["ctl"] = "enum"
KeepsWork(s, t) == OneWork(s) => OneWork(t)
(* Where no transfer is under way nothing is done that makes work.         *)
Rests(s, t) ==
  Idle(s) => Idle(t) /\ \A n \in Queued(t) : IsWork(n) => n \in Queued(s)

LEMMA HcdThen ==
  ASSUME NEW s, NEW a, NEW t, HcdDoes(s, a), HcdDoes(a, t)
  PROVE  HcdDoes(s, t)
<1>1. a.strg = s.strg BY IsField DEF HcdDoes, Done, Same, HcdFields
<1>2. HcdOut(a) \subseteq HcdOut(s) BY <1>1 DEF HcdOut, HcdDoes
<1>3. Done(s, t, HcdFields, HcdOut(s)) BY <1>2, DoneThen DEF HcdDoes
<1> QED BY <1>3 DEF HcdDoes

LEMMA RestsThen ==
  ASSUME NEW s, NEW a, NEW t, Rests(s, a), Rests(a, t)
  PROVE  Rests(s, t)
BY DEF Rests

LEMMA HcdMore ==
  ASSUME NEW s, NEW t, NEW F, F \subseteq HcdFields, NEW N, N \subseteq HcdOut(s),
         Do(s, t, F, N), t.pipe = s.pipe
  PROVE  /\ HcdDoes(s, t)
         /\ Idly(N) => KeepsWork(s, t) /\ Rests(s, t)
         /\ NoWork(s) => OneWork(t)
<1>1. HcdDoes(s, t) BY DoMore DEF HcdDoes, Do
<1>2. Idle(t) <=> Idle(s) BY DEF Idle
<1>3. OnePipe(t) <=> OnePipe(s) BY DEF OnePipe
<1>4. NoWork(s) => OneWork(t) BY <1>2 DEF NoWork, OneWork, Do, OnePipe, Idle
<1>5. ASSUME Idly(N) PROVE KeepsWork(s, t) /\ Rests(s, t)
  <2>1. (NoMsg(s) => NoMsg(t)) /\ (OneMsg(s) => OneMsg(t)) BY <1>5, DoIdly
  <2>2. KeepsWork(s, t) BY <1>2, <1>3, <2>1 DEF KeepsWork, OneWork
  <2>3. Rests(s, t) BY <1>2, <1>5 DEF Rests, Do, Done, Idly
  <2> QED BY <2>2, <2>3
<1> QED BY <1>1, <1>4, <1>5

LEMMA HcdEnds ==
  ASSUME NEW s, Typed(s), NEW p \in Pipe, NEW status \in Word
  PROVE  LET t == DataEnd(s, p, status)
         IN  HcdDoes(s, t) /\ KeepsWork(s, t) /\ Rests(s, t)
<1> DEFINE t == DataEnd(s, p, status)
<1>1. /\ Done(s, t, EndFields, HcdOut(s)) /\ (OneWork(s) => OneWork(t)) /\ (Idle(s) => t = s)
      /\ t.pipe["ctl"] = "enum" => s.pipe["ctl"] = "enum"
  BY EndDoes
<1>2. EndFields \subseteq HcdFields BY DEF EndFields, HcdFields
<1> HIDE DEF t
<1>3. HcdDoes(s, t) /\ KeepsWork(s, t) /\ Rests(s, t)
  BY <1>1, <1>2, DoneMore DEF HcdDoes, KeepsWork, Rests
<1> QED BY <1>3 DEF t

LEMMA HcdEndTransfers ==
  ASSUME NEW s, Typed(s)
  PROVE  LET t == EndTransfers(s)
         IN  HcdDoes(s, t) /\ KeepsWork(s, t) /\ Rests(s, t)
<1> DEFINE a == DataEnd(s, "ctl", "ERR")
           b == DataEnd(a, "out", "ERR")
           c == DataEnd(b, "in", "ERR")
           d == [c EXCEPT !.conn = FALSE]
           t == EndTransfers(s)
<1> SUFFICES HcdDoes(s, t) /\ KeepsWork(s, t) /\ Rests(s, t) OBVIOUS
<1>1. t = IF ~s.conn THEN s ELSE d BY DEF EndTransfers
<1>2. "ctl" \in Pipe /\ "out" \in Pipe /\ "in" \in Pipe /\ "ERR" \in Word
  BY Words DEF Pipe
<1>3. HcdDoes(s, a) /\ KeepsWork(s, a) /\ Rests(s, a) BY <1>2, HcdEnds
<1> HIDE DEF a
<1>4. Typed(a) BY <1>3 DEF HcdDoes, Done
<1>5. HcdDoes(a, b) /\ KeepsWork(a, b) /\ Rests(a, b) BY <1>2, <1>4, HcdEnds
<1> HIDE DEF b
<1>6. Typed(b) BY <1>5 DEF HcdDoes, Done
<1>7. HcdDoes(b, c) /\ KeepsWork(b, c) /\ Rests(b, c) BY <1>2, <1>6, HcdEnds
<1> HIDE DEF c
<1>8. Typed(c) BY <1>7 DEF HcdDoes, Done
<1>9. Sets(c, d, "conn", FALSE) BY <1>8, Set1, IsPlain, KindOf
<1> HIDE DEF d
<1>10. d.pipe = c.pipe BY <1>9, IsField DEF Sets, Do, Done, Same
<1>11. HcdDoes(c, d) /\ KeepsWork(c, d) /\ Rests(c, d)
  BY <1>9, <1>10, HcdMore DEF Sets, Idly, HcdFields
<1>12. HcdDoes(s, c) BY <1>3, <1>5, <1>7, HcdThen
<1>13. HcdDoes(s, d) BY <1>11, <1>12, HcdThen
<1>14. KeepsWork(s, d) BY <1>3, <1>5, <1>7, <1>11 DEF KeepsWork
<1>15. Rests(s, d) BY <1>3, <1>5, <1>7, <1>11, RestsThen
<1>16. Do(s, s, {}, {}) BY DoNothing
<1>17. HcdDoes(s, s) /\ KeepsWork(s, s) /\ Rests(s, s)
  BY <1>16, HcdMore DEF Idly
<1> QED BY <1>1, <1>13, <1>14, <1>15, <1>17

LEMMA HcdNotif ==
  ASSUME NEW s, Typed(s), NEW a, NEW v \in {"none", "attch", "dtch"},
         a = [s EXCEPT !.ints = v], NEW change \in {"attach", "detach"}
  PROVE  LET t == NotifAtorDetach(a, change)
         IN  HcdDoes(s, t) /\ KeepsWork(s, t) /\ Rests(s, t)
<1> DEFINE N == Some("MGR", change, "none", "none")
           t == NotifAtorDetach(a, change)
<1> SUFFICES HcdDoes(s, t) /\ KeepsWork(s, t) /\ Rests(s, t) OBVIOUS
<1>1. Sets(s, a, "ints", v) BY Set1, IsPlain, KindOf
<1>2. change \in Word BY Words
<1>3. N \subseteq Messages BY <1>2, Words, SomeMessages
<1>4. Typed(a) BY <1>1, DoTyped DEF Sets
<1>5. Do(a, t, {}, N) BY <1>3, <1>4, DoPost DEF NotifAtorDetach
<1>6. \A n \in N : n.id = "MGR" /\ n.what = change BY DEF Some, Msg
<1> HIDE DEF N, t
<1>7. N \subseteq HcdOut(s) BY <1>3, <1>6 DEF HcdOut
<1>8. Idly(N) BY <1>6 DEF Idly, IsWork
<1>9. Do(s, t, {"ints"}, N) BY <1>1, <1>5, SetThenDo DEF Sets
<1>10. t.pipe = s.pipe BY <1>9, IsField DEF Do, Done, Same
<1>11. {"ints"} \subseteq HcdFields BY DEF HcdFields
<1> HIDE DEF HcdFields
<1> QED BY <1>7, <1>8, <1>9, <1>10, <1>11, HcdMore

LEMMA HcdAttach ==
  ASSUME NEW s, Typed(s)
  PROVE  LET t == AttachProcess(s)
         IN  HcdDoes(s, t) /\ KeepsWork(s, t) /\ Rests(s, t)
<1>1. CASE s.plug
  <2> DEFINE a == [s EXCEPT !.ints = "dtch"]
  <2>1. AttachProcess(s) = NotifAtorDetach(a, "attach") BY <1>1 DEF AttachProcess
  <2> QED BY <2>1, HcdNotif
<1>2. CASE ~s.plug
  <2> DEFINE a == [s EXCEPT !.ints = "attch"]
  <2>1. AttachProcess(s) = NotifAtorDetach(a, "detach") BY <1>2 DEF AttachProcess
  <2> QED BY <2>1, HcdNotif
<1> QED BY <1>1, <1>2

LEMMA HcdDetach ==
  ASSUME NEW s, Typed(s)
  PROVE  LET t == DetachProcess(EndTransfers(s))
         IN  HcdDoes(s, t) /\ KeepsWork(s, t) /\ Rests(s, t)
<1> DEFINE a == EndTransfers(s)
           t == AttachProcess(a)
<1>1. HcdDoes(s, a) /\ KeepsWork(s, a) /\ Rests(s, a) BY HcdEndTransfers
<1> HIDE DEF a
<1>2. Typed(a) BY <1>1 DEF HcdDoes, Done
<1>3. HcdDoes(a, t) /\ KeepsWork(a, t) /\ Rests(a, t) BY <1>2, HcdAttach
<1> HIDE DEF t
<1>4. HcdDoes(s, t) BY <1>1, <1>3, HcdThen
<1>5. KeepsWork(s, t) BY <1>1, <1>3 DEF KeepsWork
<1>6. Rests(s, t) BY <1>1, <1>3, RestsThen
<1>7. t = DetachProcess(EndTransfers(s)) BY DEF t, a, DetachProcess
<1> QED BY <1>4, <1>5, <1>6, <1>7

(* A request for a transfer is carried out: the transfer is under way, or  *)
(* has failed.                                                             *)
SubmitUtr(s, m) == IF m.arg = "ctl" THEN m.drv ELSE s.buf[m.arg]
Submits(s, t, m) ==
  LET p == m.arg
      utr == SubmitUtr(s, m) IN
  \/ Sets2(s, t, "pipe", [s.pipe EXCEPT ![p] = utr], "ended", s.ended \ {p})
  \/ /\ Do(s, t, {"pipe", "ended"}, Called(s, utr, "ERR"))
     /\ t.pipe = [s.pipe EXCEPT ![p] = "idle"]

LEMMA SubmitPipe ==
  ASSUME NEW s, Typed(s), NEW m \in Messages, m.id = "HCD", m.what = "submit"
  PROVE  /\ m.arg \in Pipe
         /\ SubmitUtr(s, m) \in {"lun", "clear", "reset", "data", "cbw", "csw"}
         /\ [s.pipe EXCEPT ![m.arg] = SubmitUtr(s, m)] \in Pipes
<1>1. m.arg \in {"out", "in"} \/ (m.arg = "ctl" /\ m.drv \in {"lun", "clear", "reset"})
  BY DEF Messages
<1>2. s.buf \in [{"out", "in"} -> {"data", "cbw", "csw"}] /\ s.pipe \in Pipes BY TypedFields
<1>3. m.arg \in Pipe /\ SubmitUtr(s, m) \in {"lun", "clear", "reset", "data", "cbw", "csw"}
  BY <1>1, <1>2 DEF Pipe, SubmitUtr
<1>4. m.arg = "ctl" => SubmitUtr(s, m) \in {"lun", "clear", "reset"}
  BY <1>1 DEF SubmitUtr
<1>5. m.arg # "ctl" => m.arg \in {"out", "in"} /\ SubmitUtr(s, m) \in {"data", "cbw", "csw"}
  BY <1>1, <1>2 DEF SubmitUtr
<1>6. SubmitUtr(s, m) \in Word BY <1>3, Words
<1> HIDE DEF SubmitUtr
<1>7. [s.pipe EXCEPT ![m.arg] = SubmitUtr(s, m)] \in [Pipe -> Word]
  BY <1>2, <1>6 DEF Pipes
<1>8. [s.pipe EXCEPT ![m.arg] = SubmitUtr(s, m)] \in Pipes
  BY <1>2, <1>3, <1>4, <1>5, <1>7 DEF Pipes, Pipe
<1> QED BY <1>3, <1>8

LEMMA DoSubmit ==
  ASSUME NEW s, Typed(s), NEW m \in Messages, m.id = "HCD", m.what = "submit"
  PROVE  Submits(s, SetSubmitutr(s, m), m)
<1> DEFINE p == m.arg
           utr == SubmitUtr(s, m)
           f == [s.pipe EXCEPT ![p] = utr]
           E == s.ended \ {p}
           a == [s EXCEPT !.pipe = f, !.ended = E]
           t == SetSubmitutr(s, m)
           b == DataEnd(a, p, "ERR")
<1> SUFFICES Submits(s, t, m) OBVIOUS
<1>1. p \in Pipe /\ utr \in {"lun", "clear", "reset", "data", "cbw", "csw"} /\ f \in Pipes
  BY SubmitPipe
<1>2. E \in SUBSET Pipe BY TypedFields
<1>3. t = a \/ t = b
  BY DEF SetSubmitutr, SubmitUtr
<1> HIDE DEF t
<1>4. DOMAIN s.pipe = Pipe BY TypedFields DEF Pipes
<1>5. f[p] = utr BY <1>1, <1>4
<1>6. [f EXCEPT ![p] = "idle"] = [s.pipe EXCEPT ![p] = "idle"] BY <1>4
<1> HIDE DEF f, E, utr
<1>7. Sets2(s, a, "pipe", f, "ended", E) BY <1>1, <1>2, Set2, IsPlain, KindOf
<1> HIDE DEF a
<1>8. Typed(a) /\ a.pipe = f /\ a.strg = s.strg /\ a.process = s.process
      /\ a.dev = s.dev /\ a.csw = s.csw
  BY <1>7, DoTyped, IsField DEF Sets2, Do, Done, Same
<1>9. CASE t = a BY <1>7, <1>9 DEF Submits, f, E, utr
<1>10. CASE t = b
  <2>1. "ERR" \in Word /\ utr # "idle" BY <1>1, Words
  <2>2. Ended(a, t, p, "ERR") BY <1>1, <1>5, <1>8, <1>10, <2>1, DoDataEnd
  <2>3. Told(utr, "ERR") = "ERR" BY DEF Told, CswStatus
  <2>4. Called(a, utr, "ERR") = Called(s, utr, "ERR") BY <1>8 DEF Called
  <2>5. Do(a, t, EndFields, Called(s, utr, "ERR")) BY <1>5, <1>8, <2>2, <2>3, <2>4 DEF Ended
  <2>6. t.dev = s.dev /\ t.csw = s.csw
    BY <1>8, <2>2 DEF Ended, DevAfter, CswAfter, CswStatus
  <2>7. Do(s, t, EndFields, Called(s, utr, "ERR"))
    BY <1>7, <2>5, SetThenDo DEF Sets2, EndFields
  <2>8. Do(s, t, {"pipe", "ended"}, Called(s, utr, "ERR"))
    BY <2>6, <2>7 DEF Do, Done, Same, EndFields
  <2>9. t.pipe = [s.pipe EXCEPT ![p] = "idle"] BY <1>6, <1>8, <2>2 DEF Ended
  <2> QED BY <2>8, <2>9 DEF Submits, utr
<1> QED BY <1>3, <1>9, <1>10

(* What a task has done with the message it was picked for: the block is   *)
(* given back, or was none, or is queued again.                            *)
Freed(s, t, m, F, N) ==
  /\ Typed(t) /\ Same(s, t, F \cup {"used", "q"})
  /\ Queued(s) \subseteq Queued(t) /\ Queued(t) \subseteq Queued(s) \cup N
  /\ Acc(s, m.blk) => Acc(t, 0)
SameWork(a, t) ==
  /\ OneWork(t) = OneWork(a) /\ Idle(t) = Idle(a) /\ Queued(t) = Queued(a)
  /\ t.pipe = a.pipe

LEMMA Frees ==
  ASSUME NEW s, NEW a, NEW F, NEW N, Done(s, a, F, N), NEW m \in Messages
  PROVE  LET t == RelBlk(a, m)
         IN  Freed(s, t, m, F, N) /\ SameWork(a, t) /\ Same(a, t, {"used"})
<1> DEFINE t == RelBlk(a, m)
<1> SUFFICES Freed(s, t, m, F, N) /\ SameWork(a, t) /\ Same(a, t, {"used"}) OBVIOUS
<1>1. Typed(a) BY DEF Done
<1>2. /\ Typed(t) /\ Same(a, t, {"used"})
      /\ Queued(t) = Queued(a) /\ NoMsg(t) = NoMsg(a) /\ OneMsg(t) = OneMsg(a)
      /\ Acc(a, m.blk) => Acc(t, 0)
  BY <1>1, Released
<1> HIDE DEF t
<1>3. m.blk \in Blk BY MessageFields DEF Blk
<1>4. Acc(s, m.blk) => Acc(t, 0) BY <1>2, <1>3 DEF Done
<1>5. t.pipe = a.pipe BY <1>2, IsField DEF Same
<1>6. SameWork(a, t) BY <1>2, <1>5 DEF SameWork, OneWork, Idle, OnePipe
<1>7. Same(s, t, F \cup {"used", "q"}) BY <1>2 DEF Done, Same
<1> QED BY <1>2, <1>4, <1>6, <1>7 DEF Freed, Done

LEMMA FreesNone ==
  ASSUME NEW s, NEW t, NEW F, NEW N, Done(s, t, F, N), NEW m, m.blk = 0
  PROVE  Freed(s, t, m, F, N)
<1>1. 0 \in Blk BY SchedulerAssumption DEF Blk
<1> QED BY <1>1 DEF Done, Freed

LEMMA FreedMore ==
  ASSUME NEW s, NEW t, NEW m, NEW F, NEW N, Freed(s, t, m, F, N),
         NEW H, F \subseteq H, NEW K, N \subseteq K
  PROVE  Freed(s, t, m, H, K)
BY DEF Freed, Same

LEMMA CalledOutToo ==
  ASSUME NEW s, Typed(s), NEW utr, utr # "enum", NEW status \in Word
  PROVE  Called(s, utr, status) \subseteq HcdOut(s)
<1> DEFINE N == Called(s, utr, status)
<1> SUFFICES N \subseteq HcdOut(s) OBVIOUS
<1>1. N \subseteq Messages BY DoCallback
<1>2. \A n \in N : (n.id = "HSTRG" /\ n.what = s.strg) \/ n.id = "HCD" \/ n.id = "HMSC"
  BY DEF Called, Some, Msg
<1> HIDE DEF N
<1> QED BY <1>1, <1>2 DEF HcdOut

LEMMA HcdSubmits ==
  ASSUME NEW s, Typed(s), NEW m \in Messages, m.id = "HCD", m.what = "submit"
  PROVE  LET t == SetSubmitutr(s, m)
         IN  HcdDoes(s, t) /\ (NoWork(s) => OneWork(t))
<1> DEFINE p == m.arg
           utr == SubmitUtr(s, m)
           t == SetSubmitutr(s, m)
<1> SUFFICES HcdDoes(s, t) /\ (NoWork(s) => OneWork(t)) OBVIOUS
<1>1. p \in Pipe /\ utr \in {"lun", "clear", "reset", "data", "cbw", "csw"}
  BY SubmitPipe
<1>2. Submits(s, t, m) BY DoSubmit
<1>3. s.pipe \in [Pipe -> Word] BY TypedFields DEF Pipes
<1> HIDE DEF t, utr
<1>4. CASE Sets2(s, t, "pipe", [s.pipe EXCEPT ![p] = utr], "ended", s.ended \ {p})
  <2>1. t.pipe = [s.pipe EXCEPT ![p] = utr] /\ Do(s, t, {"pipe", "ended"}, {})
    BY <1>4 DEF Sets2
  <2>2. Done(s, t, HcdFields, HcdOut(s)) BY <2>1, DoMore, DoTyped DEF HcdFields
  <2>3. t.pipe["ctl"] = "enum" => s.pipe["ctl"] = "enum" BY <1>1, <1>3, <2>1 DEF Pipe
  <2>4. ASSUME NoWork(s) PROVE OneWork(t)
    <3>1. NoMsg(t) /\ OneMsg(t) BY <2>1, <2>4, DoIdly, NoMsgOneMsg DEF NoWork, Idly
    <3>2. OnePipe(t)
      <4>1. \A q \in Pipe : q # p => t.pipe[q] = "idle" BY <1>3, <2>1, <2>4 DEF NoWork, Idle
      <4> QED BY <4>1 DEF OnePipe
    <3> QED BY <3>1, <3>2 DEF OneWork
  <2> QED BY <2>2, <2>3, <2>4 DEF HcdDoes
<1>5. CASE /\ Do(s, t, {"pipe", "ended"}, Called(s, utr, "ERR"))
           /\ t.pipe = [s.pipe EXCEPT ![p] = "idle"]
  <2>1. Called(s, utr, "ERR") \subseteq HcdOut(s) BY <1>1, Words, CalledOutToo
  <2>2. Done(s, t, HcdFields, HcdOut(s)) BY <1>5, <2>1, DoMore, DoTyped DEF HcdFields
  <2>3. t.pipe["ctl"] = "enum" => s.pipe["ctl"] = "enum" BY <1>1, <1>3, <1>5 DEF Pipe
  <2>4. ASSUME NoWork(s) PROVE OneWork(t)
    <3>1. OneMsg(t) BY <1>5, <2>4 DEF NoWork, Do
    <3>2. Idle(t) BY <1>3, <1>5, <2>4 DEF NoWork, Idle
    <3> QED BY <3>1, <3>2 DEF OneWork, OnePipe, Idle
  <2> QED BY <2>2, <2>3, <2>4 DEF HcdDoes
<1> QED BY <1>2, <1>4, <1>5 DEF Submits, utr

(* The halted endpoint: the message is queued again while the control pipe *)
(* is taken.                                                               *)
ClrStalls(s, t, m) ==
  \/ t = SndMsg(s, m)
  \/ \E v : /\ Do(s, v, {"stall"}, Asks("ctl", "clear")) /\ v.stall = m.arg
            /\ t = RelBlk(v, m)

LEMMA DoClrStall ==
  ASSUME NEW s, Typed(s), NEW m \in Messages
  PROVE  ClrStalls(s, ClrStall(s, m), m)
<1> DEFINE a == [s EXCEPT !.stall = m.arg]
           b == Start(a, "ctl", "clear")
           t == ClrStall(s, m)
<1>1. t = SndMsg(s, m) \/ t = RelBlk(b, m) BY DEF ClrStall
<1>2. Sets(s, a, "stall", m.arg) BY MessageWords, Set1, IsPlain, KindOf
<1> HIDE DEF a, t
<1>3. Typed(a) BY <1>2, DoTyped DEF Sets
<1>4. Do(a, b, {}, Asks("ctl", "clear")) BY <1>3, Words, DoStart
<1> HIDE DEF b
<1>5. Do(s, b, {"stall"}, Asks("ctl", "clear")) BY <1>2, <1>4, SetThenDo DEF Sets
<1>6. b.stall = m.arg BY <1>2, <1>4, IsField DEF Sets, Do, Done, Same
<1> QED BY <1>1, <1>5, <1>6 DEF ClrStalls, t

LEMMA HcdClrStall ==
  ASSUME NEW s, Typed(s), NEW m \in Messages, m.id = "HCD", m.what = "clr_stall"
  PROVE  LET t == ClrStall(s, m)
         IN  /\ Freed(s, t, m, HcdFields, HcdOut(s)) /\ t.pipe = s.pipe
             /\ NoWork(s) => OneWork(t)
<1> DEFINE t == ClrStall(s, m)
<1> SUFFICES /\ Freed(s, t, m, HcdFields, HcdOut(s)) /\ t.pipe = s.pipe
             /\ NoWork(s) => OneWork(t)
  OBVIOUS
<1>1. ClrStalls(s, t, m) BY DoClrStall
<1> HIDE DEF t
<1>2. CASE t = SndMsg(s, m)
  <2>1. /\ Typed(t) /\ Same(s, t, {"q"}) /\ Queued(t) = Queued(s) \cup {m}
        /\ NoMsg(s) => OneMsg(t)
    BY <1>2, Snd
  <2>2. m.blk # 0 BY DEF Messages, Direct
  <2>3. Acc(s, m.blk) => Acc(t, 0) BY <1>2, <2>2, SndAcc
  <2>4. m \in HcdOut(s) BY DEF HcdOut
  <2>5. t.pipe = s.pipe BY <2>1, IsField DEF Same
  <2>6. Same(s, t, HcdFields \cup {"used", "q"}) BY <2>1 DEF Same
  <2>7. Freed(s, t, m, HcdFields, HcdOut(s)) BY <2>1, <2>3, <2>4, <2>6 DEF Freed
  <2>8. NoWork(s) => OneWork(t) BY <2>1, <2>5 DEF NoWork, OneWork, Idle, OnePipe
  <2> QED BY <2>5, <2>7, <2>8
<1>3. ASSUME NEW v, Do(s, v, {"stall"}, Asks("ctl", "clear")), t = RelBlk(v, m)
      PROVE  /\ Freed(s, t, m, HcdFields, HcdOut(s)) /\ t.pipe = s.pipe
             /\ NoWork(s) => OneWork(t)
  <2>1. v.pipe = s.pipe BY <1>3, IsField DEF Do, Done, Same
  <2>2. Asks("ctl", "clear") \subseteq HcdOut(s)
    <3>1. Msg("HCD", 0, "submit", "ctl", "clear") \in Messages BY Words, AskIsMessage
    <3> QED BY <3>1 DEF Asks, Msg, HcdOut
  <2>3. HcdDoes(s, v) /\ (NoWork(s) => OneWork(v))
    BY <1>3, <2>1, <2>2, HcdMore DEF HcdFields
  <2>4. Freed(s, t, m, HcdFields, HcdOut(s)) /\ SameWork(v, t)
    BY <1>3, <2>3, Frees DEF HcdDoes
  <2> QED BY <2>1, <2>3, <2>4 DEF SameWork
<1> QED BY <1>1, <1>2, <1>3 DEF ClrStalls

(* The answer to it: the toggle, and the class driver's next message.      *)
LEMMA DoClrStallResult ==
  ASSUME NEW s, Typed(s), NEW m \in Messages
  PROVE  Do(s, ClrStallResult(s, m), {},
            Toggles \cup Some("HMSC", s.process, m.arg, "none"))
<1> DEFINE N == Some("HMSC", s.process, m.arg, "none")
           a == IF m.arg = "OK" THEN SetToggle(s) ELSE s
           t == ClrStallResult(s, m)
<1> SUFFICES Do(s, t, {}, Toggles \cup N) OBVIOUS
<1>1. m.arg \in Word /\ s.process \in Word BY MessageWords, TypedFields
<1>2. N \subseteq Messages BY <1>1, Words, SomeMessages
<1>3. CASE s.stall = "check_result"
  <2>1. t = Post(s, "HMSC", s.process, m.arg, "none")
    BY <1>3 DEF ClrStallResult, CheckResult
  <2>2. Do(s, t, {}, N)
    <3> HIDE DEF t
    <3> QED BY <1>2, <2>1, DoPost
  <2> HIDE DEF N, t
  <2> QED BY <2>2, DoMore
<1>4. CASE s.stall # "check_result"
  <2>0. Do(s, SetToggle(s), {}, Toggles) BY DoSetToggle
  <2>1. Do(s, s, {}, Toggles) BY DoNothing, DoMore
  <2>2. Do(s, a, {}, Toggles) BY <2>0, <2>1
  <2>3. t = Post(a, "HMSC", s.process, m.arg, "none")
    BY <1>4 DEF ClrStallResult
  <2> HIDE DEF a, t
  <2>4. Do(a, t, {}, N) BY <1>2, <2>2, <2>3, DoTyped, DoPost
  <2> HIDE DEF N
  <2> QED BY <2>2, <2>4, SeqIsIdle, DoThen
<1> QED BY <1>3, <1>4

(* The host driver's task.                                                 *)
HcdTaskDoes(s, t, m) ==
  /\ Freed(s, t, m, HcdFields, HcdOut(s))
  /\ t.pipe["ctl"] = "enum" => s.pipe["ctl"] = "enum"
  /\ IsWork(m) /\ NoWork(s) => OneWork(t)
  /\ ~IsWork(m) => KeepsWork(s, t) /\ Rests(s, t)

LEMMA HcdDirect ==
  ASSUME NEW s, NEW t, HcdDoes(s, t), NEW m \in Messages, m.id = "HCD", m.what \in Direct,
         m.what = "submit" => (NoWork(s) => OneWork(t)),
         m.what # "submit" => KeepsWork(s, t) /\ Rests(s, t)
  PROVE  HcdTaskDoes(s, t, m)
<1>1. m.blk = 0 BY DEF Messages
<1>2. Freed(s, t, m, HcdFields, HcdOut(s)) BY <1>1, FreesNone DEF HcdDoes
<1>3. IsWork(m) <=> m.what = "submit" BY DEF IsWork, Direct
<1> QED BY <1>2, <1>3 DEF HcdTaskDoes, HcdDoes

LEMMA HcdTaskIs ==
  ASSUME NEW s, Typed(s), NEW m \in Messages, m.id = "HCD"
  PROVE  HcdTaskDoes(s, HcdTask(s, m), m)
<1> DEFINE t == HcdTask(s, m)
<1>0. m.what \in {"submit", "end", "attch", "dtch", "seq", "clr_stall", "clr_result"}
      /\ (m.what = "end" => m.drv \in Pipe) /\ m.arg \in Word
  BY MessageWords DEF Messages, Direct
<1>1. CASE m.what = "submit"
  <2>1. t = SetSubmitutr(s, m) BY <1>1 DEF HcdTask
  <2>2. HcdDoes(s, t) /\ (NoWork(s) => OneWork(t)) BY <1>1, <2>1, HcdSubmits
  <2> HIDE DEF t
  <2>3. HcdTaskDoes(s, t, m) BY <1>1, <2>2, HcdDirect DEF Direct
  <2> QED BY <2>3 DEF t
<1>2. CASE m.what = "end"
  <2>1. t = DataEnd(s, m.drv, m.arg) BY <1>2 DEF HcdTask
  <2>2. HcdDoes(s, t) /\ KeepsWork(s, t) /\ Rests(s, t) BY <1>0, <1>2, <2>1, HcdEnds
  <2> HIDE DEF t
  <2>3. HcdTaskDoes(s, t, m) BY <1>2, <2>2, HcdDirect DEF Direct
  <2> QED BY <2>3 DEF t
<1>3. CASE m.what = "attch"
  <2>1. t = AttachProcess(s) BY <1>3 DEF HcdTask
  <2>2. HcdDoes(s, t) /\ KeepsWork(s, t) /\ Rests(s, t) BY <2>1, HcdAttach
  <2> HIDE DEF t
  <2>3. HcdTaskDoes(s, t, m) BY <1>3, <2>2, HcdDirect DEF Direct
  <2> QED BY <2>3 DEF t
<1>4. CASE m.what = "dtch"
  <2>1. t = DetachProcess(EndTransfers(s)) BY <1>4 DEF HcdTask
  <2>2. HcdDoes(s, t) /\ KeepsWork(s, t) /\ Rests(s, t) BY <2>1, HcdDetach
  <2> HIDE DEF t
  <2>3. HcdTaskDoes(s, t, m) BY <1>4, <2>2, HcdDirect DEF Direct
  <2> QED BY <2>3 DEF t
<1>5. CASE m.what = "clr_stall"
  <2>1. t = ClrStall(s, m) BY <1>5 DEF HcdTask
  <2>2. Freed(s, t, m, HcdFields, HcdOut(s)) /\ t.pipe = s.pipe /\ (NoWork(s) => OneWork(t))
    BY <1>5, <2>1, HcdClrStall
  <2>3. IsWork(m) BY <1>5 DEF IsWork
  <2> HIDE DEF t
  <2>4. HcdTaskDoes(s, t, m) BY <2>2, <2>3 DEF HcdTaskDoes
  <2> QED BY <2>4 DEF t
<1>6. CASE m.what = "clr_result"
  <2> DEFINE a == ClrStallResult(s, m)
             N == Toggles \cup Some("HMSC", s.process, m.arg, "none")
  <2>1. t = RelBlk(a, m) BY <1>6 DEF HcdTask
  <2>2. Do(s, a, {}, N) BY DoClrStallResult
  <2> HIDE DEF a, t
  <2>3. N \subseteq HcdOut(s)
    <3>1. Toggles \subseteq Messages /\ Some("HMSC", s.process, m.arg, "none") \subseteq Messages
      BY <1>0, TypedFields, Words, SeqIsIdle, SomeMessages
    <3>2. \A n \in N : n.id = "HCD" \/ n.id = "HMSC" BY DEF Toggles, Some, Msg
    <3>3. N \subseteq Messages BY <3>1
    <3> HIDE DEF N
    <3> QED BY <3>2, <3>3 DEF HcdOut
  <2> HIDE DEF N
  <2>4. a.pipe = s.pipe BY <2>2, IsField DEF Do, Done, Same
  <2>5. HcdDoes(s, a) /\ (NoWork(s) => OneWork(a)) BY <2>2, <2>3, <2>4, HcdMore
  <2>6. Freed(s, t, m, HcdFields, HcdOut(s)) /\ SameWork(a, t)
    BY <2>1, <2>5, Frees DEF HcdDoes
  <2>7. IsWork(m) BY <1>6 DEF IsWork
  <2>8. HcdTaskDoes(s, t, m) BY <2>4, <2>5, <2>6, <2>7 DEF HcdTaskDoes, SameWork
  <2> QED BY <2>8 DEF t
<1>7. CASE m.what = "seq"
  <2>1. t = RelBlk(s, m) BY <1>7 DEF HcdTask
  <2>2. Do(s, s, {}, {}) BY DoNothing
  <2>3. HcdDoes(s, s) /\ KeepsWork(s, s) /\ Rests(s, s) BY <2>2, HcdMore DEF Idly
  <2> HIDE DEF t
  <2>4. Freed(s, t, m, HcdFields, HcdOut(s)) /\ SameWork(s, t)
    BY <2>1, <2>3, Frees DEF HcdDoes
  <2>5. ~IsWork(m) BY <1>7 DEF IsWork
  <2>6. HcdTaskDoes(s, t, m)
    BY <2>3, <2>4, <2>5 DEF HcdTaskDoes, SameWork, KeepsWork, Rests
  <2> QED BY <2>6 DEF t
<1> QED BY <1>0, <1>1, <1>2, <1>3, <1>4, <1>5, <1>6, <1>7

-----------------------------------------------------------------------------
(* The manager.                                                            *)

(* The manager.                                                            *)
LEMMA DoPostOrHalt ==
  ASSUME NEW s, Typed(s), NEW id, NEW what, Some(id, what, "none", "none") \subseteq Messages
  PROVE  Do(s, PostOrHalt(s, id, what), {"halt"}, Some(id, what, "none", "none"))
<1> DEFINE N == Some(id, what, "none", "none")
           t == PostOrHalt(s, id, what)
<1> SUFFICES Do(s, t, {"halt"}, N) OBVIOUS
<1>1. CASE CanPost(s, id)
  <2>1. t = Post(s, id, what, "none", "none") BY <1>1 DEF PostOrHalt
  <2>2. Do(s, t, {}, N)
    <3> HIDE DEF t
    <3> QED BY <2>1, DoPost
  <2> HIDE DEF t, N
  <2> QED BY <2>2, DoMore
<1>2. CASE ~CanPost(s, id)
  <2>1. t = [s EXCEPT !.halt = TRUE] BY <1>2 DEF PostOrHalt
  <2> HIDE DEF t
  <2>2. Sets(s, t, "halt", TRUE) BY <2>1, Set1, IsPlain, KindOf
  <2> HIDE DEF N
  <2> QED BY <2>2, DoMore DEF Sets
<1> QED BY <1>1, <1>2

Opens == Some("HMSCSMP", "open", "none", "none")
MgrFields == {"mode", "conn", "pipe", "chk", "ep", "halt"}
(* A device is new: the enumeration begins.                                *)
Enumerates(s, m) == m.what = "attach" /\ s.mode = "DETACHED"
MgrDoes(s, t, m) ==
  /\ Done(s, t, MgrFields, IF m.what = "submit" THEN Opens ELSE {})
  /\ Enumerates(s, m) =>
       /\ Do(s, t, {"mode", "conn", "pipe"}, {})
       /\ t.pipe = [s.pipe EXCEPT !["ctl"] = "enum"] /\ t.mode = "DEFAULT"
  /\ m.what = "attach" /\ s.mode # "DETACHED" => t = s
  /\ m.what = "detach" =>
       /\ Do(s, t, {"mode", "chk", "ep"}, {}) /\ t.mode = "DETACHED" /\ t.ep = FALSE
       /\ t.chk \subseteq s.chk /\ (s.ep => "zero" \notin t.chk)
  /\ m.what = "submit" =>
       /\ Do(s, t, {"mode", "ep", "halt"}, Opens)
       /\ s.mode # "DEFAULT" => t = s
       /\ s.mode = "DEFAULT" => \/ t.mode = "DETACHED" /\ t.ep = s.ep
                                \/ t.mode = "CONFIGURED" /\ t.ep = TRUE

MgrKeeps(s, m) ==
  CASE m.what = "attach" -> MgrAttach(s)
    [] m.what = "detach" -> MgrDetach(s)
    [] m.what = "submit" -> SubmitResult(s, m)

LEMMA DoMgrAttach ==
  ASSUME NEW s, Typed(s), NEW m, m.what = "attach"
  PROVE  MgrDoes(s, MgrAttach(s), m)
<1> DEFINE t == MgrAttach(s)
           f == [s.pipe EXCEPT !["ctl"] = "enum"]
           a == [s EXCEPT !.mode = "DEFAULT", !.conn = TRUE]
           b == [a EXCEPT !.pipe = f]
<1> SUFFICES MgrDoes(s, t, m) OBVIOUS
<1>1. CASE s.mode # "DETACHED"
  <2>1. t = s BY <1>1 DEF MgrAttach
  <2>2. Done(s, s, MgrFields, {}) BY DoNothing, DoMore, DoTyped
  <2> QED BY <1>1, <2>1, <2>2 DEF MgrDoes, Enumerates
<1>2. CASE s.mode = "DETACHED"
  <2>1. t = b BY <1>2 DEF MgrAttach
  <2>2. f \in Pipes
    <3>1. "enum" \in Word /\ s.pipe \in Pipes BY Words, TypedFields
    <3> QED BY <3>1 DEF Pipes, Pipe
  <2> HIDE DEF t, f
  <2>3. Sets2(s, a, "mode", "DEFAULT", "conn", TRUE) BY Set2, IsPlain, KindOf
  <2> HIDE DEF a
  <2>4. Typed(a) BY <2>3, DoTyped DEF Sets2
  <2>5. Sets(a, b, "pipe", f) BY <2>2, <2>4, Set1, IsPlain, KindOf
  <2> HIDE DEF b
  <2>6. b.mode = "DEFAULT" /\ b.pipe = f
    BY <2>3, <2>5, IsField DEF Sets, Sets2, Do, Done, Same
  <2>7. Do(s, b, {"mode", "conn", "pipe"}, {})
    BY <2>3, <2>5, SetThenDo DEF Sets, Sets2
  <2>8. Done(s, b, MgrFields, {}) BY <2>7, DoMore, DoTyped DEF MgrFields
  <2> QED BY <1>2, <2>1, <2>6, <2>7, <2>8 DEF MgrDoes, Enumerates, f
<1> QED BY <1>1, <1>2

LEMMA DoMgrDetach ==
  ASSUME NEW s, Typed(s), NEW m, m.what = "detach"
  PROVE  MgrDoes(s, MgrDetach(s), m)
<1> DEFINE t == MgrDetach(s)
           c == IF "zero" \in s.chk THEN s.chk \ {"zero"} ELSE s.chk \ {"max"}
           d == IF s.ep THEN c ELSE s.chk
           a == [s EXCEPT !.chk = d]
           b == [a EXCEPT !.mode = "DETACHED", !.ep = FALSE]
<1> SUFFICES MgrDoes(s, t, m) OBVIOUS
<1>1. t = b
  <2>1. s = [s EXCEPT !.chk = s.chk] BY IsField DEF Typed
  <2>2. DriveClose(s) = [s EXCEPT !.chk = c] BY DEF DriveClose
  <2> QED BY <2>1, <2>2 DEF MgrDetach
<1>2. s.chk \in SUBSET {"zero", "max"} BY TypedFields
<1>3. d \in SUBSET {"zero", "max"} /\ d \subseteq s.chk /\ (s.ep => "zero" \notin d)
  BY <1>2
<1> HIDE DEF t, d
<1>4. Sets(s, a, "chk", d) BY <1>3, Set1, IsPlain, KindOf
<1> HIDE DEF a
<1>5. Typed(a) BY <1>4, DoTyped DEF Sets
<1>6. Sets2(a, b, "mode", "DETACHED", "ep", FALSE) BY <1>5, Set2, IsPlain, KindOf
<1> HIDE DEF b
<1>7. Do(s, b, {"mode", "chk", "ep"}, {}) BY <1>4, <1>6, SetThenDo DEF Sets, Sets2
<1>8. b.chk = d /\ b.mode = "DETACHED" /\ b.ep = FALSE
  BY <1>4, <1>6, IsField DEF Sets, Sets2, Do, Done, Same
<1>9. Done(s, b, MgrFields, {}) BY <1>7, DoMore, DoTyped DEF MgrFields
<1> QED BY <1>1, <1>3, <1>7, <1>8, <1>9 DEF MgrDoes, Enumerates

LEMMA DoSubmitResult ==
  ASSUME NEW s, Typed(s), NEW m, m.what = "submit"
  PROVE  MgrDoes(s, SubmitResult(s, m), m)
<1> DEFINE t == SubmitResult(s, m)
           a == [s EXCEPT !.mode = "CONFIGURED", !.ep = TRUE]
           b == PostOrHalt(a, "HMSCSMP", "open")
           d == [s EXCEPT !.mode = "DETACHED"]
           F == {"mode", "ep", "halt"}
<1> SUFFICES MgrDoes(s, t, m) OBVIOUS
<1>0. F \subseteq MgrFields BY DEF MgrFields
<1>1. CASE s.mode # "DEFAULT"
  <2>1. t = s BY <1>1 DEF SubmitResult
  <2> HIDE DEF t
  <2>2. Do(s, s, F, Opens) BY DoNothing, DoMore
  <2>3. Done(s, t, MgrFields, Opens) BY <1>0, <2>1, <2>2, DoMore, DoTyped
  <2> QED BY <1>1, <2>1, <2>2, <2>3 DEF MgrDoes, Enumerates
<1>2. CASE s.mode = "DEFAULT" /\ m.arg # "OK"
  <2>1. t = d BY <1>2 DEF SubmitResult
  <2> HIDE DEF t
  <2>2. Sets(s, d, "mode", "DETACHED") BY Set1, IsPlain, KindOf
  <2> HIDE DEF d
  <2>3. Do(s, d, F, Opens) BY <2>2, DoMore DEF Sets
  <2>4. d.mode = "DETACHED" /\ d.ep = s.ep BY <2>2, IsField DEF Sets, Do, Done, Same
  <2>5. Done(s, d, MgrFields, Opens) BY <1>0, <2>3, DoMore, DoTyped
  <2> QED BY <1>2, <2>1, <2>3, <2>4, <2>5 DEF MgrDoes, Enumerates
<1>3. CASE s.mode = "DEFAULT" /\ m.arg = "OK"
  <2>1. t = b BY <1>3 DEF SubmitResult
  <2> HIDE DEF t
  <2>2. Sets2(s, a, "mode", "CONFIGURED", "ep", TRUE) BY Set2, IsPlain, KindOf
  <2> HIDE DEF a
  <2>3. Typed(a) BY <2>2, DoTyped DEF Sets2
  <2>4. Opens \subseteq Messages BY Words, SomeMessages DEF Opens
  <2>5. Do(a, b, {"halt"}, Opens) BY <2>3, <2>4, DoPostOrHalt DEF Opens
  <2> HIDE DEF b
  <2>6. Do(s, b, F, Opens) BY <2>2, <2>5, SetThenDo DEF Sets2
  <2>7. b.mode = "CONFIGURED" /\ b.ep = TRUE
    BY <2>2, <2>5, IsField DEF Sets2, Do, Done, Same
  <2>8. Done(s, b, MgrFields, Opens) BY <1>0, <2>6, DoMore, DoTyped
  <2> QED BY <1>3, <2>1, <2>6, <2>7, <2>8 DEF MgrDoes, Enumerates
<1> QED BY <1>1, <1>2, <1>3

MgrTaskDoes(s, t, m) ==
  /\ Freed(s, t, m, MgrFields, IF m.what = "submit" THEN Opens ELSE {})
  /\ Enumerates(s, m) =>
       /\ t.pipe = [s.pipe EXCEPT !["ctl"] = "enum"] /\ t.mode = "DEFAULT"
       /\ t.ep = s.ep /\ t.chk = s.chk
       /\ NoWork(s) => OneWork(t)
  /\ ~Enumerates(s, m) => t.pipe = s.pipe
  /\ m.what = "attach" /\ s.mode # "DETACHED" =>
       t.ep = s.ep /\ t.mode = s.mode /\ t.chk = s.chk
  /\ m.what = "detach" =>
       /\ t.mode = "DETACHED" /\ t.ep = FALSE
       /\ t.chk \subseteq s.chk /\ (s.ep => "zero" \notin t.chk)
  /\ m.what = "submit" =>
       /\ t.chk = s.chk
       /\ s.mode # "DEFAULT" => t.mode = s.mode /\ t.ep = s.ep
       /\ s.mode = "DEFAULT" => \/ t.mode = "DETACHED" /\ t.ep = s.ep
                                \/ t.mode = "CONFIGURED" /\ t.ep = TRUE
       /\ NoWork(s) => OneWork(t)
  /\ m.what # "submit" /\ ~Enumerates(s, m) => KeepsWork(s, t) /\ Rests(s, t)

LEMMA MgrTaskIs ==
  ASSUME NEW s, Typed(s), NEW m \in Messages, m.id = "MGR"
  PROVE  MgrTaskDoes(s, MgrTask(s, m), m)
<1> DEFINE a == MgrKeeps(s, m)
           t == MgrTask(s, m)
           N == IF m.what = "submit" THEN Opens ELSE {}
<1> SUFFICES MgrTaskDoes(s, t, m) OBVIOUS
<1>1. m.what \in {"attach", "detach", "submit"} BY DEF Messages
<1>2. MgrDoes(s, a, m)
  BY <1>1, DoMgrAttach, DoMgrDetach, DoSubmitResult DEF MgrKeeps
<1>3. t = RelBlk(a, m) BY DEF MgrTask, MgrKeeps
<1> HIDE DEF a, t
<1>4. Done(s, a, MgrFields, N) BY <1>2 DEF MgrDoes
<1> HIDE DEF N
<1>5. Freed(s, t, m, MgrFields, N) /\ SameWork(a, t) /\ Same(a, t, {"used"})
  BY <1>3, <1>4, Frees
<1>6. t.pipe = a.pipe /\ t.mode = a.mode /\ t.ep = a.ep /\ t.chk = a.chk
  BY <1>5, IsField DEF Same
<1>7. CASE Enumerates(s, m)
  <2>1. /\ Do(s, a, {"mode", "conn", "pipe"}, {})
        /\ a.pipe = [s.pipe EXCEPT !["ctl"] = "enum"] /\ a.mode = "DEFAULT"
    BY <1>2, <1>7 DEF MgrDoes
  <2>2. a.ep = s.ep /\ a.chk = s.chk BY <2>1, IsField DEF Do, Done, Same
  <2>3. ASSUME NoWork(s) PROVE OneWork(a)
    <3>1. NoMsg(a) /\ OneMsg(a) BY <2>1, <2>3, DoIdly, NoMsgOneMsg DEF NoWork, Idly
    <3>2. s.pipe \in [Pipe -> Word] BY TypedFields DEF Pipes
    <3>3. OnePipe(a)
      <4>1. \A q \in Pipe : q # "ctl" => a.pipe[q] = "idle"
        BY <2>1, <2>3, <3>2 DEF NoWork, Idle
      <4> QED BY <4>1 DEF OnePipe
    <3> QED BY <3>1, <3>3 DEF OneWork
  <2>4. m.what = "attach" /\ s.mode = "DETACHED" BY <1>7 DEF Enumerates
  <2> QED BY <1>5, <1>6, <1>7, <2>1, <2>2, <2>3, <2>4 DEF MgrTaskDoes, SameWork, N
<1>8. CASE m.what = "attach" /\ s.mode # "DETACHED"
  <2>1. a = s BY <1>2, <1>8 DEF MgrDoes
  <2>2. ~Enumerates(s, m) BY <1>8 DEF Enumerates
  <2>3. KeepsWork(s, t) /\ Rests(s, t)
    BY <1>5, <2>1 DEF SameWork, KeepsWork, Rests
  <2> QED BY <1>5, <1>6, <1>8, <2>1, <2>2, <2>3 DEF MgrTaskDoes, N
<1>9. CASE m.what = "detach"
  <2>1. /\ Do(s, a, {"mode", "chk", "ep"}, {}) /\ a.mode = "DETACHED" /\ a.ep = FALSE
        /\ a.chk \subseteq s.chk /\ (s.ep => "zero" \notin a.chk)
    BY <1>2, <1>9 DEF MgrDoes
  <2>2. a.pipe = s.pipe BY <2>1, IsField DEF Do, Done, Same
  <2>3. KeepsWork(s, a) /\ Rests(s, a)
    <3>1. (NoMsg(s) => NoMsg(a)) /\ (OneMsg(s) => OneMsg(a)) BY <2>1, DoIdly DEF Idly
    <3>2. (Idle(a) <=> Idle(s)) /\ (OnePipe(a) <=> OnePipe(s)) BY <2>2 DEF Idle, OnePipe
    <3>3. Queued(a) \subseteq Queued(s) BY <2>1 DEF Do, Done
    <3> QED BY <3>1, <3>2, <3>3 DEF KeepsWork, Rests, OneWork
  <2>4. ~Enumerates(s, m) BY <1>9 DEF Enumerates
  <2>5. KeepsWork(s, t) /\ Rests(s, t)
    BY <1>5, <2>3 DEF SameWork, KeepsWork, Rests
  <2> QED BY <1>5, <1>6, <1>9, <2>1, <2>2, <2>4, <2>5 DEF MgrTaskDoes, N
<1>10. CASE m.what = "submit"
  <2>1. /\ Do(s, a, {"mode", "ep", "halt"}, Opens)
        /\ s.mode # "DEFAULT" => a = s
        /\ s.mode = "DEFAULT" => \/ a.mode = "DETACHED" /\ a.ep = s.ep
                                 \/ a.mode = "CONFIGURED" /\ a.ep = TRUE
    BY <1>2, <1>10 DEF MgrDoes
  <2>2. a.pipe = s.pipe /\ a.chk = s.chk BY <2>1, IsField DEF Do, Done, Same
  <2>3. NoWork(s) => OneWork(a) BY <2>1, <2>2 DEF NoWork, OneWork, Do, Idle, OnePipe
  <2>4. ~Enumerates(s, m) BY <1>10 DEF Enumerates
  <2> QED BY <1>5, <1>6, <1>10, <2>1, <2>2, <2>3, <2>4 DEF MgrTaskDoes, SameWork, N
<1> QED BY <1>1, <1>7, <1>8, <1>9, <1>10 DEF Enumerates

-----------------------------------------------------------------------------
(* The storage driver and the program.                                     *)

(* What the device has been sent is no more than what the command in       *)
(* memory has made, and what it has answered no more than that.            *)
Current(s) ==
  ~s.phase => (s.dev.cur => s.bumped /\ s.dev.by = s.by) /\ (s.csw.cur => s.dev.cur)
Lun(m) == m.what = "submit" /\ m.arg = "ctl" /\ m.drv = "lun"
(* A message that begins something: a command, or the inquiry after units. *)
Starts(s, n) ==
  /\ n.id = "HMSC" => n.what \in Process /\ s.seq[n.what] = 0
  /\ n.id = "HCD" => Lun(n)
OnlyStarts(s, t) ==
  /\ t.phase = s.phase /\ (Current(s) => Current(t))
  /\ \A n \in Queued(t) \ Queued(s) : Starts(t, n)

LEMMA CommandStarts ==
  ASSUME NEW s, Typed(s), NEW p \in Process, NEW drv \in Word, NEW by \in Word
  PROVE  OnlyStarts(s, Command(s, p, drv, by))
<1> DEFINE t == Command(s, p, drv, by)
           N == Some("HMSC", p, "none", drv)
<1>1. /\ Do(s, t, CommandFields, N)
      /\ drv \notin s.chk => t = s
      /\ drv \in s.chk => Commanded(s, t, p, by)
  BY DoCommand
<1>2. \A n \in N : n.id = "HMSC" /\ n.what = p BY DEF Some, Msg
<1>3. s.seq \in Counters /\ DOMAIN s.seq = Counted /\ p \in Counted
  BY TypedFields, CounterValue, Processes
<1> HIDE DEF t, N
<1>4. Queued(t) \subseteq Queued(s) \cup N BY <1>1 DEF Do, Done
<1>5. t.phase = s.phase BY <1>1, IsField DEF Do, Done, Same, CommandFields
<1>6. ASSUME Commanded(s, t, p, by) PROVE OnlyStarts(s, t)
  <2>1. t.seq[p] = 0 BY <1>3, <1>6 DEF Commanded
  <2>2. t.bumped = FALSE /\ (s.bumped => ~t.dev.cur /\ ~t.csw.cur)
        /\ (~s.bumped => t.dev = s.dev /\ t.csw = s.csw)
    BY <1>6 DEF Commanded
  <2>3. Current(s) => Current(t) BY <1>5, <2>2 DEF Current
  <2>4. \A n \in Queued(t) \ Queued(s) : n.id = "HMSC" /\ n.what = p BY <1>2, <1>4
  <2>5. \A n \in Queued(t) \ Queued(s) : Starts(t, n) BY <2>1, <2>4 DEF Starts
  <2> QED BY <1>5, <2>3, <2>5 DEF OnlyStarts
<1>7. ASSUME t = s PROVE OnlyStarts(s, t) BY <1>7 DEF OnlyStarts
<1>8. OnlyStarts(s, t) BY <1>1, <1>6, <1>7
<1> QED BY <1>8 DEF t

(* The storage driver.                                                     *)
SearchFields == {"strg", "sseq", "pseq", "errs", "loops", "ready", "chk", "att", "halt"}
StrgFields == CommandFields \cup SearchFields
Mounts == Some("HMSCSMP", "mount", "none", "none")
StrgOut ==
  {n \in Messages :
     \/ n.id \in {"HMSC", "HSTRG"}
     \/ n.id = "HCD" /\ n.what = "submit"
     \/ n.id = "HMSCSMP" /\ n.what = "mount"}
SearchOut == {n \in StrgOut : n.id # "HMSC" /\ (n.id = "HCD" => Lun(n))}
StrgDoes(s, t) ==
  /\ Do(s, t, StrgFields, StrgOut)
  /\ \/ t.strg # "NONE"
     \/ t.strg = s.strg /\ t.chk = s.chk
     \/ Queued(t) \subseteq Queued(s) \cup Mounts
  /\ OnlyStarts(s, t)

LEMMA SearchFieldsAre ==
  /\ "strg" \in SearchFields /\ "sseq" \in SearchFields /\ "pseq" \in SearchFields
  /\ "errs" \in SearchFields /\ "loops" \in SearchFields /\ "ready" \in SearchFields
  /\ "chk" \in SearchFields /\ "att" \in SearchFields /\ "halt" \in SearchFields
  /\ SearchFields \subseteq StrgFields /\ SearchOut \subseteq StrgOut
BY DEF SearchFields, StrgFields, SearchOut

LEMMA SearchKeeps ==
  ASSUME NEW s, NEW t, NEW F, F \subseteq SearchFields, NEW N, Do(s, t, F, N)
  PROVE  /\ t.phase = s.phase /\ t.seq = s.seq /\ t.dev = s.dev /\ t.csw = s.csw
         /\ t.by = s.by /\ t.bumped = s.bumped /\ Current(t) = Current(s)
<1>1. /\ "phase" \notin F /\ "seq" \notin F /\ "dev" \notin F /\ "csw" \notin F
      /\ "by" \notin F /\ "bumped" \notin F
  BY DEF SearchFields
<1>2. \A f \in Plain : f \notin F => t[f] = s[f] BY Stays DEF Do
<1> QED BY <1>1, <1>2, IsPlain DEF Current

LEMMA StartsThen ==
  ASSUME NEW s, NEW a, OnlyStarts(s, a), NEW t, NEW F, F \subseteq SearchFields,
         Do(a, t, F, {})
  PROVE  OnlyStarts(s, t)
<1>1. t.phase = a.phase /\ t.seq = a.seq /\ Current(t) = Current(a) BY SearchKeeps
<1>2. Queued(t) \subseteq Queued(a) BY DEF Do, Done
<1> QED BY <1>1, <1>2 DEF OnlyStarts, Starts

LEMMA StrgOuts ==
  ASSUME NEW what \in Word, NEW arg \in Word, NEW drv \in Word
  PROVE  /\ Some("HMSC", what, arg, drv) \subseteq StrgOut
         /\ Some("HSTRG", what, arg, drv) \subseteq SearchOut
         /\ Some("HSTRG", what, arg, drv) \subseteq Messages
         /\ Mounts \subseteq SearchOut /\ Mounts \subseteq Messages
         /\ Asks("ctl", "lun") \subseteq SearchOut
<1>1. /\ Some("HMSC", what, arg, drv) \subseteq Messages
      /\ Some("HSTRG", what, arg, drv) \subseteq Messages
  BY SomeMessages
<1>2. Mounts \subseteq Messages BY Words, SomeMessages DEF Mounts
<1>3. Msg("HCD", 0, "submit", "ctl", "lun") \in Messages BY Words, AskIsMessage
<1>4. Some("HMSC", what, arg, drv) \subseteq StrgOut BY <1>1 DEF StrgOut, Some, Msg
<1>5. Some("HSTRG", what, arg, drv) \subseteq SearchOut
  BY <1>1 DEF SearchOut, StrgOut, Some, Msg
<1>6. Mounts \subseteq SearchOut BY <1>2 DEF SearchOut, StrgOut, Mounts, Some, Msg
<1>7. Asks("ctl", "lun") \subseteq SearchOut
  BY <1>3 DEF SearchOut, StrgOut, Asks, Msg, Lun
<1> QED BY <1>1, <1>2, <1>4, <1>5, <1>6, <1>7

LEMMA StrgMore ==
  ASSUME NEW s, NEW t, NEW F, F \subseteq SearchFields, NEW N, N \subseteq SearchOut,
         Do(s, t, F, N), t.strg # "NONE" \/ (t.strg = s.strg /\ t.chk = s.chk)
  PROVE  StrgDoes(s, t)
<1>1. Do(s, t, StrgFields, StrgOut) BY SearchFieldsAre, DoMore
<1>2. t.phase = s.phase /\ Current(t) = Current(s) BY SearchKeeps
<1>3. Queued(t) \subseteq Queued(s) \cup SearchOut BY DEF Do, Done
<1>4. OnlyStarts(s, t) BY <1>2, <1>3 DEF OnlyStarts, Starts, SearchOut
<1> QED BY <1>1, <1>4 DEF StrgDoes

(* A command of the search, and some of the driver's fields.               *)
LEMMA StrgCommand ==
  ASSUME NEW s, Typed(s), NEW p \in Process, NEW a, a = Command(s, p, "max", "search"),
         NEW t, NEW F, F \subseteq SearchFields, Do(a, t, F, {}), t.strg # "NONE"
  PROVE  StrgDoes(s, t)
<1> DEFINE N == Some("HMSC", p, "none", "max")
<1>1. "max" \in Word /\ "search" \in Word /\ "none" \in Word /\ p \in Word
  BY Words, Processes
<1>2. Do(s, a, CommandFields, N) /\ OnlyStarts(s, a) BY <1>1, DoCommand, CommandStarts
<1>3. N \subseteq StrgOut BY <1>1, StrgOuts
<1> HIDE DEF N
<1>4. F \subseteq StrgFields /\ CommandFields \subseteq StrgFields
  BY SearchFieldsAre DEF StrgFields
<1>5. Do(s, t, StrgFields, N) BY <1>2, <1>4, DoThenSet
<1>6. Do(s, t, StrgFields, StrgOut) BY <1>3, <1>5, DoMore
<1>7. OnlyStarts(s, t) BY <1>2, StartsThen
<1> QED BY <1>6, <1>7 DEF StrgDoes

LEMMA DoSearch ==
  ASSUME NEW s, Typed(s), NEW n \in 0 .. 9
  PROVE  Sets2(s, Search(s, n), "sseq", n, "strg", "SEARCH")
<1>1. Sets2(s, [s EXCEPT !.sseq = n, !.strg = "SEARCH"], "sseq", n, "strg", "SEARCH")
  BY Set2, IsPlain, KindOf
<1> QED BY <1>1 DEF Search

LEMMA DoStrgSpecifiedPath ==
  ASSUME NEW s, Typed(s), NEW m \in Messages
  PROVE  Do(s, StrgSpecifiedPath(s, m), {}, SearchOut)
<1> DEFINE N == Some("HSTRG", s.strg, m.arg, m.drv)
           t == StrgSpecifiedPath(s, m)
<1>1. s.strg \in Word /\ m.arg \in Word /\ m.drv \in Word
  BY TypedFields, Words, MessageWords
<1>2. N \subseteq SearchOut /\ N \subseteq Messages BY <1>1, StrgOuts
<1>3. Do(s, t, {}, N) BY <1>2, DoPost DEF StrgSpecifiedPath
<1> HIDE DEF N, t, SearchOut
<1>4. Do(s, t, {}, SearchOut) BY <1>2, <1>3, DoMore
<1> QED BY <1>4 DEF t

LEMMA StrgPath ==
  ASSUME NEW s, NEW a, NEW F, F \subseteq SearchFields, Do(s, a, F, {}), NEW m \in Messages,
         a.strg # "NONE" \/ (a.strg = s.strg /\ a.chk = s.chk)
  PROVE  StrgDoes(s, StrgSpecifiedPath(a, m))
<1> DEFINE t == StrgSpecifiedPath(a, m)
<1>1. Do(a, t, {}, SearchOut) BY DoTyped, DoStrgSpecifiedPath
<1> HIDE DEF t
<1>2. Do(s, t, F, SearchOut) BY <1>1, SetThenDo
<1>3. t.strg = a.strg /\ t.chk = a.chk BY <1>1, IsField DEF Do, Done, Same
<1>4. StrgDoes(s, t) BY <1>2, <1>3, StrgMore
<1> QED BY <1>4 DEF t

LEMMA StrgSearchCommand ==
  ASSUME NEW s, Typed(s), NEW p \in Process, NEW n \in 0 .. 9
  PROVE  StrgDoes(s, SearchCommand(s, p, n)) /\ Typed(SearchCommand(s, p, n))
<1> DEFINE a == Command(s, p, "max", "search")
           t == Search(a, n)
<1>1. Typed(a) BY Words, DoCommand, DoTyped
<1>2. a = Command(s, p, "max", "search") OBVIOUS
<1> HIDE DEF a
<1>3. Sets2(a, t, "sseq", n, "strg", "SEARCH") BY <1>1, DoSearch
<1> HIDE DEF t
<1>4. Do(a, t, {"sseq", "strg"}, {}) /\ t.strg # "NONE" BY <1>3 DEF Sets2
<1>5. {"sseq", "strg"} \subseteq SearchFields BY SearchFieldsAre
<1>6. StrgDoes(s, t) BY <1>2, <1>4, <1>5, StrgCommand
<1>7. t = SearchCommand(s, p, n) BY DEF t, a, SearchCommand
<1> QED BY <1>4, <1>6, <1>7, DoTyped

LEMMA StrgGetMaxUnit ==
  ASSUME NEW s, Typed(s), NEW m \in Messages, m.id = "HSTRG"
  PROVE  StrgDoes(s, GetMaxUnit(s, m))
<1> DEFINE a == [s EXCEPT !.strg = "SEARCH"]
           b == StartCtl(a, "lun")
           c == [b EXCEPT !.sseq = 1]
           d == Post(a, "HSTRG", m.what, m.arg, m.drv)
           t == GetMaxUnit(s, m)
<1> SUFFICES StrgDoes(s, t) OBVIOUS
<1>1. t = d \/ t = c BY DEF GetMaxUnit
<1>2. m.what \in Word /\ m.arg \in Word /\ m.drv \in Word BY MessageWords
<1> HIDE DEF t
<1>3. Sets(s, a, "strg", "SEARCH") BY Set1, IsPlain, KindOf
<1> HIDE DEF a
<1>4. Typed(a) BY <1>3, DoTyped DEF Sets
<1>5. CASE t = d
  <2> DEFINE N == Some("HSTRG", m.what, m.arg, m.drv)
  <2>1. N \subseteq SearchOut /\ N \subseteq Messages BY <1>2, StrgOuts
  <2>2. Do(a, d, {}, N) BY <1>4, <2>1, DoPost
  <2> HIDE DEF d, N
  <2>3. Do(s, d, {"strg"}, N) BY <1>3, <2>2, SetThenDo DEF Sets
  <2>4. d.strg = "SEARCH" BY <1>3, <2>2, IsField DEF Sets, Do, Done, Same
  <2> QED BY <1>5, <2>1, <2>3, <2>4, StrgMore, SearchFieldsAre
<1>6. CASE t = c
  <2> DEFINE N == Asks("ctl", "lun")
  <2>1. N \subseteq SearchOut BY <1>2, StrgOuts
  <2>2. Do(a, b, {}, N) BY <1>4, DoStartCtl
  <2> HIDE DEF b, N
  <2>3. Typed(b) BY <2>2, DoTyped
  <2>4. Sets(b, c, "sseq", 1) BY <2>3, Set1, IsPlain, KindOf
  <2> HIDE DEF c
  <2>5. Do(s, b, {"strg"}, N) BY <1>3, <2>2, SetThenDo DEF Sets
  <2>6. Do(s, c, {"strg", "sseq"}, N) BY <2>4, <2>5, DoThenSet DEF Sets
  <2>7. c.strg = "SEARCH" BY <1>3, <2>2, <2>4, IsField DEF Sets, Do, Done, Same
  <2> QED BY <1>6, <2>1, <2>6, <2>7, StrgMore, SearchFieldsAre
<1> QED BY <1>1, <1>5, <1>6

LEMMA StrgInquiry ==
  ASSUME NEW s, Typed(s), NEW m \in Messages, NEW direct \in BOOLEAN
  PROVE  StrgDoes(s, InquiryResult(s, m, direct))
<1> DEFINE again == m.arg = "CSW_ERR" /\ s.errs < 2
           n == IF again THEN 2 ELSE 4
           a == Search(s, n)
           e == IF again THEN s.errs + 1 ELSE 0
           r == IF m.arg = "OK" THEN direct ELSE s.ready
           b == [a EXCEPT !.errs = e, !.ready = r]
<1>1. s.errs \in 0 .. 2 /\ s.ready \in BOOLEAN BY TypedFields
<1>2. e \in 0 .. 2 /\ r \in BOOLEAN /\ n \in 0 .. 9 BY <1>1
<1>3. Sets2(s, a, "sseq", n, "strg", "SEARCH")
  <2> HIDE DEF n
  <2> QED BY <1>2, DoSearch
<1>4. a.errs = s.errs /\ a.ready = s.ready
  <2> HIDE DEF a
  <2> QED BY <1>3, IsField DEF Sets2, Do, Done, Same
<1>5. InquiryResult(s, m, direct) = StrgSpecifiedPath(b, m)
  <2>1. b = [a EXCEPT !.errs = IF again THEN @ + 1 ELSE 0,
                      !.ready = IF m.arg = "OK" THEN direct ELSE @]
    <3> HIDE DEF a, again
    <3> QED BY <1>4
  <2> QED BY <2>1 DEF InquiryResult
<1> HIDE DEF a, e, r, n
<1>6. Typed(a) BY <1>3, DoTyped DEF Sets2
<1>7. Sets2(a, b, "errs", e, "ready", r) BY <1>2, <1>6, Set2, IsPlain, KindOf
<1> HIDE DEF b
<1>8. Do(s, b, {"sseq", "strg", "errs", "ready"}, {})
  BY <1>3, <1>7, SetThenDo DEF Sets2
<1>9. b.strg = "SEARCH" BY <1>3, <1>7, IsField DEF Sets2, Do, Done, Same
<1> QED BY <1>5, <1>8, <1>9, StrgPath, SearchFieldsAre

LEMMA StrgSearchPath ==
  ASSUME NEW s, Typed(s), NEW a, Do(s, a, {"chk"}, {}), NEW m \in Messages, NEW n \in 0 .. 9
  PROVE  StrgDoes(s, StrgSpecifiedPath(Search(a, n), m))
<1> DEFINE b == Search(a, n)
<1>1. Sets2(a, b, "sseq", n, "strg", "SEARCH") BY DoTyped, DoSearch
<1> HIDE DEF b
<1>2. Do(s, b, {"chk", "sseq", "strg"}, {}) BY <1>1, SetThenDo DEF Sets2
<1>3. b.strg # "NONE" BY <1>1 DEF Sets2
<1>4. StrgDoes(s, StrgSpecifiedPath(b, m)) BY <1>2, <1>3, StrgPath, SearchFieldsAre
<1> QED BY <1>4 DEF b

LEMMA DoChk ==
  ASSUME NEW s, Typed(s), NEW d \in {"zero", "max"}
  PROVE  Sets(s, [s EXCEPT !.chk = @ \cup {d}], "chk", s.chk \cup {d})
<1> DEFINE c == s.chk \cup {d}
<1>1. c \in SUBSET {"zero", "max"} BY TypedFields
<1> HIDE DEF c
<1>2. Sets(s, [s EXCEPT !.chk = c], "chk", c) BY <1>1, Set1, IsPlain, KindOf
<1> QED BY <1>2 DEF c

LEMMA StrgReadPartition ==
  ASSUME NEW s, Typed(s)
  PROVE  StrgDoes(s, ReadPartition(s))
<1> DEFINE a == [s EXCEPT !.pseq = 0, !.sseq = 9]
           N == Some("HSTRG", "PARTITION", "none", "none")
           t == Post(a, "HSTRG", "PARTITION", "none", "none")
<1>1. t = ReadPartition(s) BY DEF ReadPartition
<1>2. N \subseteq SearchOut /\ N \subseteq Messages BY Words, StrgOuts
<1>a. 0 \in Kinds.pseq /\ 9 \in Kinds.sseq BY KindOf
<1>3. Sets2(s, a, "pseq", 0, "sseq", 9) BY <1>a, Set2, IsPlain
<1> HIDE DEF a
<1>4. Typed(a) BY <1>3, DoTyped DEF Sets2
<1>5. Do(a, t, {}, N) BY <1>2, <1>4, DoPost
<1> HIDE DEF t, N
<1>6. Do(s, t, {"pseq", "sseq"}, N) BY <1>3, <1>5, SetThenDo DEF Sets2
<1>7. t.strg = s.strg /\ t.chk = s.chk BY <1>6, IsField DEF Do, Done, Same
<1>8. StrgDoes(s, t) BY <1>2, <1>6, <1>7, StrgMore, SearchFieldsAre
<1> QED BY <1>1, <1>8

LEMMA StrgSearchEnds ==
  ASSUME NEW s, Typed(s)
  PROVE  StrgDoes(s, SearchEnds(s))
<1> DEFINE a == [s EXCEPT !.att = TRUE]
           b == PostOrHalt(a, "HMSCSMP", "mount")
           t == [b EXCEPT !.sseq = 0, !.strg = "NONE"]
           F == {"att", "halt", "sseq", "strg"}
<1>1. t = SearchEnds(s) BY DEF SearchEnds
<1>2. Mounts \subseteq SearchOut /\ Mounts \subseteq Messages
  <2>1. "none" \in Word BY Words
  <2> QED BY <2>1, StrgOuts
<1>3. Sets(s, a, "att", TRUE) BY Set1, IsPlain, KindOf
<1> HIDE DEF a
<1>4. Typed(a) BY <1>3, DoTyped DEF Sets
<1>5. Do(a, b, {"halt"}, Mounts) BY <1>2, <1>4, DoPostOrHalt DEF Mounts
<1> HIDE DEF b
<1>6. Typed(b) BY <1>5, DoTyped
<1>a. 0 \in Kinds.sseq /\ "NONE" \in Kinds.strg BY KindOf
<1>7. Sets2(b, t, "sseq", 0, "strg", "NONE") BY <1>6, <1>a, Set2, IsPlain
<1> HIDE DEF t
<1>8. Do(s, b, {"att", "halt"}, Mounts) BY <1>3, <1>5, SetThenDo DEF Sets
<1>9. Do(s, t, F, Mounts) BY <1>7, <1>8, DoThenSet DEF Sets2
<1>10. F \subseteq SearchFields BY SearchFieldsAre
<1> HIDE DEF F, Mounts
<1>11. Do(s, t, StrgFields, StrgOut)
  BY <1>2, <1>9, <1>10, SearchFieldsAre, DoMore
<1>12. Queued(t) \subseteq Queued(s) \cup Mounts BY <1>9 DEF Do, Done
<1>13. t.phase = s.phase /\ Current(t) = Current(s) BY <1>9, <1>10, SearchKeeps
<1>14. OnlyStarts(s, t) BY <1>2, <1>12, <1>13 DEF OnlyStarts, Starts, SearchOut
<1>15. StrgDoes(s, t) BY <1>11, <1>12, <1>14 DEF StrgDoes
<1> QED BY <1>1, <1>15

LEMMA StrgSearchAct ==
  ASSUME NEW s, Typed(s), NEW m \in Messages, m.id = "HSTRG", NEW g \in BOOLEAN
  PROVE  StrgDoes(s, StrgDriveSearchAct(s, m, g))
<1> DEFINE n == s.sseq
           t == StrgDriveSearchAct(s, m, g)
           a == [s EXCEPT !.chk = @ \cup {"max"}]
           c == SearchCommand(s, "DATA_IN", 3)
           d == [c EXCEPT !.ready = FALSE]
<1> SUFFICES StrgDoes(s, t) OBVIOUS
<1>0. n \in 0 .. 9 BY TypedFields
<1>a. "DATA_IN" \in Process /\ "NO_DATA" \in Process BY DEF Process
<1>1. /\ n = 0 => t = GetMaxUnit(s, m)
      /\ n = 1 => t = StrgSpecifiedPath(Search(a, 2), m)
      /\ n = 2 => t = d
      /\ n = 3 => t = InquiryResult(s, m, g)
      /\ n = 4 => t = SearchCommand(s, "DATA_IN", 5)
      /\ n = 5 => t = SearchCommand(s, "DATA_IN", 6)
      /\ n = 6 => t \in {SearchCommand(s, "NO_DATA", 7), StrgSpecifiedPath(Search(s, 8), m)}
      /\ n = 7 => t \in {SearchCommand(s, "NO_DATA", 7), SearchCommand(s, "DATA_IN", 8)}
      /\ n = 8 => t \in {ReadPartition(s), StrgSpecifiedPath(Search(s, 9), m)}
      /\ n = 9 => t = SearchEnds(s)
  BY <1>0 DEF StrgDriveSearchAct
<1> HIDE DEF t
<1>b. Do(s, s, {"chk"}, {}) BY DoNothing, DoMore
<1>2. CASE n = 0 BY <1>1, <1>2, StrgGetMaxUnit
<1>3. CASE n = 1
  <2>1. Do(s, a, {"chk"}, {}) BY DoChk DEF Sets
  <2> QED BY <1>1, <1>3, <2>1, StrgSearchPath
<1>4. CASE n = 2
  <2>1. StrgDoes(s, c) /\ Typed(c) BY <1>a, StrgSearchCommand
  <2> HIDE DEF c
  <2>2. Sets(c, d, "ready", FALSE) BY <2>1, Set1, IsPlain, KindOf
  <2>3. t = d BY <1>1, <1>4
  <2> HIDE DEF d
  <2>4. d.strg = c.strg /\ d.chk = c.chk BY <2>2, IsField DEF Sets, Do, Done, Same
  <2>5. Do(s, d, StrgFields, StrgOut)
    BY <2>1, <2>2, DoThenSet, SearchFieldsAre DEF StrgDoes, Sets
  <2>6. Queued(d) \subseteq Queued(c) BY <2>2 DEF Sets, Do, Done
  <2>7. {"ready"} \subseteq SearchFields /\ OnlyStarts(s, c)
    BY <2>1, SearchFieldsAre DEF StrgDoes
  <2>8. OnlyStarts(s, d) BY <2>2, <2>7, StartsThen DEF Sets
  <2>9. StrgDoes(s, d) BY <2>1, <2>4, <2>5, <2>6, <2>8 DEF StrgDoes
  <2> QED BY <2>3, <2>9
<1>5. CASE n = 3 BY <1>1, <1>5, StrgInquiry
<1>6. CASE n = 4 BY <1>1, <1>6, <1>a, StrgSearchCommand
<1>7. CASE n = 5 BY <1>1, <1>7, <1>a, StrgSearchCommand
<1>c. 7 \in 0 .. 9 /\ 8 \in 0 .. 9 OBVIOUS
<1>d. StrgDoes(s, SearchCommand(s, "NO_DATA", 7)) BY <1>a, <1>c, StrgSearchCommand
<1>8. CASE n = 6
  <2>1. StrgDoes(s, StrgSpecifiedPath(Search(s, 8), m)) BY <1>b, <1>c, StrgSearchPath
  <2> QED BY <1>1, <1>8, <1>d, <2>1
<1>9. CASE n = 7
  <2>1. StrgDoes(s, SearchCommand(s, "DATA_IN", 8)) BY <1>a, <1>c, StrgSearchCommand
  <2> QED BY <1>1, <1>9, <1>d, <2>1
<1>10. CASE n = 8 BY <1>1, <1>10, <1>b, StrgReadPartition, StrgSearchPath
<1>11. CASE n = 9 BY <1>1, <1>11, StrgSearchEnds
<1> QED BY <1>0, <1>2, <1>3, <1>4, <1>5, <1>6, <1>7, <1>8, <1>9, <1>10, <1>11

(* A message of the storage driver to itself, after some of its fields.    *)
LEMMA StrgSends ==
  ASSUME NEW s, NEW a, NEW F, F \subseteq SearchFields, Do(s, a, F, {}), a.strg # "NONE",
         NEW what \in Word, NEW arg \in Word
  PROVE  StrgDoes(s, Post(a, "HSTRG", what, arg, "none"))
<1> DEFINE N == Some("HSTRG", what, arg, "none")
           t == Post(a, "HSTRG", what, arg, "none")
<1>1. N \subseteq SearchOut /\ N \subseteq Messages BY Words, StrgOuts
<1>2. Typed(a) BY DoTyped
<1>3. Do(a, t, {}, N) BY <1>1, <1>2, DoPost
<1> HIDE DEF t, N
<1>4. Do(s, t, F, N) BY <1>3, SetThenDo
<1>5. t.strg = a.strg BY <1>3, IsField DEF Do, Done, Same
<1>6. StrgDoes(s, t) BY <1>1, <1>4, <1>5, StrgMore
<1> QED BY <1>6 DEF t

LEMMA StrgPartitionRead ==
  ASSUME NEW s, NEW a, Sets(s, a, "pseq", 0), NEW m \in Messages, NEW g \in BOOLEAN
  PROVE  StrgDoes(s, PartitionRead(a, m, g))
<1> DEFINE b == [a EXCEPT !.loops = 0, !.strg = "SEARCH"]
           c == [b EXCEPT !.chk = @ \cup {"zero"}]
           l == a.loops + 1
           d == [a EXCEPT !.loops = l]
           t == PartitionRead(a, m, g)
<1> SUFFICES StrgDoes(s, t) OBVIOUS
<1>1. \/ t = Post(c, "HSTRG", "SEARCH", "OK", "none")
      \/ t = StrgSpecifiedPath(d, m) /\ l < RETRIES
      \/ t = Post(b, "HSTRG", "SEARCH", "ERR", "none")
  BY DEF PartitionRead
<1> HIDE DEF t
<1>2. Typed(a) /\ Do(s, a, {"pseq"}, {}) /\ a.strg = s.strg /\ a.chk = s.chk
  BY DoTyped, IsField DEF Sets, Do, Done, Same
<1>3. RETRIES \in Nat \ {0} BY StorageAssumption
<1>4. 0 \in Kinds.loops /\ "SEARCH" \in Kinds.strg BY <1>3, KindOf
<1>5. Sets2(a, b, "loops", 0, "strg", "SEARCH") BY <1>2, <1>4, Set2, IsPlain
<1> HIDE DEF b
<1>6. Typed(b) BY <1>5, DoTyped DEF Sets2
<1>7. Sets(b, c, "chk", b.chk \cup {"zero"}) BY <1>6, DoChk
<1> HIDE DEF c
<1>8. b.strg # "NONE" /\ c.strg # "NONE"
  BY <1>5, <1>7, IsField DEF Sets, Sets2, Do, Done, Same
<1>9. Do(s, b, {"pseq", "loops", "strg"}, {}) BY <1>2, <1>5, SetThenDo DEF Sets2
<1>10. Do(s, c, {"pseq", "loops", "strg", "chk"}, {}) BY <1>7, <1>9, SetThenDo DEF Sets
<1>11. /\ {"pseq", "loops", "strg"} \subseteq SearchFields
       /\ {"pseq", "loops", "strg", "chk"} \subseteq SearchFields
  BY SearchFieldsAre
<1>12. "SEARCH" \in Word /\ "OK" \in Word /\ "ERR" \in Word BY Words
<1>13. CASE t = Post(c, "HSTRG", "SEARCH", "OK", "none")
  BY <1>8, <1>10, <1>11, <1>12, <1>13, StrgSends
<1>14. CASE t = Post(b, "HSTRG", "SEARCH", "ERR", "none")
  BY <1>8, <1>9, <1>11, <1>12, <1>14, StrgSends
<1>15. CASE t = StrgSpecifiedPath(d, m) /\ l < RETRIES
  <2>1. a.loops \in 0 .. RETRIES - 1 BY <1>2, TypedFields
  <2>2. l \in 0 .. RETRIES - 1 BY <1>3, <1>15, <2>1
  <2>3. l \in Kinds.loops BY <2>2, KindOf
  <2> HIDE DEF l
  <2>4. Sets(a, d, "loops", l) BY <1>2, <2>3, Set1, IsPlain
  <2> HIDE DEF d
  <2>5. Do(s, d, {"pseq", "loops"}, {}) BY <1>2, <2>4, SetThenDo DEF Sets
  <2>6. d.strg = s.strg /\ d.chk = s.chk BY <2>5, IsField DEF Do, Done, Same
  <2> QED BY <1>15, <2>5, <2>6, StrgPath, SearchFieldsAre
<1> QED BY <1>1, <1>13, <1>14, <1>15

LEMMA StrgPartitionAct ==
  ASSUME NEW s, Typed(s), NEW m \in Messages, NEW g \in BOOLEAN
  PROVE  StrgDoes(s, SmpDevReadPartitionAct(s, m, g))
<1> DEFINE a == Command(s, "DATA_IN", "max", "search")
           b == [a EXCEPT !.pseq = 1, !.strg = "PARTITION"]
           c == [s EXCEPT !.pseq = 0]
           t == SmpDevReadPartitionAct(s, m, g)
<1> SUFFICES StrgDoes(s, t) OBVIOUS
<1>1. t = IF s.pseq = 0 THEN b ELSE PartitionRead(c, m, g)
  BY DEF SmpDevReadPartitionAct
<1> HIDE DEF t
<1>2. CASE s.pseq = 0
  <2>1. "DATA_IN" \in Process BY DEF Process
  <2>2. Typed(a) BY <2>1, Words, DoCommand, DoTyped
  <2>3. a = Command(s, "DATA_IN", "max", "search") OBVIOUS
  <2> HIDE DEF a
  <2>4. 1 \in Kinds.pseq /\ "PARTITION" \in Kinds.strg BY KindOf
  <2>5. Sets2(a, b, "pseq", 1, "strg", "PARTITION") BY <2>2, <2>4, Set2, IsPlain
  <2>6. t = b BY <1>1, <1>2
  <2> HIDE DEF b
  <2>7. Do(a, b, {"pseq", "strg"}, {}) /\ b.strg # "NONE" BY <2>5 DEF Sets2
  <2>8. {"pseq", "strg"} \subseteq SearchFields BY SearchFieldsAre
  <2>9. StrgDoes(s, b) BY <2>1, <2>3, <2>7, <2>8, StrgCommand
  <2> QED BY <2>6, <2>9
<1>3. CASE s.pseq # 0
  <2>1. 0 \in Kinds.pseq BY KindOf
  <2>2. Sets(s, c, "pseq", 0) BY <2>1, Set1, IsPlain
  <2> HIDE DEF c
  <2>3. t = PartitionRead(c, m, g) BY <1>1, <1>3
  <2> QED BY <2>2, <2>3, StrgPartitionRead
<1> QED BY <1>2, <1>3

LEMMA StrgKeepsDoes ==
  ASSUME NEW s, Typed(s), NEW m \in Messages, m.id = "HSTRG", NEW g \in BOOLEAN,
         m.what \in {"SEARCH", "PARTITION"}
  PROVE  /\ StrgDoes(s, StrgDriveTaskKeeps(s, m, g))
         /\ StrgDriveTask(s, m, g) = RelBlk(StrgDriveTaskKeeps(s, m, g), m)
<1> DEFINE t == StrgDriveTaskKeeps(s, m, g)
<1>1. CASE m.what = "SEARCH"
  <2>1. t = StrgDriveSearchAct(s, m, g) BY <1>1 DEF StrgDriveTaskKeeps
  <2>2. StrgDriveTask(s, m, g) = RelBlk(t, m) BY <1>1, <2>1 DEF StrgDriveTask
  <2> HIDE DEF t
  <2>3. StrgDoes(s, t) BY <2>1, StrgSearchAct
  <2> QED BY <2>2, <2>3 DEF t
<1>2. CASE m.what = "PARTITION"
  <2>1. t = SmpDevReadPartitionAct(s, m, g) BY <1>2 DEF StrgDriveTaskKeeps
  <2>2. StrgDriveTask(s, m, g) = RelBlk(t, m) BY <1>2, <2>1 DEF StrgDriveTask
  <2> HIDE DEF t
  <2>3. StrgDoes(s, t) BY <2>1, StrgPartitionAct
  <2> QED BY <2>2, <2>3 DEF t
<1> QED BY <1>1, <1>2

(* The storage driver's task and the program's.                            *)
MainFields == StrgFields \cup {"mounted"}
StrgTaskDoes(s, t, m) ==
  /\ Freed(s, t, m, MainFields, StrgOut) /\ t.pipe = s.pipe
  /\ NoWork(s) => OneWork(t)
  /\ \/ t.strg # "NONE"
     \/ t.strg = s.strg /\ t.chk = s.chk
     \/ Queued(t) \subseteq Queued(s) \cup Mounts
  /\ OnlyStarts(s, t)

LEMMA StartsFreed ==
  ASSUME NEW s, NEW a, OnlyStarts(s, a), NEW t, Same(a, t, {"used"}), Queued(t) = Queued(a)
  PROVE  OnlyStarts(s, t)
<1>1. /\ t.phase = a.phase /\ t.seq = a.seq /\ t.dev = a.dev /\ t.csw = a.csw
      /\ t.by = a.by /\ t.bumped = a.bumped
  BY IsField DEF Same
<1> QED BY <1>1 DEF OnlyStarts, Starts, Current

LEMMA StrgTaskFrom ==
  ASSUME NEW s, Typed(s), NEW a, StrgDoes(s, a), NEW m \in Messages
  PROVE  StrgTaskDoes(s, RelBlk(a, m), m)
<1> DEFINE t == RelBlk(a, m)
<1>1. Done(s, a, StrgFields, StrgOut) BY DEF StrgDoes, Do
<1>2. Freed(s, t, m, StrgFields, StrgOut) /\ SameWork(a, t) /\ Same(a, t, {"used"})
  BY <1>1, Frees
<1> HIDE DEF t
<1>3. a.pipe = s.pipe
  BY <1>1, IsField DEF Done, Same, StrgFields, CommandFields, SearchFields
<1>4. t.strg = a.strg /\ t.chk = a.chk BY <1>2, IsField DEF Same
<1>5. NoWork(s) => OneWork(a) BY <1>3 DEF StrgDoes, NoWork, OneWork, Do, Idle, OnePipe
<1>6. Freed(s, t, m, MainFields, StrgOut) BY <1>2, FreedMore DEF MainFields
<1>7. OnlyStarts(s, t) BY <1>2, StartsFreed DEF StrgDoes, SameWork
<1>8. StrgTaskDoes(s, t, m)
  BY <1>2, <1>3, <1>4, <1>5, <1>6, <1>7 DEF StrgTaskDoes, StrgDoes, SameWork
<1> QED BY <1>8 DEF t

LEMMA StrgTaskIs ==
  ASSUME NEW s, Typed(s), NEW m \in Messages, m.id = "HSTRG", NEW g \in BOOLEAN
  PROVE  StrgTaskDoes(s, StrgDriveTask(s, m, g), m)
<1>1. CASE m.what \in {"SEARCH", "PARTITION"}
  BY <1>1, StrgKeepsDoes, StrgTaskFrom
<1>2. CASE m.what \notin {"SEARCH", "PARTITION"}
  <2>1. StrgDriveTask(s, m, g) = RelBlk(s, m) BY <1>2 DEF StrgDriveTask
  <2>2. Do(s, s, {"sseq"}, SearchOut) BY DoNothing, DoMore
  <2>3. StrgDoes(s, s) BY <2>2, StrgMore, SearchFieldsAre
  <2> QED BY <2>1, <2>3, StrgTaskFrom
<1> QED BY <1>1, <1>2

LEMMA SampleAplTaskIs ==
  ASSUME NEW s, Typed(s), NEW m \in Messages, m.id = "HMSCSMP"
  PROVE  /\ StrgTaskDoes(s, SampleAplTask(s, m), m)
         /\ LET t == SampleAplTask(s, m)
            IN  /\ t.strg = s.strg /\ t.chk = s.chk
                /\ m.what = "mount" => Queued(t) = Queued(s)
<1> DEFINE a == [s EXCEPT !.sseq = 0]
           b == Post(a, "HSTRG", "SEARCH", "none", "none")
           c == [s EXCEPT !.mounted = TRUE]
           N == Some("HSTRG", "SEARCH", "none", "none")
           t == SampleAplTask(s, m)
<1> SUFFICES /\ StrgTaskDoes(s, t, m) /\ t.strg = s.strg /\ t.chk = s.chk
             /\ m.what = "mount" => Queued(t) = Queued(s)
  OBVIOUS
<1>1. CASE m.what = "open"
  <2>1. t = RelBlk(b, m) BY <1>1 DEF SampleAplTask
  <2> HIDE DEF t
  <2>2. 0 \in Kinds.sseq BY KindOf
  <2>3. Sets(s, a, "sseq", 0) BY <2>2, Set1, IsPlain
  <2> HIDE DEF a
  <2>4. Typed(a) BY <2>3, DoTyped DEF Sets
  <2>5. N \subseteq SearchOut /\ N \subseteq Messages BY Words, StrgOuts
  <2>6. Do(a, b, {}, N) BY <2>4, <2>5, DoPost
  <2> HIDE DEF b, N
  <2>7. Do(s, b, {"sseq"}, N) BY <2>3, <2>6, SetThenDo DEF Sets
  <2>8. b.strg = s.strg /\ b.chk = s.chk BY <2>7, IsField DEF Do, Done, Same
  <2>9. StrgDoes(s, b) BY <2>5, <2>7, <2>8, StrgMore, SearchFieldsAre
  <2>10. StrgTaskDoes(s, t, m) BY <2>1, <2>9, StrgTaskFrom
  <2>11. Same(b, t, {"used"}) BY <2>1, <2>7, DoTyped, Released
  <2>12. t.strg = s.strg /\ t.chk = s.chk BY <2>8, <2>11, IsField DEF Same
  <2> QED BY <1>1, <2>10, <2>12
<1>2. CASE m.what # "open"
  <2>1. t = RelBlk(c, m) BY <1>2 DEF SampleAplTask
  <2> HIDE DEF t
  <2>2. Sets(s, c, "mounted", TRUE) BY Set1, IsPlain, KindOf
  <2> HIDE DEF c
  <2>3. Done(s, c, MainFields, StrgOut) BY <2>2, DoMore, DoTyped DEF Sets, MainFields
  <2>4. Freed(s, t, m, MainFields, StrgOut) /\ SameWork(c, t) /\ Same(c, t, {"used"})
    BY <2>1, <2>3, Frees
  <2>5. c.strg = s.strg /\ c.chk = s.chk /\ c.pipe = s.pipe
    BY <2>2, IsField DEF Sets, Do, Done, Same
  <2>6. t.strg = s.strg /\ t.chk = s.chk /\ t.pipe = s.pipe
    BY <2>4, <2>5, IsField DEF Same
  <2>7. Queued(c) = Queued(s) BY <2>2 DEF Sets, Do, Done
  <2>8. NoWork(s) => OneWork(c)
    BY <2>2, <2>5 DEF Sets, Do, NoWork, OneWork, Idle, OnePipe
  <2>9. /\ t.phase = s.phase /\ t.dev = s.dev /\ t.csw = s.csw /\ t.by = s.by
        /\ t.bumped = s.bumped
    BY <2>2, <2>4, IsField DEF Sets, Do, Done, Same
  <2>10. OnlyStarts(s, t) BY <2>4, <2>7, <2>9 DEF OnlyStarts, Current, SameWork
  <2>11. StrgTaskDoes(s, t, m) BY <2>4, <2>6, <2>8, <2>10 DEF StrgTaskDoes, SameWork
  <2> QED BY <2>4, <2>6, <2>7, <2>11 DEF SameWork
<1> QED BY <1>1, <1>2

-----------------------------------------------------------------------------
(* All tasks, and what the device and the line send.                       *)

(* The class driver's task, and all tasks.                                 *)
HmscTaskDone(s, t, m) ==
  /\ Freed(s, t, m, HmscFields, Out(s)) /\ t.pipe = s.pipe
  /\ t.phase = TRUE \/ (t.phase = s.phase /\ (NoWork(s) => OneWork(t)))

LEMMA HmscTaskIs ==
  ASSUME NEW s, Typed(s), NEW m \in Messages, m.id = "HMSC", NEW g
  PROVE  HmscTaskDone(s, HmscTask(s, m, g), m)
<1> DEFINE a == HmscKeeps(s, m, g)
           t == HmscTask(s, m, g)
<1> SUFFICES HmscTaskDone(s, t, m) OBVIOUS
<1>1. t = RelBlk(a, m) /\ HmscDoes(s, a) BY HmscTaskDoes
<1> HIDE DEF a, t
<1>2. Done(s, a, HmscFields, Out(s)) BY <1>1 DEF HmscDoes
<1>3. Freed(s, t, m, HmscFields, Out(s)) /\ SameWork(a, t) /\ Same(a, t, {"used"})
  BY <1>1, <1>2, Frees
<1>4. a.pipe = s.pipe BY <1>2, IsField DEF Done, Same, HmscFields
<1>5. t.phase = a.phase BY <1>3, IsField DEF Same
<1>6. ASSUME Do(s, a, HmscFields, Out(s)), NoWork(s) PROVE OneWork(a)
  BY <1>4, <1>6 DEF NoWork, OneWork, Do, Idle, OnePipe
<1> QED BY <1>1, <1>3, <1>4, <1>5, <1>6 DEF HmscTaskDone, HmscDoes, SameWork

LEMMA UseIs ==
  ASSUME NEW s, Typed(s), s.use.id \in Task
  PROVE  s.use \in Messages
<1>1. s.use \in Messages \cup {Msg("none", 0, "none", "none", "none")} BY TypedFields
<1>2. "none" \notin Task BY DEF Task
<1> QED BY <1>1, <1>2 DEF Msg

DriverFields == HcdFields \cup MgrFields \cup HmscFields
DriverDoes(s, t, m) ==
  /\ m.id = "HCD" => HcdTaskDoes(s, t, m)
  /\ m.id = "MGR" => MgrTaskDoes(s, t, m)
  /\ m.id = "HMSC" => HmscTaskDone(s, t, m)
  /\ m.id \notin {"HCD", "MGR", "HMSC"} => t = s
AllDoes(s, t, m) ==
  /\ m.id = "HSTRG" => StrgTaskDoes(s, t, m)
  /\ m.id = "HMSCSMP" =>
       /\ StrgTaskDoes(s, t, m) /\ t.strg = s.strg /\ t.chk = s.chk
       /\ m.what = "mount" => Queued(t) = Queued(s)
  /\ m.id \notin {"HSTRG", "HMSCSMP"} => DriverDoes(s, t, m)

LEMMA DriverTasksDo ==
  ASSUME NEW s, Typed(s), NEW g
  PROVE  DriverDoes(s, DriverTasks(s, g), s.use)
<1> DEFINE t == DriverTasks(s, g)
<1> SUFFICES DriverDoes(s, t, s.use) OBVIOUS
<1>1. CASE s.use.id = "HCD"
  <2>1. s.use \in Messages BY <1>1, UseIs DEF Task
  <2>2. t = HcdTask(s, s.use) BY <1>1 DEF DriverTasks, RecMsg
  <2> HIDE DEF t
  <2>3. HcdTaskDoes(s, t, s.use) BY <1>1, <2>1, <2>2, HcdTaskIs
  <2> QED BY <1>1, <2>3 DEF DriverDoes
<1>2. CASE s.use.id = "MGR"
  <2>1. s.use \in Messages BY <1>2, UseIs DEF Task
  <2>2. t = MgrTask(s, s.use) BY <1>2 DEF DriverTasks, RecMsg
  <2> HIDE DEF t
  <2>3. MgrTaskDoes(s, t, s.use) BY <1>2, <2>1, <2>2, MgrTaskIs
  <2> QED BY <1>2, <2>3 DEF DriverDoes
<1>3. CASE s.use.id = "HMSC"
  <2>1. s.use \in Messages BY <1>3, UseIs DEF Task
  <2>2. t = HmscTask(s, s.use, g) BY <1>3 DEF DriverTasks, RecMsg
  <2> HIDE DEF t
  <2>3. HmscTaskDone(s, t, s.use) BY <1>3, <2>1, <2>2, HmscTaskIs
  <2> QED BY <1>3, <2>3 DEF DriverDoes
<1>4. CASE s.use.id \notin {"HCD", "MGR", "HMSC"}
  <2>1. t = s BY <1>4 DEF DriverTasks, RecMsg
  <2> QED BY <1>4, <2>1 DEF DriverDoes
<1> QED BY <1>1, <1>2, <1>3, <1>4

LEMMA TasksDo ==
  ASSUME NEW s, Typed(s), NEW g \in BOOLEAN
  PROVE  AllDoes(s, Tasks(s, g), s.use)
<1> DEFINE t == Tasks(s, g)
<1> SUFFICES AllDoes(s, t, s.use) OBVIOUS
<1>1. CASE s.use.id = "HSTRG"
  <2>1. s.use \in Messages BY <1>1, UseIs DEF Task
  <2>2. t = StrgDriveTask(s, s.use, g) BY <1>1 DEF Tasks, RecMsg
  <2> HIDE DEF t
  <2>3. StrgTaskDoes(s, t, s.use) BY <1>1, <2>1, <2>2, StrgTaskIs
  <2> QED BY <1>1, <2>3 DEF AllDoes
<1>2. CASE s.use.id = "HMSCSMP"
  <2>1. s.use \in Messages BY <1>2, UseIs DEF Task
  <2>2. t = SampleAplTask(s, s.use) BY <1>2 DEF Tasks, RecMsg
  <2> HIDE DEF t
  <2>3. /\ StrgTaskDoes(s, t, s.use) /\ t.strg = s.strg /\ t.chk = s.chk
        /\ s.use.what = "mount" => Queued(t) = Queued(s)
    BY <1>2, <2>1, <2>2, SampleAplTaskIs
  <2> QED BY <1>2, <2>3 DEF AllDoes
<1>3. CASE s.use.id \notin {"HSTRG", "HMSCSMP"}
  <2>1. t = DriverTasks(s, g) BY <1>3 DEF Tasks, RecMsg
  <2> HIDE DEF t
  <2>2. DriverDoes(s, t, s.use) BY <2>1, DriverTasksDo
  <2> QED BY <1>3, <2>2 DEF AllDoes
<1> QED BY <1>1, <1>2, <1>3

LEMMA FreedSame ==
  ASSUME NEW s, NEW t, NEW m, NEW F, NEW N, Freed(s, t, m, F, N), NEW f \in Plain, f \notin F
  PROVE  t[f] = s[f]
BY DEF Freed, Same, Plain

(* What the driver's tasks leave alone: what only the storage driver and   *)
(* the program set, and what was picked.                                   *)
KeptByDriver(s, t) ==
  /\ Typed(t) /\ t.use = s.use /\ t.flag = s.flag /\ t.plug = s.plug
  /\ t.strg = s.strg /\ t.att = s.att /\ t.mounted = s.mounted
  /\ (s.phase => t.phase) /\ t.chk \subseteq s.chk

LEMMA DriverKeeps ==
  ASSUME NEW s, Typed(s), NEW t, DriverDoes(s, t, s.use)
  PROVE  KeptByDriver(s, t)
<1>0. s.use.id \in Task => s.use \in Messages BY UseIs
<1>1. CASE s.use.id = "HCD"
  <2>1. Freed(s, t, s.use, HcdFields, HcdOut(s)) BY <1>1 DEF DriverDoes, HcdTaskDoes
  <2>2. Typed(t) BY <2>1 DEF Freed
  <2>3. /\ t.use = s.use /\ t.flag = s.flag /\ t.plug = s.plug /\ t.strg = s.strg
        /\ t.att = s.att /\ t.mounted = s.mounted /\ t.phase = s.phase /\ t.chk = s.chk
    BY <2>1, IsField DEF Freed, Same, HcdFields
  <2> QED BY <2>2, <2>3 DEF KeptByDriver
<1>2. CASE s.use.id = "MGR"
  <2>0. s.use.what \in {"attach", "detach", "submit"}
    BY <1>0, <1>2 DEF Messages, Task
  <2>1. \E N : Freed(s, t, s.use, MgrFields, N) BY <1>2 DEF DriverDoes, MgrTaskDoes
  <2>2. Typed(t) BY <2>1 DEF Freed
  <2>3. /\ t.use = s.use /\ t.flag = s.flag /\ t.plug = s.plug /\ t.strg = s.strg
        /\ t.att = s.att /\ t.mounted = s.mounted /\ t.phase = s.phase
    BY <2>1, IsField DEF Freed, Same, MgrFields
  <2>4. t.chk \subseteq s.chk BY <1>2, <2>0 DEF DriverDoes, MgrTaskDoes, Enumerates
  <2> QED BY <2>2, <2>3, <2>4 DEF KeptByDriver
<1>3. CASE s.use.id = "HMSC"
  <2>1. /\ Freed(s, t, s.use, HmscFields, Out(s))
        /\ t.phase = TRUE \/ t.phase = s.phase
    BY <1>3 DEF DriverDoes, HmscTaskDone
  <2>2. Typed(t) BY <2>1 DEF Freed
  <2>3. /\ t.use = s.use /\ t.flag = s.flag /\ t.plug = s.plug /\ t.strg = s.strg
        /\ t.att = s.att /\ t.mounted = s.mounted /\ t.chk = s.chk
    BY <2>1, IsField DEF Freed, Same, HmscFields
  <2> QED BY <2>1, <2>2, <2>3 DEF KeptByDriver
<1>4. CASE s.use.id \notin {"HCD", "MGR", "HMSC"}
  <2>1. t = s BY <1>4 DEF DriverDoes
  <2> QED BY <2>1 DEF KeptByDriver
<1> QED BY <1>1, <1>2, <1>3, <1>4

LEMMA AllTyped ==
  ASSUME NEW s, Typed(s), NEW t, AllDoes(s, t, s.use)
  PROVE  Typed(t) /\ t.use = s.use /\ t.flag = s.flag /\ (s.phase => t.phase)
<1>1. CASE s.use.id \in {"HSTRG", "HMSCSMP"}
  <2>1. Freed(s, t, s.use, MainFields, StrgOut) BY <1>1 DEF AllDoes, StrgTaskDoes
  <2>2. Typed(t) BY <2>1 DEF Freed
  <2>3. t.use = s.use /\ t.flag = s.flag /\ t.phase = s.phase
    BY <2>1, IsField DEF Freed, Same, MainFields, StrgFields, CommandFields,
       SearchFields
  <2> QED BY <2>2, <2>3
<1>2. CASE s.use.id \notin {"HSTRG", "HMSCSMP"}
  <2>1. DriverDoes(s, t, s.use) BY <1>2 DEF AllDoes
  <2> QED BY <2>1, DriverKeeps DEF KeptByDriver
<1> QED BY <1>1, <1>2

LEMMA SchedulerTyped ==
  ASSUME NEW s, Typed(s)
  PROVE  Typed(Scheduler(s)) /\ Same(s, Scheduler(s), {"use", "q", "flag"})
<1>1. CASE Queued(s) = {}
  <2>1. Scheduler(s) = s BY <1>1, NoneWaiting
  <2> QED BY <2>1 DEF Same
<1>2. CASE Queued(s) # {} BY <1>2, Picks
<1> QED BY <1>1, <1>2

LEMMA CheckIs ==
  ASSUME NEW s, Typed(s)
  PROVE  LET t == CheckSchedule(s) IN Sets(s, t, "flag", FALSE) /\ Same(s, t, {"flag"})
<1> DEFINE v == [s EXCEPT !.flag = FALSE]
<1>1. Sets(s, v, "flag", FALSE) BY Set1, IsPlain, KindOf
<1>2. Same(s, v, {"flag"}) BY IsField, KindOf, Upd
<1> HIDE DEF v
<1> SUFFICES LET t == v IN Sets(s, t, "flag", FALSE) /\ Same(s, t, {"flag"})
  BY DEF CheckSchedule, v
<1> QED BY <1>1, <1>2

(* One turn of an access from a callback: it may run a task, then picks.   *)
Turned(s, v) ==
  \E a, b : /\ IF s.flag THEN Sets(s, a, "flag", FALSE) /\ Same(s, a, {"flag"})
                              /\ DriverDoes(a, b, a.use)
               ELSE a = s /\ b = s
            /\ v = Scheduler(b)

LEMMA WaitLoopTurns ==
  ASSUME NEW s, Typed(s), NEW g
  PROVE  Turned(s, WaitLoop(s, g)) /\ Typed(WaitLoop(s, g))
<1> DEFINE a == IF s.flag THEN CheckSchedule(s) ELSE s
           b == IF s.flag THEN DriverTasks(a, g) ELSE s
           v == Scheduler(b)
<1>1. WaitLoop(s, g) = v BY DEF WaitLoop
<1>2. IF s.flag THEN Sets(s, a, "flag", FALSE) /\ Same(s, a, {"flag"}) ELSE a = s
  BY CheckIs
<1>3. Typed(a) BY <1>2, DoTyped DEF Sets
<1> HIDE DEF a
<1>4. IF s.flag THEN DriverDoes(a, b, a.use) ELSE b = s BY <1>3, DriverTasksDo
<1> HIDE DEF b
<1>5. Typed(b) BY <1>3, <1>4, DriverKeeps DEF KeptByDriver
<1>6. Typed(v) BY <1>5, SchedulerTyped
<1>7. Turned(s, v) BY <1>2, <1>4 DEF Turned
<1> QED BY <1>1, <1>6, <1>7

LEMMA CommandTyped ==
  ASSUME NEW s, Typed(s), NEW p \in Process, NEW w \in Who
  PROVE  LET t == [Command(s, p, "zero", w) EXCEPT !.proof = "none"]
         IN  /\ Do(s, t, CommandFields \cup {"proof"}, Some("HMSC", p, "none", "zero"))
             /\ t.proof = "none"
             /\ "zero" \in s.chk => Commanded(s, t, p, w)
<1> DEFINE a == Command(s, p, "zero", w)
           N == Some("HMSC", p, "none", "zero")
           t == [a EXCEPT !.proof = "none"]
<1>1. w \in Word BY Words DEF Who
<1>2. Do(s, a, CommandFields, N) /\ ("zero" \in s.chk => Commanded(s, a, p, w))
  BY <1>1, Words, DoCommand
<1> HIDE DEF a, N
<1>3. Typed(a) BY <1>2, DoTyped
<1>4. Sets(a, t, "proof", "none") BY <1>3, Words, Set1, IsPlain, KindOf
<1> HIDE DEF t
<1>5. Do(s, t, CommandFields \cup {"proof"}, N) BY <1>2, <1>4, DoThenSet DEF Sets
<1>6. /\ t.process = a.process /\ t.by = a.by /\ t.bumped = a.bumped /\ t.seq = a.seq
      /\ t.dev = a.dev /\ t.csw = a.csw
  BY <1>4, IsField DEF Sets, Do, Done, Same
<1>7. "zero" \in s.chk => Commanded(s, t, p, w) BY <1>2, <1>6 DEF Commanded
<1>8. t.proof = "none" BY <1>4 DEF Sets
<1> QED BY <1>5, <1>7, <1>8 DEF t, a, N

(* The answer that an access takes.                                        *)
LEMMA AnswerTyped ==
  ASSUME NEW s, Typed(s)
  PROVE  LET t == RelBlk([s EXCEPT !.proof = "none"], s.use)
         IN  /\ Typed(t) /\ Same(s, t, {"proof", "used"}) /\ t.used = s.used \ {s.use.blk}
             /\ Queued(t) = Queued(s) /\ OneWork(t) = OneWork(s) /\ NoWork(t) = NoWork(s)
             /\ Acc(s, s.use.blk) => Acc(t, 0)
<1> DEFINE a == [s EXCEPT !.proof = "none"]
           t == RelBlk(a, s.use)
<1>1. Sets(s, a, "proof", "none") BY Words, Set1, IsPlain, KindOf
<1>2. Same(s, a, {"proof"}) BY Words, IsField, KindOf, Upd
<1> HIDE DEF a
<1>3. Typed(a) BY <1>1, DoTyped DEF Sets
<1>4. /\ Typed(t) /\ Same(a, t, {"used"}) /\ t.used = a.used \ {s.use.blk}
      /\ Queued(t) = Queued(a) /\ NoMsg(t) = NoMsg(a) /\ OneMsg(t) = OneMsg(a)
      /\ Acc(a, s.use.blk) => Acc(t, 0)
  BY <1>3, Released
<1> HIDE DEF t
<1>5. a.q = s.q /\ a.used = s.used /\ a.pipe = s.pipe BY <1>2, IsField DEF Same
<1>6. Queued(a) = Queued(s) /\ NoMsg(a) = NoMsg(s) /\ OneMsg(a) = OneMsg(s)
  BY <1>5, SameQueues
<1>7. Acc(s, s.use.blk) => Acc(a, s.use.blk) BY <1>5, SameBlocks
<1>8. t.pipe = s.pipe BY <1>4, <1>5, IsField DEF Same
<1>9. OneWork(t) = OneWork(s) /\ NoWork(t) = NoWork(s)
  BY <1>4, <1>6, <1>8 DEF OneWork, NoWork, Idle, OnePipe
<1>10. Same(s, t, {"proof", "used"}) BY <1>2, <1>4 DEF Same
<1> QED BY <1>4, <1>5, <1>6, <1>7, <1>9, <1>10 DEF t, a

(* What the device and the line send.                                      *)
LEMMA InterruptIs ==
  ASSUME NEW s, NEW v, NEW F, Do(s, v, F, {}), NEW m \in Messages, m.id = "HCD", m.blk = 0,
         Interrupt(v, m)
  PROVE  Do(s, u', F, {m}) /\ u'.used = v.used
<1>1. Typed(v) BY DoTyped
<1>2. u' = SndMsg(v, m) \/ u' = v BY DEF Interrupt
<1>3. Do(v, SndMsg(v, m), {}, {m}) BY <1>1, DoSnd
<1>4. Do(v, v, {}, {m}) BY <1>1, DoNothing, DoMore
<1>5. Do(v, u', {}, {m}) BY <1>2, <1>3, <1>4
<1>6. u'.used = v.used BY <1>1, <1>2, Snd, IsField DEF Same
<1> QED BY <1>5, <1>6, SetThenDo

LEMMA EndMessage ==
  ASSUME NEW p \in Pipe, NEW status \in Word
  PROVE  LET m == Msg("HCD", 0, "end", status, p)
         IN  m \in Messages /\ ~IsWork(m)
<1>1. p \in Word /\ "end" \in Word BY Words DEF Pipe
<1>2. 0 \in 0 .. BLKMAX BY SchedulerAssumption
<1> QED BY <1>1, <1>2 DEF Msg, Messages, Task, Direct, IsWork

LEMMA LineMessage ==
  ASSUME NEW w \in {"attch", "dtch"}
  PROVE  LET m == Msg("HCD", 0, w, "none", "none")
         IN  m \in Messages /\ ~IsWork(m)
<1>1. w \in Word /\ "none" \in Word BY Words
<1>2. 0 \in 0 .. BLKMAX BY SchedulerAssumption
<1> QED BY <1>1, <1>2 DEF Msg, Messages, Task, Direct, IsWork

LEMMA OutcomeWord ==
  ASSUME NEW p \in Pipe, NEW status \in Outcomes(p)
  PROVE  status \in Word
BY Words DEF Outcomes, CswStatus

LEMMA EndsSend ==
  ASSUME Typed(u), NEW p \in Pipe, NEW status \in Word, Ends(p, status)
  PROVE  Do(u, u', {"ended"}, {Msg("HCD", 0, "end", status, p)}) /\ u'.used = u.used
<1> DEFINE E == u.ended \cup {p}
           a == [u EXCEPT !.ended = E]
<1>1. E \in SUBSET Pipe BY TypedFields
<1> HIDE DEF E
<1>2. Sets(u, a, "ended", E) BY <1>1, Set1, IsPlain, KindOf
<1>3. Msg("HCD", 0, "end", status, p) \in Messages BY EndMessage
<1>4. Interrupt(a, Msg("HCD", 0, "end", status, p)) BY DEF Ends, E
<1>6. a.used = u.used BY DEF a
<1> HIDE DEF a
<1>5. Do(u, a, {"ended"}, {}) BY <1>2 DEF Sets
<1> QED BY <1>3, <1>4, <1>5, <1>6, InterruptIs DEF Msg

LEMMA LineSends ==
  ASSUME Typed(u), LineChanges
  PROVE  /\ u.ints \in {"attch", "dtch"}
         /\ Do(u, u', {"ints"}, {Msg("HCD", 0, u.ints, "none", "none")})
         /\ u'.used = u.used
<1> DEFINE a == [u EXCEPT !.ints = "none"]
           m == Msg("HCD", 0, u.ints, "none", "none")
<1>0. u.ints \in {"attch", "dtch"} BY TypedFields DEF LineChanges
<1>1. Sets(u, a, "ints", "none") BY Set1, IsPlain, KindOf
<1>2. m \in Messages BY <1>0, LineMessage
<1>3. Interrupt(a, m) BY DEF LineChanges
<1>4. m.id = "HCD" /\ m.blk = 0 BY DEF Msg
<1>7. a.used = u.used BY DEF a
<1> HIDE DEF a, m
<1>5. Do(u, a, {"ints"}, {}) BY <1>1 DEF Sets
<1>6. Do(u, u', {"ints"}, {m}) /\ u'.used = u.used BY <1>7, <1>2, <1>3, <1>4, <1>5, InterruptIs
<1> QED BY <1>0, <1>6 DEF m

-----------------------------------------------------------------------------
(* Types.                                                                  *)

ScheFields == {"used", "q", "flag", "use"}
HostFields == {"pipe", "ended", "conn", "mode", "ep", "plug", "ints", "stall", "halt"}
ClassFields ==
  {"process", "seq", "root", "chk", "roop", "buf", "by", "bumped", "dev", "csw",
   "proof", "phase"}
StorageFields ==
  {"strg", "sseq", "pseq", "errs", "loops", "ready", "att", "mounted"}

LEMMA ScheTyped ==
  DOMAIN ScheInit = ScheFields /\ \A f \in ScheFields : ScheInit[f] \in Kinds[f]
<1>1. DOMAIN ScheInit = ScheFields BY DEF ScheInit, ScheFields
<1>2. /\ ScheInit.used \in Kinds.used /\ ScheInit.q \in Kinds.q
      /\ ScheInit.flag \in Kinds.flag /\ ScheInit.use \in Kinds.use
  BY KindOf DEF ScheInit
<1> QED BY <1>1, <1>2 DEF ScheFields

LEMMA HostTyped ==
  DOMAIN HostInit = HostFields /\ \A f \in HostFields : HostInit[f] \in Kinds[f]
<1>1. DOMAIN HostInit = HostFields BY DEF HostInit, HostFields
<1>2. HostInit.pipe \in Pipes BY Words DEF HostInit, Pipes, Pipe
<1>3. /\ HostInit.ended \in Kinds.ended /\ HostInit.conn \in Kinds.conn
      /\ HostInit.mode \in Kinds.mode /\ HostInit.ep \in Kinds.ep
      /\ HostInit.plug \in Kinds.plug /\ HostInit.ints \in Kinds.ints
      /\ HostInit.stall \in Kinds.stall /\ HostInit.halt \in Kinds.halt
  BY KindOf, Words DEF HostInit
<1>4. HostInit.pipe \in Kinds.pipe BY <1>2, KindOf
<1> QED BY <1>1, <1>3, <1>4 DEF HostFields

LEMMA ClassTyped ==
  DOMAIN HmscInit = ClassFields /\ \A f \in ClassFields : HmscInit[f] \in Kinds[f]
<1>1. DOMAIN HmscInit = ClassFields BY DEF HmscInit, ClassFields
<1>2. HmscInit.seq \in Counters BY DEF HmscInit, Counters, Process
<1>3. HmscInit.buf \in Kinds.buf BY KindOf DEF HmscInit
<1>4. HmscInit.dev \in Kinds.dev /\ HmscInit.csw \in Kinds.csw
  BY KindOf, Words DEF HmscInit
<1>5. /\ HmscInit.process \in Kinds.process /\ HmscInit.root \in Kinds.root
      /\ HmscInit.chk \in Kinds.chk /\ HmscInit.roop \in Kinds.roop
      /\ HmscInit.by \in Kinds.by /\ HmscInit.bumped \in Kinds.bumped
      /\ HmscInit.proof \in Kinds.proof /\ HmscInit.phase \in Kinds.phase
  BY KindOf, Words DEF HmscInit
<1>6. HmscInit.seq \in Kinds.seq BY <1>2, KindOf
<1> QED BY <1>1, <1>3, <1>4, <1>5, <1>6 DEF ClassFields

LEMMA StorageTyped ==
  DOMAIN StorageInit = StorageFields /\ \A f \in StorageFields : StorageInit[f] \in Kinds[f]
<1>1. DOMAIN StorageInit = StorageFields BY DEF StorageInit, StorageFields
<1>2. 0 \in 0 .. RETRIES - 1 BY StorageAssumption
<1>3. /\ StorageInit.strg \in Kinds.strg /\ StorageInit.sseq \in Kinds.sseq
      /\ StorageInit.pseq \in Kinds.pseq /\ StorageInit.errs \in Kinds.errs
      /\ StorageInit.loops \in Kinds.loops /\ StorageInit.ready \in Kinds.ready
      /\ StorageInit.att \in Kinds.att /\ StorageInit.mounted \in Kinds.mounted
  BY <1>2, KindOf DEF StorageInit
<1> QED BY <1>1, <1>3 DEF StorageFields

LEMMA Parts ==
  /\ Fields = ScheFields \cup HostFields \cup ClassFields \cup StorageFields
  /\ \A f \in ScheFields : f \notin HostFields \cup ClassFields \cup StorageFields
  /\ \A f \in HostFields : f \notin ClassFields \cup StorageFields
  /\ \A f \in ClassFields : f \notin StorageFields
BY FieldSet DEF ScheFields, HostFields, ClassFields, StorageFields

LEMMA InitTyped ==
  ASSUME Init
  PROVE  /\ Typed(u)
         /\ \A f \in ScheFields : u[f] = ScheInit[f]
         /\ \A f \in HostFields : u[f] = HostInit[f]
         /\ \A f \in ClassFields : u[f] = HmscInit[f]
         /\ \A f \in StorageFields : u[f] = StorageInit[f]
<1>1. u = MemoryInit BY DEF Init
<1>2. /\ u = [f \in Fields |-> u[f]]
      /\ \A f \in ScheFields : u[f] = ScheInit[f]
      /\ \A f \in HostFields : u[f] = HostInit[f]
      /\ \A f \in ClassFields : u[f] = HmscInit[f]
      /\ \A f \in StorageFields : u[f] = StorageInit[f]
  BY <1>1, ScheTyped, HostTyped, ClassTyped, StorageTyped, Parts DEF MemoryInit
<1>3. \A f \in Fields : u[f] \in Kinds[f]
  BY <1>2, Parts, ScheTyped, HostTyped, ClassTyped, StorageTyped
<1> QED BY <1>2, <1>3 DEF Typed

(* The type of every variable, the driver's memory field by field.         *)
TypeInv ==
  /\ Typed(u) /\ pc \in Place
  /\ acc \in [Who -> {"none", "wait", "leave"}] /\ det \in BOOLEAN
  /\ told \in {"failed", "passed", "wrong"} /\ spoil \subseteq Spoil

LEMMA TypeInvGives ==
  ASSUME TypeInv
  PROVE  TypeOK
<1>1. /\ \A p \in Process : u.seq[p] \in 0 .. 6
      /\ u.seq["DATA_STALL"] \in 0 .. 3 /\ u.seq["STALL_ERR"] \in 0 .. 3
  <2>1. \A p \in Counted : u.seq[p] \in 0 .. Last(p) BY CounterValue DEF TypeInv
  <2>2. "DATA_STALL" \in Counted /\ "STALL_ERR" \in Counted BY DEF Counted
  <2>3. Last("DATA_STALL") = 3 /\ Last("STALL_ERR") = 3 BY DEF Last, Process
  <2>4. \A p \in Process : p \in Counted /\ Last(p) \in {4, 6} BY DEF Counted, Process, Last
  <2> QED BY <2>1, <2>2, <2>3, <2>4
<1>2. /\ u.used \in SUBSET (1 .. BLKMAX) /\ u.flag \in BOOLEAN
      /\ u.ended \in SUBSET Pipe /\ u.conn \in BOOLEAN /\ u.ep \in BOOLEAN
      /\ u.mode \in {"DETACHED", "DEFAULT", "CONFIGURED"}
      /\ u.ints \in {"none", "attch", "dtch"} /\ u.chk \in SUBSET {"zero", "max"}
      /\ u.strg \in {"NONE", "SEARCH", "PARTITION"}
      /\ u.sseq \in 0 .. 9 /\ u.pseq \in 0 .. 1
      /\ u.errs \in 0 .. 2 /\ u.loops \in 0 .. RETRIES - 1
  BY TypedFields DEF TypeInv
<1> QED BY <1>1, <1>2 DEF TypeInv, TypeOK

LEMMA InitType == Init => TypeInv
<1> SUFFICES ASSUME Init PROVE TypeInv OBVIOUS
<1>1. Typed(u) BY InitTyped
<1> QED BY <1>1 DEF Init, TypeInv, Place, Who, Spoil

(* Every action keeps the memory's type.                                   *)
LEMMA MainKeepsTyped ==
  ASSUME Typed(u), Main
  PROVE  Typed(u')
<1>1. CASE MainSchedule BY <1>1, SchedulerTyped DEF MainSchedule
<1>2. CASE MainCheck
  <2>1. u' = CheckSchedule(u) BY <1>2 DEF MainCheck
  <2> QED BY <2>1, CheckIs, DoTyped DEF Sets
<1>3. CASE MainRuns
  <2>1. PICK g \in BOOLEAN : u' = MainTasks(u, g) BY <1>3 DEF MainRuns
  <2> QED BY <2>1, TasksDo, AllTyped, DriverTasksDo, DriverKeeps DEF MainTasks, KeptByDriver
<1>4. CASE MainDetaches
  <2>1. u' = EndTransfers(u) BY <1>4 DEF MainDetaches
  <2> QED BY <2>1, HcdEndTransfers DEF HcdDoes, Done
<1>5. CASE MainDetached
  <2>1. PICK g \in BOOLEAN : u' = IF RecMsg(u, "HCD") THEN DetachProcess(u)
                                  ELSE MainTasks(DetachProcess(u), g)
    BY <1>5 DEF MainDetached
  <2>2. Typed(DetachProcess(u)) BY HcdAttach DEF DetachProcess, HcdDoes, Done
  <2> DEFINE d == DetachProcess(u)
  <2> HIDE DEF d
  <2>3. Typed(d) BY <2>2 DEF d
  <2>4. Typed(MainTasks(d, g))
    BY <2>3, TasksDo, AllTyped, DriverTasksDo, DriverKeeps DEF MainTasks, KeptByDriver
  <2> QED BY <2>1, <2>3, <2>4 DEF d
<1>6. CASE MainReceives BY <1>6, AnswerTyped DEF MainReceives, Answer
<1>7. CASE MainTurns BY <1>7 DEF MainTurns
<1> QED BY <1>1, <1>2, <1>3, <1>4, <1>5, <1>6, <1>7 DEF Main

LEMMA BeginTyped ==
  ASSUME Typed(u), NEW w \in Who, NEW p \in Process, Begin(w, p)
  PROVE  Typed(u')
<1>1. u' = [Command(u, p, "zero", w) EXCEPT !.proof = "none"] BY DEF Begin
<1> QED BY <1>1, CommandTyped, DoTyped

LEMMA NextKeepsTyped ==
  ASSUME TypeInv, Next
  PROVE  Typed(u')
<1> USE DEF TypeInv
<1>1. CASE Main BY <1>1, MainKeepsTyped
<1>2. CASE MainAccess BY <1>2, BeginTyped DEF MainAccess, Who, Process
<1>3. CASE IrqAccess
  <2>1. PICK p \in {"DATA_IN", "DATA_OUT"} : Begin("irq", p) BY <1>3 DEF IrqAccess
  <2> QED BY <2>1, BeginTyped DEF Who, Process
<1>4. CASE IrqTurn
  <2>1. PICK g \in BOOLEAN :
          LET v == WaitLoop(u, g)
          IN  IF RecMsg(v, "HSTRG") THEN Answer("irq", v)
              ELSE u' = v /\ (GiveUp("irq") \/ TurnAgain("irq", ~u.ep))
    BY <1>4 DEF IrqTurn
  <2> DEFINE v == WaitLoop(u, g)
  <2>2. Typed(v) BY WaitLoopTurns
  <2> HIDE DEF v
  <2>5. IF RecMsg(v, "HSTRG") THEN Answer("irq", v)
        ELSE u' = v /\ (GiveUp("irq") \/ TurnAgain("irq", ~u.ep))
    BY <2>1 DEF v
  <2>3. CASE RecMsg(v, "HSTRG") BY <2>5, <2>2, <2>3, AnswerTyped DEF Answer
  <2>4. CASE ~RecMsg(v, "HSTRG") BY <2>5, <2>2, <2>4
  <2> QED BY <2>3, <2>4
<1>5. CASE \E p \in Pipe : DeviceAnswers(p) \/ TransferFails(p)
  <2>1. PICK p \in Pipe : DeviceAnswers(p) \/ TransferFails(p) BY <1>5
  <2>2. PICK status \in Word : Ends(p, status)
    BY <2>1, OutcomeWord, Words DEF DeviceAnswers, TransferFails
  <2> QED BY <2>2, EndsSend, DoTyped
<1>6. CASE PlugOrPull
  <2> DEFINE x == ~u.plug
  <2>1. u' = [u EXCEPT !.plug = x] BY <1>6 DEF PlugOrPull
  <2>2. x \in Kinds.plug BY KindOf, TypedFields
  <2> HIDE DEF x
  <2> QED BY <2>1, <2>2, IsPlain, Set1, DoTyped DEF Sets
<1>7. CASE LineChanges BY <1>7, LineSends, DoTyped
<1> QED BY <1>1, <1>2, <1>3, <1>4, <1>5, <1>6, <1>7 DEF Next

LEMMA NextKeepsType == TypeInv /\ [Next]_vars => TypeInv'
<1> SUFFICES ASSUME TypeInv, [Next]_vars PROVE TypeInv' OBVIOUS
<1>1. CASE Next
  <2>1. Typed(u') BY <1>1, NextKeepsTyped
  <2>2. pc' \in Place
    BY <1>1 DEF TypeInv, Place, Next, Main, MainSchedule, MainCheck, MainRuns, MainDetaches,
                MainDetached, MainReceives, MainTurns, MainAccess, IrqAccess, IrqTurn,
                DeviceAnswers, TransferFails, Ends, PlugOrPull, LineChanges, Goto
  <2>3. acc' \in [Who -> {"none", "wait", "leave"}]
    <3>1. ASSUME NEW w \in Who, NEW v \in {"none", "wait", "leave"}, acc' = [acc EXCEPT ![w] = v]
          PROVE  acc' \in [Who -> {"none", "wait", "leave"}]
      BY <3>1 DEF TypeInv
    <3>2. "main" \in Who /\ "irq" \in Who BY DEF Who
    <3> QED
      BY <1>1, <3>1, <3>2 DEF TypeInv, Next, Main, MainSchedule, MainCheck, MainRuns, MainDetaches,
                MainDetached, MainReceives, MainTurns, MainAccess, IrqAccess, IrqTurn, Begin,
                Answer, GiveUp, TurnAgain,
                DeviceAnswers, TransferFails, Ends, PlugOrPull, LineChanges
  <2>4. det' \in BOOLEAN
    BY <1>1, TypedFields DEF TypeInv, Next, Main, MainSchedule, MainCheck, MainRuns, MainDetaches,
                MainDetached, MainReceives, MainTurns, MainAccess, IrqAccess, IrqTurn,
                DeviceAnswers, TransferFails, Ends, PlugOrPull, LineChanges
  <2>5. told' \in {"failed", "passed", "wrong"}
    BY <1>1 DEF TypeInv, Next, Main, MainSchedule, MainCheck, MainRuns, MainDetaches,
                MainDetached, MainReceives, MainTurns, MainAccess, IrqAccess, IrqTurn, Begin,
                Answer, GiveUp, TurnAgain,
                DeviceAnswers, TransferFails, Ends, PlugOrPull, LineChanges
  <2>6. spoil' \subseteq Spoil
    <3>1. /\ BegunTooEarly \subseteq Spoil /\ \A v : Early(v) \subseteq Spoil
          /\ \A w, x : LosesPicked(w, x) \subseteq Spoil /\ \A y : Bounce(y) \subseteq Spoil
          /\ {"window"} \subseteq Spoil /\ {"nested"} \subseteq Spoil /\ {"bounced"} \subseteq Spoil
      BY DEF BegunTooEarly, Early, LosesPicked, Bounce, Spoil
    <3> QED
      BY <1>1, <3>1 DEF TypeInv, Next, Main, MainSchedule, MainCheck, MainRuns, MainDetaches,
                MainDetached, MainReceives, MainTurns, MainAccess, IrqAccess, IrqTurn, Begin,
                DeviceAnswers, TransferFails, Ends, PlugOrPull, LineChanges
  <2> QED BY <2>1, <2>2, <2>3, <2>4, <2>5, <2>6 DEF TypeInv
<1>2. CASE UNCHANGED vars BY <1>2 DEF vars, TypeInv, Typed
<1> QED BY <1>1, <1>2

(* Every variable has its type in every state: no counter leaves the       *)
(* stages that its task knows.                                             *)
THEOREM UsbTypes == Spec => []TypeOK
<1>1. TypeInv => TypeOK BY TypeInvGives
<1> QED BY InitType, NextKeepsType, <1>1, PTL DEF Spec

-----------------------------------------------------------------------------
(* The parts of the invariant, and what each task does to them.            *)

(* The message in hand, k telling whether one was picked and is not done    *)
(* with. An access takes its answer out of the hand: what is left there has *)
(* no block of its own any more.                                           *)
Holds(s, k) == k /\ (s.use.id = "HSTRG" => s.use.blk \in s.used \ Blocks(Queued(s)))
Msgs(s, k) == Queued(s) \cup (IF Holds(s, k) THEN {s.use} ELSE {})
Pool(s, k) == IF Holds(s, k) THEN Acc(s, s.use.blk) ELSE Acc(s, 0)
Work(s, k) ==
  ~s.phase => IF Holds(s, k) /\ IsWork(s.use) THEN NoWork(s) ELSE OneWork(s)

(* How far the search of a new device may have come while an access is     *)
(* under way: not to the program's task; not to the answer of the          *)
(* enumeration; not at all.                                                *)
Level0(s, k) == \A m \in Msgs(s, k) : m.id # "HMSCSMP"
Level1(s, k) == Level0(s, k) /\ \A m \in Msgs(s, k) : m.id = "MGR" => m.what # "submit"
Level2(s, k) == Level1(s, k) /\ s.pipe["ctl"] # "enum" /\ s.mode # "DEFAULT"
Strg(s, k) ==
  s.strg = "NONE" /\ \A m \in Msgs(s, k) : m.id = "HSTRG" => m.what = "NONE"

(* Between accesses to a device whose search has ended nothing goes on.    *)
Settled(s, k) ==
  Idle(s) /\ \A m \in Msgs(s, k) : IsWork(m) => m.id = "HMSCSMP" /\ m.what = "mount"
Quiet(s, k) == ~s.phase /\ "zero" \in s.chk /\ s.strg = "NONE" => Settled(s, k)
Mode(s) == s.ep <=> s.mode = "CONFIGURED"

LEMMA HasBlock ==
  ASSUME NEW m \in Messages, m.id = "HSTRG"
  PROVE  m.blk # 0
BY DEF Messages

LEMMA UseBlock ==
  ASSUME NEW s, Typed(s)
  PROVE  s.use.blk \in Blk /\ (s.use.id = "HSTRG" => s.use.blk # 0)
<1>1. s.use \in Messages \cup {Msg("none", 0, "none", "none", "none")} BY TypedFields
<1>2. CASE s.use \in Messages BY <1>2, MessageFields, HasBlock DEF Blk
<1>3. CASE s.use = Msg("none", 0, "none", "none", "none")
  BY <1>3, SchedulerAssumption DEF Msg, Blk
<1> QED BY <1>1, <1>2, <1>3

LEMMA EmptyHand ==
  ASSUME NEW s, Typed(s), Acc(s, 0), s.use.id = "HSTRG", NEW k
  PROVE  ~Holds(s, k)
<1>1. s.used \subseteq Blocks(Queued(s)) \cup {0} BY DEF Acc
<1>2. s.used \in SUBSET (1 .. BLKMAX) BY TypedFields
<1>3. 0 \notin s.used BY <1>2
<1> QED BY <1>1, <1>3 DEF Holds

LEMMA NotTaken ==
  ASSUME NEW s
  PROVE  /\ ~Holds(s, FALSE) /\ Msgs(s, FALSE) = Queued(s)
         /\ Pool(s, FALSE) = Acc(s, 0) /\ Work(s, FALSE) = (~s.phase => OneWork(s))
BY DEF Holds, Msgs, Pool, Work

LEMMA NotHeld ==
  ASSUME NEW s, NEW k, ~Holds(s, k)
  PROVE  /\ Msgs(s, k) = Queued(s)
         /\ Pool(s, k) = Acc(s, 0) /\ Work(s, k) = (~s.phase => OneWork(s))
BY DEF Msgs, Pool, Work

LEMMA InTheHand ==
  ASSUME NEW s, NEW k, Holds(s, k)
  PROVE  /\ Msgs(s, k) = Queued(s) \cup {s.use} /\ Pool(s, k) = Acc(s, s.use.blk)
         /\ IsWork(s.use) => Work(s, k) = (~s.phase => NoWork(s))
         /\ ~IsWork(s.use) => Work(s, k) = (~s.phase => OneWork(s))
BY DEF Msgs, Pool, Work

(* Only what is named here is looked at.                                   *)
Looked == {"used", "q", "use", "pipe", "phase", "mode", "ep", "chk", "strg"}

LEMMA SameView ==
  ASSUME NEW s, NEW t, NEW F, Same(s, t, F), \A f \in Looked : f \notin F, NEW k
  PROVE  /\ Holds(t, k) = Holds(s, k) /\ Msgs(t, k) = Msgs(s, k)
         /\ Pool(t, k) = Pool(s, k) /\ Work(t, k) = Work(s, k)
         /\ Level0(t, k) = Level0(s, k) /\ Level1(t, k) = Level1(s, k)
         /\ Level2(t, k) = Level2(s, k) /\ Strg(t, k) = Strg(s, k)
         /\ Quiet(t, k) = Quiet(s, k) /\ Mode(t) = Mode(s)
         /\ NoWork(t) = NoWork(s) /\ Acc(t, 0) = Acc(s, 0)
<1>1. /\ t.used = s.used /\ t.q = s.q /\ t.use = s.use /\ t.pipe = s.pipe
      /\ t.phase = s.phase /\ t.mode = s.mode /\ t.ep = s.ep /\ t.chk = s.chk
      /\ t.strg = s.strg
  BY IsField DEF Same, Looked
<1>2. Queued(t) = Queued(s) /\ NoMsg(t) = NoMsg(s) /\ OneMsg(t) = OneMsg(s)
  BY <1>1, SameQueues
<1>3. \A b : Acc(t, b) = Acc(s, b) BY <1>1, SameBlocks
<1>4. Idle(t) = Idle(s) /\ OnePipe(t) = OnePipe(s) BY <1>1 DEF Idle, OnePipe
<1>5. Holds(t, k) = Holds(s, k) BY <1>1, <1>2 DEF Holds
<1>6. Msgs(t, k) = Msgs(s, k) BY <1>1, <1>2, <1>5 DEF Msgs
<1>7. Pool(t, k) = Pool(s, k) BY <1>1, <1>3, <1>5 DEF Pool
<1>8. NoWork(t) = NoWork(s) /\ OneWork(t) = OneWork(s) BY <1>2, <1>4 DEF NoWork, OneWork
<1>9. Work(t, k) = Work(s, k) BY <1>1, <1>5, <1>8 DEF Work
<1>10. Level0(t, k) = Level0(s, k) BY <1>6 DEF Level0
<1>11. Level1(t, k) = Level1(s, k) BY <1>6, <1>10 DEF Level1
<1>12. Level2(t, k) = Level2(s, k) BY <1>1, <1>11 DEF Level2
<1>13. Strg(t, k) = Strg(s, k) BY <1>1, <1>6 DEF Strg
<1>14. Settled(t, k) = Settled(s, k) BY <1>4, <1>6 DEF Settled
<1>15. Quiet(t, k) = Quiet(s, k) /\ Mode(t) = Mode(s) BY <1>1, <1>14 DEF Quiet, Mode
<1> QED BY <1>3, <1>5, <1>6, <1>7, <1>8, <1>9, <1>10, <1>11, <1>12, <1>13, <1>15

(* Fewer messages keep a level.                                            *)
LEMMA Fewer ==
  ASSUME NEW s, NEW t, NEW k, NEW j, Msgs(t, k) \subseteq Msgs(s, j),
         t.pipe = s.pipe, t.mode = s.mode, t.strg = s.strg, t.chk = s.chk, t.phase = s.phase
  PROVE  /\ Level0(s, j) => Level0(t, k)
         /\ Level1(s, j) => Level1(t, k)
         /\ Level2(s, j) => Level2(t, k)
         /\ Strg(s, j) => Strg(t, k)
         /\ Quiet(s, j) => Quiet(t, k)
<1>1. Level0(s, j) => Level0(t, k) BY DEF Level0
<1>2. Level1(s, j) => Level1(t, k) BY <1>1 DEF Level1
<1>3. Level2(s, j) => Level2(t, k) BY <1>2 DEF Level2
<1>4. Settled(s, j) => Settled(t, k) BY DEF Settled, Idle
<1> QED BY <1>1, <1>2, <1>3, <1>4 DEF Strg, Quiet

(* The scheduler picks, where nothing is in hand.                          *)
LEMMA ScheduleStep ==
  ASSUME NEW s, Typed(s), Acc(s, 0), s.flag => s.use.id = "HSTRG"
  PROVE  LET t == Scheduler(s)
         IN  /\ Typed(t) /\ Same(s, t, {"use", "q", "flag"})
             /\ Pool(t, t.flag) /\ Msgs(t, t.flag) = Queued(s)
             /\ Work(s, FALSE) => Work(t, t.flag)
             /\ Queued(s) # {} => t.flag = TRUE /\ t.use \in Messages /\ Holds(t, t.flag)
             /\ Queued(s) = {} => t = s
<1> DEFINE t == Scheduler(s)
<1> SUFFICES /\ Typed(t) /\ Same(s, t, {"use", "q", "flag"})
             /\ Pool(t, t.flag) /\ Msgs(t, t.flag) = Queued(s)
             /\ Work(s, FALSE) => Work(t, t.flag)
             /\ Queued(s) # {} => t.flag = TRUE /\ t.use \in Messages /\ Holds(t, t.flag)
             /\ Queued(s) = {} => t = s
  OBVIOUS
<1>1. CASE Queued(s) = {}
  <2>1. t = s BY <1>1, NoneWaiting
  <2> HIDE DEF t
  <2>2. ~Holds(s, s.flag) BY EmptyHand DEF Holds
  <2> QED BY <1>1, <2>1, <2>2, NotHeld, NotTaken DEF Same
<1>2. CASE Queued(s) # {}
  <2>1. /\ Typed(t) /\ Same(s, t, {"use", "q", "flag"}) /\ t.flag = TRUE
        /\ t.use \in Messages /\ Queued(s) = Queued(t) \cup {t.use}
        /\ Acc(s, 0) => Acc(t, t.use.blk)
        /\ OneMsg(s) => OneMsg(t)
        /\ OneMsg(s) /\ IsWork(t.use) => NoMsg(t)
    BY <1>2, Picks
  <2> HIDE DEF t
  <2>2. Holds(t, t.flag) BY <2>1, HasBlock DEF Holds, Acc
  <2>3. Pool(t, t.flag) /\ Msgs(t, t.flag) = Queued(s) BY <2>1, <2>2, InTheHand
  <2>4. t.pipe = s.pipe /\ t.phase = s.phase BY <2>1, IsField DEF Same
  <2>5. ASSUME ~t.phase, OneWork(s)
        PROVE  IF IsWork(t.use) THEN NoWork(t) ELSE OneWork(t)
    <3>1. Idle(t) = Idle(s) /\ OnePipe(t) = OnePipe(s) BY <2>4 DEF Idle, OnePipe
    <3>2. CASE IsWork(t.use)
      <4>1. ~NoMsg(s) BY <2>1, <3>2 DEF NoMsg
      <4> QED BY <2>1, <2>5, <3>1, <3>2, <4>1 DEF OneWork, NoWork
    <3>3. CASE ~IsWork(t.use)
      <4>1. NoMsg(s) => NoMsg(t) BY <2>1 DEF NoMsg
      <4> QED BY <2>1, <2>5, <3>1, <3>3, <4>1 DEF OneWork
    <3> QED BY <3>2, <3>3
  <2>6. Work(s, FALSE) => Work(t, t.flag) BY <2>2, <2>4, <2>5, NotTaken DEF Work
  <2> QED BY <1>2, <2>1, <2>2, <2>3, <2>6
<1> QED BY <1>1, <1>2

(* What the driver's tasks send, and what they do to the modes.            *)
DriverSends(s, t, m) ==
  /\ Typed(t) /\ t.use = s.use /\ t.flag = s.flag /\ t.strg = s.strg
  /\ t.chk \subseteq s.chk /\ (s.phase => t.phase)
  /\ Queued(s) \subseteq Queued(t)
  /\ \A n \in Queued(t) \ Queued(s) :
       /\ n \in Messages
       /\ n.id = "HMSCSMP" => m.id = "MGR" /\ m.what = "submit"
       /\ n.id = "MGR" /\ n.what = "submit" => s.pipe["ctl"] = "enum"
       /\ n.id = "HSTRG" => n.what = s.strg
  /\ t.pipe["ctl"] = "enum" => s.pipe["ctl"] = "enum" \/ (m.id = "MGR" /\ Enumerates(s, m))
  /\ m.id # "MGR" => t.mode = s.mode /\ t.ep = s.ep
  /\ Mode(s) => Mode(t)
  /\ t.mode = "DEFAULT" => s.mode \in {"DEFAULT", "DETACHED"}
  /\ s.ep /\ ~t.ep => "zero" \notin t.chk
  /\ Acc(s, m.blk) => Acc(t, 0)

LEMMA HcdSends ==
  ASSUME NEW s, Typed(s), NEW t, s.use.id = "HCD", HcdTaskDoes(s, t, s.use),
         KeptByDriver(s, t)
  PROVE  DriverSends(s, t, s.use)
<1> DEFINE m == s.use
<1>1. Freed(s, t, m, HcdFields, HcdOut(s)) BY DEF HcdTaskDoes
<1>2. t.mode = s.mode /\ t.ep = s.ep
  BY <1>1, FreedSame, IsPlain DEF HcdFields
<1>3. \A n \in Queued(t) \ Queued(s) :
        /\ n \in Messages /\ n.id # "HMSCSMP"
        /\ n.id = "MGR" /\ n.what = "submit" => s.pipe["ctl"] = "enum"
        /\ n.id = "HSTRG" => n.what = s.strg
  BY <1>1 DEF Freed, HcdOut
<1>4. t.pipe["ctl"] = "enum" => s.pipe["ctl"] = "enum" BY DEF HcdTaskDoes
<1> HIDE DEF m
<1>5. Queued(s) \subseteq Queued(t) /\ (Acc(s, m.blk) => Acc(t, 0)) BY <1>1 DEF Freed
<1>6. s.mode \in {"DETACHED", "DEFAULT", "CONFIGURED"} BY TypedFields
<1>7. DriverSends(s, t, m)
  BY <1>2, <1>3, <1>4, <1>5, <1>6 DEF DriverSends, KeptByDriver, Mode
<1> QED BY <1>7 DEF m

LEMMA MgrSends ==
  ASSUME NEW s, Typed(s), NEW t, s.use.id = "MGR", MgrTaskDoes(s, t, s.use),
         KeptByDriver(s, t)
  PROVE  DriverSends(s, t, s.use)
<1> DEFINE m == s.use
           N == IF m.what = "submit" THEN Opens ELSE {}
<1>0. s.use \in Messages /\ s.use.what \in {"attach", "detach", "submit"}
  <2>1. s.use \in Messages BY UseIs DEF Task
  <2> QED BY <2>1 DEF Messages
<1>1. Freed(s, t, m, MgrFields, N) BY DEF MgrTaskDoes
<1>2. Some("HMSCSMP", "open", "none", "none") \subseteq Messages
  BY Words, SomeMessages
<1>3. \A n \in N : n \in Messages /\ n.id = "HMSCSMP" /\ m.what = "submit"
  BY <1>2 DEF Opens, Some, Msg
<1> HIDE DEF N
<1>4. /\ Queued(s) \subseteq Queued(t) /\ Queued(t) \subseteq Queued(s) \cup N
      /\ Acc(s, m.blk) => Acc(t, 0)
  BY <1>1 DEF Freed
<1>5. s.mode \in {"DETACHED", "DEFAULT", "CONFIGURED"} /\ s.ep \in BOOLEAN
      /\ t.mode \in {"DETACHED", "DEFAULT", "CONFIGURED"} /\ t.ep \in BOOLEAN
  BY TypedFields DEF KeptByDriver
<1>6. /\ t.pipe["ctl"] = "enum" => s.pipe["ctl"] = "enum" \/ Enumerates(s, m)
      /\ Mode(s) => Mode(t)
      /\ t.mode = "DEFAULT" => s.mode \in {"DEFAULT", "DETACHED"}
      /\ s.ep /\ ~t.ep => "zero" \notin t.chk
  <2>1. CASE Enumerates(s, m)
    BY <2>1, <1>5 DEF MgrTaskDoes, Enumerates, Mode
  <2>2. CASE ~Enumerates(s, m)
    <3>1. t.pipe = s.pipe BY <2>2 DEF MgrTaskDoes
    <3>2. CASE m.what = "attach" BY <3>1, <3>2, <2>2, <1>5 DEF MgrTaskDoes, Enumerates, Mode
    <3>3. CASE m.what = "detach" BY <3>1, <3>3, <1>5 DEF MgrTaskDoes, Mode
    <3>4. CASE m.what = "submit" BY <3>1, <3>4, <1>5 DEF MgrTaskDoes, Mode
    <3> QED BY <1>0, <3>2, <3>3, <3>4
  <2> QED BY <2>1, <2>2
<1>7. m.id = "MGR" BY DEF m
<1> HIDE DEF m
<1>8. DriverSends(s, t, m)
  BY <1>3, <1>4, <1>6, <1>7 DEF DriverSends, KeptByDriver
<1> QED BY <1>8 DEF m

LEMMA HmscSends ==
  ASSUME NEW s, Typed(s), NEW t, s.use.id = "HMSC", HmscTaskDone(s, t, s.use),
         KeptByDriver(s, t)
  PROVE  DriverSends(s, t, s.use)
<1> DEFINE m == s.use
<1>1. Freed(s, t, m, HmscFields, Out(s)) /\ t.pipe = s.pipe BY DEF HmscTaskDone
<1>2. t.mode = s.mode /\ t.ep = s.ep
  BY <1>1, FreedSame, IsPlain DEF HmscFields
<1>3. \A n \in Queued(t) \ Queued(s) :
        /\ n \in Messages /\ n.id # "HMSCSMP" /\ n.id # "MGR"
        /\ n.id = "HSTRG" => n.what = s.strg
  BY <1>1 DEF Freed, Out
<1>5. Queued(s) \subseteq Queued(t) /\ (Acc(s, m.blk) => Acc(t, 0)) BY <1>1 DEF Freed
<1>6. s.mode \in {"DETACHED", "DEFAULT", "CONFIGURED"} BY TypedFields
<1> HIDE DEF m
<1>7. DriverSends(s, t, m)
  BY <1>1, <1>2, <1>3, <1>5, <1>6 DEF DriverSends, KeptByDriver, Mode
<1> QED BY <1>7 DEF m

(* The work after a driver's task, where it began by itself or there was    *)
(* none before a new device was enumerated.                                *)
WorkAfter(s, t, m) ==
  /\ IsWork(m) /\ NoWork(s) /\ ~t.phase => OneWork(t)
  /\ m.id = "MGR" /\ Enumerates(s, m) /\ NoWork(s) => OneWork(t)
  /\ ~IsWork(m) /\ ~(m.id = "MGR" /\ Enumerates(s, m)) => KeepsWork(s, t) /\ Rests(s, t)

LEMMA DriverWork ==
  ASSUME NEW s, Typed(s), NEW t, DriverDoes(s, t, s.use),
         s.use.id \in {"HCD", "MGR", "HMSC"}
  PROVE  WorkAfter(s, t, s.use)
<1>0. s.use \in Messages BY UseIs DEF Task
<1>1. CASE s.use.id = "HCD" BY <1>1 DEF DriverDoes, HcdTaskDoes, WorkAfter
<1>2. CASE s.use.id = "MGR"
  <2>1. s.use.what \in {"attach", "detach", "submit"} BY <1>0, <1>2 DEF Messages
  <2>2. IsWork(s.use) <=> s.use.what = "submit" BY <1>2 DEF IsWork
  <2>3. MgrTaskDoes(s, t, s.use) BY <1>2 DEF DriverDoes
  <2>4. Enumerates(s, s.use) => s.use.what = "attach" BY DEF Enumerates
  <2>5. IsWork(s.use) /\ NoWork(s) => OneWork(t) BY <2>2, <2>3 DEF MgrTaskDoes
  <2>6. Enumerates(s, s.use) /\ NoWork(s) => OneWork(t) BY <2>3 DEF MgrTaskDoes
  <2>7. ~IsWork(s.use) /\ ~Enumerates(s, s.use) => KeepsWork(s, t) /\ Rests(s, t)
    BY <2>2, <2>3 DEF MgrTaskDoes
  <2> QED BY <1>2, <2>5, <2>6, <2>7 DEF WorkAfter
<1>3. CASE s.use.id = "HMSC"
  <2>1. IsWork(s.use) BY <1>3 DEF IsWork
  <2>2. t.phase = TRUE \/ (t.phase = s.phase /\ (NoWork(s) => OneWork(t)))
    BY <1>3 DEF DriverDoes, HmscTaskDone
  <2> QED BY <1>3, <2>1, <2>2 DEF WorkAfter
<1> QED BY <1>1, <1>2, <1>3

LEMMA DriverStep ==
  ASSUME NEW s, Typed(s), NEW t, DriverDoes(s, t, s.use),
         s.use.id = "HSTRG" => ~Holds(s, TRUE), s.use.id # "HMSCSMP",
         Pool(s, TRUE),
         s.use.id = "MGR" /\ Enumerates(s, s.use) => NoWork(s) /\ "zero" \notin s.chk
  PROVE  /\ Typed(t) /\ Acc(t, 0) /\ t.use = s.use /\ t.flag = s.flag
         /\ Queued(s) \subseteq Queued(t) /\ t.chk \subseteq s.chk /\ (s.phase => t.phase)
         /\ Mode(s) => Mode(t)
         /\ s.ep /\ ~t.ep => "zero" \notin t.chk
         /\ Work(s, TRUE) => Work(t, FALSE)
         /\ Level2(s, TRUE) => Level1(t, FALSE)
         /\ Level2(s, TRUE) /\ s.mode = "CONFIGURED" => Level2(t, FALSE)
         /\ Level1(s, TRUE) => Level0(t, FALSE)
         /\ Strg(s, TRUE) => Strg(t, FALSE)
         /\ Quiet(s, TRUE) => Quiet(t, FALSE)
<1>0. KeptByDriver(s, t) BY DriverKeeps
<1>1. CASE s.use.id \in {"HCD", "MGR", "HMSC"}
  <2>1. DriverSends(s, t, s.use)
    BY <1>0, <1>1, HcdSends, MgrSends, HmscSends DEF DriverDoes
  <2>2. Holds(s, TRUE) BY <1>1 DEF Holds
  <2>3. Acc(t, 0) BY <2>1, <2>2, InTheHand DEF DriverSends
  <2>4. Msgs(s, TRUE) = Queued(s) \cup {s.use} /\ Msgs(t, FALSE) = Queued(t)
    BY <2>2, InTheHand, NotTaken
  <2>5. WorkAfter(s, t, s.use) BY <1>1, DriverWork
  <2>6. Work(s, TRUE) => Work(t, FALSE)
    <3> SUFFICES ASSUME Work(s, TRUE), ~t.phase PROVE OneWork(t) BY NotTaken
    <3>1. ~s.phase BY <2>1 DEF DriverSends
    <3>2. IF IsWork(s.use) THEN NoWork(s) ELSE OneWork(s) BY <2>2, <3>1 DEF Work
    <3> QED BY <2>5, <3>2 DEF WorkAfter, KeepsWork
  <2>7. ASSUME Level1(s, TRUE) PROVE ~(s.use.id = "MGR" /\ s.use.what = "submit")
    BY <2>4, <2>7 DEF Level1
  <2>8. Level1(s, TRUE) => Level0(t, FALSE)
    BY <2>1, <2>4, <2>7 DEF Level1, Level0, DriverSends
  <2>9. Level2(s, TRUE) => Level1(t, FALSE)
    BY <2>1, <2>4, <2>8 DEF Level1, Level2, DriverSends
  <2>10. Level2(s, TRUE) /\ s.mode = "CONFIGURED" => Level2(t, FALSE)
    BY <2>1, <2>9 DEF Level2, DriverSends, Enumerates
  <2>11. Strg(s, TRUE) => Strg(t, FALSE) BY <2>1, <2>4 DEF Strg, DriverSends
  <2>12. Quiet(s, TRUE) => Quiet(t, FALSE)
    <3> SUFFICES ASSUME Quiet(s, TRUE), ~t.phase, "zero" \in t.chk, t.strg = "NONE"
                 PROVE  Settled(t, FALSE)
      BY DEF Quiet
    <3>1. ~s.phase /\ "zero" \in s.chk /\ s.strg = "NONE" BY <2>1 DEF DriverSends
    <3>2. Settled(s, TRUE) BY <3>1 DEF Quiet
    <3>3. ~IsWork(s.use) BY <1>1, <2>4, <3>2 DEF Settled
    <3>4. ~(s.use.id = "MGR" /\ Enumerates(s, s.use)) BY <3>1
    <3>5. Rests(s, t) BY <2>5, <3>3, <3>4 DEF WorkAfter
    <3>6. Idle(s) BY <3>2 DEF Settled
    <3>7. Idle(t) /\ \A n \in Queued(t) : IsWork(n) => n \in Queued(s)
      BY <3>5, <3>6 DEF Rests
    <3> QED BY <2>4, <3>2, <3>7 DEF Settled
  <2>13. Typed(t) /\ t.use = s.use /\ t.flag = s.flag /\ Queued(s) \subseteq Queued(t)
         /\ t.chk \subseteq s.chk /\ (s.phase => t.phase) /\ (Mode(s) => Mode(t))
         /\ (s.ep /\ ~t.ep => "zero" \notin t.chk)
    BY <2>1 DEF DriverSends
  <2> QED BY <2>3, <2>6, <2>8, <2>9, <2>10, <2>11, <2>12, <2>13
<1>2. CASE s.use.id \notin {"HCD", "MGR", "HMSC"}
  <2>1. t = s BY <1>2 DEF DriverDoes
  <2>2. Acc(s, 0) /\ (Work(s, TRUE) => Work(s, FALSE))
    <3>1. CASE Holds(s, TRUE)
      <4>1. s.use.id \notin Task BY <1>2, <3>1 DEF Task
      <4>2. s.use = Msg("none", 0, "none", "none", "none")
        BY <4>1, TypedFields, MessageFields
      <4>3. s.use.blk = 0 /\ ~IsWork(s.use) BY <4>2 DEF Msg, IsWork
      <4> QED BY <3>1, <4>3, InTheHand, NotTaken
    <3>2. CASE ~Holds(s, TRUE) BY <3>2, NotHeld, NotTaken
    <3> QED BY <3>1, <3>2
  <2>3. Msgs(s, FALSE) \subseteq Msgs(s, TRUE) BY NotTaken DEF Msgs
  <2>4. Level2(s, TRUE) => Level1(s, TRUE) BY DEF Level2
  <2>5. Level1(s, TRUE) => Level0(s, TRUE) BY DEF Level1
  <2>6. /\ Level0(s, TRUE) => Level0(s, FALSE)
        /\ Level1(s, TRUE) => Level1(s, FALSE)
        /\ Level2(s, TRUE) => Level2(s, FALSE)
        /\ Strg(s, TRUE) => Strg(s, FALSE)
        /\ Quiet(s, TRUE) => Quiet(s, FALSE)
    BY <2>3, Fewer
  <2> QED BY <2>1, <2>2, <2>4, <2>5, <2>6
<1> QED BY <1>1, <1>2

(* A message that was taken for an answer does nothing more.               *)
LEMMA StaleDoes ==
  ASSUME NEW s, Typed(s), s.use.id = "HSTRG", s.use.what = "NONE",
         s.use.blk \notin s.used, NEW g
  PROVE  Tasks(s, g) = s
<1>1. Tasks(s, g) = StrgDriveTask(s, s.use, g) BY DEF Tasks, RecMsg
<1>2. StrgDriveTask(s, s.use, g) = RelBlk(s, s.use) BY DEF StrgDriveTask
<1>3. s.used \ {s.use.blk} = s.used OBVIOUS
<1>4. [s EXCEPT !.used = s.used] = s BY DEF Typed
<1> QED BY <1>1, <1>2, <1>3, <1>4 DEF RelBlk

(* The storage driver's task, where a search is under way.                 *)
LEMMA SearchStep ==
  ASSUME NEW s, Typed(s), NEW t, StrgTaskDoes(s, t, s.use),
         s.use.id \in {"HSTRG", "HMSCSMP"}, Holds(s, TRUE), Pool(s, TRUE), Work(s, TRUE),
         Mode(s),
         s.use.id = "HMSCSMP" => /\ t.strg = s.strg /\ t.chk = s.chk
                                 /\ s.use.what = "mount" => Queued(t) = Queued(s)
  PROVE  /\ Acc(t, 0) /\ Mode(t) /\ (~t.phase => OneWork(t))
         /\ Quiet(s, TRUE) => Quiet(t, FALSE)
<1>1. Freed(s, t, s.use, MainFields, StrgOut) /\ t.pipe = s.pipe BY DEF StrgTaskDoes
<1>2. t.phase = s.phase /\ t.mode = s.mode /\ t.ep = s.ep
  BY <1>1, FreedSame, IsPlain DEF MainFields, StrgFields, CommandFields,
       SearchFields
<1>3. IsWork(s.use) BY DEF IsWork
<1>4. Acc(t, 0) BY <1>1, InTheHand DEF Freed
<1>5. ~s.phase => NoWork(s) BY <1>3, InTheHand
<1>6. ~t.phase => OneWork(t) BY <1>2, <1>5 DEF StrgTaskDoes
<1>7. Mode(t) BY <1>2 DEF Mode
<1>8. Msgs(s, TRUE) = Queued(s) \cup {s.use} /\ Msgs(t, FALSE) = Queued(t)
  BY InTheHand, NotTaken
<1>9. ASSUME Quiet(s, TRUE), ~t.phase, "zero" \in t.chk, t.strg = "NONE"
      PROVE  Settled(t, FALSE)
  <2>1. NoWork(s) BY <1>2, <1>5, <1>9
  <2>2. Idle(t) BY <1>1, <2>1 DEF NoWork, Idle
  <2>3. \A n \in Queued(s) : ~IsWork(n) BY <2>1 DEF NoWork, NoMsg
  <2>4. CASE Queued(t) \subseteq Queued(s) \cup Mounts
    <3>1. \A n \in Mounts : n.id = "HMSCSMP" /\ n.what = "mount" BY DEF Mounts, Some, Msg
    <3> QED BY <1>8, <2>2, <2>3, <2>4, <3>1 DEF Settled
  <2>5. CASE t.strg = s.strg /\ t.chk = s.chk
    <3>1. Settled(s, TRUE) BY <1>2, <1>9, <2>5 DEF Quiet
    <3>2. s.use.id = "HMSCSMP" /\ s.use.what = "mount" BY <1>3, <1>8, <3>1 DEF Settled
    <3>3. Queued(t) = Queued(s) BY <3>2
    <3> QED BY <1>8, <2>2, <2>3, <3>3 DEF Settled
  <2> QED BY <1>9, <2>4, <2>5 DEF StrgTaskDoes
<1> QED BY <1>4, <1>6, <1>7, <1>9 DEF Quiet

(* Any task, where no access is under way.                                 *)
LEMMA AllStep ==
  ASSUME NEW s, Typed(s), NEW g \in BOOLEAN,
         ~Holds(s, TRUE) => s.use.what = "NONE" /\ s.use.blk \notin s.used,
         Pool(s, TRUE), Work(s, TRUE), Mode(s),
         s.use.id = "MGR" /\ Enumerates(s, s.use) => NoWork(s) /\ "zero" \notin s.chk
  PROVE  LET t == Tasks(s, g)
         IN  /\ Typed(t) /\ Acc(t, 0) /\ t.use = s.use /\ t.flag = s.flag /\ Mode(t)
             /\ ~t.phase => OneWork(t)
             /\ Quiet(s, TRUE) => Quiet(t, FALSE)
<1> DEFINE t == Tasks(s, g)
<1> SUFFICES /\ Typed(t) /\ Acc(t, 0) /\ t.use = s.use /\ t.flag = s.flag /\ Mode(t)
             /\ ~t.phase => OneWork(t)
             /\ Quiet(s, TRUE) => Quiet(t, FALSE)
  OBVIOUS
<1>1. AllDoes(s, t, s.use) BY TasksDo
<1>2. ~Holds(s, TRUE) => s.use.id = "HSTRG" /\ t = s
  BY StaleDoes DEF Holds
<1> HIDE DEF t
<1>3. Typed(t) /\ t.use = s.use /\ t.flag = s.flag BY <1>1, AllTyped
<1>4. CASE ~Holds(s, TRUE)
  <2>1. Pool(s, TRUE) = Acc(s, 0) /\ (~s.phase => OneWork(s)) BY <1>4, NotHeld
  <2>2. Msgs(s, FALSE) \subseteq Msgs(s, TRUE) BY NotTaken DEF Msgs
  <2>3. Quiet(s, TRUE) => Quiet(s, FALSE) BY <2>2, Fewer
  <2> QED BY <1>2, <1>4, <2>1, <2>3
<1>5. CASE Holds(s, TRUE) /\ s.use.id \in {"HSTRG", "HMSCSMP"}
  <2>1. StrgTaskDoes(s, t, s.use) BY <1>1, <1>5 DEF AllDoes
  <2>2. s.use.id = "HMSCSMP" => /\ t.strg = s.strg /\ t.chk = s.chk
                                /\ s.use.what = "mount" => Queued(t) = Queued(s)
    BY <1>1 DEF AllDoes
  <2> QED BY <1>3, <1>5, <2>1, <2>2, SearchStep
<1>6. CASE s.use.id \notin {"HSTRG", "HMSCSMP"}
  <2>1. DriverDoes(s, t, s.use) BY <1>1, <1>6 DEF AllDoes
  <2> QED BY <1>3, <1>6, <2>1, DriverStep, NotTaken
<1> QED BY <1>4, <1>5, <1>6

(* What the device and the line do.                                        *)
LineFields == {"ended", "ints", "plug"}
LEMMA LineStep ==
  ASSUME NEW s, Typed(s), NEW t, NEW N, Do(s, t, LineFields, N), t.used = s.used,
         \A n \in N : n.id = "HCD" /\ n.blk = 0 /\ ~IsWork(n), NEW k
  PROVE  /\ Typed(t) /\ t.use = s.use /\ t.flag = s.flag /\ t.mode = s.mode /\ t.ep = s.ep
         /\ t.chk = s.chk /\ t.used = s.used /\ Queued(s) \subseteq Queued(t)
         /\ t.phase = s.phase /\ t.pipe = s.pipe /\ t.dev = s.dev /\ t.csw = s.csw
         /\ Holds(t, k) = Holds(s, k)
         /\ Pool(s, k) => Pool(t, k)
         /\ Work(s, k) => Work(t, k)
         /\ Level0(s, k) => Level0(t, k)
         /\ Level1(s, k) => Level1(t, k)
         /\ Level2(s, k) => Level2(t, k)
         /\ Strg(s, k) => Strg(t, k)
         /\ Quiet(s, k) => Quiet(t, k)
         /\ Mode(t) = Mode(s)
<1>1. /\ t.use = s.use /\ t.flag = s.flag /\ t.mode = s.mode /\ t.ep = s.ep
      /\ t.chk = s.chk /\ t.phase = s.phase /\ t.pipe = s.pipe /\ t.strg = s.strg
      /\ t.dev = s.dev /\ t.csw = s.csw
  BY IsPlain, Stays DEF Do, LineFields
<1>2. /\ Typed(t) /\ Queued(s) \subseteq Queued(t) /\ Queued(t) \subseteq Queued(s) \cup N
      /\ \A b \in Blk : Acc(s, b) => Acc(t, b)
  BY DEF Do, Done
<1>3. (NoMsg(s) => NoMsg(t)) /\ (OneMsg(s) => OneMsg(t)) BY DoIdly DEF Idly
<1>4. Blocks(Queued(t)) = Blocks(Queued(s)) BY <1>2 DEF Blocks
<1>5. Holds(t, k) = Holds(s, k) BY <1>1, <1>4 DEF Holds
<1>6. Pool(s, k) => Pool(t, k)
  <2>1. 0 \in Blk /\ s.use.blk \in Blk BY UseBlock, SchedulerAssumption DEF Blk
  <2> QED BY <1>1, <1>2, <1>5, <2>1 DEF Pool
<1>7. Idle(t) = Idle(s) /\ OnePipe(t) = OnePipe(s) BY <1>1 DEF Idle, OnePipe
<1>8. Work(s, k) => Work(t, k) BY <1>1, <1>3, <1>5, <1>7 DEF Work, NoWork, OneWork
<1>9. \A m \in Msgs(t, k) \ Msgs(s, k) : m.id = "HCD" /\ ~IsWork(m)
  BY <1>1, <1>2, <1>5 DEF Msgs
<1>10. Level0(s, k) => Level0(t, k) BY <1>9 DEF Level0
<1>11. Level1(s, k) => Level1(t, k) BY <1>9, <1>10 DEF Level1
<1>12. Level2(s, k) => Level2(t, k) BY <1>1, <1>11 DEF Level2
<1>13. Strg(s, k) => Strg(t, k) BY <1>1, <1>9 DEF Strg
<1>14. Settled(s, k) => Settled(t, k) BY <1>7, <1>9 DEF Settled
<1>15. (Quiet(s, k) => Quiet(t, k)) /\ Mode(t) = Mode(s) BY <1>1, <1>14 DEF Quiet, Mode
<1> QED BY <1>1, <1>2, <1>5, <1>6, <1>8, <1>10, <1>11, <1>12, <1>13, <1>15

(* A detach being handled.                                                 *)
LEMMA Detaching ==
  ASSUME NEW s, Typed(s), s.use.id = "HCD", s.use.what = "dtch"
  PROVE  /\ Holds(s, TRUE) /\ s.use.blk = 0 /\ ~IsWork(s.use) /\ s.use \in Messages
         /\ Pool(s, TRUE) = Acc(s, 0) /\ Work(s, TRUE) = Work(s, FALSE)
         /\ Level0(s, TRUE) = Level0(s, FALSE) /\ Level1(s, TRUE) = Level1(s, FALSE)
         /\ Level2(s, TRUE) = Level2(s, FALSE) /\ Strg(s, TRUE) = Strg(s, FALSE)
         /\ Quiet(s, TRUE) = Quiet(s, FALSE)
<1>1. s.use \in Messages BY UseIs DEF Task
<1>2. s.use.blk = 0 BY <1>1 DEF Messages, Direct
<1>3. ~IsWork(s.use) BY DEF IsWork
<1>4. Holds(s, TRUE) BY DEF Holds
<1>5. Pool(s, TRUE) = Acc(s, 0) BY <1>2, <1>4, InTheHand
<1>6. Work(s, TRUE) = Work(s, FALSE) BY <1>3, <1>4, InTheHand, NotTaken
<1>7. Msgs(s, TRUE) = Queued(s) \cup {s.use} /\ Msgs(s, FALSE) = Queued(s)
  BY <1>4, InTheHand, NotTaken
<1>8. Level0(s, TRUE) = Level0(s, FALSE) BY <1>7 DEF Level0
<1>9. Level1(s, TRUE) = Level1(s, FALSE) BY <1>7, <1>8 DEF Level1
<1>10. Level2(s, TRUE) = Level2(s, FALSE) BY <1>9 DEF Level2
<1>11. Strg(s, TRUE) = Strg(s, FALSE) BY <1>7 DEF Strg
<1>12. Quiet(s, TRUE) = Quiet(s, FALSE) BY <1>3, <1>7 DEF Quiet, Settled
<1> QED BY <1>1, <1>2, <1>3, <1>4, <1>5, <1>6, <1>8, <1>9, <1>10, <1>11, <1>12

(* Where no message is sent because no block is free or the queue is full,  *)
(* some are waiting.                                                       *)
LEMMA PostQueues ==
  ASSUME NEW s, Typed(s), s.used \subseteq Blocks(Queued(s)) \cup {0},
         NEW id \in Task, NEW what, NEW arg, NEW drv,
         Some(id, what, arg, drv) \subseteq Messages
  PROVE  Queued(Post(s, id, what, arg, drv)) # {}
<1> DEFINE t == Post(s, id, what, arg, drv)
<1>1. CASE Queued(s) # {}
  <2>1. Queued(s) \subseteq Queued(t) BY DoPost DEF Do, Done
  <2> QED BY <1>1, <2>1
<1>2. CASE Queued(s) = {}
  <2>1. s.used = {}
    <3>1. Blocks(Queued(s)) = {} BY <1>2 DEF Blocks
    <3>2. s.used \in SUBSET (1 .. BLKMAX) BY TypedFields
    <3> QED BY <3>1, <3>2
  <2> DEFINE c == PgetBlk(s)
             v == [s EXCEPT !.used = @ \cup {c}]
             m == Msg(id, c, what, arg, drv)
  <2>2. c \in 1 .. BLKMAX
    <3> DEFINE none == {}
               D == (1 .. BLKMAX) \ none
    <3>1. none \in SUBSET (1 .. BLKMAX) /\ D = 1 .. BLKMAX OBVIOUS
    <3> HIDE DEF none
    <3>2. D # {} BY <3>1, SchedulerAssumption
    <3>4. FirstFree[none] = CHOOSE b \in D : \A d \in D : b <= d
      BY <3>1, <3>2 DEF FirstFree
    <3>5. 1 \in D /\ \A d \in D : 1 <= d BY <3>1, SchedulerAssumption
    <3> HIDE DEF D
    <3>6. FirstFree[none] \in D BY <3>4, <3>5
    <3>3. FirstFree[{}] \in 1 .. BLKMAX BY <3>1, <3>6 DEF none
    <3> QED BY <2>1, <3>3 DEF PgetBlk
  <2>3. HasRoom(s, id)
    <3>1. Pri[id] \in Priority BY Priorities
    <3>2. s.q[Pri[id]] \in Seq(Messages) BY <3>1, TypedFields
    <3>3. Len(s.q[Pri[id]]) = 0
      <4>1. Len(s.q[Pri[id]]) \in Nat BY <3>2
      <4>2. \A i \in 1 .. Len(s.q[Pri[id]]) : s.q[Pri[id]][i] \in Queued(s)
        BY <3>1, QueuedMessages
      <4> QED BY <1>2, <4>1, <4>2
    <3>4. TABLEMAX \in Nat /\ TABLEMAX # 0 /\ TABLEMAX # 1 BY SchedulerAssumption
    <3> QED BY <3>3, <3>4 DEF HasRoom
  <2>4. t = SndMsg(v, m) BY <2>2, <2>3 DEF Post, CanPost
  <2>5. m \in Messages BY <2>2 DEF Some
  <2>6. Typed(v)
    <3>1. s.used \cup {c} \in Kinds.used BY <2>1, <2>2, KindOf
    <3> HIDE DEF c
    <3> QED BY <3>1, Upd, IsField
  <2> HIDE DEF v, m
  <2>7. m \in Queued(SndMsg(v, m)) BY <2>5, <2>6, Snd
  <2> QED BY <2>4, <2>7
<1> QED BY <1>1, <1>2

LEMMA CommandQueues ==
  ASSUME NEW s, Typed(s), s.used \subseteq Blocks(Queued(s)) \cup {0}, "zero" \in s.chk,
         NEW p \in Process, NEW w \in Who
  PROVE  Queued([Command(s, p, "zero", w) EXCEPT !.proof = "none"]) # {}
<1> DEFINE a == SetCbw(s, w)
           b == [a EXCEPT !.process = p]
           c == Post(b, "HMSC", p, "none", "zero")
           d == [c EXCEPT !.seq = [c.seq EXCEPT ![p] = 0]]
           t == [d EXCEPT !.proof = "none"]
<1>0. w \in Word /\ p \in Word /\ "zero" \in Word /\ "none" \in Word BY Words DEF Who, Process
<1>1. Command(s, p, "zero", w) = d BY DEF Command
<1>2. Do(s, a, {"by", "bumped", "dev", "csw"}, {}) /\ Typed(a) BY <1>0, DoSetCbw, DoTyped
<1>3. a.q = s.q /\ a.used = s.used BY DEF SetCbw
<1> HIDE DEF a
<1>4. Typed(b) BY <1>0, <1>2, Set1, IsPlain, KindOf, DoTyped DEF Sets
<1>5. b.q = s.q /\ b.used = s.used BY <1>3 DEF b
<1> HIDE DEF b
<1>6. Queued(b) = Queued(s) BY <1>5, SameQueues
<1>7. Some("HMSC", p, "none", "zero") \subseteq Messages BY <1>0, SomeMessages
<1>8. Queued(c) # {} BY <1>4, <1>5, <1>6, <1>7, PostQueues DEF Task
<1>9. t.q = c.q
  <2> HIDE DEF c
  <2> QED OBVIOUS
<1>10. Queued(t) = Queued(c) BY <1>9, SameQueues
<1> QED BY <1>1, <1>8, <1>10 DEF t

(* An access begins where nothing is under way.                            *)
LEMMA BeginStep ==
  ASSUME NEW s, Typed(s), NEW p \in Process, NEW w \in Who, NEW k,
         "zero" \in s.chk, s.ep, Mode(s), s.strg = "NONE", Pool(s, k),
         Idle(s), \A m \in Msgs(s, k) : ~IsWork(m)
  PROVE  LET t == [Command(s, p, "zero", w) EXCEPT !.proof = "none"]
         IN  /\ Typed(t) /\ t.use = s.use /\ t.flag = s.flag /\ t.ep = s.ep
             /\ t.chk = s.chk /\ t.mode = s.mode /\ t.phase = s.phase
             /\ Pool(t, k) /\ Work(t, k) /\ Level2(t, k) /\ Strg(t, k) /\ Mode(t)
             /\ t.use.id = "HSTRG" => ~Holds(t, k) /\ Queued(t) # {}
<1> DEFINE t == [Command(s, p, "zero", w) EXCEPT !.proof = "none"]
           N == Some("HMSC", p, "none", "zero")
           F == CommandFields \cup {"proof"}
<1> SUFFICES /\ Typed(t) /\ t.use = s.use /\ t.flag = s.flag /\ t.ep = s.ep
             /\ t.chk = s.chk /\ t.mode = s.mode /\ t.phase = s.phase
             /\ Pool(t, k) /\ Work(t, k) /\ Level2(t, k) /\ Strg(t, k) /\ Mode(t)
             /\ t.use.id = "HSTRG" => ~Holds(t, k) /\ Queued(t) # {}
  OBVIOUS
<1>1. Do(s, t, CommandFields \cup {"proof"}, N) BY CommandTyped
<1>2. ASSUME Acc(s, 0) PROVE Queued(t) # {}
  BY <1>2, CommandQueues DEF Acc
<1>3. \A n \in N : n.id = "HMSC" BY DEF Some, Msg
<1> HIDE DEF t, N
<1>4. /\ t.use = s.use /\ t.flag = s.flag /\ t.ep = s.ep /\ t.chk = s.chk
      /\ t.mode = s.mode /\ t.phase = s.phase /\ t.pipe = s.pipe /\ t.strg = s.strg
  <2>1. /\ "use" \notin F /\ "flag" \notin F /\ "ep" \notin F /\ "chk" \notin F
        /\ "mode" \notin F /\ "phase" \notin F /\ "pipe" \notin F /\ "strg" \notin F
    BY DEF CommandFields
  <2> HIDE DEF F
  <2>2. Done(s, t, F, N) BY <1>1 DEF Do, F
  <2>3. \A f \in Plain : f \notin F => t[f] = s[f] BY <2>2, Stays
  <2> QED BY <2>1, <2>3, IsPlain
<1>5. /\ Typed(t) /\ Queued(s) \subseteq Queued(t) /\ Queued(t) \subseteq Queued(s) \cup N
      /\ \A b \in Blk : Acc(s, b) => Acc(t, b)
  BY <1>1 DEF Do, Done
<1>6. s.use.blk \in Blk /\ 0 \in Blk BY UseBlock, SchedulerAssumption DEF Blk
<1>7. Holds(s, k) => ~IsWork(s.use) BY DEF Msgs
<1>8. s.use.id = "HSTRG" => ~Holds(s, k) BY <1>7 DEF IsWork
<1>9. t.use.id = "HSTRG" => Acc(s, 0) /\ Acc(t, 0) /\ ~Holds(t, k)
  BY <1>4, <1>5, <1>6, <1>8, NotHeld, EmptyHand
<1>10. Holds(t, k) <=> Holds(s, k)
  <2>1. CASE s.use.id = "HSTRG" BY <1>4, <1>8, <1>9, <2>1
  <2>2. CASE s.use.id # "HSTRG" BY <1>4, <2>2 DEF Holds
  <2> QED BY <2>1, <2>2
<1>11. Pool(t, k) BY <1>4, <1>5, <1>6, <1>10 DEF Pool
<1>12. Idle(t) /\ OnePipe(t) BY <1>4 DEF Idle, OnePipe
<1>13. NoMsg(s) BY DEF NoMsg, Msgs
<1>14. OneWork(t) BY <1>1, <1>12, <1>13 DEF Do, OneWork
<1>15. Work(t, k) BY <1>4, <1>7, <1>10, <1>14 DEF Work
<1>16. \A m \in Msgs(t, k) : m.id = "HMSC" \/ ~IsWork(m)
  BY <1>3, <1>4, <1>5, <1>10 DEF Msgs
<1>17. Level0(t, k) BY <1>16 DEF Level0, IsWork
<1>18. Level1(t, k) BY <1>16, <1>17 DEF Level1, IsWork
<1>19. "ctl" \in Pipe BY DEF Pipe
<1>20. Level2(t, k) BY <1>4, <1>12, <1>18, <1>19 DEF Level2, Idle, Mode
<1>21. Strg(t, k) BY <1>4, <1>16 DEF Strg, IsWork
<1>22. Mode(t) BY <1>4 DEF Mode
<1> QED BY <1>2, <1>4, <1>5, <1>9, <1>11, <1>15, <1>20, <1>21, <1>22

(* An access takes its answer.                                             *)
LEMMA AnswerStep ==
  ASSUME NEW s, Typed(s), s.use.id = "HSTRG", NEW k, Holds(s, k), Pool(s, k), Work(s, k),
         NEW j
  PROVE  LET t == RelBlk([s EXCEPT !.proof = "none"], s.use)
         IN  /\ Typed(t) /\ t.use = s.use /\ t.flag = s.flag /\ t.chk = s.chk
             /\ t.phase = s.phase /\ t.mode = s.mode /\ t.ep = s.ep
             /\ Acc(t, 0) /\ t.use.blk \notin t.used /\ ~Holds(t, j)
             /\ ~t.phase => NoWork(t)
             /\ Quiet(t, j) /\ Mode(t) = Mode(s)
<1> DEFINE t == RelBlk([s EXCEPT !.proof = "none"], s.use)
<1> SUFFICES /\ Typed(t) /\ t.use = s.use /\ t.flag = s.flag /\ t.chk = s.chk
             /\ t.phase = s.phase /\ t.mode = s.mode /\ t.ep = s.ep
             /\ Acc(t, 0) /\ t.use.blk \notin t.used /\ ~Holds(t, j)
             /\ ~t.phase => NoWork(t)
             /\ Quiet(t, j) /\ Mode(t) = Mode(s)
  OBVIOUS
<1>1. /\ Typed(t) /\ Same(s, t, {"proof", "used"}) /\ t.used = s.used \ {s.use.blk}
      /\ Queued(t) = Queued(s) /\ OneWork(t) = OneWork(s) /\ NoWork(t) = NoWork(s)
      /\ Acc(s, s.use.blk) => Acc(t, 0)
  BY AnswerTyped
<1> HIDE DEF t
<1>2. /\ t.use = s.use /\ t.flag = s.flag /\ t.chk = s.chk /\ t.phase = s.phase
      /\ t.mode = s.mode /\ t.ep = s.ep
  BY <1>1, IsField DEF Same
<1>3. Acc(t, 0) BY <1>1, InTheHand
<1>4. t.use.blk \notin t.used BY <1>1, <1>2
<1>5. ~Holds(t, j) BY <1>2, <1>4 DEF Holds
<1>6. IsWork(s.use) BY DEF IsWork
<1>7. ~t.phase => NoWork(t) BY <1>1, <1>2, <1>6, InTheHand
<1>8. Quiet(t, j) BY <1>5, <1>7, NotHeld DEF Quiet, Settled, NoWork, NoMsg
<1>9. Mode(t) = Mode(s) BY <1>2 DEF Mode
<1> QED BY <1>1, <1>2, <1>3, <1>4, <1>5, <1>7, <1>8, <1>9

-----------------------------------------------------------------------------
(* The invariant, action by action.                                        *)

(* The invariant, of the memory s, the place at of the main program, the   *)
(* accesses m and i of the main program and of an interrupt, and what the  *)
(* former found, d.                                                        *)
TakenAt(s, at) == s.flag \/ at \in {"run", "detaching"}
NoneAcc(m, i) == m = "none" /\ i = "none"

(* Accesses do not overlap. What an access leaves in hand when it ends is  *)
(* its answer, and whoever comes to it does nothing more.                  *)
Turn(s, at, m, i) ==
  /\ m = "none" \/ i = "none"
  /\ at = "trcv" => m # "none"
  /\ at = "trcv" /\ s.use.id = "HSTRG" => Holds(s, TakenAt(s, at))
  /\ ~NoneAcc(m, i) /\ at # "trcv" /\ s.use.id = "HSTRG" =>
       ~Holds(s, TakenAt(s, at)) /\ Queued(s) # {}
  /\ at \in {"run", "detaching"} => ~s.flag /\ i = "none"
  /\ at = "detaching" => s.use.id = "HCD" /\ s.use.what = "dtch"
  /\ NoneAcc(m, i) /\ TakenAt(s, at) /\ ~Holds(s, TakenAt(s, at)) =>
       s.use.what = "NONE" /\ (at # "sched" => s.use.blk \notin s.used)
  /\ at = "sched" /\ i = "none" /\ s.flag =>
       s.use.id = "HSTRG" /\ ~Holds(s, TakenAt(s, at))

(* An access ends before a device attached after its own has been searched:*)
(* it looks once more at each turn whether its device is there.            *)
Levels(s, at, m, i, d) ==
  /\ i = "wait" => Level2(s, TakenAt(s, at))
  /\ i = "leave" => Level1(s, TakenAt(s, at))
  /\ m = "wait" =>
       IF at \in {"check", "run"}
       THEN Level2(s, TakenAt(s, at)) /\ (~d => s.mode = "CONFIGURED")
       ELSE IF d THEN Level1(s, TakenAt(s, at)) ELSE Level2(s, TakenAt(s, at))
  /\ m = "leave" =>
       IF at \in {"check", "run"} THEN Level1(s, TakenAt(s, at))
       ELSE Level0(s, TakenAt(s, at))

(* The drive of a device that is gone is gone.                             *)
Gone(s, m, i, d) ==
  /\ ~NoneAcc(m, i) /\ ~s.ep => "zero" \notin s.chk
  /\ m = "leave" \/ i = "leave" => "zero" \notin s.chk
  /\ m # "none" /\ d => "zero" \notin s.chk

Safe(s, at, m, i, d) ==
  /\ Pool(s, TakenAt(s, at)) /\ Work(s, TakenAt(s, at)) /\ Mode(s)
  /\ Turn(s, at, m, i) /\ Levels(s, at, m, i, d) /\ Gone(s, m, i, d)
  /\ NoneAcc(m, i) => Quiet(s, TakenAt(s, at))
  /\ ~NoneAcc(m, i) => Strg(s, TakenAt(s, at))
SafeInv == spoil = {} => Safe(u, pc, acc["main"], acc["irq"], det)
UsbInv == TypeInv /\ SafeInv

LEMMA LevelOrder ==
  ASSUME NEW s, NEW k
  PROVE  (Level2(s, k) => Level1(s, k)) /\ (Level1(s, k) => Level0(s, k))
BY DEF Level2, Level1

LEMMA NoneIsOne ==
  ASSUME NEW s, Typed(s), NoWork(s)
  PROVE  OneWork(s)
BY NoMsgOneMsg DEF NoWork, OneWork, Idle, OnePipe

(* The main loop picks.                                                    *)
LEMMA SafeSchedule ==
  ASSUME NEW s, Typed(s), NEW m, NEW d, Safe(s, "sched", m, "none", d)
  PROVE  Safe(Scheduler(s), IF m = "none" THEN "check" ELSE "trcv", m, "none", d)
<1> DEFINE t == Scheduler(s)
           at == IF m = "none" THEN "check" ELSE "trcv"
           k == s.flag
<1> SUFFICES Safe(t, at, m, "none", d) OBVIOUS
<1>1. TakenAt(s, "sched") = k /\ k \in BOOLEAN /\ TakenAt(t, at) = t.flag
  <2>1. s.flag \in BOOLEAN BY TypedFields
  <2>2. Typed(t) BY SchedulerTyped
  <2> HIDE DEF t
  <2>3. t.flag \in BOOLEAN BY <2>2, TypedFields
  <2> QED BY <2>1, <2>3 DEF TakenAt
<1>2. /\ Pool(s, k) /\ Work(s, k) /\ Mode(s) /\ Turn(s, "sched", m, "none")
      /\ Levels(s, "sched", m, "none", d) /\ Gone(s, m, "none", d)
      /\ NoneAcc(m, "none") => Quiet(s, k)
      /\ ~NoneAcc(m, "none") => Strg(s, k)
  BY <1>1 DEF Safe
<1>3. ~Holds(s, k) /\ (s.flag => s.use.id = "HSTRG")
  <2>1. CASE s.flag BY <1>1, <1>2, <2>1 DEF Turn
  <2>2. CASE ~s.flag BY <2>2 DEF Holds
  <2> QED BY <2>1, <2>2
<1>4. Acc(s, 0) /\ Msgs(s, k) = Queued(s) /\ Work(s, FALSE)
  BY <1>2, <1>3, NotHeld, NotTaken
<1>5. /\ Typed(t) /\ Same(s, t, {"use", "q", "flag"})
      /\ Pool(t, t.flag) /\ Msgs(t, t.flag) = Queued(s)
      /\ Work(t, t.flag)
      /\ Queued(s) # {} => t.flag = TRUE /\ t.use \in Messages /\ Holds(t, t.flag)
      /\ Queued(s) = {} => t = s
  BY <1>3, <1>4, ScheduleStep
<1> HIDE DEF t, k
<1>6. /\ t.pipe = s.pipe /\ t.mode = s.mode /\ t.strg = s.strg /\ t.chk = s.chk
      /\ t.phase = s.phase /\ t.ep = s.ep /\ t.used = s.used
  BY <1>5, IsField DEF Same
<1>7. /\ Level0(s, k) => Level0(t, t.flag)
      /\ Level1(s, k) => Level1(t, t.flag)
      /\ Level2(s, k) => Level2(t, t.flag)
      /\ Strg(s, k) => Strg(t, t.flag)
      /\ Quiet(s, k) => Quiet(t, t.flag)
  BY <1>4, <1>5, <1>6, Fewer
<1>8. Mode(t) /\ Gone(t, m, "none", d) BY <1>2, <1>6 DEF Mode, Gone
<1>9. Levels(t, at, m, "none", d)
  BY <1>1, <1>2, <1>7 DEF Levels
<1>10. Turn(t, at, m, "none")
  <2>1. CASE Queued(s) # {} BY <1>1, <1>5, <2>1 DEF Turn, NoneAcc
  <2>2. CASE Queued(s) = {}
    <3>1. t = s /\ k = s.flag BY <1>5, <2>2 DEF k
    <3>2. m # "none" => s.use.id # "HSTRG" BY <1>2, <2>2 DEF Turn, NoneAcc
    <3>3. s.used = {}
      <4>1. Blocks(Queued(s)) = {} BY <2>2 DEF Blocks
      <4>2. s.used \subseteq Blocks(Queued(s)) \cup {0} BY <1>4 DEF Acc
      <4>3. s.used \in SUBSET (1 .. BLKMAX) BY TypedFields
      <4> QED BY <4>1, <4>2, <4>3
    <3>4. m = "none" /\ s.flag => s.use.what = "NONE"
      BY <1>1, <1>2, <1>3 DEF Turn, NoneAcc, k
    <3> QED BY <1>1, <3>1, <3>2, <3>3, <3>4 DEF Turn, NoneAcc
  <2> QED BY <2>1, <2>2
<1> QED BY <1>1, <1>2, <1>5, <1>7, <1>8, <1>9, <1>10 DEF Safe

(* It looks whether it has picked.                                         *)
LEMMA SafeCheck ==
  ASSUME NEW s, Typed(s), NEW m, NEW d, Safe(s, "check", m, "none", d)
  PROVE  Safe(CheckSchedule(s), IF s.flag THEN "run" ELSE "sched", m, "none", d)
<1> DEFINE t == CheckSchedule(s)
           at == IF s.flag THEN "run" ELSE "sched"
           k == s.flag
<1> SUFFICES Safe(t, at, m, "none", d) OBVIOUS
<1>1. Sets(s, t, "flag", FALSE) /\ Same(s, t, {"flag"}) BY CheckIs
<1> HIDE DEF t
<1>2. t.flag = FALSE /\ s.flag \in BOOLEAN BY <1>1, TypedFields DEF Sets
<1>3. TakenAt(s, "check") = k /\ TakenAt(t, at) = k BY <1>2 DEF TakenAt
<1> HIDE DEF k
<1>4. /\ Holds(t, k) = Holds(s, k)
      /\ Pool(t, k) = Pool(s, k) /\ Work(t, k) = Work(s, k)
      /\ Level0(t, k) = Level0(s, k) /\ Level1(t, k) = Level1(s, k)
      /\ Level2(t, k) = Level2(s, k) /\ Strg(t, k) = Strg(s, k)
      /\ Quiet(t, k) = Quiet(s, k) /\ Mode(t) = Mode(s)
  BY <1>1, SameView DEF Looked
<1>5. /\ t.use = s.use /\ t.used = s.used /\ t.mode = s.mode /\ t.ep = s.ep
      /\ t.chk = s.chk /\ t.q = s.q
  BY <1>1, IsField DEF Same
<1>6. Queued(t) = Queued(s) BY <1>5, SameQueues
<1>7. Turn(t, at, m, "none") BY <1>2, <1>3, <1>4, <1>5, <1>6 DEF Safe, Turn
<1>8. Levels(t, at, m, "none", d)
  BY <1>3, <1>4, <1>5, LevelOrder DEF Safe, Levels
<1>9. Gone(t, m, "none", d) BY <1>5 DEF Safe, Gone
<1> QED BY <1>3, <1>4, <1>7, <1>8, <1>9 DEF Safe

(* A task runs that the storage driver's and the program's are not among.   *)
LEMMA InAccess ==
  ASSUME NEW s, Typed(s), NEW k, k = TRUE, Level0(s, k)
  PROVE  s.use.id # "HMSCSMP"
BY DEF Level0, Msgs, Holds

(* No device was attached while something of the one before remained.      *)
LEMMA NotEarly ==
  ASSUME NEW s, Early(s) = {}
  PROVE  s.use.id = "MGR" /\ Enumerates(s, s.use) => NoWork(s) /\ "zero" \notin s.chk
<1> SUFFICES ASSUME s.use.id = "MGR", Enumerates(s, s.use)
             PROVE  NoWork(s) /\ "zero" \notin s.chk
  OBVIOUS
<1>1. ~Remains(s) BY DEF Early, Attaches, Enumerates, RecMsg
<1>2. Idle(s) /\ "zero" \notin s.chk BY <1>1 DEF Remains, Idle
<1>3. \A n \in Queued(s) : n.id = "HCD" /\ n.what \in {"attch", "dtch"}
  BY <1>1 DEF Remains
<1> QED BY <1>2, <1>3 DEF NoWork, NoMsg, IsWork

LEMMA SafeRuns ==
  ASSUME NEW s, Typed(s), NEW m, NEW d, NEW g \in BOOLEAN,
         m \in {"none", "wait", "leave"},
         Safe(s, "run", m, "none", d), Early(s) = {},
         NEW t, t = IF m = "none" THEN Tasks(s, g) ELSE DriverTasks(s, g)
  PROVE  Safe(t, "sched", m, "none", d)
<1>1. TakenAt(s, "run") = TRUE BY TypedFields DEF TakenAt
<1>2. /\ Pool(s, TRUE) /\ Work(s, TRUE) /\ Mode(s) /\ Turn(s, "run", m, "none")
      /\ Levels(s, "run", m, "none", d) /\ Gone(s, m, "none", d)
      /\ NoneAcc(m, "none") => Quiet(s, TRUE)
      /\ ~NoneAcc(m, "none") => Strg(s, TRUE)
  BY <1>1 DEF Safe
<1>3. s.use.id = "MGR" /\ Enumerates(s, s.use) => NoWork(s) /\ "zero" \notin s.chk
  BY NotEarly
<1>4. s.flag = FALSE BY <1>2, TypedFields DEF Turn
<1>5. CASE m = "none"
  <2>1. ~Holds(s, TRUE) => s.use.what = "NONE" /\ s.use.blk \notin s.used
    BY <1>1, <1>2, <1>5 DEF Turn, NoneAcc
  <2>2. /\ Typed(t) /\ Acc(t, 0) /\ t.use = s.use /\ t.flag = s.flag /\ Mode(t)
        /\ ~t.phase => OneWork(t)
        /\ Quiet(s, TRUE) => Quiet(t, FALSE)
    BY <1>2, <1>3, <1>5, <2>1, AllStep
  <2>3. TakenAt(t, "sched") = FALSE BY <1>4, <2>2 DEF TakenAt
  <2>4. Turn(t, "sched", m, "none") BY <1>4, <1>5, <2>2, <2>3 DEF Turn, NoneAcc
  <2>5. Levels(t, "sched", m, "none", d) /\ Gone(t, m, "none", d)
    BY <1>5 DEF Levels, Gone, NoneAcc
  <2>6. Pool(t, FALSE) /\ Work(t, FALSE) BY <2>2, NotTaken
  <2> QED BY <1>2, <1>5, <2>2, <2>3, <2>4, <2>5, <2>6 DEF Safe, NoneAcc
<1>6. CASE m # "none"
  <2>1. DriverDoes(s, t, s.use) BY <1>6, DriverTasksDo
  <2>2. s.use.id = "HSTRG" => ~Holds(s, TRUE) /\ Queued(s) # {}
    BY <1>1, <1>2, <1>6 DEF Turn, NoneAcc
  <2>3. Level1(s, TRUE) /\ (m = "wait" => Level2(s, TRUE) /\ (~d => s.mode = "CONFIGURED"))
    BY <1>1, <1>2, <1>6, LevelOrder DEF Levels
  <2>4. s.use.id # "HMSCSMP" BY <2>3, InAccess, LevelOrder
  <2>5. /\ Typed(t) /\ Acc(t, 0) /\ t.use = s.use /\ t.flag = s.flag
        /\ Queued(s) \subseteq Queued(t) /\ t.chk \subseteq s.chk /\ (s.phase => t.phase)
        /\ Mode(s) => Mode(t)
        /\ s.ep /\ ~t.ep => "zero" \notin t.chk
        /\ Work(s, TRUE) => Work(t, FALSE)
        /\ Level2(s, TRUE) => Level1(t, FALSE)
        /\ Level2(s, TRUE) /\ s.mode = "CONFIGURED" => Level2(t, FALSE)
        /\ Level1(s, TRUE) => Level0(t, FALSE)
        /\ Strg(s, TRUE) => Strg(t, FALSE)
        /\ Quiet(s, TRUE) => Quiet(t, FALSE)
    BY <1>2, <1>3, <2>1, <2>2, <2>4, DriverStep
  <2>6. TakenAt(t, "sched") = FALSE BY <1>4, <2>5 DEF TakenAt
  <2>7. ~Holds(t, FALSE) BY NotTaken
  <2>8. Turn(t, "sched", m, "none")
    BY <1>4, <1>6, <2>2, <2>5, <2>6, <2>7 DEF Turn, NoneAcc
  <2>9. Levels(t, "sched", m, "none", d) BY <2>3, <2>5, <2>6 DEF Levels
  <2>10. Gone(t, m, "none", d) BY <1>2, <1>6, <2>5 DEF Gone, NoneAcc
  <2>11. Pool(t, FALSE) BY <2>5, NotTaken
  <2> QED BY <1>2, <1>6, <2>5, <2>6, <2>8, <2>9, <2>10, <2>11 DEF Safe, NoneAcc
<1> QED BY <1>5, <1>6

(* The transfers end when a device is found detached.                      *)
LEMMA SafeDetaches ==
  ASSUME NEW s, Typed(s), NEW m, NEW d, m \in {"none", "wait", "leave"},
         Safe(s, "run", m, "none", d), s.use.id = "HCD", s.use.what = "dtch"
  PROVE  Safe(EndTransfers(s), "detaching", m, "none", d)
<1> DEFINE t == EndTransfers(s)
<1> SUFFICES Safe(t, "detaching", m, "none", d) OBVIOUS
<1>0. HcdDoes(s, t) /\ KeepsWork(s, t) /\ Rests(s, t) BY HcdEndTransfers
<1> HIDE DEF t
<1>1. TakenAt(s, "run") = TRUE BY TypedFields DEF TakenAt
<1>2. /\ Pool(s, TRUE) /\ Work(s, TRUE) /\ Mode(s) /\ Turn(s, "run", m, "none")
      /\ Levels(s, "run", m, "none", d) /\ Gone(s, m, "none", d)
      /\ NoneAcc(m, "none") => Quiet(s, TRUE)
      /\ ~NoneAcc(m, "none") => Strg(s, TRUE)
  BY <1>1 DEF Safe
<1>3. s.use \in Messages BY Detaching
<1>4. HcdTaskDoes(s, t, s.use) BY <1>0, <1>3, HcdDirect DEF Direct
<1>5. DriverDoes(s, t, s.use) BY <1>4 DEF DriverDoes
<1>6. /\ Typed(t) /\ Acc(t, 0) /\ t.use = s.use /\ t.flag = s.flag
      /\ Queued(s) \subseteq Queued(t) /\ t.chk \subseteq s.chk /\ (s.phase => t.phase)
      /\ Mode(s) => Mode(t)
      /\ s.ep /\ ~t.ep => "zero" \notin t.chk
      /\ Work(s, TRUE) => Work(t, FALSE)
      /\ Level2(s, TRUE) => Level1(t, FALSE)
      /\ Level2(s, TRUE) /\ s.mode = "CONFIGURED" => Level2(t, FALSE)
      /\ Level1(s, TRUE) => Level0(t, FALSE)
      /\ Strg(s, TRUE) => Strg(t, FALSE)
      /\ Quiet(s, TRUE) => Quiet(t, FALSE)
  BY <1>2, <1>5, DriverStep
<1>7. /\ Holds(t, TRUE) /\ Pool(t, TRUE) = Acc(t, 0) /\ Work(t, TRUE) = Work(t, FALSE)
      /\ Level0(t, TRUE) = Level0(t, FALSE) /\ Level1(t, TRUE) = Level1(t, FALSE)
      /\ Level2(t, TRUE) = Level2(t, FALSE) /\ Strg(t, TRUE) = Strg(t, FALSE)
      /\ Quiet(t, TRUE) = Quiet(t, FALSE)
  BY <1>6, Detaching
<1>8. s.flag = FALSE BY <1>2, TypedFields DEF Turn
<1>9. TakenAt(t, "detaching") = TRUE BY <1>6, TypedFields DEF TakenAt
<1>10. Turn(t, "detaching", m, "none") BY <1>6, <1>7, <1>8, <1>9 DEF Turn, NoneAcc
<1>11. Levels(t, "detaching", m, "none", d) BY <1>1, <1>2, <1>6, <1>7, <1>9 DEF Levels
<1>12. Gone(t, m, "none", d) BY <1>2, <1>6 DEF Gone, NoneAcc
<1> QED BY <1>2, <1>6, <1>7, <1>9, <1>10, <1>11, <1>12 DEF Safe

(* The line has settled: a device is there or it is not.                   *)
Notifs == Some("MGR", "attach", "none", "none") \cup Some("MGR", "detach", "none", "none")

LEMMA AttachSends ==
  ASSUME NEW s, Typed(s)
  PROVE  Do(s, AttachProcess(s), {"ints"}, Notifs)
<1>1. ASSUME NEW v \in {"none", "attch", "dtch"}, NEW change \in {"attach", "detach"}
      PROVE  Do(s, NotifAtorDetach([s EXCEPT !.ints = v], change), {"ints"}, Notifs)
  <2> DEFINE a == [s EXCEPT !.ints = v]
             t == NotifAtorDetach(a, change)
             N == Some("MGR", change, "none", "none")
  <2> SUFFICES Do(s, t, {"ints"}, Notifs) OBVIOUS
  <2>1. Sets(s, a, "ints", v) BY Set1, IsPlain, KindOf
  <2>2. change \in Word BY Words
  <2>3. N \subseteq Messages BY <2>2, Words, SomeMessages
  <2>4. Typed(a) BY <2>1, DoTyped DEF Sets
  <2>5. Do(a, t, {}, N) BY <2>3, <2>4, DoPost DEF NotifAtorDetach
  <2>6. N \subseteq Notifs BY DEF Notifs
  <2> HIDE DEF a, t, N
  <2>7. Do(s, t, {"ints"}, N) BY <2>1, <2>5, SetThenDo DEF Sets
  <2> QED BY <2>6, <2>7, DoMore
<1>2. CASE s.plug BY <1>1, <1>2 DEF AttachProcess
<1>3. CASE ~s.plug BY <1>1, <1>3 DEF AttachProcess
<1> QED BY <1>2, <1>3

LEMMA SafeDetached ==
  ASSUME NEW s, Typed(s), NEW m, NEW d, m \in {"none", "wait", "leave"},
         Safe(s, "detaching", m, "none", d)
  PROVE  s.use.id = "HCD" /\ Safe(DetachProcess(s), "sched", m, "none", d)
<1> DEFINE t == DetachProcess(s)
<1> SUFFICES s.use.id = "HCD" /\ Safe(t, "sched", m, "none", d) OBVIOUS
<1>1. Do(s, t, {"ints"}, Notifs) BY AttachSends DEF DetachProcess
<1> HIDE DEF t
<1>2. \A n \in Notifs : n.id = "MGR" /\ n.what # "submit" BY DEF Notifs, Some, Msg
<1>3. TakenAt(s, "detaching") = TRUE BY TypedFields DEF TakenAt
<1>4. /\ Pool(s, TRUE) /\ Work(s, TRUE) /\ Mode(s) /\ Turn(s, "detaching", m, "none")
      /\ Levels(s, "detaching", m, "none", d) /\ Gone(s, m, "none", d)
      /\ NoneAcc(m, "none") => Quiet(s, TRUE)
      /\ ~NoneAcc(m, "none") => Strg(s, TRUE)
  BY <1>3 DEF Safe
<1>5. s.use.id = "HCD" /\ s.use.what = "dtch" /\ s.flag = FALSE
  BY <1>4, TypedFields DEF Turn
<1>6. /\ Pool(s, TRUE) = Acc(s, 0) /\ Work(s, TRUE) = Work(s, FALSE)
      /\ Level0(s, TRUE) = Level0(s, FALSE) /\ Level1(s, TRUE) = Level1(s, FALSE)
      /\ Level2(s, TRUE) = Level2(s, FALSE) /\ Strg(s, TRUE) = Strg(s, FALSE)
      /\ Quiet(s, TRUE) = Quiet(s, FALSE)
  BY <1>5, Detaching
<1>7. /\ t.use = s.use /\ t.flag = s.flag /\ t.mode = s.mode /\ t.ep = s.ep
      /\ t.chk = s.chk /\ t.phase = s.phase /\ t.pipe = s.pipe /\ t.strg = s.strg
  BY <1>1, IsPlain, Stays DEF Do
<1>8. /\ Typed(t) /\ Queued(s) \subseteq Queued(t) /\ Queued(t) \subseteq Queued(s) \cup Notifs
      /\ \A b \in Blk : Acc(s, b) => Acc(t, b)
  BY <1>1 DEF Do, Done
<1>9. Idly(Notifs) BY <1>2 DEF Idly, IsWork
<1>10. (NoMsg(s) => NoMsg(t)) /\ (OneMsg(s) => OneMsg(t)) BY <1>1, <1>9, DoIdly
<1>11. Acc(t, 0) /\ Pool(t, FALSE)
  <2>1. 0 \in Blk BY SchedulerAssumption DEF Blk
  <2> QED BY <1>4, <1>6, <1>8, <2>1, NotTaken
<1>12. Work(t, FALSE)
  <2>1. Idle(t) = Idle(s) /\ OnePipe(t) = OnePipe(s) BY <1>7 DEF Idle, OnePipe
  <2>2. Work(s, FALSE) BY <1>4, <1>6
  <2> QED BY <1>7, <1>10, <2>1, <2>2, NotTaken DEF OneWork
<1>13. \A n \in Msgs(t, FALSE) \ Msgs(s, FALSE) : n.id = "MGR" /\ n.what # "submit"
  BY <1>2, <1>8, NotTaken
<1>14. Level0(s, FALSE) => Level0(t, FALSE) BY <1>13 DEF Level0
<1>15. Level1(s, FALSE) => Level1(t, FALSE) BY <1>13, <1>14 DEF Level1
<1>16. Level2(s, FALSE) => Level2(t, FALSE) BY <1>7, <1>15 DEF Level2
<1>17. Strg(s, FALSE) => Strg(t, FALSE) BY <1>7, <1>13 DEF Strg
<1>18. Quiet(s, FALSE) => Quiet(t, FALSE)
  BY <1>7, <1>13 DEF Quiet, Settled, Idle, IsWork
<1>19. Mode(t) /\ Gone(t, m, "none", d) BY <1>4, <1>7 DEF Mode, Gone
<1>20. TakenAt(t, "sched") = FALSE BY <1>5, <1>7 DEF TakenAt
<1>21. Turn(t, "sched", m, "none") BY <1>5, <1>7, <1>20 DEF Turn, NoneAcc
<1>22. Levels(t, "sched", m, "none", d)
  BY <1>3, <1>4, <1>6, <1>14, <1>15, <1>16, <1>20 DEF Levels
<1> QED
  BY <1>4, <1>5, <1>6, <1>11, <1>12, <1>17, <1>18, <1>19, <1>20, <1>21, <1>22 DEF Safe

(* The main program's access takes its answer.                             *)
LEMMA SafeReceives ==
  ASSUME NEW s, Typed(s), NEW m, NEW d, Safe(s, "trcv", m, "none", d), s.use.id = "HSTRG"
  PROVE  Safe(RelBlk([s EXCEPT !.proof = "none"], s.use), "sched", "none", "none", d)
<1> DEFINE t == RelBlk([s EXCEPT !.proof = "none"], s.use)
           k == TakenAt(s, "trcv")
<1>1. Holds(s, k) /\ Pool(s, k) /\ Work(s, k) /\ Mode(s) /\ Strg(s, k)
  BY DEF Safe, Turn, NoneAcc
<1>2. ASSUME NEW j
      PROVE  /\ Typed(t) /\ t.use = s.use /\ t.flag = s.flag /\ t.chk = s.chk
             /\ t.phase = s.phase /\ t.mode = s.mode /\ t.ep = s.ep
             /\ Acc(t, 0) /\ t.use.blk \notin t.used /\ ~Holds(t, j)
             /\ ~t.phase => NoWork(t)
             /\ Quiet(t, j) /\ Mode(t) = Mode(s)
  BY <1>1, AnswerStep
<1> HIDE DEF t, k
<1>3. s.use.what = "NONE" BY <1>1, InTheHand DEF Strg
<1>4. ~t.phase => OneWork(t) BY <1>2, NoneIsOne
<1> DEFINE j == TakenAt(t, "sched")
<1>5. ~Holds(t, j) /\ Quiet(t, j) BY <1>2
<1>6. Pool(t, j) /\ Work(t, j) BY <1>2, <1>4, <1>5, NotHeld
<1>7. Turn(t, "sched", "none", "none") BY <1>2, <1>3, <1>5 DEF Turn, NoneAcc
<1>8. Safe(t, "sched", "none", "none", d)
  BY <1>1, <1>2, <1>5, <1>6, <1>7 DEF Safe, Levels, Gone, NoneAcc
<1> QED BY <1>8 DEF t

(* It finds no answer, and turns again or gives up.                        *)
LEMMA SafeTurns ==
  ASSUME NEW s, Typed(s), NEW d, Safe(s, "trcv", "wait", "none", d), s.use.id # "HSTRG",
         d \in BOOLEAN
  PROVE  Safe(s, "check", IF d THEN "leave" ELSE "wait", "none", ~s.ep)
<1> DEFINE k == s.flag
<1>1. TakenAt(s, "trcv") = k /\ TakenAt(s, "check") = k BY TypedFields DEF TakenAt
<1>2. /\ Pool(s, k) /\ Work(s, k) /\ Mode(s) /\ Turn(s, "trcv", "wait", "none")
      /\ Levels(s, "trcv", "wait", "none", d) /\ Gone(s, "wait", "none", d) /\ Strg(s, k)
  BY <1>1 DEF Safe, NoneAcc
<1> HIDE DEF k
<1> DEFINE m == IF d THEN "leave" ELSE "wait"
<1>3. Levels(s, "check", m, "none", ~s.ep)
  BY <1>1, <1>2 DEF Levels, Mode
<1>4. Gone(s, m, "none", ~s.ep) BY <1>2 DEF Gone, NoneAcc
<1>5. Turn(s, "check", m, "none") BY <1>2 DEF Turn, NoneAcc
<1>6. ~NoneAcc(m, "none") BY DEF NoneAcc
<1> QED BY <1>1, <1>2, <1>3, <1>4, <1>5, <1>6 DEF Safe

LEMMA SafeGivesUp ==
  ASSUME NEW s, Typed(s), NEW d, Safe(s, "trcv", "leave", "none", d), s.use.id # "HSTRG",
         ~s.flag
  PROVE  Safe(s, "sched", "none", "none", d)
<1>1. TakenAt(s, "trcv") = FALSE /\ TakenAt(s, "sched") = FALSE
  BY TypedFields DEF TakenAt
<1>2. /\ Pool(s, FALSE) /\ Work(s, FALSE) /\ Mode(s) /\ Gone(s, "leave", "none", d)
  BY <1>1 DEF Safe
<1>3. Quiet(s, FALSE) BY <1>2 DEF Quiet, Gone
<1>4. Turn(s, "sched", "none", "none") BY <1>1 DEF Turn
<1> QED BY <1>1, <1>2, <1>3, <1>4 DEF Safe, Levels, Gone, NoneAcc

(* Where an access begins nothing is under way.                            *)
LEMMA BeginsQuiet ==
  ASSUME Typed(u), Safe(u, pc, "none", "none", det), Ready(u), BegunTooEarly = {}
  PROVE  LET k == TakenAt(u, pc)
         IN  /\ u.strg = "NONE" /\ ~u.phase /\ Idle(u) /\ "zero" \in u.chk /\ u.ep
             /\ \A n \in Msgs(u, k) : ~IsWork(n)
<1> DEFINE k == TakenAt(u, pc)
<1>1. ~Searching /\ ~u.phase BY DEF BegunTooEarly
<1>2. u.strg = "NONE" /\ "zero" \in u.chk /\ u.ep BY <1>1 DEF Searching, Ready
<1>3. Settled(u, k) BY <1>1, <1>2 DEF Safe, NoneAcc, Quiet
<1>4. ASSUME NEW n \in Msgs(u, k), IsWork(n) PROVE FALSE
  <2>1. n.id = "HMSCSMP" /\ n.what = "mount" BY <1>3, <1>4 DEF Settled
  <2>2. n \notin Queued(u) BY <1>1, <2>1 DEF Searching
  <2>3. n = u.use /\ k = TRUE BY <2>2, <1>4, TypedFields DEF Msgs, Holds, TakenAt
  <2>4. pc # "detaching" BY <2>1, <2>3 DEF Safe, Turn
  <2> QED BY <1>1, <2>1, <2>3, <2>4 DEF Searching, TakenAt
<1> QED BY <1>1, <1>2, <1>3, <1>4 DEF Settled

LEMMA SafeBegins ==
  ASSUME Typed(u), Safe(u, pc, "none", "none", det), Ready(u), BegunTooEarly = {},
         NEW p \in Process, NEW w \in Who, NEW at \in {"sched", "check"},
         pc \in {"sched", "check"}, NEW m, NEW i,
         \/ m = "wait" /\ i = "none" /\ at = "check"
         \/ m = "none" /\ i = "wait",
         NEW d, m = "wait" => d = ~u.ep
  PROVE  Safe([Command(u, p, "zero", w) EXCEPT !.proof = "none"], at, m, i, d)
<1> DEFINE t == [Command(u, p, "zero", w) EXCEPT !.proof = "none"]
           k == u.flag
<1>1. TakenAt(u, pc) = k BY TypedFields DEF TakenAt
<1>2. /\ u.strg = "NONE" /\ ~u.phase /\ Idle(u) /\ "zero" \in u.chk /\ u.ep
      /\ \A n \in Msgs(u, k) : ~IsWork(n)
  BY <1>1, BeginsQuiet
<1>3. Pool(u, k) /\ Mode(u) BY <1>1 DEF Safe
<1>4. /\ Typed(t) /\ t.use = u.use /\ t.flag = u.flag /\ t.ep = u.ep
      /\ t.chk = u.chk /\ t.mode = u.mode /\ t.phase = u.phase
      /\ Pool(t, k) /\ Work(t, k) /\ Level2(t, k) /\ Strg(t, k) /\ Mode(t)
      /\ t.use.id = "HSTRG" => ~Holds(t, k) /\ Queued(t) # {}
  BY <1>2, <1>3, BeginStep
<1> HIDE DEF t
<1>5. TakenAt(t, at) = k BY <1>4, TypedFields DEF TakenAt
<1> HIDE DEF k
<1>6. Turn(t, at, m, i) BY <1>4, <1>5 DEF Turn, NoneAcc
<1>7. Levels(t, at, m, i, d) BY <1>2, <1>4, <1>5 DEF Levels, Mode
<1>8. Gone(t, m, i, d) BY <1>2, <1>4 DEF Gone
<1>9. Safe(t, at, m, i, d) BY <1>4, <1>5, <1>6, <1>7, <1>8 DEF Safe, NoneAcc
<1> QED BY <1>9 DEF t

(* One turn of an access from a callback: first a task.                    *)
TurnedTo(s, b, i) ==
  /\ Typed(b) /\ Acc(b, 0) /\ b.use = s.use /\ b.flag = FALSE
  /\ Queued(s) \subseteq Queued(b) /\ b.chk \subseteq s.chk
  /\ Mode(b) /\ (s.ep /\ ~b.ep => "zero" \notin b.chk)
  /\ Work(b, FALSE) /\ Strg(b, FALSE)
  /\ i = "wait" => Level1(b, FALSE) /\ (s.mode = "CONFIGURED" => Level2(b, FALSE))

AfterTask(s, g) == IF s.flag THEN DriverTasks(CheckSchedule(s), g) ELSE s

LEMMA IrqTask ==
  ASSUME NEW s, Typed(s), NEW at \in {"sched", "check"}, NEW i \in {"wait", "leave"}, NEW d,
         Safe(s, at, "none", i, d), s.flag => Early(s) = {}, NEW g
  PROVE  TurnedTo(s, AfterTask(s, g), i) /\ WaitLoop(s, g) = Scheduler(AfterTask(s, g))
<1> DEFINE a == CheckSchedule(s)
           b == DriverTasks(a, g)
<1>1. TakenAt(s, at) = s.flag BY TypedFields DEF TakenAt
<1>2. /\ Pool(s, s.flag) /\ Work(s, s.flag) /\ Mode(s) /\ Turn(s, at, "none", i)
      /\ Levels(s, at, "none", i, d) /\ Strg(s, s.flag)
  BY <1>1 DEF Safe, NoneAcc
<1>3. CASE s.flag
  <2>0. s.flag = TRUE BY <1>3, TypedFields
  <2>1. Sets(s, a, "flag", FALSE) /\ Same(s, a, {"flag"}) BY CheckIs
  <2>2. DriverDoes(a, b, a.use) BY <2>1, DoTyped, DriverTasksDo DEF Sets
  <2>3. WaitLoop(s, g) = Scheduler(b) /\ AfterTask(s, g) = b
    BY <1>3 DEF WaitLoop, AfterTask
  <2> HIDE DEF a, b
  <2>4. /\ Holds(a, TRUE) = Holds(s, TRUE)
        /\ Pool(a, TRUE) = Pool(s, TRUE) /\ Work(a, TRUE) = Work(s, TRUE)
        /\ Level0(a, TRUE) = Level0(s, TRUE) /\ Level1(a, TRUE) = Level1(s, TRUE)
        /\ Level2(a, TRUE) = Level2(s, TRUE) /\ Strg(a, TRUE) = Strg(s, TRUE)
        /\ Mode(a) = Mode(s) /\ NoWork(a) = NoWork(s)
    BY <2>1, SameView DEF Looked
  <2>5. /\ a.use = s.use /\ a.mode = s.mode /\ a.ep = s.ep /\ a.chk = s.chk /\ a.q = s.q
        /\ a.flag = FALSE /\ Typed(a)
    BY <2>1, IsField, DoTyped DEF Same, Sets
  <2>6. a.use.id = "HSTRG" => ~Holds(a, TRUE)
    BY <1>1, <1>2, <2>0, <2>4, <2>5 DEF Turn, NoneAcc
  <2>7. Level1(a, TRUE) /\ (i = "wait" => Level2(a, TRUE))
    BY <1>1, <1>2, <2>0, <2>4, LevelOrder DEF Levels
  <2>8. a.use.id # "HMSCSMP" BY <2>5, <2>7, InAccess, LevelOrder
  <2>9. a.use.id = "MGR" /\ Enumerates(a, a.use) => NoWork(a) /\ "zero" \notin a.chk
    BY <1>3, <2>4, <2>5, NotEarly DEF Enumerates
  <2>10. Pool(a, TRUE) BY <1>2, <2>0, <2>4
  <2>11. /\ Typed(b) /\ Acc(b, 0) /\ b.use = a.use /\ b.flag = a.flag
         /\ Queued(a) \subseteq Queued(b) /\ b.chk \subseteq a.chk /\ (a.phase => b.phase)
         /\ Mode(a) => Mode(b)
         /\ a.ep /\ ~b.ep => "zero" \notin b.chk
         /\ Work(a, TRUE) => Work(b, FALSE)
         /\ Level2(a, TRUE) => Level1(b, FALSE)
         /\ Level2(a, TRUE) /\ a.mode = "CONFIGURED" => Level2(b, FALSE)
         /\ Level1(a, TRUE) => Level0(b, FALSE)
         /\ Strg(a, TRUE) => Strg(b, FALSE)
         /\ Quiet(a, TRUE) => Quiet(b, FALSE)
    BY <2>2, <2>5, <2>6, <2>8, <2>9, <2>10, DriverStep
  <2>12. Queued(a) = Queued(s) BY <2>5, SameQueues
  <2>13. TurnedTo(s, b, i)
    BY <1>2, <2>0, <2>4, <2>5, <2>7, <2>11, <2>12 DEF TurnedTo
  <2> QED BY <2>3, <2>13
<1>4. CASE ~s.flag
  <2>0. s.flag = FALSE BY <1>4, TypedFields
  <2>1. WaitLoop(s, g) = Scheduler(s) /\ AfterTask(s, g) = s
    BY <1>4 DEF WaitLoop, AfterTask
  <2>2. Acc(s, 0) BY <1>2, <2>0, NotTaken
  <2>3. i = "wait" => Level2(s, FALSE) /\ Level1(s, FALSE)
    BY <1>1, <1>2, <2>0, LevelOrder DEF Levels
  <2>4. TurnedTo(s, s, i) BY <1>2, <2>0, <2>2, <2>3 DEF TurnedTo
  <2> QED BY <2>1, <2>4
<1> QED BY <1>3, <1>4

(* Then a pick, and what is made of it.                                    *)
LEMMA IrqPicks ==
  ASSUME NEW s, Typed(s), NEW at \in {"sched", "check"}, NEW i \in {"wait", "leave"}, NEW d,
         Safe(s, at, "none", i, d), NEW b, TurnedTo(s, b, i), NEW v, v = Scheduler(b)
  PROVE  /\ Typed(v) /\ Pool(v, v.flag) /\ Work(v, v.flag) /\ Mode(v) /\ Strg(v, v.flag)
         /\ ~v.ep => "zero" \notin v.chk
         /\ ~s.ep => "zero" \notin v.chk
         /\ i = "leave" => "zero" \notin v.chk
         /\ i = "wait" => Level1(v, v.flag) /\ (s.ep => Level2(v, v.flag))
         /\ v.use.id = "HSTRG" => Holds(v, v.flag) /\ v.use.what = "NONE"
<1>1. /\ Typed(b) /\ Acc(b, 0) /\ b.use = s.use /\ b.flag = FALSE
      /\ Queued(s) \subseteq Queued(b) /\ b.chk \subseteq s.chk
      /\ Mode(b) /\ (s.ep /\ ~b.ep => "zero" \notin b.chk)
      /\ Work(b, FALSE) /\ Strg(b, FALSE)
      /\ i = "wait" => Level1(b, FALSE) /\ (s.mode = "CONFIGURED" => Level2(b, FALSE))
  BY DEF TurnedTo
<1>2. /\ Typed(v) /\ Same(b, v, {"use", "q", "flag"})
      /\ Pool(v, v.flag) /\ Msgs(v, v.flag) = Queued(b)
      /\ Work(v, v.flag)
      /\ Queued(b) # {} => v.flag = TRUE /\ v.use \in Messages /\ Holds(v, v.flag)
      /\ Queued(b) = {} => v = b
  BY <1>1, ScheduleStep
<1>3. /\ v.pipe = b.pipe /\ v.mode = b.mode /\ v.strg = b.strg /\ v.chk = b.chk
      /\ v.phase = b.phase /\ v.ep = b.ep
  BY <1>2, IsField DEF Same
<1>4. Msgs(b, FALSE) = Queued(b) BY NotTaken
<1>5. /\ Level1(b, FALSE) => Level1(v, v.flag)
      /\ Level2(b, FALSE) => Level2(v, v.flag)
      /\ Strg(b, FALSE) => Strg(v, v.flag)
  BY <1>2, <1>3, <1>4, Fewer
<1>6. /\ ~s.ep => "zero" \notin s.chk
      /\ i = "leave" => "zero" \notin s.chk
      /\ s.ep => s.mode = "CONFIGURED"
      /\ s.use.id = "HSTRG" => Queued(s) # {}
  BY DEF Safe, Gone, NoneAcc, Mode, Turn
<1>7. Mode(v) BY <1>1, <1>3 DEF Mode
<1>8. ASSUME v.use.id = "HSTRG" PROVE Holds(v, v.flag) /\ v.use.what = "NONE"
  <2>1. Queued(b) # {} BY <1>1, <1>2, <1>6, <1>8
  <2>2. Holds(v, v.flag) BY <1>2, <2>1
  <2>3. v.use \in Msgs(v, v.flag) BY <2>2, InTheHand
  <2>4. Strg(v, v.flag) BY <1>1, <1>5
  <2> QED BY <1>8, <2>2, <2>3, <2>4 DEF Strg
<1> QED BY <1>1, <1>2, <1>3, <1>5, <1>6, <1>7, <1>8

LEMMA SafeIrqAnswers ==
  ASSUME NEW v, Typed(v), NEW at \in {"sched", "check"}, NEW d,
         Pool(v, v.flag), Work(v, v.flag), Mode(v), v.use.id = "HSTRG",
         Holds(v, v.flag), v.use.what = "NONE"
  PROVE  Safe(RelBlk([v EXCEPT !.proof = "none"], v.use), at, "none", "none", d)
<1> DEFINE t == RelBlk([v EXCEPT !.proof = "none"], v.use)
           j == TakenAt(t, at)
<1>1. ASSUME NEW l
      PROVE  /\ Typed(t) /\ t.use = v.use /\ t.flag = v.flag /\ t.chk = v.chk
             /\ t.phase = v.phase /\ t.mode = v.mode /\ t.ep = v.ep
             /\ Acc(t, 0) /\ t.use.blk \notin t.used /\ ~Holds(t, l)
             /\ ~t.phase => NoWork(t)
             /\ Quiet(t, l) /\ Mode(t) = Mode(v)
  BY AnswerStep
<1> HIDE DEF t
<1>2. ~t.phase => OneWork(t) BY <1>1, NoneIsOne
<1>3. ~Holds(t, j) /\ Quiet(t, j) BY <1>1
<1>4. Pool(t, j) /\ Work(t, j) BY <1>1, <1>2, <1>3, NotHeld
<1>5. Turn(t, at, "none", "none") BY <1>1, <1>3 DEF Turn, NoneAcc
<1>6. Safe(t, at, "none", "none", d)
  BY <1>1, <1>3, <1>4, <1>5 DEF Safe, Levels, Gone, NoneAcc
<1> QED BY <1>6 DEF t

LEMMA SafeIrqGoesOn ==
  ASSUME NEW v, Typed(v), NEW at \in {"sched", "check"}, NEW d,
         Pool(v, v.flag), Work(v, v.flag), Mode(v), Strg(v, v.flag), v.use.id # "HSTRG",
         NEW i \in {"none", "wait", "leave"},
         i = "none" => ~v.flag /\ "zero" \notin v.chk,
         i = "wait" => Level2(v, v.flag),
         i = "leave" => Level1(v, v.flag) /\ "zero" \notin v.chk,
         ~v.ep => "zero" \notin v.chk
  PROVE  Safe(v, at, "none", i, d)
<1>1. TakenAt(v, at) = v.flag BY TypedFields DEF TakenAt
<1>2. Turn(v, at, "none", i) BY <1>1, TypedFields DEF Turn, NoneAcc
<1>3. Levels(v, at, "none", i, d) BY <1>1 DEF Levels
<1>4. Gone(v, "none", i, d) BY DEF Gone, NoneAcc
<1>5. i = "none" => Quiet(v, v.flag) BY DEF Quiet
<1> QED BY <1>1, <1>2, <1>3, <1>4, <1>5 DEF Safe, NoneAcc

(* The device and the line.                                                *)
LEMMA SafeLine ==
  ASSUME NEW s, Typed(s), NEW t, NEW N, Do(s, t, LineFields, N), t.used = s.used,
         \A n \in N : n.id = "HCD" /\ n.blk = 0 /\ ~IsWork(n),
         NEW at, NEW m, NEW i, NEW d, Safe(s, at, m, i, d)
  PROVE  Safe(t, at, m, i, d)
<1> DEFINE k == TakenAt(s, at)
<1>1. /\ Typed(t) /\ t.use = s.use /\ t.flag = s.flag /\ t.mode = s.mode /\ t.ep = s.ep
      /\ t.chk = s.chk /\ t.used = s.used /\ Queued(s) \subseteq Queued(t)
      /\ Holds(t, k) = Holds(s, k)
      /\ Pool(s, k) => Pool(t, k)
      /\ Work(s, k) => Work(t, k)
      /\ Level0(s, k) => Level0(t, k)
      /\ Level1(s, k) => Level1(t, k)
      /\ Level2(s, k) => Level2(t, k)
      /\ Strg(s, k) => Strg(t, k)
      /\ Quiet(s, k) => Quiet(t, k)
      /\ Mode(t) = Mode(s)
  BY LineStep
<1>2. TakenAt(t, at) = k BY <1>1 DEF TakenAt
<1>3. Turn(t, at, m, i) BY <1>1, <1>2 DEF Safe, Turn
<1>4. Levels(t, at, m, i, d) BY <1>1, <1>2 DEF Safe, Levels
<1>5. Gone(t, m, i, d) BY <1>1 DEF Safe, Gone
<1> QED BY <1>1, <1>2, <1>3, <1>4, <1>5 DEF Safe

(* At the start nothing is queued, in hand or under way.                   *)
LEMMA InitSafe == Init => SafeInv
<1> SUFFICES ASSUME Init PROVE Safe(u, pc, acc["main"], acc["irq"], det)
  BY DEF SafeInv
<1>1. /\ Typed(u)
      /\ \A f \in ScheFields : u[f] = ScheInit[f]
      /\ \A f \in HostFields : u[f] = HostInit[f]
      /\ \A f \in ClassFields : u[f] = HmscInit[f]
      /\ \A f \in StorageFields : u[f] = StorageInit[f]
  BY InitTyped
<1>2. u.used = {} /\ u.flag = FALSE /\ u.use = Msg("none", 0, "none", "none", "none")
      /\ u.q = [p \in Priority |-> <<>>]
  BY <1>1, ScheTyped DEF ScheFields, ScheInit
<1>3. u.mode = "DETACHED" /\ u.ep = FALSE /\ \A p \in Pipe : u.pipe[p] = "idle"
  BY <1>1 DEF HostFields, HostInit
<1>4. u.chk = {} /\ u.phase = FALSE BY <1>1 DEF ClassFields, HmscInit
<1>5. u.strg = "NONE" BY <1>1 DEF StorageFields, StorageInit
<1>6. pc = "sched" /\ acc["main"] = "none" /\ acc["irq"] = "none" BY DEF Init, Who
<1>7. \A p \in Priority : u.q[p] = <<>> BY <1>2
<1>8. Queued(u) = {}
  <2>1. ASSUME NEW p \in Priority, NEW i \in 1 .. Len(u.q[p]) PROVE FALSE
    BY <1>7
  <2> QED BY <2>1 DEF Queued
<1>9. TakenAt(u, "sched") = FALSE BY <1>2 DEF TakenAt
<1>10. ~Holds(u, FALSE) /\ Msgs(u, FALSE) = {} BY <1>8, NotTaken
<1>11. Idle(u) /\ NoMsg(u) BY <1>3, <1>8 DEF Idle, NoMsg
<1>12. OneWork(u) BY <1>1, <1>11, NoneIsOne DEF NoWork
<1>13. Pool(u, FALSE) /\ Work(u, FALSE)
  <2>1. Acc(u, 0) BY <1>2, <1>7, <1>8 DEF Acc, BlocksAreDistinct, Blocks
  <2> QED BY <1>12, <2>1, NotTaken
<1>14. Quiet(u, FALSE) /\ Mode(u) BY <1>3, <1>4 DEF Quiet, Mode
<1>15. Turn(u, "sched", "none", "none") BY <1>2, <1>9 DEF Turn, NoneAcc
<1> QED BY <1>6, <1>9, <1>13, <1>14, <1>15 DEF Safe, Levels, Gone, NoneAcc

SafeNow == Safe(u, pc, acc["main"], acc["irq"], det)

LEMMA Access == 
  ASSUME TypeInv
  PROVE  /\ "main" \in Who /\ "irq" \in Who
         /\ \A w \in Who : acc[w] \in {"none", "wait", "leave"}
         /\ \A w, x \in Who : \A v :
              [acc EXCEPT ![w] = v][x] = IF x = w THEN v ELSE acc[x]
BY DEF TypeInv, Who

(* The main program.                                                       *)
LEMMA MainScheduleSafe ==
  ASSUME TypeInv, SafeNow, MainSchedule
  PROVE  SafeNow'
<1> DEFINE m == acc["main"]
<1>1. /\ pc = "sched" /\ acc["irq"] = "none" /\ u' = Scheduler(u)
      /\ pc' = (IF m = "none" THEN "check" ELSE "trcv")
      /\ acc' = acc /\ det' = det
  BY DEF MainSchedule, NoIrq
<1>2. Safe(Scheduler(u), IF m = "none" THEN "check" ELSE "trcv", m, "none", det)
  BY <1>1, SafeSchedule DEF TypeInv, SafeNow
<1> QED BY <1>1, <1>2 DEF SafeNow

LEMMA MainCheckSafe ==
  ASSUME TypeInv, SafeNow, MainCheck
  PROVE  SafeNow'
<1>1. /\ pc = "check" /\ acc["irq"] = "none" /\ u' = CheckSchedule(u)
      /\ pc' = (IF u.flag THEN "run" ELSE "sched") /\ acc' = acc /\ det' = det
  BY DEF MainCheck, NoIrq, Goto
<1>2. Safe(CheckSchedule(u), IF u.flag THEN "run" ELSE "sched", acc["main"], "none", det)
  BY <1>1, SafeCheck DEF TypeInv, SafeNow
<1> QED BY <1>1, <1>2 DEF SafeNow

LEMMA MainRunsSafe ==
  ASSUME TypeInv, SafeNow, MainRuns, spoil' = {}
  PROVE  SafeNow'
<1> DEFINE m == acc["main"]
<1>1. /\ pc = "run" /\ pc' = "sched" /\ acc["irq"] = "none"
      /\ acc' = acc /\ det' = det /\ Early(u) = {}
  BY DEF MainRuns, NoIrq, Goto
<1>2. PICK g \in BOOLEAN : u' = MainTasks(u, g) BY DEF MainRuns
<1>3. u' = IF m = "none" THEN Tasks(u, g) ELSE DriverTasks(u, g) BY <1>2 DEF MainTasks
<1>4. m \in {"none", "wait", "leave"} BY Access
<1>5. Typed(u) /\ Safe(u, "run", m, "none", det) BY <1>1 DEF TypeInv, SafeNow
<1> HIDE DEF m
<1>6. Safe(u', "sched", m, "none", det) BY <1>1, <1>3, <1>4, <1>5, SafeRuns
<1> QED BY <1>1, <1>6 DEF SafeNow, m

LEMMA MainDetachesSafe ==
  ASSUME TypeInv, SafeNow, MainDetaches
  PROVE  SafeNow'
<1>1. /\ pc = "run" /\ pc' = "detaching" /\ acc["irq"] = "none"
      /\ acc' = acc /\ det' = det /\ u' = EndTransfers(u)
      /\ u.use.id = "HCD" /\ u.use.what = "dtch"
  BY DEF MainDetaches, NoIrq, Goto, Detaches, RecMsg
<1>2. acc["main"] \in {"none", "wait", "leave"} BY Access
<1>3. Typed(u) /\ Safe(u, "run", acc["main"], "none", det) BY <1>1 DEF TypeInv, SafeNow
<1>4. Safe(EndTransfers(u), "detaching", acc["main"], "none", det)
  BY <1>1, <1>2, <1>3, SafeDetaches
<1> QED BY <1>1, <1>4 DEF SafeNow

LEMMA MainDetachedSafe ==
  ASSUME TypeInv, SafeNow, MainDetached
  PROVE  SafeNow'
<1>1. /\ pc = "detaching" /\ pc' = "sched" /\ acc["irq"] = "none"
      /\ acc' = acc /\ det' = det
  BY DEF MainDetached, NoIrq, Goto
<1>2. acc["main"] \in {"none", "wait", "leave"} BY Access
<1>3. Typed(u) /\ Safe(u, "detaching", acc["main"], "none", det)
  BY <1>1 DEF TypeInv, SafeNow
<1>4. u.use.id = "HCD" /\ Safe(DetachProcess(u), "sched", acc["main"], "none", det)
  BY <1>2, <1>3, SafeDetached
<1>5. u' = DetachProcess(u) BY <1>4 DEF MainDetached, RecMsg
<1> QED BY <1>1, <1>4, <1>5 DEF SafeNow

LEMMA MainReceivesSafe ==
  ASSUME TypeInv, SafeNow, MainReceives
  PROVE  SafeNow'
<1> DEFINE t == RelBlk([u EXCEPT !.proof = "none"], u.use)
<1>1. /\ pc = "trcv" /\ pc' = "sched" /\ acc["irq"] = "none" /\ det' = det
      /\ u.use.id = "HSTRG" /\ u' = t /\ acc' = [acc EXCEPT !["main"] = "none"]
  BY DEF MainReceives, NoIrq, RecMsg, Answer
<1> HIDE DEF t
<1>2. acc'["main"] = "none" /\ acc'["irq"] = "none" BY <1>1, Access
<1>3. Safe(t, "sched", "none", "none", det)
  BY <1>1, SafeReceives DEF TypeInv, SafeNow, t
<1> QED BY <1>1, <1>2, <1>3 DEF SafeNow

LEMMA MainTurnsSafe ==
  ASSUME TypeInv, SafeNow, MainTurns, spoil' = {}
  PROVE  SafeNow'
<1>1. /\ pc = "trcv" /\ acc["irq"] = "none" /\ u' = u /\ u.use.id # "HSTRG"
      /\ LosesPicked("main", u) = {}
  BY DEF MainTurns, NoIrq, RecMsg
<1>2. CASE GiveUp("main") /\ pc' = "sched" /\ det' = det
  <2>1. acc["main"] = "leave" /\ acc' = [acc EXCEPT !["main"] = "none"] BY <1>2 DEF GiveUp
  <2>2. acc'["main"] = "none" /\ acc'["irq"] = "none" BY <1>1, <2>1, Access
  <2>3. ~u.flag BY <1>1, <2>1 DEF LosesPicked, RecMsg
  <2>4. Safe(u, "sched", "none", "none", det)
    BY <1>1, <2>1, <2>3, SafeGivesUp DEF TypeInv, SafeNow
  <2> QED BY <1>1, <1>2, <2>2, <2>4 DEF SafeNow
<1>3. CASE TurnAgain("main", det) /\ pc' = "check" /\ det' = ~u.ep
  <2> DEFINE v == IF det THEN "leave" ELSE "wait"
  <2>1. acc["main"] = "wait" /\ acc' = [acc EXCEPT !["main"] = v] BY <1>3 DEF TurnAgain
  <2>2. acc'["main"] = v /\ acc'["irq"] = "none" BY <1>1, <2>1, Access
  <2>3. Safe(u, "check", v, "none", ~u.ep)
    BY <1>1, <2>1, SafeTurns DEF TypeInv, SafeNow
  <2> HIDE DEF v
  <2> QED BY <1>1, <1>3, <2>2, <2>3 DEF SafeNow
<1> QED BY <1>2, <1>3 DEF MainTurns

(* The accesses, and an access's turn within a callback.                   *)
LEMMA MainAccessSafe ==
  ASSUME TypeInv, SafeNow, MainAccess, spoil' = {}
  PROVE  SafeNow'
<1> DEFINE t == [Command(u, "DATA_OUT", "zero", "main") EXCEPT !.proof = "none"]
<1>1. /\ pc = "sched" /\ pc' = "check" /\ acc["main"] = "none" /\ acc["irq"] = "none"
      /\ Ready(u) /\ u' = t /\ acc' = [acc EXCEPT !["main"] = "wait"]
      /\ BegunTooEarly = {}
  BY DEF MainAccess, Begin, Goto
<1> DEFINE d == ~u.ep
<1>2. det' = d BY DEF MainAccess
<1> HIDE DEF t, d
<1>3. acc'["main"] = "wait" /\ acc'["irq"] = "none" BY <1>1, Access
<1>4. Typed(u) /\ Safe(u, pc, "none", "none", det) BY <1>1 DEF TypeInv, SafeNow
<1>5. "DATA_OUT" \in Process /\ "main" \in Who BY DEF Process, Who
<1>6. Safe(t, "check", "wait", "none", d) BY <1>1, <1>4, <1>5, SafeBegins DEF t, d
<1> QED BY <1>1, <1>2, <1>3, <1>6 DEF SafeNow

LEMMA IrqAccessSafe ==
  ASSUME TypeInv, SafeNow, IrqAccess, spoil' = {}
  PROVE  SafeNow'
<1>1. PICK p \in {"DATA_IN", "DATA_OUT"} : Begin("irq", p) BY DEF IrqAccess
<1> DEFINE t == [Command(u, p, "zero", "irq") EXCEPT !.proof = "none"]
<1>2. /\ pc \notin {"run", "detaching"} /\ BegunTooEarly = {} /\ acc["main"] = "none"
      /\ pc' = pc /\ det' = det
  BY DEF IrqAccess
<1>3. /\ acc["irq"] = "none" /\ Ready(u) /\ u' = t /\ acc' = [acc EXCEPT !["irq"] = "wait"]
  BY <1>1 DEF Begin
<1> HIDE DEF t
<1>4. acc'["main"] = "none" /\ acc'["irq"] = "wait" BY <1>2, <1>3, Access
<1>5. Typed(u) /\ Safe(u, pc, "none", "none", det) BY <1>2, <1>3 DEF TypeInv, SafeNow
<1>6. pc \in {"sched", "check"} BY <1>2, <1>5 DEF Safe, Turn, TypeInv, Place
<1>7. p \in Process /\ "irq" \in Who BY DEF Process, Who
<1>8. Safe(t, pc, "none", "wait", det) BY <1>2, <1>3, <1>5, <1>6, <1>7, SafeBegins DEF t
<1> QED BY <1>2, <1>3, <1>4, <1>8 DEF SafeNow

LEMMA IrqTurnSafe ==
  ASSUME TypeInv, SafeNow, IrqTurn, spoil' = {}
  PROVE  SafeNow'
<1> DEFINE i == acc["irq"]
           e == ~u.ep
<1>1. i \in {"wait", "leave"} /\ i # "none" BY Access DEF IrqTurn
<1>2. acc["main"] = "none" BY <1>1 DEF SafeNow, Safe, Turn
<1>3. pc \in {"sched", "check"}
  BY <1>1, <1>2 DEF SafeNow, Safe, Turn, TypeInv, Place
<1>4. PICK g \in BOOLEAN :
        LET v == WaitLoop(u, g)
        IN  /\ IF RecMsg(v, "HSTRG") THEN Answer("irq", v)
               ELSE u' = v /\ (GiveUp("irq") \/ TurnAgain("irq", ~u.ep))
            /\ spoil' = spoil \cup Bounce(u) \cup LosesPicked("irq", v)
                              \cup (IF u.flag THEN Early(u) ELSE {})
  BY DEF IrqTurn
<1> DEFINE v == WaitLoop(u, g)
<1>5. IF v.use.id = "HSTRG" THEN Answer("irq", v)
      ELSE u' = v /\ (GiveUp("irq") \/ TurnAgain("irq", e))
  BY <1>4 DEF RecMsg
<1>6. LosesPicked("irq", v) = {} /\ (u.flag => Early(u) = {}) BY <1>4
<1>7. pc' = pc /\ det' = det BY DEF IrqTurn
<1>8. Typed(u) /\ Safe(u, pc, "none", i, det) BY <1>2 DEF TypeInv, SafeNow
<1> HIDE DEF i
<1>9. PICK b : TurnedTo(u, b, i) /\ v = Scheduler(b)
  BY <1>1, <1>3, <1>6, <1>8, IrqTask
<1> HIDE DEF v
<1>10. /\ Typed(v) /\ Pool(v, v.flag) /\ Work(v, v.flag) /\ Mode(v) /\ Strg(v, v.flag)
       /\ ~v.ep => "zero" \notin v.chk
       /\ ~u.ep => "zero" \notin v.chk
       /\ i = "leave" => "zero" \notin v.chk
       /\ i = "wait" => Level1(v, v.flag) /\ (u.ep => Level2(v, v.flag))
       /\ v.use.id = "HSTRG" => Holds(v, v.flag) /\ v.use.what = "NONE"
  BY <1>1, <1>3, <1>8, <1>9, IrqPicks
<1>11. CASE v.use.id = "HSTRG"
  <2> DEFINE t == RelBlk([v EXCEPT !.proof = "none"], v.use)
  <2>1. u' = t /\ acc' = [acc EXCEPT !["irq"] = "none"] BY <1>5, <1>11 DEF Answer
  <2>2. acc'["main"] = "none" /\ acc'["irq"] = "none" BY <1>2, <2>1, Access
  <2>3. Safe(t, pc, "none", "none", det) BY <1>3, <1>10, <1>11, SafeIrqAnswers
  <2> HIDE DEF t
  <2> QED BY <1>7, <2>1, <2>2, <2>3 DEF SafeNow
<1>12. CASE v.use.id # "HSTRG"
  <2> DEFINE j == acc'["irq"]
  <2>1. u' = v /\ (GiveUp("irq") \/ TurnAgain("irq", e)) BY <1>5, <1>12
  <2>2. CASE GiveUp("irq")
    <3>1. acc["irq"] = "leave" /\ acc' = [acc EXCEPT !["irq"] = "none"] BY <2>2 DEF GiveUp
    <3>2. acc'["main"] = "none" /\ j = "none" BY <1>2, <3>1, Access
    <3>3. ~v.flag BY <1>6, <1>12, <3>1 DEF LosesPicked, RecMsg
    <3>4. "zero" \notin v.chk BY <1>10, <3>1 DEF i
    <3>5. Safe(v, pc, "none", "none", det)
      BY <1>3, <1>10, <1>12, <3>3, <3>4, SafeIrqGoesOn
    <3> QED BY <1>7, <2>1, <3>2, <3>5 DEF SafeNow
  <2>3. CASE TurnAgain("irq", e)
    <3> DEFINE w == IF e THEN "leave" ELSE "wait"
    <3>1. acc["irq"] = "wait" /\ acc' = [acc EXCEPT !["irq"] = w]
      BY <2>3 DEF TurnAgain
    <3>3. w \in {"wait", "leave"} /\ (w = "leave" => ~u.ep) /\ (w = "wait" => u.ep) OBVIOUS
    <3> HIDE DEF w
    <3>2. acc'["main"] = "none" /\ acc'["irq"] = w BY <1>2, <3>1, Access
    <3>4. Level1(v, v.flag) /\ (u.ep => Level2(v, v.flag)) BY <1>10, <3>1 DEF i
    <3>5. Safe(v, pc, "none", w, det)
      BY <1>3, <1>10, <1>12, <3>3, <3>4, SafeIrqGoesOn
    <3> QED BY <1>7, <2>1, <3>2, <3>5 DEF SafeNow
  <2> QED BY <2>1, <2>2, <2>3
<1> QED BY <1>11, <1>12

(* The device and the line.                                                *)
LEMMA EndsSafe ==
  ASSUME TypeInv, SafeNow, NEW p \in Pipe, NEW status \in Word, Ends(p, status)
  PROVE  SafeNow'
<1> DEFINE n == Msg("HCD", 0, "end", status, p)
<1>1. Do(u, u', {"ended"}, {n}) /\ u'.used = u.used BY EndsSend DEF TypeInv
<1>2. Do(u, u', LineFields, {n}) BY <1>1, DoMore DEF LineFields
<1>3. n.id = "HCD" /\ n.blk = 0 /\ ~IsWork(n) BY EndMessage DEF Msg
<1> HIDE DEF n
<1>4. \A x \in {n} : x.id = "HCD" /\ x.blk = 0 /\ ~IsWork(x) BY <1>3
<1>5. Safe(u', pc, acc["main"], acc["irq"], det)
  BY <1>1, <1>2, <1>4, SafeLine DEF TypeInv, SafeNow
<1> QED BY <1>5 DEF Ends, SafeNow

LEMMA PlugSafe ==
  ASSUME TypeInv, SafeNow, PlugOrPull
  PROVE  SafeNow'
<1> DEFINE x == ~u.plug
<1>1. u' = [u EXCEPT !.plug = x] BY DEF PlugOrPull
<1>2. x \in Kinds.plug BY KindOf, TypedFields
<1>3. u'.used = u.used BY <1>1
<1> HIDE DEF x
<1>4. Do(u, u', {"plug"}, {}) BY <1>1, <1>2, IsPlain, Set1 DEF Sets, TypeInv
<1>5. Do(u, u', LineFields, {}) BY <1>4, DoMore DEF LineFields
<1>6. Safe(u', pc, acc["main"], acc["irq"], det)
  BY <1>3, <1>5, SafeLine DEF TypeInv, SafeNow
<1> QED BY <1>6 DEF PlugOrPull, SafeNow

LEMMA LineSafe ==
  ASSUME TypeInv, SafeNow, LineChanges
  PROVE  SafeNow'
<1> DEFINE n == Msg("HCD", 0, u.ints, "none", "none")
<1>1. u.ints \in {"attch", "dtch"} /\ Do(u, u', {"ints"}, {n}) /\ u'.used = u.used
  BY LineSends DEF TypeInv
<1>2. Do(u, u', LineFields, {n}) BY <1>1, DoMore DEF LineFields
<1>3. n.id = "HCD" /\ n.blk = 0 /\ ~IsWork(n) BY <1>1, LineMessage DEF Msg
<1> HIDE DEF n
<1>4. \A x \in {n} : x.id = "HCD" /\ x.blk = 0 /\ ~IsWork(x) BY <1>3
<1>5. Safe(u', pc, acc["main"], acc["irq"], det)
  BY <1>1, <1>2, <1>4, SafeLine DEF TypeInv, SafeNow
<1> QED BY <1>5 DEF LineChanges, SafeNow

-----------------------------------------------------------------------------
(* No block is lost.                                                       *)

(* Nothing of Spoil is ever taken back.                                    *)
LEMMA SpoilGrows == Next => spoil \subseteq spoil'
<1> SUFFICES ASSUME Next PROVE spoil \subseteq spoil' OBVIOUS
<1> QED
  BY DEF Next, Main, MainSchedule, MainCheck, MainRuns, MainDetaches,
         MainDetached, MainReceives, MainTurns, MainAccess, IrqAccess, IrqTurn,
         DeviceAnswers, TransferFails, Ends, PlugOrPull, LineChanges

LEMMA NextKeepsSafe == TypeInv /\ SafeInv /\ [Next]_vars => SafeInv'
<1> SUFFICES ASSUME TypeInv, SafeInv, [Next]_vars PROVE SafeInv' OBVIOUS
<1>1. CASE Next
  <2>1. SUFFICES ASSUME spoil' = {} PROVE SafeNow' BY DEF SafeInv, SafeNow
  <2>2. spoil = {} BY <1>1, <2>1, SpoilGrows
  <2>3. SafeNow BY <2>2 DEF SafeInv, SafeNow
  <2>4. CASE Main
    BY <2>1, <2>3, <2>4, MainScheduleSafe, MainCheckSafe, MainRunsSafe, MainDetachesSafe,
       MainDetachedSafe, MainReceivesSafe, MainTurnsSafe DEF Main
  <2>5. CASE MainAccess BY <2>1, <2>3, <2>5, MainAccessSafe
  <2>6. CASE IrqAccess BY <2>1, <2>3, <2>6, IrqAccessSafe
  <2>7. CASE IrqTurn BY <2>1, <2>3, <2>7, IrqTurnSafe
  <2>8. CASE \E p \in Pipe : DeviceAnswers(p) \/ TransferFails(p)
    <3>1. PICK p \in Pipe : DeviceAnswers(p) \/ TransferFails(p) BY <2>8
    <3>2. PICK status \in Word : Ends(p, status)
      BY <3>1, OutcomeWord, Words DEF DeviceAnswers, TransferFails
    <3> QED BY <2>3, <3>2, EndsSafe
  <2>9. CASE PlugOrPull BY <2>3, <2>9, PlugSafe
  <2>10. CASE LineChanges BY <2>3, <2>10, LineSafe
  <2> QED BY <1>1, <2>4, <2>5, <2>6, <2>7, <2>8, <2>9, <2>10 DEF Next
<1>2. CASE UNCHANGED vars BY <1>2 DEF vars, SafeInv
<1> QED BY <1>1, <1>2

LEMMA SafeGives ==
  ASSUME TypeInv, SafeInv
  PROVE  BlocksAccounted
<1> SUFFICES ASSUME spoil = {}
             PROVE  BlocksAreDistinct(u) /\ u.used \subseteq Blocks(Queued(u) \cup InHand)
  BY DEF BlocksAccounted
<1> DEFINE k == TakenAt(u, pc)
<1>1. Pool(u, k) BY DEF SafeInv, Safe
<1>2. u.used \in SUBSET (1 .. BLKMAX) BY TypedFields DEF TypeInv
<1>3. Blocks(Queued(u)) \subseteq Blocks(Queued(u) \cup InHand) BY DEF Blocks
<1>4. CASE Holds(u, k)
  <2>1. Acc(u, u.use.blk) BY <1>1, <1>4 DEF Pool
  <2>2. u.use \in InHand BY <1>4 DEF Holds, TakenAt, InHand
  <2>3. ASSUME NEW b \in u.used PROVE b \in Blocks(Queued(u) \cup InHand)
    <3>1. b # 0 BY <1>2
    <3>2. CASE b = u.use.blk BY <2>2, <3>1, <3>2 DEF Blocks
    <3>3. CASE b # u.use.blk BY <1>3, <2>1, <3>3 DEF Acc
    <3> QED BY <3>2, <3>3
  <2> QED BY <2>1, <2>3 DEF Acc
<1>5. CASE ~Holds(u, k)
  <2>1. Acc(u, 0) BY <1>1, <1>5 DEF Pool
  <2>2. 0 \notin u.used BY <1>2
  <2> QED BY <1>3, <2>1, <2>2 DEF Acc
<1> QED BY <1>4, <1>5

(* Where nothing of Spoil has happened, no block of the message pool is    *)
(* lost, sent twice or given out again while a message still has it: an    *)
(* access leaves its answer's block to the pool once, and the main loop    *)
(* does not come back to it.                                               *)
THEOREM BlocksAreAccounted == Spec => []BlocksAccounted
<1>1. Init => TypeInv /\ SafeInv BY InitType, InitSafe
<1>2. (TypeInv /\ SafeInv) /\ [Next]_vars => (TypeInv /\ SafeInv)'
  BY NextKeepsType, NextKeepsSafe
<1>3. TypeInv /\ SafeInv => BlocksAccounted BY SafeGives
<1> QED BY <1>1, <1>2, <1>3, PTL DEF Spec

-----------------------------------------------------------------------------
(* What makes an answer true.                                              *)

(* What makes answers true, of the memory s and the access w that waits,   *)
(* "none" where there is none.  A message by which a command goes on comes *)
(* after its command block was made, or will make it, or will find that    *)
(* the drive is gone; and while an access waits the command is its own, or *)
(* the inquiry after that one's failure.  After a phase error nothing      *)
(* reports a success to an access that waited when it came.                *)
OfHcd(m) == m.id = "HCD" /\ IsWork(m)
By(s, w) == s.by = w \/ (s.by = "sense" /\ s.roop)
SoundNow(s, m) ==
  /\ m.id = "HMSC" =>
       s.bumped \/ (m.what \in Process /\ (s.seq[m.what] = 0 \/ ~Known(s)))
  /\ OfHcd(m) => s.bumped \/ Lun(m)
SoundFor(s, w, m) ==
  /\ m.id = "HMSC" => By(s, w)
  /\ OfHcd(m) => By(s, w) /\ ~Lun(m)
  /\ m.id = "HSTRG" /\ m.arg = "OK" => s.proof = w
SoundAfter(m) ==
  /\ m.id = "HMSC" => m.what \in Recovering
  /\ m.id = "HSTRG" => m.arg # "OK"
  /\ OfHcd(m) => ~Lun(m)
Sound(s, w, m) ==
  IF s.phase THEN w # "none" => SoundAfter(m)
  ELSE SoundNow(s, m) /\ (w # "none" => SoundFor(s, w, m))
SoundPipe(s, w, utr) ==
  IF s.phase THEN w # "none" => utr # "lun"
  ELSE /\ utr \notin {"idle", "enum", "lun"} => s.bumped
       /\ w # "none" => utr # "lun" /\ (utr \notin {"idle", "enum"} => By(s, w))
Owned(s, w) == s.phase /\ w # "none" => s.process = "PHASE_ERR"
Right(s, w) ==
  /\ Current(s) /\ Owned(s, w)
  /\ \A m \in Queued(s) : Sound(s, w, m)
  /\ \A p \in Pipe : SoundPipe(s, w, s.pipe[p])
Trusted(s, k, w) == Right(s, w) /\ (Holds(s, k) => Sound(s, w, s.use))

(* Messages that are not by way of work say nothing.                       *)
LEMMA IdleIsSound ==
  ASSUME NEW s, NEW w, NEW m, ~IsWork(m)
  PROVE  Sound(s, w, m)
BY DEF IsWork, Sound, SoundNow, SoundFor, SoundAfter, OfHcd

LEMMA IdleIsRight ==
  ASSUME NEW s, NEW w, Current(s), Owned(s, w), Idle(s),
         \A m \in Queued(s) : IsWork(m) => Sound(s, w, m)
  PROVE  Right(s, w)
<1>1. \A m \in Queued(s) : Sound(s, w, m) BY IdleIsSound
<1>2. \A p \in Pipe : SoundPipe(s, w, s.pipe[p]) BY DEF Idle, SoundPipe
<1> QED BY <1>1, <1>2 DEF Right

(* Where no access waits a phase error excuses everything.                 *)
LEMMA NobodyAsks ==
  ASSUME NEW s, s.phase
  PROVE  /\ Right(s, "none") /\ (\A m : Sound(s, "none", m))
         /\ \A k : Trusted(s, k, "none")
BY DEF Right, Trusted, Current, Owned, Sound, SoundPipe

LEMMA NobodyWaits ==
  ASSUME NEW s, NEW w, Right(s, w)
  PROVE  Right(s, "none") /\ (\A k : Trusted(s, k, w) => Trusted(s, k, "none"))
<1>1. \A m : Sound(s, w, m) => Sound(s, "none", m) BY DEF Sound
<1>2. \A utr : SoundPipe(s, w, utr) => SoundPipe(s, "none", utr) BY DEF SoundPipe
<1>3. Owned(s, "none") BY DEF Owned
<1>4. Right(s, "none") BY <1>1, <1>2, <1>3 DEF Right
<1> QED BY <1>1, <1>4 DEF Trusted

(* What soundness is judged by.                                            *)
Judged == {"by", "bumped", "proof", "roop", "phase", "seq", "root", "chk", "process"}
JudgedSame(s, t) ==
  /\ t.by = s.by /\ t.bumped = s.bumped /\ t.proof = s.proof /\ t.roop = s.roop
  /\ t.phase = s.phase /\ t.seq = s.seq /\ t.root = s.root /\ t.chk \subseteq s.chk
  /\ t.process = s.process

LEMMA StillSound ==
  ASSUME NEW s, NEW t, JudgedSame(s, t), NEW w
  PROVE  /\ \A m : Sound(s, w, m) => Sound(t, w, m)
         /\ \A utr : SoundPipe(s, w, utr) => SoundPipe(t, w, utr)
         /\ Owned(s, w) => Owned(t, w)
<1>1. /\ t.by = s.by /\ t.bumped = s.bumped /\ t.proof = s.proof /\ t.roop = s.roop
      /\ t.phase = s.phase /\ t.seq = s.seq /\ (~Known(s) => ~Known(t))
      /\ t.process = s.process
  BY DEF JudgedSame, Known
<1>2. By(t, w) = By(s, w) BY <1>1 DEF By
<1>3. \A m : SoundNow(s, m) => SoundNow(t, m) BY <1>1 DEF SoundNow
<1>4. \A m : SoundFor(s, w, m) => SoundFor(t, w, m) BY <1>1, <1>2 DEF SoundFor
<1>5. \A m : Sound(s, w, m) => Sound(t, w, m) BY <1>1, <1>3, <1>4 DEF Sound
<1>6. \A utr : SoundPipe(s, w, utr) => SoundPipe(t, w, utr) BY <1>1, <1>2 DEF SoundPipe
<1> QED BY <1>1, <1>5, <1>6 DEF Owned

LEMMA JudgedStays ==
  ASSUME NEW s, NEW t, NEW F, Same(s, t, F), \A f \in Judged : f \notin F
  PROVE  JudgedSame(s, t)
<1>1. \A f \in Judged : t[f] = s[f] BY IsField DEF Same, Judged
<1> QED BY <1>1 DEF JudgedSame, Judged

(* Only what is judged, the device's part and the pipes matter.            *)
LEMMA RightStays ==
  ASSUME NEW s, NEW t, NEW w, Right(s, w), JudgedSame(s, t), t.pipe = s.pipe,
         t.dev = s.dev, t.csw = s.csw,
         \A m \in Queued(t) : m \in Queued(s) \/ Sound(t, w, m)
  PROVE  Right(t, w)
<1>1. Current(t) BY DEF Right, Current, JudgedSame
<1>2. Owned(t, w) BY StillSound DEF Right
<1>3. \A m \in Queued(t) : Sound(t, w, m) BY StillSound DEF Right
<1>4. \A p \in Pipe : SoundPipe(t, w, t.pipe[p]) BY StillSound DEF Right
<1> QED BY <1>1, <1>2, <1>3, <1>4 DEF Right

(* The end of a transfer, or of a request that failed.                     *)
LEMMA CalledSound ==
  ASSUME NEW s, NEW w, NEW utr, utr # "idle", SoundPipe(s, w, utr), Owned(s, w),
         NEW status, NEW n \in Called(s, utr, status)
  PROVE  Sound(s, w, n)
<1>1. CASE utr = "enum"
  <2>1. n.id = "MGR" BY <1>1 DEF Called, Some, Msg
  <2> QED BY <2>1 DEF Sound, SoundNow, SoundFor, SoundAfter, OfHcd
<1>2. CASE utr = "lun"
  <2>1. n.id = "HSTRG" BY <1>2 DEF Called, Some, Msg
  <2>2. w = "none" BY <1>2 DEF SoundPipe
  <2> QED BY <2>1, <2>2 DEF Sound, SoundNow, OfHcd
<1>3. CASE utr = "clear"
  <2>1. n.id = "HCD" /\ n.what = "clr_result" BY <1>3 DEF Called, Some, Msg
  <2>2. ~s.phase => s.bumped /\ (w # "none" => By(s, w)) BY <1>3 DEF SoundPipe
  <2> QED BY <2>1, <2>2 DEF Sound, SoundNow, SoundFor, SoundAfter, Lun
<1>4. CASE utr \notin {"enum", "lun", "clear"}
  <2>1. n.id = "HMSC" /\ n.what = s.process BY <1>4 DEF Called, Some, Msg
  <2>2. ~s.phase => s.bumped /\ (w # "none" => By(s, w)) BY <1>4 DEF SoundPipe
  <2>3. s.phase /\ w # "none" => n.what \in Recovering BY <2>1 DEF Owned, Recovering
  <2> QED BY <2>1, <2>2, <2>3 DEF Sound, SoundNow, SoundFor, SoundAfter, OfHcd
<1> QED BY <1>1, <1>2, <1>3, <1>4

LEMMA EndedRight ==
  ASSUME NEW s, Typed(s), NEW t, NEW p \in Pipe, NEW status, Ended(s, t, p, status),
         s.pipe[p] # "idle", NEW w, Right(s, w)
  PROVE  Right(t, w)
<1> DEFINE utr == s.pipe[p]
           N == Called(s, utr, Told(utr, status))
<1>1. /\ Do(s, t, EndFields, N) /\ t.pipe = [s.pipe EXCEPT ![p] = "idle"]
      /\ t.dev = DevAfter(s, utr, status) /\ t.csw = CswAfter(s, utr, status)
  BY DEF Ended
<1>2. SoundPipe(s, w, utr) /\ Owned(s, w) /\ Current(s) BY DEF Right
<1>3. \A n \in N : Sound(s, w, n) BY <1>2, CalledSound
<1> HIDE DEF N
<1>4. JudgedSame(s, t)
  <2>1. Same(s, t, EndFields \cup {"used", "q"}) BY <1>1 DEF Do, Done
  <2>2. \A f \in Judged : f \notin EndFields \cup {"used", "q"} BY DEF Judged, EndFields
  <2> QED BY <2>1, <2>2, JudgedStays
<1>5. Queued(t) \subseteq Queued(s) \cup N BY <1>1 DEF Do, Done
<1>6. \A n \in Queued(t) : Sound(t, w, n) BY <1>3, <1>4, <1>5, StillSound DEF Right
<1>7. \A x \in Pipe : SoundPipe(t, w, t.pipe[x])
  <2>1. s.pipe \in [Pipe -> Word] BY TypedFields DEF Pipes
  <2>2. SoundPipe(t, w, "idle") BY DEF SoundPipe
  <2>3. ASSUME NEW x \in Pipe PROVE SoundPipe(t, w, t.pipe[x])
    <3>1. CASE x = p BY <1>1, <2>1, <2>2, <3>1
    <3>2. CASE x # p BY <1>1, <1>4, <2>1, <3>2, StillSound DEF Right
    <3> QED BY <3>1, <3>2
  <2> QED BY <2>3
<1>8. Current(t)
  <2> SUFFICES ASSUME ~t.phase
               PROVE  /\ t.dev.cur => t.bumped /\ t.dev.by = t.by
                      /\ t.csw.cur => t.dev.cur
    BY DEF Current
  <2>1. /\ ~s.phase /\ t.bumped = s.bumped /\ t.by = s.by
        /\ s.dev.cur => s.bumped /\ s.dev.by = s.by
        /\ s.csw.cur => s.dev.cur
    BY <1>2, <1>4 DEF JudgedSame, Current
  <2>2. CASE utr = "cbw" /\ status = "NONE"
    <3>1. t.dev.cur = TRUE /\ t.dev.by = s.by BY <1>1, <2>2 DEF DevAfter
    <3>2. s.bumped BY <1>2, <2>1, <2>2 DEF SoundPipe
    <3> QED BY <2>1, <3>1, <3>2
  <2>3. CASE utr = "csw" /\ status \in CswStatus
    <3>1. t.dev = s.dev /\ t.csw.cur = s.dev.cur BY <1>1, <2>3 DEF DevAfter, CswAfter
    <3> QED BY <2>1, <3>1
  <2>4. CASE ~(utr = "cbw" /\ status = "NONE") /\ ~(utr = "csw" /\ status \in CswStatus)
    <3>1. t.dev = s.dev /\ t.csw = s.csw BY <1>1, <2>4 DEF DevAfter, CswAfter
    <3> QED BY <2>1, <3>1
  <2> QED BY <2>2, <2>3, <2>4
<1>9. Owned(t, w) BY <1>2, <1>4, StillSound
<1> QED BY <1>6, <1>7, <1>8, <1>9 DEF Right

LEMMA EndRight ==
  ASSUME NEW s, Typed(s), NEW p \in Pipe, NEW status \in Word, NEW w, Right(s, w)
  PROVE  Typed(DataEnd(s, p, status)) /\ Right(DataEnd(s, p, status), w)
<1> DEFINE t == DataEnd(s, p, status)
<1>1. CASE s.pipe[p] = "idle"
  <2>1. t = s BY <1>1, DoDataEnd
  <2> QED BY <2>1
<1>2. CASE s.pipe[p] # "idle"
  <2>1. Ended(s, t, p, status) BY <1>2, DoDataEnd
  <2> HIDE DEF t
  <2>2. Typed(t) BY <2>1, DoTyped DEF Ended
  <2>3. Right(t, w) BY <1>2, <2>1, EndedRight
  <2> QED BY <2>2, <2>3 DEF t
<1> QED BY <1>1, <1>2

(* Messages that are sound, and fields that are not looked at.             *)
Unjudged == {"conn", "ints", "stall", "mode", "ep", "halt", "ended", "plug", "flag", "use",
             "used", "q"}

LEMMA UnjudgedSame ==
  ASSUME NEW s, NEW t, NEW F, F \subseteq Unjudged, Same(s, t, F)
  PROVE  /\ JudgedSame(s, t) /\ t.pipe = s.pipe /\ t.dev = s.dev /\ t.csw = s.csw
         /\ t.chk = s.chk
<1>1. \A f \in Judged : f \notin F BY DEF Unjudged, Judged
<1>2. JudgedSame(s, t) BY <1>1, JudgedStays
<1>3. "pipe" \notin F /\ "dev" \notin F /\ "csw" \notin F /\ "chk" \notin F BY DEF Unjudged
<1> QED BY <1>2, <1>3, IsField DEF Same

LEMMA SendsSound ==
  ASSUME NEW s, NEW t, NEW F, F \subseteq Unjudged, NEW N, Done(s, t, F, N),
         NEW w, Right(s, w), \A n \in N : Sound(s, w, n)
  PROVE  Right(t, w)
<1>1. Same(s, t, F \cup {"used", "q"}) /\ Queued(t) \subseteq Queued(s) \cup N BY DEF Done
<1>2. F \cup {"used", "q"} \subseteq Unjudged BY DEF Unjudged
<1>3. JudgedSame(s, t) /\ t.pipe = s.pipe /\ t.dev = s.dev /\ t.csw = s.csw
  BY <1>1, <1>2, UnjudgedSame
<1>4. \A m \in Queued(t) : m \in Queued(s) \/ Sound(t, w, m) BY <1>1, <1>3, StillSound
<1> QED BY <1>3, <1>4, RightStays

LEMMA FreesSound ==
  ASSUME NEW s, Typed(s), NEW m, NEW w, Right(s, w)
  PROVE  Typed(RelBlk(s, m)) /\ Right(RelBlk(s, m), w)
<1> DEFINE t == RelBlk(s, m)
<1>1. Typed(t) /\ Same(s, t, {"used"}) /\ Queued(t) = Queued(s) BY Released
<1> HIDE DEF t
<1>2. JudgedSame(s, t) /\ t.pipe = s.pipe /\ t.dev = s.dev /\ t.csw = s.csw
  BY <1>1, UnjudgedSame DEF Unjudged
<1>3. Right(t, w) BY <1>1, <1>2, RightStays
<1> QED BY <1>1, <1>3 DEF t

LEMMA EndTransfersRight ==
  ASSUME NEW s, Typed(s), NEW w, Right(s, w)
  PROVE  Typed(EndTransfers(s)) /\ Right(EndTransfers(s), w)
<1> DEFINE a == DataEnd(s, "ctl", "ERR")
           b == DataEnd(a, "out", "ERR")
           c == DataEnd(b, "in", "ERR")
           d == [c EXCEPT !.conn = FALSE]
           t == EndTransfers(s)
<1> SUFFICES Typed(t) /\ Right(t, w) OBVIOUS
<1>1. t = IF ~s.conn THEN s ELSE d BY DEF EndTransfers
<1> HIDE DEF t
<1>2. "ctl" \in Pipe /\ "out" \in Pipe /\ "in" \in Pipe /\ "ERR" \in Word
  BY Words DEF Pipe
<1>3. Typed(a) /\ Right(a, w) BY <1>2, EndRight
<1> HIDE DEF a
<1>4. Typed(b) /\ Right(b, w) BY <1>2, <1>3, EndRight
<1> HIDE DEF b
<1>5. Typed(c) /\ Right(c, w) BY <1>2, <1>4, EndRight
<1> HIDE DEF c
<1>6. Sets(c, d, "conn", FALSE) BY <1>5, Set1, IsPlain, KindOf
<1> HIDE DEF d
<1>7. Typed(d) /\ Done(c, d, {"conn"}, {}) BY <1>6, DoTyped DEF Sets
<1>8. {"conn"} \subseteq Unjudged BY DEF Unjudged
<1>9. Right(d, w) BY <1>5, <1>7, <1>8, SendsSound
<1> QED BY <1>1, <1>7, <1>9

LEMMA AttachRight ==
  ASSUME NEW s, Typed(s), NEW w, Right(s, w)
  PROVE  Right(AttachProcess(s), w)
<1> DEFINE t == AttachProcess(s)
<1>1. Done(s, t, {"ints"}, Notifs) BY AttachSends DEF Do
<1>2. \A n \in Notifs : Sound(s, w, n)
  <2>1. \A n \in Notifs : ~IsWork(n) BY DEF Notifs, Some, Msg, IsWork
  <2> QED BY <2>1, IdleIsSound
<1>3. {"ints"} \subseteq Unjudged BY DEF Unjudged
<1> HIDE DEF t, Notifs
<1>4. Right(t, w) BY <1>1, <1>2, <1>3, SendsSound
<1> QED BY <1>4 DEF t

LEMMA SubmitRight ==
  ASSUME NEW s, Typed(s), NEW m \in Messages, m.id = "HCD", m.what = "submit",
         NEW w, Right(s, w), Sound(s, w, m)
  PROVE  Right(SetSubmitutr(s, m), w)
<1> DEFINE p == m.arg
           utr == SubmitUtr(s, m)
           t == SetSubmitutr(s, m)
           N == Called(s, utr, "ERR")
<1>1. p \in Pipe /\ utr \in {"lun", "clear", "reset", "data", "cbw", "csw"}
  BY SubmitPipe
<1>2. OfHcd(m) BY DEF OfHcd, IsWork
<1>3. utr = "lun" <=> Lun(m)
  <2>1. CASE m.arg = "ctl" BY <2>1 DEF SubmitUtr, Lun
  <2>2. CASE m.arg # "ctl"
    <3>1. m.arg \in {"out", "in"} BY <2>2 DEF Messages
    <3>2. s.buf \in [{"out", "in"} -> {"data", "cbw", "csw"}] BY TypedFields
    <3>3. s.buf[m.arg] \in {"data", "cbw", "csw"} BY <3>1, <3>2
    <3> QED BY <2>2, <3>3 DEF SubmitUtr, Lun
  <2> QED BY <2>1, <2>2
<1> HIDE DEF utr
<1>4. SoundPipe(s, w, utr)
  <2>1. CASE s.phase BY <1>2, <1>3, <2>1 DEF Sound, SoundAfter, SoundPipe
  <2>2. CASE ~s.phase
    BY <1>1, <1>2, <1>3, <2>2 DEF Sound, SoundNow, SoundFor, SoundPipe
  <2> QED BY <2>1, <2>2
<1>5. \/ Sets2(s, t, "pipe", [s.pipe EXCEPT ![p] = utr], "ended", s.ended \ {p})
      \/ /\ Do(s, t, {"pipe", "ended"}, N)
         /\ t.pipe = [s.pipe EXCEPT ![p] = "idle"]
  BY DoSubmit DEF Submits, utr
<1>6. \A n \in N : Sound(s, w, n)
  BY <1>1, <1>4, CalledSound DEF Right
<1> HIDE DEF t, N
<1>7. \E x : /\ t.pipe = [s.pipe EXCEPT ![p] = x] /\ SoundPipe(s, w, x)
             /\ Done(s, t, {"pipe", "ended"}, N)
  <2>1. SoundPipe(s, w, "idle") BY DEF SoundPipe
  <2>2. CASE Sets2(s, t, "pipe", [s.pipe EXCEPT ![p] = utr], "ended", s.ended \ {p})
    <3>1. Do(s, t, {"pipe", "ended"}, N) BY <2>2, DoMore DEF Sets2
    <3> QED BY <1>4, <2>2, <3>1 DEF Sets2, Do
  <2>3. CASE Do(s, t, {"pipe", "ended"}, N) /\ t.pipe = [s.pipe EXCEPT ![p] = "idle"]
    BY <2>1, <2>3 DEF Do
  <2> QED BY <1>5, <2>2, <2>3
<1>8. PICK x : /\ t.pipe = [s.pipe EXCEPT ![p] = x] /\ SoundPipe(s, w, x)
               /\ Done(s, t, {"pipe", "ended"}, N)
  BY <1>7
<1>9. Same(s, t, {"pipe", "ended", "used", "q"})
  <2>1. Same(s, t, {"pipe", "ended"} \cup {"used", "q"}) BY <1>8 DEF Done
  <2> QED BY <2>1 DEF Same
<1>10. JudgedSame(s, t) BY <1>9, JudgedStays DEF Judged
<1>11. t.dev = s.dev /\ t.csw = s.csw BY <1>9, IsField DEF Same
<1>12. Queued(t) \subseteq Queued(s) \cup N BY <1>8 DEF Done
<1>13. \A n \in Queued(t) : Sound(t, w, n) BY <1>6, <1>10, <1>12, StillSound DEF Right
<1>14. \A y \in Pipe : SoundPipe(t, w, t.pipe[y])
  <2>1. s.pipe \in [Pipe -> Word] BY TypedFields DEF Pipes
  <2>2. \A y \in Pipe : SoundPipe(s, w, s.pipe[y]) BY DEF Right
  <2>3. \A y \in Pipe : t.pipe[y] = IF y = p THEN x ELSE s.pipe[y] BY <1>8, <2>1
  <2>4. \A y \in Pipe : SoundPipe(s, w, t.pipe[y]) BY <1>8, <2>2, <2>3
  <2> QED BY <1>10, <2>4, StillSound
<1>15. Current(t) /\ Owned(t, w)
  BY <1>10, <1>11, StillSound DEF Right, Current, JudgedSame
<1>16. Right(t, w) BY <1>13, <1>14, <1>15 DEF Right
<1> QED BY <1>16 DEF t

-----------------------------------------------------------------------------
(* What each task does to the answers.                                     *)

(* The host driver's task.                                                 *)
LEMMA ClrStallRight ==
  ASSUME NEW s, Typed(s), NEW m \in Messages, m.id = "HCD", m.what = "clr_stall",
         NEW w, Right(s, w), Sound(s, w, m)
  PROVE  Right(ClrStall(s, m), w)
<1> DEFINE t == ClrStall(s, m)
           N == Asks("ctl", "clear")
<1>1. ClrStalls(s, t, m) BY DoClrStall
<1> HIDE DEF t
<1>2. CASE t = SndMsg(s, m)
  <2>1. Typed(t) /\ Same(s, t, {"q"}) /\ Queued(t) = Queued(s) \cup {m} BY <1>2, Snd
  <2>2. JudgedSame(s, t) /\ t.pipe = s.pipe /\ t.dev = s.dev /\ t.csw = s.csw
    BY <2>1, UnjudgedSame DEF Unjudged
  <2>3. Sound(t, w, m) BY <2>2, StillSound
  <2>4. Right(t, w) BY <2>1, <2>2, <2>3, RightStays
  <2> QED BY <2>4 DEF t
<1>3. CASE \E v : /\ Do(s, v, {"stall"}, N) /\ v.stall = m.arg /\ t = RelBlk(v, m)
  <2>1. PICK v : Do(s, v, {"stall"}, N) /\ t = RelBlk(v, m) BY <1>3
  <2>2. ~Lun(m) /\ OfHcd(m) BY DEF Lun, OfHcd, IsWork
  <2>3. \A n \in N : n.id = "HCD" /\ ~Lun(n) BY DEF Asks, Msg, Lun
  <2> HIDE DEF N
  <2>4. \A n \in N : Sound(s, w, n)
    BY <2>2, <2>3 DEF Sound, SoundNow, SoundFor, SoundAfter
  <2>5. {"stall"} \subseteq Unjudged BY DEF Unjudged
  <2>6. Typed(v) /\ Done(s, v, {"stall"}, N) BY <2>1, DoTyped
  <2>7. Right(v, w) BY <2>4, <2>5, <2>6, SendsSound
  <2>8. Right(t, w) BY <2>1, <2>6, <2>7, FreesSound
  <2> QED BY <2>8 DEF t
<1> QED BY <1>1, <1>2, <1>3 DEF ClrStalls

LEMMA ClrResultRight ==
  ASSUME NEW s, Typed(s), NEW m \in Messages, m.id = "HCD", m.what = "clr_result",
         NEW w, Right(s, w), Sound(s, w, m)
  PROVE  Right(RelBlk(ClrStallResult(s, m), m), w)
<1> DEFINE t == ClrStallResult(s, m)
           K == Some("HMSC", s.process, m.arg, "none")
           N == Toggles \cup K
<1>1. Do(s, t, {}, N) BY DoClrStallResult
<1> HIDE DEF t
<1>2. \A n \in Toggles : Sound(s, w, n) BY SeqIsIdle, IdleIsSound DEF Idly
<1>3. ASSUME NEW n \in K PROVE Sound(s, w, n)
  <2>1. n.id = "HMSC" /\ n.what = s.process BY <1>3 DEF Some, Msg
  <2>2. ~Lun(m) /\ OfHcd(m) BY DEF Lun, OfHcd, IsWork
  <2>3. ~s.phase => s.bumped /\ (w # "none" => By(s, w))
    BY <2>2 DEF Sound, SoundNow, SoundFor
  <2>4. s.phase /\ w # "none" => n.what \in Recovering
    BY <2>1 DEF Right, Owned, Recovering
  <2> QED BY <2>1, <2>3, <2>4 DEF Sound, SoundNow, SoundFor, SoundAfter, OfHcd
<1>4. \A n \in N : Sound(s, w, n) BY <1>2, <1>3
<1> HIDE DEF N
<1>5. {} \subseteq Unjudged OBVIOUS
<1>6. Typed(t) /\ Done(s, t, {}, N) BY <1>1, DoTyped
<1>7. Right(t, w) BY <1>4, <1>5, <1>6, SendsSound
<1>8. Right(RelBlk(t, m), w) BY <1>6, <1>7, FreesSound
<1> QED BY <1>8 DEF t

LEMMA HcdTaskRight ==
  ASSUME NEW s, Typed(s), NEW m \in Messages, m.id = "HCD",
         NEW w, Right(s, w), Sound(s, w, m)
  PROVE  Right(HcdTask(s, m), w)
<1>1. CASE m.what = "submit" BY <1>1, SubmitRight DEF HcdTask
<1>2. CASE m.what = "end"
  <2>1. m.drv \in Pipe /\ m.arg \in Word BY <1>2 DEF Messages
  <2>2. Right(DataEnd(s, m.drv, m.arg), w) BY <2>1, EndRight
  <2> QED BY <1>2, <2>2 DEF HcdTask
<1>3. CASE m.what = "attch" BY <1>3, AttachRight DEF HcdTask
<1>4. CASE m.what = "dtch"
  <2>1. Typed(EndTransfers(s)) /\ Right(EndTransfers(s), w) BY EndTransfersRight
  <2>2. Right(AttachProcess(EndTransfers(s)), w) BY <2>1, AttachRight
  <2> QED BY <1>4, <2>2 DEF HcdTask, DetachProcess
<1>5. CASE m.what = "clr_stall" BY <1>5, ClrStallRight DEF HcdTask
<1>6. CASE m.what = "clr_result" BY <1>6, ClrResultRight DEF HcdTask
<1>7. CASE m.what \notin {"submit", "end", "attch", "dtch", "clr_stall", "clr_result"}
  <2>1. HcdTask(s, m) = RelBlk(s, m) BY <1>7 DEF HcdTask
  <2> QED BY <2>1, FreesSound
<1> QED BY <1>1, <1>2, <1>3, <1>4, <1>5, <1>6, <1>7

(* The manager's task.                                                     *)
LEMMA MgrTaskRight ==
  ASSUME NEW s, Typed(s), NEW m \in Messages, m.id = "MGR", NEW w, Right(s, w)
  PROVE  Right(MgrTask(s, m), w)
<1> DEFINE t == MgrTask(s, m)
           N == IF m.what = "submit" THEN Opens ELSE {}
<1>1. MgrTaskDoes(s, t, m) BY MgrTaskIs
<1> HIDE DEF t
<1>2. \A n \in N : Sound(s, w, n)
  <2>1. \A n \in Opens : n.id = "HMSCSMP" BY DEF Opens, Some, Msg
  <2> QED BY <2>1 DEF Sound, SoundNow, SoundFor, SoundAfter, OfHcd
<1>3. Freed(s, t, m, MgrFields, N) BY <1>1 DEF MgrTaskDoes
<1> HIDE DEF N
<1>4. JudgedSame(s, t) /\ t.dev = s.dev /\ t.csw = s.csw
  <2>1. Same(s, t, MgrFields \cup {"used", "q"}) BY <1>3 DEF Freed
  <2>2. /\ t.by = s.by /\ t.bumped = s.bumped /\ t.proof = s.proof /\ t.roop = s.roop
        /\ t.phase = s.phase /\ t.seq = s.seq /\ t.root = s.root /\ t.process = s.process
        /\ t.dev = s.dev /\ t.csw = s.csw
    BY <2>1, IsField DEF Same, MgrFields
  <2>3. t.chk \subseteq s.chk
    <3>1. m.what \in {"attach", "detach", "submit"} BY DEF Messages
    <3>2. m.what = "attach" => Enumerates(s, m) \/ s.mode # "DETACHED" BY DEF Enumerates
    <3> QED BY <1>1, <3>1, <3>2 DEF MgrTaskDoes
  <2> QED BY <2>2, <2>3 DEF JudgedSame
<1>5. \A n \in Queued(t) : Sound(t, w, n)
  BY <1>2, <1>3, <1>4, StillSound DEF Right, Freed
<1>6. \A p \in Pipe : SoundPipe(t, w, t.pipe[p])
  <2>1. \A p \in Pipe : SoundPipe(t, w, s.pipe[p]) BY <1>4, StillSound DEF Right
  <2>2. SoundPipe(t, w, "enum") BY DEF SoundPipe
  <2>3. CASE Enumerates(s, m)
    <3>1. t.pipe = [s.pipe EXCEPT !["ctl"] = "enum"] BY <1>1, <2>3 DEF MgrTaskDoes
    <3>2. s.pipe \in [Pipe -> Word] BY TypedFields DEF Pipes
    <3>3. \A p \in Pipe : t.pipe[p] = "enum" \/ t.pipe[p] = s.pipe[p] BY <3>1, <3>2
    <3> QED BY <2>1, <2>2, <3>3
  <2>4. CASE ~Enumerates(s, m) BY <1>1, <2>1, <2>4 DEF MgrTaskDoes
  <2> QED BY <2>3, <2>4
<1>7. Current(t) /\ Owned(t, w)
  BY <1>4, StillSound DEF Right, Current, JudgedSame
<1>8. Right(t, w) BY <1>5, <1>6, <1>7 DEF Right
<1> QED BY <1>8 DEF t

(* The class driver's task, after a phase error.                           *)
LEMMA RecoveryRight ==
  ASSUME NEW s, Typed(s), NEW m \in Messages, m.id = "HMSC", NEW t, HmscTakes(s, t, m),
         NEW w, w # "none", s.phase, Right(s, w), Sound(s, w, m)
  PROVE  Right(t, w)
<1>1. m.what \in Recovering BY DEF Sound, SoundAfter
<1>2. m.what \notin Process BY <1>1 DEF Recovering, Process
<1>3. t.process = s.process /\ Do(s, t, Passing, Again(s))
  BY <1>1, <1>2 DEF HmscTakes, Passes
<1>4. t.phase = s.phase /\ t.pipe = s.pipe
  BY <1>3, IsField DEF Do, Done, Same, Passing
<1>5. Current(t) /\ Owned(t, w) BY <1>3, <1>4 DEF Current, Owned, Right
<1>6. \A n \in Queued(t) : Sound(t, w, n)
  <2> SUFFICES ASSUME NEW n \in Queued(t) PROVE SoundAfter(n) BY <1>4 DEF Sound
  <2>1. CASE n \in Queued(s) BY <2>1 DEF Right, Sound
  <2>2. CASE n \in Again(s)
    BY <2>2 DEF Again, Fine, Out, SoundAfter, OfHcd, Lun
  <2> QED BY <1>3, <2>1, <2>2 DEF Do, Done
<1>7. \A p \in Pipe : SoundPipe(t, w, t.pipe[p]) BY <1>4 DEF Right, SoundPipe
<1> QED BY <1>5, <1>6, <1>7 DEF Right

(* Before one, where nothing else is under way: the task's own message, and *)
(* what it makes of it.                                                    *)
LEMMA NewIsRight ==
  ASSUME NEW s, NEW t, NEW N, NEW w, NoWork(s), t.pipe = s.pipe,
         Queued(t) \subseteq Queued(s) \cup N, \A n \in N : Sound(t, w, n),
         Current(t), Owned(t, w)
  PROVE  Right(t, w)
<1>1. Idle(t) BY DEF NoWork, Idle
<1>2. \A n \in Queued(t) : IsWork(n) => Sound(t, w, n) BY DEF NoWork, NoMsg
<1> QED BY <1>1, <1>2, IdleIsRight

LEMMA PassesRight ==
  ASSUME NEW s, Typed(s), NEW m \in Messages, m.id = "HMSC", NEW t, Passes(s, t, m),
         NEW w, ~s.phase, NoWork(s), Right(s, w), Sound(s, w, m)
  PROVE  Right(t, w)
<1> DEFINE N == IF s.bumped THEN Fine(s) ELSE Mute(s)
<1>1. Do(s, t, Passing, N)
  <2>1. CASE s.bumped BY <2>1 DEF Passes
  <2>2. CASE ~s.bumped
    <3>1. m.what \in Process /\ (s.seq[m.what] = 0 \/ ~Known(s))
      BY <2>2 DEF Sound, SoundNow
    <3> QED BY <2>2, <3>1 DEF Passes
  <2> QED BY <2>1, <2>2
<1>2. /\ t.by = s.by /\ t.bumped = s.bumped /\ t.proof = s.proof /\ t.roop = s.roop
      /\ t.phase = s.phase /\ t.dev = s.dev /\ t.csw = s.csw /\ t.pipe = s.pipe
  BY <1>1, IsField DEF Do, Done, Same, Passing
<1>3. w # "none" => By(t, w) BY <1>2 DEF Sound, SoundFor, By
<1>4. ASSUME NEW n \in N PROVE Sound(t, w, n)
  <2>0. n \in Fine(s) BY <1>4 DEF Mute
  <2>1. n.id = "HSTRG" => n.arg # "OK" BY <2>0 DEF Fine
  <2>2. OfHcd(n) => ~Lun(n) BY <2>0 DEF Fine, Out, Lun, OfHcd, IsWork
  <2>3. CASE s.bumped BY <1>2, <1>3, <2>1, <2>2, <2>3 DEF Sound, SoundNow, SoundFor
  <2>4. CASE ~s.bumped
    <3>1. n.id = "HSTRG" \/ (n.id = "HCD" /\ n.what = "seq") BY <2>4 DEF Mute
    <3> QED BY <1>2, <2>1, <3>1 DEF Sound, SoundNow, SoundFor, OfHcd, IsWork
  <2> QED BY <2>3, <2>4
<1> HIDE DEF N
<1>5. Queued(t) \subseteq Queued(s) \cup N BY <1>1 DEF Do, Done
<1>6. Current(t) /\ Owned(t, w) BY <1>2 DEF Right, Current, Owned
<1> QED BY <1>2, <1>4, <1>5, <1>6, NewIsRight

LEMMA BeginsRight ==
  ASSUME NEW s, Typed(s), NEW m \in Messages, m.id = "HMSC", m.what \in Process,
         NEW t, Begins(s, t, m, m.what),
         NEW w, ~s.phase, NoWork(s), Right(s, w), Sound(s, w, m)
  PROVE  Right(t, w)
<1> DEFINE N == Some("HMSC", m.what, m.arg, m.drv)
<1>1. Do(s, t, {"root", "buf", "bumped", "seq", "process"}, N) BY DEF Begins
<1>2. /\ t.by = s.by /\ t.proof = s.proof /\ t.roop = s.roop /\ t.chk = s.chk
      /\ t.phase = s.phase /\ t.dev = s.dev /\ t.csw = s.csw /\ t.pipe = s.pipe
  BY <1>1, IsField DEF Do, Done, Same
<1>3. t.bumped \/ ~Known(t)
  <2>1. CASE m.drv \in s.chk BY <2>1 DEF Begins
  <2>2. CASE m.drv \notin s.chk BY <1>2, <2>2 DEF Begins, Known
  <2> QED BY <2>1, <2>2
<1>4. s.bumped => t.bumped BY DEF Begins
<1>5. w # "none" => By(t, w) BY <1>2 DEF Sound, SoundFor, By
<1>6. ASSUME NEW n \in N PROVE Sound(t, w, n)
  <2>1. n.id = "HMSC" /\ n.what = m.what BY <1>6 DEF Some, Msg
  <2> QED BY <1>2, <1>3, <1>5, <2>1 DEF Sound, SoundNow, SoundFor, OfHcd
<1> HIDE DEF N
<1>7. Queued(t) \subseteq Queued(s) \cup N BY <1>1 DEF Do, Done
<1>8. Current(t) /\ Owned(t, w) BY <1>2, <1>4 DEF Right, Current, Owned
<1> QED BY <1>2, <1>6, <1>7, <1>8, NewIsRight

(* The status wrapper is judged: a success is its own command's.           *)
LEMMA SucceedsRight ==
  ASSUME NEW s, Typed(s), NEW m, m.id = "HMSC", NEW v, EndsOk(s, v),
         NEW w, ~s.phase, Right(s, w), Sound(s, w, m)
  PROVE  /\ Current(v) /\ ~v.phase /\ v.pipe = s.pipe
         /\ Queued(v) \subseteq Queued(s) \cup Reports(s, "OK")
         /\ \A n \in Reports(s, "OK") : n.id = "HSTRG" /\ (n.arg = "OK" /\ w # "none" => v.proof = w)
<1>1. Do(s, v, {"proof", "roop"}, Reports(s, "OK")) BY DEF EndsOk
<1>2. /\ v.by = s.by /\ v.bumped = s.bumped /\ v.dev = s.dev /\ v.csw = s.csw
      /\ v.phase = s.phase /\ v.pipe = s.pipe
  BY <1>1, IsField DEF Do, Done, Same
<1>3. Current(v) /\ ~v.phase BY <1>2 DEF Right, Current
<1>4. ASSUME NEW n \in Reports(s, "OK"), n.arg = "OK", w # "none" PROVE v.proof = w
  <2>1. ~s.roop BY <1>4 DEF Reports, Some, Msg
  <2>2. s.by = w BY <1>4, <2>1 DEF Sound, SoundFor, By
  <2>3. v.proof = s.dev.by BY <2>1 DEF EndsOk
  <2>4. s.dev.by = s.by BY DEF EndsOk, Right, Current
  <2> QED BY <2>2, <2>3, <2>4
<1>5. \A n \in Reports(s, "OK") : n.id = "HSTRG" BY DEF Reports, Some, Msg
<1> QED BY <1>1, <1>2, <1>3, <1>4, <1>5 DEF Do, Done

LEMMA SenseRight ==
  ASSUME NEW s, Typed(s), NEW v, AsksSense(s, v), NEW w, ~s.phase, Right(s, w)
  PROVE  /\ Current(v) /\ ~v.phase /\ v.pipe = s.pipe
         /\ \/ Queued(v) \subseteq Queued(s)
            \/ /\ Queued(v) \subseteq Queued(s) \cup Some("HMSC", "DATA_IN", "none", s.root)
               /\ v.seq["DATA_IN"] = 0 /\ By(v, w)
<1>1. Do(s, v, CommandFields \cup {"roop"}, Some("HMSC", "DATA_IN", "none", s.root))
  BY DEF AsksSense
<1>2. v.phase = s.phase /\ v.pipe = s.pipe
  BY <1>1, IsField DEF Do, Done, Same, CommandFields
<1>3. CASE s.root \notin s.chk
  <2>1. Do(s, v, {"roop"}, {}) BY <1>3 DEF AsksSense
  <2>2. v.by = s.by /\ v.bumped = s.bumped /\ v.dev = s.dev /\ v.csw = s.csw
    BY <2>1, IsField DEF Do, Done, Same
  <2>3. Queued(v) \subseteq Queued(s) BY <2>1 DEF Do, Done
  <2> QED BY <1>2, <2>2, <2>3 DEF Right, Current
<1>4. CASE s.root \in s.chk
  <2>1. Commanded(s, v, "DATA_IN", "sense") /\ v.roop = TRUE BY <1>4 DEF AsksSense
  <2>2. By(v, w) BY <2>1 DEF Commanded, By
  <2>3. v.seq["DATA_IN"] = 0
    <3>1. "DATA_IN" \in DOMAIN s.seq BY TypedFields DEF Counters, Process
    <3> QED BY <2>1, <3>1 DEF Commanded
  <2>4. Current(v)
    <3>1. CASE s.bumped
      <4>1. v.dev.cur = FALSE /\ v.csw.cur = FALSE BY <2>1, <3>1 DEF Commanded
      <4> QED BY <4>1 DEF Current
    <3>2. CASE ~s.bumped
      <4>1. v.dev = s.dev /\ v.csw = s.csw BY <2>1, <3>2 DEF Commanded
      <4> QED BY <3>2, <4>1 DEF Right, Current
    <3> QED BY <3>1, <3>2
  <2> QED BY <1>1, <1>2, <2>2, <2>3, <2>4 DEF Do, Done
<1> QED BY <1>3, <1>4

LEMMA ConcludesRight ==
  ASSUME NEW s, Typed(s), NEW m \in Messages, m.id = "HMSC", NEW v, Concludes(s, v),
         NEW p \in Counted, NEW t, Sets(v, t, "seq", [v.seq EXCEPT ![p] = 0]),
         NEW w, ~s.phase, NoWork(s), Right(s, w), Sound(s, w, m)
  PROVE  Right(t, w)
<1>1. /\ t.by = v.by /\ t.bumped = v.bumped /\ t.proof = v.proof /\ t.roop = v.roop
      /\ t.phase = v.phase /\ t.dev = v.dev /\ t.csw = v.csw /\ t.pipe = v.pipe
      /\ t.process = v.process /\ Queued(t) \subseteq Queued(v)
  BY IsField DEF Sets, Do, Done, Same
<1>2. CASE EndsOk(s, v)
  <2> DEFINE N == Reports(s, "OK")
  <2>1. /\ Current(v) /\ ~v.phase /\ v.pipe = s.pipe /\ Queued(v) \subseteq Queued(s) \cup N
        /\ \A n \in N : n.id = "HSTRG" /\ (n.arg = "OK" /\ w # "none" => v.proof = w)
    BY <1>2, SucceedsRight
  <2> HIDE DEF N
  <2>2. Current(t) /\ Owned(t, w) BY <1>1, <2>1 DEF Current, Owned
  <2>3. \A n \in N : Sound(t, w, n)
    BY <1>1, <2>1 DEF Sound, SoundNow, SoundFor, OfHcd
  <2> QED BY <1>1, <2>1, <2>2, <2>3, NewIsRight
<1>3. CASE AsksSense(s, v)
  <2> DEFINE N == Some("HMSC", "DATA_IN", "none", s.root)
  <2>1. /\ Current(v) /\ ~v.phase /\ v.pipe = s.pipe
        /\ \/ Queued(v) \subseteq Queued(s)
           \/ /\ Queued(v) \subseteq Queued(s) \cup N
              /\ v.seq["DATA_IN"] = 0 /\ By(v, w)
    BY <1>3, SenseRight
  <2>2. Current(t) /\ Owned(t, w) BY <1>1, <2>1 DEF Current, Owned
  <2>3. CASE Queued(v) \subseteq Queued(s)
    <3> DEFINE E == {}
    <3>1. Queued(t) \subseteq Queued(s) \cup E /\ \A n \in E : Sound(t, w, n)
      BY <1>1, <2>3
    <3>2. t.pipe = s.pipe BY <1>1, <2>1
    <3> HIDE DEF E
    <3> QED BY <2>2, <3>1, <3>2, NewIsRight
  <2>4. CASE /\ Queued(v) \subseteq Queued(s) \cup N
             /\ v.seq["DATA_IN"] = 0 /\ By(v, w)
    <3>1. t.seq["DATA_IN"] = 0
      <4>1. t.seq = [v.seq EXCEPT ![p] = 0] BY DEF Sets
      <4>2. Typed(v)
        BY <1>2, <1>3, DoTyped DEF AsksSense
      <4>3. "DATA_IN" \in DOMAIN v.seq BY <4>2, TypedFields DEF Counters, Process
      <4> QED BY <2>4, <4>1, <4>3
    <3>2. By(t, w) BY <1>1, <2>4 DEF By
    <3>3. "DATA_IN" \in Process BY DEF Process
    <3>4. \A n \in N : n.id = "HMSC" /\ n.what = "DATA_IN" BY DEF Some, Msg
    <3> HIDE DEF N
    <3>5. \A n \in N : Sound(t, w, n)
      BY <1>1, <2>1, <3>1, <3>2, <3>3, <3>4 DEF Sound, SoundNow, SoundFor, OfHcd
    <3>6. Queued(t) \subseteq Queued(s) \cup N BY <1>1, <2>4
    <3> QED BY <1>1, <2>1, <2>2, <3>5, <3>6, NewIsRight
  <2> QED BY <2>1, <2>3, <2>4
<1>4. CASE BreaksPhase(s, v)
  <2> DEFINE N == Recovers(s) \cup Reports(s, "PHASE_ERR")
  <2>1. /\ Done(s, v, {"process", "seq", "phase", "roop"}, N)
        /\ v.phase = TRUE /\ v.process = "PHASE_ERR"
    BY <1>4 DEF BreaksPhase
  <2>2. v.pipe = s.pipe /\ Queued(v) \subseteq Queued(s) \cup N
    BY <2>1, IsField DEF Done, Same
  <2>3. Current(t) /\ Owned(t, w) BY <1>1, <2>1 DEF Current, Owned
  <2>4. \A n \in N : \/ n.id = "HMSC" /\ n.what \in Recovering
                     \/ n.id = "HSTRG" /\ n.arg # "OK"
    BY DEF Recovers, Reports, Some, Msg, Recovering
  <2> HIDE DEF N
  <2>5. \A n \in N : Sound(t, w, n)
    BY <1>1, <2>1, <2>4 DEF Sound, SoundAfter, OfHcd
  <2> QED BY <1>1, <2>2, <2>3, <2>5, NewIsRight
<1> QED BY <1>2, <1>3, <1>4 DEF Concludes

LEMMA HmscTaskRight ==
  ASSUME NEW s, Typed(s), NEW m \in Messages, m.id = "HMSC", NEW g,
         ~s.phase => NoWork(s), NEW w, Right(s, w), Sound(s, w, m)
  PROVE  Right(HmscTask(s, m, g), w)
<1> DEFINE t == HmscKeeps(s, m, g)
<1>1. /\ HmscTask(s, m, g) = RelBlk(t, m) /\ HmscTakes(s, t, m) /\ HmscDoes(s, t)
  BY HmscTaskDoes
<1> HIDE DEF t
<1>2. Right(t, w)
  <2>1. CASE s.phase /\ w = "none"
    <3>1. t.phase BY <1>1, <2>1 DEF HmscDoes
    <3> QED BY <2>1, <3>1, NobodyAsks
  <2>2. CASE s.phase /\ w # "none" BY <1>1, <2>2, RecoveryRight
  <2>3. CASE ~s.phase
    BY <1>1, <2>3, PassesRight, BeginsRight, ConcludesRight DEF HmscTakes
  <2> QED BY <2>1, <2>2, <2>3
<1>3. Typed(t) BY <1>1 DEF HmscDoes, Done
<1> QED BY <1>1, <1>2, <1>3, FreesSound

(* The tasks.                                                              *)
LEMMA DriverRight ==
  ASSUME NEW s, Typed(s), NEW g, NEW w, Trusted(s, TRUE, w), Work(s, TRUE)
  PROVE  Right(DriverTasks(s, g), w)
<1>1. Right(s, w) BY DEF Trusted
<1>2. ASSUME s.use.id \in {"HCD", "MGR", "HMSC"}
      PROVE  Holds(s, TRUE) /\ Sound(s, w, s.use) /\ s.use \in Messages
  <2>1. Holds(s, TRUE) BY <1>2 DEF Holds
  <2>2. s.use.id \in Task BY <1>2 DEF Task
  <2> QED BY <2>1, <2>2, UseIs DEF Trusted
<1>3. CASE s.use.id = "HCD"
  <2>1. DriverTasks(s, g) = HcdTask(s, s.use) BY <1>3 DEF DriverTasks, RecMsg
  <2> QED BY <1>1, <1>2, <1>3, <2>1, HcdTaskRight
<1>4. CASE s.use.id = "MGR"
  <2>1. DriverTasks(s, g) = MgrTask(s, s.use) BY <1>4 DEF DriverTasks, RecMsg
  <2> QED BY <1>1, <1>2, <1>4, <2>1, MgrTaskRight
<1>5. CASE s.use.id = "HMSC"
  <2>1. DriverTasks(s, g) = HmscTask(s, s.use, g) BY <1>5 DEF DriverTasks, RecMsg
  <2>2. ~s.phase => NoWork(s) BY <1>2, <1>5 DEF Work, IsWork
  <2> QED BY <1>1, <1>2, <1>5, <2>1, <2>2, HmscTaskRight
<1>6. CASE s.use.id \notin {"HCD", "MGR", "HMSC"}
  <2>1. DriverTasks(s, g) = s BY <1>6 DEF DriverTasks, RecMsg
  <2> QED BY <1>1, <2>1
<1> QED BY <1>3, <1>4, <1>5, <1>6

(* The search of a new device, where nothing else is under way: what it    *)
(* sends begins something.                                                 *)
LEMMA SearchRight ==
  ASSUME NEW s, Typed(s), NEW t, NEW m, StrgTaskDoes(s, t, m), ~s.phase => NoWork(s),
         Right(s, "none")
  PROVE  Right(t, "none")
<1>1. OnlyStarts(s, t) /\ t.pipe = s.pipe BY DEF StrgTaskDoes
<1>2. t.phase = s.phase /\ Current(t) BY <1>1 DEF OnlyStarts, Right
<1>3. CASE s.phase BY <1>2, <1>3, NobodyAsks
<1>4. CASE ~s.phase
  <2>1. Idle(t) BY <1>1, <1>4 DEF NoWork, Idle
  <2>2. Owned(t, "none") BY DEF Owned
  <2>3. ASSUME NEW n \in Queued(t), IsWork(n) PROVE Sound(t, "none", n)
    <3>1. n \notin Queued(s) BY <1>4, <2>3 DEF NoWork, NoMsg
    <3>2. Starts(t, n) BY <1>1, <3>1 DEF OnlyStarts
    <3> QED BY <1>2, <1>4, <3>2 DEF Sound, SoundNow, Starts, OfHcd
  <2> QED BY <1>2, <2>1, <2>2, <2>3, IdleIsRight
<1> QED BY <1>3, <1>4

LEMMA AllRight ==
  ASSUME NEW s, Typed(s), NEW g \in BOOLEAN, Trusted(s, TRUE, "none"), Work(s, TRUE),
         ~Holds(s, TRUE) => s.use.what = "NONE" /\ s.use.blk \notin s.used
  PROVE  Right(Tasks(s, g), "none")
<1> DEFINE t == Tasks(s, g)
<1>1. AllDoes(s, t, s.use) BY TasksDo
<1>2. CASE s.use.id \in {"HSTRG", "HMSCSMP"} /\ Holds(s, TRUE)
  <2>1. StrgTaskDoes(s, t, s.use) BY <1>1, <1>2 DEF AllDoes
  <2>2. ~s.phase => NoWork(s) BY <1>2 DEF Work, IsWork
  <2> QED BY <2>1, <2>2, SearchRight DEF Trusted
<1>3. CASE s.use.id = "HSTRG" /\ ~Holds(s, TRUE)
  <2>1. t = s BY <1>3, StaleDoes
  <2> QED BY <2>1 DEF Trusted
<1>4. s.use.id = "HMSCSMP" => Holds(s, TRUE) BY DEF Holds
<1>5. CASE s.use.id \notin {"HSTRG", "HMSCSMP"}
  <2>1. t = DriverTasks(s, g) BY <1>5 DEF Tasks, RecMsg
  <2> QED BY <2>1, DriverRight
<1> QED BY <1>2, <1>3, <1>4, <1>5

-----------------------------------------------------------------------------
(* No answer is wrong.                                                     *)

(* The steps that run no task: what is judged stays, and what is newly in  *)
(* hand or queued is no work.                                              *)
LEMMA TrustedStays ==
  ASSUME NEW s, NEW t, NEW F, F \subseteq Unjudged, Same(s, t, F), NEW w, NEW j,
         Trusted(s, j, w), NEW k,
         Holds(t, k) => (Holds(s, j) /\ t.use = s.use) \/ ~IsWork(t.use) \/ t.use \in Queued(s),
         \A n \in Queued(t) : n \in Queued(s) \/ ~IsWork(n)
  PROVE  Trusted(t, k, w)
<1>1. /\ JudgedSame(s, t) /\ t.pipe = s.pipe /\ t.dev = s.dev /\ t.csw = s.csw
  BY UnjudgedSame
<1>2. Right(s, w) BY DEF Trusted
<1>3. \A n \in Queued(t) : n \in Queued(s) \/ Sound(t, w, n) BY IdleIsSound
<1>4. Right(t, w) BY <1>1, <1>2, <1>3, RightStays
<1>5. ASSUME Holds(t, k) PROVE Sound(t, w, t.use)
  <2>1. CASE Holds(s, j) /\ t.use = s.use BY <1>1, <2>1, StillSound DEF Trusted
  <2>2. CASE ~IsWork(t.use) BY <2>2, IdleIsSound
  <2>3. CASE t.use \in Queued(s) BY <1>1, <1>2, <2>3, StillSound DEF Right
  <2> QED BY <1>5, <2>1, <2>2, <2>3
<1> QED BY <1>4, <1>5 DEF Trusted

(* The hand is empty, or has an announcement of the line in it.            *)
LEMMA RightIsTrusted ==
  ASSUME NEW s, NEW k, NEW w, Right(s, w), ~Holds(s, k) \/ ~IsWork(s.use)
  PROVE  Trusted(s, k, w)
BY IdleIsSound DEF Trusted

LEMMA ScheduleTrusted ==
  ASSUME NEW s, Typed(s), Acc(s, 0), s.flag => s.use.id = "HSTRG", NEW w, Right(s, w)
  PROVE  Trusted(Scheduler(s), Scheduler(s).flag, w)
<1> DEFINE t == Scheduler(s)
<1>1. Same(s, t, {"use", "q", "flag"}) /\ Msgs(t, t.flag) = Queued(s) BY ScheduleStep
<1> HIDE DEF t
<1>2. {"use", "q", "flag"} \subseteq Unjudged BY DEF Unjudged
<1>3. Trusted(s, FALSE, w) BY NotTaken DEF Trusted
<1>4. Holds(t, t.flag) => t.use \in Queued(s) BY <1>1 DEF Msgs
<1>5. Queued(t) \subseteq Queued(s) BY <1>1 DEF Msgs
<1>6. Trusted(t, t.flag, w) BY <1>1, <1>2, <1>3, <1>4, <1>5, TrustedStays
<1> QED BY <1>6 DEF t

LEMMA CheckTrusted ==
  ASSUME NEW s, Typed(s), NEW k, NEW w, Trusted(s, k, w)
  PROVE  Trusted(CheckSchedule(s), k, w)
<1> DEFINE t == CheckSchedule(s)
<1>1. Same(s, t, {"flag"}) BY CheckIs
<1> HIDE DEF t
<1>2. {"flag"} \subseteq Unjudged BY DEF Unjudged
<1>3. t.q = s.q /\ t.use = s.use BY <1>1, IsField DEF Same
<1>4. Queued(t) = Queued(s) BY <1>3, SameQueues
<1>5. Holds(t, k) = Holds(s, k) BY <1>1, SameView DEF Looked
<1>6. Trusted(t, k, w) BY <1>1, <1>2, <1>3, <1>4, <1>5, TrustedStays
<1> QED BY <1>6 DEF t

LEMMA LineTrusted ==
  ASSUME NEW s, Typed(s), NEW t, NEW N, Do(s, t, LineFields, N), t.used = s.used,
         \A n \in N : n.id = "HCD" /\ n.blk = 0 /\ ~IsWork(n), NEW k, NEW w, Trusted(s, k, w)
  PROVE  Trusted(t, k, w)
<1>1. t.use = s.use /\ Holds(t, k) = Holds(s, k) BY LineStep
<1>2. Same(s, t, LineFields \cup {"used", "q"}) /\ Queued(t) \subseteq Queued(s) \cup N
  BY DEF Do, Done
<1>3. LineFields \cup {"used", "q"} \subseteq Unjudged BY DEF LineFields, Unjudged
<1> QED BY <1>1, <1>2, <1>3, TrustedStays

(* An access begins: the command that it posts is the one that it made.    *)
LEMMA BeginTrusted ==
  ASSUME NEW s, Typed(s), NEW p \in Process, NEW w \in Who, NEW k,
         "zero" \in s.chk, s.ep, Mode(s), s.strg = "NONE", Pool(s, k), ~s.phase,
         Idle(s), \A m \in Msgs(s, k) : ~IsWork(m), Current(s)
  PROVE  Trusted([Command(s, p, "zero", w) EXCEPT !.proof = "none"], k, w)
<1> DEFINE t == [Command(s, p, "zero", w) EXCEPT !.proof = "none"]
           N == Some("HMSC", p, "none", "zero")
<1>1. Do(s, t, CommandFields \cup {"proof"}, N) /\ Commanded(s, t, p, w) BY CommandTyped
<1>2. t.use = s.use /\ t.phase = s.phase /\ (t.use.id = "HSTRG" => ~Holds(t, k))
  BY BeginStep
<1> HIDE DEF t
<1>3. t.pipe = s.pipe BY <1>1, IsField DEF Do, Done, Same, CommandFields
<1>4. Current(t)
  <2>1. CASE s.bumped
    <3>1. t.dev.cur = FALSE /\ t.csw.cur = FALSE BY <1>1, <2>1 DEF Commanded
    <3> QED BY <3>1 DEF Current
  <2>2. CASE ~s.bumped
    <3>1. t.dev = s.dev /\ t.csw = s.csw BY <1>1, <2>2 DEF Commanded
    <3> QED BY <1>2, <2>2, <3>1 DEF Current
  <2> QED BY <2>1, <2>2
<1>5. \A n \in N : Sound(t, w, n)
  <2>1. p \in DOMAIN s.seq BY TypedFields DEF Counters
  <2>2. t.seq[p] = 0 /\ t.by = w BY <1>1, <2>1 DEF Commanded
  <2>3. \A n \in N : n.id = "HMSC" /\ n.what = p BY DEF Some, Msg
  <2> HIDE DEF N
  <2> QED BY <1>2, <2>2, <2>3 DEF Sound, SoundNow, SoundFor, OfHcd, By
<1> HIDE DEF N
<1>6. Queued(t) \subseteq Queued(s) \cup N BY <1>1 DEF Do, Done
<1>7. NoWork(s) BY DEF NoWork, NoMsg, Msgs
<1>8. Owned(t, w) BY <1>2 DEF Owned
<1>9. Right(t, w) BY <1>3, <1>4, <1>5, <1>6, <1>7, <1>8, NewIsRight
<1>10. Holds(t, k) => ~IsWork(t.use)
  <2> SUFFICES ASSUME Holds(t, k) PROVE ~IsWork(t.use) OBVIOUS
  <2>1. t.use.id # "HSTRG" BY <1>2
  <2>2. Holds(s, k) BY <1>2, <2>1 DEF Holds
  <2> QED BY <1>2, <2>2, InTheHand
<1>11. Trusted(t, k, w) BY <1>9, <1>10, RightIsTrusted
<1> QED BY <1>11 DEF t

(* An access takes its answer: a success is its own command's, and where   *)
(* no access is under way nothing is left that could be wrong.             *)
LEMMA AnswerIsTrue ==
  ASSUME NEW s, NEW k, Holds(s, k), s.use.id = "HSTRG", s.use.arg = "OK",
         NEW w, w # "none", Trusted(s, k, w)
  PROVE  s.proof = w
BY DEF Trusted, Sound, SoundFor, SoundAfter

LEMMA AnswerTrusted ==
  ASSUME NEW s, Typed(s), s.use.id = "HSTRG", NEW k, Holds(s, k), Pool(s, k), Work(s, k),
         NEW w, Trusted(s, k, w), NEW j
  PROVE  Trusted(RelBlk([s EXCEPT !.proof = "none"], s.use), j, "none")
<1> DEFINE t == RelBlk([s EXCEPT !.proof = "none"], s.use)
<1>1. Same(s, t, {"proof", "used"}) BY AnswerTyped
<1>2. t.phase = s.phase /\ ~Holds(t, j) /\ (~t.phase => NoWork(t)) BY AnswerStep
<1> HIDE DEF t
<1>3. t.bumped = s.bumped /\ t.by = s.by /\ t.dev = s.dev /\ t.csw = s.csw
  BY <1>1, IsField DEF Same
<1>4. Right(t, "none")
  <2>1. CASE t.phase BY <2>1, NobodyAsks
  <2>2. CASE ~t.phase
    <3>1. Current(t) BY <1>2, <1>3 DEF Trusted, Right, Current
    <3>2. Owned(t, "none") BY DEF Owned
    <3>3. Idle(t) /\ \A n \in Queued(t) : IsWork(n) => Sound(t, "none", n)
      BY <1>2, <2>2 DEF NoWork, NoMsg
    <3> QED BY <3>1, <3>2, <3>3, IdleIsRight
  <2> QED BY <2>1, <2>2
<1>5. Trusted(t, j, "none") BY <1>2, <1>4, RightIsTrusted
<1> QED BY <1>5 DEF t

(* The access that waits for an answer; one that has found its device gone *)
(* turns once more, and what it is told then it does not believe.          *)
Waits(m, i) == IF m = "wait" THEN "main" ELSE IF i = "wait" THEN "irq" ELSE "none"
TrueNow ==
  /\ Trusted(u, TakenAt(u, pc), Waits(acc["main"], acc["irq"]))
  /\ told # "wrong"
TruthInv == spoil = {} => TrueNow

LEMMA TakenIs ==
  ASSUME NEW s, Typed(s)
  PROVE  /\ \A at : at \notin {"run", "detaching"} => TakenAt(s, at) = s.flag
         /\ TakenAt(s, "run") = TRUE /\ TakenAt(s, "detaching") = TRUE
<1>1. s.flag \in BOOLEAN BY TypedFields
<1> QED BY <1>1 DEF TakenAt

(* The main program.                                                       *)
LEMMA EmptyAtPick ==
  ASSUME NEW s, Typed(s), NEW m, NEW d, Safe(s, "sched", m, "none", d)
  PROVE  Acc(s, 0) /\ (s.flag => s.use.id = "HSTRG")
<1>1. TakenAt(s, "sched") = s.flag BY TakenIs
<1>2. Pool(s, s.flag) /\ Turn(s, "sched", m, "none") BY <1>1 DEF Safe
<1>3. ~Holds(s, s.flag) BY <1>1, <1>2 DEF Turn, Holds
<1> QED BY <1>2, <1>3, NotHeld DEF Turn

LEMMA MainScheduleTrue ==
  ASSUME TypeInv, SafeNow, TrueNow, MainSchedule
  PROVE  TrueNow'
<1> DEFINE m == acc["main"]
           w == Waits(m, "none")
           t == Scheduler(u)
<1>1. /\ pc = "sched" /\ acc["irq"] = "none" /\ u' = t
      /\ pc' = (IF m = "none" THEN "check" ELSE "trcv")
      /\ acc' = acc /\ told' = told
  BY DEF MainSchedule, NoIrq
<1>2. Typed(u) /\ Acc(u, 0) /\ (u.flag => u.use.id = "HSTRG")
  BY <1>1, EmptyAtPick DEF TypeInv, SafeNow
<1>3. Right(u, w) BY <1>1 DEF TrueNow, Trusted
<1>4. Typed(t) BY <1>2, SchedulerTyped
<1>5. Trusted(t, t.flag, w) BY <1>2, <1>3, ScheduleTrusted
<1> HIDE DEF t
<1>6. TakenAt(t, pc') = t.flag BY <1>1, <1>4, TakenIs
<1> QED BY <1>1, <1>5, <1>6 DEF TrueNow

LEMMA MainCheckTrue ==
  ASSUME TypeInv, TrueNow, MainCheck
  PROVE  TrueNow'
<1> DEFINE t == CheckSchedule(u)
           w == Waits(acc["main"], acc["irq"])
<1>1. /\ pc = "check" /\ u' = t /\ acc' = acc /\ told' = told
      /\ pc' = (IF u.flag THEN "run" ELSE "sched")
  BY DEF MainCheck, NoIrq, Goto
<1>2. Typed(u) /\ u.flag \in BOOLEAN BY TypedFields DEF TypeInv
<1>3. TakenAt(u, pc) = u.flag BY <1>1, <1>2, TakenIs
<1>4. Trusted(u, u.flag, w) BY <1>3 DEF TrueNow
<1>5. Trusted(t, u.flag, w) BY <1>2, <1>4, CheckTrusted
<1>6. Typed(t) /\ t.flag = FALSE BY <1>2, CheckIs, DoTyped DEF Sets
<1> HIDE DEF t
<1>7. TakenAt(t, pc') = u.flag BY <1>1, <1>2, <1>6, TakenIs
<1> QED BY <1>1, <1>5, <1>7 DEF TrueNow

LEMMA MainRunsTrue ==
  ASSUME TypeInv, SafeNow, TrueNow, MainRuns
  PROVE  TrueNow'
<1> DEFINE m == acc["main"]
           w == Waits(m, "none")
<1>1. /\ pc = "run" /\ pc' = "sched" /\ acc["irq"] = "none" /\ acc' = acc /\ told' = told
  BY DEF MainRuns, NoIrq, Goto
<1>2. PICK g \in BOOLEAN : u' = MainTasks(u, g) BY DEF MainRuns
<1>3. u' = IF m = "none" THEN Tasks(u, g) ELSE DriverTasks(u, g) BY <1>2 DEF MainTasks
<1>4. Typed(u) /\ TakenAt(u, pc) = TRUE BY <1>1, TakenIs DEF TypeInv
<1>5. /\ Trusted(u, TRUE, w) /\ Work(u, TRUE) /\ Turn(u, "run", m, "none")
  BY <1>1, <1>4 DEF TrueNow, SafeNow, Safe
<1>6. ~u.flag BY <1>5 DEF Turn
<1>7. Right(u', w) /\ Typed(u') /\ u'.flag = u.flag
  <2>1. CASE m = "none"
    <3>1. w = "none" BY <2>1 DEF Waits
    <3>2. ~Holds(u, TRUE) => u.use.what = "NONE" /\ u.use.blk \notin u.used
      BY <1>1, <1>4, <1>5, <2>1 DEF Turn, NoneAcc
    <3>3. Right(Tasks(u, g), "none") BY <1>4, <1>5, <3>1, <3>2, AllRight
    <3>4. AllDoes(u, Tasks(u, g), u.use) BY <1>4, TasksDo
    <3>5. Typed(Tasks(u, g)) /\ Tasks(u, g).flag = u.flag BY <1>4, <3>4, AllTyped
    <3> QED BY <1>3, <2>1, <3>1, <3>3, <3>5
  <2>2. CASE m # "none"
    <3>1. Right(DriverTasks(u, g), w) BY <1>4, <1>5, DriverRight
    <3>2. DriverDoes(u, DriverTasks(u, g), u.use) BY <1>4, DriverTasksDo
    <3>3. Typed(DriverTasks(u, g)) /\ DriverTasks(u, g).flag = u.flag
      BY <1>4, <3>2, DriverKeeps DEF KeptByDriver
    <3> QED BY <1>3, <2>2, <3>1, <3>3
  <2> QED BY <2>1, <2>2
<1>8. Trusted(u', TakenAt(u', pc'), w)
  <2>1. TakenAt(u', pc') = u'.flag BY <1>1, <1>7, TakenIs
  <2>2. ~Holds(u', TakenAt(u', pc')) BY <1>6, <1>7, <2>1 DEF Holds
  <2> QED BY <1>7, <2>2, RightIsTrusted
<1> QED BY <1>1, <1>8 DEF TrueNow

LEMMA MainDetachesTrue ==
  ASSUME TypeInv, TrueNow, MainDetaches
  PROVE  TrueNow'
<1> DEFINE w == Waits(acc["main"], acc["irq"])
           t == EndTransfers(u)
<1>1. /\ u' = t /\ acc' = acc /\ told' = told
      /\ u.use.id = "HCD" /\ u.use.what = "dtch"
  BY DEF MainDetaches, Detaches, RecMsg
<1>2. Typed(u) /\ Right(u, w) BY DEF TypeInv, TrueNow, Trusted
<1>3. Typed(t) /\ Right(t, w) BY <1>2, EndTransfersRight
<1>4. t.use = u.use
  <2>1. HcdDoes(u, t) BY <1>2, HcdEndTransfers
  <2> HIDE DEF t
  <2> QED BY <2>1, IsField DEF HcdDoes, Done, Same, HcdFields
<1> HIDE DEF t
<1>5. ~IsWork(t.use) BY <1>1, <1>4 DEF IsWork
<1>6. \A k : Trusted(t, k, w) BY <1>3, <1>5, RightIsTrusted
<1> QED BY <1>1, <1>6 DEF TrueNow

LEMMA MainDetachedTrue ==
  ASSUME TypeInv, SafeNow, TrueNow, MainDetached
  PROVE  TrueNow'
<1> DEFINE w == Waits(acc["main"], acc["irq"])
           t == AttachProcess(u)
<1>1. /\ pc = "detaching" /\ acc["irq"] = "none" /\ acc' = acc /\ told' = told
  BY DEF MainDetached, NoIrq, Goto
<1>2. u.use.id = "HCD" /\ u.use.what = "dtch" BY <1>1 DEF SafeNow, Safe, Turn
<1>3. u' = t BY <1>2 DEF MainDetached, RecMsg, DetachProcess
<1>4. Typed(u) /\ Right(u, w) BY DEF TypeInv, TrueNow, Trusted
<1>5. Right(t, w) BY <1>4, AttachRight
<1>6. Do(u, t, {"ints"}, Notifs) BY <1>4, AttachSends
<1> HIDE DEF t
<1>7. t.use = u.use BY <1>6, IsField DEF Do, Done, Same
<1>8. ~IsWork(t.use) BY <1>2, <1>7 DEF IsWork
<1>9. \A k : Trusted(t, k, w) BY <1>5, <1>8, RightIsTrusted
<1> QED BY <1>1, <1>3, <1>9 DEF TrueNow

LEMMA MainReceivesTrue ==
  ASSUME TypeInv, SafeNow, TrueNow, MainReceives
  PROVE  TrueNow'
<1> DEFINE t == RelBlk([u EXCEPT !.proof = "none"], u.use)
           k == TakenAt(u, pc)
           w == Waits(acc["main"], "none")
<1>1. /\ pc = "trcv" /\ acc["irq"] = "none" /\ u.use.id = "HSTRG" /\ u' = t
      /\ acc' = [acc EXCEPT !["main"] = "none"]
      /\ told' = IF acc["main"] # "wait" \/ u.use.arg # "OK" THEN "failed"
                 ELSE IF u.proof = "main" THEN "passed" ELSE "wrong"
  BY DEF MainReceives, NoIrq, RecMsg, Answer
<1> HIDE DEF t
<1>2. acc'["main"] = "none" /\ acc'["irq"] = "none" BY <1>1, Access
<1>3. /\ Typed(u) /\ Trusted(u, k, w) /\ Pool(u, k) /\ Work(u, k) /\ Holds(u, k)
  BY <1>1 DEF TypeInv, TrueNow, SafeNow, Safe, Turn
<1>4. ASSUME acc["main"] = "wait", u.use.arg = "OK" PROVE u.proof = "main"
  <2>1. w = "main" BY <1>4 DEF Waits
  <2> QED BY <1>1, <1>3, <1>4, <2>1, AnswerIsTrue
<1>5. told' # "wrong" BY <1>1, <1>4
<1>6. \A j : Trusted(t, j, "none") BY <1>1, <1>3, AnswerTrusted DEF t
<1>7. Waits(acc'["main"], acc'["irq"]) = "none" BY <1>2 DEF Waits
<1> QED BY <1>1, <1>5, <1>6, <1>7 DEF TrueNow

LEMMA MainTurnsTrue ==
  ASSUME TypeInv, TrueNow, MainTurns
  PROVE  TrueNow'
<1> DEFINE w == Waits(acc["main"], "none")
           x == Waits(acc'["main"], acc'["irq"])
<1>1. pc = "trcv" /\ acc["irq"] = "none" /\ u' = u BY DEF MainTurns, NoIrq
<1>2. /\ pc' \in {"sched", "check"} /\ told' # "wrong"
      /\ x \in {w, "none"}
  <2>1. CASE GiveUp("main") /\ pc' = "sched"
    <3>1. acc' = [acc EXCEPT !["main"] = "none"] /\ told' = "failed" BY <2>1 DEF GiveUp
    <3>2. acc'["main"] = "none" /\ acc'["irq"] = "none" BY <1>1, <3>1, Access
    <3> QED BY <2>1, <3>1, <3>2 DEF Waits
  <2>2. CASE TurnAgain("main", det) /\ pc' = "check"
    <3> DEFINE v == IF det THEN "leave" ELSE "wait"
    <3>1. acc["main"] = "wait" /\ acc' = [acc EXCEPT !["main"] = v] /\ told' = told
      BY <2>2 DEF TurnAgain
    <3>2. acc'["main"] = v /\ acc'["irq"] = "none" BY <1>1, <3>1, Access
    <3> QED BY <2>2, <3>1, <3>2 DEF Waits, TrueNow
  <2> QED BY <2>1, <2>2 DEF MainTurns
<1>3. Typed(u) BY DEF TypeInv
<1>4. TakenAt(u, pc) = u.flag /\ TakenAt(u, pc') = u.flag BY <1>1, <1>2, <1>3, TakenIs
<1>5. Trusted(u, u.flag, w) BY <1>1, <1>4 DEF TrueNow
<1>6. Trusted(u, u.flag, "none") BY <1>5, NobodyWaits DEF Trusted
<1> QED BY <1>1, <1>2, <1>4, <1>5, <1>6 DEF TrueNow

(* An access begins.                                                       *)
LEMMA AccessTrue ==
  ASSUME TypeInv, SafeNow, TrueNow, acc["main"] = "none", acc["irq"] = "none", Ready(u),
         BegunTooEarly = {}, NEW p \in Process, NEW w \in Who
  PROVE  Trusted([Command(u, p, "zero", w) EXCEPT !.proof = "none"], TakenAt(u, pc), w)
<1> DEFINE k == TakenAt(u, pc)
<1>1. Typed(u) /\ Safe(u, pc, "none", "none", det) BY DEF TypeInv, SafeNow
<1>2. /\ u.strg = "NONE" /\ ~u.phase /\ Idle(u) /\ "zero" \in u.chk /\ u.ep
      /\ \A n \in Msgs(u, k) : ~IsWork(n)
  BY <1>1, BeginsQuiet
<1>3. Pool(u, k) /\ Mode(u) BY <1>1 DEF Safe
<1>4. Current(u) BY DEF TrueNow, Trusted, Right
<1> HIDE DEF k
<1>5. Trusted([Command(u, p, "zero", w) EXCEPT !.proof = "none"], k, w)
  BY <1>1, <1>2, <1>3, <1>4, BeginTrusted
<1> QED BY <1>5 DEF k

LEMMA MainAccessTrue ==
  ASSUME TypeInv, SafeNow, TrueNow, MainAccess, spoil' = {}
  PROVE  TrueNow'
<1> DEFINE t == [Command(u, "DATA_OUT", "zero", "main") EXCEPT !.proof = "none"]
<1>1. /\ pc = "sched" /\ pc' = "check" /\ acc["main"] = "none" /\ acc["irq"] = "none"
      /\ Ready(u) /\ u' = t /\ acc' = [acc EXCEPT !["main"] = "wait"] /\ told' = told
      /\ BegunTooEarly = {}
  BY DEF MainAccess, Begin, Goto
<1>2. "DATA_OUT" \in Process /\ "main" \in Who BY DEF Process, Who
<1>3. Trusted(t, TakenAt(u, pc), "main") BY <1>1, <1>2, AccessTrue
<1>4. Typed(u) /\ Typed(t) /\ t.flag = u.flag
  <2>1. Do(u, t, CommandFields \cup {"proof"}, Some("HMSC", "DATA_OUT", "none", "zero"))
    BY <1>2, CommandTyped DEF TypeInv
  <2> HIDE DEF t
  <2> QED BY <2>1, IsField DEF Do, Done, Same, CommandFields, TypeInv
<1> HIDE DEF t
<1>5. TakenAt(t, pc') = TakenAt(u, pc) BY <1>1, <1>4, TakenIs
<1>6. acc'["main"] = "wait" BY <1>1, Access
<1>7. Waits(acc'["main"], acc'["irq"]) = "main" BY <1>6 DEF Waits
<1> QED BY <1>1, <1>3, <1>5, <1>7 DEF TrueNow

LEMMA IrqAccessTrue ==
  ASSUME TypeInv, SafeNow, TrueNow, IrqAccess, spoil' = {}
  PROVE  TrueNow'
<1>1. PICK p \in {"DATA_IN", "DATA_OUT"} : Begin("irq", p) BY DEF IrqAccess
<1> DEFINE t == [Command(u, p, "zero", "irq") EXCEPT !.proof = "none"]
<1>2. /\ pc \notin {"run", "detaching"} /\ BegunTooEarly = {} /\ acc["main"] = "none"
      /\ pc' = pc
  BY DEF IrqAccess
<1>3. /\ acc["irq"] = "none" /\ Ready(u) /\ u' = t /\ acc' = [acc EXCEPT !["irq"] = "wait"]
      /\ told' = told
  BY <1>1 DEF Begin
<1>4. p \in Process /\ "irq" \in Who BY DEF Process, Who
<1>5. Trusted(t, TakenAt(u, pc), "irq") BY <1>2, <1>3, <1>4, AccessTrue
<1>6. Typed(u) /\ Typed(t) /\ t.flag = u.flag
  <2>1. Do(u, t, CommandFields \cup {"proof"}, Some("HMSC", p, "none", "zero"))
    BY <1>4, CommandTyped DEF TypeInv
  <2> HIDE DEF t
  <2> QED BY <2>1, IsField DEF Do, Done, Same, CommandFields, TypeInv
<1> HIDE DEF t
<1>7. TakenAt(t, pc') = TakenAt(u, pc) BY <1>2, <1>6, TakenIs
<1>8. acc'["main"] = "none" /\ acc'["irq"] = "wait" BY <1>2, <1>3, Access
<1>9. Waits(acc'["main"], acc'["irq"]) = "irq" BY <1>8 DEF Waits
<1> QED BY <1>3, <1>5, <1>7, <1>9 DEF TrueNow

(* One turn of an access from a callback.                                  *)
LEMMA IrqTurnPicks ==
  ASSUME NEW s, Typed(s), NEW at \in {"sched", "check"}, NEW i \in {"wait", "leave"}, NEW d,
         Safe(s, at, "none", i, d), s.flag => Early(s) = {}, NEW g, NEW w,
         Trusted(s, s.flag, w)
  PROVE  LET v == WaitLoop(s, g)
         IN  /\ Typed(v) /\ Pool(v, v.flag) /\ Work(v, v.flag)
             /\ v.use.id = "HSTRG" => Holds(v, v.flag)
             /\ Trusted(v, v.flag, w)
<1> DEFINE a == CheckSchedule(s)
           b == AfterTask(s, g)
           v == WaitLoop(s, g)
<1>1. TurnedTo(s, b, i) /\ v = Scheduler(b) BY IrqTask
<1>2. Right(b, w)
  <2>1. CASE ~s.flag BY <2>1 DEF AfterTask, Trusted
  <2>2. CASE s.flag
    <3>1. s.flag = TRUE /\ TakenAt(s, at) = TRUE BY <2>2, TypedFields DEF TakenAt
    <3>2. Trusted(a, TRUE, w) BY <3>1, CheckTrusted
    <3>3. Typed(a) /\ Same(s, a, {"flag"}) BY CheckIs, DoTyped DEF Sets
    <3>4. Work(s, TRUE) BY <3>1 DEF Safe
    <3> HIDE DEF a
    <3>5. Work(a, TRUE) BY <3>3, <3>4, SameView DEF Looked
    <3>6. Right(DriverTasks(a, g), w) BY <3>2, <3>3, <3>5, DriverRight
    <3> QED BY <2>2, <3>6 DEF AfterTask, a
  <2> QED BY <2>1, <2>2
<1> HIDE DEF b, v
<1>3. Typed(b) /\ Acc(b, 0) /\ b.flag = FALSE BY <1>1 DEF TurnedTo
<1>4. Trusted(v, v.flag, w) BY <1>1, <1>2, <1>3, ScheduleTrusted
<1>5. /\ Typed(v) /\ Pool(v, v.flag) /\ Work(v, v.flag)
      /\ v.use.id = "HSTRG" => Holds(v, v.flag)
  BY <1>1, IrqPicks
<1> QED BY <1>4, <1>5 DEF v

LEMMA IrqTurnTrue ==
  ASSUME TypeInv, SafeNow, TrueNow, IrqTurn, spoil' = {}
  PROVE  TrueNow'
<1> DEFINE i == acc["irq"]
           w == Waits("none", i)
           e == ~u.ep
<1>1. i \in {"wait", "leave"} /\ i # "none" BY Access DEF IrqTurn
<1>2. acc["main"] = "none" BY <1>1 DEF SafeNow, Safe, Turn
<1>3. pc \in {"sched", "check"}
  BY <1>1, <1>2 DEF SafeNow, Safe, Turn, TypeInv, Place
<1>4. PICK g \in BOOLEAN :
        LET v == WaitLoop(u, g)
        IN  /\ IF RecMsg(v, "HSTRG") THEN Answer("irq", v)
               ELSE u' = v /\ (GiveUp("irq") \/ TurnAgain("irq", ~u.ep))
            /\ spoil' = spoil \cup Bounce(u) \cup LosesPicked("irq", v)
                              \cup (IF u.flag THEN Early(u) ELSE {})
  BY DEF IrqTurn
<1> DEFINE v == WaitLoop(u, g)
<1>5. IF v.use.id = "HSTRG" THEN Answer("irq", v)
      ELSE u' = v /\ (GiveUp("irq") \/ TurnAgain("irq", e))
  BY <1>4 DEF RecMsg
<1>6. u.flag => Early(u) = {} BY <1>4
<1>7. pc' = pc BY DEF IrqTurn
<1>8. Typed(u) /\ Safe(u, pc, "none", i, det) BY <1>2 DEF TypeInv, SafeNow
<1>9. Trusted(u, u.flag, w)
  <2>1. TakenAt(u, pc) = u.flag BY <1>3, <1>8, TakenIs
  <2> QED BY <1>2, <2>1 DEF TrueNow
<1>10. told # "wrong" BY DEF TrueNow
<1> HIDE DEF i, w
<1>11. /\ Typed(v) /\ Pool(v, v.flag) /\ Work(v, v.flag)
       /\ v.use.id = "HSTRG" => Holds(v, v.flag)
       /\ Trusted(v, v.flag, w)
  BY <1>1, <1>3, <1>6, <1>8, <1>9, IrqTurnPicks
<1> HIDE DEF v
<1>12. CASE v.use.id = "HSTRG"
  <2> DEFINE t == RelBlk([v EXCEPT !.proof = "none"], v.use)
  <2>1. /\ u' = t /\ acc' = [acc EXCEPT !["irq"] = "none"]
        /\ told' = IF acc["irq"] # "wait" \/ v.use.arg # "OK" THEN "failed"
                   ELSE IF v.proof = "irq" THEN "passed" ELSE "wrong"
    BY <1>5, <1>12 DEF Answer
  <2>2. acc'["main"] = "none" /\ acc'["irq"] = "none" BY <1>2, <2>1, Access
  <2>3. ASSUME acc["irq"] = "wait", v.use.arg = "OK" PROVE v.proof = "irq"
    <3>1. w = "irq" BY <2>3 DEF Waits, w, i
    <3> QED BY <1>11, <1>12, <2>3, <3>1, AnswerIsTrue
  <2>4. told' # "wrong" BY <2>1, <2>3
  <2>5. \A j : Trusted(t, j, "none") BY <1>11, <1>12, AnswerTrusted
  <2> HIDE DEF t
  <2>6. Waits(acc'["main"], acc'["irq"]) = "none" BY <2>2 DEF Waits
  <2> QED BY <2>1, <2>4, <2>5, <2>6 DEF TrueNow
<1>13. CASE v.use.id # "HSTRG"
  <2> DEFINE x == Waits(acc'["main"], acc'["irq"])
  <2>1. u' = v /\ (GiveUp("irq") \/ TurnAgain("irq", e)) BY <1>5, <1>13
  <2>2. told' # "wrong" /\ x \in {w, "none"}
    <3>1. CASE GiveUp("irq")
      <4>1. acc' = [acc EXCEPT !["irq"] = "none"] /\ told' = "failed" BY <3>1 DEF GiveUp
      <4>2. acc'["main"] = "none" /\ acc'["irq"] = "none" BY <1>2, <4>1, Access
      <4> QED BY <4>1, <4>2 DEF Waits
    <3>2. CASE TurnAgain("irq", e)
      <4> DEFINE y == IF e THEN "leave" ELSE "wait"
      <4>1. acc["irq"] = "wait" /\ acc' = [acc EXCEPT !["irq"] = y] /\ told' = told
        BY <3>2 DEF TurnAgain
      <4>2. y \in {"leave", "wait"} OBVIOUS
      <4> HIDE DEF y
      <4>3. acc'["main"] = "none" /\ acc'["irq"] = y BY <1>2, <4>1, Access
      <4>4. w = "irq" BY <4>1 DEF Waits, w, i
      <4> QED BY <1>10, <4>1, <4>2, <4>3, <4>4 DEF Waits
    <3> QED BY <2>1, <3>1, <3>2
  <2> HIDE DEF x
  <2>3. TakenAt(v, pc') = v.flag BY <1>3, <1>7, <1>11, TakenIs
  <2>4. Trusted(v, v.flag, "none") BY <1>11, NobodyWaits DEF Trusted
  <2> QED BY <1>11, <2>1, <2>2, <2>3, <2>4 DEF TrueNow, x
<1> QED BY <1>12, <1>13

(* The device and the line.                                                *)
LEMMA LineTrue ==
  ASSUME TypeInv, TrueNow, pc' = pc, acc' = acc, told' = told,
         NEW N, Do(u, u', LineFields, N), u'.used = u.used,
         \A n \in N : n.id = "HCD" /\ n.blk = 0 /\ ~IsWork(n)
  PROVE  TrueNow'
<1> DEFINE k == TakenAt(u, pc)
           w == Waits(acc["main"], acc["irq"])
<1>1. Typed(u) /\ Trusted(u, k, w) BY DEF TypeInv, TrueNow
<1>2. u'.flag = u.flag BY <1>1, LineStep
<1>3. TakenAt(u', pc') = k BY <1>2 DEF TakenAt
<1> HIDE DEF k, w
<1>4. Trusted(u', k, w) BY <1>1, LineTrusted
<1> QED BY <1>3, <1>4 DEF TrueNow, w

LEMMA EndsTrue ==
  ASSUME TypeInv, TrueNow, NEW p \in Pipe, NEW status \in Word, Ends(p, status)
  PROVE  TrueNow'
<1> DEFINE n == Msg("HCD", 0, "end", status, p)
           N == {n}
<1>1. Do(u, u', {"ended"}, N) /\ u'.used = u.used BY EndsSend DEF TypeInv
<1>2. \A x \in N : x.id = "HCD" /\ x.blk = 0 /\ ~IsWork(x) BY EndMessage DEF Msg
<1> HIDE DEF N
<1>3. Do(u, u', LineFields, N) BY <1>1, DoMore DEF LineFields
<1>4. pc' = pc /\ acc' = acc /\ told' = told BY DEF Ends
<1> QED BY <1>1, <1>2, <1>3, <1>4, LineTrue

LEMMA PlugTrue ==
  ASSUME TypeInv, TrueNow, PlugOrPull
  PROVE  TrueNow'
<1> DEFINE x == ~u.plug
           N == {}
<1>1. u' = [u EXCEPT !.plug = x] BY DEF PlugOrPull
<1>2. x \in Kinds.plug BY KindOf, TypedFields
<1>3. u'.used = u.used BY <1>1
<1>4. \A n \in N : n.id = "HCD" /\ n.blk = 0 /\ ~IsWork(n) OBVIOUS
<1> HIDE DEF x
<1>5. Do(u, u', {"plug"}, N) BY <1>1, <1>2, IsPlain, Set1 DEF Sets, TypeInv
<1> HIDE DEF N
<1>6. Do(u, u', LineFields, N) BY <1>5, DoMore DEF LineFields
<1>7. pc' = pc /\ acc' = acc /\ told' = told BY DEF PlugOrPull
<1> QED BY <1>3, <1>4, <1>6, <1>7, LineTrue

LEMMA LineChangesTrue ==
  ASSUME TypeInv, TrueNow, LineChanges
  PROVE  TrueNow'
<1> DEFINE n == Msg("HCD", 0, u.ints, "none", "none")
           N == {n}
<1>1. u.ints \in {"attch", "dtch"} /\ Do(u, u', {"ints"}, N) /\ u'.used = u.used
  BY LineSends DEF TypeInv
<1>2. \A x \in N : x.id = "HCD" /\ x.blk = 0 /\ ~IsWork(x)
  BY <1>1, LineMessage DEF Msg
<1> HIDE DEF N
<1>3. Do(u, u', LineFields, N) BY <1>1, DoMore DEF LineFields
<1>4. pc' = pc /\ acc' = acc /\ told' = told BY DEF LineChanges
<1> QED BY <1>1, <1>2, <1>3, <1>4, LineTrue

(* At the start nothing has been sent to a device or answered.             *)
LEMMA InitTrue == Init => TruthInv
<1> SUFFICES ASSUME Init PROVE TrueNow BY DEF TruthInv
<1>1. /\ Typed(u)
      /\ \A f \in ScheFields : u[f] = ScheInit[f]
      /\ \A f \in HostFields : u[f] = HostInit[f]
      /\ \A f \in ClassFields : u[f] = HmscInit[f]
  BY InitTyped
<1>2. u.q = [p \in Priority |-> <<>>] /\ u.flag = FALSE
  BY <1>1 DEF ScheFields, ScheInit
<1>3. \A p \in Pipe : u.pipe[p] = "idle" BY <1>1 DEF HostFields, HostInit
<1>4. u.phase = FALSE /\ u.dev.cur = FALSE /\ u.csw.cur = FALSE
  <2>1. u.phase = HmscInit.phase /\ u.dev = HmscInit.dev /\ u.csw = HmscInit.csw
    BY <1>1 DEF ClassFields
  <2>2. /\ HmscInit.phase = FALSE
        /\ HmscInit.dev = [cur |-> FALSE, by |-> "none"]
        /\ HmscInit.csw = [cur |-> FALSE, st |-> "NG"]
    BY DEF HmscInit
  <2> QED BY <2>1, <2>2
<1>5. pc = "sched" /\ told = "failed" BY DEF Init
<1>6. Queued(u) = {} BY <1>2 DEF Queued
<1>7. Current(u) BY <1>4 DEF Current
<1>8. \A w : Owned(u, w) BY <1>4 DEF Owned
<1>9. \A w : Right(u, w) BY <1>3, <1>6, <1>7, <1>8, IdleIsRight DEF Idle
<1>10. ~Holds(u, TakenAt(u, pc)) BY <1>2, <1>5 DEF TakenAt, Holds
<1>11. \A w : Trusted(u, TakenAt(u, pc), w) BY <1>9, <1>10, RightIsTrusted
<1> QED BY <1>5, <1>11 DEF TrueNow

LEMMA NextKeepsTruth ==
  TypeInv /\ SafeInv /\ TruthInv /\ [Next]_vars => TruthInv'
<1> SUFFICES ASSUME TypeInv, SafeInv, TruthInv, [Next]_vars PROVE TruthInv' OBVIOUS
<1>1. CASE Next
  <2>1. SUFFICES ASSUME spoil' = {} PROVE TrueNow' BY DEF TruthInv
  <2>2. spoil = {} BY <1>1, <2>1, SpoilGrows
  <2>3. SafeNow /\ TrueNow BY <2>2 DEF SafeInv, SafeNow, TruthInv
  <2>4. CASE Main
    BY <2>3, <2>4, MainScheduleTrue, MainCheckTrue, MainRunsTrue, MainDetachesTrue,
       MainDetachedTrue, MainReceivesTrue, MainTurnsTrue DEF Main
  <2>5. CASE MainAccess BY <2>1, <2>3, <2>5, MainAccessTrue
  <2>6. CASE IrqAccess BY <2>1, <2>3, <2>6, IrqAccessTrue
  <2>7. CASE IrqTurn BY <2>1, <2>3, <2>7, IrqTurnTrue
  <2>8. CASE \E p \in Pipe : DeviceAnswers(p) \/ TransferFails(p)
    <3>1. PICK p \in Pipe : DeviceAnswers(p) \/ TransferFails(p) BY <2>8
    <3>2. PICK status \in Word : Ends(p, status)
      BY <3>1, OutcomeWord, Words DEF DeviceAnswers, TransferFails
    <3> QED BY <2>3, <3>2, EndsTrue
  <2>9. CASE PlugOrPull BY <2>3, <2>9, PlugTrue
  <2>10. CASE LineChanges BY <2>3, <2>10, LineChangesTrue
  <2> QED BY <1>1, <2>4, <2>5, <2>6, <2>7, <2>8, <2>9, <2>10 DEF Next
<1>2. CASE UNCHANGED vars BY <1>2 DEF vars, TruthInv, TrueNow
<1> QED BY <1>1, <1>2

(* Where nothing of Spoil has happened, a disk access is told of a success *)
(* only when its own command's status wrapper said "passed": the message   *)
(* that disk_read and disk_write take for their answer is neither left     *)
(* over from the search or an earlier access, nor the result of the        *)
(* inquiry that follows a failed command, nor one that a phase error or an *)
(* ended transfer has sent.                                                *)
THEOREM AnswersAreTrue == Spec => []Truthful
<1>1. Init => TypeInv /\ SafeInv /\ TruthInv BY InitType, InitSafe, InitTrue
<1>2. (TypeInv /\ SafeInv /\ TruthInv) /\ [Next]_vars => (TypeInv /\ SafeInv /\ TruthInv)'
  BY NextKeepsType, NextKeepsSafe, NextKeepsTruth
<1>3. TypeInv /\ SafeInv /\ TruthInv => Truthful BY DEF TruthInv, TrueNow, Truthful
<1> QED BY <1>1, <1>2, <1>3, PTL DEF Spec
=============================================================================
