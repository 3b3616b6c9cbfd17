---------------------- MODULE SchedulerHistory_proofs ----------------------
(* Proofs about SchedulerHistory: for every set of events, of delays and   *)
(* of iteration lengths, and for every bound.                              *)
EXTENDS SchedulerHistory, Scheduler_proofs

(* What appending one record does to a log and to the ids in it.           *)
LEMMA LogGrows ==
    ASSUME NEW s \in Seq(Run), NEW r \in Run, NEW t, t = Append(s, r)
    PROVE  /\ t \in Seq(Run)
           /\ DOMAIN t = DOMAIN s \cup {Len(s) + 1}
           /\ DOMAIN s = 1 .. Len(s)
           /\ Len(s) \in Nat
           /\ t[Len(s) + 1] = r
           /\ \A i \in DOMAIN s : t[i] = s[i] /\ s[i] \in Run
           /\ {t[i].id : i \in DOMAIN t} = {s[i].id : i \in DOMAIN s} \cup {r.id}
  <1>1. /\ t \in Seq(Run)
        /\ DOMAIN t = DOMAIN s \cup {Len(s) + 1}
        /\ DOMAIN s = 1 .. Len(s)
        /\ Len(s) \in Nat
        /\ t[Len(s) + 1] = r
        /\ \A i \in DOMAIN s : t[i] = s[i] /\ s[i] \in Run
    OBVIOUS
  <1>2. ASSUME NEW id PROVE id \in {t[i].id : i \in DOMAIN t} <=>
                            id \in {s[i].id : i \in DOMAIN s} \cup {r.id}
    BY <1>1
  <1>3. QED
    BY <1>1, <1>2

LEMMA LogType ==
    ASSUME NEW s \in Seq(Run), NEW i \in DOMAIN s
    PROVE  /\ s[i] \in Run
           /\ s[i].id \in Nat \ {0} /\ s[i].at \in Nat
           /\ s[i].timer \in Nat /\ s[i].base \in Nat
  <1>1. s[i] \in Run
    OBVIOUS
  <1>2. QED
    BY <1>1 DEF Run

-----------------------------------------------------------------------------
(* The inductive invariant.                                                *)

(* Where the traversal is: only a bucket that is due is ever executed.     *)
Traversal ==
    /\ base <= timer
    /\ cursor < nextId
    /\ phase \in {"idle", "scan"} => bucket = NoBucket /\ cursor = 0
    /\ phase \in {"bucket", "callback"} => bucket \in Nat /\ base <= bucket /\ bucket <= timer

(* Ids tell the entries apart, and none of them is yet to be given.        *)
Ids ==
    /\ \A d, e \in table : d.id = e.id => d = e
    /\ \A e \in table : e.id < nextId
    /\ \A i \in DOMAIN log : log[i].id < nextId

(* What has run of the table is what lies behind the cursor.               *)
Behind == \A e \in table : e.id \in LoggedIds <=> (e.at = bucket /\ e.id <= cursor)

(* What has not run was scheduled after whatever ran of its bucket.        *)
Younger ==
    \A e \in table : \A i \in DOMAIN log :
        e.id \notin LoggedIds /\ log[i].at = e.at => log[i].id < e.id

HistoryInv ==
    /\ TypeOK
    /\ Traversal
    /\ Ids
    /\ Behind
    /\ Younger
    /\ \A i, j \in DOMAIN log : log[i].id = log[j].id => i = j
    /\ NoEventLost
    /\ RunsInTheFirstUpdate
    /\ NothingOverdue
    /\ BucketIsFifo

LEMMA InitHistoryInv == Init => HistoryInv
  <1> SUFFICES ASSUME Init PROVE HistoryInv
    OBVIOUS
  <1> USE DEF Init, SchedulerInit
  <1>1. log = <<>> /\ DOMAIN log = {} /\ table = {} /\ nextId = 1
    OBVIOUS
  <1>2. LoggedIds = {} /\ PendingIds = {}
    BY <1>1 DEF LoggedIds, PendingIds
  <1>3. TypeOK
    BY DEF TypeOK, SchedulerTypeOK, Phases
  <1>4. NoEventLost
    BY <1>1, <1>2 DEF NoEventLost
  <1>5. QED
    BY <1>1, <1>2, <1>3, <1>4 DEF HistoryInv, Traversal, Ids, Behind, Younger,
       RunsInTheFirstUpdate, NothingOverdue, BucketIsFifo

(* An event is scheduled, outside an update or by a callback.              *)
LEMMA ScheduleKeepsInv == HistoryInv /\ Schedule => HistoryInv'
  <1> SUFFICES ASSUME HistoryInv, Schedule PROVE HistoryInv'
    OBVIOUS
  <1> USE DEF HistoryInv
  <1>1. PICK event \in Events, delay \in Delays : ScheduleEvent(event, delay)
    BY DEF Schedule
  <1> DEFINE new == [id |-> nextId, at |-> timer + delay * MsPerSecond, event |-> event]
  <1>2. /\ table' = table \cup {new}
        /\ nextId' = nextId + 1
        /\ UNCHANGED <<timer, phase, bucket, cursor, base, log>>
        /\ phase \in {"idle", "callback"}
    BY <1>1 DEF ScheduleEvent, Schedule, historyVars
  <1>3. delay \in Nat /\ delay * MsPerSecond \in Nat
    BY HistoryAssumption, DelayInMilliseconds
  <1>4. timer \in Nat /\ nextId \in Nat \ {0} /\ cursor \in Nat /\ base \in Nat
    BY DEF TypeOK, SchedulerTypeOK
  <1>5. new \in Entry /\ new.id = nextId /\ new.at >= timer
    BY <1>3, <1>4 DEF Entry
  <1> HIDE DEF new
  <1>6. LoggedIds' = LoggedIds /\ nextId \notin LoggedIds
    BY <1>2, <1>4 DEF LoggedIds, Ids, TypeOK, Run
  <1>7. TypeOK'
    BY <1>2, <1>4, <1>5 DEF TypeOK, SchedulerTypeOK
  <1>8. Traversal'
    BY <1>2, <1>4 DEF Traversal
  <1>9. Ids'
    <2>1. \A e \in table : e.id \in Nat /\ e.id < nextId
      BY DEF Ids, TypeOK, SchedulerTypeOK, Entry
    <2>2. \A i \in DOMAIN log : log[i].id \in Nat /\ log[i].id < nextId
      BY LogType DEF Ids, TypeOK, Run
    <2>3. (\A d, e \in table : d.id = e.id => d = e)'
      BY <1>2, <1>4, <1>5, <2>1 DEF Ids
    <2>4. QED
      BY <1>2, <1>4, <1>5, <2>1, <2>2, <2>3 DEF Ids
  <1>10. Behind'
    <2>1. new.id > cursor
      BY <1>4, <1>5 DEF Traversal
    <2>2. QED
      BY <1>2, <1>4, <1>5, <1>6, <2>1 DEF Behind
  <1>11. Younger'
    <2>1. \A i \in DOMAIN log : log[i].id < new.id
      BY <1>5 DEF Ids
    <2>2. QED
      BY <1>2, <1>6, <2>1 DEF Younger
  <1>12. NoEventLost'
    <2>1. PendingIds' = PendingIds \cup {nextId}
      BY <1>2, <1>5 DEF PendingIds
    <2>2. 1 .. nextId' - 1 = (1 .. nextId - 1) \cup {nextId}
      BY <1>2, <1>4
    <2>3. QED
      BY <1>6, <2>1, <2>2 DEF NoEventLost
  <1>13. NothingOverdue'
    <2>1. new.at \in Nat
      BY <1>5 DEF Entry
    <2>2. QED
      BY <1>2, <1>4, <1>5, <2>1 DEF NothingOverdue, Traversal
  <1>14. QED
    BY <1>2, <1>7, <1>8, <1>9, <1>10, <1>11, <1>12, <1>13 DEF RunsInTheFirstUpdate, BucketIsFifo

(* The timer advances.                                                     *)
LEMMA UpdateKeepsInv == HistoryInv /\ Update => HistoryInv'
  <1> SUFFICES ASSUME HistoryInv, Update PROVE HistoryInv'
    OBVIOUS
  <1> USE DEF HistoryInv
  <1>1. PICK delta \in Deltas : UpdateScheduledEvents(delta)
    BY DEF Update
  <1>2. /\ delta \in Nat
        /\ timer' = timer + delta
        /\ base' = timer
        /\ phase = "idle" /\ phase' = "scan"
        /\ UNCHANGED <<table, nextId, bucket, cursor, log>>
    BY <1>1, HistoryAssumption DEF UpdateScheduledEvents, Update
  <1>3. timer \in Nat /\ base \in Nat
    BY DEF TypeOK, SchedulerTypeOK
  <1>4. TypeOK'
    BY <1>2, <1>3 DEF TypeOK, SchedulerTypeOK, Phases
  <1>5. Traversal'
    BY <1>2, <1>3 DEF Traversal
  <1>6. Ids' /\ Behind' /\ Younger' /\ NoEventLost' /\ RunsInTheFirstUpdate' /\ BucketIsFifo'
    BY <1>2 DEF Ids, Behind, Younger, NoEventLost, RunsInTheFirstUpdate, BucketIsFifo,
       LoggedIds, PendingIds
  <1>7. NothingOverdue'
    BY <1>2 DEF NothingOverdue
  <1>8. QED
    BY <1>2, <1>4, <1>5, <1>6, <1>7

(* A bucket that is due is picked.                                         *)
LEMMA PickKeepsInv == HistoryInv /\ Pick => HistoryInv'
  <1> SUFFICES ASSUME HistoryInv, Pick PROVE HistoryInv'
    OBVIOUS
  <1> USE DEF HistoryInv
  <1>1. /\ bucket' \in Due
        /\ cursor' = 0 /\ cursor = 0 /\ bucket = NoBucket
        /\ phase = "scan" /\ phase' = "bucket"
        /\ UNCHANGED <<timer, table, nextId, base, log>>
    BY DEF Pick, PickBucket, historyVars, Traversal
  <1>2. PICK e \in table : e.at <= timer /\ bucket' = e.at
    BY <1>1 DEF Due
  <1>3. /\ bucket' \in Nat /\ base <= bucket' /\ bucket' <= timer
        /\ 0 < nextId
    BY <1>1, <1>2 DEF NothingOverdue, TypeOK, SchedulerTypeOK, Entry
  <1>4. TypeOK'
    BY <1>1, <1>3 DEF TypeOK, SchedulerTypeOK, Phases
  <1>5. Traversal'
    BY <1>1, <1>3 DEF Traversal
  <1>6. Behind'
    <2>1. \A d \in table : d.id \in Nat \ {0} /\ d.at \in Nat
      BY DEF TypeOK, SchedulerTypeOK, Entry
    <2>2. \A d \in table : d.id \notin LoggedIds
      BY <1>1, <2>1 DEF Behind, NoBucket
    <2>3. LoggedIds' = LoggedIds
      BY <1>1 DEF LoggedIds
    <2>4. QED
      BY <1>1, <2>1, <2>2, <2>3 DEF Behind
  <1>7. /\ Ids' /\ Younger' /\ NoEventLost' /\ RunsInTheFirstUpdate' /\ BucketIsFifo'
        /\ NothingOverdue'
    BY <1>1 DEF Ids, Younger, NoEventLost, RunsInTheFirstUpdate, BucketIsFifo,
       LoggedIds, PendingIds, NothingOverdue
  <1>8. QED
    BY <1>1, <1>4, <1>5, <1>6, <1>7

(* The traversal reaches the next entry of the bucket: it joins the log.   *)
LEMMA RunNextKeepsInv == HistoryInv /\ RunNext => HistoryInv'
  <1> SUFFICES ASSUME HistoryInv, RunNext PROVE HistoryInv'
    OBVIOUS
  <1> USE DEF HistoryInv
  <1>1. PICK e \in Remaining : (\A d \in Remaining : e.id <= d.id) /\ cursor' = e.id
    BY DEF RunNext, RunEntry
  <1> DEFINE run == [id |-> cursor', at |-> bucket, timer |-> timer, base |-> base]
  <1>2. /\ log' = Append(log, run)
        /\ phase = "bucket" /\ phase' = "callback"
        /\ UNCHANGED <<timer, table, nextId, bucket, base>>
    BY DEF RunNext, RunEntry
  <1>3. /\ timer \in Nat /\ base \in Nat /\ cursor \in Nat /\ nextId \in Nat \ {0}
        /\ bucket \in Nat /\ base <= bucket /\ bucket <= timer
        /\ log \in Seq(Run)
    BY <1>2 DEF TypeOK, SchedulerTypeOK, Traversal
  <1>4. \A d \in table : d.id \in Nat \ {0} /\ d.at \in Nat /\ d.id < nextId
    BY DEF TypeOK, SchedulerTypeOK, Entry, Ids
  <1>5. e \in table /\ e.at = bucket /\ e.id > cursor
    BY DEF Remaining
  <1>6. /\ run \in Run
        /\ run.id = e.id /\ run.at = bucket /\ run.timer = timer /\ run.base = base
    BY <1>1, <1>3, <1>4, <1>5 DEF Run
  <1> HIDE DEF run
  <1>7. /\ log' \in Seq(Run)
        /\ DOMAIN log' = DOMAIN log \cup {Len(log) + 1}
        /\ DOMAIN log = 1 .. Len(log)
        /\ Len(log) \in Nat
        /\ log'[Len(log) + 1] = run
        /\ \A i \in DOMAIN log : log'[i] = log[i] /\ log[i] \in Run
        /\ LoggedIds' = LoggedIds \cup {run.id}
    BY <1>2, <1>3, <1>6, LogGrows DEF LoggedIds
  <1>8. e.id \notin LoggedIds /\ \A i \in DOMAIN log : log[i].id # e.id
    BY <1>3, <1>4, <1>5 DEF Behind, LoggedIds
  <1>9. TypeOK'
    BY <1>1, <1>2, <1>4, <1>5, <1>7 DEF TypeOK, SchedulerTypeOK, Phases
  <1>10. Traversal'
    BY <1>1, <1>2, <1>3, <1>4, <1>5 DEF Traversal
  <1>11. Ids'
    BY <1>2, <1>4, <1>5, <1>6, <1>7 DEF Ids
  <1>12. Behind'
    <2> SUFFICES ASSUME NEW d \in table
                 PROVE  d.id \in LoggedIds \cup {e.id} <=> (d.at = bucket /\ d.id <= e.id)
      BY <1>1, <1>2, <1>6, <1>7 DEF Behind
    <2>1. CASE d.id = e.id
      BY <1>4, <1>5, <2>1 DEF Ids
    <2>2. CASE d.id # e.id /\ d \in Remaining
      BY <1>1, <1>3, <1>4, <1>5, <2>2 DEF Behind, Remaining
    <2>3. CASE d.id # e.id /\ d \notin Remaining
      BY <1>3, <1>4, <1>5, <2>3 DEF Behind, Remaining
    <2>4. QED
      BY <2>1, <2>2, <2>3
  <1>13. Younger'
    <2> SUFFICES ASSUME NEW d \in table, NEW i \in DOMAIN log',
                        d.id \notin LoggedIds', log'[i].at = d.at
                 PROVE  log'[i].id < d.id
      BY <1>2 DEF Younger
    <2>1. CASE i \in DOMAIN log
      BY <1>7, <2>1 DEF Younger
    <2>2. CASE i = Len(log) + 1
      <3>1. d.at = bucket /\ d.id # e.id
        BY <1>6, <1>7, <2>2
      <3>2. d \in Remaining
        BY <1>3, <1>4, <1>7, <3>1 DEF Behind, Remaining
      <3>3. QED
        BY <1>1, <1>4, <1>5, <1>6, <1>7, <2>2, <3>1, <3>2
    <2>3. QED
      BY <1>7, <2>1, <2>2
  <1>14. (\A i, j \in DOMAIN log : log[i].id = log[j].id => i = j)'
    BY <1>6, <1>7, <1>8
  <1>15. NoEventLost'
    <2>1. PendingIds' = PendingIds /\ e.id \in PendingIds
      BY <1>2, <1>5 DEF PendingIds
    <2>2. QED
      BY <1>2, <1>6, <1>7, <2>1 DEF NoEventLost
  <1>16. RunsInTheFirstUpdate'
    BY <1>3, <1>6, <1>7 DEF RunsInTheFirstUpdate
  <1>17. NothingOverdue'
    BY <1>2 DEF NothingOverdue
  <1>18. BucketIsFifo'
    <2> SUFFICES ASSUME NEW i \in DOMAIN log', NEW j \in DOMAIN log',
                        log'[i].at = log'[j].at, i < j
                 PROVE  log'[i].id < log'[j].id
      BY DEF BucketIsFifo
    <2>1. i \in DOMAIN log
      BY <1>7
    <2>2. CASE j \in DOMAIN log
      BY <1>7, <2>1, <2>2 DEF BucketIsFifo
    <2>3. CASE j = Len(log) + 1
      BY <1>5, <1>6, <1>7, <1>8, <2>1, <2>3 DEF Younger
    <2>4. QED
      BY <1>7, <2>2, <2>3
  <1>19. QED
    BY <1>9, <1>10, <1>11, <1>12, <1>13, <1>14, <1>15, <1>16, <1>17, <1>18

(* The bucket has been executed and is dropped: all of it has run.         *)
LEMMA DropKeepsInv == HistoryInv /\ Drop => HistoryInv'
  <1> SUFFICES ASSUME HistoryInv, Drop PROVE HistoryInv'
    OBVIOUS
  <1> USE DEF HistoryInv
  <1>1. /\ phase = "bucket" /\ phase' = "scan"
        /\ Remaining = {}
        /\ table' = {e \in table : e.at # bucket}
        /\ bucket' = NoBucket /\ cursor' = 0
        /\ UNCHANGED <<timer, nextId, base, log>>
    BY DEF Drop, DropBucket, historyVars
  <1>2. table' \subseteq table /\ LoggedIds' = LoggedIds
    BY <1>1 DEF LoggedIds
  <1>3. \A e \in table : e.id \in Nat \ {0} /\ e.at \in Nat
    BY DEF TypeOK, SchedulerTypeOK, Entry
  <1>4. TypeOK'
    BY <1>1, <1>2 DEF TypeOK, SchedulerTypeOK, Phases
  <1>5. Traversal'
    BY <1>1 DEF Traversal, TypeOK, SchedulerTypeOK
  <1>6. Ids'
    BY <1>1, <1>2 DEF Ids
  <1>7. Behind'
    BY <1>1, <1>2, <1>3 DEF Behind, NoBucket
  <1>8. Younger'
    BY <1>1, <1>2 DEF Younger
  <1>9. NoEventLost'
    <2>1. \A e \in table \ table' : e.id \in LoggedIds
      BY <1>1, <1>3 DEF Behind, Remaining, TypeOK, SchedulerTypeOK
    <2>2. LoggedIds \cup PendingIds' = LoggedIds \cup PendingIds
      BY <1>2, <2>1 DEF PendingIds
    <2>3. QED
      BY <1>1, <1>2, <2>2 DEF NoEventLost
  <1>10. RunsInTheFirstUpdate' /\ BucketIsFifo'
    BY <1>1 DEF RunsInTheFirstUpdate, BucketIsFifo
  <1>11. NothingOverdue'
    BY <1>1, <1>2 DEF NothingOverdue
  <1>12. QED
    BY <1>1, <1>4, <1>5, <1>6, <1>7, <1>8, <1>9, <1>10, <1>11

(* The rest only moves between the phases of an update.                    *)
LEMMA ReturnKeepsInv == HistoryInv /\ Return => HistoryInv'
  <1> SUFFICES ASSUME HistoryInv, Return PROVE HistoryInv'
    OBVIOUS
  <1>1. /\ phase = "callback" /\ phase' = "bucket"
        /\ UNCHANGED <<timer, table, nextId, bucket, cursor, base, log>>
    BY DEF Return, EntryReturns, historyVars
  <1>2. QED
    BY <1>1 DEF HistoryInv, TypeOK, SchedulerTypeOK, Phases, Traversal, Ids, Behind, Younger,
       NoEventLost, RunsInTheFirstUpdate, NothingOverdue, BucketIsFifo, LoggedIds, PendingIds

(* When nothing is due all that is filed lies ahead of the timer.          *)
LEMMA FinishKeepsInv == HistoryInv /\ Finish => HistoryInv'
  <1> SUFFICES ASSUME HistoryInv, Finish PROVE HistoryInv'
    OBVIOUS
  <1>1. /\ phase = "scan" /\ phase' = "idle"
        /\ Due = {}
        /\ UNCHANGED <<timer, table, nextId, bucket, cursor, base, log>>
    BY DEF Finish, NothingDue, historyVars
  <1>2. \A e \in table : e.at >= timer
    BY <1>1 DEF Due, HistoryInv, TypeOK, SchedulerTypeOK, Entry
  <1>3. NothingOverdue'
    BY <1>1, <1>2 DEF NothingOverdue
  <1>4. QED
    BY <1>1, <1>3 DEF HistoryInv, TypeOK, SchedulerTypeOK, Phases, Traversal, Ids, Behind,
       Younger, NoEventLost, RunsInTheFirstUpdate, BucketIsFifo, LoggedIds, PendingIds

LEMMA NextHistoryInv == HistoryInv /\ [Next]_vars => HistoryInv'
  <1> SUFFICES ASSUME HistoryInv, [Next]_vars PROVE HistoryInv'
    OBVIOUS
  <1>1. CASE Schedule
    BY <1>1, ScheduleKeepsInv
  <1>2. CASE Update
    BY <1>2, UpdateKeepsInv
  <1>3. CASE Pick
    BY <1>3, PickKeepsInv
  <1>4. CASE RunNext
    BY <1>4, RunNextKeepsInv
  <1>5. CASE Return
    BY <1>5, ReturnKeepsInv
  <1>6. CASE Drop
    BY <1>6, DropKeepsInv
  <1>7. CASE Finish
    BY <1>7, FinishKeepsInv
  <1>8. CASE UNCHANGED vars
    BY <1>8 DEF vars, schedulerVars, historyVars, HistoryInv, TypeOK, SchedulerTypeOK,
       Traversal, Ids, Behind, Younger, NoEventLost, RunsInTheFirstUpdate, NothingOverdue,
       BucketIsFifo, LoggedIds, PendingIds
  <1>9. QED
    BY <1>1, <1>2, <1>3, <1>4, <1>5, <1>6, <1>7, <1>8 DEF Next, Executing

THEOREM HistoryInvHolds == Spec => []HistoryInv
  BY InitHistoryInv, NextHistoryInv, PTL DEF Spec

-----------------------------------------------------------------------------

(* Timer, table and traversal always have their types.                     *)
THEOREM TypeCorrect == Spec => []TypeOK
  BY HistoryInvHolds, PTL DEF HistoryInv

(* No scheduled event is ever lost, however many are scheduled, whenever.  *)
THEOREM NoEventLostThm == Spec => []NoEventLost
  BY HistoryInvHolds, PTL DEF HistoryInv

(* No event runs twice.                                                    *)
THEOREM RunsOnceThm == Spec => []RunsOnce
  <1>1. HistoryInv => RunsOnce
    BY DEF HistoryInv, Behind, RunsOnce
  <1>2. QED
    BY <1>1, HistoryInvHolds, PTL

(* An event runs in the first update whose timer reaches its timestamp.    *)
THEOREM RunsInTheFirstUpdateThm == Spec => []RunsInTheFirstUpdate
  BY HistoryInvHolds, PTL DEF HistoryInv

(* An update leaves nothing overdue behind.                                *)
THEOREM NothingOverdueThm == Spec => []NothingOverdue
  BY HistoryInvHolds, PTL DEF HistoryInv

(* The events of a bucket run in the order they were scheduled.            *)
THEOREM BucketIsFifoThm == Spec => []BucketIsFifo
  BY HistoryInvHolds, PTL DEF HistoryInv

(* Without a zero delay nothing becomes due while an update runs.          *)
THEOREM DueNeverGrowsThm ==
    ASSUME 0 \notin Delays
    PROVE  Spec => DueNeverGrows
  <1>1. ASSUME HistoryInv, [Next]_vars, phase # "idle"
        PROVE  {e \in table' : e.at <= timer'} \subseteq {e \in table : e.at <= timer}
    <2>1. CASE Schedule
      <3>1. PICK event \in Events, delay \in Delays : ScheduleEvent(event, delay)
        BY <2>1 DEF Schedule
      <3> DEFINE at == timer + delay * MsPerSecond
      <3>2. delay \in Nat /\ delay # 0 /\ timer \in Nat
        BY <1>1, HistoryAssumption DEF HistoryInv, TypeOK, SchedulerTypeOK
      <3>3. at > timer /\ at \in Nat
        BY <3>2, DelayInMilliseconds
      <3> HIDE DEF at
      <3>4. timer' = timer /\ table' = table \cup {[id |-> nextId, at |-> at, event |-> event]}
        BY <3>1 DEF ScheduleEvent, at
      <3>5. QED
        BY <3>2, <3>3, <3>4
    <2>2. CASE Update
      BY <1>1, <2>2 DEF Update, UpdateScheduledEvents
    <2>3. CASE Executing
      BY <2>3 DEF Executing, Pick, RunNext, Return, Drop, Finish,
         PickBucket, RunEntry, EntryReturns, DropBucket, NothingDue
    <2>4. CASE UNCHANGED vars
      BY <2>4 DEF vars, schedulerVars
    <2>5. QED
      BY <1>1, <2>1, <2>2, <2>3, <2>4 DEF Next
  <1>2. HistoryInv /\ [Next]_vars =>
            [phase # "idle" => {e \in table' : e.at <= timer'} \subseteq
                               {e \in table : e.at <= timer}]_vars
    BY <1>1
  <1>3. QED
    BY <1>2, HistoryInvHolds, PTL DEF Spec, DueNeverGrows
=============================================================================
