-------------------------- MODULE Scheduler_proofs --------------------------
(* Facts about the operations of Scheduler, for the modules that use it.   *)
EXTENDS Scheduler, TLAPS

(* A delay of some seconds is some milliseconds, none only if it is zero.  *)
LEMMA DelayInMilliseconds ==
    ASSUME NEW delay \in Nat
    PROVE  /\ delay * MsPerSecond \in Nat
           /\ delay # 0 => delay * MsPerSecond > 0
  BY SchedulerAssumption

(* Scheduling an event with any delay keeps the types.                     *)
LEMMA ScheduleEventType ==
    ASSUME SchedulerTypeOK, NEW event \in Events, NEW delay \in Nat,
           ScheduleEvent(event, delay)
    PROVE  SchedulerTypeOK'
  <1> DEFINE at == timer + delay * MsPerSecond
  <1>1. at \in Nat
    BY DelayInMilliseconds DEF SchedulerTypeOK
  <1> HIDE DEF at
  <1>2. /\ table' = table \cup {[id |-> nextId, at |-> at, event |-> event]}
        /\ nextId' = nextId + 1
        /\ UNCHANGED <<timer, phase, bucket, cursor>>
    BY DEF ScheduleEvent, at
  <1>3. [id |-> nextId, at |-> at, event |-> event] \in Entry
    BY <1>1 DEF Entry, SchedulerTypeOK
  <1>4. QED
    BY <1>2, <1>3 DEF SchedulerTypeOK

(* So does an update, whose time is a number of milliseconds.              *)
LEMMA UpdateType ==
    ASSUME SchedulerTypeOK, NEW delta_ms \in Nat, UpdateScheduledEvents(delta_ms)
    PROVE  SchedulerTypeOK'
  BY DEF SchedulerTypeOK, UpdateScheduledEvents, Phases

(* And so does what happens within it.                                     *)
LEMMA ExecutingType ==
    ASSUME SchedulerTypeOK,
           PickBucket \/ RunEntry \/ EntryReturns \/ DropBucket \/ NothingDue
    PROVE  SchedulerTypeOK'
  <1>1. CASE PickBucket
    BY <1>1 DEF PickBucket, Due, SchedulerTypeOK, Phases, Entry
  <1>2. CASE RunEntry
    <2>1. PICK e \in Remaining : cursor' = e.id
      BY <1>2 DEF RunEntry
    <2>2. cursor' \in Nat
      BY <2>1 DEF Remaining, SchedulerTypeOK, Entry
    <2>3. QED
      BY <1>2, <2>2 DEF RunEntry, SchedulerTypeOK, Phases
  <1>3. CASE EntryReturns
    BY <1>3 DEF EntryReturns, SchedulerTypeOK, Phases
  <1>4. CASE DropBucket
    BY <1>4 DEF DropBucket, SchedulerTypeOK, Phases
  <1>5. CASE NothingDue
    BY <1>5 DEF NothingDue, SchedulerTypeOK, Phases
  <1>6. QED
    BY <1>1, <1>2, <1>3, <1>4, <1>5
=============================================================================
