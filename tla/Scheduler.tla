----------------------------- MODULE Scheduler -----------------------------
(***************************************************************************)
(* The event scheduler of the Gateway plugin (Build/Plugins/Gateway.lua):  *)
(* ScheduleEvent files an event under the timestamp at which it is due,    *)
(* UpdateScheduledEvents advances the timer once per loop iteration and    *)
(* runs ExecuteScheduledEvents until nothing is due any more.              *)
(*                                                                         *)
(* The Lua table ScheduledEvents maps a timestamp to an array of events (a *)
(* bucket).  It is modelled as a set of entries: a bucket is the entries   *)
(* of one timestamp, the order of its array is the order of their ids, and *)
(* the cursor is the position of the ipairs traversal.                     *)
(***************************************************************************)
EXTENDS Integers, FiniteSets

CONSTANTS
    Events,       \* the event tables that can be scheduled
    MsPerSecond   \* timer units per unit of delay (1000 in the code)

ASSUME SchedulerAssumption == MsPerSecond \in Nat \ {0}

NoBucket == -1    \* no bucket is being executed

VARIABLES
    timer,    \* ScheduledEventTimer
    table,    \* ScheduledEvents
    nextId,   \* id of the next entry: the number of ScheduleEvent calls, plus one
    phase,    \* where UpdateScheduledEvents is
    bucket,   \* timestamp of the bucket ExecuteScheduledEvents is running
    cursor    \* id of the last entry of that bucket whose callbacks were called

schedulerVars == <<timer, table, nextId, phase, bucket, cursor>>

Entry == [id : Nat \ {0}, at : Nat, event : Events]
Phases == {"idle", "scan", "bucket", "callback"}

SchedulerTypeOK ==
    /\ timer \in Nat
    /\ table \subseteq Entry
    /\ nextId \in Nat \ {0}
    /\ phase \in Phases
    /\ bucket \in Nat \cup {NoBucket}
    /\ cursor \in Nat

SchedulerInit ==
    /\ timer = 0
    /\ table = {}
    /\ nextId = 1
    /\ phase = "idle"
    /\ bucket = NoBucket
    /\ cursor = 0

-----------------------------------------------------------------------------

(* Mutant: the traversal only knows the entry it is at.                    *)
RemainingButCurrent == {e \in table : e.at = bucket /\ e.id # cursor}

(* The timestamps that have been reached, and the entries of the running   *)
(* bucket that the traversal has not reached yet.                          *)
Due       == {e.at : e \in {d \in table : d.at <= timer}}
Remaining == {e \in table : e.at = bucket /\ e.id > cursor}

(* A callback, or the program outside UpdateScheduledEvents, schedules an  *)
(* event "delay" seconds from now.                                         *)
ScheduleEvent(event, delay) ==
    /\ table' = table \cup {[id |-> nextId, at |-> timer + delay * MsPerSecond,
                             event |-> event]}
    /\ nextId' = nextId + 1
    /\ UNCHANGED <<timer, phase, bucket, cursor>>

(* Mutant: the timer is set to the time of one iteration.                  *)
UpdateRestartsTimer(delta_ms) ==
    /\ phase = "idle"
    /\ timer' = delta_ms
    /\ phase' = "scan"
    /\ UNCHANGED <<table, nextId, bucket, cursor>>

UpdateScheduledEvents(delta_ms) ==
    /\ phase = "idle"
    /\ timer' = timer + delta_ms
    /\ phase' = "scan"
    /\ UNCHANGED <<table, nextId, bucket, cursor>>

(* Mutant: a bucket need not be due.                                       *)
PickAnyBucket ==
    /\ phase = "scan"
    /\ bucket' \in {e.at : e \in table}
    /\ cursor' = 0
    /\ phase' = "bucket"
    /\ UNCHANGED <<timer, table, nextId>>

(* pairs() visits the buckets in no particular order: any due one is next. *)
PickBucket ==
    /\ phase = "scan"
    /\ bucket' \in Due
    /\ cursor' = 0
    /\ phase' = "bucket"
    /\ UNCHANGED <<timer, table, nextId>>

(* ipairs() reaches the next entry, also one appended to the bucket since. *)
RunEntry ==
    /\ phase = "bucket"
    /\ \E e \in Remaining :
         /\ \A d \in Remaining : e.id <= d.id
         /\ cursor' = e.id
    /\ phase' = "callback"
    /\ UNCHANGED <<timer, table, nextId, bucket>>

EntryReturns ==
    /\ phase = "callback"
    /\ phase' = "bucket"
    /\ UNCHANGED <<timer, table, nextId, bucket, cursor>>

(* Mutant: the bucket is dropped while it is being executed.               *)
DropUnfinishedBucket ==
    /\ phase = "bucket"
    /\ table' = {e \in table : e.at # bucket}
    /\ bucket' = NoBucket
    /\ cursor' = 0
    /\ phase' = "scan"
    /\ UNCHANGED <<timer, nextId>>

(* Mutant: the bucket stays in the table.                                  *)
KeepBucket ==
    /\ phase = "bucket"
    /\ Remaining = {}
    /\ bucket' = NoBucket
    /\ cursor' = 0
    /\ phase' = "scan"
    /\ UNCHANGED <<timer, table, nextId>>

(* The traversal is over: the bucket is dropped and the scan starts again. *)
DropBucket ==
    /\ phase = "bucket"
    /\ Remaining = {}
    /\ table' = {e \in table : e.at # bucket}
    /\ bucket' = NoBucket
    /\ cursor' = 0
    /\ phase' = "scan"
    /\ UNCHANGED <<timer, nextId>>

(* Mutant: the scan is not repeated after a bucket.                        *)
ScanEnds ==
    /\ phase = "scan"
    /\ phase' = "idle"
    /\ UNCHANGED <<timer, table, nextId, bucket, cursor>>

NothingDue ==
    /\ phase = "scan"
    /\ Due = {}
    /\ phase' = "idle"
    /\ UNCHANGED <<timer, table, nextId, bucket, cursor>>
=============================================================================
