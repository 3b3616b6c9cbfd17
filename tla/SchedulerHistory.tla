-------------------------- MODULE SchedulerHistory --------------------------
(***************************************************************************)
(* The scheduler driven by an arbitrary program: handlers schedule events  *)
(* with any delay between two updates, callbacks schedule more of them     *)
(* while they run, and loop iterations advance the timer by any amount.    *)
(* A log of what ran states what the scheduler promises.                   *)
(***************************************************************************)
EXTENDS Scheduler, Sequences

CONSTANTS
    Delays,        \* delays (in seconds) a program asks for
    Deltas,        \* milliseconds between two loop iterations
    MaxScheduled,  \* bound: calls of ScheduleEvent
    MaxTimer       \* bound: the timer stays up to it, timestamps below it

ASSUME HistoryAssumption ==
    /\ Delays \subseteq Nat
    /\ Deltas \subseteq Nat
    /\ MaxScheduled \in Nat
    /\ MaxTimer \in Nat

VARIABLES
    base,   \* the timer before the current (or last) update
    log     \* one record per entry that ran, in the order they ran

historyVars == <<base, log>>
vars == <<schedulerVars, historyVars>>

Run == [id : Nat \ {0}, at : Nat, timer : Nat, base : Nat]

TypeOK ==
    /\ SchedulerTypeOK
    /\ base \in Nat
    /\ log \in Seq(Run)

Init ==
    /\ SchedulerInit
    /\ base = 0
    /\ log = <<>>

(* Handlers and callbacks schedule; the bounds cap calls and timestamps.   *)
Schedule ==
    /\ phase \in {"idle", "callback"}
    /\ nextId <= MaxScheduled
    /\ \E event \in Events, delay \in Delays :
         /\ timer + delay * MsPerSecond < MaxTimer
         /\ ScheduleEvent(event, delay)
    /\ UNCHANGED historyVars

Update ==
    /\ \E delta \in Deltas :
         /\ timer + delta <= MaxTimer
         /\ UpdateScheduledEvents(delta)
    /\ base' = timer
    /\ UNCHANGED log

Pick == PickBucket /\ UNCHANGED historyVars

RunNext ==
    /\ RunEntry
    /\ log' = Append(log, [id |-> cursor', at |-> bucket, timer |-> timer, base |-> base])
    /\ UNCHANGED base

Return == EntryReturns /\ UNCHANGED historyVars
Drop   == DropBucket /\ UNCHANGED historyVars
Finish == NothingDue /\ UNCHANGED historyVars

Executing == Pick \/ RunNext \/ Return \/ Drop \/ Finish

Next == Schedule \/ Update \/ Executing

Spec == Init /\ [][Next]_vars

(* A Lua function that was called runs on, and time passes: an iteration   *)
(* that measured 0 ms does not repeat for ever (Loop.Sync waits for the    *)
(* next interval once it has caught up).  Nobody has to schedule anything. *)
FairSpec ==
    /\ Spec
    /\ WF_vars(Executing)
    /\ SF_vars(Update /\ timer' # timer)

-----------------------------------------------------------------------------

LoggedIds  == {log[i].id : i \in DOMAIN log}
PendingIds == {e.id : e \in table}

(* Every scheduled event is either still filed or has run: none is lost    *)
(* when its bucket is dropped (Gateway.lua:239-244), even when it was      *)
(* added to the bucket while that bucket was being executed.               *)
NoEventLost == 1 .. nextId - 1 = LoggedIds \cup PendingIds

(* No event runs twice: an entry that ran and is still filed belongs to    *)
(* the bucket in execution and lies behind the traversal.                  *)
RunsOnce ==
    /\ \A i, j \in DOMAIN log : log[i].id = log[j].id => i = j
    /\ \A e \in table : e.id \in LoggedIds => e.at = bucket /\ e.id <= cursor

(* An event never runs before its timestamp, and it runs in the first      *)
(* update whose timer reaches it: it was not yet due in the one before.    *)
RunsInTheFirstUpdate ==
    \A i \in DOMAIN log : log[i].base <= log[i].at /\ log[i].at <= log[i].timer

(* Nothing overdue survives an update (Gateway.lua:230-232).               *)
NothingOverdue == \A e \in table : e.at >= (IF phase = "idle" THEN timer ELSE base)

(* Events filed under one timestamp run in the order they were scheduled.  *)
BucketIsFifo ==
    \A i, j \in DOMAIN log :
        log[i].at = log[j].at /\ i < j => log[i].id < log[j].id

(* While an update runs, no event becomes due: without a zero delay the    *)
(* loop "while ExecuteScheduledEvents()" ends, whatever callbacks do.      *)
DueNeverGrows ==
    [][phase # "idle" => {e \in table' : e.at <= timer'} \subseteq
                         {e \in table  : e.at <= timer}]_vars

(* Every scheduled event runs eventually.                                  *)
EveryEventRuns == \A id \in 1 .. MaxScheduled : (id \in PendingIds) ~> (id \in LoggedIds)
=============================================================================
