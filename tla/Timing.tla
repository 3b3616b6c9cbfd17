------------------------------- MODULE Timing -------------------------------
(***************************************************************************)
(* The loop extension and the event scheduler together, as the Gateway's   *)
(* main loop runs them (RunLoop and OnUpdate, Build/Plugins/Gateway.lua):  *)
(* the milliseconds loop_sync returns drive the timer of the scheduler, at *)
(* once for the first update.  Callbacks take their time, and schedule     *)
(* further events by the timer of the last update.                         *)
(***************************************************************************)
EXTENDS Loop, Scheduler, Sequences

CONSTANTS
    Delays,       \* what ScheduleEvent is called with
    MaxEntries    \* bound: calls of ScheduleEvent

ASSUME TimingAssumption == Delays \subseteq Nat /\ MaxEntries \in Nat

VARIABLES
    delta,     \* loop_delta, the argument of OnUpdate
    updated,   \* this iteration has called UpdateScheduledEvents
    before,    \* history: the time of the update before the last one
    asked      \* history: for each entry its delay, and the update it counts from

timingVars == <<delta, updated, before, asked>>
loopVars   == <<pc, clock, last_update, next_update, started, first, calls, total>>
allVars    == <<loopVars, schedulerVars, timingVars>>

TimingTypeOK ==
    /\ TypeOK
    /\ SchedulerTypeOK
    /\ {delta, before} \subseteq Nat
    /\ updated \in BOOLEAN
    /\ asked \in Seq([delay : Nat, since : Nat, calls : Nat])

TimingInit ==
    /\ Init
    /\ SchedulerInit
    /\ delta = 0
    /\ updated = FALSE
    /\ before = 0
    /\ asked = <<>>

-----------------------------------------------------------------------------

(* Events scheduled before the loop runs wait from its start.              *)
Start ==
    /\ loop_init
    /\ before' = last_update'
    /\ asked' = [i \in DOMAIN asked |-> [asked[i] EXCEPT !.since = last_update']]
    /\ UNCHANGED <<schedulerVars, delta, updated>>

(* The callbacks of an event, or the program before the loop; the callbacks*)
(* of a packet too, which come before the update of their iteration.       *)
Schedule(event, delay) ==
    /\ pc \in {"new", "work"}
    /\ phase \in {"idle", "callback"}
    /\ nextId <= MaxEntries
    /\ ScheduleEvent(event, delay)
    /\ asked' = Append(asked,
                       [delay |-> delay,
                        since |-> IF updated THEN last_update ELSE before,
                        calls |-> IF updated \/ calls = 0 THEN calls ELSE calls - 1])
    /\ UNCHANGED <<loopVars, delta, updated, before>>

Update ==
    /\ pc = "work"
    /\ ~updated
    /\ UpdateScheduledEvents(delta)
    /\ updated' = TRUE
    /\ UNCHANGED <<loopVars, delta, before, asked>>

Execute ==
    /\ PickBucket \/ RunEntry \/ EntryReturns \/ DropBucket \/ NothingDue
    /\ UNCHANGED <<loopVars, timingVars>>

Sync ==
    /\ updated
    /\ phase = "idle"
    /\ SyncCalled
    /\ UNCHANGED <<schedulerVars, timingVars>>

Synced ==
    /\ SyncReturns
    /\ delta' = total' - total
    /\ updated' = FALSE
    /\ before' = last_update
    /\ UNCHANGED <<schedulerVars, asked>>

Time ==
    /\ SleepEnds \/ TimePasses
    /\ UNCHANGED <<schedulerVars, timingVars>>

TimingNext ==
    \/ \E event \in Events, delay \in Delays : Schedule(event, delay)
    \/ Start \/ Update \/ Execute \/ Sync \/ Synced \/ Time

TimingSpec == TimingInit /\ [][TimingNext]_allVars

-----------------------------------------------------------------------------

(* A delay is one of real time, counted from the last update of the timer  *)
(* before the event was scheduled: for a packet's callback that is the one *)
(* of the iteration before.  The event never runs before that time is over,*)
(* and at the update before the one that runs it no more had passed than it*)
(* and the fractions of a millisecond the updates since then have cut off  *)
(* (Gateway.lua:148, 165, 201, 228; Loop/main.cpp:44-49).                  *)
EventsInRealTime ==
    phase = "callback" =>
        LET wait == Ms(asked[cursor].delay * MsPerSecond)
            cut  == (calls - 1 - asked[cursor].calls) * (TicksPerMs - 1)
        IN  /\ last_update - asked[cursor].since >= wait
            /\ calls > asked[cursor].calls => before - asked[cursor].since <= wait + cut
=============================================================================
