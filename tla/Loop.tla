-------------------------------- MODULE Loop --------------------------------
(***************************************************************************)
(* The loop extension (lua-executor/Extensions/Loop): loop_sync sleeps     *)
(* until the next multiple of the interval and returns the milliseconds    *)
(* since its last return.  The clock counts ticks, of which TicksPerMs     *)
(* make a millisecond; it advances at any moment, also while loop_sync     *)
(* runs.  A sleep may last longer than asked, and by MaxEarly ticks less.  *)
(***************************************************************************)
EXTENDS Integers

CONSTANTS
    TicksPerMs,   \* resolution of AL::OS::Timer and AL::TimeSpan
    Interval,     \* interval_ms
    MaxEarly,     \* ticks by which AL::Sleep may end early: its resolution
    MaxClock,     \* bound: ticks of a behaviour
    MaxStep       \* bound: ticks the clock advances at once

ASSUME LoopAssumption ==
    /\ TicksPerMs \in Nat \ {0}
    /\ Interval \in Nat
    /\ MaxEarly \in Nat
    /\ MaxClock \in Nat
    /\ MaxStep \in Nat

VARIABLES
    pc,           \* "new", "work" between two calls, or where loop_sync is
    clock,        \* timer.GetElapsed()
    last_update,
    next_update,
    started,      \* history: last_update after loop_init
    first,        \* history: next_update after loop_init
    calls,        \* history: how often loop_sync has returned
    total         \* history: the sum of what it returned

vars == <<pc, clock, last_update, next_update, started, first, calls, total>>

TypeOK ==
    /\ pc \in {"new", "work", "sleep", "awake"}
    /\ {clock, last_update, next_update, started, first, calls, total} \subseteq Nat

Ms(ms)            == ms * TicksPerMs
ToMilliseconds(t) == t \div TicksPerMs

Init ==
    /\ pc = "new"
    /\ clock = 0
    /\ last_update = 0
    /\ next_update = 0
    /\ started = 0
    /\ first = 0
    /\ calls = 0
    /\ total = 0

(* next_update starts from last_update cut to whole milliseconds.          *)
loop_init ==
    /\ pc = "new"
    /\ pc' = "work"
    /\ last_update' = clock
    /\ next_update' = Ms(ToMilliseconds(clock) + Interval)
    /\ started' = last_update'
    /\ first' = next_update'
    /\ UNCHANGED <<clock, calls, total>>

SyncCalled ==
    /\ pc = "work"
    /\ pc' = IF clock < next_update THEN "sleep" ELSE "awake"
    /\ UNCHANGED <<clock, last_update, next_update, started, first, calls, total>>

SleepEnds ==
    /\ pc = "sleep"
    /\ clock + MaxEarly >= next_update
    /\ pc' = "awake"
    /\ UNCHANGED <<clock, last_update, next_update, started, first, calls, total>>

(* Mutant: the interval is returned, not the time that passed.             *)
SyncReturnsInterval ==
    /\ pc = "awake"
    /\ pc' = "work"
    /\ last_update' = clock
    /\ next_update' = next_update + Ms(Interval)
    /\ calls' = calls + 1
    /\ total' = total + Interval
    /\ UNCHANGED <<clock, started, first>>

(* The time is read again.  The next call is due one interval later, no    *)
(* matter how late this one is.                                            *)
SyncReturns ==
    /\ pc = "awake"
    /\ pc' = "work"
    /\ last_update' = clock
    /\ next_update' = next_update + Ms(Interval)
    /\ calls' = calls + 1
    /\ total' = total + ToMilliseconds(clock - last_update)
    /\ UNCHANGED <<clock, started, first>>

TimePasses ==
    /\ \E step \in 1 .. MaxStep :
         /\ clock + step <= MaxClock
         /\ clock' = clock + step
    /\ UNCHANGED <<pc, last_update, next_update, started, first, calls, total>>

Next ==
    \/ loop_init
    \/ SyncCalled
    \/ SleepEnds
    \/ SyncReturns
    \/ TimePasses

Spec == Init /\ [][Next]_vars

-----------------------------------------------------------------------------

(* The milliseconds loop_sync returns never add up to more than the time   *)
(* that passed, and to less by under one millisecond per call: that is how *)
(* far the timer of the scheduler, which adds them up, falls behind.       *)
DeltasKeepTime ==
    /\ Ms(total) <= last_update - started
    /\ last_update - started <= Ms(total) + calls * (TicksPerMs - 1)

(* The calls do not drift: however late one returned, the next is due at a *)
(* fixed multiple of the interval after the first.                         *)
NoDrift == next_update = first + Ms(calls * Interval)

(* A call returns early by no more than the sleep does, and that does not  *)
(* add up: within any time there are at most as many calls as intervals    *)
(* fit, and one more.  A stalled loop catches up to this and never         *)
(* overtakes it (Loop/main.cpp:39-47).                                     *)
NeverAhead ==
    calls * Ms(Interval) <= last_update - started + (TicksPerMs - 1) + MaxEarly
=============================================================================
