--------------------------- MODULE Timing_proofs ---------------------------
(* Proofs about Loop, and about Timing, which composes it with the         *)
(* scheduler: for all delays, resolutions, intervals and bounds.           *)
EXTENDS Timing, Scheduler_proofs, TLAPS

-----------------------------------------------------------------------------
(* The loop on its own.                                                    *)

(* Cutting a time to whole milliseconds loses less than one millisecond.   *)
LEMMA MillisecondsCut ==
    ASSUME NEW t \in Nat
    PROVE  /\ ToMilliseconds(t) \in Nat
           /\ Ms(ToMilliseconds(t)) <= t
           /\ t <= Ms(ToMilliseconds(t)) + TicksPerMs - 1
  BY LoopAssumption DEF ToMilliseconds, Ms

(* Milliseconds convert to ticks one summand at a time.                    *)
LEMMA MsAdds ==
    ASSUME NEW a \in Nat, NEW b \in Nat
    PROVE  /\ Ms(a) \in Nat
           /\ Ms(a + b) = Ms(a) + Ms(b)
  BY LoopAssumption DEF Ms

LEMMA MsOfProduct ==
    ASSUME NEW n \in Nat
    PROVE  /\ Ms(n * Interval) = n * Ms(Interval)
           /\ Ms(n * Interval) \in Nat
           /\ Ms((n + 1) * Interval) = Ms(n * Interval) + Ms(Interval)
  <1>1. n * Interval \in Nat /\ (n + 1) * Interval = n * Interval + Interval
    BY LoopAssumption
  <1>2. Ms(n * Interval) = n * Ms(Interval)
    BY LoopAssumption DEF Ms
  <1>3. QED
    BY <1>1, <1>2, MsAdds, LoopAssumption

-----------------------------------------------------------------------------

(* The inductive invariant: what holds between the steps of loop_sync.     *)
LoopInv ==
    /\ TypeOK
    /\ started <= last_update /\ last_update <= clock
    /\ pc = "new" => calls = 0 /\ total = 0
    /\ pc # "new" => started + Ms(Interval) <= first + TicksPerMs - 1
    /\ pc = "awake" => next_update <= clock + MaxEarly
    /\ calls > 0 => next_update <= last_update + MaxEarly + Ms(Interval)
    /\ NoDrift
    /\ DeltasKeepTime

LEMMA InitLoopInv == Init => LoopInv
  BY LoopAssumption DEF Init, LoopInv, TypeOK, NoDrift, DeltasKeepTime, Ms

LEMMA NextLoopInv == LoopInv /\ [Next]_vars => LoopInv'
  <1> SUFFICES ASSUME LoopInv, [Next]_vars PROVE LoopInv'
    OBVIOUS
  <1> USE LoopAssumption DEF LoopInv
  <1>1. CASE loop_init
    <2>1. /\ ToMilliseconds(clock) \in Nat
          /\ Ms(ToMilliseconds(clock) + Interval) = Ms(ToMilliseconds(clock)) + Ms(Interval)
          /\ clock <= Ms(ToMilliseconds(clock)) + TicksPerMs - 1
          /\ Ms(ToMilliseconds(clock) + Interval) \in Nat
      BY MillisecondsCut, MsAdds DEF TypeOK, Ms
    <2>2. calls = 0 /\ calls' = 0 /\ total' = 0
      BY <1>1 DEF loop_init
    <2>3. Ms(0) = 0 /\ Ms(0 * Interval) = 0
      BY DEF Ms
    <2>4. TypeOK'
      BY <1>1, <2>1 DEF loop_init, TypeOK
    <2>5. NoDrift'
      BY <1>1, <2>1, <2>2, <2>3 DEF loop_init, NoDrift
    <2>6. DeltasKeepTime'
      BY <1>1, <2>2, <2>3, <2>4 DEF loop_init, DeltasKeepTime, TypeOK
    <2>7. started' + Ms(Interval) <= first' + TicksPerMs - 1
      <3>1. Ms(Interval) \in Nat /\ Ms(ToMilliseconds(clock)) \in Nat
        BY <2>1, MsAdds
      <3>2. QED
        BY <1>1, <2>1, <3>1 DEF loop_init, TypeOK
    <2>8. QED
      BY <1>1, <2>2, <2>4, <2>5, <2>6, <2>7 DEF loop_init, TypeOK
  <1>2. CASE SyncCalled
    BY <1>2 DEF SyncCalled, TypeOK, NoDrift, DeltasKeepTime
  <1>3. CASE SleepEnds
    BY <1>3 DEF SleepEnds, TypeOK, NoDrift, DeltasKeepTime
  <1>4. CASE SyncReturns
    <2> DEFINE passed == ToMilliseconds(clock - last_update)
    <2>1. clock - last_update \in Nat
      BY DEF TypeOK
    <2>2. /\ passed \in Nat
          /\ Ms(passed) <= clock - last_update
          /\ clock - last_update <= Ms(passed) + TicksPerMs - 1
      BY <2>1, MillisecondsCut
    <2>3. Ms(total + passed) = Ms(total) + Ms(passed) /\ Ms(total) \in Nat /\ Ms(passed) \in Nat
      BY <2>2, MsAdds DEF TypeOK
    <2>4. /\ Ms((calls + 1) * Interval) = Ms(calls * Interval) + Ms(Interval)
          /\ Ms(calls * Interval) \in Nat
      BY MsOfProduct DEF TypeOK
    <2>5. Ms(Interval) \in Nat
      BY DEF Ms
    <2>6. (calls + 1) * (TicksPerMs - 1) = calls * (TicksPerMs - 1) + (TicksPerMs - 1)
      BY DEF TypeOK
    <2>7. TypeOK'
      BY <1>4, <2>2, <2>5 DEF SyncReturns, TypeOK
    <2>8. NoDrift'
      BY <1>4, <2>4, <2>5 DEF SyncReturns, NoDrift, TypeOK
    <2>9. DeltasKeepTime'
      <3>1. Ms(total') <= clock - started
        BY <1>4, <2>2, <2>3 DEF SyncReturns, DeltasKeepTime, TypeOK
      <3>2. calls * (TicksPerMs - 1) \in Int
        BY DEF TypeOK
      <3>3. clock - started <= Ms(total') + (calls + 1) * (TicksPerMs - 1)
        BY <1>4, <2>2, <2>3, <2>6, <3>2 DEF SyncReturns, DeltasKeepTime, TypeOK
      <3>4. QED
        BY <1>4, <3>1, <3>3 DEF SyncReturns, DeltasKeepTime
    <2>10. QED
      BY <1>4, <2>5, <2>7, <2>8, <2>9 DEF SyncReturns, TypeOK
  <1>5. CASE TimePasses
    <2>1. PICK step \in 1 .. MaxStep : clock' = clock + step
      BY <1>5 DEF TimePasses
    <2>2. clock' \in Nat /\ clock <= clock'
      BY <2>1 DEF TypeOK
    <2>3. NoDrift' /\ DeltasKeepTime'
      BY <1>5 DEF TimePasses, NoDrift, DeltasKeepTime
    <2>4. TypeOK'
      BY <1>5, <2>2 DEF TimePasses, TypeOK
    <2>5. QED
      BY <1>5, <2>2, <2>3, <2>4 DEF TimePasses, TypeOK
  <1>6. CASE UNCHANGED vars
    BY <1>6 DEF vars, TypeOK, NoDrift, DeltasKeepTime
  <1>7. QED
    BY <1>1, <1>2, <1>3, <1>4, <1>5, <1>6 DEF Next

(* No call returns earlier before its due time than a sleep ends early, and*)
(* the due times are an interval apart.                                    *)
LEMMA LoopInvNeverAhead == LoopInv => NeverAhead
  <1> SUFFICES ASSUME LoopInv PROVE NeverAhead
    OBVIOUS
  <1>1. Ms(calls * Interval) = calls * Ms(Interval) /\ Ms(calls * Interval) \in Nat
    BY MsOfProduct DEF LoopInv, TypeOK
  <1>2. Ms(Interval) \in Nat
    BY LoopAssumption DEF Ms
  <1>3. CASE calls = 0
    BY <1>2, <1>3, LoopAssumption DEF LoopInv, TypeOK, NeverAhead
  <1>4. CASE calls > 0
    <2>1. pc # "new"
      BY <1>4 DEF LoopInv
    <2>2. QED
      BY <1>1, <1>2, <1>4, <2>1, LoopAssumption DEF LoopInv, TypeOK, NoDrift, NeverAhead
  <1>5. QED
    BY <1>3, <1>4 DEF LoopInv, TypeOK

LEMMA SpecLoopInv == Spec => []LoopInv
  BY InitLoopInv, NextLoopInv, PTL DEF Spec

(* Every variable stays in its set (Loop/main.cpp:7-13).                   *)
THEOREM TypeCorrect == Spec => []TypeOK
  BY SpecLoopInv, PTL DEF LoopInv

(* The milliseconds Loop.Sync hands out account for the time that passed,  *)
(* less than one millisecond per call apart (Loop/main.cpp:44-49).         *)
THEOREM DeltasKeepTimeThm == Spec => []DeltasKeepTime
  BY SpecLoopInv, PTL DEF LoopInv

(* Late calls do not shift the following ones (Loop/main.cpp:47).          *)
THEOREM NoDriftThm == Spec => []NoDrift
  BY SpecLoopInv, PTL DEF LoopInv

(* There are never more calls than the elapsed time has intervals, plus    *)
(* one, but for the one sleep that has ended early last: early ends do not *)
(* add up (Loop/main.cpp:39-47).                                           *)
THEOREM NeverAheadThm == Spec => []NeverAhead
  BY SpecLoopInv, LoopInvNeverAhead, PTL

-----------------------------------------------------------------------------
(* The loop and the scheduler together.                                    *)

Ask == [delay : Nat, since : Nat, calls : Nat]
Cut == TicksPerMs - 1   \* the most that is lost when a time is cut

(* The time of the last update of the timer, and how many were before it.  *)
UpdatedAt == IF updated THEN last_update ELSE before
Updates   == IF updated \/ calls = 0 THEN calls ELSE calls - 1

(* Where the thread is; only a running update is past "idle".              *)
Phased ==
    /\ pc = "new" => before = 0 /\ timer = 0 /\ ~updated /\ last_update = 0
    /\ pc \in {"sleep", "awake"} => updated
    /\ phase # "idle" => pc = "work" /\ updated
    /\ calls = 0 => delta = 0 /\ before = last_update

(* The time between the last two returns of loop_sync, cut.                *)
DeltaIsCut ==
    /\ before + Ms(delta) <= last_update
    /\ last_update <= before + Ms(delta) + Cut

(* What is filed was asked for, and no earlier update reached it.          *)
Filed ==
    /\ Len(asked) = nextId - 1
    /\ \A e \in table : e.id <= Len(asked)
    /\ \A e \in table : e.at >= IF phase = "idle" THEN timer ELSE timer - delta
    /\ phase \in {"bucket", "callback"} => bucket <= timer
    /\ phase = "callback" => \E e \in table : e.id = cursor /\ e.at = bucket

(* The timer when an entry was made, by what was asked then.               *)
MadeAt(e) == e.at - asked[e.id].delay * MsPerSecond

(* Since an entry was made the timer has gone on like the clock, but for   *)
(* what every update cut; and so it had at the update before the last one. *)
InStepSince(e) ==
    LET ask   == asked[e.id]
        timed == timer - MadeAt(e)
        real  == UpdatedAt - ask.since
    IN  /\ MadeAt(e) \in Nat
        /\ timed >= 0
        /\ ask.calls <= Updates
        /\ Ms(timed) <= real
        /\ real <= Ms(timed) + (Updates - ask.calls) * Cut
        /\ updated /\ ask.calls < calls =>
               /\ timed >= delta
               /\ before - ask.since <= Ms(timed - delta) + (calls - 1 - ask.calls) * Cut
        /\ pc = "new" => ask.since = 0 /\ ask.calls = 0 /\ MadeAt(e) = 0

TimingInv ==
    /\ LoopInv
    /\ TimingTypeOK
    /\ Phased
    /\ DeltaIsCut
    /\ Filed
    /\ \A e \in table : InStepSince(e)

LEMMA AskedType == TimingTypeOK => asked \in Seq(Ask)
  BY DEF TimingTypeOK, Ask

LEMMA CutType == Cut \in Nat
  BY LoopAssumption DEF Cut

(* One more update cuts once more.                                         *)
LEMMA CutAdds ==
    ASSUME NEW n \in Nat
    PROVE  /\ n * Cut \in Nat
           /\ (n + 1) * Cut = n * Cut + Cut
  BY CutType

LEMMA MsGrows ==
    ASSUME NEW a \in Nat, NEW b \in Nat, a <= b
    PROVE  Ms(a) <= Ms(b)
  <1>1. b - a \in Nat /\ b = a + (b - a)
    OBVIOUS
  <1>2. Ms(b) = Ms(a) + Ms(b - a) /\ Ms(a) \in Nat /\ Ms(b - a) \in Nat
    BY <1>1, MsAdds
  <1>3. QED
    BY <1>2

(* What the invariant says of one entry of the table.                      *)
LEMMA OfEntry ==
    ASSUME TimingInv, NEW e \in table
    PROVE  /\ e.id \in Nat \ {0} /\ e.at \in Nat
           /\ e.id \in 1 .. Len(asked)
           /\ asked[e.id] \in Ask
           /\ e.at >= IF phase = "idle" THEN timer ELSE timer - delta
           /\ InStepSince(e)
  <1>1. e \in Entry
    BY DEF TimingInv, TimingTypeOK, SchedulerTypeOK
  <1>2. e.id \in Nat \ {0} /\ e.at \in Nat
    BY <1>1 DEF Entry
  <1>3. e.id <= Len(asked) /\ Len(asked) \in Nat
    BY DEF TimingInv, TimingTypeOK, Filed
  <1>4. e.id \in 1 .. Len(asked)
    BY <1>2, <1>3
  <1>5. asked[e.id] \in Ask
    <2>1. asked \in Seq(Ask)
      BY AskedType DEF TimingInv
    <2>2. QED
      BY <1>4, <2>1
  <1>6. e.at >= IF phase = "idle" THEN timer ELSE timer - delta
    BY DEF TimingInv, Filed
  <1>7. QED
    BY <1>2, <1>4, <1>5, <1>6 DEF TimingInv

LEMMA InitTimingInv == TimingInit => TimingInv
  <1> SUFFICES ASSUME TimingInit PROVE TimingInv
    OBVIOUS
  <1>1. LoopInv
    BY InitLoopInv DEF TimingInit
  <1>2. Ms(0) = 0
    BY LoopAssumption DEF Ms
  <1>3. SchedulerTypeOK
    BY DEF TimingInit, SchedulerInit, SchedulerTypeOK, Entry, Phases
  <1>4. asked = <<>> /\ Len(asked) = 0 /\ asked \in Seq(Ask)
    BY DEF TimingInit
  <1>5. TimingTypeOK
    <2>1. TypeOK
      BY <1>1 DEF LoopInv
    <2>2. {delta, before} \subseteq Nat /\ updated \in BOOLEAN
      <3>1. updated = FALSE /\ delta = 0 /\ before = 0
        BY DEF TimingInit
      <3>2. updated \in BOOLEAN
        BY <3>1, Zenon
      <3>3. QED
        BY <3>1, <3>2
    <2>3. asked \in Seq([delay : Nat, since : Nat, calls : Nat])
      BY <1>4 DEF Ask
    <2>4. QED
      BY <1>3, <2>1, <2>2, <2>3, Zenon DEF TimingTypeOK
  <1>6. Phased /\ DeltaIsCut
    BY <1>2, CutType DEF TimingInit, Init, SchedulerInit, Phased, DeltaIsCut
  <1>7. Filed /\ \A e \in table : InStepSince(e)
    BY <1>4 DEF TimingInit, SchedulerInit, Filed
  <1>8. QED
    BY <1>1, <1>5, <1>6, <1>7 DEF TimingInv

(* What the loop does here it may do alone.                                *)
LEMMA LoopSteps == [TimingNext]_allVars => [Next]_vars
  BY DEF TimingNext, allVars, loopVars, vars, Next, Schedule, Start, Update, Execute, Sync,
         Synced, Time

-----------------------------------------------------------------------------
(* Every step preserves the invariant.                                     *)

LEMMA StartInv == TimingInv /\ LoopInv' /\ Start => TimingInv'
  <1> SUFFICES ASSUME TimingInv, LoopInv', Start PROVE TimingInv'
    OBVIOUS
  <1>1. /\ pc = "new" /\ pc' = "work" /\ calls = 0 /\ total = 0
        /\ before' = last_update' /\ last_update' = clock
        /\ asked' = [i \in DOMAIN asked |-> [asked[i] EXCEPT !.since = last_update']]
        /\ UNCHANGED <<schedulerVars, delta, updated, calls, total>>
    BY DEF Start, loop_init, TimingInv, LoopInv
  <1>2. /\ before = 0 /\ timer = 0 /\ ~updated /\ phase = "idle" /\ delta = 0
    BY <1>1 DEF TimingInv, Phased
  <1>3. /\ Len(asked') = Len(asked)
        /\ asked' \in Seq(Ask)
        /\ \A i \in 1 .. Len(asked) :
              /\ asked'[i].delay = asked[i].delay
              /\ asked'[i].calls = asked[i].calls
              /\ asked'[i].since = last_update'
    <2> DEFINE n == Len(asked)
    <2>1. asked \in Seq(Ask) /\ n \in Nat /\ DOMAIN asked = 1 .. n
      BY AskedType DEF TimingInv
    <2>2. last_update' \in Nat
      BY DEF LoopInv, TypeOK
    <2>3. \A i \in 1 .. n : /\ asked[i] \in Ask
                            /\ asked'[i] = [asked[i] EXCEPT !.since = last_update']
      <3>1. ASSUME NEW i \in 1 .. n
            PROVE  asked[i] \in Ask /\ asked'[i] = [asked[i] EXCEPT !.since = last_update']
        BY <1>1, <2>1
      <3>2. QED
        BY <3>1
    <2>4. \A i \in 1 .. n : /\ asked'[i] \in Ask
                            /\ asked'[i].delay = asked[i].delay
                            /\ asked'[i].calls = asked[i].calls
                            /\ asked'[i].since = last_update'
      BY <2>2, <2>3 DEF Ask
    <2>5. asked' = [i \in 1 .. n |-> asked'[i]]
      BY <1>1, <2>1
    <2>6. asked' \in Seq(Ask) /\ Len(asked') = n
      BY <2>1, <2>4, <2>5
    <2>7. QED
      BY <2>4, <2>6
  <1>4. TimingTypeOK'
    BY <1>1, <1>3 DEF TimingInv, TimingTypeOK, LoopInv, TypeOK, SchedulerTypeOK, schedulerVars, Ask
  <1>5. Ms(0) = 0
    BY LoopAssumption DEF Ms
  <1>6. Phased' /\ DeltaIsCut'
    BY <1>1, <1>2, <1>5, CutType
    DEF Phased, DeltaIsCut, schedulerVars, TimingInv, LoopInv, TypeOK
  <1>7. Filed'
    BY <1>1, <1>2, <1>3 DEF Filed, schedulerVars, TimingInv
  <1>8. ASSUME NEW e \in table' PROVE InStepSince(e)'
    <2>1. e \in table /\ e.id \in 1 .. Len(asked) /\ InStepSince(e)
      BY <1>1, OfEntry DEF schedulerVars
    <2>2. MadeAt(e)' = 0 /\ asked[e.id].calls = 0
      BY <1>1, <1>3, <2>1 DEF InStepSince, MadeAt
    <2>3. timer' = 0 /\ ~updated' /\ UpdatedAt' = last_update' /\ Updates' = 0
      BY <1>1, <1>2 DEF schedulerVars, UpdatedAt, Updates
    <2>4. asked'[e.id].since = last_update' /\ asked'[e.id].calls = 0
      BY <1>3, <2>1, <2>2
    <2>5. last_update' \in Nat
      BY DEF LoopInv, TypeOK
    <2>6. QED
      BY <1>1, <1>5, <2>2, <2>3, <2>4, <2>5, CutType DEF InStepSince
  <1>9. QED
    BY <1>4, <1>6, <1>7, <1>8 DEF TimingInv

LEMMA ScheduleInv ==
    ASSUME TimingInv, LoopInv', NEW event \in Events, NEW delay \in Delays, Schedule(event, delay)
    PROVE  TimingInv'
  <1> DEFINE at  == timer + delay * MsPerSecond
             new == [id |-> nextId, at |-> at, event |-> event]
             ask == [delay |-> delay, since |-> UpdatedAt, calls |-> Updates]
  <1>1. /\ pc \in {"new", "work"} /\ phase \in {"idle", "callback"}
        /\ table' = table \cup {new}
        /\ nextId' = nextId + 1
        /\ asked' = Append(asked, ask)
        /\ UNCHANGED <<timer, phase, bucket, cursor, loopVars, delta, updated, before>>
    BY DEF Schedule, ScheduleEvent, UpdatedAt, Updates
  <1>2. delay \in Nat /\ delay * MsPerSecond \in Nat /\ at \in Nat /\ at - delay * MsPerSecond = timer
    BY TimingAssumption, SchedulerAssumption DEF TimingInv, TimingTypeOK, SchedulerTypeOK
  <1>3. UpdatedAt \in Nat /\ Updates \in Nat /\ Updates <= calls
    BY DEF UpdatedAt, Updates, TimingInv, TimingTypeOK, TypeOK
  <1>4. ask \in Ask
    BY <1>2, <1>3 DEF Ask
  <1> HIDE DEF at
  <1>5. /\ asked' \in Seq(Ask)
        /\ Len(asked') = Len(asked) + 1
        /\ asked'[Len(asked) + 1] = ask
        /\ \A i \in 1 .. Len(asked) : asked'[i] = asked[i]
    BY <1>1, <1>4, AskedType DEF TimingInv
  <1>6. nextId = Len(asked) + 1
    BY DEF TimingInv, TimingTypeOK, SchedulerTypeOK, Filed
  <1>7. SchedulerTypeOK'
    BY <1>2, ScheduleEventType DEF Schedule, TimingInv, TimingTypeOK
  <1>8. TimingTypeOK'
    BY <1>1, <1>5, <1>7 DEF TimingInv, TimingTypeOK, LoopInv, Ask
  <1>9. Phased' /\ DeltaIsCut'
    BY <1>1 DEF Phased, DeltaIsCut, loopVars, TimingInv, Ms
  <1>10. Filed'
    <2>1. Len(asked') = nextId' - 1
      BY <1>1, <1>5, <1>6
    <2>2. \A e \in table' : e.id <= Len(asked')
      BY <1>1, <1>5, <1>6 DEF TimingInv, Filed, TimingTypeOK, SchedulerTypeOK, Entry
    <2>3. at >= timer /\ timer >= timer - delta
      BY <1>2 DEF at, TimingInv, TimingTypeOK, SchedulerTypeOK
    <2>4. \A e \in table' : e.at >= IF phase' = "idle" THEN timer' ELSE timer' - delta'
      <3>1. phase' = phase /\ timer' = timer /\ delta' = delta
        BY <1>1
      <3>2. \A e \in table : e.at >= IF phase = "idle" THEN timer ELSE timer - delta
        BY DEF TimingInv, Filed
      <3>3. new.at >= IF phase = "idle" THEN timer ELSE timer - delta
        <4>1. new.at = at
          OBVIOUS
        <4>2. timer - delta \in Int /\ timer \in Int /\ at \in Int
          BY <1>2 DEF TimingInv, TimingTypeOK, SchedulerTypeOK
        <4>3. QED
          BY <2>3, <4>1, <4>2
      <3>4. QED
        BY <1>1, <3>1, <3>2, <3>3
    <2>5. QED
      BY <1>1, <2>1, <2>2, <2>4 DEF Filed, TimingInv
  <1>11. ASSUME NEW e \in table' PROVE InStepSince(e)'
    <2>1. UpdatedAt' = UpdatedAt /\ Updates' = Updates
      BY <1>1 DEF UpdatedAt, Updates, loopVars
    <2>2. CASE e \in table
      <3>1. e.id \in 1 .. Len(asked) /\ InStepSince(e)
        BY <2>2, OfEntry
      <3>2. asked'[e.id] = asked[e.id] /\ MadeAt(e)' = MadeAt(e)
        BY <1>5, <3>1 DEF MadeAt
      <3>3. QED
        BY <1>1, <2>1, <3>1, <3>2 DEF InStepSince, loopVars, Ms
    <2>3. CASE e = new
      <3>1. asked'[e.id] = ask /\ e.at = at
        BY <1>5, <1>6, <2>3
      <3>2. MadeAt(e)' = timer
        BY <1>2, <3>1 DEF MadeAt
      <3>3. timer \in Nat /\ Ms(0) = 0 /\ 0 * Cut = 0
        BY CutType, LoopAssumption DEF Ms, TimingInv, TimingTypeOK, SchedulerTypeOK
      <3>4. timer' - MadeAt(e)' = 0 /\ UpdatedAt' - ask.since = 0 /\ Updates' - ask.calls = 0
        BY <1>1, <1>3, <2>1, <3>2, <3>3
      <3>5. updated => ask.calls = calls
        BY DEF Updates
      <3>6. pc = "new" => ask.since = 0 /\ ask.calls = 0 /\ timer = 0
        BY DEF TimingInv, Phased, LoopInv, UpdatedAt, Updates
      <3>7. QED
        <4> DEFINE timed == timer - MadeAt(e)
                   real  == UpdatedAt - asked[e.id].since
        <4>1. timed' = 0 /\ real' = 0 /\ (Updates - asked[e.id].calls)' = 0
          BY <3>1, <3>4
        <4>2. Ms(timed)' = 0 /\ ((Updates - asked[e.id].calls) * Cut)' = 0
          BY <4>1, <3>3
        <4>3. MadeAt(e)' \in Nat /\ (asked[e.id].calls <= Updates)'
          BY <1>3, <2>1, <3>1, <3>2, <3>3
        <4>4. ~(updated /\ asked[e.id].calls < calls)'
          <5>1. calls \in Nat /\ calls' = calls /\ updated' = updated /\ asked'[e.id] = ask
            BY <1>1, <3>1 DEF loopVars, TimingInv, TimingTypeOK, TypeOK
          <5>2. ask.calls = asked'[e.id].calls /\ ~(calls < calls)
            BY <5>1
          <5>3. QED
            BY <3>5, <5>1, <5>2
        <4>5. (pc = "new" => asked[e.id].since = 0 /\ asked[e.id].calls = 0 /\ MadeAt(e) = 0)'
          BY <1>1, <3>1, <3>2, <3>6 DEF loopVars
        <4>6. QED
          BY <4>1, <4>2, <4>3, <4>4, <4>5 DEF InStepSince
    <2>4. QED
      BY <1>1, <2>2, <2>3
  <1>12. QED
    BY <1>8, <1>9, <1>10, <1>11 DEF TimingInv

LEMMA UpdateInv == TimingInv /\ LoopInv' /\ Update => TimingInv'
  <1> SUFFICES ASSUME TimingInv, LoopInv', Update PROVE TimingInv'
    OBVIOUS
  <1>1. /\ pc = "work" /\ ~updated /\ updated' /\ phase = "idle" /\ phase' = "scan"
        /\ timer' = timer + delta
        /\ UNCHANGED <<table, nextId, bucket, cursor, loopVars, delta, before, asked>>
    BY DEF Update, UpdateScheduledEvents, TimingInv, TimingTypeOK
  <1>2. /\ {timer, delta, before, last_update, calls} \subseteq Nat
        /\ updated' \in BOOLEAN
    BY DEF TimingInv, TimingTypeOK, SchedulerTypeOK, TypeOK, Update
  <1>3. SchedulerTypeOK'
    BY <1>2, UpdateType DEF Update, TimingInv, TimingTypeOK
  <1>4. TimingTypeOK'
    BY <1>1, <1>2, <1>3 DEF TimingInv, TimingTypeOK, LoopInv
  <1>5. Phased' /\ DeltaIsCut'
    BY <1>1 DEF Phased, DeltaIsCut, loopVars, TimingInv, Ms
  <1>6. Filed'
    BY <1>1, <1>2 DEF Filed, TimingInv
  <1>7. ASSUME NEW e \in table' PROVE InStepSince(e)'
    <2> DEFINE since == asked[e.id].since
               made  == asked[e.id].calls
               timed == timer - MadeAt(e)
    <2>1. e \in table /\ InStepSince(e) /\ asked[e.id] \in Ask
      BY <1>1, OfEntry
    <2>2. /\ MadeAt(e) \in Nat /\ timed \in Nat /\ since \in Nat /\ made \in Nat
          /\ made <= Updates
          /\ Ms(timed) <= before - since
          /\ before - since <= Ms(timed) + (Updates - made) * Cut
      BY <1>1, <1>2, <2>1 DEF InStepSince, UpdatedAt, Ask
    <2>3. MadeAt(e)' = MadeAt(e) /\ asked' = asked
      BY <1>1 DEF MadeAt
    <2>4. /\ Ms(timed + delta) = Ms(timed) + Ms(delta)
          /\ Ms(timed) \in Nat /\ Ms(delta) \in Nat
      BY <1>2, <2>2, MsAdds
    <2>5. timer' - MadeAt(e)' = timed + delta
      BY <1>1, <1>2, <2>2, <2>3
    <2>6. /\ UpdatedAt' = last_update /\ Updates' = calls /\ calls' = calls
          /\ delta' = delta /\ before' = before /\ last_update' = last_update /\ pc' = pc
      BY <1>1 DEF UpdatedAt, Updates, loopVars
    <2>7. /\ before + Ms(delta) <= last_update
          /\ last_update <= before + Ms(delta) + Cut
      BY DEF TimingInv, DeltaIsCut
    <2>8. Ms(timed + delta) <= last_update - since
      BY <1>2, <2>2, <2>4, <2>7
    <2>9. /\ made <= calls
          /\ last_update - since <= Ms(timed + delta) + (calls - made) * Cut
          /\ made < calls => before - since <= Ms(timed) + (calls - 1 - made) * Cut
      <3>1. CASE calls = 0
        <4>1. made = 0 /\ Updates = 0 /\ 0 * Cut = 0 /\ delta = 0 /\ before = last_update
          BY <1>1, <1>2, <2>2, <3>1, CutType DEF Updates, TimingInv, Phased
        <4>2. Ms(delta) = 0
          BY <4>1, LoopAssumption DEF Ms
        <4>3. QED
          BY <1>2, <2>2, <2>4, <3>1, <4>1, <4>2
      <3>2. CASE calls > 0
        <4>1. Updates = calls - 1 /\ calls - 1 - made \in Nat
          BY <1>1, <1>2, <2>2, <3>2 DEF Updates
        <4>2. /\ (calls - 1 - made) * Cut \in Nat
              /\ (calls - 1 - made + 1) * Cut = (calls - 1 - made) * Cut + Cut
          BY <4>1, CutAdds
        <4>3. calls - 1 - made + 1 = calls - made
          BY <1>2, <2>2
        <4>4. before - since <= Ms(timed) + (calls - 1 - made) * Cut
          BY <2>2, <4>1
        <4>5. (calls - made) * Cut = (calls - 1 - made) * Cut + Cut
          BY <4>2, <4>3
        <4>6. last_update - since <= Ms(timed) + Ms(delta) + ((calls - 1 - made) * Cut + Cut)
          BY <1>2, <2>2, <2>4, <2>7, <4>2, <4>4, CutType
        <4>7. QED
          BY <1>2, <2>2, <2>4, <4>1, <4>4, <4>5, <4>6
      <3>3. QED
        BY <1>2, <3>1, <3>2
    <2>10. timed + delta >= 0 /\ timed + delta >= delta /\ timed + delta - delta = timed
      BY <1>2, <2>2
    <2> HIDE DEF timed
    <2>11. QED
      <3>1. pc # "new"
        BY <1>1
      <3>2. QED
        <4>1. Ms(timer - MadeAt(e))' = Ms(timed + delta)
          BY <2>5
        <4>2. Ms(timer - MadeAt(e) - delta)' = Ms(timed)
          <5>1. timer' - MadeAt(e)' - delta' = timed
            BY <1>2, <2>2, <2>5, <2>6
          <5>2. QED
            BY <5>1
        <4>3. ((Updates - asked[e.id].calls) * Cut)' = (calls - made) * Cut
          BY <2>3, <2>6
        <4>4. ((calls - 1 - asked[e.id].calls) * Cut)' = (calls - 1 - made) * Cut
          BY <2>3, <2>6
        <4>5. (UpdatedAt - asked[e.id].since)' = last_update - since
          BY <2>3, <2>6
        <4>6. (before - asked[e.id].since)' = before - since
          BY <2>3, <2>6
        <4>7. QED
          BY <2>2, <2>3, <2>5, <2>6, <2>8, <2>9, <2>10, <3>1, <4>1, <4>2, <4>3, <4>4, <4>5, <4>6
          DEF InStepSince
  <1>8. QED
    BY <1>4, <1>5, <1>6, <1>7 DEF TimingInv

(* An entry stays in step while the timer stands still.                    *)
LEMMA StaysInStep ==
    ASSUME TimingInv, table' \subseteq table, UNCHANGED <<timer, asked>>,
           UpdatedAt' = UpdatedAt, Updates' = Updates,
           updated' => updated /\ UNCHANGED <<delta, before, calls>>,
           pc' = "new" => pc = "new"
    PROVE  \A e \in table' : InStepSince(e)'
  <1> TAKE e \in table'
  <1>1. InStepSince(e)
    BY OfEntry
  <1>2. MadeAt(e)' = MadeAt(e)
    BY DEF MadeAt
  <1>3. /\ (timer - MadeAt(e))' = timer - MadeAt(e)
        /\ (UpdatedAt - asked[e.id].since)' = UpdatedAt - asked[e.id].since
        /\ ((Updates - asked[e.id].calls) * Cut)' = (Updates - asked[e.id].calls) * Cut
    BY <1>2
  <1>4. Ms(timer - MadeAt(e))' = Ms(timer - MadeAt(e))
    BY <1>3
  <1>5. ASSUME updated', (asked[e.id].calls < calls)'
        PROVE  /\ (timer - MadeAt(e) >= delta)'
               /\ (before - asked[e.id].since
                      <= Ms(timer - MadeAt(e) - delta) + (calls - 1 - asked[e.id].calls) * Cut)'
    <2>1. updated /\ delta' = delta /\ before' = before /\ calls' = calls
      BY <1>5
    <2>2. /\ timer - MadeAt(e) >= delta
          /\ before - asked[e.id].since
                 <= Ms(timer - MadeAt(e) - delta) + (calls - 1 - asked[e.id].calls) * Cut
      BY <1>1, <1>5, <2>1 DEF InStepSince
    <2>3. Ms(timer - MadeAt(e) - delta)' = Ms(timer - MadeAt(e) - delta)
      BY <1>2, <2>1
    <2>4. ((calls - 1 - asked[e.id].calls) * Cut)' = (calls - 1 - asked[e.id].calls) * Cut
      BY <2>1
    <2>5. QED
      BY <1>2, <2>1, <2>2, <2>3, <2>4
  <1>6. QED
    BY <1>1, <1>2, <1>3, <1>4, <1>5 DEF InStepSince

LEMMA ExecuteInv == TimingInv /\ LoopInv' /\ Execute => TimingInv'
  <1> SUFFICES ASSUME TimingInv, LoopInv', Execute PROVE TimingInv'
    OBVIOUS
  <1>1. /\ UNCHANGED <<timer, nextId, loopVars, timingVars>>
        /\ table' \subseteq table
        /\ phase # "idle"
    BY DEF Execute, PickBucket, RunEntry, EntryReturns, DropBucket, NothingDue
  <1>2. UNCHANGED <<pc, calls, last_update, delta, updated, before, asked>>
    BY <1>1 DEF loopVars, timingVars
  <1>3. SchedulerTypeOK'
    BY ExecutingType DEF Execute, TimingInv, TimingTypeOK
  <1>4. TimingTypeOK'
    BY <1>2, <1>3 DEF TimingInv, TimingTypeOK, LoopInv
  <1>5. Phased'
    BY <1>1, <1>2 DEF Phased, TimingInv
  <1>6. DeltaIsCut'
    BY <1>2 DEF DeltaIsCut, TimingInv
  <1>7. \A e \in table' : InStepSince(e)'
    <2>1. UpdatedAt' = UpdatedAt /\ Updates' = Updates
      BY <1>2 DEF UpdatedAt, Updates
    <2>2. QED
      BY <1>1, <1>2, <2>1, StaysInStep
  <1>8. /\ Len(asked') = nextId' - 1
        /\ \A e \in table' : e.id <= Len(asked')
    BY <1>1, <1>2 DEF TimingInv, Filed
  <1>9. \A e \in table' : e.at >= IF phase' = "idle" THEN timer' ELSE timer' - delta'
    <2> TAKE e \in table'
    <2>1. e \in table /\ e.at \in Nat /\ timer \in Nat /\ e.at >= timer - delta
      BY <1>1, OfEntry DEF TimingInv, TimingTypeOK, SchedulerTypeOK
    <2>2. CASE NothingDue
      <3>1. ~(e.at <= timer)
        BY <2>1, <2>2 DEF NothingDue, Due
      <3>2. QED
        BY <1>1, <2>1, <2>2, <3>1 DEF NothingDue
    <2>3. CASE PickBucket \/ RunEntry \/ EntryReturns \/ DropBucket
      <3>1. phase' # "idle"
        BY <2>3 DEF PickBucket, RunEntry, EntryReturns, DropBucket
      <3>2. QED
        BY <1>1, <1>2, <2>1, <3>1
    <2>4. QED
      BY <2>2, <2>3 DEF Execute
  <1>10. /\ phase' \in {"bucket", "callback"} => bucket' <= timer'
         /\ phase' = "callback" => \E e \in table' : e.id = cursor' /\ e.at = bucket'
    <2>1. CASE PickBucket
      <3>1. bucket' <= timer
        BY <2>1 DEF PickBucket, Due
      <3>2. QED
        BY <1>1, <2>1, <3>1 DEF PickBucket
    <2>2. CASE RunEntry
      <3>1. PICK e \in Remaining : cursor' = e.id
        BY <2>2 DEF RunEntry
      <3>2. e \in table /\ e.at = bucket
        BY <3>1 DEF Remaining
      <3>3. bucket <= timer
        BY <2>2 DEF RunEntry, TimingInv, Filed
      <3>4. QED
        BY <2>2, <3>1, <3>2, <3>3 DEF RunEntry
    <2>3. CASE EntryReturns
      BY <2>3 DEF EntryReturns, TimingInv, Filed
    <2>4. CASE DropBucket \/ NothingDue
      BY <2>4 DEF DropBucket, NothingDue
    <2>5. QED
      BY <2>1, <2>2, <2>3, <2>4 DEF Execute
  <1>11. Filed'
    BY <1>8, <1>9, <1>10 DEF Filed
  <1>12. QED
    BY <1>4, <1>5, <1>6, <1>7, <1>11 DEF TimingInv

(* The loop goes on, but loop_sync does not return.                        *)
LEMMA WaitingInv ==
    ASSUME TimingInv, LoopInv', UNCHANGED <<schedulerVars, timingVars, last_update, calls>>,
           \/ pc' = pc
           \/ updated /\ phase = "idle" /\ pc' \in {"sleep", "awake"}
    PROVE  TimingInv'
  <1>1. /\ UNCHANGED <<timer, table, nextId, phase, bucket, cursor>>
        /\ UNCHANGED <<delta, updated, before, asked>>
    BY DEF schedulerVars, timingVars
  <1>2. TimingTypeOK'
    BY <1>1 DEF TimingInv, TimingTypeOK, SchedulerTypeOK, LoopInv
  <1>3. Phased'
    BY <1>1 DEF TimingInv, Phased
  <1>4. DeltaIsCut'
    BY <1>1 DEF TimingInv, DeltaIsCut
  <1>5. Filed'
    BY <1>1 DEF TimingInv, Filed
  <1>6. \A e \in table' : InStepSince(e)'
    <2>1. UpdatedAt' = UpdatedAt /\ Updates' = Updates
      BY <1>1 DEF UpdatedAt, Updates
    <2>2. QED
      BY <1>1, <2>1, StaysInStep
  <1>7. QED
    BY <1>2, <1>3, <1>4, <1>5, <1>6 DEF TimingInv

LEMMA SyncedInv == TimingInv /\ LoopInv' /\ Synced => TimingInv'
  <1> SUFFICES ASSUME TimingInv, LoopInv', Synced PROVE TimingInv'
    OBVIOUS
  <1> DEFINE passed == clock - last_update
  <1>1. /\ pc = "awake" /\ pc' = "work"
        /\ last_update' = clock /\ calls' = calls + 1
        /\ total' = total + ToMilliseconds(passed)
        /\ delta' = total' - total /\ updated' = FALSE /\ before' = last_update
        /\ UNCHANGED <<timer, table, nextId, phase, bucket, cursor, asked>>
    BY DEF Synced, SyncReturns, schedulerVars
  <1>2. updated /\ phase = "idle"
    BY <1>1 DEF TimingInv, Phased
  <1>3. /\ passed \in Nat
        /\ clock \in Nat /\ last_update \in Nat /\ calls \in Nat /\ total \in Nat
    BY DEF TimingInv, LoopInv, TypeOK
  <1>4. /\ ToMilliseconds(passed) \in Nat
        /\ Ms(ToMilliseconds(passed)) <= passed
        /\ passed <= Ms(ToMilliseconds(passed)) + TicksPerMs - 1
        /\ Ms(ToMilliseconds(passed)) \in Nat
    BY <1>3, MillisecondsCut, MsAdds
  <1>5. delta' = ToMilliseconds(passed)
    BY <1>1, <1>3, <1>4
  <1>6. TimingTypeOK'
    <2>1. {delta, before}' \subseteq Nat
      BY <1>1, <1>3, <1>4, <1>5
    <2>2. updated' \in BOOLEAN
      BY <1>1, Zenon
    <2>3. SchedulerTypeOK'
      BY <1>1 DEF TimingInv, TimingTypeOK, SchedulerTypeOK
    <2>4. TypeOK'
      BY DEF LoopInv
    <2>5. asked' \in Seq([delay : Nat, since : Nat, calls : Nat])
      BY <1>1 DEF TimingInv, TimingTypeOK
    <2>6. QED
      BY <2>1, <2>2, <2>3, <2>4, <2>5, Zenon DEF TimingTypeOK
  <1>7. Phased'
    BY <1>1, <1>2, <1>3 DEF Phased
  <1>8. DeltaIsCut'
    <2>1. Ms(delta)' = Ms(ToMilliseconds(passed))
      BY <1>5
    <2>2. TicksPerMs \in Nat
      BY LoopAssumption
    <2>3. QED
      BY <1>1, <1>3, <1>4, <2>1, <2>2 DEF DeltaIsCut, Cut
  <1>9. Filed'
    BY <1>1, <1>2 DEF TimingInv, Filed
  <1>10. \A e \in table' : InStepSince(e)'
    <2>1. UpdatedAt' = UpdatedAt /\ Updates' = Updates
      BY <1>1, <1>2, <1>3 DEF UpdatedAt, Updates
    <2>2. ~updated' /\ pc' # "new"
      BY <1>1
    <2>3. QED
      BY <1>1, <2>1, <2>2, StaysInStep
  <1>11. QED
    BY <1>6, <1>7, <1>8, <1>9, <1>10 DEF TimingInv

LEMMA NextTimingInv == TimingInv /\ [TimingNext]_allVars => TimingInv'
  <1> SUFFICES ASSUME TimingInv, [TimingNext]_allVars PROVE TimingInv'
    OBVIOUS
  <1>1. LoopInv'
    BY LoopSteps, NextLoopInv DEF TimingInv
  <1>2. ASSUME NEW event \in Events, NEW delay \in Delays, Schedule(event, delay)
        PROVE  TimingInv'
    BY <1>1, <1>2, ScheduleInv
  <1>3. CASE Start
    BY <1>1, <1>3, StartInv
  <1>4. CASE Update
    BY <1>1, <1>4, UpdateInv
  <1>5. CASE Execute
    BY <1>1, <1>5, ExecuteInv
  <1>6. CASE Sync
    BY <1>1, <1>6, WaitingInv DEF Sync, SyncCalled
  <1>7. CASE Synced
    BY <1>1, <1>7, SyncedInv
  <1>8. CASE Time
    <2>1. CASE SleepEnds
      <3>1. updated /\ phase = "idle"
        BY <2>1 DEF SleepEnds, TimingInv, Phased
      <3>2. QED
        BY <1>1, <1>8, <2>1, <3>1, WaitingInv DEF SleepEnds, Time
    <2>2. CASE TimePasses
      BY <1>1, <1>8, <2>2, WaitingInv DEF TimePasses, Time
    <2>3. QED
      BY <1>8, <2>1, <2>2 DEF Time
  <1>9. CASE UNCHANGED allVars
    BY <1>1, <1>9, WaitingInv DEF allVars, loopVars
  <1>10. QED
    BY <1>2, <1>3, <1>4, <1>5, <1>6, <1>7, <1>8, <1>9 DEF TimingNext

LEMMA SpecTimingInv == TimingSpec => []TimingInv
  BY InitTimingInv, NextTimingInv, PTL DEF TimingSpec

-----------------------------------------------------------------------------
(* What the invariant implies.                                             *)

LEMMA TimingInvEvents == TimingInv => EventsInRealTime
  <1> SUFFICES ASSUME TimingInv, phase = "callback"
               PROVE  /\ last_update - asked[cursor].since >= Ms(asked[cursor].delay * MsPerSecond)
                      /\ calls > asked[cursor].calls =>
                           before - asked[cursor].since <=
                               Ms(asked[cursor].delay * MsPerSecond)
                                   + (calls - 1 - asked[cursor].calls) * (TicksPerMs - 1)
    BY DEF EventsInRealTime
  <1>1. PICK e \in table : e.id = cursor /\ e.at = bucket
    BY DEF TimingInv, Filed
  <1>2. e.at <= timer /\ updated
    BY <1>1 DEF TimingInv, Filed, Phased
  <1>3. /\ e.at \in Nat /\ InStepSince(e) /\ e.at >= timer - delta
        /\ asked[cursor] \in Ask
    BY <1>1, OfEntry
  <1> DEFINE ask   == asked[cursor]
             d     == ask.delay * MsPerSecond
             timed == timer - MadeAt(e)
             cut   == (calls - 1 - ask.calls) * Cut
  <1>4. /\ {timer, delta, last_update, before, calls} \subseteq Nat
        /\ ask.delay \in Nat /\ ask.since \in Nat /\ ask.calls \in Nat
    BY <1>3 DEF TimingInv, TimingTypeOK, SchedulerTypeOK, TypeOK, Ask
  <1>5. d \in Nat
    BY <1>4, SchedulerAssumption
  <1>6. /\ MadeAt(e) = e.at - d
        /\ MadeAt(e) \in Nat
    BY <1>1, <1>3 DEF MadeAt, InStepSince
  <1>7. d <= timed /\ timed \in Nat /\ timed - delta <= d
    BY <1>2, <1>3, <1>4, <1>5, <1>6
  <1>8. Ms(d) <= Ms(timed) /\ Ms(d) \in Nat /\ Ms(timed) \in Nat
    BY <1>5, <1>7, MsGrows, MsAdds
  <1>9. Ms(timed) <= last_update - ask.since
    BY <1>1, <1>2, <1>3 DEF InStepSince, UpdatedAt
  <1>10. last_update - ask.since >= Ms(d)
    BY <1>4, <1>8, <1>9
  <1>11. ASSUME calls > ask.calls
         PROVE  before - ask.since <= Ms(d) + cut
    <2>1. timed >= delta /\ before - ask.since <= Ms(timed - delta) + cut
      BY <1>1, <1>2, <1>3, <1>4, <1>11 DEF InStepSince
    <2>2. timed - delta \in Nat
      BY <1>4, <1>7, <2>1
    <2>3. Ms(timed - delta) <= Ms(d) /\ Ms(timed - delta) \in Nat
      BY <1>5, <1>7, <2>2, MsGrows, MsAdds
    <2>4. calls - 1 - ask.calls \in Nat
      BY <1>4, <1>11
    <2>5. cut \in Nat
      BY <2>4, CutAdds
    <2> HIDE DEF cut
    <2>6. QED
      BY <1>4, <1>8, <2>1, <2>3, <2>5
  <1>12. QED
    BY <1>10, <1>11 DEF Cut

(* A scheduled event never runs before its delay is over in real time, and *)
(* at the update before the one that runs it no more than the delay and    *)
(* what the updates cut had passed (Gateway.lua:148-230; Loop/main.cpp:    *)
(* 44-49), for every delay, interval, clock and number of events.          *)
THEOREM EventsInRealTimeThm == TimingSpec => []EventsInRealTime
  BY SpecTimingInv, TimingInvEvents, PTL

(* In the loop of the Gateway too, whose updates take the milliseconds,    *)
(* they account for the time that passed (Loop/main.cpp:44-49).            *)
THEOREM GatewayDeltasKeepTime == TimingSpec => []DeltasKeepTime
  <1>1. TimingInv => DeltasKeepTime
    BY DEF TimingInv, LoopInv
  <1>2. QED
    BY <1>1, SpecTimingInv, PTL

(* And its updates never overtake the interval.                            *)
THEOREM GatewayNeverAhead == TimingSpec => []NeverAhead
  <1>1. TimingInv => NeverAhead
    BY LoopInvNeverAhead DEF TimingInv
  <1>2. QED
    BY <1>1, SpecTimingInv, PTL
=============================================================================
