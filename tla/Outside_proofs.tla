---------------------------- MODULE Outside_proofs ----------------------------
(* Proofs about Outside: for every period, idle time and iteration.        *)
EXTENDS Outside, Scheduler_proofs

Period  == UpdatePeriod * MsPerSecond
IdleFor == MinIdleTime * MsPerSecond

(* Where the loop is; a refresh only runs in the idle state.               *)
RefreshPlace ==
    /\ pc \in {"next", "OnUpdate", "poll", "returned"} => phase = "idle"
    /\ pc = "events" => phase # "idle"
    /\ pc = "presence" => phase \in {"idle", "callback"}
    /\ pc \in {"poll", "presence"} => idle
    /\ pc = "returned" => ~idle
    /\ phase \in {"idle", "scan"} => bucket = NoBucket
    /\ phase \in {"bucket", "callback"} => bucket <= timer

(* The timer of the scheduler is the time the iteration began.             *)
Clocks ==
    /\ timer = synced
    /\ synced <= now /\ now <= synced + MaxIteration
    /\ lastInput <= now

(* What is filed lies ahead, by no more than the period.                   *)
Filed ==
    /\ \A e \in table : e.at <= timer + Period
    /\ phase = "idle" => \A e \in table : e.at > timer

(* The user was idle when the loop looked last, or has come back since.    *)
ComesBack ==
    idle => \/ UserIsIdle
            \/ lastInput + (IF pc = "events" \/ phase = "callback" \/ pc = "OnUpdate"
                            THEN MaxIteration ELSE 0) >= synced

(* A refresh left over from an idle state is due before the next can begin.*)
DiesOut ==
    ~idle /\ pc # "returned" => \A e \in Pending : e.at <= lastInput + MaxIteration + Period

(* While a refresh runs no other is pending.                               *)
Chain ==
    /\ OneChain
    /\ pc = "presence" \/ phase = "callback" => Pending = {}

Refreshing ==
    /\ autoUpdate = idle
    /\ idle /\ pc # "presence" /\ phase # "callback" =>
           \E e \in Pending : e.at = shownAt + Period

RefreshInv ==
    /\ TypeOK
    /\ NoConnectionLeaks
    /\ VisitsPair
    /\ RefreshPlace
    /\ Clocks
    /\ Filed
    /\ ComesBack
    /\ DiesOut
    /\ Chain
    /\ Refreshing

LEMMA Numbers ==
    TypeOK => /\ {timer, synced, now, lastInput, shownAt, cursor} \subseteq Nat
              /\ {MaxIteration, Period, IdleFor} \subseteq Nat
              /\ Period > 0
              /\ bucket \in Int
              /\ IdleFor >= Period + 2 * MaxIteration
              /\ \A e \in table : e.id \in Nat \ {0} /\ e.at \in Nat
  <1> SUFFICES ASSUME TypeOK
               PROVE  /\ {timer, synced, now, lastInput, shownAt, cursor} \subseteq Nat
                      /\ {MaxIteration, Period, IdleFor} \subseteq Nat
                      /\ Period > 0
                      /\ bucket \in Int
                      /\ IdleFor >= Period + 2 * MaxIteration
                      /\ \A e \in table : e.id \in Nat \ {0} /\ e.at \in Nat
    OBVIOUS
  <1>1. Period \in Nat /\ Period > 0
    BY OutsideAssumption, DelayInMilliseconds DEF Period
  <1>2. IdleFor \in Nat
    BY OutsideAssumption, SchedulerAssumption DEF IdleFor
  <1>3. IdleFor >= Period + 2 * MaxIteration
    BY MinIdleTimeAssumption DEF Period, IdleFor
  <1>4. \A e \in table : e.id \in Nat \ {0} /\ e.at \in Nat
    BY DEF TypeOK, SchedulerTypeOK, Entry
  <1>5. QED
    BY <1>1, <1>2, <1>3, <1>4, OutsideAssumption DEF TypeOK, SchedulerTypeOK, NoBucket

LEMMA KeepsSchedulerType ==
    ASSUME SchedulerTypeOK, UNCHANGED schedulerVars
    PROVE  SchedulerTypeOK'
  BY DEF SchedulerTypeOK, schedulerVars

LEMMA InitRefreshInv == Init => RefreshInv
  <1> SUFFICES ASSUME Init PROVE RefreshInv
    OBVIOUS
  <1>1. SchedulerTypeOK
    BY DEF Init, SchedulerInit, SchedulerTypeOK, Phases
  <1>2. idle \in BOOLEAN /\ autoUpdate \in BOOLEAN /\ handle \in BOOLEAN /\ autoUpdate = idle
    BY Zenon DEF Init
  <1>3. TypeOK
    BY <1>1, <1>2 DEF Init, TypeOK
  <1>4. table = {} /\ Pending = {}
    BY DEF Init, SchedulerInit, Pending
  <1>5. Chain /\ DiesOut /\ Filed
    BY <1>4 DEF Chain, OneChain, DiesOut, Filed
  <1>6. Refreshing /\ ComesBack
    BY <1>2 DEF Init, Refreshing, ComesBack
  <1>7. Clocks
    BY OutsideAssumption DEF Init, SchedulerInit, Clocks
  <1>8. RefreshPlace /\ NoConnectionLeaks /\ VisitsPair
    BY DEF Init, SchedulerInit, RefreshPlace, NoConnectionLeaks, VisitsPair
  <1>9. QED
    BY <1>3, <1>5, <1>6, <1>7, <1>8 DEF RefreshInv

-----------------------------------------------------------------------------
(* What Reschedules files when the presence is on screen: it runs only in  *)
(* the idle state, in which events are scheduled again.                    *)

LEMMA Rescheduled ==
    ASSUME RefreshInv, pc = "presence", Reschedules
    PROVE  \E new \in Entry :
             /\ new.at = timer + Period
             /\ table' = table \cup {new}
             /\ nextId' \in Nat \ {0}
             /\ shownAt' = timer
             /\ \/ phase = "callback" /\ phase' = "bucket" /\ pc' = "events"
                \/ phase = "idle" /\ phase' = "idle" /\ pc' = "next"
             /\ UNCHANGED <<timer, bucket, cursor>>
  <1> DEFINE new == [id |-> nextId, event |-> UpdateDiscord, at |-> timer + Period]
  <1>1. idle /\ autoUpdate = idle
    BY DEF RefreshInv, RefreshPlace, Refreshing
  <1>2. autoUpdate
    BY <1>1
  <1>3. Period \in Nat /\ timer \in Nat /\ nextId \in Nat \ {0}
    BY Numbers DEF RefreshInv, TypeOK, SchedulerTypeOK
  <1>4. new \in Entry
    BY <1>3, OutsideAssumption DEF Entry
  <1>5. table' = table \cup {new} /\ nextId' = nextId + 1
    BY <1>2 DEF Reschedules, Period
  <1>6. phase \in {"idle", "callback"}
    BY DEF RefreshInv, RefreshPlace
  <1>7. \/ phase = "callback" /\ phase' = "bucket" /\ pc' = "events"
        \/ phase = "idle" /\ phase' = "idle" /\ pc' = "next"
    BY <1>6 DEF Reschedules
  <1>8. new.at = timer + Period /\ shownAt' = timer /\ UNCHANGED <<timer, bucket, cursor>>
    BY DEF Reschedules
  <1>9. QED
    BY <1>3, <1>4, <1>5, <1>7, <1>8

LEMMA RescheduledType ==
    ASSUME RefreshInv, pc = "presence", Reschedules
    PROVE  SchedulerTypeOK' /\ pc' \in {"events", "next"} /\ shownAt' \in Nat
  <1>1. PICK new \in Entry :
             /\ table' = table \cup {new}
             /\ nextId' \in Nat \ {0}
             /\ shownAt' = timer
             /\ \/ phase = "callback" /\ phase' = "bucket" /\ pc' = "events"
                \/ phase = "idle" /\ phase' = "idle" /\ pc' = "next"
             /\ UNCHANGED <<timer, bucket, cursor>>
    BY Rescheduled
  <1>2. QED
    BY <1>1 DEF RefreshInv, TypeOK, SchedulerTypeOK, Phases

-----------------------------------------------------------------------------
(* The types, and the connection to Discord.                               *)

LEMMA DiscordType ==
    ASSUME RefreshInv,
           PollFails \/ PresenceUpdated \/ PresenceFails \/ EnterFails \/ EnterIdleState
             \/ LeaveIdleState \/ RunReturns
    PROVE  TypeOK' /\ NoConnectionLeaks' /\ VisitsPair'
  <1> USE DEF RefreshInv, NoConnectionLeaks, VisitsPair, RefreshPlace, Refreshing
  <1>1. handle \in BOOLEAN /\ idle \in BOOLEAN /\ autoUpdate \in BOOLEAN
    BY DEF TypeOK
  <1>2. CASE PollFails
    <2>1. PICK success \in BOOLEAN : Reinit(success) /\ pc' = IF success THEN "poll" ELSE "next"
      BY <1>2 DEF PollFails
    <2>2. handle' \in BOOLEAN /\ objects' = IF handle' THEN 1 ELSE 0
      BY <1>1, <2>1 DEF Reinit
    <2>3. SchedulerTypeOK'
      BY <1>2, KeepsSchedulerType DEF PollFails, TypeOK
    <2>4. idle
      BY <1>2 DEF PollFails
    <2>5. QED
      BY <1>1, <1>2, <2>1, <2>2, <2>3, <2>4 DEF PollFails, TypeOK
  <1>3. CASE PresenceUpdated
    <2>1. SchedulerTypeOK' /\ pc' \in {"events", "next"} /\ shownAt' \in Nat
      BY <1>3, RescheduledType DEF PresenceUpdated
    <2>2. QED
      BY <1>1, <1>3, <2>1 DEF PresenceUpdated, TypeOK
  <1>4. CASE PresenceFails
    <2>1. PICK success \in BOOLEAN :
              /\ Reinit(success)
              /\ IF success THEN UNCHANGED <<schedulerVars, pc, shownAt>> ELSE Reschedules
      BY <1>4 DEF PresenceFails
    <2>2. handle' \in BOOLEAN /\ objects' = IF handle' THEN 1 ELSE 0
      BY <1>1, <2>1 DEF Reinit
    <2>3. idle /\ pc = "presence"
      BY <1>4 DEF PresenceFails
    <2>4. SchedulerTypeOK' /\ pc' \in {"events", "next", "presence"} /\ shownAt' \in Nat
      BY <2>1, <2>3, RescheduledType, KeepsSchedulerType DEF TypeOK
    <2>5. QED
      BY <1>1, <1>4, <2>2, <2>3, <2>4 DEF PresenceFails, TypeOK
  <1>5. CASE EnterFails
    <2>1. handle' \in BOOLEAN /\ ~handle' /\ SchedulerTypeOK'
      BY <1>5, KeepsSchedulerType DEF EnterFails, TypeOK
    <2>2. QED
      BY <1>1, <1>5, <2>1 DEF EnterFails, TypeOK
  <1>6. CASE EnterIdleState
    <2>1. /\ idle' \in BOOLEAN /\ autoUpdate' \in BOOLEAN /\ handle' \in BOOLEAN
          /\ idle' /\ handle'
      BY <1>6 DEF EnterIdleState
    <2>2. SchedulerTypeOK'
      BY <1>6, KeepsSchedulerType DEF EnterIdleState, TypeOK
    <2>3. objects' = 1 /\ visits' = 1 /\ pc' = "presence"
      BY <1>6 DEF EnterIdleState
    <2>4. QED
      BY <1>1, <1>6, <2>1, <2>2, <2>3 DEF EnterIdleState, TypeOK
  <1>7. ASSUME Leaves, idle
        PROVE  /\ idle' \in BOOLEAN /\ autoUpdate' \in BOOLEAN /\ handle' \in BOOLEAN
               /\ ~idle' /\ ~handle' /\ objects' = 0 /\ visits' = 0
    <2>1. idle' = FALSE /\ autoUpdate' = FALSE /\ handle' = FALSE
      BY <1>7 DEF Leaves, Deinit
    <2>2. objects' = 0 /\ visits' = 0
      BY <1>7 DEF Leaves, Deinit
    <2>3. QED
      BY <2>1, <2>2
  <1>8. CASE LeaveIdleState
    BY <1>7, <1>8, KeepsSchedulerType DEF LeaveIdleState, TypeOK
  <1>9. CASE RunReturns
    <2>1. SchedulerTypeOK' /\ pc' = "returned"
      BY <1>9, KeepsSchedulerType DEF RunReturns, TypeOK
    <2>2. CASE idle
      BY <1>7, <1>9, <2>1, <2>2 DEF RunReturns, TypeOK
    <2>3. CASE ~idle
      BY <1>1, <1>9, <2>1, <2>3 DEF RunReturns, TypeOK
    <2>4. QED
      BY <2>2, <2>3
  <1>10. QED
    BY <1>2, <1>3, <1>4, <1>5, <1>6, <1>8, <1>9

LEMMA OtherType ==
    ASSUME RefreshInv,
           \/ TimePasses \/ Input \/ Sync \/ SchedulerStep \/ StaysActive \/ StaysIdle \/ Polled
           \/ UpdateDiscordWhenIdle \/ UpdateDiscordWhenActive \/ UNCHANGED vars
    PROVE  TypeOK' /\ NoConnectionLeaks' /\ VisitsPair'
  <1> USE DEF RefreshInv, NoConnectionLeaks, VisitsPair, TypeOK, outsideVars
  <1>1. CASE TimePasses
    BY <1>1, KeepsSchedulerType DEF TimePasses
  <1>2. CASE Input
    BY <1>2, KeepsSchedulerType DEF Input
  <1>3. CASE Sync
    <2>1. now - synced \in Nat
      BY DEF Clocks
    <2>2. SchedulerTypeOK'
      BY <1>3, <2>1, UpdateType DEF Sync
    <2>3. QED
      BY <1>3, <2>2 DEF Sync
  <1>4. CASE SchedulerStep
    BY <1>4, ExecutingType DEF SchedulerStep
  <1>5. CASE StaysActive \/ StaysIdle \/ Polled \/ UpdateDiscordWhenIdle
    BY <1>5, KeepsSchedulerType DEF StaysActive, StaysIdle, Polled, UpdateDiscordWhenIdle
  <1>6. CASE UpdateDiscordWhenActive
    BY <1>6, ExecutingType DEF UpdateDiscordWhenActive
  <1>7. CASE UNCHANGED vars
    BY <1>7, KeepsSchedulerType DEF vars
  <1>8. QED
    BY <1>1, <1>2, <1>3, <1>4, <1>5, <1>6, <1>7

-----------------------------------------------------------------------------
(* Where the loop is, and what time it is.                                 *)

(* The steps of the scheduler, one at a time.                              *)
LEMMA SchedulerSteps ==
    ASSUME SchedulerStep
    PROVE  /\ pc = "events"
           /\ UNCHANGED <<timer, now, synced, lastInput, idle, autoUpdate, handle, objects, visits,
                          shownAt>>
           /\ \/ PickBucket /\ phase = "scan" /\ phase' = "bucket" /\ pc' = pc
              \/ RunEntry /\ phase = "bucket" /\ phase' = "callback" /\ pc' = pc
              \/ DropBucket /\ phase = "bucket" /\ phase' = "scan" /\ pc' = pc
              \/ NothingDue /\ phase = "scan" /\ phase' = "idle" /\ pc' = "OnUpdate"
  BY DEF SchedulerStep, PickBucket, RunEntry, DropBucket, NothingDue

(* What a refresh that ends, or goes on, leaves to the others.             *)
LEMMA PresenceSteps ==
    ASSUME PresenceUpdated \/ PresenceFails
    PROVE  /\ pc = "presence"
           /\ UNCHANGED <<now, synced, lastInput, idle, autoUpdate>>
           /\ Reschedules \/ UNCHANGED <<schedulerVars, pc, shownAt>>
  BY DEF PresenceUpdated, PresenceFails

LEMMA PlaceKept == RefreshInv /\ [Next]_vars => RefreshPlace'
  <1> SUFFICES ASSUME RefreshInv, [Next]_vars PROVE RefreshPlace'
    OBVIOUS
  <1> USE DEF RefreshInv, RefreshPlace, schedulerVars, outsideVars
  <1>1. CASE TimePasses \/ Input
    BY <1>1 DEF TimePasses, Input
  <1>2. CASE Sync
    BY <1>2 DEF Sync, UpdateScheduledEvents
  <1>3. CASE SchedulerStep
    <2>1. CASE PickBucket
      <3>1. bucket' <= timer' /\ phase' = "bucket" /\ pc' = "events"
        BY <1>3, <2>1, SchedulerSteps DEF PickBucket, Due
      <3>2. QED
        BY <3>1
    <2>2. CASE RunEntry
      BY <1>3, <2>2, SchedulerSteps DEF RunEntry
    <2>3. CASE DropBucket
      BY <1>3, <2>3, SchedulerSteps DEF DropBucket
    <2>4. CASE NothingDue
      BY <1>3, <2>4, SchedulerSteps DEF NothingDue
    <2>5. QED
      BY <1>3, <2>1, <2>2, <2>3, <2>4, SchedulerSteps
  <1>4. CASE StaysActive \/ StaysIdle \/ Polled \/ PollFails \/ EnterFails
    BY <1>4 DEF StaysActive, StaysIdle, Polled, PollFails, EnterFails
  <1>5. CASE EnterIdleState
    BY <1>5 DEF EnterIdleState
  <1>6. CASE LeaveIdleState
    BY <1>6 DEF LeaveIdleState, Leaves
  <1>7. CASE UpdateDiscordWhenIdle
    BY <1>7 DEF UpdateDiscordWhenIdle
  <1>8. CASE UpdateDiscordWhenActive
    BY <1>8 DEF UpdateDiscordWhenActive, EntryReturns
  <1>9. CASE PresenceUpdated \/ PresenceFails
    <2>1. pc = "presence" /\ UNCHANGED idle
      BY <1>9, PresenceSteps
    <2>2. CASE Reschedules
      BY <2>1, <2>2, Rescheduled
    <2>3. CASE UNCHANGED <<schedulerVars, pc, shownAt>>
      BY <2>1, <2>3
    <2>4. QED
      BY <1>9, <2>2, <2>3, PresenceSteps
  <1>10. CASE RunReturns
    BY <1>10 DEF RunReturns, Leaves
  <1>11. CASE UNCHANGED vars
    BY <1>11 DEF vars
  <1>12. QED
    BY <1>1, <1>2, <1>3, <1>4, <1>5, <1>6, <1>7, <1>8, <1>9, <1>10, <1>11 DEF Next

(* Most steps take no time.                                                *)
LEMMA NoTime ==
    [Next]_vars => \/ TimePasses \/ Input \/ Sync
                   \/ UNCHANGED <<timer, now, synced, lastInput>>
  BY SchedulerSteps, PresenceSteps
  DEF Next, vars, schedulerVars, outsideVars, StaysActive, StaysIdle, Polled, PollFails,
      EnterFails, EnterIdleState, LeaveIdleState, UpdateDiscordWhenIdle, UpdateDiscordWhenActive,
      EntryReturns, Reschedules, RunReturns

LEMMA ClocksKept == RefreshInv /\ [Next]_vars => Clocks'
  <1> SUFFICES ASSUME RefreshInv, [Next]_vars PROVE Clocks'
    OBVIOUS
  <1>1. /\ {timer, synced, now, lastInput, MaxIteration} \subseteq Nat
        /\ Clocks
    BY Numbers DEF RefreshInv
  <1> USE DEF Clocks, schedulerVars
  <1>2. CASE TimePasses
    BY <1>1, <1>2 DEF TimePasses
  <1>3. CASE Input
    BY <1>1, <1>3 DEF Input
  <1>4. CASE Sync
    BY <1>1, <1>4 DEF Sync, UpdateScheduledEvents
  <1>5. CASE UNCHANGED <<timer, now, synced, lastInput>>
    BY <1>1, <1>5
  <1>6. QED
    BY <1>2, <1>3, <1>4, <1>5, NoTime

LEMMA FiledKept == RefreshInv /\ [Next]_vars => Filed'
  <1> SUFFICES ASSUME RefreshInv, [Next]_vars PROVE Filed'
    OBVIOUS
  <1>1. /\ timer \in Nat /\ Period \in Nat /\ Period > 0
        /\ \A e \in table : e.at \in Nat
        /\ Filed
    BY Numbers DEF RefreshInv
  <1>2. ASSUME UNCHANGED <<timer, table, phase>> PROVE Filed'
    BY <1>1, <1>2 DEF Filed
  <1>3. CASE Sync
    <2>1. timer' \in Nat /\ timer <= timer' /\ table' = table /\ phase' = "scan"
      BY <1>1, <1>3, Numbers DEF Sync, UpdateScheduledEvents, RefreshInv, Clocks
    <2>2. QED
      BY <1>1, <2>1 DEF Filed
  <1>4. CASE SchedulerStep
    <2>1. table' \subseteq table /\ timer' = timer
      BY <1>4 DEF SchedulerStep, PickBucket, RunEntry, DropBucket, NothingDue
    <2>2. CASE NothingDue
      <3>1. \A e \in table : e.at > timer
        BY <1>1, <2>2 DEF NothingDue, Due
      <3>2. QED
        BY <1>1, <2>1, <3>1 DEF Filed
    <2>3. CASE phase' # "idle"
      BY <1>1, <2>1, <2>3 DEF Filed
    <2>4. QED
      BY <1>4, <2>2, <2>3, SchedulerSteps
  <1>5. CASE UpdateDiscordWhenActive
    BY <1>1, <1>5 DEF UpdateDiscordWhenActive, EntryReturns, Filed
  <1>6. CASE PresenceUpdated \/ PresenceFails
    <2>1. CASE Reschedules
      <3>1. PICK new \in Entry : /\ new.at = timer + Period
                                 /\ table' = table \cup {new}
                                 /\ phase' = "idle" => phase = "idle"
                                 /\ UNCHANGED timer
        BY <1>6, <2>1, PresenceSteps, Rescheduled
      <3>2. new.at > timer /\ new.at <= timer + Period
        BY <1>1, <3>1
      <3>3. QED
        BY <1>1, <3>1, <3>2 DEF Filed
    <2>2. QED
      BY <1>2, <1>6, <2>1, PresenceSteps DEF schedulerVars
  <1>7. CASE UNCHANGED schedulerVars
    BY <1>2, <1>7 DEF schedulerVars
  <1>8. QED
    BY <1>3, <1>4, <1>5, <1>6, <1>7
    DEF Next, vars, TimePasses, Input, StaysActive, StaysIdle, Polled, PollFails, EnterFails,
        EnterIdleState, LeaveIdleState, UpdateDiscordWhenIdle, RunReturns

(* Until the loop has looked the user may have come back in the iteration  *)
(* before, afterwards only in this one.                                    *)
LEMMA ComesBackKept == RefreshInv /\ [Next]_vars => ComesBack'
  <1> SUFFICES ASSUME RefreshInv, [Next]_vars, idle' PROVE ComesBack'
    BY DEF ComesBack
  <1>1. {timer, synced, now, lastInput, MaxIteration, IdleFor} \subseteq Nat
    BY Numbers DEF RefreshInv
  <1>2. Clocks /\ ComesBack
    BY DEF RefreshInv
  <1> DEFINE early == pc = "events" \/ phase = "callback" \/ pc = "OnUpdate"
             grace == IF early THEN MaxIteration ELSE 0
  <1>3. (UserIsIdle <=> now - lastInput >= IdleFor) /\ grace \in Nat
    BY <1>1 DEF UserIsIdle, IdleFor
  <1>4. (UserIsIdle' <=> now' - lastInput' >= IdleFor)
    BY DEF UserIsIdle, IdleFor
  <1>5. idle => UserIsIdle \/ lastInput + grace >= synced
    BY <1>2 DEF ComesBack
  <1>6. grace' \in {0, MaxIteration}
    OBVIOUS
  <1> HIDE DEF grace
  <1>7. SUFFICES UserIsIdle' \/ lastInput' + grace' >= synced'
    BY DEF ComesBack, grace
  <1>8. CASE TimePasses
    <2>1. grace' = grace
      BY <1>8 DEF TimePasses, schedulerVars, grace
    <2>2. QED
      BY <1>1, <1>3, <1>4, <1>5, <1>8, <2>1 DEF TimePasses
  <1>9. CASE Input
    <2>1. grace' = grace
      BY <1>9 DEF Input, schedulerVars, grace
    <2>2. QED
      BY <1>1, <1>2, <1>3, <1>9, <2>1 DEF Input, Clocks
  <1>10. CASE Sync
    <2>1. grace = 0 /\ grace' = MaxIteration
      BY <1>10 DEF Sync, UpdateScheduledEvents, RefreshInv, RefreshPlace, grace
    <2>2. QED
      BY <1>1, <1>2, <1>3, <1>4, <1>5, <1>10, <2>1 DEF Sync, Clocks
  <1>11. ASSUME UserIsIdle, UNCHANGED <<now, lastInput>> PROVE UserIsIdle'
    BY <1>3, <1>4, <1>11
  <1>12. CASE StaysIdle \/ EnterIdleState
    BY <1>11, <1>12 DEF StaysIdle, EnterIdleState
  <1>13. ASSUME idle, UNCHANGED <<now, synced, lastInput>>, early => early'
         PROVE  UserIsIdle' \/ lastInput' + grace' >= synced'
    <2>1. grace' >= grace
      BY <1>1, <1>13 DEF grace
    <2>2. CASE UserIsIdle
      BY <1>11, <1>13, <2>2
    <2>3. CASE lastInput + grace >= synced
      BY <1>1, <1>3, <1>6, <1>13, <2>1, <2>3
    <2>4. QED
      BY <1>5, <1>13, <2>2, <2>3
  <1>14. CASE SchedulerStep
    BY <1>13, <1>14, SchedulerSteps
  <1>15. CASE Polled \/ PollFails
    BY <1>13, <1>15 DEF Polled, PollFails, RefreshInv, RefreshPlace, schedulerVars
  <1>16. CASE UpdateDiscordWhenIdle
    BY <1>13, <1>16 DEF UpdateDiscordWhenIdle, schedulerVars
  <1>17. CASE PresenceUpdated \/ PresenceFails
    <2>1. pc = "presence" /\ idle /\ UNCHANGED <<now, synced, lastInput>>
      BY <1>17, PresenceSteps DEF RefreshInv, RefreshPlace
    <2>2. early => early'
      BY <1>17, <2>1, PresenceSteps, Rescheduled DEF schedulerVars
    <2>3. QED
      BY <1>13, <2>1, <2>2
  <1>18. CASE UNCHANGED vars
    BY <1>13, <1>18 DEF vars, schedulerVars, outsideVars
  <1>19. CASE StaysActive \/ EnterFails \/ LeaveIdleState \/ UpdateDiscordWhenActive \/ RunReturns
    BY <1>19 DEF StaysActive, EnterFails, LeaveIdleState, Leaves, UpdateDiscordWhenActive,
                 RunReturns, outsideVars
  <1>20. QED
    BY <1>8, <1>9, <1>10, <1>12, <1>14, <1>15, <1>16, <1>17, <1>18, <1>19 DEF Next

-----------------------------------------------------------------------------
(* What is pending.                                                        *)

LEMMA PendingKept ==
    ASSUME UNCHANGED <<table, bucket, cursor>>
    PROVE  Pending' = Pending
  BY DEF Pending

(* The scheduler's steps leave pending what was, but for the entry that the*)
(* traversal reaches.                                                      *)
LEMMA SchedulerPending ==
    ASSUME RefreshInv, SchedulerStep
    PROVE  /\ Pending' \subseteq Pending
           /\ phase' # "callback" => Pending' = Pending
           /\ phase' = "callback" =>
                \E e \in Pending : Pending' = {d \in Pending : ~(d.at = e.at /\ d.id <= e.id)}
  <1>1. /\ \A e \in table : e.id \in Nat \ {0} /\ e.at \in Nat
        /\ bucket \in Int /\ cursor \in Nat /\ NoBucket \notin Nat
        /\ phase \in {"idle", "scan"} => bucket = NoBucket
    BY Numbers DEF RefreshInv, RefreshPlace, NoBucket
  <1>2. CASE PickBucket
    <2>1. table' = table /\ cursor' = 0 /\ bucket = NoBucket /\ phase' = "bucket"
      BY <1>1, <1>2 DEF PickBucket
    <2>2. Pending = table /\ Pending' = table
      BY <1>1, <2>1 DEF Pending
    <2>3. QED
      BY <2>1, <2>2
  <1>3. CASE RunEntry
    <2>1. PICK e \in Remaining : cursor' = e.id
      BY <1>3 DEF RunEntry
    <2>2. /\ phase' = "callback" /\ table' = table /\ bucket' = bucket
          /\ e \in table /\ e.at = bucket /\ e.id > cursor
      BY <1>3, <2>1 DEF RunEntry, Remaining
    <2>3. e \in Pending
      BY <1>1, <2>2 DEF Pending
    <2>4. Pending' = {d \in Pending : ~(d.at = e.at /\ d.id <= e.id)}
      <3>1. \A d \in table : d.id <= cursor => d.id <= e.id
        BY <1>1, <2>2
      <3>2. QED
        BY <2>1, <2>2, <3>1 DEF Pending
    <2>5. QED
      BY <2>2, <2>3, <2>4
  <1>4. CASE DropBucket
    <2>1. /\ phase' = "scan" /\ bucket' = NoBucket /\ Remaining = {}
          /\ table' = {e \in table : e.at # bucket}
      BY <1>4 DEF DropBucket
    <2>2. Pending' = table'
      BY <1>1, <2>1 DEF Pending
    <2>3. \A e \in table : e.at = bucket => e.id <= cursor
      BY <1>1, <2>1 DEF Remaining
    <2>4. Pending = table'
      BY <2>1, <2>3 DEF Pending
    <2>5. QED
      BY <2>1, <2>2, <2>4
  <1>5. CASE NothingDue
    BY <1>5, PendingKept DEF NothingDue
  <1>6. QED
    BY <1>2, <1>3, <1>4, <1>5 DEF SchedulerStep

(* A new refresh is pending, as it is not in the bucket being executed.    *)
LEMMA RescheduledPending ==
    ASSUME RefreshInv, pc = "presence", Reschedules
    PROVE  \E new \in Entry : /\ new.at = timer + Period
                              /\ Pending' = Pending \cup {new}
  <1>1. PICK new \in Entry : /\ new.at = timer + Period
                             /\ table' = table \cup {new}
                             /\ UNCHANGED <<timer, bucket, cursor>>
    BY Rescheduled
  <1>2. /\ timer \in Nat /\ Period \in Nat /\ Period > 0 /\ bucket \in Int
        /\ bucket <= timer
    BY Numbers DEF RefreshInv, RefreshPlace, NoBucket
  <1>3. new.at # bucket
    BY <1>1, <1>2
  <1>4. Pending' = Pending \cup {new}
    BY <1>1, <1>3 DEF Pending
  <1>5. QED
    BY <1>1, <1>4

LEMMA DiesOutKept == RefreshInv /\ [Next]_vars => DiesOut'
  <1> SUFFICES ASSUME RefreshInv, [Next]_vars, ~idle', pc' # "returned", NEW e \in Pending'
               PROVE  e.at <= lastInput' + MaxIteration + Period
    BY DEF DiesOut
  <1>1. /\ {timer, synced, now, lastInput, MaxIteration, Period, IdleFor} \subseteq Nat
        /\ \A d \in table : d.at \in Nat
        /\ Pending \subseteq table
    BY Numbers DEF RefreshInv, Pending
  <1>2. ASSUME ~idle, pc # "returned", Pending' \subseteq Pending, UNCHANGED lastInput
        PROVE  e.at <= lastInput' + MaxIteration + Period
    BY <1>2 DEF RefreshInv, DiesOut
  <1>3. CASE TimePasses
    BY <1>2, <1>3, PendingKept DEF TimePasses, schedulerVars
  <1>4. CASE Input
    <2>1. e \in Pending /\ ~idle /\ pc # "returned" /\ lastInput' = now /\ lastInput <= now
      BY <1>4, PendingKept DEF Input, schedulerVars, RefreshInv, Clocks
    <2>2. e.at <= lastInput + MaxIteration + Period /\ e.at \in Nat
      BY <1>1, <2>1 DEF RefreshInv, DiesOut
    <2>3. QED
      BY <1>1, <2>1, <2>2
  <1>5. CASE Sync
    BY <1>2, <1>5, PendingKept DEF Sync, UpdateScheduledEvents
  <1>6. CASE SchedulerStep
    BY <1>2, <1>6, SchedulerPending, SchedulerSteps
  <1>7. CASE StaysActive \/ EnterFails
    BY <1>2, <1>7, PendingKept DEF StaysActive, EnterFails, schedulerVars
  <1>8. CASE EnterIdleState
    BY <1>8 DEF EnterIdleState
  <1>9. CASE LeaveIdleState
    <2>1. e \in table /\ pc = "OnUpdate" /\ idle /\ ~UserIsIdle /\ lastInput' = lastInput
      BY <1>1, <1>9, PendingKept DEF LeaveIdleState, schedulerVars
    <2>2. lastInput + MaxIteration >= synced /\ timer = synced
      BY <2>1 DEF RefreshInv, ComesBack, Clocks
    <2>3. e.at <= timer + Period
      BY <2>1 DEF RefreshInv, Filed
    <2>4. QED
      BY <1>1, <2>1, <2>2, <2>3
  <1>10. CASE StaysIdle \/ UpdateDiscordWhenIdle
    BY <1>10 DEF StaysIdle, UpdateDiscordWhenIdle
  <1>11. CASE Polled \/ PollFails
    BY <1>11 DEF Polled, PollFails, RefreshInv, RefreshPlace
  <1>12. CASE UpdateDiscordWhenActive
    BY <1>2, <1>12, PendingKept DEF UpdateDiscordWhenActive, EntryReturns, outsideVars
  <1>13. CASE PresenceUpdated \/ PresenceFails
    BY <1>13, PresenceSteps DEF RefreshInv, RefreshPlace
  <1>14. CASE RunReturns
    BY <1>14 DEF RunReturns
  <1>15. CASE UNCHANGED vars
    BY <1>2, <1>15, PendingKept DEF vars, schedulerVars, outsideVars
  <1>16. QED
    BY <1>3, <1>4, <1>5, <1>6, <1>7, <1>8, <1>9, <1>10, <1>11, <1>12, <1>13, <1>14, <1>15
    DEF Next

LEMMA ChainKept == RefreshInv /\ [Next]_vars => Chain'
  <1> SUFFICES ASSUME RefreshInv, [Next]_vars PROVE Chain'
    OBVIOUS
  <1>1. Chain
    BY DEF RefreshInv
  <1>2. ASSUME Pending' = Pending, pc' = "presence" \/ phase' = "callback" =>
                                      Pending = {} \/ pc = "presence" \/ phase = "callback"
        PROVE  Chain'
    BY <1>1, <1>2 DEF Chain, OneChain
  <1>3. CASE TimePasses \/ Input
    BY <1>2, <1>3, PendingKept DEF TimePasses, Input, schedulerVars
  <1>4. CASE Sync
    BY <1>2, <1>4, PendingKept DEF Sync, UpdateScheduledEvents
  <1>5. CASE SchedulerStep
    <2>1. CASE phase' = "callback"
      <3>1. PICK e \in Pending : Pending' = {d \in Pending : ~(d.at = e.at /\ d.id <= e.id)}
        BY <1>5, <2>1, SchedulerPending
      <3>2. e.id \in Nat
        BY Numbers DEF RefreshInv, Pending
      <3>3. ASSUME NEW d \in Pending' PROVE FALSE
        <4>1. d \in Pending /\ ~(d.at = e.at /\ d.id <= e.id)
          BY <3>1, <3>3
        <4>2. d = e
          BY <1>1, <4>1 DEF Chain, OneChain
        <4>3. QED
          BY <3>2, <4>1, <4>2
      <3>4. Pending' = {}
        BY <3>3
      <3>5. QED
        BY <3>4 DEF Chain, OneChain
    <2>2. CASE phase' # "callback"
      <3>1. Pending' = Pending /\ pc' # "presence"
        BY <1>5, <2>2, SchedulerPending, SchedulerSteps
      <3>2. QED
        BY <1>2, <2>2, <3>1
    <2>3. QED
      BY <2>1, <2>2
  <1>6. CASE StaysActive \/ StaysIdle \/ Polled \/ PollFails \/ EnterFails \/ LeaveIdleState
    BY <1>2, <1>6, PendingKept
    DEF StaysActive, StaysIdle, Polled, PollFails, EnterFails, LeaveIdleState, schedulerVars
  <1>7. CASE EnterIdleState
    <2>1. pc = "OnUpdate" /\ ~idle /\ UserIsIdle /\ UNCHANGED schedulerVars /\ phase = "idle"
      BY <1>7 DEF EnterIdleState, RefreshInv, RefreshPlace
    <2>2. /\ {timer, synced, now, lastInput, MaxIteration, Period, IdleFor} \subseteq Nat
          /\ \A d \in table : d.at \in Nat
          /\ IdleFor >= Period + 2 * MaxIteration
      BY Numbers DEF RefreshInv
    <2>3. timer = synced /\ now <= synced + MaxIteration /\ now - lastInput >= IdleFor
      BY <2>1 DEF RefreshInv, Clocks, UserIsIdle, IdleFor
    <2>4. ASSUME NEW e \in Pending PROVE FALSE
      <3>1. e.at <= lastInput + MaxIteration + Period /\ e.at > timer /\ e.at \in Nat
        BY <2>1, <2>2 DEF RefreshInv, DiesOut, Filed, Pending
      <3>2. QED
        BY <2>2, <2>3, <3>1
    <2>5. Pending = {}
      BY <2>4
    <2>6. QED
      BY <1>2, <2>1, <2>5, PendingKept DEF schedulerVars
  <1>8. CASE UpdateDiscordWhenIdle
    BY <1>2, <1>8, PendingKept DEF UpdateDiscordWhenIdle, schedulerVars
  <1>9. CASE UpdateDiscordWhenActive
    BY <1>2, <1>9, PendingKept DEF UpdateDiscordWhenActive, EntryReturns, outsideVars
  <1>10. CASE PresenceUpdated \/ PresenceFails
    <2>1. pc = "presence" /\ Pending = {}
      BY <1>1, <1>10, PresenceSteps DEF Chain
    <2>2. CASE Reschedules
      <3>1. PICK new \in Entry : Pending' = {new}
        BY <2>1, <2>2, RescheduledPending
      <3>2. pc' # "presence" /\ phase' # "callback"
        BY <2>1, <2>2, Rescheduled
      <3>3. QED
        BY <3>1, <3>2 DEF Chain, OneChain
    <2>3. CASE UNCHANGED <<schedulerVars, pc, shownAt>>
      BY <1>2, <2>1, <2>3, PendingKept DEF schedulerVars
    <2>4. QED
      BY <1>10, <2>2, <2>3, PresenceSteps
  <1>11. CASE RunReturns \/ UNCHANGED vars
    BY <1>2, <1>11, PendingKept DEF RunReturns, vars, schedulerVars, outsideVars
  <1>12. QED
    BY <1>3, <1>4, <1>5, <1>6, <1>7, <1>8, <1>9, <1>10, <1>11 DEF Next

LEMMA AutoUpdateKept == autoUpdate = idle /\ [Next]_vars => autoUpdate' = idle'
  <1>1. ASSUME autoUpdate = idle, UNCHANGED <<autoUpdate, idle>> PROVE autoUpdate' = idle'
    BY <1>1
  <1>2. Leaves => autoUpdate' = idle'
    BY DEF Leaves
  <1>3. EnterIdleState => autoUpdate' = idle'
    BY DEF EnterIdleState
  <1>4. [Next]_vars => EnterIdleState \/ Leaves \/ UNCHANGED <<autoUpdate, idle>>
    BY SchedulerSteps, PresenceSteps
    DEF Next, vars, outsideVars, TimePasses, Input, Sync, StaysActive, StaysIdle, Polled, PollFails,
        EnterFails, LeaveIdleState, UpdateDiscordWhenIdle, UpdateDiscordWhenActive, RunReturns
  <1>5. QED
    BY <1>1, <1>2, <1>3, <1>4

LEMMA RefreshingKept == RefreshInv /\ [Next]_vars => Refreshing'
  <1> SUFFICES ASSUME RefreshInv, [Next]_vars, idle', pc' # "presence", phase' # "callback"
               PROVE  \E e \in Pending' : e.at = shownAt' + Period
    BY AutoUpdateKept DEF RefreshInv, Refreshing
  <1>1. ASSUME idle, pc # "presence", phase # "callback", Pending' = Pending, UNCHANGED shownAt
        PROVE  \E e \in Pending' : e.at = shownAt' + Period
    BY <1>1 DEF RefreshInv, Refreshing
  <1>2. CASE TimePasses \/ Input
    BY <1>1, <1>2, PendingKept DEF TimePasses, Input, schedulerVars
  <1>3. CASE Sync
    BY <1>1, <1>3, PendingKept DEF Sync, UpdateScheduledEvents
  <1>4. CASE SchedulerStep
    BY <1>1, <1>4, SchedulerPending, SchedulerSteps
  <1>5. CASE StaysActive \/ EnterFails \/ LeaveIdleState \/ RunReturns
    BY <1>1, <1>5, PendingKept
    DEF StaysActive, EnterFails, LeaveIdleState, Leaves, RunReturns, schedulerVars
  <1>6. CASE StaysIdle \/ Polled \/ PollFails
    BY <1>1, <1>6, PendingKept DEF StaysIdle, Polled, PollFails, schedulerVars
  <1>7. CASE EnterIdleState \/ UpdateDiscordWhenIdle
    BY <1>7 DEF EnterIdleState, UpdateDiscordWhenIdle
  <1>8. CASE UpdateDiscordWhenActive
    BY <1>8 DEF UpdateDiscordWhenActive, outsideVars
  <1>9. CASE PresenceUpdated \/ PresenceFails
    <2>1. Reschedules /\ pc = "presence"
      BY <1>9, PresenceSteps
    <2>2. PICK new \in Entry : new.at = timer + Period /\ Pending' = Pending \cup {new}
      BY <2>1, RescheduledPending
    <2>3. shownAt' = timer
      BY <2>1, Rescheduled
    <2>4. QED
      BY <2>2, <2>3
  <1>10. CASE UNCHANGED vars
    BY <1>1, <1>10, PendingKept DEF vars, schedulerVars, outsideVars
  <1>11. QED
    BY <1>2, <1>3, <1>4, <1>5, <1>6, <1>7, <1>8, <1>9, <1>10 DEF Next

LEMMA SpecRefreshInv == Spec => []RefreshInv
  <1>1. RefreshInv /\ [Next]_vars => TypeOK' /\ NoConnectionLeaks' /\ VisitsPair'
    BY DiscordType, OtherType DEF Next
  <1>2. RefreshInv /\ [Next]_vars => RefreshInv'
    BY <1>1, PlaceKept, ClocksKept, FiledKept, ComesBackKept, DiesOutKept, ChainKept, RefreshingKept
    DEF RefreshInv
  <1>3. QED
    BY <1>2, InitRefreshInv, PTL DEF Spec

-----------------------------------------------------------------------------

(* Every variable keeps its type, and there is one connection to Discord or*)
(* none, however often connecting and polling fail (Outside.lua:84-126).   *)
THEOREM OutsideInvHolds == Spec => []OutsideInv
  BY SpecRefreshInv, PTL DEF RefreshInv, OutsideInv

(* OnEnterIdleState and OnLeaveIdleState come in pairs, also at the end.   *)
THEOREM VisitsPairThm == Spec => []VisitsPair
  BY SpecRefreshInv, PTL DEF RefreshInv

(* Two idle states never have two chains of refreshes, when the idle time  *)
(* is the period and two iterations or longer (Outside.lua:76, 118-120).   *)
THEOREM OneChainThm == Spec => []OneChain
  BY SpecRefreshInv, PTL DEF RefreshInv, Chain

(* The chain of an idle state does not break and is not late.              *)
THEOREM PresenceKeepsUpThm == Spec => []PresenceKeepsUp
  <1>1. RefreshInv => PresenceKeepsUp
    <2> SUFFICES ASSUME RefreshInv, pc = "next", idle
                 PROVE  autoUpdate /\ Pending # {} /\ timer < shownAt + Period
      BY DEF PresenceKeepsUp, Period
    <2>1. autoUpdate
      BY DEF RefreshInv, Refreshing
    <2>2. phase = "idle"
      BY DEF RefreshInv, RefreshPlace
    <2>3. PICK e \in Pending : e.at = shownAt + Period
      BY <2>2 DEF RefreshInv, Refreshing
    <2>4. e.at > timer
      BY <2>2, <2>3 DEF RefreshInv, Filed, Pending
    <2>5. QED
      BY <2>1, <2>3, <2>4, Numbers DEF RefreshInv
  <1>2. QED
    BY <1>1, SpecRefreshInv, PTL
=============================================================================
