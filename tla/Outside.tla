------------------------------ MODULE Outside ------------------------------
(***************************************************************************)
(* The Outside plugin (Build/Plugins/Outside.lua): while the user is away  *)
(* from the keyboard it shows a presence in Discord.  The idle state is    *)
(* looked at in the OnUpdate event of every loop iteration; the presence   *)
(* is refreshed by the UpdateDiscord event, which executes once when the   *)
(* idle state is entered and then reschedules itself.  Discord may go away *)
(* and come back at any moment.                                            *)
(***************************************************************************)
EXTENDS Scheduler

CONSTANTS
    UpdateDiscord,   \* the event, the only member of Events
    UpdatePeriod,    \* its delay in seconds: 5 in the code
    MinIdleTime,     \* seconds without input that make the user idle
    MaxIteration,    \* milliseconds one loop iteration takes at most
    MaxTime          \* bound: milliseconds of a behaviour

ASSUME OutsideAssumption ==
    /\ Events = {UpdateDiscord}
    /\ UpdatePeriod \in Nat \ {0}
    /\ {MinIdleTime, MaxIteration, MaxTime} \subseteq Nat

(* The demo asks for 10 minutes (demo_outside.lua:9); an iteration takes   *)
(* 200 ms unless a callback blocks (Gateway.lua:111).                      *)
ASSUME MinIdleTimeAssumption ==
    MinIdleTime * MsPerSecond >= UpdatePeriod * MsPerSecond + 2 * MaxIteration

VARIABLES
    pc,          \* where the loop is
    now,         \* the time
    synced,      \* the time when the iteration began
    lastInput,   \* the time of the user's last input
    idle,        \* IdleTimestamp is not nil
    autoUpdate,  \* DiscordAutoUpdate
    handle,      \* Discord.Handle is not nil
    objects,     \* history: DiscordRPC objects allocated and not freed
    visits,      \* history: executions of OnEnterIdleState less OnLeaveIdleState
    shownAt      \* history: timer at the last refresh

outsideVars == <<pc, now, synced, lastInput, idle, autoUpdate, handle, objects, visits, shownAt>>
vars == <<schedulerVars, outsideVars>>

TypeOK ==
    /\ SchedulerTypeOK
    /\ pc \in {"next", "events", "OnUpdate", "poll", "presence", "returned"}
    /\ {now, synced, lastInput, shownAt, objects} \subseteq Nat
    /\ {idle, autoUpdate, handle} \subseteq BOOLEAN
    /\ visits \in Int

Init ==
    /\ SchedulerInit
    /\ pc = "next"
    /\ now = 0
    /\ synced = 0
    /\ lastInput = 0
    /\ idle = FALSE
    /\ autoUpdate = FALSE
    /\ handle = FALSE
    /\ objects = 0
    /\ visits = 0
    /\ shownAt = 0

-----------------------------------------------------------------------------
(* Time and the user.                                                      *)

TimePasses ==
    /\ pc # "returned"
    /\ now < MaxTime
    /\ now < synced + MaxIteration
    /\ now' = now + 1
    /\ UNCHANGED <<schedulerVars, pc, synced, lastInput, idle, autoUpdate, handle,
                   objects, visits, shownAt>>

Input ==
    /\ lastInput' = now
    /\ UNCHANGED <<schedulerVars, pc, now, synced, idle, autoUpdate, handle,
                   objects, visits, shownAt>>

(* Mutant: milliseconds are compared with seconds.                         *)
UserIsIdleTooSoon == now - lastInput >= MinIdleTime

UserIsIdle == now - lastInput >= MinIdleTime * MsPerSecond

-----------------------------------------------------------------------------
(* The loop of the gateway.                                                *)

Sync ==
    /\ pc = "next"
    /\ UpdateScheduledEvents(now - synced)
    /\ synced' = now
    /\ pc' = "events"
    /\ UNCHANGED <<now, lastInput, idle, autoUpdate, handle, objects, visits, shownAt>>

SchedulerStep ==
    /\ pc = "events"
    /\ \/ PickBucket /\ UNCHANGED pc
       \/ RunEntry /\ UNCHANGED pc
       \/ DropBucket /\ UNCHANGED pc
       \/ NothingDue /\ pc' = "OnUpdate"
    /\ UNCHANGED <<now, synced, lastInput, idle, autoUpdate, handle, objects, visits, shownAt>>

-----------------------------------------------------------------------------
(* Discord: the old object, if any, is freed before the next is allocated. *)

Deinit == handle' = FALSE /\ objects' = objects - (IF handle THEN 1 ELSE 0)

(* Mutant: the old object is not freed.                                    *)
ReinitLeaks(success) ==
    /\ handle' = success
    /\ objects' = objects + (IF success THEN 1 ELSE 0)

Reinit(success) ==
    /\ handle' = success
    /\ objects' = objects - (IF handle THEN 1 ELSE 0) + (IF success THEN 1 ELSE 0)

-----------------------------------------------------------------------------
(* The OnUpdate event: UpdateIdleState.                                    *)

StaysActive ==
    /\ pc = "OnUpdate"
    /\ ~idle /\ ~UserIsIdle
    /\ pc' = "next"
    /\ UNCHANGED <<schedulerVars, now, synced, lastInput, idle, autoUpdate, handle,
                   objects, visits, shownAt>>

(* Without Discord there is no idle state.                                 *)
EnterFails ==
    /\ pc = "OnUpdate"
    /\ ~idle /\ UserIsIdle
    /\ pc' = "next"
    /\ handle' = FALSE
    /\ UNCHANGED <<schedulerVars, now, synced, lastInput, idle, autoUpdate, objects,
                   visits, shownAt>>

EnterIdleState ==
    /\ pc = "OnUpdate"
    /\ ~idle /\ UserIsIdle
    /\ idle' = TRUE
    /\ autoUpdate' = TRUE
    /\ handle' = TRUE
    /\ objects' = objects + 1
    /\ visits' = visits + 1
    /\ pc' = "presence"
    /\ UNCHANGED <<schedulerVars, now, synced, lastInput, shownAt>>

Leaves ==
    /\ autoUpdate' = FALSE
    /\ visits' = visits - 1
    /\ Deinit
    /\ idle' = FALSE

LeaveIdleState ==
    /\ pc = "OnUpdate"
    /\ idle /\ ~UserIsIdle
    /\ Leaves
    /\ pc' = "next"
    /\ UNCHANGED <<schedulerVars, now, synced, lastInput, shownAt>>

StaysIdle ==
    /\ pc = "OnUpdate"
    /\ idle /\ UserIsIdle
    /\ pc' = "poll"
    /\ UNCHANGED <<schedulerVars, now, synced, lastInput, idle, autoUpdate, handle,
                   objects, visits, shownAt>>

Polled ==
    /\ pc = "poll"
    /\ handle
    /\ pc' = "next"
    /\ UNCHANGED <<schedulerVars, now, synced, lastInput, idle, autoUpdate, handle,
                   objects, visits, shownAt>>

(* Poll fails: connect again and poll again, or wait for the next update.  *)
PollFails ==
    /\ pc = "poll"
    /\ \E success \in BOOLEAN :
         /\ Reinit(success)
         /\ pc' = IF success THEN "poll" ELSE "next"
    /\ UNCHANGED <<schedulerVars, now, synced, lastInput, idle, autoUpdate, visits, shownAt>>

-----------------------------------------------------------------------------
(* The UpdateDiscord event, from EnterIdleState or from the scheduler.     *)

UpdateDiscordWhenIdle ==
    /\ pc = "events"
    /\ phase = "callback"
    /\ idle
    /\ pc' = "presence"
    /\ UNCHANGED <<schedulerVars, now, synced, lastInput, idle, autoUpdate, handle,
                   objects, visits, shownAt>>

UpdateDiscordWhenActive ==
    /\ pc = "events"
    /\ ~idle
    /\ EntryReturns
    /\ UNCHANGED outsideVars

(* The presence was updated, or Discord cannot be reached.                 *)
Reschedules ==
    /\ shownAt' = timer
    /\ table' = IF autoUpdate
                THEN table \cup {[id |-> nextId, event |-> UpdateDiscord,
                                  at |-> timer + UpdatePeriod * MsPerSecond]}
                ELSE table
    /\ nextId' = nextId + (IF autoUpdate THEN 1 ELSE 0)
    /\ pc' = IF phase = "callback" THEN "events" ELSE "next"
    /\ phase' = IF phase = "callback" THEN "bucket" ELSE phase
    /\ UNCHANGED <<timer, bucket, cursor>>

PresenceUpdated ==
    /\ pc = "presence"
    /\ handle
    /\ Reschedules
    /\ UNCHANGED <<now, synced, lastInput, idle, autoUpdate, handle, objects, visits>>

(* Mutant: an event that could not reach Discord is not scheduled again.   *)
PresenceFailsGivesUp ==
    /\ pc = "presence"
    /\ \E success \in BOOLEAN :
         /\ Reinit(success)
         /\ IF success
            THEN UNCHANGED <<schedulerVars, pc, shownAt>>
            ELSE /\ pc' = IF phase = "callback" THEN "events" ELSE "next"
                 /\ phase' = IF phase = "callback" THEN "bucket" ELSE phase
                 /\ UNCHANGED <<timer, table, nextId, bucket, cursor, shownAt>>
    /\ UNCHANGED <<now, synced, lastInput, idle, autoUpdate, visits>>

PresenceFails ==
    /\ pc = "presence"
    /\ \E success \in BOOLEAN :
         /\ Reinit(success)
         /\ IF success THEN UNCHANGED <<schedulerVars, pc, shownAt>> ELSE Reschedules
    /\ UNCHANGED <<now, synced, lastInput, idle, autoUpdate, visits>>

-----------------------------------------------------------------------------

(* Mutant: Run returns in the idle state.                                  *)
RunReturnsIdle ==
    /\ pc = "next"
    /\ pc' = "returned"
    /\ UNCHANGED <<schedulerVars, now, synced, lastInput, idle, autoUpdate, handle,
                   objects, visits, shownAt>>

(* Gateway.Run returned: Outside.Run leaves the idle state.                *)
RunReturns ==
    /\ pc = "next"
    /\ IF idle THEN Leaves ELSE UNCHANGED <<autoUpdate, visits, handle, objects, idle>>
    /\ pc' = "returned"
    /\ UNCHANGED <<schedulerVars, now, synced, lastInput, shownAt>>

Next ==
    \/ TimePasses \/ Input
    \/ Sync \/ SchedulerStep
    \/ StaysActive \/ EnterFails \/ EnterIdleState \/ LeaveIdleState \/ StaysIdle
    \/ Polled \/ PollFails
    \/ UpdateDiscordWhenIdle \/ UpdateDiscordWhenActive \/ PresenceUpdated \/ PresenceFails
    \/ RunReturns

Spec == Init /\ [][Next]_vars

-----------------------------------------------------------------------------

(* The refreshes that have not been executed yet.                          *)
Pending == {e \in table : ~(e.at = bucket /\ e.id <= cursor)}

(* There is one chain of refreshes, however often the user comes and goes: *)
(* the last refresh of an idle state dies before the next idle state can   *)
(* begin a chain (Outside.lua:76, 118-120, 400-401).  It takes a           *)
(* MinIdleTime of the refresh period and two iterations, or more.          *)
OneChain == \A d, e \in Pending : d = e

(* While the user is idle the chain does not break, whatever Discord does, *)
(* and the presence is refreshed in the first update of every period.      *)
PresenceKeepsUp ==
    pc = "next" /\ idle =>
        /\ autoUpdate /\ Pending # {}
        /\ timer < shownAt + UpdatePeriod * MsPerSecond

(* There is never more than one connection to Discord, none is lost, and   *)
(* none is open while the user is at the keyboard or after Run.            *)
NoConnectionLeaks ==
    /\ objects = IF handle THEN 1 ELSE 0
    /\ ~idle => ~handle

(* Every OnEnterIdleState is followed by one OnLeaveIdleState, at the      *)
(* latest when Run returns.                                                *)
VisitsPair ==
    /\ visits = IF idle THEN 1 ELSE 0
    /\ pc = "returned" => visits = 0

(* The types, and the one connection to Discord.                           *)
OutsideInv == TypeOK /\ NoConnectionLeaks
=============================================================================
