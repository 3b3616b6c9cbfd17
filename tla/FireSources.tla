----------------------------- MODULE FireSources -----------------------------
(***************************************************************************)
(* The sources of the FireWatch plugin (Build/Plugins/FireWatch.lua): once *)
(* per poll interval the PollSources event tries to connect to every end   *)
(* point the script has added.  It reschedules itself before it polls.     *)
(*                                                                         *)
(* User code runs in the other callbacks of the gateway's loop and in the  *)
(* OnSourceConnectionFailed event; it may add and remove end points, also  *)
(* while they are enumerated, change the interval and send.                *)
(***************************************************************************)
EXTENDS Scheduler

CONSTANTS
    PollSources,   \* the event, the only member of Events
    EndPoints,     \* pairs of host and port
    Intervals,     \* poll intervals in seconds: 10 if the script sets none
    Deltas,        \* milliseconds Loop.Sync measures
    MaxTimer       \* bound: milliseconds the timer advances

ASSUME FireSourcesAssumption ==
    /\ Events = {PollSources}
    /\ Intervals \subseteq Nat \ {0}
    /\ Deltas \subseteq Nat
    /\ MaxTimer \in Nat

VARIABLES
    pc,          \* where the loop is
    endpoints,   \* Sources.EndPoints
    interval,    \* Sources.PollInterval
    todo,        \* end points the running enumeration has not reached
    current,     \* Enumerate goes through the table of now, not a cleared one
    sockets,     \* history: number of sockets that are open
    due          \* history: when the last poll has scheduled the next one for

sourceVars == <<endpoints, interval, todo, current>>
vars == <<schedulerVars, pc, sourceVars, sockets, due>>

TypeOK ==
    /\ SchedulerTypeOK
    /\ pc \in {"script", "poll", "connect", "failed", "connected", "events",
              "callbacks", "error"}
    /\ {endpoints, todo} \subseteq SUBSET EndPoints
    /\ interval \in Intervals
    /\ current \in BOOLEAN
    /\ sockets \in Nat
    /\ due \in Nat

Init ==
    /\ SchedulerInit
    /\ pc = "script"
    /\ endpoints = {}
    /\ interval \in Intervals
    /\ todo = {}
    /\ current = TRUE
    /\ sockets = 0
    /\ due = 0

-----------------------------------------------------------------------------
(* The PollSources event, executed by OnConnected and by the scheduler.    *)

(* Mutant: a poll without end points is not scheduled again.               *)
PollIfAny ==
    /\ IF endpoints = {} THEN UNCHANGED schedulerVars ELSE ScheduleEvent(PollSources, interval)
    /\ todo' = endpoints
    /\ current' = TRUE
    /\ due' = timer + interval * MsPerSecond
    /\ pc' = "poll"
    /\ UNCHANGED <<endpoints, interval, sockets>>

Poll ==
    /\ ScheduleEvent(PollSources, interval)
    /\ todo' = endpoints
    /\ current' = TRUE
    /\ due' = timer + interval * MsPerSecond
    /\ pc' = "poll"
    /\ UNCHANGED <<endpoints, interval, sockets>>

OnConnected == pc = "script" /\ Poll
PollWhenDue == pc = "events" /\ phase = "callback" /\ Poll

(* The next end point of the enumeration: it is never connected, so a      *)
(* socket is opened for it.                                                *)
ConnectSource(e) ==
    /\ pc = "poll"
    /\ e \in todo
    /\ todo' = todo \ {e}
    /\ sockets' = sockets + 1
    /\ pc' = "connect"
    /\ UNCHANGED <<schedulerVars, endpoints, interval, current, due>>

(* Mutant: the socket of a connection that failed is not closed.           *)
ConnectFailsLeaks ==
    /\ pc = "connect"
    /\ pc' = "failed"
    /\ UNCHANGED <<schedulerVars, sourceVars, sockets, due>>

(* The socket is closed and OnSourceConnectionFailed executed.             *)
ConnectFails ==
    /\ pc = "connect"
    /\ sockets' = sockets - 1
    /\ pc' = "failed"
    /\ UNCHANGED <<schedulerVars, sourceVars, due>>

(* Sources.Sockets is nil: storing the socket raises an error, which ends  *)
(* the script with the socket open.                                        *)
SourceAccepts ==
    /\ pc = "connect"
    /\ pc' = "error"
    /\ UNCHANGED <<schedulerVars, sourceVars, sockets, due>>

FailedCallbackReturns ==
    /\ pc = "failed"
    /\ pc' = "poll"
    /\ UNCHANGED <<schedulerVars, sourceVars, sockets, due>>

(* Back to the scheduler, or to OnConnected.                               *)
PollEnds ==
    /\ pc = "poll"
    /\ todo = {}
    /\ IF phase = "callback"
       THEN EntryReturns /\ pc' = "events"
       ELSE UNCHANGED schedulerVars /\ pc' = "connected"
    /\ UNCHANGED <<sourceVars, sockets, due>>

-----------------------------------------------------------------------------
(* The gateway's loop.                                                     *)

SchedulerStep ==
    /\ pc = "events"
    /\ \/ PickBucket /\ UNCHANGED pc
       \/ RunEntry /\ UNCHANGED pc
       \/ DropBucket /\ UNCHANGED pc
       \/ NothingDue /\ pc' = "callbacks"
    /\ UNCHANGED <<sourceVars, sockets, due>>

FirstUpdate ==
    /\ pc = "connected"
    /\ UpdateScheduledEvents(0)
    /\ pc' = "events"
    /\ UNCHANGED <<sourceVars, sockets, due>>

Sync ==
    /\ pc = "callbacks"
    /\ \E delta \in Deltas : timer + delta <= MaxTimer /\ UpdateScheduledEvents(delta)
    /\ pc' = "events"
    /\ UNCHANGED <<sourceVars, sockets, due>>

-----------------------------------------------------------------------------
(* User code.                                                              *)

InUserCode  == pc \in {"script", "connected", "failed", "callbacks"}
Enumerating == pc = "failed" /\ current

(* Assigning a new field while pairs() traverses the table leaves it       *)
(* undefined what the traversal still visits.                              *)
Add(e) ==
    /\ InUserCode
    /\ e \notin endpoints
    /\ endpoints' = endpoints \cup {e}
    /\ IF Enumerating
       THEN todo' \in SUBSET endpoints'
       ELSE UNCHANGED todo
    /\ UNCHANGED <<schedulerVars, pc, interval, current, sockets, due>>

Remove(e) ==
    /\ InUserCode
    /\ e \in endpoints
    /\ endpoints' = endpoints \ {e}
    /\ todo' = IF Enumerating THEN todo \ {e} ELSE todo
    /\ UNCHANGED <<schedulerVars, pc, interval, current, sockets, due>>

(* The enumeration goes on through the table that was replaced.            *)
Clear ==
    /\ InUserCode
    /\ endpoints' = {}
    /\ current' = IF pc = "failed" THEN FALSE ELSE current
    /\ UNCHANGED <<schedulerVars, pc, todo, interval, sockets, due>>

(* It takes effect when the next poll but one is scheduled.                *)
SetPollInterval(value) ==
    /\ InUserCode
    /\ interval' = value
    /\ UNCHANGED <<schedulerVars, pc, endpoints, todo, current, sockets, due>>

(* A send that fails disconnects the gateway; FireWatch's OnDisconnected   *)
(* callback calls a function that does not exist and raises an error.      *)
SendMessageFails ==
    /\ pc \in {"connected", "failed", "callbacks"}
    /\ pc' = "error"
    /\ UNCHANGED <<schedulerVars, sourceVars, sockets, due>>

-----------------------------------------------------------------------------

Next ==
    \/ OnConnected \/ PollWhenDue \/ PollEnds \/ FailedCallbackReturns
    \/ \E e \in EndPoints : ConnectSource(e)
    \/ ConnectFails \/ SourceAccepts
    \/ FirstUpdate \/ SchedulerStep \/ Sync
    \/ \E e \in EndPoints : Add(e) \/ Remove(e)
    \/ Clear
    \/ \E value \in Intervals : SetPollInterval(value)
    \/ SendMessageFails

Spec == Init /\ [][Next]_vars

-----------------------------------------------------------------------------

Pending == {e \in table : ~(e.at = bucket /\ e.id <= cursor)}

(* While the loop runs exactly one poll lies ahead, whatever the callbacks *)
(* of a poll do (FireWatch.lua:63-66).                                     *)
OnePollPending ==
    pc \in {"poll", "connect", "failed", "connected", "callbacks"} =>
        \E e \in table : Pending = {e}

(* A scheduled poll runs in the first update at which the interval that    *)
(* was set when the poll before it began is over: never before, and no     *)
(* update ends with a poll overdue, whatever has become of the interval    *)
(* meanwhile and however long callbacks take (FireWatch.lua:63-66, 370-376,*)
(* Gateway.lua:229-250).                                                   *)
PollsKeepTime ==
    [][/\ PollWhenDue => due <= timer
       /\ pc = "events" /\ pc' = "callbacks" => timer < due]_vars

(* Whatever the attempts of all polls together come to, their sockets are  *)
(* closed: one is open while it connects, and after an error of the script *)
(* at most that one (FireWatch.lua:400-414).                               *)
AttemptsLeaveNoSocket ==
    /\ pc = "connect" => sockets = 1
    /\ pc = "error" => sockets \in {0, 1}
    /\ pc \notin {"connect", "error"} => sockets = 0

(* The types, and the sockets of attempts.                                 *)
SourcesInv == TypeOK /\ AttemptsLeaveNoSocket
=============================================================================
