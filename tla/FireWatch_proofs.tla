--------------------------- MODULE FireWatch_proofs ---------------------------
(* Proofs about the FireWatch plugin.  FireSources: for all end points,    *)
(* intervals and user code.                                                *)
EXTENDS FireSources, FireZones, Scheduler_proofs, TLAPS

(* Between two polls one entry is pending, while one runs none until it has*)
(* rescheduled itself; the traversal only runs what is due.                *)
OnePending  == \E e \in table : Pending = {e} /\ e.at = due
NonePending == Pending = {}

Polling == pc \in {"poll", "connect", "failed"}

PollPlace ==
    /\ pc \in {"script", "connected", "callbacks"} => phase = "idle"
    /\ Polling => phase \in {"idle", "callback"}
    /\ pc = "events" => phase # "idle"
    /\ pc = "script" => table = {}
    /\ phase \in {"idle", "scan"} => bucket = NoBucket
    /\ phase \in {"bucket", "callback"} => bucket <= timer

PollChain ==
    /\ Polling \/ pc \in {"connected", "callbacks"} => OnePending
    /\ pc = "events" => IF phase = "callback" THEN NonePending /\ due <= timer ELSE OnePending

PollInv == SourcesInv /\ PollPlace /\ PollChain

-----------------------------------------------------------------------------

LEMMA KeepsSchedulerType ==
    ASSUME SchedulerTypeOK, UNCHANGED schedulerVars
    PROVE  SchedulerTypeOK'
  BY DEF SchedulerTypeOK, schedulerVars

LEMMA InitPollInv == Init => PollInv
  <1> SUFFICES ASSUME Init PROVE PollInv
    OBVIOUS
  <1>1. SchedulerTypeOK
    BY DEF Init, SchedulerInit, SchedulerTypeOK, Phases
  <1>2. current \in BOOLEAN
    BY Zenon DEF Init
  <1>3. TypeOK
    BY <1>1, <1>2 DEF Init, TypeOK
  <1>4. QED
    BY <1>3 DEF Init, SchedulerInit, PollInv, SourcesInv, AttemptsLeaveNoSocket, PollPlace,
                PollChain, Polling

-----------------------------------------------------------------------------
(* The types, and the sockets of attempts.                                 *)

LEMMA PollType == TypeOK /\ Poll => TypeOK'
  <1> SUFFICES ASSUME TypeOK, Poll PROVE TypeOK'
    OBVIOUS
  <1>1. PollSources \in Events /\ interval \in Nat
    BY FireSourcesAssumption DEF TypeOK
  <1>2. SchedulerTypeOK'
    BY <1>1, ScheduleEventType DEF Poll, TypeOK
  <1>3. current' \in BOOLEAN
    BY Zenon DEF Poll
  <1>4. due' \in Nat
    BY <1>1, DelayInMilliseconds DEF Poll, TypeOK, SchedulerTypeOK
  <1>5. QED
    BY <1>2, <1>3, <1>4 DEF Poll, TypeOK

LEMMA LoopType ==
    TypeOK /\ (PollEnds \/ FailedCallbackReturns \/ FirstUpdate \/ SchedulerStep \/ Sync) => TypeOK'
  <1> SUFFICES ASSUME TypeOK PROVE (PollEnds \/ FailedCallbackReturns \/ FirstUpdate
                                     \/ SchedulerStep \/ Sync) => TypeOK'
    OBVIOUS
  <1> USE DEF TypeOK, sourceVars
  <1>1. CASE PollEnds
    <2>1. SchedulerTypeOK'
      BY <1>1, ExecutingType, KeepsSchedulerType DEF PollEnds
    <2>2. QED
      BY <1>1, <2>1 DEF PollEnds
  <1>2. CASE FailedCallbackReturns
    BY <1>2, KeepsSchedulerType DEF FailedCallbackReturns
  <1>3. CASE FirstUpdate
    BY <1>3, UpdateType DEF FirstUpdate
  <1>4. CASE SchedulerStep
    BY <1>4, ExecutingType DEF SchedulerStep
  <1>5. CASE Sync
    BY <1>5, UpdateType, FireSourcesAssumption DEF Sync
  <1>6. QED
    BY <1>1, <1>2, <1>3, <1>4, <1>5

LEMMA EndPointType ==
    ASSUME TypeOK, NEW e \in EndPoints,
           ConnectSource(e) \/ Add(e) \/ Remove(e)
    PROVE  TypeOK'
  <1> USE DEF TypeOK
  <1>1. CASE ConnectSource(e)
    BY <1>1, KeepsSchedulerType DEF ConnectSource
  <1>2. CASE Add(e)
    <2>1. todo' \subseteq EndPoints /\ endpoints' \subseteq EndPoints
      BY <1>2 DEF Add
    <2>2. QED
      BY <1>2, <2>1, KeepsSchedulerType DEF Add
  <1>3. CASE Remove(e)
    BY <1>3, KeepsSchedulerType DEF Remove
  <1>4. QED
    BY <1>1, <1>2, <1>3

LEMMA AttemptType ==
    ASSUME TypeOK, AttemptsLeaveNoSocket, ConnectFails \/ SourceAccepts
    PROVE  TypeOK'
  BY KeepsSchedulerType
  DEF TypeOK, AttemptsLeaveNoSocket, sourceVars, ConnectFails, SourceAccepts

LEMMA ScriptType ==
    ASSUME TypeOK, Clear \/ (\E value \in Intervals : SetPollInterval(value)) \/ SendMessageFails
    PROVE  TypeOK'
  <1> USE DEF TypeOK, sourceVars
  <1>1. CASE Clear
    <2>1. current' \in BOOLEAN
      BY <1>1, Zenon DEF Clear
    <2>2. QED
      BY <1>1, <2>1, KeepsSchedulerType DEF Clear
  <1>2. ASSUME NEW value \in Intervals, SetPollInterval(value) PROVE TypeOK'
    BY <1>2, KeepsSchedulerType DEF SetPollInterval
  <1>3. CASE SendMessageFails
    BY <1>3, KeepsSchedulerType DEF SendMessageFails
  <1>4. QED
    BY <1>1, <1>2, <1>3

LEMMA NextType == SourcesInv /\ [Next]_vars => TypeOK'
  <1>1. TypeOK /\ UNCHANGED vars => TypeOK'
    BY KeepsSchedulerType DEF TypeOK, vars, sourceVars
  <1>2. QED
    BY <1>1, PollType, LoopType, EndPointType, AttemptType, ScriptType
    DEF SourcesInv, Next, OnConnected, PollWhenDue

LEMMA NextSockets == SourcesInv /\ [Next]_vars => AttemptsLeaveNoSocket'
  <1> SUFFICES ASSUME SourcesInv, [Next]_vars PROVE AttemptsLeaveNoSocket'
    OBVIOUS
  <1> USE DEF SourcesInv, AttemptsLeaveNoSocket
  <1>1. CASE OnConnected \/ PollWhenDue
    BY <1>1 DEF OnConnected, PollWhenDue, Poll
  <1>2. ASSUME NEW e \in EndPoints, ConnectSource(e) PROVE AttemptsLeaveNoSocket'
    BY <1>2 DEF ConnectSource
  <1>3. CASE ConnectFails \/ SourceAccepts
    BY <1>3 DEF ConnectFails, SourceAccepts
  <1>4. CASE PollEnds \/ FailedCallbackReturns \/ FirstUpdate \/ SchedulerStep \/ Sync
    BY <1>4 DEF PollEnds, FailedCallbackReturns, FirstUpdate, SchedulerStep, Sync
  <1>5. ASSUME NEW e \in EndPoints, Add(e) \/ Remove(e) PROVE AttemptsLeaveNoSocket'
    BY <1>5 DEF Add, Remove, InUserCode
  <1>6. CASE Clear \/ (\E value \in Intervals : SetPollInterval(value)) \/ SendMessageFails
    BY <1>6 DEF Clear, SetPollInterval, SendMessageFails, InUserCode
  <1>7. CASE UNCHANGED vars
    BY <1>7 DEF vars
  <1>8. QED
    BY <1>1, <1>2, <1>3, <1>4, <1>5, <1>6, <1>7 DEF Next

-----------------------------------------------------------------------------
(* One poll lies ahead.                                                    *)

(* A new entry is never in the bucket that is being executed.              *)
LEMMA PollChained ==
    ASSUME TypeOK, Poll, NonePending, bucket <= timer
    PROVE  OnePending'
  <1> DEFINE new == [id |-> nextId, at |-> timer + interval * MsPerSecond, event |-> PollSources]
  <1>1. table' = table \cup {new} /\ bucket' = bucket /\ cursor' = cursor /\ due' = new.at
    BY DEF Poll, ScheduleEvent
  <1>2. interval \in Nat /\ interval # 0
    BY FireSourcesAssumption DEF TypeOK
  <1>3. interval * MsPerSecond \in Nat /\ interval * MsPerSecond > 0
    BY <1>2, DelayInMilliseconds
  <1>4. timer \in Nat /\ bucket \in Int
    BY DEF TypeOK, SchedulerTypeOK, NoBucket
  <1>5. new.at > bucket
    BY <1>3, <1>4
  <1>6. Pending' = {new}
    BY <1>1, <1>4, <1>5 DEF Pending, NonePending
  <1>7. QED
    BY <1>1, <1>6 DEF OnePending

LEMMA PendingKept ==
    ASSUME UNCHANGED <<table, bucket, cursor, due>>
    PROVE  OnePending' = OnePending /\ NonePending' = NonePending
  BY DEF OnePending, NonePending, Pending

LEMMA PollPlaceKept == TypeOK /\ PollPlace /\ [Next]_vars => PollPlace'
  <1> SUFFICES ASSUME TypeOK, PollPlace, [Next]_vars PROVE PollPlace'
    OBVIOUS
  <1> USE DEF PollPlace, Polling
  <1>1. CASE OnConnected \/ PollWhenDue
    BY <1>1 DEF OnConnected, PollWhenDue, Poll, ScheduleEvent
  <1>2. CASE PollEnds
    BY <1>2 DEF PollEnds, EntryReturns, schedulerVars
  <1>3. CASE FailedCallbackReturns
    BY <1>3 DEF FailedCallbackReturns, schedulerVars
  <1>4. ASSUME \/ ConnectFails \/ SourceAccepts
               \/ \E e \in EndPoints : ConnectSource(e)
        PROVE  PollPlace'
    BY <1>4 DEF ConnectSource, ConnectFails, SourceAccepts, schedulerVars
  <1>5. CASE FirstUpdate \/ Sync
    BY <1>5 DEF FirstUpdate, Sync, UpdateScheduledEvents
  <1>6. CASE SchedulerStep
    <2>1. CASE PickBucket
      BY <1>6, <2>1 DEF SchedulerStep, PickBucket, Due, RunEntry, DropBucket, NothingDue
    <2>2. CASE RunEntry
      BY <1>6, <2>2 DEF SchedulerStep, PickBucket, RunEntry, DropBucket, NothingDue
    <2>3. CASE DropBucket
      BY <1>6, <2>3 DEF SchedulerStep, PickBucket, RunEntry, DropBucket, NothingDue
    <2>4. CASE NothingDue
      BY <1>6, <2>4 DEF SchedulerStep, PickBucket, RunEntry, DropBucket, NothingDue
    <2>5. QED
      BY <1>6, <2>1, <2>2, <2>3, <2>4 DEF SchedulerStep
  <1>7. ASSUME NEW e \in EndPoints, Add(e) \/ Remove(e) PROVE PollPlace'
    BY <1>7 DEF Add, Remove, schedulerVars
  <1>8. CASE Clear \/ SendMessageFails
    BY <1>8 DEF Clear, SendMessageFails, schedulerVars
  <1>9. ASSUME NEW value \in Intervals, SetPollInterval(value) PROVE PollPlace'
    BY <1>9 DEF SetPollInterval, schedulerVars
  <1>10. CASE UNCHANGED vars
    BY <1>10 DEF vars, schedulerVars
  <1>11. QED
    BY <1>1, <1>2, <1>3, <1>4, <1>5, <1>6, <1>7, <1>8, <1>9, <1>10 DEF Next

(* Picking and dropping a bucket leaves pending what was; the traversal    *)
(* that reaches the one entry leaves none.                                 *)
LEMMA SchedulerChain ==
    ASSUME TypeOK, PollPlace, PollChain, SchedulerStep
    PROVE  PollChain'
  <1>1. pc = "events" /\ SchedulerTypeOK
    BY DEF SchedulerStep, TypeOK
  <1>2. ASSUME NEW e \in table PROVE e.id \in Nat \ {0} /\ e.at \in Nat
    BY <1>1 DEF SchedulerTypeOK, Entry
  <1>3. bucket \in Int /\ cursor \in Nat /\ NoBucket \notin Nat
    BY <1>1 DEF SchedulerTypeOK, NoBucket
  <1>4. CASE PickBucket
    <2>1. /\ phase = "scan" /\ phase' = "bucket" /\ table' = table
          /\ cursor' = 0 /\ bucket = NoBucket /\ pc' = pc /\ due' = due
      BY <1>4 DEF PickBucket, SchedulerStep, RunEntry, DropBucket, NothingDue, PollPlace
    <2>2. Pending = table
      BY <1>2, <1>3, <2>1 DEF Pending
    <2>3. Pending' = table
      BY <1>2, <2>1 DEF Pending
    <2>4. OnePending
      BY <1>1, <2>1 DEF PollChain
    <2>5. OnePending'
      BY <2>1, <2>2, <2>3, <2>4 DEF OnePending
    <2>6. QED
      BY <1>1, <2>1, <2>5 DEF PollChain
  <1>5. CASE RunEntry
    <2>1. PICK e \in Remaining : cursor' = e.id
      BY <1>5 DEF RunEntry
    <2>2. /\ phase = "bucket" /\ phase' = "callback" /\ table' = table /\ bucket' = bucket
          /\ pc' = pc /\ due' = due /\ timer' = timer
      BY <1>5 DEF PickBucket, SchedulerStep, RunEntry, DropBucket, NothingDue
    <2>3. e \in Pending /\ e \in table /\ e.at = bucket /\ e.id > cursor
      BY <1>2, <1>3, <2>1 DEF Pending, Remaining
    <2>4. Pending = {e} /\ e.at = due
      BY <1>1, <2>2, <2>3 DEF PollChain, OnePending
    <2>5. ASSUME NEW d \in Pending' PROVE FALSE
      <3>1. d \in table /\ ~(d.at = bucket /\ d.id <= e.id)
        BY <2>1, <2>2, <2>5 DEF Pending
      <3>2. d \in Pending
        BY <1>2, <1>3, <2>3, <3>1 DEF Pending
      <3>3. QED
        BY <1>2, <2>3, <2>4, <3>1, <3>2
    <2>6. NonePending'
      BY <2>5 DEF NonePending
    <2>7. due' <= timer'
      BY <2>2, <2>3, <2>4 DEF PollPlace
    <2>8. QED
      BY <1>1, <2>2, <2>6, <2>7 DEF PollChain, Polling
  <1>6. CASE DropBucket
    <2>1. /\ phase = "bucket" /\ phase' = "scan" /\ bucket' = NoBucket /\ Remaining = {}
          /\ table' = {e \in table : e.at # bucket} /\ pc' = pc /\ due' = due
      BY <1>6 DEF PickBucket, SchedulerStep, RunEntry, DropBucket, NothingDue
    <2>2. PICK e \in table : Pending = {e} /\ e.at = due
      BY <1>1, <2>1 DEF PollChain, OnePending
    <2>3. e.at # bucket
      <3>1. e \in Pending /\ e \notin Remaining
        BY <2>1, <2>2
      <3>2. QED
        BY <1>2, <1>3, <3>1 DEF Pending, Remaining
    <2>4. table' = {e}
      BY <2>1, <2>2, <2>3 DEF Pending
    <2>5. Pending' = {e}
      BY <1>2, <1>3, <2>1, <2>4 DEF Pending
    <2>6. OnePending'
      BY <2>1, <2>2, <2>4, <2>5 DEF OnePending
    <2>7. QED
      BY <1>1, <2>1, <2>6 DEF PollChain
  <1>7. CASE NothingDue
    <2>1. phase = "scan" /\ UNCHANGED <<table, bucket, cursor, due>> /\ pc' \in {"events", "callbacks"}
      BY <1>1, <1>7 DEF SchedulerStep, NothingDue
    <2>2. OnePending /\ phase' # "callback"
      BY <1>1, <1>7, <2>1 DEF PollChain, NothingDue
    <2>3. QED
      BY <2>1, <2>2, PendingKept DEF PollChain
  <1>8. QED
    BY <1>4, <1>5, <1>6, <1>7 DEF SchedulerStep

LEMMA PollChainKept == TypeOK /\ PollPlace /\ PollChain /\ [Next]_vars => PollChain'
  <1> SUFFICES ASSUME TypeOK, PollPlace, PollChain, [Next]_vars PROVE PollChain'
    OBVIOUS
  <1> USE DEF Polling
  <1>1. CASE OnConnected
    <2>1. table = {} /\ bucket = NoBucket /\ timer \in Nat
      BY <1>1 DEF OnConnected, PollPlace, TypeOK, SchedulerTypeOK
    <2>2. NonePending /\ bucket <= timer
      BY <2>1 DEF NonePending, Pending, NoBucket
    <2>3. OnePending' /\ pc' = "poll"
      BY <1>1, <2>2, PollChained DEF OnConnected, Poll
    <2>4. QED
      BY <2>3 DEF PollChain
  <1>2. CASE PollWhenDue
    <2>1. NonePending /\ bucket <= timer
      BY <1>2 DEF PollWhenDue, PollChain, PollPlace
    <2>2. OnePending' /\ pc' = "poll"
      BY <1>2, <2>1, PollChained DEF PollWhenDue, Poll
    <2>3. QED
      BY <2>2 DEF PollChain
  <1>3. CASE PollEnds
    BY <1>3, PendingKept DEF PollEnds, PollChain, EntryReturns, schedulerVars
  <1>4. CASE FailedCallbackReturns
    BY <1>4, PendingKept DEF FailedCallbackReturns, PollChain, schedulerVars
  <1>5. ASSUME \/ ConnectFails \/ SourceAccepts
               \/ \E e \in EndPoints : ConnectSource(e)
        PROVE  PollChain'
    BY <1>5, PendingKept DEF ConnectSource, ConnectFails, SourceAccepts, PollChain, schedulerVars
  <1>6. CASE FirstUpdate \/ Sync
    BY <1>6, PendingKept DEF FirstUpdate, Sync, UpdateScheduledEvents, PollChain
  <1>7. CASE SchedulerStep
    BY <1>7, SchedulerChain
  <1>8. ASSUME NEW e \in EndPoints, Add(e) \/ Remove(e) PROVE PollChain'
    BY <1>8, PendingKept DEF Add, Remove, InUserCode, PollChain, schedulerVars
  <1>9. CASE Clear \/ SendMessageFails
    BY <1>9, PendingKept DEF Clear, SendMessageFails, InUserCode, PollChain, schedulerVars
  <1>10. ASSUME NEW value \in Intervals, SetPollInterval(value) PROVE PollChain'
    BY <1>10, PendingKept DEF SetPollInterval, InUserCode, PollChain, schedulerVars
  <1>11. CASE UNCHANGED vars
    BY <1>11, PendingKept DEF vars, PollChain, schedulerVars
  <1>12. QED
    BY <1>1, <1>2, <1>3, <1>4, <1>5, <1>6, <1>7, <1>8, <1>9, <1>10, <1>11 DEF Next

(* A poll runs once it is due, and an update leaves none that is.          *)
LEMMA StepKeepsTime ==
    PollInv /\ [Next]_vars =>
        /\ PollWhenDue => due <= timer
        /\ pc = "events" /\ pc' = "callbacks" => timer < due
  <1> SUFFICES ASSUME PollInv, [Next]_vars
               PROVE  /\ PollWhenDue => due <= timer
                      /\ pc = "events" /\ pc' = "callbacks" => timer < due
    OBVIOUS
  <1>1. ASSUME PollWhenDue PROVE due <= timer
    BY <1>1 DEF PollInv, PollChain, PollWhenDue
  <1>2. ASSUME pc = "events", pc' = "callbacks" PROVE timer < due
    <2>1. NothingDue
      BY <1>2 DEF Next, vars, OnConnected, PollWhenDue, Poll, PollEnds, FailedCallbackReturns,
                  ConnectSource, ConnectFails, SourceAccepts, FirstUpdate, SchedulerStep, Sync,
                  Add, Remove, Clear, SetPollInterval, SendMessageFails, InUserCode
    <2>2. PICK e \in table : e.at = due
      BY <1>2, <2>1 DEF PollInv, PollChain, OnePending, NothingDue
    <2>3. ~(e.at <= timer)
      BY <2>1 DEF NothingDue, Due
    <2>4. e.at \in Nat /\ timer \in Nat
      BY DEF PollInv, SourcesInv, TypeOK, SchedulerTypeOK, Entry
    <2>5. QED
      BY <2>2, <2>3, <2>4
  <1>3. QED
    BY <1>1, <1>2

LEMMA SpecPollInv == Spec => []PollInv
  <1>1. PollInv /\ [Next]_vars => PollInv'
    BY NextType, NextSockets, PollPlaceKept, PollChainKept DEF PollInv, SourcesInv
  <1>2. QED
    BY <1>1, InitPollInv, PTL DEF Spec

(* Every variable keeps its type, and of all the sockets that polls open   *)
(* none is left, but the one of an attempt that ends in an error of the    *)
(* script (FireWatch.lua:376-412).                                         *)
THEOREM SourcesInvHolds == Spec => []SourcesInv
  BY SpecPollInv, PTL DEF PollInv

(* The chain of polls neither breaks nor doubles, for every interval, every*)
(* set of end points and whatever the callbacks do (FireWatch.lua:63-66).  *)
THEOREM OnePollPendingThm == Spec => []OnePollPending
  <1>1. PollInv => OnePollPending
    BY DEF PollInv, PollChain, Polling, OnePending, OnePollPending
  <1>2. QED
    BY <1>1, SpecPollInv, PTL

(* Every poll runs at its time, for every interval and every change of it, *)
(* and however much time the loop lets pass.                               *)
THEOREM PollsKeepTimeThm == Spec => PollsKeepTime
  <1> DEFINE InTime == /\ PollWhenDue => due <= timer
                       /\ pc = "events" /\ pc' = "callbacks" => timer < due
  <1>1. PollInv /\ [Next]_vars => [InTime]_vars
    BY StepKeepsTime
  <1> QED
    BY <1>1, SpecPollInv, PTL DEF Spec, PollsKeepTime

-----------------------------------------------------------------------------
(* FireZones: for all stations, fires, names, places and zones.            *)

LEMMA InitFires == FiresInit => FiresInv
  BY DEF FiresInit, FiresInv, FiresTypeOK, ListenersKnowTheFires

LEMMA FirePacketType ==
    ASSUME FiresTypeOK, NEW f \in Fires, NEW name \in Names, NEW zone \in Zones,
           AddFire(f, name, zone) \/ UpdateFire(f, name, zone)
    PROVE  FiresTypeOK'
<1>1. [name |-> name, zone |-> zone] \in Fire
  BY DEF Fire
<1> QED
  BY <1>1 DEF AddFire, UpdateFire, FiresTypeOK, stationVars

LEMMA RemoveFireType == ASSUME FiresTypeOK, NEW f \in Fires, RemoveFire(f)
  PROVE FiresTypeOK'
  BY DEF RemoveFire, FiresTypeOK, stationVars

LEMMA PositionType ==
    ASSUME FiresTypeOK, NEW s \in Stations, NEW place \in Places,
           OnReceivePosition(s, place)
    PROVE  FiresTypeOK'
<1>1. Remembered(s, place) \in Places \cup {Unknown}
  BY DEF Remembered
<1>2. FindFires(place) \subseteq Fires
  BY DEF FindFires
<1>3. told' \subseteq Stations \X Fires
  BY <1>2 DEF OnReceivePosition, Reported, FiresTypeOK
<1> QED
  BY <1>1, <1>3 DEF OnReceivePosition, FiresTypeOK

LEMMA FiresKnown ==
    ASSUME FiresInv, NEW f \in Fires, NEW name \in Names, NEW zone \in Zones,
           AddFire(f, name, zone) \/ UpdateFire(f, name, zone)
    PROVE  ListenersKnowTheFires'
<1> DEFINE new == [name |-> name, zone |-> zone]
<1>1. new \in Fire /\ new # NoFire /\ new.name = name
  BY NoFireAssumption DEF Fire
<1>2. fires' = [fires EXCEPT ![f] = new]
  BY DEF AddFire, UpdateFire
<1> HIDE DEF new
<1>3. fires \in [Fires -> Fire \cup {NoFire}] /\ heard \in [Fires -> Names \cup {NoFire}]
  BY DEF FiresInv, FiresTypeOK
<1>4. heard' = [heard EXCEPT ![f] = name]
  <2>1. fires[f] # NoFire => heard[f] = fires[f].name
    BY DEF FiresInv, ListenersKnowTheFires
  <2> QED
    BY <1>3, <2>1 DEF AddFire, UpdateFire
<1> QED
  BY <1>1, <1>2, <1>3, <1>4 DEF FiresInv, ListenersKnowTheFires

(* The types, and listeners of the fire events know the names of the fires*)
(* there are (FireWatch.lua:232, 243, 260).                               *)
THEOREM FiresInvHolds == FiresSpec => []FiresInv
<1>1. FiresInv /\ [FiresNext]_firesVars => FiresInv'
  <2> SUFFICES ASSUME FiresInv, [FiresNext]_firesVars PROVE FiresInv'
    OBVIOUS
  <2> USE DEF FiresInv
  <2>1. ASSUME NEW f \in Fires, NEW name \in Names, NEW zone \in Zones,
               AddFire(f, name, zone) \/ UpdateFire(f, name, zone)
        PROVE  FiresInv'
    BY <2>1, FirePacketType, FiresKnown
  <2>2. ASSUME NEW f \in Fires, RemoveFire(f) PROVE FiresInv'
    <3>1. FiresTypeOK'
      BY <2>2, RemoveFireType
    <3>2. ListenersKnowTheFires'
      BY <2>2 DEF RemoveFire, FiresTypeOK, ListenersKnowTheFires
    <3> QED
      BY <3>1, <3>2
  <2>3. ASSUME NEW s \in Stations, NEW place \in Places, OnReceivePosition(s, place)
        PROVE  FiresInv'
    <3>1. FiresTypeOK'
      BY <2>3, PositionType
    <3>2. ListenersKnowTheFires'
      BY <2>3 DEF OnReceivePosition, ListenersKnowTheFires
    <3> QED
      BY <3>1, <3>2
  <2>4. CASE UNCHANGED firesVars
    BY <2>4 DEF firesVars, FiresTypeOK, ListenersKnowTheFires
  <2> QED
    BY <2>1, <2>2, <2>3, <2>4 DEF FiresNext
<1> QED
  BY <1>1, InitFires, PTL DEF FiresSpec

(* A report: what is told of the station afterwards is where it is now.    *)
LEMMA ReportFollows ==
    ASSUME FiresTypeOK, NEW s \in Stations, NEW place \in Places,
           OnReceivePosition(s, place),
           NEW f \in Fires, Followed(s, f)
    PROVE  Followed(s, f)'
<1> DEFINE now  == FindFires(place)
           prev == IF positions[s] = Unknown THEN {} ELSE FindFires(positions[s])
<1>1. place # Unknown
  BY FireZonesAssumption
<1>2. /\ last'[s] = place
      /\ positions'[s] = Remembered(s, place)
      /\ FindFires(place)' = now
  BY DEF OnReceivePosition, FiresTypeOK, FindFires
<1>3. Inside(s, f)' = (f \in now)
  BY <1>1, <1>2 DEF Inside
<1>4. <<s, f>> \in told => f \in prev
  BY DEF Followed, Inside, FindFires
<1>5. (<<s, f>> \in told') = (f \in now)
  BY <1>4 DEF OnReceivePosition, Reported
<1>6. f \in now => positions'[s] = last'[s]
  BY <1>2 DEF Remembered
<1> QED
  BY <1>3, <1>5, <1>6 DEF Followed

LEMMA OthersFollow ==
    ASSUME FiresTypeOK, NEW s \in Stations, NEW place \in Places,
           OnReceivePosition(s, place),
           NEW r \in Stations \ {s}, NEW f \in Fires, Followed(r, f)
    PROVE  Followed(r, f)'
<1>1. last'[r] = last[r] /\ positions'[r] = positions[r]
  BY DEF OnReceivePosition, FiresTypeOK
<1>2. FindFires(last[r])' = FindFires(last[r])
  BY <1>1 DEF OnReceivePosition, FindFires
<1>3. (<<r, f>> \in told') = (<<r, f>> \in told)
  BY DEF OnReceivePosition, Reported
<1> QED
  BY <1>1, <1>2, <1>3 DEF Followed, Inside

(* While the fires stay as they are, a station that is followed stays     *)
(* followed, also across reports after which it is forgotten              *)
(* (FireWatch.lua:22-49).                                                 *)
THEOREM StationsStayFollowedThm == FiresSpec => StationsStayFollowed
<1> DEFINE Follows == UNCHANGED fires =>
                 \A s \in Stations, f \in Fires : Followed(s, f) => Followed(s, f)'
<1>1. FiresInv /\ [FiresNext]_firesVars => [Follows]_firesVars
  <2> SUFFICES ASSUME FiresTypeOK, FiresNext, UNCHANGED fires,
                      NEW s \in Stations, NEW f \in Fires, Followed(s, f)
               PROVE  Followed(s, f)'
    BY DEF FiresInv
  <2>1. CASE UNCHANGED stationVars
    BY <2>1 DEF stationVars, Followed, Inside, FindFires
  <2>2. ASSUME NEW r \in Stations, NEW place \in Places, OnReceivePosition(r, place)
        PROVE  Followed(s, f)'
    BY <2>2, ReportFollows, OthersFollow
  <2> QED
    BY <2>1, <2>2 DEF FiresNext, AddFire, UpdateFire, RemoveFire
<1> QED
  BY <1>1, FiresInvHolds, PTL DEF FiresSpec, StationsStayFollowed
=============================================================================
