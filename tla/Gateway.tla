------------------------------ MODULE Gateway ------------------------------
(***************************************************************************)
(* The Gateway plugin (Build/Plugins/Gateway.lua) over the APRS-IS client  *)
(* of the host (Build/APRS-IS.lua, lua-executor/API.cpp): one thread that  *)
(* connects, then loops over receiving packets, running scheduled events   *)
(* and the OnUpdate event until the connection handle is gone, and finally *)
(* saves the storage and closes the database.                              *)
(*                                                                         *)
(* Every event runs user code: the callbacks of the script and of the      *)
(* plugins built on the gateway.  A callback may schedule events, change   *)
(* the storage, send (which disconnects when it fails, and so runs the     *)
(* OnDisconnected callbacks inside itself) and raise a Lua error.  The     *)
(* server sends packets and closes the connection whenever it likes.       *)
(***************************************************************************)
EXTENDS Scheduler, Sequences

CONSTANTS
    SaveStorage,         \* the event of the periodic save, a member of Events
    SavePeriod,          \* its delay in seconds: 30 in the code
    UserDelays,          \* delays user callbacks pass to ScheduleEvent
    SendFrom,            \* callback contexts whose user code sends
    PluginReadsPacket,   \* a plugin registered a second OnReceivePacket callback
    PacketsPerUpdate,    \* packets one Client.Update may hand to the mailbox
    Deltas,              \* milliseconds Loop.Sync measures
    MaxPackets,          \* bound: packets the server sends
    MaxScheduled,        \* bound: user code schedules no entry with a greater id
    MaxTimer,            \* bound: milliseconds the timer advances
    MaxDepth             \* bound: Disconnect calls nested in each other

ASSUME GatewayAssumption ==
    /\ SaveStorage \in Events
    /\ SavePeriod \in Nat \ {0}
    /\ UserDelays \subseteq Nat
    /\ PluginReadsPacket \in BOOLEAN
    /\ PacketsPerUpdate \in Nat \ {0}
    /\ Deltas \subseteq Nat
    /\ {MaxPackets, MaxScheduled, MaxTimer} \subseteq Nat
    /\ MaxDepth \in Nat \ {0}

VARIABLES
    pc,          \* where the main line of the program is
    depth,       \* activations of Disconnect whose OnDisconnected callbacks run
    delta,       \* the delta_ms OnUpdate was called with
    handle,      \* Gateway.Private.APRS.IS.Handle is not nil
    connected,   \* the client of that handle is connected
    packet,      \* the packet ReceivePacket returned last
    exitCode,    \* Script.GetExitCode()
    database,    \* the database handle is open
    unsaved,     \* storage changed since it was last written out
    inbox,       \* packets on their way from the server
    sent,        \* number of packets the server sent
    peerClosed,  \* the server closed the connection
    seen,        \* history: packets OnReceivePacket was executed for
    served,      \* history: numbers of the packets user code was called for
    savedAt,     \* history: timer at the last periodic save (or its first scheduling)
    lostIn,      \* history: where the send failed that gave up the connection
    saved,       \* history: how the last Save ended
    connects,    \* history: connections made
    farewells    \* history: times OnDisconnected was executed

clientVars  == <<handle, connected>>
serverVars  == <<inbox, sent, peerClosed>>
storageVars == <<database, unsaved>>
historyVars == <<seen, served, savedAt, saved, lostIn, connects, farewells>>
vars == <<schedulerVars, pc, depth, delta, packet, exitCode,
          clientVars, serverVars, storageVars, historyVars>>

(* A message to this callsign is a command or not, and may carry an ack id;*)
(* everything a gateway ignores is one kind.                               *)
MessageKinds == {"command", "message"}
PacketKinds  == MessageKinds \cup {"position", "other"}

Packet   == [n : Nat \ {0}, kind : PacketKinds, ack : BOOLEAN]
NoPacket == [n |-> 0, kind |-> "none", ack |-> FALSE]

(* Where packets are handled, where user code runs, where Run is over.     *)
PacketContexts   == {"Packet", "Command", "OnReceiveMessage", "OnReceivePosition", "Plugin"}
CallbackContexts == {"OnConnected", "Command", "OnReceiveMessage", "OnReceivePosition",
                     "Plugin", "OnUpdateEvent"}
LoopPcs  == PacketContexts \cup {"OnUpdate", "Receive", "Scheduled", "SaveStorageReturns",
                                 "OnUpdateEvent", "Sync"}
EndedPcs == {"InitFailed", "RunFailed", "Returned", "Error"}
Pcs == LoopPcs \cup EndedPcs \cup {"Start", "Script", "OnConnected", "Disconnect", "FinalSave", "Close"}

ExitCodes == {"Success", "OpenFailed", "LoadFailed", "ConnectionFailed", "ConnectionClosed"}

TypeOK ==
    /\ SchedulerTypeOK
    /\ pc \in Pcs
    /\ depth \in Nat
    /\ delta \in Nat
    /\ handle \in BOOLEAN /\ connected \in BOOLEAN
    /\ database \in BOOLEAN /\ unsaved \in BOOLEAN
    /\ peerClosed \in BOOLEAN
    /\ packet \in Packet \cup {NoPacket}
    /\ exitCode \in ExitCodes
    /\ inbox \in Seq(Packet)
    /\ sent \in Nat
    /\ seen \in Seq(Packet)
    /\ served \in Seq(Nat)
    /\ savedAt \in Nat
    /\ lostIn \in Pcs \cup {"none"}
    /\ connects \in Nat
    /\ farewells \in Nat
    /\ saved \in {"none", "ok", "failed"}

Init ==
    /\ SchedulerInit
    /\ pc = "Start"
    /\ depth = 0
    /\ delta = 0
    /\ handle = FALSE
    /\ connected = FALSE
    /\ packet = NoPacket
    /\ exitCode = "Success"
    /\ database = FALSE
    /\ unsaved = FALSE
    /\ inbox = <<>>
    /\ sent = 0
    /\ peerClosed = FALSE
    /\ seen = <<>>
    /\ served = <<>>
    /\ savedAt = 0
    /\ lostIn = "none"
    /\ connects = 0
    /\ farewells = 0
    /\ saved = "none"

-----------------------------------------------------------------------------
(* The main line: it does not move while a Disconnect is in progress.      *)

At(p) == pc = p /\ depth = 0

(* Gateway.Init opens the database and loads the storage.                  *)
InitSucceeds ==
    /\ At("Start")
    /\ database' = TRUE
    /\ pc' = "Script"
    /\ UNCHANGED <<schedulerVars, depth, delta, packet, exitCode, unsaved,
                   clientVars, serverVars, historyVars>>

InitFails ==
    /\ At("Start")
    /\ exitCode' \in {"OpenFailed", "LoadFailed"}
    /\ pc' = "InitFailed"
    /\ UNCHANGED <<schedulerVars, depth, delta, packet,
                   clientVars, serverVars, storageVars, historyVars>>

(* Gateway.Run: DNS and the connection may fail, otherwise OnConnected.    *)
ConnectFails ==
    /\ At("Script")
    /\ database' = FALSE
    /\ exitCode' = "ConnectionFailed"
    /\ pc' = "RunFailed"
    /\ UNCHANGED <<schedulerVars, depth, delta, packet, unsaved,
                   clientVars, serverVars, historyVars>>

Connect ==
    /\ At("Script")
    /\ handle' = TRUE
    /\ connected' = TRUE
    /\ connects' = connects + 1
    /\ pc' = "OnConnected"
    /\ UNCHANGED <<schedulerVars, depth, delta, packet, exitCode, serverVars, storageVars,
                   seen, served, savedAt, saved, lostIn, farewells>>

(* Connect returned true, whatever became of the connection meanwhile.     *)
StartLoop ==
    /\ At("OnConnected")
    /\ ScheduleEvent(SaveStorage, SavePeriod)
    /\ savedAt' = timer
    /\ delta' = 0
    /\ pc' = "OnUpdate"
    /\ UNCHANGED <<depth, packet, exitCode, clientVars, serverVars, storageVars,
                   seen, served, saved, lostIn, connects, farewells>>

(* IsConnected looks at the handle only, never at the client.              *)
OnUpdate ==
    /\ At("OnUpdate")
    /\ pc' = IF handle THEN "Receive" ELSE "Disconnect"
    /\ UNCHANGED <<schedulerVars, depth, delta, packet, exitCode,
                   clientVars, serverVars, storageVars, historyVars>>

(* Mutant: packet_is_set is not reset, the packet is read again.           *)
ReceivePacketAgain ==
    /\ At("Receive")
    /\ handle
    /\ connected
    /\ \E k \in 1 .. PacketsPerUpdate :
         /\ k <= Len(inbox)
         /\ packet' = inbox[k]
         /\ inbox' = SubSeq(inbox, k, Len(inbox))
    /\ seen' = Append(seen, packet')
    /\ pc' = "Packet"
    /\ UNCHANGED <<schedulerVars, depth, delta, exitCode, clientVars, sent, peerClosed,
                   storageVars, served, savedAt, saved, lostIn, connects, farewells>>

(* aprs_is_read_packet: Update moves up to PacketsPerUpdate packets to the *)
(* one-slot mailbox, its exceptions are swallowed; a packet in the slot is *)
(* returned and OnReceivePacket executed, an empty slot reads would_block. *)
ReceivePacket ==
    /\ At("Receive")
    /\ handle
    /\ connected
    /\ \E k \in 1 .. PacketsPerUpdate :
         /\ k <= Len(inbox)
         /\ packet' = inbox[k]
         /\ inbox' = SubSeq(inbox, k + 1, Len(inbox))
    /\ seen' = Append(seen, packet')
    /\ pc' = "Packet"
    /\ UNCHANGED <<schedulerVars, depth, delta, exitCode, clientVars, sent, peerClosed,
                   storageVars, served, savedAt, saved, lostIn, connects, farewells>>

(* The same when nothing was delivered: nothing has arrived yet, or Update *)
(* failed, in particular when it noticed that the server is gone.          *)
ReceiveWouldBlock ==
    /\ At("Receive")
    /\ handle
    /\ connected' \in {connected, connected /\ ~peerClosed}
    /\ packet' = NoPacket
    /\ UpdateScheduledEvents(delta)
    /\ pc' = "Scheduled"
    /\ UNCHANGED <<depth, delta, exitCode, handle, serverVars, storageVars, historyVars>>

(* Mutant: the closure leaves no exit code.                                *)
ReceiveEndsSilently ==
    /\ At("Receive")
    /\ ~handle
    /\ packet' = NoPacket
    /\ pc' = "Disconnect"
    /\ UNCHANGED <<schedulerVars, depth, delta, exitCode,
                   clientVars, serverVars, storageVars, historyVars>>

(* aprs_is_read_packet(nullptr): the handle was lost while a packet was    *)
(* handled.                                                                *)
ReceiveWithoutHandle ==
    /\ At("Receive")
    /\ ~handle
    /\ packet' = NoPacket
    /\ exitCode' = "ConnectionClosed"
    /\ pc' = "Disconnect"
    /\ UNCHANGED <<schedulerVars, depth, delta,
                   clientVars, serverVars, storageVars, historyVars>>

-----------------------------------------------------------------------------
(* The gateway's own OnReceivePacket callback, then the plugin's.          *)

AfterPacket == IF PluginReadsPacket THEN "Plugin" ELSE "Receive"

HandlerOf(kind) ==
    CASE kind = "command"  -> "Command"
      [] kind = "message"  -> "OnReceiveMessage"
      [] kind = "position" -> "OnReceivePosition"
      [] OTHER             -> AfterPacket

Serve ==
    /\ pc' = HandlerOf(packet.kind)
    /\ served' = IF packet.kind = "other" THEN served ELSE Append(served, packet.n)

(* A message to this callsign that carries an ack id is acked first.       *)
NeedsAck == packet.ack /\ packet.kind \in MessageKinds

HandlePacket ==
    /\ At("Packet")
    /\ NeedsAck => connected
    /\ Serve
    /\ UNCHANGED <<schedulerVars, depth, delta, packet, exitCode, clientVars, serverVars,
                   storageVars, seen, savedAt, saved, lostIn, connects, farewells>>

(* A send that fails: the C++ side disconnects the client (not when the    *)
(* send threw), then Disconnect runs the OnDisconnected callbacks.         *)
SendFails ==
    /\ handle
    /\ connected' \in {FALSE, connected}
    /\ depth' = depth + 1
    /\ farewells' = farewells + 1
    /\ lostIn' = IF depth = 0 /\ lostIn = "none" THEN pc ELSE lostIn

(* Mutant: a message that cannot be acked is dropped.                      *)
HandlePacketAckFailsDrops ==
    /\ At("Packet")
    /\ NeedsAck
    /\ SendFails
    /\ pc' = AfterPacket
    /\ UNCHANGED <<schedulerVars, delta, packet, exitCode, handle, serverVars, storageVars,
                   seen, served, savedAt, saved, connects>>

HandlePacketAckFails ==
    /\ At("Packet")
    /\ NeedsAck
    /\ SendFails
    /\ Serve
    /\ UNCHANGED <<schedulerVars, delta, packet, exitCode, handle, serverVars, storageVars,
                   seen, savedAt, saved, connects>>

PacketCallbackReturns ==
    /\ depth = 0
    /\ pc \in PacketContexts \ {"Packet"}
    /\ pc' = IF pc = "Plugin" THEN "Receive" ELSE AfterPacket
    /\ UNCHANGED <<schedulerVars, depth, delta, packet, exitCode,
                   clientVars, serverVars, storageVars, historyVars>>

-----------------------------------------------------------------------------
(* Scheduled events, the OnUpdate event and the next iteration.            *)

RunningEvent == (CHOOSE e \in table : e.id = cursor).event

(* The bookkeeping of UpdateScheduledEvents between two callbacks.         *)
SchedulerStep ==
    /\ At("Scheduled")
    /\ PickBucket \/ RunEntry \/ DropBucket
    /\ UNCHANGED <<pc, depth, delta, packet, exitCode,
                   clientVars, serverVars, storageVars, historyVars>>

(* Storage.Save writes everything out, or fails half way.                  *)
Save ==
    /\ saved' \in {"failed"} \cup (IF database THEN {"ok"} ELSE {})
    /\ unsaved' = (unsaved /\ saved' = "failed")

(* Mutant: a save that failed is not scheduled again.                      *)
SaveStorageEventGivesUp ==
    /\ At("Scheduled")
    /\ phase = "callback"
    /\ RunningEvent = SaveStorage
    /\ Save
    /\ IF saved' = "ok" THEN ScheduleEvent(SaveStorage, SavePeriod) ELSE UNCHANGED schedulerVars
    /\ savedAt' = timer
    /\ pc' = "SaveStorageReturns"
    /\ UNCHANGED <<depth, delta, packet, exitCode, clientVars, serverVars, database,
                   seen, served, lostIn, connects, farewells>>

(* The event reschedules itself however the save ended.                    *)
SaveStorageEvent ==
    /\ At("Scheduled")
    /\ phase = "callback"
    /\ RunningEvent = SaveStorage
    /\ Save
    /\ ScheduleEvent(SaveStorage, SavePeriod)
    /\ savedAt' = timer
    /\ pc' = "SaveStorageReturns"
    /\ UNCHANGED <<depth, delta, packet, exitCode, clientVars, serverVars, database,
                   seen, served, lostIn, connects, farewells>>

(* Save raises a Lua error when a callback has stored a float beyond the   *)
(* integers; the program ends as with an error of user code.               *)
SaveRaises ==
    /\ \/ At("FinalSave")
       \/ At("Scheduled") /\ phase = "callback" /\ RunningEvent = SaveStorage
    /\ unsaved
    /\ saved' = "failed"
    /\ pc' = "Error"
    /\ UNCHANGED <<schedulerVars, depth, delta, packet, exitCode, clientVars, serverVars,
                   storageVars, seen, served, savedAt, lostIn, connects, farewells>>

ScheduledCallbackReturns ==
    /\ depth = 0
    /\ EntryReturns
    /\ pc = "SaveStorageReturns" \/ (pc = "Scheduled" /\ RunningEvent # SaveStorage)
    /\ pc' = "Scheduled"
    /\ UNCHANGED <<depth, delta, packet, exitCode,
                   clientVars, serverVars, storageVars, historyVars>>

UpdateEnds ==
    /\ At("Scheduled")
    /\ NothingDue
    /\ pc' = "OnUpdateEvent"
    /\ UNCHANGED <<depth, delta, packet, exitCode,
                   clientVars, serverVars, storageVars, historyVars>>

OnUpdateReturns ==
    /\ At("OnUpdateEvent")
    /\ pc' = "Sync"
    /\ UNCHANGED <<schedulerVars, depth, delta, packet, exitCode,
                   clientVars, serverVars, storageVars, historyVars>>

Sync ==
    /\ At("Sync")
    /\ delta' \in {d \in Deltas : timer + d <= MaxTimer}
    /\ pc' = "OnUpdate"
    /\ UNCHANGED <<schedulerVars, depth, packet, exitCode,
                   clientVars, serverVars, storageVars, historyVars>>

-----------------------------------------------------------------------------
(* The end of Run.                                                         *)

(* Mutant: OnDisconnected is executed without a handle, too.               *)
RunDisconnectsAlways ==
    /\ At("Disconnect")
    /\ depth' = 1
    /\ farewells' = farewells + 1
    /\ pc' = "FinalSave"
    /\ UNCHANGED <<schedulerVars, delta, packet, exitCode, clientVars, serverVars,
                   storageVars, seen, served, savedAt, saved, lostIn, connects>>

(* Mutant: the storage is not saved at the end.                            *)
RunDisconnectsWithoutSave ==
    /\ At("Disconnect")
    /\ depth' = IF handle THEN 1 ELSE 0
    /\ farewells' = farewells + depth'
    /\ pc' = "Close"
    /\ UNCHANGED <<schedulerVars, delta, packet, exitCode, clientVars, serverVars,
                   storageVars, seen, served, savedAt, saved, lostIn, connects>>

(* Disconnect does nothing without a handle.                               *)
RunDisconnects ==
    /\ At("Disconnect")
    /\ depth' = IF handle THEN 1 ELSE 0
    /\ farewells' = farewells + depth'
    /\ pc' = "FinalSave"
    /\ UNCHANGED <<schedulerVars, delta, packet, exitCode, clientVars, serverVars,
                   storageVars, seen, served, savedAt, saved, lostIn, connects>>

FinalSave ==
    /\ At("FinalSave")
    /\ Save
    /\ pc' = "Close"
    /\ UNCHANGED <<schedulerVars, depth, delta, packet, exitCode, database, clientVars,
                   serverVars, seen, served, savedAt, lostIn, connects, farewells>>

CloseDatabase ==
    /\ At("Close")
    /\ database' = FALSE
    /\ pc' = "Returned"
    /\ UNCHANGED <<schedulerVars, depth, delta, packet, exitCode, unsaved,
                   clientVars, serverVars, historyVars>>

-----------------------------------------------------------------------------
(* What user code does in a callback, or in the script before Run.         *)

InCallback ==
    \/ depth > 0
    \/ pc \in CallbackContexts
    \/ pc = "Scheduled" /\ phase = "callback" /\ RunningEvent # SaveStorage

Context == IF depth > 0 THEN "OnDisconnected" ELSE pc

UserSchedules ==
    /\ InCallback \/ At("Script")
    /\ nextId <= MaxScheduled
    /\ \E event \in Events \ {SaveStorage}, delay \in UserDelays : ScheduleEvent(event, delay)
    /\ UNCHANGED <<pc, depth, delta, packet, exitCode,
                   clientVars, serverVars, storageVars, historyVars>>

UserSets ==
    /\ InCallback \/ At("Script")
    /\ unsaved' = TRUE
    /\ UNCHANGED <<schedulerVars, pc, depth, delta, packet, exitCode, database,
                   clientVars, serverVars, historyVars>>

(* A send that succeeds, or that is refused for want of a handle, changes  *)
(* nothing here.                                                           *)
UserSendFails ==
    /\ InCallback
    /\ Context \in SendFrom
    /\ depth < MaxDepth
    /\ SendFails
    /\ UNCHANGED <<schedulerVars, pc, delta, packet, exitCode, handle, serverVars,
                   storageVars, seen, served, savedAt, saved, connects>>

(* Mutant: Disconnect does not set the handle to nil.                      *)
DisconnectKeepsHandle ==
    /\ depth > 0
    /\ connected' = FALSE
    /\ depth' = depth - 1
    /\ UNCHANGED <<schedulerVars, pc, delta, packet, exitCode, handle, serverVars,
                   storageVars, historyVars>>

(* The OnDisconnected callbacks return: Disconnect and Deinit get the      *)
(* handle of now, which a nested Disconnect may have set to nil already.   *)
DisconnectEnds ==
    /\ depth > 0
    /\ handle' = FALSE
    /\ connected' = FALSE
    /\ depth' = depth - 1
    /\ UNCHANGED <<schedulerVars, pc, delta, packet, exitCode, serverVars, storageVars,
                   historyVars>>

(* A Lua error unwinds everything up to the host, which ends the process.  *)
UserRaises ==
    /\ InCallback
    /\ pc' = "Error"
    /\ depth' = 0
    /\ UNCHANGED <<schedulerVars, delta, packet, exitCode,
                   clientVars, serverVars, storageVars, historyVars>>

-----------------------------------------------------------------------------
(* The server.                                                             *)

ServerSends ==
    /\ connected
    /\ ~peerClosed
    /\ sent < MaxPackets
    /\ \E kind \in PacketKinds, ack \in BOOLEAN :
         /\ ack => kind \in MessageKinds
         /\ inbox' = Append(inbox, [n |-> sent + 1, kind |-> kind, ack |-> ack])
    /\ sent' = sent + 1
    /\ UNCHANGED <<schedulerVars, pc, depth, delta, packet, exitCode, peerClosed,
                   clientVars, storageVars, historyVars>>

ServerCloses ==
    /\ connected
    /\ ~peerClosed
    /\ peerClosed' = TRUE
    /\ UNCHANGED <<schedulerVars, pc, depth, delta, packet, exitCode, inbox, sent,
                   clientVars, storageVars, historyVars>>

-----------------------------------------------------------------------------

MainLine ==
    \/ InitSucceeds \/ InitFails \/ ConnectFails \/ Connect \/ StartLoop
    \/ OnUpdate \/ ReceivePacket \/ ReceiveWouldBlock \/ ReceiveWithoutHandle
    \/ HandlePacket \/ HandlePacketAckFails \/ PacketCallbackReturns
    \/ SchedulerStep \/ SaveStorageEvent \/ ScheduledCallbackReturns \/ UpdateEnds
    \/ OnUpdateReturns \/ Sync
    \/ RunDisconnects \/ FinalSave \/ CloseDatabase
    \/ SaveRaises

UserCode == UserSchedules \/ UserSets \/ UserSendFails \/ DisconnectEnds \/ UserRaises
Server   == ServerSends \/ ServerCloses

Next == MainLine \/ UserCode \/ Server

Spec == Init /\ [][Next]_vars

(* The program's thread runs on; the server owes it nothing.               *)
FairSpec == Spec /\ WF_vars(MainLine \/ UserCode)

-----------------------------------------------------------------------------
(* Properties.                                                             *)

NumberSeen(i) == IF i = 0 THEN 0 ELSE seen[i].n

(* Packets reach OnReceivePacket in the order they were sent, whatever     *)
(* callbacks do to the connection meanwhile, and the ones behind the last  *)
(* that did are all on their way.  Of the packets one Client.Update hands  *)
(* to the one-slot mailbox the last survives (API.cpp:32): between two     *)
(* packets seen at most the others of one such call are lost, and none is  *)
(* lost or seen twice if it delivers one packet at a time.                 *)
PacketsInOrder ==
    /\ \A i \in 1 .. Len(seen) :
          seen[i].n \in NumberSeen(i - 1) + 1 .. NumberSeen(i - 1) + PacketsPerUpdate
    /\ \A i \in 1 .. Len(inbox) : inbox[i].n = NumberSeen(Len(seen)) + i
    /\ NumberSeen(Len(seen)) + Len(inbox) = sent

(* User code is called exactly once for every packet it is meant for: also *)
(* for a message whose acknowledgement could not be sent (Gateway.lua:60). *)
ServedOnce ==
    /\ \A i, j \in DOMAIN served : served[i] = served[j] => i = j
    /\ \A i \in DOMAIN seen :
           \/ seen[i].kind = "other"
           \/ seen[i] = packet /\ pc = "Packet"
           \/ \E j \in DOMAIN served : served[j] = seen[i].n

(* The SaveStorage entries whose callback has not been called yet.         *)
PendingSaves ==
    {e \in table : e.event = SaveStorage /\ ~(e.at = bucket /\ e.id <= cursor)}

SaveRunning == pc = "Scheduled" /\ phase = "callback" /\ RunningEvent = SaveStorage

(* While the loop runs exactly one periodic save lies ahead: a save that   *)
(* fails does not end the chain and nothing starts a second one.           *)
OneSavePending ==
    pc \in LoopPcs => IF SaveRunning THEN PendingSaves = {}
                                     ELSE \E e \in table : PendingSaves = {e}

(* The storage is written at least once per period, give or take one loop  *)
(* iteration: no later than in the first update that reaches the period.   *)
SavesKeepUp ==
    pc \in LoopPcs /\ phase = "idle" => timer < savedAt + SavePeriod * MsPerSecond

(* Two periodic saves are never closer than the period.                    *)
SavesKeepApart ==
    [][savedAt' # savedAt => savedAt' - savedAt >= SavePeriod * MsPerSecond]_vars

(* OnDisconnected is executed once for every connection that ended, before *)
(* Run returns: plugins pair it with OnConnected (FireWatch.lua:14-20).    *)
(* It takes OnDisconnected callbacks that do not send.                     *)
EveryConnectionEndsOnce ==
    /\ farewells <= connects
    /\ pc = "Returned" => farewells = connects

(* Run leaves its loop only when a send has failed: the handle is gone and *)
(* the Disconnect of Run (Gateway.lua:124) finds nothing left to do.       *)
LeavesAfterFailedSend ==
    pc \in {"Disconnect", "FinalSave", "Close", "Returned"} => ~handle /\ lostIn # "none"

(* The exit code says ConnectionClosed when the send that failed was made  *)
(* while a packet was handled, and Success when it was made anywhere else. *)
ExitCodeFollowsLoss ==
    pc = "Returned" =>
        exitCode = (IF lostIn \in PacketContexts THEN "ConnectionClosed" ELSE "Success")

(* The database is open whenever the storage is saved, and a Run that      *)
(* returned after a successful save has lost nothing: not even what a      *)
(* callback stored after the last periodic save.                           *)
NothingUnsavedAtReturn ==
    /\ pc \in LoopPcs \cup {"OnConnected", "Disconnect", "FinalSave", "Close"} => database
    /\ pc = "Returned" => ~database /\ (saved = "ok" => ~unsaved)

(* Once a send has failed Run returns, or a callback raised an error.      *)
FailedSendEndsRun == lostIn # "none" ~> pc \in EndedPcs

(* "false, nil on connection closed" (Gateway.lua:345): once the client of *)
(* the handle has noticed the closure, the gateway reads that and stops.   *)
ClosureEndsRun == handle /\ ~connected ~> pc \in EndedPcs
=============================================================================
