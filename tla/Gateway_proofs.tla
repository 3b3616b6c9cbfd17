--------------------------- MODULE Gateway_proofs ---------------------------
(* Proofs about Gateway: for every user code, server and loop timing.      *)
EXTENDS Gateway, Scheduler_proofs

(* The types the loop and its history keep.                                *)
LEMMA InitType == Init => TypeOK
  <1> SUFFICES ASSUME Init PROVE TypeOK
    OBVIOUS
  <1>1. SchedulerTypeOK
    BY DEF Init, SchedulerInit, SchedulerTypeOK, Phases
  <1>2. inbox = <<>> /\ seen = <<>> /\ served = <<>>
    BY DEF Init
  <1>3. inbox \in Seq(Packet) /\ seen \in Seq(Packet) /\ served \in Seq(Nat)
    BY <1>2
  <1>4. QED
    BY <1>1, <1>3 DEF Init, TypeOK, Pcs, ExitCodes

(* What ReceivePacket takes from the inbox and what it leaves.             *)
LEMMA PacketTaken ==
    ASSUME NEW s \in Seq(Packet), NEW k \in 1 .. Len(s)
    PROVE  s[k] \in Packet /\ SubSeq(s, k + 1, Len(s)) \in Seq(Packet)
  OBVIOUS

LEMMA SchedulerUnchangedType ==
    ASSUME SchedulerTypeOK, UNCHANGED schedulerVars
    PROVE  SchedulerTypeOK'
  BY DEF SchedulerTypeOK, schedulerVars

(* A send that fails changes the connection and the history as typed.      *)
LEMMA SendFailsType ==
    ASSUME TypeOK, SendFails
    PROVE  /\ connected' \in BOOLEAN
           /\ depth' \in Nat
           /\ farewells' \in Nat
           /\ lostIn' \in Pcs \cup {"none"}
  <1>1. connected' \in BOOLEAN
    BY Zenon DEF TypeOK, SendFails
  <1>2. QED
    BY <1>1 DEF TypeOK, SendFails

LEMMA MainLineType == TypeOK /\ MainLine => TypeOK'
  <1> SUFFICES ASSUME TypeOK, MainLine PROVE TypeOK'
    OBVIOUS
  <1> USE DEF TypeOK, clientVars, serverVars, storageVars, historyVars, At, Pcs, LoopPcs,
          EndedPcs, PacketContexts
  <1>1. CASE InitSucceeds
    BY <1>1, SchedulerUnchangedType DEF InitSucceeds
  <1>2. CASE InitFails
    BY <1>2, SchedulerUnchangedType DEF InitFails, ExitCodes
  <1>3. CASE ConnectFails
    BY <1>3, SchedulerUnchangedType DEF ConnectFails, ExitCodes
  <1>4. CASE Connect
    BY <1>4, SchedulerUnchangedType DEF Connect
  <1>5. CASE StartLoop
    <2>1. SchedulerTypeOK' /\ timer \in Nat
      BY <1>5, ScheduleEventType, GatewayAssumption DEF StartLoop, SchedulerTypeOK
    <2>2. QED
      BY <1>5, <2>1 DEF StartLoop
  <1>6. CASE OnUpdate
    BY <1>6, SchedulerUnchangedType DEF OnUpdate
  <1>7. CASE ReceivePacket
    <2>1. packet' \in Packet /\ inbox' \in Seq(Packet)
      BY <1>7, PacketTaken, GatewayAssumption DEF ReceivePacket
    <2>2. seen' \in Seq(Packet)
      BY <1>7, <2>1 DEF ReceivePacket
    <2>3. QED
      BY <1>7, <2>1, <2>2, SchedulerUnchangedType DEF ReceivePacket
  <1>8. CASE ReceiveWouldBlock
    <2>1. SchedulerTypeOK'
      BY <1>8, UpdateType DEF ReceiveWouldBlock
    <2>2. QED
      BY <1>8, <2>1 DEF ReceiveWouldBlock
  <1>9. CASE ReceiveWithoutHandle
    BY <1>9, SchedulerUnchangedType DEF ReceiveWithoutHandle, ExitCodes
  <1>10. ASSUME Serve PROVE pc' \in Pcs /\ served' \in Seq(Nat)
    <2>1. packet.n \in Nat
      BY DEF Packet, NoPacket
    <2>2. served' \in Seq(Nat)
      BY <1>10, <2>1 DEF Serve
    <2>3. QED
      BY <1>10, <2>2 DEF Serve, HandlerOf, AfterPacket
  <1>11. CASE HandlePacket
    BY <1>10, <1>11, SchedulerUnchangedType DEF HandlePacket
  <1>12. CASE HandlePacketAckFails
    <2>1. /\ connected' \in BOOLEAN /\ depth' \in Nat /\ farewells' \in Nat
          /\ lostIn' \in Pcs \cup {"none"}
      BY <1>12, SendFailsType DEF HandlePacketAckFails
    <2>2. SchedulerTypeOK' /\ pc' \in Pcs /\ served' \in Seq(Nat)
      BY <1>10, <1>12, SchedulerUnchangedType DEF HandlePacketAckFails
    <2>3. QED
      BY <1>12, <2>1, <2>2 DEF HandlePacketAckFails
  <1>13. CASE PacketCallbackReturns
    BY <1>13, SchedulerUnchangedType DEF PacketCallbackReturns, AfterPacket
  <1>14. CASE SchedulerStep
    BY <1>14, ExecutingType DEF SchedulerStep
  <1>15. CASE SaveStorageEvent
    <2>1. SchedulerTypeOK' /\ timer \in Nat
      BY <1>15, ScheduleEventType, GatewayAssumption DEF SaveStorageEvent, SchedulerTypeOK
    <2>2. QED
      BY <1>15, <2>1 DEF SaveStorageEvent, Save
  <1>16. CASE ScheduledCallbackReturns
    BY <1>16, ExecutingType DEF ScheduledCallbackReturns
  <1>17. CASE UpdateEnds
    BY <1>17, ExecutingType DEF UpdateEnds
  <1>18. CASE OnUpdateReturns
    BY <1>18, SchedulerUnchangedType DEF OnUpdateReturns
  <1>19. CASE Sync
    BY <1>19, SchedulerUnchangedType, GatewayAssumption DEF Sync
  <1>20. CASE RunDisconnects
    BY <1>20, SchedulerUnchangedType DEF RunDisconnects
  <1>21. CASE FinalSave
    BY <1>21, SchedulerUnchangedType DEF FinalSave, Save
  <1>22. CASE CloseDatabase
    BY <1>22, SchedulerUnchangedType DEF CloseDatabase
  <1>23. CASE SaveRaises
    BY <1>23, SchedulerUnchangedType DEF SaveRaises
  <1>24. QED
    BY <1>1, <1>2, <1>3, <1>4, <1>5, <1>6, <1>7, <1>8, <1>9, <1>11, <1>12, <1>13, <1>14,
       <1>15, <1>16, <1>17, <1>18, <1>19, <1>20, <1>21, <1>22, <1>23 DEF MainLine

LEMMA UserCodeType == TypeOK /\ UserCode => TypeOK'
  <1> SUFFICES ASSUME TypeOK, UserCode PROVE TypeOK'
    OBVIOUS
  <1> USE DEF TypeOK, clientVars, serverVars, storageVars, historyVars, At, Pcs, LoopPcs,
          EndedPcs, PacketContexts
  <1>1. CASE UserSchedules
    <2>1. SchedulerTypeOK'
      BY <1>1, ScheduleEventType, GatewayAssumption DEF UserSchedules
    <2>2. QED
      BY <1>1, <2>1 DEF UserSchedules
  <1>2. CASE UserSets
    BY <1>2, SchedulerUnchangedType DEF UserSets
  <1>3. CASE UserSendFails
    <2>1. /\ connected' \in BOOLEAN /\ depth' \in Nat /\ farewells' \in Nat
          /\ lostIn' \in Pcs \cup {"none"}
      BY <1>3, SendFailsType DEF UserSendFails
    <2>2. SchedulerTypeOK'
      BY <1>3, SchedulerUnchangedType DEF UserSendFails
    <2>3. QED
      BY <1>3, <2>1, <2>2 DEF UserSendFails
  <1>4. CASE DisconnectEnds
    <2>1. SchedulerTypeOK' /\ depth' \in Nat
      BY <1>4, SchedulerUnchangedType DEF DisconnectEnds
    <2>2. handle' \in BOOLEAN /\ connected' \in BOOLEAN
      BY <1>4 DEF DisconnectEnds
    <2>3. UNCHANGED <<pc, delta, packet, exitCode, inbox, sent, peerClosed, database, unsaved,
                      seen, served, savedAt, saved, lostIn, connects, farewells>>
      BY <1>4 DEF DisconnectEnds
    <2>4. QED
      BY <2>1, <2>2, <2>3
  <1>5. CASE UserRaises
    BY <1>5, SchedulerUnchangedType DEF UserRaises
  <1>6. QED
    BY <1>1, <1>2, <1>3, <1>4, <1>5 DEF UserCode

LEMMA ServerType == TypeOK /\ Server => TypeOK'
  <1> SUFFICES ASSUME TypeOK, Server PROVE TypeOK'
    OBVIOUS
  <1> USE DEF TypeOK, clientVars, storageVars, historyVars
  <1>1. CASE ServerSends
    <2>1. PICK kind \in PacketKinds, ack \in BOOLEAN :
              inbox' = Append(inbox, [n |-> sent + 1, kind |-> kind, ack |-> ack])
      BY <1>1 DEF ServerSends
    <2>2. [n |-> sent + 1, kind |-> kind, ack |-> ack] \in Packet
      BY DEF Packet
    <2>3. inbox' \in Seq(Packet)
      BY <2>1, <2>2
    <2>4. SchedulerTypeOK'
      BY <1>1, SchedulerUnchangedType DEF ServerSends
    <2>5. QED
      BY <1>1, <2>3, <2>4 DEF ServerSends
  <1>2. CASE ServerCloses
    <2>1. SchedulerTypeOK'
      BY <1>2, SchedulerUnchangedType DEF ServerCloses
    <2>2. QED
      BY <1>2, <2>1 DEF ServerCloses
  <1>3. QED
    BY <1>1, <1>2 DEF Server

(* Every variable of the gateway keeps its type.                           *)
THEOREM TypeCorrect == Spec => []TypeOK
  <1>1. TypeOK /\ UNCHANGED vars => TypeOK'
    BY SchedulerUnchangedType DEF TypeOK, vars, clientVars, serverVars, storageVars, historyVars
  <1>2. TypeOK /\ [Next]_vars => TypeOK'
    BY <1>1, MainLineType, UserCodeType, ServerType DEF Next
  <1>3. QED
    BY <1>2, InitType, PTL DEF Spec

-----------------------------------------------------------------------------
(* How Run ends.                                                           *)

BeforeConnect == {"Start", "Script", "InitFailed", "RunFailed"}
Leaving       == {"Disconnect", "FinalSave", "Close", "Returned"}

(* Once a send has failed the handle is gone as soon as the Disconnect it  *)
(* called has returned, and it is gone for no other reason: the handle is  *)
(* set once and no OnDisconnected callback runs before a send failed.      *)
HandleLost ==
    /\ pc \in BeforeConnect => ~handle /\ lostIn = "none"
    /\ pc \in {"Start", "Script"} \cup Leaving \cup EndedPcs => depth = 0
    /\ depth > 0 => lostIn # "none"
    /\ lostIn # "none" /\ depth = 0 /\ pc # "Error" => ~handle
    /\ pc \in LoopPcs \cup {"OnConnected"} /\ ~handle => lostIn # "none"
    /\ LeavesAfterFailedSend

(* Where the gateway is in its loop tells where the send failed: it still  *)
(* handles the packet, or has gone on and comes to OnUpdate next.          *)
LossPlace ==
    /\ pc \in PacketContexts \cup {"Receive"} => lostIn \in PacketContexts \cup {"none"}
    /\ pc \in (LoopPcs \ (PacketContexts \cup {"Receive"})) \cup {"OnConnected"} =>
           lostIn \notin PacketContexts
    /\ pc \in LoopPcs \cup {"Start", "Script", "OnConnected"} => exitCode = "Success"
    /\ pc \in Leaving =>
           exitCode = (IF lostIn \in PacketContexts THEN "ConnectionClosed" ELSE "Success")

LossInv == TypeOK /\ HandleLost /\ LossPlace

LEMMA InitLossInv == Init => LossInv
  <1> SUFFICES ASSUME Init PROVE HandleLost /\ LossPlace
    BY InitType DEF LossInv
  <1>1. pc = "Start" /\ depth = 0 /\ handle = FALSE /\ lostIn = "none" /\ exitCode = "Success"
    BY DEF Init
  <1>2. pc \notin LoopPcs \cup {"Script", "OnConnected", "Receive"} \cup Leaving \cup PacketContexts
    BY <1>1 DEF LoopPcs, PacketContexts, Leaving
  <1>3. QED
    BY <1>1, <1>2 DEF HandleLost, LossPlace, BeforeConnect, EndedPcs, LeavesAfterFailedSend, Leaving

LEMMA MainLineLoss == LossInv /\ MainLine => HandleLost' /\ LossPlace'
  <1> SUFFICES ASSUME LossInv, MainLine PROVE HandleLost' /\ LossPlace'
    OBVIOUS
  <1> USE DEF LossInv, HandleLost, LossPlace, LeavesAfterFailedSend, TypeOK, BeforeConnect,
          Leaving, LoopPcs, EndedPcs, PacketContexts, At, clientVars, historyVars
  <1>1. CASE InitSucceeds
    BY <1>1 DEF InitSucceeds
  <1>2. CASE InitFails
    BY <1>2 DEF InitFails
  <1>3. CASE ConnectFails
    BY <1>3 DEF ConnectFails
  <1>4. CASE Connect
    BY <1>4 DEF Connect
  <1>5. CASE StartLoop
    BY <1>5 DEF StartLoop
  <1>6. CASE OnUpdate
    BY <1>6 DEF OnUpdate
  <1>7. CASE ReceivePacket
    BY <1>7 DEF ReceivePacket
  <1>8. CASE ReceiveWouldBlock
    BY <1>8 DEF ReceiveWouldBlock
  <1>9. CASE ReceiveWithoutHandle
    BY <1>9 DEF ReceiveWithoutHandle
  <1>10. Serve => pc' \in PacketContexts \cup {"Receive"}
    BY DEF Serve, HandlerOf, AfterPacket
  <1>11. CASE HandlePacket
    BY <1>10, <1>11 DEF HandlePacket
  <1>12. CASE HandlePacketAckFails
    BY <1>10, <1>12 DEF HandlePacketAckFails, SendFails
  <1>13. CASE PacketCallbackReturns
    BY <1>13 DEF PacketCallbackReturns, AfterPacket
  <1>14. CASE SchedulerStep
    BY <1>14 DEF SchedulerStep
  <1>15. CASE SaveStorageEvent
    BY <1>15 DEF SaveStorageEvent
  <1>16. CASE ScheduledCallbackReturns
    BY <1>16 DEF ScheduledCallbackReturns
  <1>17. CASE UpdateEnds
    BY <1>17 DEF UpdateEnds
  <1>18. CASE OnUpdateReturns
    BY <1>18 DEF OnUpdateReturns
  <1>19. CASE Sync
    BY <1>19 DEF Sync
  <1>20. CASE RunDisconnects
    BY <1>20 DEF RunDisconnects
  <1>21. CASE FinalSave
    BY <1>21 DEF FinalSave
  <1>22. CASE CloseDatabase
    BY <1>22 DEF CloseDatabase
  <1>23. CASE SaveRaises
    BY <1>23 DEF SaveRaises
  <1>24. QED
    BY <1>1, <1>2, <1>3, <1>4, <1>5, <1>6, <1>7, <1>8, <1>9, <1>11, <1>12, <1>13, <1>14,
       <1>15, <1>16, <1>17, <1>18, <1>19, <1>20, <1>21, <1>22, <1>23 DEF MainLine

LEMMA UserCodeLoss == LossInv /\ UserCode => HandleLost' /\ LossPlace'
  <1> SUFFICES ASSUME LossInv, UserCode PROVE HandleLost' /\ LossPlace'
    OBVIOUS
  <1> USE DEF LossInv, HandleLost, LossPlace, LeavesAfterFailedSend, TypeOK, BeforeConnect,
          Leaving, LoopPcs, EndedPcs, PacketContexts, At, clientVars, historyVars
  <1>1. CASE UserSchedules
    BY <1>1 DEF UserSchedules
  <1>2. CASE UserSets
    BY <1>2 DEF UserSets
  <1>3. CASE UserSendFails
    BY <1>3 DEF UserSendFails, SendFails, InCallback, CallbackContexts
  <1>4. CASE DisconnectEnds
    BY <1>4 DEF DisconnectEnds
  <1>5. CASE UserRaises
    BY <1>5 DEF UserRaises
  <1>6. QED
    BY <1>1, <1>2, <1>3, <1>4, <1>5 DEF UserCode

THEOREM LossInvHolds == Spec => []LossInv
  <1>1. LossInv /\ (Server \/ UNCHANGED vars) => HandleLost' /\ LossPlace'
    BY DEF Server, ServerSends, ServerCloses, LossInv, HandleLost, LossPlace, vars,
       LeavesAfterFailedSend, clientVars, historyVars
  <1>2. LossInv /\ TypeOK' /\ [Next]_vars => LossInv'
    BY <1>1, MainLineLoss, UserCodeLoss DEF Next, LossInv
  <1>3. QED
    BY <1>2, InitLossInv, TypeCorrect, PTL DEF Spec

(* Run leaves its loop only after a failed send, and without a handle.     *)
THEOREM LeavesAfterFailedSendThm == Spec => []LeavesAfterFailedSend
  BY LossInvHolds, PTL DEF LossInv, HandleLost

(* The exit code of a Run that returned tells where the send failed.       *)
THEOREM ExitCodeFollowsLossThm == Spec => []ExitCodeFollowsLoss
  <1>1. LossInv => ExitCodeFollowsLoss
    BY DEF LossInv, LossPlace, Leaving, ExitCodeFollowsLoss
  <1>2. QED
    BY <1>1, LossInvHolds, PTL

-----------------------------------------------------------------------------
(* What Run leaves in the database.                                        *)

(* The database is open from Init to CloseDatabase, and between the final  *)
(* save and the end no user code runs that could change the storage.       *)
SaveInv ==
    /\ pc \in LoopPcs \cup {"Script", "OnConnected", "Disconnect", "FinalSave", "Close"} => database
    /\ pc \in {"Close", "Returned"} => (saved = "ok" => ~unsaved)
    /\ pc = "Returned" => ~database

LEMMA MainLineSave == LossInv /\ SaveInv /\ MainLine => SaveInv'
  <1> SUFFICES ASSUME LossInv, SaveInv, MainLine PROVE SaveInv'
    OBVIOUS
  <1> USE DEF SaveInv, LoopPcs, PacketContexts, At, storageVars, historyVars
  <1>1. CASE InitSucceeds
    BY <1>1 DEF InitSucceeds
  <1>2. CASE InitFails
    BY <1>2 DEF InitFails
  <1>3. CASE ConnectFails
    BY <1>3 DEF ConnectFails
  <1>4. CASE Connect
    BY <1>4 DEF Connect
  <1>5. CASE StartLoop
    BY <1>5 DEF StartLoop
  <1>6. CASE OnUpdate
    BY <1>6 DEF OnUpdate
  <1>7. CASE ReceivePacket
    BY <1>7 DEF ReceivePacket
  <1>8. CASE ReceiveWouldBlock
    BY <1>8 DEF ReceiveWouldBlock
  <1>9. CASE ReceiveWithoutHandle
    BY <1>9 DEF ReceiveWithoutHandle
  <1>10. CASE HandlePacket
    BY <1>10 DEF HandlePacket, Serve, HandlerOf, AfterPacket
  <1>11. CASE HandlePacketAckFails
    BY <1>11 DEF HandlePacketAckFails, SendFails, Serve, HandlerOf, AfterPacket
  <1>12. CASE PacketCallbackReturns
    BY <1>12 DEF PacketCallbackReturns, AfterPacket
  <1>13. CASE SchedulerStep
    BY <1>13 DEF SchedulerStep
  <1>14. CASE SaveStorageEvent
    BY <1>14 DEF SaveStorageEvent, Save
  <1>15. CASE ScheduledCallbackReturns
    BY <1>15 DEF ScheduledCallbackReturns
  <1>16. CASE UpdateEnds
    BY <1>16 DEF UpdateEnds
  <1>17. CASE OnUpdateReturns
    BY <1>17 DEF OnUpdateReturns
  <1>18. CASE Sync
    BY <1>18 DEF Sync
  <1>19. CASE RunDisconnects
    BY <1>19 DEF RunDisconnects
  <1>20. CASE FinalSave
    BY <1>20 DEF FinalSave, Save
  <1>21. CASE CloseDatabase
    BY <1>21 DEF CloseDatabase
  <1>22. CASE SaveRaises
    BY <1>22 DEF SaveRaises
  <1>23. QED
    BY <1>1, <1>2, <1>3, <1>4, <1>5, <1>6, <1>7, <1>8, <1>9, <1>10, <1>11, <1>12, <1>13, <1>14,
       <1>15, <1>16, <1>17, <1>18, <1>19, <1>20, <1>21, <1>22 DEF MainLine

LEMMA UserCodeSave == LossInv /\ SaveInv /\ UserCode => SaveInv'
  <1> SUFFICES ASSUME LossInv, SaveInv, UserCode PROVE SaveInv'
    OBVIOUS
  <1> USE DEF SaveInv, LoopPcs, PacketContexts, storageVars, historyVars
  <1>1. CASE UserSchedules
    BY <1>1 DEF UserSchedules
  <1>2. CASE UserSets
    <2>1. pc \notin {"Close", "Returned"}
      BY <1>2 DEF UserSets, At, InCallback, CallbackContexts, LossInv, HandleLost, Leaving, TypeOK
    <2>2. QED
      BY <1>2, <2>1 DEF UserSets
  <1>3. CASE UserSendFails
    BY <1>3 DEF UserSendFails
  <1>4. CASE DisconnectEnds
    BY <1>4 DEF DisconnectEnds
  <1>5. CASE UserRaises
    BY <1>5 DEF UserRaises
  <1>6. QED
    BY <1>1, <1>2, <1>3, <1>4, <1>5 DEF UserCode

(* The database is open whenever it is used, and a Run that returned after *)
(* a successful save has lost nothing.                                     *)
THEOREM NothingUnsavedAtReturnThm == Spec => []NothingUnsavedAtReturn
  <1>1. Init => SaveInv
    BY DEF Init, SaveInv, LoopPcs, PacketContexts
  <1>2. SaveInv /\ (Server \/ UNCHANGED vars) => SaveInv'
    BY DEF Server, ServerSends, ServerCloses, SaveInv, vars, storageVars, historyVars
  <1>3. LossInv /\ SaveInv /\ [Next]_vars => SaveInv'
    BY <1>2, MainLineSave, UserCodeSave DEF Next
  <1>4. SaveInv => NothingUnsavedAtReturn
    BY DEF SaveInv, NothingUnsavedAtReturn
  <1>5. QED
    BY <1>1, <1>3, <1>4, LossInvHolds, PTL DEF Spec

-----------------------------------------------------------------------------
(* How often OnDisconnected is executed.                                   *)

(* Callbacks of OnDisconnected that do not send do not disconnect: there   *)
(* is one execution, for the send that lost the connection.                *)
FarewellInv ==
    /\ depth <= 1
    /\ farewells = (IF lostIn = "none" THEN 0 ELSE 1)
    /\ connects = (IF pc \in BeforeConnect THEN 0 ELSE 1)

LEMMA MainLineFarewell == LossInv /\ FarewellInv /\ MainLine => FarewellInv'
  <1> SUFFICES ASSUME LossInv, FarewellInv, MainLine PROVE FarewellInv'
    OBVIOUS
  <1> USE DEF FarewellInv, BeforeConnect, At, historyVars
  <1>1. CASE InitSucceeds
    BY <1>1 DEF InitSucceeds
  <1>2. CASE InitFails
    BY <1>2 DEF InitFails
  <1>3. CASE ConnectFails
    BY <1>3 DEF ConnectFails
  <1>4. CASE Connect
    BY <1>4 DEF Connect
  <1>5. CASE StartLoop
    BY <1>5 DEF StartLoop
  <1>6. CASE OnUpdate
    BY <1>6 DEF OnUpdate
  <1>7. CASE ReceivePacket
    BY <1>7 DEF ReceivePacket
  <1>8. CASE ReceiveWouldBlock
    BY <1>8 DEF ReceiveWouldBlock
  <1>9. CASE ReceiveWithoutHandle
    BY <1>9 DEF ReceiveWithoutHandle
  <1>10. CASE HandlePacket
    BY <1>10 DEF HandlePacket, Serve, HandlerOf, AfterPacket
  <1>11. CASE HandlePacketAckFails
    BY <1>11 DEF HandlePacketAckFails, SendFails, Serve, HandlerOf, AfterPacket, LossInv, HandleLost
  <1>12. CASE PacketCallbackReturns
    BY <1>12 DEF PacketCallbackReturns, PacketContexts, AfterPacket
  <1>13. CASE SchedulerStep
    BY <1>13 DEF SchedulerStep
  <1>14. CASE SaveStorageEvent
    BY <1>14 DEF SaveStorageEvent
  <1>15. CASE ScheduledCallbackReturns
    BY <1>15 DEF ScheduledCallbackReturns
  <1>16. CASE UpdateEnds
    BY <1>16 DEF UpdateEnds
  <1>17. CASE OnUpdateReturns
    BY <1>17 DEF OnUpdateReturns
  <1>18. CASE Sync
    BY <1>18 DEF Sync
  <1>19. CASE RunDisconnects
    BY <1>19 DEF RunDisconnects, LossInv, HandleLost, LeavesAfterFailedSend
  <1>20. CASE FinalSave
    BY <1>20 DEF FinalSave
  <1>21. CASE CloseDatabase
    BY <1>21 DEF CloseDatabase
  <1>22. CASE SaveRaises
    BY <1>22 DEF SaveRaises
  <1>23. QED
    BY <1>1, <1>2, <1>3, <1>4, <1>5, <1>6, <1>7, <1>8, <1>9, <1>10, <1>11, <1>12, <1>13, <1>14,
       <1>15, <1>16, <1>17, <1>18, <1>19, <1>20, <1>21, <1>22 DEF MainLine

LEMMA UserCodeFarewell ==
    ASSUME "OnDisconnected" \notin SendFrom, LossInv, FarewellInv, UserCode
    PROVE  FarewellInv'
  <1> USE DEF FarewellInv, BeforeConnect, historyVars
  <1>1. CASE UserSchedules
    BY <1>1 DEF UserSchedules
  <1>2. CASE UserSets
    BY <1>2 DEF UserSets
  <1>3. CASE UserSendFails
    <2>1. depth = 0
      BY <1>3 DEF UserSendFails, Context, LossInv, TypeOK
    <2>2. pc # "Error"
      BY <1>3, <2>1 DEF UserSendFails, InCallback, CallbackContexts
    <2>3. lostIn = "none" /\ pc # "none"
      BY <1>3, <2>1, <2>2 DEF UserSendFails, SendFails, LossInv, HandleLost, TypeOK,
         Pcs, LoopPcs, PacketContexts, EndedPcs
    <2>4. QED
      BY <1>3, <2>1, <2>3 DEF UserSendFails, SendFails
  <1>4. CASE DisconnectEnds
    BY <1>4 DEF DisconnectEnds, LossInv, TypeOK
  <1>5. CASE UserRaises
    BY <1>5 DEF UserRaises, InCallback, CallbackContexts, LossInv, HandleLost, TypeOK, EndedPcs
  <1>6. QED
    BY <1>1, <1>2, <1>3, <1>4, <1>5 DEF UserCode

(* OnDisconnected is executed once for the connection, before Run returns. *)
THEOREM EveryConnectionEndsOnceThm ==
    ASSUME "OnDisconnected" \notin SendFrom
    PROVE  Spec => []EveryConnectionEndsOnce
  <1>1. Init => FarewellInv
    BY DEF Init, FarewellInv, BeforeConnect
  <1>2. FarewellInv /\ (Server \/ UNCHANGED vars) => FarewellInv'
    BY DEF Server, ServerSends, ServerCloses, FarewellInv, vars, historyVars
  <1>3. LossInv /\ FarewellInv /\ [Next]_vars => FarewellInv'
    BY <1>2, MainLineFarewell, UserCodeFarewell DEF Next
  <1>4. LossInv /\ FarewellInv => EveryConnectionEndsOnce
    BY DEF LossInv, HandleLost, LeavesAfterFailedSend, FarewellInv, BeforeConnect,
       EveryConnectionEndsOnce
  <1>5. QED
    BY <1>1, <1>3, <1>4, LossInvHolds, PTL DEF Spec

-----------------------------------------------------------------------------
(* Packets.                                                                *)

(* Only receiving and sending move packets.                                *)
PacketsRest == UNCHANGED <<inbox, sent, seen>>

LEMMA OthersLeavePackets ==
    [Next]_vars => ReceivePacket \/ ServerSends \/ PacketsRest
  BY DEF Next, MainLine, UserCode, Server, PacketsRest, vars, serverVars, historyVars,
     InitSucceeds, InitFails, ConnectFails, Connect, StartLoop, OnUpdate, ReceiveWouldBlock,
     ReceiveWithoutHandle, HandlePacket, HandlePacketAckFails, PacketCallbackReturns,
     SchedulerStep, SaveStorageEvent, ScheduledCallbackReturns, UpdateEnds, OnUpdateReturns,
     Sync, RunDisconnects, FinalSave, CloseDatabase, SaveRaises, UserSchedules, UserSets, UserSendFails,
     DisconnectEnds, UserRaises, ServerCloses

(* The k-th packet on its way is k numbers after the last one seen.        *)
LEMMA ReceiveTakes ==
    ASSUME TypeOK, PacketsInOrder, ReceivePacket
    PROVE  \E k \in 1 .. PacketsPerUpdate :
              /\ k \in 1 .. Len(inbox)
              /\ packet' = inbox[k] /\ packet'.n = NumberSeen(Len(seen)) + k
              /\ inbox' = SubSeq(inbox, k + 1, Len(inbox))
              /\ seen' = Append(seen, inbox[k]) /\ sent' = sent
  <1>1. PICK k \in 1 .. PacketsPerUpdate :
           k <= Len(inbox) /\ packet' = inbox[k] /\ inbox' = SubSeq(inbox, k + 1, Len(inbox))
    BY DEF ReceivePacket
  <1>2. Len(inbox) \in Nat /\ k \in 1 .. Len(inbox)
    BY <1>1, GatewayAssumption DEF TypeOK
  <1>3. inbox[k].n = NumberSeen(Len(seen)) + k
    BY <1>2 DEF PacketsInOrder
  <1>4. QED
    BY <1>1, <1>2, <1>3 DEF ReceivePacket

LEMMA NumberSeenType ==
    ASSUME TypeOK, NEW i \in 0 .. Len(seen)
    PROVE  NumberSeen(i) \in Nat
  <1>1. CASE i = 0
    BY <1>1 DEF NumberSeen
  <1>2. CASE i # 0
    <2>1. seen \in Seq(Packet) /\ i \in 1 .. Len(seen)
      BY <1>2 DEF TypeOK
    <2>2. seen[i] \in Packet
      BY <2>1
    <2>3. QED
      BY <1>2, <2>2 DEF NumberSeen, Packet
  <1>3. QED
    BY <1>1, <1>2

LEMMA ReceiveKeepsOrder ==
    ASSUME TypeOK, PacketsInOrder, ReceivePacket
    PROVE  PacketsInOrder'
  <1>0. PICK L \in Nat, last \in Nat : L = Len(seen) /\ last = NumberSeen(L)
    BY NumberSeenType DEF TypeOK
  <1>1. PICK k \in 1 .. PacketsPerUpdate :
              /\ k \in 1 .. Len(inbox)
              /\ packet' = inbox[k] /\ packet'.n = last + k
              /\ inbox' = SubSeq(inbox, k + 1, Len(inbox))
              /\ seen' = Append(seen, inbox[k]) /\ sent' = sent
    BY <1>0, ReceiveTakes
  <1>2. /\ Len(inbox) \in Nat /\ k \in Nat
        /\ seen \in Seq(Packet) /\ inbox \in Seq(Packet) /\ inbox[k] \in Packet
    BY <1>1, GatewayAssumption DEF TypeOK
  <1>3. /\ Len(seen') = L + 1
        /\ seen'[L + 1] = inbox[k]
        /\ \A i \in 1 .. L : seen'[i] = seen[i]
    BY <1>0, <1>1, <1>2
  <1>4. /\ Len(inbox') = Len(inbox) - k
        /\ \A i \in 1 .. Len(inbox) - k : inbox'[i] = inbox[k + i]
    BY <1>1, <1>2
  <1>5. NumberSeen(L + 1)' = last + k
    <2>1. L + 1 # 0 /\ inbox[k].n = last + k
      BY <1>1, <1>2
    <2>2. QED
      BY <1>3, <2>1 DEF NumberSeen
  <1>6. \A i \in 0 .. L : NumberSeen(i)' = NumberSeen(i)
    BY <1>3 DEF NumberSeen
  <1>7. \A i \in 1 .. Len(seen') :
           seen'[i].n \in NumberSeen(i - 1)' + 1 .. NumberSeen(i - 1)' + PacketsPerUpdate
    <2>1. ASSUME NEW i \in 1 .. L
          PROVE  seen'[i].n \in NumberSeen(i - 1)' + 1 .. NumberSeen(i - 1)' + PacketsPerUpdate
      <3>1. i - 1 \in 0 .. L
        BY <1>2
      <3>2. NumberSeen(i - 1)' = NumberSeen(i - 1) /\ seen'[i] = seen[i]
        BY <1>3, <1>6, <3>1
      <3>3. QED
        BY <1>0, <3>2 DEF PacketsInOrder
    <2>2. seen'[L + 1].n \in NumberSeen(L)' + 1 .. NumberSeen(L)' + PacketsPerUpdate
      <3>1. NumberSeen(L)' = last
        BY <1>0, <1>6
      <3>2. seen'[L + 1].n = last + k
        BY <1>1, <1>3
      <3>3. QED
        BY <1>1, <1>2, <3>1, <3>2, GatewayAssumption
    <2>3. ASSUME NEW i \in 1 .. Len(seen'), i # L + 1 PROVE i \in 1 .. L
      BY <1>2, <1>3, <2>3
    <2>4. (L + 1) - 1 = L
      BY <1>2
    <2>5. ASSUME NEW i \in 1 .. Len(seen')
          PROVE  seen'[i].n \in NumberSeen(i - 1)' + 1 .. NumberSeen(i - 1)' + PacketsPerUpdate
      <3>1. CASE i = L + 1
        BY <2>2, <2>4, <3>1, Zenon
      <3>2. CASE i # L + 1
        BY <2>1, <2>3, <3>2, Zenon
      <3>3. QED
        BY <3>1, <3>2
    <2>6. QED
      BY <2>5, Zenon
  <1>8. \A i \in 1 .. Len(inbox') : inbox'[i].n = NumberSeen(L + 1)' + i
    <2> SUFFICES ASSUME NEW i \in 1 .. Len(inbox) - k PROVE inbox'[i].n = last + k + i
      BY <1>4, <1>5
    <2>1. k + i \in 1 .. Len(inbox)
      BY <1>2
    <2>2. inbox[k + i].n = last + (k + i)
      BY <1>0, <2>1 DEF PacketsInOrder
    <2>3. QED
      BY <1>2, <1>4, <2>2
  <1>9. NumberSeen(L + 1)' + Len(inbox') = sent'
    <2>1. last + Len(inbox) = sent
      BY <1>0 DEF PacketsInOrder
    <2>2. QED
      BY <1>1, <1>2, <1>4, <1>5, <2>1
  <1>10. NumberSeen(Len(seen))' = NumberSeen(L + 1)'
    BY <1>3
  <1>11. QED
    BY <1>7, <1>8, <1>9, <1>10, Zenon DEF PacketsInOrder

LEMMA SendKeepsOrder ==
    ASSUME TypeOK, PacketsInOrder, ServerSends
    PROVE  PacketsInOrder'
  <1>1. PICK kind \in PacketKinds, ack \in BOOLEAN :
            inbox' = Append(inbox, [n |-> sent + 1, kind |-> kind, ack |-> ack])
    BY DEF ServerSends
  <1> DEFINE new == [n |-> sent + 1, kind |-> kind, ack |-> ack]
  <1>0. PICK last \in Nat : last = NumberSeen(Len(seen))
    BY NumberSeenType DEF TypeOK
  <1>2. new \in Packet /\ new.n = sent + 1
    BY DEF Packet, TypeOK
  <1>3. inbox' = Append(inbox, new)
    BY <1>1
  <1> HIDE DEF new
  <1>4. /\ inbox \in Seq(Packet) /\ Len(inbox) \in Nat
        /\ Len(seen) \in Nat /\ sent \in Nat /\ sent' = sent + 1 /\ seen' = seen
    BY DEF TypeOK, ServerSends, historyVars
  <1>5. /\ Len(inbox') = Len(inbox) + 1
        /\ inbox'[Len(inbox) + 1] = new
        /\ \A i \in 1 .. Len(inbox) : inbox'[i] = inbox[i]
    BY <1>2, <1>3, <1>4
  <1>6. \A i \in 0 .. Len(seen) : NumberSeen(i)' = NumberSeen(i)
    BY <1>4 DEF NumberSeen
  <1>7. new.n = last + (Len(inbox) + 1)
    BY <1>0, <1>2, <1>4 DEF PacketsInOrder
  <1>8. \A i \in 1 .. Len(inbox') : inbox'[i].n = last + i
    <2>1. \A i \in 1 .. Len(inbox) : inbox[i].n = last + i
      BY <1>0 DEF PacketsInOrder
    <2>2. QED
      BY <1>4, <1>5, <1>7, <2>1
  <1>9. last + Len(inbox') = sent'
    <2>1. last + Len(inbox) = sent
      BY <1>0 DEF PacketsInOrder
    <2>2. QED
      BY <1>4, <1>5, <2>1
  <1>10. NumberSeen(Len(seen))' = last
    <2>1. NumberSeen(Len(seen))' = NumberSeen(Len(seen))
      BY <1>4 DEF NumberSeen
    <2>2. QED
      BY <1>0, <2>1
  <1>11. \A i \in 1 .. Len(seen) :
            seen[i].n \in NumberSeen(i - 1)' + 1 .. NumberSeen(i - 1)' + PacketsPerUpdate
    BY <1>4, <1>6 DEF PacketsInOrder
  <1>12. QED
    BY <1>4, <1>8, <1>9, <1>10, <1>11 DEF PacketsInOrder

(* However many packets one update delivers, they are seen in their order, *)
(* less than that many in a row are lost to the mailbox, and the ones      *)
(* behind the last that was seen are on their way (API.cpp:32,             *)
(* Gateway.lua:155-165).                                                   *)
THEOREM PacketsInOrderThm == Spec => []PacketsInOrder
  <1>1. Init => PacketsInOrder
    <2> SUFFICES ASSUME Init PROVE PacketsInOrder
      OBVIOUS
    <2>1. inbox = <<>> /\ seen = <<>> /\ sent = 0
      BY DEF Init
    <2>2. QED
      BY <2>1 DEF PacketsInOrder, NumberSeen
  <1>2. PacketsInOrder /\ PacketsRest => PacketsInOrder'
    BY DEF PacketsInOrder, PacketsRest, NumberSeen
  <1>3. TypeOK /\ PacketsInOrder /\ [Next]_vars => PacketsInOrder'
    BY <1>2, OthersLeavePackets, ReceiveKeepsOrder, SendKeepsOrder
  <1>4. QED
    BY <1>1, <1>3, TypeCorrect, PTL DEF Spec

-----------------------------------------------------------------------------
(* Serving packets.                                                        *)

(* The packet in hand is the one received last, nobody else runs before it *)
(* is handled, and what was served came before it.                         *)
ServePlace ==
    pc = "Packet" =>
        /\ depth = 0
        /\ Len(seen) \in DOMAIN seen
        /\ packet = seen[Len(seen)]
        /\ \A j \in DOMAIN served : served[j] < packet.n

ServedWereSeen == \A j \in DOMAIN served : served[j] <= NumberSeen(Len(seen))

ServeInv == TypeOK /\ PacketsInOrder /\ ServePlace /\ ServedWereSeen /\ ServedOnce

(* No other action comes near a packet that waits to be handled.           *)
ServeRest ==
    /\ UNCHANGED <<seen, served>>
    /\ \/ pc = "Packet" /\ UNCHANGED <<pc, depth, packet>>
       \/ pc # "Packet" /\ pc' # "Packet"

LEMMA MainLineServe ==
    ASSUME TypeOK, ServePlace, MainLine
    PROVE  ReceivePacket \/ HandlePacket \/ HandlePacketAckFails \/ ServeRest
<1>1. CASE \/ InitSucceeds \/ InitFails \/ ConnectFails \/ Connect \/ StartLoop \/ OnUpdate
           \/ ReceiveWouldBlock \/ ReceiveWithoutHandle
  BY <1>1 DEF InitSucceeds, InitFails, ConnectFails, Connect, StartLoop, OnUpdate,
     ReceiveWouldBlock, ReceiveWithoutHandle, At, ServeRest, historyVars
<1>2. CASE PacketCallbackReturns
  BY <1>2 DEF PacketCallbackReturns, AfterPacket, PacketContexts, ServeRest, historyVars
<1>3. CASE \/ SchedulerStep \/ SaveStorageEvent \/ ScheduledCallbackReturns \/ UpdateEnds
           \/ OnUpdateReturns \/ Sync
  BY <1>3 DEF SchedulerStep, SaveStorageEvent, ScheduledCallbackReturns, UpdateEnds,
     OnUpdateReturns, Sync, At, ServeRest, historyVars
<1>4. CASE RunDisconnects \/ FinalSave \/ CloseDatabase \/ SaveRaises
  BY <1>4 DEF RunDisconnects, FinalSave, CloseDatabase, SaveRaises, At, ServeRest, historyVars
<1> QED
  BY <1>1, <1>2, <1>3, <1>4 DEF MainLine

LEMMA UserCodeServe ==
    ASSUME TypeOK, ServePlace, UserCode
    PROVE  ServeRest
<1>1. pc = "Packet" => ~InCallback /\ depth = 0
  BY DEF ServePlace, InCallback, CallbackContexts
<1> QED
  BY <1>1 DEF UserCode, UserSchedules, UserSets, UserSendFails, DisconnectEnds, UserRaises,
     At, ServeRest, historyVars

LEMMA RestKeepsServing ==
    ASSUME ServePlace, ServedWereSeen, ServedOnce, ServeRest
    PROVE  ServePlace' /\ ServedWereSeen' /\ ServedOnce'
  BY DEF ServePlace, ServedWereSeen, NumberSeen, ServedOnce, ServeRest

LEMMA ReceiveServes ==
    ASSUME ServeInv, ReceivePacket
    PROVE  ServePlace' /\ ServedWereSeen' /\ ServedOnce'
<1>1. /\ packet' \in Packet
      /\ seen' = Append(seen, packet')
      /\ pc # "Packet" /\ pc' = "Packet" /\ depth = 0 /\ depth' = 0 /\ served' = served
  BY DEF ServeInv, TypeOK, ReceivePacket, At
<1>2. /\ seen \in Seq(Packet) /\ Len(seen) \in Nat /\ DOMAIN seen = 1 .. Len(seen)
      /\ served \in Seq(Nat) /\ \A j \in DOMAIN served : served[j] \in Nat
  BY DEF ServeInv, TypeOK
<1>3. /\ Len(seen') = Len(seen) + 1 /\ DOMAIN seen' = 1 .. Len(seen) + 1
      /\ seen'[Len(seen) + 1] = packet'
      /\ \A i \in 1 .. Len(seen) : seen'[i] = seen[i]
  BY <1>1, <1>2
<1>4. \A j \in DOMAIN served : served[j] < packet'.n
  <2>1. packet'.n > NumberSeen(Len(seen)) /\ NumberSeen(Len(seen)) \in Nat /\ packet'.n \in Nat
    BY <1>1, <1>2, ReceiveTakes, NumberSeenType, GatewayAssumption DEF ServeInv, Packet
  <2> QED
    BY <1>2, <2>1 DEF ServeInv, ServedWereSeen
<1>5. NumberSeen(Len(seen))' = packet'.n /\ packet'.n \in Nat
  BY <1>1, <1>2, <1>3 DEF NumberSeen, Packet
<1>6. ServePlace' /\ ServedWereSeen'
  BY <1>1, <1>2, <1>3, <1>4, <1>5 DEF ServePlace, ServedWereSeen
<1>7. ServedOnce'
  BY <1>1, <1>2, <1>3 DEF ServeInv, ServedOnce
<1> QED
  BY <1>6, <1>7

LEMMA HandleServes ==
    ASSUME ServeInv, At("Packet"), Serve, seen' = seen
    PROVE  ServePlace' /\ ServedWereSeen' /\ ServedOnce'
<1>1. /\ Len(seen) \in DOMAIN seen /\ packet = seen[Len(seen)]
      /\ \A j \in DOMAIN served : served[j] < packet.n
      /\ Len(seen) \in Nat /\ packet.n \in Nat /\ NumberSeen(Len(seen)) = packet.n
  <2>1. /\ Len(seen) \in DOMAIN seen /\ packet = seen[Len(seen)] /\ seen \in Seq(Packet)
        /\ \A j \in DOMAIN served : served[j] < packet.n
    BY DEF ServeInv, TypeOK, At, ServePlace
  <2>2. Len(seen) \in Nat /\ Len(seen) # 0 /\ packet \in Packet
    BY <2>1
  <2> QED
    BY <2>1, <2>2 DEF NumberSeen, Packet
<1>2. served \in Seq(Nat) /\ Len(served) \in Nat /\ DOMAIN served = 1 .. Len(served)
  BY DEF ServeInv, TypeOK
<1>3. pc' # "Packet" /\ NumberSeen(Len(seen))' = packet.n
  BY <1>1 DEF Serve, HandlerOf, AfterPacket, NumberSeen
<1>4. CASE packet.kind = "other"
  <2>1. served' = served
    BY <1>4 DEF Serve
  <2> QED
    BY <1>1, <1>3, <1>4, <2>1 DEF ServeInv, ServePlace, ServedWereSeen, ServedOnce
<1>5. CASE packet.kind # "other"
  <2>1. served' = Append(served, packet.n)
    BY <1>1, <1>5 DEF Serve
  <2>2. /\ Len(served') = Len(served) + 1 /\ DOMAIN served' = 1 .. Len(served) + 1
        /\ served'[Len(served) + 1] = packet.n
        /\ \A j \in 1 .. Len(served) : served'[j] = served[j]
    BY <1>1, <1>2, <2>1
  <2>3. ServePlace' /\ ServedWereSeen'
    BY <1>1, <1>2, <1>3, <2>2 DEF ServePlace, ServedWereSeen
  <2>4. \A i, j \in DOMAIN served' : served'[i] = served'[j] => i = j
    <3>1. \A i, j \in DOMAIN served : served[i] = served[j] => i = j
      BY DEF ServeInv, ServedOnce
    <3>2. \A j \in DOMAIN served : served[j] # packet.n
      BY <1>1, <1>2
    <3> QED
      BY <1>2, <2>2, <3>1, <3>2
  <2>5. \A i \in DOMAIN seen :
          \/ seen[i].kind = "other"
          \/ \E j \in DOMAIN served' : served'[j] = seen[i].n
    <3> SUFFICES ASSUME NEW i \in DOMAIN seen, seen[i].kind # "other"
                 PROVE  \E j \in DOMAIN served' : served'[j] = seen[i].n
      OBVIOUS
    <3>1. CASE seen[i] = packet
      <4>1. Len(served) + 1 \in DOMAIN served' /\ served'[Len(served) + 1] = seen[i].n
        BY <1>1, <1>2, <2>2, <3>1
      <4> QED
        BY <4>1
    <3>2. CASE seen[i] # packet
      <4>1. PICK j \in DOMAIN served : served[j] = seen[i].n
        BY <3>2 DEF ServeInv, ServedOnce
      <4>2. j \in DOMAIN served' /\ served'[j] = seen[i].n
        BY <1>2, <2>2, <4>1
      <4> QED
        BY <4>2
    <3> QED
      BY <3>1, <3>2
  <2> QED
    BY <2>3, <2>4, <2>5 DEF ServedOnce
<1> QED
  BY <1>4, <1>5

(* User code is called exactly once for each packet that was received and  *)
(* is meant for it, whether its acknowledgement could be sent or not, and  *)
(* however many packets an update delivers (Gateway.lua:46-90).            *)
THEOREM ServedOnceThm == Spec => []ServedOnce
<1>1. Init => ServePlace /\ ServedWereSeen /\ ServedOnce
  <2> SUFFICES ASSUME Init PROVE ServePlace /\ ServedWereSeen /\ ServedOnce
    OBVIOUS
  <2>1. pc = "Start" /\ seen = <<>> /\ served = <<>>
    BY DEF Init
  <2> QED
    BY <2>1 DEF ServePlace, ServedWereSeen, ServedOnce
<1>2. ServeInv /\ [Next]_vars => ServePlace' /\ ServedWereSeen' /\ ServedOnce'
  <2> SUFFICES ASSUME ServeInv, [Next]_vars
               PROVE  ServePlace' /\ ServedWereSeen' /\ ServedOnce'
    OBVIOUS
  <2> USE DEF ServeInv
  <2>1. CASE ReceivePacket
    BY <2>1, ReceiveServes
  <2>2. CASE HandlePacket \/ HandlePacketAckFails
    <3>1. At("Packet") /\ Serve /\ seen' = seen
      BY <2>2 DEF HandlePacket, HandlePacketAckFails
    <3> QED
      BY <3>1, HandleServes
  <2>3. CASE MainLine /\ ~ReceivePacket /\ ~HandlePacket /\ ~HandlePacketAckFails
    BY <2>3, MainLineServe, RestKeepsServing
  <2>4. CASE UserCode
    BY <2>4, UserCodeServe, RestKeepsServing
  <2>5. CASE Server \/ UNCHANGED vars
    <3>1. ServeRest
      BY <2>5 DEF Server, ServerSends, ServerCloses, vars, historyVars, ServeRest
    <3> QED
      BY <3>1, RestKeepsServing
  <2> QED
    BY <2>1, <2>2, <2>3, <2>4, <2>5 DEF Next
<1>3. ServeInv => ServedOnce
  BY DEF ServeInv
<1> QED
  BY <1>1, <1>2, <1>3, TypeCorrect, PacketsInOrderThm, PTL DEF Spec, ServeInv
-----------------------------------------------------------------------------
(* The chain of periodic saves.                                            *)

Period    == SavePeriod * MsPerSecond
UpdatePcs == {"Scheduled", "SaveStorageReturns"}
BeforeLoop == {"Start", "Script", "OnConnected"}

(* Entries are told apart by their ids, and the traversal is at one of them*)
SaveTable ==
    /\ \A d, e \in table : d.id = e.id => d = e
    /\ \A e \in table : e.id < nextId
    /\ phase = "callback" => \E e \in table : e.id = cursor /\ e.at = bucket

SavePlace ==
    /\ pc \in (LoopPcs \ UpdatePcs) \cup BeforeLoop => phase = "idle"
    /\ pc = "SaveStorageReturns" => phase = "callback"
    /\ phase \in {"idle", "scan"} => bucket = NoBucket
    /\ phase \in {"bucket", "callback"} => bucket <= timer

(* The next save is due a period after the last one.                       *)
SaveAhead == \E e \in table : PendingSaves = {e} /\ e.at = savedAt + Period

SaveChain ==
    /\ pc \in BeforeLoop => savedAt = timer /\ \A e \in table : e.event # SaveStorage
    /\ pc \in LoopPcs => IF SaveRunning THEN PendingSaves = {} /\ bucket = savedAt + Period
                                        ELSE SaveAhead
    /\ pc \in LoopPcs /\ phase = "idle" => timer < savedAt + Period

ChainInv == TypeOK /\ SaveTable /\ SavePlace /\ SaveChain

LEMMA ChainNumbers ==
    TypeOK => /\ {timer, savedAt, cursor, Period} \subseteq Nat /\ nextId \in Nat \ {0}
              /\ Period > 0
              /\ bucket \in Int /\ NoBucket \notin Nat
              /\ \A e \in table : e.id \in Nat \ {0} /\ e.at \in Nat
  <1> SUFFICES ASSUME TypeOK
               PROVE  /\ {timer, savedAt, cursor, Period} \subseteq Nat /\ nextId \in Nat \ {0}
                      /\ Period > 0
                      /\ bucket \in Int /\ NoBucket \notin Nat
                      /\ \A e \in table : e.id \in Nat \ {0} /\ e.at \in Nat
    OBVIOUS
  <1>1. Period \in Nat /\ Period > 0
    BY GatewayAssumption, DelayInMilliseconds DEF Period
  <1>2. \A e \in table : e.id \in Nat \ {0} /\ e.at \in Nat
    BY DEF TypeOK, SchedulerTypeOK, Entry
  <1>3. QED
    BY <1>1, <1>2 DEF TypeOK, SchedulerTypeOK, NoBucket

(* The event that runs is that of the entry the traversal is at.           *)
LEMMA RunningEntry ==
    ASSUME SaveTable, NEW e \in table, e.id = cursor
    PROVE  RunningEvent = e.event
  <1>1. \A d \in table : d.id = cursor => d = e
    BY DEF SaveTable
  <1>2. (CHOOSE d \in table : d.id = cursor) = e
    BY <1>1
  <1>3. QED
    BY <1>2 DEF RunningEvent

(* The steps that concern neither the scheduler nor the saves.             *)
OtherStep ==
    /\ UNCHANGED <<schedulerVars, savedAt>>
    /\ \/ pc' = pc
       \/ pc' = "Error"
       \/ pc \notin UpdatePcs /\ pc' \notin UpdatePcs
    /\ pc' \in LoopPcs => pc \in LoopPcs
    /\ pc' \in BeforeLoop => pc \in BeforeLoop

LEMMA OtherSteps ==
    TypeOK /\ [Next]_vars =>
        \/ StartLoop \/ ReceiveWouldBlock \/ SchedulerStep \/ SaveStorageEvent
        \/ ScheduledCallbackReturns \/ UpdateEnds \/ UserSchedules
        \/ OtherStep
  <1> SUFFICES ASSUME TypeOK, [Next]_vars
               PROVE  \/ StartLoop \/ ReceiveWouldBlock \/ SchedulerStep \/ SaveStorageEvent
                      \/ ScheduledCallbackReturns \/ UpdateEnds \/ UserSchedules
                      \/ OtherStep
    OBVIOUS
  <1> USE DEF OtherStep, UpdatePcs, BeforeLoop, LoopPcs, PacketContexts, At, historyVars
  <1>1. CASE InitSucceeds \/ InitFails \/ ConnectFails \/ Connect
    BY <1>1 DEF InitSucceeds, InitFails, ConnectFails, Connect
  <1>2. CASE OnUpdate \/ ReceivePacket \/ ReceiveWithoutHandle
    BY <1>2 DEF OnUpdate, ReceivePacket, ReceiveWithoutHandle
  <1>3. CASE HandlePacket \/ HandlePacketAckFails \/ PacketCallbackReturns
    BY <1>3 DEF HandlePacket, HandlePacketAckFails, SendFails, Serve, HandlerOf, AfterPacket,
                PacketCallbackReturns
  <1>4. CASE OnUpdateReturns \/ Sync
    BY <1>4 DEF OnUpdateReturns, Sync
  <1>5. CASE RunDisconnects \/ FinalSave \/ CloseDatabase \/ SaveRaises
    BY <1>5 DEF RunDisconnects, FinalSave, CloseDatabase, SaveRaises
  <1>6. CASE UserSets \/ UserSendFails \/ DisconnectEnds \/ UserRaises
    BY <1>6 DEF UserSets, UserSendFails, SendFails, DisconnectEnds, UserRaises
  <1>7. CASE Server \/ UNCHANGED vars
    BY <1>7 DEF Server, ServerSends, ServerCloses, vars
  <1>8. QED
    BY <1>1, <1>2, <1>3, <1>4, <1>5, <1>6, <1>7 DEF Next, MainLine, UserCode

LEMMA OtherStepChain ==
    ASSUME ChainInv, OtherStep
    PROVE  SaveTable' /\ SavePlace' /\ SaveChain'
  <1>1. UNCHANGED <<timer, table, nextId, phase, bucket, cursor, savedAt>>
    BY DEF OtherStep, schedulerVars
  <1>2. SaveTable'
    BY <1>1 DEF ChainInv, SaveTable
  <1>3. SavePlace'
    BY <1>1 DEF ChainInv, SavePlace, OtherStep, LoopPcs, PacketContexts, BeforeLoop, UpdatePcs
  <1>4. PendingSaves' = PendingSaves /\ RunningEvent' = RunningEvent
    BY <1>1 DEF PendingSaves, RunningEvent
  <1>5. SaveAhead' = SaveAhead
    BY <1>1, <1>4 DEF SaveAhead
  <1>6. pc' \in LoopPcs => SaveRunning' = SaveRunning
    BY <1>1, <1>4 DEF SaveRunning, OtherStep, UpdatePcs, LoopPcs, PacketContexts
  <1>7. SaveChain'
    BY <1>1, <1>4, <1>5, <1>6 DEF ChainInv, SaveChain, OtherStep
  <1>8. QED
    BY <1>2, <1>3, <1>7

(* A new entry leaves the ones before it alone.                            *)
LEMMA ScheduledTable ==
    ASSUME TypeOK, SaveTable, NEW event, NEW delay \in Nat, ScheduleEvent(event, delay)
    PROVE  /\ SaveTable'
           /\ phase = "callback" => RunningEvent' = RunningEvent
  <1> DEFINE new == [id |-> nextId, at |-> timer + delay * MsPerSecond, event |-> event]
  <1>1. table' = table \cup {new} /\ nextId' = nextId + 1 /\ UNCHANGED <<phase, bucket, cursor>>
    BY DEF ScheduleEvent
  <1>2. new.id = nextId
    OBVIOUS
  <1>3. nextId \in Nat \ {0} /\ \A e \in table : e.id \in Nat \ {0}
    BY ChainNumbers
  <1>4. \A e \in table : e.id < nextId
    BY DEF SaveTable
  <1> HIDE DEF new
  <1>5. \A d, e \in table' : d.id = e.id => d = e
    BY <1>1, <1>2, <1>3, <1>4 DEF SaveTable
  <1>6. \A e \in table' : e.id < nextId'
    BY <1>1, <1>2, <1>3, <1>4
  <1>7. phase' = "callback" => \E e \in table' : e.id = cursor' /\ e.at = bucket'
    BY <1>1 DEF SaveTable
  <1>8. SaveTable'
    BY <1>5, <1>6, <1>7 DEF SaveTable
  <1>9. ASSUME phase = "callback" PROVE RunningEvent' = RunningEvent
    <2>1. PICK e \in table : e.id = cursor
      BY <1>9 DEF SaveTable
    <2>2. RunningEvent = e.event
      BY <2>1, RunningEntry
    <2>3. \A d \in table' : d.id = cursor' => d = e
      BY <1>1, <1>5, <2>1
    <2>4. (CHOOSE d \in table' : d.id = cursor') = e
      BY <1>1, <2>1, <2>3
    <2>5. QED
      BY <2>2, <2>4 DEF RunningEvent
  <1>10. QED
    BY <1>8, <1>9

(* A save that is scheduled when none is pending is the one that is ahead. *)
LEMMA SaveScheduled ==
    ASSUME ChainInv, ScheduleEvent(SaveStorage, SavePeriod), savedAt' = timer,
           PendingSaves = {}, bucket <= timer
    PROVE  SaveAhead' /\ timer' < savedAt' + Period
  <1> DEFINE new == [id |-> nextId, at |-> timer + Period, event |-> SaveStorage]
  <1>1. /\ table' = table \cup {new} /\ UNCHANGED <<timer, bucket, cursor>>
    BY DEF ScheduleEvent, Period
  <1>2. timer \in Nat /\ Period \in Nat /\ Period > 0 /\ bucket \in Int
    BY ChainNumbers DEF ChainInv
  <1>3. new.at = timer + Period /\ new.at # bucket /\ new.event = SaveStorage
    BY <1>2
  <1> HIDE DEF new
  <1>4. PendingSaves' = {new}
    BY <1>1, <1>3 DEF PendingSaves
  <1>5. QED
    BY <1>1, <1>2, <1>3, <1>4 DEF SaveAhead

(* Events of the user are not pending saves.                               *)
LEMMA UserSchedulesChain ==
    ASSUME ChainInv, UserSchedules
    PROVE  SaveTable' /\ SavePlace' /\ SaveChain'
  <1>1. PICK event \in Events \ {SaveStorage}, delay \in UserDelays : ScheduleEvent(event, delay)
    BY DEF UserSchedules
  <1>2. delay \in Nat
    BY GatewayAssumption
  <1>3. /\ UNCHANGED <<pc, timer, phase, bucket, cursor, savedAt>>
        /\ table \subseteq table'
        /\ \A e \in table' : e \in table \/ e.event # SaveStorage
    BY <1>1 DEF ScheduleEvent, UserSchedules, historyVars
  <1>4. SaveTable' /\ (phase = "callback" => RunningEvent' = RunningEvent)
    BY <1>1, <1>2, ScheduledTable DEF ChainInv
  <1>5. SavePlace'
    BY <1>3 DEF ChainInv, SavePlace
  <1>6. PendingSaves' = PendingSaves
    BY <1>3 DEF PendingSaves
  <1>7. SaveAhead => SaveAhead'
    BY <1>3, <1>6 DEF SaveAhead
  <1>8. SaveRunning' = SaveRunning
    BY <1>3, <1>4 DEF SaveRunning
  <1>9. SaveChain'
    BY <1>3, <1>6, <1>7, <1>8 DEF ChainInv, SaveChain
  <1>10. QED
    BY <1>4, <1>5, <1>9

(* The traversal reaches the save, or another entry and leaves it pending. *)
LEMMA RunEntryChain ==
    ASSUME ChainInv, pc = "Scheduled", RunEntry, UNCHANGED <<pc, savedAt>>
    PROVE  SaveTable' /\ SavePlace' /\ SaveChain'
  <1>1. PICK e \in Remaining : cursor' = e.id /\ \A d \in Remaining : e.id <= d.id
    BY DEF RunEntry
  <1>2. /\ phase = "bucket" /\ phase' = "callback" /\ UNCHANGED <<timer, table, nextId, bucket>>
        /\ e \in table /\ e.at = bucket /\ e.id > cursor
    BY <1>1 DEF RunEntry, Remaining
  <1>3. /\ \A d \in table : d.id \in Nat /\ d.at \in Nat
        /\ cursor \in Nat
    BY ChainNumbers DEF ChainInv
  <1>4. SaveTable'
    BY <1>1, <1>2 DEF ChainInv, SaveTable
  <1>5. SavePlace'
    BY <1>2 DEF ChainInv, SavePlace, UpdatePcs, LoopPcs, BeforeLoop, PacketContexts
  <1>6. RunningEvent' = e.event
    <2>1. \A d \in table' : d.id = cursor' => d = e
      BY <1>1, <1>2 DEF ChainInv, SaveTable
    <2>2. (CHOOSE d \in table' : d.id = cursor') = e
      BY <1>1, <1>2, <2>1
    <2>3. QED
      BY <2>2 DEF RunningEvent
  <1>7. pc \in LoopPcs /\ pc \notin BeforeLoop
    BY DEF LoopPcs, BeforeLoop
  <1>8. PICK s \in table : PendingSaves = {s} /\ s.at = savedAt + Period
    BY <1>2, <1>7 DEF ChainInv, SaveChain, SaveRunning, SaveAhead
  <1>9. PendingSaves' \subseteq PendingSaves
    BY <1>1, <1>2, <1>3 DEF PendingSaves
  <1>10. CASE e.event = SaveStorage
    <2>1. e \in PendingSaves
      BY <1>2, <1>3, <1>10 DEF PendingSaves
    <2>2. e = s
      BY <1>8, <2>1
    <2>3. e \notin PendingSaves'
      BY <1>1, <1>2, <1>3 DEF PendingSaves
    <2>4. PendingSaves' = {}
      BY <1>8, <1>9, <2>2, <2>3
    <2>5. SaveRunning' /\ bucket' = savedAt' + Period
      BY <1>2, <1>6, <1>8, <1>10, <2>2 DEF SaveRunning
    <2>6. QED
      BY <1>2, <1>4, <1>5, <1>7, <2>4, <2>5 DEF SaveChain
  <1>11. CASE e.event # SaveStorage
    <2>1. s \in PendingSaves /\ s.event = SaveStorage /\ ~(s.at = bucket /\ s.id <= cursor)
      BY <1>8 DEF PendingSaves
    <2>2. s # e
      BY <1>11, <2>1
    <2>3. ASSUME s.at = bucket, s.id <= e.id PROVE FALSE
      <3>1. s \in Remaining
        BY <1>3, <2>1, <2>3 DEF Remaining
      <3>2. s.id = e.id
        BY <1>1, <1>2, <1>3, <2>3, <3>1
      <3>3. QED
        BY <1>2, <2>2, <3>2 DEF ChainInv, SaveTable
    <2>4. s \in PendingSaves'
      BY <1>1, <1>2, <2>1, <2>3 DEF PendingSaves
    <2>5. PendingSaves' = {s}
      BY <1>8, <1>9, <2>4
    <2>6. SaveAhead' /\ ~SaveRunning'
      BY <1>2, <1>6, <1>8, <1>11, <2>5 DEF SaveAhead, SaveRunning
    <2>7. QED
      BY <1>2, <1>4, <1>5, <1>7, <2>6 DEF SaveChain
  <1>12. QED
    BY <1>10, <1>11

(* Picking and dropping a bucket leaves the save pending.                  *)
LEMMA BucketChain ==
    ASSUME ChainInv, pc = "Scheduled", PickBucket \/ DropBucket, UNCHANGED <<pc, savedAt>>
    PROVE  SaveTable' /\ SavePlace' /\ SaveChain'
  <1>1. /\ \A d \in table : d.id \in Nat \ {0} /\ d.at \in Nat
        /\ cursor \in Nat /\ NoBucket \notin Nat
    BY ChainNumbers DEF ChainInv
  <1>2. /\ table' \subseteq table /\ UNCHANGED <<timer, nextId>>
        /\ phase \in {"scan", "bucket"} /\ phase' \in {"scan", "bucket"}
    BY DEF PickBucket, DropBucket
  <1>3. SaveTable'
    BY <1>2 DEF ChainInv, SaveTable
  <1>4. SavePlace'
    <2>1. phase' = "scan" => bucket' = NoBucket
      BY DEF PickBucket, DropBucket
    <2>2. phase' = "bucket" => bucket' <= timer
      BY DEF PickBucket, DropBucket, Due
    <2>3. QED
      BY <1>2, <2>1, <2>2 DEF SavePlace, UpdatePcs, LoopPcs, BeforeLoop, PacketContexts
  <1>5. PendingSaves' = PendingSaves
    <2>1. CASE PickBucket
      <3>1. table' = table /\ cursor' = 0 /\ bucket = NoBucket
        BY <2>1 DEF PickBucket, ChainInv, SavePlace
      <3>2. QED
        BY <1>1, <3>1 DEF PendingSaves
    <2>2. CASE DropBucket
      <3>1. /\ table' = {d \in table : d.at # bucket} /\ bucket' = NoBucket
            /\ \A d \in table : d.at = bucket => d.id <= cursor
        BY <1>1, <2>2 DEF DropBucket, Remaining
      <3>2. QED
        BY <1>1, <3>1 DEF PendingSaves
    <2>3. QED
      BY <2>1, <2>2
  <1>6. pc \in LoopPcs /\ pc \notin BeforeLoop
    BY DEF LoopPcs, BeforeLoop
  <1>7. ~SaveRunning /\ ~SaveRunning'
    BY <1>2 DEF SaveRunning
  <1>8. PICK s \in table : PendingSaves = {s} /\ s.at = savedAt + Period
    BY <1>6, <1>7 DEF ChainInv, SaveChain, SaveAhead
  <1>9. s \in table'
    BY <1>5, <1>8 DEF PendingSaves
  <1>10. SaveAhead'
    BY <1>5, <1>8, <1>9 DEF SaveAhead
  <1>11. QED
    BY <1>2, <1>3, <1>4, <1>6, <1>7, <1>10 DEF SaveChain

LEMMA NextChainInv == ChainInv /\ [Next]_vars => SaveTable' /\ SavePlace' /\ SaveChain'
  <1> SUFFICES ASSUME ChainInv, [Next]_vars PROVE SaveTable' /\ SavePlace' /\ SaveChain'
    OBVIOUS
  <1>1. /\ \A d \in table : d.id \in Nat \ {0} /\ d.at \in Nat
        /\ timer \in Nat
    BY ChainNumbers DEF ChainInv
  <1> USE DEF ChainInv, At
  <1>2. CASE StartLoop
    <2>1. phase = "idle" /\ bucket = NoBucket /\ \A e \in table : e.event # SaveStorage
      BY <1>2 DEF StartLoop, SavePlace, SaveChain, BeforeLoop
    <2>2. PendingSaves = {} /\ bucket <= timer
      BY <1>1, <2>1 DEF PendingSaves, NoBucket
    <2>3. SaveAhead' /\ timer' < savedAt' + Period
      BY <1>2, <2>2, SaveScheduled DEF StartLoop
    <2>4. SaveTable'
      BY <1>2, ScheduledTable, GatewayAssumption DEF StartLoop
    <2>5. pc' = "OnUpdate" /\ UNCHANGED <<phase, bucket>>
      BY <1>2 DEF StartLoop, ScheduleEvent
    <2>6. QED
      BY <2>1, <2>3, <2>4, <2>5 DEF SavePlace, SaveChain, SaveRunning, BeforeLoop
  <1>3. CASE ReceiveWouldBlock
    <2>1. /\ pc = "Receive" /\ pc' = "Scheduled" /\ phase = "idle" /\ phase' = "scan"
          /\ UNCHANGED <<table, nextId, bucket, cursor, savedAt>>
      BY <1>3 DEF ReceiveWouldBlock, UpdateScheduledEvents, historyVars
    <2>2. pc \in LoopPcs /\ pc' \notin BeforeLoop
      BY <2>1 DEF LoopPcs, BeforeLoop
    <2>3. SaveTable'
      BY <2>1 DEF SaveTable
    <2>4. SavePlace'
      BY <2>1 DEF SavePlace, LoopPcs, UpdatePcs, BeforeLoop, PacketContexts
    <2>5. PendingSaves' = PendingSaves
      BY <2>1 DEF PendingSaves
    <2>6. SaveAhead'
      BY <2>1, <2>2, <2>5 DEF SaveChain, SaveRunning, SaveAhead
    <2>7. QED
      BY <2>1, <2>2, <2>3, <2>4, <2>6 DEF SaveChain, SaveRunning
  <1>4. CASE SchedulerStep
    BY <1>4, RunEntryChain, BucketChain DEF SchedulerStep, historyVars
  <1>5. CASE SaveStorageEvent
    <2>1. SaveRunning /\ pc \in LoopPcs
      BY <1>5 DEF SaveStorageEvent, SaveRunning, LoopPcs
    <2>2. PendingSaves = {} /\ bucket <= timer /\ phase = "callback"
      BY <1>5, <2>1 DEF SaveChain, SavePlace, SaveStorageEvent
    <2>3. SaveAhead'
      BY <1>5, <2>2, SaveScheduled DEF SaveStorageEvent
    <2>4. SaveTable'
      BY <1>5, ScheduledTable, GatewayAssumption DEF SaveStorageEvent
    <2>5. pc' = "SaveStorageReturns" /\ UNCHANGED <<timer, phase, bucket>>
      BY <1>5 DEF SaveStorageEvent, ScheduleEvent
    <2>6. QED
      BY <2>2, <2>3, <2>4, <2>5
      DEF SavePlace, SaveChain, SaveRunning, BeforeLoop, UpdatePcs, LoopPcs, PacketContexts
  <1>6. CASE ScheduledCallbackReturns
    <2>1. /\ phase = "callback" /\ phase' = "bucket" /\ pc' = "Scheduled" /\ pc \in UpdatePcs
          /\ UNCHANGED <<timer, table, nextId, bucket, cursor, savedAt>>
      BY <1>6 DEF ScheduledCallbackReturns, EntryReturns, UpdatePcs, historyVars
    <2>2. ~SaveRunning /\ ~SaveRunning'
      BY <1>6, <2>1 DEF SaveRunning, ScheduledCallbackReturns
    <2>3. pc \in LoopPcs /\ pc' \notin BeforeLoop
      BY <2>1 DEF LoopPcs, BeforeLoop, UpdatePcs
    <2>4. PendingSaves' = PendingSaves
      BY <2>1 DEF PendingSaves
    <2>5. SaveAhead'
      BY <2>1, <2>2, <2>3, <2>4 DEF SaveChain, SaveAhead
    <2>6. SaveTable' /\ SavePlace'
      BY <2>1 DEF SaveTable, SavePlace, LoopPcs, UpdatePcs, BeforeLoop, PacketContexts
    <2>7. QED
      BY <2>1, <2>2, <2>3, <2>5, <2>6 DEF SaveChain
  <1>7. CASE UpdateEnds
    <2>1. /\ phase = "scan" /\ phase' = "idle" /\ pc = "Scheduled" /\ pc' = "OnUpdateEvent"
          /\ Due = {} /\ UNCHANGED <<timer, table, nextId, bucket, cursor, savedAt>>
      BY <1>7 DEF UpdateEnds, NothingDue, historyVars
    <2>2. pc \in LoopPcs /\ pc' \notin BeforeLoop
      BY <2>1 DEF LoopPcs, BeforeLoop
    <2>3. SaveAhead /\ PendingSaves' = PendingSaves
      BY <2>1, <2>2 DEF SaveChain, SaveRunning, PendingSaves
    <2>4. SaveAhead'
      BY <2>1, <2>3 DEF SaveAhead
    <2>5. timer < savedAt + Period
      BY <1>1, <2>1, <2>3 DEF SaveAhead, Due
    <2>6. SaveTable' /\ SavePlace'
      BY <2>1 DEF SaveTable, SavePlace
    <2>7. QED
      BY <2>1, <2>2, <2>4, <2>5, <2>6 DEF SaveChain, SaveRunning
  <1>8. CASE UserSchedules
    BY <1>8, UserSchedulesChain
  <1>9. CASE OtherStep
    BY <1>9, OtherStepChain
  <1>10. QED
    BY <1>2, <1>3, <1>4, <1>5, <1>6, <1>7, <1>8, <1>9, OtherSteps

LEMMA SpecChainInv == Spec => []ChainInv
  <1>1. Init => SaveTable /\ SavePlace /\ SaveChain
    BY DEF Init, SchedulerInit, SaveTable, SavePlace, SaveChain, LoopPcs, PacketContexts
  <1>2. ChainInv /\ TypeOK' /\ [Next]_vars => ChainInv'
    BY NextChainInv DEF ChainInv
  <1>3. Init => ChainInv
    BY <1>1, InitType DEF ChainInv
  <1>4. QED
    BY <1>2, <1>3, TypeCorrect, PTL DEF Spec

(* The chain of periodic saves neither breaks, although saves fail, nor    *)
(* doubles, whatever user code schedules beside it (Gateway.lua:94-99, 120).   *)
THEOREM OneSavePendingThm == Spec => []OneSavePending
  <1>1. ChainInv => OneSavePending
    BY DEF ChainInv, SaveChain, SaveAhead, OneSavePending
  <1>2. QED
    BY <1>1, SpecChainInv, PTL

(* After every update the last save is less than a period ago.             *)
THEOREM SavesKeepUpThm == Spec => []SavesKeepUp
  <1>1. ChainInv => SavesKeepUp
    BY DEF ChainInv, SaveChain, SavesKeepUp, Period
  <1>2. QED
    BY <1>1, SpecChainInv, PTL

(* A periodic save runs a period after the last one, or later.             *)
THEOREM SavesKeepApartThm == Spec => SavesKeepApart
  <1>1. ChainInv /\ [Next]_vars => (savedAt' # savedAt => savedAt' - savedAt >= Period)
    <2> SUFFICES ASSUME ChainInv, [Next]_vars, savedAt' # savedAt
                 PROVE  savedAt' - savedAt >= Period
      OBVIOUS
    <2>1. timer \in Nat /\ savedAt \in Nat /\ Period \in Nat /\ bucket \in Int
      BY ChainNumbers DEF ChainInv
    <2>2. CASE StartLoop
      BY <2>2 DEF StartLoop, At, ChainInv, SaveChain, BeforeLoop
    <2>3. CASE SaveStorageEvent
      <3>1. SaveRunning /\ pc \in LoopPcs /\ phase = "callback" /\ savedAt' = timer
        BY <2>3 DEF SaveStorageEvent, At, SaveRunning, LoopPcs
      <3>2. bucket = savedAt + Period /\ bucket <= timer
        BY <3>1 DEF ChainInv, SaveChain, SavePlace
      <3>3. QED
        BY <2>1, <3>1, <3>2
    <2>4. CASE \/ ReceiveWouldBlock \/ SchedulerStep \/ ScheduledCallbackReturns \/ UpdateEnds
               \/ UserSchedules \/ OtherStep
      BY <2>4 DEF ReceiveWouldBlock, SchedulerStep, ScheduledCallbackReturns, UpdateEnds,
                  UserSchedules, OtherStep, historyVars
    <2>5. QED
      BY <2>2, <2>3, <2>4, OtherSteps DEF ChainInv
  <1>2. ChainInv /\ [Next]_vars =>
            [savedAt' # savedAt => savedAt' - savedAt >= SavePeriod * MsPerSecond]_vars
    BY <1>1 DEF Period
  <1>3. QED
    BY <1>2, SpecChainInv, PTL DEF Spec, SavesKeepApart
=============================================================================
