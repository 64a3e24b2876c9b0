------------------------ MODULE ControlSessionProofs ------------------------
(***************************************************************************)
(* Proofs about ControlSession, for any finite set of sockets, any number  *)
(* of session permits and any capacity of the channels.  What the runs     *)
(* check follows from IInv: the maps follow the handlers step by step      *)
(* (Registration, Unindexed), the reference a broadcast holds keeps its connection in *)
(* the map (Referenced), a handler cleans up only after its socket failed  *)
(* (CleanupNeedsFailure), and the semaphore bounds the handlers at work.   *)
(***************************************************************************)
EXTENDS ControlSession, FiniteSetTheorems, SequenceTheorems, TLAPS

(* Between its two insertions a session is in the first map only.  Nobody  *)
(* but a disconnect request takes it out while its handler is at work.     *)
Registration ==
  /\ \A s \in connections : pc[s] \in {"indexing", "loop", "sending", "removing"}
  /\ \A s \in Sessions : pc[s] = "indexing" /\ s \notin disconnected => s \in connections
  /\ api.step = "unindexing" => api.target \in disconnected
  /\ LoopIsReachable

(* Who is in the second map and no longer in the first is being taken out  *)
(* by its handler or by the request, or lost the race; and a session that  *)
(* is about to enter the second map is in the first, or the same is true.  *)
Unindexed ==
  /\ \A s \in index : s \in connections \/ pc[s] = "unindexing" \/ Unindexing(s) \/ s \in raced
  /\ \A s \in Sessions : pc[s] = "indexing" =>
       s \in connections \/ Unindexing(s) \/ s \in raced
  /\ \A s \in index : pc[s] \in {"loop", "sending", "removing", "unindexing", "offlining"} \cup Ended

(* The key whose reference is held is in the map. *)
Referenced == guard /= NoSession => guard \in connections

(* The loop is left when the socket has failed, and it stays failed. *)
CleanupNeedsFailure == \A s \in Sessions : pc[s] = "removing" => link[s] = "closed"

WithinCap == Cardinality(Permits) =< session_cap

Shape == Registration /\ Unindexed /\ Referenced /\ CleanupNeedsFailure /\ OnlineHasHandler

IInv == TypeOK /\ Shape /\ WithinCap

-----------------------------------------------------------------------------
(* A control plane that has just started satisfies the invariant.          *)
LEMMA InitIInv == Init => IInv
<1> SUFFICES ASSUME Init PROVE IInv
  OBVIOUS
<1>1. TypeOK
  <2>1. rx \in [Sessions -> Seq(Artifacts)] /\ \A s \in Sessions : Len(rx[s]) =< ChannelCap
    BY EmptySeq, BoundAssumption DEF Init
  <2>2. deploy \in [step : {"idle", "sending"}, todo : SUBSET Sessions, artifact : Artifacts]
    BY SomeArtifact DEF Init, NoDeploy
  <2> QED
    BY <2>1, <2>2 DEF Init, TypeOK, HandlerSteps, NoRequest
<1>2. Shape
  BY DEF Init, NoRequest, Shape, Registration, Unindexed, LoopIsReachable, Referenced,
         CleanupNeedsFailure, OnlineHasHandler
<1>3. WithinCap
  <2>1. Permits = {}
    BY DEF Init, Permits, Held
  <2> QED
    BY <2>1, FS_EmptySet, BoundAssumption DEF WithinCap, Init
<1> QED
  BY <1>1, <1>2, <1>3 DEF IInv

(* Every step preserves the type invariant.                                *)
LEMMA TypeStep == TypeOK /\ [Next]_vars => TypeOK'
<1> SUFFICES ASSUME TypeOK, [Next]_vars PROVE TypeOK'
  OBVIOUS
<1> USE DEF TypeOK, HandlerSteps, maps, table, apis, fixed
<1>1. ASSUME NEW s \in Sessions, Accept(s) PROVE TypeOK'
  BY <1>1 DEF Accept, Goto
<1>2. ASSUME NEW s \in Sessions, Reject(s) PROVE TypeOK'
  BY <1>2 DEF Reject, Goto
<1>3. ASSUME NEW s \in Sessions, ReceiveRegister(s) PROVE TypeOK'
  BY <1>3 DEF ReceiveRegister, Goto
<1>4. ASSUME NEW s \in Sessions, NoRegister(s) PROVE TypeOK'
  BY <1>4 DEF NoRegister, Goto
<1>5. ASSUME NEW s \in Sessions, Refuse(s) PROVE TypeOK'
  BY <1>5 DEF Refuse, Goto
<1>6. ASSUME NEW s \in Sessions, CreateRow(s) PROVE TypeOK'
  BY <1>6 DEF CreateRow, Goto
<1>7. ASSUME NEW s \in Sessions, Confirm(s) PROVE TypeOK'
  BY <1>7 DEF Confirm, Goto, Transmit
<1>8. ASSUME NEW s \in Sessions, ConfirmFails(s) PROVE TypeOK'
  <2>1. CASE DropRows({s}) /\ Goto(s, "closed")
    BY <1>8, <2>1 DEF ConfirmFails, Goto, DropRows
  <2>2. CASE UNCHANGED table /\ Goto(s, "abandoned")
    BY <1>8, <2>2 DEF ConfirmFails, Goto
  <2> QED
    BY <1>8, <2>1, <2>2 DEF ConfirmFails
<1>9. ASSUME NEW s \in Sessions, InsertConnection(s) PROVE TypeOK'
  BY <1>9 DEF InsertConnection, Goto
<1>10. ASSUME NEW s \in Sessions, InsertIndex(s) PROVE TypeOK'
  BY <1>10 DEF InsertIndex, Goto
<1>11. ASSUME NEW s \in Sessions, TakeMessage(s) PROVE TypeOK'
  <2>1. Tail(rx[s]) \in Seq(Artifacts) /\ Len(Tail(rx[s])) =< ChannelCap
    BY <1>11, HeadTailProperties, LenProperties, BoundAssumption DEF TakeMessage
  <2> QED
    BY <1>11, <2>1 DEF TakeMessage, Goto
<1>12. ASSUME NEW s \in Sessions, SendMessage(s) PROVE TypeOK'
  BY <1>12 DEF SendMessage, Goto, Transmit
<1>13. ASSUME NEW s \in Sessions, SendFails(s) PROVE TypeOK'
  BY <1>13 DEF SendFails, Goto
<1>14. ASSUME NEW s \in Sessions, Heartbeat(s) PROVE TypeOK'
  BY <1>14 DEF Heartbeat
<1>15. ASSUME NEW s \in Sessions, SocketEnds(s) PROVE TypeOK'
  BY <1>15 DEF SocketEnds, Goto
<1>16. ASSUME NEW s \in Sessions, RemoveConnection(s) PROVE TypeOK'
  BY <1>16 DEF RemoveConnection, Goto
<1>17. ASSUME NEW s \in Sessions, RemoveIndex(s) PROVE TypeOK'
  BY <1>17 DEF RemoveIndex, Goto
<1>18. ASSUME NEW s \in Sessions, MarkOffline(s) PROVE TypeOK'
  BY <1>18, EmptySeq, BoundAssumption DEF MarkOffline, Goto, Hangup
<1>19. ASSUME NEW s \in Sessions, MarkOfflineFails(s) PROVE TypeOK'
  BY <1>19, EmptySeq, BoundAssumption DEF MarkOfflineFails, Goto, Hangup
<1>20. ASSUME NEW s \in Sessions, TakeReference(s) PROVE TypeOK'
  BY <1>20 DEF TakeReference
<1>21. ASSUME NEW s \in Sessions, SkipTarget(s) PROVE TypeOK'
  BY <1>21 DEF SkipTarget
<1>22. ASSUME NEW s \in Sessions, StartDisconnect(s) PROVE TypeOK'
  BY <1>22 DEF StartDisconnect
<1>23. ASSUME NEW s \in Sessions, Age(s) PROVE TypeOK'
  BY <1>23 DEF Age
<1>24. ASSUME NEW s \in Sessions, PeerLeaves(s) PROVE TypeOK'
  BY <1>24 DEF PeerLeaves
<1>25. ASSUME NEW a \in Artifacts, StartDeploy(a) PROVE TypeOK'
  BY <1>25 DEF StartDeploy
<1>26. CASE Enqueue
  <2>1. guard \in Sessions
    BY <1>26 DEF Enqueue
  <2>2. /\ Append(rx[guard], deploy.artifact) \in Seq(Artifacts)
        /\ Len(Append(rx[guard], deploy.artifact)) =< ChannelCap
    BY <1>26, <2>1, AppendProperties, LenProperties, BoundAssumption DEF Enqueue
  <2> QED
    BY <1>26, <2>1, <2>2 DEF Enqueue
<1>27. CASE FinishDeploy
  BY <1>27, SomeArtifact DEF FinishDeploy, NoDeploy
<1>28. CASE DisconnectConnection
  BY <1>28 DEF DisconnectConnection
<1>29. CASE DisconnectIndex
  BY <1>29 DEF DisconnectIndex
<1>30. CASE DeleteRow
  BY <1>30 DEF DeleteRow, DropRows, NoRequest
<1>31. CASE MarkStaleOffline
  BY <1>31 DEF MarkStaleOffline
<1>32. CASE ReapOffline
  BY <1>32 DEF ReapOffline, DropRows
<1>33. CASE Restart
  <2>1. rx' \in [Sessions -> Seq(Artifacts)] /\ \A s \in Sessions : Len(rx'[s]) =< ChannelCap
    BY <1>33, EmptySeq, BoundAssumption DEF Restart
  <2>2. deploy' \in [step : {"idle", "sending"}, todo : SUBSET Sessions, artifact : Artifacts]
    BY <1>33, SomeArtifact DEF Restart, NoDeploy
  <2> QED
    BY <1>33, <2>1, <2>2 DEF Restart, NoRequest
<1>34. CASE AbandonDeploy
  BY <1>34, SomeArtifact DEF AbandonDeploy, NoDeploy
<1>35. CASE UNCHANGED vars
  BY <1>35 DEF vars
<1> QED
  BY <1>1, <1>2, <1>3, <1>4, <1>5, <1>6, <1>7, <1>8, <1>9, <1>10, <1>11,
     <1>12, <1>13, <1>14, <1>15, <1>16, <1>17, <1>18, <1>19, <1>20, <1>21,
     <1>22, <1>23, <1>24, <1>25, <1>26, <1>27, <1>28, <1>29, <1>30, <1>31,
     <1>32, <1>33, <1>34, <1>35 DEF Next, Handler, Deploy, Disconnect, Sweep

(* Every step keeps the maps, the reference, the sockets and the rows in   *)
(* step with the handlers.                                                 *)
LEMMA ShapeStep == TypeOK /\ Shape /\ [Next]_vars => Shape'
<1> SUFFICES ASSUME TypeOK, Shape, [Next]_vars PROVE Shape'
  OBVIOUS
<1> USE SessionAssumption
    DEF Ended, TypeOK, Shape, Registration, Unindexed, Unindexing, LoopIsReachable, Locked, Referenced,
        CleanupNeedsFailure, OnlineHasHandler, HandlerSteps, maps, table, apis, fixed
<1>1. ASSUME NEW s \in Sessions, Accept(s) PROVE Shape'
  BY <1>1 DEF Accept, Goto
<1>2. ASSUME NEW s \in Sessions, Reject(s) PROVE Shape'
  BY <1>2 DEF Reject, Goto
<1>3. ASSUME NEW s \in Sessions, ReceiveRegister(s) PROVE Shape'
  BY <1>3 DEF ReceiveRegister, Goto
<1>4. ASSUME NEW s \in Sessions, NoRegister(s) PROVE Shape'
  BY <1>4 DEF NoRegister, Goto
<1>5. ASSUME NEW s \in Sessions, Refuse(s) PROVE Shape'
  BY <1>5 DEF Refuse, Goto
<1>6. ASSUME NEW s \in Sessions, CreateRow(s) PROVE Shape'
  BY <1>6 DEF CreateRow, Goto
<1>7. ASSUME NEW s \in Sessions, Confirm(s) PROVE Shape'
  BY <1>7 DEF Confirm, Goto, Transmit
<1>8. ASSUME NEW s \in Sessions, ConfirmFails(s) PROVE Shape'
  <2>1. CASE DropRows({s}) /\ Goto(s, "closed")
    BY <1>8, <2>1 DEF ConfirmFails, Goto, DropRows
  <2>2. CASE UNCHANGED table /\ Goto(s, "abandoned")
    BY <1>8, <2>2 DEF ConfirmFails, Goto
  <2> QED
    BY <1>8, <2>1, <2>2 DEF ConfirmFails
<1>9. ASSUME NEW s \in Sessions, InsertConnection(s) PROVE Shape'
  BY <1>9 DEF InsertConnection, Goto
<1>10. ASSUME NEW s \in Sessions, InsertIndex(s) PROVE Shape'
  BY <1>10 DEF InsertIndex, Goto
<1>11. ASSUME NEW s \in Sessions, TakeMessage(s) PROVE Shape'
  BY <1>11 DEF TakeMessage, Goto
<1>12. ASSUME NEW s \in Sessions, SendMessage(s) PROVE Shape'
  BY <1>12 DEF SendMessage, Goto, Transmit
<1>13. ASSUME NEW s \in Sessions, SendFails(s) PROVE Shape'
  BY <1>13 DEF SendFails, Goto
<1>14. ASSUME NEW s \in Sessions, Heartbeat(s) PROVE Shape'
  BY <1>14 DEF Heartbeat
<1>15. ASSUME NEW s \in Sessions, SocketEnds(s) PROVE Shape'
  BY <1>15 DEF SocketEnds, Goto
<1>16. ASSUME NEW s \in Sessions, RemoveConnection(s) PROVE Shape'
  BY <1>16 DEF RemoveConnection, Goto
<1>17. ASSUME NEW s \in Sessions, RemoveIndex(s) PROVE Shape'
  BY <1>17 DEF RemoveIndex, Goto
<1>18. ASSUME NEW s \in Sessions, MarkOffline(s) PROVE Shape'
  BY <1>18 DEF MarkOffline, Goto, Hangup
<1>19. ASSUME NEW s \in Sessions, MarkOfflineFails(s) PROVE Shape'
  BY <1>19 DEF MarkOfflineFails, Goto, Hangup
<1>20. ASSUME NEW s \in Sessions, TakeReference(s) PROVE Shape'
  BY <1>20 DEF TakeReference
<1>21. ASSUME NEW s \in Sessions, SkipTarget(s) PROVE Shape'
  BY <1>21 DEF SkipTarget
<1>22. ASSUME NEW s \in Sessions, StartDisconnect(s) PROVE Shape'
  BY <1>22 DEF StartDisconnect
<1>23. ASSUME NEW s \in Sessions, Age(s) PROVE Shape'
  BY <1>23 DEF Age
<1>24. ASSUME NEW s \in Sessions, PeerLeaves(s) PROVE Shape'
  BY <1>24 DEF PeerLeaves
<1>25. ASSUME NEW a \in Artifacts, StartDeploy(a) PROVE Shape'
  BY <1>25 DEF StartDeploy
<1>26. CASE Enqueue
  BY <1>26 DEF Enqueue
<1>27. CASE FinishDeploy
  BY <1>27 DEF FinishDeploy, NoDeploy
<1>28. CASE DisconnectConnection
  BY <1>28 DEF DisconnectConnection
<1>29. CASE DisconnectIndex
  <2>1. CASE pc[api.target] = "indexing"
    BY <1>29, <2>1 DEF DisconnectIndex
  <2>2. CASE pc[api.target] /= "indexing"
    BY <1>29, <2>2 DEF DisconnectIndex
  <2> QED
    BY <2>1, <2>2
<1>30. CASE DeleteRow
  BY <1>30 DEF DeleteRow, DropRows, NoRequest
<1>31. CASE MarkStaleOffline
  BY <1>31 DEF MarkStaleOffline
<1>32. CASE ReapOffline
  BY <1>32 DEF ReapOffline, DropRows
<1>33. CASE Restart
  BY <1>33 DEF Restart, NoDeploy, NoRequest
<1>34. CASE AbandonDeploy
  BY <1>34, SomeArtifact DEF AbandonDeploy, NoDeploy
<1>35. CASE UNCHANGED vars
  BY <1>35 DEF vars
<1> QED
  BY <1>1, <1>2, <1>3, <1>4, <1>5, <1>6, <1>7, <1>8, <1>9, <1>10, <1>11,
     <1>12, <1>13, <1>14, <1>15, <1>16, <1>17, <1>18, <1>19, <1>20, <1>21,
     <1>22, <1>23, <1>24, <1>25, <1>26, <1>27, <1>28, <1>29, <1>30, <1>31,
     <1>32, <1>33, <1>34, <1>35 DEF Next, Handler, Deploy, Disconnect, Sweep

(* Handlers that return or go on take no further permit.                   *)
LEMMA FewerPermits ==
  ASSUME TypeOK, WithinCap, Permits' \subseteq Permits, session_cap' = session_cap
  PROVE  WithinCap'
<1>1. IsFiniteSet(Permits) /\ Cardinality(Permits) \in Nat
  BY SessionAssumption, FS_Subset, FS_CardinalityType DEF Permits
<1>2. Cardinality(Permits') =< Cardinality(Permits) /\ Cardinality(Permits') \in Nat
  BY <1>1, FS_Subset, FS_CardinalityType
<1> QED
  BY <1>1, <1>2, BoundAssumption DEF WithinCap, TypeOK

(* Every step keeps the number of handlers within the semaphore.  Only     *)
(* Accept starts one, and it needs a permit.                               *)
LEMMA CapStep == TypeOK /\ WithinCap /\ [Next]_vars => WithinCap'
<1> SUFFICES ASSUME TypeOK, WithinCap, [Next]_vars PROVE WithinCap'
  OBVIOUS
<1>1. ASSUME NEW s \in Sessions, Accept(s) PROVE WithinCap'
  <2>1. IsFiniteSet(Permits) /\ Cardinality(Permits) \in Nat
    BY SessionAssumption, FS_Subset, FS_CardinalityType DEF Permits
  <2>2. Permits' = Permits \cup {s}
    BY <1>1 DEF Accept, Goto, TypeOK, Permits, Held, HandlerSteps
  <2>3. s \notin Permits
    BY <1>1 DEF Accept, Permits, Held
  <2>4. Cardinality(Permits') = Cardinality(Permits) + 1
    BY <2>1, <2>2, <2>3, FS_AddElement
  <2>5. session_cap' = session_cap /\ Cardinality(Permits) < session_cap
    BY <1>1 DEF Accept, fixed
  <2> QED
    BY <2>1, <2>4, <2>5, BoundAssumption DEF WithinCap, TypeOK
<1>2. CASE \A s \in Sessions : ~Accept(s)
  <2>1. Permits' \subseteq Permits /\ session_cap' = session_cap
    <3> USE DEF TypeOK, Permits, Held, HandlerSteps, fixed
    <3>1. ASSUME NEW s \in Sessions, Reject(s) \/ Handler(s) \/ Heartbeat(s)
          PROVE  Permits' \subseteq Permits /\ session_cap' = session_cap
      BY <3>1 DEF Reject, Handler, Heartbeat, ReceiveRegister, NoRegister, Refuse, CreateRow,
                  Confirm, ConfirmFails, InsertConnection, InsertIndex, TakeMessage,
                  SendMessage, SendFails, SocketEnds, RemoveConnection, RemoveIndex,
                  MarkOffline, MarkOfflineFails, Goto
    <3>2. ASSUME NEW s \in Sessions, StartDisconnect(s) \/ Age(s) \/ PeerLeaves(s)
          PROVE  Permits' \subseteq Permits /\ session_cap' = session_cap
      BY <3>2 DEF StartDisconnect, Age, PeerLeaves
    <3>3. ASSUME NEW a \in Artifacts, StartDeploy(a)
          PROVE  Permits' \subseteq Permits /\ session_cap' = session_cap
      BY <3>3 DEF StartDeploy
    <3>4. CASE Deploy \/ Disconnect \/ Sweep
      BY <3>4 DEF Deploy, TakeReference, SkipTarget, Enqueue, AbandonDeploy, FinishDeploy, Disconnect,
                  DisconnectConnection, DisconnectIndex, DeleteRow, Sweep, MarkStaleOffline,
                  ReapOffline, apis, fixed
    <3>5. CASE Restart
      BY <3>5 DEF Restart
    <3>6. CASE UNCHANGED vars
      BY <3>6 DEF vars
    <3> QED
      BY <1>2, <3>1, <3>2, <3>3, <3>4, <3>5, <3>6 DEF Next
  <2> QED
    BY <2>1, FewerPermits
<1> QED
  BY <1>1, <1>2

-----------------------------------------------------------------------------
(* The inductive invariant holds of every behaviour of the control plane's *)
(* sessions, its API and its sweep.                                        *)
THEOREM SessionInv == Spec => []IInv
<1>1. IInv /\ [Next]_vars => IInv'
  BY TypeStep, ShapeStep, CapStep DEF IInv
<1> QED
  BY InitIInv, <1>1, PTL DEF Spec

(* The state of the sessions, the manager and the rows is always of the    *)
(* declared types, and no channel holds more than its capacity.            *)
THEOREM SessionTypeCorrect == Spec => []TypeOK
<1>1. IInv => TypeOK
  BY DEF IInv
<1> QED
  BY <1>1, SessionInv, PTL

(* ConnectionManager and handle_socket agree whatever is disconnected,     *)
(* swept or restarted meanwhile: no connection outlives its handler, there *)
(* are never more of them than permits, an entry of project_connections    *)
(* outlives its handler only if a disconnect request ran between the two   *)
(* insertions, and a session in its loop is found by a broadcast unless a  *)
(* request took it out.                                                    *)
THEOREM MapsAlwaysAgree == Spec => []MapsAgree
<1>1. ASSUME IInv PROVE MapsAgree
  <2>1. LoopIsReachable /\ \A s \in connections : pc[s] \in {"indexing", "loop", "sending", "removing"}
    BY <1>1 DEF IInv, Shape, Registration
  <2>2. connections \subseteq Permits
    BY <1>1, <2>1 DEF IInv, TypeOK, Permits, Held, HandlerSteps
  <2>3. IsFiniteSet(Permits) /\ Cardinality(Permits) \in Nat
    BY SessionAssumption, FS_Subset, FS_CardinalityType DEF Permits
  <2>4. Cardinality(connections) =< Cardinality(Permits) /\ Cardinality(connections) \in Nat
    BY <2>2, <2>3, FS_Subset, FS_CardinalityType
  <2>5. Cardinality(Permits) =< session_cap /\ session_cap \in Nat
    BY <1>1, BoundAssumption DEF IInv, WithinCap, TypeOK
  <2>6. IndexLeaksByRaceOnly
    BY <1>1, <2>1 DEF IInv, Shape, Unindexed, IndexLeaksByRaceOnly, Ended, TypeOK, HandlerSteps
  <2> QED
    BY <2>1, <2>3, <2>4, <2>5, <2>6 DEF MapsAgree, NoLeakedConnection
<1> QED
  BY <1>1, SessionInv, PTL

(* A row of the data_planes table says online only while a handler is at   *)
(* work for it, or after the handler's own last statement (mark_offline,   *)
(* or the deletion after an unsent confirmation) failed.                   *)
THEOREM OnlineMeansHandled == Spec => []OnlineHasHandler
<1>1. IInv => OnlineHasHandler
  BY DEF IInv, Shape
<1> QED
  BY <1>1, SessionInv, PTL

(* Whoever waits for a shard that ConnectionManager::send has locked, the  *)
(* handler that wants to remove the connection or any other session of the *)
(* shard, waits for a channel with room, for a handler that still reads    *)
(* from it, or for a data plane whose socket has failed.                   *)
THEOREM OnlyDeadSocketsBlock == Spec => []StuckOnlyByDeadSocket
<1>1. ASSUME IInv PROVE StuckOnlyByDeadSocket
  BY <1>1, SessionAssumption, LenProperties, BoundAssumption
  DEF IInv, TypeOK, HandlerSteps, Shape, Registration, Referenced, CleanupNeedsFailure, StuckOnlyByDeadSocket, Locked
<1> QED
  BY <1>1, SessionInv, PTL

=============================================================================
