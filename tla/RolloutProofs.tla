--------------------------- MODULE RolloutProofs ---------------------------
(***************************************************************************)
(* Proofs about HotReload and Rollout, for any number of artifacts, reload *)
(* tasks, channel slots, connections, requests and faults.                 *)
(*                                                                         *)
(* The first part is about the reload tasks of one process.  The           *)
(* invariants the runs check are not inductive by themselves: IInv adds    *)
(* where every artifact in flight comes from (Announced), what a task      *)
(* knows at each step (RunInv) and what is true of the publications while  *)
(* they are under way (PublicationInv).                                    *)
(*                                                                         *)
(* The second part proves that a rollout implements Deployment.            *)
(*                                                                         *)
(* A row may name an artifact only because a response said so, the         *)
(* response only because a task swapped it in, the task only because it    *)
(* was announced, and it was announced only because the mailbox of a       *)
(* session had it from a deploy request.  DeployedInv and ServedInv say    *)
(* this of every message under way; Handshake says which messages may be   *)
(* under way at which stage of a session, so that no other can be mistaken *)
(* for one.                                                                *)
(* Restart makes the process forget all of it and leaves the messages.     *)
(***************************************************************************)
EXTENDS Rollout, SequenceTheorems, TLAPS

-----------------------------------------------------------------------------
(* Part one: the reload tasks of one process *)

(* Every artifact in a channel, in a task or in service was announced. *)
Announced ==
  /\ \A i \in 1 .. Len(artifact_rx) : artifact_rx[i] \in notified
  /\ \A t \in Tasks : pc[t] /= "idle" => notification[t] \in notified
  /\ \A t \in Tasks : gw[t] \in notified \cup {InitArtifact}
  /\ ServedWasAnnounced

(* From the rename on, the task holds the announced bytes in a final file; *)
(* it has swapped exactly when it has passed Swap.                         *)
RunInv ==
  \A t \in Tasks :
    /\ pc[t] \in {"loading", "swapping"} \cup Publishing \cup {"respond_ok"} =>
         bytes[t] = notification[t] /\ file[t] = "final"
    /\ swapped[t] <=> pc[t] \in Publishing \cup {"respond_ok"}

(* Without overlap there is one publisher at most, and what it has         *)
(* published so far is the gateway in service.                             *)
PublicationInv ==
  ~overlap =>
    /\ \A t, u \in Tasks : pc[t] \in Publishing /\ pc[u] \in Publishing => t = u
    /\ \A t \in Tasks : pc[t] \in {"hashing", "manifest"} => gw[t] = gateway
    /\ \A t \in Tasks : pc[t] = "manifest" => artifact_hash = gateway
    /\ (\A t \in Tasks : pc[t] \notin Publishing) =>
         artifact_hash = gateway /\ admin_manifest = gateway

IInv == TypeOK /\ ReloadExclusive /\ Announced /\ RunInv /\ PublicationInv

-----------------------------------------------------------------------------
(* The initial state satisfies the inductive invariant. *)
LEMMA InitIInv == Init => IInv
<1> SUFFICES ASSUME Init PROVE IInv
  OBVIOUS
<1> USE DEF Init
<1>1. TypeOK
  <2>1. /\ artifact_rx \in Seq(Artifacts) /\ Len(artifact_rx) =< QueueCap
        /\ response_rx \in Seq(Responses) /\ Len(response_rx) =< ResponseCap
    BY EmptySeq, CapAssumption
  <2> QED
    BY <2>1, ArtifactAssumption DEF TypeOK, Content, Steps
<1>2. ReloadExclusive
  BY TaskAssumption DEF ReloadExclusive, Critical
<1>3. Announced
  BY EmptySeq DEF Announced, ServedWasAnnounced
<1>4. RunInv
  BY DEF RunInv, Publishing
<1>5. PublicationInv
  BY DEF PublicationInv, Publishing
<1> QED
  BY <1>1, <1>2, <1>3, <1>4, <1>5 DEF IInv

(* Every step preserves the type invariant. *)
LEMMA TypeStep == TypeOK /\ [Next]_vars => TypeOK'
<1> SUFFICES ASSUME TypeOK, [Next]_vars PROVE TypeOK'
  OBVIOUS
<1> USE DEF TypeOK, serving, run, channels, published, Content, Steps
<1>1. ASSUME NEW a \in Artifacts, Announce(a) PROVE TypeOK'
  <2>1. artifact_rx' \in Seq(Artifacts) /\ Len(artifact_rx') =< QueueCap
    BY <1>1, AppendProperties, LenProperties, CapAssumption DEF Announce
  <2> QED
    BY <1>1, <2>1 DEF Announce
<1>2. CASE TakeResponse
  <2>1. response_rx' \in Seq(Responses) /\ Len(response_rx') =< ResponseCap
    BY <1>2, HeadTailProperties, LenProperties, CapAssumption DEF TakeResponse
  <2> QED
    BY <1>2, <2>1 DEF TakeResponse
<1>3. ASSUME NEW t \in Tasks, Spawn(t) PROVE TypeOK'
  <2>1. /\ Head(artifact_rx) \in Artifacts
        /\ artifact_rx' \in Seq(Artifacts) /\ Len(artifact_rx') =< QueueCap
    BY <1>3, HeadTailProperties, LenProperties, CapAssumption DEF Spawn
  <2> QED
    BY <1>3, <2>1 DEF Spawn
<1>4. ASSUME NEW t \in Tasks, Reload(t) PROVE TypeOK'
  <2>1. CASE TryLock(t)
    BY <2>1 DEF TryLock
  <2>2. CASE SkipBusy(t)
    BY <2>2 DEF SkipBusy
  <2>3. CASE RequestFails(t)
    BY <2>3 DEF RequestFails, ReturnFailed
  <2>4. CASE CreateTempFile(t)
    BY <2>4 DEF CreateTempFile
  <2>5. CASE StreamFails(t)
    BY <2>5 DEF StreamFails, ReturnFailed
  <2>6. ASSUME NEW c \in Content, VerifyOk(t, c) PROVE TypeOK'
    BY <2>6 DEF VerifyOk
  <2>7. ASSUME NEW c \in Content, VerifyMismatch(t, c) PROVE TypeOK'
    BY <2>7 DEF VerifyMismatch, ReturnFailed
  <2>8. CASE LoadOk(t)
    BY <2>8 DEF LoadOk
  <2>9. CASE LoadFails(t)
    BY <2>9 DEF LoadFails, ReturnFailed
  <2>10. CASE Swap(t)
    BY <2>10 DEF Swap
  <2>11. CASE ReturnSuccess(t)
    BY <2>11 DEF ReturnSuccess
  <2> QED
    BY <1>4, <2>1, <2>2, <2>3, <2>4, <2>5, <2>6, <2>7, <2>8, <2>9, <2>10, <2>11
    DEF Reload
<1>5. ASSUME NEW t \in Tasks, Publish(t) PROVE TypeOK'
  <2>1. CASE ReadGateway(t)
    BY <2>1 DEF ReadGateway
  <2>2. CASE SendHash(t)
    BY <2>2 DEF SendHash
  <2>3. CASE StoreManifest(t)
    BY <2>3 DEF StoreManifest
  <2>4. CASE Respond(t)
    <3> DEFINE r == [artifact_id |-> notification[t],
                        success |-> pc[t] = "respond_ok"]
    <3>1. r \in Responses
      BY DEF Responses
    <3>2. response_rx' \in Seq(Responses) /\ Len(response_rx') =< ResponseCap
      BY <2>4, <3>1, AppendProperties, LenProperties, CapAssumption DEF Respond
    <3> QED
      BY <2>4, <3>2, ArtifactAssumption DEF Respond
  <2> QED
    BY <1>5, <2>1, <2>2, <2>3, <2>4
    DEF Publish
<1>6. CASE UNCHANGED vars
  BY <1>6 DEF vars
<1> QED
  BY <1>1, <1>2, <1>3, <1>4, <1>5, <1>6 DEF Next

(* Only the task that holds the lock is inside perform_hot_reload. *)
LEMMA ExclusiveStep ==
  TypeOK /\ ReloadExclusive /\ [Next]_vars => ReloadExclusive'
<1> SUFFICES ASSUME TypeOK, ReloadExclusive, [Next]_vars PROVE ReloadExclusive'
  OBVIOUS
<1> USE TaskAssumption DEF TypeOK, ReloadExclusive, Steps, Critical,
        serving, run, channels, published
<1>1. ASSUME NEW a \in Artifacts, Announce(a) PROVE ReloadExclusive'
  BY <1>1 DEF Announce
<1>2. CASE TakeResponse
  BY <1>2 DEF TakeResponse
<1>3. ASSUME NEW t \in Tasks, Spawn(t) PROVE ReloadExclusive'
  BY <1>3 DEF Spawn
<1>4. ASSUME NEW t \in Tasks, Reload(t) PROVE ReloadExclusive'
  <2>1. CASE TryLock(t)
    BY <2>1 DEF TryLock
  <2>2. CASE SkipBusy(t)
    BY <2>2 DEF SkipBusy
  <2>3. CASE RequestFails(t)
    BY <2>3 DEF RequestFails, ReturnFailed
  <2>4. CASE CreateTempFile(t)
    BY <2>4 DEF CreateTempFile
  <2>5. CASE StreamFails(t)
    BY <2>5 DEF StreamFails, ReturnFailed
  <2>6. ASSUME NEW c \in Content, VerifyOk(t, c) PROVE ReloadExclusive'
    BY <2>6 DEF VerifyOk
  <2>7. ASSUME NEW c \in Content, VerifyMismatch(t, c) PROVE ReloadExclusive'
    BY <2>7 DEF VerifyMismatch, ReturnFailed
  <2>8. CASE LoadOk(t)
    BY <2>8 DEF LoadOk
  <2>9. CASE LoadFails(t)
    BY <2>9 DEF LoadFails, ReturnFailed
  <2>10. CASE Swap(t)
    BY <2>10 DEF Swap
  <2>11. CASE ReturnSuccess(t)
    BY <2>11 DEF ReturnSuccess
  <2> QED
    BY <1>4, <2>1, <2>2, <2>3, <2>4, <2>5, <2>6, <2>7, <2>8, <2>9, <2>10, <2>11
    DEF Reload
<1>5. ASSUME NEW t \in Tasks, Publish(t) PROVE ReloadExclusive'
  <2>1. CASE ReadGateway(t)
    BY <2>1 DEF ReadGateway
  <2>2. CASE SendHash(t)
    BY <2>2 DEF SendHash
  <2>3. CASE StoreManifest(t)
    BY <2>3 DEF StoreManifest
  <2>4. CASE Respond(t)
    BY <2>4 DEF Respond
  <2> QED
    BY <1>5, <2>1, <2>2, <2>3, <2>4
    DEF Publish
<1>6. CASE UNCHANGED vars
  BY <1>6 DEF vars
<1> QED
  BY <1>1, <1>2, <1>3, <1>4, <1>5, <1>6 DEF Next

(* Nothing but announced artifacts is ever in flight or in service. *)
LEMMA AnnouncedStep ==
  TypeOK /\ RunInv /\ Announced /\ [Next]_vars => Announced'
<1> SUFFICES ASSUME TypeOK, RunInv, Announced, [Next]_vars PROVE Announced'
  OBVIOUS
<1> USE DEF TypeOK, Announced, ServedWasAnnounced, serving, run, channels, published
<1>1. ASSUME NEW a \in Artifacts, Announce(a) PROVE Announced'
  <2>1. \A i \in 1 .. Len(artifact_rx') : artifact_rx'[i] \in notified'
    BY <1>1, AppendProperties, LenProperties DEF Announce
  <2> QED
    BY <1>1, <2>1 DEF Announce
<1>2. CASE TakeResponse
  BY <1>2 DEF TakeResponse
<1>3. ASSUME NEW t \in Tasks, Spawn(t) PROVE Announced'
  <2>1. /\ Head(artifact_rx) \in notified
        /\ \A i \in 1 .. Len(artifact_rx') : artifact_rx'[i] \in notified
    BY <1>3, HeadTailProperties, LenProperties, EmptySeq DEF Spawn
  <2> QED
    BY <1>3, <2>1 DEF Spawn
<1>4. ASSUME NEW t \in Tasks, Reload(t) PROVE Announced'
  <2>1. CASE TryLock(t)
    BY <2>1 DEF TryLock
  <2>2. CASE SkipBusy(t)
    BY <2>2 DEF SkipBusy
  <2>3. CASE RequestFails(t)
    BY <2>3 DEF RequestFails, ReturnFailed
  <2>4. CASE CreateTempFile(t)
    BY <2>4 DEF CreateTempFile
  <2>5. CASE StreamFails(t)
    BY <2>5 DEF StreamFails, ReturnFailed
  <2>6. ASSUME NEW c \in Content, VerifyOk(t, c) PROVE Announced'
    BY <2>6 DEF VerifyOk
  <2>7. ASSUME NEW c \in Content, VerifyMismatch(t, c) PROVE Announced'
    BY <2>7 DEF VerifyMismatch, ReturnFailed
  <2>8. CASE LoadOk(t)
    BY <2>8 DEF LoadOk
  <2>9. CASE LoadFails(t)
    BY <2>9 DEF LoadFails, ReturnFailed
  <2>10. CASE Swap(t)
    <3>1. gateway' \in notified
      BY <2>10 DEF Swap, RunInv
    <3> QED
      BY <2>10, <3>1 DEF Swap
  <2>11. CASE ReturnSuccess(t)
    BY <2>11 DEF ReturnSuccess
  <2> QED
    BY <1>4, <2>1, <2>2, <2>3, <2>4, <2>5, <2>6, <2>7, <2>8, <2>9, <2>10, <2>11
    DEF Reload
<1>5. ASSUME NEW t \in Tasks, Publish(t) PROVE Announced'
  <2>1. CASE ReadGateway(t)
    BY <2>1 DEF ReadGateway
  <2>2. CASE SendHash(t)
    BY <2>2 DEF SendHash
  <2>3. CASE StoreManifest(t)
    BY <2>3 DEF StoreManifest
  <2>4. CASE Respond(t)
    BY <2>4 DEF Respond
  <2> QED
    BY <1>5, <2>1, <2>2, <2>3, <2>4
    DEF Publish
<1>6. CASE UNCHANGED vars
  BY <1>6 DEF vars
<1> QED
  BY <1>1, <1>2, <1>3, <1>4, <1>5, <1>6 DEF Next

(* What a task knows about its own run. *)
LEMMA RunStep == TypeOK /\ RunInv /\ [Next]_vars => RunInv'
<1> SUFFICES ASSUME TypeOK, RunInv, [Next]_vars PROVE RunInv'
  OBVIOUS
<1> USE DEF TypeOK, RunInv, Publishing, serving, run, channels, published
<1>1. ASSUME NEW a \in Artifacts, Announce(a) PROVE RunInv'
  BY <1>1 DEF Announce
<1>2. CASE TakeResponse
  BY <1>2 DEF TakeResponse
<1>3. ASSUME NEW t \in Tasks, Spawn(t) PROVE RunInv'
  BY <1>3 DEF Spawn
<1>4. ASSUME NEW t \in Tasks, Reload(t) PROVE RunInv'
  <2>1. CASE TryLock(t)
    BY <2>1 DEF TryLock
  <2>2. CASE SkipBusy(t)
    BY <2>2 DEF SkipBusy
  <2>3. CASE RequestFails(t)
    BY <2>3 DEF RequestFails, ReturnFailed
  <2>4. CASE CreateTempFile(t)
    BY <2>4 DEF CreateTempFile
  <2>5. CASE StreamFails(t)
    BY <2>5 DEF StreamFails, ReturnFailed
  <2>6. ASSUME NEW c \in Content, VerifyOk(t, c) PROVE RunInv'
    BY <2>6 DEF VerifyOk
  <2>7. ASSUME NEW c \in Content, VerifyMismatch(t, c) PROVE RunInv'
    BY <2>7 DEF VerifyMismatch, ReturnFailed
  <2>8. CASE LoadOk(t)
    BY <2>8 DEF LoadOk
  <2>9. CASE LoadFails(t)
    BY <2>9 DEF LoadFails, ReturnFailed
  <2>10. CASE Swap(t)
    BY <2>10 DEF Swap
  <2>11. CASE ReturnSuccess(t)
    BY <2>11 DEF ReturnSuccess
  <2> QED
    BY <1>4, <2>1, <2>2, <2>3, <2>4, <2>5, <2>6, <2>7, <2>8, <2>9, <2>10, <2>11
    DEF Reload
<1>5. ASSUME NEW t \in Tasks, Publish(t) PROVE RunInv'
  <2>1. CASE ReadGateway(t)
    BY <2>1 DEF ReadGateway
  <2>2. CASE SendHash(t)
    BY <2>2 DEF SendHash
  <2>3. CASE StoreManifest(t)
    BY <2>3 DEF StoreManifest
  <2>4. CASE Respond(t)
    BY <2>4 DEF Respond
  <2> QED
    BY <1>5, <2>1, <2>2, <2>3, <2>4
    DEF Publish
<1>6. CASE UNCHANGED vars
  BY <1>6 DEF vars
<1> QED
  BY <1>1, <1>2, <1>3, <1>4, <1>5, <1>6 DEF Next

(* Publications that do not overlap agree with the gateway in service. *)
LEMMA PublicationStep ==
  TypeOK /\ PublicationInv /\ [Next]_vars => PublicationInv'
<1> SUFFICES ASSUME TypeOK, PublicationInv, [Next]_vars PROVE PublicationInv'
  OBVIOUS
<1> USE DEF TypeOK, PublicationInv, Publishing, serving, run, channels, published
<1>1. ASSUME NEW a \in Artifacts, Announce(a) PROVE PublicationInv'
  BY <1>1 DEF Announce
<1>2. CASE TakeResponse
  BY <1>2 DEF TakeResponse
<1>3. ASSUME NEW t \in Tasks, Spawn(t) PROVE PublicationInv'
  BY <1>3 DEF Spawn
<1>4. ASSUME NEW t \in Tasks, Reload(t) PROVE PublicationInv'
  <2>1. CASE TryLock(t)
    BY <2>1 DEF TryLock
  <2>2. CASE SkipBusy(t)
    BY <2>2 DEF SkipBusy
  <2>3. CASE RequestFails(t)
    BY <2>3 DEF RequestFails, ReturnFailed
  <2>4. CASE CreateTempFile(t)
    BY <2>4 DEF CreateTempFile
  <2>5. CASE StreamFails(t)
    BY <2>5 DEF StreamFails, ReturnFailed
  <2>6. ASSUME NEW c \in Content, VerifyOk(t, c) PROVE PublicationInv'
    BY <2>6 DEF VerifyOk
  <2>7. ASSUME NEW c \in Content, VerifyMismatch(t, c) PROVE PublicationInv'
    BY <2>7 DEF VerifyMismatch, ReturnFailed
  <2>8. CASE LoadOk(t)
    BY <2>8 DEF LoadOk
  <2>9. CASE LoadFails(t)
    BY <2>9 DEF LoadFails, ReturnFailed
  <2>10. CASE Swap(t)
    <3> SUFFICES ASSUME ~overlap' PROVE PublicationInv'
      BY DEF PublicationInv
    <3>1. \A u \in Tasks \ {t} : pc[u] \notin Publishing
      BY <2>10 DEF Swap
    <3> QED
      BY <2>10, <3>1 DEF Swap
  <2>11. CASE ReturnSuccess(t)
    BY <2>11 DEF ReturnSuccess
  <2> QED
    BY <1>4, <2>1, <2>2, <2>3, <2>4, <2>5, <2>6, <2>7, <2>8, <2>9, <2>10, <2>11
    DEF Reload
<1>5. ASSUME NEW t \in Tasks, Publish(t) PROVE PublicationInv'
  <2>1. CASE ReadGateway(t)
    BY <2>1 DEF ReadGateway
  <2>2. CASE SendHash(t)
    BY <2>2 DEF SendHash
  <2>3. CASE StoreManifest(t)
    BY <2>3 DEF StoreManifest
  <2>4. CASE Respond(t)
    BY <2>4 DEF Respond
  <2> QED
    BY <1>5, <2>1, <2>2, <2>3, <2>4
    DEF Publish
<1>6. CASE UNCHANGED vars
  BY <1>6 DEF vars
<1> QED
  BY <1>1, <1>2, <1>3, <1>4, <1>5, <1>6 DEF Next

(* Every step of the process preserves the inductive invariant. *)
LEMMA IInvStep == IInv /\ [Next]_vars => IInv'
BY TypeStep, ExclusiveStep, AnnouncedStep, RunStep, PublicationStep DEF IInv

(* The inductive invariant holds in every reachable state. *)
THEOREM IInvHolds == Spec => []IInv
BY InitIInv, IInvStep, PTL DEF Spec

(* Type correctness of the hot-reload specification. *)
THEOREM TypeCorrect == Spec => []TypeOK
<1>1. IInv => TypeOK
  BY DEF IInv
<1> QED
  BY IInvHolds, <1>1, PTL

(* HOT_RELOAD_LOCK serialises perform_hot_reload: at any number of         *)
(* concurrent notifications, exactly the holder is between try_lock and    *)
(* return, and no early return leaks the guard.                            *)
THEOREM LockSerialisesReloads == Spec => []ReloadExclusive
<1>1. IInv => ReloadExclusive
  BY DEF IInv
<1> QED
  BY IInvHolds, <1>1, PTL

(* Whatever the downloads deliver, only announced artifacts are served or  *)
(* published.                                                              *)
THEOREM OnlyAnnouncedServed == Spec => []ServedWasAnnounced
<1>1. IInv => ServedWasAnnounced
  BY DEF IInv, Announced
<1> QED
  BY IInvHolds, <1>1, PTL

(* A response to the control plane tells the truth about the reload.       *)
THEOREM ResponsesAreTruthful == Spec => []ResponseTruthful
<1>1. IInv => ResponseTruthful
  BY DEF IInv, TypeOK, RunInv, ResponseTruthful, Publishing
<1> QED
  BY IInvHolds, <1>1, PTL

(* The published hash and manifest can be stale only after overlapping     *)
(* reloads.                                                                *)
THEOREM StaleNeedsOverlap == Spec => []StaleOnlyByOverlap
<1>1. IInv => StaleOnlyByOverlap
  BY DEF IInv, PublicationInv, StaleOnlyByOverlap
<1> QED
  BY IInvHolds, <1>1, PTL

(* Only the lock holder replaces the gateway, by a verified artifact.      *)
THEOREM SwapsAreVerified == Spec => SwapOnlyVerified
<1> DEFINE Verified == gateway' /= gateway =>
             \E t \in Tasks : /\ lock = t
                              /\ file[t] = "final"
                              /\ gateway' = notification[t]
<1>1. IInv /\ [Next]_vars => [Verified]_vars
  <2> SUFFICES ASSUME IInv, [Next]_vars, gateway' /= gateway PROVE Verified
    BY DEF vars
  <2>1. PICK t \in Tasks : Swap(t)
    BY DEF Next, vars, Announce, TakeResponse, Spawn, Reload, Publish, TryLock,
       SkipBusy, RequestFails, CreateTempFile, StreamFails, VerifyOk,
       VerifyMismatch, LoadOk, LoadFails, ReturnSuccess, ReadGateway, SendHash,
       StoreManifest, Respond, serving
  <2> QED
    BY <2>1 DEF Swap, IInv, RunInv, ReloadExclusive, Critical
<1> QED
  BY IInvHolds, <1>1, PTL DEF Spec, SwapOnlyVerified

-----------------------------------------------------------------------------
(* Part two: a rollout *)

Register == [type |-> "Register"]
Confirmation == [type |-> "Registered"]

Heartbeats == [type : {"Heartbeat"}, artifact_hash : Content]
Downloads == [type : {"ArtifactDownloaded"}, artifact_id : Artifacts, success : BOOLEAN]
UpMsgs == {Register} \cup Heartbeats \cup Downloads

Refusal == [type |-> "RegistrationFailed"]
Acks == [type : {"HeartbeatAck"}, drift_detected : BOOLEAN]
Offers == [type : {"ArtifactAvailable"}, artifact_id : Artifacts]
DownMsgs == {Confirmation, Refusal} \cup Acks \cup Offers

FleetType ==
  /\ client \in {"down", "awaiting", "registered", "notifying", "stopped"}
  /\ conn \in Links
  /\ session \in [Links -> {"none", "waiting", "creating", "refused", "loop", "ended"}]
  /\ link \in [Links -> {"none", "up", "broken", "closed"}]
  /\ up \in [Links -> Seq(UpMsgs)]
  /\ down \in [Links -> Seq(DownMsgs)]
  /\ mailbox \in [Links -> Seq(Artifacts)]
  /\ row \in [Links -> [artifact : SUBSET Artifacts, drift : BOOLEAN, missed : BOOLEAN]]
  /\ deployed \subseteq Artifacts

(* A session reads Register first and never again, nobody is confirmed     *)
(* before its session is in its loop, and a client that waits for room in  *)
(* artifact_tx has an announcement in hand.                                *)
Handshake ==
  /\ \A c \in Links : IF session[c] \in {"none", "waiting"} THEN up[c] \in {<<>>, <<Register>>}
                                                            ELSE Register \notin Range(up[c])
  /\ \A c \in Links : Confirmation \in Range(down[c]) => session[c] \in {"loop", "ended"}
  /\ client \in {"registered", "notifying"} => session[conn] \in {"loop", "ended"}
  /\ client = "notifying" => down[conn] /= <<>> /\ Head(down[conn]) \in Offers

(* What is announced was deployed. *)
DeployedInv ==
  /\ notified \subseteq deployed
  /\ \A c \in Links : Range(mailbox[c]) \subseteq deployed
  /\ \A c \in Links : \A m \in Range(down[c]) \cap Offers : m.artifact_id \in deployed

(* What is confirmed was served. *)
ServedInv ==
  /\ {InitArtifact, gateway} \subseteq served
  /\ \A t \in Tasks : swapped[t] => notification[t] \in served
  /\ \A r \in Range(response_rx) : r.success => r.artifact_id \in served
  /\ \A c \in Links : \A m \in Range(up[c]) \cap Downloads : m.success => m.artifact_id \in served

FleetInv == FleetType /\ Handshake /\ DeployedInv /\ ServedInv

RolloutInv == IInv /\ FleetInv

-----------------------------------------------------------------------------
(* Sequences as the queues of the model use them. *)
LEMMA QueueProperties ==
  ASSUME NEW S, NEW s \in Seq(S)
  PROVE  /\ Range(s) \subseteq S
         /\ \A e \in S : /\ Append(s, e) \in Seq(S) /\ Append(s, e) /= <<>>
                         /\ Range(Append(s, e)) = Range(s) \cup {e}
                         /\ s /= <<>> => Head(Append(s, e)) = Head(s)
         /\ s /= <<>> => /\ Head(s) \in Range(s) /\ Tail(s) \in Seq(S)
                         /\ Range(Tail(s)) \subseteq Range(s)
<1>1. Range(s) \subseteq S
  BY RangeOfSeq
<1>2. ASSUME NEW e \in S
      PROVE  /\ Append(s, e) \in Seq(S) /\ Append(s, e) /= <<>>
             /\ Range(Append(s, e)) = Range(s) \cup {e}
             /\ s /= <<>> => Head(Append(s, e)) = Head(s)
  <2>1. /\ Append(s, e) \in Seq(S) /\ Append(s, e) /= <<>>
        /\ Len(Append(s, e)) = Len(s) + 1
        /\ \A i \in 1 .. Len(s) : Append(s, e)[i] = s[i]
        /\ Append(s, e)[Len(s) + 1] = e
    BY AppendProperties
  <2>2. Range(Append(s, e)) = {Append(s, e)[i] : i \in 1 .. Len(s) + 1}
    BY <2>1, RangeEquality
  <2>3. Range(s) = {s[i] : i \in 1 .. Len(s)} /\ Len(s) \in Nat
    BY RangeEquality, LenProperties
  <2>4. Range(Append(s, e)) = Range(s) \cup {e}
    BY <2>1, <2>2, <2>3
  <2> QED
    BY <2>1, <2>4, HeadTailAppend
<1>3. ASSUME s /= <<>>
      PROVE  Head(s) \in Range(s) /\ Tail(s) \in Seq(S) /\ Range(Tail(s)) \subseteq Range(s)
  <2>1. Len(s) \in Nat \ {0} /\ Head(s) = s[1]
    BY <1>3, EmptySeq
  <2>2. Range(s) = {s[i] : i \in 1 .. Len(s)}
    BY RangeEquality
  <2>3. /\ Tail(s) \in Seq(S) /\ Len(Tail(s)) = Len(s) - 1
        /\ \A i \in 1 .. Len(Tail(s)) : Tail(s)[i] = s[i + 1]
    BY <1>3, HeadTailProperties
  <2>4. Range(Tail(s)) = {Tail(s)[i] : i \in 1 .. Len(s) - 1}
    BY <2>3, RangeEquality
  <2> QED
    BY <2>1, <2>2, <2>3, <2>4
<1> QED
  BY <1>1, <1>2, <1>3

(* What is left of a queue when the link breaks. *)
LEMMA PrefixProperties ==
  ASSUME NEW S, NEW s \in Seq(S), NEW n \in 0 .. Len(s)
  PROVE  /\ SubSeq(s, 1, n) \in Seq(S) /\ Range(SubSeq(s, 1, n)) \subseteq Range(s)
         /\ n > 0 => SubSeq(s, 1, n) /= <<>> /\ Head(SubSeq(s, 1, n)) = Head(s)
<1>1. Len(s) \in Nat /\ n \in Int /\ 1 \in Int /\ \A i \in 1 .. n : s[i] \in S
  BY LenProperties, ElementOfSeq
<1>2. /\ SubSeq(s, 1, n) \in Seq(S) /\ Len(SubSeq(s, 1, n)) = n
      /\ \A i \in 1 .. n : SubSeq(s, 1, n)[i] = s[i]
  BY <1>1, SubSeqProperties
<1>3. Range(s) = {s[i] : i \in 1 .. Len(s)} /\ Range(SubSeq(s, 1, n)) = {SubSeq(s, 1, n)[i] : i \in 1 .. n}
  BY <1>2, RangeEquality
<1>4. n > 0 => Head(SubSeq(s, 1, n)) = s[1] /\ Head(s) = s[1]
  BY <1>1, <1>2, EmptySeq
<1> QED
  BY <1>1, <1>2, <1>3, <1>4, EmptySeq

(* The empty queue. *)
LEMMA EmptyQueue == Range(<<>>) = {} /\ \A S : <<>> \in Seq(S)
<1>1. <<>> \in Seq({})
  BY EmptySeq
<1>2. Range(<<>>) \in SUBSET {}
  BY <1>1, RangeOfSeq
<1> QED
  BY <1>2, EmptySeq

(* Queue q1 is q, with m at the end of the queue of c if it got through. *)
Grown(q1, q, c, m, S) ==
  /\ q1 \in [Links -> Seq(S)]
  /\ \A d \in Links : d /= c => q1[d] = q[d]
  /\ Range(q1[c]) \subseteq Range(q[c]) \cup {m}
  /\ q[c] /= <<>> => q1[c] /= <<>> /\ Head(q1[c]) = Head(q[c])

(* Queue q1 is q without some messages of c. *)
Shrunk(q1, q, c, S) ==
  /\ q1 \in [Links -> Seq(S)]
  /\ \A d \in Links : d /= c => q1[d] = q[d]
  /\ Range(q1[c]) \subseteq Range(q[c])

(* A message sent on link c reaches no other queue and overtakes none. *)
LEMMA SentGrows ==
  ASSUME NEW S, NEW q \in [Links -> Seq(S)], NEW c \in Links, NEW m \in S
  PROVE  Grown(Sent(q, c, m), q, c, m, S)
<1>1. /\ Append(q[c], m) \in Seq(S) /\ Append(q[c], m) /= <<>>
      /\ Range(Append(q[c], m)) = Range(q[c]) \cup {m}
      /\ q[c] /= <<>> => Head(Append(q[c], m)) = Head(q[c])
  BY QueueProperties
<1> QED
  BY <1>1 DEF Sent, Grown

(* A message read, and a queue dropped with its socket. *)
LEMMA ReadShrinks ==
  ASSUME NEW S, NEW q \in [Links -> Seq(S)], NEW c \in Links
  PROVE  /\ q[c] /= <<>> => /\ Shrunk([q EXCEPT ![c] = Tail(q[c])], q, c, S)
                            /\ Head(q[c]) \in Range(q[c]) /\ Head(q[c]) \in S
         /\ Shrunk([q EXCEPT ![c] = <<>>], q, c, S)
<1>1. q[c] /= <<>> => /\ Tail(q[c]) \in Seq(S) /\ Range(Tail(q[c])) \subseteq Range(q[c])
                      /\ Head(q[c]) \in Range(q[c]) /\ Range(q[c]) \subseteq S
  BY QueueProperties
<1> QED
  BY <1>1, EmptyQueue DEF Shrunk

(* The types of messages tell them apart. *)
LEMMA Disjoint ==
  /\ Register \notin Heartbeats \cup Downloads
  /\ Confirmation \notin {Refusal} \cup Acks \cup Offers
  /\ Refusal \notin Offers /\ Acks \cap Offers = {}
  /\ \A m \in UpMsgs : m.type = "Heartbeat" <=> m \in Heartbeats
  /\ \A m \in UpMsgs : m.type = "ArtifactDownloaded" <=> m \in Downloads
  /\ \A m \in DownMsgs : m.type = "Registered" <=> m = Confirmation
  /\ \A m \in DownMsgs : m.type = "HeartbeatAck" <=> m \in Acks
  /\ \A m \in DownMsgs : m.type = "ArtifactAvailable" <=> m \in Offers
BY DEF UpMsgs, DownMsgs, Register, Confirmation, Refusal, Heartbeats, Downloads, Acks, Offers

-----------------------------------------------------------------------------
(* The fleet starts with empty queues. *)
LEMMA RolloutInvInit == RolloutInit => RolloutInv
<1> SUFFICES ASSUME RolloutInit PROVE RolloutInv
  OBVIOUS
<1>1. IInv
  BY InitIInv DEF RolloutInit
<1>2. Range(<<>>) = {} /\ <<>> \in Seq(UpMsgs) /\ <<>> \in Seq(DownMsgs) /\ <<>> \in Seq(Artifacts)
  BY EmptyQueue
<1>3. FleetType
  BY <1>2, LinksAssumption DEF RolloutInit, FleetType, NoRow
<1>4. Handshake
  BY <1>2 DEF RolloutInit, Handshake
<1>5. DeployedInv
  BY <1>2 DEF RolloutInit, DeployedInv, Init
<1>6. ServedInv
  BY <1>2 DEF RolloutInit, ServedInv, Init
<1> QED
  BY <1>1, <1>3, <1>4, <1>5, <1>6 DEF RolloutInv, FleetInv

(* The process: each step is one of HotReload, leaves its state alone or   *)
(* starts the process again.                                               *)
LEMMA ProcessStep == RolloutInv /\ [RolloutNext]_rolloutVars => IInv'
<1> SUFFICES ASSUME RolloutInv, [RolloutNext]_rolloutVars PROVE IInv'
  OBVIOUS
<1> USE DEF RolloutInv, FleetInv
<1>1. CASE UNCHANGED vars
  BY <1>1, IInvStep
<1>2. CASE Next
  BY <1>2, IInvStep
<1>3. CASE Restart
  <2>1. Init'
    BY <1>3 DEF Restart, Init
  <2> QED
    BY <2>1, InitIInv, PTL
<1>4. ASSUME Receive PROVE UNCHANGED vars \/ Next
  <2>1. /\ Head(down[conn]) \in DownMsgs
        /\ Head(down[conn]).type = "ArtifactAvailable" => Head(down[conn]) \in Offers
    BY <1>4, QueueProperties, Disjoint DEF Receive, FleetType
  <2> QED
    BY <1>4, <2>1 DEF Receive, Next, Offers
<1>5. ASSUME Notify PROVE Next
  BY <1>5 DEF Notify, Next, Handshake, Offers
<1>6. ASSUME SendResponse PROVE Next
  BY <1>6 DEF SendResponse, Next
<1>7. ASSUME NEW t \in Tasks, ReloadStep(t) PROVE Next
  BY <1>7 DEF ReloadStep, Next
<1>8. ASSUME ~Receive, ~Notify, ~SendResponse, ~Restart, \A t \in Tasks : ~ReloadStep(t)
      PROVE  UNCHANGED vars
  BY <1>8 DEF RolloutNext, rolloutVars, ClientSteps, SessionSteps, create_api_key, revoke_api_key,
     deploy_to_data_planes, validate_and_touch, Admit, SessionEnds, Forward, handle_message, Break,
     RegistrationError, MessageError, try_connect, Registered, RegistrationFailed, ConnectionLost,
     Heartbeat, RegistrationTimeout, Shutdown
<1> QED
  BY <1>1, <1>2, <1>3, <1>4, <1>5, <1>6, <1>7, <1>8

(* A statement that fails leaves the artifact_id of every row alone. *)
LEMMA ErrorStep ==
  ASSUME FleetType, NEW c \in Links, MessageError(c)
  PROVE  /\ row' \in [Links -> [artifact : SUBSET Artifacts, drift : BOOLEAN, missed : BOOLEAN]]
         /\ \A d \in Links : row'[d].artifact = row[d].artifact
<1>1. row \in [Links -> [artifact : SUBSET Artifacts, drift : BOOLEAN, missed : BOOLEAN]]
  BY DEF FleetType
<1>2. row' = row \/ row' = [row EXCEPT ![c].drift = FALSE] \/ row' = [row EXCEPT ![c].missed = TRUE]
  BY DEF MessageError
<1>3. CASE row' = row
  BY <1>1, <1>3
<1>4. CASE row' = [row EXCEPT ![c].drift = FALSE]
  BY <1>1, <1>4
<1>5. CASE row' = [row EXCEPT ![c].missed = TRUE]
  BY <1>1, <1>5
<1> QED
  BY <1>2, <1>3, <1>4, <1>5

(* The queues, sessions and rows: one step per action. *)
LEMMA FleetStep == RolloutInv /\ [RolloutNext]_rolloutVars => FleetInv'
<1> SUFFICES ASSUME RolloutInv, [RolloutNext]_rolloutVars PROVE FleetInv'
  OBVIOUS
<1>type. /\ up \in [Links -> Seq(UpMsgs)] /\ down \in [Links -> Seq(DownMsgs)]
         /\ mailbox \in [Links -> Seq(Artifacts)] /\ conn \in Links
  BY DEF RolloutInv, FleetInv, FleetType
<1> USE Disjoint DEF RolloutInv, FleetInv, ends, wires, history, vars
<1>1. CASE create_api_key \/ revoke_api_key \/ UNCHANGED rolloutVars
  BY <1>1 DEF create_api_key, revoke_api_key, Request, rolloutVars, fleet,
              FleetType, Handshake, DeployedInv, ServedInv
<1>2. ASSUME NEW a \in Artifacts, deploy_to_data_planes(a) PROVE FleetInv'
  <2>1. /\ mailbox' \in [Links -> Seq(Artifacts)]
        /\ \A c \in Links : Range(mailbox'[c]) \subseteq Range(mailbox[c]) \cup {a}
    BY <1>2, <1>type, QueueProperties DEF deploy_to_data_planes
  <2> QED
    BY <1>2, <2>1 DEF deploy_to_data_planes, FleetType, Handshake, DeployedInv, ServedInv
<1>3. ASSUME NEW c \in Links, validate_and_touch(c) PROVE FleetInv'
  <2>1. up[c] = <<Register>> /\ up' = [up EXCEPT ![c] = <<>>]
    <3>1. up[c] = <<Register>>
      BY <1>3 DEF validate_and_touch, Handshake
    <3>2. Tail(<<Register>>) = <<>>
      OBVIOUS
    <3> QED
      BY <1>3, <3>1, <3>2 DEF validate_and_touch
  <2>2. Shrunk(up', up, c, UpMsgs)
    BY <1>type, <2>1, ReadShrinks
  <2>3. Refusal \in DownMsgs
    BY DEF DownMsgs
  <2>4. down' = down \/ Grown(down', down, c, Refusal, DownMsgs)
    BY <1>3, <1>type, <2>3, SentGrows DEF validate_and_touch, Refusal
  <2>5. FleetType'
    BY <1>3, <2>2, <2>4 DEF validate_and_touch, FleetType, Shrunk, Grown
  <2>6. Handshake'
    BY SMTT(60), <1>3, <2>1, <2>4, EmptyQueue DEF validate_and_touch, FleetType, Handshake, Grown
  <2> QED
    BY <1>3, <2>2, <2>4, <2>5, <2>6 DEF validate_and_touch, DeployedInv, ServedInv, Shrunk, Grown
<1>4. ASSUME NEW c \in Links, Admit(c) PROVE FleetInv'
  <2>1. Confirmation \in DownMsgs
    BY DEF DownMsgs
  <2>2. down' = down \/ (Grown(down', down, c, Confirmation, DownMsgs) /\ session'[c] = "loop")
    <3>1. Grown(Sent(down, c, Confirmation), down, c, Confirmation, DownMsgs)
      BY <1>type, <2>1, SentGrows
    <3>2. down' = down \/ (down' = Sent(down, c, Confirmation) /\ session'[c] = "loop")
      BY <1>4 DEF Admit, Confirmation, FleetType
    <3> QED
      BY <3>1, <3>2
  <2>3. FleetType'
    BY <1>4, <2>2 DEF Admit, FleetType, Grown
  <2>4. Handshake'
    BY ZenonT(60), <1>4, <2>2 DEF Admit, FleetType, Handshake, Grown
  <2> QED
    BY <1>4, <2>2, <2>3, <2>4 DEF Admit, DeployedInv, ServedInv, Grown
<1>5. ASSUME NEW c \in Links, SessionEnds(c) PROVE FleetInv'
  <2>1. Shrunk(mailbox', mailbox, c, Artifacts)
    BY <1>5, <1>type, ReadShrinks DEF SessionEnds
  <2>2. FleetType'
    BY <1>5, <2>1 DEF SessionEnds, FleetType, Shrunk
  <2>3. Handshake'
    BY <1>5, EmptyQueue DEF SessionEnds, FleetType, Handshake
  <2> QED
    BY <1>5, <2>1, <2>2, <2>3 DEF SessionEnds, DeployedInv, ServedInv, Shrunk
<1>6. ASSUME NEW c \in Links, Forward(c) PROVE FleetInv'
  <2> DEFINE m == [type |-> "ArtifactAvailable", artifact_id |-> Head(mailbox[c])]
  <2>1. Shrunk(mailbox', mailbox, c, Artifacts) /\ Head(mailbox[c]) \in Artifacts \cap deployed
    BY <1>6, <1>type, ReadShrinks DEF Forward, DeployedInv
  <2>2. m \in Offers /\ m \in DownMsgs /\ m.artifact_id \in deployed
    BY <2>1 DEF Offers, DownMsgs
  <2>3. Grown(down', down, c, m, DownMsgs)
    BY <1>6, <1>type, <2>2, SentGrows DEF Forward
  <2> HIDE DEF m
  <2>4. FleetType'
    BY <1>6, <2>1, <2>3 DEF Forward, FleetType, Shrunk, Grown
  <2>5. Handshake'
    BY <1>6, <2>2, <2>3 DEF Forward, FleetType, Handshake, Grown
  <2>6. DeployedInv'
    BY <1>6, <2>1, <2>2, <2>3 DEF Forward, DeployedInv, Shrunk, Grown
  <2> QED
    BY <1>6, <2>4, <2>5, <2>6 DEF Forward, ServedInv
<1>7. ASSUME NEW c \in Links, handle_message(c) PROVE FleetInv'
  <2> DEFINE m == Head(up[c])
  <2>1. Shrunk(up', up, c, UpMsgs) /\ m \in Range(up[c]) /\ m \in UpMsgs
    BY <1>7, <1>type, ReadShrinks DEF handle_message
  <2>2. m \in Heartbeats \cup Downloads
    BY <1>7, <2>1 DEF handle_message, Handshake, UpMsgs
  <2>3. /\ row' \in [Links -> [artifact : SUBSET Artifacts, drift : BOOLEAN, missed : BOOLEAN]]
        /\ \/ down' = down
           \/ \E ack \in Acks : Grown(down', down, c, ack, DownMsgs)
    <3>1. CASE m \in Heartbeats
      <4> DEFINE ack == [type |-> "HeartbeatAck", drift_detected |-> Drifted(c, m.artifact_hash)]
      <4>1. ack \in Acks /\ ack \in DownMsgs
        BY DEF Acks, DownMsgs, Drifted
      <4>2. /\ row' = [row EXCEPT ![c].drift = Drifted(c, m.artifact_hash)]
            /\ down' = Sent(down, c, ack)
        BY <1>7, <2>1, <3>1 DEF handle_message
      <4>3. Grown(down', down, c, ack, DownMsgs)
        BY <1>type, <4>1, <4>2, SentGrows
      <4> QED
        BY ZenonT(60), <4>1, <4>2, <4>3 DEF FleetType, Drifted
    <3>2. CASE m \in Downloads
      <4>1. /\ row' = IF m.success THEN [row EXCEPT ![c] = Recording(row[c], m.artifact_id)] ELSE row
            /\ down' = down /\ m.artifact_id \in Artifacts
        BY <1>7, <2>1, <3>2 DEF handle_message, Downloads
      <4> QED
        BY <4>1 DEF FleetType, Recording
    <3> QED
      BY <2>2, <3>1, <3>2
  <2>4. FleetType'
    BY <1>7, <2>1, <2>3 DEF handle_message, FleetType, Shrunk, Grown
  <2>5. Handshake'
    BY <1>7, <2>1, <2>3 DEF handle_message, FleetType, Handshake, Shrunk, Grown
  <2>6. DeployedInv'
    <3>1. \A d \in Links : Range(down'[d]) \cap Offers \subseteq Range(down[d])
      BY <2>3 DEF Grown
    <3> QED
      BY <1>7, <3>1 DEF handle_message, DeployedInv
  <2> QED
    BY <1>7, <2>1, <2>4, <2>5, <2>6 DEF handle_message, ServedInv, Shrunk
<1>8. ASSUME NEW c \in Links, Break(c) PROVE FleetInv'
  <2>1. PICK i \in 0 .. Len(up[c]), j \in 0 .. Len(down[c]) :
             /\ c = conn /\ client = "notifying" => j > 0
             /\ up' = [up EXCEPT ![c] = SubSeq(up[c], 1, i)]
             /\ down' = [down EXCEPT ![c] = SubSeq(down[c], 1, j)]
    BY <1>8 DEF Break
  <2>2. SubSeq(up[c], 1, i) \in Seq(UpMsgs) /\ Range(SubSeq(up[c], 1, i)) \subseteq Range(up[c])
    BY <1>type, PrefixProperties
  <2>9. /\ SubSeq(down[c], 1, j) \in Seq(DownMsgs) /\ Range(SubSeq(down[c], 1, j)) \subseteq Range(down[c])
        /\ j > 0 => SubSeq(down[c], 1, j) /= <<>> /\ Head(SubSeq(down[c], 1, j)) = Head(down[c])
    BY ZenonT(60), <1>type, PrefixProperties
  <2>3. Shrunk(up', up, c, UpMsgs) /\ Shrunk(down', down, c, DownMsgs)
    BY <1>type, <2>1, <2>2, <2>9 DEF Shrunk
  <2>4. c = conn /\ client = "notifying" => down'[c] /= <<>> /\ Head(down'[c]) = Head(down[c])
    BY <1>type, <2>1, <2>9
  <2>5. up[c] \in {<<>>, <<Register>>} => up'[c] \in {<<>>, <<Register>>}
    <3> SUFFICES ASSUME up[c] \in {<<>>, <<Register>>} PROVE up'[c] \in {<<>>, <<Register>>}
      OBVIOUS
    <3>1. CASE up[c] = <<>>
      BY <1>type, <2>1, <3>1, EmptySeq, SubSeqEmpty
    <3>2. CASE up[c] = <<Register>>
      <4>1. Len(<<Register>>) = 1 /\ i \in {0, 1}
        BY <3>2
      <4>2. SubSeq(up[c], 1, 0) = <<>>
        BY SubSeqEmpty
      <4>3. SubSeq(up[c], 1, 1) = up[c]
        <5>1. up[c] \in Seq(UpMsgs) /\ Len(up[c]) = 1
          BY <1>type, <3>2, <4>1
        <5>2. SubSeq(up[c], 1, Len(up[c])) = up[c]
          BY <5>1, SubSeqFull
        <5> QED
          BY <5>1, <5>2
      <4> QED
        BY <1>type, <2>1, <3>2, <4>1, <4>2, <4>3
    <3> QED
      BY <3>1, <3>2, <2>1
  <2>6. FleetType'
    BY <1>8, <2>3 DEF Break, FleetType, Shrunk
  <2>7. Handshake'
    BY <1>8, <2>3, <2>4, <2>5 DEF Break, FleetType, Handshake, Shrunk
  <2> QED
    BY <1>8, <2>3, <2>6, <2>7 DEF Break, DeployedInv, ServedInv, Shrunk
<1>9. CASE try_connect
  <2>1. PICK c \in Links :
             /\ session[c] = "none" /\ client' = "awaiting" /\ conn' = c
             /\ session' = [session EXCEPT ![c] = "waiting"]
             /\ link' = [link EXCEPT ![c] = "up"]
             /\ up' = [up EXCEPT ![c] = <<Register>>]
             /\ down' = [down EXCEPT ![c] = <<>>]
    BY <1>9 DEF try_connect, Register
  <2>2. Register \in UpMsgs /\ <<Register>> \in Seq(UpMsgs) /\ Range(<<Register>>) = {Register}
    <3>1. Register \in UpMsgs
      BY DEF UpMsgs
    <3>2. <<Register>> \in Seq(UpMsgs)
      BY <3>1
    <3>3. DOMAIN <<Register>> = {1} /\ <<Register>>[1] = Register
      OBVIOUS
    <3>4. Range(<<Register>>) = {Register}
      BY <3>3 DEF Range
    <3> QED
      BY <3>1, <3>2, <3>4
  <2>3. Shrunk(down', down, c, DownMsgs)
    BY <1>type, <2>1, ReadShrinks
  <2>4. FleetType'
    BY <1>9, <2>1, <2>2, <2>3 DEF try_connect, FleetType, Shrunk
  <2>5. Handshake'
    BY <1>9, <1>type, <2>1, EmptyQueue DEF try_connect, FleetType, Handshake
  <2>6. \A d \in Links : Range(up'[d]) \cap Downloads \subseteq Range(up[d])
    BY <1>type, <2>1, <2>2
  <2> QED
    BY <1>9, <2>3, <2>4, <2>5, <2>6 DEF try_connect, DeployedInv, ServedInv, Shrunk
<1>10. CASE Registered
  <2>1. Shrunk(down', down, conn, DownMsgs) /\ Confirmation \in Range(down[conn])
    <3>1. /\ Shrunk(down', down, conn, DownMsgs)
          /\ Head(down[conn]) \in Range(down[conn]) /\ Head(down[conn]) \in DownMsgs
      BY <1>10, <1>type, ReadShrinks DEF Registered
    <3> QED
      BY <1>10, <3>1 DEF Registered
  <2>2. FleetType'
    BY <1>10, <2>1 DEF Registered, FleetType, Shrunk
  <2>3. Handshake'
    BY <1>10, <1>type, <2>1 DEF Registered, FleetType, Handshake, Shrunk
  <2> QED
    BY <1>10, <2>1, <2>2, <2>3 DEF Registered, DeployedInv, ServedInv, Shrunk
<1>11. ASSUME NEW next \in {"down", "stopped"}, Leave(next),
              UNCHANGED <<conn, session, up, mailbox, row, deployed, served>>
       PROVE  FleetType' /\ Handshake' /\ Shrunk(down', down, conn, DownMsgs)
  <2>1. Shrunk(down', down, conn, DownMsgs)
    BY <1>11, <1>type, ReadShrinks DEF Leave
  <2>2. FleetType'
    BY <1>11, <2>1 DEF Leave, FleetType, Shrunk
  <2> QED
    BY <1>11, <2>1, <2>2 DEF Leave, Handshake, FleetType, Shrunk
<1>12. CASE RegistrationFailed \/ RegistrationTimeout \/ ConnectionLost \/ Shutdown
  <2>1. PICK next \in {"down", "stopped"} : Leave(next)
    BY <1>12 DEF RegistrationFailed, RegistrationTimeout, ConnectionLost, Shutdown
  <2>2. UNCHANGED <<vars, conn, session, up, mailbox, row, deployed, served>>
    BY <1>12 DEF RegistrationFailed, RegistrationTimeout, ConnectionLost, Shutdown
  <2> QED
    BY <1>type, <1>11, <2>1, <2>2 DEF DeployedInv, ServedInv, Shrunk
<1>13. CASE Heartbeat
  <2>1. CASE link[conn] = "up"
    <3> DEFINE m == [type |-> "Heartbeat", artifact_hash |-> artifact_hash]
    <3>1. m \in Heartbeats /\ m \in UpMsgs /\ m \notin Downloads
      BY DEF Heartbeats, Downloads, UpMsgs, IInv, TypeOK
    <3>2. Grown(up', up, conn, m, UpMsgs)
      <4>1. up' = Sent(up, conn, m)
        BY <1>13, <2>1 DEF Heartbeat
      <4> QED
        BY <1>type, <3>1, <4>1, SentGrows
    <3> HIDE DEF m
    <3>3. FleetType'
      BY <1>13, <2>1, <3>2 DEF Heartbeat, FleetType, Grown
    <3>4. Handshake'
      BY <1>13, <2>1, <1>type, <3>1, <3>2 DEF Heartbeat, FleetType, Handshake, Grown
    <3> QED
      BY <1>13, <2>1, <3>1, <3>2, <3>3, <3>4 DEF Heartbeat, DeployedInv, ServedInv, Grown
  <2>2. CASE link[conn] /= "up"
    <3>1. Leave("down") /\ UNCHANGED <<vars, conn, session, up, mailbox, row, deployed, served>>
      BY <1>13, <2>2 DEF Heartbeat
    <3> QED
      BY <1>type, <1>11, <3>1 DEF DeployedInv, ServedInv, Shrunk
  <2> QED
    BY <2>1, <2>2
<1>14. CASE SendResponse
  <2> DEFINE r == Head(response_rx)
             m == [type |-> "ArtifactDownloaded", artifact_id |-> r.artifact_id, success |-> r.success]
  <2>1. /\ r \in Responses /\ r \in Range(response_rx)
        /\ Range(response_rx') \subseteq Range(response_rx)
    BY <1>14, QueueProperties DEF SendResponse, TakeResponse, IInv, TypeOK
  <2>2. m \in Downloads /\ m \in UpMsgs /\ (m.success => m.artifact_id \in served)
    BY <2>1 DEF Downloads, UpMsgs, Responses, ServedInv
  <2>3. Grown(up', up, conn, m, UpMsgs)
    BY <1>14, <1>type, <2>2, SentGrows DEF SendResponse
  <2> HIDE DEF m
  <2>4. FleetType'
    BY <1>14, <2>3 DEF SendResponse, TakeResponse, FleetType, Grown
  <2>5. Handshake'
    BY <1>14, <1>type, <2>2, <2>3 DEF SendResponse, TakeResponse, FleetType, Handshake, Grown
  <2>6. ServedInv'
    BY ZenonT(60), <1>14, <2>1, <2>2, <2>3 DEF SendResponse, TakeResponse, ServedInv, Grown, serving, run
  <2> QED
    BY <1>14, <2>4, <2>5, <2>6 DEF SendResponse, TakeResponse, DeployedInv
<1>15. CASE Receive
  <2> DEFINE m == Head(down[conn])
  <2>1. m \in DownMsgs /\ m \in Range(down[conn])
    BY <1>15, <1>type, ReadShrinks DEF Receive
  <2>2. /\ UNCHANGED <<conn, session, link, up, mailbox, row, deployed, served>>
        /\ UNCHANGED <<gateway, notification, swapped, response_rx>>
    BY <1>15 DEF Receive, Announce, serving, run
  <2>3. notified' \subseteq deployed
    <3>1. notified' = notified \/ (m \in Offers /\ notified' = notified \cup {m.artifact_id})
      BY <1>15, <2>1 DEF Receive, Announce
    <3>2. notified \subseteq deployed /\ (m \in Offers => m.artifact_id \in deployed)
      BY <1>type, <2>1 DEF DeployedInv
    <3> QED
      BY <3>1, <3>2
  <2>4. CASE client' = "notifying"
    <3>1. down' = down /\ m \in Offers
      BY <1>15, <2>1, <2>4 DEF Receive
    <3> QED
      BY <1>15, <2>2, <2>3, <2>4, <3>1 DEF Receive, FleetType, Handshake, DeployedInv, ServedInv
  <2>5. CASE client' /= "notifying"
    <3>1. Shrunk(down', down, conn, DownMsgs) /\ client' = client
      BY <1>15, <1>type, <2>5, ReadShrinks DEF Receive
    <3> QED
      BY <1>15, <1>type, <2>2, <2>3, <2>5, <3>1
      DEF Receive, FleetType, Handshake, DeployedInv, ServedInv, Shrunk
  <2> QED
    BY <2>4, <2>5
<1>16. CASE Notify
  <2> DEFINE m == Head(down[conn])
  <2>1. m \in Offers /\ m \in Range(down[conn]) /\ Shrunk(down', down, conn, DownMsgs)
    BY <1>16, <1>type, ReadShrinks DEF Notify, Handshake
  <2>2. notified' \subseteq deployed
    BY <1>16, <1>type, <2>1 DEF Notify, Announce, DeployedInv
  <2> QED
    BY <1>16, <1>type, <2>1, <2>2
    DEF Notify, Announce, serving, run, FleetType, Handshake, DeployedInv, ServedInv, Shrunk
<1>17. ASSUME NEW t \in Tasks, ReloadStep(t) PROVE FleetInv'
  <2> USE DEF serving, run, channels
  <2>1. UNCHANGED <<client, conn, session, link, up, down, mailbox, row, deployed>> /\ served \subseteq served'
    BY <1>17 DEF ReloadStep
  <2>2. notified' = notified
    BY <1>17 DEF ReloadStep, Spawn, Reload, Publish, TryLock, SkipBusy, RequestFails, CreateTempFile,
       StreamFails, VerifyOk, VerifyMismatch, LoadOk, LoadFails, Swap, ReturnSuccess, ReadGateway,
       SendHash, StoreManifest, Respond
  <2>3. /\ \A u \in Tasks : swapped'[u] => notification'[u] \in served'
        /\ \A r \in Range(response_rx') : r.success => r.artifact_id \in served'
    <3> USE DEF IInv, TypeOK, ServedInv
    <3>1. CASE Spawn(t)
      BY <2>1, <3>1 DEF Spawn, RunInv, Publishing
    <3>2. CASE Swap(t)
      BY <1>17, <2>1, <3>2 DEF Swap, ReloadStep, RunInv
    <3>3. CASE Respond(t)
      <4> DEFINE r == [artifact_id |-> notification[t], success |-> pc[t] = "respond_ok"]
      <4>1. r \in Responses /\ (r.success => r.artifact_id \in served)
        BY DEF Responses, RunInv
      <4>2. Range(response_rx') = Range(response_rx) \cup {r}
        BY <3>3, <4>1, QueueProperties DEF Respond
      <4>3. \A u \in Tasks : swapped'[u] => u /= t /\ swapped[u] /\ notification'[u] = notification[u]
        BY <3>3 DEF Respond
      <4> QED
        BY <2>1, <4>1, <4>2, <4>3
    <3>4. ASSUME ~Spawn(t), ~Swap(t), ~Respond(t) PROVE UNCHANGED <<swapped, notification, response_rx>>
      BY <1>17, <3>4 DEF ReloadStep, Reload, Publish, TryLock, SkipBusy, RequestFails, CreateTempFile,
         StreamFails, VerifyOk, VerifyMismatch, LoadOk, LoadFails, ReturnSuccess, ReadGateway,
         SendHash, StoreManifest
    <3> QED
      BY <2>1, <3>1, <3>2, <3>3, <3>4
  <2>4. {InitArtifact, gateway'} \subseteq served'
    BY <1>17 DEF ReloadStep, ServedInv
  <2> QED
    BY <2>1, <2>2, <2>3, <2>4 DEF FleetType, Handshake, DeployedInv, ServedInv
<1>18. CASE Restart
  <2>1. Leave("down") /\ UNCHANGED <<conn, session, up, mailbox, row, deployed, served>>
    BY <1>18 DEF Restart
  <2>2. FleetType' /\ Handshake' /\ Shrunk(down', down, conn, DownMsgs)
    BY <1>11, <2>1
  <2>3. Range(response_rx') = {} /\ \A t \in Tasks : ~swapped'[t]
    BY <1>18, EmptyQueue DEF Restart
  <2> QED
    BY <1>18, <1>type, <2>1, <2>2, <2>3 DEF Restart, DeployedInv, ServedInv, Shrunk
<1>19. ASSUME NEW c \in Links, RegistrationError(c) PROVE FleetInv'
  <2>1. /\ up' = up \/ up' = [up EXCEPT ![c] = <<>>]
        /\ session[c] = "creating" \/ up'[c] = <<>>
    <3>1. CASE session[c] = "waiting"
      <4>1. up[c] = <<Register>> /\ up' = [up EXCEPT ![c] = Tail(up[c])]
        BY <1>19, <3>1 DEF RegistrationError, Handshake
      <4>2. Tail(<<Register>>) = <<>>
        OBVIOUS
      <4> QED
        BY <1>type, <4>1, <4>2
    <3>2. CASE session[c] = "creating"
      BY <1>19, <3>2 DEF RegistrationError
    <3> QED
      BY <1>19, <3>1, <3>2 DEF RegistrationError
  <2>2. Shrunk(up', up, c, UpMsgs)
    <3>1. Shrunk([up EXCEPT ![c] = <<>>], up, c, UpMsgs)
      BY <1>type, ReadShrinks
    <3>2. Shrunk(up, up, c, UpMsgs)
      BY <1>type DEF Shrunk
    <3> QED
      BY <2>1, <3>1, <3>2
  <2>3. Grown(down', down, c, Refusal, DownMsgs)
    <3>1. Refusal \in DownMsgs /\ down' = Sent(down, c, Refusal)
      BY <1>19 DEF RegistrationError, DownMsgs, Refusal
    <3> QED
      BY <1>type, <3>1, SentGrows
  <2>4. /\ session' = [session EXCEPT ![c] = "refused"] /\ session[c] \in {"waiting", "creating"}
        /\ UNCHANGED <<vars, client, conn, link, mailbox, row, deployed, served>>
    BY <1>19 DEF RegistrationError
  <2>5. FleetType'
    BY <2>2, <2>3, <2>4 DEF FleetType, Shrunk, Grown
  <2>6. Register \notin Range(up'[c])
    BY <2>1, <2>2, <2>4, EmptyQueue DEF Handshake, Shrunk
  <2>7. Handshake'
    BY SMTT(60), <1>type, <2>2, <2>3, <2>4, <2>6 DEF FleetType, Handshake, Shrunk, Grown
  <2> QED
    BY <2>2, <2>3, <2>4, <2>5, <2>7 DEF DeployedInv, ServedInv, Shrunk, Grown
<1>20. ASSUME NEW c \in Links, MessageError(c) PROVE FleetInv'
  <2>1. Shrunk(up', up, c, UpMsgs)
    BY <1>20, <1>type, ReadShrinks DEF MessageError
  <2>2. row' \in [Links -> [artifact : SUBSET Artifacts, drift : BOOLEAN, missed : BOOLEAN]]
    BY <1>20, ErrorStep DEF FleetType
  <2>3. session[c] = "loop" /\ UNCHANGED <<vars, client, conn, session, link, down, mailbox, deployed, served>>
    BY <1>20 DEF MessageError
  <2>4. FleetType'
    BY <2>1, <2>2, <2>3 DEF FleetType, Shrunk
  <2>5. Handshake'
    BY <2>1, <2>3 DEF FleetType, Handshake, Shrunk
  <2> QED
    BY <2>1, <2>3, <2>4, <2>5 DEF DeployedInv, ServedInv, Shrunk
<1> QED
  BY <1>1, <1>2, <1>3, <1>4, <1>5, <1>6, <1>7, <1>8, <1>9, <1>10, <1>12, <1>13, <1>14, <1>15, <1>16,
     <1>17, <1>18, <1>19, <1>20
  DEF RolloutNext, ClientSteps, SessionSteps

-----------------------------------------------------------------------------
(* The inductive invariant holds through every fault and restart. *)
THEOREM RolloutInvHolds == RolloutSpec => []RolloutInv
<1>1. RolloutInv /\ [RolloutNext]_rolloutVars => RolloutInv'
  BY ProcessStep, FleetStep DEF RolloutInv
<1> QED
  BY RolloutInvInit, <1>1, PTL DEF RolloutSpec

(* A data plane's answer to the control plane is the truth about the run   *)
(* of the task that gives it, in a fleet whose links break and whose       *)
(* processes are restarted.                                                *)
THEOREM FleetAnswersTruthfully == RolloutSpec => []ResponseTruthful
<1>1. RolloutInv => ResponseTruthful
  BY DEF RolloutInv, IInv, TypeOK, RunInv, ResponseTruthful, Publishing
<1> QED
  BY RolloutInvHolds, <1>1, PTL

(* The hash in the heartbeat and the manifest of the admin API are stale   *)
(* only after reloads that overlapped, whatever the control plane sent and *)
(* whenever the process was restarted.                                     *)
THEOREM FleetStaleOnlyByOverlap == RolloutSpec => []StaleOnlyByOverlap
<1>1. RolloutInv => StaleOnlyByOverlap
  BY DEF RolloutInv, IInv, PublicationInv, StaleOnlyByOverlap
<1> QED
  BY RolloutInvHolds, <1>1, PTL

Recorded == [c \in Links |-> row[c].artifact]

(* handle_message writes into the row of its session only an artifact that *)
(* was served.                                                             *)
LEMMA RecordStep ==
  ASSUME RolloutInv, NEW c \in Links, handle_message(c)
  PROVE  \/ Recorded' = Recorded
         \/ \E a \in Artifacts \cap served : Recorded' = [Recorded EXCEPT ![c] = {a}]
<1> DEFINE m == Head(up[c])
<1>1. m \in Range(up[c]) /\ m \in UpMsgs
  BY ReadShrinks DEF handle_message, RolloutInv, FleetInv, FleetType
<1>2. m \in Heartbeats \cup Downloads
  BY <1>1 DEF handle_message, RolloutInv, FleetInv, Handshake, UpMsgs
<1>3. row \in [Links -> [artifact : SUBSET Artifacts, drift : BOOLEAN, missed : BOOLEAN]]
  BY DEF RolloutInv, FleetInv, FleetType
<1>4. CASE m \in Heartbeats
  <2>1. row' = [row EXCEPT ![c].drift = Drifted(c, m.artifact_hash)]
    BY <1>1, <1>4, Disjoint DEF handle_message
  <2> QED
    BY <1>3, <2>1 DEF Recorded
<1>5. CASE m \in Downloads
  <2>1. /\ row' = IF m.success THEN [row EXCEPT ![c] = Recording(row[c], m.artifact_id)] ELSE row
        /\ m.artifact_id \in Artifacts /\ (m.success => m.artifact_id \in served)
    BY <1>1, <1>5, Disjoint DEF handle_message, Downloads, RolloutInv, FleetInv, ServedInv
  <2> QED
    BY <1>3, <2>1 DEF Recorded, Recording
<1> QED
  BY <1>2, <1>4, <1>5

(* Every step of the rollout is a step of Deployment, or none. *)
LEMMA AbstractStep == RolloutInv /\ [RolloutNext]_rolloutVars => [Abstract!Next]_(Abstract!vars)
<1> SUFFICES ASSUME RolloutInv, [RolloutNext]_rolloutVars PROVE [Abstract!Next]_(Abstract!vars)
  OBVIOUS
<1> USE DEF ends, wires, history, vars, serving, run, channels, Abstract!vars
<1>1. ASSUME NEW a \in Artifacts, deploy_to_data_planes(a) PROVE Abstract!Next
  BY <1>1 DEF deploy_to_data_planes, Abstract!Next, Abstract!Deploy
<1>2. ASSUME NEW c \in Links, handle_message(c) PROVE [Abstract!Next]_(Abstract!vars)
  <2>1. UNCHANGED <<deployed, gateway, served>>
    BY <1>2 DEF handle_message
  <2> QED
    BY <1>2, <2>1, RecordStep DEF Recorded, Abstract!Next, Abstract!Record
<1>3. ASSUME NEW t \in Tasks, ReloadStep(t) PROVE [Abstract!Next]_(Abstract!vars)
  <2>1. deployed' = deployed /\ row' = row /\ served' = served \cup {gateway'}
    BY <1>3 DEF ReloadStep
  <2>2. CASE Swap(t)
    <3>1. gateway' = bytes[t] /\ bytes[t] = notification[t] /\ notification[t] \in notified
      BY <2>2 DEF Swap, RolloutInv, IInv, TypeOK, RunInv, Announced
    <3>2. gateway' \in deployed /\ gateway' \in Artifacts
      BY <3>1 DEF RolloutInv, FleetInv, DeployedInv, FleetType
    <3> QED
      BY <2>1, <3>2 DEF Abstract!Next, Abstract!Install
  <2>3. CASE ~Swap(t)
    <3>1. gateway' = gateway
      BY <1>3, <2>3 DEF ReloadStep, Spawn, Reload, Publish, TryLock, SkipBusy, RequestFails, CreateTempFile,
         StreamFails, VerifyOk, VerifyMismatch, LoadOk, LoadFails, ReturnSuccess, ReadGateway,
         SendHash, StoreManifest, Respond
    <3>2. served' = served
      BY <2>1, <3>1 DEF RolloutInv, FleetInv, ServedInv
    <3> QED
      BY <2>1, <3>1, <3>2
  <2> QED
    BY <2>2, <2>3
<1>4. CASE Restart
  BY <1>4 DEF Restart, Abstract!Next, Abstract!Restart
<1>5. ASSUME NEW c \in Links, MessageError(c) PROVE UNCHANGED <<deployed, gateway, served, Recorded>>
  <2>1. \A d \in Links : row'[d].artifact = row[d].artifact
    BY <1>5, ErrorStep DEF RolloutInv, FleetInv
  <2>2. Recorded' = Recorded
    BY <2>1 DEF Recorded
  <2> QED
    BY <1>5, <2>2 DEF MessageError
<1>6. ASSUME \A a \in Artifacts : ~deploy_to_data_planes(a),
             \A c \in Links : ~handle_message(c) /\ ~MessageError(c),
             \A t \in Tasks : ~ReloadStep(t), ~Restart
      PROVE  UNCHANGED <<deployed, gateway, served, row>>
  BY <1>6 DEF RolloutNext, rolloutVars, fleet, ClientSteps, SessionSteps, create_api_key, revoke_api_key,
     validate_and_touch, Admit, SessionEnds, Forward, Break, RegistrationError, try_connect, Registered, RegistrationFailed,
     ConnectionLost, Heartbeat, RegistrationTimeout, Shutdown, Receive, Notify, SendResponse, Announce,
     TakeResponse
<1> QED
  BY <1>1, <1>2, <1>3, <1>4, <1>5, <1>6 DEF Recorded

(* The rollout implements Deployment: with links that break anywhere,      *)
(* answers that come late, processes that restart and reloads that         *)
(* overlap, a data plane serves nothing that was not deployed, and a row   *)
(* of the control plane names nothing that was not served.                 *)
THEOREM RolloutImplementsDeployment == RolloutSpec => ImplementsDeployment
<1>1. RolloutInit => Abstract!Init
  BY DEF RolloutInit, Init, NoRow, Abstract!Init
<1> QED
  BY <1>1, AbstractStep, RolloutInvHolds, PTL DEF RolloutSpec, ImplementsDeployment, Abstract!Spec

=============================================================================
