----------------------------- MODULE HotReload -----------------------------
(***************************************************************************)
(* Hot reload in the data plane: the artifact-notification arm of the main *)
(* select loop of `run_serve`, the task it spawns per notification,        *)
(* `perform_hot_reload`, and `download_artifact`                           *)
(* (crates/barbacane/src/main.rs, hot_reload.rs).                          *)
(*                                                                         *)
(* One task runs per notification, on a multi-threaded runtime.  The task  *)
(* holds HOT_RELOAD_LOCK from its try_lock until perform_hot_reload        *)
(* returns.  What it publishes about the new gateway (the watched artifact *)
(* hash, the admin manifest, the response to the control plane) it         *)
(* publishes afterwards, with the lock already released.                   *)
(*                                                                         *)
(* A gateway, a manifest and a hash are each identified with the bytes of  *)
(* the artifact they were built from; the SHA-256 of those bytes is        *)
(* assumed collision free.                                                 *)
(***************************************************************************)
EXTENDS Naturals, Sequences

CONSTANTS
  Artifacts,    \* artifacts the control plane may announce
  InitArtifact, \* the artifact the process was started with
  Garbage,      \* download bodies that are no announced artifact
  Tasks,        \* slots for reload tasks alive at the same time
  NoTask,
  QueueCap,     \* capacity of the artifact_tx channel (16 in the code)
  ResponseCap   \* capacity of the response_tx channel (16 in the code)

ASSUME ArtifactAssumption == InitArtifact \in Artifacts
ASSUME GarbageAssumption == Garbage \cap Artifacts = {}
ASSUME TaskAssumption == NoTask \notin Tasks
ASSUME CapAssumption == QueueCap \in Nat \ {0} /\ ResponseCap \in Nat \ {0}

Content == Artifacts \cup Garbage

VARIABLES
  gateway,       \* SharedGateway: content of the artifact being served
  lock,          \* holder of HOT_RELOAD_LOCK
  artifact_rx,   \* notifications waiting for the main loop
  pc,            \* where each reload task is
  notification,  \* the artifact each task was told to install
  file,          \* the task's file in artifact_dir: none, temporary or final
  bytes,         \* the bytes that file holds
  gw,            \* the gateway each task read back in order to publish it
  artifact_hash, \* watch channel read by the heartbeat
  admin_manifest,\* manifest shown by the admin API
  response_rx,   \* ArtifactDownloaded responses waiting for the client
  notified,      \* history: every artifact ever announced
  swapped,       \* history: has the task's current run replaced the gateway?
  overlap        \* history: did the last swap happen while another task was
                 \* still publishing an earlier one?

vars == <<gateway, lock, artifact_rx, pc, notification, file, bytes, gw,
          artifact_hash, admin_manifest, response_rx, notified, swapped, overlap>>

serving   == <<gateway, overlap>>
run       == <<notification, file, bytes, gw, swapped>>
channels  == <<artifact_rx, response_rx, notified>>
published == <<artifact_hash, admin_manifest>>

Steps == {"idle", "spawned", "requesting", "streaming", "loading", "swapping",
          "returning", "reading", "hashing", "manifest", "respond_ok",
          "respond_failed"}

(* Between try_lock and the return of perform_hot_reload. *)
Critical == {"requesting", "streaming", "loading", "swapping", "returning"}

(* Gateway swapped in, but not yet fully published. *)
Publishing == {"returning", "reading", "hashing", "manifest"}

Responses == [artifact_id : Artifacts, success : BOOLEAN]

Init ==
  /\ gateway = InitArtifact
  /\ lock = NoTask
  /\ artifact_rx = <<>>
  /\ pc = [t \in Tasks |-> "idle"]
  /\ notification = [t \in Tasks |-> InitArtifact]
  /\ file = [t \in Tasks |-> "none"]
  /\ bytes = [t \in Tasks |-> InitArtifact]
  /\ gw = [t \in Tasks |-> InitArtifact]
  /\ artifact_hash = InitArtifact
  /\ admin_manifest = InitArtifact
  /\ response_rx = <<>>
  /\ notified = {}
  /\ swapped = [t \in Tasks |-> FALSE]
  /\ overlap = FALSE

-----------------------------------------------------------------------------
(* The control-plane client *)

(* ArtifactAvailable received: artifact_tx.send(notification).await *)
Announce(a) ==
  /\ Len(artifact_rx) < QueueCap
  /\ artifact_rx' = Append(artifact_rx, a)
  /\ notified' = notified \cup {a}
  /\ UNCHANGED <<serving, lock, pc, run, published, response_rx>>

(* The connected client takes a response off the channel and sends it. *)
TakeResponse ==
  /\ response_rx /= <<>>
  /\ response_rx' = Tail(response_rx)
  /\ UNCHANGED <<serving, lock, artifact_rx, pc, run, published, notified>>

-----------------------------------------------------------------------------
(* The main loop *)

(* The notification arm: spawn a task for it and go back to the select. *)
Spawn(t) ==
  /\ artifact_rx /= <<>>
  /\ pc[t] = "idle"
  /\ artifact_rx' = Tail(artifact_rx)
  /\ notification' = [notification EXCEPT ![t] = Head(artifact_rx)]
  /\ pc' = [pc EXCEPT ![t] = "spawned"]
  /\ UNCHANGED <<serving, lock, file, bytes, gw, swapped, published,
                 response_rx, notified>>

-----------------------------------------------------------------------------
(* perform_hot_reload and download_artifact, run by task t *)

(* HOT_RELOAD_LOCK.try_lock() *)
TryLock(t) ==
  /\ pc[t] = "spawned"
  /\ lock = NoTask
  /\ lock' = t
  /\ pc' = [pc EXCEPT ![t] = "requesting"]
  /\ UNCHANGED <<serving, channels, run, published>>

(* Mutant: lock().await instead of try_lock(). *)
WaitBusy(t) ==
  /\ pc[t] = "spawned"
  /\ lock /= NoTask
  /\ UNCHANGED vars

(* The lock is held: "hot-reload already in progress, skipping". *)
SkipBusy(t) ==
  /\ pc[t] = "spawned"
  /\ lock /= NoTask
  /\ pc' = [pc EXCEPT ![t] = "respond_failed"]
  /\ UNCHANGED <<serving, lock, channels, run, published>>

(* An early return of perform_hot_reload drops the guard. *)
ReturnFailed(t) ==
  /\ lock' = NoTask
  /\ pc' = [pc EXCEPT ![t] = "respond_failed"]

(* The GET fails, or answers with an error status, or the temporary file   *)
(* cannot be created.                                                      *)
RequestFails(t) ==
  /\ pc[t] = "requesting"
  /\ ReturnFailed(t)
  /\ UNCHANGED <<serving, channels, run, published>>

(* The response headers arrived and artifact-<uuid>.bca.tmp was created. *)
CreateTempFile(t) ==
  /\ pc[t] = "requesting"
  /\ file' = [file EXCEPT ![t] = "tmp"]
  /\ pc' = [pc EXCEPT ![t] = "streaming"]
  /\ UNCHANGED <<serving, lock, channels, notification, bytes, gw, published,
                 swapped>>

(* A stream, write, flush or rename error: the temporary file stays behind. *)
StreamFails(t) ==
  /\ pc[t] = "streaming"
  /\ ReturnFailed(t)
  /\ UNCHANGED <<serving, channels, run, published>>

(* The body c is complete and its checksum is the announced one: rename. *)
VerifyOk(t, c) ==
  /\ pc[t] = "streaming"
  /\ c = notification[t]
  /\ bytes' = [bytes EXCEPT ![t] = c]
  /\ file' = [file EXCEPT ![t] = "final"]
  /\ pc' = [pc EXCEPT ![t] = "loading"]
  /\ UNCHANGED <<serving, lock, channels, notification, gw, published,
                 swapped>>

(* The body c is complete and has another checksum: remove the file. *)
VerifyMismatch(t, c) ==
  /\ pc[t] = "streaming"
  /\ c /= notification[t]
  /\ file' = [file EXCEPT ![t] = "none"]
  /\ ReturnFailed(t)
  /\ UNCHANGED <<serving, channels, notification, bytes, gw, published, swapped>>

(* Gateway::load succeeds. *)
LoadOk(t) ==
  /\ pc[t] = "loading"
  /\ pc' = [pc EXCEPT ![t] = "swapping"]
  /\ UNCHANGED <<serving, lock, channels, run, published>>

(* Mutant: the gateway is replaced before the load is known to succeed. *)
LoadFailsAfterSwap(t) ==
  /\ pc[t] = "loading"
  /\ file' = [file EXCEPT ![t] = "none"]
  /\ gateway' = bytes[t]
  /\ swapped' = [swapped EXCEPT ![t] = TRUE]
  /\ ReturnFailed(t)
  /\ UNCHANGED <<overlap, channels, notification, bytes, gw, published>>

(* Gateway::load fails: the verified file is removed again. *)
LoadFails(t) ==
  /\ pc[t] = "loading"
  /\ file' = [file EXCEPT ![t] = "none"]
  /\ ReturnFailed(t)
  /\ UNCHANGED <<serving, channels, notification, bytes, gw, published,
                 swapped>>

(* shared_gateway.swap(new_gateway) *)
Swap(t) ==
  /\ pc[t] = "swapping"
  /\ gateway' = bytes[t]
  /\ swapped' = [swapped EXCEPT ![t] = TRUE]
  /\ overlap' = (\E u \in Tasks \ {t} : pc[u] \in Publishing)
  /\ pc' = [pc EXCEPT ![t] = "returning"]
  /\ UNCHANGED <<lock, channels, notification, file, bytes, gw, published>>

(* perform_hot_reload returns Success and drops the guard. *)
ReturnSuccess(t) ==
  /\ pc[t] = "returning"
  /\ lock' = NoTask
  /\ pc' = [pc EXCEPT ![t] = "reading"]
  /\ UNCHANGED <<serving, channels, run, published>>

-----------------------------------------------------------------------------
(* The rest of the spawned task: publication *)

(* let gw = gateway_clone.load() *)
ReadGateway(t) ==
  /\ pc[t] = "reading"
  /\ gw' = [gw EXCEPT ![t] = gateway]
  /\ pc' = [pc EXCEPT ![t] = "hashing"]
  /\ UNCHANGED <<serving, lock, channels, notification, file, bytes,
                 published, swapped>>

(* artifact_hash_tx.send(gw.manifest.artifact_hash) *)
SendHash(t) ==
  /\ pc[t] = "hashing"
  /\ artifact_hash' = gw[t]
  /\ pc' = [pc EXCEPT ![t] = "manifest"]
  /\ UNCHANGED <<serving, lock, channels, run, admin_manifest>>

(* Mutant: the admin API keeps the manifest it was started with. *)
StoreNothing(t) ==
  /\ pc[t] = "manifest"
  /\ pc' = [pc EXCEPT ![t] = "respond_ok"]
  /\ UNCHANGED <<serving, lock, channels, run, published>>

(* admin_manifest.store(gw.manifest) *)
StoreManifest(t) ==
  /\ pc[t] = "manifest"
  /\ admin_manifest' = gw[t]
  /\ pc' = [pc EXCEPT ![t] = "respond_ok"]
  /\ UNCHANGED <<serving, lock, channels, run, artifact_hash>>

(* tx.send(response).await: blocks while the response channel is full.     *)
(* The task ends and its locals go out of scope.                           *)
Respond(t) ==
  /\ pc[t] \in {"respond_ok", "respond_failed"}
  /\ Len(response_rx) < ResponseCap
  /\ response_rx' = Append(response_rx,
                           [artifact_id |-> notification[t],
                            success |-> pc[t] = "respond_ok"])
  /\ pc' = [pc EXCEPT ![t] = "idle"]
  /\ notification' = [notification EXCEPT ![t] = InitArtifact]
  /\ file' = [file EXCEPT ![t] = "none"]
  /\ bytes' = [bytes EXCEPT ![t] = InitArtifact]
  /\ gw' = [gw EXCEPT ![t] = InitArtifact]
  /\ swapped' = [swapped EXCEPT ![t] = FALSE]
  /\ UNCHANGED <<serving, lock, artifact_rx, published, notified>>

-----------------------------------------------------------------------------
Reload(t) ==
  \/ TryLock(t) \/ SkipBusy(t)
  \/ RequestFails(t) \/ CreateTempFile(t) \/ StreamFails(t)
  \/ \E c \in Content : VerifyOk(t, c) \/ VerifyMismatch(t, c)
  \/ LoadOk(t) \/ LoadFails(t) \/ Swap(t) \/ ReturnSuccess(t)

Publish(t) ==
  ReadGateway(t) \/ SendHash(t) \/ StoreManifest(t) \/ Respond(t)

Next ==
  \/ \E a \in Artifacts : Announce(a)
  \/ TakeResponse
  \/ \E t \in Tasks : Spawn(t) \/ Reload(t) \/ Publish(t)

Spec == Init /\ [][Next]_vars

(* Waiting for the server of the artifact: the client that downloads has   *)
(* no timeout.                                                             *)
Downloading == {"requesting", "streaming"}

-----------------------------------------------------------------------------
(* Properties *)

TypeOK ==
  /\ gateway \in Content
  /\ lock \in Tasks \cup {NoTask}
  /\ artifact_rx \in Seq(Artifacts)
  /\ Len(artifact_rx) =< QueueCap
  /\ pc \in [Tasks -> Steps]
  /\ notification \in [Tasks -> Artifacts]
  /\ file \in [Tasks -> {"none", "tmp", "final"}]
  /\ bytes \in [Tasks -> Content]
  /\ gw \in [Tasks -> Content]
  /\ artifact_hash \in Content
  /\ admin_manifest \in Content
  /\ response_rx \in Seq(Responses)
  /\ Len(response_rx) =< ResponseCap
  /\ notified \subseteq Artifacts
  /\ swapped \in [Tasks -> BOOLEAN]
  /\ overlap \in BOOLEAN

(* HOT_RELOAD_LOCK serialises download, load and swap: only the task that  *)
(* holds it is between try_lock and the return of perform_hot_reload, and  *)
(* it is free whenever no task is there (no early return leaks the guard). *)
ReloadExclusive ==
  \A t \in Tasks : pc[t] \in Critical <=> lock = t

(* Whatever bytes the downloads deliver, the gateway in service, the hash  *)
(* in the heartbeat and the manifest of the admin API are always those of  *)
(* the initial artifact or of an artifact the control plane announced.     *)
ServedWasAnnounced ==
  {gateway, artifact_hash, admin_manifest} \subseteq notified \cup {InitArtifact}

(* The answer a task is about to give is the truth about its own run: a    *)
(* failure means it never touched the gateway in service, a success that   *)
(* it installed exactly the artifact it was told to.                       *)
ResponseTruthful ==
  \A t \in Tasks :
    /\ pc[t] = "respond_failed" => ~swapped[t]
    /\ pc[t] = "respond_ok" => swapped[t] /\ bytes[t] = notification[t]

(* Once the publications are over, the hash reported for drift detection   *)
(* and the admin manifest are those of the gateway in service, unless two  *)
(* reloads overlapped: the second swapped while the first was publishing.  *)
StaleOnlyByOverlap ==
  (~overlap /\ \A t \in Tasks : pc[t] \notin Publishing) =>
    artifact_hash = gateway /\ admin_manifest = gateway

(* Only the holder of the lock ever replaces the gateway, and only by an   *)
(* artifact whose checksum it has verified.                                *)
SwapOnlyVerified ==
  [][gateway' /= gateway =>
       \E t \in Tasks : /\ lock = t
                        /\ file[t] = "final"
                        /\ gateway' = notification[t]]_vars

(* A reload whose own download ends answers the control plane, whether it  *)
(* gets the lock, skips or fails, as long as the client takes responses:   *)
(* the download of another task that hangs for ever does not hold it up.   *)
ReloadAnswered ==
  \A t \in Tasks :
    WF_vars(TakeResponse) /\ []<>(pc[t] \notin Downloading)
      => (pc[t] = "spawned" ~> pc[t] = "idle")

=============================================================================
