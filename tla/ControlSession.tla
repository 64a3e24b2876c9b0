--------------------------- MODULE ControlSession ---------------------------
(***************************************************************************)
(* The control plane's side of its data planes: the WebSocket session      *)
(* handler (`handle_socket`), the ConnectionManager it registers with, the *)
(* rows of the data_planes table, and the three other actors that touch    *)
(* them: the deploy request that broadcasts through the manager, the       *)
(* request that disconnects a data plane, and the sweep of stale rows      *)
(* (crates/barbacane-control/src/api/ws/*.rs, api/data_planes.rs,          *)
(* db/data_planes.rs, server.rs).                                          *)
(*                                                                         *)
(* A session is identified with the data plane id it is given: every       *)
(* registration inserts a new row.  One project is modelled; its entry of  *)
(* project_connections is a set, since ids are unique in it.  A reference  *)
(* into the DashMap (`guard`) holds the read lock of the shard its key     *)
(* hashes to: while it is held, every insertion into that shard and every  *)
(* removal from it waits, whatever the key.                                *)
(***************************************************************************)
EXTENDS Naturals, Sequences, FiniteSets

CONSTANTS
  Sessions,     \* all the sockets ever accepted
  NoSession,
  MaxSessions,  \* largest MAX_CONCURRENT_WS_SESSIONS considered (1024 in the code)
  ChannelCap,   \* capacity of a session's mpsc channel (32 in the code)
  Artifacts,    \* what may be deployed
  Shards        \* shards of ConnectionManager.connections

ASSUME SessionAssumption == NoSession \notin Sessions /\ IsFiniteSet(Sessions)
ASSUME BoundAssumption == MaxSessions \in Nat \ {0} /\ ChannelCap \in Nat \ {0}
ASSUME SomeArtifact == Artifacts /= {} /\ Shards /= {}

VARIABLES
  pc,            \* where each session's handler is
  link,          \* the socket: up, silent (peer gone unnoticed), closed (or broken)
  row,           \* status of the data plane's row
  last_seen,     \* age of the row's last_seen column
  connections,   \* keys of ConnectionManager.connections
  index,         \* the project's entry of project_connections
  rx,            \* messages queued for each session
  deploy,        \* the deploy request: its step, targets left and message
  guard,         \* the key whose map reference the deploy request holds
  api,           \* the disconnect request: its step and target
  session_cap,   \* permits of the semaphore session_slots (never changes)
  shard_of,      \* the shard each id hashes to (never changes)
  disconnected,  \* history: ids a disconnect request took out of connections
  raced          \* history: ids removed between their two insertions

vars == <<pc, link, row, last_seen, connections, index, rx, deploy, guard,
          api, disconnected, raced, session_cap, shard_of>>

maps  == <<connections, index>>
fixed == <<session_cap, shard_of>>
table == <<row, last_seen>>
apis  == <<deploy, guard, api, disconnected, raced>>

HandlerSteps == {"none", "waiting", "validating", "confirming", "inserting",
                 "indexing", "loop", "sending", "removing", "unindexing",
                 "offlining", "abandoned", "closed"}

(* The handler holds its session permit. *)
Held == HandlerSteps \ {"none", "abandoned", "closed"}

(* It has returned; abandoned if the statement that should have taken its  *)
(* row away, or marked it offline, failed.                                 *)
Ended == {"abandoned", "closed"}

NoDeploy == [step |-> "idle", todo |-> {}, artifact |-> CHOOSE a \in Artifacts : TRUE]
NoRequest == [step |-> "idle", target |-> NoSession]

Init ==
  /\ pc = [s \in Sessions |-> "none"]
  /\ link = [s \in Sessions |-> "closed"]
  /\ row = [s \in Sessions |-> "absent"]
  /\ last_seen = [s \in Sessions |-> "null"]
  /\ connections = {}
  /\ index = {}
  /\ rx = [s \in Sessions |-> <<>>]
  /\ deploy = NoDeploy
  /\ guard = NoSession
  /\ api = NoRequest
  /\ session_cap \in 1..MaxSessions
  /\ shard_of \in [Sessions -> Shards]
  /\ disconnected = {} /\ raced = {}

Goto(s, step) == pc' = [pc EXCEPT ![s] = step]

(* DELETE FROM data_planes: the rows of S go, with their columns. *)
DropRows(S) ==
  /\ row' = [s \in Sessions |-> IF s \in S THEN "absent" ELSE row[s]]
  /\ last_seen' = [s \in Sessions |-> IF s \in S THEN "null" ELSE last_seen[s]]

-----------------------------------------------------------------------------
(* handle_socket: from the accepted socket to the message loop *)

Permits == {s \in Sessions : pc[s] \in Held}

(* try_acquire_session succeeds. *)
Accept(s) ==
  /\ pc[s] = "none"
  /\ Cardinality(Permits) < session_cap
  /\ Goto(s, "waiting")
  /\ link' = [link EXCEPT ![s] = "up"]
  /\ UNCHANGED <<table, maps, rx, apis, fixed>>

(* The cap is reached: the socket is dropped. *)
Reject(s) ==
  /\ pc[s] = "none"
  /\ Cardinality(Permits) >= session_cap
  /\ Goto(s, "closed")
  /\ UNCHANGED <<link, table, maps, rx, apis, fixed>>

(* wait_for_registration *)
ReceiveRegister(s) ==
  /\ pc[s] = "waiting" /\ link[s] = "up"
  /\ Goto(s, "validating")
  /\ UNCHANGED <<link, table, maps, rx, apis, fixed>>

(* The socket closes, or nothing useful arrives for 30 seconds. *)
NoRegister(s) ==
  /\ pc[s] = "waiting"
  /\ Goto(s, "closed")
  /\ link' = [link EXCEPT ![s] = "closed"]
  /\ UNCHANGED <<table, maps, rx, apis, fixed>>

(* The key is invalid, of another project, or lacks the scope, or a query  *)
(* fails: RegistrationFailed.                                              *)
Refuse(s) ==
  /\ pc[s] = "validating"
  /\ Goto(s, "closed")
  /\ link' = [link EXCEPT ![s] = "closed"]
  /\ UNCHANGED <<table, maps, rx, apis, fixed>>

(* DataPlanesRepository::create: status online, last_seen left NULL. *)
CreateRow(s) ==
  /\ pc[s] = "validating"
  /\ row' = [row EXCEPT ![s] = "online"]
  /\ last_seen' = [last_seen EXCEPT ![s] = "null"]
  /\ Goto(s, "confirming")
  /\ UNCHANGED <<link, maps, rx, apis, fixed>>

(* Registered is handed to the socket.  On a silent link it is lost, and   *)
(* the retransmissions will eventually break the link.                     *)
Transmit(s) ==
  /\ link[s] \in {"up", "silent"}
  /\ link' = [link EXCEPT ![s] = IF @ = "up" THEN "up" ELSE "closed"]

Confirm(s) ==
  /\ pc[s] = "confirming"
  /\ Transmit(s)
  /\ Goto(s, "inserting")
  /\ UNCHANGED <<table, maps, rx, apis, fixed>>

(* Mutant: the row stays when the confirmation fails. *)
ConfirmFailsKeepsRow(s) ==
  /\ pc[s] = "confirming" /\ link[s] = "closed"
  /\ Goto(s, "closed")
  /\ link' = [link EXCEPT ![s] = "closed"]
  /\ UNCHANGED <<table, maps, rx, apis, fixed>>

(* The confirmation cannot be sent: delete the row again.  The result of   *)
(* that statement is ignored, so a failing one leaves the row online.      *)
ConfirmFails(s) ==
  /\ pc[s] = "confirming" /\ link[s] = "closed"
  /\ \/ DropRows({s}) /\ Goto(s, "closed")
     \/ UNCHANGED table /\ Goto(s, "abandoned")
  /\ link' = [link EXCEPT ![s] = "closed"]
  /\ UNCHANGED <<maps, rx, apis, fixed>>

(* A reference into the shard of s is held: its write lock is not to be    *)
(* had.                                                                    *)
Locked(s) == guard /= NoSession /\ shard_of[guard] = shard_of[s]

(* ConnectionManager::register, first map: waits for the shard. *)
InsertConnection(s) ==
  /\ pc[s] = "inserting"
  /\ ~Locked(s)
  /\ connections' = connections \cup {s}
  /\ Goto(s, "indexing")
  /\ UNCHANGED <<link, table, index, rx, apis, fixed>>

(* Mutant: the project's entry is replaced instead of extended. *)
ReplaceIndex(s) ==
  /\ pc[s] = "indexing"
  /\ index' = {s}
  /\ Goto(s, "loop")
  /\ UNCHANGED <<link, table, connections, rx, apis, fixed>>

(* ConnectionManager::register, second map *)
InsertIndex(s) ==
  /\ pc[s] = "indexing"
  /\ index' = index \cup {s}
  /\ Goto(s, "loop")
  /\ UNCHANGED <<link, table, connections, rx, apis, fixed>>

-----------------------------------------------------------------------------
(* handle_socket: the message loop *)

(* Some(msg) = rx.recv() *)
TakeMessage(s) ==
  /\ pc[s] = "loop" /\ rx[s] /= <<>>
  /\ rx' = [rx EXCEPT ![s] = Tail(@)]
  /\ Goto(s, "sending")
  /\ UNCHANGED <<link, table, maps, apis, fixed>>

SendMessage(s) ==
  /\ pc[s] = "sending"
  /\ Transmit(s)
  /\ Goto(s, "loop")
  /\ UNCHANGED <<table, maps, rx, apis, fixed>>

SendFails(s) ==
  /\ pc[s] = "sending" /\ link[s] = "closed"
  /\ Goto(s, "removing")
  /\ UNCHANGED <<link, table, maps, rx, apis, fixed>>

(* Mutant: a heartbeat of a data plane whose row is gone ends the loop. *)
HeartbeatNeedsRow(s) ==
  /\ pc[s] = "loop" /\ link[s] = "up"
  /\ last_seen' = [last_seen EXCEPT ![s] = IF row[s] = "absent" THEN @ ELSE "fresh"]
  /\ Goto(s, IF row[s] = "absent" THEN "removing" ELSE "loop")
  /\ UNCHANGED <<link, row, maps, rx, apis, fixed>>

(* A heartbeat (or a successful ArtifactDownloaded): last_seen = NOW() on  *)
(* the row, if it is still there; the status is left alone.                *)
Heartbeat(s) ==
  /\ pc[s] = "loop" /\ link[s] = "up"
  /\ last_seen' = [last_seen EXCEPT ![s] = IF row[s] = "absent" THEN @ ELSE "fresh"]
  /\ UNCHANGED <<pc, link, row, maps, rx, apis, fixed>>

(* Close, end of stream or error: leave the loop. *)
SocketEnds(s) ==
  /\ pc[s] = "loop" /\ link[s] = "closed"
  /\ Goto(s, "removing")
  /\ UNCHANGED <<link, table, maps, rx, apis, fixed>>

-----------------------------------------------------------------------------
(* handle_socket: cleanup *)

(* ConnectionManager::remove, first map: waits for the shard. *)
RemoveConnection(s) ==
  /\ pc[s] = "removing"
  /\ ~Locked(s)
  /\ connections' = connections \ {s}
  /\ Goto(s, IF s \in connections THEN "unindexing" ELSE "offlining")
  /\ UNCHANGED <<link, table, index, rx, apis, fixed>>

(* ConnectionManager::remove, second map *)
RemoveIndex(s) ==
  /\ pc[s] = "unindexing"
  /\ index' = index \ {s}
  /\ Goto(s, "offlining")
  /\ UNCHANGED <<link, table, connections, rx, apis, fixed>>

(* The handler's locals are dropped: the socket and the channel. *)
Hangup(s) ==
  /\ link' = [link EXCEPT ![s] = "closed"]
  /\ rx' = [rx EXCEPT ![s] = <<>>]

(* mark_offline, on the row if it is still there; the handler returns. *)
MarkOffline(s) ==
  /\ pc[s] = "offlining"
  /\ row' = [row EXCEPT ![s] = IF @ = "absent" THEN @ ELSE "offline"]
  /\ last_seen' = [last_seen EXCEPT ![s] = IF row[s] = "absent" THEN @ ELSE "fresh"]
  /\ Goto(s, "closed")
  /\ Hangup(s)
  /\ UNCHANGED <<maps, apis, fixed>>

(* The statement fails; the error is logged and the handler returns. *)
MarkOfflineFails(s) ==
  /\ pc[s] = "offlining"
  /\ Goto(s, "abandoned")
  /\ Hangup(s)
  /\ UNCHANGED <<table, maps, apis, fixed>>

-----------------------------------------------------------------------------
(* deploy_to_data_planes and broadcast_to_project *)

(* list_for_project: a copy of the index. *)
StartDeploy(a) ==
  /\ deploy.step = "idle"
  /\ deploy' = [step |-> "sending", todo |-> index, artifact |-> a]
  /\ UNCHANGED <<pc, link, table, maps, rx, guard, api, disconnected, raced, fixed>>

(* ConnectionManager::send: take a reference to the connection. *)
TakeReference(s) ==
  /\ deploy.step = "sending" /\ guard = NoSession
  /\ s \in deploy.todo /\ s \in connections
  /\ guard' = s
  /\ UNCHANGED <<pc, link, table, maps, rx, deploy, api, disconnected, raced, fixed>>

(* The id is gone from the map: the error is logged. *)
SkipTarget(s) ==
  /\ deploy.step = "sending" /\ guard = NoSession
  /\ s \in deploy.todo /\ s \notin connections
  /\ deploy' = [deploy EXCEPT !.todo = @ \ {s}]
  /\ UNCHANGED <<pc, link, table, maps, rx, guard, api, disconnected, raced, fixed>>

(* conn.tx.send(message).await: waits for room, the reference still held. *)
Enqueue ==
  /\ guard /= NoSession
  /\ Len(rx[guard]) < ChannelCap
  /\ rx' = [rx EXCEPT ![guard] = Append(@, deploy.artifact)]
  /\ deploy' = [deploy EXCEPT !.todo = @ \ {guard}]
  /\ guard' = NoSession
  /\ UNCHANGED <<pc, link, table, maps, api, disconnected, raced, fixed>>

(* The caller of the deploy request goes away: the request is dropped at   *)
(* its await, and with it the reference it holds.                          *)
AbandonDeploy ==
  /\ deploy.step = "sending"
  /\ deploy' = NoDeploy
  /\ guard' = NoSession
  /\ UNCHANGED <<pc, link, table, maps, rx, api, disconnected, raced, fixed>>

FinishDeploy ==
  /\ deploy.step = "sending" /\ deploy.todo = {}
  /\ deploy' = NoDeploy
  /\ UNCHANGED <<pc, link, table, maps, rx, guard, api, disconnected, raced, fixed>>

-----------------------------------------------------------------------------
(* disconnect_data_plane *)

(* repo.get: the row exists and belongs to the project. *)
StartDisconnect(s) ==
  /\ api.step = "idle" /\ row[s] /= "absent"
  /\ api' = [step |-> "removing", target |-> s]
  /\ UNCHANGED <<pc, link, table, maps, rx, deploy, guard, disconnected, raced, fixed>>

(* ConnectionManager::remove, first map: waits for the shard. *)
DisconnectConnection ==
  /\ api.step = "removing" /\ ~Locked(api.target)
  /\ connections' = connections \ {api.target}
  /\ api' = [api EXCEPT !.step = IF api.target \in connections
                                 THEN "unindexing" ELSE "deleting"]
  /\ disconnected' = disconnected \cup ({api.target} \cap connections)
  /\ UNCHANGED <<pc, link, table, index, rx, deploy, guard, raced, fixed>>

(* ConnectionManager::remove, second map.  A session between its two       *)
(* insertions is not there yet: it will add itself all the same.           *)
DisconnectIndex ==
  /\ api.step = "unindexing"
  /\ index' = index \ {api.target}
  /\ api' = [api EXCEPT !.step = "deleting"]
  /\ raced' = IF pc[api.target] = "indexing" THEN raced \cup {api.target} ELSE raced
  /\ UNCHANGED <<pc, link, table, connections, rx, deploy, guard, disconnected, fixed>>

(* repo.delete; 204 No Content.  A failing statement, or a caller that     *)
(* went away, leaves the row without the connection.                       *)
DeleteRow ==
  /\ api.step = "deleting"
  /\ DropRows({api.target}) \/ UNCHANGED table
  /\ api' = NoRequest
  /\ UNCHANGED <<pc, link, maps, rx, deploy, guard, disconnected, raced, fixed>>

-----------------------------------------------------------------------------
(* run_stale_sweep, time, the peers, and a restart of the control plane *)

(* The sweep task alternates two statements; either may fail and be        *)
(* skipped, so they come in any order.  mark_stale_offline: last_seen <    *)
(* cutoff is never true of NULL.                                           *)
MarkStaleOffline ==
  /\ row' = [s \in Sessions |->
               IF row[s] = "online" /\ last_seen[s] \in {"stale", "expired"}
               THEN "offline" ELSE row[s]]
  /\ UNCHANGED <<pc, link, last_seen, maps, rx, apis, fixed>>

(* delete_offline_older_than *)
ReapOffline ==
  /\ DropRows({s \in Sessions : row[s] = "offline" /\ last_seen[s] = "expired"})
  /\ UNCHANGED <<pc, link, maps, rx, apis, fixed>>

(* Two minutes, then the retention time, pass without an update. *)
Age(s) ==
  /\ row[s] /= "absent" /\ last_seen[s] \in {"fresh", "stale"}
  /\ last_seen' = [last_seen EXCEPT ![s] = IF @ = "fresh" THEN "stale" ELSE "expired"]
  /\ UNCHANGED <<pc, link, row, maps, rx, apis, fixed>>

(* The peer closes the socket, or disappears without closing it. *)
PeerLeaves(s) ==
  /\ link[s] = "up"
  /\ \E l \in {"silent", "closed"} : link' = [link EXCEPT ![s] = l]
  /\ UNCHANGED <<pc, table, maps, rx, apis, fixed>>

(* The process dies and starts again: sessions, manager and requests are   *)
(* gone; mark_all_offline runs before anything is served.                  *)
Restart ==
  /\ pc' = [s \in Sessions |-> IF pc[s] = "none" THEN "none" ELSE "closed"]
  /\ link' = [s \in Sessions |-> "closed"]
  /\ row' = [s \in Sessions |-> IF row[s] = "online" THEN "offline" ELSE row[s]]
  /\ last_seen' = [s \in Sessions |-> IF row[s] = "online" THEN "fresh" ELSE last_seen[s]]
  /\ connections' = {} /\ index' = {} /\ disconnected' = {} /\ raced' = {}
  /\ rx' = [s \in Sessions |-> <<>>]
  /\ deploy' = NoDeploy /\ guard' = NoSession /\ api' = NoRequest
  /\ UNCHANGED fixed

-----------------------------------------------------------------------------
Handler(s) ==
  \/ ReceiveRegister(s) \/ NoRegister(s) \/ Refuse(s) \/ CreateRow(s)
  \/ Confirm(s) \/ ConfirmFails(s) \/ InsertConnection(s) \/ InsertIndex(s)
  \/ TakeMessage(s) \/ SendMessage(s) \/ SendFails(s) \/ SocketEnds(s)
  \/ RemoveConnection(s) \/ RemoveIndex(s) \/ MarkOffline(s) \/ MarkOfflineFails(s)

Deploy ==
  \/ \E s \in Sessions : TakeReference(s) \/ SkipTarget(s)
  \/ Enqueue \/ AbandonDeploy \/ FinishDeploy

Disconnect == DisconnectConnection \/ DisconnectIndex \/ DeleteRow

Sweep == MarkStaleOffline \/ ReapOffline

Next ==
  \/ \E s \in Sessions : Accept(s) \/ Reject(s) \/ Handler(s) \/ Heartbeat(s)
  \/ \E s \in Sessions : StartDisconnect(s) \/ Age(s) \/ PeerLeaves(s)
  \/ \E a \in Artifacts : StartDeploy(a)
  \/ Deploy \/ Disconnect \/ Sweep \/ Restart

Spec == Init /\ [][Next]_vars

-----------------------------------------------------------------------------
(* Properties *)

TypeOK ==
  /\ pc \in [Sessions -> HandlerSteps]
  /\ link \in [Sessions -> {"up", "silent", "closed"}]
  /\ row \in [Sessions -> {"absent", "online", "offline"}]
  /\ last_seen \in [Sessions -> {"null", "fresh", "stale", "expired"}]
  /\ connections \subseteq Sessions
  /\ index \subseteq Sessions
  /\ rx \in [Sessions -> Seq(Artifacts)]
  /\ \A s \in Sessions : Len(rx[s]) =< ChannelCap
  /\ deploy \in [step : {"idle", "sending"}, todo : SUBSET Sessions, artifact : Artifacts]
  /\ guard \in Sessions \cup {NoSession}
  /\ api \in [step : {"idle", "removing", "unindexing", "deleting"},
              target : Sessions \cup {NoSession}]
  /\ api.step /= "idle" => api.target \in Sessions
  /\ session_cap \in 1..MaxSessions
  /\ shard_of \in [Sessions -> Shards]
  /\ disconnected \subseteq Sessions
  /\ raced \subseteq Sessions

(* The manager never keeps a connection whose handler is gone, so its size *)
(* is bounded by the session cap and a message is never queued for nobody. *)
NoLeakedConnection ==
  /\ \A s \in connections : pc[s] \in {"indexing", "loop", "sending", "removing"}
  /\ Cardinality(connections) =< session_cap

(* A session in its message loop is found by every broadcast: it is in     *)
(* both maps, unless a disconnect request took it out.                     *)
LoopIsReachable ==
  \A s \in Sessions :
    pc[s] \in {"loop", "sending"} /\ s \notin disconnected => s \in connections \cap index

(* A disconnect request has taken s out of the first map and is about to   *)
(* take it out of the second.                                              *)
Unindexing(s) == api.step = "unindexing" /\ api.target = s

(* An entry of project_connections outlives its handler in one race only:  *)
(* a disconnect request ran the whole of remove between the handler's two  *)
(* insertions.  Such an entry stays until the next restart: broadcasts     *)
(* skip it, and project_connection_count counts it as notified.            *)
IndexLeaksByRaceOnly ==
  \A s \in index :
    \/ pc[s] \in {"loop", "sending", "removing", "unindexing"}
    \/ Unindexing(s) \/ s \in raced

(* What the manager knows and what handlers are at work: no connection     *)
(* outlives its handler, no index entry does but for the race named above, *)
(* and a session in its loop is in both maps unless it was disconnected by *)
(* request.                                                                *)
MapsAgree == NoLeakedConnection /\ IndexLeaksByRaceOnly /\ LoopIsReachable

(* A data plane shown online has a handler at work, whatever early return, *)
(* disconnect, sweep or restart happened.  The exceptions are the two      *)
(* handlers whose own last statement failed: the deletion after a          *)
(* confirmation that could not be sent, and mark_offline.                  *)
OnlineHasHandler ==
  \A s \in Sessions : row[s] = "online" =>
    pc[s] \notin {"none", "waiting", "validating", "closed"}

(* A broadcast that waits for room in a session's channel and that         *)
(* session's cleanup, which waits for the shard the broadcast has locked,  *)
(* block each other until the caller gives up: nobody else empties the     *)
(* channel.  Meanwhile registrations, cleanups and disconnect requests of  *)
(* every other session of the shard wait too, even of data planes that are *)
(* well.  The cause is always a failed socket: whoever waits for a shard   *)
(* waits for a channel that has room, for a handler that will still read   *)
(* from it, or for a data plane whose socket has failed.                   *)
StuckOnlyByDeadSocket ==
  \A s \in Sessions : Locked(s) =>
    \/ Len(rx[guard]) < ChannelCap
    \/ pc[guard] \in {"indexing", "loop", "sending"}
    \/ link[guard] = "closed"

=============================================================================
