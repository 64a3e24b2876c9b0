------------------------------ MODULE Rollout ------------------------------
(***************************************************************************)
(* A deployment from end to end: the control plane's deploy request, its   *)
(* session with a data plane, the data plane's client (control_plane.rs),  *)
(* the reload of HotReload, and the way back to the row of the data plane  *)
(* and to the admin API (admin.rs).                                        *)
(*                                                                         *)
(* Every connection has its session and its row.  What happens inside a    *)
(* session's registration and cleanup, and to the manager's maps, is       *)
(* ControlSession's subject.  A link that breaks loses what is under way,  *)
(* from some point on, in each direction; each end notices in its own      *)
(* time.  A hash is identified with its artifact, as in HotReload.         *)
(***************************************************************************)
EXTENDS HotReload, FiniteSets

CONSTANTS
  Links,        \* 1 .. n: connections that come to a row, over all processes
  MaxRequests,  \* bound on deploy requests and revocations
  MaxFaults,    \* bound on broken links, timeouts and restarts
  MaxErrors,    \* bound on database errors
  MaxEvents,    \* bound on requests and faults together
  AdminTokens,  \* bearer tokens that callers of the API may present
  AdminToken    \* the one the server was started with

ASSUME RolloutAssumption == {MaxRequests, MaxFaults, MaxErrors, MaxEvents} \subseteq Nat /\ AdminToken \in AdminTokens
ASSUME LinksAssumption == Links \subseteq Nat /\ 1 \in Links

VARIABLES
  client,      \* the client: down, awaiting, registered, notifying or stopped
  conn,        \* the connection it uses
  session,     \* control plane: where the session of each connection is
  link,        \* each socket: none, up, broken or closed by the client
  up, down,    \* what is under way to the control plane, and from it
  mailbox,     \* of each session: messages of the connection manager
  row,         \* of each session: columns artifact_id and drift_detected, and
               \* (history) whether its last success could not be recorded
  api_key,     \* the data plane's key: absent, valid or gone
  drift_flag,  \* data plane: what the last HeartbeatAck said
  requests,    \* number of deploy requests and revocations
  faults,      \* number of broken links, timeouts and restarts
  errors,      \* number of database errors
  deployed,    \* history: artifacts deployed
  served       \* history: artifacts served by any process

ends == <<client, conn, session, link>>
wires == <<up, down, mailbox>>
history == <<requests, faults, errors, deployed>>
fleet == <<ends, wires, row, api_key, drift_flag, history, served>>
rolloutVars == <<vars, fleet>>

NoRow == [artifact |-> {}, drift |-> FALSE, missed |-> FALSE]

RolloutInit ==
  /\ Init
  /\ client = "down" /\ conn = 1
  /\ session = [c \in Links |-> "none"]
  /\ link = [c \in Links |-> "none"]
  /\ up = [c \in Links |-> <<>>]
  /\ down = [c \in Links |-> <<>>]
  /\ mailbox = [c \in Links |-> <<>>]
  /\ row = [c \in Links |-> NoRow]
  /\ api_key = "absent"
  /\ drift_flag = FALSE
  /\ requests = 0 /\ faults = 0 /\ errors = 0 /\ deployed = {}
  /\ served = {InitArtifact}

Fault ==
  /\ faults < MaxFaults /\ requests + faults < MaxEvents
  /\ faults' = faults + 1

Error == errors < MaxErrors /\ errors' = errors + 1

(* A message sent on link c; one on a link that is not up is lost. *)
Sent(queue, c, m) == IF link[c] = "up" THEN [queue EXCEPT ![c] = Append(queue[c], m)] ELSE queue

-----------------------------------------------------------------------------
(* The control plane's API *)

(* require_admin: only the token itself. *)
accepts(token) == token = AdminToken

Request ==
  /\ requests < MaxRequests /\ requests + faults < MaxEvents
  /\ \E token \in AdminTokens : accepts(token)
  /\ requests' = requests + 1

create_api_key ==
  /\ api_key = "absent"
  /\ \E token \in AdminTokens : accepts(token)
  /\ api_key' = "valid"
  /\ UNCHANGED <<vars, ends, wires, row, drift_flag, history, served>>

(* Revoked, or expired: the sessions that have begun go on. *)
revoke_api_key ==
  /\ api_key = "valid" /\ Request
  /\ api_key' = "gone"
  /\ UNCHANGED <<vars, ends, wires, row, drift_flag, faults, errors, deployed, served>>

(* deploy_to_data_planes: every session of the project that is in its loop *)
(* has a message; nobody else will hear of it.                             *)
deploy_to_data_planes(a) ==
  /\ Request
  /\ deployed' = deployed \cup {a}
  /\ mailbox' = [c \in Links |-> IF session[c] = "loop" THEN Append(mailbox[c], a) ELSE mailbox[c]]
  /\ UNCHANGED <<vars, ends, up, down, row, api_key, drift_flag, faults, errors, served>>

-----------------------------------------------------------------------------
(* The session of connection c (handler.rs) *)

(* validate_and_touch, project and scope of the key *)
validate_and_touch(c) ==
  /\ session[c] = "waiting" /\ up[c] /= <<>>
  /\ up' = [up EXCEPT ![c] = Tail(up[c])]
  /\ session' = [session EXCEPT ![c] = IF api_key = "valid" THEN "creating" ELSE "refused"]
  /\ down' = IF api_key = "valid" THEN down ELSE Sent(down, c, [type |-> "RegistrationFailed"])
  /\ UNCHANGED <<vars, client, conn, link, mailbox, row, api_key, drift_flag, history, served>>

(* The row, with the artifact_id that Register carried: run_serve never    *)
(* gives the client one.  Unless the confirmation fails, the session goes  *)
(* into its loop.                                                          *)
Admit(c) ==
  /\ session[c] = "creating"
  /\ \/ session' = [session EXCEPT ![c] = "loop"] /\ down' = Sent(down, c, [type |-> "Registered"])
     \/ session' = [session EXCEPT ![c] = "refused"] /\ link[c] /= "up" /\ UNCHANGED down
  /\ UNCHANGED <<vars, client, conn, link, up, mailbox, row, api_key, drift_flag, history, served>>

(* The rx arm of the loop. *)
Forward(c) ==
  /\ session[c] = "loop" /\ mailbox[c] /= <<>>
  /\ mailbox' = [mailbox EXCEPT ![c] = Tail(mailbox[c])]
  /\ down' = Sent(down, c, [type |-> "ArtifactAvailable", artifact_id |-> Head(mailbox[c])])
  /\ UNCHANGED <<vars, ends, up, row, api_key, drift_flag, history, served>>

(* The database fails while the key is checked or the row created. *)
RegistrationError(c) ==
  /\ \/ session[c] = "waiting" /\ up[c] /= <<>> /\ up' = [up EXCEPT ![c] = Tail(up[c])]
     \/ session[c] = "creating" /\ UNCHANGED up
  /\ Error
  /\ session' = [session EXCEPT ![c] = "refused"]
  /\ down' = Sent(down, c, [type |-> "RegistrationFailed"])
  /\ UNCHANGED <<vars, client, conn, link, mailbox, row, api_key, drift_flag, requests, faults, deployed, served>>

(* get_expected_artifact_hash: that of the artifact which the row names. *)
Drifted(c, hash) == row[c].artifact /= {} /\ row[c].artifact /= {hash}

(* update_artifact *)
Recording(r, a) == [r EXCEPT !.artifact = {a}, !.missed = FALSE]

(* Mutant: the answer is recorded whether the reload succeeded or not. *)
RecordsFailures(c) ==
  /\ session[c] = "loop" /\ up[c] /= <<>>
  /\ up' = [up EXCEPT ![c] = Tail(up[c])]
  /\ LET m == Head(up[c])
     IN CASE m.type = "Heartbeat" ->
               /\ row' = [row EXCEPT ![c].drift = Drifted(c, m.artifact_hash)]
               /\ down' = Sent(down, c, [type |-> "HeartbeatAck", drift_detected |-> Drifted(c, m.artifact_hash)])
          [] m.type = "ArtifactDownloaded" ->
               /\ row' = [row EXCEPT ![c] = Recording(row[c], m.artifact_id)]
               /\ UNCHANGED down
  /\ UNCHANGED <<vars, ends, mailbox, api_key, drift_flag, history, served>>

(* Mutant: drift is only ever set. *)
NeverClearsDrift(c) ==
  /\ session[c] = "loop" /\ up[c] /= <<>>
  /\ up' = [up EXCEPT ![c] = Tail(up[c])]
  /\ LET m == Head(up[c])
     IN CASE m.type = "Heartbeat" ->
               /\ row' = [row EXCEPT ![c].drift = row[c].drift \/ Drifted(c, m.artifact_hash)]
               /\ down' = Sent(down, c, [type |-> "HeartbeatAck", drift_detected |-> Drifted(c, m.artifact_hash)])
          [] m.type = "ArtifactDownloaded" ->
               /\ row' = IF m.success THEN [row EXCEPT ![c] = Recording(row[c], m.artifact_id)] ELSE row
               /\ UNCHANGED down
  /\ UNCHANGED <<vars, ends, mailbox, api_key, drift_flag, history, served>>

(* A heartbeat resets the row's drift and sets it again if the reported    *)
(* hash is not the expected one; a successful download is recorded.        *)
handle_message(c) ==
  /\ session[c] = "loop" /\ up[c] /= <<>>
  /\ up' = [up EXCEPT ![c] = Tail(up[c])]
  /\ LET m == Head(up[c])
     IN CASE m.type = "Heartbeat" ->
               /\ row' = [row EXCEPT ![c].drift = Drifted(c, m.artifact_hash)]
               /\ down' = Sent(down, c, [type |-> "HeartbeatAck", drift_detected |-> Drifted(c, m.artifact_hash)])
          [] m.type = "ArtifactDownloaded" ->
               /\ row' = IF m.success THEN [row EXCEPT ![c] = Recording(row[c], m.artifact_id)] ELSE row
               /\ UNCHANGED down
  /\ UNCHANGED <<vars, ends, mailbox, api_key, drift_flag, history, served>>

(* One of the statements fails: what was to follow it is left out, and the *)
(* loop goes on.  A heartbeat may have reset the drift and gets no answer; *)
(* a success that is not recorded is not reported again.                   *)
MessageError(c) ==
  /\ session[c] = "loop" /\ up[c] /= <<>>
  /\ Error
  /\ up' = [up EXCEPT ![c] = Tail(up[c])]
  /\ LET m == Head(up[c])
     IN \/ m.type = "Heartbeat" /\ row' \in {row, [row EXCEPT ![c].drift = FALSE]}
        \/ m.type = "ArtifactDownloaded" /\ m.success /\ row' = [row EXCEPT ![c].missed = TRUE]
  /\ UNCHANGED <<vars, ends, down, mailbox, api_key, drift_flag, requests, faults, deployed, served>>

(* The end of the stream, a send that fails, or 30 seconds without a       *)
(* Register.  A connection that never had a row may be reused by the model.*)
SessionEnds(c) ==
  /\ session[c] \in {"waiting", "refused", "loop"} /\ link[c] /= "up" /\ up[c] = <<>>
  /\ session' = [session EXCEPT ![c] = IF session[c] = "loop" THEN "ended" ELSE "none"]
  /\ mailbox' = [mailbox EXCEPT ![c] = <<>>]
  /\ UNCHANGED <<vars, client, conn, link, up, down, row, api_key, drift_flag, history, served>>

-----------------------------------------------------------------------------
(* The data plane's client (control_plane.rs) *)

(* connection_loop comes round: a socket, and Register on it.  Attempts    *)
(* that fail and the growing pause between them change nothing else.       *)
try_connect ==
  /\ client = "down"
  /\ \E c \in Links :
       /\ session[c] = "none" /\ \A d \in Links : session[d] = "none" => c <= d
       /\ client' = "awaiting" /\ conn' = c
       /\ session' = [session EXCEPT ![c] = "waiting"]
       /\ link' = [link EXCEPT ![c] = "up"]
       /\ up' = [up EXCEPT ![c] = <<[type |-> "Register"]>>]
       /\ down' = [down EXCEPT ![c] = <<>>]
  /\ UNCHANGED <<vars, mailbox, row, api_key, drift_flag, history, served>>

(* The client drops its socket, and what it has not read of it. *)
Leave(next) ==
  /\ client' = next
  /\ link' = [link EXCEPT ![conn] = IF link[conn] = "up" THEN "closed" ELSE link[conn]]
  /\ down' = [down EXCEPT ![conn] = <<>>]

Registered ==
  /\ client = "awaiting" /\ down[conn] /= <<>> /\ Head(down[conn]).type = "Registered"
  /\ client' = "registered"
  /\ down' = [down EXCEPT ![conn] = Tail(down[conn])]
  /\ UNCHANGED <<vars, conn, session, link, up, mailbox, row, api_key, drift_flag, history, served>>

(* RegistrationFailed, or anything else that is not Registered. *)
RegistrationFailed ==
  /\ client = "awaiting" /\ down[conn] /= <<>> /\ Head(down[conn]).type /= "Registered"
  /\ Leave("down")
  /\ UNCHANGED <<vars, conn, session, up, mailbox, row, api_key, drift_flag, history, served>>

(* 30 seconds without an answer. *)
RegistrationTimeout ==
  /\ client = "awaiting" /\ Fault
  /\ Leave("down")
  /\ UNCHANGED <<vars, conn, session, up, mailbox, row, api_key, drift_flag, requests, errors, deployed, served>>

(* The heartbeat timer.  At most one heartbeat is under way at a time.  A  *)
(* send that fails ends the connection.                                    *)
Heartbeat ==
  /\ client = "registered"
  /\ \A i \in DOMAIN up[conn] : up[conn][i].type /= "Heartbeat"
  /\ \A i \in DOMAIN down[conn] : down[conn][i].type /= "HeartbeatAck"
  /\ IF link[conn] = "up"
     THEN /\ up' = Sent(up, conn, [type |-> "Heartbeat", artifact_hash |-> artifact_hash])
          /\ UNCHANGED <<client, link, down>>
     ELSE Leave("down") /\ UNCHANGED up
  /\ UNCHANGED <<vars, conn, session, mailbox, row, api_key, drift_flag, history, served>>

(* The response arm: a send that fails is logged, and the response gone. *)
SendResponse ==
  /\ client = "registered"
  /\ TakeResponse
  /\ up' = Sent(up, conn, [type |-> "ArtifactDownloaded", artifact_id |-> Head(response_rx).artifact_id,
                           success |-> Head(response_rx).success])
  /\ UNCHANGED <<ends, down, mailbox, row, api_key, drift_flag, history, served>>

(* handle_message: HeartbeatAck sets the flag, ArtifactAvailable goes to    *)
(* the main loop.                                                          *)
Receive ==
  /\ client = "registered" /\ down[conn] /= <<>>
  /\ LET m == Head(down[conn])
     IN \/ m.type = "HeartbeatAck" /\ drift_flag' = m.drift_detected /\ UNCHANGED <<vars, client>>
        \/ m.type = "ArtifactAvailable" /\ Announce(m.artifact_id) /\ UNCHANGED <<drift_flag, client>>
        \/ /\ m.type = "ArtifactAvailable" /\ Len(artifact_rx) = QueueCap
           /\ client' = "notifying" /\ UNCHANGED <<vars, drift_flag>>
  /\ down' = IF client' = "notifying" THEN down ELSE [down EXCEPT ![conn] = Tail(down[conn])]
  /\ UNCHANGED <<conn, session, link, up, mailbox, row, api_key, history, served>>

(* The channel was full: the client's loop stands still until there is     *)
(* room.                                                                   *)
Notify ==
  /\ client = "notifying"
  /\ Announce(Head(down[conn]).artifact_id)
  /\ client' = "registered"
  /\ down' = [down EXCEPT ![conn] = Tail(down[conn])]
  /\ UNCHANGED <<conn, session, link, up, mailbox, row, api_key, drift_flag, history, served>>

(* ConnectionLost or ConnectionFailed: the loop goes round. *)
ConnectionLost ==
  /\ client \in {"awaiting", "registered"} /\ link[conn] /= "up" /\ down[conn] = <<>>
  /\ Leave("down")
  /\ UNCHANGED <<vars, conn, session, up, mailbox, row, api_key, drift_flag, history, served>>

-----------------------------------------------------------------------------
(* Faults *)

(* Each direction loses what comes after some message; what the client    *)
(* has in hand it keeps.                                                   *)
Break(c) ==
  /\ link[c] = "up" /\ Fault
  /\ link' = [link EXCEPT ![c] = "broken"]
  /\ \E i \in 0 .. Len(up[c]), j \in 0 .. Len(down[c]) :
       /\ c = conn /\ client = "notifying" => j > 0
       /\ up' = [up EXCEPT ![c] = SubSeq(up[c], 1, i)]
       /\ down' = [down EXCEPT ![c] = SubSeq(down[c], 1, j)]
  /\ UNCHANGED <<vars, client, conn, session, mailbox, row, api_key, drift_flag, requests, errors, deployed, served>>

(* A shutdown signal: the client closes its socket. *)
Shutdown ==
  /\ client \in {"down", "registered"} /\ Fault
  /\ Leave("stopped")
  /\ UNCHANGED <<vars, conn, session, up, mailbox, row, api_key, drift_flag, requests, errors, deployed, served>>

(* The process ends, with or without a shutdown, and another is started.  *)
Restart ==
  /\ IF client = "stopped" THEN UNCHANGED faults ELSE Fault
  /\ gateway' = InitArtifact /\ lock' = NoTask /\ artifact_rx' = <<>>
  /\ pc' = [t \in Tasks |-> "idle"] /\ file' = [t \in Tasks |-> "none"]
  /\ notification' = [t \in Tasks |-> InitArtifact] /\ bytes' = notification' /\ gw' = notification'
  /\ artifact_hash' = InitArtifact /\ admin_manifest' = InitArtifact
  /\ response_rx' = <<>> /\ notified' = {}
  /\ swapped' = [t \in Tasks |-> FALSE] /\ overlap' = FALSE
  /\ Leave("down")
  /\ drift_flag' = FALSE
  /\ UNCHANGED <<conn, session, up, mailbox, row, api_key, requests, errors, deployed, served>>

-----------------------------------------------------------------------------
(* The admin API *)

health_response == [status |-> 200, routes_of |-> admin_manifest]

provenance_response ==
  [status |-> 200, artifact_hash |-> admin_manifest, drift_detected |-> drift_flag]

handle_request(method, path) ==
  IF method /= "GET" THEN [status |-> 405]
  ELSE CASE path = "/health" -> health_response
         [] path = "/provenance" -> provenance_response
         [] path = "/metrics" -> [status |-> 200]
         [] OTHER -> [status |-> 404]

-----------------------------------------------------------------------------
SessionSteps(c) == validate_and_touch(c) \/ Admit(c) \/ SessionEnds(c)

ClientSteps == try_connect \/ Registered \/ RegistrationFailed \/ Notify \/ ConnectionLost

(* The reload tasks and the main loop, between the client's two channels. *)
ReloadStep(t) ==
  /\ Spawn(t) \/ Reload(t) \/ Publish(t)
  /\ served' = served \cup {gateway'}
  /\ UNCHANGED <<ends, wires, row, api_key, drift_flag, history>>

RolloutNext ==
  \/ create_api_key \/ revoke_api_key
  \/ \E a \in Artifacts : deploy_to_data_planes(a)
  \/ \E c \in Links : SessionSteps(c) \/ Forward(c) \/ handle_message(c) \/ Break(c)
  \/ \E c \in Links : RegistrationError(c) \/ MessageError(c)
  \/ ClientSteps \/ Receive \/ SendResponse \/ Heartbeat \/ RegistrationTimeout
  \/ \E t \in Tasks : ReloadStep(t)
  \/ Shutdown \/ Restart

RolloutSpec == RolloutInit /\ [][RolloutNext]_rolloutVars

(* Both runtimes keep polling their tasks, tokio's select! picks among the *)
(* branches that are ready at random, so that each has its turn, and the   *)
(* timer ticks; a download owes nothing (HotReload).  A process that was   *)
(* stopped is started again.                                               *)
FairRollout ==
  /\ RolloutSpec
  /\ \A c \in Links : /\ WF_rolloutVars(SessionSteps(c))
                       /\ WF_rolloutVars(Forward(c))
                       /\ WF_rolloutVars(handle_message(c))
  /\ WF_rolloutVars(ClientSteps) /\ WF_rolloutVars(Receive)
  /\ WF_rolloutVars(SendResponse) /\ WF_rolloutVars(Heartbeat)
  /\ WF_rolloutVars(\E t \in Tasks : pc[t] \notin Downloading /\ ReloadStep(t))
  /\ WF_rolloutVars(client = "stopped" /\ Restart)

-----------------------------------------------------------------------------
(* Properties *)

Abstract == INSTANCE Deployment WITH
  Rows <- Links, serving <- gateway, recorded <- [c \in Links |-> row[c].artifact]

(* The rollout implements Deployment: whatever is lost, repeated, refused  *)
(* or restarted in between, only what was deployed is served, and a row    *)
(* names only an artifact that its data plane has really served.           *)
ImplementsDeployment == Abstract!Spec

(* A second reload swapped before the success of a first was answered. *)
Overtaken ==
  \E t, u \in Tasks : t /= u /\ pc[u] = "returning" /\ pc[t] \in Publishing \cup {"respond_ok"}

(* Unless one reload overtakes another, the fleet comes to rest: a data    *)
(* plane that is connected reports the provenance of the artifact that it  *)
(* serves, and shows no drift, at either end; its row names no other       *)
(* artifact, and names it if no link was ever lost.  The exception is a    *)
(* database error while the last success was recorded: nothing repeats the *)
(* report, and the data plane is said to drift until it reconnects or has  *)
(* the next deployment.  Errors are finitely many: a database that never   *)
(* answers again is not recovered from.                                    *)
Converges ==
  []~Overtaken =>
    <>[](client = "registered" =>
           /\ handle_request("GET", "/provenance").artifact_hash = gateway
           /\ ~row[conn].missed =>
                 /\ ~handle_request("GET", "/provenance").drift_detected /\ ~row[conn].drift
                 /\ row[conn].artifact \subseteq {gateway}
                 /\ (faults = 0 /\ gateway /= InitArtifact) => row[conn].artifact = {gateway})

(* As long as its key is accepted, a client that is not connected comes    *)
(* back, after errors of the database too (finitely many of them).         *)
Reconnects == <>[](api_key = "valid") => []<>(client = "registered")

(* After a loss of the connection or of a process, and after a database    *)
(* error, the fleet recovers, except as Converges says. *)
Recovers == Reconnects /\ Converges

=============================================================================
