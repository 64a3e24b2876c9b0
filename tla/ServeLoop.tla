------------------------------ MODULE ServeLoop ------------------------------
(***************************************************************************)
(* The accept loop of the data plane (run_serve), the task that serves     *)
(* each connection, and graceful shutdown.                                 *)
(*                                                                         *)
(* A connection is admitted if the semaphore conn_semaphore has a permit   *)
(* left, is counted in active_connections, and is served by a task of its  *)
(* own.  On a shutdown signal the loop ends, every connection task is told *)
(* to finish gracefully, and run_serve waits until the counter is zero or  *)
(* the shutdown timeout has passed.  When it returns, the runtime aborts   *)
(* all tasks, but waits for the plugin calls on its blocking threads.      *)
(*                                                                         *)
(* A request is one plugin call.  It ends in a response or in a WebSocket  *)
(* upgrade: hyper then hands the socket over and the connection is over,   *)
(* while a relay task goes on with the socket.  Requests of one connection *)
(* are served one after the other (HTTP/1).                                *)
(***************************************************************************)
EXTENDS Naturals, FiniteSets

CONSTANTS
  Conns,            \* the connections that clients open
  max_connections   \* BARBACANE_MAX_CONNECTIONS

ASSUME ConnAssumption == IsFiniteSet(Conns)
ASSUME CapAssumption == max_connections \in Nat \ {0}

VARIABLES
  server,       \* accepting, draining, returned (from run_serve), exited
  shutdown,     \* value of the shutdown watch channel
  timed_out,    \* shutdown_duration has elapsed since the drain began
  state,        \* what each connection's task does
  told,         \* the connections whose graceful_shutdown was called
  plugin,       \* the plugin call of each connection: none, running, its outcome
  relay,        \* the WebSocket relay task of each connection
  active,       \* active_connections
  permits       \* free permits of conn_semaphore

vars == <<server, shutdown, timed_out, state, told, plugin, relay, active, permits>>

process == <<server, shutdown, timed_out>>
counters == <<active, permits>>

Served  == {"handshake", "idle", "busy", "leaving"}
Holding == Served \cup {"uncounted"}
Ended   == {"closed", "rejected", "aborted"}
States  == {"none"} \cup Holding \cup Ended

Init ==
  /\ server = "accepting"
  /\ shutdown = FALSE
  /\ timed_out = FALSE
  /\ state = [c \in Conns |-> "none"]
  /\ told = {}
  /\ plugin = [c \in Conns |-> "none"]
  /\ relay = [c \in Conns |-> "none"]
  /\ active = 0
  /\ permits = max_connections

Goto(c, s) == state' = [state EXCEPT ![c] = s]

-----------------------------------------------------------------------------
(* The accept loop *)

(* try_acquire_owned succeeds: count the connection and spawn its task. *)
Accept(c) ==
  /\ server = "accepting" /\ state[c] = "none"
  /\ permits > 0
  /\ permits' = permits - 1
  /\ active' = active + 1
  /\ Goto(c, "handshake")
  /\ UNCHANGED <<process, told, plugin, relay>>

(* At capacity the stream is dropped. *)
Reject(c) ==
  /\ server = "accepting" /\ state[c] = "none"
  /\ permits = 0
  /\ Goto(c, "rejected")
  /\ UNCHANGED <<process, told, plugin, relay, counters>>

(* SIGTERM or SIGINT: shutdown_tx.send(true) *)
Signal ==
  /\ server = "accepting" /\ ~shutdown
  /\ shutdown' = TRUE
  /\ UNCHANGED <<server, timed_out, state, told, plugin, relay, counters>>

(* The select may still take accepted connections before this branch. *)
StopAccepting ==
  /\ server = "accepting" /\ shutdown
  /\ server' = "draining"
  /\ UNCHANGED <<shutdown, timed_out, state, told, plugin, relay, counters>>

-----------------------------------------------------------------------------
(* The task of a connection *)

(* The TLS handshake (nothing to do for plain TCP).  It does not listen to *)
(* the shutdown channel but is bounded by TLS_HANDSHAKE_TIMEOUT.           *)
Handshake(c) ==
  /\ state[c] = "handshake"
  /\ Goto(c, "idle")
  /\ UNCHANGED <<process, told, plugin, relay, counters>>

(* Mutant: the task returns early, past the bookkeeping at its end. *)
HandshakeFailsReturns(c) ==
  /\ state[c] = "handshake"
  /\ Goto(c, "uncounted")
  /\ UNCHANGED <<process, told, plugin, relay, counters>>

HandshakeFails(c) ==
  /\ state[c] = "handshake"
  /\ Goto(c, "leaving")
  /\ UNCHANGED <<process, told, plugin, relay, counters>>

(* conn_shutdown_rx.changed(): graceful_shutdown *)
Tell(c) ==
  /\ shutdown /\ state[c] \in {"idle", "busy"} /\ c \notin told
  /\ told' = told \cup {c}
  /\ UNCHANGED <<process, state, plugin, relay, counters>>

(* hyper reads a request and calls handle_request, which runs the plugin   *)
(* on a blocking thread.                                                   *)
Request(c) ==
  /\ state[c] = "idle" /\ c \notin told /\ plugin[c] = "none"
  /\ Goto(c, "busy")
  /\ plugin' = [plugin EXCEPT ![c] = "running"]
  /\ UNCHANGED <<process, told, relay, counters>>

(* The plugin call ends; nobody takes its result if the client has left. *)
PluginReturns(c) ==
  /\ plugin[c] = "running"
  /\ \E result \in IF state[c] = "busy" THEN {"response", "upgrade"} ELSE {"none"} :
       plugin' = [plugin EXCEPT ![c] = result]
  /\ UNCHANGED <<process, state, told, relay, counters>>

(* The response is written.  The connection stays open for the next        *)
(* request unless it was told to finish.                                   *)
Answer(c) ==
  /\ state[c] = "busy" /\ plugin[c] = "response"
  /\ Goto(c, IF c \in told THEN "leaving" ELSE "idle")
  /\ plugin' = [plugin EXCEPT ![c] = "none"]
  /\ UNCHANGED <<process, told, relay, counters>>

(* Mutant: the upgrade gives the connection back on the spot as well. *)
UpgradeUncounts(c) ==
  /\ state[c] = "busy" /\ plugin[c] = "upgrade"
  /\ Goto(c, "leaving")
  /\ plugin' = [plugin EXCEPT ![c] = "none"]
  /\ relay' = [relay EXCEPT ![c] = "open"]
  /\ active' = active - 1
  /\ UNCHANGED <<process, told, permits>>

(* The 101 response: hyper gives the socket to the relay task, and the     *)
(* future of the connection completes.                                     *)
Upgrade(c) ==
  /\ state[c] = "busy" /\ plugin[c] = "upgrade"
  /\ Goto(c, "leaving")
  /\ plugin' = [plugin EXCEPT ![c] = "none"]
  /\ relay' = [relay EXCEPT ![c] = "open"]
  /\ UNCHANGED <<process, told, counters>>

(* hyper closes an idle connection that was told to finish. *)
CloseIdle(c) ==
  /\ state[c] = "idle" /\ c \in told
  /\ Goto(c, "leaving")
  /\ UNCHANGED <<process, told, plugin, relay, counters>>

(* The client closes, the connection fails, or header_read_timeout passes. *)
(* A plugin call in flight goes on; its result is dropped.                 *)
ClientLeaves(c) ==
  /\ state[c] \in {"idle", "busy"}
  /\ Goto(c, "leaving")
  /\ plugin' = [plugin EXCEPT ![c] = IF @ = "running" THEN "running" ELSE "none"]
  /\ UNCHANGED <<process, told, relay, counters>>

(* conn_counter.fetch_sub *)
Uncount(c) ==
  /\ state[c] = "leaving"
  /\ active' = active - 1
  /\ Goto(c, "uncounted")
  /\ UNCHANGED <<process, told, plugin, relay, permits>>

(* The task ends and drops its permit. *)
ReleasePermit(c) ==
  /\ state[c] = "uncounted"
  /\ permits' = permits + 1
  /\ Goto(c, "closed")
  /\ UNCHANGED <<process, told, plugin, relay, active>>

(* relay_websocket: one of the two directions ends. *)
RelayEnds(c) ==
  /\ relay[c] = "open"
  /\ relay' = [relay EXCEPT ![c] = "closed"]
  /\ UNCHANGED <<process, state, told, plugin, counters>>

-----------------------------------------------------------------------------
(* The drain loop and the end of the process *)

Elapse ==
  /\ server = "draining" /\ ~timed_out
  /\ timed_out' = TRUE
  /\ UNCHANGED <<server, shutdown, state, told, plugin, relay, counters>>

(* run_serve returns; the runtime drops every task at its next await. *)
Return ==
  /\ server' = "returned"
  /\ state' = [c \in Conns |-> IF state[c] \in Served THEN "aborted" ELSE state[c]]
  /\ relay' = [c \in Conns |-> IF relay[c] = "open" THEN "aborted" ELSE relay[c]]
  /\ plugin' = [c \in Conns |-> IF plugin[c] = "running" THEN "running" ELSE "none"]
  /\ UNCHANGED <<shutdown, timed_out, told, counters>>

(* all connections drained *)
Drained ==
  /\ server = "draining" /\ active = 0
  /\ Return

(* Mutant: requests in flight are waited for, whatever the time. *)
GiveUpWhenIdle ==
  /\ server = "draining" /\ active /= 0 /\ timed_out
  /\ \A c \in Conns : state[c] /= "busy"
  /\ Return

(* shutdown timeout reached *)
GiveUp ==
  /\ server = "draining" /\ active /= 0 /\ timed_out
  /\ Return

(* The runtime is dropped once no blocking thread runs a plugin. *)
Exit ==
  /\ server = "returned"
  /\ \A c \in Conns : plugin[c] /= "running"
  /\ server' = "exited"
  /\ UNCHANGED <<shutdown, timed_out, state, told, plugin, relay, counters>>

Terminated == server = "exited" /\ UNCHANGED vars

-----------------------------------------------------------------------------
(* The steps that the process takes by itself. *)
Task(c) ==
  /\ server \in {"accepting", "draining"}
  /\ \/ Handshake(c) \/ HandshakeFails(c) \/ Tell(c) \/ CloseIdle(c)
     \/ Uncount(c) \/ ReleasePermit(c)

(* The steps that need the client: sending, reading, leaving. *)
Client(c) ==
  /\ server \in {"accepting", "draining"}
  /\ Request(c) \/ Answer(c) \/ Upgrade(c) \/ ClientLeaves(c) \/ RelayEnds(c)

Shutdown == StopAccepting \/ Drained \/ GiveUp \/ Exit

Next ==
  \/ \E c \in Conns : Accept(c) \/ Reject(c) \/ Task(c) \/ Client(c) \/ PluginReturns(c)
  \/ Signal \/ Shutdown \/ Elapse \/ Terminated

Spec == Init /\ [][Next]_vars

(* Tasks keep running and plugin calls end (they have a timeout).  Clients *)
(* may stay as long as they like without sending a request or reading a    *)
(* response, and nobody has to send the signal.                            *)
FairSpec ==
  /\ Spec
  /\ WF_vars(Shutdown)
  /\ \A c \in Conns : WF_vars(Task(c)) /\ WF_vars(PluginReturns(c))

-----------------------------------------------------------------------------
(* Properties *)

TypeOK ==
  /\ server \in {"accepting", "draining", "returned", "exited"}
  /\ shutdown \in BOOLEAN /\ timed_out \in BOOLEAN
  /\ state \in [Conns -> States]
  /\ told \subseteq Conns
  /\ plugin \in [Conns -> {"none", "running", "response", "upgrade"}]
  /\ relay \in [Conns -> {"none", "open", "closed", "aborted"}]
  /\ active \in Nat
  /\ permits \in 0 .. max_connections

Running == server \in {"accepting", "draining"}
In(S) == {c \in Conns : state[c] \in S}

(* The counter that the drain waits for is the number of connections being *)
(* served, and the semaphore has a permit back for each one that is over,  *)
(* on every way out of the task: failed handshakes, clients that leave,    *)
(* upgrades, graceful ends.                                                *)
CountIsExact ==
  Running => /\ active = Cardinality(In(Served))
             /\ permits + Cardinality(In(Holding)) = max_connections

(* A shutdown that says "all connections drained" has cut none off, not    *)
(* even one accepted after the signal.                                     *)
CleanDrain == ~timed_out => In({"aborted"}) = {}

(* After the signal the process exits once the timeout can pass, however   *)
(* long clients stay.                                                      *)
Exits == WF_vars(Elapse) => (shutdown ~> server = "exited")

(* It does not take the timeout to get rid of idle clients: after the      *)
(* signal their tasks are told, hyper closes the connections, and none     *)
(* becomes idle again.                                                     *)
IdleIsClosed ==
  []~timed_out => \A c \in Conns : shutdown ~> [](state[c] /= "idle")

(* A shutdown gets to its end, and to the end of idle connections early. *)
ShutdownCompletes == Exits /\ IdleIsClosed

=============================================================================
