---------------------------- MODULE ServerProofs ----------------------------
(***************************************************************************)
(* Proofs about the two loops that accept connections: that of             *)
(* `barbacane serve` (ServeLoop), for any finite set of connections and    *)
(* any connection cap, and that of `barbacane dev` (DevServer), for any    *)
(* folders, manifests and contents.                                        *)
(*                                                                         *)
(* StaleOnlyIfMissed speaks of a development server at rest.  The          *)
(* inductive invariant DevInv says, for each step of its loop, which       *)
(* changes are still to be read: an event in the channel and a missed one  *)
(* always are, those of the batch only until the step that reads their     *)
(* files.                                                                  *)
(***************************************************************************)
EXTENDS ServeLoop, DevServer, FiniteSetTheorems, TLAPS

(* While the server runs, nothing has been aborted; afterwards only if the *)
(* timeout has passed.                                                     *)
AbortInv ==
  /\ Running => In({"aborted"}) = {}
  /\ CleanDrain

IInv == TypeOK /\ CountIsExact /\ AbortInv

-----------------------------------------------------------------------------
(* What a change of one connection's state does to the number of           *)
(* connections in a set of states.                                         *)

(* The connections in a set of states are finitely many.                   *)
LEMMA InFinite ==
  ASSUME NEW S
  PROVE  IsFiniteSet(In(S)) /\ Cardinality(In(S)) \in Nat
BY FS_Subset, FS_CardinalityType, ConnAssumption DEF In

(* A connection that enters the set of states makes it one larger.         *)
LEMMA Enter ==
  ASSUME TypeOK, NEW c \in Conns, NEW s, NEW S, Goto(c, s), state[c] \notin S, s \in S
  PROVE  Cardinality(In(S)') = Cardinality(In(S)) + 1
<1>1. In(S)' = In(S) \cup {c} /\ c \notin In(S)
  BY DEF In, Goto, TypeOK
<1> QED
  BY <1>1, InFinite, FS_AddElement

(* A connection that leaves the set of states makes it one smaller.        *)
LEMMA Leave ==
  ASSUME TypeOK, NEW c \in Conns, NEW s, NEW S, Goto(c, s), state[c] \in S, s \notin S
  PROVE  /\ Cardinality(In(S)') = Cardinality(In(S)) - 1
         /\ Cardinality(In(S)) > 0
<1>1. In(S)' = In(S) \ {c} /\ c \in In(S)
  BY DEF In, Goto, TypeOK
<1>2. Cardinality(In(S)') = Cardinality(In(S)) - 1
  BY <1>1, InFinite, FS_RemoveElement
<1>3. Cardinality(In(S)) > 0
  BY <1>1, InFinite, FS_EmptySet
<1> QED
  BY <1>2, <1>3

(* A connection that stays in or out leaves the number alone.              *)
LEMMA Stay ==
  ASSUME TypeOK, NEW c \in Conns, NEW s, NEW S, Goto(c, s), state[c] \in S <=> s \in S
  PROVE  In(S)' = In(S)
BY DEF In, Goto, TypeOK

-----------------------------------------------------------------------------
(* The server before its first accept satisfies the invariant.             *)
LEMMA InitInv == Init => IInv
<1> SUFFICES ASSUME Init PROVE IInv
  OBVIOUS
<1>1. TypeOK
  <2>1. permits \in 0 .. max_connections /\ active \in Nat
    BY CapAssumption DEF Init
  <2>2. state \in [Conns -> States]
    BY DEF Init, States
  <2> QED
    BY <2>1, <2>2 DEF Init, TypeOK
<1>2. In(Served) = {} /\ In(Holding) = {} /\ In({"aborted"}) = {}
  BY DEF Init, In, Served, Holding
<1>3. CountIsExact
  BY <1>2, FS_EmptySet, CapAssumption DEF CountIsExact, Init
<1> QED
  BY <1>1, <1>2, <1>3 DEF IInv, AbortInv, CleanDrain

(* A step of a connection's task within the states that are served, or     *)
(* from one state to another of the same kind, leaves the counts alone.    *)
LEMMA SameKind ==
  ASSUME IInv, Running, UNCHANGED <<process, counters>>,
         NEW c \in Conns, NEW s \in States, Goto(c, s), s /= "aborted",
         state[c] \in Served <=> s \in Served,
         state[c] \in Holding <=> s \in Holding
  PROVE  CountIsExact' /\ AbortInv' /\ state' \in [Conns -> States]
<1>1. In(Served)' = In(Served) /\ In(Holding)' = In(Holding)
  BY Stay DEF IInv
<1>2. state[c] /= "aborted"
  BY DEF IInv, AbortInv, In
<1>3. In({"aborted"})' = {}
  <2>1. In({"aborted"})' = In({"aborted"})
    BY <1>2, Stay DEF IInv
  <2> QED
    BY <2>1 DEF IInv, AbortInv
<1>4. state' \in [Conns -> States]
  BY DEF Goto, IInv, TypeOK
<1>5. CountIsExact'
  BY <1>1 DEF IInv, CountIsExact, Running, process, counters
<1> QED
  BY <1>3, <1>4, <1>5 DEF AbortInv, CleanDrain

(* A step that touches neither the server nor the states of connections.   *)
LEMMA Untouched ==
  ASSUME IInv, UNCHANGED <<state, active, permits>>,
         server' = server \/ (Running /\ Running'), timed_out' = timed_out
  PROVE  CountIsExact' /\ AbortInv'
BY DEF IInv, CountIsExact, AbortInv, CleanDrain, In, Running

(* Every step of the server, the tasks and the clients preserves it.       *)
LEMMA StepInv == IInv /\ [Next]_vars => IInv'
<1> SUFFICES ASSUME IInv, [Next]_vars PROVE IInv'
  OBVIOUS
<1>h. TypeOK /\ CountIsExact /\ AbortInv
  BY DEF IInv
<1>1. ASSUME NEW c \in Conns, Accept(c) PROVE IInv'
  <2>1. Running /\ Running' /\ Goto(c, "handshake") /\ state[c] = "none"
        /\ permits > 0 /\ permits' = permits - 1 /\ active' = active + 1
        /\ UNCHANGED <<process, told, plugin, relay>>
    BY <1>1 DEF Accept, Running, process
  <2>2. Cardinality(In(Served)') = Cardinality(In(Served)) + 1
    BY <2>1, <1>h, Enter DEF Served
  <2>3. Cardinality(In(Holding)') = Cardinality(In(Holding)) + 1
    BY <2>1, <1>h, Enter DEF Served, Holding
  <2>4. TypeOK'
    BY <2>1, <1>h, CapAssumption DEF TypeOK, Goto, States, Holding, Served, process
  <2>5. CountIsExact'
    BY <2>1, <2>2, <2>3, <1>h, InFinite, CapAssumption DEF CountIsExact, TypeOK
  <2>6. In({"aborted"})' = In({"aborted"})
    BY <2>1, <1>h, Stay
  <2> QED
    BY <2>1, <2>4, <2>5, <2>6, <1>h DEF IInv, AbortInv, CleanDrain
<1>2. ASSUME NEW c \in Conns, Reject(c) PROVE IInv'
  <2>1. /\ Running /\ Goto(c, "rejected") /\ state[c] = "none"
        /\ UNCHANGED <<process, counters, told, plugin, relay>>
    BY <1>2 DEF Reject, Running
  <2>2. CountIsExact' /\ AbortInv' /\ state' \in [Conns -> States]
    BY <2>1, SameKind DEF States, Served, Holding, Ended
  <2> QED
    BY <2>1, <2>2, <1>h DEF IInv, TypeOK, process, counters
<1>3. ASSUME NEW c \in Conns, Task(c) PROVE IInv'
  <2>0. Running
    BY <1>3 DEF Task, Running
  <2>1. CASE Handshake(c) \/ HandshakeFails(c) \/ CloseIdle(c)
    <3>1. PICK s \in {"idle", "leaving"} :
            /\ Goto(c, s) /\ state[c] \in {"handshake", "idle"}
            /\ UNCHANGED <<process, counters, told, plugin, relay>>
      BY <2>1 DEF Handshake, HandshakeFails, CloseIdle
    <3>2. CountIsExact' /\ AbortInv' /\ state' \in [Conns -> States]
      BY <2>0, <3>1, SameKind DEF States, Served, Holding
    <3> QED
      BY <3>1, <3>2, <1>h DEF IInv, TypeOK, process, counters
  <2>2. CASE Tell(c)
    <3>1. TypeOK'
      BY <2>2, <1>h DEF Tell, TypeOK, process, counters
    <3>2. CountIsExact' /\ AbortInv'
      BY <2>2, Untouched DEF Tell, process, counters
    <3> QED
      BY <3>1, <3>2 DEF IInv
  <2>3. CASE Uncount(c)
    <3>1. /\ Goto(c, "uncounted") /\ state[c] = "leaving" /\ active' = active - 1
          /\ UNCHANGED <<process, told, plugin, relay, permits>>
      BY <2>3 DEF Uncount
    <3>2. Cardinality(In(Served)') = Cardinality(In(Served)) - 1 /\ Cardinality(In(Served)) > 0
      BY <3>1, <1>h, Leave DEF Served
    <3>3. In(Holding)' = In(Holding)
      BY <3>1, <1>h, Stay DEF Served, Holding
    <3>4. In({"aborted"})' = In({"aborted"})
      BY <3>1, <1>h, Stay
    <3>5. TypeOK'
      BY <3>1, <3>2, <2>0, <1>h, InFinite
         DEF TypeOK, CountIsExact, Goto, States, Holding, process
    <3>6. CountIsExact'
      BY <3>1, <3>2, <3>3, <2>0, <1>h DEF CountIsExact, Running, process
    <3> QED
      BY <3>1, <3>4, <3>5, <3>6, <1>h DEF IInv, AbortInv, CleanDrain, Running, process
  <2>4. CASE ReleasePermit(c)
    <3>1. /\ Goto(c, "closed") /\ state[c] = "uncounted" /\ permits' = permits + 1
          /\ UNCHANGED <<process, told, plugin, relay, active>>
      BY <2>4 DEF ReleasePermit
    <3>2. Cardinality(In(Holding)') = Cardinality(In(Holding)) - 1 /\ Cardinality(In(Holding)) > 0
      BY <3>1, <1>h, Leave DEF Served, Holding
    <3>3. In(Served)' = In(Served)
      BY <3>1, <1>h, Stay DEF Served
    <3>4. In({"aborted"})' = In({"aborted"})
      BY <3>1, <1>h, Stay
    <3>5. permits' \in 0 .. max_connections
      BY <3>1, <3>2, <2>0, <1>h, InFinite, CapAssumption DEF TypeOK, CountIsExact
    <3>6. TypeOK'
      BY <3>1, <3>5, <1>h DEF TypeOK, Goto, States, Ended, process
    <3>7. CountIsExact'
      BY <3>1, <3>2, <3>3, <2>0, <1>h, InFinite, CapAssumption
         DEF CountIsExact, Running, process, TypeOK
    <3> QED
      BY <3>1, <3>4, <3>6, <3>7, <1>h DEF IInv, AbortInv, CleanDrain, Running, process
  <2> QED
    BY <1>3, <2>1, <2>2, <2>3, <2>4 DEF Task
<1>4. ASSUME NEW c \in Conns, Client(c) PROVE IInv'
  <2>0. Running
    BY <1>4 DEF Client, Running
  <2>1. CASE Request(c) \/ Answer(c) \/ Upgrade(c) \/ ClientLeaves(c)
    <3>1. PICK s \in {"busy", "idle", "leaving"} :
            /\ Goto(c, s) /\ state[c] \in {"idle", "busy"}
            /\ UNCHANGED <<process, counters, told>>
      BY <2>1 DEF Request, Answer, Upgrade, ClientLeaves
    <3>2. CountIsExact' /\ AbortInv' /\ state' \in [Conns -> States]
      BY <2>0, <3>1, SameKind DEF States, Served, Holding
    <3>3. plugin' \in [Conns -> {"none", "running", "response", "upgrade"}]
      BY <2>1, <1>h DEF Request, Answer, Upgrade, ClientLeaves, TypeOK
    <3>4. relay' \in [Conns -> {"none", "open", "closed", "aborted"}]
      BY <2>1, <1>h DEF Request, Answer, Upgrade, ClientLeaves, TypeOK
    <3> QED
      BY <3>1, <3>2, <3>3, <3>4, <1>h DEF IInv, TypeOK, process, counters
  <2>2. CASE RelayEnds(c)
    <3>1. TypeOK'
      BY <2>2, <1>h DEF RelayEnds, TypeOK, process, counters
    <3>2. CountIsExact' /\ AbortInv'
      BY <2>2, Untouched DEF RelayEnds, process, counters
    <3> QED
      BY <3>1, <3>2 DEF IInv
  <2> QED
    BY <1>4, <2>1, <2>2 DEF Client
<1>5. ASSUME NEW c \in Conns, PluginReturns(c) PROVE IInv'
  <2>1. TypeOK'
    BY <1>5, <1>h DEF PluginReturns, TypeOK, process, counters
  <2>2. CountIsExact' /\ AbortInv'
    BY <1>5, Untouched DEF PluginReturns, process, counters
  <2> QED
    BY <2>1, <2>2 DEF IInv
<1>6. CASE Signal \/ StopAccepting \/ Exit
  <2>1. TypeOK'
    BY <1>6, <1>h DEF Signal, StopAccepting, Exit, TypeOK, counters
  <2>2. CASE Signal \/ StopAccepting
    <3>1. CountIsExact' /\ AbortInv'
      BY <2>2, Untouched DEF Signal, StopAccepting, Running, counters
    <3> QED
      BY <2>1, <3>1 DEF IInv
  <2>3. CASE Exit
    <3>1. ~Running' /\ UNCHANGED <<state, timed_out>>
      BY <2>3 DEF Exit, Running
    <3> QED
      BY <2>1, <3>1, <1>h DEF IInv, CountIsExact, AbortInv, CleanDrain, In
  <2> QED
    BY <1>6, <2>2, <2>3
<1>7. CASE Elapse
  <2>1. TypeOK'
    BY <1>7, <1>h DEF Elapse, TypeOK, counters
  <2> QED
    BY <2>1, <1>7, <1>h DEF Elapse, IInv, CountIsExact, AbortInv, CleanDrain, In, Running, counters
<1>8. CASE Drained \/ GiveUp
  <2>1. Running /\ ~Running' /\ Return
    BY <1>8 DEF Drained, GiveUp, Return, Running
  <2>2. TypeOK'
    BY <2>1, <1>h DEF Return, TypeOK, States, Ended, counters
  <2>3. Drained => In(Served) = {}
    <3>1. Drained => Cardinality(In(Served)) = 0
      BY <2>1, <1>h DEF Drained, CountIsExact
    <3> QED
      BY <3>1, InFinite, FS_EmptySet
  <2>4. CleanDrain'
    <3>1. CASE Drained
      <4>1. In({"aborted"})' = {}
        BY <3>1, <2>1, <2>3, <1>h DEF Return, In, AbortInv
      <4> QED
        BY <4>1 DEF CleanDrain
    <3>2. CASE GiveUp
      BY <3>2 DEF GiveUp, Return, CleanDrain
    <3> QED
      BY <1>8, <3>1, <3>2
  <2> QED
    BY <2>1, <2>2, <2>4 DEF IInv, CountIsExact, AbortInv
<1>9. CASE UNCHANGED vars
  BY <1>9, <1>h DEF vars, IInv, TypeOK, CountIsExact, AbortInv, CleanDrain, In, Running
<1> QED
  BY <1>1, <1>2, <1>3, <1>4, <1>5, <1>6, <1>7, <1>8, <1>9
     DEF Next, Shutdown, Terminated

-----------------------------------------------------------------------------
(* The inductive invariant holds. *)
THEOREM ServeInv == Spec => []IInv
BY InitInv, StepInv, PTL DEF Spec

(* The variables of run_serve stay in their ranges; the semaphore never    *)
(* hands out more permits than it has, nor gets one back twice.            *)
THEOREM ServeTypeCorrect == Spec => []TypeOK
<1>1. IInv => TypeOK
  BY DEF IInv
<1> QED
  BY <1>1, ServeInv, PTL

(* For any number of connections and any cap, active_connections is the    *)
(* number of connections being served and every connection task gives its  *)
(* permit back exactly once.                                               *)
THEOREM CountersAreExact == Spec => []CountIsExact
<1>1. IInv => CountIsExact
  BY DEF IInv
<1> QED
  BY <1>1, ServeInv, PTL

(* A shutdown within the timeout cuts off no HTTP connection.              *)
THEOREM DrainIsClean == Spec => []CleanDrain
<1>1. IInv => CleanDrain
  BY DEF IInv, AbortInv
<1> QED
  BY <1>1, ServeInv, PTL

-----------------------------------------------------------------------------
(* The development server *)

(* Paths of which the loop has still to take note, or never will. *)
Outstanding == rx \cup missed \cup changed

Inputs == {Plugin, discover_spec_files(project_manifest)}
Current == compile_with_manifest(project_manifest)
Serves(a) == gateway = a /\ admin_manifest = a

(* The paths the server works with are files of the model. *)
KnownPaths ==
    /\ disk \in [SavedPaths -> UNION {Contents[p] : p \in SavedPaths}]
    /\ disk[Manifest] \in Contents[Manifest] /\ project_manifest \in Contents[Manifest]

(* The manifest in use is the one on disk, if that one parses and has been *)
(* read since it changed; if it has not, there is word of it or it was     *)
(* missed.                                                                 *)
ManifestInv ==
    pc \in {"watch", "select", "reload", "compile", "load", "update"} =>
      /\ Manifest \notin unread /\ Parses(disk[Manifest]) => project_manifest = disk[Manifest]
      /\ Manifest \in unread => Manifest \in rx \cup missed \/ (pc \in {"watch", "select", "reload"} /\ Manifest \in changed)

(* An input that has changed since it was read is known of or missed,      *)
(* unless a broken manifest has to be repaired first.                      *)
InputsInv ==
    /\ pc \in {"watch", "select", "reload"} /\ Manifest \notin unread /\ Parses(disk[Manifest])
         => Inputs \cap unread \subseteq Outstanding
    /\ pc \in {"load", "update"} => Inputs \cap unread \subseteq rx \cup missed

(* What was compiled is what the inputs say, and what was served before a  *)
(* compilation that was not needed.                                        *)
GatewayInv ==
    /\ /\ pc \in {"watch", "select"} /\ Manifest \notin unread /\ Parses(disk[Manifest])
       /\ Inputs \cap unread = {}
       /\ Compiles(Current) /\ Loads(Current)
       => Serves(Current)
    /\ pc \in {"load", "update"} /\ Inputs \cap unread = {} => candidate = Current
    /\ pc = "update" /\ Loads(candidate) => Serves(candidate)

DevInv == KnownPaths /\ ManifestInv /\ InputsInv /\ GatewayInv

-----------------------------------------------------------------------------
(* The spec that a manifest leads to is a path of the model.               *)
LEMMA KnownSpec ==
    ASSUME NEW m \in Contents[Manifest] PROVE discover_spec_files(m) \in SavedPaths
BY DevAssumption, ManifestAssumption DEF discover_spec_files, SavedPaths, Manifest

(* A server that has not started yet satisfies the invariant.              *)
LEMMA DevInitInv == DevInit => DevInv
BY DEF DevInit, DevInv, KnownPaths, ManifestInv, InputsInv, GatewayInv, SavedPaths

(* Each step of the loop, of the developer and of a client preserves it.   *)
LEMMA DevStep == DevInv /\ [DevNext]_devVars => DevInv'
<1> SUFFICES ASSUME DevInv, [DevNext]_devVars PROVE DevInv'
    OBVIOUS
<1>0. /\ discover_spec_files(project_manifest) \in SavedPaths
      /\ Manifest \in SavedPaths /\ Plugin \in SavedPaths
    BY KnownSpec DEF DevInv, KnownPaths, SavedPaths
<1> USE DEF DevInv, KnownPaths, ManifestInv, InputsInv, GatewayInv, Open, Outstanding, Inputs, Current, Serves,
            compile_with_manifest, discover_spec_files
<1>1. ASSUME NEW p \in SavedPaths, NEW content \in Contents[p], Save(p, content) PROVE DevInv'
    BY <1>0, <1>1 DEF Save
<1>2. CASE Start
    BY <1>0, <1>2 DEF Start
<1>3. CASE StartWatching
    BY <1>3 DEF StartWatching
<1>4. CASE Deadline
    BY <1>4 DEF Deadline
<1>5. CASE ReloadManifest
    <2>1. CASE Manifest \notin changed
        BY <1>5, <2>1 DEF ReloadManifest
    <2>2. CASE Manifest \in changed /\ Parses(disk[Manifest])
        BY <1>5, <2>2 DEF ReloadManifest
    <2>3. CASE Manifest \in changed /\ ~Parses(disk[Manifest])
        <3>1. pc' = "select" /\ ~Parses(disk[Manifest])' /\ KnownPaths' /\ Manifest \notin unread'
            BY <1>5, <2>3 DEF ReloadManifest, Continue, Parses
        <3> QED
            BY <3>1
    <2> QED
        BY <2>1, <2>2, <2>3
<1>6. CASE Recompile
    <2>1. Manifest \notin Inputs
        BY DevAssumption, ManifestAssumption, FolderAssumption DEF Manifest, Plugin, Given
    <2>2. Current' = Current
        BY <1>6 DEF Recompile
    <2>3. CASE Compiles(Current)
        BY <1>6, <2>1, <2>3 DEF Recompile
    <2>4. CASE ~Compiles(Current)
        <3>1. pc' = "select" /\ ~Compiles(Current)' /\ KnownPaths'
            BY <1>6, <2>2, <2>4 DEF Recompile, Continue, Compiles
        <3>2. ManifestInv' /\ InputsInv'
            BY <1>6, <2>1, <2>4, <3>1 DEF Recompile, Continue, Parses
        <3> QED
            BY <3>1, <3>2
    <2> QED
        BY <2>3, <2>4
<1>7. CASE Reload
    BY <1>7 DEF Reload
<1>8. CASE update_watches
    BY <1>8 DEF update_watches, Continue
<1>9. ASSUME NEW p \in SavedPaths, next_change(p) PROVE DevInv'
    BY <1>9 DEF next_change
<1>10. ASSUME NEW c \in DevConns, AcceptConn(c) PROVE DevInv'
    BY <1>10 DEF AcceptConn, Cancel
<1>11. ASSUME NEW c \in DevConns, Close(c) PROVE DevInv'
    BY <1>11 DEF Close
<1>12. CASE StopServing
    BY <1>12 DEF StopServing, Cancel
<1>13. CASE UNCHANGED devVars
    BY <1>13 DEF devVars
<1>14. ASSUME NEW p \in SavedPaths, Touch(p) PROVE DevInv'
    BY <1>14 DEF Touch
<1> QED
    BY <1>1, <1>2, <1>3, <1>4, <1>5, <1>6, <1>7, <1>8, <1>9, <1>10, <1>11, <1>12, <1>13, <1>14
    DEF DevNext, LoopSteps, Exited

(* The inductive invariant holds of every behaviour of the server.         *)
THEOREM DevInvHolds == DevSpec => []DevInv
BY DevInitInv, DevStep, PTL DEF DevSpec

(* `barbacane dev` at rest serves what the files on disk say, except where *)
(* a file is broken or a change was missed: saved outside of what is       *)
(* watched, or dropped with the debounce window by an accepted connection. *)
THEOREM OnlyMissedIsStale == DevSpec => []StaleOnlyIfMissed
<1>1. ASSUME DevInv PROVE StaleOnlyIfMissed
    <2> SUFFICES ASSUME Quiet, Servable, missed \cap WatchPaths(disk[Manifest]) = {}
                 PROVE  gateway = Fresh /\ admin_manifest = Fresh
        BY DEF StaleOnlyIfMissed
    <2>1. project_manifest = disk[Manifest]
        BY <1>1 DEF DevInv, ManifestInv, Quiet, Servable, WatchPaths, Outstanding
    <2> QED
        BY <1>1, <2>1 DEF DevInv, ManifestInv, InputsInv, GatewayInv, Quiet, Servable, WatchPaths, Outstanding, Inputs,
                          Current, Fresh, Serves
<1> QED
    BY <1>1, DevInvHolds, PTL

=============================================================================
