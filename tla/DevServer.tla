----------------------------- MODULE DevServer -----------------------------
(***************************************************************************)
(* `barbacane dev`: compile, serve, watch the files and recompile when one *)
(* is saved (run_dev in main.rs, dev.rs, manifest.rs).                     *)
(*                                                                         *)
(* One loop selects between a shutdown, the next batch of changes and a    *)
(* new connection.  next_change collects a batch in a local variable; when *)
(* another branch of the select is taken, that future is dropped.          *)
(*                                                                         *)
(* A path is the manifest, a folder of specs, the spec given with --spec   *)
(* or a plugin.  The watcher of the operating system reports every save of *)
(* a path it watches, and files are saved in place.  The callback forwards *)
(* events of every kind: also of a file that was merely touched and, where *)
(* the operating system reports it (notify on inotify: Access(Open)), of a *)
(* file that was opened for reading, by the compiler too.                  *)
(***************************************************************************)
EXTENDS Naturals, FiniteSets

CONSTANTS
    Folders,     \* folders of specs a manifest may name
    Manifests,   \* content of a manifest -> [ok: does it parse, specs: its folder]
    Contents,    \* path -> what may be saved there; "none": no such folder yet
    DevConns,    \* connections
    MaxEdits     \* bound on saves

ASSUME DevAssumption == MaxEdits \in Nat /\ \A m \in DOMAIN Manifests : Manifests[m].specs \in Folders
ASSUME ManifestAssumption == Contents["barbacane.yaml"] \subseteq DOMAIN Manifests
ASSUME FolderAssumption == {"barbacane.yaml", "plugin.wasm", "given.yaml"} \cap Folders = {}

Manifest == "barbacane.yaml"
Plugin == "plugin.wasm"
Given == "given.yaml"
SavedPaths == {Manifest, Plugin, Given} \cup Folders

VARIABLES
    spec_overrides,    \* was --spec given?
    reports_reads,     \* does the watcher's backend report reads? (never changes)
    disk,              \* contents of each path
    rx,                \* paths with an event in the watcher's channel
    watched,           \* what the watcher watches
    pc,                \* start, watch, select, reload, compile, load, update, exited
    changed,           \* next_change: the batch so far
    project_manifest,  \* the manifest as it was last parsed
    candidate,         \* the artifact compiled last
    gateway, admin_manifest,
    conns,             \* the gateway each open connection was accepted with
    unread,            \* history: paths changed since they were last read
    missed,            \* history: those of which the loop has not heard and will
                       \* not hear
    edits

devVars == <<spec_overrides, reports_reads, disk, rx, watched, pc, changed, project_manifest, candidate, gateway, admin_manifest,
             conns, unread, missed, edits>>

None == [spec |-> "none"]

DevInit ==
    /\ spec_overrides \in BOOLEAN /\ reports_reads \in BOOLEAN
    /\ disk \in {d \in [SavedPaths -> UNION {Contents[p] : p \in SavedPaths}] :
                    \A p \in SavedPaths : d[p] \in Contents[p]}
    /\ rx = {} /\ watched = {} /\ pc = "start" /\ changed = {}
    /\ project_manifest = disk[Manifest] /\ candidate = None
    /\ gateway = None /\ admin_manifest = None
    /\ conns = [c \in DevConns |-> None]
    /\ unread = {} /\ missed = {} /\ edits = 0

-----------------------------------------------------------------------------
(* The developer *)

(* A folder that is not there cannot be watched. *)
Save(p, content) ==
    /\ edits < MaxEdits /\ content \notin {disk[p], "none"} /\ pc # "exited"
    /\ disk' = [disk EXCEPT ![p] = content]
    /\ edits' = edits + 1
    /\ unread' = unread \cup {p}
    /\ IF p \in watched THEN rx' = rx \cup {p} /\ UNCHANGED missed
                        ELSE missed' = missed \cup {p} /\ UNCHANGED rx
    /\ UNCHANGED <<spec_overrides, reports_reads, watched, pc, changed, project_manifest, candidate, gateway, admin_manifest, conns>>

(* An event of another kind: metadata, or a read by another program. *)
Touch(p) ==
    /\ edits < MaxEdits /\ p \in watched /\ pc # "exited"
    /\ rx' = rx \cup {p}
    /\ edits' = edits + 1
    /\ UNCHANGED <<spec_overrides, reports_reads, disk, watched, pc, changed, project_manifest, candidate, gateway, admin_manifest,
                   conns, unread, missed>>

(* The process opens the paths of S itself. *)
Open(S) ==
    /\ rx' = IF reports_reads THEN rx \cup (S \cap watched) ELSE rx
    /\ unread' = unread \ S /\ missed' = missed \ S

-----------------------------------------------------------------------------
(* Compilation *)

Parses(m) == Manifests[m].ok

(* --spec, or discover_spec_files in the folder of the manifest *)
discover_spec_files(m) == IF spec_overrides THEN Given ELSE Manifests[m].specs

compile_with_manifest(m) ==
    [manifest |-> m, spec |-> disk[discover_spec_files(m)], plugin |-> disk[Plugin]]

Compiles(a) == a.spec \notin {"none", "bad"}
Loads(a) == a.spec # "unloadable"

(* Every error ends the process. *)
Start ==
    /\ pc = "start"
    /\ LET a == compile_with_manifest(disk[Manifest])
       IN IF Parses(disk[Manifest]) /\ Compiles(a) /\ Loads(a)
          THEN /\ project_manifest' = disk[Manifest] /\ candidate' = a
               /\ gateway' = a /\ admin_manifest' = a /\ pc' = "watch"
               /\ unread' = {} /\ missed' = {}
          ELSE /\ pc' = "exited"
               /\ UNCHANGED <<project_manifest, candidate, gateway, admin_manifest, unread, missed>>
    /\ UNCHANGED <<spec_overrides, reports_reads, disk, rx, watched, changed, conns, edits>>

WatchPaths(m) == {Manifest, Plugin, discover_spec_files(m)}

StartWatching ==
    /\ pc = "watch"
    /\ watched' = WatchPaths(project_manifest)
    /\ pc' = "select"
    /\ UNCHANGED <<spec_overrides, reports_reads, disk, rx, changed, project_manifest, candidate, gateway, admin_manifest, conns,
                   missed, unread, edits>>

-----------------------------------------------------------------------------
(* The loop *)

(* next_change: the first event opens the window, later ones join. *)
next_change(p) ==
    /\ pc = "select" /\ p \in rx
    /\ rx' = rx \ {p} /\ changed' = changed \cup {p}
    /\ UNCHANGED <<spec_overrides, reports_reads, disk, watched, pc, project_manifest, candidate, gateway, admin_manifest, conns,
                   missed, unread, edits>>

(* The window closes.  What is in the channel by then has been taken: it   *)
(* was ready at once.  (An event that comes with the deadline is no other  *)
(* than one that comes right after it.)                                    *)
Deadline ==
    /\ pc = "select" /\ changed # {} /\ rx = {}
    /\ pc' = "reload"
    /\ UNCHANGED <<spec_overrides, reports_reads, disk, rx, watched, changed, project_manifest, candidate, gateway, admin_manifest,
                   conns, missed, unread, edits>>

(* Mutant: a batch that failed is tried again. *)
KeepBatch == pc' = "select" /\ UNCHANGED changed

(* `continue`: the batch is done. *)
Continue == pc' = "select" /\ changed' = {}

(* Mutant: the manifest is read once, at the start. *)
KeepManifest ==
    /\ pc = "reload"
    /\ missed' = missed \ {Manifest} /\ unread' = unread \ {Manifest}
    /\ pc' = "compile"
    /\ UNCHANGED <<changed, project_manifest, spec_overrides, reports_reads, disk, rx, watched, candidate, gateway, admin_manifest, conns, edits>>

(* The manifest is parsed again if it is in the batch. *)
ReloadManifest ==
    /\ pc = "reload"
    /\ IF Manifest \notin changed THEN pc' = "compile" /\ UNCHANGED <<changed, project_manifest, rx, unread, missed>>
       ELSE /\ Open({Manifest})
            /\ IF Parses(disk[Manifest])
               THEN project_manifest' = disk[Manifest] /\ pc' = "compile" /\ UNCHANGED changed
               ELSE Continue /\ UNCHANGED project_manifest
    /\ UNCHANGED <<spec_overrides, reports_reads, disk, watched, candidate, gateway, admin_manifest, conns, edits>>

(* No specs, or a compile error: "serving previous version". *)
Recompile ==
    /\ pc = "compile"
    /\ LET a == compile_with_manifest(project_manifest)
       IN /\ Open({Plugin, discover_spec_files(project_manifest)})
          /\ IF Compiles(a) THEN candidate' = a /\ pc' = "load" /\ UNCHANGED changed
             ELSE Continue /\ UNCHANGED candidate
    /\ UNCHANGED <<spec_overrides, reports_reads, disk, watched, project_manifest, gateway, admin_manifest, conns, edits>>

(* Swap and publish the new gateway, or keep the old one. *)
Reload ==
    /\ pc = "load" /\ pc' = "update"
    /\ IF Loads(candidate) THEN gateway' = candidate /\ admin_manifest' = candidate
                           ELSE UNCHANGED <<gateway, admin_manifest>>
    /\ UNCHANGED <<spec_overrides, reports_reads, disk, rx, watched, changed, project_manifest, candidate, conns, missed, unread, edits>>

(* The watches after a change of the manifest: the folder it names, if it  *)
(* exists, whether or not --spec was given.                                *)
NewWatchPaths(m) == {Manifest, Plugin} \cup {d \in {Manifests[m].specs} : disk[d] # "none"}

update_watches ==
    /\ pc = "update"
    /\ watched' = IF Manifest \in changed THEN NewWatchPaths(project_manifest) ELSE watched
    /\ Continue
    /\ UNCHANGED <<spec_overrides, reports_reads, disk, rx, project_manifest, candidate, gateway, admin_manifest, conns, missed, unread, edits>>

(* Another branch: what next_change had collected goes with its future. *)
Cancel == changed' = {} /\ missed' = missed \cup (changed \cap unread)

AcceptConn(c) ==
    /\ pc = "select" /\ conns[c] = None
    /\ conns' = [conns EXCEPT ![c] = gateway]
    /\ Cancel
    /\ UNCHANGED <<spec_overrides, reports_reads, disk, rx, watched, pc, project_manifest, candidate, gateway, admin_manifest, unread, edits>>

Close(c) ==
    /\ pc # "exited" /\ conns[c] # None
    /\ conns' = [conns EXCEPT ![c] = None]
    /\ UNCHANGED <<spec_overrides, reports_reads, disk, rx, watched, pc, changed, project_manifest, candidate, gateway,
                   admin_manifest, missed, unread, edits>>

(* The loop breaks and the process ends with its connections. *)
StopServing ==
    /\ pc = "select" /\ pc' = "exited"
    /\ conns' = [c \in DevConns |-> None]
    /\ Cancel
    /\ UNCHANGED <<spec_overrides, reports_reads, disk, rx, watched, project_manifest, candidate, gateway, admin_manifest, unread, edits>>

Exited == pc = "exited" /\ UNCHANGED devVars

LoopSteps ==
    \/ Start \/ StartWatching
    \/ \E p \in SavedPaths : next_change(p)
    \/ Deadline \/ ReloadManifest \/ Recompile \/ Reload \/ update_watches

DevNext ==
    \/ \E p \in SavedPaths : \E content \in Contents[p] : Save(p, content)
    \/ LoopSteps
    \/ \E p \in SavedPaths : Touch(p)
    \/ \E c \in DevConns : AcceptConn(c) \/ Close(c)
    \/ StopServing \/ Exited

(* The loop is polled, takes the events that are there and closes the      *)
(* window; nobody has to save or connect.                                  *)
DevSpec == DevInit /\ [][DevNext]_devVars /\ WF_devVars(LoopSteps)

-----------------------------------------------------------------------------
(* Properties *)

(* What a server started now would serve. *)
Fresh == compile_with_manifest(disk[Manifest])
Servable == Parses(disk[Manifest]) /\ Compiles(Fresh) /\ Loads(Fresh)

Quiet == pc = "select" /\ rx = {} /\ changed = {}

(* A server at rest serves, and shows in its admin API, what the files on  *)
(* disk say, whatever was saved in whichever order, before, during and     *)
(* after a compilation, and however many batches failed.  The exceptions   *)
(* are files that are broken and changes it has missed: saved while the    *)
(* path was not watched, or dropped with the window when a connection came *)
(* in.                                                                     *)
StaleOnlyIfMissed ==
    Quiet /\ Servable /\ missed \cap WatchPaths(disk[Manifest]) = {} =>
        gateway = Fresh /\ admin_manifest = Fresh

(* The server comes to rest after the last event, unless its own reads are *)
(* reported to it: no event is left in the channel and no batch is left    *)
(* half done.  (Where they are, each recompilation opens the watched files *)
(* and so announces the next one.)                                         *)
ComesToRest == ~reports_reads => <>[](pc = "exited" \/ Quiet)

(* At rest or not, it ends up serving what is on disk, and goes on to, but *)
(* for broken files and missed changes.                                    *)
CatchesUp ==
    <>[](pc = "exited" \/ (Servable /\ missed \cap WatchPaths(disk[Manifest]) = {} =>
                              gateway = Fresh /\ admin_manifest = Fresh))

(* What `barbacane dev` does once nothing is saved any more: it settles on *)
(* the files as they are, and rests unless its reads keep it busy.         *)
Settles == ComesToRest /\ CatchesUp

=============================================================================
