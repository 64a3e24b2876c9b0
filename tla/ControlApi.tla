------------------------------ MODULE ControlApi ------------------------------
(***************************************************************************)
(* The REST API of the control plane, its tables, and the worker that      *)
(* compiles specs (barbacane-control/src/api, db, compiler/worker.rs).     *)
(*                                                                         *)
(* A handler runs several statements, each its own transaction unless the  *)
(* repository opens one; between two of them any other handler and the     *)
(* worker may run.  A handler whose reads before its one write only repeat *)
(* what a constraint of the table enforces on that write is one action:    *)
(* the race it loses ends in the same refusal.  Refused requests change    *)
(* nothing and are left out.                                               *)
(***************************************************************************)
EXTENDS Naturals, Sequences, SequencesExt, Functions

CONSTANTS
    Projects,        \* project ids
    DefaultProject,  \* DEFAULT_PROJECT_ID, the project of POST /specs
    SpecNames,       \* titles of specs
    Plugins,         \* <<name, version>> pairs that may be registered
    Texts,           \* what a spec says apart from its plugin bindings
    Usages,          \* sets of usages [name, as, valid] that a spec may bind
    Handlers,        \* requests in flight
    QueueCap,        \* capacity of the channel to the worker
    MaxCalls,        \* bound: API requests of a behaviour
    MaxRestarts,     \* bound: restarts of the process
    MaxErrors        \* bound: database or file errors met by the worker

ASSUME ApiAssumption ==
    /\ DefaultProject \in Projects
    /\ \A pl \in Plugins : pl = <<pl[1], pl[2]>>
    /\ QueueCap \in Nat \ {0}
    /\ {MaxCalls, MaxRestarts, MaxErrors} \subseteq Nat

VARIABLES
    db,      \* the tables
    queue,   \* compilation ids sent to the worker and not received yet
    worker,  \* the worker's locals
    req,     \* locals of the requests in flight
    spent,   \* [calls, restarts, errors]: what the bounds count
    told,    \* ghost: revisions reported to callers
    reason,  \* ghost: why the worker, or a restart, gave up a compilation
    exempt   \* ghost: <<artifact, plugin>> raced by a deletion of the plugin

vars == <<db, queue, worker, req, spent, told, reason, exempt>>

Middleware == "middleware"
Content == [text: Texts, uses: Usages]
NoOne == [op |-> "idle"]
Idle == [pc |-> "idle"]
Without(f, ids) == Restrict(f, DOMAIN f \ ids)
With(f, k, v) == [x \in DOMAIN f \cup {k} |-> IF x = k THEN v ELSE f[x]]

-----------------------------------------------------------------------------
(* The tables.  Each operator is a statement and what its constraints do.   *)

SpecOf(d, p, n) == {s \in DOMAIN d.specs : d.specs[s].project = p /\ d.specs[s].name = n}
Latest(d, s) == Last(d.revs[s])

\* INSERT of a spec with its first revision, in one transaction.
InsertSpec(d, p, n, c) ==
    [d EXCEPT !.used.spec = @ + 1,
              !.specs = With(@, d.used.spec + 1, [project |-> p, name |-> n, head |-> c]),
              !.revs = With(@, d.used.spec + 1, <<c>>)]

\* The transaction of SpecsRepository::update once the revision number is known.
InsertRevision(d, s, c) ==
    [d EXCEPT !.revs[s] = Append(@, c), !.specs[s].head = c]

\* Deletions with the ON DELETE clauses of the tables that refer to the row.
DropSpecs(d, ids) ==
    [d EXCEPT !.specs = Without(@, ids),
              !.revs = Without(@, ids),
              !.links = {l \in @ : l.spec \notin ids},
              !.comps = Without(@, {c \in DOMAIN @ : @[c].spec \in ids})]

DropProject(d, p) ==
    LET e == DropSpecs(d, {s \in DOMAIN d.specs : d.specs[s].project = p})
    IN [e EXCEPT !.projects = @ \ {p},
                 !.configs = Without(@, {k \in DOMAIN @ : k[1] = p}),
                 !.artifacts = [a \in DOMAIN @ |->
                     IF @[a].project = {p} THEN [@[a] EXCEPT !.project = {}] ELSE @[a]],
                 !.comps = Without(@, {c \in DOMAIN @ : @[c].project = p})]

Forgets(comp, a) == [comp EXCEPT !.artifact = @ \ {a}]

DropArtifact(d, a) ==
    [d EXCEPT !.artifacts = Without(@, {a}),
              !.links = {l \in @ : l.artifact # a},
              !.comps = [c \in DOMAIN @ |-> Forgets(@[c], a)]]

InsertCompilation(d, s, p, extra) ==
    [d EXCEPT !.used.comp = @ + 1,
              !.comps = With(@, d.used.comp + 1,
                  [spec |-> s, project |-> p, extra |-> extra,
                   status |-> "pending", artifact |-> {}])]

InsertArtifact(d, p, bundles) ==
    [d EXCEPT !.used.art = @ + 1,
              !.artifacts = With(@, d.used.art + 1, [project |-> {p}, plugins |-> bundles])]

\* An UPDATE of a row that is gone changes nothing.
SetStatus(d, c, status, artifact) ==
    IF c \in DOMAIN d.comps
    THEN [d EXCEPT !.comps[c].status = status, !.comps[c].artifact = artifact]
    ELSE d

ClaimRow(d, c) == [d EXCEPT !.comps[c].status = "compiling"]
DropCompilation(d, c) == [d EXCEPT !.comps = Without(@, {c})]
InsertProject(d, p) == [d EXCEPT !.projects = @ \cup {p}]
InsertPlugin(d, pl) == [d EXCEPT !.plugins = @ \cup {pl}]
DropPlugin(d, pl) == [d EXCEPT !.plugins = @ \ {pl}]
InsertConfig(d, p, pl, on) ==
    [d EXCEPT !.configs = With(@, <<p, pl[1]>>, [version |-> pl[2], enabled |-> on])]
UpdateConfig(d, p, pl, on) ==
    [d EXCEPT !.configs[<<p, pl[1]>>] = [version |-> pl[2], enabled |-> on]]
DropConfig(d, p, n) == [d EXCEPT !.configs = Without(@, {<<p, n>>})]
InsertLink(d, a, s, rev) ==
    [d EXCEPT !.links = @ \cup {[artifact |-> a, spec |-> s, rev |-> rev]}]

\* FOREIGN KEY ... ON DELETE RESTRICT of project_plugin_configs.
InUse(d, pl) == \E k \in DOMAIN d.configs : k[2] = pl[1] /\ d.configs[k].version = pl[2]

ReferencesIgnored(d, pl) == FALSE

PluginIsReferenced(d, pl) == \E a \in DOMAIN d.artifacts : pl \in d.artifacts[a].plugins

-----------------------------------------------------------------------------
(* Checks of a spec against the registry and the project.                   *)

Enabled(d, p) == {k[2] : k \in {j \in DOMAIN d.configs : j[1] = p /\ d.configs[j].enabled}}
Registered(d) == {pl[1] : pl \in d.plugins}
Referenced(contents) == {u.name : u \in UNION {c.uses : c \in contents}}

\* Every plugin is registered as a middleware here (RegisterPlugin).  Without
\* an answer of the registry there is no warning at all, without one of the
\* project's configurations no W1003.
CheckCompliance(d, c, projectId, answered) ==
    LET unknown == {u \in c.uses : u.name \notin Registered(d)}
    IN IF "registry" \notin answered THEN {} ELSE
       {[code |-> "W1001", usage |-> u] : u \in unknown}
       \cup {[code |-> "W1002", usage |-> u] : u \in {v \in c.uses \ unknown : v.as # Middleware}}
       \cup {[code |-> "W1003", usage |-> u] : u \in {v \in c.uses \ unknown :
                "configs" \in answered /\ \E p \in projectId : v.name \notin Enabled(d, p)}}
       \cup {[code |-> "W1004", usage |-> u] : u \in {v \in c.uses \ unknown : ~v.valid}}

\* GET /specs/:id/compliance: the default project is not checked for W1003.
SpecCompliance(d, s, answered) ==
    CheckCompliance(d, Latest(d, s),
        IF d.specs[s].project = DefaultProject THEN {} ELSE {d.specs[s].project}, answered)

\* The two halves of resolve_project_plugins: a statement reads the project's
\* configurations, later ones the binaries.
NotEnabled(d, p, contents) == Referenced(contents) \ Enabled(d, p)
Wanted(d, p, contents) == {<<n, d.configs[<<p, n>>].version>> : n \in Referenced(contents)}
InRegistry(d, wanted) == wanted \subseteq d.plugins

-----------------------------------------------------------------------------
Versions(name) == {pl[2] : pl \in {q \in Plugins : q[1] = name}}

\* The tables as an earlier run of the process may have left them: one project
\* besides the default one, with every plugin registered, one version of
\* each enabled in the project, and one spec.
Populated(p, n, c) ==
    [projects |-> Projects,
     specs |-> [s \in {1} |-> [project |-> p, name |-> n, head |-> c]],
     revs |-> [s \in {1} |-> <<c>>],
     plugins |-> Plugins,
     configs |-> [k \in {<<p, pl[1]>> : pl \in Plugins} |->
                     [version |-> CHOOSE v \in Versions(k[2]) : TRUE, enabled |-> TRUE]],
     artifacts |-> <<>>, links |-> {}, comps |-> <<>>,
     used |-> [spec |-> 1, comp |-> 0, art |-> 0]]

Init ==
    /\ \E p \in Projects \ {DefaultProject}, n \in SpecNames, c \in Content : db = Populated(p, n, c)
    /\ queue = <<>>
    /\ worker = Idle
    /\ req = [h \in Handlers |-> NoOne]
    /\ spent = [calls |-> 0, restarts |-> 0, errors |-> 0]
    /\ told = {} /\ reason = {} /\ exempt = {}

Called ==
    /\ spent.calls < MaxCalls
    /\ spent' = [spent EXCEPT !.calls = @ + 1]

\* A request that one statement decides.
Statement(d) ==
    /\ Called
    /\ db' = d
    /\ UNCHANGED <<queue, worker, req, told, reason, exempt>>

CreateProject(p) == p \notin db.projects /\ Statement(InsertProject(db, p))
DeleteProject(p) == p \in db.projects /\ Statement(DropProject(db, p))
DeleteSpec(s) == s \in DOMAIN db.specs /\ Statement(DropSpecs(db, {s}))
DeleteArtifact(a) == a \in DOMAIN db.artifacts /\ Statement(DropArtifact(db, a))
DeleteCompilation(c) == c \in DOMAIN db.comps /\ Statement(DropCompilation(db, c))
RegisterPlugin(pl) == pl \notin db.plugins /\ Statement(InsertPlugin(db, pl))

AddPluginToProject(p, pl) ==
    /\ p \in db.projects /\ pl \in db.plugins
    /\ <<p, pl[1]>> \notin DOMAIN db.configs
    /\ \E on \in BOOLEAN : Statement(InsertConfig(db, p, pl, on))

UpdateProjectPlugin(p, pl) ==
    /\ pl \in db.plugins
    /\ <<p, pl[1]>> \in DOMAIN db.configs
    /\ \E on \in BOOLEAN : Statement(UpdateConfig(db, p, pl, on))

RemovePluginFromProject(p, n) ==
    /\ <<p, n>> \in DOMAIN db.configs
    /\ Statement(DropConfig(db, p, n))

\* A request of several steps enters with its first read.
Enter(h, locals) ==
    /\ req[h] = NoOne
    /\ Called
    /\ req' = [req EXCEPT ![h] = locals]

\* An unfinished request's next statement.
Step(h, op) == req[h].op = op

Leave(h) == req' = [req EXCEPT ![h] = NoOne]

Handled(h, d) ==
    /\ db' = d
    /\ Leave(h)

-----------------------------------------------------------------------------
(* store_spec and patch_spec_operations.                                    *)

\* get_by_project_and_name decides between create and update.
StoreSpec(h, p, n, c) ==
    /\ Enter(h, [op |-> IF SpecOf(db, p, n) = {} THEN "create" ELSE "update",
                 project |-> p, name |-> n, content |-> c])
    /\ UNCHANGED <<db, queue, worker, told, reason, exempt>>

UploadSpec(h, n, c) == StoreSpec(h, DefaultProject, n, c)

UploadSpecToProject(h, p, n, c) == p \in db.projects /\ StoreSpec(h, p, n, c)

\* UNIQUE(project_id, name) and the foreign key to the project.
StoreCreate(h) ==
    /\ Step(h, "create")
    /\ LET r == req[h]
           ok == r.project \in db.projects /\ SpecOf(db, r.project, r.name) = {}
       IN /\ Handled(h, IF ok THEN InsertSpec(db, r.project, r.name, r.content) ELSE db)
          /\ told' = told \cup (IF ok THEN {[spec |-> db.used.spec + 1, rev |-> 1,
                                             content |-> r.content]} ELSE {})
    /\ UNCHANGED <<queue, worker, spent, reason, exempt>>

\* In the transaction of update: the row, and MAX(revision) + 1.
UpdateReadsMax(h) ==
    /\ Step(h, "update")
    /\ LET found == SpecOf(db, req[h].project, req[h].name)
       IN IF found = {} THEN Leave(h)
          ELSE \E s \in found : req' = [req EXCEPT ![h] =
                   [op |-> "insert", spec |-> s, rev |-> Len(db.revs[s]) + 1,
                    content |-> @.content]]
    /\ UNCHANGED <<db, queue, worker, spent, told, reason, exempt>>

\* UpdateInserts: UNIQUE(spec_id, revision) refuses a number another transaction committed.
UpdateOverwrites(h) ==
    /\ Step(h, "insert")
    /\ LET r == req[h]
           ok == r.spec \in DOMAIN db.specs
       IN /\ Handled(h, IF ok THEN [db EXCEPT !.revs[r.spec] = Append(SubSeq(@, 1, r.rev - 1), r.content),
                                              !.specs[r.spec].head = r.content] ELSE db)
          /\ told' = told \cup (IF ok THEN {[spec |-> r.spec, rev |-> r.rev,
                                             content |-> r.content]} ELSE {})
    /\ UNCHANGED <<queue, worker, spent, reason, exempt>>

UpdateInserts(h) ==
    /\ Step(h, "insert")
    /\ LET r == req[h]
           ok == r.spec \in DOMAIN db.specs /\ r.rev = Len(db.revs[r.spec]) + 1
       IN /\ Handled(h, IF ok THEN InsertRevision(db, r.spec, r.content) ELSE db)
          /\ told' = told \cup (IF ok THEN {[spec |-> r.spec, rev |-> r.rev,
                                             content |-> r.content]} ELSE {})
    /\ UNCHANGED <<queue, worker, spent, reason, exempt>>

Patched(content, uses) == [content EXCEPT !.uses = uses]

\* patch_spec_operations reads a revision, replaces bindings in it and stores
\* the result under the project and name it read.
PatchSpec(h, s, uses) ==
    /\ s \in DOMAIN db.specs
    /\ Enter(h, [op |-> "update", project |-> db.specs[s].project, name |-> db.specs[s].name,
                 content |-> Patched(Latest(db, s), uses)])
    /\ UNCHANGED <<db, queue, worker, told, reason, exempt>>

-----------------------------------------------------------------------------
(* delete_plugin.                                                           *)

DeletePlugin(h, pl) ==
    /\ pl \in db.plugins
    /\ ~PluginIsReferenced(db, pl)
    /\ Enter(h, [op |-> "delete plugin", plugin |-> pl, seen |-> DOMAIN db.artifacts])
    /\ UNCHANGED <<db, queue, worker, told, reason, exempt>>

DeletePluginRow(h) ==
    /\ Step(h, "delete plugin")
    /\ LET pl == req[h].plugin
           gone == pl \in db.plugins /\ ~InUse(db, pl)
       IN /\ Handled(h, IF gone THEN DropPlugin(db, pl) ELSE db)
          /\ exempt' = exempt \cup
                 (IF gone THEN (DOMAIN db.artifacts \ req[h].seen) \X {pl} ELSE {})
          /\ worker' = IF gone /\ worker.pc \in {"compile", "create"} /\ pl \in worker.bundles
                       THEN [worker EXCEPT !.lost = @ \cup {pl}] ELSE worker
    /\ UNCHANGED <<queue, spent, told, reason>>

-----------------------------------------------------------------------------
(* start_compilation and the worker.                                        *)

\* The row first; additional specs need not exist.
StartCompilation(h, s, extra) ==
    /\ s \in DOMAIN db.specs
    /\ Enter(h, [op |-> "send", comp |-> db.used.comp + 1])
    /\ db' = InsertCompilation(db, s, db.specs[s].project, extra)
    /\ UNCHANGED <<queue, worker, told, reason, exempt>>

\* The handler waits here while the channel is full.
SendJob(h) ==
    /\ Step(h, "send")
    /\ Len(queue) < QueueCap
    /\ queue' = Append(queue, req[h].comp)
    /\ Leave(h)
    /\ UNCHANGED <<db, worker, spent, told, reason, exempt>>

\* The caller of a request goes away, or its next statement fails: what it has
\* not done yet is not done.  A row whose id was not sent stays pending.
Abandon(h) ==
    /\ req[h] # NoOne
    /\ Leave(h)
    /\ reason' = IF Step(h, "send") THEN reason \cup {<<req[h].comp, "abandoned">>} ELSE reason
    /\ UNCHANGED <<db, queue, worker, spent, told, exempt>>

WorkerAt(pc) == worker.pc = pc

Worked(w) ==
    /\ worker' = w
    /\ UNCHANGED <<req, spent, told>>

\* process_compilation returned an error: it is only logged.
GiveUp(why) ==
    /\ Worked(Idle)
    /\ reason' = reason \cup {<<worker.job, why>>}
    /\ UNCHANGED <<db, queue, exempt>>

Claim ==
    /\ WorkerAt("idle") /\ queue # <<>>
    /\ LET c == Head(queue)
           claimed == c \in DOMAIN db.comps /\ db.comps[c].status = "pending"
       IN /\ db' = IF claimed THEN ClaimRow(db, c) ELSE db
          /\ Worked(IF claimed THEN [pc |-> "spec", job |-> c, row |-> db.comps[c]] ELSE Idle)
    /\ queue' = Tail(queue)
    /\ UNCHANGED <<reason, exempt>>

\* The statement fails, before or after it took effect: the job has left the
\* queue all the same.
ClaimFails ==
    /\ WorkerAt("idle") /\ queue # <<>>
    /\ spent.errors < MaxErrors
    /\ spent' = [spent EXCEPT !.errors = @ + 1]
    /\ LET c == Head(queue)
       IN /\ \/ db' = db
             \/ /\ c \in DOMAIN db.comps /\ db.comps[c].status = "pending"
                /\ db' = ClaimRow(db, c)
          /\ reason' = reason \cup {<<c, "error">>}
    /\ queue' = Tail(queue)
    /\ UNCHANGED <<worker, req, told, exempt>>

\* Additional specs that are gone are skipped.
ReadSpecs ==
    /\ WorkerAt("spec")
    /\ LET s == worker.row.spec
       IN IF s \notin DOMAIN db.specs THEN GiveUp("no revision")
          ELSE /\ Worked([pc |-> "configs", job |-> worker.job, row |-> worker.row,
                          rev |-> Len(db.revs[s]),
                          contents |-> {Latest(db, x) : x \in
                              ({s} \cup worker.row.extra) \cap DOMAIN db.specs}])
               /\ UNCHANGED <<db, queue, reason, exempt>>

FailureOnlyLogged == GiveUp("not resolved")

MarkFailed ==
    /\ db' = SetStatus(db, worker.job, "failed", {})
    /\ Worked(Idle)
    /\ UNCHANGED <<queue, reason, exempt>>

ReadConfigs ==
    /\ WorkerAt("configs")
    /\ IF NotEnabled(db, worker.row.project, worker.contents) # {} THEN MarkFailed
       ELSE /\ Worked([pc |-> "binaries", job |-> worker.job, row |-> worker.row,
                       rev |-> worker.rev,
                       bundles |-> Wanted(db, worker.row.project, worker.contents)])
            /\ UNCHANGED <<db, queue, reason, exempt>>

ReadBinaries ==
    /\ WorkerAt("binaries")
    /\ IF ~InRegistry(db, worker.bundles) THEN MarkFailed
       ELSE /\ Worked([pc |-> "compile", job |-> worker.job, row |-> worker.row,
                       rev |-> worker.rev, bundles |-> worker.bundles, lost |-> {}])
            /\ UNCHANGED <<db, queue, reason, exempt>>

CompileFails == WorkerAt("compile") /\ MarkFailed

CompileSucceeds ==
    /\ WorkerAt("compile")
    /\ Worked([worker EXCEPT !.pc = "create"])
    /\ UNCHANGED <<db, queue, reason, exempt>>

CreateArtifact ==
    /\ WorkerAt("create")
    /\ IF worker.row.project \notin db.projects THEN GiveUp("no project")
       ELSE /\ db' = InsertArtifact(db, worker.row.project, worker.bundles)
            /\ Worked([pc |-> "link", job |-> worker.job, row |-> worker.row,
                       rev |-> worker.rev, art |-> db.used.art + 1])
            /\ exempt' = exempt \cup ({db.used.art + 1} \X worker.lost)
            /\ UNCHANGED <<queue, reason>>

\* Both foreign keys of artifact_specs.
LinkToSpec ==
    /\ WorkerAt("link")
    /\ IF worker.row.spec \notin DOMAIN db.specs THEN GiveUp("no spec to link")
       ELSE IF worker.art \notin DOMAIN db.artifacts THEN GiveUp("artifact deleted")
       ELSE /\ db' = InsertLink(db, worker.art, worker.row.spec, worker.rev)
            /\ Worked([worker EXCEPT !.pc = "mark"])
            /\ UNCHANGED <<queue, reason, exempt>>

\* The foreign key to the artifact is checked when a row is updated.
MarkSucceeded ==
    /\ WorkerAt("mark")
    /\ IF worker.job \in DOMAIN db.comps /\ worker.art \notin DOMAIN db.artifacts
       THEN GiveUp("artifact deleted")
       ELSE /\ db' = SetStatus(db, worker.job, "succeeded", {worker.art})
            /\ Worked(Idle)
            /\ UNCHANGED <<queue, reason, exempt>>

\* A statement or a file operation of the worker fails.
WorkerError ==
    /\ worker.pc # "idle"
    /\ spent.errors < MaxErrors
    /\ spent' = [spent EXCEPT !.errors = @ + 1]
    /\ worker' = Idle
    /\ reason' = reason \cup {<<worker.job, "error">>}
    /\ UNCHANGED <<db, queue, req, told, exempt>>

\* The process stops and starts again: the channel, the requests in flight and
\* the worker are gone, no row is taken up.
Restart ==
    /\ spent.restarts < MaxRestarts
    /\ spent' = [spent EXCEPT !.restarts = @ + 1]
    /\ queue' = <<>> /\ worker' = Idle
    /\ req' = [h \in Handlers |-> NoOne]
    /\ reason' = reason \cup
           ({c \in DOMAIN db.comps : db.comps[c].status \in {"pending", "compiling"}} \X {"restart"})
    /\ UNCHANGED <<db, told, exempt>>

-----------------------------------------------------------------------------
Api ==
    \/ \E p \in Projects : CreateProject(p) \/ DeleteProject(p)
    \/ \E s \in DOMAIN db.specs : DeleteSpec(s)
    \/ \E a \in DOMAIN db.artifacts : DeleteArtifact(a)
    \/ \E c \in DOMAIN db.comps : DeleteCompilation(c)
    \/ \E pl \in Plugins : RegisterPlugin(pl)
    \/ \E p \in Projects, pl \in Plugins : AddPluginToProject(p, pl) \/ UpdateProjectPlugin(p, pl)
    \/ \E p \in Projects, pl \in Plugins : RemovePluginFromProject(p, pl[1])
    \/ \E h \in Handlers, n \in SpecNames, c \in Content : UploadSpec(h, n, c)
    \/ \E h \in Handlers, p \in Projects, n \in SpecNames, c \in Content :
           UploadSpecToProject(h, p, n, c)
    \/ \E h \in Handlers, s \in DOMAIN db.specs, u \in Usages : PatchSpec(h, s, u)
    \/ \E h \in Handlers, pl \in Plugins : DeletePlugin(h, pl)
    \/ \E h \in Handlers, s \in DOMAIN db.specs, x \in SUBSET (DOMAIN db.specs) :
           StartCompilation(h, s, x)

Continue(h) ==
    \/ StoreCreate(h) \/ UpdateReadsMax(h) \/ UpdateInserts(h)
    \/ DeletePluginRow(h) \/ SendJob(h) \/ Abandon(h)

Work ==
    \/ Claim \/ ReadSpecs \/ ReadConfigs \/ ReadBinaries
    \/ CompileFails \/ CompileSucceeds \/ CreateArtifact \/ LinkToSpec \/ MarkSucceeded

Next ==
    \/ Api
    \/ \E h \in Handlers : Continue(h)
    \/ Work \/ ClaimFails \/ WorkerError \/ Restart

Spec == Init /\ [][Next]_vars

-----------------------------------------------------------------------------
(* Properties.                                                              *)

\* The revision number an upload or a patch is answered with is, as long as the
\* spec exists, the number of the content it sent, whatever uploads, patches,
\* deletions and restarts ran in between; and the hash kept in the row of the
\* spec is the one of its last revision.
RevisionsAreTold ==
    \A s \in DOMAIN db.specs :
        /\ \A t \in told : t.spec = s =>
               t.rev \in DOMAIN db.revs[s] /\ db.revs[s][t.rev] = t.content
        /\ db.specs[s].head = Latest(db, s)

\* A compilation that nobody works on any more is settled, or the process was
\* restarted, or the caller went away before the job was queued, or the worker
\* met an error of the database or of a file (the claim included), or the
\* artifact was deleted before the compilation was marked: a full queue leaves
\* no row pending, and deleting the spec or the project under the worker leaves
\* none in state compiling.
StuckOnlyByFault ==
    \A c \in DOMAIN db.comps :
        /\ db.comps[c].status = "pending" =>
               \/ c \in Range(queue)
               \/ \E h \in Handlers : Step(h, "send") /\ req[h].comp = c
               \/ reason \cap ({c} \X {"error", "restart", "abandoned"}) # {}
        /\ db.comps[c].status = "compiling" =>
               \/ worker.pc # "idle" /\ worker.job = c
               \/ reason \cap ({c} \X {"error", "restart", "artifact deleted"}) # {}

\* delete_plugin refuses a plugin that an artifact bundles: a plugin of an
\* artifact is in the registry unless it was deleted between the time the
\* worker read its binary, or the handler looked, and the artifact's insertion.
BundledPluginsKept ==
    \A a \in DOMAIN db.artifacts : \A pl \in db.artifacts[a].plugins :
        pl \in db.plugins \/ <<a, pl>> \in exempt

\* A spec of a project that the compliance check, once both of its queries
\* were answered, finds nothing to say about (one that failed shows no warning
\* either) passes the resolution of plugins when it is compiled: every plugin is enabled
\* in the project with a version that the registry still has.
CompliantSpecResolves ==
    \A s \in DOMAIN db.specs :
        LET p == db.specs[s].project
            c == {Latest(db, s)}
        IN p # DefaultProject /\ SpecCompliance(db, s, {"registry", "configs"}) = {} =>
               NotEnabled(db, p, c) = {} /\ InRegistry(db, Wanted(db, p, c))

\* What is compiled and what is shown as ready to compile finds its plugins.
PluginsResolve == BundledPluginsKept /\ CompliantSpecResolves

=============================================================================
