-------------------------- MODULE ControlApiProofs --------------------------
(***************************************************************************)
(* Proofs about ControlApi, for any projects, plugins, specs and requests  *)
(* in flight, any length of the queue and any number of restarts and       *)
(* errors.                                                                 *)
(*                                                                         *)
(* Rows says what the constraints of the tables keep whatever handler      *)
(* runs; ApiInv adds what the requests in flight and the worker still know *)
(* of rows that others may have changed or deleted meanwhile.              *)
(***************************************************************************)
EXTENDS ControlApi, SequenceTheorems, TLAPS

Tables == {"projects", "specs", "revs", "plugins", "configs", "artifacts", "links", "comps", "used"}

CompColumns == {"spec", "project", "extra", "status", "artifact"}

SpecRows(d) ==
    /\ DOMAIN d.specs \subseteq 1 .. d.used.spec
    /\ DOMAIN d.revs = DOMAIN d.specs
    /\ \A s \in DOMAIN d.specs :
           /\ d.specs[s] \in [project : d.projects, name : SpecNames, head : Content]
           /\ d.revs[s] \in Seq(Content) /\ d.revs[s] # <<>>
           /\ d.specs[s].head = d.revs[s][Len(d.revs[s])]

(* A compilation goes with its spec and with its project. *)
CompRows(d) ==
    /\ DOMAIN d.comps \subseteq 1 .. d.used.comp
    /\ \A c \in DOMAIN d.comps :
           /\ DOMAIN d.comps[c] = CompColumns
           /\ d.comps[c].spec \in DOMAIN d.specs /\ d.comps[c].project \in d.projects

ArtifactRows(d) ==
    /\ DOMAIN d.artifacts \subseteq 1 .. d.used.art
    /\ \A a \in DOMAIN d.artifacts : DOMAIN d.artifacts[a] = {"project", "plugins"}

(* A configuration names a version that the registry has. *)
ConfigRows(d) ==
    \A k \in DOMAIN d.configs :
        k = <<k[1], k[2]>> /\ <<k[2], d.configs[k].version>> \in d.plugins

Rows(d) ==
    /\ DOMAIN d = Tables
    /\ d.used \in [spec : Nat, comp : Nat, art : Nat]
    /\ SpecRows(d) /\ CompRows(d) /\ ArtifactRows(d) /\ ConfigRows(d)

(* What a request in flight holds, while the tables are d. *)
Locals(r, d) ==
    /\ "op" \in DOMAIN r
    /\ r.op \in {"create", "update", "insert"} => r.content \in Content
    /\ r.op \in {"create", "update"} => r.name \in SpecNames
    /\ r.op = "delete plugin" =>
           /\ r.seen \subseteq 1 .. d.used.art
           /\ \A a \in r.seen \cap DOMAIN d.artifacts : r.plugin \notin d.artifacts[a].plugins

(* What the worker holds, while the tables are d. *)
Holds(w, d) ==
    /\ "pc" \in DOMAIN w
    /\ w.pc # "idle" =>
           /\ w.job \in 1 .. d.used.comp
           /\ w.job \in DOMAIN d.comps =>
                  d.comps[w.job].spec = w.row.spec /\ d.comps[w.job].project = w.row.project
    /\ w.pc \in {"compile", "create"} =>
           /\ DOMAIN w = {"pc", "job", "row", "rev", "bundles", "lost"}
           /\ \A pl \in w.bundles : pl \in d.plugins \/ pl \in w.lost

(* What was told of a revision of a spec that exists. *)
Told(d) ==
    \A t \in told :
        /\ t.spec \in 1 .. d.used.spec
        /\ t.spec \in DOMAIN d.specs =>
               t.rev \in DOMAIN d.revs[t.spec] /\ d.revs[t.spec][t.rev] = t.content

ApiInv ==
    /\ Rows(db)
    /\ DOMAIN req = Handlers
    /\ \A h \in Handlers : Locals(req[h], db)
    /\ Holds(worker, db)
    /\ Told(db)
    /\ queue \in Seq(Nat)
    /\ \A h \in Handlers : req[h].op = "send" => req[h].comp \in Nat
    /\ StuckOnlyByFault
    /\ BundledPluginsKept

-----------------------------------------------------------------------------
(* The statements keep the constraints.  Less(d, e): e is d without some    *)
(* rows, or with other configurations or more plugins.                      *)

Less(d, e) ==
    /\ e.used = d.used
    /\ DOMAIN e.specs \subseteq DOMAIN d.specs
    /\ \A s \in DOMAIN e.specs : e.revs[s] = d.revs[s]
    /\ DOMAIN e.comps \subseteq DOMAIN d.comps
    /\ \A c \in DOMAIN e.comps :
           /\ e.comps[c].status = d.comps[c].status
           /\ e.comps[c].spec = d.comps[c].spec /\ e.comps[c].project = d.comps[c].project
    /\ DOMAIN e.artifacts \subseteq DOMAIN d.artifacts
    /\ \A a \in DOMAIN e.artifacts : e.artifacts[a].plugins = d.artifacts[a].plugins
    /\ d.plugins \subseteq e.plugins

(* One statement after the other.                                           *)
LEMMA LessAgain == ASSUME NEW d, NEW m, NEW e, Less(d, m), Less(m, e) PROVE Less(d, e)
<1>1. \A s \in DOMAIN e.specs : e.revs[s] = d.revs[s]
  BY DEF Less
<1>2. \A c \in DOMAIN e.comps :
        /\ e.comps[c].status = d.comps[c].status
        /\ e.comps[c].spec = d.comps[c].spec /\ e.comps[c].project = d.comps[c].project
  BY DEF Less
<1>3. \A a \in DOMAIN e.artifacts : e.artifacts[a].plugins = d.artifacts[a].plugins
  BY DEF Less
<1> QED
  BY <1>1, <1>2, <1>3 DEF Less

(* INSERT of a project.                                                     *)
LEMMA ProjectInserted ==
  ASSUME NEW d, Rows(d), NEW p, NEW e, e = InsertProject(d, p) PROVE Rows(e) /\ Less(d, e)
<1>1. /\ DOMAIN e = Tables /\ e.projects = d.projects \cup {p}
      /\ e.specs = d.specs /\ e.revs = d.revs /\ e.plugins = d.plugins /\ e.configs = d.configs
      /\ e.artifacts = d.artifacts /\ e.comps = d.comps /\ e.used = d.used
  BY DEF InsertProject, Rows, Tables
<1>2. SpecRows(e)
  BY <1>1 DEF Rows, SpecRows
<1>3. CompRows(e)
  BY <1>1 DEF Rows, CompRows
<1> QED
  BY <1>1, <1>2, <1>3 DEF Rows, ArtifactRows, ConfigRows, Less

(* DELETE of a spec, with the revisions and compilations that refer to it.  *)
LEMMA SpecsDropped ==
  ASSUME NEW d, Rows(d), NEW ids, NEW e, e = DropSpecs(d, ids)
  PROVE  /\ Rows(e) /\ Less(d, e) /\ DOMAIN e.specs = DOMAIN d.specs \ ids
         /\ \A s \in DOMAIN e.specs : e.specs[s] = d.specs[s]
         /\ e.projects = d.projects
<1> DEFINE gone == {c \in DOMAIN d.comps : d.comps[c].spec \in ids}
<1>1. /\ DOMAIN e = Tables /\ e.projects = d.projects
      /\ e.specs = Without(d.specs, ids) /\ e.revs = Without(d.revs, ids)
      /\ e.plugins = d.plugins /\ e.configs = d.configs
      /\ e.artifacts = d.artifacts /\ e.comps = Without(d.comps, gone) /\ e.used = d.used
  BY DEF DropSpecs, Rows, Tables
<1>2. /\ DOMAIN e.specs = DOMAIN d.specs \ ids /\ DOMAIN e.revs = DOMAIN d.revs \ ids
      /\ DOMAIN e.comps = DOMAIN d.comps \ gone
      /\ \A s \in DOMAIN e.specs : e.specs[s] = d.specs[s]
      /\ \A s \in DOMAIN e.revs : e.revs[s] = d.revs[s]
      /\ \A c \in DOMAIN e.comps : e.comps[c] = d.comps[c]
  BY <1>1 DEF Without, Restrict
<1>3. SpecRows(e)
  BY <1>1, <1>2 DEF Rows, SpecRows
<1>4. CompRows(e)
  BY <1>1, <1>2 DEF Rows, CompRows
<1>5. Rows(e)
  BY <1>1, <1>3, <1>4 DEF Rows, ArtifactRows, ConfigRows
<1>6. Less(d, e)
  BY <1>1, <1>2, <1>3 DEF Less, SpecRows
<1> QED
  BY <1>1, <1>2, <1>5, <1>6

(* DELETE of a project: its specs, configurations and compilations go, its  *)
(* artifacts stay without it.                                               *)
LEMMA ProjectDropped ==
  ASSUME NEW d, Rows(d), NEW p, NEW e, e = DropProject(d, p) PROVE Rows(e) /\ Less(d, e)
<1> DEFINE ids == {s \in DOMAIN d.specs : d.specs[s].project = p}
<1>1. PICK m : m = DropSpecs(d, ids)
  OBVIOUS
<1>2. /\ Rows(m) /\ Less(d, m) /\ DOMAIN m.specs = DOMAIN d.specs \ ids /\ m.projects = d.projects
      /\ \A s \in DOMAIN m.specs : m.specs[s] = d.specs[s]
  BY <1>1, SpecsDropped
<1> DEFINE keys == {k \in DOMAIN m.configs : k[1] = p}
           gone == {c \in DOMAIN m.comps : m.comps[c].project = p}
<1>3. /\ DOMAIN e = Tables /\ e.projects = m.projects \ {p}
      /\ e.specs = m.specs /\ e.revs = m.revs /\ e.plugins = m.plugins
      /\ e.configs = Without(m.configs, keys)
      /\ e.artifacts = [a \in DOMAIN m.artifacts |->
                          IF m.artifacts[a].project = {p} THEN [m.artifacts[a] EXCEPT !.project = {}]
                          ELSE m.artifacts[a]]
      /\ e.comps = Without(m.comps, gone) /\ e.used = m.used
  BY <1>1, <1>2 DEF DropProject, Rows, Tables
<1> HIDE DEF ids
<1>4. /\ DOMAIN e.configs = DOMAIN m.configs \ keys /\ DOMAIN e.comps = DOMAIN m.comps \ gone
      /\ \A k \in DOMAIN e.configs : e.configs[k] = m.configs[k]
      /\ \A c \in DOMAIN e.comps : e.comps[c] = m.comps[c]
  BY <1>3 DEF Without, Restrict
<1>5. /\ DOMAIN e.artifacts = DOMAIN m.artifacts
      /\ \A a \in DOMAIN e.artifacts :
           e.artifacts[a].plugins = m.artifacts[a].plugins /\ DOMAIN e.artifacts[a] = DOMAIN m.artifacts[a]
  BY <1>2, <1>3 DEF Rows, ArtifactRows
<1>6. \A s \in DOMAIN e.specs : d.specs[s].project # p
  BY <1>2, <1>3 DEF ids
<1>7. SpecRows(e)
  <2>1. ASSUME NEW s \in DOMAIN e.specs
        PROVE  e.specs[s] \in [project : e.projects, name : SpecNames, head : Content]
    BY <1>2, <1>3, <1>6 DEF Rows, SpecRows
  <2>2. /\ SpecRows(m) /\ e.specs = m.specs /\ e.revs = m.revs /\ e.used = m.used
    BY <1>2, <1>3 DEF Rows
  <2> QED
    BY <2>1, <2>2 DEF SpecRows
<1>8. CompRows(e)
  BY <1>2, <1>3, <1>4 DEF Rows, CompRows
<1>9. ArtifactRows(e)
  BY <1>2, <1>3, <1>5 DEF Rows, ArtifactRows
<1>10. ConfigRows(e)
  BY <1>2, <1>3, <1>4 DEF Rows, ConfigRows
<1>11. Rows(e)
  BY <1>2, <1>3, <1>7, <1>8, <1>9, <1>10 DEF Rows
<1>12. Less(d, e)
  <2>1. Less(m, e)
    BY <1>3, <1>4, <1>5 DEF Less
  <2> QED
    BY <1>2, <2>1, LessAgain
<1> QED
  BY <1>11, <1>12

(* DELETE of an artifact: its compilation forgets it.                       *)
LEMMA ArtifactDropped ==
  ASSUME NEW d, Rows(d), NEW x, NEW e, e = DropArtifact(d, x) PROVE Rows(e) /\ Less(d, e)
<1>1. /\ DOMAIN e = Tables /\ e.projects = d.projects
      /\ e.specs = d.specs /\ e.revs = d.revs /\ e.plugins = d.plugins /\ e.configs = d.configs
      /\ e.artifacts = Without(d.artifacts, {x}) /\ e.used = d.used
      /\ e.comps = [c \in DOMAIN d.comps |-> Forgets(d.comps[c], x)]
  BY DEF DropArtifact, Rows, Tables
<1>2. /\ DOMAIN e.artifacts \subseteq DOMAIN d.artifacts
      /\ \A a \in DOMAIN e.artifacts : e.artifacts[a] = d.artifacts[a]
  BY <1>1 DEF Without, Restrict
<1>3. DOMAIN e.comps = DOMAIN d.comps
  BY <1>1
<1>4. ASSUME NEW c \in DOMAIN d.comps
      PROVE  /\ DOMAIN e.comps[c] = CompColumns /\ e.comps[c].status = d.comps[c].status
             /\ e.comps[c].spec = d.comps[c].spec /\ e.comps[c].project = d.comps[c].project
  BY <1>1 DEF Rows, CompRows, CompColumns, Forgets
<1>5. SpecRows(e)
  BY <1>1 DEF Rows, SpecRows
<1>6. CompRows(e)
  BY <1>1, <1>3, <1>4 DEF Rows, CompRows
<1>7. ArtifactRows(e) /\ ConfigRows(e)
  BY <1>1, <1>2 DEF Rows, ArtifactRows, ConfigRows
<1> QED
  BY <1>1, <1>2, <1>3, <1>4, <1>5, <1>6, <1>7 DEF Rows, Less

(* DELETE of a compilation.                                                 *)
LEMMA CompilationDropped ==
  ASSUME NEW d, Rows(d), NEW x, NEW e, e = DropCompilation(d, x) PROVE Rows(e) /\ Less(d, e)
<1>1. /\ DOMAIN e = Tables /\ e.projects = d.projects
      /\ e.specs = d.specs /\ e.revs = d.revs /\ e.plugins = d.plugins /\ e.configs = d.configs
      /\ e.artifacts = d.artifacts /\ e.used = d.used /\ e.comps = Without(d.comps, {x})
  BY DEF DropCompilation, Rows, Tables
<1>2. /\ DOMAIN e.comps \subseteq DOMAIN d.comps
      /\ \A c \in DOMAIN e.comps : e.comps[c] = d.comps[c]
  BY <1>1 DEF Without, Restrict
<1>3. SpecRows(e)
  BY <1>1 DEF Rows, SpecRows
<1>4. CompRows(e)
  BY <1>1, <1>2 DEF Rows, CompRows
<1> QED
  BY <1>1, <1>2, <1>3, <1>4 DEF Rows, ArtifactRows, ConfigRows, Less

(* INSERT of a plugin.                                                      *)
LEMMA PluginInserted ==
  ASSUME NEW d, Rows(d), NEW pl, NEW e, e = InsertPlugin(d, pl) PROVE Rows(e) /\ Less(d, e)
<1>1. /\ DOMAIN e = Tables /\ e.projects = d.projects
      /\ e.specs = d.specs /\ e.revs = d.revs /\ e.plugins = d.plugins \cup {pl} /\ e.configs = d.configs
      /\ e.artifacts = d.artifacts /\ e.used = d.used /\ e.comps = d.comps
  BY DEF InsertPlugin, Rows, Tables
<1>2. SpecRows(e) /\ CompRows(e)
  BY <1>1 DEF Rows, SpecRows, CompRows
<1> QED
  BY <1>1, <1>2 DEF Rows, ArtifactRows, ConfigRows, Less

(* INSERT, UPDATE and DELETE of a configuration.                            *)
LEMMA ConfigWritten ==
  ASSUME NEW d, Rows(d), NEW p, NEW pl, pl = <<pl[1], pl[2]>>, NEW on, NEW e,
         \/ (pl \in d.plugins /\ e = InsertConfig(d, p, pl, on))
         \/ (pl \in d.plugins /\ e = UpdateConfig(d, p, pl, on) /\ <<p, pl[1]>> \in DOMAIN d.configs)
         \/ e = DropConfig(d, p, pl[1])
  PROVE  Rows(e) /\ Less(d, e)
<1> DEFINE key == <<p, pl[1]>>
           row == [version |-> pl[2], enabled |-> on]
<1>1. /\ DOMAIN e = Tables /\ e.projects = d.projects
      /\ e.specs = d.specs /\ e.revs = d.revs /\ e.plugins = d.plugins
      /\ e.artifacts = d.artifacts /\ e.used = d.used /\ e.comps = d.comps
      /\ \/ (pl \in d.plugins /\ e.configs = With(d.configs, key, row))
         \/ (pl \in d.plugins /\ e.configs = [d.configs EXCEPT ![key] = row] /\ key \in DOMAIN d.configs)
         \/ e.configs = Without(d.configs, {key})
  BY DEF InsertConfig, UpdateConfig, DropConfig, Rows, Tables
<1>2. /\ DOMAIN e.configs \subseteq DOMAIN d.configs \cup {key}
      /\ \A k \in DOMAIN e.configs :
           \/ (k = key /\ e.configs[k] = row /\ pl \in d.plugins)
           \/ (k \in DOMAIN d.configs /\ e.configs[k] = d.configs[k])
  BY <1>1 DEF With, Without, Restrict
<1>3. ConfigRows(e)
  <2>1. ASSUME NEW k \in DOMAIN e.configs PROVE k = <<k[1], k[2]>> /\ <<k[2], e.configs[k].version>> \in e.plugins
    <3>1. CASE k = key /\ e.configs[k] = row /\ pl \in d.plugins
      <4>1. k[2] = pl[1] /\ e.configs[k].version = pl[2]
        BY <3>1
      <4>2. <<k[2], e.configs[k].version>> = pl
        BY <4>1
      <4> QED
        BY <1>1, <3>1, <4>2
    <3>2. CASE k \in DOMAIN d.configs /\ e.configs[k] = d.configs[k]
      BY <1>1, <3>2 DEF Rows, ConfigRows
    <3> QED
      BY <1>2, <3>1, <3>2
  <2> QED
    BY <2>1 DEF ConfigRows
<1>4. SpecRows(e) /\ CompRows(e)
  BY <1>1 DEF Rows, SpecRows, CompRows
<1> QED
  BY <1>1, <1>3, <1>4 DEF Rows, ArtifactRows, Less

(* INSERT of a spec and its first revision: a fresh id.                     *)
LEMMA SpecInserted ==
  ASSUME NEW d, Rows(d), NEW p \in d.projects, NEW n \in SpecNames, NEW c \in Content,
         NEW e, e = InsertSpec(d, p, n, c)
  PROVE  /\ Rows(e)
         /\ DOMAIN e.specs = DOMAIN d.specs \cup {d.used.spec + 1}
         /\ \A s \in DOMAIN d.specs : e.revs[s] = d.revs[s]
         /\ 1 \in DOMAIN e.revs[d.used.spec + 1] /\ e.revs[d.used.spec + 1][1] = c
         /\ e.used.spec = d.used.spec + 1 /\ e.used.comp = d.used.comp /\ e.used.art = d.used.art
         /\ e.comps = d.comps /\ e.artifacts = d.artifacts /\ e.plugins = d.plugins
<1> DEFINE new == d.used.spec + 1
<1>1. /\ DOMAIN e = Tables /\ e.projects = d.projects /\ e.plugins = d.plugins /\ e.configs = d.configs
      /\ e.artifacts = d.artifacts /\ e.comps = d.comps
      /\ e.specs = With(d.specs, new, [project |-> p, name |-> n, head |-> c])
      /\ e.revs = With(d.revs, new, <<c>>) /\ e.used = [d.used EXCEPT !.spec = @ + 1]
  BY DEF InsertSpec, Rows, Tables
<1>2. /\ e.used \in [spec : Nat, comp : Nat, art : Nat] /\ new \in Nat
      /\ e.used.spec = new /\ e.used.comp = d.used.comp /\ e.used.art = d.used.art
  BY <1>1 DEF Rows
<1>3. /\ DOMAIN d.specs \subseteq 1 .. d.used.spec /\ d.used.spec \in Nat
      /\ DOMAIN d.revs = DOMAIN d.specs
  BY DEF Rows, SpecRows
<1>4. /\ new \notin DOMAIN d.specs /\ DOMAIN d.specs \cup {new} \subseteq 1 .. new
  BY <1>3
<1> HIDE DEF new
<1>5. /\ DOMAIN e.specs = DOMAIN d.specs \cup {new} /\ DOMAIN e.revs = DOMAIN d.specs \cup {new}
      /\ \A s \in DOMAIN d.specs : e.specs[s] = d.specs[s] /\ e.revs[s] = d.revs[s]
      /\ e.specs[new] = [project |-> p, name |-> n, head |-> c] /\ e.revs[new] = <<c>>
  BY <1>1, <1>3, <1>4 DEF With
<1>6. SpecRows(e)
  <2>1. ASSUME NEW s \in DOMAIN e.specs
        PROVE  /\ e.specs[s] \in [project : e.projects, name : SpecNames, head : Content]
               /\ e.revs[s] \in Seq(Content) /\ e.revs[s] # <<>>
               /\ e.specs[s].head = e.revs[s][Len(e.revs[s])]
    <3>1. CASE s = new
      BY <1>1, <1>5, <3>1
    <3>2. CASE s \in DOMAIN d.specs
      BY <1>1, <1>5, <3>2 DEF Rows, SpecRows
    <3> QED
      BY <1>5, <3>1, <3>2
  <2> QED
    BY <1>2, <1>4, <1>5, <2>1 DEF SpecRows
<1>7. CompRows(e)
  BY <1>1, <1>2, <1>5 DEF Rows, CompRows
<1>8. ArtifactRows(e) /\ ConfigRows(e)
  BY <1>1, <1>2 DEF Rows, ArtifactRows, ConfigRows
<1>9. 1 \in DOMAIN e.revs[new] /\ e.revs[new][1] = c
  BY <1>5
<1> QED
  BY <1>1, <1>2, <1>5, <1>6, <1>7, <1>8, <1>9 DEF Rows, new

(* INSERT of a revision, and UPDATE of the row it belongs to.               *)
LEMMA RevisionInserted ==
  ASSUME NEW d, Rows(d), NEW x \in DOMAIN d.specs, NEW c \in Content, NEW e, e = InsertRevision(d, x, c)
  PROVE  /\ Rows(e)
         /\ DOMAIN e.specs = DOMAIN d.specs
         /\ \A s \in DOMAIN d.specs : e.revs[s] = IF s = x THEN Append(d.revs[x], c) ELSE d.revs[s]
         /\ e.used = d.used
         /\ e.comps = d.comps /\ e.artifacts = d.artifacts /\ e.plugins = d.plugins
<1>1. /\ DOMAIN e = Tables /\ e.projects = d.projects /\ e.plugins = d.plugins /\ e.configs = d.configs
      /\ e.artifacts = d.artifacts /\ e.comps = d.comps /\ e.used = d.used
      /\ e.specs = [d.specs EXCEPT ![x].head = c]
      /\ e.revs = [d.revs EXCEPT ![x] = Append(d.revs[x], c)]
  BY DEF InsertRevision, Rows, Tables
<1>2. DOMAIN d.revs = DOMAIN d.specs /\ SpecRows(d)
  BY DEF Rows, SpecRows
<1>3. /\ DOMAIN e.specs = DOMAIN d.specs /\ DOMAIN e.revs = DOMAIN d.specs
      /\ \A s \in DOMAIN d.specs : e.revs[s] = IF s = x THEN Append(d.revs[x], c) ELSE d.revs[s]
      /\ \A s \in DOMAIN d.specs \ {x} : e.specs[s] = d.specs[s]
      /\ e.specs[x] = [d.specs[x] EXCEPT !.head = c]
  BY <1>1, <1>2
<1>4. SpecRows(e)
  <2>1. ASSUME NEW s \in DOMAIN e.specs
        PROVE  /\ e.specs[s] \in [project : e.projects, name : SpecNames, head : Content]
               /\ e.revs[s] \in Seq(Content) /\ e.revs[s] # <<>>
               /\ e.specs[s].head = e.revs[s][Len(e.revs[s])]
    <3>1. CASE s = x
      <4>1. /\ d.specs[x] \in [project : d.projects, name : SpecNames, head : Content]
            /\ d.revs[x] \in Seq(Content)
        BY <1>2 DEF SpecRows
      <4>2. /\ Append(d.revs[x], c) \in Seq(Content) /\ Append(d.revs[x], c) # <<>>
            /\ Append(d.revs[x], c)[Len(Append(d.revs[x], c))] = c
        BY <4>1
      <4>3. /\ e.specs[x] \in [project : d.projects, name : SpecNames, head : Content]
            /\ e.specs[x].head = c
        BY <1>3, <4>1
      <4> QED
        BY <1>1, <1>3, <3>1, <4>2, <4>3
    <3>2. CASE s \in DOMAIN d.specs \ {x}
      BY <1>1, <1>2, <1>3, <3>2 DEF SpecRows
    <3> QED
      BY <1>3, <3>1, <3>2
  <2> QED
    BY <1>1, <1>2, <1>3, <2>1 DEF SpecRows
<1>5. CompRows(e)
  BY <1>1, <1>3 DEF Rows, CompRows
<1>6. ArtifactRows(e) /\ ConfigRows(e)
  BY <1>1 DEF Rows, ArtifactRows, ConfigRows
<1> QED
  BY <1>1, <1>3, <1>4, <1>5, <1>6 DEF Rows

(* INSERT of a compilation of a spec that exists.                           *)
LEMMA CompilationInserted ==
  ASSUME NEW d, Rows(d), NEW x \in DOMAIN d.specs, NEW extra, NEW e,
         e = InsertCompilation(d, x, d.specs[x].project, extra)
  PROVE  /\ Rows(e)
         /\ e.specs = d.specs /\ e.revs = d.revs /\ e.artifacts = d.artifacts /\ e.plugins = d.plugins
         /\ e.used.spec = d.used.spec /\ e.used.comp = d.used.comp + 1 /\ e.used.art = d.used.art
         /\ d.used.comp + 1 \in Nat \ DOMAIN d.comps
         /\ DOMAIN e.comps = DOMAIN d.comps \cup {d.used.comp + 1}
         /\ \A c \in DOMAIN d.comps : e.comps[c] = d.comps[c]
         /\ e.comps[d.used.comp + 1].status = "pending"
<1> DEFINE new == d.used.comp + 1
           row == [spec |-> x, project |-> d.specs[x].project, extra |-> extra,
                   status |-> "pending", artifact |-> {}]
<1>1. /\ DOMAIN e = Tables /\ e.projects = d.projects /\ e.plugins = d.plugins /\ e.configs = d.configs
      /\ e.artifacts = d.artifacts /\ e.specs = d.specs /\ e.revs = d.revs
      /\ e.comps = With(d.comps, new, row) /\ e.used = [d.used EXCEPT !.comp = @ + 1]
  BY DEF InsertCompilation, Rows, Tables
<1>2. /\ e.used \in [spec : Nat, comp : Nat, art : Nat] /\ new \in Nat
      /\ e.used.comp = new /\ e.used.spec = d.used.spec /\ e.used.art = d.used.art
  BY <1>1 DEF Rows
<1>3. new \notin DOMAIN d.comps /\ DOMAIN d.comps \cup {new} \subseteq 1 .. new
  BY DEF Rows, CompRows
<1>4. /\ DOMAIN row = CompColumns /\ row.status = "pending"
      /\ row.spec \in DOMAIN e.specs /\ row.project \in e.projects
  BY <1>1 DEF Rows, SpecRows, CompColumns
<1> HIDE DEF new, row
<1>5. /\ DOMAIN e.comps = DOMAIN d.comps \cup {new} /\ e.comps[new] = row
      /\ \A c \in DOMAIN d.comps : e.comps[c] = d.comps[c]
  BY <1>1, <1>3 DEF With
<1>6. CompRows(e)
  BY <1>1, <1>2, <1>3, <1>4, <1>5 DEF Rows, CompRows
<1>7. SpecRows(e) /\ ArtifactRows(e) /\ ConfigRows(e)
  BY <1>1, <1>2 DEF Rows, SpecRows, ArtifactRows, ConfigRows
<1> QED
  BY <1>1, <1>2, <1>3, <1>4, <1>5, <1>6, <1>7 DEF Rows, new

(* e is d with another status of the compilation x, if there is one. *)
Restated(d, e, x, status) ==
    /\ Rows(e)
    /\ e.specs = d.specs /\ e.revs = d.revs /\ e.artifacts = d.artifacts /\ e.plugins = d.plugins
    /\ e.used = d.used
    /\ DOMAIN e.comps = DOMAIN d.comps
    /\ \A c \in DOMAIN d.comps :
           /\ e.comps[c].spec = d.comps[c].spec /\ e.comps[c].project = d.comps[c].project
           /\ e.comps[c].status = IF c = x THEN status ELSE d.comps[c].status

(* UPDATE of the status of a compilation, by a claim or at its end.         *)
LEMMA StatusSet ==
  ASSUME NEW d, Rows(d), NEW x, NEW status, NEW e,
         \/ (e = ClaimRow(d, x) /\ x \in DOMAIN d.comps /\ status = "compiling")
         \/ \E artifact : e = SetStatus(d, x, status, artifact)
  PROVE  Restated(d, e, x, status)
<1>1. /\ DOMAIN e = Tables /\ e.projects = d.projects /\ e.plugins = d.plugins /\ e.configs = d.configs
      /\ e.artifacts = d.artifacts /\ e.specs = d.specs /\ e.revs = d.revs /\ e.used = d.used
      /\ \/ (x \in DOMAIN d.comps /\ e.comps = [d.comps EXCEPT ![x].status = status])
         \/ /\ x \in DOMAIN d.comps
            /\ \E artifact : e.comps = [d.comps EXCEPT ![x].status = status, ![x].artifact = artifact]
         \/ (x \notin DOMAIN d.comps /\ e.comps = d.comps)
  BY DEF ClaimRow, SetStatus, Rows, Tables
<1>2. DOMAIN e.comps = DOMAIN d.comps
  BY <1>1
<1>3. ASSUME NEW c \in DOMAIN d.comps
      PROVE  /\ e.comps[c].spec = d.comps[c].spec /\ e.comps[c].project = d.comps[c].project
             /\ e.comps[c].status = IF c = x THEN status ELSE d.comps[c].status
             /\ DOMAIN e.comps[c] = CompColumns
  <2>1. DOMAIN d.comps[c] = CompColumns
    BY DEF Rows, CompRows
  <2>2. CASE x \in DOMAIN d.comps /\ e.comps = [d.comps EXCEPT ![x].status = status]
    BY <2>1, <2>2 DEF CompColumns
  <2>3. ASSUME x \in DOMAIN d.comps, NEW artifact,
               e.comps = [d.comps EXCEPT ![x].status = status, ![x].artifact = artifact]
        PROVE  /\ e.comps[c].spec = d.comps[c].spec /\ e.comps[c].project = d.comps[c].project
               /\ e.comps[c].status = IF c = x THEN status ELSE d.comps[c].status
               /\ DOMAIN e.comps[c] = CompColumns
    BY <2>1, <2>3 DEF CompColumns
  <2> QED
    BY <1>1, <2>1, <2>2, <2>3
<1>4. CompRows(e)
  BY <1>1, <1>2, <1>3 DEF Rows, CompRows
<1>5. SpecRows(e) /\ ArtifactRows(e) /\ ConfigRows(e)
  BY <1>1 DEF Rows, SpecRows, ArtifactRows, ConfigRows
<1> QED
  BY <1>1, <1>2, <1>3, <1>4, <1>5 DEF Rows, Restated

(* DELETE of a plugin that no configuration uses.                           *)
LEMMA PluginDropped ==
  ASSUME NEW d, Rows(d), NEW pl, ~InUse(d, pl), NEW e, e = DropPlugin(d, pl)
  PROVE  /\ Rows(e) /\ e.plugins = d.plugins \ {pl}
         /\ e.specs = d.specs /\ e.revs = d.revs /\ e.artifacts = d.artifacts /\ e.used = d.used
         /\ e.comps = d.comps
<1>1. /\ DOMAIN e = Tables /\ e.projects = d.projects
      /\ e.specs = d.specs /\ e.revs = d.revs /\ e.plugins = d.plugins \ {pl} /\ e.configs = d.configs
      /\ e.artifacts = d.artifacts /\ e.used = d.used /\ e.comps = d.comps
  BY DEF DropPlugin, Rows, Tables
<1>2. SpecRows(e) /\ CompRows(e)
  BY <1>1 DEF Rows, SpecRows, CompRows
<1>3. \A k \in DOMAIN d.configs : <<k[2], d.configs[k].version>> # pl
  BY DEF InUse
<1>4. ConfigRows(e)
  BY <1>1, <1>3 DEF Rows, ConfigRows
<1> QED
  BY <1>1, <1>2, <1>4 DEF Rows, ArtifactRows

(* INSERT of an artifact: a fresh id.                                       *)
LEMMA ArtifactInserted ==
  ASSUME NEW d, Rows(d), NEW p, NEW bundles, NEW e, e = InsertArtifact(d, p, bundles)
  PROVE  /\ Rows(e) /\ e.plugins = d.plugins
         /\ e.specs = d.specs /\ e.revs = d.revs /\ e.comps = d.comps
         /\ e.used.spec = d.used.spec /\ e.used.comp = d.used.comp /\ e.used.art = d.used.art + 1
         /\ d.used.art + 1 \notin 1 .. d.used.art
         /\ DOMAIN e.artifacts = DOMAIN d.artifacts \cup {d.used.art + 1}
         /\ \A a \in DOMAIN d.artifacts : e.artifacts[a] = d.artifacts[a]
         /\ e.artifacts[d.used.art + 1].plugins = bundles
<1> DEFINE new == d.used.art + 1
           row == [project |-> {p}, plugins |-> bundles]
<1>1. /\ DOMAIN e = Tables /\ e.projects = d.projects /\ e.plugins = d.plugins /\ e.configs = d.configs
      /\ e.comps = d.comps /\ e.specs = d.specs /\ e.revs = d.revs
      /\ e.artifacts = With(d.artifacts, new, row) /\ e.used = [d.used EXCEPT !.art = @ + 1]
  BY DEF InsertArtifact, Rows, Tables
<1>2. /\ e.used \in [spec : Nat, comp : Nat, art : Nat] /\ new \in Nat /\ new \notin 1 .. d.used.art
      /\ e.used.art = new /\ e.used.spec = d.used.spec /\ e.used.comp = d.used.comp
  BY <1>1 DEF Rows
<1>3. new \notin DOMAIN d.artifacts /\ DOMAIN d.artifacts \cup {new} \subseteq 1 .. new
  BY DEF Rows, ArtifactRows
<1>4. DOMAIN row = {"project", "plugins"} /\ row.plugins = bundles
  OBVIOUS
<1> HIDE DEF new, row
<1>5. /\ DOMAIN e.artifacts = DOMAIN d.artifacts \cup {new} /\ e.artifacts[new] = row
      /\ \A a \in DOMAIN d.artifacts : e.artifacts[a] = d.artifacts[a]
  BY <1>1, <1>3 DEF With
<1>6. ArtifactRows(e)
  BY <1>2, <1>3, <1>4, <1>5 DEF Rows, ArtifactRows
<1>7. SpecRows(e) /\ CompRows(e) /\ ConfigRows(e)
  BY <1>1, <1>2 DEF Rows, SpecRows, CompRows, ConfigRows
<1> QED
  BY <1>1, <1>2, <1>4, <1>5, <1>6, <1>7 DEF Rows, new

(* INSERT of the link from an artifact to a revision.                       *)
LEMMA LinkInserted ==
  ASSUME NEW d, Rows(d), NEW a, NEW s, NEW rev, NEW e, e = InsertLink(d, a, s, rev)
  PROVE  Rows(e) /\ Less(d, e)
<1>1. /\ DOMAIN e = Tables /\ e.projects = d.projects
      /\ e.specs = d.specs /\ e.revs = d.revs /\ e.plugins = d.plugins /\ e.configs = d.configs
      /\ e.artifacts = d.artifacts /\ e.used = d.used /\ e.comps = d.comps
  BY DEF InsertLink, Rows, Tables
<1>2. SpecRows(e) /\ CompRows(e)
  BY <1>1 DEF Rows, SpecRows, CompRows
<1> QED
  BY <1>1, <1>2 DEF Rows, ArtifactRows, ConfigRows, Less

-----------------------------------------------------------------------------
(* What a request or the worker holds stays true while others run: rows go, *)
(* new ones have fresh ids, and revisions are only added to.                *)

Grows(d, e) ==
    /\ e.used \in [spec : Nat, comp : Nat, art : Nat]
    /\ d.used.spec <= e.used.spec /\ d.used.comp <= e.used.comp /\ d.used.art <= e.used.art
    /\ \A s \in DOMAIN e.specs \cap (1 .. d.used.spec) :
           /\ s \in DOMAIN d.specs
           /\ \A i \in DOMAIN d.revs[s] : i \in DOMAIN e.revs[s] /\ e.revs[s][i] = d.revs[s][i]
    /\ \A c \in DOMAIN e.comps \cap (1 .. d.used.comp) :
           /\ c \in DOMAIN d.comps
           /\ e.comps[c].spec = d.comps[c].spec /\ e.comps[c].project = d.comps[c].project
    /\ \A a \in DOMAIN e.artifacts \cap (1 .. d.used.art) :
           a \in DOMAIN d.artifacts /\ e.artifacts[a].plugins = d.artifacts[a].plugins

(* Locals of a request in flight.                                           *)
LEMMA LocalsKept == ASSUME NEW d, NEW e, Rows(d), Grows(d, e), NEW r, Locals(r, d) PROVE Locals(r, e)
<1>1. d.used.art \in Nat /\ e.used.art \in Nat /\ d.used.art <= e.used.art
  BY DEF Rows, Grows
<1>2. 1 .. d.used.art \subseteq 1 .. e.used.art
  BY <1>1
<1>3. \A a \in DOMAIN e.artifacts \cap (1 .. d.used.art) :
        a \in DOMAIN d.artifacts /\ e.artifacts[a].plugins = d.artifacts[a].plugins
  BY DEF Grows
<1> QED
  BY <1>2, <1>3 DEF Locals

(* Locals of the worker, as long as no plugin is deleted.                   *)
LEMMA HoldsKept ==
  ASSUME NEW d, NEW e, Rows(d), Grows(d, e), d.plugins \subseteq e.plugins, NEW w, Holds(w, d)
  PROVE  Holds(w, e)
<1>1. d.used.comp \in Nat /\ e.used.comp \in Nat /\ d.used.comp <= e.used.comp
  BY DEF Rows, Grows
<1>2. 1 .. d.used.comp \subseteq 1 .. e.used.comp
  BY <1>1
<1>3. \A c \in DOMAIN e.comps \cap (1 .. d.used.comp) :
           /\ c \in DOMAIN d.comps
           /\ e.comps[c].spec = d.comps[c].spec /\ e.comps[c].project = d.comps[c].project
  BY DEF Grows
<1> QED
  BY <1>2, <1>3 DEF Holds

(* What was told.                                                           *)
LEMMA ToldKept == ASSUME NEW d, NEW e, Rows(d), Grows(d, e), Told(d) PROVE Told(e)
<1>1. d.used.spec \in Nat /\ e.used.spec \in Nat /\ d.used.spec <= e.used.spec
  BY DEF Rows, Grows
<1>2. 1 .. d.used.spec \subseteq 1 .. e.used.spec
  BY <1>1
<1>3. \A s \in DOMAIN e.specs \cap (1 .. d.used.spec) :
           /\ s \in DOMAIN d.specs
           /\ \A i \in DOMAIN d.revs[s] : i \in DOMAIN e.revs[s] /\ e.revs[s][i] = d.revs[s][i]
  BY DEF Grows
<1> QED
  BY <1>2, <1>3 DEF Told

(* Deletions.                                                               *)
LEMMA LessGrows == ASSUME NEW d, NEW e, Rows(d), Rows(e), Less(d, e) PROVE Grows(d, e)
<1>1. e.used = d.used /\ d.used \in [spec : Nat, comp : Nat, art : Nat]
  BY DEF Rows, Less
<1>2. d.used.spec <= e.used.spec /\ d.used.comp <= e.used.comp /\ d.used.art <= e.used.art
  BY <1>1
<1> QED
  BY <1>1, <1>2 DEF Less, Grows

\* Why a row may stay pending although no job is on its way.
Unsent(c) == {c} \X {"error", "restart", "abandoned"}

(* Compilations that keep their status, while the queue and the worker are  *)
(* as they were and no request forgets the job it is about to send.         *)
LEMMA StuckKept ==
  ASSUME StuckOnlyByFault, UNCHANGED queue, worker'.pc = worker.pc, worker'.job = worker.job,
         reason \subseteq reason',
         \A c \in DOMAIN db'.comps : c \in DOMAIN db.comps /\ db'.comps[c].status = db.comps[c].status,
         \A h \in Handlers : req[h].op = "send" => req'[h] = req[h]
  PROVE  StuckOnlyByFault'
<1> SUFFICES ASSUME NEW c \in DOMAIN db'.comps
             PROVE  /\ db'.comps[c].status = "pending" =>
                         \/ c \in Range(queue) \/ \E h \in Handlers : req'[h].op = "send" /\ req'[h].comp = c
                         \/ reason' \cap Unsent(c) # {}
                    /\ db'.comps[c].status = "compiling" =>
                         \/ worker.pc # "idle" /\ worker.job = c
                         \/ reason' \cap ({c} \X {"error", "restart", "artifact deleted"}) # {}
  BY DEF StuckOnlyByFault, Step, Unsent
<1>1. c \in DOMAIN db.comps /\ db'.comps[c].status = db.comps[c].status
  OBVIOUS
<1>2. ASSUME db.comps[c].status = "pending"
      PROVE  \/ c \in Range(queue) \/ \E h \in Handlers : req'[h].op = "send" /\ req'[h].comp = c
             \/ reason' \cap Unsent(c) # {}
  BY <1>1, <1>2 DEF StuckOnlyByFault, Step, Unsent
<1>3. ASSUME db.comps[c].status = "compiling"
      PROVE  \/ worker.pc # "idle" /\ worker.job = c
             \/ reason' \cap ({c} \X {"error", "restart", "artifact deleted"}) # {}
  BY <1>1, <1>3 DEF StuckOnlyByFault
<1> QED
  BY <1>1, <1>2, <1>3

(* Artifacts that keep their plugins.                                       *)
LEMMA BundlesKept ==
  ASSUME BundledPluginsKept, db.plugins \subseteq db'.plugins, exempt \subseteq exempt',
         \A a \in DOMAIN db'.artifacts :
             a \in DOMAIN db.artifacts /\ db'.artifacts[a].plugins = db.artifacts[a].plugins
  PROVE  BundledPluginsKept'
BY DEF BundledPluginsKept

(* A step of a request or of nobody in particular that leaves the worker    *)
(* alone.                                                                   *)
LEMMA LessStep ==
  ASSUME ApiInv, Rows(db'), Less(db, db'), UNCHANGED <<queue, worker, req, told, reason, exempt>>
  PROVE  ApiInv'
<1>1. Rows(db) /\ Grows(db, db') /\ db.plugins \subseteq db'.plugins
  BY LessGrows DEF ApiInv, Less
<1>2. \A h \in Handlers : Locals(req'[h], db')
  BY <1>1, LocalsKept DEF ApiInv
<1>3. Holds(worker', db')
  BY <1>1, HoldsKept DEF ApiInv
<1>4. Told(db)'
  <2>1. Told(db')
    BY <1>1, ToldKept DEF ApiInv
  <2> QED
    BY <2>1 DEF Told
<1>5. StuckOnlyByFault'
  BY StuckKept DEF ApiInv, Less
<1>6. BundledPluginsKept'
  BY BundlesKept DEF ApiInv, Less
<1> QED
  BY <1>2, <1>3, <1>4, <1>5, <1>6 DEF ApiInv

(* Requests that one statement decides.                                     *)
LEMMA StatementStep == ASSUME ApiInv, NEW d, Statement(d), Rows(d), Less(db, d) PROVE ApiInv'
BY LessStep DEF Statement

(* A request enters or goes on, and no table changes.                       *)
LEMMA LocalsStep ==
  ASSUME ApiInv, NEW h \in Handlers, NEW r, req' = [req EXCEPT ![h] = r], req[h].op # "send",
         r.op # "send", Locals(r, db), UNCHANGED <<db, queue, worker, told, reason, exempt>>
  PROVE  ApiInv'
<1>1. /\ DOMAIN req' = Handlers /\ req'[h] = r
      /\ \A g \in Handlers \ {h} : req'[g] = req[g]
  BY DEF ApiInv
<1>2. \A g \in Handlers : Locals(req'[g], db')
  BY <1>1 DEF ApiInv
<1>3. \A g \in Handlers : req'[g].op = "send" => req'[g].comp \in Nat
  BY <1>1 DEF ApiInv
<1>4. StuckOnlyByFault'
  BY <1>1, StuckKept DEF ApiInv
<1>5. BundledPluginsKept'
  BY BundlesKept DEF ApiInv
<1>6. Told(db)'
  BY DEF ApiInv, Told
<1> QED
  BY <1>1, <1>2, <1>3, <1>4, <1>5, <1>6 DEF ApiInv

-----------------------------------------------------------------------------
(* The API, action by action. *)

(* Requests that one statement decides.                                     *)
LEMMA OneStatement ==
  ASSUME ApiInv,
         \/ \E p \in Projects : CreateProject(p) \/ DeleteProject(p)
         \/ \E s \in DOMAIN db.specs : DeleteSpec(s)
         \/ \E a \in DOMAIN db.artifacts : DeleteArtifact(a)
         \/ \E c \in DOMAIN db.comps : DeleteCompilation(c)
         \/ \E pl \in Plugins : RegisterPlugin(pl)
         \/ \E p \in Projects, pl \in Plugins : AddPluginToProject(p, pl) \/ UpdateProjectPlugin(p, pl)
         \/ \E p \in Projects, pl \in Plugins : RemovePluginFromProject(p, pl[1])
  PROVE  ApiInv'
<1>1. Rows(db)
  BY DEF ApiInv
<1>2. ASSUME NEW d, Statement(d), Rows(d) /\ Less(db, d) PROVE ApiInv'
  BY <1>2, StatementStep
<1>3. ASSUME NEW p \in Projects, CreateProject(p) \/ DeleteProject(p) PROVE ApiInv'
  BY <1>1, <1>2, <1>3, ProjectInserted, ProjectDropped DEF CreateProject, DeleteProject
<1>4. ASSUME NEW s \in DOMAIN db.specs, DeleteSpec(s) PROVE ApiInv'
  BY <1>1, <1>2, <1>4, SpecsDropped DEF DeleteSpec
<1>5. ASSUME NEW a \in DOMAIN db.artifacts, DeleteArtifact(a) PROVE ApiInv'
  BY <1>1, <1>2, <1>5, ArtifactDropped DEF DeleteArtifact
<1>6. ASSUME NEW c \in DOMAIN db.comps, DeleteCompilation(c) PROVE ApiInv'
  BY <1>1, <1>2, <1>6, CompilationDropped DEF DeleteCompilation
<1>7. ASSUME NEW pl \in Plugins, RegisterPlugin(pl) PROVE ApiInv'
  BY <1>1, <1>2, <1>7, PluginInserted DEF RegisterPlugin
<1>8. ASSUME NEW p \in Projects, NEW pl \in Plugins,
             AddPluginToProject(p, pl) \/ UpdateProjectPlugin(p, pl) \/ RemovePluginFromProject(p, pl[1])
      PROVE  ApiInv'
  <2>1. pl = <<pl[1], pl[2]>>
    BY ApiAssumption
  <2>2. ASSUME NEW on \in BOOLEAN, pl \in db.plugins, Statement(InsertConfig(db, p, pl, on)) PROVE ApiInv'
    <3>1. Rows(InsertConfig(db, p, pl, on)) /\ Less(db, InsertConfig(db, p, pl, on))
      BY <1>1, <2>1, <2>2, ConfigWritten
    <3> QED
      BY <1>2, <2>2, <3>1
  <2>3. ASSUME NEW on \in BOOLEAN, pl \in db.plugins, <<p, pl[1]>> \in DOMAIN db.configs,
               Statement(UpdateConfig(db, p, pl, on))
        PROVE  ApiInv'
    <3>1. Rows(UpdateConfig(db, p, pl, on)) /\ Less(db, UpdateConfig(db, p, pl, on))
      BY <1>1, <2>1, <2>3, ConfigWritten
    <3> QED
      BY <1>2, <2>3, <3>1
  <2>4. ASSUME Statement(DropConfig(db, p, pl[1])) PROVE ApiInv'
    <3>1. Rows(DropConfig(db, p, pl[1])) /\ Less(db, DropConfig(db, p, pl[1]))
      BY <1>1, <2>1, ConfigWritten
    <3> QED
      BY <1>2, <2>4, <3>1
  <2> QED
    BY <1>8, <2>2, <2>3, <2>4 DEF AddPluginToProject, UpdateProjectPlugin, RemovePluginFromProject
<1> QED
  BY <1>3, <1>4, <1>5, <1>6, <1>7, <1>8

(* The first read of the requests that need more than one statement.        *)
LEMMA RequestEnters ==
  ASSUME ApiInv, NEW h \in Handlers,
         \/ \E n \in SpecNames, c \in Content : UploadSpec(h, n, c)
         \/ \E p \in Projects, n \in SpecNames, c \in Content : UploadSpecToProject(h, p, n, c)
         \/ \E s \in DOMAIN db.specs, u \in Usages : PatchSpec(h, s, u)
         \/ \E pl \in Plugins : DeletePlugin(h, pl)
  PROVE  ApiInv'
<1>1. ASSUME NEW r, Enter(h, r), UNCHANGED <<db, queue, worker, told, reason, exempt>>,
             r.op # "send", Locals(r, db)
      PROVE  ApiInv'
  <2>1. req[h].op # "send" /\ req' = [req EXCEPT ![h] = r]
    BY <1>1 DEF Enter, NoOne
  <2> QED
    BY <1>1, <2>1, LocalsStep
<1>2. ASSUME NEW p, NEW n \in SpecNames, NEW c \in Content, StoreSpec(h, p, n, c) PROVE ApiInv'
  <2>1. PICK op \in {"create", "update"} :
          /\ Enter(h, [op |-> op, project |-> p, name |-> n, content |-> c])
          /\ UNCHANGED <<db, queue, worker, told, reason, exempt>>
    BY <1>2 DEF StoreSpec
  <2>2. Locals([op |-> op, project |-> p, name |-> n, content |-> c], db)
    BY DEF Locals
  <2> QED
    BY <1>1, <2>1, <2>2
<1>3. ASSUME NEW s \in DOMAIN db.specs, NEW u \in Usages, PatchSpec(h, s, u) PROVE ApiInv'
  <2> DEFINE r == [op |-> "update", project |-> db.specs[s].project, name |-> db.specs[s].name,
                   content |-> Patched(Latest(db, s), u)]
  <2>1. Enter(h, r) /\ UNCHANGED <<db, queue, worker, told, reason, exempt>>
    BY <1>3 DEF PatchSpec
  <2>2. db.specs[s].name \in SpecNames /\ Latest(db, s) \in Content
    BY DEF ApiInv, Rows, SpecRows, Latest, Last
  <2>3. Patched(Latest(db, s), u) \in Content
    BY <2>2 DEF Patched, Content
  <2>4. Locals(r, db)
    BY <2>2, <2>3 DEF Locals
  <2> QED
    BY <1>1, <2>1, <2>4
<1>4. ASSUME NEW pl \in Plugins, DeletePlugin(h, pl) PROVE ApiInv'
  <2> DEFINE r == [op |-> "delete plugin", plugin |-> pl, seen |-> DOMAIN db.artifacts]
  <2>1. Enter(h, r) /\ UNCHANGED <<db, queue, worker, told, reason, exempt>>
    BY <1>4 DEF DeletePlugin
  <2>2. Locals(r, db)
    BY <1>4 DEF DeletePlugin, PluginIsReferenced, Locals, ApiInv, Rows, ArtifactRows
  <2> QED
    BY <1>1, <2>1, <2>2
<1> QED
  BY <1>2, <1>3, <1>4 DEF UploadSpec, UploadSpecToProject

(* The row of a compilation is inserted before its job is sent: until then  *)
(* the request in flight is what keeps it from being stuck.                 *)
LEMMA CompilationStarts ==
  ASSUME ApiInv, NEW h \in Handlers, NEW x \in DOMAIN db.specs, NEW extra, StartCompilation(h, x, extra)
  PROVE  ApiInv'
<1> DEFINE new == db.used.comp + 1
<1>1. /\ Rows(db) /\ db' = InsertCompilation(db, x, db.specs[x].project, extra)
      /\ req[h] = NoOne /\ req' = [req EXCEPT ![h] = [op |-> "send", comp |-> new]]
      /\ UNCHANGED <<queue, worker, told, reason, exempt>>
  BY DEF StartCompilation, Enter, ApiInv
<1>2. /\ Rows(db')
      /\ db'.specs = db.specs /\ db'.revs = db.revs /\ db'.artifacts = db.artifacts /\ db'.plugins = db.plugins
      /\ db'.used.spec = db.used.spec /\ db'.used.comp = new /\ db'.used.art = db.used.art
      /\ new \in Nat \ DOMAIN db.comps
      /\ DOMAIN db'.comps = DOMAIN db.comps \cup {new}
      /\ \A c \in DOMAIN db.comps : db'.comps[c] = db.comps[c]
      /\ db'.comps[new].status = "pending"
  <2> HIDE DEF new
  <2>1. new = db.used.comp + 1
    BY DEF new
  <2> QED
    BY <1>1, <2>1, CompilationInserted
<1>3. new \notin 1 .. db.used.comp /\ db.used \in [spec : Nat, comp : Nat, art : Nat]
  BY <1>1 DEF Rows
<1>4. Grows(db, db')
  <2>1. /\ db'.used \in [spec : Nat, comp : Nat, art : Nat]
        /\ db.used.spec <= db'.used.spec /\ db.used.comp <= db'.used.comp /\ db.used.art <= db'.used.art
    BY <1>2, <1>3 DEF Rows
  <2> QED
    BY <1>2, <1>3, <2>1 DEF Grows
<1> HIDE DEF new
<1>5. /\ DOMAIN req' = Handlers /\ req'[h] = [op |-> "send", comp |-> new]
      /\ \A g \in Handlers \ {h} : req'[g] = req[g]
  BY <1>1 DEF ApiInv
<1>6. \A g \in Handlers : Locals(req'[g], db')
  <2>1. Locals(req'[h], db')
    BY <1>5 DEF Locals
  <2> QED
    BY <1>1, <1>4, <1>5, <2>1, LocalsKept DEF ApiInv
<1>7. Holds(worker', db') /\ Told(db)'
  <2>1. Holds(worker, db') /\ Told(db')
    BY <1>1, <1>2, <1>4, HoldsKept, ToldKept DEF ApiInv
  <2> QED
    BY <1>1, <2>1 DEF Told
<1>8. \A g \in Handlers : req'[g].op = "send" => req'[g].comp \in Nat
  BY <1>2, <1>5 DEF ApiInv
<1>9. StuckOnlyByFault'
  <2> SUFFICES ASSUME NEW c \in DOMAIN db'.comps
               PROVE  /\ db'.comps[c].status = "pending" =>
                           \/ c \in Range(queue) \/ \E g \in Handlers : req'[g].op = "send" /\ req'[g].comp = c
                           \/ reason \cap Unsent(c) # {}
                      /\ db'.comps[c].status = "compiling" =>
                           \/ worker.pc # "idle" /\ worker.job = c
                           \/ reason \cap ({c} \X {"error", "restart", "artifact deleted"}) # {}
    BY <1>1 DEF StuckOnlyByFault, Step, Unsent
  <2>1. CASE c = new
    <3>1. req'[h].op = "send" /\ req'[h].comp = c /\ db'.comps[c].status = "pending"
      BY <1>2, <1>5, <2>1
    <3> QED
      BY <3>1
  <2>2. CASE c \in DOMAIN db.comps
    <3>1. \A g \in Handlers : req[g].op = "send" => req'[g] = req[g]
      BY <1>1, <1>5 DEF NoOne
    <3>2. StuckOnlyByFault /\ db'.comps[c] = db.comps[c]
      BY <1>2, <2>2 DEF ApiInv
    <3>3. ASSUME db.comps[c].status = "pending"
          PROVE  \/ c \in Range(queue) \/ \E g \in Handlers : req'[g].op = "send" /\ req'[g].comp = c
                 \/ reason \cap Unsent(c) # {}
      BY <2>2, <3>1, <3>2, <3>3 DEF StuckOnlyByFault, Step, Unsent
    <3>4. ASSUME db.comps[c].status = "compiling"
          PROVE  \/ worker.pc # "idle" /\ worker.job = c
                 \/ reason \cap ({c} \X {"error", "restart", "artifact deleted"}) # {}
      BY <2>2, <3>2, <3>4 DEF StuckOnlyByFault
    <3> QED
      BY <3>2, <3>3, <3>4
  <2> QED
    BY <1>2, <2>1, <2>2
<1>10. BundledPluginsKept'
  BY <1>1, <1>2, BundlesKept DEF ApiInv
<1> QED
  BY <1>1, <1>2, <1>5, <1>6, <1>7, <1>8, <1>9, <1>10 DEF ApiInv

(* A request that ends with a statement on the specs.                       *)
LEMMA SpecStep ==
  ASSUME ApiInv, NEW h \in Handlers, Leave(h), req[h].op # "send",
         Rows(db'), Grows(db, db'), Told(db)',
         db'.comps = db.comps, db'.artifacts = db.artifacts, db'.plugins = db.plugins,
         UNCHANGED <<queue, worker, reason, exempt>>
  PROVE  ApiInv'
<1>1. /\ DOMAIN req' = Handlers /\ req'[h] = NoOne
      /\ \A g \in Handlers \ {h} : req'[g] = req[g]
  BY DEF ApiInv, Leave
<1>2. \A g \in Handlers : Locals(req'[g], db')
  <2>1. Locals(req'[h], db')
    BY <1>1 DEF Locals, NoOne
  <2> QED
    BY <1>1, <2>1, LocalsKept DEF ApiInv
<1>3. Holds(worker', db')
  BY HoldsKept DEF ApiInv
<1>4. \A g \in Handlers : req'[g].op = "send" => req'[g].comp \in Nat
  BY <1>1 DEF ApiInv, NoOne
<1>5. StuckOnlyByFault'
  BY <1>1, StuckKept DEF ApiInv
<1>6. BundledPluginsKept'
  BY BundlesKept DEF ApiInv
<1> QED
  BY <1>1, <1>2, <1>3, <1>4, <1>5, <1>6 DEF ApiInv

(* create: the transaction inserts under a fresh id, or is refused.         *)
LEMMA CreateStep == ASSUME ApiInv, NEW h \in Handlers, StoreCreate(h) PROVE ApiInv'
<1> DEFINE r == req[h]
           ok == r.project \in db.projects /\ SpecOf(db, r.project, r.name) = {}
           new == db.used.spec + 1
<1>1. /\ r.op = "create" /\ Leave(h) /\ UNCHANGED <<queue, worker, reason, exempt>>
      /\ db' = IF ok THEN InsertSpec(db, r.project, r.name, r.content) ELSE db
      /\ told' = told \cup (IF ok THEN {[spec |-> new, rev |-> 1, content |-> r.content]} ELSE {})
  BY DEF StoreCreate, Handled, Step
<1>2. Rows(db) /\ r.name \in SpecNames /\ r.content \in Content /\ db.used \in [spec : Nat, comp : Nat, art : Nat]
  BY <1>1 DEF ApiInv, Locals, Rows
<1>3. CASE ~ok
  <2>1. db' = db /\ told' = told
    BY <1>1, <1>3
  <2>2. Grows(db, db')
    BY <1>2, <2>1, LessGrows DEF Less
  <2>3. Told(db)'
    BY <2>1 DEF ApiInv, Told
  <2> QED
    BY <1>1, <1>2, <2>1, <2>2, <2>3, SpecStep
<1>4. CASE ok
  <2>1. db' = InsertSpec(db, r.project, r.name, r.content) /\ r.project \in db.projects
    BY <1>1, <1>4
  <2>2. /\ Rows(db')
        /\ DOMAIN db'.specs = DOMAIN db.specs \cup {new}
        /\ \A s \in DOMAIN db.specs : db'.revs[s] = db.revs[s]
        /\ 1 \in DOMAIN db'.revs[new] /\ db'.revs[new][1] = r.content
        /\ db'.used.spec = new /\ db'.used.comp = db.used.comp /\ db'.used.art = db.used.art
        /\ db'.comps = db.comps /\ db'.artifacts = db.artifacts /\ db'.plugins = db.plugins
    <3>1. new = db.used.spec + 1
      OBVIOUS
    <3> HIDE DEF new, r
    <3>2. PICK p, n, c : p = r.project /\ n = r.name /\ c = r.content
      OBVIOUS
    <3>3. /\ Rows(db) /\ p \in db.projects /\ n \in SpecNames /\ c \in Content
          /\ db' = InsertSpec(db, p, n, c)
      BY <1>2, <2>1, <3>2
    <3> QED
      BY <3>1, <3>2, <3>3, SpecInserted
  <2>3. new \in Nat /\ new \notin 1 .. db.used.spec /\ new \in 1 .. new
    BY <1>2
  <2>4. Grows(db, db')
    <3>1. /\ db'.used \in [spec : Nat, comp : Nat, art : Nat]
          /\ db.used.spec <= db'.used.spec /\ db.used.comp <= db'.used.comp /\ db.used.art <= db'.used.art
      BY <1>2, <2>2 DEF Rows
    <3> HIDE DEF new
    <3> QED
      BY <2>2, <2>3, <3>1 DEF Grows
  <2>5. told' = told \cup {[spec |-> new, rev |-> 1, content |-> r.content]}
    BY <1>1, <1>4
  <2>6. Told(db)'
    <3>1. \A t \in told :
            /\ t.spec \in 1 .. db'.used.spec
            /\ t.spec \in DOMAIN db'.specs =>
                 t.rev \in DOMAIN db'.revs[t.spec] /\ db'.revs[t.spec][t.rev] = t.content
      BY <1>2, <2>4, ToldKept DEF ApiInv, Told
    <3>2. 1 \in DOMAIN db'.revs[new] /\ db'.revs[new][1] = r.content
      BY <2>2
    <3> HIDE DEF new, r
    <3> QED
      BY <2>2, <2>3, <2>5, <3>1, <3>2 DEF Told
  <2> QED
    BY <1>1, <2>2, <2>4, <2>6, SpecStep
<1> QED
  BY <1>3, <1>4

(* update: UNIQUE(spec_id, revision) lets the row in only if its number is  *)
(* still the next one.                                                      *)
LEMMA InsertStep == ASSUME ApiInv, NEW h \in Handlers, UpdateInserts(h) PROVE ApiInv'
<1> DEFINE r == req[h]
           ok == r.spec \in DOMAIN db.specs /\ r.rev = Len(db.revs[r.spec]) + 1
<1>1. /\ r.op = "insert" /\ Leave(h) /\ UNCHANGED <<queue, worker, reason, exempt>>
      /\ db' = IF ok THEN InsertRevision(db, r.spec, r.content) ELSE db
      /\ told' = told \cup (IF ok THEN {[spec |-> r.spec, rev |-> r.rev, content |-> r.content]} ELSE {})
  BY DEF UpdateInserts, Handled, Step
<1>2. Rows(db) /\ r.content \in Content /\ db.used \in [spec : Nat, comp : Nat, art : Nat]
  BY <1>1 DEF ApiInv, Locals, Rows
<1>3. CASE ~ok
  <2>1. db' = db /\ told' = told
    BY <1>1, <1>3
  <2>2. Grows(db, db')
    BY <1>2, <2>1, LessGrows DEF Less
  <2>3. Told(db)'
    BY <2>1 DEF ApiInv, Told
  <2> QED
    BY <1>1, <1>2, <2>1, <2>2, <2>3, SpecStep
<1>4. CASE ok
  <2> DEFINE x == r.spec
             c == r.content
  <2>1. db' = InsertRevision(db, x, c) /\ x \in DOMAIN db.specs /\ r.rev = Len(db.revs[x]) + 1
    BY <1>1, <1>4
  <2>2. /\ Rows(db')
        /\ DOMAIN db'.specs = DOMAIN db.specs
        /\ \A s \in DOMAIN db.specs : db'.revs[s] = IF s = x THEN Append(db.revs[x], c) ELSE db.revs[s]
        /\ db'.used = db.used
        /\ db'.comps = db.comps /\ db'.artifacts = db.artifacts /\ db'.plugins = db.plugins
    BY <1>2, <2>1, RevisionInserted
  <2>3. /\ db.revs[x] \in Seq(Content) /\ x \in 1 .. db.used.spec
        /\ DOMAIN db.specs \subseteq 1 .. db.used.spec
    BY <1>2, <2>1 DEF Rows, SpecRows
  <2>4. told' = told \cup {[spec |-> x, rev |-> r.rev, content |-> c]}
    BY <1>1, <1>4
  <2> HIDE DEF x, c
  <2>5. /\ r.rev \in DOMAIN db'.revs[x] /\ db'.revs[x][r.rev] = c
        /\ \A i \in DOMAIN db.revs[x] : i \in DOMAIN db'.revs[x] /\ db'.revs[x][i] = db.revs[x][i]
    <3>1. db'.revs[x] = Append(db.revs[x], c)
      BY <2>1, <2>2
    <3>2. c \in Content
      BY <1>2 DEF c
    <3> QED
      BY <2>1, <2>3, <3>1, <3>2
  <2>6. Grows(db, db')
    <3>1. db.used.spec <= db'.used.spec /\ db.used.comp <= db'.used.comp /\ db.used.art <= db'.used.art
      BY <1>2, <2>2
    <3>2. \A s \in DOMAIN db'.specs :
            /\ s \in DOMAIN db.specs
            /\ \A i \in DOMAIN db.revs[s] : i \in DOMAIN db'.revs[s] /\ db'.revs[s][i] = db.revs[s][i]
      BY <2>2, <2>5
    <3> QED
      BY <1>2, <2>2, <3>1, <3>2 DEF Grows, Rows, CompRows, ArtifactRows
  <2>7. Told(db)'
    <3>1. \A t \in told :
            /\ t.spec \in 1 .. db'.used.spec
            /\ t.spec \in DOMAIN db'.specs =>
                 t.rev \in DOMAIN db'.revs[t.spec] /\ db'.revs[t.spec][t.rev] = t.content
      BY <1>2, <2>6, ToldKept DEF ApiInv, Told
    <3>2. x \in 1 .. db'.used.spec
      BY <2>2, <2>3
    <3> QED
      BY <2>4, <2>5, <3>1, <3>2 DEF Told
  <2> QED
    BY <1>1, <2>2, <2>6, <2>7, SpecStep
<1> QED
  BY <1>3, <1>4

(* update: the row it read may be gone when it looks for the next number.   *)
LEMMA ReadsMaxStep == ASSUME ApiInv, NEW h \in Handlers, UpdateReadsMax(h) PROVE ApiInv'
<1>1. /\ req[h].op = "update" /\ UNCHANGED <<db, queue, worker, told, reason, exempt>>
      /\ req[h].content \in Content
  BY DEF UpdateReadsMax, Step, ApiInv, Locals
<1>2. PICK r : /\ req' = [req EXCEPT ![h] = r]
               /\ r = NoOne \/ \E s, rev : r = [op |-> "insert", spec |-> s, rev |-> rev, content |-> req[h].content]
  BY DEF UpdateReadsMax, Leave
<1>3. r.op # "send" /\ Locals(r, db)
  <2>1. CASE r = NoOne
    BY <2>1 DEF Locals, NoOne
  <2>2. ASSUME NEW s, NEW rev, r = [op |-> "insert", spec |-> s, rev |-> rev, content |-> req[h].content]
        PROVE  r.op # "send" /\ Locals(r, db)
    <3>1. DOMAIN r = {"op", "spec", "rev", "content"} /\ r.op = "insert" /\ r.content \in Content
      BY <1>1, <2>2
    <3> QED
      BY <3>1 DEF Locals
  <2> QED
    BY <1>2, <2>1, <2>2
<1> QED
  BY <1>1, <1>2, <1>3, LocalsStep

(* delete_plugin: the artifacts it has not seen, and the one the worker is  *)
(* making, are the ones that may bundle the plugin that is gone.            *)
LEMMA DeletePluginStep == ASSUME ApiInv, NEW h \in Handlers, DeletePluginRow(h) PROVE ApiInv'
<1> DEFINE pl == req[h].plugin
           seen == req[h].seen
           gone == pl \in db.plugins /\ ~InUse(db, pl)
           lost == [worker EXCEPT !.lost = @ \cup {pl}]
<1>1. /\ req[h].op = "delete plugin" /\ Leave(h) /\ UNCHANGED <<queue, told, reason>>
      /\ db' = IF gone THEN DropPlugin(db, pl) ELSE db
      /\ exempt' = exempt \cup (IF gone THEN (DOMAIN db.artifacts \ seen) \X {pl} ELSE {})
      /\ worker' = IF gone /\ worker.pc \in {"compile", "create"} /\ pl \in worker.bundles
                   THEN lost ELSE worker
  BY DEF DeletePluginRow, Handled, Step
<1>2. /\ Rows(db) /\ Holds(worker, db)
      /\ \A a \in seen \cap DOMAIN db.artifacts : pl \notin db.artifacts[a].plugins
  BY <1>1 DEF ApiInv, Locals
<1> HIDE DEF pl, seen
<1>3. /\ DOMAIN req' = Handlers /\ req'[h] = NoOne
      /\ \A g \in Handlers \ {h} : req'[g] = req[g]
  BY <1>1 DEF ApiInv, Leave
<1>4. /\ Rows(db') /\ db'.plugins = IF gone THEN db.plugins \ {pl} ELSE db.plugins
      /\ db'.specs = db.specs /\ db'.revs = db.revs /\ db'.artifacts = db.artifacts /\ db'.used = db.used
      /\ db'.comps = db.comps
  <2>1. CASE gone
    <3>1. Rows(db) /\ ~InUse(db, pl) /\ db' = DropPlugin(db, pl)
      BY <1>1, <1>2, <2>1
    <3> QED
      BY <2>1, <3>1, PluginDropped
  <2>2. CASE ~gone
    BY <1>1, <1>2, <2>2
  <2> QED
    BY <2>1, <2>2
<1>5. Grows(db, db')
  <2>1. db.used \in [spec : Nat, comp : Nat, art : Nat]
    BY <1>2 DEF Rows
  <2>2. db.used.spec <= db'.used.spec /\ db.used.comp <= db'.used.comp /\ db.used.art <= db'.used.art
    BY <1>4, <2>1
  <2>3. DOMAIN db.specs \subseteq 1 .. db.used.spec
    BY <1>2 DEF Rows, SpecRows
  <2> QED
    BY <1>4, <2>1, <2>2, <2>3 DEF Grows
<1>6. \A g \in Handlers : Locals(req'[g], db')
  <2>1. Locals(req'[h], db')
    BY <1>3 DEF Locals, NoOne
  <2> QED
    BY <1>2, <1>3, <1>5, <2>1, LocalsKept DEF ApiInv
<1>7. Holds(worker', db') /\ worker'.pc = worker.pc /\ worker'.job = worker.job
  <2>1. CASE gone /\ worker.pc \in {"compile", "create"} /\ pl \in worker.bundles
    <3>1. worker' = lost /\ DOMAIN worker = {"pc", "job", "row", "rev", "bundles", "lost"}
      BY <1>1, <1>2, <2>1 DEF Holds
    <3>2. /\ DOMAIN worker' = DOMAIN worker /\ worker'.pc = worker.pc /\ worker'.job = worker.job
          /\ worker'.row = worker.row /\ worker'.bundles = worker.bundles
          /\ worker'.lost = worker.lost \cup {pl}
      BY <3>1
    <3> QED
      BY <1>2, <1>4, <3>1, <3>2 DEF Holds
  <2>2. CASE ~(gone /\ worker.pc \in {"compile", "create"} /\ pl \in worker.bundles)
    <3>1. worker' = worker
      BY <1>1, <2>2
    <3> QED
      BY <1>2, <1>4, <2>2, <3>1 DEF Holds
  <2> QED
    BY <2>1, <2>2
<1>8. Told(db)'
  BY <1>1, <1>4 DEF ApiInv, Told
<1>9. StuckOnlyByFault'
  BY <1>1, <1>3, <1>4, <1>7, StuckKept DEF ApiInv
<1>10. BundledPluginsKept'
  <2> SUFFICES ASSUME NEW a \in DOMAIN db.artifacts, NEW q \in db.artifacts[a].plugins
               PROVE  q \in db'.plugins \/ <<a, q>> \in exempt'
    BY <1>4 DEF BundledPluginsKept
  <2>1. q \in db.plugins \/ <<a, q>> \in exempt
    BY DEF ApiInv, BundledPluginsKept
  <2>2. CASE gone /\ q = pl
    <3>1. a \notin seen
      BY <1>2, <2>2
    <3> QED
      BY <1>1, <2>2, <3>1
  <2>3. CASE ~(gone /\ q = pl)
    BY <1>1, <1>4, <2>1, <2>3
  <2> QED
    BY <2>2, <2>3
<1>11. \A g \in Handlers : req'[g].op = "send" => req'[g].comp \in Nat
  BY <1>3 DEF ApiInv, NoOne
<1> QED
  BY <1>1, <1>3, <1>4, <1>6, <1>7, <1>8, <1>9, <1>10, <1>11 DEF ApiInv

(* The jobs in the channel after one more.                                  *)
LEMMA RangeAppend ==
  ASSUME NEW q \in Seq(Nat), NEW x \in Nat
  PROVE  Append(q, x) \in Seq(Nat) /\ x \in Range(Append(q, x)) /\ Range(q) \subseteq Range(Append(q, x))
<1>1. /\ Append(q, x) \in Seq(Nat) /\ DOMAIN q = 1 .. Len(q) /\ Len(q) \in Nat
      /\ DOMAIN Append(q, x) = 1 .. Len(q) + 1 /\ Append(q, x)[Len(q) + 1] = x
      /\ \A i \in 1 .. Len(q) : Append(q, x)[i] = q[i]
  BY AppendProperties
<1>2. Len(q) + 1 \in DOMAIN Append(q, x) /\ DOMAIN q \subseteq DOMAIN Append(q, x)
  BY <1>1
<1> QED
  BY <1>1, <1>2 DEF Range

(* The jobs in the channel after one has been received.                     *)
LEMMA RangeTail ==
  ASSUME NEW q \in Seq(Nat), q # <<>>
  PROVE  /\ Tail(q) \in Seq(Nat) /\ Head(q) \in Nat
         /\ \A c \in Range(q) : c = Head(q) \/ c \in Range(Tail(q))
<1>1. /\ Tail(q) \in Seq(Nat) /\ Head(q) \in Nat /\ Head(q) = q[1]
      /\ DOMAIN q = 1 .. Len(q) /\ Len(q) \in Nat
      /\ DOMAIN Tail(q) = 1 .. Len(q) - 1
      /\ \A i \in 1 .. Len(q) - 1 : Tail(q)[i] = q[i + 1]
  BY HeadTailProperties, EmptySeq, ElementOfSeq
<1>2. ASSUME NEW i \in DOMAIN q, i # 1 PROVE i - 1 \in DOMAIN Tail(q) /\ Tail(q)[i - 1] = q[i]
  BY <1>1, <1>2
<1>3. ASSUME NEW c \in Range(q) PROVE c = Head(q) \/ c \in Range(Tail(q))
  <2>1. PICK i \in DOMAIN q : c = q[i]
    BY DEF Range
  <2>2. CASE i = 1
    BY <1>1, <2>1, <2>2
  <2>3. CASE i # 1
    BY <1>2, <2>1, <2>3 DEF Range
  <2> QED
    BY <2>2, <2>3
<1> QED
  BY <1>1, <1>3

(* start_compilation hands its job to the channel.                          *)
LEMMA SendStep == ASSUME ApiInv, NEW h \in Handlers, SendJob(h) PROVE ApiInv'
<1>1. /\ req[h].op = "send" /\ queue' = Append(queue, req[h].comp) /\ Leave(h)
      /\ UNCHANGED <<db, worker, told, reason, exempt>>
  BY DEF SendJob, Step
<1>2. queue \in Seq(Nat) /\ req[h].comp \in Nat
  BY <1>1 DEF ApiInv
<1>3. queue' \in Seq(Nat) /\ req[h].comp \in Range(queue') /\ Range(queue) \subseteq Range(queue')
  BY <1>1, <1>2, RangeAppend
<1>4. /\ DOMAIN req' = Handlers /\ req'[h] = NoOne
      /\ \A g \in Handlers \ {h} : req'[g] = req[g]
  BY <1>1 DEF ApiInv, Leave
<1>5. \A g \in Handlers : Locals(req'[g], db')
  <2>1. Locals(req'[h], db')
    BY <1>4 DEF Locals, NoOne
  <2> QED
    BY <1>1, <1>4, <2>1 DEF ApiInv
<1>6. \A g \in Handlers : req'[g].op = "send" => req'[g].comp \in Nat
  BY <1>4 DEF ApiInv, NoOne
<1>7. StuckOnlyByFault'
  <2> SUFFICES ASSUME NEW c \in DOMAIN db.comps
               PROVE  /\ db.comps[c].status = "pending" =>
                           \/ c \in Range(queue') \/ \E g \in Handlers : req'[g].op = "send" /\ req'[g].comp = c
                           \/ reason \cap Unsent(c) # {}
                      /\ db.comps[c].status = "compiling" =>
                           \/ worker.pc # "idle" /\ worker.job = c
                           \/ reason \cap ({c} \X {"error", "restart", "artifact deleted"}) # {}
    BY <1>1 DEF StuckOnlyByFault, Step, Unsent
  <2>1. ASSUME db.comps[c].status = "pending"
        PROVE  \/ c \in Range(queue') \/ \E g \in Handlers : req'[g].op = "send" /\ req'[g].comp = c
               \/ reason \cap Unsent(c) # {}
    <3>1. \/ c \in Range(queue) \/ \E g \in Handlers : req[g].op = "send" /\ req[g].comp = c
          \/ reason \cap Unsent(c) # {}
      BY <2>1 DEF ApiInv, StuckOnlyByFault, Step, Unsent
    <3> QED
      BY <1>3, <1>4, <3>1
  <2>2. ASSUME db.comps[c].status = "compiling"
        PROVE  \/ worker.pc # "idle" /\ worker.job = c
               \/ reason \cap ({c} \X {"error", "restart", "artifact deleted"}) # {}
    BY <2>2 DEF ApiInv, StuckOnlyByFault
  <2> QED
    BY <2>1, <2>2
<1>8. Told(db)' /\ BundledPluginsKept'
  BY <1>1 DEF ApiInv, Told, BundledPluginsKept
<1> QED
  BY <1>1, <1>3, <1>4, <1>5, <1>6, <1>7, <1>8 DEF ApiInv

(* A request ends before it has done all it was to do.                      *)
LEMMA AbandonStep == ASSUME ApiInv, NEW h \in Handlers, Abandon(h) PROVE ApiInv'
<1>1. /\ Leave(h) /\ UNCHANGED <<db, queue, worker, told, exempt>>
      /\ reason' = IF req[h].op = "send" THEN reason \cup {<<req[h].comp, "abandoned">>} ELSE reason
  BY DEF Abandon, Step
<1>2. /\ DOMAIN req' = Handlers /\ req'[h] = NoOne
      /\ \A g \in Handlers \ {h} : req'[g] = req[g]
  BY <1>1 DEF ApiInv, Leave
<1>3. \A g \in Handlers : Locals(req'[g], db')
  <2>1. Locals(req'[h], db')
    BY <1>2 DEF Locals, NoOne
  <2> QED
    BY <1>1, <1>2, <2>1 DEF ApiInv
<1>4. \A g \in Handlers : req'[g].op = "send" => req'[g].comp \in Nat
  BY <1>2 DEF ApiInv, NoOne
<1>5. StuckOnlyByFault'
  <2> SUFFICES ASSUME NEW c \in DOMAIN db.comps
               PROVE  /\ db.comps[c].status = "pending" =>
                           \/ c \in Range(queue) \/ \E g \in Handlers : req'[g].op = "send" /\ req'[g].comp = c
                           \/ reason' \cap Unsent(c) # {}
                      /\ db.comps[c].status = "compiling" =>
                           \/ worker.pc # "idle" /\ worker.job = c
                           \/ reason' \cap ({c} \X {"error", "restart", "artifact deleted"}) # {}
    BY <1>1 DEF StuckOnlyByFault, Step, Unsent
  <2>1. ASSUME db.comps[c].status = "pending"
        PROVE  \/ c \in Range(queue) \/ \E g \in Handlers : req'[g].op = "send" /\ req'[g].comp = c
               \/ reason' \cap Unsent(c) # {}
    <3>1. \/ c \in Range(queue) \/ \E g \in Handlers : req[g].op = "send" /\ req[g].comp = c
          \/ reason \cap Unsent(c) # {}
      BY <2>1 DEF ApiInv, StuckOnlyByFault, Step, Unsent
    <3>2. CASE req[h].op = "send" /\ req[h].comp = c
      <4>1. <<c, "abandoned">> \in reason' /\ <<c, "abandoned">> \in Unsent(c)
        BY <1>1, <3>2 DEF Unsent
      <4> QED
        BY <4>1
    <3>3. CASE ~(req[h].op = "send" /\ req[h].comp = c)
      BY <1>1, <1>2, <3>1, <3>3
    <3> QED
      BY <3>2, <3>3
  <2>2. ASSUME db.comps[c].status = "compiling"
        PROVE  \/ worker.pc # "idle" /\ worker.job = c
               \/ reason' \cap ({c} \X {"error", "restart", "artifact deleted"}) # {}
    <3>1. reason \subseteq reason'
      BY <1>1
    <3> QED
      BY <2>2, <3>1 DEF ApiInv, StuckOnlyByFault
  <2> QED
    BY <2>1, <2>2
<1>6. Told(db)' /\ BundledPluginsKept'
  BY <1>1 DEF ApiInv, Told, BundledPluginsKept
<1> QED
  BY <1>1, <1>2, <1>3, <1>4, <1>5, <1>6 DEF ApiInv

-----------------------------------------------------------------------------
(* The worker. *)

Faults(c) == {c} \X {"error", "restart", "artifact deleted"}

(* A step of the worker on its job: a row that it leaves in state compiling *)
(* is still its own, or has a fault to show for it.                         *)
LEMMA WorkerStep ==
  ASSUME ApiInv, worker.pc # "idle", Rows(db'), Grows(db, db'), db.plugins \subseteq db'.plugins,
         UNCHANGED <<queue, req, told>>, reason \subseteq reason', Holds(worker', db'), BundledPluginsKept',
         \A c \in DOMAIN db'.comps :
             /\ c \in DOMAIN db.comps
             /\ \/ db'.comps[c].status = db.comps[c].status
                \/ c = worker.job /\ db'.comps[c].status \notin {"pending", "compiling"},
         \/ worker'.pc # "idle" /\ worker'.job = worker.job
         \/ worker.job \in DOMAIN db'.comps /\ db'.comps[worker.job].status = "compiling" =>
               reason' \cap Faults(worker.job) # {}
  PROVE  ApiInv'
<1>1. \A h \in Handlers : Locals(req'[h], db')
  BY LocalsKept DEF ApiInv
<1>2. Told(db)'
  <2>1. Told(db')
    BY ToldKept DEF ApiInv
  <2> QED
    BY <2>1 DEF Told
<1>3. StuckOnlyByFault'
  <2> SUFFICES ASSUME NEW c \in DOMAIN db'.comps
               PROVE  /\ db'.comps[c].status = "pending" =>
                           \/ c \in Range(queue) \/ \E h \in Handlers : req[h].op = "send" /\ req[h].comp = c
                           \/ reason' \cap Unsent(c) # {}
                      /\ db'.comps[c].status = "compiling" =>
                           \/ worker'.pc # "idle" /\ worker'.job = c
                           \/ reason' \cap Faults(c) # {}
    BY DEF StuckOnlyByFault, Step, Unsent, Faults
  <2>1. c \in DOMAIN db.comps
    OBVIOUS
  <2>2. ASSUME db'.comps[c].status = "pending"
        PROVE  \/ c \in Range(queue) \/ \E h \in Handlers : req[h].op = "send" /\ req[h].comp = c
               \/ reason' \cap Unsent(c) # {}
    <3>1. db.comps[c].status = "pending"
      BY <2>2
    <3> QED
      BY <2>1, <3>1 DEF ApiInv, StuckOnlyByFault, Step, Unsent
  <2>3. ASSUME db'.comps[c].status = "compiling"
        PROVE  \/ worker'.pc # "idle" /\ worker'.job = c
               \/ reason' \cap Faults(c) # {}
    <3>1. db.comps[c].status = "compiling"
      BY <2>3
    <3>2. worker.job = c \/ reason \cap Faults(c) # {}
      BY <2>1, <3>1 DEF ApiInv, StuckOnlyByFault, Faults
    <3>3. CASE worker.job = c
      BY <2>3, <3>3
    <3>4. CASE reason \cap Faults(c) # {}
      BY <3>4
    <3> QED
      BY <3>2, <3>3, <3>4
  <2> QED
    BY <2>2, <2>3
<1> QED
  BY <1>1, <1>2, <1>3 DEF ApiInv

(* No table changes.                                                        *)
LEMMA WorkerMoves ==
  ASSUME ApiInv, worker.pc # "idle", UNCHANGED <<db, queue, req, told, exempt>>,
         reason \subseteq reason', Holds(worker', db),
         \/ worker'.pc # "idle" /\ worker'.job = worker.job
         \/ worker.job \in DOMAIN db.comps => reason' \cap Faults(worker.job) # {}
  PROVE  ApiInv'
<1>1. Rows(db') /\ Grows(db, db')
  BY LessGrows DEF ApiInv, Less
<1>2. BundledPluginsKept'
  BY DEF ApiInv, BundledPluginsKept
<1> QED
  BY <1>1, <1>2, WorkerStep

(* process_compilation returns an error: it leaves no row behind, or the    *)
(* reason is a fault.                                                       *)
LEMMA GiveUpStep ==
  ASSUME ApiInv, worker.pc # "idle", NEW why, GiveUp(why),
         worker.job \in DOMAIN db.comps => why \in {"error", "restart", "artifact deleted"}
  PROVE  ApiInv'
<1>1. /\ worker' = Idle /\ reason' = reason \cup {<<worker.job, why>>}
      /\ UNCHANGED <<db, queue, req, told, exempt>>
  BY DEF GiveUp, Worked
<1>2. Holds(worker', db)
  BY <1>1 DEF Holds, Idle
<1>3. ASSUME worker.job \in DOMAIN db.comps PROVE reason' \cap Faults(worker.job) # {}
  <2>1. <<worker.job, why>> \in Faults(worker.job)
    BY <1>3 DEF Faults
  <2> QED
    BY <1>1, <2>1
<1> QED
  BY <1>1, <1>2, <1>3, WorkerMoves

(* The last status of a compilation is set.                                 *)
LEMMA SettleStep ==
  ASSUME ApiInv, worker.pc # "idle", NEW status \in {"failed", "succeeded"}, NEW artifact,
         db' = SetStatus(db, worker.job, status, artifact), Worked(Idle), UNCHANGED <<queue, reason, exempt>>
  PROVE  ApiInv'
<1>1. Rows(db) /\ worker' = Idle /\ UNCHANGED <<req, told>>
  BY DEF ApiInv, Worked
<1>2. Restated(db, db', worker.job, status)
  BY <1>1, StatusSet
<1>3. Grows(db, db')
  <2>1. db.used \in [spec : Nat, comp : Nat, art : Nat] /\ DOMAIN db.specs \subseteq 1 .. db.used.spec
    BY <1>1 DEF Rows, SpecRows
  <2>2. db.used.spec <= db'.used.spec /\ db.used.comp <= db'.used.comp /\ db.used.art <= db'.used.art
    BY <1>2, <2>1 DEF Restated
  <2> QED
    BY <1>2, <2>1, <2>2 DEF Grows, Restated
<1>4. Holds(worker', db')
  BY <1>1 DEF Holds, Idle
<1>5. BundledPluginsKept'
  BY <1>2, BundlesKept DEF ApiInv, Restated
<1>6. \A c \in DOMAIN db'.comps :
        /\ c \in DOMAIN db.comps
        /\ \/ db'.comps[c].status = db.comps[c].status
           \/ c = worker.job /\ db'.comps[c].status \notin {"pending", "compiling"}
  BY <1>2 DEF Restated
<1>7. worker.job \in DOMAIN db'.comps => db'.comps[worker.job].status # "compiling"
  BY <1>2 DEF Restated
<1>8. Rows(db') /\ db'.plugins = db.plugins
  BY <1>2 DEF Restated
<1> QED
  BY <1>8, <1>1, <1>2, <1>3, <1>4, <1>5, <1>6, <1>7, WorkerStep

(* claim: the row, if it is still there and pending, becomes the worker's.  *)
LEMMA ClaimStep == ASSUME ApiInv, Claim PROVE ApiInv'
<1> DEFINE x == Head(queue)
           claimed == x \in DOMAIN db.comps /\ db.comps[x].status = "pending"
<1>1. /\ worker.pc = "idle" /\ queue # <<>> /\ queue' = Tail(queue)
      /\ db' = IF claimed THEN ClaimRow(db, x) ELSE db
      /\ worker' = IF claimed THEN [pc |-> "spec", job |-> x, row |-> db.comps[x]] ELSE Idle
      /\ UNCHANGED <<req, told, reason, exempt>>
  BY DEF Claim, Worked, WorkerAt
<1>2. /\ queue' \in Seq(Nat) /\ x \in Nat /\ Rows(db)
      /\ \A c \in Range(queue) : c = x \/ c \in Range(queue')
  BY <1>1, RangeTail DEF ApiInv
<1> HIDE DEF x
<1>3. /\ Rows(db')
      /\ db'.specs = db.specs /\ db'.revs = db.revs /\ db'.artifacts = db.artifacts /\ db'.plugins = db.plugins
      /\ db'.used = db.used /\ DOMAIN db'.comps = DOMAIN db.comps
      /\ \A c \in DOMAIN db.comps :
           /\ db'.comps[c].spec = db.comps[c].spec /\ db'.comps[c].project = db.comps[c].project
           /\ db'.comps[c].status = IF c = x /\ claimed THEN "compiling" ELSE db.comps[c].status
  <2>1. CASE claimed
    <3>1. Rows(db) /\ db' = ClaimRow(db, x) /\ x \in DOMAIN db.comps
      BY <1>1, <1>2, <2>1
    <3>2. Restated(db, db', x, "compiling")
      BY <3>1, StatusSet
    <3> QED
      BY <2>1, <3>2 DEF Restated
  <2>2. CASE ~claimed
    BY <1>1, <1>2, <2>2
  <2> QED
    BY <2>1, <2>2
<1>4. Grows(db, db')
  <2>1. db.used \in [spec : Nat, comp : Nat, art : Nat] /\ DOMAIN db.specs \subseteq 1 .. db.used.spec
    BY <1>2 DEF Rows, SpecRows
  <2>2. db.used.spec <= db'.used.spec /\ db.used.comp <= db'.used.comp /\ db.used.art <= db'.used.art
    BY <1>3, <2>1
  <2> QED
    BY <1>3, <2>1, <2>2 DEF Grows
<1>5. \A h \in Handlers : Locals(req'[h], db')
  BY <1>1, <1>2, <1>4, LocalsKept DEF ApiInv
<1>6. Told(db)'
  BY <1>1, <1>3 DEF ApiInv, Told
<1>7. Holds(worker', db')
  <2>1. CASE claimed
    <3>1. /\ DOMAIN worker' = {"pc", "job", "row"} /\ worker'.pc = "spec" /\ worker'.job = x
          /\ worker'.row = db.comps[x]
      BY <1>1, <2>1
    <3>2. x \in 1 .. db'.used.comp
      BY <1>2, <1>3, <2>1 DEF Rows, CompRows
    <3> QED
      BY <1>3, <2>1, <3>1, <3>2 DEF Holds
  <2>2. CASE ~claimed
    BY <1>1, <2>2 DEF Holds, Idle
  <2> QED
    BY <2>1, <2>2
<1>8. StuckOnlyByFault'
  <2> SUFFICES ASSUME NEW c \in DOMAIN db'.comps
               PROVE  /\ db'.comps[c].status = "pending" =>
                           \/ c \in Range(queue') \/ \E h \in Handlers : req[h].op = "send" /\ req[h].comp = c
                           \/ reason \cap Unsent(c) # {}
                      /\ db'.comps[c].status = "compiling" =>
                           \/ worker'.pc # "idle" /\ worker'.job = c
                           \/ reason \cap Faults(c) # {}
    BY <1>1 DEF StuckOnlyByFault, Step, Unsent, Faults
  <2>1. c \in DOMAIN db.comps
    BY <1>3
  <2>2. CASE c = x /\ claimed
    <3>1. db'.comps[c].status = "compiling" /\ worker'.pc = "spec" /\ worker'.job = c
      BY <1>1, <1>3, <2>1, <2>2
    <3> QED
      BY <3>1
  <2>3. CASE ~(c = x /\ claimed)
    <3>1. db'.comps[c].status = db.comps[c].status
      BY <1>3, <2>1, <2>3
    <3>2. ASSUME db.comps[c].status = "pending"
          PROVE  \/ c \in Range(queue') \/ \E h \in Handlers : req[h].op = "send" /\ req[h].comp = c
                 \/ reason \cap Unsent(c) # {}
      <4>1. c # x
        BY <2>1, <2>3, <3>2
      <4>2. \/ c \in Range(queue) \/ \E h \in Handlers : req[h].op = "send" /\ req[h].comp = c
            \/ reason \cap Unsent(c) # {}
        BY <2>1, <3>2 DEF ApiInv, StuckOnlyByFault, Step, Unsent
      <4> QED
        BY <1>2, <4>1, <4>2
    <3>3. ASSUME db.comps[c].status = "compiling" PROVE reason \cap Faults(c) # {}
      BY <1>1, <2>1, <3>3 DEF ApiInv, StuckOnlyByFault, Faults
    <3> QED
      BY <3>1, <3>2, <3>3
  <2> QED
    BY <2>2, <2>3
<1>9. BundledPluginsKept'
  BY <1>1, <1>3, BundlesKept DEF ApiInv
<1> QED
  BY <1>1, <1>2, <1>3, <1>5, <1>6, <1>7, <1>8, <1>9 DEF ApiInv

(* The claim fails: its row is as it was, or compiling, and in both cases   *)
(* the failure is on record.                                                *)
LEMMA ClaimFailsStep == ASSUME ApiInv, ClaimFails PROVE ApiInv'
<1> DEFINE x == Head(queue)
<1>1. /\ worker.pc = "idle" /\ queue # <<>> /\ queue' = Tail(queue)
      /\ \/ db' = db
         \/ /\ x \in DOMAIN db.comps
            /\ db' = ClaimRow(db, x)
      /\ reason' = reason \cup {<<x, "error">>}
      /\ UNCHANGED <<worker, req, told, exempt>>
  BY DEF ClaimFails, WorkerAt
<1>2. /\ queue' \in Seq(Nat) /\ x \in Nat /\ Rows(db)
      /\ \A c \in Range(queue) : c = x \/ c \in Range(queue')
  BY <1>1, RangeTail DEF ApiInv
<1> HIDE DEF x
<1>3. /\ Rows(db')
      /\ db'.specs = db.specs /\ db'.revs = db.revs /\ db'.artifacts = db.artifacts /\ db'.plugins = db.plugins
      /\ db'.used = db.used /\ DOMAIN db'.comps = DOMAIN db.comps
      /\ \A c \in DOMAIN db.comps :
           /\ db'.comps[c].spec = db.comps[c].spec /\ db'.comps[c].project = db.comps[c].project
           /\ c # x => db'.comps[c].status = db.comps[c].status
  <2>1. CASE x \in DOMAIN db.comps /\ db' = ClaimRow(db, x)
    <3>1. Restated(db, db', x, "compiling")
      BY <1>2, <2>1, StatusSet
    <3> QED
      BY <3>1 DEF Restated
  <2>2. CASE db' = db
    BY <1>2, <2>2
  <2> QED
    BY <1>1, <2>1, <2>2
<1>4. Grows(db, db')
  <2>1. db.used \in [spec : Nat, comp : Nat, art : Nat] /\ DOMAIN db.specs \subseteq 1 .. db.used.spec
    BY <1>2 DEF Rows, SpecRows
  <2>2. db.used.spec <= db'.used.spec /\ db.used.comp <= db'.used.comp /\ db.used.art <= db'.used.art
    BY <1>3, <2>1
  <2> QED
    BY <1>3, <2>1, <2>2 DEF Grows
<1>5. \A h \in Handlers : Locals(req'[h], db')
  BY <1>1, <1>2, <1>4, LocalsKept DEF ApiInv
<1>6. Told(db)'
  BY <1>1, <1>3 DEF ApiInv, Told
<1>7. Holds(worker', db')
  BY <1>1, <1>2, <1>3, <1>4, HoldsKept DEF ApiInv
<1>8. StuckOnlyByFault'
  <2> SUFFICES ASSUME NEW c \in DOMAIN db'.comps
               PROVE  /\ db'.comps[c].status = "pending" =>
                           \/ c \in Range(queue') \/ \E h \in Handlers : req[h].op = "send" /\ req[h].comp = c
                           \/ reason' \cap Unsent(c) # {}
                      /\ db'.comps[c].status = "compiling" => reason' \cap Faults(c) # {}
    BY <1>1 DEF StuckOnlyByFault, Step, Unsent, Faults
  <2>1. c \in DOMAIN db.comps
    BY <1>3
  <2>2. CASE c = x
    <3>1. <<c, "error">> \in reason' /\ <<c, "error">> \in Unsent(c) /\ <<c, "error">> \in Faults(c)
      BY <1>1, <2>2 DEF Unsent, Faults
    <3> QED
      BY <3>1
  <2>3. CASE c # x
    <3>1. db'.comps[c].status = db.comps[c].status /\ reason \subseteq reason'
      BY <1>1, <1>3, <2>1, <2>3
    <3>2. ASSUME db.comps[c].status = "pending"
          PROVE  \/ c \in Range(queue) \/ \E h \in Handlers : req[h].op = "send" /\ req[h].comp = c
                 \/ reason \cap Unsent(c) # {}
      BY <2>1, <3>2 DEF ApiInv, StuckOnlyByFault, Step, Unsent
    <3>3. ASSUME db.comps[c].status = "compiling" PROVE reason \cap Faults(c) # {}
      BY <1>1, <2>1, <3>3 DEF ApiInv, StuckOnlyByFault, Faults
    <3> QED
      BY <1>2, <2>3, <3>1, <3>2, <3>3
  <2> QED
    BY <2>2, <2>3
<1>9. BundledPluginsKept'
  BY <1>1, <1>3, BundlesKept DEF ApiInv
<1> QED
  BY <1>1, <1>2, <1>3, <1>5, <1>6, <1>7, <1>8, <1>9 DEF ApiInv

(* The reads of the worker and the compilation itself.                      *)
LEMMA CompileStep ==
  ASSUME ApiInv, ReadSpecs \/ ReadConfigs \/ ReadBinaries \/ CompileFails \/ CompileSucceeds
  PROVE  ApiInv'
<1>1. worker.pc \in {"spec", "configs", "binaries", "compile"} /\ worker.pc # "idle"
  BY DEF ReadSpecs, ReadConfigs, ReadBinaries, CompileFails, CompileSucceeds, WorkerAt
<1>2. /\ Rows(db) /\ Holds(worker, db) /\ worker.job \in 1 .. db.used.comp
      /\ worker.job \in DOMAIN db.comps =>
           db.comps[worker.job].spec = worker.row.spec /\ db.comps[worker.job].project = worker.row.project
  BY <1>1 DEF ApiInv, Holds
<1>3. ASSUME MarkFailed PROVE ApiInv'
  BY <1>1, <1>3, SettleStep DEF MarkFailed
<1>4. ASSUME Worked(worker'), UNCHANGED <<db, queue, reason, exempt>>, Holds(worker', db),
             worker'.pc # "idle", worker'.job = worker.job
      PROVE  ApiInv'
  BY <1>1, <1>4, WorkerMoves DEF Worked
<1>5. CASE ReadSpecs
  <2>1. CASE worker.row.spec \notin DOMAIN db.specs
    <3>1. GiveUp("no revision")
      BY <1>5, <2>1 DEF ReadSpecs
    <3>2. worker.job \notin DOMAIN db.comps
      BY <1>2, <2>1 DEF Rows, CompRows
    <3> QED
      BY <1>1, <3>1, <3>2, GiveUpStep
  <2>2. CASE worker.row.spec \in DOMAIN db.specs
    <3>1. PICK rev, contents :
            /\ worker' = [pc |-> "configs", job |-> worker.job, row |-> worker.row, rev |-> rev,
                          contents |-> contents]
            /\ Worked(worker') /\ UNCHANGED <<db, queue, reason, exempt>>
      BY <1>5, <2>2 DEF ReadSpecs, Worked
    <3>2. /\ "pc" \in DOMAIN worker' /\ worker'.pc = "configs" /\ worker'.job = worker.job
          /\ worker'.row = worker.row
      BY <3>1
    <3>3. Holds(worker', db)
      BY <1>2, <3>2 DEF Holds
    <3> QED
      BY <1>4, <3>1, <3>2, <3>3
  <2> QED
    BY <2>1, <2>2
<1>6. CASE ReadConfigs
  <2>1. CASE NotEnabled(db, worker.row.project, worker.contents) # {}
    BY <1>3, <1>6, <2>1 DEF ReadConfigs
  <2>2. CASE NotEnabled(db, worker.row.project, worker.contents) = {}
    <3>1. PICK rev, bundles :
            /\ worker' = [pc |-> "binaries", job |-> worker.job, row |-> worker.row, rev |-> rev,
                          bundles |-> bundles]
            /\ Worked(worker') /\ UNCHANGED <<db, queue, reason, exempt>>
      BY <1>6, <2>2 DEF ReadConfigs, Worked
    <3>2. /\ "pc" \in DOMAIN worker' /\ worker'.pc = "binaries" /\ worker'.job = worker.job
          /\ worker'.row = worker.row
      BY <3>1
    <3>3. Holds(worker', db)
      BY <1>2, <3>2 DEF Holds
    <3> QED
      BY <1>4, <3>1, <3>2, <3>3
  <2> QED
    BY <2>1, <2>2
<1>7. CASE ReadBinaries
  <2>1. CASE ~InRegistry(db, worker.bundles)
    BY <1>3, <1>7, <2>1 DEF ReadBinaries
  <2>2. CASE InRegistry(db, worker.bundles)
    <3>1. /\ worker' = [pc |-> "compile", job |-> worker.job, row |-> worker.row, rev |-> worker.rev,
                        bundles |-> worker.bundles, lost |-> {}]
          /\ Worked(worker') /\ UNCHANGED <<db, queue, reason, exempt>>
      BY <1>7, <2>2 DEF ReadBinaries, Worked
    <3>2. /\ DOMAIN worker' = {"pc", "job", "row", "rev", "bundles", "lost"}
          /\ worker'.pc = "compile" /\ worker'.job = worker.job
          /\ worker'.row = worker.row /\ worker'.bundles = worker.bundles
      BY <3>1
    <3>3. Holds(worker', db)
      BY <1>2, <2>2, <3>2 DEF Holds, InRegistry
    <3> QED
      BY <1>4, <3>1, <3>2, <3>3
  <2> QED
    BY <2>1, <2>2
<1>8. CASE CompileFails
  BY <1>3, <1>8 DEF CompileFails
<1>9. CASE CompileSucceeds
  <2>1. /\ worker.pc = "compile" /\ worker' = [worker EXCEPT !.pc = "create"]
        /\ Worked(worker') /\ UNCHANGED <<db, queue, reason, exempt>>
    BY <1>9 DEF CompileSucceeds, Worked, WorkerAt
  <2>2. DOMAIN worker = {"pc", "job", "row", "rev", "bundles", "lost"}
    BY <1>2, <2>1 DEF Holds
  <2>3. /\ DOMAIN worker' = DOMAIN worker /\ worker'.pc = "create" /\ worker'.job = worker.job
        /\ worker'.row = worker.row /\ worker'.bundles = worker.bundles /\ worker'.lost = worker.lost
    BY <2>1, <2>2
  <2>4. Holds(worker', db)
    BY <1>2, <2>1, <2>2, <2>3 DEF Holds
  <2> QED
    BY <1>4, <2>1, <2>3, <2>4
<1> QED
  BY <1>5, <1>6, <1>7, <1>8, <1>9

(* The artifact is stored, linked and entered in the compilation.           *)
LEMMA StoreStep == ASSUME ApiInv, CreateArtifact \/ LinkToSpec \/ MarkSucceeded PROVE ApiInv'
<1>1. worker.pc \in {"create", "link", "mark"} /\ worker.pc # "idle"
  BY DEF CreateArtifact, LinkToSpec, MarkSucceeded, WorkerAt
<1>2. /\ Rows(db) /\ Holds(worker, db) /\ worker.job \in 1 .. db.used.comp
      /\ worker.job \in DOMAIN db.comps =>
           db.comps[worker.job].spec = worker.row.spec /\ db.comps[worker.job].project = worker.row.project
  BY <1>1 DEF ApiInv, Holds
<1>3. CASE CreateArtifact /\ worker.row.project \notin db.projects
  <2>1. GiveUp("no project")
    BY <1>3 DEF CreateArtifact
  <2>2. worker.job \notin DOMAIN db.comps
    BY <1>2, <1>3 DEF Rows, CompRows
  <2> QED
    BY <1>1, <2>1, <2>2, GiveUpStep
<1>4. CASE CreateArtifact /\ worker.row.project \in db.projects
  <2> DEFINE new == db.used.art + 1
  <2>1. /\ worker.pc = "create" /\ db' = InsertArtifact(db, worker.row.project, worker.bundles)
        /\ worker' = [pc |-> "link", job |-> worker.job, row |-> worker.row, rev |-> worker.rev, art |-> new]
        /\ exempt' = exempt \cup ({new} \X worker.lost)
        /\ UNCHANGED <<queue, req, told, reason>>
    BY <1>4 DEF CreateArtifact, Worked, WorkerAt
  <2>2. /\ Rows(db') /\ db'.plugins = db.plugins
        /\ db'.specs = db.specs /\ db'.revs = db.revs /\ db'.comps = db.comps
        /\ db'.used.spec = db.used.spec /\ db'.used.comp = db.used.comp /\ db'.used.art = new
        /\ new \notin 1 .. db.used.art
        /\ DOMAIN db'.artifacts = DOMAIN db.artifacts \cup {new}
        /\ \A a \in DOMAIN db.artifacts : db'.artifacts[a] = db.artifacts[a]
        /\ db'.artifacts[new].plugins = worker.bundles
    <3>1. new = db.used.art + 1
      OBVIOUS
    <3> HIDE DEF new
    <3> QED
      BY <1>2, <2>1, <3>1, ArtifactInserted
  <2>3. /\ db.used \in [spec : Nat, comp : Nat, art : Nat] /\ db'.used \in [spec : Nat, comp : Nat, art : Nat]
        /\ DOMAIN db.specs \subseteq 1 .. db.used.spec
    BY <1>2, <2>2 DEF Rows, SpecRows
  <2>4. db.used.spec <= db'.used.spec /\ db.used.comp <= db'.used.comp /\ db.used.art <= db'.used.art
    BY <2>2, <2>3
  <2> HIDE DEF new
  <2>5. Grows(db, db')
    BY <2>2, <2>3, <2>4 DEF Grows
  <2>6. /\ "pc" \in DOMAIN worker' /\ worker'.pc = "link" /\ worker'.job = worker.job
        /\ worker'.row = worker.row
    BY <2>1
  <2>7. Holds(worker', db')
    BY <1>2, <2>2, <2>6 DEF Holds
  <2>8. BundledPluginsKept'
    <3> SUFFICES ASSUME NEW a \in DOMAIN db'.artifacts, NEW q \in db'.artifacts[a].plugins
                 PROVE  q \in db'.plugins \/ <<a, q>> \in exempt'
      BY DEF BundledPluginsKept
    <3>1. CASE a = new
      <4>1. q \in db.plugins \/ q \in worker.lost
        BY <1>2, <2>1, <2>2, <3>1 DEF Holds
      <4> QED
        BY <2>1, <2>2, <3>1, <4>1
    <3>2. CASE a \in DOMAIN db.artifacts
      BY <2>1, <2>2, <3>2 DEF ApiInv, BundledPluginsKept
    <3> QED
      BY <2>2, <3>1, <3>2
  <2> QED
    BY <1>1, <2>1, <2>2, <2>5, <2>6, <2>7, <2>8, WorkerStep
<1>5. CASE LinkToSpec
  <2>1. CASE worker.row.spec \notin DOMAIN db.specs
    <3>1. GiveUp("no spec to link")
      BY <1>5, <2>1 DEF LinkToSpec
    <3>2. worker.job \notin DOMAIN db.comps
      BY <1>2, <2>1 DEF Rows, CompRows
    <3> QED
      BY <1>1, <3>1, <3>2, GiveUpStep
  <2>2. CASE worker.row.spec \in DOMAIN db.specs /\ worker.art \notin DOMAIN db.artifacts
    <3>1. GiveUp("artifact deleted")
      BY <1>5, <2>2 DEF LinkToSpec
    <3> QED
      BY <1>1, <3>1, GiveUpStep
  <2>3. CASE worker.row.spec \in DOMAIN db.specs /\ worker.art \in DOMAIN db.artifacts
    <3>1. /\ db' = InsertLink(db, worker.art, worker.row.spec, worker.rev)
          /\ worker' = [worker EXCEPT !.pc = "mark"]
          /\ UNCHANGED <<queue, req, told, reason, exempt>>
      BY <1>5, <2>3 DEF LinkToSpec, Worked
    <3>2. Rows(db') /\ Less(db, db') /\ Grows(db, db')
      BY <1>2, <3>1, LinkInserted, LessGrows
    <3>3. "pc" \in DOMAIN worker
      BY <1>2 DEF Holds
    <3>4. /\ "pc" \in DOMAIN worker' /\ worker'.pc = "mark" /\ worker'.job = worker.job
          /\ worker'.row = worker.row
      BY <3>1, <3>3
    <3>5. Holds([worker EXCEPT !.pc = "mark"], db)
      BY <1>2, <3>1, <3>4 DEF Holds
    <3>6. Holds(worker', db')
      BY <1>2, <3>1, <3>2, <3>5, HoldsKept DEF Less
    <3>7. BundledPluginsKept'
      BY <3>1, <3>2, BundlesKept DEF ApiInv, Less
    <3> QED
      BY <1>1, <3>1, <3>2, <3>4, <3>6, <3>7, WorkerStep DEF Less
  <2> QED
    BY <2>1, <2>2, <2>3
<1>6. CASE MarkSucceeded
  <2>1. CASE worker.job \in DOMAIN db.comps /\ worker.art \notin DOMAIN db.artifacts
    <3>1. GiveUp("artifact deleted")
      BY <1>6, <2>1 DEF MarkSucceeded
    <3> QED
      BY <1>1, <3>1, GiveUpStep
  <2>2. CASE ~(worker.job \in DOMAIN db.comps /\ worker.art \notin DOMAIN db.artifacts)
    <3>1. /\ db' = SetStatus(db, worker.job, "succeeded", {worker.art}) /\ Worked(Idle)
          /\ UNCHANGED <<queue, reason, exempt>>
      BY <1>6, <2>2 DEF MarkSucceeded
    <3> QED
      BY <1>1, <3>1, SettleStep
  <2> QED
    BY <2>1, <2>2
<1> QED
  BY <1>3, <1>4, <1>5, <1>6

(* A statement of the worker fails, or the process starts again.            *)
LEMMA FaultStep == ASSUME ApiInv, WorkerError \/ Restart PROVE ApiInv'
<1>1. CASE WorkerError
  <2>1. /\ worker.pc # "idle" /\ worker' = Idle /\ UNCHANGED <<db, queue, req, told, exempt>>
        /\ reason' = reason \cup {<<worker.job, "error">>}
    BY <1>1 DEF WorkerError
  <2>2. Holds(worker', db)
    BY <2>1 DEF Holds, Idle
  <2>3. reason' \cap Faults(worker.job) # {}
    <3>1. <<worker.job, "error">> \in Faults(worker.job)
      BY DEF Faults
    <3> QED
      BY <2>1, <3>1
  <2> QED
    BY <2>1, <2>2, <2>3, WorkerMoves
<1>2. CASE Restart
  <2> DEFINE open == {c \in DOMAIN db.comps : db.comps[c].status \in {"pending", "compiling"}}
  <2>1. /\ queue' = <<>> /\ worker' = Idle /\ req' = [h \in Handlers |-> NoOne]
        /\ reason' = reason \cup (open \X {"restart"}) /\ UNCHANGED <<db, told, exempt>>
    BY <1>2 DEF Restart
  <2>2. /\ DOMAIN req' = Handlers /\ queue' \in Seq(Nat)
        /\ \A h \in Handlers : Locals(req'[h], db') /\ req'[h].op # "send"
    <3>1. "op" \in DOMAIN NoOne /\ NoOne.op \notin {"create", "update", "insert", "delete plugin", "send"}
      BY DEF NoOne
    <3>2. Locals(NoOne, db')
      BY <3>1 DEF Locals
    <3>3. DOMAIN req' = Handlers /\ \A h \in Handlers : req'[h] = NoOne
      BY <2>1
    <3>4. queue' \in Seq(Nat)
      BY <2>1
    <3> QED
      BY <3>1, <3>2, <3>3, <3>4
  <2>3. Holds(worker', db')
    BY <2>1 DEF Holds, Idle
  <2>4. StuckOnlyByFault'
    <3>1. \A c \in open : /\ <<c, "restart">> \in reason'
                           /\ <<c, "restart">> \in Faults(c) /\ <<c, "restart">> \in Unsent(c)
      BY <2>1 DEF Faults, Unsent
    <3>2. \A c \in open : reason' \cap Faults(c) # {} /\ reason' \cap Unsent(c) # {}
      BY <3>1
    <3> QED
      BY <2>1, <3>2 DEF StuckOnlyByFault, Faults, Unsent
  <2>5. Told(db)' /\ BundledPluginsKept'
    BY <2>1 DEF ApiInv, Told, BundledPluginsKept
  <2> QED
    BY <2>1, <2>2, <2>3, <2>4, <2>5 DEF ApiInv
<1> QED
  BY <1>1, <1>2

-----------------------------------------------------------------------------
(* The theorems. *)

(* Every step.                                                              *)
LEMMA ApiStep == ASSUME ApiInv, [Next]_vars PROVE ApiInv'
<1>1. CASE UNCHANGED vars
  <2>1. Rows(db') /\ Less(db, db')
    BY <1>1 DEF vars, ApiInv, Less
  <2> QED
    BY <1>1, <2>1, LessStep DEF vars
<1>2. CASE Api
  <2>1. ASSUME NEW h \in Handlers, NEW s \in DOMAIN db.specs, NEW x \in SUBSET (DOMAIN db.specs),
               StartCompilation(h, s, x)
        PROVE  ApiInv'
    BY <2>1, CompilationStarts
  <2> QED
    BY <1>2, <2>1, OneStatement, RequestEnters DEF Api
<1>3. ASSUME NEW h \in Handlers, Continue(h) PROVE ApiInv'
  BY <1>3, CreateStep, ReadsMaxStep, InsertStep, DeletePluginStep, SendStep, AbandonStep
    DEF Continue
<1>4. CASE Work
  BY <1>4, ClaimStep, CompileStep, StoreStep DEF Work
<1> QED
  BY <1>1, <1>2, <1>3, <1>4, ClaimFailsStep, FaultStep DEF Next

(* The tables as an earlier run has left them.                              *)
LEMMA ApiInit == Init => ApiInv
<1> SUFFICES ASSUME Init PROVE ApiInv
  OBVIOUS
<1>1. PICK p \in Projects, n \in SpecNames, c \in Content : db = Populated(p, n, c)
  BY DEF Init
<1>2. /\ queue = <<>> /\ worker = Idle /\ req = [h \in Handlers |-> NoOne]
      /\ told = {} /\ reason = {} /\ exempt = {}
  BY DEF Init
<1>3. /\ DOMAIN db = Tables /\ db.projects = Projects /\ db.plugins = Plugins
      /\ db.used = [spec |-> 1, comp |-> 0, art |-> 0]
      /\ DOMAIN db.specs = {1} /\ DOMAIN db.revs = {1}
      /\ db.specs[1] = [project |-> p, name |-> n, head |-> c] /\ db.revs[1] = <<c>>
      /\ DOMAIN db.artifacts = {} /\ DOMAIN db.comps = {}
  BY <1>1 DEF Tables, Populated
<1>4. /\ DOMAIN db.configs = {<<p, pl[1]>> : pl \in Plugins}
      /\ \A k \in DOMAIN db.configs : db.configs[k].version = CHOOSE v \in Versions(k[2]) : TRUE
  BY <1>1 DEF Populated
<1>5. ConfigRows(db)
  <2> SUFFICES ASSUME NEW k \in DOMAIN db.configs
               PROVE  k = <<k[1], k[2]>> /\ <<k[2], db.configs[k].version>> \in db.plugins
    BY DEF ConfigRows
  <2>1. PICK pl \in Plugins : k = <<p, pl[1]>>
    BY <1>4
  <2>2. k = <<k[1], k[2]>> /\ k[2] = pl[1]
    BY <2>1
  <2>3. pl[2] \in Versions(k[2])
    BY <2>2 DEF Versions
  <2>4. db.configs[k].version \in Versions(k[2])
    BY <1>4, <2>3
  <2>5. PICK q \in Plugins : q[1] = k[2] /\ q[2] = db.configs[k].version
    BY <2>4 DEF Versions
  <2>6. q = <<q[1], q[2]>>
    BY ApiAssumption
  <2> QED
    BY <1>3, <2>2, <2>5, <2>6
<1>6. SpecRows(db)
  <2>1. db.specs[1] \in [project : db.projects, name : SpecNames, head : Content]
    BY <1>3
  <2>2. <<c>> \in Seq(Content) /\ <<c>> # <<>> /\ Len(<<c>>) = 1 /\ <<c>>[1] = c
    OBVIOUS
  <2>3. db.specs[1].head = c /\ db.used.spec = 1 /\ 1 .. 1 = {1}
    BY <1>3
  <2>4. db.specs[1].head = db.revs[1][Len(db.revs[1])]
    BY <1>3, <2>2, <2>3
  <2>5. DOMAIN db.specs \subseteq 1 .. db.used.spec /\ DOMAIN db.revs = DOMAIN db.specs
    BY <1>3, <2>3
  <2>6. db.revs[1] \in Seq(Content) /\ db.revs[1] # <<>>
    BY <1>3, <2>2
  <2> QED
    BY <1>3, <2>1, <2>4, <2>5, <2>6 DEF SpecRows
<1>7. Rows(db)
  BY <1>3, <1>5, <1>6 DEF Rows, CompRows, ArtifactRows
<1>8. DOMAIN req = Handlers /\ \A h \in Handlers : Locals(req[h], db) /\ req[h].op # "send"
  BY <1>2 DEF Locals, NoOne
<1>9. Holds(worker, db) /\ Told(db) /\ queue \in Seq(Nat)
  BY <1>2 DEF Holds, Idle, Told
<1>10. StuckOnlyByFault /\ BundledPluginsKept
  BY <1>3 DEF StuckOnlyByFault, BundledPluginsKept
<1> QED
  BY <1>7, <1>8, <1>9, <1>10 DEF ApiInv

(* The invariant of the API and its worker.                                 *)
THEOREM ApiInvHolds == Spec => []ApiInv
BY ApiInit, ApiStep, PTL DEF Spec

(* Whatever requests, deletions, compilations and restarts are interleaved, *)
(* the tables stay consistent with one another: every spec has revisions    *)
(* and a project, every compilation its spec and project, every             *)
(* configuration a version in the registry.                                 *)
THEOREM TablesStaySound == Spec => []Rows(db)
<1>1. ApiInv => Rows(db)
  BY DEF ApiInv
<1> QED
  BY <1>1, ApiInvHolds, PTL

(* The revision number a caller was answered with is the number of its      *)
(* content, whatever other uploads and patches of the spec were in flight   *)
(* (SpecsRepository::update).                                               *)
THEOREM RevisionsStayTold == Spec => []RevisionsAreTold
<1>1. ApiInv => RevisionsAreTold
  BY DEF ApiInv, Told, Rows, SpecRows, RevisionsAreTold, Latest, Last
<1> QED
  BY <1>1, ApiInvHolds, PTL

(* A compilation that nobody works on is settled or has met a fault: no     *)
(* deletion under the worker leaves one behind (process_compilation).       *)
THEOREM StuckNeedsFault == Spec => []StuckOnlyByFault
<1>1. ApiInv => StuckOnlyByFault
  BY DEF ApiInv
<1> QED
  BY <1>1, ApiInvHolds, PTL

(* What the compliance check lets through finds its plugins.                *)
LEMMA CompliantResolves == ASSUME Rows(db) PROVE CompliantSpecResolves
<1> SUFFICES ASSUME NEW s \in DOMAIN db.specs, db.specs[s].project # DefaultProject, 
                    SpecCompliance(db, s, {"registry", "configs"}) = {}
             PROVE  /\ NotEnabled(db, db.specs[s].project, {Latest(db, s)}) = {}
                    /\ InRegistry(db, Wanted(db, db.specs[s].project, {Latest(db, s)}))
  BY DEF CompliantSpecResolves
<1> DEFINE p == db.specs[s].project
           c == Latest(db, s)
<1>1. CheckCompliance(db, c, {p}, {"registry", "configs"}) = {}
  BY DEF SpecCompliance
<1> HIDE DEF p, c
<1>2. ASSUME NEW u \in c.uses PROVE u.name \in Enabled(db, p)
  <2>1. u.name \in Registered(db)
    BY <1>1 DEF CheckCompliance
  <2> QED
    BY <1>1, <2>1 DEF CheckCompliance
<1>3. \A n \in Referenced({c}) : n \in Enabled(db, p)
  BY <1>2 DEF Referenced
<1>4. ASSUME NEW n \in Referenced({c}) PROVE <<n, db.configs[<<p, n>>].version>> \in db.plugins
  <2>1. PICK k \in DOMAIN db.configs : k[1] = p /\ k[2] = n
    BY <1>3 DEF Enabled
  <2>2. k = <<k[1], k[2]>> /\ <<k[2], db.configs[k].version>> \in db.plugins
    BY DEF Rows, ConfigRows
  <2>3. k = <<p, n>>
    BY <2>1, <2>2
  <2> QED
    BY <2>1, <2>2, <2>3
<1>5. NotEnabled(db, p, {c}) = {}
  BY <1>3 DEF NotEnabled
<1>6. InRegistry(db, Wanted(db, p, {c}))
  BY <1>4 DEF InRegistry, Wanted
<1> QED
  BY <1>5, <1>6 DEF p, c

(* An artifact's plugins are in the registry unless a deletion raced its    *)
(* making, and a spec without warnings resolves when it is compiled         *)
(* (delete_plugin, resolve_project_plugins).                                *)
THEOREM PluginsAlwaysResolve == Spec => []PluginsResolve
<1>1. ApiInv => PluginsResolve
  BY CompliantResolves DEF ApiInv, PluginsResolve
<1> QED
  BY <1>1, ApiInvHolds, PTL

=============================================================================
