------------------------------ MODULE Compiler ------------------------------
(***************************************************************************)
(* `barbacane compile`: read the specs, resolve the plugins they use,      *)
(* check and flatten the operations (barbacane-compiler/src/artifact.rs,   *)
(* manifest.rs, cache.rs, download.rs).  Sealing and loading the artifact  *)
(* are in Artifact.                                                        *)
(*                                                                         *)
(* The compiler shares its inputs with others: specs are edited while it   *)
(* runs, the server publishes releases of a plugin, and another compiler   *)
(* writes the same entry of the download cache.                            *)
(*                                                                         *)
(* A plugin reference is [base, version]; a config is what is told apart   *)
(* in it: the secrets it refers to, the scheme of its upstream URL, and    *)
(* whether a secret field holds a literal.                                 *)
(***************************************************************************)
EXTENDS SpecParser, TLC

CONSTANTS
    Files,        \* the spec files, a sequence of their names
    Docs,         \* what each file may contain
    Declared,     \* barbacane.yaml: name -> [kind, release, pin]
    Releases,     \* name -> sequence of [wasm, toml] published under its URL
    Options,      \* [allowPlaintext, maxDepth, maxProps, noCache]
    MaxEdits      \* bound: edits of specs, publications, and foreign downloads

\* There is at least one file, and a plugin declared by its URL is published there.
ASSUME CompilerAssumption ==
    /\ Len(Files) \in Nat \ {0} /\ DOMAIN Files = 1 .. Len(Files)
    /\ IsFiniteSet(DOMAIN Declared)
    /\ \A n \in DOMAIN Declared : Declared[n].kind = "url" => n \in DOMAIN Releases

VARIABLES
    disk,      \* contents of the spec files
    pc,        \* the step the compiler is at
    contents,  \* first read of each file: embedded and hashed
    parsed,    \* specs parsed, from a second read of each file
    torn,      \* ghost: files edited between their two reads
    upstream,  \* release the server has under each URL
    cache,     \* ~/.barbacane/cache/plugins: name -> [wasm, toml]
    fetch,     \* locals of resolve_url_plugin
    bundles,   \* plugins resolved, in the order of a HashSet
    ops,       \* operations compiled
    warnings,  \* warning codes with the operation they are about
    edits      \* events counted by MaxEdits

compilerVars ==
    <<disk, pc, contents, parsed, torn, upstream, cache, fetch, bundles, ops, warnings, edits>>

NoFetch == [step |-> "none"]

normalize_plugin_name(ref) == ref.base

\* The cache is empty, or an earlier compilation filled it.
CompilerInit ==
    /\ disk \in {f \in [Range(Files) -> UNION Range(Docs)] : \A n \in Range(Files) : f[n] \in Docs[n]}
    /\ pc = "read" /\ contents = <<>> /\ parsed = <<>> /\ torn = {}
    /\ \E r \in 1 .. 2, warm \in BOOLEAN :
         /\ upstream = [n \in DOMAIN Releases |-> IF r > Len(Releases[n]) THEN 1 ELSE r]
         /\ cache = [n \in DOMAIN Releases |->
                IF warm THEN [wasm |-> {Releases[n][upstream[n]].wasm},
                              toml |-> Releases[n][upstream[n]].toml]
                ELSE [wasm |-> {}, toml |-> {}]]
    /\ fetch = NoFetch /\ bundles = <<>> /\ ops = <<>> /\ warnings = {} /\ edits = 0

-----------------------------------------------------------------------------
(* The world around the compiler *)

EditSpec(f, d) ==
    /\ edits < MaxEdits /\ pc \in {"read", "parse"} /\ d # disk[f]
    /\ disk' = [disk EXCEPT ![f] = d]
    /\ torn' = IF pc = "parse" /\ f = Files[Len(parsed) + 1] THEN torn \cup {f} ELSE torn
    /\ edits' = edits + 1
    /\ UNCHANGED <<pc, contents, parsed, upstream, cache, fetch, bundles, ops, warnings>>

Publish(n) ==
    /\ edits < MaxEdits /\ pc = "resolve" /\ upstream[n] < Len(Releases[n])
    /\ upstream' = [upstream EXCEPT ![n] = @ + 1]
    /\ edits' = edits + 1
    /\ UNCHANGED <<disk, pc, contents, parsed, torn, cache, fetch, bundles, ops, warnings>>

\* Another compiler is somewhere in PluginCache::put.
ForeignPut(n, r) ==
    /\ edits < MaxEdits /\ pc = "resolve" /\ r \in 1 .. upstream[n]
    /\ \/ cache' = [cache EXCEPT ![n].wasm = {Releases[n][r].wasm}]
       \/ Releases[n][r].toml # {} /\ cache' = [cache EXCEPT ![n].toml = Releases[n][r].toml]
    /\ edits' = edits + 1
    /\ UNCHANGED <<disk, pc, contents, parsed, torn, upstream, fetch, bundles, ops, warnings>>

-----------------------------------------------------------------------------
(* parse_specs reads each file twice: read_to_string keeps the content for *)
(* the artifact and hashes it, parse_spec_file reads it again.             *)

ReadSpec ==
    /\ pc = "read"
    /\ contents' = Append(contents, disk[Files[Len(contents) + 1]])
    /\ pc' = "parse"
    /\ UNCHANGED <<disk, parsed, torn, upstream, cache, fetch, bundles, ops, warnings, edits>>

parse_spec_file(f) == parse_spec(disk[f])

ParseSpec ==
    /\ pc = "parse"
    /\ LET spec == parse_spec_file(Files[Len(parsed) + 1])
       IN \/ spec = {} /\ pc' = "failed" /\ UNCHANGED parsed
          \/ /\ spec # {}
             /\ parsed' = Append(parsed, The(spec))
             /\ pc' = IF Len(parsed') = Len(Files) THEN "validate" ELSE "read"
    /\ UNCHANGED <<disk, contents, torn, upstream, cache, fetch, bundles, ops, warnings, edits>>

-----------------------------------------------------------------------------
(* Plugins: manifest.rs, cache.rs, download.rs *)

RefsOfSpec(spec) ==
    {spec.mws[i].name : i \in DOMAIN spec.mws}
    \cup UNION {{d.name : d \in op.dispatch} : op \in Range(spec.ops)}
    \cup UNION {UNION {{mws[i].name : i \in DOMAIN mws} : mws \in op.mws} : op \in Range(spec.ops)}

extract_plugin_names(specs) ==
    {normalize_plugin_name(r) : r \in UNION {RefsOfSpec(s) : s \in Range(specs)}}

\* E1040 for a plugin that barbacane.yaml does not declare.
ValidateSpecs ==
    /\ pc = "validate"
    /\ pc' = IF extract_plugin_names(parsed) \subseteq DOMAIN Declared THEN "resolve" ELSE "failed"
    /\ UNCHANGED <<disk, contents, parsed, torn, upstream, cache, fetch, bundles, ops, warnings, edits>>

Unresolved == extract_plugin_names(parsed) \ {bundles[i].name : i \in DOMAIN bundles}

NoMetadata == [version |-> "0.1.0", type |-> "plugin", body |-> FALSE, fns |-> {}]

(* resolve_plugin, once it has the bytes: the manifest embedded in the     *)
(* WASM is preferred to plugin.toml; without either nothing is declared.   *)
Bundle(n, wasm, toml, secretFields) ==
    LET meta == OrElse(wasm.embedded, OrElse(toml, NoMetadata))
    IN [name |-> n, version |-> meta.version, type |-> meta.type, body |-> meta.body,
        fns |-> meta.fns, wasm |-> wasm, secret |-> secretFields]

\* A file without the WASM magic number is an error.
AddBundle(n, wasm, toml, secretFields) ==
    IF wasm.magic
    THEN bundles' = Append(bundles, Bundle(n, wasm, toml, secretFields)) /\ UNCHANGED pc
    ELSE pc' = "failed" /\ UNCHANGED bundles

ResolvePath(n) ==
    /\ pc = "resolve" /\ fetch = NoFetch /\ n \in Unresolved /\ Declared[n].kind = "path"
    /\ AddBundle(n, Declared[n].release.wasm, Declared[n].release.toml, TRUE)
    /\ UNCHANGED <<disk, contents, parsed, torn, upstream, cache, fetch, ops, warnings, edits>>

(* Mutant: the cached file is used without comparing its checksum. *)
CacheGetUnchecked(n) ==
    /\ pc = "resolve" /\ fetch = NoFetch /\ n \in Unresolved /\ Declared[n].kind = "url"
    /\ fetch' = IF ~Options.noCache /\ cache[n].wasm # {}
                THEN [step |-> "cached", name |-> n, wasm |-> The(cache[n].wasm)]
                ELSE [step |-> "download", name |-> n]
    /\ UNCHANGED <<disk, pc, contents, parsed, torn, upstream, cache, bundles, ops, warnings, edits>>

(* PluginCache::get reads the WASM and compares the checksum, if one is    *)
(* pinned; the plugin.toml beside it is read after that.                   *)
CacheGet(n) ==
    /\ pc = "resolve" /\ fetch = NoFetch /\ n \in Unresolved /\ Declared[n].kind = "url"
    /\ fetch' = IF /\ ~Options.noCache /\ cache[n].wasm # {}
                   /\ Declared[n].pin \subseteq cache[n].wasm
                THEN [step |-> "cached", name |-> n, wasm |-> The(cache[n].wasm)]
                ELSE [step |-> "download", name |-> n]
    /\ UNCHANGED <<disk, pc, contents, parsed, torn, upstream, cache, bundles, ops, warnings, edits>>

CacheGetToml ==
    /\ fetch.step = "cached"
    /\ AddBundle(fetch.name, fetch.wasm, cache[fetch.name].toml, FALSE)
    /\ fetch' = NoFetch
    /\ UNCHANGED <<disk, contents, parsed, torn, upstream, cache, ops, warnings, edits>>

\* The request fails, is refused, or the body is too large.
DownloadFails ==
    /\ fetch.step = "download"
    /\ pc' = "failed" /\ fetch' = NoFetch
    /\ UNCHANGED <<disk, contents, parsed, torn, upstream, cache, bundles, ops, warnings, edits>>

download_plugin ==
    /\ fetch.step = "download"
    /\ fetch' = [step |-> "toml", name |-> fetch.name,
                 wasm |-> Releases[fetch.name][upstream[fetch.name]].wasm]
    /\ UNCHANGED <<disk, pc, contents, parsed, torn, upstream, cache, bundles, ops, warnings, edits>>

(* The plugin.toml is a second request, whose failure is ignored; then the *)
(* checksum is compared and the WASM is written to the cache.              *)
FetchToml ==
    /\ fetch.step = "toml"
    /\ \E toml \in {{}, Releases[fetch.name][upstream[fetch.name]].toml} :
         IF ~(Declared[fetch.name].pin \subseteq {fetch.wasm})
         THEN pc' = "failed" /\ fetch' = NoFetch /\ UNCHANGED cache
         ELSE /\ fetch' = [step |-> "put", name |-> fetch.name, wasm |-> fetch.wasm, toml |-> toml]
              /\ cache' = IF Options.noCache THEN cache
                          ELSE [cache EXCEPT ![fetch.name].wasm = {fetch.wasm}]
              /\ UNCHANGED pc
    /\ UNCHANGED <<disk, contents, parsed, torn, upstream, bundles, ops, warnings, edits>>

\* Without a plugin.toml, one of an earlier download stays in the cache.
PutToml ==
    /\ fetch.step = "put"
    /\ cache' = IF Options.noCache \/ fetch.toml = {} THEN cache
                ELSE [cache EXCEPT ![fetch.name].toml = fetch.toml]
    /\ AddBundle(fetch.name, fetch.wasm, fetch.toml, FALSE)
    /\ fetch' = NoFetch
    /\ UNCHANGED <<disk, contents, parsed, torn, upstream, ops, warnings, edits>>

Resolved ==
    /\ pc = "resolve" /\ fetch = NoFetch /\ Unresolved = {}
    /\ pc' = "check"
    /\ UNCHANGED <<disk, contents, parsed, torn, upstream, cache, fetch, bundles, ops, warnings, edits>>

-----------------------------------------------------------------------------
(* compile_inner: the operations of all specs, one after the other *)

resolve_middlewares(global, own) ==
    IF own = {} THEN global
    ELSE IF The(own) = <<>> THEN <<>>
    ELSE SelectSeq(global, LAMBDA g : g.name \notin {The(own)[i].name : i \in DOMAIN The(own)})
         \o The(own)

\* The first spec that has the extension.
extract_root_mcp_config(specs) ==
    LET having == SelectSeq(specs, LAMBDA s : s.mcp # {})
    IN IF having = <<>> THEN [enabled |-> FALSE, server |-> {}] ELSE The(having[1].mcp)

\* The operation's flag, else that of the root when it is on.
resolve_mcp_config(root, own) ==
    LET flag == UNION {e.enabled : e \in own}
    IN IF flag # {} THEN flag ELSE IF root.enabled THEN {TRUE} ELSE {}

extract_upstream_url(config) == config.url

validate_schema_complexity(schema) ==
    schema.depth <= Options.maxDepth /\ schema.props <= Options.maxProps

ComplexityOk(op) ==
    /\ \A p \in Range(op.params) : \A s \in p.schema : validate_schema_complexity(s)
    /\ \A b \in op.body : \A i \in DOMAIN b.content :
          \A s \in b.content[i] : validate_schema_complexity(s)

\* E1070, for plugins resolved with their schema.
scan_plaintext_secrets(entry) ==
    /\ entry.config.literal
    /\ \E i \in DOMAIN bundles : bundles[i].name = normalize_plugin_name(entry.name) /\ bundles[i].secret

(* The operation at position k of the specs laid end to end, with the      *)
(* middlewares of its spec.                                                *)
Flat == FlattenSeq([i \in DOMAIN parsed |->
            [k \in DOMAIN parsed[i].ops |-> [spec |-> parsed[i], op |-> parsed[i].ops[k]]]])

(* E1054, E1055, E1010, E1050, E1020, E1031, E1011, E1051 and E1052.  What *)
(* was seen before is what the operations compiled so far declare.         *)
CheckedOperation(spec, op) ==
    LET chain == resolve_middlewares(spec.mws, op.mws)
    IN /\ \A i \in DOMAIN spec.mws : spec.mws[i].name.base # ""
       /\ op.path.valid
       /\ \A o \in Range(ops) :
             /\ o.id \cap op.id = {}
             /\ o.method = op.method =>
                   o.path.text # op.path.text /\ o.path.shape # op.path.shape
       /\ op.dispatch # {}
       /\ Options.allowPlaintext \/ extract_upstream_url(The(op.dispatch).config) # "http"
       /\ \A i \in DOMAIN chain : chain[i].name.base # ""
       /\ ComplexityOk(op)

OperationWarnings(op, chain, mcp) ==
    {[code |-> "E1070", text |-> op.path.text] :
        e \in {e \in Range(chain) \cup op.dispatch : scan_plaintext_secrets(e)}}
    \cup {[code |-> "E1060", text |-> op.path.text] : x \in {x \in {1} : mcp = {TRUE} /\ op.id = {}}}
    \cup {[code |-> "E1061", text |-> op.path.text] : x \in {x \in {1} : mcp = {TRUE} /\ ~op.described}}

CheckOperation ==
    /\ pc = "check" /\ Len(ops) < Len(Flat)
    /\ LET next == Flat[Len(ops) + 1]
           chain == resolve_middlewares(next.spec.mws, next.op.mws)
           mcp == resolve_mcp_config(extract_root_mcp_config(parsed), next.op.mcp)
       IN \/ ~CheckedOperation(next.spec, next.op) /\ pc' = "failed" /\ UNCHANGED <<ops, warnings>>
          \/ /\ CheckedOperation(next.spec, next.op)
             /\ ops' = Append(ops, [index |-> Len(ops) + 1, path |-> next.op.path,
                          method |-> next.op.method, id |-> next.op.id, params |-> next.op.params,
                          body |-> next.op.body, dispatch |-> The(next.op.dispatch),
                          mws |-> chain, mcp |-> mcp])
             /\ warnings' = warnings \cup OperationWarnings(next.op, chain, mcp)
             /\ UNCHANGED pc
    /\ UNCHANGED <<disk, contents, parsed, torn, upstream, cache, fetch, bundles, edits>>

\* E1011 of a spec without operations is met when nothing is left to check.
Checked ==
    /\ pc = "check" /\ Len(ops) = Len(Flat)
    /\ pc' = IF \E s \in Range(parsed) : \E i \in DOMAIN s.mws : s.mws[i].name.base = ""
             THEN "failed" ELSE "seal"
    /\ UNCHANGED <<disk, contents, parsed, torn, upstream, cache, fetch, bundles, ops, warnings, edits>>

CompilerNext ==
    \/ \E f \in Range(Files) : \E d \in Docs[f] : EditSpec(f, d)
    \/ \E n \in DOMAIN Releases : Publish(n) \/ \E r \in DOMAIN Releases[n] : ForeignPut(n, r)
    \/ ReadSpec \/ ParseSpec \/ ValidateSpecs
    \/ \E n \in DOMAIN Declared : ResolvePath(n) \/ CacheGet(n)
    \/ CacheGetToml \/ DownloadFails \/ download_plugin \/ FetchToml \/ PutToml
    \/ Resolved \/ CheckOperation \/ Checked

=============================================================================
