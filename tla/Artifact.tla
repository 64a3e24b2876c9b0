------------------------------ MODULE Artifact ------------------------------
(***************************************************************************)
(* The end of the compilation (the .bca archive with its manifest, hash    *)
(* and signature) and Gateway::load, which verifies the archive and builds *)
(* the tables requests are served from (artifact.rs, main.rs, secrets.rs,  *)
(* validate.rs, pool.rs).  Between the two the archive is copied about and *)
(* one of its members may be damaged, or a plugin replaced in both places. *)
(*                                                                         *)
(* A hash is the hashed value itself, a signature the key with the hash it *)
(* signs.                                                                  *)
(***************************************************************************)
EXTENDS Compiler

CONSTANTS
    SigningKey,   \* BARBACANE_SIGNING_KEY of the compiler, optional
    TrustedKey,   \* BARBACANE_TRUSTED_PUBKEY of the gateway, optional
    Env,          \* secret references that can be resolved on the gateway
    CoreImports   \* host functions that are part of the plugin contract

VARIABLES
    archive,   \* the .bca file
    sealed,    \* ghost: the .bca file as it was written
    gw         \* the gateway

vars == <<compilerVars, archive, sealed, gw>>

None == [state |-> "none"]
Refused == [state |-> "refused"]

Init == CompilerInit /\ archive = None /\ sealed = None /\ gw = None

\* A fixed order of names, for what the code sorts by name.
Rank(names, n) == CHOOSE i \in 1 .. Cardinality(names) : SetToSeq(names)[i] = n

-----------------------------------------------------------------------------
(* Sealing *)

(* Sorted by name: the i-th is the bundle whose name has i - 1 names of    *)
(* bundles before it.                                                      *)
BundledPlugins(bs) ==
    LET order == SetToSeq(DOMAIN Declared)
        places == {k \in DOMAIN order : order[k] \in {b.name : b \in Range(bs)}}
        Nth(i) == CHOOSE k \in places : Cardinality({j \in places : j < k}) = i - 1
        Bundled(b) == [name |-> b.name, version |-> b.version, type |-> b.type,
                       body |-> b.body, fns |-> b.fns, sha |-> b.wasm]
    IN [i \in DOMAIN bs |-> Bundled(CHOOSE b \in Range(bs) : b.name = order[Nth(i)])]

(* Mutant: sorted, with the indices of the old order. *)
SortedOldIndex(list) ==
    LET methods == {list[i].method : i \in DOMAIN list}
    IN SortSeq(list, LAMBDA a, b :
            \/ a.path.text < b.path.text
            \/ a.path.text = b.path.text /\ Rank(methods, a.method) < Rank(methods, b.method))

\* Sorted by path, then method; indices follow the new order.
SortedOperations(list) ==
    LET methods == {list[i].method : i \in DOMAIN list}
        sorted == SortSeq(list, LAMBDA a, b :
            \/ a.path.text < b.path.text
            \/ a.path.text = b.path.text /\ Rank(methods, a.method) < Rank(methods, b.method))
    IN [i \in DOMAIN sorted |-> [sorted[i] EXCEPT !.index = i]]

SourceSpecs(texts) ==
    SortSeq([i \in DOMAIN Files |-> [file |-> Files[i], sha |-> texts[i]]],
        LAMBDA a, b : Rank(Range(Files), a.file) < Rank(Range(Files), b.file))

\* The server is named after the first spec unless it is given a name.
ManifestMcp ==
    LET cfg == extract_root_mcp_config(parsed)
    IN IF cfg.enabled /\ cfg.server = {} THEN [cfg EXCEPT !.server = {parsed[1].title}] ELSE cfg

(* Mutant: the hash does not cover what the plugins may do. *)
HashWithoutCapabilities(m) == [specs |-> m.specs, checksums |-> m.checksums, mcp |-> m.mcp]

compute_artifact_hash(m) ==
    [specs |-> m.specs, checksums |-> m.checksums, enforced |-> m.enforced, mcp |-> m.mcp,
     plugins |-> [i \in DOMAIN m.plugins |->
        [name |-> m.plugins[i].name, type |-> m.plugins[i].type, version |-> m.plugins[i].version,
         body |-> m.plugins[i].body, fns |-> m.plugins[i].fns]]]

sign_manifest_from_env(m) ==
    [m EXCEPT !.signature = {[key |-> k, over |-> m.hash] : k \in SigningKey}]

BuildManifest(routes, bs) ==
    LET m == [specs |-> SourceSpecs(contents), mcp |-> ManifestMcp, enforced |-> TRUE,
              checksums |-> [routes |-> routes,
                             plugins |-> [n \in {bs[i].name : i \in DOMAIN bs} |->
                                (CHOOSE b \in Range(bs) : b.name = n).wasm]],
              plugins |-> BundledPlugins(bs), hash |-> <<>>, signature |-> {}]
    IN sign_manifest_from_env([m EXCEPT !.hash = compute_artifact_hash(m)])

\* Of two files with one name the later entry of the archive is read back.
EmbeddedSpecs ==
    [f \in Range(Files) |->
        contents[Max({i \in DOMAIN Files : Files[i] = f})]]

Seal ==
    /\ pc = "seal"
    /\ LET routes == SortedOperations(ops)
       IN sealed' = [state |-> "written", manifest |-> BuildManifest(routes, bundles),
                     routes |-> routes, specs |-> EmbeddedSpecs,
                     plugins |-> [n \in {bundles[i].name : i \in DOMAIN bundles} |->
                        (CHOOSE b \in Range(bundles) : b.name = n).wasm]]
    /\ archive' = sealed'
    /\ pc' = "sealed"
    /\ UNCHANGED <<disk, contents, parsed, torn, upstream, cache, fetch, bundles, ops, warnings,
                   edits, gw>>

-----------------------------------------------------------------------------
(* One member, or one field of the manifest, differs from what was written *)
(* and still parses; or a plugin is replaced, with the sha256 of its       *)
(* entry.                                                                  *)

Garbled(wasm) == [wasm EXCEPT !.id = "garbled"]

DamagedPlugins(a) ==
    {[a EXCEPT !.plugins = [m \in DOMAIN a.plugins \ {n} |-> a.plugins[m]]] : n \in DOMAIN a.plugins}
    \cup {[a EXCEPT !.plugins[n] = Garbled(a.plugins[n])] : n \in DOMAIN a.plugins}

DamagedManifest(a) ==
    {[a EXCEPT !.manifest.enforced = ~@], [a EXCEPT !.manifest.mcp.enabled = ~@],
     [a EXCEPT !.manifest.hash = <<>>], [a EXCEPT !.manifest.checksums.routes = <<>>]}
    \cup {[a EXCEPT !.manifest.plugins[i].fns = @ \cup {"http_call"}] : i \in DOMAIN a.manifest.plugins}
    \cup {[a EXCEPT !.manifest.plugins[i].body = ~@] : i \in DOMAIN a.manifest.plugins}
    \cup {[a EXCEPT !.manifest.plugins[i].sha = Garbled(@)] : i \in DOMAIN a.manifest.plugins}

\* By other bytes, or by those of another plugin, which import other functions.
ReplacedPlugin(a, i) ==
    {[a EXCEPT !.plugins[a.manifest.plugins[i].name] = x, !.manifest.plugins[i].sha = x] :
        x \in {Garbled(a.manifest.plugins[i].sha)} \cup Range(a.plugins)}

DamagedRoutes(a) == {[a EXCEPT !.routes[i].mws = <<>>] : i \in DOMAIN a.routes}

Damaged(a) == DamagedPlugins(a) \cup DamagedManifest(a) \cup DamagedRoutes(a)
              \cup UNION {ReplacedPlugin(a, i) : i \in DOMAIN a.manifest.plugins}

Damage ==
    /\ pc = "sealed" /\ archive = sealed /\ gw = None
    /\ archive' \in Damaged(archive)
    /\ UNCHANGED <<compilerVars, sealed, gw>>

-----------------------------------------------------------------------------
(* Gateway::load *)

\* Members of the archive that the manifest names; a missing one is no error.
load_plugins(a) ==
    LET known == {i \in DOMAIN a.manifest.plugins : a.manifest.plugins[i].name \in DOMAIN a.plugins}
    IN [n \in {a.manifest.plugins[i].name : i \in known} |->
          LET p == CHOOSE q \in Range(a.manifest.plugins) : q.name = n
          IN [wasm |-> a.plugins[n], version |-> p.version, body |-> p.body]]

verify_artifact_hash(m) == compute_artifact_hash(m) = m.hash

verify_plugin_checksum(m, n, wasm) ==
    \E i \in DOMAIN m.plugins : m.plugins[i].name = n /\ m.plugins[i].sha = wasm

verify_artifact_signature(m) ==
    \A k \in TrustedKey : m.signature = {[key |-> k, over |-> m.hash]}

validate_imports(m, n, wasm) ==
    LET declared == UNION {m.plugins[i].fns : i \in {j \in DOMAIN m.plugins : m.plugins[j].name = n}}
    IN wasm.imports \subseteq CoreImports \cup declared

EntriesOf(op) == Range(op.mws) \cup {op.dispatch}
collect_secret_references(configs) == UNION {c.secrets : c \in configs}
AllConfigs(routes) == UNION {{e.config : e \in EntriesOf(o)} : o \in Range(routes)}

\* One reference that cannot be resolved refuses the whole artifact.
resolve_all_secrets(configs) ==
    IF collect_secret_references(configs) \subseteq Env
    THEN {collect_secret_references(configs)} ELSE {}

\* Keyed by the reference as the spec spells it.
SecretScopes(routes) ==
    [r \in UNION {{e.name : e \in EntriesOf(o)} : o \in Range(routes)} |->
        collect_secret_references(
            UNION {{e.config : e \in {x \in EntriesOf(o) : x.name = r}} : o \in Range(routes)})]

HttpMethod(m) == IF m = "SEND" THEN "POST" ELSE IF m = "RECEIVE" THEN "GET" ELSE m

(* The router keeps the last operation inserted for a path and an HTTP     *)
(* method, by its index; validators are in the order of the file.          *)
RouteTable(routes) ==
    [k \in {<<o.path.shape, HttpMethod(o.method)>> : o \in Range(routes)} |->
        routes[Max({i \in DOMAIN routes :
            <<routes[i].path.shape, HttpMethod(routes[i].method)>> = k})].index]

Acceptable(a) ==
    LET plugins == load_plugins(a)
    IN /\ verify_artifact_hash(a.manifest)
       /\ \A n \in DOMAIN plugins : verify_plugin_checksum(a.manifest, n, plugins[n].wasm)
       /\ verify_artifact_signature(a.manifest)
       /\ \A n \in DOMAIN plugins : plugins[n].wasm.compiles
       /\ a.manifest.enforced =>
             \A n \in DOMAIN plugins : validate_imports(a.manifest, n, plugins[n].wasm)
       /\ resolve_all_secrets(AllConfigs(a.routes)) # {}

Load ==
    /\ pc = "sealed" /\ gw = None
    /\ gw' = IF ~Acceptable(archive) THEN Refused
             ELSE [state |-> "serving", manifest |-> archive.manifest, ops |-> archive.routes,
                   modules |-> load_plugins(archive),
                   store |-> The(resolve_all_secrets(AllConfigs(archive.routes))),
                   scopes |-> SecretScopes(archive.routes),
                   routes |-> RouteTable(archive.routes),
                   validators |-> [i \in DOMAIN archive.routes |->
                        [params |-> archive.routes[i].params, body |-> archive.routes[i].body]],
                   mcp |-> archive.manifest.mcp]
    /\ UNCHANGED <<compilerVars, archive, sealed>>

(* InstancePool::get_instance: the module is looked up by the reference as *)
(* it is spelled, with a version if it has one.                            *)
has_plugin(ref) == ref.version = {} /\ ref.base \in DOMAIN gw.modules
scoped(ref) == gw.store \cap (IF ref \in DOMAIN gw.scopes THEN gw.scopes[ref] ELSE {})

get_instance(entry) ==
    IF ~has_plugin(entry.name) THEN {}
    ELSE {[wasm |-> gw.modules[entry.name.base].wasm, config |-> entry.config,
           secrets |-> scoped(entry.name)]}

-----------------------------------------------------------------------------
Terminated ==
    /\ pc = "failed" \/ gw # None
    /\ UNCHANGED vars

Next ==
    \/ CompilerNext /\ UNCHANGED <<archive, sealed, gw>>
    \/ Seal \/ Damage \/ Load
    \/ Terminated

Spec == Init /\ [][Next]_vars

-----------------------------------------------------------------------------
(* Properties *)

Serving == gw.state = "serving"

(* What the specs declare is what is served, through parsing, sorting,     *)
(* sealing and loading: a route leads to the operation declared for it and *)
(* to that operation's own validator, its chain is the spec's middlewares  *)
(* that it does not declare again followed by its own, or nothing if it    *)
(* declares an empty list, and each plugin it names without a version can  *)
(* be instantiated.  (A reference with a version passes the compiler and   *)
(* is not found in the pool.)  Operations that share path and HTTP method  *)
(* through the AsyncAPI methods are left out.                              *)
RoutesAsDeclared ==
    Serving /\ archive = sealed =>
        \A k \in DOMAIN Flat :
            LET d == Flat[k].op
                key == <<d.path.shape, HttpMethod(d.method)>>
                o == gw.ops[gw.routes[key]]
                names == [i \in DOMAIN o.mws |-> o.mws[i].name]
                own == OrElse(d.mws, <<>>)
            IN (\A j \in DOMAIN Flat \ {k} :
                    <<Flat[j].op.path.shape, HttpMethod(Flat[j].op.method)>> # key) =>
                /\ o.id = d.id /\ {o.dispatch} = d.dispatch
                /\ gw.validators[gw.routes[key]] = [params |-> d.params, body |-> d.body]
                /\ IsSuffix(own, o.mws)
                /\ \A i \in DOMAIN Flat[k].spec.mws :
                      LET g == Flat[k].spec.mws[i]
                      IN g \in Range(o.mws) <=>
                           d.mws = {} \/ (own # <<>> /\ (g.name \in {e.name : e \in Range(own)} => g \in Range(own)))
                /\ \A e \in EntriesOf(o) : e.name.version = {} =>
                      get_instance(e) # {} /\ e.config.secrets \subseteq scoped(e.name)

(* Whatever other compilers do to the shared cache and whatever the server *)
(* publishes meanwhile, a plugin whose checksum is pinned is bundled with  *)
(* the pinned bytes.                                                       *)
PinnedIsBundled ==
    \A i \in DOMAIN bundles :
        Declared[bundles[i].name].kind = "url" => Declared[bundles[i].name].pin \subseteq {bundles[i].wasm}

WithoutSha(m) == [m EXCEPT !.plugins = [i \in DOMAIN m.plugins |-> [m.plugins[i] EXCEPT !.sha = {}]]]

(* A gateway that accepts a damaged archive goes by the manifest that was  *)
(* sealed but for the sha256 of its plugins: a module has the sealed       *)
(* version and access to bodies, and imports what the sealed entry allows. *)
(* Its bytes are the sealed ones unless the sha256 of its entry, which the *)
(* artifact hash leaves out, was replaced along with them; then they       *)
(* contradict the checksum that the hash does cover, which nothing         *)
(* compares on load.  (routes.json and the specs are not compared either,  *)
(* and a member that is missing is not noticed.)                           *)
LoadedIsSealed ==
    Serving =>
        /\ WithoutSha(gw.manifest) = WithoutSha(sealed.manifest)
        /\ \A n \in DOMAIN gw.modules : \E i \in DOMAIN sealed.manifest.plugins :
              LET p == sealed.manifest.plugins[i]
                  module == gw.modules[n]
              IN /\ p.name = n /\ module.version = p.version /\ module.body = p.body
                 /\ module.wasm.imports \subseteq CoreImports \cup p.fns
                 /\ module.wasm # p.sha => /\ gw.manifest.plugins[i].sha = module.wasm
                                           /\ gw.manifest.checksums.plugins[n] # module.wasm

(* The hash by which the fleet compares artifacts does not depend on the   *)
(* order in which the plugins of a compilation come out of a hash set.     *)
HashIgnoresOrder ==
    pc = "sealed" =>
        \A p \in Bijection(DOMAIN bundles, DOMAIN bundles) :
            BuildManifest(sealed.routes, [i \in DOMAIN bundles |-> bundles[p[i]]]).hash
                = sealed.manifest.hash

(* The spec inside the artifact is the one that was compiled, unless it    *)
(* was edited between the two reads of parse_specs; edits before and after *)
(* do no harm.  (Of two files with one name the last is embedded.)         *)
EmbeddedIsCompiled ==
    pc = "sealed" =>
        \A i \in DOMAIN Files :
            (\A j \in DOMAIN Files : j > i => Files[j] # Files[i]) =>
                Files[i] \in torn \/ parse_spec(sealed.specs[Files[i]]) = {parsed[i]}

(* Everything in the sealed artifact is what was compiled. *)
SealedAsCompiled == PinnedIsBundled /\ HashIgnoresOrder /\ EmbeddedIsCompiled

(* A plugin is handed the secrets its own configurations refer to and no   *)
(* other: a secret of one plugin never reaches another through the store   *)
(* they share.                                                             *)
SecretsAreOwn ==
    Serving =>
        \A o \in Range(gw.ops) : \A e \in EntriesOf(o) : \A inst \in get_instance(e) :
            \A s \in inst.secrets : \E q \in Range(gw.ops) : \E x \in EntriesOf(q) :
                x.name = e.name /\ s \in x.config.secrets

(* The gateway serves the declared operations, each plugin with its own    *)
(* configuration and secrets.                                              *)
ServedAsDeclared == RoutesAsDeclared /\ SecretsAreOwn

=============================================================================
