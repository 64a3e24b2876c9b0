# Barbacane in TLA+

Barbacane is an API gateway. A compiler turns OpenAPI and AsyncAPI specs into a
sealed artifact, data planes load an artifact and serve requests through WASM
plugins, and a control plane keeps specs, artifacts and the fleet of data planes
and tells them what to install. This directory holds TLA+ models of these parts,
the TLC configurations that check them, and proofs that TLAPS checks.

`PROJECT.json` is the index: components, runs, mutants (for every property, a
plausible bug that makes it fail), the map from definitions to source lines, the
hazards and the theorems. Source paths below are relative to `src/`.

```
tlc -workers 2 -config Rollout.cfg MCRollout      # a run
tlapm RolloutProofs.tla                           # a proof
```

## 1. Inventory

### Data plane (`crates/barbacane`, `crates/barbacane-wasm`)

| Component | State | Operations | What is hard | What makes it correct |
|---|---|---|---|---|
| Accept loop, shutdown (`main.rs` run_serve) | `active_connections`, `conn_semaphore`, shutdown watch | accept, serve, upgrade, drain | tasks end while the drain loop polls a counter; upgrades leave hyper | counters exact on every way out; a clean drain cuts nothing off; the process exits |
| Hot reload (`main.rs`, `hot_reload.rs`) | gateway `ArcSwap`, `HOT_RELOAD_LOCK`, files, published hash and manifest, two bounded channels | notify, download, verify, load, swap, publish, respond | overlapping reloads, corrupt downloads, failures between any two steps | responses are true; published is served, but for overlaps; every reload answers |
| Control-plane client (`control_plane.rs`), admin API (`admin.rs`) | connection, drift flag, pending response | connect, register, heartbeat, forward, report | broken links, timeouts, lost responses, restarts | a row never names what was not served; the fleet recovers and comes to rest |
| Router (`router/trie.rs`, route checks in `artifact.rs`) | trie of segments, handlers per node | insert, lookup | overlapping templates, order of operations | the lookup agrees with the templates |
| Request gate and validator (`main.rs` handle_request, `validator.rs`) | none of its own | limits, reserved paths, routing, body, validation, preflight, standard headers | many early returns; what is checked must be what is passed on | only what conforms reaches a plugin |
| MCP (`mcp/`) | sessions with last access | initialize, tools/list, tools/call, delete, evict | cap and expiry race with use; one flat object becomes a request | a live session stays; a valid call makes a valid request |
| Middleware chain (`main.rs`, `chain.rs`, `body_access.rs`) | metadata, held body, an instance per middleware with side channels | on_request, dispatch, on_response in four forms | plugins may trap or answer inconsistently; instances are reused | a denial is final; bodies stay with those allowed; order mirrored; traps tolerated |
| Streaming dispatch (`main.rs`, `instance.rs`, `plugins/ai-proxy`) | event channel, blocking thread, response body | select race, forward, observe | two sources race; upstream fails half-way; client leaves | body in order and whole; every dispatch answered; streams end |
| Plugin host (`instance.rs`, `pool.rs`, `secrets.rs`, plugin SDK) | result slots, side channels, scoped secrets, deadline | the host functions | results wait in slots; the deadline is wall time | a plugin sees its own results only, and pays for its own time only |
| HTTP client, circuit breaker, response cache, brokers, rate limiter (`crates/barbacane-wasm`) | tables shared by all requests | call, publish, get/set, check, cleanup | concurrent use, names rebound, time-outs, tables at their cap | no internal address is reached; hits are fresh; acknowledged is published; quotas hold |
| Dev server (`dev.rs`, run_dev) | watches, batch of changes, gateway | watch, debounce, recompile, swap | saves during a compilation; a `select!` that drops a batch | at rest it serves what is on disk |

### Plugins (`plugins/`)

| Component | What is hard | What makes it correct |
|---|---|---|
| Authentication (basic, apikey, jwt, oauth2, oidc) and access (acl, ip-restriction, cel, opa-authz, cors, ...) | plugins trust headers that earlier ones set and clients can send; keys change during a request | nobody passes without the credential and the groups the configuration asks for |
| AI proxy and its guards, limits and cost tracking | two protocols, translations, fallbacks, charges after the response | guards hold for every target and translation; budgets are charged where the request was admitted |
| Dispatchers (http-upstream, ws-upstream, lambda, s3, kafka, nats, fire-and-forget, mock), transformers, http-log, observability | canonical forms and order of rewriting | signatures verify; added values are those of the request that came |

### Control plane (`crates/barbacane-control`)

| Component | State | Operations | What is hard | What makes it correct |
|---|---|---|---|---|
| Sessions, ConnectionManager (`api/ws`) | two maps, a channel per session, rows of `data_planes` | accept, register, heartbeat, deploy, disconnect, sweep, restart | four actors between two maps and a table, a lock held over an await | maps, rows and handlers agree |
| API and database (`api`, `db`) | projects, specs, revisions, plugins, artifacts, compilations | all endpoints that write | requests of several statements interleave | revisions told are revisions stored; bundled plugins are kept |
| Compilation worker (`compiler/worker.rs`) | job channel, rows | enqueue, compile, record | restarts, deletions under the worker | a job gets stuck only by a named fault |
| API keys, admin token | key rows | create, revoke, check | revocation while a client is connected | a client without a valid key is not registered |

### Compiler (`crates/barbacane-compiler`)

Parses specs, resolves plugins through a shared download cache, merges
middlewares, rejects ambiguous routes, checks capabilities and seals the artifact
with a hash and, optionally, a signature. Its inputs change while it runs. Correct
if what is sealed is what was compiled, what is loaded is what was sealed, and what
is served and documented is what was declared.

### Interactions

A deploy request calls `ConnectionManager::notify_artifact_available`, which puts a
message into each session's channel; the handler writes it to its socket; the client
on the data plane forwards it to the main loop through `artifact_tx`; the main loop
spawns a reload task; the task's response goes back through `response_tx` and the
socket and ends in the data plane's row. Requests meet the reload only at the
`ArcSwap` of the gateway: a request keeps the gateway it began with. Within a
request the task of the connection, the blocking thread of the plugin, the response
body polled by hyper and the background task for `on_response` share channels and
instances. The rate limiter, the cache, the MCP sessions and the clients are shared
by all requests.

## 2. The models

Names of variables and operators follow the source. An optional value is a set of
at most one element in the modules that have many of them.

### Deployments: `HotReload`, `Rollout`, `Deployment`

`HotReload` is `perform_hot_reload` and the notification arm of `run_serve` in
`main.rs`, and `hot_reload.rs`. One program counter per reload task; each action is
what happens between two points at which another task can interfere: the request for
the artifact, its end, verification and rename, load, swap, the return that drops
the lock, and then, without the lock, reading the gateway back, publishing hash and
manifest, and answering. Every error path is an action of its own. A gateway, a
manifest and a hash are identified with the bytes they come from (SHA-256 is taken as
collision free); `Garbage` is any other body a download may deliver.

`Rollout` extends it to the whole way of a deployment: the operator's request with
its admin token, the API key and its revocation, the session of each connection with
its mailbox and row, the wires in both directions, the client with registration,
heartbeats, time-outs and shutdown, the drift flag at both ends, and what the admin
API answers. A link that breaks loses what is under way from some point on, and each
end notices in its own time; the process may restart with the artifact of its command
line. Each statement of a registration or of `handle_message` may fail in the database
(`RegistrationError`, `MessageError`): the first refuses the client, the second leaves
out the rest of the handler and the session goes on.

`Deployment` is the abstract specification: a data plane serves its initial artifact
or one that was deployed, and a row names only what has been served. `Rollout`
implements it (`Abstract == INSTANCE Deployment WITH ...`): serving is the gateway in
the `ArcSwap`, recorded is the artifact column of the rows, every other step stutters.

### Control plane: `ControlSession`, `ControlApi`

`ControlSession`: `api/ws/handler.rs`, `api/ws/manager.rs`, `api/data_planes.rs`,
`db/data_planes.rs`, `server.rs`. Each statement on a map, a row or a channel is a
step. Actors: the handlers, one deploy request, one disconnect request, the sweep,
the peers (which leave cleanly or silently), and a restart of the process, which
loses the maps and keeps the rows. Statements that end a session may fail. A DashMap
reference is `guard`: while a deploy holds one, insertions into the shard of its key and
removals from it wait, for every session whose id hashes to that shard (`shard_of` is
any assignment). The rows' artifact and drift columns
are in `Rollout`.

`ControlApi`: the tables are one record `db`; a handler that runs several statements
whose later ones use what an earlier one read keeps it in `req` between its steps; a
handler whose reads only repeat what a constraint enforces is one action. The worker
is a step per statement. ON DELETE clauses, the bounded queue, a restart, a caller that
goes away and an error of the database, in the worker's claim too, are part of it.

### The way of a request: `ServeLoop`, `Routing`, `Validator`, `Mcp`, `Access`, `Identity`, `RequestGate`, `MiddlewareChain`, `StreamingDispatch`

`ServeLoop`: the accept loop with its semaphore, the task of a connection (handshake,
idle, request, response or upgrade, graceful end), the plugin call on its blocking
thread, the relay task of a WebSocket, the signal, the drain loop and its timeout,
and the end of the runtime, which aborts tasks but waits for blocking threads. One
request at a time per connection (HTTP/1).

`Routing`: the compiler's checks on a new route, the insertion of the operations in
order, and the lookup, for all sequences of operations up to a length. A template has
segments and a spelling, because the compiler compares texts and the router segments.
A node of the trie is the sequence of the edges that lead to it. The properties
compare the lookup with `Fits` and `MoreSpecific`, a reference defined on templates
alone, without a trie.

`Validator`, `Mcp`, `Access` and `Identity` are a chain of extensions that ends in
`RequestGate`. `Validator` and most of `Access` are functions; a text is a sequence
of units (characters and escapes), so that decoding, matching and counting are
modelled by what they do, and a JSON schema is the set of values it accepts. `Mcp`
has the session table. `Identity` has the token checks; oidc-auth takes two steps,
since the provider's keys may change between its two requests, and seconds wrap at
`Wrap` as the code's `u64` does. `RequestGate` is handle_request with every early
return in its order, each middleware in a new instance, and the answer on its way
back; tool calls enter at the middlewares. A connection may stop at every await.

`MiddlewareChain`: `Gateway::dispatch`, the two `execute_middleware_*` functions, the
partial chain after a short-circuit, the observing chain of a streamed response, the
one before an upgrade, and `BodyAccessControl`. A plugin is any module: it may read
or ignore its body, write one, write None, return any result code with any action,
trap, or fail to instantiate. A body is its author.

`StreamingDispatch`: `dispatch_wasm_plugin_inner` as a task that polls the stream
events and the completion of the plugin's blocking thread in one biased `select!`;
`host_http_stream` sending headers and chunks; ai-proxy's loop over targets; the body
hyper polls; the client, which may leave; the task that runs `on_response`
afterwards. The two polls of a `select!` are two steps, so an event may arrive
between them.

### Plugins and the outside: `Transforms`, `Dispatchers`, `PluginHost`, `RateLimiter`, `Upstream`, `AiProtocols`, `AiGateway`

`Transforms` and `Dispatchers` are the transformers, the dispatchers and SigV4 as
functions; hash and MAC are injective constructors. `PluginHost` is the state of an
instance and what each host function does to it. `RateLimiter` is `RateLimiter::check`
as its two critical sections, `maybe_cleanup` and the check, each with its own reading
of the clock. `Upstream` composes them: a request runs the handlers of plugin
instances, and a handler that calls out blocks, so that time passes, names are
rebound, other requests run and brokers fall silent before it goes on. The HTTP
client's guard and resolver, the circuit breakers, the response cache and the broker
connections are its shared state. A scenario fixes chain, dispatcher and requests.

`AiProtocols` has the choice of a target and the translations between the two OpenAI
protocols and Anthropic's, as functions; `AiGateway` the four AI middlewares around
the proxy, for concurrent requests that share token budgets, with a step per
middleware, per call of a provider and per unit charged.

### Compiler and artifact: `SpecParser`, `Compiler`, `Artifact`, `SpecDocs`, `DevServer`

`SpecParser` turns a document into operations; a schema is its depth, its number of
properties and its references. `Compiler` reads specs (twice, as the code does),
resolves plugins from paths, URLs and the cache, and checks and flattens operations,
while specs are edited, releases published and the cache written by others.
`Artifact` seals, damages (one member in any way, or a plugin together with the sha256
of its entry) and loads the archive, up to
secrets, capabilities and the plugin pool. A hash is the hashed value itself.
`SpecDocs` is what the gateway shows of its specs, single and merged in any order.
`DevServer` is `barbacane dev`: watches, the debounce window as a future that
`select!` may drop, recompilation, swap and shutdown. The watcher's callback forwards
events of every kind; `reports_reads` says whether the operating system reports the
files the compiler itself opens.

## 3. Runs

| Run | Question | Bounds |
|---|---|---|
| `rollout` | Does a deployment implement `Deployment`, whatever is lost, corrupted, overtaken or restarted, and does the fleet recover? | two artifacts, one garbage body, two tasks, channels of one, two deployments, one fault, one error of the database, two connections, two more events (key, shutdown) |
| `control_session` | Do maps, rows and handlers stay consistent, and what can block a deploy? | two sessions, cap of one or two, channel of one, one artifact |
| `control_api` | What do interleaved requests, the worker, a restart and an error do to the tables? | two handlers, three calls, two projects, one spec name, one plugin in two versions, queue of one, one restart, one error |
| `serve_loop` | Are the counters exact, the drain clean, the exit certain? | three connections, cap of two |
| `request_path` | Is what reaches the dispatcher admitted, proven and valid? | about 200 requests, nine operations, two connections, two MCP sessions, one rotation of keys |
| `middleware_chain` | Denial, bodies, order and traps, in all four forms | three middlewares, every assignment of body_access |
| `streaming_dispatch` | Is the body faithful, every dispatch answered, every stream ended? | three targets, two chunks each |
| `upstream` | What do plugins reach, read, send, store and publish, and do the shared tables hold? | 22 scenarios, two requests each at most, time up to 6 in half seconds, caches and connections of one; two threads and two policies on a table of one partition |
| `ai_gateway` | Do guards, budgets, fallbacks and translations hold? | 37 requests, two at a time, six middlewares (three limits: by address, consumer and header), three kinds of providers |
| `routing` | Does the router agree with the templates? | thirteen templates, three methods, up to three operations, paths of up to three segments |
| `artifact` | Is what is served and documented what was declared, compiled and sealed? | two files (one of them .json) out of fourteen documents, one edit, any one damage |
| `dev_server` | Does the server at rest serve what is on disk, and does it settle? | three saves or other events, two folders, three manifests, one connection, reads reported or not |

Several properties are conjunctions of named parts, each with its own comment:
`MapsAgree`, `PhaseRules`, `BodyRules`, `BrokenIsContained`, `DispatchEnds`,
`ShutdownCompletes`, `SentAsPromised`, `HostCallsAreSound`, `RouterAgrees`,
`PluginsResolve`, `SealedAsCompiled`, `ServedAsDeclared`, `AccessIsProven`,
`GuardHolds`, `SentIsJustified`, `Recovers`.

Why the bounds are enough. Two reload tasks make every overlap of two possible, and
`overlap` and the lock speak of pairs; channels of one put a task in front of a full
channel after one message; one fault can hit every step of a deployment, and a second
connection carries on after it. A larger instance of `rollout` (three events, 803
thousand states) gave the same result. Two sessions compete for the semaphore and are
the targets of one broadcast. Two handlers and the worker make three writers, and
three calls are an upload, a compilation and a deletion. Three middlewares give a
first, a middle and a last one, and so a short-circuit with something on both sides.
Three targets allow a failure before the headers, one in the middle of the body and a
success in one dispatch. Three connections at a cap of two have one refused while two
are served. A cache of one entry is full after one store. In `request_path` and
`ai_gateway` requests that share nothing are judged alone and those that share
sessions, keys or budgets race. Three operations give a literal, a parameter and a
longer template at the same place. Two specs are the least that can collide. Three
saves are one before, one during and one after a compilation.

Symmetry is used only where no liveness property is checked. Deadlock is checked
except in `control_session` and `control_api`, where all sockets may be closed, or
all calls made, and nothing is left to do.

### Fairness

- `Rollout`: weak fairness of the sessions, the client, the delivery of what is on a
  link that is up, the heartbeat timer and the reload tasks outside their download:
  tokio tasks are polled again whenever they can proceed, and `select!` picks at
  random among the branches that are ready. A stopped process is started again. A
  download owes nothing: its HTTP client has no timeout (`main.rs:3565`), and one that
  hangs keeps the lock for ever. `ReloadAnswered` therefore has the premises that the
  task's own download ends and that the client takes responses (it does so while
  connected), and shows that a hanging download of another task does not keep this one
  from answering. `Recovers` has the premises that the key stays valid and, for
  convergence, that no reload overtakes another. Errors of the database are finitely
  many; the one whose effect lasts, a success that could not be recorded, is excepted by
  name (`missed`).
- `StreamingDispatch`: weak fairness of the plugin's thread (each call of the host has
  a timeout, and so has an upstream's body), of the task, of the body and of the
  observer. The client may stop or leave at any time; a client that stays is polled by
  hyper.
- `ServeLoop`: weak fairness of the shutdown sequence, of each connection's task and
  of plugin calls, which the epoch deadline ends; the TLS handshake has a timeout.
  Clients owe nothing. `Exits` in addition assumes that the timeout elapses;
  `IdleIsClosed` that it does not.
- `DevServer`: weak fairness of the loop, which takes the watcher's events; nobody has
  to connect or save.

The other modules are checked for safety only.

## 4. Proofs

Each proof module extends the module it is about, and its theorems hold for every value
of the constants that satisfies the named assumptions of that module: any number of
connections, tasks, data planes, handlers, keys, targets, chunks and artifacts. The
bounds of the runs (`MaxTime`, `MaxFaults`, ...) are natural numbers like any other
there. The layout is the same everywhere: the inductive invariant as a conjunction of
named parts, one lemma per action or per part an action can disturb, a lemma for the
step, and the temporal theorems, which only combine them.

- `RolloutProofs`, in two parts.
  - One process (`HotReload`). The invariant is `TypeOK /\ ReloadExclusive /\ Announced
    /\ RunInv /\ PublicationInv`. `ServedWasAnnounced` alone is not inductive: a swap
    installs what is in the task's file, so `Announced` says where notifications and
    verified files come from; `RunInv` ties the history variables to the program
    counter; `PublicationInv` says which task still owes the publication of which
    gateway. Theorems: `TypeCorrect`, `LockSerialisesReloads`, `OnlyAnnouncedServed`,
    `ResponsesAreTruthful`, `StaleNeedsOverlap`, `SwapsAreVerified` (an action property).
  - The composition. `Rollout` runs the same steps next to the connections and the
    control plane and may restart the process between any two of them. `DeployedInv` and
    `ServedInv` say of every message under way why it may name its artifact: a row names one
    because a response said so, the response because a task had swapped it in, the task
    because it was announced, the announcement because of a deploy request. `Handshake`
    says which messages may be under way at which stage of a session. Theorems:
    `RolloutInvHolds`, `FleetAnswersTruthfully`, `FleetStaleOnlyByOverlap` (the
    properties of one process, in the composition) and `RolloutImplementsDeployment`:
    the refinement of `Deployment`, initial states and steps.
- `ControlSessionProofs`, for any finite set of sockets. `Registration`
  and `Unindexed` follow the two maps through the two insertions and removals of a
  session; `Referenced` says that the
  key whose reference a broadcast holds is in the map; `CleanupNeedsFailure` that a
  handler cleans up only after its socket failed; `WithinCap` that no more handlers are
  at work than the semaphore has permits, which takes cardinalities. Theorems:
  `SessionInv`, `SessionTypeCorrect`, `MapsAlwaysAgree`, `OnlineMeansHandled`,
  `OnlyDeadSocketsBlock`.
- `ControlApiProofs`, for any projects, plugins, specs, handlers and queue. `Rows` is
  what the constraints of the tables and their ON DELETE clauses keep whatever statement
  runs. `ApiInv` adds what a request in flight and the worker still know of rows that
  others may have changed or deleted since they were read: `Locals`, `Holds`, `Told`.
  Most statements only remove rows or change columns that nobody remembers; `Less`
  says so, and one lemma carries the invariant over all of those. Theorems:
  `ApiInvHolds`, `TablesStaySound`, `RevisionsStayTold`, `StuckNeedsFault`,
  `PluginsAlwaysResolve`.
- `DispatchProofs`, in three parts.
  - The chain (`MiddlewareChain`), for any length and any body_access. `ChainInv` says,
    by stage, which verdicts are fixed, what the side channels of an instance can hold
    and whose body is held. Theorems: `ChainTypeCorrect`, `NoDispatchWithoutConsent`,
    `BodyIsConfined`, `BodyHasAuthor`, `ResponseInReverse`, `ResponsePhaseTolerant`,
    `FallbackResponseIsWhole`, and with them the two properties of the run,
    `BodyRulesHold` and `PhaseRulesHold`.
  - The streamed dispatch (`StreamingDispatch`), for any number of targets and chunks.
    `SentInv`: chunks are sent in the order of targets and numbers; `ChannelInv`: the
    channel keeps the order and what the client has is a prefix; `HandlerInv`: the task
    itself takes nothing but headers out of the channel, because they come first;
    `ResultInv` ties the observer's buffer to the end of the plugin's run. Theorems:
    `StreamInvHolds`, `StreamTypeCorrect`, `StreamIsFaithful`, `BrokenStaysContained`.
  - Requests to language models (`AiGateway`), for any chain, providers and number of
    concurrent requests. `AiInv` judges each request by itself, because what the others
    do to a budget can refuse it a unit but not change its context. `TargetsOK`: calls
    made and targets left add up to the first target and its fallbacks, and all but the
    last call failed. `BudgetOK`: by stage, which limits have kept their partition and
    paid one unit, what the limit whose turn it is still owes, and that those behind
    have charged what was reported; `BudgetsAgree` itself says nothing of a request on
    its way and is not inductive. `BillOK`: the first charge of a limit went to the
    budget of the admission and every later one to the budget that the response phase
    finds, which is the same unless a header partition is empty. Half of the work is on what the proxy makes of an
    answer: whichever protocol and provider, the tokens it notes are those of the body
    it returns. Assumptions: requests are of one form, arrive without token counts, and
    a provider reports two numbers or nothing (`AiRequestAssumption`); stacked limits
    have names of their own, as `docs/guide/middlewares/ai-gateway.md:162` asks, and
    the key made of a name is no other key of the context (`AiChainAssumption`).
    Theorems: `AiInvHolds`, `BudgetsStayTrue`, `FallbackStaysJustified`.
- `ServerProofs`, in two parts.
  - The accept loop (`ServeLoop`), for any finite set of connections and any cap. The
    counters are cardinalities of sets of connections, so the proof is a few lemmas on
    what a connection that enters, leaves or stays does to a cardinality, and one case
    per action. `CleanDrain` needs the exact counter: the drain ends when it is zero.
    Theorems: `ServeTypeCorrect`, `CountersAreExact`, `DrainIsClean`.
  - `barbacane dev` (`DevServer`), for any folders, manifests and contents.
    `StaleOnlyIfMissed` speaks of a server at rest; `DevInv` says for each step of the
    loop which changes are still to be read and that there is word of each of them, or
    that it was missed. `ManifestAssumption` and
    `FolderAssumption` say that the contents a manifest may have are manifests of the
    model and that a folder is not one of the other watched files. Theorems:
    `DevInvHolds`, `OnlyMissedIsStale`.
- `UpstreamProofs`, in two parts.
  - The limiter (`RateLimiter`). The quota says that a grant and the one `Quota` places
    later are at least a window apart. It follows from `LogInv`: the timestamps kept for
    a key are a suffix of the grants of its policy, and what the suffix lacks has left
    the window; `ClockInv`: the clock a cleanup read is not ahead of the present. The
    theorems are about sound policies: the key is theirs alone and the window is at most
    `cleanup_threshold`. `RetryInv` relates the delay of the last refusal, in whole
    seconds, to the oldest timestamp kept. Theorems: `RateInv`, `RateTypeCorrect`, `QuotaIsKept`,
    `RetryIsKept`.
  - The host (`Upstream`), which runs the limiter next to breakers, caches, lookups and
    dispatchers. `HostRunsLimiter`: every step of the host is a step of the limiter or
    leaves it alone, so `HostKeepsQuotas` carries its theorems over.
    `BreakersOpenJustly` needs that the counter of a closed breaker is the number of
    failures at the end of its history; it assumes `BreakerAssumption`, a threshold of at
    least one (the code accepts zero too, and then opens at the second failure of a
    window, as with two: `circuit_breaker.rs:133` asks for one exactly).
    `EgressStaysConfined` needs that a connection waiting between lookup and connect
    carries only addresses that have passed the filter; the lookups of client libraries
    (`Unfiltered`) are the exception the property names.
    `HostCallsStaySound` rests on `CallsInv`, which follows a request through its
    middlewares, its dispatcher and their blocking calls: `Turn` (whose handler runs, for
    whom a call is out), `Own` (the secrets of the instance are those its configuration
    names; after a call its slots hold head and body of one answer), `Budget` (the
    deadline began when the host function returned) and `Acked` (how far the message to
    kafka is: not published before the call, at most once after it, and published if
    the result says so). That two requests do not count each other's messages needs
    `Numbered`. It assumes `ChainAssumption`: the chain of an operation is a sequence.
- `RequestGateProofs`, for any operations, requests, tokens and limits and any number of
  connections and sessions. `GateInv` has two halves. `SessionInv` compares the table of
  MCP sessions with a history of what was created, last used and ended; a sweep and a
  full table drop only what has expired. `ConnInv` says of each connection what has been
  established where it is: `Shape` (which fields there are), `Admitted` (past the limits
  and routed when it waits for its body; validated when it is in the chain),
  `ClientHeaders` (the headers the gateway itself sets are the only ones that may differ
  from what the client sent), `KeysOffered` (the keys an oidc instance holds were
  published after the request began) and `Authenticated` (every authentication plugin
  already passed had its proof). Most of the work is in lemmas on single operators: that
  no error of `validate_request` means that every parameter, the query string and the
  body satisfy the declaration, and, per plugin, that `Continue` is returned only with a
  known credential or a verified token. Assumptions: limits are numbers
  (`LimitAssumption`), capacities are positive (`McpAssumption`), routes lead to
  operations and chains are lists of known plugins (`ArtifactAssumption`), the head of a
  request is made of lists (`RequestAssumption`). Theorems: `GateInvHolds`,
  `OnlyConformingAdmitted`, `AuthenticationIsSound`, `SessionsAreKept`.
- `ArtifactProofs`, for any files, documents, plugins, releases, keys and secrets, and
  whatever editors, the plugin server and other compilers do in between. `ArtifactInv`
  follows the compilation: `Reading` (what is parsed is the parse of what was read
  first, unless the file was saved between the two reads), `Resolving` with `Fetching`
  (bytes on their way to the bundle are the pinned ones once they have been compared)
  and `Bundling` (each name once, pinned plugins with the pinned bytes); and then the
  archive: `Sealing` says that it is what was sealed but for one damage, and that a
  gateway that serves has accepted it. `LoadedIsSealed` rests on `DamageLeaves`, case by
  case over what can be damaged (a manifest that fits its hash has the sealed one), and on
  `HashCovers`: two manifests with one hash differ at most in the sha256 of the entries.
  That the hash ignores the order of resolution needs that the manifest lists plugins by
  the rank of their names, which the model says by counting. `CompilerAssumption`: there
  is at least one file (`main.rs:3675` refuses none), finitely many plugins are declared
  and one with a URL has a server. Theorems: `ArtifactInvHolds`, `OnlySealedIsLoaded`,
  `CompiledIsSealed`, `SecretsStayApart`.

What would be an induction on the length of a log (`retain` drops a prefix) is an
argument by a least counterexample, from the well-foundedness of the naturals: the
provers cannot instantiate the induction principles, which have an operator parameter.

Only model-checked:

- all liveness (`ReloadAnswered`, `Recovers`, `DispatchEnds`, `ShutdownCompletes`,
  `Settles`), which needs fairness and ENABLED and is out of the prover's reach;
- what folds over sequences, sorting and recursive lookups compute (translations,
  transformers, canonical forms, merged documents), which needs induction over data:
  `RouterAgrees`, `DocsShowTheApi`, `SentAsPromised`, `GuardHolds`,
  `ToolCallsAreValid`; `ConversationKept`, the half of `SentIsJustified` that is about
  translated messages (the other half, `FallbackIsJustified`, is proved); and
  `RoutesAsDeclared`, the half of `ServedAsDeclared` that is about filtered and sorted
  lists (the other half, `SecretsAreOwn`, is proved);
- the parts of `AccessIsProven` other than authentication: `NetworkIsAllowed` is
  arithmetic on the bits of addresses, and `ConsumerIsAllowed` is not true of every
  configuration (two credentials may carry one user name), only of those the run has;
- `CacheServesFresh`: the key of a response is a concatenation, and that it can be
  taken apart where no part holds a "|" is an induction over texts.

## 5. Where code and documentation disagree

Met while modelling. The models follow the code. Where a property states the exact
exception it is named.

Deployments and sessions

- After two overlapping reloads the admin manifest and the hash may be those of the
  older artifact for good (`main.rs:4583`): `StaleOnlyByOverlap`.
- The download of an artifact has no timeout (`main.rs:3565`): if the server stalls,
  the lock stays taken and every later reload is skipped until a restart.
- `ConnectionManager::send` awaits a full channel while it holds the map entry that the
  session's cleanup has to remove; both wait until the caller of the deploy gives up,
  and the row is not marked offline "when connection drops" (`api/ws/manager.rs:120`,
  `db/data_planes.rs:91`). The lock is that of a shard, so the registration and cleanup
  of other sessions wait with them: `StuckOnlyByDeadSocket`.
- A disconnect request between the two insertions of `register` leaves the id in
  `project_connections` until a restart, and `project_connection_count` counts it as
  notified (`api/ws/manager.rs:67`): `IndexLeaksByRaceOnly`.
- The deletion of the row after an unsent confirmation may fail unnoticed
  (`api/ws/handler.rs:134`); that row is online with `last_seen` NULL until the next
  restart of the control plane: `OnlineHasHandler`.
- A data plane that vanishes before its first heartbeat has `last_seen` NULL and is
  never swept (`db/data_planes.rs:139`).
- A disconnect request drops the sender, but the handler's `Some(msg)` pattern only
  disables that branch; the socket stays open (`api/ws/handler.rs:157`).
- Drift is judged against the last acknowledged artifact of the row, not against a
  desired one (`adr/0021-config-provenance.md:46` has `desired_hash`); after a reconnection the row is
  empty, since a client always registers without an artifact (`main.rs:4955`), so drift
  cannot be seen until the next deployment; and between the publication of a hash and
  its acknowledgement it is seen where there is none: `Recovers`.
- A success whose row cannot be updated (`api/ws/handler.rs:347`, the error is logged at
  line 181) is not reported again: the row names the older artifact, and the data plane
  is said to drift until it reconnects or has the next deployment. The exception of
  `Converges`.
- A deploy reaches only the data planes connected at that moment and is not repeated
  (`api/data_planes.rs:140`).
- "reconnecting immediately" is followed by a pause of a second, and a Disconnect
  message is only logged (`control_plane.rs`).
- A compilation that is under way at a restart stays as it is (`compiler/worker.rs:33`),
  as does one whose claim fails after its job left the queue (line 39) or whose caller
  goes away between the row and the send (`api/compilations.rs:55`): `StuckOnlyByFault`.
- The compliance check shows no warnings when one of its queries fails
  (`api/specs.rs:378`, `409`): the premise of `CompliantSpecResolves`.

Requests

- Upgraded connections are no longer counted, so the drain does not wait for them
  although `adr/0026-websocket-proxy.md:178` says it must (`main.rs:2167`); nor does
  the connection cap bound them. `CleanDrain` is about HTTP connections.
- After a failure in the middle of a stream, ai-proxy appends the body of the next
  target (`plugins/ai-proxy/src/lib.rs:473`; the comment at line 456 says otherwise):
  `MixedNeedsBreak`.
- A comment at `main.rs:1923` says the stream event "always wins the race"; an event
  that arrives between the two polls loses it. The dispatch is answered all the same.
- A stream that breaks off ends like a complete one (`main.rs:1977`), and `on_response`
  is skipped when the plugin has consumed its last result (`main.rs:2005`).
- After a short-circuit `on_response` of the earlier middlewares may still rewrite the
  response (`main.rs:1643`), and not every form passes them the body (`main.rs:1728`).
- A path that an operation fits is answered 404 when a longer, more specific template
  passes through it (`trie.rs:161`): `LostOnlyToDeeper`. A parameter keeps the name used
  by the first operation loaded (`trie.rs:125`): `NamesAgree`. Two operations that
  differ only in a trailing slash, or in SEND against POST, get one route
  (`artifact.rs:566`): `ReplacedOnlyByAlias`.
- Parameter values are validated as JSON strings, so a parameter of type integer
  refuses every request (`validator.rs`).
- An MCP tools/call without an id is carried out without a session, and the path
  parameters of a tool call reach plugins percent-encoded (`mcp/mod.rs`): the premises
  of `SessionContract` and `ToolCallsAreValid`. A hot reload drops all sessions
  (`main.rs:963`).
- A token without `sub` passes jwt-auth (`lib.rs:204`), oidc-auth (`lib.rs:319`) and
  oauth2-auth (`lib.rs:194`), which then leave the client's own `x-auth-consumer` in
  place, and the acl (`lib.rs:51`) judges the request by it; the same holds of
  `x-auth-consumer-groups` where no group is attested. `ConsumerIsAllowed` states this
  as the one exception, and the run has requests of both kinds.
- `docs/guide/mcp.md:16` says tool calls go through validation, "identical security to
  regular HTTP requests". They are not validated, and the schema that is published for
  a tool accepts arguments the validator would refuse: a number for a parameter of type
  integer (`tools.rs:79`, `validator.rs:362`), a body property with the name of a
  parameter (`tools.rs:121`, which the parameter then consumes, `tools.rs:196`), and a
  body without properties (`tools.rs:136`, sent as `{"body": ...}`). `Translatable`
  lists the cases, and the run has a call of each of these three.
- oidc-auth documents caches of discovery and keys
  (`docs/guide/middlewares/authentication.md:177`); its instances live for one request,
  so nothing is cached. opa-authz's `include_body` sends no body.

Plugins and upstreams

- The cache middleware has no body access, so a hit has no body
  (`plugins/cache/src/lib.rs:141`, `docs/guide/middlewares/caching.md:9`); it ignores
  `no-cache` and `max-age`; the documented default statuses and key are not the code's.
  `CacheServesFresh` is about what identifies and dates an entry. The key is one text
  with "|" between its parts, so requests with a "|" in path, query or a header of vary
  can share an entry (`plugins/cache/src/lib.rs:160`): the exception the property names.
- Stacked rate limits with one partition key share one bucket
  (`plugins/rate-limit/src/lib.rs:121`), and the limiter forgets a partition after
  300 s although windows of a day are documented (`rate_limiter.rs:216`): hence `Sound`.
  A partition key of the form `context:` is static text. The announced retry_after is cut
  off to whole seconds (`rate_limiter.rs:98`), so a client that waits exactly that long
  can be refused once more: `RetryIsHonest` gives it the second that follows.
- No production code configures a circuit breaker (`http_client.rs:420`). The problem
  body the host makes for a failed call is dropped by the SDK. http-log's
  `include_body` never has a body to report.
- A 202 of the nats dispatcher means that the client library took the message. A `tls`
  URL of NATS is resolved again by the library, and rskafka connects to the brokers the
  cluster advertises, unfiltered, as the comment at `kafka_client.rs:138` says:
  `EgressConfined` excepts these two and nothing else.
- S3 keys with `%`, `?` or `#` are signed in a form other than the one sent
  (`plugins/s3/src/lib.rs:146`): the premise `PlainKey` of `SentAsPromised`.
- ai-token-limit keeps the partition "so on_response charges the same bucket"
  (`docs/guide/middlewares/ai-gateway.md:154`, `CHANGELOG.md:124`), but `context_get`
  gives no empty value back (`plugins/ai-token-limit/src/lib.rs:436`): with a partition
  by header and a header sent empty, the admission is charged to one bucket and the
  tokens to the bucket `unknown` that all requests without the header share (`lib.rs:185`).
  `BudgetsAgree` states this exception, and the run has such a request. Usage of the
  Responses protocol is never charged; charges beyond the quota are dropped. The guide
  says that the plugin fails open (`ai-gateway.md:157`); it fails closed.
- ai-prompt-guard reads neither the arguments of the tool calls that a client repeats
  (`plugins/ai-prompt-guard/src/lib.rs:354`), which every provider receives
  (`chat_completion.rs:165`), nor the `input` of the Responses protocol, nor content
  parts without a type: the exceptions of `PromptIsGuarded` and of `PlainChat`.
  ai-response-guard lets bodies pass that are not JSON (`lib.rs:148`) and redacts the
  contents of a chat only, not errors, not the Responses protocol, not the arguments of
  tool calls (`lib.rs:272`): the exceptions of `ResponseIsGuarded`. Fallback targets skip
  the catalog policy.

Compiler and artifact

- routes.json and the specs are never compared with the manifest's checksums on load,
  and a missing plugin member is not noticed (`main.rs:747`; `docs/reference/artifact.md:230`
  and `docs/contributing/security-testing.md:25` say otherwise): `LoadedIsSealed`.
- The sha256 of a plugin's entry is not part of the artifact hash (`artifact.rs:898`), and
  it is what the bytes are compared with on load (`artifact.rs:1009`); the entry of
  `checksums` that the hash does cover is never compared. A plugin replaced together with
  that field is loaded under a valid hash and signature, although `artifact.rs:832`,
  `main.rs:747` and `docs/reference/configuration.md:75` say that the signature binds every
  plugin: the exception `LoadedIsSealed` names.
- A reference `name@version` compiles and is then not found in the pool: `RoutesAsDeclared`.
- E1011 for a middleware without a name (`docs/reference/cli.md:266`) is never raised.
- A spec saved between the two reads of parse_specs is embedded in one version and
  compiled in the other (`artifact.rs:456`): `EmbeddedIsCompiled`.
- A path described in two files keeps only the methods of the last one in the merged
  document (`main.rs:177`), in the order of a hash map. A component whose name is taken
  becomes `file_name`, which may itself be the name of a component (`main.rs:195`), and is
  not renamed in the references to it. A .json file that holds YAML compiles
  (`parser.rs:78`) and is then shown as it is, with its `x-barbacane` keys
  (`main.rs:2643`): `DocsShowTheApi`.
- `barbacane dev` drops a batch of changes when a connection is accepted during the
  debounce window (`main.rs:4004`; `docs/reference/cli.md:115` says "on every save");
  with `--spec` a change of the manifest ends the watch of the given files
  (`main.rs:4102`); a failed compilation leaves a new folder unwatched:
  `StaleOnlyIfMissed`.
- The watcher forwards every event, whatever its kind (`dev.rs:31`). Where the backend
  of notify reports opens (inotify does), a recompilation opens the watched files and so
  triggers the next one: after the first event the server recompiles without end, not
  only "on every save". `Settles`: it serves what is on disk all the same, and comes to
  rest where reads are not reported.

## 6. Plan

Done: all the modules above and the theorems of section 4. What is left for proofs is
listed there under "Only model-checked", with the reason for each.

Liveness of the control plane's sweep (a silent data plane goes offline) holds for one
session under weak fairness of handlers and sweep; with two sessions its graph is beyond
a run of minutes, and the run of `ControlSession` is about two sessions.

## 7. Not modelled

Telemetry (metrics, tracing, logs): it changes no state the rest reads. The web UI
(`ui/`) and the test harness (`crates/barbacane-test`) are programs around the system.
JSON Schema validation, CEL, regular expressions, TLS, HTTP parsing, cryptography, the
databases and broker clients and the WASM runtime are libraries, present only through
what the code does with their results. The plugin SDK is modelled as far as the host
needs it; its JSON bindings are not. Within the modelled parts: wording, logs, HTTP/2
multiplexing on one connection, several projects in one session model, and pools of TLS
clients and client certificates.
