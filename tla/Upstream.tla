------------------------------ MODULE Upstream ------------------------------
(***************************************************************************)
(* What plugins do to the outside world through the host: requests that    *)
(* pass transformers, cache, log and observability middlewares and end in  *)
(* a dispatcher, over the services all requests share: the HTTP client     *)
(* with its guard, resolver and circuit breakers, the response cache, the  *)
(* broker publishers and the rate limiter (RateLimiter).                   *)
(*                                                                         *)
(* A request runs handlers of plugin instances.  A handler that calls out  *)
(* blocks: the call goes out, the host comes back, the guest goes on; time *)
(* passes and DNS changes in between.  The scenario fixes the chain, the   *)
(* dispatcher, the requests and the environment.                           *)
(***************************************************************************)
EXTENDS RateLimiter, PluginHost

CONSTANTS
  Requests,             \* requests that may be in progress at once
  Scenarios,            \* names of scenarios, and what each is
  Setup,
  MAX_CACHE_ENTRIES,    \* 10 000 in the code
  MAX_CONNECTIONS,      \* 256 in the code, for each kind of broker
  cache_interval        \* 60 seconds in the code

(* A breaker opens on one failure or more. *)
ASSUME BreakerAssumption ==
  \A name \in Scenarios : \A h \in DOMAIN Setup[name].breakers :
    Setup[name].breakers[h] \in [failure_threshold : Nat \ {0}, failure_window : Nat,
                                reset_timeout : Nat, success_threshold : Nat]

(* The middlewares of an operation, in their order. *)
ASSUME ChainAssumption ==
  \A name \in Scenarios : Setup[name].chain \in Seq(Range(Setup[name].chain))

VARIABLES
  scenario,
  started,       \* requests begun so far
  rq,            \* each request in progress
  dns,           \* what a lookup of each host answers now
  breakers,      \* circuit breakers by host
  entries,       \* response cache: namespaced keys to entries
  cache_cleanup, \* its last_cleanup
  conns,         \* open broker connections: <<plugin, url>>
  published,     \* history: messages the brokers took
  reached,       \* history: addresses connected to, <<by whom, address>>
  outcomes       \* history: the results each breaker has recorded

shared == <<dns, breakers, entries, cache_cleanup, conns, published, reached, outcomes>>
limiter == <<windows, last_cleanup, call, granted, retry>>
hostVars == <<scenario, started, rq, shared, now, limiter>>

S == Setup[scenario]

Active == {r \in Requests : rq[r].pc /= "idle"}

NoResponse == [status |-> 0, headers |-> <<>>, body |-> {}]

-----------------------------------------------------------------------------
(* Circuit breaker *)

NewBreaker(config) ==
  [config |-> config, state |-> "closed", failures |-> 0, window_start |-> 0, opened_at |-> 0,
   successes |-> 0]

(* At least 1, as 0 means that no window has begun. *)
now_millis == IF now = 0 THEN 1 ELSE now

evaluate_state(b) ==
  IF b.state = "open" /\ now_millis > b.opened_at + b.config.reset_timeout
  THEN [b EXCEPT !.state = "half_open", !.successes = 0] ELSE b

Opened(b) == [b EXCEPT !.state = "open", !.opened_at = now_millis]

(* Mutant: a success leaves the failures counted so far. *)
KeepsFailures(host) ==
  LET b == evaluate_state(breakers[host])
      closed == [b EXCEPT !.failures = 0, !.window_start = 0, !.successes = 0]
  IN CASE b.state = "closed" -> b
       [] b.state = "half_open" -> IF b.successes + 1 >= b.config.success_threshold
                                   THEN [closed EXCEPT !.state = "closed"]
                                   ELSE [b EXCEPT !.successes = b.successes + 1]
       [] OTHER -> b

record_success(host) ==
  LET b == evaluate_state(breakers[host])
      closed == [b EXCEPT !.failures = 0, !.window_start = 0, !.successes = 0]
  IN CASE b.state = "closed" -> [closed EXCEPT !.successes = b.successes]
       [] b.state = "half_open" -> IF b.successes + 1 >= b.config.success_threshold
                                   THEN [closed EXCEPT !.state = "closed"]
                                   ELSE [b EXCEPT !.successes = b.successes + 1]
       [] OTHER -> b

record_failure(host) ==
  LET b == evaluate_state(breakers[host])
      expired == b.window_start = 0 \/ now_millis > b.window_start + b.config.failure_window
      counted == IF expired THEN [b EXCEPT !.window_start = now_millis, !.failures = 1]
                 ELSE [b EXCEPT !.failures = b.failures + 1]
  IN CASE b.state = "closed" -> IF counted.failures >= b.config.failure_threshold
                                THEN Opened(counted) ELSE counted
       [] b.state = "half_open" -> Opened([b EXCEPT !.successes = 0])
       [] OTHER -> b

(* A host without a breaker counts as closed, and records nothing. *)
get_circuit_state(host) ==
  IF host \in DOMAIN breakers THEN evaluate_state(breakers[host]).state ELSE "closed"

Record(host, ok) ==
  IF host \in DOMAIN breakers
  THEN /\ breakers' = [breakers EXCEPT ![host] = IF ok THEN record_success(host) ELSE record_failure(host)]
       /\ outcomes' = [outcomes EXCEPT ![host] = Append(outcomes[host], [ok |-> ok, at |-> now_millis])]
  ELSE UNCHANGED <<breakers, outcomes>>

-----------------------------------------------------------------------------
(* Name resolution and its guards.  An address is named by its class. *)

ip_is_internal(addr) ==
  addr \in {"loopback", "private", "link_local", "unspecified", "multicast", "cgnat", "unique_local"}

permitted_addrs(addrs) == IF S.allow_internal THEN addrs ELSE {a \in addrs : ~ip_is_internal(a)}

(* One internal address is enough to refuse the host. *)
guard_external_host(host) ==
  IF S.allow_internal THEN "ok"
  ELSE IF dns[host] = {} THEN "connect"
  ELSE IF \E a \in dns[host] : ip_is_internal(a) THEN "blocked" ELSE "ok"

(* Mutant: the connection is made to whatever the name means by then. *)
UnguardedResolver(host) == dns[host]

(* The client resolves again when it connects, through the same filter. *)
GuardedResolver(host) == permitted_addrs(dns[host])

resolve_permitted_addrs(host) ==
  LET addrs == permitted_addrs(dns[host])
  IN [addrs |-> addrs,
      error |-> IF dns[host] = {} THEN "connect" ELSE IF addrs = {} THEN "blocked" ELSE ""]

(* The addresses a client connects to. *)
By(client, addrs) == {client} \X addrs

(* Headers that the client keeps to itself. *)
Forbidden == HopByHop \cup {"host", "content-length", "proxy-connection"}

-----------------------------------------------------------------------------
(* Requests *)

HostInit ==
  /\ Init
  /\ scenario \in Scenarios
  /\ started = 0
  /\ rq = [r \in Requests |-> [pc |-> "idle"]]
  /\ dns = S.dns
  /\ breakers = [h \in DOMAIN S.breakers |-> NewBreaker(S.breakers[h])]
  /\ entries = <<>>
  /\ cache_cleanup = 0
  /\ conns = {}
  /\ published = <<>>
  /\ reached = {}
  /\ outcomes = [h \in DOMAIN S.breakers |-> <<>>]

(* A request arrives: one instance for each middleware of its operation. *)
Start(r) ==
  /\ rq[r].pc = "idle" /\ started < S.rounds /\ Cardinality(Active) < S.racing
  /\ started' = started + 1
  /\ \E q \in S.requests :
       rq' = [rq EXCEPT ![r] =
                [pc |-> "request", i |-> 1, msg |-> q, context |-> <<>>, resp |-> NoResponse,
                 insts |-> [j \in 1 .. Len(S.chain) |-> get_instance(S.pool, S.chain[j].plugin)],
                 s |-> get_instance(S.pool, S.dispatcher.plugin), io |-> <<>>, entered |-> now,
                 came |-> q, id |-> started + 1, hit |-> {}, trap |-> {}, wire |-> {}, reads |-> {}, n |-> 0,
                 upgraded |-> FALSE]]
  /\ UNCHANGED shared

(* The client has its response. *)
Finish(r) ==
  /\ rq[r].pc = "done"
  /\ rq' = [rq EXCEPT ![r] = [pc |-> "idle"]]
  /\ UNCHANGED <<started, shared>>

Middleware(r) == S.chain[rq[r].i]

body_access(plugin) == plugin \in {"request-transformer", "response-transformer"}

(* The instance of the middleware whose turn it is, with its input. *)
Handler(r, held) ==
  call_handler(rq[r].insts[rq[r].i], rq[r].context,
               prepare_body(held, body_access(Middleware(r).plugin)), now)

AtRequest(r, plugin) ==
  rq[r].pc = "request" /\ rq[r].i <= Len(S.chain) /\ Middleware(r).plugin = plugin

(* The handler returns: its instance is kept for the response, its context *)
(* and message go to the next one.                                         *)
Continue(r, s, msg) ==
  rq' = [rq EXCEPT ![r].insts[rq[r].i] = s, ![r].context = s.values, ![r].i = rq[r].i + 1,
                   ![r].msg = [msg EXCEPT !.body = collect_after(s, rq[r].msg.body,
                                                     body_access(Middleware(r).plugin))]]

AtResponse(r, plugin) ==
  rq[r].pc = "response" /\ rq[r].i > 0 /\ Middleware(r).plugin = plugin

Return(r, s, resp) ==
  rq' = [rq EXCEPT ![r].pc = "response", ![r].context = s.values, ![r].i = rq[r].i - 1,
                   ![r].insts[rq[r].i] = s,
                   ![r].resp = [resp EXCEPT !.body = collect_after(s, rq[r].resp.body,
                                                       body_access(Middleware(r).plugin))]]

(* The whole chain has seen the response; what it made of a 101 is dropped. *)
Answer(r) ==
  /\ rq[r].pc = "response" /\ rq[r].i = 0
  /\ rq' = [rq EXCEPT ![r].pc = "done", ![r].resp = IF rq[r].upgraded THEN SwitchingProtocols ELSE @]
  /\ UNCHANGED <<started, shared>>

Seen(s, msg) == [msg EXCEPT !.body = s.request_body]

-----------------------------------------------------------------------------
(* Middlewares that need nothing but the message and the context *)

TransformRequest(r) ==
  /\ AtRequest(r, "request-transformer")
  /\ LET s == Handler(r, rq[r].msg.body)
         read == read_request_body(s)
         out == request_transformer(Middleware(r).config, Seen(s, rq[r].msg), s.values)
     IN Continue(r, host_set_output(write_body(read.state, out.body), "continue"), out)
  /\ UNCHANGED <<started, shared>>

TransformResponse(r) ==
  /\ AtResponse(r, "response-transformer")
  /\ LET s == Handler(r, rq[r].resp.body)
         read == read_request_body(s)
         out == response_transformer(Middleware(r).config, Seen(s, rq[r].resp))
     IN Return(r, host_set_output(write_body(read.state, out.body), "response"), out)
  /\ UNCHANGED <<started, shared>>

(* response-transformer has nothing to do with requests, nor               *)
(* request-transformer with responses.                                     *)
Pass(r) ==
  /\ \/ AtRequest(r, "response-transformer") /\ Continue(r, Handler(r, rq[r].msg.body), rq[r].msg)
     \/ AtResponse(r, "request-transformer") /\ Return(r, Handler(r, rq[r].resp.body), rq[r].resp)
  /\ UNCHANGED <<started, shared>>

(* http-log keeps what it will report in the context. *)
LogRequest(r) ==
  /\ AtRequest(r, "http-log")
  /\ LET s == Handler(r, rq[r].msg.body)
     IN Continue(r, host_context_set(host_context_set(s, "http_log_start_ms", now),
                                     "http_log_path", rq[r].msg.path), rq[r].msg)
  /\ UNCHANGED <<started, shared>>

LogEntry(r, s) ==
  [path |-> Lookup(s.values, "http_log_path", <<>>), status |-> rq[r].resp.status,
   duration |-> Since(now, Lookup(s.values, "http_log_start_ms", 0))]

(* observability only reads the clock: the metrics registry is absent. *)
Observe(r) ==
  /\ \/ /\ AtRequest(r, "observability")
        /\ Continue(r, host_context_set(Handler(r, rq[r].msg.body), "observability_start_ms", now), rq[r].msg)
     \/ /\ AtResponse(r, "observability")
        /\ LET got == host_context_get(Handler(r, rq[r].resp.body), "observability_start_ms")
           IN Return(r, read_result(got.state, "context").state, rq[r].resp)
  /\ UNCHANGED <<started, shared>>

-----------------------------------------------------------------------------
(* Response cache *)

Live(table) == [k \in {k \in DOMAIN table : table[k].expires_at > now} |-> table[k]]

(* maybe_cleanup *)
Cleaned == IF now - cache_cleanup >= cache_interval THEN Live(entries) ELSE entries

(* ResponseCache::get *)
cache_get(key) == IF key \in DOMAIN Cleaned /\ Cleaned[key].expires_at > now THEN {Cleaned[key]} ELSE {}

(* ResponseCache::set: the tables it may leave.  To make room, the expired *)
(* entries go, then one that is closest to its end.                        *)
cache_set(key, entry) ==
  LET room == Live(entries)
      crowded == Cardinality(DOMAIN entries) >= MAX_CACHE_ENTRIES /\ key \notin DOMAIN entries
      full == crowded /\ Cardinality(DOMAIN room) >= MAX_CACHE_ENTRIES
      victims == {k \in DOMAIN room : \A l \in DOMAIN room : room[k].expires_at <= room[l].expires_at}
  IN IF full THEN {Put(Without(room, {v}), key, entry) : v \in victims}
     ELSE {Put(IF crowded THEN room ELSE entries, key, entry)}

(* The pieces a header value is made of, where its text matters. *)
HeaderText(v) == IF v = "fr|te=x" THEN <<"fr", "|", "te", "=", "x">> ELSE <<v>>

(* Mutant: the headers of vary are left out. *)
KeyWithoutVary(config, req) ==
  <<req.method>> \o req.path \o (IF req.query = <<>> THEN <<>> ELSE <<"?">> \o FlattenSeq(req.query))

(* One text: what a part holds cannot be told from what separates them. *)
build_cache_key(config, req) ==
  <<req.method>> \o req.path \o (IF req.query = <<>> THEN <<>> ELSE <<"?">> \o FlattenSeq(req.query))
    \o FlattenSeq([i \in 1 .. Len(config.vary) |->
                     IF config.vary[i] \in DOMAIN req.headers
                     THEN <<"|", config.vary[i], "=">> \o HeaderText(req.headers[config.vary[i]]) ELSE <<>>])

(* Cache::on_request: a hit answers the request, with the entry's status,  *)
(* headers and body.                                                       *)
CacheLookup(r) ==
  /\ AtRequest(r, "cache")
  /\ LET config == Middleware(r).config
         s == Handler(r, rq[r].msg.body)
         key == build_cache_key(config, rq[r].msg)
         found == cache_get(namespace_key("cache", key))
         got == read_result(host_cache_get(s, found).state, "cache").state
         keyed == [got EXCEPT !.guest = {key}]
     IN IF rq[r].msg.method \notin config.methods
        THEN /\ Continue(r, [s EXCEPT !.guest = {}], rq[r].msg)
             /\ UNCHANGED <<entries, cache_cleanup>>
        ELSE /\ entries' = Cleaned
             /\ cache_cleanup' = IF now - cache_cleanup >= cache_interval THEN now ELSE cache_cleanup
             /\ IF found = {} THEN Continue(r, keyed, rq[r].msg)
                ELSE LET e == CHOOSE e \in found : TRUE
                     IN rq' = [rq EXCEPT ![r].pc = "response", ![r].i = rq[r].i - 1,
                                         ![r].insts[rq[r].i] = keyed,
                                         ![r].resp = [status |-> e.status, body |-> e.body,
                                                      headers |-> Put(e.headers, "x-cache", "HIT")],
                                         ![r].hit = {[entry |-> e, at |-> now, config |-> config]}]
  /\ UNCHANGED <<started, dns, breakers, conns, published, reached, outcomes>>

Storable(config, resp) ==
  /\ resp.status \in config.cacheable_status
  /\ Lookup(resp.headers, "cache-control", "") \notin {"no-store", "private"}

(* Cache::on_response.  The plugin has no body_access, and sees no body;   *)
(* `held` and `of` are kept for the properties.                            *)
CacheStore(r) ==
  /\ AtResponse(r, "cache")
  /\ LET config == Middleware(r).config
         s == Handler(r, rq[r].resp.body)
         seen == Seen(s, rq[r].resp)
     IN IF s.guest = {} \/ ~Storable(config, seen)
        THEN Return(r, s, seen) /\ UNCHANGED entries
        ELSE /\ entries' \in cache_set(namespace_key("cache", CHOOSE k \in s.guest : TRUE),
                              [status |-> seen.status, headers |-> seen.headers, body |-> seen.body,
                               expires_at |-> now + config.ttl, created_at |-> now, by |-> "cache",
                               of |-> rq[r].msg, held |-> rq[r].resp.body])
             /\ Return(r, s, [seen EXCEPT !.headers = Put(seen.headers, "x-cache", "MISS")])
  /\ UNCHANGED <<started, dns, breakers, cache_cleanup, conns, published, reached, outcomes>>

-----------------------------------------------------------------------------
(* Blocking calls.  While one is out, pc is "io" and io says for whom the  *)
(* call is, what it is and how far it has come.                            *)

Suspend(r, s, io) == rq' = [rq EXCEPT ![r].pc = "io", ![r].s = s, ![r].io = io]

(* SDK http::call and host_http_call: the request of `who` goes out. *)
Blocking(r, s, who, request) ==
  LET set == host_http_request_body_set(s, IF request.body = {} THEN Empty ELSE CHOOSE b \in request.body : TRUE)
  IN Suspend(r, host_http_call_takes(set),
            [who |-> who, step |-> "guard", request |-> [request EXCEPT !.body = set.http_request_body]])

(* The host function returns; the guest runs again. *)
Back(r, s) == rq' = [rq EXCEPT ![r].s = s, ![r].io.step = "back", ![r].entered = now]

AtStep(r, step) == rq[r].pc = "io" /\ rq[r].io.step = step

(* HttpClient::call_with_tls up to send: scheme, guard and breaker. *)
HttpGuard(r) ==
  /\ AtStep(r, "guard")
  /\ LET url == rq[r].io.request.url
         guard == guard_external_host(url.host)
         verdict == IF url.scheme = "http" /\ ~S.allow_plaintext THEN "plaintext"
                    ELSE IF guard /= "ok" THEN guard
                    ELSE IF get_circuit_state(url.host) = "open" THEN "circuit_open" ELSE "ok"
     IN /\ IF verdict = "ok" THEN rq' = [rq EXCEPT ![r].io.step = "send"]
           ELSE Back(r, host_http_call_returns(rq[r].s, error_head(verdict), {}, now))
        /\ breakers' = [h \in DOMAIN breakers |->
                          IF h = url.host /\ verdict \in {"ok", "circuit_open"} THEN evaluate_state(breakers[h])
                          ELSE breakers[h]]
  /\ UNCHANGED <<started, dns, entries, cache_cleanup, conns, published, reached, outcomes>>

(* The url as the client parses it: a ? in what was meant as a key ends    *)
(* the path.                                                               *)
parse_url(url) ==
  IF "a?b" \notin Range(url.path) THEN url
  ELSE [url EXCEPT !.path = [i \in 1 .. Len(url.path) |-> IF url.path[i] = "a?b" THEN "a" ELSE url.path[i]],
                   !.query = << <<"b", "">> >> \o url.query]

(* What goes over the wire: the client parses the url, sets the host and   *)
(* drops the headers it forbids.                                           *)
Wire(request) == [request EXCEPT !.headers = Without(request.headers, Forbidden), !.url = parse_url(request.url)]

(* No address is left to connect to, or none answers. *)
HttpFail(r) ==
  /\ AtStep(r, "send")
  /\ LET host == rq[r].io.request.url.host
         addrs == GuardedResolver(host)
     IN \E kind \in (IF addrs = {} THEN {"connect"} ELSE S.failures) :
          /\ reached' = IF kind = "connect" THEN reached ELSE reached \cup By("http", addrs)
          /\ Record(host, FALSE)
          /\ Back(r, host_http_call_returns(rq[r].s, error_head(kind), {}, now))
  /\ UNCHANGED <<started, dns, entries, cache_cleanup, conns, published>>

(* The upstream answers.  The success is recorded before the body is read, *)
(* which may still be too large or be cut off.                             *)
HttpAnswer(r) ==
  /\ AtStep(r, "send")
  /\ LET host == rq[r].io.request.url.host
     IN \E a \in GuardedResolver(host), answer \in S.answers :
          /\ reached' = reached \cup By("http", {a})
          /\ Record(host, TRUE)
          /\ LET s == rq[r].s
                 back == IF answer.body = {[kind |-> "oversized"]}
                         THEN host_http_call_returns(s, error_head("too_large"), {}, now)
                         ELSE host_http_call_returns(s, [status |-> answer.status, headers |-> answer.headers],
                                                     answer.body, now)
             IN rq' = [rq EXCEPT ![r].s = back, ![r].io.step = "back", ![r].entered = now,
                                 ![r].wire = {Wire(rq[r].io.request)}]
  /\ UNCHANGED <<started, dns, entries, cache_cleanup, conns, published>>

(* The guest has used up its time: dispatch ends in a 500, a middleware's  *)
(* on_response is skipped.                                                 *)
Trap(r) ==
  /\ AtStep(r, "back") /\ Overrun(rq[r].s, now)
  /\ rq' = IF rq[r].io.who = "http-log"
           THEN [rq EXCEPT ![r].pc = "response", ![r].i = rq[r].i - 1, ![r].trap = {now - rq[r].entered}]
           ELSE [rq EXCEPT ![r].pc = "done", ![r].resp = Problem(500), ![r].trap = {now - rq[r].entered}]
  /\ UNCHANGED <<started, shared>>

Resumes(r, who) == AtStep(r, "back") /\ rq[r].io.who = who /\ ~Overrun(rq[r].s, now)

(* HttpLog::on_response sends its entry, and does not look at the result. *)
LogResponse(r) ==
  /\ AtResponse(r, "http-log")
  /\ LET s == Handler(r, rq[r].resp.body)
     IN Blocking(r, s, "http-log",
                 [method |-> "POST", url |-> Middleware(r).config.url,
                  headers |-> [h \in {"content-type"} |-> "json"],
                  body |-> {[kind |-> "log", entry |-> LogEntry(r, s)]}])
  /\ UNCHANGED <<started, shared>>

LogSent(r) ==
  /\ Resumes(r, "http-log")
  /\ Return(r, http_call_result(rq[r].s).state, rq[r].resp)
  /\ UNCHANGED <<started, shared>>

-----------------------------------------------------------------------------
(* Dispatchers *)

AtDispatch(r, plugin) ==
  rq[r].pc = "request" /\ rq[r].i > Len(S.chain) /\ S.dispatcher.plugin = plugin

DispatchState(r) == call_handler(rq[r].s, rq[r].context, rq[r].msg.body, now)

Config == S.dispatcher.config

(* The dispatcher's response enters the chain from its end. *)
Dispatched(r, s, resp) ==
  rq' = [rq EXCEPT ![r].pc = "response", ![r].i = Len(S.chain), ![r].s = write_body(s, resp.body),
                   ![r].context = s.values, ![r].resp = resp]

CallOut(r, request) == Blocking(r, read_request_body(DispatchState(r)).state, S.dispatcher.plugin, request)

DispatchHttpUpstream(r) ==
  /\ AtDispatch(r, "http-upstream")
  /\ CallOut(r, HttpUpstreamCall(Config, rq[r].msg))
  /\ UNCHANGED <<started, shared>>

DispatchLambda(r) ==
  /\ AtDispatch(r, "lambda")
  /\ CallOut(r, LambdaCall(Config, rq[r].msg))
  /\ UNCHANGED <<started, shared>>

DispatchForward(r) ==
  /\ AtDispatch(r, "fire-and-forget")
  /\ CallOut(r, ForwardCall(Config, rq[r].msg))
  /\ UNCHANGED <<started, shared>>

DispatchMock(r) ==
  /\ AtDispatch(r, "mock")
  /\ Dispatched(r, DispatchState(r), MockResponse(Config, rq[r].msg))
  /\ UNCHANGED <<started, shared>>

(* Without a bucket or a key there is nothing to ask for. *)
DispatchS3(r) ==
  /\ AtDispatch(r, "s3")
  /\ IF S3Bucket(Config, rq[r].msg) = {} \/ S3Key(Config, rq[r].msg) = {}
     THEN Dispatched(r, DispatchState(r), Problem(400))
     ELSE CallOut(r, S3Call(Config, rq[r].msg, S.day))
  /\ UNCHANGED <<started, shared>>

(* The guest of a dispatcher goes on with the result of its call. *)
HttpResume(r) ==
  /\ \E who \in {"http-upstream", "lambda", "fire-and-forget", "s3"} :
       /\ Resumes(r, who)
       /\ LET got == http_call_result(rq[r].s)
              again == who = "s3" /\ rq[r].n = 0 /\ S3FallsBack(Config, rq[r].msg, got.data)
          IN IF again
             THEN LET request == S3FallbackCall(Config, rq[r].msg, S.day)
                  IN rq' = [rq EXCEPT ![r].n = 1, ![r].s = host_http_call_takes(got.state),
                                      ![r].io = [who |-> who, step |-> "guard",
                                                 request |-> [request EXCEPT !.body = {Empty}]]]
             ELSE Dispatched(r, got.state,
                             CASE who = "http-upstream" -> HttpUpstreamResponse(got.data)
                               [] who = "lambda" -> LambdaResponse(got.data)
                               [] who = "fire-and-forget" -> ForwardResponse(Config)
                               [] who = "s3" -> S3Response(got.data))
  /\ UNCHANGED <<started, shared>>

(* ws-upstream asks for the upgrade; the host connects after dispatch. *)
DispatchWs(r) ==
  /\ AtDispatch(r, "ws-upstream")
  /\ LET up == host_ws_upgrade(DispatchState(r), WsUpgradeRequest(Config, rq[r].msg))
     IN IF ~WantsWebSocket(rq[r].msg) THEN Dispatched(r, DispatchState(r), Problem(400))
        ELSE rq' = [rq EXCEPT ![r].pc = "upgrade", ![r].s = up.state, ![r].context = up.state.values,
                              ![r].resp = SwitchingProtocols]
  /\ UNCHANGED <<started, shared>>

(* connect_upstream: pinned to the addresses its one lookup has left.  The *)
(* chain sees a 101 whose changes are dropped; a failure is a 500 that the *)
(* chain does not see.                                                     *)
ConnectWs(r) ==
  /\ rq[r].pc = "upgrade"
  /\ LET request == CHOOSE q \in take_ws_upgrade_request(rq[r].s) : TRUE
         found == resolve_permitted_addrs(request.url.host)
     IN \/ /\ \E a \in found.addrs : reached' = reached \cup By("ws", {a})
           /\ rq' = [rq EXCEPT ![r].pc = "response", ![r].i = Len(S.chain), ![r].upgraded = TRUE]
        \/ /\ rq' = [rq EXCEPT ![r].pc = "done", ![r].resp = Problem(500)]
           /\ UNCHANGED reached
  /\ UNCHANGED <<started, dns, breakers, entries, cache_cleanup, conns, published, outcomes>>

-----------------------------------------------------------------------------
(* Brokers: kafka and nats *)

Publisher == <<S.dispatcher.plugin, Config.url>>

(* get_or_connect begins: an open connection, or addresses to connect to,  *)
(* all of which have passed the guard.                                     *)
Publishing(r) ==
  LET s == read_request_body(DispatchState(r)).state
      found == [b \in Config.brokers |-> resolve_permitted_addrs(b)]
      io(step, addrs) == [who |-> S.dispatcher.plugin, message |-> BrokerMessage(Config, rq[r].msg),
                          step |-> step, addrs |-> addrs]
  IN Suspend(r, s, IF Publisher \in conns THEN io("publish", {})
                   ELSE IF \E b \in Config.brokers : found[b].error /= "" THEN io("refused", {})
                   ELSE io("connect", UNION {found[b].addrs : b \in Config.brokers}))

DispatchKafka(r) ==
  /\ AtDispatch(r, "kafka")
  /\ Publishing(r)
  /\ UNCHANGED <<started, shared>>

DispatchNats(r) ==
  /\ AtDispatch(r, "nats")
  /\ Publishing(r)
  /\ UNCHANGED <<started, shared>>

(* Connected outside the lock, to one of the addresses, then entered if    *)
(* there is room; the connection may also fail.                            *)
Connects(r, client, addrs) ==
  LET full == /\ Cardinality({c \in conns : c[1] = S.dispatcher.plugin}) >= MAX_CONNECTIONS
              /\ Publisher \notin conns
  IN \/ \E a \in addrs :
          /\ reached' = reached \cup By(client, {a})
          /\ conns' = IF full THEN conns ELSE conns \cup {Publisher}
          /\ rq' = [rq EXCEPT ![r].io.step = IF full THEN "refused" ELSE "publish"]
     \/ /\ rq' = [rq EXCEPT ![r].io.step = "refused"]
        /\ UNCHANGED <<reached, conns>>

KafkaConnect(r) ==
  /\ AtStep(r, "connect") /\ rq[r].io.who = "kafka"
  /\ Connects(r, "kafka", rq[r].io.addrs)
  /\ UNCHANGED <<started, dns, breakers, entries, cache_cleanup, published, outcomes>>

(* A tls url is not pinned: its name is resolved once more. *)
NatsConnect(r) ==
  /\ AtStep(r, "connect") /\ rq[r].io.who = "nats"
  /\ IF Config.tls THEN Connects(r, "nats tls", UNION {dns[b] : b \in Config.brokers})
     ELSE Connects(r, "nats", rq[r].io.addrs)
  /\ UNCHANGED <<started, dns, breakers, entries, cache_cleanup, published, outcomes>>

(* PublishResult: only an answer of the broker is a success. *)
publish_result(r, outcome) == [success |-> outcome = "taken", topic |-> rq[r].io.message.topic]

Outcomes(r) == IF AtStep(r, "refused") THEN {"refused"} ELSE {"taken", "late", "lost", "refused"}

Deliver(r, outcome) ==
  published' = IF outcome \in {"taken", "late"}
               THEN Append(published, [id |-> rq[r].id, message |-> rq[r].io.message]) ELSE published

(* partition_client: rskafka connects to the broker that the metadata of   *)
(* the cluster advertise, as they name it; it can also fail before it has. *)
PartitionLeader(r, outcome) ==
  \/ outcome = "refused" /\ UNCHANGED reached
  \/ /\ AtStep(r, "publish")
     /\ \E b \in S.advertised : \E a \in dns[b] : reached' = reached \cup By("kafka leader", {a})

(* produce, within PRODUCE_TIMEOUT: the broker has the message, refuses it *)
(* or does not answer in time, with or without having it.                  *)
KafkaPublish(r) ==
  /\ (AtStep(r, "publish") \/ AtStep(r, "refused")) /\ rq[r].io.who = "kafka"
  /\ \E outcome \in Outcomes(r) :
       /\ PartitionLeader(r, outcome)
       /\ Deliver(r, outcome)
       /\ Back(r, host_kafka_publish(rq[r].s, publish_result(r, outcome), now).state)
  /\ UNCHANGED <<started, dns, breakers, entries, cache_cleanup, conns, outcomes>>

(* client.publish only hands the message to the client, which may lose it. *)
NatsPublish(r) ==
  /\ (AtStep(r, "publish") \/ AtStep(r, "refused")) /\ rq[r].io.who = "nats"
  /\ \E outcome \in Outcomes(r) :
       /\ Deliver(r, outcome) \/ UNCHANGED published
       /\ Back(r, host_nats_publish(rq[r].s, publish_result(r, outcome), now).state)
  /\ UNCHANGED <<started, dns, breakers, entries, cache_cleanup, conns, reached, outcomes>>

BrokerResume(r) ==
  /\ \E who \in {"kafka", "nats"} : Resumes(r, who)
  /\ LET got == read_result(rq[r].s, "broker")
         result == CHOOSE x \in got.data : TRUE
     IN Dispatched(r, got.state, IF result.success THEN accepted_response(Config, result.topic) ELSE Problem(502))
  /\ UNCHANGED <<started, shared>>

-----------------------------------------------------------------------------
(* A plugin that calls the host in any order: the operations of the        *)
(* scenario, S.steps of them.  `reads` keeps what it read and what it was  *)
(* entitled to; n numbers its calls.                                       *)

Probing(r, op) ==
  /\ AtDispatch(r, "probe") /\ op \in S.ops /\ rq[r].n < S.steps

Probed(r, s) == rq' = [rq EXCEPT ![r].s = s, ![r].n = rq[r].n + 1]

Noted(r, s, c, data) ==
  rq' = [rq EXCEPT ![r].s = s, ![r].n = rq[r].n + 1, ![r].reads = @ \cup {<<c, d>> : d \in data}]

ProbeKey == <<"GET", "/", "x">>

ProbeMemory(r) ==
  LET s == rq[r].s
  IN \/ /\ Probing(r, "secret")
        /\ \E ref \in DOMAIN S.pool.secrets : Probed(r, host_get_secret(s, ref).state)
     \/ Probing(r, "uuid") /\ Probed(r, host_uuid_generate(s, rq[r].n).state)
     \/ \E c \in {"secret", "uuid"} :
          Probing(r, c) /\ s.slot[c] /= {} /\ Noted(r, read_result(s, c).state, c, s.slot[c])
     \/ Probing(r, "upgrade") /\ \E q \in {<<>>, [url |-> Config.url]} : Probed(r, host_ws_upgrade(s, q).state)

ProbeCache(r) ==
  LET s == rq[r].s
      found == cache_get(namespace_key("probe", ProbeKey))
  IN \/ /\ Probing(r, "cache")
        /\ Noted(r, read_result(host_cache_get(s, found).state, "cache").state, "cache", found)
        /\ entries' = Cleaned
     \/ /\ Probing(r, "cache")
        /\ entries' \in cache_set(namespace_key("probe", ProbeKey),
                         [status |-> 200, headers |-> <<>>, body |-> {}, expires_at |-> now + 1,
                          created_at |-> now, by |-> "probe", of |-> rq[r].msg, held |-> {}])
        /\ Probed(r, s)

(* A call whose result it may leave where it is. *)
ProbeCall(r) ==
  /\ Probing(r, "http")
  /\ LET io == [who |-> "probe", step |-> "guard",
                request |-> [method |-> "GET", url |-> Config.url, headers |-> <<>>, body |-> {}]]
     IN rq' = [rq EXCEPT ![r].pc = "io", ![r].s = host_http_call_takes(rq[r].s), ![r].io = io,
                         ![r].n = rq[r].n + 1]
  /\ UNCHANGED <<started, shared>>

(* A body without a head, or a head without a body, is its own to forget.  *)
ProbeResume(r) ==
  /\ Resumes(r, "probe")
  /\ LET got == http_call_result(rq[r].s)
     IN \/ rq' = [rq EXCEPT ![r].pc = "request"]
        \/ rq' = [rq EXCEPT ![r].pc = "request", ![r].s = got.state, ![r].reads = @ \cup {<<"http", got.data>>}]
  /\ UNCHANGED <<started, shared>>

ProbeEnds(r) ==
  /\ AtDispatch(r, "probe") /\ rq[r].n = S.steps
  /\ Dispatched(r, rq[r].s, [NoResponse EXCEPT !.status = 200])
  /\ UNCHANGED <<started, shared>>

-----------------------------------------------------------------------------
(* Environment *)

(* A name means something else from now on. *)
Rebind ==
  /\ \E h \in DOMAIN S.rebind : dns' = [dns EXCEPT ![h] = S.rebind[h]] /\ dns[h] /= S.rebind[h]
  /\ UNCHANGED <<started, rq, breakers, entries, cache_cleanup, conns, published, reached, outcomes>>

PluginStep(r) ==
  \/ Start(r) \/ Finish(r) \/ Answer(r)
  \/ TransformRequest(r) \/ TransformResponse(r) \/ Pass(r) \/ LogRequest(r) \/ Observe(r)
  \/ CacheLookup(r) \/ CacheStore(r)
  \/ HttpGuard(r) \/ HttpFail(r) \/ HttpAnswer(r) \/ Trap(r) \/ LogResponse(r) \/ LogSent(r)
  \/ DispatchHttpUpstream(r) \/ DispatchLambda(r) \/ DispatchForward(r) \/ DispatchMock(r)
  \/ DispatchS3(r) \/ HttpResume(r) \/ DispatchWs(r) \/ ConnectWs(r)
  \/ DispatchKafka(r) \/ DispatchNats(r) \/ KafkaConnect(r) \/ NatsConnect(r) \/ KafkaPublish(r) \/ NatsPublish(r)
  \/ BrokerResume(r)
  \/ ProbeCall(r) \/ ProbeResume(r) \/ ProbeEnds(r)
  \/ ProbeMemory(r) /\ UNCHANGED <<started, shared>>
  \/ ProbeCache(r) /\ UNCHANGED <<started, dns, breakers, cache_cleanup, conns, published, reached, outcomes>>

(* The limiter shares only the clock with the rest: in its scenario the    *)
(* plugins rest.                                                           *)
HostNext ==
  /\ UNCHANGED scenario
  /\ \/ S.limiter /\ Next /\ UNCHANGED <<started, rq, shared>>
     \/ ~S.limiter /\ Rebind /\ UNCHANGED <<now, limiter>>
     \/ ~S.limiter /\ (\E r \in Requests : PluginStep(r)) /\ UNCHANGED <<now, limiter>>
     \/ started = S.rounds /\ Active = {} /\ ~S.limiter /\ UNCHANGED hostVars
     \/ ~S.limiter /\ now < S.time /\ Tick /\ UNCHANGED <<started, rq, shared>>

HostSpec == HostInit /\ [][HostNext]_hostVars

-----------------------------------------------------------------------------
(* Properties *)

(* Connections that a library makes by itself, past the host's filter:     *)
(* async_nats resolves a tls url again, and rskafka follows the addresses  *)
(* that the brokers of a cluster advertise.                                *)
Unfiltered == {"nats tls", "kafka leader"}

Confined(c) == ip_is_internal(c[2]) => c[1] \in Unfiltered

(* However a name is rebound between the check, the lookup of the client   *)
(* and the connection, no plugin reaches an internal address through the   *)
(* HTTP client, a WebSocket, a plain nats url or the bootstrap brokers of  *)
(* kafka: what is reached inside is reached by one of the two libraries.   *)
EgressConfined == S.allow_internal \/ \A c \in reached : Confined(c)

(* The text of the key can be taken apart again: no part of it holds the   *)
(* separator of the headers of vary.                                       *)
Unambiguous(config, q) ==
  /\ "|" \notin Range(q.path) \cup Range(FlattenSeq(q.query))
  /\ \A v \in Range(config.vary) \cap DOMAIN q.headers : "|" \notin Range(HeaderText(q.headers[v]))

SameRequest(config, of, q) ==
  /\ of.path = q.path /\ of.query = q.query
  /\ \A v \in Range(config.vary) : Lookup(of.headers, v, "none") = Lookup(q.headers, v, "none")

(* A hit was stored less than its ttl ago, could be stored, and was stored *)
(* for a request of the same method, path, query and headers of vary,      *)
(* unless one of the two requests has a "|" in them: the key is one text   *)
(* in which that separates the parts (build_cache_key).                    *)
CacheServesFresh ==
  \A r \in Active : \A h \in rq[r].hit :
    LET of == h.entry.of
        q == rq[r].msg
    IN /\ h.at - h.entry.created_at < h.config.ttl
       /\ Storable(h.config, h.entry)
       /\ of.method = q.method
       /\ Unambiguous(h.config, of) /\ Unambiguous(h.config, q) => SameRequest(h.config, of, q)

OpensJustly ==
  \A h \in DOMAIN breakers :
    breakers[h].state = "closed" /\ breakers'[h].state = "open" =>
      LET n == breakers[h].config.failure_threshold
          log == outcomes'[h]
          last == SubSeq(log, Len(log) - n + 1, Len(log))
      IN /\ Len(log) >= n
         /\ \A i \in 1 .. n : ~last[i].ok
         /\ last[n].at - last[1].at <= breakers[h].config.failure_window

(* A closed breaker opens only on failures without a success between them, *)
(* as many as the threshold and within one window.                         *)
BreakerOpensJustly == [][OpensJustly]_hostVars

(* Status, headers and body are those of one answer, or of an error, which *)
(* has no body.                                                            *)
OfOneCall(data) ==
  \/ data.status \in {502, 503, 504} /\ data.body = {}
  \/ \E answer \in S.answers :
       data.status = answer.status /\ data.headers = answer.headers /\ data.body = answer.body

(* What a plugin reads is its own: head and body of one and the same call, *)
(* secrets its configuration names, cache entries it has stored itself.    *)
OwnRead(read) ==
  CASE read[1] = "http" -> OfOneCall(read[2])
    [] read[1] = "secret" -> \E ref \in S.pool.refs["probe"] : S.pool.secrets[ref] = read[2]
    [] read[1] = "cache" -> read[2].by = "probe"
    [] OTHER -> TRUE

OwnResult == \A r \in Active : \A read \in rq[r].reads : OwnRead(read)

(* Waiting for the network never costs a plugin its life: a guest that is  *)
(* stopped has itself run for the whole of its budget.                     *)
NoSpuriousTrap == \A r \in Active : \A t \in rq[r].trap : t >= max_execution_ms

(* The reference for the date: the days of the years before, of the months *)
(* before, and of the month.                                               *)
Leap(y) == (y % 4 = 0 /\ y % 100 /= 0) \/ y % 400 = 0

DaysOf(d) ==
  LET y == d.year - 1
      leaps == (y \div 4) - (y \div 100) + (y \div 400)
      before == <<0, 31, 59, 90, 120, 151, 181, 212, 243, 273, 304, 334>>[d.month]
  IN 365 * y + leaps + before + (IF d.month > 2 /\ Leap(d.year) THEN 1 ELSE 0) + d.day - 719163

(* The service computes the signature from what arrived. *)
Arrived(wire, config) ==
  LET date == wire.headers["x-amz-date"]
      hash == [sha256 |-> IF wire.body = {Empty} THEN {} ELSE wire.body]
      decoded == [i \in 1 .. Len(wire.url.path) |-> percent_decode(wire.url.path[i])]
      pairs == [i \in 1 .. Len(wire.url.query) |-> <<percent_decode(wire.url.query[i][1]),
                                                     percent_decode(wire.url.query[i][2])>>]
      sorted == SortSeq([i \in 1 .. Len(pairs) |-> <<percent_encode(pairs[i][1]), percent_encode(pairs[i][2])>>],
                        Precedes)
      amz == {"x-amz-content-sha256", "x-amz-date", "x-amz-security-token"} \cap DOMAIN wire.headers
  IN hmac_sha256([secret |-> config.secret, date |-> date, region |-> config.region],
       [method |-> wire.method, uri |-> [i \in 1 .. Len(decoded) |-> percent_encode(decoded[i])],
        query |-> sorted, headers |-> Put([h \in amz |-> wire.headers[h]], "host", wire.url.host),
        body_sha256 |-> hash, date |-> date])

(* A key whose text is the same in an url: it holds none of %, ? and #. *)
PlainKey(r) == \A k \in S3Key(Config, rq[r].msg) \cup Config.fallback_key : k \notin {"a%20b", "a?b"}

(* Whatever leaves for S3, after the client has parsed the url and dropped *)
(* and set headers, carries its own body's hash and today's date, and, for *)
(* keys without %, ? and #, the signature that the service computes; other *)
(* keys go into the url as they are and are signed encoded.                *)
SignatureVerifies ==
  S.dispatcher.plugin = "s3" =>
    \A r \in Active : \A wire \in rq[r].wire :
      /\ PlainKey(r) => wire.headers["authorization"] = Arrived(wire, Config)
      /\ wire.headers["x-amz-content-sha256"] = [sha256 |-> IF wire.body = {Empty} THEN {} ELSE wire.body]
      /\ DaysOf(wire.headers["x-amz-date"]) = S.day

Delivered(id) == {k \in 1 .. Len(published) : published[k].id = id}

(* No request has its message in the topic twice, and when the dispatcher  *)
(* answers with 202 it is there.  What the middlewares then make of the    *)
(* answer, or answer from the cache, is theirs.                            *)
AcknowledgedOnce ==
  \A r \in Active : S.dispatcher.plugin = "kafka" =>
    LET mine == Delivered(rq[r].id)
    IN /\ Cardinality(mine) <= 1
       /\ \A k \in mine : published[k].message = BrokerMessage(Config, rq[r].msg)
       /\ rq[r].pc = "response" /\ rq[r].i = Len(S.chain) /\ rq[r].resp.status = 202 => mine /= {}

(* What the host does for a plugin: its own results, its own time, and an  *)
(* answer of the broker that is true.                                      *)
HostCallsAreSound == OwnResult /\ NoSpuriousTrap /\ AcknowledgedOnce

(* Whatever is removed, renamed or added on the way, a value that          *)
(* request-transformer adds is the one the client's request had.           *)
TransformsOriginal ==
  \A r \in Active : \A wire \in rq[r].wire :
    S.dispatcher.plugin = "http-upstream" /\ S.chain /= <<>> /\ S.chain[1].plugin = "request-transformer" =>
      LET config == S.chain[1].config
          was(t) == interpolate_value(t, rq[r].came, <<>>)
      IN /\ \A p \in Range(config.headers.add) : wire.headers[p[1]] = was(p[2])
         /\ \A p \in Range(config.query.add) :
              SelectSeq(wire.url.query, LAMBDA x : x[1] = p[1]) = <<<<p[1], UrlEncode(was(p[2]))>>>>
         /\ \A p \in Range(config.body.add), b \in wire.body :
              b.kind = "object" => b.members[p[1]] = BodyValue(p[2], rq[r].came, <<>>)

(* What leaves for an upstream is what the plugins promise. *)
SentAsPromised == SignatureVerifies /\ TransformsOriginal

=============================================================================
