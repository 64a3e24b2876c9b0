---------------------------- MODULE RequestGate ----------------------------
(***************************************************************************)
(* The way of a request through the gateway up to its dispatcher, and of   *)
(* the answer back (main.rs: handle_request, handle_mcp_endpoint,          *)
(* handle_barbacane_endpoint, dispatch): limits, route, body, validation,  *)
(* then the middlewares of the operation, each in a new instance.  Tool    *)
(* calls of the MCP endpoint enter at the middlewares.                     *)
(*                                                                         *)
(* Connections are independent tasks; they share the MCP sessions and the  *)
(* identity provider.  A connection may stop at every await: the body, a   *)
(* call of a plugin to another service, the dispatcher.                    *)
(***************************************************************************)
EXTENDS Identity

CONSTANTS
    Conns,         \* connections
    Requests,      \* by name: [name, method, target, page, path, captures, uri, raw, query, body, peer]
    Alone,         \* names of those that share nothing: sent as the only request
    Routes,        \* of each target: the operation of each method (Routing)
    McpEnabled,    \* there is an MCP server
    SpecFiles,     \* pages under /__barbacane/ that exist
    Upgrade,       \* texts of an upgrade header that mean a WebSocket
    BodyAccess,    \* plugins that declare body_access
    KeySets,       \* key sets the identity provider may publish
    Statuses,      \* what a dispatcher may answer
    MaxRequests,   \* bound: requests of a behaviour
    MaxRotations   \* bound: changes of the published keys

ASSUME GateAssumption ==
    /\ Alone \subseteq DOMAIN Requests
    /\ {MaxRequests, MaxRotations} \subseteq Nat

Authentication == {"basic-auth", "apikey-auth", "jwt-auth", "oauth2-auth", "oidc-auth"}
Plugins == Authentication \cup {"acl", "ip-restriction", "bot-detection", "request-size-limit", "redirect", "cors",
                                "correlation-id", "cel", "opa-authz"}

\* The head of a request: its headers, query and captures are lists.
ASSUME RequestAssumption ==
    \A n \in DOMAIN Requests :
        LET r == Requests[n]
        IN /\ \A list \in {r.raw, r.query, r.captures} : Len(list) \in Nat /\ DOMAIN list = 1 .. Len(list)
           /\ \A i \in DOMAIN r.captures : {"name", "value"} \subseteq DOMAIN r.captures[i]

(* A loaded artifact: every route leads to an operation of it, and every   *)
(* chain is a list of plugins that were found.                             *)
ASSUME ArtifactAssumption ==
    /\ \A t \in DOMAIN Routes : \A m \in DOMAIN Routes[t] : Routes[t][m] \in DOMAIN Operations
    /\ \A i \in DOMAIN Operations :
          /\ \A n \in Operations[i].id : Operations[i].id = {n}
          /\ Len(Operations[i].chain) \in Nat /\ DOMAIN Operations[i].chain = 1 .. Len(Operations[i].chain)
          /\ \A k \in DOMAIN Operations[i].chain : Operations[i].chain[k].plugin \in Plugins

VARIABLES
    conn,       \* of each connection: the request it is working on
    published,  \* the keys the identity provider publishes
    rotations,  \* how often it changed them
    begun,      \* how many requests were sent
    ended,      \* ghost: sessions their client deleted
    last        \* ghost: when each session was last created or used

gateVars == <<conn, published, rotations, begun, ended, last>>
vars == <<mcpVars, gateVars>>

Idle == [pc |-> "idle", inst |-> FreshInstance]

Init ==
    /\ McpInit
    /\ conn = [c \in Conns |-> Idle]
    /\ published \in KeySets
    /\ rotations = 0 /\ begun = 0
    /\ ended = {} /\ last = <<>>

NoBody == [size |-> 0, json |-> {}]
Unmatched == "unmatched"
McpLabel == "/__barbacane/mcp"

-----------------------------------------------------------------------------
(* Answers *)

\* Names are in lower case; of two values of one name the last is kept.
HeaderMap(raw) ==
    LET legible == {i \in DOMAIN raw : raw[i].legible} IN LastOf([i \in legible |-> raw[i]])

\* The first x-request-id of the client, if it can be sent back.
RequestId(r) ==
    LET own == SelectSeq(r.raw, LAMBDA h : h.name = "x-request-id")
    IN IF own # <<>> /\ Head(own).legible /\ Head(own).value # <<>> THEN Head(own).value ELSE <<"uuid">>

TraceId(r) ==
    LET own == SelectSeq(r.raw, LAMBDA h : h.name = "traceparent")
    IN IF own # <<>> /\ Head(own).legible /\ Len(Head(own).value) >= 2 THEN <<Head(own).value[2]>> ELSE <<"uuid">>

add_standard_headers(headers, r) ==
    Put(Put(Put(headers, "x-request-id", RequestId(r)), "x-trace-id", TraceId(r)), "server", <<"barbacane">>)

add_deprecation_headers(headers, op) ==
    LET dated == IF op.deprecated THEN Put(headers, "deprecation", <<"true">>) ELSE headers
    IN IF op.deprecated /\ op.sunset # {} THEN Put(dated, "sunset", The(op.sunset)) ELSE dated

\* An answer, and the label it is recorded under, if it is.
Reply(status, headers, label) == [to |-> "reply", status |-> status, headers |-> headers, label |-> label]
bad_request_response(label) == Reply(400, NoHeaders, label)
validation_error_response(label) == Reply(400, NoHeaders, label)
payload_too_large_response(label) == Reply(413, NoHeaders, label)
not_found_response(label) == Reply(404, NoHeaders, label)
method_not_allowed_response(allowed, label) == Reply(405, [n \in {"allow"} |-> allowed], label)
dev_error_response == ShortCircuit(500, NoHeaders)

Done(c, r, reply) ==
    conn' = [conn EXCEPT ![c] = [pc |-> "done", r |-> r, inst |-> @.inst, label |-> reply.label,
        status |-> reply.status, headers |-> add_standard_headers(reply.headers, r)]]

-----------------------------------------------------------------------------
(* Reception *)

handle_barbacane_endpoint(r) ==
    IF r.method = "OPTIONS" THEN Reply(204, NoHeaders, {})
    ELSE IF r.method # "GET" THEN method_not_allowed_response({"GET"}, {})
    ELSE IF r.page \in SpecFiles THEN Reply(200, [n \in {"access-control-allow-origin"} |-> <<"*">>], {})
    ELSE not_found_response({})

TooLarge(headers) ==
    \E v \in {headers[n] : n \in {"content-length"} \cap DOMAIN headers} : v # <<>> /\ ~validate_body_size(v[1])

CorsOf(op) == SelectSeq(op.chain, LAMBDA m : m.plugin = "cors")

(* A preflight is answered by the cors middleware of one of the methods of *)
(* the path, alone.                                                        *)
handle_cors_preflight(cfg, headers) ==
    LET res == cors(cfg, [method |-> "OPTIONS", path |-> <<>>, query |-> <<>>, headers |-> headers,
                          client |-> "0.0.0.0", body |-> NoBody, ctx |-> <<>>])
    IN IF res.go THEN Reply(204, NoHeaders, {Unmatched}) ELSE Reply(res.status, res.headers, {Unmatched})

\* first: the method that the router names first.
NotAllowed(r, headers, first) ==
    LET chain == CorsOf(Operations[Routes[r.target][first]])
    IN IF /\ r.method = "OPTIONS" /\ chain # <<>>
          /\ {"origin", "access-control-request-method"} \subseteq DOMAIN headers
       THEN handle_cors_preflight(Head(chain), headers)
       ELSE method_not_allowed_response(DOMAIN Routes[r.target], {Unmatched})

Gate(r, first) ==
    LET headers == HeaderMap(r.raw)
    IN CASE ~validate_uri(r.uri) -> validation_error_response({Unmatched})
         [] r.target = "internal" /\ validate_uri(r.uri) -> handle_barbacane_endpoint(r)
         [] OTHER ->
              IF ~validate_header_count(r.raw) \/ \E i \in DOMAIN r.raw : ~validate_header_size(r.raw[i])
              THEN validation_error_response({Unmatched})
              ELSE IF TooLarge(headers) THEN payload_too_large_response({Unmatched})
              ELSE IF r.target \notin DOMAIN Routes THEN not_found_response({Unmatched})
              ELSE IF r.method \notin DOMAIN Routes[r.target] THEN NotAllowed(r, headers, first)
              ELSE [to |-> "collect"]

\* The same for the MCP endpoint, which has no limit on its headers.
McpGate(r) ==
    IF ~validate_uri(r.uri) THEN validation_error_response({Unmatched})
    ELSE IF ~McpEnabled THEN not_found_response({})
    ELSE IF r.method \in {"OPTIONS", "DELETE"} THEN Reply(204, NoHeaders, {})
    ELSE IF r.method # "POST" THEN method_not_allowed_response({"POST", "DELETE", "OPTIONS"}, {})
    ELSE IF TooLarge(HeaderMap(r.raw)) THEN payload_too_large_response({})
    ELSE [to |-> "collect"]

Collecting(c, r, via) ==
    conn' = [conn EXCEPT ![c] = [pc |-> "collect", r |-> r, via |-> via, inst |-> @.inst,
                                 headers |-> HeaderMap(r.raw), offered |-> published]]

SessionOf(r) ==
    LET own == SelectSeq(r.raw, LAMBDA h : h.name = "mcp-session-id")
    IN IF own = <<>> \/ ~Head(own).legible THEN {} ELSE {Head(own).value[1]}

MayBegin(c, n) ==
    /\ begun < MaxRequests /\ conn[c].pc \in {"idle", "done"}
    /\ n \in Alone => begun = 0
    /\ \A d \in Conns : conn[d].pc # "idle" => conn[d].r.name \notin Alone

Receive(c, n) ==
    /\ MayBegin(c, n) /\ Requests[n].target # "mcp"
    /\ LET r == Requests[n]
       IN \E first \in IF r.target \in DOMAIN Routes THEN DOMAIN Routes[r.target] ELSE {""} :
          LET v == Gate(r, first)
          IN IF v.to = "collect" THEN Collecting(c, r, "http") ELSE Done(c, r, v)
    /\ begun' = begun + 1
    /\ UNCHANGED <<mcpVars, published, rotations, ended, last>>

ReceiveMcp(c, n) ==
    /\ MayBegin(c, n) /\ Requests[n].target = "mcp"
    /\ LET r == Requests[n]
           v == McpGate(r)
           gone == IF r.method = "DELETE" /\ v.to = "reply" /\ v.status = 204 THEN SessionOf(r) ELSE {}
       IN /\ IF v.to = "collect" THEN Collecting(c, r, "mcp") ELSE Done(c, r, v)
          /\ sessions' = remove(gone)
          /\ ended' = ended \cup (gone \cap DOMAIN sessions)
    /\ begun' = begun + 1
    /\ UNCHANGED <<now, used, published, rotations, last>>

-----------------------------------------------------------------------------
(* The body, and what it is checked against *)

IsWebSocket(headers) == \E n \in {"upgrade"} \cap DOMAIN headers : headers[n] \in Upgrade

\* PluginPool::get_instance: a new one for every call of a plugin.
NewInstance(c) == FreshInstance

Chain(c, op, req) ==
    conn' = [conn EXCEPT ![c] = [pc |-> "chain", r |-> @.r, via |-> @.via, offered |-> @.offered,
                                 op |-> op, req |-> req, at |-> 1, inst |-> NewInstance(c)]]

ContentType(headers) == {headers[n] : n \in {"content-type"} \cap DOMAIN headers}

Validated(op, params, query, headers, body) ==
    validate_request(OperationValidator(op.params, op.body), params, query, headers, ContentType(headers), body)

Captured(r) == [i \in DOMAIN r.captures |-> [r.captures[i] EXCEPT !.value = percent_decode(@)]]

Collect(c) ==
    /\ conn[c].pc = "collect" /\ conn[c].via = "http"
    /\ LET r == conn[c].r
           i == Routes[r.target][r.method]
           op == Operations[i]
           body == IF IsWebSocket(conn[c].headers) THEN NoBody ELSE r.body
       IN IF body # NoBody /\ ~validate_body_size(body.size) THEN Done(c, r, payload_too_large_response({op.path}))
          ELSE IF body # NoBody /\ body.breaks THEN Done(c, r, bad_request_response({op.path}))
          ELSE IF Validated(op, Captured(r), r.query, conn[c].headers, body) # {}
          THEN Done(c, r, validation_error_response({op.path}))
          ELSE Chain(c, i, [method |-> op.method, path |-> r.path, params |-> Captured(r), query |-> r.query,
                            headers |-> conn[c].headers, client |-> r.peer, body |-> body, ctx |-> <<>>])
    /\ UNCHANGED <<mcpVars, published, rotations, begun, ended, last>>

\* extract_path_param: the segment of the resolved path, as it stands there.
extract_path_param(path, p) == [name |-> p.name, value |-> path[p]]

ToolRequest(op, parts, headers) ==
    LET paths == SelectSeq(op.params, LAMBDA p : p.location = "path")
        body == IF DOMAIN parts.rest = {} THEN NoBody
                ELSE [size |-> 1, json |-> {[type |-> "object", fields |-> parts.rest]}]
    IN [method |-> op.method, path |-> <<"tool">>,
        params |-> [i \in DOMAIN paths |-> extract_path_param(parts.path, paths[i])],
        query |-> parts.query, client |-> "0.0.0.0", body |-> body, ctx |-> <<>>,
        headers |-> IF body = NoBody THEN headers ELSE Put(headers, "content-type", <<"application/json">>)]

CollectMcp(c) ==
    /\ conn[c].pc = "collect" /\ conn[c].via = "mcp"
    /\ LET r == conn[c].r
           sid == SessionOf(r)
           res == handle_message(r.body.rpc, sid)
       IN IF ~validate_body_size(r.body.size)
          THEN Done(c, r, payload_too_large_response({})) /\ UNCHANGED <<sessions, used, last>>
          ELSE IF r.body.breaks THEN Done(c, r, bad_request_response({})) /\ UNCHANGED <<sessions, used, last>>
          ELSE /\ CASE res.kind = "none" -> Done(c, r, Reply(204, NoHeaders, {}))
                    [] res.kind = "response" -> Done(c, r, Reply(200, NoHeaders, {McpLabel}))
                    [] res.kind = "dispatch" ->
                          Chain(c, res.op, ToolRequest(Operations[res.op], res.parts, conn[c].headers))
               /\ sessions' = res.table
               /\ used' = IF res.kind = "response" THEN used + Cardinality(res.session) ELSE used
               /\ last' = [s \in 1 .. used' |-> IF s \notin DOMAIN last \/ (s \in DOMAIN res.table /\ res.table[s] # last[s])
                                                THEN now ELSE last[s]]
    /\ UNCHANGED <<now, published, rotations, begun, ended>>

-----------------------------------------------------------------------------
(* The middlewares *)

Answers == [status : {200, 500}, result : {"true", "false", "other", "not json"}]

Introspections(req) ==
    LET claims == UNION {{Tokens[n].claims : n \in {m} \cap DOMAIN Tokens} : m \in bearer_token(req)}
    IN {[status |-> 0]} \cup {[status |-> 200, active |-> on, claims |-> k] : on \in BOOLEAN, k \in claims}

\* What a middleware other than oidc-auth may do.
on_request(cfg, req) ==
    CASE cfg.plugin = "basic-auth" -> {basic_auth(cfg, req)}
      [] cfg.plugin = "apikey-auth" -> {apikey_auth(cfg, req)}
      [] cfg.plugin = "jwt-auth" -> {jwt_auth(cfg, req)}
      [] cfg.plugin = "oauth2-auth" -> {oauth2_auth(cfg, req, a) : a \in Introspections(req)}
      [] cfg.plugin = "acl" -> {acl(cfg, req)}
      [] cfg.plugin = "ip-restriction" -> {ip_restriction(cfg, req)}
      [] cfg.plugin = "bot-detection" -> {bot_detection(cfg, req)}
      [] cfg.plugin = "request-size-limit" -> {request_size_limit(cfg, req)}
      [] cfg.plugin = "redirect" -> {redirect(cfg, req)}
      [] cfg.plugin = "cors" -> {cors(cfg, req)}
      [] cfg.plugin = "correlation-id" -> {correlation_id(cfg, req, u) : u \in {{}, {<<"uuid">>}}}
      [] cfg.plugin = "cel" -> {cel(cfg, req, v) : v \in {"true", "false", "other", "error"}}
      [] cfg.plugin = "opa-authz" -> {opa_authz(cfg, req, a) : a \in Answers}

on_response(cfg, headers, ctx) ==
    CASE cfg.plugin = "cors" -> cors_on_response(cfg, headers, ctx)
      [] cfg.plugin = "correlation-id" -> correlation_id_on_response(cfg, headers, ctx)
      [] OTHER -> headers

\* The middlewares before position k, the last of them first.
ResponseChain(chain, k, headers, ctx) ==
    FoldFunction(LAMBDA cfg, h : on_response(cfg, h, ctx), headers, SubSeq(chain, 1, k - 1))

Current(c) == Operations[conn[c].op].chain[conn[c].at]
InChain(c) == conn[c].pc = "chain" /\ conn[c].at <= Len(Operations[conn[c].op].chain)

\* Only plugins that declare it are given the body.
Shown(req, plugin) == IF plugin \in BodyAccess THEN req ELSE [req EXCEPT !.body = NoBody]

(* A tool call is answered with 200 whatever the status. *)
Answered(c, status, headers) ==
    LET op == Operations[conn[c].op]
    IN IF conn[c].via = "mcp" THEN Done(c, conn[c].r, Reply(format_tool_result(status).status, NoHeaders, {McpLabel}))
       ELSE Done(c, conn[c].r, Reply(status, add_deprecation_headers(headers, op), {op.path}))

Passed(c, res) ==
    IF res.go
    THEN conn' = [conn EXCEPT ![c].req = [res.req EXCEPT !.body = conn[c].req.body], ![c].at = @ + 1,
                              ![c].inst = NewInstance(c)]
    ELSE Answered(c, res.status,
            ResponseChain(Operations[conn[c].op].chain, conn[c].at, res.headers, conn[c].req.ctx))

Middleware(c) ==
    /\ InChain(c) /\ Current(c).plugin # "oidc-auth"
    /\ \E res \in on_request(Current(c), Shown(conn[c].req, Current(c).plugin)) : Passed(c, res)
    /\ UNCHANGED <<mcpVars, published, rotations, begun, ended, last>>

\* The plugin traps, or its output cannot be parsed.
MiddlewareFails(c) ==
    /\ InChain(c) /\ Answered(c, dev_error_response.status, NoHeaders)
    /\ UNCHANGED <<mcpVars, published, rotations, begun, ended, last>>

\* Discovery and keys; either request may fail.
OidcFetch(c) ==
    /\ InChain(c) /\ Current(c).plugin = "oidc-auth" /\ conn[c].inst.jwks = {}
    /\ LET cfg == Current(c)
       IN IF OidcToken(cfg, conn[c].req) = {} THEN Passed(c, oidc_error_response(FALSE))
          ELSE \E doc \in {{}, {Issuer}}, keys \in {{}, {published}} :
                 LET found == ensure_discovery(conn[c].inst, doc)
                     inst == ensure_jwks(cfg, found, keys)
                 IN IF inst.discovery = {} \/ inst.jwks = {} THEN Passed(c, oidc_error_response(FALSE))
                    ELSE conn' = [conn EXCEPT ![c].inst = inst]
    /\ UNCHANGED <<mcpVars, published, rotations, begun, ended, last>>

\* A key that is not there is looked up once more.
OidcVerify(c) ==
    /\ InChain(c) /\ Current(c).plugin = "oidc-auth" /\ conn[c].inst.jwks # {}
    /\ LET cfg == Current(c)
           t == The(OidcToken(cfg, conn[c].req))
       IN \E keys \in {{}, {published}} :
            LET inst == IF find_key(conn[c].inst, t) = {} THEN refresh_jwks_on_miss(conn[c].inst, keys)
                        ELSE conn[c].inst
            IN Passed(c, IF inst.jwks = {} THEN oidc_error_response(FALSE) ELSE oidc_auth(cfg, conn[c].req, inst))
    /\ UNCHANGED <<mcpVars, published, rotations, begun, ended, last>>

Dispatching(c) == conn[c].pc = "chain" /\ conn[c].at = Len(Operations[conn[c].op].chain) + 1

dispatch(c) ==
    /\ Dispatching(c)
    /\ \E status \in Statuses :
          Answered(c, status, ResponseChain(Operations[conn[c].op].chain, conn[c].at, NoHeaders, conn[c].req.ctx))
    /\ UNCHANGED <<mcpVars, published, rotations, begun, ended, last>>

-----------------------------------------------------------------------------
Rotate ==
    /\ rotations < MaxRotations
    /\ published' \in KeySets \ {published}
    /\ rotations' = rotations + 1
    /\ conn' = [c \in Conns |-> IF "offered" \in DOMAIN conn[c]
                                THEN [conn[c] EXCEPT !.offered = @ \cup published'] ELSE conn[c]]
    /\ UNCHANGED <<mcpVars, begun, ended, last>>

Next ==
    \/ \E c \in Conns :
         \/ \E n \in DOMAIN Requests : Receive(c, n) \/ ReceiveMcp(c, n)
         \/ Collect(c) \/ CollectMcp(c)
         \/ Middleware(c) \/ MiddlewareFails(c) \/ OidcFetch(c) \/ OidcVerify(c)
         \/ dispatch(c)
    \/ (Tick \/ evict_expired) /\ UNCHANGED gateVars
    \/ Rotate

Spec == Init /\ [][Next]_vars

-----------------------------------------------------------------------------
(* Properties *)

InGateway(c) == conn[c].pc = "chain"

\* The places of the chain that a request has passed, of some plugins.
Chained(k, plugins) == {j \in 1 .. k.at - 1 : Operations[k.op].chain[j].plugin \in plugins}

MediaType(r) == Head(OrElse(ContentType(HeaderMap(r.raw)), <<"application/octet-stream">>))
Conforming(schemas, value) == \A s \in schemas : s.wellFormed => value \in s.accepts

\* Where the client gives a parameter, and what it says there.
Given(r, p) ==
    CASE p.location = "path" -> {i \in DOMAIN r.captures : r.captures[i].name = p.name}
      [] p.location = "query" -> {i \in DOMAIN r.query : percent_decode(r.query[i].name) = p.name}
      [] p.location = "header" -> {i \in DOMAIN r.raw : r.raw[i].legible /\ <<r.raw[i].name>> = p.name}
GivenValue(r, p, i) ==
    CASE p.location = "path" -> percent_decode(r.captures[i].value)
      [] p.location = "query" -> percent_decode(r.query[i].value)
      [] p.location = "header" -> r.raw[i].value

ParamConforms(r, p) ==
    /\ p.required \/ p.location = "path" => Given(r, p) # {}
    /\ p.location = "query" => Cardinality(Given(r, p)) <= 1
    /\ \A i \in Given(r, p) : (\A j \in Given(r, p) : j <= i) =>
          Conforming(p.schema, Json("string", GivenValue(r, p, i)))

BodyConforms(r, b, body) ==
    /\ b.required => body.size # 0
    /\ body.size # 0 => \E type \in {MediaType(r), "*/*"} : type \in DOMAIN b.content
    /\ body.size # 0 /\ MediaType(r) \in JsonTypes \cap DOMAIN b.content =>
          \A s \in b.content[MediaType(r)] : s.wellFormed =>
             \E v \in body.json : s.props # {} =>
                /\ s.required \subseteq DOMAIN v.fields
                /\ \A props \in s.props : \A n \in DOMAIN props \cap DOMAIN v.fields :
                      v.fields[n] \in props[n].accepts

WithinLimits(r) ==
    /\ r.uri <= Limits.uri /\ Len(r.raw) <= Limits.headers
    /\ \A i \in DOMAIN r.raw : r.raw[i].size <= Limits.header

(* A request that came over HTTP reaches the middlewares, and with them    *)
(* the dispatcher, only if it is within every limit and the parameters of  *)
(* its operation have, after decoding, values their schemas accept: no     *)
(* required one is missing, none of the query is given twice, and where a  *)
(* name of the path or of a header comes twice the last one counts.  A     *)
(* body is of a media type of the operation, and one that is to be JSON    *)
(* has the required fields, with values that are accepted.                 *)
AdmittedConforms ==
    \A c \in Conns : InGateway(c) /\ conn[c].via = "http" =>
        LET r == conn[c].r
            op == Operations[conn[c].op]
            body == conn[c].req.body
        IN /\ WithinLimits(r) /\ body.size <= Limits.body
           /\ \A i \in DOMAIN op.params :
                 op.params[i].location \in {"path", "query", "header"} => ParamConforms(r, op.params[i])
           /\ \A b \in op.body : BodyConforms(r, b, body)

(* What the credentials of the request prove under an authentication       *)
(* plugin: a consumer, if they name one, and the groups they attest.       *)
ProvenBy(cfg, r, query) ==
    LET headers == HeaderMap(r.raw)
        auth == IF "authorization" \in DOMAIN headers THEN headers["authorization"] ELSE <<>>
        inQuery == {Head(p.value) : p \in {p \in Range(query) : p.name = <<"access_token">> /\ p.value # <<>>}}
        token == IF auth # <<>> \/ cfg.plugin # "oidc-auth" THEN IF Len(auth) = 2 THEN {auth[2]} ELSE {}
                 ELSE inQuery
        name(k) == IF k.sub = {} /\ cfg.plugin = "oauth2-auth" THEN k.username ELSE k.sub
        groups(k) == IF cfg.plugin # "oauth2-auth" /\ cfg.groupsClaim THEN k.groups
                     ELSE IF cfg.plugin # "jwt-auth" THEN k.scope ELSE {}
    IN CASE cfg.plugin = "basic-auth" ->
                {[who |-> {<<e.user>>}, groups |-> Range(e.roles)] :
                    e \in {e \in Range(cfg.credentials) :
                              Len(auth) = 3 /\ auth[1] = "Basic" /\ auth[2] = e.user /\ auth[3] = e.password}}
         [] cfg.plugin = "apikey-auth" ->
                {[who |-> {<<e.id>>}, groups |-> Range(e.scopes)] :
                    e \in {e \in Range(cfg.keys) :
                              IF cfg.location = "query"
                              THEN \E p \in Range(query) : p.name = cfg.param /\ percent_decode(p.value) = e.key
                              ELSE cfg.header \in DOMAIN headers /\ headers[cfg.header] = e.key}}
         [] OTHER -> {[who |-> {<<w>> : w \in name(k)}, groups |-> UNION {Range(g) : g \in groups(k)}] :
                        k \in {Tokens[n].claims : n \in token \cap DOMAIN Tokens}}

Bit(ip, b) == (ip.octets[b \div 8 + 1] \div 2 ^ (7 - (b % 8))) % 2
Within(ip, entry) ==
    /\ entry.net \in DOMAIN Address /\ ip.family = Address[entry.net].family
    /\ \A b \in 0 .. OrElse(entry.prefix, 8 * Len(ip.octets)) - 1 : Bit(ip, b) = Bit(Address[entry.net], b)

\* Headers that the gateway or a middleware before may have set.
SetByGateway == {"x-auth-consumer", "x-auth-consumer-groups", "x-auth-key-id", "x-correlation-id", "content-type"}

(* A request that has passed an authentication plugin carries, as the      *)
(* client sent it, a credential that plugin's configuration knows: a user  *)
(* with the password, a key in the place that is configured (unless that   *)
(* is a header other middlewares set), a token signed with the configured  *)
(* key.                                                                    *)
CredentialKnown(k) ==
    \A j \in Chained(k, Authentication) :
        LET cfg == Operations[k.op].chain[j]
            proven == ProvenBy(cfg, k.r, k.req.query)
        IN /\ cfg.plugin = "basic-auth" => proven # {}
           /\ cfg.plugin = "apikey-auth" /\ (cfg.location # "query" => cfg.header \notin SetByGateway) => proven # {}
           /\ cfg.plugin = "jwt-auth" =>
                 \E key \in cfg.key, n \in bearer_token(k.req) : Tokens[n].signedBy = key.material
CredentialIsKnown == \A c \in Conns : InGateway(c) => CredentialKnown(conn[c])

(* What the acl goes by at position k.  A plugin that attests no consumer, *)
(* or no group, leaves that header alone: what counts is what the last     *)
(* plugin that attests one did attest, and the client's own header if none *)
(* of them does.                                                           *)
Judged(c, k) ==
    LET chain == Operations[conn[c].op].chain
        sent(h) == UNION {{HeaderMap(conn[c].r.raw)[n]} : n \in {h} \cap DOMAIN HeaderMap(conn[c].r.raw)}
        attested(j) == ProvenBy(chain[j], conn[c].r, conn[c].req.query)
        before == {j \in Chained(conn[c], Authentication) : j < k}
        naming == {j \in before : \E p \in attested(j) : p.who # {}}
        grouping == {j \in before : \E p \in attested(j) : p.groups # {}}
    IN [who |-> IF naming = {} THEN sent("x-auth-consumer")
                ELSE UNION {p.who : p \in attested(Max(naming))},
        groups |-> IF grouping = {} THEN UNION {Range(g) : g \in sent("x-auth-consumer-groups")}
                   ELSE UNION {p.groups : p \in attested(Max(grouping))}]

(* One that has also passed the acl was judged as the consumer that its    *)
(* credentials prove, whatever x-auth-consumer the client sent: it is none *)
(* the acl denies, no group it holds is denied, and it is allowed by name  *)
(* or by group where there is a list.  The exception is a token without a  *)
(* subject: jwt-auth, oidc-auth and oauth2-auth let it pass and set no     *)
(* consumer, and the request is then judged as the one its own header      *)
(* names (and likewise for groups that no plugin attests).  It is never    *)
(* judged as nobody.                                                       *)
ConsumerIsAllowed ==
    \A c \in Conns : InGateway(c) =>
        \A k \in Chained(conn[c], {"acl"}) :
            LET cfg == Operations[conn[c].op].chain[k]
                judged == Judged(c, k)
            IN \E who \in judged.who :
                 LET held == judged.groups \cup (IF who \in DOMAIN cfg.groups THEN cfg.groups[who] ELSE {})
                 IN /\ who # <<>> /\ who \notin cfg.denyConsumers
                    /\ who \notin cfg.allowConsumers =>
                          /\ held \cap cfg.deny = {}
                          /\ cfg.allow # {} => held \cap cfg.allow # {}

(* One that has passed ip-restriction comes from an address that agrees    *)
(* with an allowed network in every bit of its prefix and with no denied   *)
(* one.                                                                    *)
NetworkIsAllowed ==
    \A c \in Conns : InGateway(c) =>
        \A k \in Chained(conn[c], {"ip-restriction"}) :
            LET cfg == Operations[conn[c].op].chain[k]
                client == resolve_client_ip(conn[c].req, cfg.trusted)
            IN client \in DOMAIN Address =>
                  /\ \A e \in cfg.deny : ~Within(Address[client], e)
                  /\ cfg.allow # {} => \E e \in cfg.allow : Within(Address[client], e)

(* A token that oidc-auth let pass was signed with a key the identity      *)
(* provider published at some time since the request began: a key that was *)
(* withdrawn before is of no use, although the plugin has a cache of keys. *)
KeyIsOffered(k) ==
    Chained(k, {"oidc-auth"}) # {} =>
        \A n \in bearer_token(k.req) :
            n \in DOMAIN Tokens => \E key \in k.offered : key.material = Tokens[n].signedBy
NoStaleKey == \A c \in Conns : InGateway(c) => KeyIsOffered(conn[c])

(* What a request has passed it has earned: a credential that basic-auth,  *)
(* apikey-auth or jwt-auth is configured with, a key that oidc-auth could  *)
(* fetch, an address ip-restriction allows, and a consumer the acl allows, *)
(* who is the proven one unless nothing proves any.  Nothing is said here  *)
(* of what an introspection, a policy or an expression answers, which are  *)
(* inputs, nor of the times in a token.                                    *)
AccessIsProven == CredentialIsKnown /\ ConsumerIsAllowed /\ NetworkIsAllowed /\ NoStaleKey

Accepted(s, value) == IF "accepts" \in DOMAIN s THEN value \in s.accepts ELSE BodyAccepts(s, value)

\* A call that the merged schema describes as the operation itself would.
Translatable(op, args) ==
    LET names == {p.name : p \in Range(op.params)}
    IN /\ \A p \in Range(op.params) : p.location \in {"path", "query"}
       /\ \A n \in names \cap DOMAIN args : args[n].type = "string"
       /\ \A s \in BodySchema(op) : s.props # {} /\ \A props \in s.props : DOMAIN props \cap names = {}
       /\ \A b \in op.body : "application/json" \in DOMAIN b.content /\ (b.required => DOMAIN args \ names # {})

(* The arguments of a tool call that the published input schema accepts    *)
(* make a request that validate_request would accept too: every argument   *)
(* arrives in its place, decoded to what was given, and nothing is in two  *)
(* places.  This fails, and only fails, where the flat schema cannot say   *)
(* what the operation asks for: a header parameter; an argument of a       *)
(* parameter that is not a string (its text is validated as one); a body   *)
(* property with the name of a parameter (the parameter takes it and the   *)
(* body lacks it); a body without properties (offered as "body" and sent   *)
(* as {"body": ...}); a required body for which nothing is left, or one    *)
(* that is not application/json.                                           *)
ToolCallsAreValid ==
    \A c \in Conns : InGateway(c) /\ conn[c].via = "mcp" =>
        LET op == Operations[conn[c].op]
            args == The(conn[c].r.body.rpc).args
            schema == build_input_schema(op)
            req == conn[c].req
            decoded == [i \in DOMAIN req.params |-> [req.params[i] EXCEPT !.value = percent_decode(@)]]
        IN /\ Translatable(op, args)
           /\ schema.required \subseteq DOMAIN args
           /\ \A n \in DOMAIN args \cap DOMAIN schema.props :
                 \A s \in schema.props[n] : s.wellFormed => Accepted(s, args[n])
           => /\ Validated(op, decoded, req.query, req.headers, req.body) = {}
              /\ req.body.size > 0 => \A v \in req.body.json :
                    DOMAIN v.fields \cap {p.name : p \in Range(op.params)} = {}

(* A session that its client has not ended is in the table as long as it   *)
(* was created or used less than the TTL ago, whatever other sessions are  *)
(* created, evicted or ended; the table never exceeds its cap; and a tool  *)
(* call that has an id runs only in a session that was created.  This is   *)
(* about the table of one generation: a hot reload starts with an empty    *)
(* one (main.rs:963).                                                      *)
SessionContract ==
    /\ \A s \in DOMAIN last \ ended : now - last[s] < SessionTtl => s \in DOMAIN sessions
    /\ Cardinality(DOMAIN sessions) <= MaxSessions
    /\ \A c \in Conns : InGateway(c) /\ conn[c].via = "mcp" =>
          (The(conn[c].r.body.rpc).id # {} => \E s \in SessionOf(conn[c].r) : s \in 1 .. used)

=============================================================================
