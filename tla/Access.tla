------------------------------- MODULE Access -------------------------------
(***************************************************************************)
(* The middlewares that decide from the request alone, or from the answer  *)
(* of a policy, whether it goes on (plugins basic-auth, apikey-auth, acl,  *)
(* ip-restriction, bot-detection, request-size-limit, redirect, cors,      *)
(* correlation-id, cel, opa-authz) and the SDK's resolve_client_ip.        *)
(*                                                                         *)
(* The request of a plugin is [method, path, query, headers, client, body, *)
(* ctx]; headers are texts by name.  In the value of authorization the     *)
(* units are the scheme and what its decoding leaves; in a list of groups, *)
(* of hops or of header names they are the entries; a content-length is    *)
(* the number, or empty if it is none.                                     *)
(***************************************************************************)
EXTENDS Mcp

CONSTANTS
    Address   \* of each text that parses as one: [family, octets]

Continue(req) == [go |-> TRUE, req |-> req]
ShortCircuit(status, headers) == [go |-> FALSE, status |-> status, headers |-> headers]
NoHeaders == <<>>

Has(req, name) == name \in DOMAIN req.headers
Header(req, name) == IF Has(req, name) THEN {req.headers[name]} ELSE {}
Put(headers, name, value) ==
    [n \in DOMAIN headers \cup {name} |-> IF n = name THEN value ELSE headers[n]]
SetHeader(req, name, value) == [req EXCEPT !.headers = Put(@, name, value)]
SetContext(req, key, value) == [req EXCEPT !.ctx = Put(@, key, value)]

\* Who the request is from, for the middlewares that follow.
Identify(req, consumer, groups) ==
    LET known == SetHeader(req, "x-auth-consumer", consumer)
    IN IF groups = <<>> THEN known ELSE SetHeader(known, "x-auth-consumer-groups", groups)

-----------------------------------------------------------------------------
(* basic-auth *)

basic_unauthorized_response == ShortCircuit(401, NoHeaders)

\* <<"Basic", user, password>>, or nothing if it cannot be decoded.
extract_credentials(req) ==
    {[user |-> v[2], password |-> v[3]] :
        v \in {v \in Header(req, "authorization") : Len(v) = 3 /\ v[1] = "Basic" /\ v[2] # ""}}

\* Every entry is compared; of several that match the last counts.
MatchingCredential(cfg, c) ==
    LET matching == {i \in DOMAIN cfg.credentials :
                        cfg.credentials[i].user = c.user /\ cfg.credentials[i].password = c.password}
    IN {cfg.credentials[i] : i \in LastPosition(matching)}

basic_auth(cfg, req) ==
    LET found == UNION {MatchingCredential(cfg, c) : c \in extract_credentials(req)}
        kept == IF cfg.strip THEN [req EXCEPT !.headers = Restrict(@, DOMAIN @ \ {"authorization"})] ELSE req
    IN IF found = {} THEN basic_unauthorized_response
       ELSE Continue(Identify(kept, <<The(found).user>>, The(found).roles))

-----------------------------------------------------------------------------
(* apikey-auth *)

apikey_unauthorized_response == ShortCircuit(401, NoHeaders)

extract_from_header(cfg, req) == {v \in Header(req, cfg.header) : v # <<>>}

\* The first pair of that name, decoded; the name is compared as it is sent.
extract_from_query(cfg, req) ==
    LET own == {i \in DOMAIN req.query : req.query[i].name = cfg.param}
    IN {percent_decode(req.query[i].value) : i \in FirstPosition(own)} \ {<<>>}

extract_key(cfg, req) ==
    IF cfg.location = "query" THEN extract_from_query(cfg, req) ELSE extract_from_header(cfg, req)

lookup_key(cfg, key) ==
    LET matching == {i \in DOMAIN cfg.keys : cfg.keys[i].key = key}
    IN {cfg.keys[i] : i \in LastPosition(matching)}

apikey_auth(cfg, req) ==
    LET found == UNION {lookup_key(cfg, k) : k \in extract_key(cfg, req)}
    IN IF found = {} THEN apikey_unauthorized_response
       ELSE Continue(Identify(SetHeader(req, "x-auth-key-id", <<The(found).id>>), <<The(found).id>>, The(found).scopes))

-----------------------------------------------------------------------------
(* acl *)

acl_forbidden_response == ShortCircuit(403, NoHeaders)

resolve_groups(cfg, consumer, req) ==
    UNION {Range(v) : v \in Header(req, "x-auth-consumer-groups")}
    \cup (IF consumer \in DOMAIN cfg.groups THEN cfg.groups[consumer] ELSE {})

(* Mutant: a group that is allowed overrides one that is denied. *)
AllowFirst(cfg, req) ==
    LET who == {v \in Header(req, "x-auth-consumer") : v # <<>>}
        groups == resolve_groups(cfg, The(who), req)
        passes == /\ who # {}
                  /\ The(who) \notin cfg.denyConsumers
                  /\ \/ The(who) \in cfg.allowConsumers
                     \/ groups \cap cfg.allow # {}
                     \/ groups \cap cfg.deny = {} /\ cfg.allow = {}
    IN IF passes THEN Continue(req) ELSE acl_forbidden_response

acl(cfg, req) ==
    LET who == {v \in Header(req, "x-auth-consumer") : v # <<>>}
        groups == resolve_groups(cfg, The(who), req)
        passes == /\ who # {}
                  /\ The(who) \notin cfg.denyConsumers
                  /\ \/ The(who) \in cfg.allowConsumers
                     \/ /\ groups \cap cfg.deny = {}
                        /\ cfg.allow = {} \/ groups \cap cfg.allow # {}
    IN IF passes THEN Continue(req) ELSE acl_forbidden_response

-----------------------------------------------------------------------------
(* resolve_client_ip, ip-restriction *)

\* The peer, unless it is a trusted proxy: then the last hop that is not one.
resolve_client_ip(req, trusted) ==
    LET hops == UNION {{SelectSeq(v, LAMBDA h : h # "" /\ h \notin trusted)} : v \in Header(req, "x-forwarded-for")}
        real == {v \in Header(req, "x-real-ip") : v # <<>>}
    IN IF req.client \notin trusted THEN req.client
       ELSE IF hops # {} /\ The(hops) # <<>> THEN Last(The(hops))
       ELSE IF real # {} THEN Head(The(real)) ELSE req.client

\* Octet by octet, the last one under a mask.
bits_match(a, b, prefix) ==
    /\ prefix <= 8 * Len(a)
    /\ \A i \in DOMAIN a :
          LET left == IF prefix > 8 * (i - 1) THEN prefix - 8 * (i - 1) ELSE 0
              take == IF left < 8 THEN left ELSE 8
          IN a[i] \div 2 ^ (8 - take) = b[i] \div 2 ^ (8 - take)

ip_in_cidr(ip, net, prefix) ==
    ip.family = net.family /\ bits_match(ip.octets, net.octets, prefix)

\* An entry that does not parse matches nothing.
ip_matches(ip, entry) ==
    /\ entry.net \in DOMAIN Address
    /\ IF entry.prefix = {} THEN Address[entry.net] = ip
       ELSE ip_in_cidr(ip, Address[entry.net], The(entry.prefix))

is_ip_in_list(ip, list) == \E e \in list : ip_matches(ip, e)

ip_forbidden_response(cfg) == ShortCircuit(cfg.status, NoHeaders)

ip_restriction(cfg, req) ==
    LET client == resolve_client_ip(req, cfg.trusted)
        passes == IF client \notin DOMAIN Address THEN cfg.allow \cup cfg.deny = {}
                  ELSE /\ ~is_ip_in_list(Address[client], cfg.deny)
                       /\ cfg.allow = {} \/ is_ip_in_list(Address[client], cfg.allow)
    IN IF passes THEN Continue(req) ELSE ip_forbidden_response(cfg)

-----------------------------------------------------------------------------
(* bot-detection: a pattern matches a user agent that contains it; one     *)
(* that is allowed is not looked up among the denied.                      *)

matches_any(agent, patterns) == Range(agent) \cap patterns # {}

blocked_response(cfg) == ShortCircuit(cfg.status, NoHeaders)

bot_detection(cfg, req) ==
    LET agent == Header(req, "user-agent")
        blocked == \/ agent = {} /\ cfg.blockEmpty
                   \/ \E a \in agent : ~matches_any(a, cfg.allow) /\ matches_any(a, cfg.deny)
    IN IF blocked THEN blocked_response(cfg) ELSE Continue(req)

(* request-size-limit: what the header announces, if that is checked and   *)
(* is a number, and what the body has.                                     *)
size_payload_too_large_response == ShortCircuit(413, NoHeaders)

request_size_limit(cfg, req) ==
    LET announced == IF cfg.checkLength THEN {v[1] : v \in Header(req, "content-length") \ {<<>>}} ELSE {}
    IN IF (\E n \in announced : n > cfg.max) \/ req.body.size > cfg.max
       THEN size_payload_too_large_response ELSE Continue(req)

(* redirect: the first rule that fits the path.  A rule without path and   *)
(* prefix fits every one.                                                  *)
match_rule(rule, req) ==
    CASE rule.path # {} -> IF req.path = The(rule.path) THEN {rule.target} ELSE {}
      [] rule.path = {} /\ rule.prefix # {} ->
            IF IsPrefix(The(rule.prefix), req.path)
            THEN {rule.target \o SubSeq(req.path, Len(The(rule.prefix)) + 1, Len(req.path))} ELSE {}
      [] OTHER -> {rule.target}

build_location(cfg, target, req) ==
    IF cfg.preserveQuery /\ req.query # <<>> THEN target \o <<"?">> \o Raw(req.query) ELSE target

redirect_response(status, location) == ShortCircuit(status, [n \in {"location"} |-> location])

redirect(cfg, req) ==
    LET fitting == SelectSeq(cfg.rules, LAMBDA r : match_rule(r, req) # {})
        rule == Head(fitting)
    IN IF fitting = <<>> THEN Continue(req)
       ELSE redirect_response(OrElse(rule.status, cfg.status), build_location(cfg, The(match_rule(rule, req)), req))

-----------------------------------------------------------------------------
(* cors *)

\* "*" counts only without credentials.
wildcard_active(cfg) == ~cfg.credentials /\ <<"*">> \in cfg.origins

\* <<"*.", host>> against <<scheme, subdomain, ..., host>>.
matches_wildcard_origin(pattern, origin) ==
    /\ Len(pattern) > 1 /\ pattern[1] = "*." /\ origin # <<>> /\ origin[1] \in {"https://", "http://"}
    /\ IsSuffix(Tail(pattern), Tail(origin)) /\ Tail(origin) # Tail(pattern)

is_origin_allowed(cfg, origin) ==
    \/ wildcard_active(cfg)
    \/ \E a \in cfg.origins \ {<<"*">>} : a = origin \/ matches_wildcard_origin(a, origin)

is_method_allowed(cfg, method) == Head(method) \in cfg.methods

SimpleHeaders == {"accept", "accept-language", "content-language", "content-type"}

are_headers_allowed(cfg, requested) ==
    IF cfg.headers = {} THEN requested = <<>>
    ELSE "*" \in cfg.headers \/ Range(requested) \ {""} \subseteq SimpleHeaders \cup cfg.headers

allow_origin_value(cfg, origin) == IF wildcard_active(cfg) THEN <<"*">> ELSE origin

cors_forbidden_response == ShortCircuit(403, NoHeaders)

preflight_response(cfg, origin, method, req) ==
    IF is_method_allowed(cfg, method)
       /\ are_headers_allowed(cfg, OrElse(Header(req, "access-control-request-headers"), <<>>))
    THEN ShortCircuit(204, [n \in {"access-control-allow-origin"} |-> allow_origin_value(cfg, origin)])
    ELSE cors_forbidden_response

cors(cfg, req) ==
    LET origin == Header(req, "origin")
        asked == Header(req, "access-control-request-method")
    IN IF origin = {} THEN Continue(req)
       ELSE IF ~is_origin_allowed(cfg, The(origin)) THEN cors_forbidden_response
       ELSE IF req.method = "OPTIONS" /\ asked # {} THEN preflight_response(cfg, The(origin), The(asked), req)
       ELSE Continue(SetContext(req, "cors.origin", The(origin)))

cors_on_response(cfg, headers, ctx) ==
    IF wildcard_active(cfg) THEN Put(headers, "access-control-allow-origin", <<"*">>)
    ELSE IF "cors.origin" \in DOMAIN ctx
         THEN Put(headers, "access-control-allow-origin", allow_origin_value(cfg, ctx["cors.origin"]))
         ELSE headers

(* correlation-id: the host may fail to make an id. *)
correlation_id(cfg, req, uuid) ==
    LET own == IF cfg.trust THEN Header(req, "x-correlation-id") ELSE {}
        id == IF own # {} THEN own ELSE IF cfg.generate THEN uuid ELSE {}
    IN IF id = {} THEN Continue(req)
       ELSE Continue(SetContext(SetHeader(req, "x-correlation-id", The(id)), "correlation-id", The(id)))

correlation_id_on_response(cfg, headers, ctx) ==
    IF cfg.respond /\ "correlation-id" \in DOMAIN ctx
    THEN Put(headers, "x-correlation-id", ctx["correlation-id"]) ELSE headers

-----------------------------------------------------------------------------
(* cel: the expression's value is an input.  With on_match it decides what *)
(* happens on a match, without it who goes on.                             *)

ensure_compiled(cfg) == cfg.compiles /\ \A d \in UNION {m.deny : m \in cfg.onMatch} : d.codeValid

cel_denied_response == ShortCircuit(403, NoHeaders)

eval_error_response == ShortCircuit(500, NoHeaders)

deny_action_response(d) == ShortCircuit(IF d.status \in 400 .. 499 THEN d.status ELSE 403, NoHeaders)

\* value: "true", "false", another type, or an error
cel(cfg, req, value) ==
    IF ~ensure_compiled(cfg) \/ value \notin {"true", "false"} THEN eval_error_response
    ELSE IF cfg.onMatch = {} THEN IF value = "true" THEN Continue(req) ELSE cel_denied_response
    ELSE IF value = "false" THEN Continue(req)
    ELSE LET m == The(cfg.onMatch)
         IN IF m.deny # {} THEN deny_action_response(The(m.deny))
            ELSE Continue([req EXCEPT !.ctx = [k \in DOMAIN @ \cup DOMAIN m.context |->
                    IF k \in DOMAIN m.context THEN m.context[k] ELSE @[k]]])

(* opa-authz: anything but an answer with a Boolean result is refused. *)
parse_decision(answer) == answer.result = "true"

opa_denied_response == ShortCircuit(403, NoHeaders)

opa_error_response == ShortCircuit(503, NoHeaders)

opa_authz(cfg, req, answer) ==
    IF answer.status # 200 \/ answer.result = "not json" THEN opa_error_response
    ELSE IF parse_decision(answer) THEN Continue(req) ELSE opa_denied_response

=============================================================================
