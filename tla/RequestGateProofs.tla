------------------------- MODULE RequestGateProofs -------------------------
(***************************************************************************)
(* Proofs about the request path, for any operations, requests, limits,    *)
(* tokens and numbers of connections and sessions.                         *)
(***************************************************************************)
EXTENDS RequestGate, FiniteSetTheorems, TLAPS

-----------------------------------------------------------------------------
(* The table of sessions *)

(* The ghost knows when each session ever created was last used; the table *)
(* agrees with it, and lacks only what was ended or has expired.           *)
SessionInv ==
    /\ now \in Nat /\ used \in Nat
    /\ DOMAIN last = 1 .. used /\ \A s \in 1 .. used : last[s] \in 0 .. now
    /\ DOMAIN sessions \subseteq 1 .. used
    /\ \A s \in DOMAIN sessions : sessions[s] = last[s]
    /\ Cardinality(DOMAIN sessions) <= MaxSessions
    /\ \A s \in DOMAIN last \ ended : now - last[s] < SessionTtl => s \in DOMAIN sessions

-----------------------------------------------------------------------------
(* A connection.  k is what it is working on. *)

CollectFields == {"pc", "r", "via", "inst", "headers", "offered"}
ChainFields == {"pc", "r", "via", "offered", "op", "req", "at", "inst"}
InstanceFields == {"discovery", "jwks"}
RequestFields == {"method", "path", "params", "query", "headers", "client", "body", "ctx"}

(* The fields there are at each place. *)
Shape(k) ==
    /\ k = [f \in DOMAIN k |-> k[f]] /\ {"pc", "inst"} \subseteq DOMAIN k
    /\ k.pc \in {"idle", "done"} => "offered" \notin DOMAIN k
    /\ k.pc \notin {"idle", "done"} => k.pc \in {"collect", "chain"}
    /\ k.pc = "collect" => DOMAIN k = CollectFields
    /\ k.pc = "chain" => /\ DOMAIN k = ChainFields
                         /\ k.op \in DOMAIN Operations /\ k.at \in Nat \ {0}
                         /\ k.req = [f \in RequestFields |-> k.req[f]]
                         /\ k.inst = [f \in InstanceFields |-> k.inst[f]]

(* A request with an id that is being served as a tool call has one of the *)
(* n sessions that were created.                                           *)
InSession(k, n) ==
    k.pc = "chain" /\ k.via = "mcp" =>
        (The(k.r.body.rpc).id # {} => \E s \in SessionOf(k.r) : s \in 1 .. n)

(* The head of a request is made of lists.                                 *)
HeadIsListed(r) ==
    /\ \A list \in {r.raw, r.query, r.captures} : Len(list) \in Nat /\ DOMAIN list = 1 .. Len(list)
    /\ \A i \in DOMAIN r.captures : {"name", "value"} \subseteq DOMAIN r.captures[i]

(* What has been established when a request over HTTP waits for its body,  *)
(* and when it enters the chain.                                           *)
Admitted(k) ==
    /\ k.pc = "collect" => k.headers = HeaderMap(k.r.raw)
    /\ k.pc \in {"collect", "chain"} => HeadIsListed(k.r)
    /\ k.pc = "collect" /\ k.via = "http" =>
          /\ WithinLimits(k.r)
          /\ k.r.target \in DOMAIN Routes /\ k.r.method \in DOMAIN Routes[k.r.target]
    /\ k.pc = "chain" /\ k.via = "http" =>
          /\ WithinLimits(k.r) /\ k.req.body.size <= Limits.body
          /\ Validated(Operations[k.op], Captured(k.r), k.r.query, HeaderMap(k.r.raw), k.req.body) = {}

(* The headers are those of the client, but for the ones the gateway sets. *)
ClientHeaders(k) ==
    k.pc = "chain" => \A h \in DOMAIN k.req.headers \ SetByGateway :
        h \in DOMAIN HeaderMap(k.r.raw) /\ k.req.headers[h] = HeaderMap(k.r.raw)[h]

(* The keys in the cache of the instance were published since the request  *)
(* began, and were fetched for a token.                                    *)
KeysOffered(k, keys) ==
    /\ k.pc \in {"collect", "chain"} => keys \subseteq k.offered
    /\ k.pc = "chain" => UNION {c.keys : c \in k.inst.jwks} \subseteq k.offered
    /\ k.pc = "chain" /\ k.inst.jwks # {} =>
          /\ k.at \in DOMAIN Operations[k.op].chain
          /\ OidcToken(Operations[k.op].chain[k.at], k.req) # {}

(* Every credential asked for so far was there. *)
Authenticated(k) == k.pc = "chain" => CredentialKnown(k) /\ KeyIsOffered(k)

ConnOK(k, n, keys) ==
    /\ Shape(k) /\ InSession(k, n) /\ Admitted(k)
    /\ ClientHeaders(k) /\ KeysOffered(k, keys) /\ Authenticated(k)

ConnInv ==
    /\ conn = [c \in Conns |-> conn[c]]
    /\ \A c \in Conns : ConnOK(conn[c], used, published)

GateInv == SessionInv /\ ConnInv

-----------------------------------------------------------------------------
(* What a middleware may do to a request that it lets pass *)

Keeps(req, new) ==
    /\ new = [f \in RequestFields |-> new[f]]
    /\ new.query = req.query /\ bearer_token(new) = bearer_token(req)
    /\ \A h \in DOMAIN new.headers \ SetByGateway :
          h \in DOMAIN req.headers /\ new.headers[h] = req.headers[h]

IsRequest(req) == req = [f \in RequestFields |-> req[f]]

(* A request is kept by doing nothing, and by two steps that keep it.      *)
LEMMA KeepsRefl == ASSUME NEW req, IsRequest(req) PROVE Keeps(req, req)
BY DEF Keeps, IsRequest

(* Keeping what the client sent is transitive along the chain.             *)
LEMMA KeepsTrans ==
    ASSUME NEW a, NEW b, NEW c, Keeps(a, b), Keeps(b, c) PROVE Keeps(a, c)
BY DEF Keeps

(* A request handed on is again one a plugin can read.                     *)
LEMMA KeepsIsRequest ==
    ASSUME NEW a, NEW b, Keeps(a, b) PROVE IsRequest(b)
BY DEF Keeps, IsRequest

(* Setting a header of the gateway keeps those of the client.              *)
LEMMA SetHeaderKeeps ==
    ASSUME NEW req, IsRequest(req), NEW h \in SetByGateway, NEW v PROVE Keeps(req, SetHeader(req, h, v))
<1> DEFINE new == SetHeader(req, h, v)
<1>1. new = [f \in RequestFields |-> new[f]] /\ new.query = req.query /\ new.headers = Put(req.headers, h, v)
    BY DEF SetHeader, IsRequest, RequestFields
<1>2. Header(new, "authorization") = Header(req, "authorization")
    BY <1>1 DEF Header, Has, Put, SetByGateway
<1>3. bearer_token(new) = bearer_token(req)
    BY <1>2 DEF bearer_token
<1> QED
    BY <1>1, <1>3 DEF Keeps, Put

(* So does writing to the context.                                         *)
LEMMA ContextKeeps == ASSUME NEW req, IsRequest(req), NEW ctx PROVE Keeps(req, [req EXCEPT !.ctx = ctx])
<1> DEFINE new == [req EXCEPT !.ctx = ctx]
<1>1. new = [f \in RequestFields |-> new[f]] /\ new.query = req.query /\ new.headers = req.headers
    BY DEF IsRequest, RequestFields
<1>2. bearer_token(new) = bearer_token(req)
    BY <1>1 DEF bearer_token, Header, Has
<1> QED
    BY <1>1, <1>2 DEF Keeps

(* So does setting one key of it.                                          *)
LEMMA SetContextKeeps ==
    ASSUME NEW req, IsRequest(req), NEW h, NEW v PROVE Keeps(req, SetContext(req, h, v))
<1>1. \A ctx : Keeps(req, [req EXCEPT !.ctx = ctx])
    BY ContextKeeps
<1> QED
    BY <1>1 DEF SetContext

(* What authentication plugins attest is set in headers of the gateway.    *)
LEMMA IdentifyKeeps ==
    ASSUME NEW req, IsRequest(req), NEW who, NEW groups PROVE Keeps(req, Identify(req, who, groups))
<1> DEFINE known == SetHeader(req, "x-auth-consumer", who)
<1>1. Keeps(req, known) /\ IsRequest(known)
    BY SetHeaderKeeps, KeepsIsRequest DEF SetByGateway
<1>2. Keeps(known, SetHeader(known, "x-auth-consumer-groups", groups))
    BY <1>1, SetHeaderKeeps DEF SetByGateway
<1> QED
    BY <1>1, <1>2, KeepsTrans DEF Identify

(* The claims of a token go into headers of the gateway, not of the        *)
(* client.                                                                 *)
LEMMA ByClaimsKeeps ==
    ASSUME NEW req, IsRequest(req), NEW who, NEW groups PROVE Keeps(req, ByClaims(req, who, groups))
<1>1. Keeps(req, SetHeader(req, "x-auth-consumer-groups", groups))
    BY SetHeaderKeeps DEF SetByGateway
<1> QED
    BY <1>1, IdentifyKeeps, KeepsRefl DEF ByClaims

(* Each plugin, with any configuration, keeps what it lets pass.           *)
LetsPass(req, res) == res.go => Keeps(req, res.req)

(* A plugin that answers itself lets nothing pass.                         *)
LEMMA Refused == ASSUME NEW req, NEW status, NEW headers PROVE LetsPass(req, ShortCircuit(status, headers))
BY DEF LetsPass, ShortCircuit

(* A plugin that continues hands on the request it names.                  *)
LEMMA Continued == ASSUME NEW req, NEW new, Keeps(req, new) PROVE LetsPass(req, Continue(new))
BY DEF LetsPass, Continue

(* Only basic-auth takes a header away, and only from a request whose      *)
(* authorization is no bearer token.                                       *)
LEMMA BasicKeeps == ASSUME NEW cfg, NEW req, IsRequest(req) PROVE LetsPass(req, basic_auth(cfg, req))
<1> DEFINE found == UNION {MatchingCredential(cfg, c) : c \in extract_credentials(req)}
           kept == IF cfg.strip THEN [req EXCEPT !.headers = Restrict(@, DOMAIN @ \ {"authorization"})] ELSE req
<1>1. ASSUME found # {} PROVE Keeps(req, kept)
    <2> DEFINE new == [req EXCEPT !.headers = Restrict(@, DOMAIN @ \ {"authorization"})]
    <2>1. /\ new = [f \in RequestFields |-> new[f]] /\ new.query = req.query
          /\ new.headers = Restrict(req.headers, DOMAIN req.headers \ {"authorization"})
        BY DEF IsRequest, RequestFields
    <2>2. bearer_token(new) = {}
        BY <2>1 DEF bearer_token, Header, Has, Restrict
    <2>3. bearer_token(req) = {}
        <3>1. extract_credentials(req) # {}
            BY <1>1
        <3>2. PICK v \in Header(req, "authorization") : v[1] = "Basic"
            BY <3>1 DEF extract_credentials
        <3>3. \A w \in Header(req, "authorization") : w = v
            BY <3>2 DEF Header
        <3> QED
            BY <3>2, <3>3 DEF bearer_token
    <2>4. Keeps(req, new)
        BY <2>1, <2>2, <2>3 DEF Keeps, Restrict
    <2> QED
        BY <2>4, KeepsRefl
<1>2. ASSUME found # {} PROVE Keeps(req, Identify(kept, <<The(found).user>>, The(found).roles))
    <2>1. Keeps(req, kept)
        BY <1>1, <1>2
    <2> HIDE DEF found, kept
    <2> QED
        BY <2>1, KeepsIsRequest, IdentifyKeeps, KeepsTrans
<1>3. found # {} => LetsPass(req, Continue(Identify(kept, <<The(found).user>>, The(found).roles)))
    <2> HIDE DEF found, kept
    <2> QED
        BY <1>2, Continued
<1>4. LetsPass(req, basic_unauthorized_response)
    BY Refused DEF basic_unauthorized_response
<1> QED
    BY <1>3, <1>4 DEF basic_auth

(* apikey-auth only sets headers of the gateway.                           *)
LEMMA ApiKeyKeeps == ASSUME NEW cfg, NEW req, IsRequest(req) PROVE LetsPass(req, apikey_auth(cfg, req))
<1> DEFINE found == UNION {lookup_key(cfg, k) : k \in extract_key(cfg, req)}
           keyed == SetHeader(req, "x-auth-key-id", <<The(found).id>>)
<1>1. Keeps(req, keyed)
    <2> HIDE DEF found
    <2> QED
        BY SetHeaderKeeps DEF SetByGateway
<1>2. LetsPass(req, Continue(Identify(keyed, <<The(found).id>>, The(found).scopes)))
    <2> HIDE DEF found, keyed
    <2> QED
        BY <1>1, KeepsIsRequest, IdentifyKeeps, KeepsTrans, Continued
<1>3. LetsPass(req, apikey_unauthorized_response)
    BY Refused DEF apikey_unauthorized_response
<1> QED
    BY <1>2, <1>3 DEF apikey_auth

(* jwt-auth only sets headers of the gateway.                              *)
LEMMA JwtKeeps == ASSUME NEW cfg, NEW req, IsRequest(req) PROVE LetsPass(req, jwt_auth(cfg, req))
<1>1. LetsPass(req, jwt_unauthorized_response)
    BY Refused DEF jwt_unauthorized_response
<1>2. \A who, groups : LetsPass(req, Continue(ByClaims(req, who, groups)))
    BY ByClaimsKeeps, Continued
<1> QED
    BY <1>1, <1>2, Zenon DEF jwt_auth

(* oauth2-auth only sets headers of the gateway, whatever introspection    *)
(* says.                                                                   *)
LEMMA OAuth2Keeps ==
    ASSUME NEW cfg, NEW req, IsRequest(req), NEW a PROVE LetsPass(req, oauth2_auth(cfg, req, a))
<1>1. \A scopes : LetsPass(req, oauth2_error_response(scopes))
    BY Refused DEF oauth2_error_response
<1>2. \A who, groups : LetsPass(req, Continue(ByClaims(req, who, groups)))
    BY ByClaimsKeeps, Continued
<1> QED
    BY <1>1, <1>2, Zenon DEF oauth2_auth

(* oidc-auth only sets headers of the gateway, whatever keys the instance  *)
(* holds.                                                                  *)
LEMMA OidcKeeps ==
    ASSUME NEW cfg, NEW req, IsRequest(req), NEW inst PROVE LetsPass(req, oidc_auth(cfg, req, inst))
<1>1. \A scopes : LetsPass(req, oidc_error_response(scopes))
    BY Refused DEF oidc_error_response
<1>2. \A who, groups : LetsPass(req, Continue(ByClaims(req, who, groups)))
    BY ByClaimsKeeps, Continued
<1> QED
    BY <1>1, <1>2, Zenon DEF oidc_auth

(* The plugins that let the request pass as it is, or refuse it.           *)
LEMMA AccessKeeps ==
    ASSUME NEW cfg, NEW req, IsRequest(req)
    PROVE  /\ LetsPass(req, acl(cfg, req)) /\ LetsPass(req, ip_restriction(cfg, req))
           /\ LetsPass(req, bot_detection(cfg, req)) /\ LetsPass(req, request_size_limit(cfg, req))
           /\ LetsPass(req, redirect(cfg, req))
           /\ \A a : LetsPass(req, opa_authz(cfg, req, a))
<1>1. LetsPass(req, Continue(req))
    BY KeepsRefl, Continued
<1>2. LetsPass(req, acl(cfg, req))
    BY <1>1, Refused, Zenon DEF acl, acl_forbidden_response
<1>3. LetsPass(req, ip_restriction(cfg, req))
    BY <1>1, Refused, Zenon DEF ip_restriction, ip_forbidden_response
<1>4. LetsPass(req, bot_detection(cfg, req))
    BY <1>1, Refused, Zenon DEF bot_detection, blocked_response
<1>5. LetsPass(req, request_size_limit(cfg, req))
    <2>1. LetsPass(req, size_payload_too_large_response)
        BY Refused DEF size_payload_too_large_response
    <2>2. request_size_limit(cfg, req) \in {size_payload_too_large_response, Continue(req)}
        BY Zenon DEF request_size_limit
    <2> QED
        BY <1>1, <2>1, <2>2
<1>6. LetsPass(req, redirect(cfg, req))
    BY <1>1, Refused, Zenon DEF redirect, redirect_response
<1>7. ASSUME NEW a PROVE LetsPass(req, opa_authz(cfg, req, a))
    <2>1. LetsPass(req, opa_error_response) /\ LetsPass(req, opa_denied_response)
        BY Refused DEF opa_error_response, opa_denied_response
    <2> QED
        BY <1>1, <2>1 DEF opa_authz
<1> QED
    BY <1>2, <1>3, <1>4, <1>5, <1>6, <1>7

(* cors only adds to the context.                                          *)
LEMMA CorsKeeps == ASSUME NEW cfg, NEW req, IsRequest(req) PROVE LetsPass(req, cors(cfg, req))
<1>1. LetsPass(req, Continue(req))
    BY KeepsRefl, Continued
<1>2. \A v : LetsPass(req, Continue(SetContext(req, "cors.origin", v)))
    BY SetContextKeeps, Continued
<1>3. LetsPass(req, cors_forbidden_response)
    BY Refused DEF cors_forbidden_response
<1>4. ASSUME NEW o, NEW m PROVE LetsPass(req, preflight_response(cfg, o, m, req))
    <2>1. \A headers : LetsPass(req, ShortCircuit(204, headers))
        BY Refused
    <2> QED
        BY <1>3, <2>1, Zenon DEF preflight_response
<1> QED
    BY <1>1, <1>2, <1>3, <1>4, Zenon DEF cors

(* correlation-id only sets its own header and the context.                *)
LEMMA CorrelationKeeps ==
    ASSUME NEW cfg, NEW req, IsRequest(req), NEW u PROVE LetsPass(req, correlation_id(cfg, req, u))
<1>1. LetsPass(req, Continue(req))
    BY KeepsRefl, Continued
<1>2. ASSUME NEW v PROVE LetsPass(req, Continue(SetContext(SetHeader(req, "x-correlation-id", v), "correlation-id", v)))
    <2>1. Keeps(req, SetHeader(req, "x-correlation-id", v))
        BY SetHeaderKeeps DEF SetByGateway
    <2> QED
        BY <2>1, KeepsIsRequest, SetContextKeeps, KeepsTrans, Continued
<1> QED
    BY <1>1, <1>2, Zenon DEF correlation_id

(* cel only adds to the context, whatever the expression yields.           *)
LEMMA CelKeeps == ASSUME NEW cfg, NEW req, IsRequest(req), NEW v PROVE LetsPass(req, cel(cfg, req, v))
<1>1. LetsPass(req, Continue(req))
    BY KeepsRefl, Continued
<1>2. \A ctx : LetsPass(req, Continue([req EXCEPT !.ctx = ctx]))
    <2>1. \A ctx : Keeps(req, [req EXCEPT !.ctx = ctx])
        BY ContextKeeps
    <2> QED
        BY <2>1, Continued
<1>3. LetsPass(req, eval_error_response) /\ LetsPass(req, cel_denied_response)
    BY Refused DEF eval_error_response, cel_denied_response
<1>4. \A d : LetsPass(req, deny_action_response(d))
    BY Refused DEF deny_action_response
<1> QED
    BY <1>1, <1>2, <1>3, <1>4, Zenon DEF cel

(* Whatever the plugin, its configuration and the answers it gets.         *)
LEMMA MiddlewareKeeps ==
    ASSUME NEW cfg, cfg.plugin \in Plugins \ {"oidc-auth"}, NEW req, IsRequest(req), NEW res \in on_request(cfg, req)
    PROVE  LetsPass(req, res)
BY BasicKeeps, ApiKeyKeeps, JwtKeeps, OAuth2Keeps, AccessKeeps, CorsKeeps, CorrelationKeeps, CelKeeps
DEF on_request, Plugins, Authentication

-----------------------------------------------------------------------------
(* What has been proved when an authentication plugin lets a request pass *)

Asked(cfg, r, req) ==
    LET proven == ProvenBy(cfg, r, req.query)
    IN /\ cfg.plugin = "basic-auth" => proven # {}
       /\ cfg.plugin = "apikey-auth" /\ (cfg.location # "query" => cfg.header \notin SetByGateway) => proven # {}
       /\ cfg.plugin = "jwt-auth" =>
             \E key \in cfg.key, n \in bearer_token(req) : Tokens[n].signedBy = key.material

FromClient(r, req) ==
    \A h \in DOMAIN req.headers \ SetByGateway :
        h \in DOMAIN HeaderMap(r.raw) /\ req.headers[h] = HeaderMap(r.raw)[h]

(* Later middlewares do not take back what was proved.                     *)
LEMMA AskedStays ==
    ASSUME NEW cfg, NEW r, NEW req, NEW new, Asked(cfg, r, req), Keeps(req, new) PROVE Asked(cfg, r, new)
BY DEF Asked, Keeps

(* basic-auth: some entry has the user and the password that were sent.    *)
LEMMA BasicAsked ==
    ASSUME NEW cfg, cfg.plugin = "basic-auth", NEW r, NEW req, FromClient(r, req), basic_auth(cfg, req).go
    PROVE  Asked(cfg, r, req)
<1> DEFINE found == UNION {MatchingCredential(cfg, c) : c \in extract_credentials(req)}
<1>1. found # {}
    BY DEF basic_auth, basic_unauthorized_response, ShortCircuit
<1>2. PICK c \in extract_credentials(req) : MatchingCredential(cfg, c) # {}
    BY <1>1
<1>3. PICK v \in Header(req, "authorization") :
          Len(v) = 3 /\ v[1] = "Basic" /\ c = [user |-> v[2], password |-> v[3]]
    BY <1>2, Zenon DEF extract_credentials
<1>4. PICK i \in DOMAIN cfg.credentials :
          cfg.credentials[i].user = c.user /\ cfg.credentials[i].password = c.password
    BY <1>2 DEF MatchingCredential, LastPosition
<1>5. "authorization" \in DOMAIN HeaderMap(r.raw) /\ v = HeaderMap(r.raw)["authorization"]
    BY <1>3 DEF Header, Has, FromClient, SetByGateway
<1>6. cfg.credentials[i] \in Range(cfg.credentials)
    BY DEF Range
<1>7. ProvenBy(cfg, r, req.query) # {}
    BY <1>3, <1>4, <1>5, <1>6 DEF ProvenBy
<1> QED
    BY <1>7 DEF Asked

(* apikey-auth: the key that was sent, in the query or in a header that    *)
(* only the client sets, is one of those configured.                       *)
LEMMA ApiKeyAsked ==
    ASSUME NEW cfg, cfg.plugin = "apikey-auth", NEW r, NEW req, FromClient(r, req), apikey_auth(cfg, req).go
    PROVE  Asked(cfg, r, req)
<1> DEFINE found == UNION {lookup_key(cfg, k) : k \in extract_key(cfg, req)}
<1>1. found # {}
    BY DEF apikey_auth, apikey_unauthorized_response, ShortCircuit
<1>2. PICK k \in extract_key(cfg, req) : lookup_key(cfg, k) # {}
    BY <1>1
<1>3. PICK e \in Range(cfg.keys) : e.key = k
    BY <1>2 DEF lookup_key, LastPosition, Range
<1>4. ASSUME cfg.location = "query" PROVE ProvenBy(cfg, r, req.query) # {}
    <2>1. PICK p \in Range(req.query) : p.name = cfg.param /\ percent_decode(p.value) = k
        BY <1>2, <1>4 DEF extract_key, extract_from_query, FirstPosition, Range
    <2> QED
        BY <1>3, <1>4, <2>1 DEF ProvenBy
<1>5. ASSUME cfg.location # "query", cfg.header \notin SetByGateway PROVE ProvenBy(cfg, r, req.query) # {}
    <2>1. cfg.header \in DOMAIN HeaderMap(r.raw) /\ k = HeaderMap(r.raw)[cfg.header]
        BY <1>2, <1>5 DEF extract_key, extract_from_header, Header, Has, FromClient
    <2> QED
        BY <1>3, <1>5, <2>1 DEF ProvenBy
<1> QED
    BY <1>4, <1>5 DEF Asked

(* jwt-auth: the token was signed with a configured key.                   *)
LEMMA JwtAsked ==
    ASSUME NEW cfg, cfg.plugin = "jwt-auth", NEW r, NEW req, jwt_auth(cfg, req).go
    PROVE  Asked(cfg, r, req)
<1> DEFINE parsed == UNION {parse_jwt(n) : n \in bearer_token(req)}
           valid == {t \in parsed : /\ jwt_validate_algorithm(t.alg)
                                    /\ jwt_validate_signature(cfg, t)
                                    /\ jwt_validate_claims(cfg, t.claims)}
<1>1. valid # {}
    BY DEF jwt_auth, jwt_unauthorized_response, ShortCircuit
<1>2. PICK n \in bearer_token(req) : \E t \in parse_jwt(n) : jwt_validate_signature(cfg, t)
    BY <1>1
<1>3. jwt_validate_signature(cfg, Tokens[n])
    BY <1>2 DEF parse_jwt
<1>4. PICK key \in cfg.key : Tokens[n].signedBy = key.material
    BY <1>3 DEF jwt_validate_signature, verify_signature
<1> QED
    BY <1>2, <1>4 DEF Asked

(* The same for every plugin: the others ask for nothing here.             *)
LEMMA MiddlewareAsked ==
    ASSUME NEW cfg, cfg.plugin \in Plugins \ {"oidc-auth"}, NEW r, NEW req, FromClient(r, req),
           NEW res \in on_request(cfg, req), res.go
    PROVE  Asked(cfg, r, req)
<1>1. cfg.plugin = "basic-auth" => res = basic_auth(cfg, req)
    BY DEF on_request
<1>2. cfg.plugin = "apikey-auth" => res = apikey_auth(cfg, req)
    BY DEF on_request
<1>3. cfg.plugin = "jwt-auth" => res = jwt_auth(cfg, req)
    BY DEF on_request
<1>4. cfg.plugin \notin {"basic-auth", "apikey-auth", "jwt-auth"} => Asked(cfg, r, req)
    BY DEF Asked
<1> QED
    BY <1>1, <1>2, <1>3, <1>4, BasicAsked, ApiKeyAsked, JwtAsked

(* oidc-auth: with keys that were offered, and a token at hand, the bearer *)
(* token of the request was signed with one of them.                       *)
LEMMA OidcVerified ==
    ASSUME NEW cfg, NEW req, NEW inst, OidcToken(cfg, req) # {}, oidc_auth(cfg, req, inst).go,
           NEW n \in bearer_token(req), n \in DOMAIN Tokens
    PROVE  \E key \in UNION {c.keys : c \in inst.jwks} : key.material = Tokens[n].signedBy
<1> DEFINE t == The(OidcToken(cfg, req))
           keys == find_key(inst, t)
<1>1. keys # {} /\ verify_signature(The(keys), t)
    BY DEF oidc_auth, oidc_error_response, ShortCircuit
<1>2. The(keys) \in keys
    <2> HIDE DEF keys
    <2> QED
        BY <1>1 DEF The
<1>3. The(keys) \in UNION {c.keys : c \in inst.jwks}
    <2> HIDE DEF t
    <2> QED
        BY <1>2 DEF find_key
<1>4. t \in OidcToken(cfg, req)
    BY DEF The
<1>5. Has(req, "authorization") /\ \A m \in bearer_token(req) : m = n
    BY DEF bearer_token, Header, Has
<1>6. oidc_extract_token(cfg, req) = bearer_token(req)
    BY <1>5 DEF oidc_extract_token
<1>7. t = Tokens[n]
    <2> HIDE DEF t
    <2> QED
        BY <1>4, <1>5, <1>6 DEF OidcToken, parse_jwt
<1> QED
    BY <1>1, <1>3, <1>7 DEF verify_signature

-----------------------------------------------------------------------------
(* The steps of a connection *)

(* New sessions take nothing from a connection.                            *)
LEMMA MoreSessions ==
    ASSUME NEW k, NEW n \in Nat, NEW m \in Nat, n <= m, NEW keys, ConnOK(k, n, keys) PROVE ConnOK(k, m, keys)
<1>1. InSession(k, m)
    BY DEF ConnOK, InSession
<1> QED
    BY <1>1 DEF ConnOK

(* A step of one connection is a step of all.                              *)
LEMMA OneConn ==
    ASSUME ConnInv, used \in Nat, used' \in Nat, used <= used', published' = published, NEW c \in Conns, NEW new,
           conn' = [conn EXCEPT ![c] = new], ConnOK(new, used', published)
    PROVE  ConnInv'
<1>1. /\ conn' = [d \in Conns |-> conn'[d]] /\ conn'[c] = new
      /\ \A d \in Conns : d # c => conn'[d] = conn[d]
    BY DEF ConnInv
<1>2. ASSUME NEW d \in Conns PROVE ConnOK(conn'[d], used', published')
    <2>1. ConnOK(conn[d], used', published)
        BY MoreSessions DEF ConnInv
    <2> QED
        BY <1>1, <2>1
<1> QED
    BY <1>1, <1>2 DEF ConnInv

(* Nothing is asked of a connection that has been answered.                *)
LEMMA AnsweredOK ==
    ASSUME NEW k, NEW n, NEW keys, k = [f \in DOMAIN k |-> k[f]], {"pc", "inst"} \subseteq DOMAIN k,
           k.pc = "done", "offered" \notin DOMAIN k
    PROVE  ConnOK(k, n, keys)
<1>1. Shape(k)
    BY DEF Shape
<1>2. InSession(k, n) /\ Admitted(k) /\ ClientHeaders(k) /\ KeysOffered(k, keys) /\ Authenticated(k)
    BY DEF InSession, Admitted, ClientHeaders, KeysOffered, Authenticated
<1> QED
    BY <1>1, <1>2 DEF ConnOK

(* A connection that is answered has nothing left to establish.            *)
LEMMA DoneStep ==
    ASSUME ConnInv, used \in Nat, used' \in Nat, used <= used', published' = published, NEW c \in Conns,
           NEW r, NEW reply, Done(c, r, reply)
    PROVE  ConnInv'
<1> DEFINE new == [pc |-> "done", r |-> r, inst |-> conn[c].inst, label |-> reply.label,
                   status |-> reply.status, headers |-> add_standard_headers(reply.headers, r)]
<1>1. conn' = [conn EXCEPT ![c] = new]
    BY Zenon DEF Done
<1>2. /\ new = [f \in DOMAIN new |-> new[f]] /\ {"pc", "inst"} \subseteq DOMAIN new
      /\ new.pc = "done" /\ "offered" \notin DOMAIN new
    OBVIOUS
<1>3. ConnOK(new, used', published)
    <2> HIDE DEF new
    <2> QED
        BY <1>2, AnsweredOK
<1> HIDE DEF new
<1> QED
    BY <1>1, <1>3, OneConn

(* The same for an answer of the gateway itself.                           *)
LEMMA AnsweredStep ==
    ASSUME ConnInv, used \in Nat, used' = used, published' = published, NEW c \in Conns,
           NEW status, NEW headers, Answered(c, status, headers)
    PROVE  ConnInv'
<1>1. \E r, reply : Done(c, r, reply)
    BY Zenon DEF Answered
<1> QED
    BY <1>1, DoneStep

(* A request that waits for its body.                                      *)
LEMMA CollectingStep ==
    ASSUME ConnInv, used \in Nat, used' = used, published' = published, NEW c \in Conns,
           NEW r, NEW via, Collecting(c, r, via), HeadIsListed(r),
           via = "http" => WithinLimits(r) /\ r.target \in DOMAIN Routes /\ r.method \in DOMAIN Routes[r.target]
    PROVE  ConnInv'
<1> DEFINE new == [pc |-> "collect", r |-> r, via |-> via, inst |-> conn[c].inst,
                   headers |-> HeaderMap(r.raw), offered |-> published]
<1>1. conn' = [conn EXCEPT ![c] = new]
    BY Zenon DEF Collecting
<1>2. /\ new = [f \in DOMAIN new |-> new[f]] /\ DOMAIN new = CollectFields
      /\ new.pc = "collect" /\ new.via = via /\ new.r = r /\ new.headers = HeaderMap(r.raw)
      /\ new.offered = published
    BY DEF CollectFields
<1>3. ConnOK(new, used', published)
    <2> HIDE DEF new
    <2>1. Shape(new)
        BY <1>2 DEF Shape, CollectFields
    <2>2. Admitted(new)
        BY <1>2 DEF Admitted
    <2>3. InSession(new, used') /\ ClientHeaders(new) /\ KeysOffered(new, published) /\ Authenticated(new)
        BY <1>2 DEF InSession, ClientHeaders, KeysOffered, Authenticated
    <2> QED
        BY <2>1, <2>2, <2>3 DEF ConnOK
<1>4. used' \in Nat /\ used <= used'
    OBVIOUS
<1> HIDE DEF new
<1> QED
    BY <1>1, <1>3, <1>4, OneConn, Zenon


(* Whatever the gate answers itself does not wait for a body.              *)
LEMMA Replies ==
    /\ \A status, headers, label : Reply(status, headers, label).to # "collect"
    /\ \A l : /\ validation_error_response(l).to # "collect" /\ payload_too_large_response(l).to # "collect"
              /\ not_found_response(l).to # "collect" /\ bad_request_response(l).to # "collect"
              /\ \A a : method_not_allowed_response(a, l).to # "collect"
BY DEF Reply, validation_error_response, payload_too_large_response, not_found_response, bad_request_response,
       method_not_allowed_response

(* handle_request waits for a body only if the head is within the limits   *)
(* and an operation has the path and the method.                           *)
LEMMA GateAdmits ==
    ASSUME NEW r, NEW first, Gate(r, first).to = "collect"
    PROVE  WithinLimits(r) /\ r.target \in DOMAIN Routes /\ r.method \in DOMAIN Routes[r.target]
<1>1. handle_barbacane_endpoint(r).to # "collect"
    <2>1. \A status, headers : Reply(status, headers, {}).to # "collect"
        BY Replies
    <2>2. method_not_allowed_response({"GET"}, {}).to # "collect" /\ not_found_response({}).to # "collect"
        BY Replies
    <2> QED
        BY <2>1, <2>2, Zenon DEF handle_barbacane_endpoint
<1>2. \A headers : NotAllowed(r, headers, first).to # "collect"
    <2>1. \A cfg, headers : handle_cors_preflight(cfg, headers).to # "collect"
        BY Replies, Zenon DEF handle_cors_preflight
    <2> QED
        BY <2>1, Replies, Zenon DEF NotAllowed
<1>3. validate_uri(r.uri)
    BY Replies, Zenon DEF Gate
<1>4. r.target # "internal"
    BY <1>1, <1>3, Zenon DEF Gate
<1> DEFINE headers == HeaderMap(r.raw)
           rest == IF ~validate_header_count(r.raw) \/ \E i \in DOMAIN r.raw : ~validate_header_size(r.raw[i])
                   THEN validation_error_response({Unmatched})
                   ELSE IF TooLarge(headers) THEN payload_too_large_response({Unmatched})
                   ELSE IF r.target \notin DOMAIN Routes THEN not_found_response({Unmatched})
                   ELSE IF r.method \notin DOMAIN Routes[r.target] THEN NotAllowed(r, headers, first)
                   ELSE [to |-> "collect"]
<1>5. rest.to = "collect"
    BY <1>3, <1>4, Zenon DEF Gate
<1>6. /\ validate_header_count(r.raw) /\ \A i \in DOMAIN r.raw : validate_header_size(r.raw[i])
      /\ r.target \in DOMAIN Routes /\ r.method \in DOMAIN Routes[r.target]
    <2> HIDE DEF headers
    <2> QED
        BY <1>2, <1>5, Replies, Zenon
<1> QED
    BY <1>3, <1>6 DEF WithinLimits, validate_uri, validate_header_count, validate_header_size

(* Receiving a request keeps the invariant of the connections.             *)
LEMMA ReceiveStep ==
    ASSUME ConnInv, used \in Nat, NEW c \in Conns, NEW n \in DOMAIN Requests, Receive(c, n)
    PROVE  ConnInv'
<1> DEFINE r == Requests[n]
<1>0. HeadIsListed(r)
    BY RequestAssumption DEF HeadIsListed
<1>1. PICK first : LET v == Gate(r, first)
                   IN IF v.to = "collect" THEN Collecting(c, r, "http") ELSE Done(c, r, v)
    BY Zenon DEF Receive
<1>2. used' = used /\ published' = published
    BY DEF Receive, mcpVars
<1>3. CASE Gate(r, first).to = "collect"
    <2>1. Collecting(c, r, "http")
        BY <1>1, <1>3
    <2> HIDE DEF r
    <2> QED
        BY <1>0, <1>2, <1>3, <2>1, GateAdmits, CollectingStep
<1>4. CASE Gate(r, first).to # "collect"
    <2>1. Done(c, r, Gate(r, first))
        BY <1>1, <1>4
    <2>2. used' \in Nat /\ used <= used'
        BY <1>2
    <2> HIDE DEF r
    <2> QED
        BY <1>2, <2>1, <2>2, DoneStep
<1> QED
    BY <1>3, <1>4

(* So does receiving one for /__barbacane/mcp.                             *)
LEMMA ReceiveMcpStep ==
    ASSUME ConnInv, used \in Nat, NEW c \in Conns, NEW n \in DOMAIN Requests, ReceiveMcp(c, n)
    PROVE  ConnInv'
<1> DEFINE r == Requests[n]
<1>0. HeadIsListed(r)
    BY RequestAssumption DEF HeadIsListed
<1>1. IF McpGate(r).to = "collect" THEN Collecting(c, r, "mcp") ELSE Done(c, r, McpGate(r))
    BY Zenon DEF ReceiveMcp
<1>2. used' = used /\ published' = published /\ "mcp" # "http"
    BY DEF ReceiveMcp
<1> DEFINE v == McpGate(r)
<1>3. CASE Collecting(c, r, "mcp")
    <2> HIDE DEF r
    <2> QED
        BY <1>0, <1>2, <1>3, CollectingStep
<1>4. CASE Done(c, r, v)
    <2>2. used' \in Nat /\ used <= used'
        BY <1>2
    <2> HIDE DEF r, v
    <2> QED
        BY <1>2, <1>4, <2>2, DoneStep
<1> QED
    BY <1>1, <1>3, <1>4

(* A request enters the chain.                                             *)
LEMMA ChainStep ==
    ASSUME ConnInv, used \in Nat, used' \in Nat, used <= used', published' = published,
           NEW c \in Conns, conn[c].pc = "collect", NEW op \in DOMAIN Operations, NEW req, Chain(c, op, req),
           IsRequest(req), FromClient(conn[c].r, req),
           conn[c].via = "http" =>
               /\ req.body.size <= Limits.body
               /\ Validated(Operations[op], Captured(conn[c].r), conn[c].r.query, HeaderMap(conn[c].r.raw), req.body) = {},
           conn[c].via = "mcp" =>
               (The(conn[c].r.body.rpc).id # {} => \E s \in SessionOf(conn[c].r) : s \in 1 .. used')
    PROVE  ConnInv'
<1> DEFINE k == conn[c]
           new == [pc |-> "chain", r |-> k.r, via |-> k.via, offered |-> k.offered,
                   op |-> op, req |-> req, at |-> 1, inst |-> FreshInstance]
<1>1. conn' = [conn EXCEPT ![c] = new]
    BY Zenon DEF Chain, NewInstance
<1>2. /\ new = [f \in DOMAIN new |-> new[f]] /\ DOMAIN new = ChainFields
      /\ new.pc = "chain" /\ new.via = k.via /\ new.r = k.r /\ new.offered = k.offered
      /\ new.op = op /\ new.req = req /\ new.at = 1 /\ new.inst = FreshInstance
    BY DEF ChainFields
<1>3. ConnOK(k, used, published)
    BY DEF ConnInv
<1>4. ConnOK(new, used', published)
    <2> HIDE DEF new
    <2>1. Shape(new)
        BY <1>2 DEF Shape, ChainFields, IsRequest, FreshInstance, InstanceFields
    <2>2. Admitted(new)
        BY <1>2, <1>3 DEF Admitted, ConnOK
    <2>3. InSession(new, used') /\ ClientHeaders(new)
        BY <1>2 DEF InSession, ClientHeaders, FromClient
    <2>4. KeysOffered(new, published)
        <3>1. published \subseteq k.offered
            BY <1>3 DEF ConnOK, KeysOffered
        <3>2. new.inst.jwks = {}
            BY <1>2 DEF FreshInstance
        <3> QED
            BY <1>2, <3>1, <3>2 DEF KeysOffered
    <2>5. Authenticated(new)
        <3>1. \A plugins : Chained(new, plugins) = {}
            BY <1>2 DEF Chained
        <3> QED
            BY <3>1 DEF Authenticated, CredentialKnown, KeyIsOffered
    <2> QED
        BY <2>1, <2>2, <2>3, <2>4, <2>5 DEF ConnOK
<1> HIDE DEF new
<1> QED
    BY <1>1, <1>4, OneConn


-----------------------------------------------------------------------------
(* The steps of the table *)

(* The table of sessions is finite, so its entries can be counted.         *)
LEMMA TableIsFinite ==
    ASSUME SessionInv PROVE IsFiniteSet(DOMAIN sessions) /\ Cardinality(DOMAIN sessions) \in Nat
<1>1. IsFiniteSet(1 .. used)
    BY FS_Interval DEF SessionInv
<1>2. IsFiniteSet(DOMAIN sessions)
    BY <1>1, FS_Subset DEF SessionInv
<1> QED
    BY <1>2, FS_CardinalityType

(* Taking sessions out that were ended or have expired.                    *)
LEMMA FewerSessions ==
    ASSUME SessionInv, NEW S, S \subseteq DOMAIN sessions, sessions' = Restrict(sessions, S),
           ended \subseteq ended', UNCHANGED <<now, used, last>>,
           \A s \in DOMAIN sessions \ ended' : now - sessions[s] < SessionTtl => s \in S
    PROVE  SessionInv'
<1>1. DOMAIN sessions' = S /\ \A s \in S : sessions'[s] = sessions[s]
    BY DEF Restrict
<1>2. Cardinality(S) <= MaxSessions
    <2>1. Cardinality(S) \in Nat /\ Cardinality(S) <= Cardinality(DOMAIN sessions)
        BY TableIsFinite, FS_Subset, FS_CardinalityType
    <2>2. MaxSessions \in Nat
        BY McpAssumption
    <2> QED
        BY <2>1, <2>2, TableIsFinite DEF SessionInv
<1>3. \A s \in DOMAIN last' \ ended' : now' - last'[s] < SessionTtl => s \in DOMAIN sessions'
    BY <1>1 DEF SessionInv
<1> QED
    BY <1>1, <1>2, <1>3 DEF SessionInv

(* Time passing ends no session that was used in time.                     *)
LEMMA TickStep == ASSUME SessionInv, Tick, UNCHANGED gateVars PROVE SessionInv'
<1>1. now' = now + 1 /\ UNCHANGED <<sessions, used, ended, last>>
    BY DEF Tick, gateVars
<1>2. SessionTtl \in Nat
    BY McpAssumption
<1>3. ASSUME NEW s \in DOMAIN last \ ended, now + 1 - last[s] < SessionTtl PROVE s \in DOMAIN sessions
    <2>1. last[s] \in 0 .. now /\ now \in Nat
        BY DEF SessionInv
    <2>2. now - last[s] < SessionTtl
        BY <1>2, <1>3, <2>1
    <2> QED
        BY <2>2 DEF SessionInv
<1>4. \A s \in 1 .. used : last[s] \in 0 .. now + 1
    BY DEF SessionInv
<1> QED
    BY <1>1, <1>3, <1>4 DEF SessionInv

(* The sweep removes only what has expired.                                *)
LEMMA EvictStep == ASSUME SessionInv, evict_expired, UNCHANGED gateVars PROVE SessionInv'
<1>1. sessions' = Restrict(sessions, Alive) /\ UNCHANGED <<now, used, ended, last>>
    BY DEF evict_expired, gateVars
<1>2. Alive \subseteq DOMAIN sessions /\ \A s \in DOMAIN sessions : now - sessions[s] < SessionTtl => s \in Alive
    BY DEF Alive
<1> QED
    BY <1>1, <1>2, FewerSessions

(* DELETE: the session is ended, and only that one leaves.                 *)
LEMMA RemoveStep == ASSUME SessionInv, NEW c, NEW n, ReceiveMcp(c, n) PROVE SessionInv'
<1>1. PICK gone : sessions' = remove(gone) /\ ended' = ended \cup (gone \cap DOMAIN sessions)
    BY Zenon DEF ReceiveMcp
<1>2. sessions' = Restrict(sessions, DOMAIN sessions \ gone) /\ UNCHANGED <<now, used, last>>
    BY <1>1 DEF ReceiveMcp, remove
<1> DEFINE S == DOMAIN sessions \ gone
<1>3. /\ S \subseteq DOMAIN sessions /\ ended \subseteq ended' /\ sessions' = Restrict(sessions, S)
      /\ \A s \in DOMAIN sessions \ ended' : now - sessions[s] < SessionTtl => s \in S
    BY <1>1, <1>2
<1> HIDE DEF S
<1> QED
    BY <1>2, <1>3, FewerSessions

(* The ghost after a message.                                              *)
LastAfter(table, n) ==
    [s \in 1 .. n |-> IF s \notin DOMAIN last \/ (s \in DOMAIN table /\ table[s] # last[s]) THEN now ELSE last[s]]

(* A table that keeps what is alive, with new times only for sessions used *)
(* or created now.                                                         *)
FollowsTable(table, n) ==
    /\ n \in {used, used + 1} /\ DOMAIN table \subseteq 1 .. n /\ (n > used => n \in DOMAIN table)
    /\ Cardinality(DOMAIN table) <= MaxSessions
    /\ \A s \in DOMAIN table : s \in DOMAIN last => table[s] \in {last[s], now}
    /\ \A s \in DOMAIN table : s \notin DOMAIN last => table[s] = now
    /\ \A s \in DOMAIN sessions : now - sessions[s] < SessionTtl => s \in DOMAIN table

(* A message leaves the invariant of the sessions if the table it leaves   *)
(* follows from the one before.                                            *)
LEMMA TableStep ==
    ASSUME SessionInv, NEW table, NEW n, FollowsTable(table, n), UNCHANGED <<now, ended>>,
           sessions' = table, used' = n, last' = LastAfter(table, n)
    PROVE  SessionInv'
<1> USE DEF SessionInv, FollowsTable
<1>1. now' \in Nat /\ used' \in Nat /\ DOMAIN last' = 1 .. used' /\ DOMAIN sessions' \subseteq 1 .. used'
    BY DEF LastAfter
<1>2. \A s \in 1 .. used' : last'[s] \in 0 .. now'
    BY DEF LastAfter
<1>3. \A s \in DOMAIN sessions' : sessions'[s] = last'[s]
    BY DEF LastAfter
<1>4. ASSUME NEW s \in DOMAIN last' \ ended', now' - last'[s] < SessionTtl PROVE s \in DOMAIN sessions'
    <2>1. CASE s \notin DOMAIN last
        BY <1>1, <2>1
    <2>2. CASE s \in DOMAIN last
        <3>1. s \notin DOMAIN table => last'[s] = last[s]
            BY <1>1, <2>2 DEF LastAfter
        <3>2. s \in DOMAIN sessions => sessions[s] = last[s]
            OBVIOUS
        <3> QED
            BY <1>4, <2>2, <3>1, <3>2
    <2> QED
        BY <2>1, <2>2
<1> QED
    BY <1>1, <1>2, <1>3, <1>4


(* Doing nothing, and using a session of the table.                        *)
LEMMA TouchFollows ==
    ASSUME SessionInv, NEW id \in DOMAIN sessions PROVE FollowsTable(touch(id), used)
<1>1. /\ DOMAIN touch(id) = DOMAIN sessions
      /\ \A s \in DOMAIN sessions : touch(id)[s] \in {sessions[s], now}
    BY DEF touch
<1> HIDE DEF touch
<1> QED
    BY <1>1 DEF FollowsTable, SessionInv

(* A table follows from itself.                                            *)
LEMMA SameFollows == ASSUME SessionInv PROVE FollowsTable(sessions, used)
BY DEF FollowsTable, SessionInv

(* create: what has not expired stays, and there is room for one more.     *)
LEMMA CreateFollows ==
    ASSUME SessionInv
    PROVE  /\ create.id \in {{}, {used + 1}}
           /\ FollowsTable(create.table, IF create.id = {} THEN used ELSE used + 1)
<1> DEFINE full == Cardinality(DOMAIN sessions) >= MaxSessions
           kept == IF full THEN Restrict(sessions, Alive) ELSE sessions
           more == [s \in DOMAIN kept \cup {used + 1} |-> IF s \in DOMAIN kept THEN kept[s] ELSE now]
<1>1. /\ DOMAIN kept \subseteq DOMAIN sessions /\ \A s \in DOMAIN kept : kept[s] = sessions[s]
      /\ \A s \in DOMAIN sessions : now - sessions[s] < SessionTtl => s \in DOMAIN kept
    <2> HIDE DEF full
    <2>1. /\ DOMAIN Restrict(sessions, Alive) = Alive /\ \A s \in Alive : Restrict(sessions, Alive)[s] = sessions[s]
          /\ Alive \subseteq DOMAIN sessions
          /\ \A s \in DOMAIN sessions : now - sessions[s] < SessionTtl => s \in Alive
        BY DEF Restrict, Alive
    <2> QED
        BY <2>1
<1>2. IsFiniteSet(DOMAIN kept) /\ Cardinality(DOMAIN kept) \in Nat /\ Cardinality(DOMAIN kept) <= MaxSessions
    <2> HIDE DEF kept
    <2>1. /\ IsFiniteSet(DOMAIN kept) /\ Cardinality(DOMAIN kept) \in Nat
          /\ Cardinality(DOMAIN kept) <= Cardinality(DOMAIN sessions)
        BY <1>1, TableIsFinite, FS_Subset, FS_CardinalityType
    <2>2. MaxSessions \in Nat
        BY McpAssumption
    <2> QED
        BY <2>1, <2>2, TableIsFinite DEF SessionInv
<1>3. create = IF Cardinality(DOMAIN kept) >= MaxSessions THEN [table |-> kept, id |-> {}]
               ELSE [table |-> more, id |-> {used + 1}]
    BY Zenon DEF create
<1>4. FollowsTable(kept, used)
    <2> HIDE DEF kept
    <2> QED
        BY <1>1, <1>2 DEF FollowsTable, SessionInv
<1>5. ASSUME ~(Cardinality(DOMAIN kept) >= MaxSessions) PROVE FollowsTable(more, used + 1)
    <2> HIDE DEF kept
    <2>1. DOMAIN more = DOMAIN kept \cup {used + 1} /\ used + 1 \notin DOMAIN kept
        BY <1>1 DEF SessionInv
    <2>2. Cardinality(DOMAIN more) = Cardinality(DOMAIN kept) + 1
        BY <1>2, <2>1, FS_AddElement
    <2>3. MaxSessions \in Nat
        BY McpAssumption
    <2>4. Cardinality(DOMAIN more) <= MaxSessions
        BY <1>2, <1>5, <2>2, <2>3
    <2>5. \A s \in DOMAIN more : s \in DOMAIN last => more[s] \in {last[s], now}
        BY <1>1, <2>1 DEF SessionInv
    <2>6. \A s \in DOMAIN more : s \notin DOMAIN last => more[s] = now
        BY <1>1, <2>1 DEF SessionInv
    <2> HIDE DEF more
    <2> QED
        BY <1>1, <2>1, <2>4, <2>5, <2>6 DEF FollowsTable, SessionInv
<1> HIDE DEF kept, more
<1>6. CASE Cardinality(DOMAIN kept) >= MaxSessions
    BY <1>3, <1>4, <1>6
<1>7. CASE ~(Cardinality(DOMAIN kept) >= MaxSessions)
    <2>1. create.id = {used + 1} /\ create.table = more
        BY <1>3, <1>7
    <2> QED
        BY <1>5, <1>7, <2>1
<1> QED
    BY <1>6, <1>7

-----------------------------------------------------------------------------
(* Messages of the MCP endpoint *)

(* The operation of a tool is one of the artifact.                         *)
LEMMA ToolsAreOperations ==
    ASSUME NEW n \in DOMAIN generate_tools PROVE generate_tools[n] \in DOMAIN Operations
<1> DEFINE tools == {i \in DOMAIN Operations : IsTool(i)}
<1>1. PICK i \in tools : n \in Operations[i].id
    BY DEF generate_tools
<1>2. Operations[i].id = {n}
    BY <1>1, ArtifactAssumption
<1>3. generate_tools[n] = CHOOSE j \in tools : Operations[j].id = {n}
    BY DEF generate_tools
<1> QED
    BY <1>1, <1>2, <1>3

(* What may become of a message: a new session, or an answer, or a call of *)
(* a tool, which with an id needs a session of the table.                  *)
Outcome(res, message, sid) ==
    \/ /\ res.kind = "response" /\ res.session = create.id /\ res.table = create.table
    \/ /\ res.kind \in {"none", "response", "dispatch"} /\ (res.kind = "response" => res.session = {})
       /\ \/ res.table = sessions
          \/ The(sid) \in DOMAIN sessions /\ res.table = touch(The(sid))
       /\ res.kind = "dispatch" =>
             /\ res.op \in DOMAIN Operations
             /\ The(message).id # {} => sid # {} /\ The(sid) \in DOMAIN sessions

(* Every message to the MCP server has one of the outcomes of              *)
(* handle_message.                                                         *)
LEMMA MessageOutcome == ASSUME NEW message, NEW sid PROVE Outcome(handle_message(message, sid), message, sid)
<1> DEFINE rpc == The(message)
           checked == rpc.method # "initialize" /\ rpc.id # {}
           known == sid # {} /\ The(sid) \in DOMAIN sessions
           table == IF checked /\ known THEN touch(The(sid)) ELSE sessions
<1>1. table = sessions \/ (The(sid) \in DOMAIN sessions /\ table = touch(The(sid)))
    OBVIOUS
<1>2. \A code : Outcome(Answer(code, sessions, {}), message, sid)
    BY DEF Outcome, Answer
<1>3. \A code : Outcome(Answer(code, create.table, create.id), message, sid)
    BY DEF Outcome, Answer
<1>4. (\A code : Outcome(Answer(code, table, {}), message, sid)) /\ Outcome(Silent(table), message, sid)
    <2> HIDE DEF table
    <2> QED
        BY <1>1 DEF Outcome, Answer, Silent
<1>5. ASSUME rpc.method = "tools/call", ~(checked /\ ~known) PROVE Outcome(handle_tools_call(rpc, table), message, sid)
    <2>1. rpc.id # {} => sid # {} /\ The(sid) \in DOMAIN sessions
        BY <1>5
    <2> HIDE DEF table
    <2>2. ASSUME NEW parts, The(rpc.tool) \in DOMAIN generate_tools
          PROVE  Outcome([kind |-> "dispatch", op |-> generate_tools[The(rpc.tool)], parts |-> parts, table |-> table],
                         message, sid)
        BY <1>1, <2>1, <2>2, ToolsAreOperations DEF Outcome
    <2> HIDE DEF rpc
    <2> QED
        BY <1>4, <2>2, Zenon DEF handle_tools_call
<1> DEFINE other == IF rpc.id = {} THEN Silent(table) ELSE Answer("METHOD_NOT_FOUND", table, {})
           called == CASE rpc.method = "initialize" ->
                            Answer(IF create.id = {} THEN "INTERNAL_ERROR" ELSE "ok", create.table, create.id)
                       [] rpc.method = "notifications/initialized" -> Silent(table)
                       [] rpc.method \in {"ping", "tools/list"} -> Answer("ok", table, {})
                       [] rpc.method = "tools/call" -> handle_tools_call(rpc, table)
                       [] OTHER -> other
<1>6. Outcome(other, message, sid)
    <2> HIDE DEF table, rpc
    <2> QED
        BY <1>4
<1>7. ASSUME ~(checked /\ ~known) PROVE Outcome(called, message, sid)
    <2> HIDE DEF table, rpc, checked, known, other
    <2> QED
        BY <1>3, <1>4, <1>5, <1>6, <1>7
<1>8. handle_message(message, sid) =
        IF message = {} THEN Answer("PARSE_ERROR", sessions, {})
        ELSE IF rpc.version # "2.0" THEN Answer("INVALID_REQUEST", sessions, {})
        ELSE IF checked /\ ~known THEN Answer("INVALID_REQUEST", sessions, {}) ELSE called
    BY Zenon DEF handle_message
<1> HIDE DEF table, rpc, checked, known, called
<1> QED
    BY <1>2, <1>7, <1>8, Zenon


(* A body that has arrived is validated before the chain begins.           *)
LEMMA CollectStep ==
    ASSUME ConnInv, used \in Nat, NEW c \in Conns, Collect(c) PROVE ConnInv'
<1> DEFINE r == conn[c].r
           i == Routes[r.target][r.method]
           op == Operations[i]
           body == IF IsWebSocket(conn[c].headers) THEN NoBody ELSE r.body
           req == [method |-> op.method, path |-> r.path, params |-> Captured(r), query |-> r.query,
                   headers |-> conn[c].headers, client |-> r.peer, body |-> body, ctx |-> <<>>]
           large == body # NoBody /\ ~validate_body_size(body.size)
           errors == Validated(op, Captured(r), r.query, conn[c].headers, body)
<1>1. conn[c].pc = "collect" /\ conn[c].via = "http" /\ used' = used /\ published' = published
    BY DEF Collect, mcpVars
<1>2. used' \in Nat /\ used <= used'
    BY <1>1
<1>3. ConnOK(conn[c], used, published)
    BY DEF ConnInv
<1>4. conn[c].headers = HeaderMap(r.raw) /\ i \in DOMAIN Operations
    BY <1>1, <1>3, ArtifactAssumption DEF ConnOK, Admitted
<1>5. \/ \E reply : Done(c, r, reply)
      \/ ~large /\ errors = {} /\ Chain(c, i, req)
    BY Zenon DEF Collect
<1>6. CASE \E reply : Done(c, r, reply)
    <2> HIDE DEF r
    <2> QED
        BY <1>1, <1>2, <1>6, DoneStep
<1>7. CASE ~large /\ errors = {} /\ Chain(c, i, req)
    <2>1. body.size <= Limits.body
        <3>1. Limits.body \in Nat
            BY LimitAssumption
        <3>2. NoBody.size = 0
            BY DEF NoBody
        <3>3. ~large
            BY <1>7
        <3> HIDE DEF body
        <3>4. body = NoBody \/ body.size <= Limits.body
            BY <3>3 DEF validate_body_size
        <3> QED
            BY <3>1, <3>2, <3>4
    <2>2. IsRequest(req) /\ req.headers = conn[c].headers /\ req.body = body
        <3> HIDE DEF op, r, body
        <3> QED
            BY DEF IsRequest, RequestFields
    <2>3. FromClient(conn[c].r, req)
        <3> HIDE DEF req
        <3> QED
            BY <1>4, <2>2 DEF FromClient
    <2>4. Validated(Operations[i], Captured(conn[c].r), conn[c].r.query, HeaderMap(conn[c].r.raw), req.body) = {}
        <3> HIDE DEF req, body
        <3> QED
            BY <1>4, <1>7, <2>2
    <2>5. "http" # "mcp"
        OBVIOUS
    <2> HIDE DEF req, body, i
    <2> QED
        BY <1>1, <1>2, <1>4, <1>7, <2>1, <2>2, <2>3, <2>4, <2>5, ChainStep
<1> QED
    BY <1>5, <1>6, <1>7

(* The request of a tool call has the headers of the client.               *)
LEMMA ToolRequestIs ==
    ASSUME NEW op, NEW parts, NEW r PROVE IsRequest(ToolRequest(op, parts, HeaderMap(r.raw)))
                                          /\ FromClient(r, ToolRequest(op, parts, HeaderMap(r.raw)))
<1> DEFINE headers == HeaderMap(r.raw)
           paths == SelectSeq(op.params, LAMBDA p : p.location = "path")
           params == [i \in DOMAIN paths |-> extract_path_param(parts.path, paths[i])]
           body == IF DOMAIN parts.rest = {} THEN NoBody
                   ELSE [size |-> 1, json |-> {[type |-> "object", fields |-> parts.rest]}]
           sent == IF body = NoBody THEN headers ELSE Put(headers, "content-type", <<"application/json">>)
           req == [method |-> op.method, path |-> <<"tool">>, params |-> params,
                   query |-> parts.query, client |-> "0.0.0.0", body |-> body, ctx |-> <<>>, headers |-> sent]
<1>1. ToolRequest(op, parts, headers) = req
    BY Zenon DEF ToolRequest
<1>2. \A h \in DOMAIN sent \ SetByGateway : h \in DOMAIN headers /\ sent[h] = headers[h]
    <2> HIDE DEF headers, body
    <2> QED
        BY DEF Put, SetByGateway
<1>3. IsRequest(req) /\ req.headers = sent
    <2> HIDE DEF params, body, sent
    <2> QED
        BY DEF IsRequest, RequestFields
<1>4. FromClient(r, req)
    <2> HIDE DEF req, sent
    <2> QED
        BY <1>2, <1>3 DEF FromClient
<1> QED
    BY <1>1, <1>3, <1>4, Zenon

(* A message to the MCP server keeps the invariant of sessions and         *)
(* connections.                                                            *)
LEMMA CollectMcpStep ==
    ASSUME GateInv, NEW c \in Conns, CollectMcp(c) PROVE GateInv'
<1> DEFINE r == conn[c].r
           sid == SessionOf(r)
           res == handle_message(r.body.rpc, sid)
           n == IF res.kind = "response" THEN used + Cardinality(res.session) ELSE used
<1>1. /\ conn[c].pc = "collect" /\ conn[c].via = "mcp"
      /\ UNCHANGED <<now, published, rotations, begun, ended>>
    BY DEF CollectMcp
<1>2. SessionInv /\ ConnInv /\ used \in Nat
    BY DEF GateInv, SessionInv
<1>3. ConnOK(conn[c], used, published)
    BY <1>2 DEF ConnInv
<1>4. conn[c].headers = HeaderMap(r.raw)
    BY <1>1, <1>3 DEF ConnOK, Admitted
<1>5. Outcome(res, r.body.rpc, sid)
    BY MessageOutcome, Zenon
<1>6. \/ (\E reply : Done(c, r, reply)) /\ UNCHANGED <<sessions, used, last>>
      \/ /\ \/ \E reply : Done(c, r, reply)
            \/ res.kind = "dispatch" /\ Chain(c, res.op, ToolRequest(Operations[res.op], res.parts, conn[c].headers))
         /\ sessions' = res.table /\ used' = n /\ last' = LastAfter(res.table, n)
    <2>1. res.kind \in {"none", "response", "dispatch"}
        <3> HIDE DEF res
        <3> QED
            BY <1>5 DEF Outcome
    <2> DEFINE act == CASE res.kind = "none" -> Done(c, r, Reply(204, NoHeaders, {}))
                        [] res.kind = "response" -> Done(c, r, Reply(200, NoHeaders, {McpLabel}))
                        [] res.kind = "dispatch" ->
                              Chain(c, res.op, ToolRequest(Operations[res.op], res.parts, conn[c].headers))
    <2>2. \/ (\E reply : Done(c, r, reply)) /\ UNCHANGED <<sessions, used, last>>
          \/ act /\ sessions' = res.table /\ used' = n /\ last' = LastAfter(res.table, used')
        BY Zenon DEF CollectMcp, LastAfter
    <2>3. act => \/ \E reply : Done(c, r, reply)
                 \/ /\ res.kind = "dispatch"
                    /\ Chain(c, res.op, ToolRequest(Operations[res.op], res.parts, conn[c].headers))
        <3> HIDE DEF res, r
        <3> QED
            BY <2>1
    <2> HIDE DEF res, r, act, n
    <2> QED
        BY <2>2, <2>3, Zenon
<1>7. FollowsTable(res.table, n)
    <2> HIDE DEF res, sid
    <2>1. CASE res.kind = "response" /\ res.session = create.id /\ res.table = create.table
        <3>1. create.id = {} \/ create.id = {used + 1}
            BY <1>2, CreateFollows
        <3>2. Cardinality(create.id) = IF create.id = {} THEN 0 ELSE 1
            BY <3>1, FS_EmptySet, FS_Singleton
        <3>3. n = IF create.id = {} THEN used ELSE used + 1
            BY <1>2, <2>1, <3>2
        <3> QED
            BY <1>2, <2>1, <3>3, CreateFollows
    <2>2. CASE /\ res.kind = "response" => res.session = {}
               /\ res.table = sessions \/ (The(sid) \in DOMAIN sessions /\ res.table = touch(The(sid)))
        <3>1. n = used
            BY <1>2, <2>2, FS_EmptySet
        <3> QED
            BY <1>2, <2>2, <3>1, TouchFollows, SameFollows
    <2> QED
        BY <1>5, <2>1, <2>2 DEF Outcome
<1>8. SessionInv'
    <2> HIDE DEF res, n, r
    <2>1. CASE UNCHANGED <<sessions, used, last>>
        BY <1>1, <1>2, <2>1 DEF SessionInv
    <2>2. CASE sessions' = res.table /\ used' = n /\ last' = LastAfter(res.table, n)
        BY <1>1, <1>2, <1>7, <2>2, TableStep
    <2> QED
        BY <1>6, <2>1, <2>2
<1>9. used' \in Nat /\ used <= used'
    <2> HIDE DEF res, n, r
    <2> QED
        BY <1>2, <1>6, <1>7 DEF FollowsTable
<1>10. ConnInv'
    <2>1. CASE \E reply : Done(c, r, reply)
        <3> HIDE DEF r
        <3> QED
            BY <1>1, <1>2, <1>9, <2>1, DoneStep
    <2>2. CASE res.kind = "dispatch" /\ Chain(c, res.op, ToolRequest(Operations[res.op], res.parts, conn[c].headers))
        <3> DEFINE req == ToolRequest(Operations[res.op], res.parts, conn[c].headers)
        <3>1. IsRequest(req) /\ FromClient(conn[c].r, req)
            BY <1>4, ToolRequestIs, Zenon
        <3>2. /\ res.op \in DOMAIN Operations
              /\ The(conn[c].r.body.rpc).id # {} => sid # {} /\ The(sid) \in DOMAIN sessions
            <4> HIDE DEF res, sid
            <4> QED
                BY <1>5, <2>2 DEF Outcome
        <3>3. The(conn[c].r.body.rpc).id # {} => \E s \in SessionOf(conn[c].r) : s \in 1 .. used'
            <4> SUFFICES ASSUME The(conn[c].r.body.rpc).id # {}
                         PROVE  \E s \in SessionOf(conn[c].r) : s \in 1 .. used'
                OBVIOUS
            <4>1. The(sid) \in SessionOf(conn[c].r)
                BY <3>2 DEF The
            <4>2. The(sid) \in 1 .. used
                BY <1>2, <3>2 DEF SessionInv
            <4> HIDE DEF sid
            <4> QED
                BY <1>2, <1>9, <4>1, <4>2
        <3>4. "http" # "mcp"
            OBVIOUS
        <3> HIDE DEF res, req
        <3> QED
            BY <1>1, <1>2, <1>9, <2>2, <3>1, <3>2, <3>3, <3>4, ChainStep DEF req
    <2> HIDE DEF r, res, n
    <2> QED
        BY <1>6, <2>1, <2>2
<1> QED
    BY <1>8, <1>10 DEF GateInv


-----------------------------------------------------------------------------
(* The steps of a middleware *)

(* A plugin that is not shown the body keeps the request, and it gets its  *)
(* body back.                                                              *)
LEMMA BodyKeeps == ASSUME NEW req, IsRequest(req), NEW b PROVE Keeps(req, [req EXCEPT !.body = b])
<1> DEFINE new == [req EXCEPT !.body = b]
<1>1. new = [f \in RequestFields |-> new[f]] /\ new.query = req.query /\ new.headers = req.headers
    BY DEF IsRequest, RequestFields
<1>2. bearer_token(new) = bearer_token(req)
    BY <1>1 DEF bearer_token, Header, Has
<1> QED
    BY <1>1, <1>2 DEF Keeps

(* The place that was passed is added to those before.                     *)
LEMMA ChainedNext ==
    ASSUME NEW k, NEW new, k.at \in Nat, new.at = k.at + 1, new.op = k.op, NEW plugins, NEW j \in Chained(new, plugins)
    PROVE  /\ j \in Chained(k, plugins) \/ j = k.at
           /\ Operations[k.op].chain[j].plugin \in plugins
BY DEF Chained

(* What is known of the plugin whose turn it is.                           *)
LEMMA CurrentPlugin ==
    ASSUME ConnInv, NEW c \in Conns, InChain(c)
    PROVE  /\ conn[c].pc = "chain" /\ conn[c].at \in Nat \ {0} /\ conn[c].op \in DOMAIN Operations
           /\ conn[c].at \in DOMAIN Operations[conn[c].op].chain
           /\ Current(c) = Operations[conn[c].op].chain[conn[c].at] /\ Current(c).plugin \in Plugins
           /\ ConnOK(conn[c], used, published) /\ IsRequest(conn[c].req) /\ FromClient(conn[c].r, conn[c].req)
<1>1. ConnOK(conn[c], used, published) /\ conn[c].pc = "chain"
    BY DEF ConnInv, InChain
<1>2. conn[c].at \in Nat \ {0} /\ conn[c].op \in DOMAIN Operations /\ IsRequest(conn[c].req)
    BY <1>1 DEF ConnOK, Shape, IsRequest
<1>3. FromClient(conn[c].r, conn[c].req)
    BY <1>1 DEF ConnOK, ClientHeaders, FromClient
<1>4. conn[c].at \in DOMAIN Operations[conn[c].op].chain
    BY <1>2, ArtifactAssumption DEF InChain
<1>5. Current(c) = Operations[conn[c].op].chain[conn[c].at]
    BY DEF Current
<1>6. Current(c).plugin \in Plugins
    BY <1>2, <1>4, <1>5, ArtifactAssumption
<1> QED
    BY <1>1, <1>2, <1>3, <1>4, <1>5, <1>6

(* The next middleware gets the request, if it was kept and what this one  *)
(* asks for was there.                                                     *)
LEMMA NextMiddleware ==
    ASSUME ConnInv, used \in Nat, used' = used, published' = published, NEW c \in Conns, InChain(c), NEW req,
           conn' = [conn EXCEPT ![c].req = req, ![c].at = @ + 1, ![c].inst = FreshInstance],
           Keeps(conn[c].req, req), req.body = conn[c].req.body,
           Asked(Current(c), conn[c].r, req),
           Current(c).plugin = "oidc-auth" =>
               \A n \in bearer_token(conn[c].req) :
                   n \in DOMAIN Tokens => \E key \in conn[c].offered : key.material = Tokens[n].signedBy
    PROVE  ConnInv'
<1> DEFINE k == conn[c]
           new == [k EXCEPT !.req = req, !.at = k.at + 1, !.inst = FreshInstance]
           chain == Operations[k.op].chain
<1>1. conn' = [conn EXCEPT ![c] = new]
    BY Zenon DEF ConnInv
<1>2. /\ k.pc = "chain" /\ k.at \in Nat \ {0} /\ k.op \in DOMAIN Operations /\ k.at \in DOMAIN chain
      /\ Current(c) = chain[k.at] /\ ConnOK(k, used, published)
    BY CurrentPlugin
<1>3. k = [f \in ChainFields |-> k[f]]
    BY <1>2 DEF ConnOK, Shape
<1>4. /\ new = [f \in DOMAIN new |-> new[f]] /\ DOMAIN new = ChainFields
      /\ new.pc = "chain" /\ new.via = k.via /\ new.r = k.r /\ new.offered = k.offered
      /\ new.op = k.op /\ new.req = req /\ new.at = k.at + 1 /\ new.inst = FreshInstance
    <2> HIDE DEF k
    <2> QED
        BY <1>2, <1>3 DEF ChainFields
<1>5. ConnOK(new, used', published)
    <2> HIDE DEF new, k
    <2>1. Shape(new)
        <3>1. new.req = [f \in RequestFields |-> new.req[f]]
            BY <1>4 DEF Keeps
        <3>2. new.inst = [f \in InstanceFields |-> new.inst[f]]
            BY <1>4 DEF FreshInstance, InstanceFields
        <3>3. new.at \in Nat \ {0} /\ new.op \in DOMAIN Operations
            BY <1>2, <1>4
        <3>4. {"pc", "inst"} \subseteq DOMAIN new
            BY <1>4 DEF ChainFields
        <3>5. "chain" \notin {"idle", "done", "collect"}
            OBVIOUS
        <3> QED
            BY <1>4, <3>1, <3>2, <3>3, <3>4, <3>5, Zenon DEF Shape
    <2>2. Admitted(new) /\ InSession(new, used')
        BY <1>2, <1>4 DEF Admitted, InSession, ConnOK, k
    <2>3. ClientHeaders(new)
        <3>1. \A h \in DOMAIN k.req.headers \ SetByGateway :
                 h \in DOMAIN HeaderMap(k.r.raw) /\ k.req.headers[h] = HeaderMap(k.r.raw)[h]
            BY <1>2 DEF ClientHeaders, ConnOK
        <3>2. \A h \in DOMAIN req.headers \ SetByGateway :
                 h \in DOMAIN k.req.headers /\ req.headers[h] = k.req.headers[h]
            BY DEF Keeps, k
        <3> QED
            BY <1>4, <3>1, <3>2 DEF ClientHeaders
    <2>4. KeysOffered(new, published)
        <3>1. published \subseteq k.offered
            BY <1>2 DEF ConnOK, KeysOffered
        <3>2. new.inst.jwks = {}
            BY <1>4 DEF FreshInstance
        <3> QED
            BY <1>4, <3>1, <3>2 DEF KeysOffered
    <2>5. CredentialKnown(new)
        <3>1. ASSUME NEW j \in Chained(new, Authentication) PROVE Asked(chain[j], k.r, req)
            <4>1. CASE j = k.at
                BY <1>2, <4>1 DEF k
            <4>2. CASE j \in Chained(k, Authentication)
                <5>1. CredentialKnown(k)
                    BY <1>2 DEF ConnOK, Authenticated
                <5>2. Asked(chain[j], k.r, k.req)
                    BY <4>2, <5>1 DEF CredentialKnown, Asked
                <5> QED
                    BY <5>2, AskedStays DEF k
            <4> QED
                BY <1>2, <1>4, <4>1, <4>2, ChainedNext
        <3> QED
            BY <1>4, <3>1 DEF CredentialKnown, Asked
    <2>6. KeyIsOffered(new)
        <3> SUFFICES ASSUME Chained(new, {"oidc-auth"}) # {}, NEW n \in bearer_token(new.req), n \in DOMAIN Tokens
                     PROVE  \E key \in new.offered : key.material = Tokens[n].signedBy
            BY DEF KeyIsOffered
        <3>1. PICK j : j \in Chained(new, {"oidc-auth"})
            OBVIOUS
        <3>2. n \in bearer_token(k.req)
            BY <1>4 DEF Keeps, k
        <3>3. CASE j = k.at
            <4>1. Current(c).plugin = "oidc-auth"
                BY <1>2, <1>4, <3>1, <3>3, ChainedNext
            <4> QED
                BY <1>4, <3>2, <4>1 DEF k
        <3>4. CASE j \in Chained(k, {"oidc-auth"})
            BY <1>2, <1>4, <3>2, <3>4 DEF ConnOK, Authenticated, KeyIsOffered
        <3> QED
            BY <1>2, <1>4, <3>1, <3>3, <3>4, ChainedNext
    <2> QED
        BY <2>1, <2>2, <2>3, <2>4, <2>5, <2>6 DEF ConnOK, Authenticated
<1>6. used' \in Nat /\ used <= used'
    OBVIOUS
<1> HIDE DEF new
<1> QED
    BY <1>1, <1>5, <1>6, OneConn, Zenon


(* A middleware is done: the next one, or the answer.                      *)
LEMMA PassedStep ==
    ASSUME ConnInv, used \in Nat, used' = used, published' = published, NEW c \in Conns, InChain(c),
           NEW res, Passed(c, res),
           res.go => /\ Keeps(conn[c].req, res.req) /\ Asked(Current(c), conn[c].r, res.req)
                     /\ Current(c).plugin = "oidc-auth" =>
                           \A n \in bearer_token(conn[c].req) :
                               n \in DOMAIN Tokens => \E key \in conn[c].offered : key.material = Tokens[n].signedBy
    PROVE  ConnInv'
<1> DEFINE req == [res.req EXCEPT !.body = conn[c].req.body]
<1>1. CASE res.go
    <2>1. conn' = [conn EXCEPT ![c].req = req, ![c].at = @ + 1, ![c].inst = FreshInstance]
        BY <1>1, Zenon DEF Passed, NewInstance
    <2>2. IsRequest(res.req)
        BY <1>1, KeepsIsRequest
    <2>3. Keeps(res.req, req)
        BY <2>2, BodyKeeps, Zenon
    <2>4. req.body = conn[c].req.body
        BY <2>2 DEF IsRequest, RequestFields
    <2>5. Keeps(conn[c].req, req)
        <3> HIDE DEF req
        <3> QED
            BY <1>1, <2>3, KeepsTrans
    <2>6. Asked(Current(c), conn[c].r, req)
        <3> HIDE DEF req
        <3> QED
            BY <1>1, <2>3, AskedStays
    <2> HIDE DEF req
    <2> QED
        BY <1>1, <2>1, <2>4, <2>5, <2>6, NextMiddleware
<1>2. CASE ~res.go
    <2>1. \E status, headers : Answered(c, status, headers)
        BY <1>2, Zenon DEF Passed
    <2> QED
        BY <2>1, AnsweredStep
<1> QED
    BY <1>1, <1>2

(* A plugin that runs leaves its proof behind, or answers.                 *)
LEMMA MiddlewareStep ==
    ASSUME ConnInv, used \in Nat, NEW c \in Conns, Middleware(c) PROVE ConnInv'
<1> DEFINE cfg == Current(c)
           shown == Shown(conn[c].req, cfg.plugin)
<1>1. /\ InChain(c) /\ cfg.plugin # "oidc-auth" /\ used' = used /\ published' = published
      /\ \E res \in on_request(cfg, shown) : Passed(c, res)
    BY DEF Middleware, mcpVars
<1>2. PICK res \in on_request(cfg, shown) : Passed(c, res)
    BY <1>1
<1>3. cfg.plugin \in Plugins \ {"oidc-auth"} /\ IsRequest(conn[c].req) /\ FromClient(conn[c].r, conn[c].req)
    BY <1>1, CurrentPlugin
<1>4. Keeps(conn[c].req, shown)
    BY <1>3, BodyKeeps, KeepsRefl, Zenon DEF Shown
<1> HIDE DEF cfg, shown
<1>5. IsRequest(shown) /\ FromClient(conn[c].r, shown)
    BY <1>3, <1>4, KeepsIsRequest DEF FromClient, Keeps
<1>6. res.go => Keeps(conn[c].req, res.req) /\ Keeps(shown, res.req)
    BY <1>2, <1>3, <1>4, <1>5, MiddlewareKeeps, KeepsTrans DEF LetsPass
<1>7. res.go => Asked(cfg, conn[c].r, res.req)
    BY <1>2, <1>3, <1>5, <1>6, MiddlewareAsked, AskedStays
<1> QED
    BY <1>1, <1>2, <1>6, <1>7, PassedStep DEF cfg

(* A plugin that traps ends the request.                                   *)
LEMMA MiddlewareFailsStep ==
    ASSUME ConnInv, used \in Nat, NEW c \in Conns, MiddlewareFails(c) PROVE ConnInv'
<1>1. used' = used /\ published' = published /\ Answered(c, dev_error_response.status, NoHeaders)
    BY DEF MiddlewareFails, mcpVars
<1> QED
    BY <1>1, AnsweredStep

(* The dispatcher ends the request.                                        *)
LEMMA DispatchStep ==
    ASSUME ConnInv, used \in Nat, NEW c \in Conns, dispatch(c) PROVE ConnInv'
<1>1. used' = used /\ published' = published /\ \E status, headers : Answered(c, status, headers)
    BY Zenon DEF dispatch, mcpVars
<1> QED
    BY <1>1, AnsweredStep

(* oidc-auth without keys ends the request.                                *)
LEMMA OidcRefused ==
    ASSUME ConnInv, used \in Nat, used' = used, published' = published, NEW c \in Conns, InChain(c),
           Passed(c, oidc_error_response(FALSE))
    PROVE  ConnInv'
<1>1. oidc_error_response(FALSE).go = FALSE
    BY DEF oidc_error_response, ShortCircuit
<1> QED
    BY <1>1, PassedStep

(* oidc-auth has fetched the keys that are published now.                  *)
LEMMA OidcFetchStep ==
    ASSUME ConnInv, used \in Nat, NEW c \in Conns, OidcFetch(c) PROVE ConnInv'
<1> DEFINE k == conn[c]
           cfg == Current(c)
<1>1. /\ InChain(c) /\ cfg.plugin = "oidc-auth" /\ k.inst.jwks = {} /\ used' = used /\ published' = published
    BY DEF OidcFetch, mcpVars
<1>2. \/ Passed(c, oidc_error_response(FALSE))
      \/ /\ OidcToken(cfg, k.req) # {}
         /\ \E doc : \E keys \in {{}, {published}} :
               conn' = [conn EXCEPT ![c].inst = ensure_jwks(cfg, ensure_discovery(k.inst, doc), keys)]
    BY Zenon DEF OidcFetch
<1>3. CASE Passed(c, oidc_error_response(FALSE))
    BY <1>1, <1>3, OidcRefused
<1>4. ASSUME OidcToken(cfg, k.req) # {}, NEW doc, NEW keys \in {{}, {published}},
             conn' = [conn EXCEPT ![c].inst = ensure_jwks(cfg, ensure_discovery(k.inst, doc), keys)]
      PROVE  ConnInv'
    <2> DEFINE found == ensure_discovery(k.inst, doc)
               inst == ensure_jwks(cfg, found, keys)
               new == [k EXCEPT !.inst = inst]
    <2>1. conn' = [conn EXCEPT ![c] = new]
        BY <1>4, Zenon DEF ConnInv
    <2>2. /\ k.pc = "chain" /\ k.at \in Nat \ {0} /\ k.op \in DOMAIN Operations
          /\ k.at \in DOMAIN Operations[k.op].chain /\ cfg = Operations[k.op].chain[k.at]
          /\ ConnOK(k, used, published)
        BY <1>1, CurrentPlugin
    <2>3. k = [f \in ChainFields |-> k[f]] /\ k.inst = [f \in InstanceFields |-> k.inst[f]]
        BY <2>2 DEF ConnOK, Shape
    <2>4. found = [f \in InstanceFields |-> found[f]] /\ found.jwks = {}
        <3> HIDE DEF k
        <3> QED
            BY <1>1, <2>3 DEF ensure_discovery, InstanceFields
    <2>5. inst = [f \in InstanceFields |-> inst[f]] /\ inst.jwks = {[keys |-> p, at |-> now] : p \in keys}
        <3> HIDE DEF found
        <3>1. ~CacheIsFresh(found, cfg.refresh)
            BY <2>4 DEF CacheIsFresh
        <3> QED
            BY <2>4, <3>1 DEF ensure_jwks, refresh_jwks, InstanceFields
    <2>6. UNION {h.keys : h \in inst.jwks} \subseteq k.offered
        <3>1. published \subseteq k.offered
            BY <2>2 DEF ConnOK, KeysOffered
        <3>2. \A h \in inst.jwks : h.keys = published
            BY <2>5
        <3> HIDE DEF inst, k
        <3> QED
            BY <3>1, <3>2
    <2>7. /\ new = [f \in DOMAIN new |-> new[f]] /\ DOMAIN new = ChainFields
          /\ new.pc = "chain" /\ new.via = k.via /\ new.r = k.r /\ new.offered = k.offered
          /\ new.op = k.op /\ new.req = k.req /\ new.at = k.at /\ new.inst = inst
        <3> HIDE DEF k, inst
        <3> QED
            BY <2>2, <2>3 DEF ChainFields
    <2>8. ConnOK(new, used', published)
        <3> HIDE DEF new, k, inst, cfg
        <3>1. Shape(new)
            BY <2>2, <2>5, <2>7 DEF ConnOK, Shape, ChainFields
        <3>2. Admitted(new) /\ InSession(new, used') /\ ClientHeaders(new)
            BY <1>1, <2>2, <2>7 DEF Admitted, InSession, ClientHeaders, ConnOK
        <3>3. KeysOffered(new, published)
            BY <1>4, <2>2, <2>6, <2>7 DEF KeysOffered, ConnOK
        <3>4. \A plugins : Chained(new, plugins) = Chained(k, plugins)
            BY <2>7 DEF Chained
        <3>5. Authenticated(new)
            BY <2>2, <2>7, <3>4 DEF Authenticated, CredentialKnown, KeyIsOffered, ConnOK
        <3> QED
            BY <3>1, <3>2, <3>3, <3>5 DEF ConnOK
    <2>9. used' \in Nat /\ used <= used'
        BY <1>1
    <2> HIDE DEF new
    <2> QED
        BY <1>1, <2>1, <2>8, <2>9, OneConn, Zenon
<1> QED
    BY <1>2, <1>3, <1>4

(* oidc-auth passes a token only with a key the instance holds.            *)
LEMMA OidcVerifyStep ==
    ASSUME ConnInv, used \in Nat, NEW c \in Conns, OidcVerify(c) PROVE ConnInv'
<1> DEFINE k == conn[c]
           cfg == Current(c)
           t == The(OidcToken(cfg, k.req))
           kept(keys) == IF find_key(k.inst, t) = {} THEN refresh_jwks_on_miss(k.inst, keys) ELSE k.inst
<1>1. InChain(c) /\ cfg.plugin = "oidc-auth" /\ k.inst.jwks # {} /\ used' = used /\ published' = published
    BY DEF OidcVerify, mcpVars
<1>2. PICK keys \in {{}, {published}} :
          Passed(c, IF kept(keys).jwks = {} THEN oidc_error_response(FALSE) ELSE oidc_auth(cfg, k.req, kept(keys)))
    BY Zenon DEF OidcVerify
<1> DEFINE inst == kept(keys)
<1>3. /\ k.pc = "chain" /\ cfg = Operations[k.op].chain[k.at] /\ ConnOK(k, used, published) /\ IsRequest(k.req)
    BY <1>1, CurrentPlugin
<1>4. OidcToken(cfg, k.req) # {}
    BY <1>1, <1>3 DEF ConnOK, KeysOffered
<1>5. UNION {h.keys : h \in inst.jwks} \subseteq k.offered
    <2>1. published \subseteq k.offered /\ UNION {h.keys : h \in k.inst.jwks} \subseteq k.offered
        BY <1>3 DEF ConnOK, KeysOffered
    <2>2. k.inst = [f \in InstanceFields |-> k.inst[f]]
        BY <1>3 DEF ConnOK, Shape
    <2>3. inst = k.inst \/ inst.jwks = {[keys |-> p, at |-> now] : p \in keys}
        <3> HIDE DEF k, t
        <3> QED
            BY <2>2 DEF refresh_jwks_on_miss, refresh_jwks, InstanceFields
    <2>4. \A h \in inst.jwks : h \in k.inst.jwks \/ h.keys = published
        <3> HIDE DEF k, inst
        <3> QED
            BY <2>3
    <2> HIDE DEF k, inst
    <2> QED
        BY <2>1, <2>4
<1>6. CASE Passed(c, oidc_error_response(FALSE))
    BY <1>1, <1>6, OidcRefused
<1>7. CASE Passed(c, oidc_auth(cfg, k.req, inst))
    <2> DEFINE res == oidc_auth(cfg, k.req, inst)
    <2> HIDE DEF inst
    <2>1. res.go => Keeps(k.req, res.req)
        BY <1>3, OidcKeeps DEF LetsPass
    <2>2. Asked(cfg, k.r, res.req)
        BY <1>1 DEF Asked
    <2>3. ASSUME res.go, NEW n \in bearer_token(k.req), n \in DOMAIN Tokens
          PROVE  \E key \in k.offered : key.material = Tokens[n].signedBy
        <3>1. \E key \in UNION {h.keys : h \in inst.jwks} : key.material = Tokens[n].signedBy
            BY <1>4, <2>3, OidcVerified
        <3> QED
            BY <1>5, <3>1
    <2> HIDE DEF res
    <2> QED
        BY <1>1, <1>7, <2>1, <2>2, <2>3, PassedStep DEF res
<1> QED
    BY <1>2, <1>6, <1>7, Zenon


-----------------------------------------------------------------------------
(* The invariant *)

(* New keys are published: every request in the gateway is offered them.   *)
LEMMA RotateStep == ASSUME GateInv, Rotate PROVE GateInv'
<1>1. UNCHANGED <<sessions, now, used, ended, last>>
    BY DEF Rotate, mcpVars
<1>2. conn' = [c \in Conns |-> IF "offered" \in DOMAIN conn[c]
                               THEN [conn[c] EXCEPT !.offered = conn[c].offered \cup published'] ELSE conn[c]]
    BY Zenon DEF Rotate
<1>3. ASSUME NEW c \in Conns PROVE ConnOK(conn'[c], used, published')
    <2> DEFINE k == conn[c]
               new == [k EXCEPT !.offered = k.offered \cup published']
    <2>1. ConnOK(k, used, published)
        BY DEF GateInv, ConnInv
    <2>2. CASE "offered" \notin DOMAIN k
        <3>1. conn'[c] = k
            BY <1>2, <2>2
        <3>2. k.pc \in {"idle", "done"}
            <4> HIDE DEF k
            <4> QED
                BY <2>1, <2>2 DEF ConnOK, Shape, CollectFields, ChainFields
        <3>3. KeysOffered(k, published')
            <4> HIDE DEF k
            <4> QED
                BY <3>2 DEF KeysOffered
        <3> HIDE DEF k
        <3> QED
            BY <2>1, <3>1, <3>3 DEF ConnOK
    <2>3. CASE "offered" \in DOMAIN k
        <3>1. conn'[c] = new
            BY <1>2, <2>3
        <3>2. k = [f \in DOMAIN k |-> k[f]] /\ {"pc", "inst"} \subseteq DOMAIN k /\ k.pc \in {"collect", "chain"}
            <4> HIDE DEF k
            <4> QED
                BY <2>1, <2>3 DEF ConnOK, Shape
        <3>3. /\ new = [f \in DOMAIN new |-> new[f]] /\ DOMAIN new = DOMAIN k
              /\ \A f \in DOMAIN k \ {"offered"} : new[f] = k[f]
              /\ new.offered = k.offered \cup published'
            <4> HIDE DEF k
            <4> QED
                BY <2>3, <3>2
        <3>4. new.pc = k.pc
            BY <3>2, <3>3
        <3> HIDE DEF new, k
        <3>5. CASE k.pc = "collect"
            <4>1. DOMAIN k = CollectFields
                BY <2>1, <3>5 DEF ConnOK, Shape
            <4>2. new.pc = "collect" /\ new.r = k.r /\ new.via = k.via /\ new.inst = k.inst /\ new.headers = k.headers
                BY <3>3, <3>5, <4>1 DEF CollectFields
            <4>3. Shape(new)
                BY <3>3, <4>1, <4>2 DEF Shape, CollectFields
            <4>4. Admitted(new)
                BY <2>1, <3>5, <4>2 DEF Admitted, ConnOK
            <4>5. InSession(new, used) /\ ClientHeaders(new) /\ KeysOffered(new, published') /\ Authenticated(new)
                BY <3>3, <4>2 DEF InSession, ClientHeaders, KeysOffered, Authenticated
            <4> QED
                BY <3>1, <4>3, <4>4, <4>5 DEF ConnOK
        <3>6. CASE k.pc = "chain"
            <4>1. DOMAIN k = ChainFields
                BY <2>1, <3>6 DEF ConnOK, Shape
            <4>2. /\ new.pc = "chain" /\ new.r = k.r /\ new.via = k.via /\ new.inst = k.inst /\ new.req = k.req
                  /\ new.op = k.op /\ new.at = k.at
                BY <3>3, <3>6, <4>1 DEF ChainFields
            <4>3. Shape(new)
                BY <2>1, <3>3, <3>6, <4>1, <4>2 DEF ConnOK, Shape, ChainFields
            <4>4. Admitted(new) /\ InSession(new, used) /\ ClientHeaders(new)
                BY <2>1, <3>6, <4>2 DEF Admitted, InSession, ClientHeaders, ConnOK
            <4>5. KeysOffered(new, published')
                BY <2>1, <3>3, <3>6, <4>2 DEF KeysOffered, ConnOK
            <4>6. \A plugins : Chained(new, plugins) = Chained(k, plugins)
                BY <4>2 DEF Chained
            <4>7. CredentialKnown(new)
                BY <2>1, <3>6, <4>2, <4>6 DEF Authenticated, CredentialKnown, ConnOK
            <4>8. KeyIsOffered(new)
                BY <2>1, <3>3, <3>6, <4>2, <4>6 DEF Authenticated, KeyIsOffered, ConnOK
            <4> QED
                BY <3>1, <4>3, <4>4, <4>5, <4>7, <4>8 DEF ConnOK, Authenticated
        <3> QED
            BY <3>2, <3>5, <3>6
    <2> QED
        BY <2>2, <2>3
<1>4. conn' = [c \in Conns |-> conn'[c]]
    BY <1>2
<1>5. SessionInv'
    BY <1>1 DEF GateInv, SessionInv
<1> QED
    BY <1>1, <1>3, <1>4, <1>5 DEF GateInv, ConnInv

(* At the start there are no sessions and no connections.                  *)
LEMMA GateInit == ASSUME Init PROVE GateInv
<1>1. SessionInv
    <2>1. now = 0 /\ used = 0 /\ DOMAIN sessions = {} /\ DOMAIN last = {}
        BY DEF Init, McpInit
    <2>2. Cardinality({}) = 0
        BY FS_EmptySet
    <2>3. MaxSessions \in Nat
        BY McpAssumption
    <2> QED
        BY <2>1, <2>2, <2>3 DEF SessionInv
<1>2. ConnOK(Idle, used, published)
    <2>1. Idle = [f \in DOMAIN Idle |-> Idle[f]] /\ DOMAIN Idle = {"pc", "inst"} /\ Idle.pc = "idle"
        BY DEF Idle
    <2>2. Shape(Idle)
        BY <2>1 DEF Shape
    <2>3. /\ InSession(Idle, used) /\ Admitted(Idle) /\ ClientHeaders(Idle) /\ KeysOffered(Idle, published)
          /\ Authenticated(Idle)
        BY <2>1 DEF InSession, Admitted, ClientHeaders, KeysOffered, Authenticated
    <2> QED
        BY <2>2, <2>3 DEF ConnOK
<1>3. conn = [c \in Conns |-> Idle]
    BY DEF Init
<1> QED
    BY <1>1, <1>2, <1>3 DEF GateInv, ConnInv

(* Every step of the gateway keeps the invariant.                          *)
LEMMA GateNext == ASSUME GateInv, [Next]_vars PROVE GateInv'
<1>1. SessionInv /\ ConnInv /\ used \in Nat
    BY DEF GateInv, SessionInv
<1>2. ASSUME UNCHANGED <<mcpVars, ended, last>> PROVE SessionInv'
    BY <1>1, <1>2 DEF SessionInv, mcpVars
<1>3. ASSUME UNCHANGED <<conn, published, used>> PROVE ConnInv'
    BY <1>1, <1>3 DEF ConnInv
<1>4. ASSUME NEW c \in Conns, NEW n \in DOMAIN Requests, Receive(c, n) PROVE GateInv'
    BY <1>1, <1>2, <1>4, ReceiveStep DEF GateInv, Receive
<1>5. ASSUME NEW c \in Conns, NEW n \in DOMAIN Requests, ReceiveMcp(c, n) PROVE GateInv'
    BY <1>1, <1>5, ReceiveMcpStep, RemoveStep DEF GateInv
<1>6. ASSUME NEW c \in Conns, Collect(c) PROVE GateInv'
    BY <1>1, <1>2, <1>6, CollectStep DEF GateInv, Collect
<1>7. ASSUME NEW c \in Conns, CollectMcp(c) PROVE GateInv'
    BY <1>7, CollectMcpStep
<1>8. ASSUME NEW c \in Conns, Middleware(c) PROVE GateInv'
    BY <1>1, <1>2, <1>8, MiddlewareStep DEF GateInv, Middleware
<1>9. ASSUME NEW c \in Conns, MiddlewareFails(c) PROVE GateInv'
    BY <1>1, <1>2, <1>9, MiddlewareFailsStep DEF GateInv, MiddlewareFails
<1>10. ASSUME NEW c \in Conns, OidcFetch(c) PROVE GateInv'
    BY <1>1, <1>2, <1>10, OidcFetchStep DEF GateInv, OidcFetch
<1>11. ASSUME NEW c \in Conns, OidcVerify(c) PROVE GateInv'
    BY <1>1, <1>2, <1>11, OidcVerifyStep DEF GateInv, OidcVerify
<1>12. ASSUME NEW c \in Conns, dispatch(c) PROVE GateInv'
    BY <1>1, <1>2, <1>12, DispatchStep DEF GateInv, dispatch
<1>13. ASSUME Tick \/ evict_expired, UNCHANGED gateVars PROVE GateInv'
    BY <1>1, <1>3, <1>13, TickStep, EvictStep DEF GateInv, gateVars, Tick, evict_expired
<1>14. ASSUME Rotate PROVE GateInv'
    BY <1>14, RotateStep
<1>15. ASSUME UNCHANGED vars PROVE GateInv'
    BY <1>2, <1>3, <1>15 DEF GateInv, vars, gateVars, mcpVars
<1> QED
    BY <1>4, <1>5, <1>6, <1>7, <1>8, <1>9, <1>10, <1>11, <1>12, <1>13, <1>14, <1>15 DEF Next

(* The invariant of the request path holds in every behaviour: the table   *)
(* of sessions agrees with what was created, used and ended, and every     *)
(* connection has what its place in the gateway requires.                  *)
THEOREM GateInvHolds == Spec => []GateInv
<1>1. Init => GateInv
    BY GateInit
<1>2. GateInv /\ [Next]_vars => GateInv'
    BY GateNext
<1> QED
    BY <1>1, <1>2, PTL DEF Spec

(* A session that was created or used less than the TTL ago and was not    *)
(* ended is in the table, which never exceeds its cap, and a tool call     *)
(* with an id runs only in a session that was created (session.rs,         *)
(* handle_mcp_endpoint), for any number of sessions and connections.       *)
THEOREM SessionsAreKept == Spec => []SessionContract
<1>1. ASSUME GateInv PROVE SessionContract
    <2>1. \A c \in Conns : InSession(conn[c], used)
        BY <1>1 DEF GateInv, ConnInv, ConnOK
    <2>2. SessionInv
        BY <1>1 DEF GateInv
    <2> QED
        BY <2>1, <2>2 DEF SessionInv, SessionContract, InSession, InGateway
<1> QED
    BY <1>1, GateInvHolds, PTL

(* No request passes an authentication plugin without a credential that    *)
(* its configuration knows, sent by the client itself, and no token passes *)
(* oidc-auth with a key that was withdrawn before the request began: for   *)
(* any chain of plugins, any configurations, credentials and tokens.       *)
THEOREM AuthenticationIsSound == Spec => [](CredentialIsKnown /\ NoStaleKey)
<1>1. ASSUME GateInv PROVE CredentialIsKnown /\ NoStaleKey
    BY <1>1 DEF GateInv, ConnInv, ConnOK, Authenticated, CredentialIsKnown, NoStaleKey, InGateway
<1> QED
    BY <1>1, GateInvHolds, PTL


-----------------------------------------------------------------------------
(* What validation establishes *)

(* The groups are looked at in turn, and the last has no errors only if    *)
(* none before has.                                                        *)
LEMMA NoGroupFails ==
    ASSUME NEW v, NEW params, NEW query, NEW headers, NEW type, NEW body,
           validate_request(v, params, query, headers, type, body) = {}
    PROVE  /\ validate_path_params(v, params) = {} /\ validate_query_params(v, query) = {}
           /\ validate_headers(v, headers) = {} /\ validate_body(v, type, body) = {}
<1>1. \A errors, more : Unless(errors, more) = {} => errors = {} /\ more = {}
    BY DEF Unless
<1> QED
    BY <1>1 DEF validate_request

(* Parameters in which no error was found.                                 *)
LEMMA ParamsAccepted ==
    ASSUME NEW params, NEW location, NEW values, validate_params(ParamsIn(params, location), values) = {},
           NEW i \in DOMAIN params, params[i].location = location
    PROVE  /\ params[i].required \/ location = "path" => params[i].name \in DOMAIN values
           /\ params[i].name \in DOMAIN values => Conforming(params[i].schema, Json("string", values[params[i].name]))
<1> DEFINE own == ParamsIn(params, location)
           p == own[i]
           errors == IF p.name \notin DOMAIN values
                     THEN IF p.required THEN {[error |-> "missing", name |-> p.name]} ELSE {}
                     ELSE {[error |-> "invalid", name |-> p.name] :
                              s \in {s \in p.schema : Json("string", values[p.name]) \notin s.accepts}}
<1>1. i \in DOMAIN own /\ p = CompiledParam(params[i])
    BY DEF ParamsIn
<1>2. /\ p.name = params[i].name /\ p.schema = {s \in params[i].schema : s.wellFormed}
      /\ p.required = (params[i].required \/ location = "path")
    BY <1>1 DEF CompiledParam, compile_schema_with_formats
<1> HIDE DEF own
<1>3. errors = {}
    <2>1. errors \subseteq validate_params(own, values)
        BY <1>1 DEF validate_params
    <2> QED
        BY <2>1 DEF own
<1> HIDE DEF p
<1> QED
    BY <1>2, <1>3 DEF Conforming

(* The last position is the only one.                                      *)
LEMMA LastIs ==
    ASSUME NEW S, S \subseteq Nat, NEW i \in S, \A j \in S : j <= i PROVE The(LastPosition(S)) = i
<1>1. \A j \in LastPosition(S) : j \in S /\ i <= j
    BY DEF LastPosition
<1>2. ASSUME NEW j \in LastPosition(S) PROVE j = i
    <2>1. j \in Nat /\ i \in Nat
        BY <1>1
    <2>2. i <= j /\ j <= i
        BY <1>1
    <2> QED
        BY <2>1, <2>2
<1>3. i \in LastPosition(S)
    BY DEF LastPosition
<1> QED
    BY <1>2, <1>3 DEF The

(* Of pairs with one name the last counts.                                 *)
LEMMA LastCounts ==
    ASSUME NEW pairs, DOMAIN pairs \subseteq Nat, NEW n
    PROVE  /\ n \in DOMAIN LastOf(pairs) <=> \E i \in DOMAIN pairs : pairs[i].name = n
           /\ \A i \in DOMAIN pairs :
                 /\ pairs[i].name = n
                 /\ \A j \in DOMAIN pairs : pairs[j].name = n => j <= i
                 => LastOf(pairs)[n] = pairs[i].value
<1> DEFINE own == {i \in DOMAIN pairs : pairs[i].name = n}
<1>1. n \in DOMAIN LastOf(pairs) <=> \E i \in DOMAIN pairs : pairs[i].name = n
    BY DEF LastOf
<1>2. ASSUME NEW i \in own, \A j \in own : j <= i PROVE LastOf(pairs)[n] = pairs[i].value
    <2>1. The(LastPosition(own)) = i
        BY <1>2, LastIs
    <2>2. n \in {pairs[j].name : j \in DOMAIN pairs}
        OBVIOUS
    <2>3. LastOf(pairs)[n] = pairs[The(LastPosition(own))].value
        BY <2>2 DEF LastOf
    <2> QED
        BY <2>1, <2>3
<1> QED
    BY <1>1, <1>2

(* A parameter of the path: captures, decoded.                             *)
LEMMA PathConforms ==
    ASSUME NEW r, HeadIsListed(r), NEW params, NEW i \in DOMAIN params, params[i].location = "path",
           validate_params(ParamsIn(params, "path"), LastOf(Captured(r))) = {}
    PROVE  ParamConforms(r, params[i])
<1> DEFINE p == params[i]
           pairs == Captured(r)
<1>1. DOMAIN pairs = DOMAIN r.captures /\ DOMAIN pairs \subseteq Nat
    BY DEF Captured, HeadIsListed
<1>2. \A j \in DOMAIN pairs : pairs[j].name = r.captures[j].name /\ pairs[j].value = percent_decode(r.captures[j].value)
    BY DEF Captured, HeadIsListed
<1>3. Given(r, p) = {j \in DOMAIN pairs : pairs[j].name = p.name}
    BY <1>1, <1>2 DEF Given
<1>4. \A j \in DOMAIN pairs : GivenValue(r, p, j) = pairs[j].value
    BY <1>2 DEF GivenValue
<1>5. /\ p.name \in DOMAIN LastOf(pairs)
      /\ Conforming(p.schema, Json("string", LastOf(pairs)[p.name]))
    BY ParamsAccepted
<1> HIDE DEF pairs, p
<1>6. Given(r, p) # {}
    BY <1>1, <1>3, <1>5, LastCounts
<1>7. ASSUME NEW j \in Given(r, p), \A l \in Given(r, p) : l <= j
      PROVE  Conforming(p.schema, Json("string", GivenValue(r, p, j)))
    <2>1. LastOf(pairs)[p.name] = pairs[j].value
        BY <1>1, <1>3, <1>7, LastCounts
    <2> QED
        BY <1>3, <1>4, <1>5, <2>1
<1>8. p.location # "query"
    BY DEF p
<1> QED
    BY <1>6, <1>7, <1>8 DEF ParamConforms, p

(* A parameter of the query: at most one pair has its name, once decoded.  *)
LEMMA QueryConforms ==
    ASSUME NEW r, HeadIsListed(r), NEW params, NEW i \in DOMAIN params, params[i].location = "query",
           NEW v, v.query = ParamsIn(params, "query"), validate_query_params(v, r.query) = {}
    PROVE  ParamConforms(r, params[i])
<1> DEFINE p == params[i]
           pairs == Decoded(r.query)
           times(n) == Cardinality({j \in DOMAIN pairs : pairs[j].name = n})
           repeated == {j \in DOMAIN v.query : times(v.query[j].name) > 1}
<1>1. DOMAIN pairs = DOMAIN r.query /\ DOMAIN pairs \subseteq Nat /\ IsFiniteSet(DOMAIN pairs)
    <2>1. DOMAIN r.query = 1 .. Len(r.query) /\ Len(r.query) \in Nat
        BY DEF HeadIsListed
    <2>2. \A n \in Nat : IsFiniteSet(1 .. n)
        BY FS_Interval
    <2>3. DOMAIN pairs = DOMAIN r.query
        BY DEF Decoded
    <2> HIDE DEF pairs
    <2> QED
        BY <2>1, <2>2, <2>3
<1>2. \A j \in DOMAIN pairs : /\ pairs[j].name = percent_decode(r.query[j].name)
                              /\ pairs[j].value = percent_decode(r.query[j].value)
    BY DEF Decoded
<1>3. Given(r, p) = {j \in DOMAIN pairs : pairs[j].name = p.name}
    BY <1>1, <1>2 DEF Given
<1>4. \A j \in DOMAIN pairs : GivenValue(r, p, j) = pairs[j].value
    BY <1>2 DEF GivenValue
<1>5. repeated = {} /\ validate_params(v.query, LastOf(pairs)) = {}
    <2>1. validate_query_params(v, r.query) =
            IF repeated # {} THEN {[error |-> "repeated", name |-> v.query[j].name] : j \in repeated}
            ELSE validate_params(v.query, LastOf(pairs))
        BY Zenon DEF validate_query_params
    <2> HIDE DEF repeated, pairs
    <2> QED
        BY <2>1
<1>6. /\ p.required => p.name \in DOMAIN LastOf(pairs)
      /\ p.name \in DOMAIN LastOf(pairs) => Conforming(p.schema, Json("string", LastOf(pairs)[p.name]))
    <2> HIDE DEF pairs
    <2> QED
        BY <1>5, ParamsAccepted
<1>7. i \in DOMAIN v.query /\ v.query[i].name = p.name
    BY DEF ParamsIn, CompiledParam
<1>8. Cardinality(Given(r, p)) <= 1
    <2>1. ~(times(p.name) > 1)
        BY <1>5, <1>7
    <2>2. Cardinality(Given(r, p)) = times(p.name)
        BY <1>3
    <2>3. Cardinality(Given(r, p)) \in Nat
        <3>1. Given(r, p) \subseteq DOMAIN pairs
            BY <1>3
        <3> QED
            BY <1>1, <3>1, FS_Subset, FS_CardinalityType
    <2> HIDE DEF times
    <2> QED
        BY <2>1, <2>2, <2>3
<1> HIDE DEF pairs, p
<1>9. p.required => Given(r, p) # {}
    BY <1>1, <1>3, <1>6, LastCounts
<1>10. ASSUME NEW j \in Given(r, p), \A l \in Given(r, p) : l <= j
       PROVE  Conforming(p.schema, Json("string", GivenValue(r, p, j)))
    <2>1. LastOf(pairs)[p.name] = pairs[j].value /\ p.name \in DOMAIN LastOf(pairs)
        BY <1>1, <1>3, <1>10, LastCounts
    <2> QED
        BY <1>3, <1>4, <1>6, <2>1
<1>11. p.location # "path"
    BY DEF p
<1> QED
    BY <1>8, <1>9, <1>10, <1>11 DEF ParamConforms, p


(* A parameter of the headers: the last one of its name that is legible.   *)
LEMMA HeaderConforms ==
    ASSUME NEW r, HeadIsListed(r), NEW params, NEW i \in DOMAIN params, params[i].location = "header",
           NEW v, v.header = ParamsIn(params, "header"), validate_headers(v, HeaderMap(r.raw)) = {}
    PROVE  ParamConforms(r, params[i])
<1> DEFINE p == params[i]
           headers == HeaderMap(r.raw)
           values == [n \in {<<h>> : h \in DOMAIN headers} |-> headers[n[1]]]
           legible == {j \in DOMAIN r.raw : r.raw[j].legible}
           pairs == [j \in legible |-> r.raw[j]]
<1>1. headers = LastOf(pairs)
    BY Zenon DEF HeaderMap
<1>2. DOMAIN pairs \subseteq Nat /\ \A j \in DOMAIN pairs : pairs[j] = r.raw[j]
    BY DEF HeadIsListed
<1>3. Given(r, p) = {j \in DOMAIN pairs : <<pairs[j].name>> = p.name}
    BY DEF Given
<1>4. \A j \in DOMAIN pairs : GivenValue(r, p, j) = pairs[j].value
    BY DEF GivenValue
<1>5. /\ p.required => p.name \in DOMAIN values
      /\ p.name \in DOMAIN values => Conforming(p.schema, Json("string", values[p.name]))
    <2>1. validate_params(ParamsIn(params, "header"), values) = {}
        BY Zenon DEF validate_headers
    <2> HIDE DEF values
    <2> QED
        BY <2>1, ParamsAccepted
<1>6. \A a, b : <<a>> = <<b>> => a = b
    OBVIOUS
<1>7. \A h \in DOMAIN headers : <<h>> \in DOMAIN values /\ values[<<h>>] = headers[h]
    <2> HIDE DEF headers
    <2> QED
        OBVIOUS
<1>8. \A n \in DOMAIN values : \E h \in DOMAIN headers : n = <<h>>
    OBVIOUS
<1> HIDE DEF pairs, p, headers, values
<1>9. p.required => Given(r, p) # {}
    BY <1>1, <1>2, <1>3, <1>5, <1>8, LastCounts
<1>10. ASSUME NEW j \in Given(r, p), \A l \in Given(r, p) : l <= j
       PROVE  Conforming(p.schema, Json("string", GivenValue(r, p, j)))
    <2> DEFINE h == pairs[j].name
    <2>1. j \in DOMAIN pairs /\ p.name = <<h>> /\ \A l \in DOMAIN pairs : pairs[l].name = h => l <= j
        BY <1>3, <1>10
    <2>2. h \in DOMAIN headers /\ headers[h] = pairs[j].value
        BY <1>1, <1>2, <2>1, LastCounts
    <2>3. p.name \in DOMAIN values /\ values[p.name] = pairs[j].value
        BY <1>7, <2>1, <2>2
    <2> QED
        BY <1>4, <1>5, <2>1, <2>3
<1>11. p.location # "path" /\ p.location # "query"
    BY DEF p
<1> QED
    BY <1>9, <1>10, <1>11 DEF ParamConforms, p

(* The body, against one description of it.                                *)
LEMMA BodyIsAccepted ==
    ASSUME NEW r, NEW params, NEW bodies, NEW b \in bodies, NEW body,
           validate_body(OperationValidator(params, bodies), ContentType(HeaderMap(r.raw)), body) = {}
    PROVE  BodyConforms(r, b, body)
<1> DEFINE v == OperationValidator(params, bodies)
           spec == [required |-> b.required,
                    content |-> [t \in DOMAIN b.content |-> compile_schema_with_formats(b.content[t])]]
           base == MediaType(r)
           found == {t \in {base, "*/*"} : t \in DOMAIN spec.content}
           media == IF base \in found THEN base ELSE "*/*"
           refusing == {s \in spec.content[media] : base \in JsonTypes /\ ~\E value \in body.json : BodyAccepts(s, value)}
           errors == IF body.size = 0 THEN IF spec.required THEN {[error |-> "no body", name |-> <<>>]} ELSE {}
                     ELSE IF found = {} THEN {[error |-> "content type", name |-> <<>>]}
                     ELSE {[error |-> "body", name |-> <<>>] : s \in refusing}
<1>1. spec \in v.body
    BY DEF OperationValidator
<1>2. errors = {}
    <2>1. errors \subseteq validate_body(v, ContentType(HeaderMap(r.raw)), body)
        <3> HIDE DEF v, spec
        <3> QED
            BY <1>1, Zenon DEF validate_body, MediaType
    <2> HIDE DEF errors
    <2> QED
        BY <2>1
<1>3. /\ spec.required = b.required /\ DOMAIN spec.content = DOMAIN b.content
      /\ \A t \in DOMAIN b.content : spec.content[t] = {s \in b.content[t] : s.wellFormed}
    BY DEF compile_schema_with_formats
<1> HIDE DEF spec, base
<1>4. b.required => body.size # 0
    BY <1>2, <1>3
<1>5. body.size # 0 => found # {} /\ refusing = {}
    <2> HIDE DEF found, refusing
    <2> QED
        BY <1>2
<1>6. body.size # 0 => \E type \in {base, "*/*"} : type \in DOMAIN b.content
    BY <1>3, <1>5
<1>7. ASSUME body.size # 0, base \in JsonTypes \cap DOMAIN b.content, NEW s \in b.content[base], s.wellFormed
      PROVE  \E value \in body.json : BodyAccepts(s, value)
    <2>1. media = base
        BY <1>3, <1>7
    <2>2. s \in spec.content[media]
        BY <1>3, <1>7, <2>1
    <2> HIDE DEF media
    <2> QED
        BY <1>5, <1>7, <2>2
<1>8. ASSUME NEW s, NEW value, BodyAccepts(s, value), s.props # {}
      PROVE  /\ s.required \subseteq DOMAIN value.fields
             /\ \A props \in s.props : \A n \in DOMAIN props \cap DOMAIN value.fields :
                   value.fields[n] \in props[n].accepts
    BY <1>8 DEF BodyAccepts
<1> QED
    BY <1>4, <1>6, <1>7, <1>8 DEF BodyConforms, base

(* What reaches the middlewares, and with them the dispatcher, is within   *)
(* every limit and conforms to its operation (handle_request and           *)
(* validate_request), for any operations, schemas, limits and requests.    *)
THEOREM OnlyConformingAdmitted == Spec => []AdmittedConforms
<1>1. ASSUME GateInv, NEW c \in Conns, InGateway(c), conn[c].via = "http"
      PROVE  LET r == conn[c].r
                 op == Operations[conn[c].op]
                 body == conn[c].req.body
             IN /\ WithinLimits(r) /\ body.size <= Limits.body
                /\ \A i \in DOMAIN op.params :
                      op.params[i].location \in {"path", "query", "header"} => ParamConforms(r, op.params[i])
                /\ \A b \in op.body : BodyConforms(r, b, body)
    <2> DEFINE r == conn[c].r
               op == Operations[conn[c].op]
               body == conn[c].req.body
               v == OperationValidator(op.params, op.body)
               headers == HeaderMap(r.raw)
    <2>1. /\ HeadIsListed(r) /\ WithinLimits(r) /\ body.size <= Limits.body
          /\ Validated(op, Captured(r), r.query, headers, body) = {}
        BY <1>1 DEF GateInv, ConnInv, ConnOK, Admitted, InGateway
    <2>2. validate_request(v, Captured(r), r.query, headers, ContentType(headers), body) = {}
        BY <2>1 DEF Validated
    <2>3. /\ v.path = ParamsIn(op.params, "path") /\ v.query = ParamsIn(op.params, "query")
          /\ v.header = ParamsIn(op.params, "header")
        BY DEF OperationValidator
    <2>4. \A b \in op.body : validate_body(v, ContentType(headers), body) = {} => BodyConforms(r, b, body)
        <3> HIDE DEF r, op, body
        <3> QED
            BY BodyIsAccepted
    <2> HIDE DEF r, op, body, v, headers
    <2>5. /\ validate_path_params(v, Captured(r)) = {} /\ validate_query_params(v, r.query) = {}
          /\ validate_headers(v, headers) = {} /\ validate_body(v, ContentType(headers), body) = {}
        BY <2>2, NoGroupFails
    <2>6. ASSUME NEW i \in DOMAIN op.params, op.params[i].location \in {"path", "query", "header"}
          PROVE  ParamConforms(r, op.params[i])
        <3>1. CASE op.params[i].location = "path"
            BY <2>1, <2>3, <2>5, <3>1, PathConforms DEF validate_path_params
        <3>2. CASE op.params[i].location = "query"
            BY <2>1, <2>3, <2>5, <3>2, QueryConforms
        <3>3. CASE op.params[i].location = "header"
            BY <2>1, <2>3, <2>5, <3>3, HeaderConforms DEF headers
        <3> QED
            BY <2>6, <3>1, <3>2, <3>3
    <2> QED
        BY <2>1, <2>4, <2>5, <2>6 DEF r, op, body
<1>2. GateInv => AdmittedConforms
    BY <1>1, Zenon DEF AdmittedConforms
<1> QED
    BY <1>2, GateInvHolds, PTL

=============================================================================
