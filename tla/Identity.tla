------------------------------ MODULE Identity ------------------------------
(***************************************************************************)
(* The middlewares that check a bearer token: jwt-auth against a           *)
(* configured key, oidc-auth against the keys an identity provider         *)
(* publishes, oauth2-auth by asking the provider.                          *)
(*                                                                         *)
(* A token is [parses, alg, kid, signedBy, claims]; claims are [sub, exp,  *)
(* nbf, iss, aud, scope, groups, username].  A key is [kty, kid, alg, use, *)
(* material].  Seconds are counted modulo Wrap, as in the u64 they are     *)
(* kept in.                                                                *)
(***************************************************************************)
EXTENDS Access

CONSTANTS
    Tokens,          \* the tokens, by name
    Issuer,          \* the issuer that the discovery document names
    Wrap,            \* 2^64
    MinRefreshOnMiss \* MIN_REFRESH_ON_MISS_SECS

\* jwt::bearer_token; the token is named by the second unit.
bearer_token(req) ==
    {v[2] : v \in {v \in Header(req, "authorization") : Len(v) > 1 /\ v[1] = "Bearer"}}

\* jwt::split, decode_segment and the JSON of header and claims.
parse_jwt(name) == {t \in {Tokens[n] : n \in {name} \cap DOMAIN Tokens} : t.parses}

Kty(alg) == IF alg \in {"RS256", "RS384", "RS512"} THEN "RSA" ELSE "EC"

\* host_verify_signature: 1 only for a supported algorithm and a good signature.
verify_signature(key, token) ==
    token.alg \in {"RS256", "RS384", "RS512", "ES256", "ES384"} /\ token.signedBy = key.material

key_is_compatible(key, alg) ==
    key.kty = Kty(alg) /\ key.alg \subseteq {alg} /\ key.use \subseteq {"sig"}

ValidTimes(claims, skew) ==
    /\ \A exp \in claims.exp : now <= (exp + skew) % Wrap
    /\ \A nbf \in claims.nbf : (now + skew) % Wrap >= nbf

\* Without a name the request keeps the consumer it came with.
ByClaims(req, who, groups) ==
    IF who # {} THEN Identify(req, <<The(who)>>, groups)
    ELSE IF groups = <<>> THEN req ELSE SetHeader(req, "x-auth-consumer-groups", groups)

check_scopes(claims, required) == required \subseteq Range(OrElse(claims.scope, <<>>))

-----------------------------------------------------------------------------
(* jwt-auth *)

jwt_unauthorized_response == ShortCircuit(401, NoHeaders)

jwt_validate_algorithm(alg) == alg \in {"RS256", "RS384", "RS512", "ES256", "ES384", "ES512"}

jwt_validate_signature(cfg, t) ==
    \E key \in cfg.key : key_is_compatible(key, t.alg) /\ verify_signature(key, t)

jwt_validate_claims(cfg, claims) ==
    /\ ValidTimes(claims, cfg.skew)
    /\ cfg.issuer # {} => claims.iss = cfg.issuer
    /\ cfg.audience \subseteq claims.aud

jwt_auth(cfg, req) ==
    LET parsed == UNION {parse_jwt(n) : n \in bearer_token(req)}
        valid == {t \in parsed : /\ jwt_validate_algorithm(t.alg)
                                 /\ jwt_validate_signature(cfg, t)
                                 /\ jwt_validate_claims(cfg, t.claims)}
    IN IF valid = {} THEN jwt_unauthorized_response
       ELSE LET c == The(valid).claims
            IN Continue(ByClaims(req, c.sub, IF cfg.groupsClaim THEN OrElse(c.groups, <<>>) ELSE <<>>))

-----------------------------------------------------------------------------
(* oidc-auth.  inst is the plugin instance: its discovery document and its *)
(* JWKS cache.                                                             *)

\* 403 if scopes are missing, 401 otherwise.
oidc_error_response(scopes) == ShortCircuit(IF scopes THEN 403 ELSE 401, NoHeaders)

FreshInstance == [discovery |-> {}, jwks |-> {}]

\* With allow_query_token the token may be in the query instead.
oidc_extract_token(cfg, req) ==
    IF Has(req, "authorization") THEN bearer_token(req)
    ELSE IF ~cfg.queryToken THEN {}
    ELSE LET own == SelectSeq(req.query, LAMBDA p : p.name = <<"access_token">> /\ p.value # <<>>)
         IN IF own = <<>> THEN {} ELSE {Head(Head(own).value)}

oidc_validate_algorithm(alg) == alg \in {"RS256", "RS384", "RS512", "ES256", "ES384"}

OidcToken(cfg, req) ==
    {t \in UNION {parse_jwt(n) : n \in oidc_extract_token(cfg, req)} : oidc_validate_algorithm(t.alg)}

\* doc: the issuer, or nothing if the request fails in any way.
ensure_discovery(inst, doc) == IF inst.discovery # {} THEN inst ELSE [inst EXCEPT !.discovery = doc]

\* keys: the published keys, or nothing if the request fails in any way.
refresh_jwks(inst, keys) == [inst EXCEPT !.jwks = {[keys |-> k, at |-> now] : k \in keys}]

CacheIsFresh(inst, seconds) == \E c \in inst.jwks : now - c.at < seconds

ensure_jwks(cfg, inst, keys) ==
    IF CacheIsFresh(inst, cfg.refresh) THEN inst ELSE refresh_jwks(inst, keys)

refresh_jwks_on_miss(inst, keys) ==
    IF CacheIsFresh(inst, MinRefreshOnMiss) THEN inst ELSE refresh_jwks(inst, keys)

\* With a kid the first key of that kid that fits; without, the only one.
find_key(inst, t) ==
    LET fitting == {k \in UNION {c.keys : c \in inst.jwks} : key_is_compatible(k, t.alg)}
    IN IF t.kid # {} THEN {k \in fitting : k.kid = t.kid}
       ELSE IF Cardinality(fitting) = 1 THEN fitting ELSE {}

oidc_validate_claims(cfg, inst, claims) ==
    LET expected == IF cfg.issuer # {} THEN cfg.issuer ELSE inst.discovery
    IN /\ ValidTimes(claims, cfg.skew)
       /\ expected # {} => claims.iss = expected
       /\ cfg.audience \subseteq claims.aud

extract_groups_from_claim(cfg, claims) ==
    IF cfg.groupsClaim THEN OrElse(claims.groups, <<>>) ELSE OrElse(claims.scope, <<>>)

(* What follows once discovery and keys are at hand. *)
oidc_auth(cfg, req, inst) ==
    LET t == The(OidcToken(cfg, req))
        keys == find_key(inst, t)
    IN IF \/ keys = {} \/ ~verify_signature(The(keys), t)
          \/ ~oidc_validate_claims(cfg, inst, t.claims)
       THEN oidc_error_response(FALSE)
       ELSE IF ~check_scopes(t.claims, cfg.scopes) THEN oidc_error_response(TRUE)
       ELSE Continue(ByClaims(req, t.claims.sub, extract_groups_from_claim(cfg, t.claims)))

-----------------------------------------------------------------------------
(* oauth2-auth: the answer is [status, active, claims], or a failure, for  *)
(* which the status is 0.                                                  *)

oauth2_error_response(scopes) == ShortCircuit(IF scopes THEN 403 ELSE 401, NoHeaders)

introspect_token(answer) == {a \in {answer} : a.status = 200}

check_audience(cfg, claims) == cfg.audience \subseteq claims.aud

oauth2_auth(cfg, req, answer) ==
    LET told == {a \in introspect_token(answer) : a.active}
    IN IF bearer_token(req) = {} \/ told = {} THEN oauth2_error_response(FALSE)
       ELSE LET claims == The(told).claims
            IN IF ~check_scopes(claims, cfg.scopes) THEN oauth2_error_response(TRUE)
               ELSE IF ~check_audience(cfg, claims) THEN oauth2_error_response(FALSE)
               ELSE Continue(ByClaims(req, IF claims.sub # {} THEN claims.sub ELSE claims.username,
                                      OrElse(claims.scope, <<>>)))

=============================================================================
