--------------------------- MODULE MCRequestGate ---------------------------
(* A small API for RequestGate: nine operations, requests that race for MCP *)
(* sessions and keys, and requests that are judged on their own.           *)
EXTENDS RequestGate

TheEscapes == [e \in {"%20", "+", "%2F"} |-> IF e = "%2F" THEN "/" ELSE " "]
TheLimits == [uri |-> 3, headers |-> 4, header |-> 3, body |-> 2]

IP(a, b) == [family |-> 4, octets |-> <<10, 0, a, b>>]
TheAddress == [n \in {"10.0.1.4", "10.0.1.7", "10.0.2.4"} |->
    CASE n = "10.0.1.4" -> IP(1, 4) [] n = "10.0.1.7" -> IP(1, 7) [] OTHER -> IP(2, 4)]

-----------------------------------------------------------------------------
(* Tokens and keys *)

Key(kid, alg, material) == [kty |-> Kty(alg), kid |-> {kid}, alg |-> {alg}, use |-> {"sig"}, material |-> material]
K1 == Key("k1", "RS256", "m1")
K2 == Key("k2", "RS256", "m2")
K3 == Key("k1", "ES256", "m3")
TheKeySets == {{K1}, {K2}, {K2, K3}}

Claims(sub) == [sub |-> sub, exp |-> {1}, nbf |-> {1}, iss |-> {"idp"}, aud |-> {"api"}, scope |-> {<<"read">>},
                groups |-> {<<"staff">>}, username |-> {"u"}]
Token(kid, material, sub) ==
    [parses |-> TRUE, alg |-> "RS256", kid |-> kid, signedBy |-> material, claims |-> Claims(sub)]
TheTokens == [n \in {"t1", "t2", "bare", "odd", "nosub", "noscope", "broken"} |->
    CASE n = "t1" -> Token({"k1"}, "m1", {"ann"})
      [] n = "t2" -> Token({"k2"}, "m2", {"bob"})
      [] n = "bare" -> Token({}, "m1", {"ann"})
      [] n = "odd" -> [Token({"k1"}, "m1", {"ann"}) EXCEPT !.alg = "HS256"]
      [] n = "nosub" -> Token({"k1"}, "m1", {})
      [] n = "noscope" -> [Token({"k1"}, "m1", {"eve"}) EXCEPT !.claims.scope = {}, !.claims.groups = {}]
      [] n = "broken" -> [Token({"k1"}, "m1", {"ann"}) EXCEPT !.parses = FALSE]]

-----------------------------------------------------------------------------
(* Operations *)

Text == {<<"a">>, <<"a", " ">>, <<"b">>, <<"a", "/">>}
OneOf(texts) == [wellFormed |-> TRUE, accepts |-> {Json("string", t) : t \in texts}]
Param(name, location, required, texts) ==
    [name |-> name, location |-> location, required |-> required, schema |-> {OneOf(texts)}, wildcard |-> FALSE]
Id == Param(<<"id">>, "path", TRUE, {<<"a">>, <<"a", " ">>})
Tag == Param(<<"x-tag">>, "header", TRUE, {<<"a">>})
Q == Param(<<"q">>, "query", FALSE, {<<"a">>, <<"a", " ">>})
ObjectOf(names) == [wellFormed |-> TRUE, props |-> {[n \in names |-> OneOf(Text)]}, required |-> names]

Op(id, params, body, chain, method, path) ==
    [id |-> {id}, mcp |-> {id \in {"find", "make", "count", "rename", "raw"}}, params |-> params, body |-> body, chain |-> chain,
     method |-> method, path |-> path, deprecated |-> id = "find", sunset |-> {<<"2030">>}]

Acl == [plugin |-> "acl", allow |-> {"staff", "read"}, deny |-> {"banned"}, allowConsumers |-> {<<"root">>},
        denyConsumers |-> {<<"eve">>}, groups |-> [n \in {<<"ann">>} |-> {"staff"}]]
Oidc == [plugin |-> "oidc-auth", queryToken |-> TRUE, refresh |-> 2, skew |-> 1, issuer |-> {}, audience |-> {"api"},
         groupsClaim |-> TRUE, scopes |-> {}]
Cors == [plugin |-> "cors", credentials |-> TRUE, origins |-> {<<"https://", "a", "x">>, <<"*.", "y">>},
         methods |-> {"GET"}, headers |-> {"x-a"}]
Login(user, password, roles) == [user |-> user, password |-> password, roles |-> roles]
Basic == [plugin |-> "basic-auth", strip |-> TRUE, credentials |-> <<
    Login("ann", "pa", <<>>), Login("bob", "pb", <<"staff">>), Login("joe", "pj", <<"staff", "banned">>),
    Login("eve", "pe", <<"staff">>), Login("root", "pr", <<"banned">>), Login("kim", "pk", <<>>)>>]
ApiKeyBy(location) == [plugin |-> "apikey-auth", location |-> location, header |-> "x-api-key", param |-> <<"key">>,
    keys |-> <<[key |-> <<"k", " ">>, id |-> "bob", scopes |-> <<"read">>]>>]
Net(net, prefix) == [net |-> net, prefix |-> prefix]
IpRestriction == [plugin |-> "ip-restriction", trusted |-> {"proxy", "10.0.2.4"}, status |-> 403,
    allow |-> {Net("10.0.1.4", {30}), Net("nonsense", {8})}, deny |-> {Net("10.0.1.7", {})}]
Bots == [plugin |-> "bot-detection", blockEmpty |-> TRUE, status |-> 403, allow |-> {"good"}, deny |-> {"bot"}]
SizeLimit == [plugin |-> "request-size-limit", checkLength |-> TRUE, max |-> 1]
Redirect == [plugin |-> "redirect", preserveQuery |-> TRUE, status |-> 302, rules |-> <<
    [path |-> {}, prefix |-> {<<"/", "old">>}, target |-> <<"/", "new">>, status |-> {301}]>>]
Jwt == [plugin |-> "jwt-auth", key |-> {K1}, skew |-> 1, issuer |-> {"idp"}, audience |-> {"api"}, groupsClaim |-> TRUE]
CelAllow == [plugin |-> "cel", compiles |-> TRUE, onMatch |-> {}]
CelMatch == [plugin |-> "cel", compiles |-> TRUE,
    onMatch |-> {[deny |-> {}, context |-> [k \in {"tier"} |-> <<"gold">>]]}]
CelDeny == [plugin |-> "cel", compiles |-> TRUE,
    onMatch |-> {[deny |-> {[status |-> 429, codeValid |-> TRUE]}, context |-> <<>>]}]
OAuth2 == [plugin |-> "oauth2-auth", scopes |-> {"read"}, audience |-> {"api"}]
Correlation == [plugin |-> "correlation-id", trust |-> TRUE, generate |-> TRUE, respond |-> TRUE]

\* Tools whose input schema says something else than the operation.
Num == [Param(<<"n">>, "query", FALSE, {}) EXCEPT !.schema =
           {[wellFormed |-> TRUE, accepts |-> {Json("integer", <<"5">>), Json("string", <<"many">>)}]}]
Content(schema) == {[required |-> TRUE, content |-> [t \in {"application/json"} |-> {schema}]]}

Json1 == [t \in {"application/json"} |-> {ObjectOf({<<"name">>})}]
TheOperations == <<
    Op("find", <<Id, Q>>, {}, <<Oidc>>, "GET", "/users/{id}"),
    Op("make", <<Id, Q>>, {[required |-> TRUE, content |-> Json1]}, <<>>, "POST", "/users/{id}"),
    Op("edge", <<>>, {}, <<Cors, Correlation, IpRestriction, Basic, Acl>>, "GET", "/edge"),
    Op("file", <<Tag>>, {}, <<Bots, SizeLimit, Redirect, ApiKeyBy("query")>>, "POST", "/file"),
    Op("mine", <<>>, {}, <<Jwt, Acl, CelAllow, CelMatch, CelDeny>>, "GET", "/mine"),
    Op("team", <<>>, {}, <<OAuth2, Acl, [plugin |-> "opa-authz"], ApiKeyBy("header")>>, "GET", "/team"),
    Op("count", <<Num>>, {}, <<>>, "GET", "/count"),
    Op("rename", <<Id>>, Content(ObjectOf({<<"id">>, <<"name">>})), <<>>, "PUT", "/names/{id}"),
    Op("raw", <<>>, Content([wellFormed |-> TRUE, props |-> {}, required |-> {}]), <<>>, "PUT", "/raw")>>

TheRoutes == [t \in {"users", "edge", "file", "mine", "team"} |->
    CASE t = "users" -> [m \in {"GET", "POST"} |-> IF m = "GET" THEN 1 ELSE 2]
      [] t = "edge" -> [m \in {"GET"} |-> 3]
      [] t = "file" -> [m \in {"POST"} |-> 4]
      [] t = "mine" -> [m \in {"GET"} |-> 5]
      [] OTHER -> [m \in {"GET"} |-> 6]]

-----------------------------------------------------------------------------
(* Requests, named <<kind, a, b>> *)

H(name, value) == [name |-> name, value |-> value, size |-> 1, legible |-> TRUE]
Plain == [size |-> 1, json |-> {}, breaks |-> FALSE, rpc |-> {}]
Base(n, method, target) ==
    [name |-> n, method |-> method, target |-> target, page |-> "", path |-> <<"/", target>>, captures |-> <<>>,
     uri |-> 1, raw |-> <<>>, query |-> <<>>, body |-> NoBody, peer |-> "10.0.1.4"]
Pair(name, value) == [name |-> name, value |-> value]

Auth(a) == CASE a = "none" -> <<>>
             [] a \in DOMAIN TheTokens -> <<H("authorization", <<"Bearer", a>>)>>
             [] a = "bad" -> <<H("authorization", <<"Basic", "ann", "pb">>)>>
             [] OTHER -> <<H("authorization", <<"Basic", a, CASE a = "ann" -> "pa" [] a = "bob" -> "pb" [] a = "joe" -> "pj"
                                                              [] a = "eve" -> "pe" [] a = "kim" -> "pk" [] OTHER -> "pr">>)>>
Forged == <<H("x-auth-consumer", <<"root">>), H("x-auth-consumer-groups", <<"staff">>)>>

EdgeRequest(n) ==
    LET base == [Base(n, "GET", "edge") EXCEPT !.raw = Auth(n[2])]
    IN CASE n[3] = "forged" -> [base EXCEPT !.raw = Forged \o @]
         [] n[3] = "outside" -> [base EXCEPT !.peer = "10.0.2.4"]
         [] n[3] = "proxied" -> [base EXCEPT !.peer = "proxy", !.raw = @ \o <<H("x-forwarded-for", <<"10.0.1.7", "10.0.1.4", "proxy">>)>>]
         [] n[3] = "denied" -> [base EXCEPT !.peer = "10.0.1.7"]
         [] n[3] = "origin" -> [base EXCEPT !.raw = @ \o <<H("origin", <<"https://", "b", "y">>), H("x-correlation-id", <<"c">>)>>]
         [] n[3] = "alien" -> [base EXCEPT !.raw = @ \o <<H("origin", <<"https://", "y">>)>>]
         [] n[3] = "many" -> [base EXCEPT !.raw = @ \o Forged \o Forged]
         [] n[3] = "long" -> [base EXCEPT !.raw = <<[H("x-long", <<"l">>) EXCEPT !.size = 4]>>]
         [] n[3] = "preflight" -> [base EXCEPT !.method = "OPTIONS",
                !.raw = <<H("origin", <<"https://", "a", "x">>), H("access-control-request-method", <<"GET">>),
                          H("access-control-request-headers", <<"accept", "x-a">>)>>]
         [] n[3] = "method" -> [base EXCEPT !.method = "PUT"]
         [] n[3] = "nowhere" -> [base EXCEPT !.target = "nowhere"]
         [] n[3] = "uri" -> [base EXCEPT !.uri = 4]
         [] n[3] = "spec" -> [base EXCEPT !.target = "internal", !.page = "specs"]
         [] n[3] = "nospec" -> [base EXCEPT !.target = "internal", !.page = "other"]
         [] OTHER -> base

TokenRequest(n, target) ==
    [Base(n, "GET", target) EXCEPT !.raw = Auth(n[2]) \o (IF n[3] = "forged" THEN Forged ELSE <<>>)
        \o (IF n[3] = "key" THEN <<H("x-api-key", <<"k", " ">>)>> ELSE <<>>)]

FileRequest(n) ==
    [Base(n, "POST", "file") EXCEPT
        !.raw = (IF n[2] = "none" THEN <<>> ELSE <<H("user-agent", <<n[2]>>)>>)
                \o (IF n[3] = "announced" THEN <<H("content-length", <<2>>)>> ELSE <<>>)
                \o (IF n[3] = "refused" THEN <<H("content-length", <<3>>)>> ELSE <<>>)
                \o (IF n[3] = "upgrade" THEN <<H("upgrade", <<"websocket">>)>> ELSE <<>>)
                \o (IF n[3] = "retagged" THEN <<H("x-tag", <<"b">>)>> ELSE <<>>)
                \o (IF n[3] = "untagged" THEN <<>> ELSE <<H("x-tag", <<"a">>)>>)
                \o (IF n[3] = "mistagged" THEN <<H("x-tag", <<"b">>)>> ELSE <<>>),
        !.path = IF n[3] = "moved" THEN <<"/", "old", "a">> ELSE <<"/", "file">>,
        !.query = <<Pair(<<"key">>, <<"k", "+">>)>>,
        !.body = CASE n[3] = "huge" -> [Plain EXCEPT !.size = 3]
                   [] n[3] = "big" -> [Plain EXCEPT !.size = 2]
                   [] n[3] = "cut" -> [Plain EXCEPT !.breaks = TRUE]
                   [] OTHER -> Plain]

Fields(names) == [type |-> "object", fields |-> [m \in names |-> Json("string", <<"a">>)]]
UserRequest(n) ==
    LET text == CASE n[2] = "a" -> <<"a">> [] n[2] = "a " -> <<"a", "%20">> [] OTHER -> <<"a", "%2F">>
        base == [Base(n, "POST", "users") EXCEPT !.captures = <<Pair(<<"id">>, text)>>,
                    !.raw = <<H("content-type", <<"application/json">>)>>,
                    !.body = [Plain EXCEPT !.json = {Fields({<<"name">>})}]]
    IN CASE n[3] = "query" -> [base EXCEPT !.query = <<Pair(<<"q">>, <<"a", "+">>)>>]
         [] n[3] = "twice" -> [base EXCEPT !.query = <<Pair(<<"q">>, <<"b">>), Pair(<<"q">>, <<"a">>)>>]
         [] n[3] = "wrong" -> [base EXCEPT !.query = <<Pair(<<"q">>, <<"b">>)>>]
         [] n[3] = "empty" -> [base EXCEPT !.body = NoBody]
         [] n[3] = "nofields" -> [base EXCEPT !.body.json = {Fields({<<"other">>})}]
         [] n[3] = "nojson" -> [base EXCEPT !.body.json = {}]
         [] n[3] = "type" -> [base EXCEPT !.raw = <<H("content-type", <<"text/plain">>)>>]
         [] OTHER -> base

Rpc(id, method, tool, args) == [version |-> "2.0", id |-> id, method |-> method, tool |-> tool, args |-> args]
Args(names, text) == [m \in names |-> Json("string", IF m = <<"name">> THEN <<"b">> ELSE text)]
Message(a) ==
    CASE a = "init" -> Rpc({1}, "initialize", {}, <<>>)
      [] a = "ping" -> Rpc({1}, "ping", {}, <<>>)
      [] a = "ready" -> Rpc({}, "notifications/initialized", {}, <<>>)
      [] a = "make" -> Rpc({1}, "tools/call", {"make"}, Args({<<"id">>, <<"q">>, <<"name">>}, <<"a", " ">>))
      [] a = "note" -> Rpc({}, "tools/call", {"make"}, Args({<<"id">>, <<"name">>}, <<"a">>))
      [] a = "find" -> Rpc({1}, "tools/call", {"find"}, Args({<<"id">>}, <<"a">>))
      [] a = "bare" -> Rpc({}, "tools/call", {"make"}, Args({<<"q">>}, <<"b">>))
      [] a = "five" -> Rpc({}, "tools/call", {"count"}, [m \in {<<"n">>} |-> Json("integer", <<"5">>)])
      [] a = "many" -> Rpc({}, "tools/call", {"count"}, Args({<<"n">>}, <<"many">>))
      [] a = "rename" -> Rpc({}, "tools/call", {"rename"}, Args({<<"id">>, <<"name">>}, <<"a">>))
      [] a = "raw" -> Rpc({}, "tools/call", {"raw"}, Args({<<"body">>}, <<"a">>))
      [] a = "slash" -> Rpc({}, "tools/call", {"make"}, Args({<<"id">>}, <<"a", "/">>))
      [] a = "what" -> Rpc({}, "tools/call", {"edge"}, <<>>)
      [] a = "old" -> [Rpc({}, "ping", {}, <<>>) EXCEPT !.version = "1.0"]
      [] a = "other" -> Rpc({1}, "resources/list", {}, <<>>)
      [] OTHER -> Rpc({}, "other", {}, <<>>)
Sid(b) == CASE b = "1" -> <<H("mcp-session-id", <<1>>)>> [] b = "2" -> <<H("mcp-session-id", <<2>>)>> [] OTHER -> <<>>

McpRequest(n) ==
    [Base(n, IF n[2] \in {"DELETE", "OPTIONS", "PUT"} THEN n[2] ELSE "POST", "mcp") EXCEPT
        !.raw = Sid(n[3]),
        !.body = CASE n[2] \in {"DELETE", "OPTIONS", "PUT"} -> NoBody
                   [] n[2] = "text" -> Plain
                   [] n[2] = "huge" -> [Plain EXCEPT !.size = 3]
                   [] n[2] = "cut" -> [Plain EXCEPT !.breaks = TRUE]
                   [] OTHER -> [Plain EXCEPT !.rpc = {Message(n[2])}]]

Kind(k, as, bs) == {<<k, a, b>> : a \in as, b \in bs}
Racing == Kind("mcp", {"init"}, {""}) \cup Kind("mcp", {"make", "DELETE", "ping"}, {"1", "2"})
          \cup Kind("token", {"t1", "t2"}, {""})
TheAlone ==
    Kind("edge", {"ann", "bob", "joe", "eve", "root", "bad", "none"}, {"", "forged", "outside", "proxied", "denied", "origin"})
    \cup Kind("edge", {"kim"}, {"", "forged"})
    \cup Kind("edge", {"ann"}, {"alien", "many", "long", "preflight", "method", "nowhere", "uri", "spec", "nospec"})
    \cup Kind("mine", {"t1", "t2", "odd", "nosub", "noscope", "broken", "none"}, {"", "forged"})
    \cup Kind("team", {"t1", "noscope", "nosub", "none"}, {"", "forged", "key"})
    \cup Kind("token", {"bare", "odd", "nosub", "none"}, {""})
    \cup Kind("file", {"good", "bot", "none"}, {"", "announced", "refused", "moved", "huge", "big", "cut", "upgrade", "untagged", "retagged", "mistagged"})
    \cup Kind("user", {"a", "a ", "a/"}, {"", "query", "twice", "wrong", "empty", "nofields", "nojson", "type"})
    \cup Kind("mcp", {"text", "huge", "cut", "OPTIONS", "PUT", "note", "find", "bare", "five", "many", "rename", "raw", "slash", "what", "old", "other", "quiet", "ready"}, {"", "1"})

TheRequests == [n \in Racing \cup TheAlone |->
    CASE n[1] = "edge" -> EdgeRequest(n)
      [] n[1] = "mine" -> TokenRequest(n, "mine")
      [] n[1] = "team" -> TokenRequest(n, "team")
      [] n[1] = "token" -> [TokenRequest(n, "users") EXCEPT !.captures = <<Pair(<<"id">>, <<"a">>)>>]
      [] n[1] = "file" -> FileRequest(n)
      [] n[1] = "user" -> UserRequest(n)
      [] n[1] = "mcp" -> McpRequest(n)]

TheUpgrade == {<<"websocket">>}
-----------------------------------------------------------------------------
SymConns == Permutations(Conns)

(* The values of the constants: a name of its own lets TLC evaluate each once. *)
MCEscapes == TheEscapes
MCLimits == TheLimits
MCAddress == TheAddress
MCKeySets == TheKeySets
MCTokens == TheTokens
MCOperations == TheOperations
MCRoutes == TheRoutes
MCAlone == TheAlone
MCRequests == TheRequests
MCUpgrade == TheUpgrade
=============================================================================
