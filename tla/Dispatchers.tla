----------------------------- MODULE Dispatchers -----------------------------
(***************************************************************************)
(* The dispatcher plugins, as functions: the call each makes of a request, *)
(* and the response it makes of the result.  Also AWS signature v4, which  *)
(* the s3 dispatcher uses.                                                 *)
(*                                                                         *)
(* A URL is a record of scheme, host, path tokens and query; a result of   *)
(* http::call is a response record or [error |-> kind].                    *)
(***************************************************************************)
EXTENDS Integers, FiniteSets, TLC, Transforms

HopByHop == {"connection", "keep-alive", "transfer-encoding", "te", "trailer", "upgrade"}

IsError(result) == "error" \in DOMAIN result

(* ProblemDetails::into_response *)
Problem(status) == [status |-> status, headers |-> [h \in {"content-type"} |-> "problem+json"],
                    body |-> {[kind |-> "problem"]}]

-----------------------------------------------------------------------------
(* http-upstream and ws-upstream *)

(* A template names a parameter by its token. *)
substitute_path_params(template, params) ==
  [i \in 1 .. Len(template) |-> Lookup(params, template[i], template[i])]

UpstreamPath(config, req) ==
  IF config.path = {} THEN req.path
  ELSE substitute_path_params(CHOOSE t \in config.path : TRUE, req.path_params)

UpstreamUrl(config, req) ==
  [scheme |-> config.url.scheme, host |-> config.url.host,
   path |-> TrimEnd(config.url.path) \o Rooted(UpstreamPath(config, req)), query |-> req.query]

HttpUpstreamCall(config, req) ==
  LET kept == Without(req.headers, HopByHop)
      hosted == IF "host" \in DOMAIN req.headers
                THEN Put(kept, "x-forwarded-host", req.headers["host"]) ELSE kept
  IN [method |-> req.method, url |-> UpstreamUrl(config, req),
      headers |-> Put(hosted, "x-forwarded-proto", config.url.scheme), body |-> req.body]

(* error_response: every failure of the call is a 502 of its own. *)
error_response(kind) == Problem(502)

HttpUpstreamResponse(result) ==
  IF IsError(result) THEN error_response(result.error)
  ELSE [result EXCEPT !.headers = Without(result.headers, HopByHop)]

WsUpgradeRequest(config, req) ==
  LET kept == Without(req.headers, HopByHop)
      hosted == IF "host" \in DOMAIN req.headers
                THEN Put(kept, "x-forwarded-host", req.headers["host"]) ELSE kept
  IN [url |-> UpstreamUrl(config, req), headers |-> Put(hosted, "x-forwarded-for", req.client_ip)]

WantsWebSocket(req) == Lookup(req.headers, "upgrade", "") = "websocket"

SwitchingProtocols == [status |-> 101, headers |-> <<>>, body |-> {}]

-----------------------------------------------------------------------------
(* lambda, fire-and-forget and mock *)

LambdaCall(config, req) ==
  LET passed == IF config.pass_through_headers THEN Without(req.headers, HopByHop \cup {"host"}) ELSE <<>>
      typed == IF req.body /= {} /\ "content-type" \notin DOMAIN passed
               THEN Put(passed, "content-type", "json") ELSE passed
  IN [method |-> req.method, url |-> config.url, headers |-> typed, body |-> req.body]

LambdaResponse(result) ==
  IF IsError(result) THEN error_response(result.error)
  ELSE IF "content-type" \in DOMAIN result.headers THEN result
  ELSE [result EXCEPT !.headers = Put(result.headers, "content-type", "json")]

(* forward_to_upstream: the request as it is, and its failure only logged. *)
ForwardCall(config, req) ==
  [method |-> req.method, url |-> config.url, headers |-> req.headers, body |-> req.body]

ForwardResponse(config) ==
  [status |-> config.status, headers |-> Put(config.headers, "content-type", "json"), body |-> config.body]

(* {{headers.x}}, {{path_params.x}}, {{request.path}}: what has no value   *)
(* stays as it is written.                                                 *)
resolve_placeholder(hole, req) ==
  CASE hole.from = "header" -> Lookup(req.headers, hole.name, hole.name)
    [] hole.from = "path" -> Lookup(req.path_params, hole.name, hole.name)
    [] hole.from = "client_ip" -> req.client_ip
    [] OTHER -> hole.name

interpolate(template, req) == [i \in 1 .. Len(template) |-> resolve_placeholder(template[i], req)]

MockResponse(config, req) ==
  [status |-> config.status, headers |-> Put(config.headers, "content-type", "json"),
   body |-> IF config.template = <<>> THEN {}
            ELSE {[kind |-> "text", parts |-> interpolate(config.template, req)]}]

-----------------------------------------------------------------------------
(* kafka and nats *)

resolve_key(config, req) ==
  {k \in {CASE e.from = "header" -> Lookup(req.headers, e.name, "")
            [] e.from = "path" -> Lookup(req.path_params, e.name, "")
            [] e.from = "literal" -> e.name : e \in config.key} : k /= ""}

MessageHeaders(config, req) ==
  [h \in (config.headers_from_request \cup {"x-request-id", "x-trace-id"}) \cap DOMAIN req.headers |->
     req.headers[h]]

(* A request without a body publishes an empty payload. *)
Payload(req) == IF req.body = {} THEN [kind |-> "empty"] ELSE CHOOSE b \in req.body : TRUE

BrokerMessage(config, req) ==
  [url |-> config.url, topic |-> config.topic, key |-> resolve_key(config, req),
   payload |-> Payload(req), headers |-> MessageHeaders(config, req)]

default_ack_body(topic) == [kind |-> "ack", topic |-> topic]

accepted_response(config, topic) ==
  [status |-> 202, headers |-> [h \in {"content-type"} |-> "json"],
   body |-> IF config.ack = {} THEN {default_ack_body(topic)} ELSE config.ack]

-----------------------------------------------------------------------------
(* AWS signature v4 and the s3 dispatcher *)

(* The civil date of a day since 1970, by eras of 400 years that begin in  *)
(* March.                                                                  *)
format_datetime(days) ==
  LET z == days + 719468
      era == z \div 146097
      doe == z - era * 146097
      yoe == (doe - (doe \div 1460) + (doe \div 36524) - (doe \div 146096)) \div 365
      doy == doe - (365 * yoe + (yoe \div 4) - (yoe \div 100))
      mp == (5 * doy + 2) \div 153
      month == IF mp < 10 THEN mp + 3 ELSE mp - 9
  IN [year |-> yoe + era * 400 + (IF month <= 2 THEN 1 ELSE 0), month |-> month,
      day |-> doy - ((153 * mp + 2) \div 5) + 1]

(* Everything but letters, digits, - _ . ~ (and / in a path) is written in *)
(* percent; + stands for itself.                                           *)
percent_encode(t) ==
  CASE t = "a b" -> "a%20b" [] t = "a+b" -> "a%2Bb" [] t = "a%20b" -> "a%2520b" [] t = "a?b" -> "a%3Fb"
    [] OTHER -> t

percent_decode(t) == IF t = "a%20b" THEN "a b" ELSE t

canonical_uri(path) == [i \in 1 .. Len(Rooted(path)) |-> percent_encode(Rooted(path)[i])]

(* The texts of the model in the order of their bytes. *)
Alphabet == <<"", "7", "a b", "a%20b", "a%2Bb", "a+b", "b", "fr", "k", "lang", "p", "q", "true", "x">>

Precedes(p, q) ==
  LET at(t) == CHOOSE i \in 1 .. Len(Alphabet) : Alphabet[i] = t
  IN \/ at(p[1]) < at(q[1])
     \/ at(p[1]) = at(q[1]) /\ at(p[2]) <= at(q[2])

percent_encode_query(t) == percent_encode(t)

(* Mutant: the parameters are signed in the order they came. *)
UnsortedQuery(query) ==
  [i \in 1 .. Len(query) |-> <<percent_encode_query(percent_decode(query[i][1])),
                               percent_encode_query(percent_decode(query[i][2]))>>]

canonical_query(query) ==
  SortSeq([i \in 1 .. Len(query) |-> <<percent_encode_query(percent_decode(query[i][1])),
                                      percent_encode_query(percent_decode(query[i][2]))>>], Precedes)

sha256_hex(body) == [sha256 |-> body]

(* Whoever knows the secret computes the same signature of the same input, *)
(* and of no other.                                                        *)
hmac_sha256(key, data) == [key |-> key, data |-> data]

sign(input, creds, region) ==
  [authorization |-> hmac_sha256([secret |-> creds.secret, date |-> input.date, region |-> region], input),
   x_amz_date |-> input.date, x_amz_content_sha256 |-> input.body_sha256,
   x_amz_security_token |-> creds.session_token]

UsePathStyle(config) == config.force_path_style \/ config.endpoint /= {}

S3Url(config, bucket, key) ==
  LET regional == "s3." \o config.region
  IN IF ~UsePathStyle(config)
     THEN [scheme |-> "https", host |-> bucket \o "." \o regional, path |-> <<"/", key>>, query |-> <<>>]
     ELSE LET ep == IF config.endpoint = {} THEN [scheme |-> "https", host |-> regional]
                    ELSE CHOOSE e \in config.endpoint : TRUE
          IN [scheme |-> ep.scheme, host |-> ep.host, path |-> <<"/", bucket, "/", key>>, query |-> <<>>]

build_s3_request(config, bucket, key, method, query, body, incoming, days) ==
  LET url == S3Url(config, bucket, key)
      date == format_datetime(days)
      hash == sha256_hex(body)
      amz == Put([h \in {"x-amz-content-sha256"} |-> hash], "x-amz-date", date)
      tokens == IF config.session_token = {} THEN amz
                ELSE Put(amz, "x-amz-security-token", config.session_token)
      signed == sign([method |-> method, uri |-> canonical_uri(url.path), query |-> canonical_query(query),
                      headers |-> Put(tokens, "host", url.host), body_sha256 |-> hash, date |-> date],
                     [secret |-> config.secret, session_token |-> config.session_token], config.region)
      headers == Put(Put(tokens, "host", url.host), "authorization", signed.authorization)
  IN [method |-> method, url |-> [url EXCEPT !.query = canonical_query(query)],
      headers |-> IF "content-type" \in DOMAIN incoming
                  THEN Put(headers, "content-type", incoming["content-type"]) ELSE headers,
      body |-> body]

S3Bucket(config, req) ==
  IF config.bucket /= {} THEN config.bucket
  ELSE {req.path_params[p] : p \in {config.bucket_param} \cap DOMAIN req.path_params}

S3Key(config, req) == {req.path_params[p] : p \in {config.key_param} \cap DOMAIN req.path_params}

(* S3Dispatcher::dispatch: with a fallback the query is left out. *)
S3Call(config, req, days) ==
  build_s3_request(config, CHOOSE b \in S3Bucket(config, req) : TRUE,
                   CHOOSE k \in S3Key(config, req) : TRUE, req.method,
                   IF config.fallback_key = {} THEN req.query ELSE <<>>, req.body, req.headers, days)

(* The second call is a GET without a body, of the key to fall back on. *)
S3FallbackCall(config, req, days) ==
  build_s3_request(config, CHOOSE b \in S3Bucket(config, req) : TRUE,
                   CHOOSE k \in config.fallback_key : TRUE, "GET", <<>>, {}, req.headers, days)

S3FallsBack(config, req, result) ==
  ~IsError(result) /\ result.status = 404 /\ req.method = "GET" /\ config.fallback_key /= {}

S3Response(result) ==
  IF IsError(result) THEN error_response(result.error)
  ELSE [result EXCEPT !.headers = Without(result.headers, HopByHop)]

=============================================================================
