----------------------------- MODULE Transforms -----------------------------
(***************************************************************************)
(* What request-transformer and response-transformer do to a message, as   *)
(* functions.                                                              *)
(*                                                                         *)
(* A header name is a token without case (both plugins fold it), a header  *)
(* map a function.  A path is a sequence of tokens in which "/" stands for *)
(* itself; a query a sequence of <<name, value>> pairs.  A body is a set   *)
(* of at most one record: a JSON object with the values of its pointers, a *)
(* JSON value without members, text that is not JSON, or nothing at all.   *)
(* A template says where its value comes from and under which name.        *)
(***************************************************************************)
EXTENDS Naturals, Sequences, SequencesExt

Put(f, k, v) == [x \in DOMAIN f \cup {k} |-> IF x = k THEN v ELSE f[x]]

Without(f, ks) == [x \in DOMAIN f \ ks |-> f[x]]

Lookup(f, k, default) == IF k \in DOMAIN f THEN f[k] ELSE default

-----------------------------------------------------------------------------
(* Values *)

(* The one text of the model that looks different in a query string. *)
UrlDecode(t) == IF t \in {"a%20b", "a+b"} THEN "a b" ELSE t

UrlEncode(t) == IF t = "a b" THEN "a+b" ELSE t

parse_query_params(query) == [i \in 1 .. Len(query) |-> <<query[i][1], UrlDecode(query[i][2])>>]

build_query_string(params) == [i \in 1 .. Len(params) |-> <<params[i][1], UrlEncode(params[i][2])>>]

extract_query_param(query, name) ==
  LET hits == SelectSeq(parse_query_params(query), LAMBDA p : p[1] = name)
  IN IF hits = <<>> THEN "" ELSE hits[1][2]

(* context_get of a key without a value, or with an empty one, is None. *)
context_get(context, key) == Lookup(context, key, "")

interpolate_value(template, req, context) ==
  CASE template.from = "client_ip" -> req.client_ip
    [] template.from = "path" -> Lookup(req.path_params, template.name, "")
    [] template.from = "header" -> Lookup(req.headers, template.name, "")
    [] template.from = "query" -> extract_query_param(req.query, template.name)
    [] template.from = "context" -> context_get(context, template.name)
    [] template.from = "literal" -> template.name

is_variable(template) == template.from /= "literal"

(* "7", "true" and the like are JSON; any other text becomes a string. *)
JsonScalars == {"7", "true"}

to_json_value(s) == IF s \in JsonScalars THEN [json |-> s] ELSE [string |-> s]

-----------------------------------------------------------------------------
(* Headers, in the order remove, rename, set, add.  A rename takes the     *)
(* value away before it puts it back; set leaves a header that is there.   *)

(* The templates of a list of settings; value says what each stands for. *)
Templates(pairs) == {p[2] : p \in Range(pairs)}

RenameHeader(headers, pair) ==
  IF pair[1] \in DOMAIN headers
  THEN Put(Without(headers, {pair[1]}), pair[2], headers[pair[1]])
  ELSE headers

transform_headers(headers, config, value) ==
  LET renamed == FoldLeft(RenameHeader, Without(headers, config.remove), config.rename)
      set == FoldLeft(LAMBDA h, p : IF p[1] \in DOMAIN h THEN h ELSE Put(h, p[1], value[p[2]]),
                      renamed, config.set)
  IN FoldLeft(LAMBDA h, p : Put(h, p[1], value[p[2]]), set, config.add)

-----------------------------------------------------------------------------
(* Query: a rename moves the first pair of the name to the end, an added   *)
(* name replaces every pair it had.                                        *)

RenameParam(params, pair) ==
  LET at == {i \in 1 .. Len(params) : params[i][1] = pair[1]}
      pos == CHOOSE i \in at : \A j \in at : i <= j
  IN IF at = {} THEN params
     ELSE Append(RemoveAt(params, pos), <<pair[2], params[pos][2]>>)

transform_query(query, config, value) ==
  LET kept == SelectSeq(parse_query_params(query), LAMBDA p : p[1] \notin config.remove)
      renamed == FoldLeft(RenameParam, kept, config.rename)
  IN build_query_string(
       FoldLeft(LAMBDA ps, p : Append(SelectSeq(ps, LAMBDA x : x[1] /= p[1]), <<p[1], value[p[2]]>>),
                renamed, config.add))

-----------------------------------------------------------------------------
(* Path: strip a prefix, add one, replace.  An absent option is {}; a      *)
(* pattern that does not compile leaves the replacement out.               *)

Rooted(path) == IF path /= <<>> /\ path[1] = "/" THEN path ELSE <<"/">> \o path

TrimEnd(path) == IF path /= <<>> /\ path[Len(path)] = "/" THEN Front(path) ELSE path

StripPrefix(path, prefix) ==
  IF IsPrefix(prefix, path) THEN Rooted(SubSeq(path, Len(prefix) + 1, Len(path))) ELSE path

AddPrefix(path, prefix) == Rooted(TrimEnd(prefix)) \o Rooted(path)

CompiledReplace(config) == {r \in config.replace : r.valid}

transform_path(path, config) ==
  LET stripped == FoldLeft(StripPrefix, path, SetToSeq(config.strip_prefix))
      prefixed == FoldLeft(AddPrefix, stripped, SetToSeq(config.add_prefix))
  IN FoldLeft(LAMBDA p, r : [i \in 1 .. Len(p) |-> IF p[i] = r.pattern THEN r.replacement ELSE p[i]],
              prefixed, SetToSeq(CompiledReplace(config)))

-----------------------------------------------------------------------------
(* Body: pointers of an object.  A rename onto itself is skipped; it       *)
(* assigns before it deletes.  Nothing can be assigned in a JSON value     *)
(* that has no members.                                                    *)

Object(members) == [kind |-> "object", members |-> members]

RenameMember(m, pair) ==
  IF pair[1] = pair[2] \/ pair[1] \notin DOMAIN m THEN m
  ELSE Without(Put(m, pair[2], m[pair[1]]), {pair[1]})

transform_body(body, config, value) ==
  {IF b.kind /= "object" THEN b
   ELSE LET renamed == FoldLeft(RenameMember, Without(b.members, config.remove), config.rename)
        IN Object(FoldLeft(LAMBDA m, p : Put(m, p[1], value[p[2]]), renamed, config.add)) : b \in body}

BodyValue(template, req, context) ==
  IF is_variable(template) THEN to_json_value(interpolate_value(template, req, context))
  ELSE [string |-> template.name]

-----------------------------------------------------------------------------
(* RequestTransformer::on_request: every value is taken from the request   *)
(* as it came, whatever the earlier steps have changed.                    *)

request_transformer(config, req, context) ==
  LET texts == Templates(config.headers.set \o config.headers.add \o config.query.add)
      text == [t \in texts |-> interpolate_value(t, req, context)]
      json == [t \in Templates(config.body.add) |-> BodyValue(t, req, context)]
  IN [req EXCEPT !.path = transform_path(req.path, config.path),
                 !.headers = transform_headers(req.headers, config.headers, text),
                 !.query = transform_query(req.query, config.query, text),
                 !.body = transform_body(req.body, config.body, json)]

(* Responses: the configured values are literal text. *)
transform_status(status, mapping) == Lookup(mapping, status, status)

transform_response_headers(headers, config) ==
  transform_headers(headers, config, [t \in Templates(config.set \o config.add) |-> t.name])

transform_response_body(body, config) ==
  transform_body(body, config, [t \in Templates(config.add) |-> [string |-> t.name]])

response_transformer(config, resp) ==
  [resp EXCEPT !.status = transform_status(resp.status, config.status),
               !.headers = transform_response_headers(resp.headers, config.headers),
               !.body = transform_response_body(resp.body, config.body)]

=============================================================================
