----------------------------- MODULE Validator -----------------------------
(***************************************************************************)
(* Validation of a request against its operation (validator.rs).           *)
(*                                                                         *)
(* A text is a sequence of units, each a character or an escape.  A JSON   *)
(* value is a record with its type; a schema is [wellFormed, accepts], the *)
(* set of values it accepts, or for a body [wellFormed, props, required],  *)
(* with props only if it is one of objects.  What may be absent is a set   *)
(* of at most one element.  The result of a validation is the set of its   *)
(* errors.                                                                 *)
(***************************************************************************)
EXTENDS Naturals, Sequences, SequencesExt, FiniteSets

CONSTANTS
    Escapes,    \* what each escape stands for: "%20" and "+", for example
    JsonTypes,  \* media types whose name contains "json"
    Limits      \* RequestLimits: [uri, headers, header, body]

ASSUME LimitAssumption == \A l \in {"uri", "headers", "header", "body"} : Limits[l] \in Nat

The(opt) == CHOOSE x \in opt : TRUE
OrElse(opt, default) == IF opt = {} THEN default ELSE The(opt)
Json(type, text) == [type |-> type, text |-> text]

\* The last and the first of some positions, if there are any.
LastPosition(S) == {i \in S : \A j \in S : j <= i}
FirstPosition(S) == {i \in S : \A j \in S : i <= j}

-----------------------------------------------------------------------------
(* RequestLimits *)

validate_uri(length) == length <= Limits.uri
validate_header_count(raw) == Len(raw) <= Limits.headers
validate_header_size(h) == h.size <= Limits.header
validate_body_size(size) == size <= Limits.body

-----------------------------------------------------------------------------
\* A malformed escape is kept as it is.
percent_decode(text) ==
    [i \in DOMAIN text |-> IF text[i] \in DOMAIN Escapes THEN Escapes[text[i]] ELSE text[i]]

\* A schema that cannot be compiled does not restrict anything.
compile_schema_with_formats(schema) == {s \in schema : s.wellFormed}

CompiledParam(p) ==
    [name |-> p.name, required |-> p.required \/ p.location = "path",
     schema |-> compile_schema_with_formats(p.schema)]

\* At their positions in the operation.
ParamsIn(params, location) ==
    [i \in {i \in DOMAIN params : params[i].location = location} |-> CompiledParam(params[i])]

\* Cookie parameters are ignored; of several querystring ones the last counts.
OperationValidator(params, body) ==
    LET whole == ParamsIn(params, "querystring")
    IN [path |-> ParamsIn(params, "path"), query |-> ParamsIn(params, "query"),
        header |-> ParamsIn(params, "header"),
        querystring |-> {whole[i] : i \in LastPosition(DOMAIN whole)},
        body |-> {[required |-> b.required,
                   content |-> [t \in DOMAIN b.content |-> compile_schema_with_formats(b.content[t])]]
                  : b \in body}]

\* values: what was found under each name.  A value is validated as a string.
validate_params(params, values) ==
    UNION {LET p == params[i]
           IN IF p.name \notin DOMAIN values
              THEN IF p.required THEN {[error |-> "missing", name |-> p.name]} ELSE {}
              ELSE {[error |-> "invalid", name |-> p.name] :
                        s \in {s \in p.schema : Json("string", values[p.name]) \notin s.accepts}}
           : i \in DOMAIN params}

\* Of pairs with one name the last counts.
LastOf(pairs) ==
    [n \in {pairs[i].name : i \in DOMAIN pairs} |->
        LET own == {i \in DOMAIN pairs : pairs[i].name = n} IN pairs[The(LastPosition(own))].value]

validate_path_params(v, pairs) == validate_params(v.path, LastOf(pairs))

Decoded(query) ==
    [i \in DOMAIN query |-> [name |-> percent_decode(query[i].name), value |-> percent_decode(query[i].value)]]

(* Mutant: of a parameter that is repeated the last value counts. *)
LastQueryCounts(v, query) == validate_params(v.query, LastOf(Decoded(query)))

validate_query_params(v, query) ==
    LET pairs == Decoded(query)
        times(n) == Cardinality({i \in DOMAIN pairs : pairs[i].name = n})
        repeated == {i \in DOMAIN v.query : times(v.query[i].name) > 1}
    IN IF repeated # {} THEN {[error |-> "repeated", name |-> v.query[i].name] : i \in repeated}
       ELSE validate_params(v.query, LastOf(pairs))

\* The query string as it was sent.
Raw(query) == FlattenSeq([i \in DOMAIN query |-> query[i].name \o <<"=">> \o query[i].value])

validate_querystring(v, query) ==
    UNION {IF query = <<>>
           THEN IF p.required THEN {[error |-> "missing", name |-> p.name]} ELSE {}
           ELSE {[error |-> "invalid", name |-> p.name] :
                    s \in {s \in p.schema : Json("string", Raw(query)) \notin s.accepts}}
           : p \in v.querystring}

\* The name of a header is a text of one unit.
validate_headers(v, headers) ==
    validate_params(v.header, [n \in {<<h>> : h \in DOMAIN headers} |-> headers[n[1]]])

\* A JSON object against an object schema.
BodyAccepts(s, value) ==
    /\ (s.props # {}) <=> (value.type = "object")
    /\ value.type = "object" =>
          /\ s.required \subseteq DOMAIN value.fields
          /\ \A props \in s.props : \A n \in DOMAIN props \cap DOMAIN value.fields :
                value.fields[n] \in props[n].accepts

\* body: its size, and the value if it is JSON.
validate_body(v, contentType, body) ==
    UNION {
        IF body.size = 0 THEN IF spec.required THEN {[error |-> "no body", name |-> <<>>]} ELSE {}
        ELSE LET base == Head(OrElse(contentType, <<"application/octet-stream">>))
                 found == {t \in {base, "*/*"} : t \in DOMAIN spec.content}
                 media == IF base \in found THEN base ELSE "*/*"
             IN IF found = {} THEN {[error |-> "content type", name |-> <<>>]}
                ELSE {[error |-> "body", name |-> <<>>] :
                        s \in {s \in spec.content[media] :
                                base \in JsonTypes /\ ~\E value \in body.json : BodyAccepts(s, value)}}
        : spec \in v.body}

\* The `?` between two groups: only without errors the next is looked at.
Unless(errors, more) == IF errors # {} THEN errors ELSE more

\* The errors of the first group that has any.
validate_request(v, pathParams, query, headers, contentType, body) ==
    Unless(validate_path_params(v, pathParams),
    Unless(validate_query_params(v, query),
    Unless(validate_querystring(v, query),
    Unless(validate_headers(v, headers), validate_body(v, contentType, body)))))

=============================================================================
