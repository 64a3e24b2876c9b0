----------------------------- MODULE SpecParser -----------------------------
(***************************************************************************)
(* From an OpenAPI or AsyncAPI document to the operations the compiler     *)
(* works on (barbacane-compiler/src/spec_parser/parser.rs).                *)
(*                                                                         *)
(* An optional value is a set of at most one element.  What may fail is    *)
(* {} when it fails and {result} when it does not, so an optional value    *)
(* that may fail is {}, {{}} or {{x}}; {f(x) : x \in r} goes on with the   *)
(* result, if there is one.                                                *)
(*                                                                         *)
(* A schema is what the compiler measures of it (its depth and its number  *)
(* of properties) and its $refs, each with the depth it stands at.  The    *)
(* definitions a document's references may point to are the function       *)
(* root; a reference out of its domain is external or dangling.            *)
(***************************************************************************)
EXTENDS Naturals, Sequences, SequencesExt

The(option) == CHOOSE x \in option : TRUE
OrElse(option, default) == IF option = {} THEN default ELSE The(option)

\* All of a sequence of results, or none.
Collect(results) ==
    {[i \in DOMAIN rs |-> The(rs[i])] : rs \in {rs \in {results} : \A i \in DOMAIN rs : rs[i] # {}}}

-----------------------------------------------------------------------------
resolve_ref(root, ref) == IF ref \in DOMAIN root THEN {root[ref]} ELSE {}

(* resolve_schema_refs: every $ref is replaced by its target, resolved in  *)
(* turn.  visited is the chain from the schema to the reference: a target  *)
(* used twice side by side is no cycle.                                    *)
resolve_schema_refs(root, schema) ==
    LET resolve[visited \in SUBSET DOMAIN root, s \in {schema} \cup Range(root)] ==
          LET inlined == [r \in s.refs |->
                IF r.to \in visited \/ resolve_ref(root, r.to) = {} THEN {}
                ELSE resolve[visited \cup {r.to}, The(resolve_ref(root, r.to))]]
          IN IF \E r \in s.refs : inlined[r] = {} THEN {}
             ELSE {[depth |-> Max({s.depth} \cup {r.at + The(inlined[r]).depth : r \in s.refs}),
                    props |-> s.props
                              + MapThenSumSet(LAMBDA r : The(inlined[r]).props, s.refs)]}
    IN resolve[{}, schema]

ResolveOptional(root, schema) ==
    IF schema = {} THEN {{}}
    ELSE {{r} : r \in resolve_schema_refs(root, The(schema))}

\* An unsupported version and a missing marker are errors.
detect_format(doc) ==
    IF doc.format \in {"openapi 3", "asyncapi 3"} THEN {doc.format} ELSE {}

\* Entries that are not {name, config} disappear; what is not a list is empty.
extract_middlewares(raw) == SelectSeq(OrElse(raw, <<>>), LAMBDA e : e.wellFormed)

\* A dispatch that is not {name, config} counts as absent.
extract_dispatch(raw) == {d \in raw : d.wellFormed}

-----------------------------------------------------------------------------
(* OpenAPI *)

\* The schema of a querystring parameter is that of its first media type.
extract_content_schema(p) ==
    IF p.content = {} \/ The(p.content) = <<>> THEN {} ELSE Head(The(p.content))

(* A parameter without a location is skipped before its schema is resolved,*)
(* one without a name after it.                                            *)
parse_parameters(root, raws) ==
    LET located == SelectSeq(raws, LAMBDA p : p.in # {})
    IN {SelectSeq([i \in DOMAIN located |->
                [name |-> located[i].name, location |-> The(located[i].in), schema |-> schemas[i]]],
            LAMBDA p : p.name # {}) :
          schemas \in Collect([i \in DOMAIN located |-> ResolveOptional(root,
                         IF located[i].in = {"querystring"} THEN extract_content_schema(located[i])
                         ELSE located[i].schema)])}

\* A body is a required flag and its media types; each may have a schema.
parse_request_body(root, raw) ==
    IF raw = {} THEN {{}}
    ELSE {{[required |-> The(raw).required, content |-> content]} :
             content \in Collect([i \in DOMAIN The(raw).content |->
                                    ResolveOptional(root, The(raw).content[i])])}

\* A whole response is resolved, references outside of its schema included.
parse_responses(root, raws) == Collect([i \in DOMAIN raws |-> resolve_schema_refs(root, raws[i])])

(* One operation object: those of the standard methods and those of        *)
(* additionalOperations are read alike.  Parameters of the path come       *)
(* first, and nothing removes one that the operation declares again.       *)
ParseOperation(root, item, raw) ==
    IF ~raw.isObject THEN {}
    ELSE {[path |-> item.path, method |-> raw.method, id |-> raw.id,
           described |-> raw.described, params |-> shared \o own,
           body |-> body, dispatch |-> extract_dispatch(raw.dispatch),
           mws |-> IF raw.mws = {} THEN {} ELSE {extract_middlewares(raw.mws)},
           mcp |-> raw.mcp] :
             shared \in parse_parameters(root, item.params), own \in parse_parameters(root, raw.params),
             body \in parse_request_body(root, raw.body),
             responses \in parse_responses(root, raw.responses)}

parse_openapi_paths(doc) ==
    {FlattenSeq(items) :
        items \in Collect([i \in DOMAIN doc.paths |->
                   IF ~doc.paths[i].isObject \/ parse_parameters(doc.root, doc.paths[i].params) = {}
                   THEN {}
                   ELSE Collect([k \in DOMAIN doc.paths[i].ops |->
                           ParseOperation(doc.root, doc.paths[i], doc.paths[i].ops[k])])])}

-----------------------------------------------------------------------------
(* AsyncAPI *)

parse_channel_messages(root, raws) ==
    LET objects == SelectSeq(raws, LAMBDA m : m.isObject)
    IN {[i \in DOMAIN objects |-> [name |-> objects[i].name, payload |-> payloads[i]]] :
          payloads \in Collect([i \in DOMAIN objects |-> ResolveOptional(root, objects[i].payload)])}

\* Channel parameters are path parameters.
parse_channel_parameters(root, raws) ==
    {[i \in DOMAIN raws |-> [name |-> raws[i].name, location |-> "path", schema |-> schemas[i]]] :
        schemas \in Collect([i \in DOMAIN raws |-> ResolveOptional(root, raws[i].schema)])}

ParseChannel(root, c, address) ==
    {[address |-> OrElse(c.address, address), messages |-> messages, params |-> params] :
        messages \in parse_channel_messages(root, c.messages),
        params \in parse_channel_parameters(root, c.params)}

(* Every channel is parsed, referred to or not; one that is not an object  *)
(* is left out.  The address defaults to the name.                         *)
build_channel_lookup(doc) ==
    LET names == {n \in DOMAIN doc.channels : doc.channels[n].isObject}
    IN Collect([n \in names |-> ParseChannel(doc.root, doc.channels[n], n)])

\* The address of an inline channel defaults to the empty path.
resolve_channel_ref(doc, lookup, channel) ==
    CASE channel.kind = "ref" -> IF channel.to \in DOMAIN lookup THEN {lookup[channel.to]} ELSE {}
      [] channel.kind = "inline" -> ParseChannel(doc.root, channel.def, "")
      [] OTHER -> {}

(* A reference to a message the channel does not have is dropped without   *)
(* an error.                                                               *)
parse_operation_messages(root, raw, channelMessages) ==
    IF raw = {} THEN {channelMessages}
    ELSE LET kept == SelectSeq(The(raw), LAMBDA m : m.ref = {}
                        \/ \E i \in DOMAIN channelMessages : channelMessages[i].name \in m.ref)
         IN {[i \in DOMAIN kept |->
                 IF kept[i].ref = {} THEN [name |-> kept[i].name, payload |-> payloads[i]]
                 ELSE SelectSeq(channelMessages, LAMBDA m : m.name \in kept[i].ref)[1]] :
               payloads \in Collect([i \in DOMAIN kept |->
                   IF kept[i].ref = {} THEN ResolveOptional(root, kept[i].payload) ELSE {{}}])}

(* The body of a SEND is the payload of its first message; the operation   *)
(* id is the key of the operation.                                         *)
ParseAsyncOperation(doc, lookup, raw) ==
    IF ~raw.isObject \/ raw.action \notin {"send", "receive"} THEN {}
    ELSE UNION {{[path |-> channel.address, method |-> IF raw.action = "send" THEN "SEND" ELSE "RECEIVE",
                  id |-> {raw.id}, described |-> FALSE, params |-> channel.params,
                  body |-> IF raw.action = "send" /\ messages # <<>> /\ messages[1].payload # {}
                           THEN {[required |-> TRUE, content |-> <<messages[1].payload>>]} ELSE {},
                  dispatch |-> extract_dispatch(raw.dispatch),
                  mws |-> IF raw.mws = {} THEN {} ELSE {extract_middlewares(raw.mws)},
                  mcp |-> raw.mcp] :
                    messages \in parse_operation_messages(doc.root, raw.messages, channel.messages)} :
              channel \in resolve_channel_ref(doc, lookup, raw.channel)}

parse_asyncapi_channels(doc) ==
    IF doc.operations = {} THEN {<<>>}
    ELSE UNION {Collect([i \in DOMAIN The(doc.operations) |->
                            ParseAsyncOperation(doc, lookup, The(doc.operations)[i])]) :
                  lookup \in build_channel_lookup(doc)}

-----------------------------------------------------------------------------
(* parse_spec: {} is a ParseError, which ends the compilation. *)
parse_spec(doc) ==
    {[title |-> The(doc.title), mws |-> extract_middlewares(doc.mws), mcp |-> doc.mcp, ops |-> ops] :
        ops \in IF detect_format(doc) = {} \/ doc.title = {} THEN {}
                ELSE IF detect_format(doc) = {"openapi 3"} THEN parse_openapi_paths(doc)
                ELSE parse_asyncapi_channels(doc)}

=============================================================================
