-------------------------------- MODULE Mcp --------------------------------
(***************************************************************************)
(* The MCP endpoint: operations offered as tools, JSON-RPC messages, and   *)
(* the table of sessions (mcp/mod.rs, mcp/session.rs, mcp/tools.rs).       *)
(*                                                                         *)
(* The table is behind a mutex that is held for one operation at a time.   *)
(***************************************************************************)
EXTENDS Validator, FiniteSets, Functions

CONSTANTS
    Operations,    \* the operations of the artifact, in order
    MaxSessions,   \* MAX_SESSIONS
    SessionTtl,    \* lifetime of a session that is not used
    Forbidden,     \* control characters, and ?, # and \
    MaxTime        \* bound: ticks of the clock

ASSUME McpAssumption == {MaxSessions, SessionTtl, MaxTime} \subseteq Nat \ {0}

VARIABLES
    sessions,  \* of each session in the table: when it was last used
    now,       \* the clock
    used       \* how many sessions were created

mcpVars == <<sessions, now, used>>

McpInit == sessions = <<>> /\ now = 0 /\ used = 0

-----------------------------------------------------------------------------
(* SessionStore *)

Alive == {s \in DOMAIN sessions : now - sessions[s] < SessionTtl}

\* At the cap expired sessions make room; only then is a new one refused.
create ==
    LET full == Cardinality(DOMAIN sessions) >= MaxSessions
        kept == IF full THEN Restrict(sessions, Alive) ELSE sessions
    IN IF Cardinality(DOMAIN kept) >= MaxSessions THEN [table |-> kept, id |-> {}]
       ELSE [table |-> [s \in DOMAIN kept \cup {used + 1} |-> IF s \in DOMAIN kept THEN kept[s] ELSE now],
             id |-> {used + 1}]

\* Whether it has expired is not asked.
touch(id) == IF id \in DOMAIN sessions THEN [sessions EXCEPT ![id] = now] ELSE sessions

remove(ids) == Restrict(sessions, DOMAIN sessions \ ids)

(* Mutant: the last use is taken for the end of the session. *)
EvictUsed ==
    /\ sessions' = Restrict(sessions, {s \in DOMAIN sessions : now - sessions[s] < 1})
    /\ UNCHANGED <<now, used>>

evict_expired ==
    /\ sessions' = Restrict(sessions, Alive)
    /\ UNCHANGED <<now, used>>

Tick == now < MaxTime /\ now' = now + 1 /\ UNCHANGED <<sessions, used>>

-----------------------------------------------------------------------------
(* Tools *)

IsTool(i) == Operations[i].mcp = {TRUE} /\ Operations[i].id # {}

\* By name; names are unique (E1055).
generate_tools ==
    LET tools == {i \in DOMAIN Operations : IsTool(i)}
    IN [n \in UNION {Operations[i].id : i \in tools} |-> CHOOSE i \in tools : Operations[i].id = {n}]

\* Properties of the arguments; the body's replace parameters of one name.
merge_body_schema(props, s) ==
    LET own == IF s.props = {} THEN [n \in {<<"body">>} |-> {s}]
               ELSE [n \in DOMAIN The(s.props) |-> {The(s.props)[n]}]
    IN [n \in DOMAIN props \cup DOMAIN own |-> IF n \in DOMAIN own THEN own[n] ELSE props[n]]

BodySchema(op) ==
    UNION {IF "application/json" \in DOMAIN b.content THEN b.content["application/json"] ELSE {} : b \in op.body}

build_input_schema(op) ==
    LET shown == SelectSeq(op.params, LAMBDA p : p.location \in {"path", "query"})
        params == [n \in {shown[i].name : i \in DOMAIN shown} |->
                      (CHOOSE p \in Range(shown) : p.name = n).schema]
        required == {p.name : p \in {q \in Range(shown) : q.required}}
        body == BodySchema(op)
    IN [props |-> IF body = {} THEN params ELSE merge_body_schema(params, The(body)),
        required |-> required \cup UNION {s.required : s \in body}]

percent_encode(text) ==
    [i \in DOMAIN text |->
        LET escapes == {e \in DOMAIN Escapes \ {"+"} : Escapes[e] = text[i]}
        IN IF escapes = {} THEN text[i] ELSE The(escapes)]

\* The value as it goes into the path, or nothing if it is refused.
sanitize_path_param(value, isWildcard) ==
    LET upAt(i) == /\ value[i] = ".."
                   /\ i = 1 \/ value[i - 1] = "/"
                   /\ i = Len(value) \/ value[i + 1] = "/"
    IN IF Range(value) \cap Forbidden # {} THEN {}
       ELSE IF isWildcard THEN IF \E i \in DOMAIN value : upAt(i) THEN {} ELSE {value}
       ELSE IF "/" \in Range(value) \/ value \in {<<"..">>, <<".">>} THEN {} ELSE {percent_encode(value)}

Placeholder(name) == <<"{">> \o name \o <<"}">>

(* Mutant: what went into the path or the query goes into the body too. *)
DecomposeKeepsAll(op, args) ==
    LET given(loc) == SelectSeq(op.params, LAMBDA p : p.location = loc /\ p.name \in DOMAIN args)
        path == given("path")  query == given("query")
        put(p) == sanitize_path_param(args[p.name].text, p.wildcard)
    IN IF \E p \in Range(path) : put(p) = {} THEN {}
       ELSE {[path |-> [p \in {q \in Range(op.params) : q.location = "path"} |->
                          IF p \in Range(path) THEN The(put(p)) ELSE Placeholder(p.name)],
              query |-> [i \in DOMAIN query |-> [name |-> percent_encode(query[i].name),
                                                 value |-> percent_encode(args[query[i].name].text)]],
              rest |-> args]}

(* The arguments of a call as path, query and body: what is no parameter   *)
(* of either goes into the body.  A path parameter that is not given stays *)
(* as a placeholder; header parameters cannot be given.                    *)
decompose_arguments(op, args) ==
    LET given(loc) == SelectSeq(op.params, LAMBDA p : p.location = loc /\ p.name \in DOMAIN args)
        path == given("path")  query == given("query")
        put(p) == sanitize_path_param(args[p.name].text, p.wildcard)
    IN IF \E p \in Range(path) : put(p) = {} THEN {}
       ELSE {[path |-> [p \in {q \in Range(op.params) : q.location = "path"} |->
                          IF p \in Range(path) THEN The(put(p)) ELSE Placeholder(p.name)],
              query |-> [i \in DOMAIN query |-> [name |-> percent_encode(query[i].name),
                                                 value |-> percent_encode(args[query[i].name].text)]],
              rest |-> Restrict(args, DOMAIN args \ {p.name : p \in Range(path) \cup Range(query)})]}

-----------------------------------------------------------------------------
(* McpServer::handle_request: what becomes of the message, and the table   *)

Answer(code, table, id) == [kind |-> "response", code |-> code, table |-> table, session |-> id]
Silent(table) == [kind |-> "none", table |-> table]

handle_tools_call(rpc, table) ==
    IF rpc.tool = {} \/ The(rpc.tool) \notin DOMAIN generate_tools THEN Answer("INVALID_PARAMS", table, {})
    ELSE LET i == generate_tools[The(rpc.tool)]
             parts == decompose_arguments(Operations[i], rpc.args)
         IN IF parts = {} THEN Answer("INVALID_PARAMS", table, {})
            ELSE [kind |-> "dispatch", op |-> i, parts |-> The(parts), table |-> table]

(* A request other than initialize needs a session; a notification, which  *)
(* has no id, does not.                                                    *)
handle_message(message, sid) ==
    IF message = {} THEN Answer("PARSE_ERROR", sessions, {})
    ELSE LET rpc == The(message)
             checked == rpc.method # "initialize" /\ rpc.id # {}
             known == sid # {} /\ The(sid) \in DOMAIN sessions
             table == IF checked /\ known THEN touch(The(sid)) ELSE sessions
         IN IF rpc.version # "2.0" THEN Answer("INVALID_REQUEST", sessions, {})
            ELSE IF checked /\ ~known THEN Answer("INVALID_REQUEST", sessions, {})
            ELSE CASE rpc.method = "initialize" ->
                        Answer(IF create.id = {} THEN "INTERNAL_ERROR" ELSE "ok", create.table, create.id)
                   [] rpc.method = "notifications/initialized" -> Silent(table)
                   [] rpc.method \in {"ping", "tools/list"} -> Answer("ok", table, {})
                   [] rpc.method = "tools/call" -> handle_tools_call(rpc, table)
                   [] OTHER -> IF rpc.id = {} THEN Silent(table) ELSE Answer("METHOD_NOT_FOUND", table, {})

format_tool_result(status) == [status |-> 200, isError |-> status >= 400]

=============================================================================
