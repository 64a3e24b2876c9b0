----------------------------- MODULE MCArtifact -----------------------------
(* Specs that use every form of middleware list, share schemas, clash with *)
(* one another and break each rule; a local plugin, and two from URLs, one *)
(* of them pinned to its first release.                                    *)
EXTENDS SpecDocs

Plain(n) == [base |-> n, version |-> {}]
Config(secrets) == [secrets |-> secrets, url |-> "https", literal |-> FALSE, id |-> 1]
Entry(n, secrets) == [wellFormed |-> TRUE, name |-> Plain(n), config |-> Config(secrets)]
Auth == Entry("auth", {"s1"})
Rate == Entry("rate", {})
OwnRate == [Rate EXCEPT !.config.id = 2]
Http == Entry("http", {"s2"})
Malformed == [Auth EXCEPT !.wellFormed = FALSE]

Path(text) == [text |-> text, shape |-> text, valid |-> TRUE]
Schema(depth, refs) == [depth |-> depth, props |-> 1, refs |-> refs]
Ref(name, at) == [to |-> name, at |-> at]
Shared == ("pet" :> Schema(1, {Ref("tag", 1)})) @@ ("tag" :> Schema(0, {}))
Loop == ("pet" :> Schema(1, {Ref("tag", 1)})) @@ ("tag" :> Schema(0, {Ref("pet", 1)}))

Query(schema) == [in |-> {"query"}, name |-> {"q"}, schema |-> {schema}, content |-> {}]
Whole == [in |-> {"querystring"}, name |-> {}, schema |-> {}, content |-> {<<{Schema(0, {})}>>}]

Get(id) ==
    [isObject |-> TRUE, method |-> "GET", id |-> id, params |-> <<>>, body |-> {},
     responses |-> <<Schema(0, {})>>, described |-> TRUE, dispatch |-> {Http}, mws |-> {}, mcp |-> {}]
Post(id) == [Get(id) EXCEPT !.method = "POST",
    !.body = {[required |-> TRUE, content |-> <<{Schema(0, {Ref("pet", 1), Ref("tag", 1)})}, {}>>]}]
Item(path, list) == [isObject |-> TRUE, path |-> path, params |-> <<Query(Schema(0, {}))>>, ops |-> list]

OpenApi(items) ==
    [json |-> TRUE, format |-> "openapi 3", title |-> {"api"}, root |-> Shared, mws |-> {<<Auth, Rate, Malformed>>},
     mcp |-> {}, paths |-> items, channels |-> <<>>, operations |-> {}]

Shop == OpenApi(<<
    Item(Path(2), <<[Get({"a"}) EXCEPT !.mws = {<<OwnRate>>}, !.params = <<Query(Schema(0, {Ref("pet", 1)})), Whole>>],
                    [Post({"b"}) EXCEPT !.mws = {<<>>}]>>),
    Item(Path(1), <<Get({})>>)>>)
Pinned == [OpenApi(<<Item(Path(3), <<[Get({"c"}) EXCEPT
              !.dispatch = {[Http EXCEPT !.name.version = {"1"}]}, !.mcp = {[enabled |-> {TRUE}]}]>>)>>)
           EXCEPT !.root = ("pet" :> Schema(2, {})) @@ ("a_pet" :> Schema(3, {})), !.mws = {}, !.mcp = {[enabled |-> TRUE, server |-> {}]}]
Message(n) == [isObject |-> TRUE, name |-> n, payload |-> {Schema(1, {Ref("tag", 1)})}, ref |-> {}]
Channel(address) == [isObject |-> TRUE, address |-> address, messages |-> <<Message("m")>>,
                     params |-> <<[name |-> {"id"}, schema |-> {}]>>]
Send(id, channel) ==
    [isObject |-> TRUE, id |-> id, action |-> "send", channel |-> channel, messages |-> {},
     dispatch |-> {Http}, mws |-> {}, mcp |-> {}]
Events ==
    [OpenApi(<<>>) EXCEPT !.format = "asyncapi 3", !.mws = {<<Rate>>},
        !.channels = [c \in {"ch"} |-> Channel({Path(3)})],
        !.operations = {<<Send("s", [kind |-> "ref", to |-> "ch"]),
            [Send("t", [kind |-> "inline", def |-> Channel({Path(4)})]) EXCEPT !.action = "receive",
                !.messages = {<<[Message("x") EXCEPT !.ref = {"m"}], [Message("y") EXCEPT !.ref = {"z"}], Message("w")>>}]>>}]

Broken ==
    {[Shop EXCEPT !.root = Loop], [Shop EXCEPT !.title = {}],
     [Events EXCEPT !.operations = {<<Send("s", [kind |-> "ref", to |-> "none"])>>}],
     OpenApi(<<Item(Path(5), <<[Get({"d"}) EXCEPT !.dispatch = {Malformed}]>>)>>),
     OpenApi(<<Item(Path(5), <<[Get({"d"}) EXCEPT !.dispatch = {[Http EXCEPT !.config.url = "http"]}]>>)>>),
     OpenApi(<<Item(Path(5), <<[Get({"d"}) EXCEPT !.mws = {<<Entry("", {})>>}]>>)>>),
     OpenApi(<<Item(Path(5), <<[Get({"d"}) EXCEPT !.params = <<Query(Schema(9, {}))>>]>>)>>),
     OpenApi(<<Item(Path(5), <<[Get({"d"}) EXCEPT !.dispatch = {Entry("unknown", {})}]>>)>>),
     OpenApi(<<Item(Path(5), <<[Get({"d"}) EXCEPT !.dispatch = {Entry("http", {"s9"})}]>>)>>)}

MCDocs == ("z.yaml" :> {Shop, Pinned, Events} \cup Broken) @@ ("a.json" :> {[Shop EXCEPT !.json = FALSE], Pinned})
MCFiles == <<"z.yaml", "a.json">>
MCBase == ("z.yaml" :> "z") @@ ("a.json" :> "a")
MCNames == <<"a_pet", "ch", "pet", "s", "t", "tag">>

Meta(fns) == [version |-> "1", type |-> "middleware", body |-> FALSE, fns |-> fns]
Wasm(id, imports, embedded) ==
    [id |-> id, imports |-> imports, embedded |-> embedded, magic |-> TRUE, compiles |-> TRUE]

AuthRelease(id, toml) == [wasm |-> Wasm(id, {"log"}, {}), toml |-> toml]
HttpRelease(id) == [wasm |-> Wasm(id, {"http_call", "body"}, {Meta({"http_call"})}), toml |-> {}]
MCReleases == ("auth" :> <<AuthRelease("auth1", {Meta({"log"})}), AuthRelease("auth2", {})>>)
              @@ ("http" :> <<HttpRelease("http1"), HttpRelease("http2")>>)
MCDeclared ==
    ("rate" :> [kind |-> "path", pin |-> {},
                release |-> [wasm |-> Wasm("rate", {"body"}, {}), toml |-> {}]])
    @@ ("auth" :> [kind |-> "url", pin |-> {}])
    @@ ("http" :> [kind |-> "url", pin |-> {MCReleases["http"][1].wasm}])

MCOptions == [allowPlaintext |-> FALSE, maxDepth |-> 4, maxProps |-> 6, noCache |-> FALSE]

=============================================================================
