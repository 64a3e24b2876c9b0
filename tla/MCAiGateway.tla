---------------------------- MODULE MCAiGateway ----------------------------
(* Two routes, two named targets, one fallback; budgets by client, by      *)
(* consumer and by header; requests that race for them and requests alone. *)
EXTENDS AiGateway

TheGlobs == [p \in {"gpt", "claude", "gpt-old"} |->
    CASE p = "gpt" -> {"gpt-4", "gpt-3"} [] p = "claude" -> {"claude"} [] OTHER -> {"gpt-3"}]
Target(provider, allow, deny) ==
    [provider |-> provider, apiKey |-> {"key"}, baseUrl |-> {}, auth |-> {}, allow |-> allow, deny |-> deny]
Routed(pattern, t) == [n \in DOMAIN t \cup {"pattern"} |-> IF n = "pattern" THEN pattern ELSE t[n]]
TheConfig ==
    [provider |-> {}, apiKey |-> {}, baseUrl |-> {}, auth |-> {}, default |-> {}, maxTokens |-> {2},
     targets |-> [n \in {"local", "strict"} |-> IF n = "local" THEN Target("ollama", {}, {}) ELSE Target("anthropic", {"claude"}, {"["})],
     routes |-> <<Routed("gpt", Target("openai", {}, {"gpt-old"})), Routed("claude", Target("anthropic", {"claude"}, {}))>>,
     fallback |-> <<Target("anthropic", {}, {})>>]

TheRegexes == [p \in {"secret", "pii", "slur"} |-> {p}]
Limit(policy, partition, count) ==
    [plugin |-> "ai-token-limit", policy |-> policy, partition |-> partition, count |-> count, failOpen |-> TRUE, default |-> "std",
     profiles |-> [n \in {"std", "big"} |-> [quota |-> IF n = "std" THEN 3 ELSE 5, window |-> 1]]]
Guard == [plugin |-> "ai-prompt-guard", default |-> "std", failOpen |-> FALSE,
    profiles |-> [n \in {"std", "big"} |->
        [maxMessages |-> {4}, maxLength |-> {3}, blocked |-> {"secret"}, status |-> 400,
         template |-> IF n = "std" THEN {<<"be", "{who}", "{x}">>} ELSE {}, vars |-> [v \in {"{who}"} |-> <<"kind">>]]]]
Redact == [plugin |-> "ai-response-guard", default |-> "std",
    profiles |-> [n \in {"std", "big"} |-> [redact |-> {"pii"}, blocked |-> {"slur"}]]]
Tracker == [plugin |-> "ai-cost-tracker", prices |-> [l \in {<<"openai", "gpt-4">>} |-> <<1, 2>>]]
TheChain == <<Tracker, Redact, Limit("clients", "client_ip", "total"), Limit("consumers", "context", "completion"), Limit("keys", "header", "prompt"), Guard>>

-----------------------------------------------------------------------------
Str(text) == [kind |-> "string", parts |-> <<[type |-> "string", text |-> text]>>]
Arr(types, text) == [kind |-> "array", parts |-> [i \in DOMAIN types |-> [type |-> types[i], text |-> text]]]
Null == [kind |-> "null", parts |-> <<>>]
Fn(id) == Block("call", id, "f", <<"x">>)
Msg(role, content) == [role |-> role, content |-> content, calls |-> <<>>, callId |-> ""]
Calls(ids) == [Msg("assistant", Null) EXCEPT !.calls = [i \in DOMAIN ids |-> Fn(ids[i])]]
Result(id) == [Msg("tool", Str(<<"r">>)) EXCEPT !.callId = id]
Item(type, role, content, id) == [type |-> type, role |-> role, content |-> content, callId |-> id, name |-> "f"]
List(items) == {[array |-> TRUE, items |-> items]}

Doc == [valid |-> TRUE, model |-> {"gpt-4"}, stream |-> {}, maxTokens |-> {}, messages |-> {}, input |-> {}, instructions |-> {},
        previous |-> FALSE, store |-> {}, tools |-> <<>>, choice |-> {}, parallel |-> {}]
Tool(type) == [type |-> type, name |-> {"f"}, schema |-> {}]
Ctx == [k \in {"ai.target", "ai.policy", "consumer", "ai.tokens", "ai.provider", "ai.model"} |-> IF k = "consumer" THEN {"ann"} ELSE {}]
Req(path, body) == [path |-> path, method |-> IF path = "models" THEN "GET" ELSE "POST", client |-> "ip1", header |-> {}, ctx |-> Ctx,
                    body |-> body]
Chat(items) == Req("chat", {[Doc EXCEPT !.messages = List(items)]})
Resp(items) == Req("responses", {[Doc EXCEPT !.input = List(items)]})
Hello == Msg("user", Str(<<"hi">>))
Targeted(req, name) == [req EXCEPT !.ctx["ai.target"] = {name}]
Model(req, model) == [req EXCEPT !.body = {[d EXCEPT !.model = {model}] : d \in @}]
With(req, field, value) == [req EXCEPT !.body = {[d EXCEPT ![field] = value] : d \in @}]
Tools2 == <<Item("function_call", "user", Str(<<"x">>), "a"), Item("function_call", "user", Str(<<"x">>), "b"),
            Item("reasoning", "user", Null, ""), Item("function_call_output", "user", Str(<<"r">>), "b"),
            Item("function_call_output", "user", Str(<<"r">>), "a")>>

TheRequests ==
  [n \in {"hi", "other", "big", "keyless", "arguments", "stream", "secret", "parts", "image", "long", "many", "system", "tools", "lateTools", "turns",
          "choice", "invalid", "nobody", "notArray", "nomodel", "noroute", "denied", "strict", "local", "claude", "empty",
          "r", "rClaude", "rTools", "rCustom", "rLocal", "rPrevious", "rStream", "rNoInput", "rKeep", "models", "modelsPost"} |->
    CASE n = "hi" -> Chat(<<Hello>>)
      [] n = "other" -> [Chat(<<Hello>>) EXCEPT !.ctx["consumer"] = {"bob"}, !.header = {"k"}]
      [] n = "big" -> [Chat(<<Msg("system", Str(<<"own">>)), Hello>>) EXCEPT !.ctx["ai.policy"] = {"big"}]
      [] n = "keyless" -> [Chat(<<Hello>>) EXCEPT !.header = {""}]
      [] n = "arguments" -> Chat(<<[Calls(<<"a">>) EXCEPT !.calls[1].text = <<"secret">>], Result("a")>>)
      [] n = "stream" -> With(Chat(<<Hello>>), "stream", {TRUE})
      [] n = "secret" -> Chat(<<Hello, Msg("user", Str(<<"secret">>))>>)
      [] n = "parts" -> Chat(<<Msg("user", Arr(<<"text", "text">>, <<"secret">>))>>)
      [] n = "image" -> Model(Chat(<<Msg("user", Arr(<<"text", "image_url", "", "other">>, <<"hi">>))>>), "claude")
      [] n = "long" -> Chat(<<Msg("user", Arr(<<"text", "text">>, <<"hi", "hi">>))>>)
      [] n = "many" -> Chat(<<Hello, Hello, Hello, Hello, Hello>>)
      [] n = "system" -> Model(Chat(<<Msg("system", Str(<<"own">>)), Hello, Msg("system", Arr(<<"text">>, <<"own">>))>>), "claude")
      [] n = "tools" -> Model(Chat(<<Calls(<<"a", "b">>), Result("b"), Result("a")>>), "claude")
      [] n = "lateTools" -> Model(Chat(<<Calls(<<"a">>), Hello, Result("a")>>), "claude")
      [] n = "turns" -> Model(Chat(<<Calls(<<"a">>), Result("a"), Calls(<<"b">>), Result("b")>>), "claude")
      [] n = "choice" -> With(With(Model(Chat(<<Hello>>), "claude"), "tools", <<Tool("function")>>), "parallel", {FALSE})
      [] n = "invalid" -> Req("chat", {[Doc EXCEPT !.valid = FALSE]})
      [] n = "nobody" -> Req("chat", {})
      [] n = "notArray" -> Req("chat", {[Doc EXCEPT !.messages = {[array |-> FALSE, items |-> <<>>]}]})
      [] n = "nomodel" -> With(Chat(<<Hello>>), "model", {})
      [] n = "noroute" -> Model(Chat(<<Hello>>), "llama")
      [] n = "denied" -> Model(Chat(<<Hello>>), "gpt-3")
      [] n = "strict" -> Targeted(Model(Chat(<<Hello>>), "claude"), "strict")
      [] n = "local" -> Targeted(Chat(<<Hello>>), "local")
      [] n = "claude" -> Model(Chat(<<Msg("assistant", Str(<<>>)), Hello, Msg("assistant", Str(<<"pii">>))>>), "claude")
      [] n = "empty" -> Req("chat", {Doc})
      [] n = "r" -> Resp(<<Item("", "user", Str(<<"secret">>), "")>>)
      [] n = "rClaude" -> With(Model(Resp(<<Item("", "system", Arr(<<"text">>, <<"own">>), ""), Item("input_image", "user", Str(<<"i">>), ""),
                             Item("input_text", "assistant", Str(<<"hi">>), ""), Item("odd", "user", Null, "")>>), "claude"),
                             "instructions", {<<"own">>})
      [] n = "rTools" -> Model(Resp(Tools2), "claude")
      [] n = "rCustom" -> With(Model(Resp(Tools2), "claude"), "tools", <<Tool("custom")>>)
      [] n = "rLocal" -> Targeted(Resp(Tools2), "local")
      [] n = "rPrevious" -> With(Resp(Tools2), "previous", TRUE)
      [] n = "rStream" -> With(Model(Resp(Tools2), "claude"), "stream", {TRUE})
      [] n = "rNoInput" -> Model(Req("responses", {Doc}), "claude")
      [] n = "rKeep" -> With(Model(Resp(Tools2), "claude"), "store", {FALSE})
      [] n = "models" -> Req("models", {})
      [] n = "modelsPost" -> [Req("models", {}) EXCEPT !.method = "POST"]]

Racing == {"hi", "other", "big"}
TheAlone == DOMAIN TheRequests \ Racing

Ans(status, json, blocks, stop, usage) ==
    [reached |-> TRUE, status |-> status, json |-> json, blocks |-> blocks, stop |-> stop, usage |-> usage]
Common ==
    {[Ans(0, FALSE, <<>>, "", {}) EXCEPT !.reached = FALSE],
     Ans(200, TRUE, <<TextBlock(<<"ok", "pii">>)>>, "end_turn", {<<1, 2>>})}
TheAnswers == [n \in DOMAIN TheRequests |-> Common \cup IF n \in Racing THEN {} ELSE
    {Ans(200, TRUE, <<TextBlock(<<"slur">>), Block("tool_use", "z", "f", <<"x">>), Block("thinking", "", "", <<"t">>)>>, "tool_use", {}),
     Ans(200, TRUE, <<Block("tool_use", "z", "f", <<"pii">>)>>, "tool_use", {<<3, 1>>}),
     Ans(200, FALSE, <<TextBlock(<<"slur">>)>>, "", {}), Ans(404, TRUE, <<TextBlock(<<"pii">>)>>, "", {}), Ans(500, TRUE, <<TextBlock(<<"slur">>)>>, "", {})}]
TheLimiterAnswers == [n \in DOMAIN TheRequests |-> IF n \in Racing THEN {TRUE} ELSE BOOLEAN]

MCGlobs == TheGlobs
MCConfig == TheConfig
MCRegexes == TheRegexes
MCChain == TheChain
MCRequests == TheRequests
MCAlone == TheAlone
MCAnswers == TheAnswers
MCLimiterAnswers == TheLimiterAnswers
MCListedModels == <<"m">>

SymConns == Permutations(Conns)

=============================================================================
