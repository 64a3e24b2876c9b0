----------------------------- MODULE AiGateway -----------------------------
(***************************************************************************)
(* Requests to language models: the middlewares ai-prompt-guard,           *)
(* ai-token-limit, ai-cost-tracker and ai-response-guard around the        *)
(* ai-proxy dispatcher, for concurrent requests that share token budgets.  *)
(*                                                                         *)
(* A step is one middleware, one call of a provider, or one unit charged   *)
(* to a budget: those are the points at which other requests come between. *)
(* A pattern of a guard matches a text that has one of its fragments.      *)
(***************************************************************************)
EXTENDS AiProtocols

CONSTANTS
    Conns,          \* connections, one request at a time on each
    Requests,       \* the requests by name
    Alone,          \* names of those whose outcome no other request can touch
    Chain,          \* the middlewares in order
    Regexes,        \* the fragments each well-formed pattern matches
    Answers,        \* what a provider may answer to each request: [reached, status, json, blocks, stop, usage]
    LimiterAnswers, \* for each request, whether the host's limiter may and may not answer
    ListedModels,   \* models of a provider that lists them
    MaxRequests,    \* bound on the requests of a behaviour
    MaxTime         \* bound on the clock

ASSUME AiAssumption == Alone \subseteq DOMAIN Requests /\ \A n \in DOMAIN Requests : LimiterAnswers[n] \subseteq BOOLEAN

(* Requests are of one form, and no middleware before the proxy writes the *)
(* counts of tokens, which a provider reports as two numbers or not at all.*)
ASSUME AiRequestAssumption ==
    \A n \in DOMAIN Requests :
        LET req == Requests[n]
        IN /\ req = [f \in {"path", "method", "client", "header", "ctx", "body"} |-> req[f]]
           /\ req.ctx = [k \in DOMAIN req.ctx |-> req.ctx[k]]
           /\ {"ai.policy", "consumer", "ai.tokens"} \subseteq DOMAIN req.ctx /\ req.ctx["ai.tokens"] = {}
           /\ \A a \in Answers[n] : a.usage \subseteq Nat \X Nat /\ \A x, y \in a.usage : x = y

(* There is a chain, its limits have names of their own, which the guide   *)
(* asks of stacked instances (docs/guide/middlewares/ai-gateway.md:162),   *)
(* and what is written before a name is no other key of the context.       *)
Limits == {i \in DOMAIN Chain : Chain[i].plugin = "ai-token-limit"}
ASSUME AiChainAssumption ==
    /\ Chain \in Seq(Range(Chain)) /\ Chain # <<>>
    /\ Config.fallback \in Seq(Range(Config.fallback))
    /\ \A i, j \in Limits :
          /\ Chain[i].policy = Chain[j].policy => i = j
          /\ "partition." \o Chain[i].policy = "partition." \o Chain[j].policy => i = j
          /\ "partition." \o Chain[i].policy \notin
                {"ai.policy", "consumer", "ai.tokens", "ai.provider", "ai.model", "store_downgrade"}

VARIABLES
    now,
    buckets,   \* budget -> times of the units charged, oldest first
    conn,      \* the request on each connection and how far it is
    started,   \* number of requests received
    cost       \* cost_dollars by provider and model

aiVars == <<now, buckets, conn, started, cost>>

Idle == [pc |-> "idle"]
AiInit ==
    /\ now = 0
    /\ buckets = <<>>
    /\ conn = [c \in Conns |-> Idle]
    /\ started = 0
    /\ cost = <<>>

Put(f, k, v) == [x \in DOMAIN f \cup {k} |-> IF x = k THEN v ELSE f[x]]
Get(f, k, default) == IF k \in DOMAIN f THEN f[k] ELSE default

Problem(status) ==
    [status |-> status, warnings |-> {}, body |-> {[shape |-> "problem", text |-> <<>>, items |-> <<>>, finish |-> "", tokens |-> {}]}]
streamed_response == [status |-> 0, warnings |-> {}, body |-> {}]

-----------------------------------------------------------------------------
(* Budgets *)

\* The host's check: an answer and the times that remain.
check_rate_limit(key, profile) ==
    LET recent == SelectSeq(Get(buckets, key, <<>>), LAMBDA t : t + profile.window > now)
    IN IF Len(recent) < profile.quota THEN [allowed |-> TRUE, times |-> Append(recent, now)]
       ELSE [allowed |-> FALSE, times |-> recent]

\* The host tells an empty value from none, its callers do not.
context_get(ctx, key) == Get(ctx, key, {}) \ {""}

resolve_profile_name(cfg, ctx) ==
    Or(context_get(ctx, "ai.policy") \cap DOMAIN cfg.profiles, cfg.default)
resolve_profile(cfg, ctx) ==
    {<<n, cfg.profiles[n]>> : n \in {resolve_profile_name(cfg, ctx)} \cap DOMAIN cfg.profiles}

bucket_key(cfg, profile, partition) == <<cfg.policy, profile, partition>>

extract_partition(cfg, req) ==
    CASE cfg.partition = "client_ip" -> IF req.client = "" THEN "unknown" ELSE req.client
      [] cfg.partition = "header" -> Or(req.header, "unknown")
      [] cfg.partition = "context" -> Or(context_get(req.ctx, "consumer"), "unknown")
      [] OTHER -> cfg.partition

partition_from_context_only(cfg, ctx) ==
    CASE cfg.partition \in {"client_ip", "header"} -> "unknown"
      [] cfg.partition = "context" -> Or(context_get(ctx, "consumer"), "unknown")
      [] OTHER -> cfg.partition

(* Mutant: all instances of the plugin keep their partition under one key. *)
OnePartitionKey(cfg) == "partition"

partition_context_key(cfg) == "partition." \o cfg.policy

token_misconfig_response == Problem(500)
unavailable_response == Problem(503)
too_many_requests_response == Problem(429)

\* A count that is not a u32 is charged as 0; the sum saturates (not reached here).
parse_token_count(ctx, which) == IF ctx["ai.tokens"] = {} THEN 0 ELSE The(ctx["ai.tokens"])[which]
tokens_from_context(cfg, ctx) ==
    CASE cfg.count = "prompt" -> parse_token_count(ctx, 1)
      [] cfg.count = "completion" -> parse_token_count(ctx, 2)
      [] OTHER -> parse_token_count(ctx, 1) + parse_token_count(ctx, 2)

-----------------------------------------------------------------------------
(* Guards *)

\* Nothing if one of the patterns does not compile.
ensure_compiled(patterns) ==
    IF patterns \subseteq DOMAIN Regexes THEN {UNION {Regexes[p] : p \in patterns}} ELSE {}
IsMatch(fragments, text) == \E i \in DOMAIN text : text[i] \in fragments

(* Mutant: only a content that is a string is looked at. *)
StringsOnly(msg) == IF msg.content.kind = "string" THEN Texts(msg.content.parts) ELSE <<>>

extract_message_text(msg) ==
    CASE msg.content.kind = "string" -> Texts(msg.content.parts)
      [] msg.content.kind = "array" -> Texts(SelectSeq(msg.content.parts, LAMBDA p : p.type = "text"))
      [] OTHER -> <<>>

\* A name that is not a variable stays as it is.
render_template(template, variables) ==
    FlattenSeq([i \in DOMAIN template |-> Get(variables, template[i], <<template[i]>>)])

prompt_misconfig_response == Problem(500)
prompt_regex_compile_error_response == Problem(500)
reject(profile) == Problem(profile.status)

SystemMessage(text) ==
    [role |-> "system", content |-> [kind |-> "string", parts |-> <<[type |-> "string", text |-> text]>>], calls |-> <<>>, callId |-> ""]

Templated(profile, messages) ==
    LET others == SelectSeq(messages, LAMBDA m : m.role # "system")
    IN IF profile.template = {} THEN messages
       ELSE <<SystemMessage(render_template(The(profile.template), profile.vars))>> \o others

Rejected(profile, messages, fragments) ==
    \/ \E max \in profile.maxMessages : Len(messages) > max
    \/ \E i \in DOMAIN messages :
          LET text == extract_message_text(messages[i])
          IN (\E max \in profile.maxLength : Len(text) > max) \/ IsMatch(fragments, text)

\* The action on a request: [go, req] or [go, response].
Continue(req) == [go |-> TRUE, req |-> req]
ShortCircuited(response) == [go |-> FALSE, response |-> response]

prompt_guard(cfg, req) ==
    LET found == resolve_profile(cfg, req.ctx)
        profile == The(found)[2]
        fragments == ensure_compiled(profile.blocked)
        doc == The(req.body)
        messages == The(doc.messages)
        lenient == IF cfg.failOpen THEN Continue(req) ELSE ShortCircuited(reject(profile))
    IN IF found = {} THEN ShortCircuited(prompt_misconfig_response)
       ELSE IF fragments = {} THEN ShortCircuited(prompt_regex_compile_error_response)
       ELSE IF req.body = {} THEN Continue(req)
       ELSE IF ~doc.valid THEN lenient
       ELSE IF doc.messages = {} THEN Continue(req)
       ELSE IF ~messages.array THEN lenient
       ELSE IF Rejected(profile, messages.items, The(fragments)) THEN ShortCircuited(reject(profile))
       ELSE Continue([req EXCEPT !.body = {[doc EXCEPT !.messages =
                {[array |-> TRUE, items |-> Templated(profile, messages.items)]}]}])

-----------------------------------------------------------------------------

apply_redactions(text, fragments) == [i \in DOMAIN text |-> IF text[i] \in fragments THEN "[REDACTED]" ELSE text[i]]
redact_choices_content(body, fragments) ==
    IF body.shape = "chat" THEN [body EXCEPT !.text = apply_redactions(@, fragments)] ELSE body

response_misconfig_response == Problem(500)
response_regex_compile_error_response == Problem(500)
blocked_response == Problem(502)

\* Everything the serialized body says.
Serialized(body) == body.text \o Texts(body.items)

response_guard(cfg, ctx, resp) ==
    LET found == resolve_profile(cfg, ctx)
        profile == The(found)[2]
        compiled == ensure_compiled(profile.redact \cup profile.blocked)
        redacted == redact_choices_content(The(resp.body), The(ensure_compiled(profile.redact)))
    IN IF resp.status = 0 THEN resp
       ELSE IF found = {} THEN response_misconfig_response
       ELSE IF profile.redact \cup profile.blocked = {} THEN resp
       ELSE IF compiled = {} THEN response_regex_compile_error_response
       ELSE IF resp.body = {} \/ The(resp.body).shape = "raw" THEN resp
       ELSE IF IsMatch(The(ensure_compiled(profile.blocked)), Serialized(redacted)) THEN blocked_response
       ELSE [resp EXCEPT !.body = {redacted}]

\* The price of a thousand tokens is an integer here.
compute_cost(tokens, price) == tokens[1] * price[1] + tokens[2] * price[2]
labels_provider_model(ctx) == <<The(ctx["ai.provider"]), The(ctx["ai.model"])>>
Cost(cfg, ctx) ==
    LET known == ctx["ai.provider"] # {} /\ ctx["ai.model"] # {} /\ labels_provider_model(ctx) \in DOMAIN cfg.prices
    IN IF known THEN compute_cost(Or(ctx["ai.tokens"], <<0, 0>>), cfg.prices[labels_provider_model(ctx)]) ELSE 0

-----------------------------------------------------------------------------
(* On the way in *)

Set(c, r) == conn' = [conn EXCEPT ![c] = r]
Step(c, pc) == conn[c].pc = pc
Cfg(c) == Chain[conn[c].at]

Receive(c, name) ==
    /\ Step(c, "idle") \/ Step(c, "done")
    /\ started < MaxRequests
    /\ name \in Alone => started = 0
    /\ \A d \in Conns : conn[d].pc # "idle" => conn[d].name \notin Alone
    /\ started' = started + 1
    /\ Set(c, [pc |-> "request", at |-> 1, name |-> name, req |-> Requests[name], sent |-> <<>>, targets |-> <<>>, left |-> 0,
               charged |-> <<>>, lost |-> {}, resp |-> {}, listed |-> <<>>])
    /\ UNCHANGED <<now, buckets, cost>>

\* The response phase starts at the middleware before the one that answered.
Answer(r, resp, at) == [r EXCEPT !.pc = IF at = 0 THEN "done" ELSE "response", !.at = at, !.resp = {resp}]
Passed(r, action) ==
    IF action.go THEN [r EXCEPT !.pc = IF r.at = Len(Chain) THEN "dispatch" ELSE "request",
                                !.at = IF r.at = Len(Chain) THEN r.at ELSE r.at + 1, !.req = action.req]
    ELSE Answer(r, action.response, r.at - 1)

PromptGuard(c) ==
    /\ Step(c, "request")
    /\ Cfg(c).plugin = "ai-prompt-guard"
    /\ Set(c, Passed(conn[c], prompt_guard(Cfg(c), conn[c].req)))
    /\ UNCHANGED <<now, buckets, started, cost>>

\* ai-response-guard and ai-cost-tracker let every request pass.
PassRequest(c) ==
    /\ Step(c, "request")
    /\ Cfg(c).plugin \in {"ai-response-guard", "ai-cost-tracker"}
    /\ Set(c, Passed(conn[c], Continue(conn[c].req)))
    /\ UNCHANGED <<now, buckets, started, cost>>

\* One unit buys the admission.  The partition is kept for the response phase.
TokenAdmit(c) ==
    /\ Step(c, "request")
    /\ Cfg(c).plugin = "ai-token-limit"
    /\ LET cfg == Cfg(c)
           found == resolve_profile(cfg, conn[c].req.ctx)
           partition == extract_partition(cfg, conn[c].req)
           req == [conn[c].req EXCEPT !.ctx = Put(@, partition_context_key(cfg), {partition})]
           key == bucket_key(cfg, The(found)[1], partition)
           check == check_rate_limit(key, The(found)[2])
           charge == IF check.allowed THEN <<key>> ELSE <<>>
       IN \/ /\ found = {}
             /\ Set(c, Passed(conn[c], ShortCircuited(token_misconfig_response)))
             /\ UNCHANGED buckets
          \/ /\ found # {} /\ TRUE \in LimiterAnswers[conn[c].name]
             /\ buckets' = Put(buckets, key, check.times)
             /\ Set(c, Passed([conn[c] EXCEPT !.charged = @ \o charge],
                              IF check.allowed THEN Continue(req) ELSE ShortCircuited(too_many_requests_response)))
          \/ /\ found # {} /\ FALSE \in LimiterAnswers[conn[c].name]
             /\ Set(c, Passed([conn[c] EXCEPT !.lost = @ \cup {cfg.policy}], IF cfg.failOpen THEN Continue(req) ELSE ShortCircuited(unavailable_response)))
             /\ UNCHANGED buckets
    /\ UNCHANGED <<now, started, cost>>

-----------------------------------------------------------------------------
(* ai-proxy *)

model_required_response == Problem(400)
no_route_response == Problem(400)
error_response(status) == Problem(status)
model_not_permitted_response == Problem(403)
previous_response_id_not_supported_response == Problem(400)
custom_tools_not_supported_response == Problem(400)
responses_not_supported_for_provider_response == Problem(400)
method_not_allowed_response == Problem(405)

Responded(r, resp) == Answer(r, resp, Len(Chain))

\* Up to the first call: the refusals, and the targets to be tried.
dispatch_with_handler(r) ==
    LET model == The(extract_client_model(r.req.body))
        primary == resolve_target(model, r.req.ctx)
    IN IF extract_client_model(r.req.body) = {} THEN Responded(r, model_required_response)
       ELSE IF ~ensure_compiled_routes THEN Responded(r, error_response(500))
       ELSE IF primary = {} THEN Responded(r, IF Config.routes # <<>> THEN no_route_response ELSE error_response(500))
       ELSE IF evaluate_catalog_policy(The(primary), model) # {} THEN Responded(r, model_not_permitted_response)
       ELSE [r EXCEPT !.pc = "call", !.targets = <<The(primary)>> \o Config.fallback]

dispatch_responses(r) ==
    LET preflight == ResponsesPreflight(r.req.body)
    IN IF preflight.refused THEN Responded(r, previous_response_id_not_supported_response)
       ELSE dispatch_with_handler([r EXCEPT !.req.ctx = Put(@, "store_downgrade", preflight.downgrade)])

dispatch(c) ==
    /\ Step(c, "dispatch")
    /\ conn[c].req.path # "models"
    /\ Set(c, IF conn[c].req.path = "responses" THEN dispatch_responses(conn[c]) ELSE dispatch_with_handler(conn[c]))
    /\ UNCHANGED <<now, buckets, started, cost>>

\* What a provider is sent and what is made of its answer: [sent, result], the
\* result nothing for an error, which the next target may mend.
Upstream(t, path, body) == [to |-> t, url |-> <<effective_base_url(t), path>>, auth |-> apply_auth(t), body |-> body]
build_response(a, body) == [status |-> a.status, warnings |-> {}, body |-> body]
RawBody(a) == {[shape |-> IF a.json THEN "error" ELSE "raw", text |-> Texts(a.blocks), items |-> <<>>, finish |-> "", tokens |-> {}]}
Success(a) == a.status \in 200 .. 299
NotSent(results) == [sent |-> {}, result |-> results]

anthropic_messages_call_raw(t, body, a, translated) ==
    [sent |-> {Upstream(t, "/v1/messages", body)},
     result |-> IF ~a.reached THEN {}
                ELSE IF ~Success(a) THEN {build_response(a, RawBody(a))}
                ELSE {build_response(a, {b}) : b \in translated}]

anthropic_call(t, req, a) ==
    LET bodies == translate_to_anthropic(The(req.body), The(extract_client_model(req.body)))
    IN IF bodies = {} THEN NotSent({})
       ELSE anthropic_messages_call_raw(t, The(bodies), a, translate_from_anthropic(a))

openai_url(req) == req.path
openai_call(t, req, a, body, shape) ==
    [sent |-> {Upstream(t, openai_url(req), body)},
     result |-> IF ~a.reached THEN {}
                ELSE {build_response(a, IF Success(a) /\ a.json THEN OpenAiBody(a, shape) ELSE RawBody(a))}]
openai_stream(t, req, a, body) ==
    [sent |-> {Upstream(t, openai_url(req), body)}, result |-> IF a.reached THEN {streamed_response} ELSE {}]

chat_handle(t, req, a) ==
    LET body == The(maybe_inject_max_tokens(req.body))
    IN IF ~is_openai_compatible(t.provider) THEN anthropic_call(t, req, a)
       ELSE IF is_streaming_request(req.body) THEN openai_stream(t, req, a, body)
       ELSE openai_call(t, req, a, body, "chat")

openai_passthrough(t, req, a) ==
    IF is_streaming_request(req.body) THEN openai_stream(t, req, a, The(req.body))
    ELSE openai_call(t, req, a, The(req.body), "responses")

\* An upstream that is asked to stream answers with events, which are not JSON.
Events(a, streaming) == IF streaming THEN [a EXCEPT !.json = FALSE] ELSE a

responses_handle(t, req, a) ==
    LET doc == The(req.body)
        streaming == is_streaming_request(req.body)
        tools == responses_tools_to_anthropic(doc.tools)
        bodies == ResponsesToAnthropic(doc, The(extract_client_model(req.body)), streaming, The(tools))
        warnings == attach_warnings(req.ctx["store_downgrade"], The(bodies).dropped > 0)
        call == anthropic_messages_call_raw(t, The(bodies).body, a, AnthropicToResponses(Events(a, streaming)))
    IN CASE t.provider = "openai" -> openai_passthrough(t, req, a)
         [] t.provider = "ollama" -> NotSent({responses_not_supported_for_provider_response})
         [] OTHER -> IF tools = {} THEN NotSent({custom_tools_not_supported_response})
                     ELSE IF bodies = {} THEN NotSent({})
                     ELSE [call EXCEPT !.result = {IF Success(x) THEN [x EXCEPT !.warnings = warnings] ELSE x : x \in @}]

\* Tokens are known of an answer in the shape of a chat that was not streamed.
propagate_context(ctx, t, model, resp) ==
    [Put(Put(ctx, "ai.provider", {t.provider}), "ai.model", {model})
        EXCEPT !["ai.tokens"] = IF resp.status = 0 \/ extract_tokens(resp) = {} THEN @ ELSE extract_tokens(resp)]

\* Whether the next target is tried after this result.
FallsBack(result, left) == result = {} \/ (The(result).status >= 500 /\ left > 0)

Call(c, a) ==
    LET r == conn[c]
        t == Head(r.targets)
        model == The(extract_client_model(r.req.body))
        out == IF r.req.path = "responses" THEN responses_handle(t, r.req, a) ELSE chat_handle(t, r.req, a)
        tried == [r EXCEPT !.targets = Tail(@), !.sent = Append(@, [to |-> t, sent |-> out.sent, result |-> out.result])]
    IN /\ Step(c, "call")
       /\ IF FallsBack(out.result, Len(r.targets) - 1)
          THEN Set(c, IF Len(r.targets) = 1 THEN Responded(tried, error_response(502)) ELSE tried)
          ELSE Set(c, Responded([tried EXCEPT !.req.ctx = propagate_context(@, t, model, The(out.result))], The(out.result)))
       /\ UNCHANGED <<now, buckets, started, cost>>

-----------------------------------------------------------------------------
(* GET /v1/models: the providers one after the other *)

models_handle(c) ==
    /\ Step(c, "dispatch")
    /\ conn[c].req.path = "models"
    /\ Set(c, IF conn[c].req.method # "GET" THEN Responded(conn[c], method_not_allowed_response)
              ELSE IF collect_unique_providers = <<>> THEN Responded(conn[c], error_response(500))
              ELSE [conn[c] EXCEPT !.pc = "models", !.left = Len(collect_unique_providers)])
    /\ UNCHANGED <<now, buckets, started, cost>>

\* A provider that fails is a warning beside what the others list.
fetch_provider_models(c, a) ==
    LET r == conn[c]
        providers == collect_unique_providers
        t == providers[Len(providers) - r.left + 1].target
        listed == IF a.reached /\ Success(a) /\ a.json THEN translate_models_response(t.provider, ListedModels) ELSE <<>>
        warned == IF a.reached /\ Success(a) /\ a.json THEN {} ELSE {t.provider}
        soFar == Or(r.resp, [status |-> 200, warnings |-> {}, body |-> {}])
        next == [r EXCEPT !.left = @ - 1, !.listed = @ \o listed, !.resp = {[soFar EXCEPT !.warnings = @ \cup warned]}]
    IN /\ Step(c, "models")
       /\ Set(c, IF next.left = 0 THEN Responded(next, The(next.resp)) ELSE next)
       /\ UNCHANGED <<now, buckets, started, cost>>

-----------------------------------------------------------------------------
(* On the way out *)

Back(r, resp) == Answer(r, resp, r.at - 1)

ResponseGuard(c) ==
    /\ Step(c, "response")
    /\ Cfg(c).plugin = "ai-response-guard"
    /\ Set(c, Back(conn[c], response_guard(Cfg(c), conn[c].req.ctx, The(conn[c].resp))))
    /\ UNCHANGED <<now, buckets, started, cost>>

CostTracker(c) ==
    LET spent == Cost(Cfg(c), conn[c].req.ctx)
        labels == labels_provider_model(conn[c].req.ctx)
    IN /\ Step(c, "response")
       /\ Cfg(c).plugin = "ai-cost-tracker"
       /\ Set(c, Back(conn[c], The(conn[c].resp)))
       /\ cost' = IF spent = 0 THEN cost ELSE Put(cost, labels, Get(cost, labels, 0) + spent)
       /\ UNCHANGED <<now, buckets, started>>

PassResponse(c) ==
    /\ Step(c, "response")
    /\ Cfg(c).plugin = "ai-prompt-guard"
    /\ Set(c, Back(conn[c], The(conn[c].resp)))
    /\ UNCHANGED <<now, buckets, started, cost>>

\* How much is still to be charged: the admission has paid for one token.
TokenSettle(c) ==
    LET cfg == Cfg(c)
        tokens == tokens_from_context(cfg, conn[c].req.ctx)
        known == resolve_profile(cfg, conn[c].req.ctx) # {}
    IN /\ Step(c, "response")
       /\ cfg.plugin = "ai-token-limit"
       /\ Set(c, IF known /\ tokens > 1 THEN [conn[c] EXCEPT !.pc = "charge", !.left = tokens - 1]
                 ELSE Back(conn[c], The(conn[c].resp)))
       /\ UNCHANGED <<now, buckets, started, cost>>

\* One unit; a refusal ends it.  A partition that was kept empty is not found.
TokenCharge(c) ==
    LET cfg == Cfg(c)
        ctx == conn[c].req.ctx
        profile == The(resolve_profile(cfg, ctx))
        partition == Or(context_get(ctx, partition_context_key(cfg)), partition_from_context_only(cfg, ctx))
        key == bucket_key(cfg, profile[1], partition)
        check == check_rate_limit(key, profile[2])
        r == conn[c]
    IN /\ Step(c, "charge")
       /\ \/ /\ TRUE \in LimiterAnswers[conn[c].name]
             /\ buckets' = Put(buckets, key, check.times)
             /\ Set(c, IF ~check.allowed THEN Back([r EXCEPT !.lost = @ \cup {cfg.policy}, !.left = 0], The(r.resp))
                       ELSE LET paid == [r EXCEPT !.charged = Append(@, key), !.left = @ - 1]
                            IN IF paid.left = 0 THEN Back(paid, The(r.resp)) ELSE paid)
          \/ /\ FALSE \in LimiterAnswers[conn[c].name]
             /\ UNCHANGED buckets
             /\ Set(c, Back([r EXCEPT !.left = 0, !.lost = @ \cup {cfg.policy}], The(r.resp)))
       /\ UNCHANGED <<now, started, cost>>

Tick == now < MaxTime /\ now' = now + 1 /\ UNCHANGED <<buckets, conn, started, cost>>

Finished ==
    /\ started = MaxRequests \/ \E c \in Conns : conn[c].pc = "done" /\ conn[c].name \in Alone
    /\ \A c \in Conns : conn[c].pc \in {"idle", "done"}
    /\ UNCHANGED aiVars

AiNext ==
    \/ Tick
    \/ Finished
    \/ \E c \in Conns :
        \/ \E name \in DOMAIN Requests : Receive(c, name)
        \/ PromptGuard(c) \/ PassRequest(c) \/ TokenAdmit(c)
        \/ dispatch(c) \/ models_handle(c)
        \/ conn[c].pc \in {"call", "models"} /\ \E a \in Answers[conn[c].name] : Call(c, a) \/ fetch_provider_models(c, a)
        \/ ResponseGuard(c) \/ CostTracker(c) \/ PassResponse(c) \/ TokenSettle(c) \/ TokenCharge(c)

AiSpec == AiInit /\ [][AiNext]_aiVars

-----------------------------------------------------------------------------
(* Properties *)

Live == {conn[c] : c \in {c \in Conns : conn[c].pc # "idle"}}
Fragments(seqs) == UNION {Range(t) : t \in seqs}
PluginCfgs(plugin) == {Chain[i] : i \in {i \in DOMAIN Chain : Chain[i].plugin = plugin}}
ProfileOf(cfg, r) == The(resolve_profile(cfg, Requests[r.name].ctx))[2]

\* What the provider reads of a body: contents, and arguments of tool calls.
Contents(t, body) ==
    IF is_openai_compatible(t.provider)
    THEN Fragments({Texts(m.content.parts) : m \in UNION {Range(ms.items) : ms \in body.messages}})
    ELSE Fragments(Range(body.system)) \cup
         UNION {Fragments({b.text : b \in {b \in Range(m.blocks) : b.type # "tool_use"}}) : m \in Range(body.messages)}
Arguments(messages) == UNION {Fragments({k.text : k \in Range(m.calls)}) : m \in UNION {Range(ms.items) : ms \in messages}}
Said(t, body) ==
    Contents(t, body) \cup
    (IF is_openai_compatible(t.provider) THEN Arguments(body.messages)
     ELSE UNION {Fragments({b.text : b \in Range(m.blocks)}) : m \in Range(body.messages)})
SystemSaid(t, body) ==
    IF is_openai_compatible(t.provider)
    THEN UNION {Fragments({Texts(m.content.parts) : m \in {m \in Range(ms.items) : m.role = "system"}}) : ms \in body.messages}
    ELSE Fragments(Range(body.system))

\* A chat whose texts are strings or parts declared as texts.
PlainChat(r) ==
    /\ r.req.path = "chat"
    /\ \A d \in Requests[r.name].body : d.valid /\ d.messages # {} /\ \A ms \in d.messages : ms.array /\ \A m \in Range(ms.items) :
          m.content.kind \in {"string", "null"} \/ \A p \in Range(m.content.parts) : p.type = "text"

(* Whatever target serves a chat, and however it was translated, no provider *)
(* reads in a message a text that the prompt guard's profile blocks, nor a   *)
(* system prompt other than its template.  What the guard does not read may  *)
(* reach a provider: the arguments of the tool calls that the client repeats *)
(* (and only those; a chat has no other parts here, see PlainChat).          *)
PromptIsGuarded ==
    \A r \in Live : PlainChat(r) =>
        \A cfg \in PluginCfgs("ai-prompt-guard"), i \in DOMAIN r.sent : \A s \in r.sent[i].sent :
            LET profile == ProfileOf(cfg, r)
                blocked == UNION {Regexes[p] : p \in profile.blocked}
            IN /\ Contents(s.to, s.body) \cap blocked = {}
               /\ Said(s.to, s.body) \cap blocked \subseteq UNION {Arguments(d.messages) : d \in Requests[r.name].body}
               /\ \A t \in profile.template : SystemSaid(s.to, s.body) = Range(render_template(t, profile.vars))

(* Whatever was asked, the client reads no text that the response guard's    *)
(* profile blocks, and in the content of a chat none that it redacts.  Not   *)
(* guarded are answers that were streamed and bodies that are not JSON; not  *)
(* redacted are errors, bodies of the Responses protocol and the arguments   *)
(* of tool calls.                                                            *)
ResponseIsGuarded ==
    \A r \in Live : r.pc = "done" =>
        \A cfg \in PluginCfgs("ai-response-guard"), resp \in r.resp : \A b \in resp.body :
            LET profile == ProfileOf(cfg, r)
            IN /\ b.shape # "raw" => Range(Serialized(b)) \cap UNION {Regexes[p] : p \in profile.blocked} = {}
               /\ b.shape = "chat" => Range(b.text) \cap UNION {Regexes[p] : p \in profile.redact} = {}

(* Both guards keep what they can see, whichever way a text takes.           *)
GuardHolds == PromptIsGuarded /\ ResponseIsGuarded

\* The tokens that the answering provider reported in the shape of a chat.
Reported(r) ==
    IF r.sent = <<>> \/ Last(r.sent).result = {} THEN {} ELSE UNION {b.tokens : b \in The(Last(r.sent).result).body}
Counted(cfg, tokens) ==
    CASE cfg.count = "prompt" -> tokens[1] [] cfg.count = "completion" -> tokens[2] [] OTHER -> tokens[1] + tokens[2]

\* The budget of the request under a partition.
BudgetOf(cfg, r, partition) == bucket_key(cfg, The(resolve_profile(cfg, Requests[r.name].ctx))[1], partition)
EmptyHeader(cfg, r) == cfg.partition = "header" /\ extract_partition(cfg, Requests[r.name]) = ""

(* Every instance of the token limit charges the budget that admitted the    *)
(* request and no other, and, unless a charge was refused or the limiter did *)
(* not answer, exactly what the provider reported, although the charge is    *)
(* made in the response phase, from what the context still says.  The one    *)
(* exception is a partition by a header that the client sends empty: the     *)
(* context does not give an empty value back, and what follows the admission *)
(* is charged to the budget that all requests without the header share.      *)
BudgetsAgree ==
    \A r \in Live, cfg \in PluginCfgs("ai-token-limit") :
        LET own == {i \in DOMAIN r.charged : r.charged[i][1] = cfg.policy}
            due == IF Reported(r) = {} THEN 0 ELSE Counted(cfg, The(Reported(r)))
            admitting == BudgetOf(cfg, r, extract_partition(cfg, Requests[r.name]))
            settling == IF EmptyHeader(cfg, r) THEN BudgetOf(cfg, r, "unknown") ELSE admitting
        IN /\ \A i \in own : r.charged[i] \in {admitting, settling}
           /\ \A i, j \in own : i < j => r.charged[j] = settling
           /\ r.pc = "done" /\ own # {} /\ cfg.policy \notin r.lost /\ r.sent # <<>>
                => Cardinality(own) = IF due > 1 THEN due ELSE 1

Permits(t, model) ==
    /\ t.allow # {} => \E p \in t.allow \cap DOMAIN Globs : model \in Globs[p]
    /\ \A p \in t.deny : p \in DOMAIN Globs /\ model \notin Globs[p]

(* A request reaches the target it resolves to only if that target's catalog *)
(* permits the model, and another one only after every earlier one failed;   *)
(* a failure is the answer only if there was no target left.                 *)
FallbackIsJustified ==
    \A r \in Live : r.sent # <<>> =>
        LET failed(i) == r.sent[i].result = {} \/ The(r.sent[i].result).status >= 500
        IN /\ Permits(r.sent[1].to, The(extract_client_model(r.req.body)))
           /\ \A i \in 1 .. Len(r.sent) - 1 : failed(i)
           /\ r.pc # "call" /\ failed(Len(r.sent)) => Len(r.sent) = 1 + Len(Config.fallback)

\* The client's conversation as calls, results and anything else.
Event(kind, id) == [kind |-> kind, id |-> id]
Turns(req) ==
    LET chat(m) == CASE m.role = "tool" -> <<Event("result", m.callId)>>
                     [] OTHER -> <<Event("other", "")>> \o [i \in DOMAIN m.calls |-> Event("call", m.calls[i].id)]
        item(x) == CASE x.type = "function_call" -> <<Event("call", x.callId)>>
                     [] x.type = "function_call_output" -> <<Event("result", x.callId)>>
                     [] x.type = "reasoning" -> <<>>
                     [] OTHER -> <<Event("other", "")>>
        all == IF req.path = "chat" THEN UNION {{[i \in DOMAIN ms.items |-> chat(ms.items[i])] : ms \in d.messages} : d \in req.body}
               ELSE UNION {{[i \in DOMAIN ms.items |-> item(ms.items[i])] : ms \in d.input} : d \in req.body}
    IN FlattenSeq(The(all))

AnsweredBy(events, i, j) ==
    /\ i < j /\ events[i].kind = "call" /\ events[j].kind = "result" /\ events[i].id = events[j].id
    /\ \A k \in i .. j : events[k].kind # "other"
WellPaired(events) ==
    \A k \in DOMAIN events :
        /\ events[k].kind = "call" => \E j \in DOMAIN events : AnsweredBy(events, k, j)
        /\ events[k].kind = "result" => \E i \in DOMAIN events : AnsweredBy(events, i, k)

Ids(m, type) == {b.id : b \in {b \in Range(m.blocks) : b.type = type}}

(* A conversation in which every call of a tool is answered before the next  *)
(* turn is still one after its translation for Anthropic, where the answers  *)
(* must all be in the message that follows the calls.                        *)
ConversationKept ==
    \A r \in Live : \A k \in DOMAIN r.sent : \A s \in r.sent[k].sent :
        ~is_openai_compatible(s.to.provider) /\ WellPaired(Turns(r.req)) =>
            \A i \in DOMAIN s.body.messages :
                LET m == s.body.messages[i]
                IN /\ Ids(m, "tool_use") # {} => /\ i < Len(s.body.messages)
                                                 /\ Ids(m, "tool_use") = Ids(s.body.messages[i + 1], "tool_result")
                   /\ Ids(m, "tool_result") # {} => i > 1 /\ Ids(m, "tool_result") = Ids(s.body.messages[i - 1], "tool_use")

(* What a provider is sent, it is sent for a reason and as it was meant.      *)
SentIsJustified == FallbackIsJustified /\ ConversationKept

=============================================================================
