---------------------------- MODULE AiProtocols ----------------------------
(***************************************************************************)
(* The translations of the ai-proxy plugin between the OpenAI chat and     *)
(* Responses protocols and Anthropic messages, and its choice of a target  *)
(* (plugins/ai-proxy: lib.rs, protocols/, providers/).                     *)
(*                                                                         *)
(* A text is a sequence of fragments.  A content is [kind, parts]: a       *)
(* string (one part), an array of parts, null, or another value; a part is *)
(* [type, text] with the type "" where the client gives none.  A block, a  *)
(* call and a result of a tool share the form [type, id, name, text].  An  *)
(* optional value is a set of at most one element.                         *)
(***************************************************************************)
EXTENDS Integers, Sequences, FiniteSets, SequencesExt

CONSTANTS
    Globs,    \* the models each well-formed pattern matches
    Config    \* of the plugin: provider, apiKey, baseUrl, auth, targets, default, routes, fallback, maxTokens

The(s) == CHOOSE x \in s : TRUE
Or(s, default) == IF s = {} THEN default ELSE The(s)
Block(type, id, name, text) == [type |-> type, id |-> id, name |-> name, text |-> text]
TextBlock(text) == Block("text", "", "", text)
Texts(parts) == FlattenSeq([i \in DOMAIN parts |-> parts[i].text])
HasText(part) == part.type \notin {"image_url", "input_image"}

-----------------------------------------------------------------------------
(* Targets *)

is_openai_compatible(provider) == provider \in {"openai", "ollama"}
default_base_url(provider) == provider
effective_base_url(t) == Or(t.baseUrl, default_base_url(t.provider))
default_auth(provider) == IF provider = "anthropic" THEN <<"header", "x-api-key">> ELSE <<"header", "authorization">>
effective_auth(t) == Or(t.auth, default_auth(t.provider))

\* Where the credential of the target goes: a header, or the query.
apply_auth(t) == {<<effective_auth(t), key>> : key \in t.apiKey}

compile_glob(pattern) == IF pattern \in DOMAIN Globs THEN {Globs[pattern]} ELSE {}
compile_glob_set(patterns) ==
    IF \A p \in patterns : compile_glob(p) # {} THEN {UNION {The(compile_glob(p)) : p \in patterns}} ELSE {}

\* A list with a malformed pattern permits nothing, or denies everything.
evaluate_catalog_policy(t, model) ==
    LET allowed == compile_glob_set(t.allow)
        denied == compile_glob_set(t.deny)
    IN IF t.allow # {} /\ model \notin UNION allowed THEN {"not_in_allow"}
       ELSE IF t.deny # {} /\ (denied = {} \/ model \in UNION denied) THEN {"denied"}
       ELSE {}

to_target(route) == [n \in {"provider", "apiKey", "baseUrl", "auth", "allow", "deny"} |-> route[n]]

ensure_compiled_routes ==
    \A i \in DOMAIN Config.routes :
        LET route == Config.routes[i]
        IN \A p \in {route.pattern} \cup route.allow \cup route.deny : compile_glob(p) # {}

FlatTarget ==
    {[provider |-> p, apiKey |-> Config.apiKey, baseUrl |-> Config.baseUrl, auth |-> Config.auth, allow |-> {}, deny |-> {}] :
        p \in Config.provider}

\* The context decides, then the first route that matches, then the default,
\* then the provider of the plugin itself.
resolve_target(model, ctx) ==
    LET named == {Config.targets[n] : n \in ctx["ai.target"] \cap DOMAIN Config.targets}
        routed == SelectSeq(Config.routes, LAMBDA r : model \in The(compile_glob(r.pattern)))
        default == {Config.targets[n] : n \in Config.default \cap DOMAIN Config.targets}
    IN IF named # {} THEN named
       ELSE IF routed # <<>> THEN {to_target(Head(routed))}
       ELSE IF default # {} THEN default ELSE FlatTarget

-----------------------------------------------------------------------------
(* Tools *)

anthropic_tool(t) == [name |-> The(t.name), schema |-> Or(t.schema, "object")]

\* Whatever has a named function.
chat_tools_to_anthropic(tools) ==
    LET named == SelectSeq(tools, LAMBDA t : t.name # {})
    IN [i \in DOMAIN named |-> anthropic_tool(named[i])]

\* The first tool that is not a function has no translation.
responses_tools_to_anthropic(tools) ==
    IF \E i \in DOMAIN tools : tools[i].type \notin {"function", ""} THEN {}
    ELSE LET named == SelectSeq(tools, LAMBDA t : t.name # {})
         IN {[i \in DOMAIN named |-> anthropic_tool(named[i])]}

tool_choice_to_anthropic(choice, parallel) ==
    LET known == {c \in choice : c.kind = "tool" \/ c.name \in {"auto", "none", "required", "any"}}
        base == {IF c.kind # "tool" /\ c.name = "required" THEN [c EXCEPT !.name = "any"] ELSE c : c \in known}
        auto == [kind |-> "mode", name |-> "auto"]
    IN IF parallel = {FALSE} THEN {[choice |-> Or(base, auto), serial |-> TRUE]}
       ELSE {[choice |-> c, serial |-> FALSE] : c \in base}

-----------------------------------------------------------------------------
(* Chat completions to Anthropic messages *)

collect_text_into(content) ==
    LET texts == SelectSeq(content.parts, HasText)
    IN IF content.kind \in {"string", "array"} THEN [i \in DOMAIN texts |-> texts[i].text] ELSE <<>>

normalize_user_content(content) ==
    LET known == SelectSeq(content.parts, LAMBDA p : p.type \in {"text", "", "image_url"})
    IN CASE content.kind = "array" ->
                [i \in DOMAIN known |-> Block(IF known[i].type = "image_url" THEN "image" ELSE "text", "", "", known[i].text)]
         [] content.kind = "null" -> <<TextBlock(<<>>)>>
         [] OTHER -> <<TextBlock(Texts(content.parts))>>

stringify_tool_content(content) == IF content.kind = "null" THEN <<>> ELSE Texts(content.parts)

\* Arguments that do not parse become an empty object.
ToolUse(call) == Block("tool_use", call.id, call.name, IF call.type = "malformed" THEN <<>> ELSE call.text)

AssistantBlocks(msg) ==
    LET kept == SelectSeq(msg.content.parts, LAMBDA p : HasText(p) /\ (msg.content.kind = "array" \/ p.text # <<>>))
        texts == IF msg.content.kind \in {"string", "array"} THEN [i \in DOMAIN kept |-> TextBlock(kept[i].text)] ELSE <<>>
    IN texts \o [i \in DOMAIN msg.calls |-> ToolUse(msg.calls[i])]

Message(role, blocks) == IF blocks = <<>> THEN <<>> ELSE <<[role |-> role, blocks |-> blocks]>>

\* Results of tools are gathered until a message that is none.
ChatStep(msg, acc) ==
    LET flushed == acc.out \o Message("user", acc.pending)
        flush == [acc EXCEPT !.out = flushed, !.pending = <<>>]
    IN CASE msg.role = "tool" ->
                [acc EXCEPT !.pending = Append(@, Block("tool_result", msg.callId, "", stringify_tool_content(msg.content)))]
         [] msg.role = "system" -> [flush EXCEPT !.system = @ \o collect_text_into(msg.content)]
         [] msg.role = "assistant" -> [flush EXCEPT !.out = @ \o Message("assistant", AssistantBlocks(msg))]
         [] OTHER -> [flush EXCEPT !.out = Append(@, [role |-> "user", blocks |-> normalize_user_content(msg.content)])]

(* Mutant: the results that end a conversation are not flushed. *)
TrailingResultsLost(messages) ==
    FoldLeft(LAMBDA acc, msg : ChatStep(msg, acc), [out |-> <<>>, system |-> <<>>, pending |-> <<>>], messages)

translate_chat_messages(messages) ==
    LET all == FoldLeft(LAMBDA acc, msg : ChatStep(msg, acc), [out |-> <<>>, system |-> <<>>, pending |-> <<>>], messages)
    IN [out |-> all.out \o Message("user", all.pending), system |-> all.system]

\* Nothing if the body has no messages.
translate_to_anthropic(body, model) ==
    {LET t == translate_chat_messages(m.items)
     IN [model |-> model, messages |-> t.out, system |-> t.system, maxTokens |-> Or(body.maxTokens, Or(Config.maxTokens, 4096)),
         stream |-> FALSE, tools |-> chat_tools_to_anthropic(body.tools),
         choice |-> tool_choice_to_anthropic(body.choice, body.parallel)] : m \in {m \in body.messages : m.array}}

FinishReason(stop, calls) ==
    CASE stop = "end_turn" -> "stop"
      [] stop = "max_tokens" -> "length"
      [] stop = "tool_use" -> "tool_calls"
      [] OTHER -> IF calls # <<>> THEN "tool_calls" ELSE "stop"

\* Of an answer [json, blocks, stop, usage]; nothing if it is not JSON.
translate_from_anthropic(a) ==
    LET calls == SelectSeq(a.blocks, LAMBDA b : b.type = "tool_use")
    IN IF ~a.json THEN {}
       ELSE {[shape |-> "chat", text |-> Texts(SelectSeq(a.blocks, LAMBDA b : b.type = "text")), items |-> calls,
              finish |-> FinishReason(a.stop, calls), tokens |-> {Or(a.usage, <<0, 0>>)}]}

-----------------------------------------------------------------------------
(* Responses to Anthropic messages *)

build_image_block(part) == Block("image", "", "", part.text)

build_text_or_array_blocks(content) ==
    LET known == SelectSeq(content.parts, LAMBDA p : p.type \in {"input_text", "text", "", "input_image"})
    IN CASE content.kind = "string" -> <<TextBlock(Texts(content.parts))>>
         [] content.kind = "array" ->
                [i \in DOMAIN known |-> IF known[i].type = "input_image" THEN build_image_block(known[i]) ELSE TextBlock(known[i].text)]
         [] OTHER -> <<>>

flush_message(acc) == [acc EXCEPT !.out = @ \o Message(acc.role, acc.blocks), !.blocks = <<>>]

\* Consecutive items of one role become one message.
AddBlocks(acc, role, blocks) ==
    LET own == IF acc.role = role THEN acc ELSE [flush_message(acc) EXCEPT !.role = role]
    IN [own EXCEPT !.blocks = @ \o blocks]

ResponsesStep(item, acc) ==
    CASE item.type \in {"input_text", ""} ->
            LET blocks == build_text_or_array_blocks(item.content)
            IN IF item.role = "system"
               THEN [acc EXCEPT !.system = @ \o [i \in DOMAIN SelectSeq(blocks, LAMBDA b : b.type = "text") |->
                                                    SelectSeq(blocks, LAMBDA b : b.type = "text")[i].text]]
               ELSE AddBlocks(acc, item.role, blocks)
      [] item.type = "input_image" -> AddBlocks(acc, item.role, <<build_image_block([text |-> Texts(item.content.parts)])>>)
      [] item.type = "function_call" ->
            AddBlocks(acc, "assistant", <<Block("tool_use", item.callId, item.name, Texts(item.content.parts))>>)
      [] item.type = "function_call_output" ->
            AddBlocks(acc, "user", <<Block("tool_result", item.callId, "", Texts(item.content.parts))>>)
      [] item.type = "reasoning" -> [acc EXCEPT !.dropped = @ + 1]
      [] OTHER -> acc

ResponsesToAnthropic(body, model, streaming, tools) ==
    {LET first == [out |-> <<>>, system |-> SetToSeq(body.instructions), role |-> "", blocks |-> <<>>, dropped |-> 0]
         all == flush_message(FoldLeft(LAMBDA acc, item : ResponsesStep(item, acc), first, in.items))
     IN [dropped |-> all.dropped,
         body |-> [model |-> model, messages |-> all.out, system |-> all.system,
                   maxTokens |-> Or(body.maxTokens, Or(Config.maxTokens, 4096)), stream |-> streaming, tools |-> tools,
                   choice |-> tool_choice_to_anthropic(body.choice, body.parallel)]] : in \in {m \in body.input : m.array}}

\* A block of an unknown type is passed on under a name that says so.
AnthropicToResponses(a) ==
    LET item(b) == CASE b.type = "text" -> [b EXCEPT !.type = "output_text"]
                     [] b.type = "tool_use" -> [b EXCEPT !.type = "function_call"]
                     [] OTHER -> [b EXCEPT !.type = "unknown"]
    IN IF ~a.json THEN {}
       ELSE {[shape |-> "responses", text |-> <<>>, items |-> [i \in DOMAIN a.blocks |-> item(a.blocks[i])],
              finish |-> "completed", tokens |-> {}]}

\* What the upstream's own body holds.  In the shape of Responses the usage is
\* input_tokens and output_tokens, which extract_tokens does not read.
OpenAiBody(a, shape) ==
    LET calls == SelectSeq(a.blocks, LAMBDA b : b.type = "tool_use")
    IN IF ~a.json THEN {}
       ELSE IF shape = "chat"
       THEN {[shape |-> "chat", text |-> Texts(SelectSeq(a.blocks, LAMBDA b : b.type = "text")), items |-> calls,
              finish |-> FinishReason(a.stop, calls), tokens |-> a.usage]}
       ELSE AnthropicToResponses(a)

extract_tokens(response) == IF response.body = {} THEN {} ELSE The(response.body).tokens

-----------------------------------------------------------------------------
(* The preflight of a Responses request *)

ResponsesPreflight(body) ==
    LET doc == {d \in body : d.valid}
    IN [refused |-> \E d \in doc : d.previous,
        downgrade |-> \A d \in body : d.valid /\ d.store # {FALSE}]

attach_warnings(downgrade, dropped) ==
    (IF downgrade THEN {"store ignored"} ELSE {}) \cup (IF dropped THEN {"reasoning dropped"} ELSE {})

extract_client_model(body) == UNION {d.model \ {""} : d \in {d \in body : d.valid}}
is_streaming_request(body) == \E d \in body : d.valid /\ d.stream = {TRUE}
maybe_inject_max_tokens(body) ==
    {IF d.valid /\ d.maxTokens = {} THEN [d EXCEPT !.maxTokens = Config.maxTokens] ELSE d : d \in body}

-----------------------------------------------------------------------------
(* GET /v1/models *)

\* The upstreams without repetition: routes, then targets, then the plugin's own.
\* Only here an empty base URL counts as none.
collect_unique_providers ==
    LET routes == [i \in DOMAIN Config.routes |-> to_target(Config.routes[i])]
        names == SetToSeq(DOMAIN Config.targets)
        all == routes \o [i \in DOMAIN names |-> Config.targets[names[i]]] \o SetToSeq(FlatTarget)
        at(i) == <<all[i].provider, Or(all[i].baseUrl \ {""}, default_base_url(all[i].provider))>>
    IN SelectSeq([i \in DOMAIN all |-> [first |-> \A j \in 1 .. i - 1 : at(j) # at(i), target |-> all[i]]], LAMBDA e : e.first)

translate_models_response(provider, models) == [i \in DOMAIN models |-> [id |-> models[i], owner |-> provider]]

=============================================================================
