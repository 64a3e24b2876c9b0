--------------------------- MODULE MiddlewareChain ---------------------------
(***************************************************************************)
(* One request on its way through the WASM plugins of a matched operation: *)
(* the on_request chain, the dispatcher, and the on_response chain in its  *)
(* four forms (after a buffered dispatch, after a short-circuit, in the    *)
(* background of a streamed response, and before a WebSocket upgrade), as  *)
(* `dispatch`, `execute_middleware_on_request`,                            *)
(* `execute_middleware_on_response` and `dispatch_wasm_plugin_inner` run   *)
(* them (crates/barbacane/src/main.rs; crates/barbacane-wasm/src/chain.rs, *)
(* body_access.rs, instance.rs).                                           *)
(*                                                                         *)
(* A plugin is any WASM module: what it reads, writes and returns is left  *)
(* open.  The metadata JSON is abstracted to whether it still parses, and  *)
(* a body to its author: 0 for the client, j for the j-th middleware and   *)
(* N + 1 for the dispatcher.  The request context is left out.             *)
(***************************************************************************)
EXTENDS Integers, Sequences

CONSTANT N   \* number of middlewares of the operation

ASSUME ChainAssumption == N \in Nat

Middlewares == 1 .. N
Dispatcher == N + 1

NoBody == -1   \* None
Unset == -2    \* no call of host_body_set or host_body_clear
Bodies == -1 .. N + 1

VARIABLES
  access,       \* middlewares whose plugin declares body_access
  stage,        \* where the request is
  i,            \* the middleware whose turn it is
  parses,       \* does BodyAccessControl.metadata_json still parse?
  held_body,    \* BodyAccessControl.held_body
  aside,        \* body kept aside: of the short-circuit or of the dispatcher
  request_body, \* side channel into each instance
  output_body,  \* side channel out of each instance
  reply,        \* the response for the client
  verdict,      \* history: what each middleware signalled in on_request
  responded,    \* history: the middlewares whose on_response was called
  read          \* history: the bodies each middleware has read

vars == <<access, stage, i, parses, held_body, aside, request_body, output_body,
          reply, verdict, responded, read>>

channels == <<request_body, output_body, read>>

Stages == {"create", "request", "partial", "dispatch", "response", "observe",
           "upgrade", "done"}

NoReply == [kind |-> "none", body |-> NoBody]
Error == [kind |-> "error", body |-> NoBody]

Init ==
  /\ access \in SUBSET Middlewares
  /\ stage = "create" /\ i = 1
  /\ parses = TRUE
  /\ held_body \in {0, NoBody}
  /\ aside = NoBody
  /\ request_body = [j \in Middlewares |-> NoBody]
  /\ output_body = [j \in Middlewares |-> Unset]
  /\ reply = NoReply
  /\ verdict = [j \in Middlewares |-> "none"]
  /\ responded = <<>>
  /\ read = [j \in Middlewares |-> {}]

-----------------------------------------------------------------------------
(* What a plugin call does *)

Outputs == [kind : {"empty", "raw", "json"}, action : {0, 1}]
Codes == {0, 1}
Writes == {"keep", "set", "clear"}

(* Mutant: the structured action is believed, the result code is not. *)
ParseActionOnly(out, code) ==
  IF (IF out.kind = "json" THEN out.action = 0 ELSE code = 0) THEN "continue"
  ELSE IF out.kind = "empty" THEN "error" ELSE "short"

(* parse_middleware_output *)
Parse(out, code) ==
  IF code = 0 /\ (out.kind = "json" => out.action = 0) THEN "continue"
  ELSE IF out.kind = "empty" THEN "error" ELSE "short"

(* What the plugin wants, by either of its two ways of saying so. *)
Signal(out, code) ==
  IF code /= 0 \/ (out.kind = "json" /\ out.action /= 0) THEN "deny" ELSE "continue"

(* Mutant: the held body is injected for every middleware. *)
PreparedAlways(j) == held_body

(* BodyAccessControl::prepare_instance *)
Prepared(j) == IF j \in access THEN held_body ELSE NoBody

(* host_body_read takes the body b out of the side channel. *)
ReadSome(j, b, reads) ==
  /\ request_body' = [request_body EXCEPT ![j] = IF reads THEN NoBody ELSE b]
  /\ read' = [read EXCEPT ![j] = IF reads /\ b /= NoBody THEN @ \cup {b} ELSE @]

(* host_body_set, host_body_clear *)
Written(j, w) ==
  IF w = "keep" THEN output_body[j] ELSE IF w = "set" THEN j ELSE NoBody

(* BodyAccessControl::collect_after, the body *)
Collect(j, b) ==
  IF j \in access
  THEN /\ output_body' = [output_body EXCEPT ![j] = Unset]
       /\ held_body' = IF b /= Unset THEN b ELSE held_body
  ELSE /\ output_body' = [output_body EXCEPT ![j] = b]
       /\ UNCHANGED held_body

-----------------------------------------------------------------------------
(* execute_middleware_on_request *)

(* All instances are created before the first call. *)
CreateInstance ==
  /\ stage = "create" /\ i \in Middlewares
  /\ i' = i + 1
  /\ UNCHANGED <<access, stage, parses, held_body, aside, channels, reply,
                 verdict, responded>>

(* Plugin or instance missing: an error response, and nothing has run. *)
CreateFails ==
  /\ stage = "create" /\ i \in Middlewares
  /\ stage' = "done" /\ reply' = Error
  /\ UNCHANGED <<access, i, parses, held_body, aside, channels, verdict,
                 responded>>

StartChain ==
  /\ stage = "create" /\ i > N
  /\ i' = 1
  /\ stage' = IF N = 0 THEN "dispatch" ELSE "request"
  /\ UNCHANGED <<access, parses, held_body, aside, channels, reply, verdict,
                 responded>>

(* OnRequestResult::Continue: on to the next middleware, or to dispatch. *)
OnRequestContinue ==
  /\ stage = "request"
  /\ \E out \in Outputs, code \in Codes, w \in Writes, reads, valid \in BOOLEAN :
       /\ Parse(out, code) = "continue"
       /\ verdict' = [verdict EXCEPT ![i] = Signal(out, code)]
       /\ ReadSome(i, Prepared(i), reads)
       /\ Collect(i, Written(i, w))
       /\ parses' = IF out.kind = "empty" THEN parses ELSE valid
  /\ stage' = IF i = N THEN "dispatch" ELSE stage
  /\ i' = IF i = N THEN i ELSE i + 1
  /\ UNCHANGED <<access, aside, reply, responded>>

(* OnRequestResult::ShortCircuit: its body is taken from the side channel  *)
(* whether or not the plugin has body access; then                         *)
(* execute_on_response_partial.                                            *)
ShortCircuit ==
  /\ stage = "request"
  /\ \E out \in Outputs, code \in Codes, w \in Writes, reads, valid \in BOOLEAN :
       /\ Parse(out, code) = "short"
       /\ verdict' = [verdict EXCEPT ![i] = Signal(out, code)]
       /\ ReadSome(i, Prepared(i), reads)
       /\ output_body' = [output_body EXCEPT ![i] = Unset]
       /\ aside' = IF Written(i, w) = Unset THEN NoBody ELSE Written(i, w)
       /\ parses' = valid
  /\ stage' = "partial" /\ i' = i - 1
  /\ UNCHANGED <<access, held_body, reply, responded>>

(* A trap, or a short-circuit without output: 500, and no on_response. *)
OnRequestFails ==
  /\ stage = "request"
  /\ \E reads \in BOOLEAN : ReadSome(i, Prepared(i), reads)
  /\ verdict' = [verdict EXCEPT ![i] = "fail"]
  /\ stage' = "done" /\ reply' = Error
  /\ UNCHANGED <<access, i, parses, held_body, aside, output_body, responded>>

-----------------------------------------------------------------------------
(* on_response *)

(* The call itself: b is what the side channel offers. *)
Respond(b) ==
  /\ responded' = Append(responded, i)
  /\ i' = i - 1
  /\ \E reads \in BOOLEAN : ReadSome(i, b, reads)

(* execute_on_response: the side channels are as on_request left them, and *)
(* what is written to them is not collected.                               *)
OnResponseRaw ==
  /\ stage \in {"partial", "observe"} /\ i > 0
  /\ Respond(request_body[i])
  /\ \E w \in Writes, valid, replaced \in BOOLEAN :
       /\ output_body' = [output_body EXCEPT ![i] = Written(i, w)]
       /\ parses' = IF replaced THEN valid ELSE parses
  /\ UNCHANGED <<access, stage, held_body, aside, reply, verdict>>

(* execute_middleware_on_response: one turn of its loop *)
OnResponse ==
  /\ stage \in {"response", "upgrade"} /\ i > 0
  /\ Respond(Prepared(i))
  /\ \E w \in Writes, valid, replaced \in BOOLEAN :
       /\ Collect(i, Written(i, w))
       /\ parses' = IF replaced THEN valid ELSE parses
  /\ UNCHANGED <<access, stage, aside, reply, verdict>>

(* A trap in any of the four forms is logged; the response stays as it is. *)
OnResponseTraps ==
  /\ stage \in {"partial", "observe", "response", "upgrade"} /\ i > 0
  /\ Respond(IF stage \in {"response", "upgrade"} THEN Prepared(i) ELSE request_body[i])
  /\ \E w \in Writes : output_body' = [output_body EXCEPT ![i] = Written(i, w)]
  /\ UNCHANGED <<access, stage, parses, held_body, aside, reply, verdict>>

(* After a short-circuit the body is the one it set, whatever on_response  *)
(* did; metadata that no longer parses is an error.                        *)
FinishPartial ==
  /\ stage = "partial" /\ i = 0
  /\ reply' = IF parses THEN [kind |-> "plugin", body |-> aside] ELSE Error
  /\ stage' = "done"
  /\ UNCHANGED <<access, i, parses, held_body, aside, channels, verdict,
                 responded>>

(* After a buffered dispatch, metadata that no longer parses means the     *)
(* dispatcher's own response.                                              *)
FinishResponse ==
  /\ stage = "response" /\ i = 0
  /\ reply' = [kind |-> "plugin", body |-> IF parses THEN held_body ELSE aside]
  /\ stage' = "done"
  /\ UNCHANGED <<access, i, parses, held_body, aside, channels, verdict,
                 responded>>

(* The 101 is answered, and the relay started, after the chain has run. *)
FinishUpgrade ==
  /\ stage = "upgrade" /\ i = 0
  /\ reply' = [kind |-> "upgrade", body |-> NoBody]
  /\ stage' = "done"
  /\ UNCHANGED <<access, i, parses, held_body, aside, channels, verdict,
                 responded>>

(* The background task of a streamed response ends. *)
FinishObserve ==
  /\ stage = "observe" /\ i = 0
  /\ stage' = "done"
  /\ UNCHANGED <<access, i, parses, held_body, aside, channels, reply, verdict,
                 responded>>

-----------------------------------------------------------------------------
(* dispatch_wasm_plugin_inner, with the dispatcher's held body *)

(* No plugin, no instance, a panic, a trap, no or unusable output, the     *)
(* streaming sentinel without a stream, or a 101 that cannot be completed. *)
DispatchFails ==
  /\ stage = "dispatch"
  /\ stage' = "done" /\ reply' = Error
  /\ UNCHANGED <<access, i, parses, held_body, aside, channels, verdict,
                 responded>>

(* A complete response; its body comes from the side channel. *)
DispatchBuffered ==
  /\ stage = "dispatch"
  /\ \E b \in {Dispatcher, NoBody} : held_body' = b /\ aside' = b
  /\ stage' = "response" /\ i' = N /\ parses' = TRUE
  /\ UNCHANGED <<access, channels, reply, verdict, responded>>

(* The response was streamed; on_response then runs in the background if   *)
(* the dispatch succeeded and its HTTP result is still there.              *)
DispatchStreamed ==
  /\ stage = "dispatch"
  /\ reply' = [kind |-> "streamed", body |-> Dispatcher]
  /\ stage' \in {"observe", "done"}
  /\ i' = N /\ parses' = TRUE
  /\ UNCHANGED <<access, held_body, aside, channels, verdict, responded>>

(* Status 101, an upgrade handle, and the upstream is connected. *)
DispatchUpgrade ==
  /\ stage = "dispatch"
  /\ held_body' = NoBody /\ aside' = NoBody
  /\ stage' = "upgrade" /\ i' = N /\ parses' = TRUE
  /\ UNCHANGED <<access, channels, reply, verdict, responded>>

-----------------------------------------------------------------------------
Terminated == stage = "done" /\ UNCHANGED vars

Next ==
  \/ CreateInstance \/ CreateFails \/ StartChain
  \/ OnRequestContinue \/ ShortCircuit \/ OnRequestFails
  \/ OnResponseRaw \/ OnResponse \/ OnResponseTraps
  \/ FinishPartial \/ FinishResponse \/ FinishUpgrade \/ FinishObserve
  \/ DispatchFails \/ DispatchBuffered \/ DispatchStreamed \/ DispatchUpgrade
  \/ Terminated

Spec == Init /\ [][Next]_vars

-----------------------------------------------------------------------------
(* Properties *)

TypeOK ==
  /\ access \in SUBSET Middlewares
  /\ stage \in Stages
  /\ i \in 0 .. N + 1
  /\ parses \in BOOLEAN
  /\ held_body \in Bodies
  /\ aside \in Bodies
  /\ request_body \in [Middlewares -> Bodies]
  /\ output_body \in [Middlewares -> Bodies \cup {Unset}]
  /\ reply \in [kind : {"none", "plugin", "streamed", "upgrade", "error"}, body : Bodies]
  /\ verdict \in [Middlewares -> {"none", "continue", "deny", "fail"}]
  /\ responded \in Seq(Middlewares)
  /\ read \in [Middlewares -> SUBSET Bodies]

(* The dispatcher was called. *)
Dispatched ==
  \/ stage \in {"dispatch", "response", "observe", "upgrade"}
  \/ reply.kind \in {"streamed", "upgrade"}

(* The request reaches the dispatcher only if every middleware let it      *)
(* pass: one that denies, by its action or by its result code, or that     *)
(* fails is never overruled.                                               *)
DispatchNeedsConsent ==
  Dispatched => \A j \in Middlewares : verdict[j] = "continue"

(* A middleware without body_access never reads a body: not the client's,  *)
(* not one rewritten by another middleware, and not the response's, in any *)
(* of the forms of the response phase, although its instance is reused.    *)
BodyConfined ==
  \A j \in Middlewares \ access : read[j] = {}

(* Whoever wrote the body that the dispatcher or the client receives had   *)
(* body_access; the one exception is the response of the middleware that   *)
(* short-circuited.                                                        *)
BodyAuthored ==
  /\ held_body \in access \cup {0, NoBody, Dispatcher}
  /\ \/ reply.body \in access \cup {NoBody, Dispatcher}
     \/ \E j \in Middlewares : reply.body = j /\ verdict[j] = "deny"

(* The last middleware of the response phase: the dispatcher's neighbour,  *)
(* or the one before the middleware that short-circuited.                  *)
Top == IF \E j \in Middlewares : verdict[j] = "deny"
       THEN (CHOOSE j \in Middlewares : verdict[j] = "deny") - 1
       ELSE N

(* on_response runs in reverse order of on_request, exactly once for each  *)
(* middleware that continued, and never for the one that short-circuited:  *)
(* completely for a buffered response, and a prefix of it otherwise.       *)
ReverseOrder ==
  /\ Len(responded) =< Top
  /\ \A k \in 1 .. Len(responded) : responded[k] = Top + 1 - k
  /\ stage = "done" /\ reply.kind \in {"plugin", "upgrade"} => Len(responded) = Top

(* Once on_response has been called the client gets a response of the      *)
(* plugins, however many of these calls trap; the one exception is a       *)
(* short-circuit whose metadata no longer parses.                          *)
ResponsePhaseFaultTolerant ==
  reply.kind = "error" /\ responded /= <<>> =>
    ~parses /\ \E j \in Middlewares : verdict[j] = "deny"

(* The metadata and the body of the client's response belong together: the *)
(* body of a response that falls back to the dispatcher's is the           *)
(* dispatcher's.                                                           *)
FallbackIsWhole ==
  stage = "done" /\ reply.kind = "plugin" /\ ~parses => reply.body \in {NoBody, Dispatcher}

(* Bodies are read and written only by those who may. *)
BodyRules == BodyConfined /\ BodyAuthored

(* The two phases of the chain: nobody is overruled in the first, and the  *)
(* second mirrors it, bears faults and ends in one whole response.         *)
PhaseRules ==
  DispatchNeedsConsent /\ ReverseOrder /\ ResponsePhaseFaultTolerant /\ FallbackIsWhole

=============================================================================
