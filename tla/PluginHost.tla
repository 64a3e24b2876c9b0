----------------------------- MODULE PluginHost -----------------------------
(***************************************************************************)
(* The host's side of a plugin instance (instance.rs): the PluginState     *)
(* attached to its store and what each host function does to it.           *)
(*                                                                         *)
(* An optional value is a set of at most one element.  A host function     *)
(* returns the new state and a code: 1 when a result waits in a slot, 0    *)
(* for success without one, -1 for failure.  The arguments a plugin hands  *)
(* over lie within its memory and are UTF-8.                               *)
(***************************************************************************)
EXTENDS Dispatchers

CONSTANT max_execution_ms   \* budget of a guest between two host calls

ASSUME BudgetAssumption == max_execution_ms \in Nat \ {0}

Channels == {"context", "http", "secret", "cache", "broker", "uuid"}

(* PluginState::with_all_options; `guest` is what the plugin itself keeps  *)
(* in its memory.                                                          *)
PluginState(name, secrets) ==
  [name |-> name, secrets |-> secrets, values |-> <<>>, output |-> {},
   slot |-> [c \in Channels |-> {}], request_body |-> {}, output_body |-> <<>>,
   http_request_body |-> {}, http_response_body |-> {}, ws_upgrade_request |-> {},
   deadline |-> 0, guest |-> {}]

(* SecretsStore::scoped: only what the plugin's own configuration names. *)
scoped(store, refs) == [ref \in DOMAIN store \cap refs |-> store[ref]]

(* InstancePool::get_instance: a new instance, with its own view of the    *)
(* secrets.                                                                *)
get_instance(pool, name) ==
  PluginState(name, scoped(pool.secrets, IF name \in DOMAIN pool.refs THEN pool.refs[name] ELSE {}))

Ret(state, code) == [state |-> state, code |-> code]

(* set_context, set_request_body and call_handler: the output is cleared   *)
(* and the time budget starts again.                                       *)
call_handler(s, context, body, at) ==
  [s EXCEPT !.output = {}, !.values = context, !.request_body = body,
            !.deadline = at + max_execution_ms]

(* The epoch clock has reached the deadline while guest code runs. *)
Overrun(s, at) == at >= s.deadline

(* After blocking I/O the guest gets a whole budget. *)
Refresh(s, at) == [s EXCEPT !.deadline = at + max_execution_ms]

-----------------------------------------------------------------------------
(* Slots, bodies and context *)

(* add_read_result_fn: reading takes the result away. *)
read_result(s, c) == [state |-> [s EXCEPT !.slot[c] = {}], data |-> s.slot[c]]

host_set_output(s, output) == [s EXCEPT !.output = {output}]

(* SDK read_request_body: host_body_len, then host_body_read, which takes. *)
read_request_body(s) == [state |-> [s EXCEPT !.request_body = {}], data |-> s.request_body]

host_body_set(s, body) == [s EXCEPT !.output_body = <<{body}>>]

host_body_clear(s) == [s EXCEPT !.output_body = <<{}>>]

(* The macros write the body of what the plugin returns, or clear it. *)
write_body(s, body) ==
  IF body = {} THEN host_body_clear(s) ELSE host_body_set(s, CHOOSE b \in body : TRUE)

(* BodyAccessControl::prepare_instance and collect_after *)
prepare_body(held, body_access) == IF body_access THEN held ELSE {}

collect_after(s, held, body_access) ==
  IF body_access /\ s.output_body /= <<>> THEN s.output_body[1] ELSE held

host_context_get(s, key) ==
  IF key \in DOMAIN s.values THEN Ret([s EXCEPT !.slot["context"] = {s.values[key]}], 1)
  ELSE Ret(s, -1)

host_context_set(s, key, value) == [s EXCEPT !.values = Put(s.values, key, value)]

host_uuid_generate(s, uuid) == Ret([s EXCEPT !.slot["uuid"] = {uuid}], 1)

host_get_secret(s, ref) ==
  IF ref \in DOMAIN s.secrets THEN Ret([s EXCEPT !.slot["secret"] = {s.secrets[ref]}], 1)
  ELSE Ret(s, -1)

(* A request without a url does not parse: the message is left in the http *)
(* slot.  Whether the url makes sense shows when the host connects.        *)
host_ws_upgrade(s, request) ==
  IF "url" \notin DOMAIN request THEN Ret([s EXCEPT !.slot["http"] = {[parse_error |-> request]}], -1)
  ELSE Ret([s EXCEPT !.ws_upgrade_request = {request}], 0)

take_ws_upgrade_request(s) == s.ws_upgrade_request

-----------------------------------------------------------------------------
(* Outbound HTTP *)

Empty == [kind |-> "empty"]

host_http_request_body_set(s, body) == [s EXCEPT !.http_request_body = {body}]

(* host_http_call, up to the client: the body of the side channel is used  *)
(* up.                                                                     *)
host_http_call_takes(s) == [s EXCEPT !.http_request_body = {}]

(* Mutant: a failed call leaves the body of an earlier one. *)
KeepsBody(s, head, body, at) ==
  [Refresh(s, at) EXCEPT !.slot["http"] = {head},
                         !.http_response_body = IF body = {} THEN s.http_response_body ELSE body]

(* host_http_call, back from the client: head and body in their slots. *)
host_http_call_returns(s, head, body, at) ==
  [Refresh(s, at) EXCEPT !.slot["http"] = {head}, !.http_response_body = body]

(* SDK read_http_response_body: an empty body is not read, and stays. *)
read_http_response_body(s) ==
  [state |-> IF s.http_response_body = {Empty} THEN s ELSE [s EXCEPT !.http_response_body = {}],
   data |-> s.http_response_body]

(* The problem document for an error of the client goes into the JSON of   *)
(* the result, where the SDK does not look for a body.                     *)
error_head(kind) ==
  [status |-> CASE kind = "timeout" -> 504 [] kind = "circuit_open" -> 503 [] OTHER -> 502,
   headers |-> [h \in {"content-type"} |-> "problem+json"]]

(* SDK http::call, after the host has returned. *)
http_call_result(s) ==
  LET head == read_result(s, "http")
      body == read_http_response_body(head.state)
      h == CHOOSE h \in head.data : TRUE
  IN [state |-> body.state,
      data |-> [status |-> h.status, headers |-> h.headers, body |-> body.data]]

-----------------------------------------------------------------------------
(* Shared stores *)

namespace_key(plugin_name, key) == <<plugin_name, key>>

host_cache_get(s, result) == Ret([s EXCEPT !.slot["cache"] = {result}], 1)

(* Back from the publisher, whose errors are results like any other. *)
host_kafka_publish(s, result, at) == Ret([Refresh(s, at) EXCEPT !.slot["broker"] = {result}], 1)

host_nats_publish(s, result, at) == Ret([Refresh(s, at) EXCEPT !.slot["broker"] = {result}], 1)

=============================================================================
