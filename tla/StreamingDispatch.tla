-------------------------- MODULE StreamingDispatch --------------------------
(***************************************************************************)
(* The race between a dispatcher plugin and the task that waits for it:    *)
(* `dispatch_wasm_plugin_inner` (crates/barbacane/src/main.rs) runs the    *)
(* plugin on a blocking thread and polls, in one biased select, a channel  *)
(* of stream events and the thread's completion.  `host_http_stream`       *)
(* (crates/barbacane-wasm/src/instance.rs) feeds the channel.  The plugin  *)
(* is ai-proxy with its chain of fallback targets, the one dispatcher of   *)
(* the repository that streams (plugins/ai-proxy/src/lib.rs).              *)
(*                                                                         *)
(* A chunk is the pair of the target it comes from and its number.  The    *)
(* middlewares themselves are in MiddlewareChain.                          *)
(***************************************************************************)
EXTENDS Naturals, Sequences

CONSTANTS
  T,         \* number of targets: the primary and its fallbacks
  MaxChunks  \* bound on the chunks of one upstream response

ASSUME TargetAssumption == T \in Nat \ {0} /\ MaxChunks \in Nat

Targets == 1 .. T

VARIABLES
  wasm,      \* where the plugin's thread is
  target,    \* the target being tried
  chunk,     \* chunks received from it
  stream,    \* events in the channel
  closed,    \* is the sender dropped?
  result,    \* what dispatch returns
  last_http, \* PluginState.last_http_result is there
  handler,   \* where dispatch_wasm_plugin_inner is
  answer,    \* the response for the client
  client,    \* the client's view of a streamed body
  received,  \* chunks the client has received
  observer,  \* the background task of a streamed response
  sent,      \* history: chunks sent into the channel
  broken     \* history: targets that failed after their headers were sent

streamVars == <<wasm, target, chunk, stream, closed, result, last_http, handler, answer,
                client, received, observer, sent, broken>>

plugin == <<wasm, target, chunk, closed, result, last_http, sent, broken>>
serving == <<handler, answer, client, received, observer>>

Headers(t) == [kind |-> "headers", of |-> <<t, 0>>]
Chunk(t, n) == [kind |-> "chunk", of |-> <<t, n>>]

(* The channel's receiver is dropped with the client's connection. *)
Push(e) == stream' = IF client = "gone" THEN stream ELSE Append(stream, e)

StreamInit ==
  /\ wasm = "attempt" /\ target = 1 /\ chunk = 0
  /\ stream = <<>> /\ closed = FALSE
  /\ result = "none" /\ last_http = FALSE
  /\ handler = "poll_stream" /\ answer = "none"
  /\ client = "open" /\ received = <<>> /\ observer = "none"
  /\ sent = <<>> /\ broken = {}

-----------------------------------------------------------------------------
(* The plugin's thread: AiProxy::dispatch, host_http_stream *)

Return(r) == wasm' = "returning" /\ result' = r

(* Err(e): the next target, or a 502 after the last one. *)
NextTarget ==
  IF target < T
  THEN /\ target' = target + 1 /\ wasm' = "attempt"
       /\ UNCHANGED result
  ELSE Return("response") /\ UNCHANGED target

(* stream_raw answers, with any status: Headers go to the channel. *)
Connect ==
  /\ wasm = "attempt"
  /\ Push(Headers(target))
  /\ wasm' = "streaming" /\ chunk' = 0
  /\ UNCHANGED <<target, closed, result, last_http, sent, broken, serving>>

(* stream_raw fails, or a target that is called without streaming fails or *)
(* answers 5xx with targets left.                                          *)
AttemptFails ==
  /\ wasm = "attempt"
  /\ NextTarget
  /\ UNCHANGED <<chunk, stream, closed, last_http, sent, broken, serving>>

(* A target that is called without streaming: its response is returned. *)
CallReturns ==
  /\ wasm = "attempt"
  /\ Return("response")
  /\ UNCHANGED <<target, chunk, stream, closed, last_http, sent, broken, serving>>

PushChunk ==
  /\ wasm = "streaming" /\ chunk < MaxChunks
  /\ chunk' = chunk + 1
  /\ Push(Chunk(target, chunk'))
  /\ sent' = Append(sent, <<target, chunk'>>)
  /\ UNCHANGED <<wasm, target, closed, result, last_http, broken, serving>>

(* Mutant: a streamed 5xx is retried as well. *)
UpstreamEndsRetried ==
  /\ wasm = "streaming"
  /\ last_http' = TRUE
  /\ NextTarget
  /\ UNCHANGED <<chunk, stream, closed, sent, broken, serving>>

(* The upstream body is complete: streamed_response(), status 0. *)
UpstreamEnds ==
  /\ wasm = "streaming"
  /\ last_http' = TRUE
  /\ Return("sentinel")
  /\ UNCHANGED <<target, chunk, stream, closed, sent, broken, serving>>

(* Read error in the middle of the body: host_http_stream returns -1 and   *)
(* the plugin takes its next target.                                       *)
UpstreamBreaks ==
  /\ wasm = "streaming"
  /\ broken' = broken \cup {target}
  /\ NextTarget
  /\ UNCHANGED <<chunk, stream, closed, last_http, sent, serving>>

(* The plugin reads the HTTP result: host_http_read_result takes it. *)
ReadResult ==
  /\ wasm = "returning" /\ last_http
  /\ last_http' = FALSE
  /\ UNCHANGED <<wasm, target, chunk, stream, closed, result, sent, broken, serving>>

(* The plugin traps, or its thread panics. *)
Trap ==
  /\ wasm \in {"attempt", "returning"} /\ result /= "trap"
  /\ Return("trap")
  /\ UNCHANGED <<target, chunk, stream, closed, last_http, sent, broken, serving>>

(* Mutant: a clone of the sender outlives the instance. *)
DropInstanceLeaksSender ==
  /\ wasm = "returning"
  /\ wasm' = "dropped" /\ UNCHANGED closed
  /\ UNCHANGED <<target, chunk, stream, result, last_http, sent, broken, serving>>

(* The closure returns: the instance and its sender are dropped, and then  *)
(* the JoinHandle is ready.                                                *)
DropInstance ==
  /\ wasm = "returning"
  /\ wasm' = "dropped" /\ closed' = TRUE
  /\ UNCHANGED <<target, chunk, stream, result, last_http, sent, broken, serving>>

Finish ==
  /\ wasm = "dropped"
  /\ wasm' = "finished"
  /\ UNCHANGED <<target, chunk, stream, closed, result, last_http, sent, broken, serving>>

-----------------------------------------------------------------------------
(* The task: select, biased towards stream_rx.recv() *)

(* The first event is taken; it is always Headers. *)
TakeHeaders ==
  /\ handler = "poll_stream" /\ stream /= <<>>
  /\ stream' = Tail(stream)
  /\ handler' = "done" /\ answer' = "streamed" /\ observer' = "waiting"
  /\ UNCHANGED <<plugin, client, received>>

(* recv() returns None: fall back to awaiting the thread. *)
ChannelClosed ==
  /\ handler = "poll_stream" /\ stream = <<>> /\ closed
  /\ handler' = "await"
  /\ UNCHANGED <<plugin, stream, answer, client, received, observer>>

StreamPending ==
  /\ handler = "poll_stream" /\ stream = <<>> /\ ~closed
  /\ handler' = "poll_wasm"
  /\ UNCHANGED <<plugin, stream, answer, client, received, observer>>

PollWasm ==
  /\ handler = "poll_wasm"
  /\ handler' = IF wasm = "finished" THEN "buffered" ELSE "parked"
  /\ UNCHANGED <<plugin, stream, answer, client, received, observer>>

(* An event, the closed channel or the thread's completion wakes the task. *)
Wake ==
  /\ handler = "parked" /\ (stream /= <<>> \/ closed)
  /\ handler' = "poll_stream"
  /\ UNCHANGED <<plugin, stream, answer, client, received, observer>>

AwaitWasm ==
  /\ handler = "await" /\ wasm = "finished"
  /\ handler' = "buffered"
  /\ UNCHANGED <<plugin, stream, answer, client, received, observer>>

(* The buffered path; stream_rx is dropped when the function returns. *)
AnswerBuffered ==
  /\ handler = "buffered"
  /\ answer' = IF result = "response" THEN "buffered" ELSE "error"
  /\ handler' = "done" /\ stream' = <<>>
  /\ UNCHANGED <<plugin, client, received, observer>>

-----------------------------------------------------------------------------
(* The streamed body, the client, and the background task *)

(* Mutant: an event that is not a chunk takes the next one with it. *)
DeliverSkips ==
  /\ answer = "streamed" /\ client = "open" /\ stream /= <<>>
  /\ IF Head(stream).kind = "chunk"
     THEN received' = Append(received, Head(stream).of) /\ stream' = Tail(stream)
     ELSE UNCHANGED received /\ stream' = SubSeq(stream, 3, Len(stream))
  /\ UNCHANGED <<plugin, handler, answer, client, observer>>

(* Chunk events become body frames; further Headers are skipped. *)
Deliver ==
  /\ answer = "streamed" /\ client = "open" /\ stream /= <<>>
  /\ received' = IF Head(stream).kind = "chunk"
                 THEN Append(received, Head(stream).of) ELSE received
  /\ stream' = Tail(stream)
  /\ UNCHANGED <<plugin, handler, answer, client, observer>>

(* Sender dropped - stream complete. *)
EndOfStream ==
  /\ answer = "streamed" /\ client = "open" /\ stream = <<>> /\ closed
  /\ client' = "complete"
  /\ UNCHANGED <<plugin, stream, handler, answer, received, observer>>

(* The client goes away: the response body, and with it stream_rx, is      *)
(* dropped; sends into the channel fail and are ignored.                   *)
ClientLeaves ==
  /\ answer = "streamed" /\ client = "open"
  /\ client' = "gone" /\ stream' = <<>>
  /\ UNCHANGED <<plugin, handler, answer, received, observer>>

(* on_response runs if the dispatch succeeded and left its HTTP result. *)
Observe ==
  /\ observer = "waiting" /\ wasm = "finished"
  /\ observer' = IF result /= "trap" /\ last_http THEN "observed" ELSE "skipped"
  /\ UNCHANGED <<plugin, stream, handler, answer, client, received>>

-----------------------------------------------------------------------------
Plugin ==
  \/ Connect \/ AttemptFails \/ CallReturns \/ PushChunk \/ UpstreamEnds
  \/ UpstreamBreaks \/ Trap \/ ReadResult \/ DropInstance \/ Finish

Handler ==
  \/ TakeHeaders \/ ChannelClosed \/ StreamPending \/ PollWasm \/ Wake
  \/ AwaitWasm \/ AnswerBuffered

Body == Deliver \/ EndOfStream

StreamTerminated ==
  /\ wasm = "finished" /\ handler = "done" /\ observer /= "waiting"
  /\ answer = "streamed" => client /= "open"
  /\ UNCHANGED streamVars

StreamNext == Plugin \/ Handler \/ Body \/ ClientLeaves \/ Observe \/ StreamTerminated

StreamSpec == StreamInit /\ [][StreamNext]_streamVars

(* The task and the thread run.  An upstream body ends: the HTTP client's  *)
(* timeout covers it.                                                      *)
FairSpec ==
  /\ StreamSpec
  /\ WF_streamVars(Plugin) /\ WF_streamVars(Handler)
  /\ WF_streamVars(Body) /\ WF_streamVars(Observe)

-----------------------------------------------------------------------------
(* Properties *)

Chunks == Targets \X (1 .. MaxChunks)

StreamTypeOK ==
  /\ wasm \in {"attempt", "streaming", "returning", "dropped", "finished"}
  /\ target \in Targets /\ chunk \in 0 .. MaxChunks
  /\ stream \in Seq([kind : {"headers"}, of : Targets \X {0}] \cup [kind : {"chunk"}, of : Chunks])
  /\ closed \in BOOLEAN
  /\ result \in {"none", "response", "sentinel", "trap"}
  /\ last_http \in BOOLEAN
  /\ handler \in {"poll_stream", "poll_wasm", "parked", "await", "buffered", "done"}
  /\ answer \in {"none", "streamed", "buffered", "error"}
  /\ client \in {"open", "complete", "gone"}
  /\ received \in Seq(Chunks)
  /\ observer \in {"none", "waiting", "observed", "skipped"}
  /\ sent \in Seq(Chunks)
  /\ broken \subseteq Targets

(* Positions in the channel of what it still holds of the body. *)
Pending == {i \in 1 .. Len(stream) : stream[i].kind = "chunk"}

(* While the client stays, what it has received and what is in the channel *)
(* is exactly what was read from the upstreams: nothing is lost, repeated  *)
(* or reordered, and the body ends only when all of it was delivered.      *)
BodyFaithful ==
  /\ answer = "streamed" /\ client /= "gone" =>
       /\ received = SubSeq(sent, 1, Len(received))
       /\ {stream[i].of : i \in Pending} = {sent[k] : k \in Len(received) + 1 .. Len(sent)}
       /\ \A i, j \in Pending, k, l \in 1 .. Len(sent) :
            i < j /\ stream[i].of = sent[k] /\ stream[j].of = sent[l] => k < l
  /\ client = "complete" => received = sent /\ closed

(* A client receives chunks of two upstreams only if the first of them     *)
(* failed in the middle of its body, and then one after the other.         *)
MixedNeedsBreak ==
  \A m, n \in 1 .. Len(received) : m < n =>
    /\ received[m][1] =< received[n][1]
    /\ received[m][1] < received[n][1] => received[m][1] \in broken

(* The middlewares are shown only the response of an upstream that sent    *)
(* all of its body.                                                        *)
ObservedIsComplete == observer = "observed" => target \notin broken /\ result = "sentinel"

(* What of a broken upstream gets out. *)
BrokenIsContained == MixedNeedsBreak /\ ObservedIsComplete

(* Every dispatch is answered, however plugin and task are interleaved. *)
Answered == <>(answer /= "none")

(* The body of a streamed response comes to its end, and so does the task  *)
(* that runs on_response for it.                                           *)
StreamEnds == answer = "streamed" ~> (client /= "open" /\ observer \in {"observed", "skipped"})

(* Neither the client nor the tasks wait for ever. *)
DispatchEnds == Answered /\ StreamEnds

=============================================================================
