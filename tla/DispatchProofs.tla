---------------------------- MODULE DispatchProofs ----------------------------
(***************************************************************************)
(* Proofs about the way of a request through its plugins.                  *)
(*                                                                         *)
(* The first part is about MiddlewareChain, for chains of any length.      *)
(*                                                                         *)
(* The second is about StreamingDispatch, for any number of targets and    *)
(* chunks and any interleaving of the plugin's thread, the task and the    *)
(* client.  The body is faithful because three things go together.  The    *)
(* plugin sends its chunks in the order of targets and numbers (SentInv);  *)
(* the channel keeps that order and what the client has is a prefix of it  *)
(* (ChannelInv); and the task takes nothing but headers out of the channel *)
(* itself, because they come first (HandlerInv).                           *)
(*                                                                         *)
(* The third is about AiGateway, for any chain, any providers and any      *)
(* number of concurrent requests that share budgets.  A request is judged  *)
(* by itself (RequestOK), because what the others do to the budgets can    *)
(* refuse it a unit but not change its context.  A limit charges what it   *)
(* should because its partition and the reported tokens stay in the        *)
(* context on the way back (BudgetOK), and a fallback is justified because *)
(* the targets left and the calls made always add up (TargetsOK).          *)
(***************************************************************************)
EXTENDS MiddlewareChain, StreamingDispatch, AiGateway, FiniteSetTheorems, SequenceTheorems, TLAPS

-----------------------------------------------------------------------------
(* The middleware chain. *)

(* Where the request is determines which middlewares have spoken. *)
PhaseInv ==
  /\ stage = "create" => i > 0 /\ \A j \in Middlewares : verdict[j] = "none"
  /\ stage = "request" =>
       /\ i \in Middlewares
       /\ \A j \in Middlewares : verdict[j] = IF j < i THEN "continue" ELSE "none"
  /\ stage = "partial" => \E j \in Middlewares : verdict[j] = "deny"
  /\ stage \in {"create", "request", "dispatch"} => responded = <<>>
  /\ stage \notin {"observe", "done"} => reply = NoReply
  /\ stage = "observe" => reply.kind = "streamed"
  /\ \A j, k \in Middlewares : verdict[j] = "deny" /\ verdict[k] = "deny" => j = k

(* Where the bodies in flight come from. *)
BodyInv ==
  /\ \A j \in Middlewares \ access : request_body[j] = NoBody
  /\ \A j \in Middlewares : output_body[j] \in {Unset, NoBody, j}
  /\ held_body \in access \cup {0, NoBody, Dispatcher}
  /\ stage \in {"response", "upgrade"} => held_body \in access \cup {NoBody, Dispatcher}
  /\ stage = "response" => aside \in {NoBody, Dispatcher}
  /\ stage = "partial" =>
       aside = NoBody \/ \E j \in Middlewares : aside = j /\ verdict[j] = "deny"

(* How far the response phase is. *)
OrderInv ==
  /\ stage \in {"partial", "response", "observe", "upgrade"} => i = Top - Len(responded)
  /\ Len(responded) =< Top
  /\ \A k \in 1 .. Len(responded) : responded[k] = Top + 1 - k

ChainInv ==
  /\ TypeOK /\ PhaseInv /\ BodyInv /\ OrderInv
  /\ DispatchNeedsConsent /\ BodyConfined /\ BodyAuthored /\ ReverseOrder
  /\ ResponsePhaseFaultTolerant /\ FallbackIsWhole

-----------------------------------------------------------------------------
(* parse_middleware_output never overrules the plugin. *)
LEMMA ParseHonoursSignal ==
  ASSUME NEW out \in Outputs, NEW code \in Codes
  PROVE  /\ Parse(out, code) = "continue" => Signal(out, code) = "continue"
         /\ Parse(out, code) = "short" => Signal(out, code) = "deny"
BY DEF Outputs, Codes, Parse, Signal

(* The response phase starts below the middleware that denied, if any. *)
LEMMA TopOfChain ==
  ASSUME TypeOK, PhaseInv
  PROVE  /\ Top \in Int /\ Top =< N /\ Top >= 0
         /\ \A j \in Middlewares : verdict[j] = "deny" => Top = j - 1
         /\ (\A j \in Middlewares : verdict[j] /= "deny") => Top = N
<1>1. CASE \A j \in Middlewares : verdict[j] /= "deny"
  <2>1. Top = N
    BY <1>1 DEF Top
  <2> QED
    BY <1>1, <2>1, ChainAssumption
<1>2. CASE \E j \in Middlewares : verdict[j] = "deny"
  <2>1. PICK d \in Middlewares : verdict[d] = "deny"
    BY <1>2
  <2>2. (CHOOSE j \in Middlewares : verdict[j] = "deny") = d
    BY <2>1 DEF PhaseInv
  <2>3. Top = d - 1
    BY <1>2, <2>2 DEF Top
  <2> QED
    BY <2>1, <2>3, ChainAssumption DEF Middlewares, PhaseInv
<1> QED
  BY <1>1, <1>2

(* The initial states satisfy the invariant. *)
LEMMA ChainInit == Init => ChainInv
<1> SUFFICES ASSUME Init PROVE ChainInv
  OBVIOUS
<1>1. TypeOK
  BY ChainAssumption DEF Init, TypeOK, Stages, Bodies, NoReply, Middlewares, NoBody, Unset
<1>2. PhaseInv
  BY DEF Init, PhaseInv
<1>3. Top = N
  BY DEF Init, Top
<1>4. OrderInv /\ ReverseOrder
  BY <1>3, ChainAssumption DEF Init, OrderInv, ReverseOrder, NoReply
<1>5. BodyInv /\ BodyConfined /\ BodyAuthored
  BY DEF Init, BodyInv, BodyConfined, BodyAuthored, NoReply
<1>6. DispatchNeedsConsent /\ ResponsePhaseFaultTolerant /\ FallbackIsWhole
  BY DEF Init, DispatchNeedsConsent, Dispatched, ResponsePhaseFaultTolerant,
         FallbackIsWhole, NoReply
<1> QED
  BY <1>1, <1>2, <1>4, <1>5, <1>6 DEF ChainInv

(* Reading from a side channel keeps the types. *)
LEMMA ReadSomeTypes ==
  ASSUME TypeOK, NEW j \in Middlewares, NEW b \in Bodies, NEW reads \in BOOLEAN,
         ReadSome(j, b, reads)
  PROVE  /\ request_body' \in [Middlewares -> Bodies]
         /\ read' \in [Middlewares -> SUBSET Bodies]
<1>1. request_body' \in [Middlewares -> Bodies]
  BY ChainAssumption DEF ReadSome, TypeOK, Bodies, NoBody
<1>2. read' \in [Middlewares -> SUBSET Bodies]
  BY DEF ReadSome, TypeOK
<1> QED
  BY <1>1, <1>2

(* A side channel out of j holds nothing, None or a body written by j. *)
LEMMA WrittenTypes ==
  ASSUME BodyInv, NEW j \in Middlewares, NEW w \in Writes
  PROVE  Written(j, w) \in {Unset, NoBody, j}
BY DEF BodyInv, Written, Writes

(* Collecting from j changes the held body only if j has body access. *)
LEMMA CollectTypes ==
  ASSUME TypeOK, NEW j \in Middlewares, NEW b \in {Unset, NoBody, j}, Collect(j, b)
  PROVE  /\ output_body' = [output_body EXCEPT ![j] = IF j \in access THEN Unset ELSE b]
         /\ held_body' \in {held_body, NoBody} \cup access
BY DEF Collect

(* One step of any actor preserves it. *)
LEMMA ChainStep == ChainInv /\ [Next]_vars => ChainInv'
<1> SUFFICES ASSUME ChainInv, [Next]_vars PROVE ChainInv'
  OBVIOUS
<1> USE ChainAssumption
<1>h. TypeOK /\ PhaseInv /\ BodyInv /\ OrderInv
      /\ DispatchNeedsConsent /\ BodyConfined /\ BodyAuthored /\ ReverseOrder
      /\ ResponsePhaseFaultTolerant /\ FallbackIsWhole
  BY DEF ChainInv
<1>t. /\ Top \in Int /\ Top =< N /\ Top >= 0
      /\ \A j \in Middlewares : verdict[j] = "deny" => Top = j - 1
      /\ (\A j \in Middlewares : verdict[j] /= "deny") => Top = N
  BY <1>h, TopOfChain
<1>1. CASE CreateInstance
  <2>v. Top' = Top
    BY <1>1 DEF CreateInstance, Top
  <2>1. TypeOK'
    BY <1>1, <1>h
       DEF CreateInstance, TypeOK, Stages, Bodies, NoReply, Error, PhaseInv,
           Middlewares, NoBody, Unset, Dispatcher, channels
  <2>2. PhaseInv' /\ OrderInv' /\ ReverseOrder'
    BY <1>1, <1>h, <1>t, <2>v
       DEF CreateInstance, TypeOK, Stages, Bodies, NoReply, Error, PhaseInv,
           OrderInv, ReverseOrder, Middlewares, NoBody, Unset, Dispatcher,
           channels
  <2>3. BodyInv' /\ BodyConfined' /\ BodyAuthored'
    BY <1>1, <1>h
       DEF CreateInstance, TypeOK, Stages, Bodies, NoReply, Error, PhaseInv,
           BodyInv, BodyConfined, BodyAuthored, Middlewares, NoBody, Unset,
           Dispatcher, channels
  <2>4. DispatchNeedsConsent' /\ ResponsePhaseFaultTolerant' /\ FallbackIsWhole'
    BY <1>1, <1>h
       DEF CreateInstance, TypeOK, Stages, Bodies, NoReply, Error, PhaseInv,
           DispatchNeedsConsent, Dispatched, ResponsePhaseFaultTolerant,
           BodyInv, FallbackIsWhole, Middlewares, NoBody, Unset, Dispatcher,
           channels
  <2> QED
    BY <2>1, <2>2, <2>3, <2>4 DEF ChainInv
<1>2. CASE CreateFails
  <2>v. Top' = Top
    BY <1>2 DEF CreateFails, Top
  <2>1. TypeOK'
    BY <1>2, <1>h
       DEF CreateFails, TypeOK, Stages, Bodies, NoReply, Error, PhaseInv,
           Middlewares, NoBody, Unset, Dispatcher, channels
  <2>2. PhaseInv' /\ OrderInv' /\ ReverseOrder'
    BY <1>2, <1>h, <1>t, <2>v
       DEF CreateFails, TypeOK, Stages, Bodies, NoReply, Error, PhaseInv,
           OrderInv, ReverseOrder, Middlewares, NoBody, Unset, Dispatcher,
           channels
  <2>3. BodyInv' /\ BodyConfined' /\ BodyAuthored'
    BY <1>2, <1>h
       DEF CreateFails, TypeOK, Stages, Bodies, NoReply, Error, PhaseInv,
           BodyInv, BodyConfined, BodyAuthored, Middlewares, NoBody, Unset,
           Dispatcher, channels
  <2>4. DispatchNeedsConsent' /\ ResponsePhaseFaultTolerant' /\ FallbackIsWhole'
    BY <1>2, <1>h
       DEF CreateFails, TypeOK, Stages, Bodies, NoReply, Error, PhaseInv,
           DispatchNeedsConsent, Dispatched, ResponsePhaseFaultTolerant,
           BodyInv, FallbackIsWhole, Middlewares, NoBody, Unset, Dispatcher,
           channels
  <2> QED
    BY <2>1, <2>2, <2>3, <2>4 DEF ChainInv
<1>3. CASE StartChain
  <2>v. Top' = Top
    BY <1>3 DEF StartChain, Top
  <2>1. TypeOK'
    BY <1>3, <1>h
       DEF StartChain, TypeOK, Stages, Bodies, NoReply, Error, PhaseInv,
           Middlewares, NoBody, Unset, Dispatcher, channels
  <2>2. PhaseInv' /\ OrderInv' /\ ReverseOrder'
    BY <1>3, <1>h, <1>t, <2>v
       DEF StartChain, TypeOK, Stages, Bodies, NoReply, Error, PhaseInv,
           OrderInv, ReverseOrder, Middlewares, NoBody, Unset, Dispatcher,
           channels
  <2>3. BodyInv' /\ BodyConfined' /\ BodyAuthored'
    BY <1>3, <1>h
       DEF StartChain, TypeOK, Stages, Bodies, NoReply, Error, PhaseInv,
           BodyInv, BodyConfined, BodyAuthored, Middlewares, NoBody, Unset,
           Dispatcher, channels
  <2>4. DispatchNeedsConsent' /\ ResponsePhaseFaultTolerant' /\ FallbackIsWhole'
    BY <1>3, <1>h
       DEF StartChain, TypeOK, Stages, Bodies, NoReply, Error, PhaseInv,
           DispatchNeedsConsent, Dispatched, ResponsePhaseFaultTolerant,
           BodyInv, FallbackIsWhole, Middlewares, NoBody, Unset, Dispatcher,
           channels
  <2> QED
    BY <2>1, <2>2, <2>3, <2>4 DEF ChainInv
<1>4. CASE OnRequestContinue
  <2>s. /\ stage = "request" /\ i \in Middlewares
        /\ verdict' = [verdict EXCEPT ![i] = "continue"]
    BY <1>4, <1>h, ParseHonoursSignal DEF OnRequestContinue, PhaseInv
  <2>b. Prepared(i) \in Bodies
    BY <2>s, <1>h, ChainAssumption DEF Prepared, TypeOK, Bodies, NoBody
  <2>c. /\ request_body' \in [Middlewares -> Bodies]
        /\ read' \in [Middlewares -> SUBSET Bodies]
    BY <1>4, <2>s, <2>b, <1>h, ReadSomeTypes DEF OnRequestContinue
  <2>d. PICK b \in {Unset, NoBody, i} :
          /\ output_body' = [output_body EXCEPT ![i] = b]
          /\ held_body' \in {held_body, NoBody} \cup access
    BY <1>4, <2>s, <1>h, WrittenTypes, CollectTypes DEF OnRequestContinue
  <2>1. TypeOK'
    BY SMTT(60), <1>4, <2>s, <1>h, <2>d, <2>c
       DEF OnRequestContinue, Middlewares, NoBody, Unset, Dispatcher,
           Bodies, channels, TypeOK, Stages, NoReply, Error, PhaseInv
  <2>2. PhaseInv'
    BY <1>4, <2>s, <1>h
       DEF OnRequestContinue, Middlewares, NoBody, Unset, Dispatcher,
           Bodies, channels, TypeOK, Stages, NoReply, Error, PhaseInv
  <2>3. BodyInv'
    BY <1>4, <2>s, <1>h, <2>d
       DEF OnRequestContinue, ReadSome, Prepared, Middlewares, NoBody,
           Unset, Dispatcher, Bodies, channels, TypeOK, Stages, NoReply,
           Error, PhaseInv, BodyInv
  <2>v. Top' = N /\ Top = N
    BY <1>4, <2>s, <1>h, <1>t DEF Top, TypeOK, PhaseInv, Middlewares
  <2>4. OrderInv'
    BY <1>4, <2>s, <1>h, <1>t, <2>v
       DEF OnRequestContinue, Middlewares, NoBody, Unset, Dispatcher,
           Bodies, channels, TypeOK, Stages, NoReply, Error, PhaseInv,
           OrderInv
  <2>5. DispatchNeedsConsent'
    BY <1>4, <2>s, <1>h
       DEF OnRequestContinue, Middlewares, NoBody, Unset, Dispatcher,
           Bodies, channels, TypeOK, Stages, NoReply, Error, PhaseInv,
           DispatchNeedsConsent, Dispatched
  <2>6. BodyConfined'
    BY <1>4, <2>s, <1>h
       DEF OnRequestContinue, Prepared, ReadSome, Written, Collect,
           Middlewares, NoBody, Unset, Dispatcher, Bodies, channels, TypeOK,
           Stages, NoReply, Error, BodyInv, BodyConfined
  <2>7. BodyAuthored'
    BY <1>4, <2>s, <1>h, <2>d
       DEF OnRequestContinue, Middlewares, NoBody, Unset, Dispatcher,
           Bodies, channels, TypeOK, Stages, NoReply, Error, PhaseInv,
           BodyInv, BodyAuthored
  <2>8. ReverseOrder'
    BY <1>4, <2>s, <1>h, <1>t, <2>v
       DEF OnRequestContinue, Middlewares, NoBody, Unset, Dispatcher,
           Bodies, channels, TypeOK, Stages, NoReply, Error, PhaseInv,
           OrderInv, ReverseOrder
  <2>9. ResponsePhaseFaultTolerant'
    BY <1>4, <2>s, <1>h
       DEF OnRequestContinue, Middlewares, NoBody, Unset, Dispatcher,
           Bodies, channels, TypeOK, Stages, NoReply, Error, PhaseInv,
           ResponsePhaseFaultTolerant
  <2>10. FallbackIsWhole'
    BY <1>4, <2>s, <1>h
       DEF OnRequestContinue, Middlewares, NoBody, Unset, Dispatcher,
           Bodies, channels, TypeOK, Stages, NoReply, Error, PhaseInv,
           BodyInv, FallbackIsWhole
  <2> QED
    BY <2>1, <2>2, <2>3, <2>4, <2>5, <2>6, <2>7, <2>8, <2>9, <2>10 DEF ChainInv
<1>5. CASE ShortCircuit
  <2>s. /\ stage = "request" /\ i \in Middlewares
        /\ verdict' = [verdict EXCEPT ![i] = "deny"]
    BY <1>5, <1>h, ParseHonoursSignal DEF ShortCircuit, PhaseInv
  <2>b. Prepared(i) \in Bodies
    BY <2>s, <1>h, ChainAssumption DEF Prepared, TypeOK, Bodies, NoBody
  <2>c. /\ request_body' \in [Middlewares -> Bodies]
        /\ read' \in [Middlewares -> SUBSET Bodies]
    BY <1>5, <2>s, <2>b, <1>h, ReadSomeTypes DEF ShortCircuit
  <2>d. aside' \in {NoBody, i} /\ output_body' = [output_body EXCEPT ![i] = Unset]
    BY <1>5, <2>s, <1>h, WrittenTypes DEF ShortCircuit
  <2>g. aside' \in Bodies /\ output_body' \in [Middlewares -> Bodies \cup {Unset}]
    BY <2>d, <2>s, <1>h DEF TypeOK, Bodies, NoBody, Middlewares
  <2>1. TypeOK'
    <3>1. parses' \in BOOLEAN /\ i' \in 0 .. N + 1 /\ stage' = "partial"
      BY <1>5, <2>s DEF ShortCircuit, Middlewares
    <3>2. verdict' \in [Middlewares -> {"none", "continue", "deny", "fail"}]
      BY <2>s, <1>h DEF TypeOK
    <3> QED
      BY <1>5, <2>c, <2>g, <3>1, <3>2, <1>h DEF ShortCircuit, TypeOK, Stages
  <2>2. PhaseInv'
    BY <1>5, <2>s, <1>h
       DEF ShortCircuit, Middlewares, NoBody, Unset, Dispatcher, Bodies,
           channels, TypeOK, Stages, NoReply, Error, PhaseInv
  <2>3. BodyInv'
    BY <1>5, <2>s, <1>h, <2>d
       DEF ShortCircuit, ReadSome, Prepared, Middlewares, NoBody, Unset,
           Dispatcher, Bodies, channels, TypeOK, Stages, NoReply, Error,
           PhaseInv, BodyInv
  <2>u. (CHOOSE j \in Middlewares : verdict'[j] = "deny") = i
    BY <2>s, <1>h DEF TypeOK, PhaseInv, Middlewares
  <2>v. Top' = i - 1
    BY <2>s, <2>u, <1>h DEF Top, TypeOK, PhaseInv, Middlewares
  <2>4. OrderInv'
    BY <1>5, <2>s, <1>h, <1>t, <2>v
       DEF ShortCircuit, Middlewares, NoBody, Unset, Dispatcher, Bodies,
           channels, TypeOK, Stages, NoReply, Error, PhaseInv, OrderInv
  <2>5. DispatchNeedsConsent'
    BY <1>5, <2>s, <1>h
       DEF ShortCircuit, Middlewares, NoBody, Unset, Dispatcher, Bodies,
           channels, TypeOK, Stages, NoReply, Error, PhaseInv,
           DispatchNeedsConsent, Dispatched
  <2>6. BodyConfined'
    BY <1>5, <2>s, <1>h
       DEF ShortCircuit, Prepared, ReadSome, Written, Middlewares, NoBody,
           Unset, Dispatcher, Bodies, channels, TypeOK, Stages, NoReply,
           Error, BodyInv, BodyConfined
  <2>7. BodyAuthored'
    BY <1>5, <2>s, <1>h, <2>d
       DEF ShortCircuit, Middlewares, NoBody, Unset, Dispatcher, Bodies,
           channels, TypeOK, Stages, NoReply, Error, PhaseInv, BodyInv,
           BodyAuthored
  <2>8. ReverseOrder'
    BY <1>5, <2>s, <1>h, <1>t, <2>v
       DEF ShortCircuit, Middlewares, NoBody, Unset, Dispatcher, Bodies,
           channels, TypeOK, Stages, NoReply, Error, PhaseInv, OrderInv,
           ReverseOrder
  <2>9. ResponsePhaseFaultTolerant'
    BY <1>5, <2>s, <1>h
       DEF ShortCircuit, Middlewares, NoBody, Unset, Dispatcher, Bodies,
           channels, TypeOK, Stages, NoReply, Error, PhaseInv,
           ResponsePhaseFaultTolerant
  <2>10. FallbackIsWhole'
    BY <1>5, <2>s, <1>h
       DEF ShortCircuit, Middlewares, NoBody, Unset, Dispatcher, Bodies,
           channels, TypeOK, Stages, NoReply, Error, PhaseInv, BodyInv,
           FallbackIsWhole
  <2> QED
    BY <2>1, <2>2, <2>3, <2>4, <2>5, <2>6, <2>7, <2>8, <2>9, <2>10 DEF ChainInv
<1>6. CASE OnRequestFails
  <2>1. TypeOK'
    BY SMTT(60), <1>6, <1>h
       DEF OnRequestFails, Prepared, ReadSome, Middlewares, NoBody, Unset,
           Dispatcher, Bodies, channels, TypeOK, Stages, NoReply, Error,
           PhaseInv
  <2>2. PhaseInv'
    BY <1>6, <1>h
       DEF OnRequestFails, Prepared, ReadSome, Middlewares, NoBody, Unset,
           Dispatcher, Bodies, channels, TypeOK, Stages, NoReply, Error,
           PhaseInv
  <2>3. BodyInv'
    BY <1>6, <1>h
       DEF OnRequestFails, Prepared, ReadSome, Middlewares, NoBody, Unset,
           Dispatcher, Bodies, channels, TypeOK, Stages, NoReply, Error,
           PhaseInv, BodyInv
  <2>v. Top' = N /\ Top = N
    BY <1>6, <1>h, <1>t DEF Top, TypeOK, PhaseInv, Middlewares, OnRequestFails
  <2>4. OrderInv'
    BY <1>6, <1>h, <1>t, <2>v
       DEF OnRequestFails, Prepared, ReadSome, Middlewares, NoBody, Unset,
           Dispatcher, Bodies, channels, TypeOK, Stages, NoReply, Error,
           PhaseInv, OrderInv
  <2>5. DispatchNeedsConsent'
    BY <1>6, <1>h
       DEF OnRequestFails, Prepared, ReadSome, Middlewares, NoBody, Unset,
           Dispatcher, Bodies, channels, TypeOK, Stages, NoReply, Error,
           PhaseInv, DispatchNeedsConsent, Dispatched
  <2>6. BodyConfined'
    BY <1>6, <1>h
       DEF OnRequestFails, Prepared, ReadSome, Middlewares, NoBody, Unset,
           Dispatcher, Bodies, channels, TypeOK, Stages, NoReply, Error,
           BodyInv, BodyConfined
  <2>7. BodyAuthored'
    BY <1>6, <1>h
       DEF OnRequestFails, Prepared, ReadSome, Middlewares, NoBody, Unset,
           Dispatcher, Bodies, channels, TypeOK, Stages, NoReply, Error,
           PhaseInv, BodyInv, BodyAuthored
  <2>8. ReverseOrder'
    BY <1>6, <1>h, <1>t, <2>v
       DEF OnRequestFails, Prepared, ReadSome, Middlewares, NoBody, Unset,
           Dispatcher, Bodies, channels, TypeOK, Stages, NoReply, Error,
           PhaseInv, OrderInv, ReverseOrder
  <2>9. ResponsePhaseFaultTolerant'
    BY <1>6, <1>h
       DEF OnRequestFails, Prepared, ReadSome, Middlewares, NoBody, Unset,
           Dispatcher, Bodies, channels, TypeOK, Stages, NoReply, Error,
           PhaseInv, ResponsePhaseFaultTolerant
  <2>10. FallbackIsWhole'
    BY <1>6, <1>h
       DEF OnRequestFails, Prepared, ReadSome, Middlewares, NoBody, Unset,
           Dispatcher, Bodies, channels, TypeOK, Stages, NoReply, Error,
           PhaseInv, BodyInv, FallbackIsWhole
  <2> QED
    BY <2>1, <2>2, <2>3, <2>4, <2>5, <2>6, <2>7, <2>8, <2>9, <2>10 DEF ChainInv
<1>7. CASE OnResponseRaw \/ OnResponse \/ OnResponseTraps
  <2>p. i \in Middlewares /\ i = Top - Len(responded)
    BY <1>7, <1>h, <1>t
       DEF OnResponseRaw, OnResponse, OnResponseTraps, TypeOK, OrderInv, Middlewares
  <2>q. /\ responded' \in Seq(Middlewares) /\ Len(responded') = Len(responded) + 1
        /\ responded'[Len(responded) + 1] = i
        /\ \A k \in 1 .. Len(responded) : responded'[k] = responded[k]
    <3>1. responded' = Append(responded, i)
      BY <1>7 DEF OnResponseRaw, OnResponse, OnResponseTraps, Respond
    <3> QED
      BY <3>1, <2>p, <1>h, AppendProperties DEF TypeOK
  <2>z. /\ stage \in {"partial", "observe", "response", "upgrade"}
        /\ i' = i - 1 /\ parses' \in BOOLEAN
        /\ UNCHANGED <<access, stage, aside, reply, verdict>>
    BY <1>7, <1>h DEF OnResponseRaw, OnResponse, OnResponseTraps, Respond, TypeOK
  <2>f. PICK b0 \in Bodies, reads \in BOOLEAN :
          /\ ReadSome(i, b0, reads)
          /\ i \notin access => b0 = NoBody
    <3>1. request_body[i] \in Bodies /\ Prepared(i) \in Bodies
      BY <2>p, <1>h, ChainAssumption DEF Prepared, TypeOK, Bodies, NoBody
    <3>2. i \notin access => request_body[i] = NoBody /\ Prepared(i) = NoBody
      BY <2>p, <1>h DEF BodyInv, Prepared
    <3> QED
      BY <1>7, <3>1, <3>2 DEF OnResponseRaw, OnResponse, OnResponseTraps, Respond
  <2>c. /\ request_body' \in [Middlewares -> Bodies]
        /\ read' \in [Middlewares -> SUBSET Bodies]
    BY <2>p, <2>f, <1>h, ReadSomeTypes
  <2>r. \A j \in Middlewares \ access : request_body'[j] = NoBody /\ read'[j] = {}
    BY <2>p, <2>f, <1>h DEF ReadSome, TypeOK, BodyInv, BodyConfined
  <2>d. PICK b \in {Unset, NoBody, i} :
          /\ output_body' = [output_body EXCEPT ![i] = b]
          /\ held_body' \in {held_body, NoBody} \cup access
    BY <1>7, <2>p, <1>h, WrittenTypes, CollectTypes
       DEF OnResponseRaw, OnResponse, OnResponseTraps
  <2>g. output_body' \in [Middlewares -> Bodies \cup {Unset}] /\ held_body' \in Bodies
    BY <2>d, <2>p, <1>h, ChainAssumption DEF TypeOK, Bodies, NoBody, Middlewares
  <2>o. \A j \in Middlewares : output_body'[j] \in {Unset, NoBody, j}
    BY <2>d, <2>p, <1>h DEF TypeOK, BodyInv
  <2>1. TypeOK'
    BY <1>h, <1>t, <2>p, <2>z, <2>q, <2>c, <2>g DEF TypeOK, Middlewares
  <2>2. PhaseInv'
    BY <1>h, <1>t, <2>p, <2>z DEF PhaseInv
  <2>3. BodyInv'
    BY <1>h, <1>t, <2>p, <2>z, <2>r, <2>o, <2>d DEF BodyInv
  <2>v. Top' = Top
    BY <1>7 DEF OnResponseRaw, OnResponse, OnResponseTraps, Respond, Top
  <2>l. Len(responded) \in Nat /\ Len(responded') \in Nat
    BY <2>q, <1>h, LenProperties DEF TypeOK
  <2>m. /\ i' = Top' - Len(responded') /\ Len(responded') =< Top'
        /\ \A k \in 1 .. Len(responded') : responded'[k] = Top' + 1 - k
    <3>1. i' = Top' - Len(responded') /\ Len(responded') =< Top'
      BY <1>t, <2>p, <2>q, <2>z, <2>v, <2>l DEF Middlewares
    <3>2. ASSUME NEW k \in 1 .. Len(responded') PROVE responded'[k] = Top' + 1 - k
      <4>1. CASE k \in 1 .. Len(responded)
        BY <4>1, <2>q, <2>v, <1>h DEF OrderInv
      <4>2. CASE k = Len(responded) + 1
        BY <4>2, <1>t, <2>p, <2>q, <2>v, <2>l
      <4> QED
        BY <4>1, <4>2, <2>q, <2>l
    <3> QED
      BY <3>1, <3>2
  <2>4. OrderInv'
    BY <2>m DEF OrderInv
  <2>5. DispatchNeedsConsent'
    BY <1>h, <1>t, <2>p, <2>z DEF DispatchNeedsConsent, Dispatched
  <2>6. BodyConfined'
    BY <1>h, <1>t, <2>p, <2>z, <2>r DEF BodyConfined
  <2>7. BodyAuthored'
    BY <1>h, <1>t, <2>p, <2>z, <2>d DEF BodyAuthored
  <2>8. ReverseOrder'
    BY <2>m, <2>z, <1>h DEF ReverseOrder
  <2>9. ResponsePhaseFaultTolerant'
    BY <1>h, <1>t, <2>p, <2>z
       DEF ResponsePhaseFaultTolerant, PhaseInv, NoReply
  <2>10. FallbackIsWhole'
    BY <1>h, <1>t, <2>p, <2>z DEF FallbackIsWhole
  <2> QED
    BY <2>1, <2>2, <2>3, <2>4, <2>5, <2>6, <2>7, <2>8, <2>9, <2>10 DEF ChainInv
<1>8. CASE FinishPartial
  <2>v. Top' = Top
    BY <1>8 DEF FinishPartial, Top
  <2>1. TypeOK'
    BY <1>8, <1>h
       DEF FinishPartial, TypeOK, Stages, Bodies, NoReply, Error, PhaseInv,
           Middlewares, NoBody, Unset, Dispatcher, channels
  <2>2. PhaseInv' /\ OrderInv' /\ ReverseOrder'
    BY <1>8, <1>h, <1>t, <2>v
       DEF FinishPartial, TypeOK, Stages, Bodies, NoReply, Error, PhaseInv,
           OrderInv, ReverseOrder, Middlewares, NoBody, Unset, Dispatcher,
           channels
  <2>3. BodyInv' /\ BodyConfined' /\ BodyAuthored'
    BY <1>8, <1>h
       DEF FinishPartial, TypeOK, Stages, Bodies, NoReply, Error, PhaseInv,
           BodyInv, BodyConfined, BodyAuthored, Middlewares, NoBody, Unset,
           Dispatcher, channels
  <2>4. DispatchNeedsConsent' /\ ResponsePhaseFaultTolerant' /\ FallbackIsWhole'
    BY <1>8, <1>h
       DEF FinishPartial, TypeOK, Stages, Bodies, NoReply, Error, PhaseInv,
           DispatchNeedsConsent, Dispatched, ResponsePhaseFaultTolerant,
           BodyInv, FallbackIsWhole, Middlewares, NoBody, Unset, Dispatcher,
           channels
  <2> QED
    BY <2>1, <2>2, <2>3, <2>4 DEF ChainInv
<1>9. CASE FinishResponse
  <2>v. Top' = Top
    BY <1>9 DEF FinishResponse, Top
  <2>1. TypeOK'
    BY <1>9, <1>h
       DEF FinishResponse, TypeOK, Stages, Bodies, NoReply, Error, PhaseInv,
           Middlewares, NoBody, Unset, Dispatcher, channels
  <2>2. PhaseInv' /\ OrderInv' /\ ReverseOrder'
    BY <1>9, <1>h, <1>t, <2>v
       DEF FinishResponse, TypeOK, Stages, Bodies, NoReply, Error, PhaseInv,
           OrderInv, ReverseOrder, Middlewares, NoBody, Unset, Dispatcher,
           channels
  <2>3. BodyInv' /\ BodyConfined' /\ BodyAuthored'
    BY <1>9, <1>h
       DEF FinishResponse, TypeOK, Stages, Bodies, NoReply, Error, PhaseInv,
           BodyInv, BodyConfined, BodyAuthored, Middlewares, NoBody, Unset,
           Dispatcher, channels
  <2>4. DispatchNeedsConsent' /\ ResponsePhaseFaultTolerant' /\ FallbackIsWhole'
    BY <1>9, <1>h
       DEF FinishResponse, TypeOK, Stages, Bodies, NoReply, Error, PhaseInv,
           DispatchNeedsConsent, Dispatched, ResponsePhaseFaultTolerant,
           BodyInv, FallbackIsWhole, Middlewares, NoBody, Unset, Dispatcher,
           channels
  <2> QED
    BY <2>1, <2>2, <2>3, <2>4 DEF ChainInv
<1>10. CASE FinishUpgrade
  <2>v. Top' = Top
    BY <1>10 DEF FinishUpgrade, Top
  <2>1. TypeOK'
    BY <1>10, <1>h
       DEF FinishUpgrade, TypeOK, Stages, Bodies, NoReply, Error, PhaseInv,
           Middlewares, NoBody, Unset, Dispatcher, channels
  <2>2. PhaseInv' /\ OrderInv' /\ ReverseOrder'
    BY <1>10, <1>h, <1>t, <2>v
       DEF FinishUpgrade, TypeOK, Stages, Bodies, NoReply, Error, PhaseInv,
           OrderInv, ReverseOrder, Middlewares, NoBody, Unset, Dispatcher,
           channels
  <2>3. BodyInv' /\ BodyConfined' /\ BodyAuthored'
    BY <1>10, <1>h
       DEF FinishUpgrade, TypeOK, Stages, Bodies, NoReply, Error, PhaseInv,
           BodyInv, BodyConfined, BodyAuthored, Middlewares, NoBody, Unset,
           Dispatcher, channels
  <2>4. DispatchNeedsConsent' /\ ResponsePhaseFaultTolerant' /\ FallbackIsWhole'
    BY <1>10, <1>h
       DEF FinishUpgrade, TypeOK, Stages, Bodies, NoReply, Error, PhaseInv,
           DispatchNeedsConsent, Dispatched, ResponsePhaseFaultTolerant,
           BodyInv, FallbackIsWhole, Middlewares, NoBody, Unset, Dispatcher,
           channels
  <2> QED
    BY <2>1, <2>2, <2>3, <2>4 DEF ChainInv
<1>11. CASE FinishObserve
  <2>v. Top' = Top
    BY <1>11 DEF FinishObserve, Top
  <2>1. TypeOK'
    BY <1>11, <1>h
       DEF FinishObserve, TypeOK, Stages, Bodies, NoReply, Error, PhaseInv,
           Middlewares, NoBody, Unset, Dispatcher, channels
  <2>2. PhaseInv' /\ OrderInv' /\ ReverseOrder'
    BY <1>11, <1>h, <1>t, <2>v
       DEF FinishObserve, TypeOK, Stages, Bodies, NoReply, Error, PhaseInv,
           OrderInv, ReverseOrder, Middlewares, NoBody, Unset, Dispatcher,
           channels
  <2>3. BodyInv' /\ BodyConfined' /\ BodyAuthored'
    BY <1>11, <1>h
       DEF FinishObserve, TypeOK, Stages, Bodies, NoReply, Error, PhaseInv,
           BodyInv, BodyConfined, BodyAuthored, Middlewares, NoBody, Unset,
           Dispatcher, channels
  <2>4. DispatchNeedsConsent' /\ ResponsePhaseFaultTolerant' /\ FallbackIsWhole'
    BY <1>11, <1>h
       DEF FinishObserve, TypeOK, Stages, Bodies, NoReply, Error, PhaseInv,
           DispatchNeedsConsent, Dispatched, ResponsePhaseFaultTolerant,
           BodyInv, FallbackIsWhole, Middlewares, NoBody, Unset, Dispatcher,
           channels
  <2> QED
    BY <2>1, <2>2, <2>3, <2>4 DEF ChainInv
<1>12. CASE DispatchFails
  <2>w. Top = N
    BY <1>12, <1>h, <1>t DEF DispatchFails, DispatchNeedsConsent, Dispatched
  <2>v. Top' = Top
    BY <1>12 DEF DispatchFails, Top
  <2>1. TypeOK'
    BY <1>12, <1>h
       DEF DispatchFails, TypeOK, Stages, Bodies, NoReply, Error, PhaseInv,
           Middlewares, NoBody, Unset, Dispatcher, channels
  <2>2. PhaseInv' /\ OrderInv' /\ ReverseOrder'
    BY <1>12, <1>h, <1>t, <2>v, <2>w
       DEF DispatchFails, TypeOK, Stages, Bodies, NoReply, Error, PhaseInv,
           OrderInv, ReverseOrder, Middlewares, NoBody, Unset, Dispatcher,
           channels
  <2>3. BodyInv' /\ BodyConfined' /\ BodyAuthored'
    BY <1>12, <1>h
       DEF DispatchFails, TypeOK, Stages, Bodies, NoReply, Error, PhaseInv,
           BodyInv, BodyConfined, BodyAuthored, Middlewares, NoBody, Unset,
           Dispatcher, channels
  <2>4. DispatchNeedsConsent' /\ ResponsePhaseFaultTolerant' /\ FallbackIsWhole'
    BY <1>12, <1>h
       DEF DispatchFails, TypeOK, Stages, Bodies, NoReply, Error, PhaseInv,
           DispatchNeedsConsent, Dispatched, ResponsePhaseFaultTolerant,
           BodyInv, FallbackIsWhole, Middlewares, NoBody, Unset, Dispatcher,
           channels
  <2> QED
    BY <2>1, <2>2, <2>3, <2>4 DEF ChainInv
<1>13. CASE DispatchBuffered
  <2>w. Top = N
    BY <1>13, <1>h, <1>t DEF DispatchBuffered, DispatchNeedsConsent, Dispatched
  <2>v. Top' = Top
    BY <1>13 DEF DispatchBuffered, Top
  <2>1. TypeOK'
    BY <1>13, <1>h
       DEF DispatchBuffered, TypeOK, Stages, Bodies, NoReply, Error,
           PhaseInv, Middlewares, NoBody, Unset, Dispatcher, channels
  <2>2. PhaseInv' /\ OrderInv' /\ ReverseOrder'
    BY <1>13, <1>h, <1>t, <2>v, <2>w
       DEF DispatchBuffered, TypeOK, Stages, Bodies, NoReply, Error,
           PhaseInv, OrderInv, ReverseOrder, Middlewares, NoBody, Unset,
           Dispatcher, channels
  <2>3. BodyInv' /\ BodyConfined' /\ BodyAuthored'
    BY <1>13, <1>h
       DEF DispatchBuffered, TypeOK, Stages, Bodies, NoReply, Error,
           PhaseInv, BodyInv, BodyConfined, BodyAuthored, Middlewares,
           NoBody, Unset, Dispatcher, channels
  <2>4. DispatchNeedsConsent' /\ ResponsePhaseFaultTolerant' /\ FallbackIsWhole'
    BY <1>13, <1>h
       DEF DispatchBuffered, TypeOK, Stages, Bodies, NoReply, Error,
           PhaseInv, DispatchNeedsConsent, Dispatched,
           ResponsePhaseFaultTolerant, BodyInv, FallbackIsWhole,
           Middlewares, NoBody, Unset, Dispatcher, channels
  <2> QED
    BY <2>1, <2>2, <2>3, <2>4 DEF ChainInv
<1>14. CASE DispatchStreamed
  <2>w. Top = N
    BY <1>14, <1>h, <1>t DEF DispatchStreamed, DispatchNeedsConsent, Dispatched
  <2>v. Top' = Top
    BY <1>14 DEF DispatchStreamed, Top
  <2>1. TypeOK'
    BY <1>14, <1>h
       DEF DispatchStreamed, TypeOK, Stages, Bodies, NoReply, Error,
           PhaseInv, Middlewares, NoBody, Unset, Dispatcher, channels
  <2>2. PhaseInv' /\ OrderInv' /\ ReverseOrder'
    BY <1>14, <1>h, <1>t, <2>v, <2>w
       DEF DispatchStreamed, TypeOK, Stages, Bodies, NoReply, Error,
           PhaseInv, OrderInv, ReverseOrder, Middlewares, NoBody, Unset,
           Dispatcher, channels
  <2>3. BodyInv' /\ BodyConfined' /\ BodyAuthored'
    BY <1>14, <1>h
       DEF DispatchStreamed, TypeOK, Stages, Bodies, NoReply, Error,
           PhaseInv, BodyInv, BodyConfined, BodyAuthored, Middlewares,
           NoBody, Unset, Dispatcher, channels
  <2>4. DispatchNeedsConsent' /\ ResponsePhaseFaultTolerant' /\ FallbackIsWhole'
    BY <1>14, <1>h
       DEF DispatchStreamed, TypeOK, Stages, Bodies, NoReply, Error,
           PhaseInv, DispatchNeedsConsent, Dispatched,
           ResponsePhaseFaultTolerant, BodyInv, FallbackIsWhole,
           Middlewares, NoBody, Unset, Dispatcher, channels
  <2> QED
    BY <2>1, <2>2, <2>3, <2>4 DEF ChainInv
<1>15. CASE DispatchUpgrade
  <2>w. Top = N
    BY <1>15, <1>h, <1>t DEF DispatchUpgrade, DispatchNeedsConsent, Dispatched
  <2>v. Top' = Top
    BY <1>15 DEF DispatchUpgrade, Top
  <2>1. TypeOK'
    BY <1>15, <1>h
       DEF DispatchUpgrade, TypeOK, Stages, Bodies, NoReply, Error,
           PhaseInv, Middlewares, NoBody, Unset, Dispatcher, channels
  <2>2. PhaseInv' /\ OrderInv' /\ ReverseOrder'
    BY <1>15, <1>h, <1>t, <2>v, <2>w
       DEF DispatchUpgrade, TypeOK, Stages, Bodies, NoReply, Error,
           PhaseInv, OrderInv, ReverseOrder, Middlewares, NoBody, Unset,
           Dispatcher, channels
  <2>3. BodyInv' /\ BodyConfined' /\ BodyAuthored'
    BY <1>15, <1>h
       DEF DispatchUpgrade, TypeOK, Stages, Bodies, NoReply, Error,
           PhaseInv, BodyInv, BodyConfined, BodyAuthored, Middlewares,
           NoBody, Unset, Dispatcher, channels
  <2>4. DispatchNeedsConsent' /\ ResponsePhaseFaultTolerant' /\ FallbackIsWhole'
    BY <1>15, <1>h
       DEF DispatchUpgrade, TypeOK, Stages, Bodies, NoReply, Error,
           PhaseInv, DispatchNeedsConsent, Dispatched,
           ResponsePhaseFaultTolerant, BodyInv, FallbackIsWhole,
           Middlewares, NoBody, Unset, Dispatcher, channels
  <2> QED
    BY <2>1, <2>2, <2>3, <2>4 DEF ChainInv
<1>16. CASE Terminated
  <2>v. Top' = Top
    BY <1>16 DEF Terminated, vars, Top
  <2>1. TypeOK'
    BY <1>16, <1>h
       DEF Terminated, vars, TypeOK, Stages, Bodies, NoReply, Error
  <2>2. PhaseInv' /\ OrderInv' /\ ReverseOrder'
    BY <1>16, <1>h, <1>t, <2>v
       DEF Terminated, vars, PhaseInv, NoReply, Error, OrderInv,
           ReverseOrder
  <2>3. BodyInv' /\ BodyConfined' /\ BodyAuthored'
    BY <1>16, <1>h
       DEF Terminated, vars, BodyInv, Bodies, BodyConfined, BodyAuthored,
           NoReply, Error
  <2>4. DispatchNeedsConsent' /\ ResponsePhaseFaultTolerant' /\ FallbackIsWhole'
    BY <1>16, <1>h
       DEF Terminated, vars, DispatchNeedsConsent, Dispatched, NoReply,
           Error, ResponsePhaseFaultTolerant, FallbackIsWhole
  <2> QED
    BY <2>1, <2>2, <2>3, <2>4 DEF ChainInv
<1>17. CASE UNCHANGED vars
  <2>1. Top' = Top
    BY <1>17 DEF vars, Top
  <2> QED
    BY <1>17, <2>1, <1>h DEF vars, ChainInv, TypeOK, PhaseInv, BodyInv, OrderInv,
      DispatchNeedsConsent, Dispatched, BodyConfined, BodyAuthored, ReverseOrder,
      ResponsePhaseFaultTolerant, FallbackIsWhole
<1> QED
  BY <1>1, <1>2, <1>3, <1>4, <1>5, <1>6, <1>7, <1>8, <1>9, <1>10, <1>11,
           <1>12, <1>13, <1>14, <1>15, <1>16, <1>17 DEF Next

(* The inductive invariant of the chain holds in every behaviour.          *)
THEOREM ChainInvHolds == Spec => []ChainInv
BY ChainInit, ChainStep, PTL DEF Spec

(* Type correctness of dispatch and of the two chains.                       *)
THEOREM ChainTypeCorrect == Spec => []TypeOK
<1>1. ChainInv => TypeOK
  BY DEF ChainInv
<1> QED
  BY <1>1, ChainInvHolds, PTL

(* A request reaches the dispatcher only if every on_request let it pass.   *)
THEOREM NoDispatchWithoutConsent == Spec => []DispatchNeedsConsent
<1>1. ChainInv => DispatchNeedsConsent
  BY DEF ChainInv
<1> QED
  BY <1>1, ChainInvHolds, PTL

(* A middleware without body_access never reads a body, in any phase.       *)
THEOREM BodyIsConfined == Spec => []BodyConfined
<1>1. ChainInv => BodyConfined
  BY DEF ChainInv
<1> QED
  BY <1>1, ChainInvHolds, PTL

(* The body delivered was written by somebody allowed to.                   *)
THEOREM BodyHasAuthor == Spec => []BodyAuthored
<1>1. ChainInv => BodyAuthored
  BY DEF ChainInv
<1> QED
  BY <1>1, ChainInvHolds, PTL

(* on_response runs in reverse order, once per middleware that continued.   *)
THEOREM ResponseInReverse == Spec => []ReverseOrder
<1>1. ChainInv => ReverseOrder
  BY DEF ChainInv
<1> QED
  BY <1>1, ChainInvHolds, PTL

(* A trap in on_response never replaces the response by an error.           *)
THEOREM ResponsePhaseTolerant == Spec => []ResponsePhaseFaultTolerant
<1>1. ChainInv => ResponsePhaseFaultTolerant
  BY DEF ChainInv
<1> QED
  BY <1>1, ChainInvHolds, PTL

(* A response that falls back to the dispatcher's has its body too.         *)
THEOREM FallbackResponseIsWhole == Spec => []FallbackIsWhole
<1>1. ChainInv => FallbackIsWhole
  BY DEF ChainInv
<1> QED
  BY <1>1, ChainInvHolds, PTL

(* Bodies are read and written only by those who may.                       *)
THEOREM BodyRulesHold == Spec => []BodyRules
<1>1. BodyConfined /\ BodyAuthored => BodyRules
  BY DEF BodyRules
<1> QED
  BY <1>1, BodyIsConfined, BodyHasAuthor, PTL

(* The response phase mirrors the request phase and ends in one response.   *)
THEOREM PhaseRulesHold == Spec => []PhaseRules
<1>1. DispatchNeedsConsent /\ ReverseOrder /\ ResponsePhaseFaultTolerant /\ FallbackIsWhole
        => PhaseRules
  BY DEF PhaseRules
<1> QED
  BY <1>1, NoDispatchWithoutConsent, ResponseInReverse, ResponsePhaseTolerant,
     FallbackResponseIsWhole, PTL

-----------------------------------------------------------------------------
(* The streamed dispatch. *)

Before(a, b) == a[1] < b[1] \/ (a[1] = b[1] /\ a[2] < b[2])

(* What the plugin has sent, and what its thread knows of it. *)
SentInv ==
  /\ \A k, l \in 1 .. Len(sent) : k < l => Before(sent[k], sent[l])
  /\ \A k \in 1 .. Len(sent) :
       /\ sent[k][1] =< target
       /\ wasm = "attempt" => sent[k][1] < target
       /\ wasm = "streaming" /\ sent[k][1] = target => sent[k][2] =< chunk
       /\ sent[k][1] < target => sent[k][1] \in broken

(* The end of the plugin's run. *)
ResultInv ==
  /\ wasm \in {"attempt", "streaming"} => ~last_http /\ \A b \in broken : b < target
  /\ last_http => result \in {"sentinel", "trap"}
  /\ result = "sentinel" => target \notin broken
  /\ closed => wasm \in {"dropped", "finished"}
  /\ observer \in {"observed", "skipped"} => wasm = "finished"
  /\ ObservedIsComplete

(* The channel holds, in order, what was sent and not yet received. *)
ReceivedIsPrefix == Len(received) =< Len(sent) /\ \A k \in 1 .. Len(received) : received[k] = sent[k]

HoldsRest ==
  /\ \A h \in Pending : \E k \in Len(received) + 1 .. Len(sent) : stream[h].of = sent[k]
  /\ \A k \in Len(received) + 1 .. Len(sent) : \E h \in Pending : stream[h].of = sent[k]
  /\ \A h, j \in Pending : h < j => Before(stream[h].of, stream[j].of)

ChannelInv == ReceivedIsPrefix /\ (answer \in {"none", "streamed"} /\ client /= "gone" => HoldsRest)

(* What the task has taken out of the channel. *)
HandlerInv ==
  /\ answer = "none" <=> handler /= "done"
  /\ answer = "none" => received = <<>> /\ client = "open"
  /\ answer = "none" /\ wasm = "streaming" => stream /= <<>>
  /\ answer = "none" /\ stream /= <<>> => stream[1].kind = "headers"
  /\ handler = "buffered" => wasm = "finished"
  /\ answer \in {"buffered", "error"} => wasm = "finished" /\ client = "open"
  /\ client = "complete" => answer = "streamed" /\ stream = <<>> /\ closed

StreamInv == StreamTypeOK /\ SentInv /\ ResultInv /\ ChannelInv /\ HandlerInv

StreamEvents == [kind : {"headers"}, of : Targets \X {0}] \cup [kind : {"chunk"}, of : Chunks]

-----------------------------------------------------------------------------
(* An event sent while the receiver is there goes to the end of the        *)
(* channel.                                                                *)
LEMMA PushAppends ==
  ASSUME stream \in Seq(StreamEvents), NEW e \in StreamEvents, Push(e)
  PROVE  /\ stream' \in Seq(StreamEvents)
         /\ client /= "gone" => /\ stream' /= <<>> /\ Len(stream') = Len(stream) + 1
                                /\ \A h \in 1 .. Len(stream) : stream'[h] = stream[h]
                                /\ stream'[Len(stream) + 1] = e
         /\ client = "gone" => stream' = stream
BY AppendProperties DEF Push

(* A dispatch begins with an empty channel. *)
LEMMA StreamStarts == StreamInit => StreamInv
<1> SUFFICES ASSUME StreamInit PROVE StreamInv
  OBVIOUS
<1> USE DEF StreamInit
<1>1. Len(stream) = 0 /\ Len(sent) = 0 /\ Len(received) = 0
  OBVIOUS
<1>2. StreamTypeOK
  <2>1. stream \in Seq(StreamEvents) /\ received \in Seq(Chunks) /\ sent \in Seq(Chunks)
    BY EmptySeq
  <2>2. 1 \in Targets /\ 0 \in 0 .. MaxChunks
    BY TargetAssumption DEF Targets
  <2> QED
    BY <2>1, <2>2 DEF StreamTypeOK, StreamEvents
<1> QED
  BY <1>1, <1>2
  DEF StreamInv, SentInv, ResultInv, ObservedIsComplete, ChannelInv, ReceivedIsPrefix, HoldsRest, Pending, HandlerInv

(* Type correctness, step by step. *)
LEMMA TypeStep == StreamTypeOK /\ [StreamNext]_streamVars => StreamTypeOK'
<1> SUFFICES ASSUME StreamTypeOK, [StreamNext]_streamVars PROVE StreamTypeOK'
  OBVIOUS
<1>0. /\ stream \in Seq(StreamEvents) /\ received \in Seq(Chunks) /\ sent \in Seq(Chunks)
      /\ target \in Targets /\ chunk \in 0 .. MaxChunks /\ Targets \subseteq Nat /\ MaxChunks \in Nat
  BY TargetAssumption DEF StreamTypeOK, StreamEvents, Targets
<1> USE DEF StreamTypeOK, plugin, serving, Return
<1>1. CASE Connect
  <2>1. Headers(target) \in StreamEvents
    BY <1>0 DEF Headers, StreamEvents
  <2>2. stream' \in Seq(StreamEvents)
    BY <1>0, <1>1, <2>1, PushAppends DEF Connect
  <2> QED
    BY <1>1, <2>2, TargetAssumption DEF Connect, StreamEvents
<1>2. ASSUME NextTarget PROVE /\ wasm' \in {"attempt", "returning"} /\ target' \in Targets
                             /\ result' \in {"none", "response", "sentinel", "trap"}
  BY <1>0, <1>2, TargetAssumption DEF NextTarget, Targets
<1>3. CASE AttemptFails
  BY <1>2, <1>3 DEF AttemptFails
<1>4. CASE CallReturns
  BY <1>4 DEF CallReturns
<1>5. CASE PushChunk
  <2>1. chunk' \in 0 .. MaxChunks /\ <<target, chunk'>> \in Chunks
    BY <1>0, <1>5 DEF PushChunk, Chunks
  <2>2. Chunk(target, chunk') \in StreamEvents
    BY <2>1 DEF Chunk, StreamEvents
  <2>3. stream' \in Seq(StreamEvents)
    BY <1>0, <1>5, <2>2, PushAppends DEF PushChunk
  <2>4. sent' \in Seq(Chunks)
    BY <1>0, <1>5, <2>1, AppendProperties DEF PushChunk
  <2> QED
    BY <1>5, <2>1, <2>3, <2>4 DEF PushChunk, StreamEvents
<1>6. CASE UpstreamEnds
  BY <1>6 DEF UpstreamEnds
<1>7. CASE UpstreamBreaks
  BY <1>2, <1>7 DEF UpstreamBreaks
<1>8. CASE ReadResult \/ Trap \/ DropInstance \/ Finish
  BY <1>8 DEF ReadResult, Trap, DropInstance, Finish
<1>9. CASE TakeHeaders
  <2>1. stream' \in Seq(StreamEvents)
    BY <1>0, <1>9, HeadTailProperties DEF TakeHeaders
  <2> QED
    BY <1>9, <2>1 DEF TakeHeaders, StreamEvents
<1>10. CASE ChannelClosed \/ StreamPending \/ PollWasm \/ Wake \/ AwaitWasm
  BY <1>10 DEF ChannelClosed, StreamPending, PollWasm, Wake, AwaitWasm
<1>11. CASE AnswerBuffered
  BY <1>11, EmptySeq DEF AnswerBuffered
<1>12. CASE Deliver
  <2>1. stream' \in Seq(StreamEvents) /\ Head(stream) \in StreamEvents
    BY <1>0, <1>12, HeadTailProperties DEF Deliver
  <2>2. received' \in Seq(Chunks)
    <3>1. CASE Head(stream).kind = "chunk"
      <4>1. Head(stream).of \in Chunks
        BY <2>1, <3>1 DEF StreamEvents
      <4> QED
        BY <1>0, <1>12, <3>1, <4>1, AppendProperties DEF Deliver
    <3>2. CASE Head(stream).kind /= "chunk"
      BY <1>0, <1>12, <3>2 DEF Deliver
    <3> QED
      BY <3>1, <3>2
  <2> QED
    BY <1>12, <2>1, <2>2 DEF Deliver, StreamEvents
<1>13. CASE EndOfStream \/ Observe
  BY <1>13 DEF EndOfStream, Observe
<1>14. CASE ClientLeaves
  BY <1>14, EmptySeq DEF ClientLeaves
<1>15. CASE UNCHANGED streamVars
  BY <1>15 DEF streamVars
<1> QED
  BY <1>1, <1>3, <1>4, <1>5, <1>6, <1>7, <1>8, <1>9, <1>10, <1>11, <1>12, <1>13, <1>14, <1>15
  DEF StreamNext, Plugin, Handler, Body, StreamTerminated

(* What the plugin sends is sorted, and a target is left only broken. *)
LEMMA SentStep == StreamInv /\ [StreamNext]_streamVars => SentInv'
<1> SUFFICES ASSUME StreamInv, [StreamNext]_streamVars PROVE SentInv'
  OBVIOUS
<1>0. /\ sent \in Seq(Chunks) /\ target \in Nat /\ target \in Targets /\ chunk \in Nat /\ Len(sent) \in Nat
      /\ \A k \in 1 .. Len(sent) : sent[k][1] \in Nat /\ sent[k][2] \in Nat
  <2>1. sent \in Seq(Chunks) /\ \A k \in 1 .. Len(sent) : sent[k] \in Chunks
    BY ElementOfSeq DEF StreamInv, StreamTypeOK
  <2> QED
    BY <2>1, LenProperties, TargetAssumption DEF StreamInv, StreamTypeOK, Targets, Chunks
<1> USE DEF StreamInv, SentInv, plugin, serving, Return, Before
<1>1. CASE Connect
  <2>1. sent' = sent /\ target' = target /\ broken' = broken /\ wasm = "attempt"
    BY <1>1 DEF Connect
  <2> QED
    BY SMTT(60), <1>0, <2>1
<1>2. CASE PushChunk
  <2>1. <<target, chunk + 1>> \in Chunks /\ chunk' = chunk + 1 /\ sent' = Append(sent, <<target, chunk + 1>>)
    BY <1>0, <1>2, TargetAssumption DEF PushChunk, Chunks
  <2>2. /\ Len(sent') = Len(sent) + 1 /\ \A k \in 1 .. Len(sent) : sent'[k] = sent[k]
        /\ sent'[Len(sent) + 1] = <<target, chunk + 1>>
    BY <1>0, <2>1, AppendProperties
  <2>3. \A k \in 1 .. Len(sent') : k = Len(sent) + 1 \/ k \in 1 .. Len(sent)
    BY <1>0, <2>2
  <2>4. wasm = "streaming" /\ wasm' = wasm /\ target' = target /\ broken' = broken
    BY <1>2 DEF PushChunk
  <2>5. \A k, l \in 1 .. Len(sent') : k < l => Before(sent'[k], sent'[l])
    <3> SUFFICES ASSUME NEW k \in 1 .. Len(sent'), NEW l \in 1 .. Len(sent'), k < l
                 PROVE  Before(sent'[k], sent'[l])
      OBVIOUS
    <3>1. k \in 1 .. Len(sent) /\ sent'[k] = sent[k]
      BY <1>0, <2>2, <2>3
    <3>2. CASE l \in 1 .. Len(sent)
      BY <2>2, <3>1, <3>2
    <3>3. CASE l = Len(sent) + 1
      <4>1. sent[k][1] =< target /\ (sent[k][1] = target => sent[k][2] =< chunk)
        BY <2>4, <3>1
      <4> QED
        BY <1>0, <2>2, <3>1, <3>3, <4>1
    <3> QED
      BY <2>3, <3>2, <3>3
  <2>6. ASSUME NEW k \in 1 .. Len(sent')
        PROVE  /\ sent'[k][1] =< target' /\ (sent'[k][1] = target' => sent'[k][2] =< chunk')
               /\ (sent'[k][1] < target' => sent'[k][1] \in broken')
    <3>1. CASE k = Len(sent) + 1
      BY <1>0, <2>1, <2>2, <2>4, <3>1
    <3>2. CASE k \in 1 .. Len(sent)
      <4>1. sent'[k] = sent[k] /\ sent[k][1] \in Nat /\ sent[k][2] \in Nat
        BY <1>0, <2>2, <3>2
      <4>2. /\ sent[k][1] =< target /\ (sent[k][1] = target => sent[k][2] =< chunk)
            /\ (sent[k][1] < target => sent[k][1] \in broken)
        BY <2>4, <3>2
      <4> QED
        BY <1>0, <2>1, <2>4, <4>1, <4>2
    <3> QED
      BY <2>3, <3>1, <3>2
  <2>7. wasm' # "attempt"
    BY <2>4
  <2> QED
    BY <2>5, <2>6, <2>7, Zenon
<1>3. CASE AttemptFails
  BY <1>0, <1>3 DEF AttemptFails, NextTarget
<1>4. CASE UpstreamBreaks
  BY <1>0, <1>4 DEF UpstreamBreaks, NextTarget
<1>5. CASE CallReturns \/ UpstreamEnds \/ ReadResult \/ Trap \/ DropInstance \/ Finish
  BY <1>5 DEF CallReturns, UpstreamEnds, ReadResult, Trap, DropInstance, Finish
<1>6. CASE Handler
  BY <1>6 DEF Handler, TakeHeaders, ChannelClosed, StreamPending, PollWasm, Wake, AwaitWasm, AnswerBuffered
<1>7. CASE Body \/ ClientLeaves \/ Observe \/ UNCHANGED streamVars
  BY <1>7 DEF Body, Deliver, EndOfStream, ClientLeaves, Observe, streamVars
<1> QED
  BY <1>1, <1>2, <1>3, <1>4, <1>5, <1>6, <1>7 DEF StreamNext, Plugin, StreamTerminated

(* The result of a broken upstream is never shown to the middlewares. *)
LEMMA ResultStep == StreamInv /\ [StreamNext]_streamVars => ResultInv'
<1> SUFFICES ASSUME StreamInv, [StreamNext]_streamVars PROVE ResultInv'
  OBVIOUS
<1>0. target \in Nat /\ T \in Nat /\ broken \subseteq Nat
  BY TargetAssumption DEF StreamInv, StreamTypeOK, Targets
<1> USE DEF StreamInv, ResultInv, ObservedIsComplete, plugin, serving, Return
<1>1. CASE Connect \/ PushChunk
  BY <1>1 DEF Connect, PushChunk
<1>2. CASE AttemptFails
  BY <1>0, <1>2 DEF AttemptFails, NextTarget
<1>3. CASE UpstreamBreaks
  BY <1>0, <1>3 DEF UpstreamBreaks, NextTarget
<1>4. CASE CallReturns \/ UpstreamEnds
  BY <1>0, <1>4 DEF CallReturns, UpstreamEnds
<1>5. CASE ReadResult \/ Trap \/ DropInstance \/ Finish
  BY <1>5 DEF ReadResult, Trap, DropInstance, Finish
<1>6. CASE Handler
  BY <1>6 DEF Handler, TakeHeaders, ChannelClosed, StreamPending, PollWasm, Wake, AwaitWasm, AnswerBuffered
<1>7. CASE Body \/ ClientLeaves \/ UNCHANGED streamVars
  BY <1>7 DEF Body, Deliver, EndOfStream, ClientLeaves, streamVars
<1>8. CASE Observe
  BY <1>8 DEF Observe, StreamTypeOK
<1> QED
  BY <1>1, <1>2, <1>3, <1>4, <1>5, <1>6, <1>7, <1>8 DEF StreamNext, Plugin, StreamTerminated

(* The task takes nothing but headers out of the channel. *)
LEMMA HandlerStep == StreamInv /\ [StreamNext]_streamVars => HandlerInv'
<1> SUFFICES ASSUME StreamInv, [StreamNext]_streamVars PROVE HandlerInv'
  OBVIOUS
<1>0. stream \in Seq(StreamEvents) /\ Len(stream) \in Nat /\ (stream /= <<>> => Len(stream) >= 1)
  BY LenProperties, EmptySeq DEF StreamInv, StreamTypeOK, StreamEvents
<1> USE DEF StreamInv, HandlerInv, ResultInv, plugin, serving, Return
<1>1. CASE Connect
  <2>1. Headers(target) \in StreamEvents /\ Headers(target).kind = "headers"
    BY DEF Headers, StreamEvents, StreamTypeOK
  <2>2. /\ client /= "gone" => /\ stream' /= <<>> /\ Len(stream') = Len(stream) + 1
                               /\ \A h \in 1 .. Len(stream) : stream'[h] = stream[h]
                               /\ stream'[Len(stream) + 1] = Headers(target)
    BY <1>0, <1>1, <2>1, PushAppends DEF Connect
  <2>3. answer = "none" => stream'[1].kind = "headers"
    <3>1. CASE stream = <<>>
      BY <2>1, <2>2, <3>1
    <3>2. CASE stream /= <<>>
      BY <1>0, <2>2, <3>2
    <3> QED
      BY <3>1, <3>2
  <2> QED
    BY <1>1, <2>2, <2>3 DEF Connect
<1>2. CASE PushChunk
  <2>1. chunk + 1 \in 1 .. MaxChunks /\ <<target, chunk + 1>> \in Chunks
    BY <1>2, TargetAssumption DEF PushChunk, StreamTypeOK, Chunks
  <2>2. Chunk(target, chunk + 1) \in StreamEvents
    BY <2>1 DEF Chunk, StreamEvents
  <2>3. /\ client /= "gone" => /\ stream' /= <<>>
                               /\ \A h \in 1 .. Len(stream) : stream'[h] = stream[h]
    BY <1>0, <1>2, <2>2, PushAppends DEF PushChunk
  <2> QED
    BY <1>0, <1>2, <2>3 DEF PushChunk
<1>3. CASE AttemptFails \/ UpstreamBreaks
  BY <1>3 DEF AttemptFails, UpstreamBreaks, NextTarget
<1>4. CASE CallReturns \/ UpstreamEnds \/ ReadResult \/ Trap \/ DropInstance \/ Finish
  BY <1>4 DEF CallReturns, UpstreamEnds, ReadResult, Trap, DropInstance, Finish
<1>5. CASE Handler
  BY <1>5 DEF Handler, TakeHeaders, ChannelClosed, StreamPending, PollWasm, Wake, AwaitWasm, AnswerBuffered
<1>6. CASE Body \/ ClientLeaves \/ Observe \/ UNCHANGED streamVars
  BY <1>6 DEF Body, Deliver, EndOfStream, ClientLeaves, Observe, streamVars
<1> QED
  BY <1>1, <1>2, <1>3, <1>4, <1>5, <1>6 DEF StreamNext, Plugin, StreamTerminated

(* The first chunk in the channel is the first that was not received. *)
LEMMA HeadIsNext ==
  ASSUME StreamInv, answer = "streamed", client = "open", stream /= <<>>, stream[1].kind = "chunk"
  PROVE  Len(received) + 1 =< Len(sent) /\ stream[1].of = sent[Len(received) + 1]
<1> DEFINE n == Len(received) + 1
<1>1. /\ Len(sent) \in Nat /\ Len(received) \in Nat
      /\ \A k \in 1 .. Len(sent) : sent[k][1] \in Nat /\ sent[k][2] \in Nat
  <2>1. \A k \in 1 .. Len(sent) : sent[k] \in Chunks
    BY ElementOfSeq DEF StreamInv, StreamTypeOK
  <2> QED
    BY SMTT(60), <2>1, LenProperties, TargetAssumption DEF StreamInv, StreamTypeOK, Targets, Chunks
<1>2. 1 \in Pending
  <2>1. Len(stream) \in Nat \ {0}
    BY EmptySeq DEF StreamInv, StreamTypeOK
  <2> QED
    BY <2>1 DEF Pending
<1>3. PICK k \in n .. Len(sent) : stream[1].of = sent[k]
  BY <1>2 DEF StreamInv, ChannelInv, ReceivedIsPrefix, HoldsRest
<1>4. n \in n .. Len(sent)
  BY <1>1, <1>3
<1>5. PICK h \in Pending : stream[h].of = sent[n]
  BY <1>4 DEF StreamInv, ChannelInv, ReceivedIsPrefix, HoldsRest
<1>6. CASE h = 1
  BY <1>1, <1>4, <1>5, <1>6
<1>7. CASE h /= 1
  <2>1. 1 < h
    BY <1>7 DEF Pending
  <2>2. Before(sent[k], sent[n])
    BY <1>2, <1>3, <1>5, <2>1 DEF StreamInv, ChannelInv, ReceivedIsPrefix, HoldsRest
  <2>3. k \in 1 .. Len(sent) /\ n \in 1 .. Len(sent) /\ n =< k
    BY <1>1, <1>3
  <2>4. n < k => Before(sent[n], sent[k])
    BY <2>3 DEF StreamInv, SentInv
  <2> QED
    BY <1>1, <2>2, <2>3, <2>4 DEF Before
<1> QED
  BY <1>6, <1>7

(* The event at the head of the channel is taken out. *)
LEMMA TailShifts ==
  ASSUME StreamInv, stream /= <<>>, stream' = Tail(stream)
  PROVE  /\ \A h \in Pending' : h \in Nat /\ h + 1 \in Pending /\ stream'[h] = stream[h + 1]
         /\ \A h \in Pending : h \in Nat /\ (h /= 1 => h - 1 \in Pending' /\ stream'[h - 1] = stream[h])
<1>1. stream \in Seq(StreamEvents) /\ Len(stream) \in Nat \ {0}
  BY EmptySeq DEF StreamInv, StreamTypeOK, StreamEvents
<1>2. Len(stream') = Len(stream) - 1 /\ \A h \in 1 .. Len(stream') : stream'[h] = stream[h + 1]
  BY <1>1, HeadTailProperties
<1>3. Pending' = {h \in 1 .. Len(stream') : stream'[h].kind = "chunk"}
  BY DEF Pending
<1> QED
  BY <1>1, <1>2, <1>3 DEF Pending

(* Received and pending chunks together stay what was sent. *)
LEMMA ChannelStep == StreamInv /\ [StreamNext]_streamVars => ChannelInv'
<1> SUFFICES ASSUME StreamInv, [StreamNext]_streamVars PROVE ChannelInv'
  OBVIOUS
<1>0. /\ stream \in Seq(StreamEvents) /\ sent \in Seq(Chunks) /\ received \in Seq(Chunks)
      /\ Len(stream) \in Nat /\ Len(sent) \in Nat /\ Len(received) \in Nat
  BY LenProperties DEF StreamInv, StreamTypeOK, StreamEvents
<1>inv. ReceivedIsPrefix /\ (answer \in {"none", "streamed"} /\ client /= "gone" => HoldsRest)
  BY DEF StreamInv, ChannelInv
<1>same. ASSUME UNCHANGED <<stream, sent, received>> PROVE ReceivedIsPrefix' /\ HoldsRest' = HoldsRest
  BY <1>inv, <1>same DEF ReceivedIsPrefix, HoldsRest, Pending
<1> USE DEF plugin, serving, Return
<1>1. CASE Connect
  <2>1. Headers(target) \in StreamEvents /\ Headers(target).kind = "headers"
    BY DEF Headers, StreamEvents, StreamInv, StreamTypeOK
  <2>2. UNCHANGED <<sent, received, answer, client>>
    BY <1>1 DEF Connect
  <2>3. ASSUME client /= "gone" PROVE HoldsRest' = HoldsRest
    <3>1. /\ Len(stream') = Len(stream) + 1 /\ stream'[Len(stream) + 1] = Headers(target)
          /\ \A h \in 1 .. Len(stream) : stream'[h] = stream[h]
      BY <1>0, <1>1, <2>1, <2>3, PushAppends DEF Connect
    <3>2. Pending' = Pending /\ \A h \in Pending : stream'[h] = stream[h]
      BY <1>0, <2>1, <3>1 DEF Pending
    <3>3. (\A h \in Pending : \E k \in Len(received) + 1 .. Len(sent) : stream[h].of = sent[k])'
            = (\A h \in Pending : \E k \in Len(received) + 1 .. Len(sent) : stream[h].of = sent[k])
      BY <2>2, <3>2
    <3>4. (\A k \in Len(received) + 1 .. Len(sent) : \E h \in Pending : stream[h].of = sent[k])'
            = (\A k \in Len(received) + 1 .. Len(sent) : \E h \in Pending : stream[h].of = sent[k])
      BY <2>2, <3>2, Zenon
    <3>5. (\A h, j \in Pending : h < j => Before(stream[h].of, stream[j].of))'
            = (\A h, j \in Pending : h < j => Before(stream[h].of, stream[j].of))
      BY <3>2, Zenon
    <3> QED
      BY <3>3, <3>4, <3>5, Zenon DEF HoldsRest
  <2>4. ReceivedIsPrefix'
    BY <1>inv, <2>2 DEF ReceivedIsPrefix
  <2> QED
    BY <1>inv, <2>2, <2>3, <2>4 DEF ChannelInv
<1>2. CASE PushChunk
  <2> DEFINE c == <<target, chunk + 1>>
             n == Len(sent) + 1
  <2>1. c \in Chunks
    BY <1>2, TargetAssumption DEF PushChunk, StreamInv, StreamTypeOK, Chunks
  <2>2. /\ sent' = Append(sent, c) /\ Len(sent') = n
        /\ \A k \in 1 .. Len(sent) : sent'[k] = sent[k]
        /\ sent'[n] = c
    BY <1>0, <1>2, <2>1, AppendProperties DEF PushChunk
  <2>3. received' = received /\ answer' = answer /\ client' = client
    BY <1>2 DEF PushChunk
  <2>4. Len(received') =< Len(sent') /\ \A k \in 1 .. Len(received') : received'[k] = sent'[k]
    BY <1>0, <2>2, <2>3 DEF StreamInv, ChannelInv, ReceivedIsPrefix, HoldsRest
  <2>5. ASSUME answer \in {"none", "streamed"}, client /= "gone"
        PROVE  HoldsRest'
    <3> DEFINE p == Len(stream) + 1
    <3>1. Chunk(target, chunk + 1) = [kind |-> "chunk", of |-> c] /\ Chunk(target, chunk + 1) \in StreamEvents
      BY <2>1 DEF Chunk, StreamEvents
    <3>2. /\ Len(stream') = p /\ stream'[p] = [kind |-> "chunk", of |-> c]
          /\ \A h \in 1 .. Len(stream) : stream'[h] = stream[h]
      BY <1>0, <1>2, <2>5, <3>1, PushAppends DEF PushChunk
    <3>3. /\ Pending' = Pending \cup {p} /\ \A h \in Pending : h < p /\ stream'[h] = stream[h]
          /\ stream'[p].of = c
      BY <1>0, <3>2 DEF Pending
    <3>4. \A h \in Pending : \E k \in Len(received) + 1 .. Len(sent) : stream[h].of = sent[k]
      BY <2>5 DEF StreamInv, ChannelInv, ReceivedIsPrefix, HoldsRest
    <3>5. n \in Len(received') + 1 .. Len(sent')
      BY <1>0, <2>2, <2>3 DEF StreamInv, ChannelInv, ReceivedIsPrefix, HoldsRest
    <3>6. \A k \in Len(received) + 1 .. Len(sent) : k \in Len(received') + 1 .. Len(sent') /\ sent'[k] = sent[k]
      BY <1>0, <2>2, <2>3
    <3>7. \A h \in Pending' : \E k \in Len(received') + 1 .. Len(sent') : stream'[h].of = sent'[k]
      BY SMTT(60), <2>2, <3>3, <3>4, <3>5, <3>6
    <3>8. \A k \in Len(received') + 1 .. Len(sent') : \E h \in Pending' : stream'[h].of = sent'[k]
      <4> SUFFICES ASSUME NEW k \in Len(received') + 1 .. Len(sent')
                   PROVE  \E h \in Pending' : stream'[h].of = sent'[k]
        OBVIOUS
      <4>1. CASE k = n
        BY <2>2, <3>3, <4>1
      <4>2. CASE k /= n
        <5>1. k \in Len(received) + 1 .. Len(sent) /\ sent'[k] = sent[k]
          BY <1>0, <2>2, <2>3, <4>2
        <5> QED
          BY <2>5, <3>3, <5>1 DEF StreamInv, ChannelInv, ReceivedIsPrefix, HoldsRest
      <4> QED
        BY <4>1, <4>2
    <3>9. \A h, j \in Pending' : h < j => Before(stream'[h].of, stream'[j].of)
      <4>1. SentInv'
        BY SentStep
      <4>2. \A h \in Pending : Before(stream'[h].of, c)
        <5> SUFFICES ASSUME NEW h \in Pending PROVE Before(stream'[h].of, c)
          OBVIOUS
        <5>1. PICK k \in Len(received) + 1 .. Len(sent) : stream[h].of = sent[k]
          BY <3>4
        <5>2. k \in 1 .. Len(sent') /\ n \in 1 .. Len(sent') /\ k < n /\ sent'[k] = stream'[h].of
          BY <1>0, <2>2, <3>3, <5>1
        <5>3. Before(sent'[k], sent'[n])
          BY <4>1, <5>2 DEF SentInv
        <5> QED
          BY <2>2, <5>2, <5>3
      <4>3. \A h, j \in Pending : h < j => Before(stream'[h].of, stream'[j].of)
        BY <2>5, <3>3 DEF StreamInv, ChannelInv, ReceivedIsPrefix, HoldsRest
      <4>4. \A h \in Pending : ~(p < h)
        BY <1>0, <3>3 DEF Pending
      <4> SUFFICES ASSUME NEW h \in Pending', NEW j \in Pending', h < j
                   PROVE  Before(stream'[h].of, stream'[j].of)
        OBVIOUS
      <4>5. h \in Pending
        BY <1>0, <3>3, <4>4
      <4>6. CASE j \in Pending
        BY <4>3, <4>5, <4>6
      <4>7. CASE j = p
        BY <3>3, <4>2, <4>5, <4>7
      <4> QED
        BY <3>3, <4>6, <4>7
    <3> QED
      BY <3>7, <3>8, <3>9 DEF HoldsRest
  <2>6. ReceivedIsPrefix'
    BY <2>4 DEF ReceivedIsPrefix
  <2> QED
    BY <2>3, <2>5, <2>6 DEF ChannelInv
<1>3. CASE AttemptFails \/ UpstreamBreaks
  BY <1>3, <1>inv, <1>same DEF AttemptFails, UpstreamBreaks, ChannelInv
<1>4. CASE CallReturns \/ UpstreamEnds \/ ReadResult \/ Trap \/ DropInstance \/ Finish
  BY <1>4, <1>inv, <1>same DEF CallReturns, UpstreamEnds, ReadResult, Trap, DropInstance, Finish, ChannelInv
<1>5. CASE TakeHeaders
  <2>1. UNCHANGED <<received, sent, client>> /\ answer = "none" /\ stream /= <<>> /\ stream' = Tail(stream)
    BY <1>5 DEF TakeHeaders, StreamInv, HandlerInv
  <2>2. 1 \notin Pending
    BY <2>1 DEF Pending, StreamInv, HandlerInv
  <2>3. /\ \A h \in Pending' : h \in Nat /\ h + 1 \in Pending /\ stream'[h] = stream[h + 1]
        /\ \A h \in Pending : h \in Nat /\ h - 1 \in Pending' /\ stream'[h - 1] = stream[h]
    BY <2>1, <2>2, TailShifts
  <2>4. HoldsRest
    BY <1>inv, <2>1 DEF StreamInv, HandlerInv
  <2>5. HoldsRest'
    <3>1. \A h \in Pending' : \E k \in Len(received) + 1 .. Len(sent) : stream'[h].of = sent[k]
      <4> SUFFICES ASSUME NEW h \in Pending'
                   PROVE  \E k \in Len(received) + 1 .. Len(sent) : stream'[h].of = sent[k]
        OBVIOUS
      <4>1. h + 1 \in Pending /\ stream'[h] = stream[h + 1]
        BY <2>3
      <4> QED
        BY <2>4, <4>1 DEF HoldsRest
    <3>2. \A k \in Len(received) + 1 .. Len(sent) : \E h \in Pending' : stream'[h].of = sent[k]
      BY SMTT(60), <2>3, <2>4 DEF HoldsRest
    <3>3. ASSUME NEW h \in Pending', NEW j \in Pending', h < j PROVE Before(stream'[h].of, stream'[j].of)
      <4>1. h + 1 < j + 1
        BY <2>3, <3>3
      <4> QED
        BY <2>3, <2>4, <4>1 DEF HoldsRest
    <3> QED
      BY <2>1, <3>1, <3>2, <3>3 DEF HoldsRest
  <2>6. ReceivedIsPrefix'
    BY <1>inv, <2>1 DEF ReceivedIsPrefix
  <2> QED
    BY <2>5, <2>6 DEF ChannelInv
<1>6. CASE ChannelClosed \/ StreamPending \/ PollWasm \/ Wake \/ AwaitWasm
  BY <1>6, <1>inv, <1>same DEF ChannelClosed, StreamPending, PollWasm, Wake, AwaitWasm, ChannelInv
<1>7. CASE AnswerBuffered
  BY <1>7, <1>inv DEF AnswerBuffered, ChannelInv, ReceivedIsPrefix
<1>8. CASE Deliver
  <2>1. /\ answer = "streamed" /\ client = "open" /\ stream /= <<>> /\ stream' = Tail(stream)
        /\ UNCHANGED <<sent, answer, client>> /\ Head(stream) = stream[1]
    BY <1>8 DEF Deliver
  <2>2. /\ \A h \in Pending' : h \in Nat /\ h + 1 \in Pending /\ stream'[h] = stream[h + 1]
        /\ \A h \in Pending : h \in Nat /\ (h /= 1 => h - 1 \in Pending' /\ stream'[h - 1] = stream[h])
    BY <2>1, TailShifts
  <2>3. \A h, j \in Pending' : h < j => Before(stream'[h].of, stream'[j].of)
    <3> SUFFICES ASSUME NEW h \in Pending', NEW j \in Pending', h < j PROVE Before(stream'[h].of, stream'[j].of)
      OBVIOUS
    <3>1. h + 1 < j + 1
      BY <2>2
    <3> QED
      BY <1>inv, <2>1, <2>2, <3>1 DEF HoldsRest
  <2>4. CASE stream[1].kind /= "chunk"
    <3>1. received' = received /\ 1 \notin Pending
      BY <1>8, <2>1, <2>4 DEF Deliver, Pending
    <3>2. \A h \in Pending' : \E k \in Len(received) + 1 .. Len(sent) : stream'[h].of = sent[k]
      <4> SUFFICES ASSUME NEW h \in Pending'
                   PROVE  \E k \in Len(received) + 1 .. Len(sent) : stream'[h].of = sent[k]
        OBVIOUS
      <4>1. h + 1 \in Pending /\ stream'[h] = stream[h + 1]
        BY <2>2
      <4> QED
        BY <1>inv, <2>1, <4>1 DEF HoldsRest
    <3>3. \A k \in Len(received) + 1 .. Len(sent) : \E h \in Pending' : stream'[h].of = sent[k]
      <4> SUFFICES ASSUME NEW k \in Len(received) + 1 .. Len(sent)
                   PROVE  \E h \in Pending' : stream'[h].of = sent[k]
        OBVIOUS
      <4>1. PICK h \in Pending : stream[h].of = sent[k]
        BY <1>inv, <2>1 DEF HoldsRest
      <4>2. h /= 1 /\ h - 1 \in Pending' /\ stream'[h - 1] = stream[h]
        BY <2>2, <3>1, <4>1
      <4> QED
        BY <4>1, <4>2
    <3>4. HoldsRest'
      BY <2>1, <2>3, <3>1, <3>2, <3>3 DEF HoldsRest
    <3>5. ReceivedIsPrefix'
      BY <1>inv, <2>1, <3>1 DEF ReceivedIsPrefix
    <3> QED
      BY <3>4, <3>5 DEF ChannelInv
  <2>5. CASE stream[1].kind = "chunk"
    <3> DEFINE n == Len(received) + 1
    <3>1. n =< Len(sent) /\ stream[1].of = sent[n] /\ sent[n] \in Chunks
      BY <1>0, <2>1, <2>5, HeadIsNext, ElementOfSeq
    <3>2. /\ Len(received') = n /\ \A k \in 1 .. Len(received) : received'[k] = received[k]
          /\ received'[n] = sent[n]
      BY <1>0, <1>8, <2>1, <2>5, <3>1, AppendProperties DEF Deliver
    <3>3. ReceivedIsPrefix'
      <4>1. \A k \in 1 .. n : k = n \/ k \in 1 .. Len(received)
        BY <1>0
      <4>2. \A k \in 1 .. Len(received') : received'[k] = sent'[k]
        BY <1>inv, <2>1, <3>2, <4>1 DEF ReceivedIsPrefix
      <4> QED
        BY <2>1, <3>1, <3>2, <4>2 DEF ReceivedIsPrefix
    <3>4. \A k \in n + 1 .. Len(sent) : Before(sent[n], sent[k])
      BY <1>0, <3>1 DEF StreamInv, SentInv
    <3>5. \A k \in 1 .. Len(sent) : ~Before(sent[k], sent[k])
      <4>1. \A k \in 1 .. Len(sent) : sent[k] \in Chunks
        BY <1>0, ElementOfSeq
      <4> QED
        BY <4>1, TargetAssumption DEF Chunks, Targets, Before
    <3>6. \A k \in n + 1 .. Len(sent) : \E h \in Pending' : stream'[h].of = sent[k]
      <4> SUFFICES ASSUME NEW k \in n + 1 .. Len(sent) PROVE \E h \in Pending' : stream'[h].of = sent[k]
        OBVIOUS
      <4>1. PICK h \in Pending : stream[h].of = sent[k]
        <5>1. k \in Len(received) + 1 .. Len(sent)
          BY <1>0
        <5> QED
          BY <1>inv, <2>1, <5>1 DEF HoldsRest
      <4>2. sent[n] /= sent[k]
        BY <1>0, <3>1, <3>4, <3>5
      <4> QED
        BY <2>2, <3>1, <4>1, <4>2
    <3>7. \A h \in Pending' : \E k \in n + 1 .. Len(sent) : stream'[h].of = sent[k]
      <4> SUFFICES ASSUME NEW h \in Pending' PROVE \E k \in n + 1 .. Len(sent) : stream'[h].of = sent[k]
        OBVIOUS
      <4>1. h \in Nat /\ h + 1 \in Pending /\ stream'[h] = stream[h + 1] /\ h >= 1
        BY <2>2 DEF Pending
      <4>2. PICK k \in n .. Len(sent) : stream[h + 1].of = sent[k]
        BY <1>0, <2>1, <4>1 DEF StreamInv, ChannelInv, ReceivedIsPrefix, HoldsRest
      <4>3. 1 \in Pending
        BY <1>0, <2>1, <2>5, EmptySeq DEF Pending
      <4>4. Before(stream[1].of, stream[h + 1].of)
        BY <2>1, <4>1, <4>3 DEF StreamInv, ChannelInv, ReceivedIsPrefix, HoldsRest
      <4>5. k /= n
        BY <1>0, <3>1, <3>5, <4>2, <4>4
      <4> QED
        BY <1>0, <4>1, <4>2, <4>5
    <3> QED
      BY <2>1, <2>3, <3>2, <3>3, <3>6, <3>7 DEF ChannelInv, HoldsRest
  <2> QED
    BY <2>4, <2>5
<1>9. CASE EndOfStream \/ Observe \/ UNCHANGED streamVars
  BY <1>9, <1>inv, <1>same DEF EndOfStream, Observe, streamVars, ChannelInv
<1>10. CASE ClientLeaves
  BY <1>10, <1>inv DEF ClientLeaves, ChannelInv, ReceivedIsPrefix
<1> QED
  BY <1>1, <1>2, <1>3, <1>4, <1>5, <1>6, <1>7, <1>8, <1>9, <1>10 DEF StreamNext, Plugin, Handler, Body, StreamTerminated

-----------------------------------------------------------------------------
(* The inductive invariant of a streamed dispatch. *)
THEOREM StreamInvHolds == StreamSpec => []StreamInv
<1>1. StreamInv /\ [StreamNext]_streamVars => StreamInv'
  BY TypeStep, SentStep, ResultStep, ChannelStep, HandlerStep DEF StreamInv
<1> QED
  BY StreamStarts, <1>1, PTL DEF StreamSpec

(* The channel, the task and the client hold what they are declared to.    *)
THEOREM StreamTypeCorrect == StreamSpec => []StreamTypeOK
<1>1. StreamInv => StreamTypeOK
  BY DEF StreamInv
<1> QED
  BY StreamInvHolds, <1>1, PTL

(* However the blocking thread of host_http_stream, the select of          *)
(* dispatch_wasm_plugin_inner and the client are interleaved, and however  *)
(* many targets break, the streamed body loses, repeats and reorders       *)
(* nothing, and it ends only when all of it was delivered.                 *)
THEOREM StreamIsFaithful == StreamSpec => []BodyFaithful
<1>1. ASSUME StreamInv PROVE BodyFaithful
  <2>0. /\ sent \in Seq(Chunks) /\ received \in Seq(Chunks)
        /\ Len(sent) \in Nat /\ Len(received) \in Nat /\ Len(received) =< Len(sent)
        /\ \A k \in 1 .. Len(sent) : sent[k] \in Chunks
    BY <1>1, LenProperties, ElementOfSeq DEF StreamInv, StreamTypeOK, ChannelInv, ReceivedIsPrefix
  <2>1. received = SubSeq(sent, 1, Len(received))
    <3>1. /\ SubSeq(sent, 1, Len(received)) \in Seq(Chunks)
          /\ Len(SubSeq(sent, 1, Len(received))) = Len(received)
          /\ \A k \in 1 .. Len(received) : SubSeq(sent, 1, Len(received))[k] = sent[k]
      BY <2>0, SubSeqProperties
    <3> QED
      BY <1>1, <2>0, <3>1, SeqEqual DEF StreamInv, ChannelInv, ReceivedIsPrefix, HoldsRest
  <2>2. ASSUME answer = "streamed", client /= "gone"
        PROVE  /\ {stream[h].of : h \in Pending} = {sent[k] : k \in Len(received) + 1 .. Len(sent)}
               /\ \A h, j \in Pending, k, l \in 1 .. Len(sent) :
                    h < j /\ stream[h].of = sent[k] /\ stream[j].of = sent[l] => k < l
    <3>1. {stream[h].of : h \in Pending} = {sent[k] : k \in Len(received) + 1 .. Len(sent)}
      BY SMTT(60), <1>1, <2>2 DEF StreamInv, ChannelInv, ReceivedIsPrefix, HoldsRest
    <3>2. ASSUME NEW h \in Pending, NEW j \in Pending, NEW k \in 1 .. Len(sent), NEW l \in 1 .. Len(sent),
                 h < j, stream[h].of = sent[k], stream[j].of = sent[l]
          PROVE  k < l
      <4>1. Before(sent[k], sent[l])
        BY <1>1, <2>2, <3>2 DEF StreamInv, ChannelInv, ReceivedIsPrefix, HoldsRest
      <4>2. l < k => Before(sent[l], sent[k])
        BY <1>1 DEF StreamInv, SentInv
      <4>3. /\ sent[k][1] \in Nat /\ sent[k][2] \in Nat
            /\ sent[l][1] \in Nat /\ sent[l][2] \in Nat
        <5>1. sent[k] \in Chunks /\ sent[l] \in Chunks
          BY <2>0
        <5> QED
          BY <5>1, TargetAssumption DEF Chunks, Targets
      <4> QED
        BY <2>0, <4>1, <4>2, <4>3 DEF Before
    <3> QED
      BY <3>1, <3>2
  <2>3. ASSUME client = "complete" PROVE received = sent /\ closed
    <3>1. answer = "streamed" /\ closed /\ Pending = {}
      BY <1>1, <2>3, EmptySeq DEF StreamInv, HandlerInv, Pending
    <3>2. ~(Len(received) + 1 =< Len(sent))
      BY <1>1, <2>0, <2>3, <3>1 DEF StreamInv, ChannelInv, ReceivedIsPrefix, HoldsRest
    <3> QED
      BY <1>1, <2>0, <3>1, <3>2, SeqEqual DEF StreamInv, ChannelInv, ReceivedIsPrefix, HoldsRest
  <2> QED
    BY <2>1, <2>2, <2>3 DEF BodyFaithful
<1> QED
  BY <1>1, StreamInvHolds, PTL

(* Chunks of two upstreams reach a client only if the earlier one failed   *)
(* in the middle of its body, and on_response sees only a response whose   *)
(* body was complete.                                                      *)
THEOREM BrokenStaysContained == StreamSpec => []BrokenIsContained
<1>1. ASSUME StreamInv PROVE BrokenIsContained
  <2>1. /\ \A k \in 1 .. Len(sent) : sent[k][1] \in Nat /\ sent[k][2] \in Nat
        /\ Len(sent) \in Nat /\ Len(received) \in Nat /\ target \in Nat
    <3>1. \A k \in 1 .. Len(sent) : sent[k] \in Chunks
      BY <1>1, ElementOfSeq DEF StreamInv, StreamTypeOK
    <3> QED
      BY <1>1, <3>1, LenProperties, TargetAssumption DEF StreamInv, StreamTypeOK, Targets, Chunks
  <2>2. ASSUME NEW m \in 1 .. Len(received), NEW n \in 1 .. Len(received), m < n
        PROVE  /\ received[m][1] =< received[n][1]
               /\ received[m][1] < received[n][1] => received[m][1] \in broken
    <3>1. m \in 1 .. Len(sent) /\ n \in 1 .. Len(sent) /\ received[m] = sent[m] /\ received[n] = sent[n]
      BY <1>1, <2>1 DEF StreamInv, ChannelInv, ReceivedIsPrefix, HoldsRest
    <3>2. Before(sent[m], sent[n]) /\ sent[n][1] =< target /\ (sent[m][1] < target => sent[m][1] \in broken)
      BY <1>1, <2>2, <3>1 DEF StreamInv, SentInv
    <3> QED
      BY <2>1, <3>1, <3>2 DEF Before
  <2> QED
    BY <1>1, <2>2 DEF BrokenIsContained, MixedNeedsBreak, StreamInv, ResultInv
<1> QED
  BY <1>1, StreamInvHolds, PTL

-----------------------------------------------------------------------------
(* Requests to language models. *)

IsList(s) == \E S : s \in Seq(S)

(* The form of a request on a connection. *)
ConnFields == {"pc", "at", "name", "req", "sent", "targets", "left", "charged", "lost", "resp", "listed"}
ReqFields == {"path", "method", "client", "header", "ctx", "body"}
AiStages == {"request", "dispatch", "call", "models", "response", "charge", "done"}

(* What no middleware changes: who asks, and by which policy. *)
SameAsker(req, own) ==
  /\ req = [f \in ReqFields |-> req[f]] /\ req.ctx = [k \in DOMAIN req.ctx |-> req.ctx[k]]
  /\ {"ai.policy", "consumer", "ai.tokens"} \subseteq DOMAIN req.ctx
  /\ req.client = own.client /\ req.header = own.header
  /\ req.ctx["ai.policy"] = own.ctx["ai.policy"] /\ req.ctx["consumer"] = own.ctx["consumer"]

Form(r) ==
  /\ r = [f \in ConnFields |-> r[f]] /\ r.pc \in AiStages /\ r.name \in DOMAIN Requests
  /\ IsList(r.sent) /\ IsList(r.targets) /\ IsList(r.charged)
  /\ r.pc \in {"request", "response", "charge"} => r.at \in 1 .. Len(Chain)
  /\ r.pc = "done" => r.at = 0
  /\ r.pc = "charge" => r.at \in Limits
  /\ SameAsker(r.req, Requests[r.name])

(* The targets still to be tried, and why the others were given up. *)
Failed(x) == x.result = {} \/ The(x.result).status >= 500
ModelOf(r) == The(extract_client_model(r.req.body))
Early == {"request", "dispatch", "models"}

Trying(r) ==
  /\ IF r.sent = <<>> THEN Permits(r.targets[1], ModelOf(r)) ELSE Permits(r.sent[1].to, ModelOf(r))
  /\ Len(r.targets) + Len(r.sent) = 1 + Len(Config.fallback) /\ r.targets # <<>>
  /\ \A n \in DOMAIN r.sent : Failed(r.sent[n])

Tried(r) ==
  r.sent # <<>> =>
     /\ Permits(r.sent[1].to, ModelOf(r))
     /\ \A n \in 1 .. Len(r.sent) - 1 : Failed(r.sent[n])
     /\ Failed(r.sent[Len(r.sent)]) => Len(r.sent) = 1 + Len(Config.fallback)

TargetsOK(r) ==
  /\ r.pc \in Early => r.sent = <<>>
  /\ r.pc = "call" => Trying(r)
  /\ r.pc # "call" => Tried(r)

(* What each limit has charged, by the stage of the request. *)
ProfileFor(r, q) == resolve_profile(Chain[q], Requests[r.name].ctx)
PartitionOf(r, q) == extract_partition(Chain[q], Requests[r.name])
BudgetKey(r, q) == bucket_key(Chain[q], The(ProfileFor(r, q))[1], PartitionOf(r, q))
LateKey(r, q) ==
  bucket_key(Chain[q], The(ProfileFor(r, q))[1], IF EmptyHeader(Chain[q], r) THEN "unknown" ELSE PartitionOf(r, q))
Own(charged, q) == {n \in DOMAIN charged : charged[n][1] = Chain[q].policy}
BillOK(r, q) ==
  /\ \A n \in Own(r.charged, q) : r.charged[n] \in {BudgetKey(r, q), LateKey(r, q)}
  /\ \A m, n \in Own(r.charged, q) : m < n => r.charged[n] = LateKey(r, q)
Tokens(r, q) == tokens_from_context(Chain[q], r.req.ctx)
AtLeastOne(n) == IF n > 1 THEN n ELSE 1

Kept(r, q) ==
  LET key == partition_context_key(Chain[q])
  IN ProfileFor(r, q) # {} /\ key \in DOMAIN r.req.ctx /\ r.req.ctx[key] = {PartitionOf(r, q)}
Paid(r, q, n) == Chain[q].policy \notin r.lost => Cardinality(Own(r.charged, q)) = n

(* The request has passed the limit and has not come back to it. *)
Ahead(r, q) ==
  \/ r.pc = "request" /\ q < r.at
  \/ r.pc \in {"dispatch", "call", "models"}
  \/ r.pc = "response" /\ q <= r.at
  \/ r.pc = "charge" /\ q < r.at

Late == {"response", "charge", "done"}

LimitOK(r, q) ==
  /\ r.pc = "request" /\ q >= r.at => Own(r.charged, q) = {}
  /\ Ahead(r, q) => Kept(r, q) /\ Paid(r, q, 1)
  /\ r.pc = "charge" /\ q = r.at =>
        Kept(r, q) /\ r.left \in Nat \ {0} /\ Tokens(r, q) > 1 /\ Paid(r, q, Tokens(r, q) - r.left)
  /\ r.pc \in Late /\ q > r.at /\ r.sent # <<>> => Paid(r, q, AtLeastOne(Tokens(r, q)))

TokenCounts == {S \in SUBSET (Nat \X Nat) : \A x, y \in S : x = y}

CountsOK(r) ==
  /\ r.req.ctx["ai.tokens"] \in TokenCounts
  /\ r.pc \notin Late => r.req.ctx["ai.tokens"] = {}
  /\ r.pc \in Late /\ r.sent # <<>> => r.req.ctx["ai.tokens"] = Reported(r)

BudgetOK(r) ==
  /\ \A q \in Limits : BillOK(r, q)
  /\ CountsOK(r)
  /\ \A q \in Limits : LimitOK(r, q)

RequestOK(r) == Form(r) /\ TargetsOK(r) /\ BudgetOK(r)

AiInv == conn = [c \in Conns |-> conn[c]] /\ \A c \in Conns : conn[c] = Idle \/ RequestOK(conn[c])

-----------------------------------------------------------------------------
(* Lists *)

(* Append adds one element at the end and leaves the others; so does the   *)
(* concatenation with one element.                                         *)
LEMMA AppendList ==
  ASSUME NEW s, IsList(s), NEW x
  PROVE  /\ IsList(Append(s, x)) /\ Len(s) \in Nat /\ DOMAIN s = 1 .. Len(s)
         /\ Len(Append(s, x)) = Len(s) + 1 /\ DOMAIN Append(s, x) = 1 .. Len(s) + 1
         /\ Append(s, x)[Len(s) + 1] = x
         /\ \A n \in 1 .. Len(s) : Append(s, x)[n] = s[n]
         /\ s \o <<x>> = Append(s, x) /\ s \o <<>> = s /\ (s = <<>> <=> Len(s) = 0)
<1>1. PICK S : s \in Seq(S)
  BY DEF IsList
<1>2. s \in Seq(S \cup {x})
  BY <1>1
<1>3. Append(s, x) \in Seq(S \cup {x})
  BY <1>2
<1>4. IsList(Append(s, x))
  BY <1>3 DEF IsList
<1>5. s \o <<x>> = Append(s, x) /\ s \o <<>> = s
  BY <1>2
<1>6. s = <<>> <=> Len(s) = 0
  BY <1>2, EmptySeq
<1> QED
  BY <1>2, <1>4, <1>5, <1>6

(* Taking the first element off a list leaves the others.                  *)
LEMMA TailList ==
  ASSUME NEW s, IsList(s), s # <<>>
  PROVE  /\ IsList(Tail(s)) /\ Len(s) \in Nat \ {0} /\ Len(Tail(s)) = Len(s) - 1 /\ Head(s) = s[1]
<1>1. PICK S : s \in Seq(S)
  BY DEF IsList
<1>2. Tail(s) \in Seq(S) /\ Len(Tail(s)) = Len(s) - 1 /\ Head(s) = s[1] /\ Len(s) \in Nat \ {0}
  BY <1>1, EmptySeq
<1> QED
  BY <1>2 DEF IsList

(* The lists of a new request.                                             *)
LEMMA EmptyList == IsList(<<>>) /\ Len(<<>>) = 0 /\ DOMAIN <<>> = {}
<1>1. <<>> \in Seq({})
  OBVIOUS
<1> QED
  BY <1>1 DEF IsList

(* The chain and the fallbacks are lists.                                  *)
LEMMA ChainIsList ==
  /\ IsList(Chain) /\ Len(Chain) \in Nat \ {0} /\ DOMAIN Chain = 1 .. Len(Chain)
  /\ Limits \subseteq 1 .. Len(Chain)
  /\ IsList(Config.fallback) /\ Len(Config.fallback) \in Nat
<1>1. IsList(Chain) /\ IsList(Config.fallback)
  BY AiChainAssumption DEF IsList
<1>2. Len(Chain) \in Nat \ {0} /\ DOMAIN Chain = 1 .. Len(Chain)
  BY <1>1, AppendList, AiChainAssumption
<1>3. Len(Config.fallback) \in Nat
  BY <1>1, AppendList
<1> QED
  BY <1>1, <1>2, <1>3 DEF Limits

-----------------------------------------------------------------------------
(* Charges *)

(* A charge counts for the limit whose name it bears and for no other.     *)
LEMMA Charged ==
  ASSUME NEW s, IsList(s), NEW k, NEW q \in Limits
  PROVE  /\ Cardinality(Own(s, q)) \in Nat
         /\ k[1] = Chain[q].policy => Cardinality(Own(Append(s, k), q)) = Cardinality(Own(s, q)) + 1
         /\ k[1] # Chain[q].policy => Own(Append(s, k), q) = Own(s, q)
<1>1. /\ Len(s) \in Nat /\ DOMAIN s = 1 .. Len(s) /\ DOMAIN Append(s, k) = 1 .. Len(s) + 1
      /\ Append(s, k)[Len(s) + 1] = k /\ \A n \in 1 .. Len(s) : Append(s, k)[n] = s[n]
  BY AppendList
<1>2. IsFiniteSet(Own(s, q))
  <2>1. IsFiniteSet(1 .. Len(s))
    <3>1. 1 \in Int /\ Len(s) \in Int
      BY <1>1
    <3> QED
      BY <3>1, FS_Interval, Zenon
  <2>2. Own(s, q) \subseteq 1 .. Len(s)
    BY <1>1 DEF Own
  <2> QED
    BY <2>1, <2>2, FS_Subset
<1>3. k[1] = Chain[q].policy => Own(Append(s, k), q) = Own(s, q) \cup {Len(s) + 1}
  BY <1>1 DEF Own
<1>4. k[1] # Chain[q].policy => Own(Append(s, k), q) = Own(s, q)
  BY <1>1 DEF Own
<1>5. Len(s) + 1 \notin Own(s, q)
  BY <1>1 DEF Own
<1>6. Cardinality(Own(s, q)) \in Nat
  BY <1>2, FS_CardinalityType
<1>7. Cardinality(Own(s, q) \cup {Len(s) + 1}) = Cardinality(Own(s, q)) + 1
  BY <1>2, <1>5, FS_AddElement
<1> QED
  BY <1>3, <1>4, <1>6, <1>7

(* Names tell limits apart, in the key of a budget and in the context.     *)
LEMMA KeysDiffer ==
  ASSUME NEW r, NEW p \in Limits, NEW q \in Limits
  PROVE  /\ BudgetKey(r, q)[1] = Chain[q].policy /\ LateKey(r, q)[1] = Chain[q].policy
         /\ Chain[p].policy = Chain[q].policy => p = q
         /\ partition_context_key(Chain[p]) = partition_context_key(Chain[q]) => p = q
         /\ partition_context_key(Chain[q]) \notin
               {"ai.policy", "consumer", "ai.tokens", "ai.provider", "ai.model", "store_downgrade"}
<1>1. BudgetKey(r, q)[1] = Chain[q].policy /\ LateKey(r, q)[1] = Chain[q].policy
  BY DEF BudgetKey, LateKey, bucket_key
<1> QED
  BY <1>1, AiChainAssumption DEF partition_context_key

(* Which budgets a request may charge depends on its name alone.           *)
LEMMA SameKeys ==
  ASSUME NEW r, NEW new, new.name = r.name
  PROVE  \A q : BudgetKey(new, q) = BudgetKey(r, q) /\ LateKey(new, q) = LateKey(r, q)
<1>1. \A q : /\ ProfileFor(new, q) = ProfileFor(r, q) /\ PartitionOf(new, q) = PartitionOf(r, q)
             /\ EmptyHeader(Chain[q], new) = EmptyHeader(Chain[q], r)
  BY DEF ProfileFor, PartitionOf, EmptyHeader
<1> QED
  BY <1>1 DEF BudgetKey, LateKey

(* One charge more: an admission that is the first charge of its limit, or *)
(* a later one.                                                            *)
LEMMA BillMore ==
  ASSUME NEW r, IsList(r.charged), \A q \in Limits : BillOK(r, q), NEW p \in Limits, NEW k,
         k = LateKey(r, p) \/ (k = BudgetKey(r, p) /\ Own(r.charged, p) = {}),
         NEW new, new.name = r.name, new.charged = Append(r.charged, k)
  PROVE  \A q \in Limits : BillOK(new, q)
<1>1. /\ Len(r.charged) \in Nat /\ DOMAIN r.charged = 1 .. Len(r.charged) /\ DOMAIN new.charged = 1 .. Len(r.charged) + 1
      /\ new.charged[Len(r.charged) + 1] = k /\ \A n \in 1 .. Len(r.charged) : new.charged[n] = r.charged[n]
  BY AppendList
<1>2. k[1] = Chain[p].policy
  <2>1. BudgetKey(r, p)[1] = Chain[p].policy /\ LateKey(r, p)[1] = Chain[p].policy
    BY DEF BudgetKey, LateKey, bucket_key
  <2> QED
    BY <2>1
<1>3. \A q : BudgetKey(new, q) = BudgetKey(r, q) /\ LateKey(new, q) = LateKey(r, q)
  BY SameKeys
<1>4. ASSUME NEW q \in Limits PROVE BillOK(new, q)
  <2>1. BillOK(r, q)
    OBVIOUS
  <2>2. CASE q = p
    <3>1. Own(new.charged, q) = Own(r.charged, q) \cup {Len(r.charged) + 1}
      BY <1>1, <1>2, <2>2 DEF Own
    <3>2. Own(r.charged, q) \subseteq 1 .. Len(r.charged)
      BY <1>1 DEF Own
    <3>3. \A n \in Own(new.charged, q) : new.charged[n] \in {BudgetKey(r, q), LateKey(r, q)}
      BY <1>1, <2>1, <2>2, <3>1, <3>2 DEF BillOK
    <3>4. ASSUME NEW m \in Own(new.charged, q), NEW n \in Own(new.charged, q), m < n PROVE new.charged[n] = LateKey(r, q)
      <4>1. m \in Own(r.charged, q) /\ m \in Nat
        BY <1>1, <3>1, <3>2, <3>4
      <4>2. k = LateKey(r, q)
        BY <2>2, <4>1
      <4>3. CASE n = Len(r.charged) + 1
        BY <1>1, <4>2, <4>3
      <4>4. CASE n \in Own(r.charged, q)
        BY <1>1, <2>1, <3>2, <3>4, <4>1, <4>4 DEF BillOK
      <4> QED
        BY <3>1, <4>3, <4>4
    <3> QED
      BY <1>3, <3>3, <3>4 DEF BillOK
  <2>3. CASE q # p
    <3>1. k[1] # Chain[q].policy
      <4>1. Chain[p].policy = Chain[q].policy => p = q
        BY KeysDiffer, Zenon
      <4> QED
        BY <1>2, <2>3, <4>1
    <3>2. Own(new.charged, q) = Own(r.charged, q) /\ Own(r.charged, q) \subseteq 1 .. Len(r.charged)
      BY <1>1, <3>1 DEF Own
    <3> QED
      BY <1>1, <1>3, <2>1, <3>2 DEF BillOK
  <2> QED
    BY <2>2, <2>3
<1> QED
  BY <1>4

(* Budgets are judged by name, charges, losses and context alone.          *)
LEMMA SameBudget ==
  ASSUME NEW r, NEW new, new.name = r.name, new.charged = r.charged, new.lost = r.lost, new.req.ctx = r.req.ctx
  PROVE  /\ \A q : BillOK(new, q) = BillOK(r, q) /\ Kept(new, q) = Kept(r, q) /\ Tokens(new, q) = Tokens(r, q)
         /\ \A q, n : Paid(new, q, n) = Paid(r, q, n)
<1>1. \A q : ProfileFor(new, q) = ProfileFor(r, q) /\ PartitionOf(new, q) = PartitionOf(r, q)
  BY DEF ProfileFor, PartitionOf
<1>2. \A q : BillOK(new, q) = BillOK(r, q)
  BY SameKeys DEF BillOK
<1>3. \A q : Kept(new, q) = Kept(r, q)
  BY <1>1 DEF Kept
<1>4. \A q : Tokens(new, q) = Tokens(r, q)
  BY DEF Tokens
<1>5. \A q, n : Paid(new, q, n) = Paid(r, q, n)
  BY DEF Paid
<1> QED
  BY <1>2, <1>3, <1>4, <1>5

(* Tokens of a context are numbers.                                        *)
LEMMA TokensAreNumbers ==
  ASSUME NEW r, r.req.ctx["ai.tokens"] \in TokenCounts, NEW q PROVE Tokens(r, q) \in Nat
<1> DEFINE counts == r.req.ctx["ai.tokens"]
<1>1. counts # {} => The(counts) \in Nat \X Nat
  BY DEF The, TokenCounts
<1>2. parse_token_count(r.req.ctx, 1) \in Nat /\ parse_token_count(r.req.ctx, 2) \in Nat
  BY <1>1 DEF parse_token_count
<1> QED
  BY <1>2 DEF Tokens, tokens_from_context

-----------------------------------------------------------------------------
(* Answers *)

(* Answer sets the stage, the place and the response, and nothing else.    *)
LEMMA AnswerFields ==
  ASSUME NEW r, r = [f \in ConnFields |-> r[f]], NEW resp, NEW at
  PROVE  LET new == Answer(r, resp, at)
         IN /\ new = [f \in ConnFields |-> new[f]]
            /\ new.pc = (IF at = 0 THEN "done" ELSE "response") /\ new.at = at /\ new.name = r.name /\ new.req = r.req
            /\ new.sent = r.sent /\ new.targets = r.targets /\ new.charged = r.charged /\ new.lost = r.lost
  BY DEF Answer, ConnFields

(* A step that calls nobody keeps what is known of the targets.            *)
LEMMA TargetsKept ==
  ASSUME NEW r, NEW new, TargetsOK(r), r.pc # "call", new.pc # "call", new.sent = r.sent,
         new.pc \in Early => r.pc \in Early, r.pc \notin Early => new.req.body = r.req.body
  PROVE  TargetsOK(new)
<1>1. CASE r.pc \in Early
  <2>1. new.sent = <<>>
    BY <1>1 DEF TargetsOK
  <2> QED
    BY <2>1 DEF TargetsOK, Tried
<1>2. CASE r.pc \notin Early
  <2>1. Tried(new)
    BY <1>2 DEF TargetsOK, Tried, ModelOf
  <2> QED
    BY <1>2, <2>1 DEF TargetsOK
<1> QED
  BY <1>1, <1>2

(* The answer of a middleware in the request phase: the ones before it see *)
(* the response.                                                           *)
LEMMA Refusing ==
  ASSUME NEW r, RequestOK(r), r.pc = "request", NEW resp
  PROVE  RequestOK(Answer(r, resp, r.at - 1))
<1> DEFINE new == Answer(r, resp, r.at - 1)
<1>1. /\ new = [f \in ConnFields |-> new[f]]
      /\ new.pc = (IF r.at - 1 = 0 THEN "done" ELSE "response") /\ new.at = r.at - 1 /\ new.name = r.name
      /\ new.req = r.req /\ new.sent = r.sent /\ new.targets = r.targets /\ new.charged = r.charged /\ new.lost = r.lost
  BY AnswerFields DEF RequestOK, Form
<1> HIDE DEF new
<1>2. r.at \in 1 .. Len(Chain) /\ Len(Chain) \in Nat
  BY ChainIsList DEF RequestOK, Form
<1>3. Form(new)
  BY <1>1, <1>2 DEF RequestOK, Form, AiStages
<1>4. r.sent = <<>> /\ new.pc \notin Early \cup {"call"}
  BY <1>1 DEF RequestOK, TargetsOK, Early
<1>5. TargetsOK(new)
  BY <1>1, <1>4, TargetsKept DEF RequestOK, Early
<1>6. /\ \A q : BillOK(new, q) = BillOK(r, q) /\ Kept(new, q) = Kept(r, q)
      /\ \A q, n : Paid(new, q, n) = Paid(r, q, n)
  <2>1. new.name = r.name /\ new.charged = r.charged /\ new.lost = r.lost /\ new.req.ctx = r.req.ctx
    BY <1>1
  <2> QED
    BY <2>1, SameBudget, Zenon
<1>7. CountsOK(new)
  BY <1>1, <1>4 DEF RequestOK, BudgetOK, CountsOK, Late
<1>8. ASSUME NEW q \in Limits PROVE LimitOK(new, q)
  <2>1. LimitOK(r, q) /\ q \in Nat
    BY ChainIsList DEF RequestOK, BudgetOK
  <2> QED
    BY <1>1, <1>2, <1>4, <1>6, <2>1 DEF LimitOK, Ahead, Late
<1>9. BudgetOK(new)
  BY <1>1, <1>6, <1>7, <1>8 DEF RequestOK, BudgetOK
<1> QED
  BY <1>3, <1>5, <1>9 DEF RequestOK, new

(* An answer of the proxy that called nobody: every middleware sees it.    *)
LEMMA Responding ==
  ASSUME NEW r, RequestOK(r), r.pc \in {"dispatch", "models"}, NEW resp
  PROVE  RequestOK(Responded(r, resp))
<1> DEFINE new == Responded(r, resp)
<1>1. Len(Chain) \in Nat \ {0} /\ Limits \subseteq 1 .. Len(Chain)
  BY ChainIsList
<1>2. /\ new = [f \in ConnFields |-> new[f]]
      /\ new.pc = "response" /\ new.at = Len(Chain) /\ new.name = r.name
      /\ new.req = r.req /\ new.sent = r.sent /\ new.targets = r.targets /\ new.charged = r.charged /\ new.lost = r.lost
  BY <1>1, AnswerFields DEF RequestOK, Form, Responded
<1> HIDE DEF new
<1>3. Form(new)
  BY <1>1, <1>2 DEF RequestOK, Form, AiStages
<1>4. r.sent = <<>>
  BY DEF RequestOK, TargetsOK, Early
<1>5. TargetsOK(new)
  BY <1>2, <1>4, TargetsKept DEF RequestOK, Early
<1>6. /\ \A q : BillOK(new, q) = BillOK(r, q) /\ Kept(new, q) = Kept(r, q)
      /\ \A q, n : Paid(new, q, n) = Paid(r, q, n)
  <2>1. new.name = r.name /\ new.charged = r.charged /\ new.lost = r.lost /\ new.req.ctx = r.req.ctx
    BY <1>2
  <2> QED
    BY <2>1, SameBudget, Zenon
<1>7. CountsOK(new)
  BY <1>2, <1>4 DEF RequestOK, BudgetOK, CountsOK, Late
<1>8. ASSUME NEW q \in Limits PROVE LimitOK(new, q)
  <2>1. LimitOK(r, q) /\ q \in Nat /\ q <= Len(Chain)
    BY <1>1 DEF RequestOK, BudgetOK
  <2> QED
    BY <1>1, <1>2, <1>4, <1>6, <2>1 DEF LimitOK, Ahead, Late
<1>9. BudgetOK(new)
  BY <1>2, <1>6, <1>7, <1>8 DEF RequestOK, BudgetOK
<1> QED
  BY <1>3, <1>5, <1>9 DEF RequestOK, new

(* What is known of the limits other than the one whose turn it is. *)
Others(r) ==
  /\ Form(r) /\ TargetsOK(r) /\ CountsOK(r)
  /\ \A q \in Limits : BillOK(r, q)
  /\ \A q \in Limits \ {r.at} : LimitOK(r, q)

(* One middleware back, once a limit whose turn it was has charged all.    *)
LEMMA Backing ==
  ASSUME NEW r, Others(r), r.pc \in {"response", "charge"},
         r.at \in Limits /\ r.sent # <<>> => Paid(r, r.at, AtLeastOne(Tokens(r, r.at))), NEW resp
  PROVE  RequestOK(Back(r, resp))
<1> DEFINE new == Back(r, resp)
<1>1. r.at \in 1 .. Len(Chain) /\ Len(Chain) \in Nat
  BY ChainIsList DEF Others, Form
<1>2. /\ new = [f \in ConnFields |-> new[f]]
      /\ new.pc = (IF r.at - 1 = 0 THEN "done" ELSE "response") /\ new.at = r.at - 1 /\ new.name = r.name
      /\ new.req = r.req /\ new.sent = r.sent /\ new.targets = r.targets /\ new.charged = r.charged /\ new.lost = r.lost
  BY AnswerFields DEF Others, Form, Back
<1> HIDE DEF new
<1>3. Form(new)
  BY <1>1, <1>2 DEF Others, Form, AiStages
<1>4. TargetsOK(new)
  BY <1>2, TargetsKept DEF Others, Early
<1>5. /\ \A q : BillOK(new, q) = BillOK(r, q) /\ Kept(new, q) = Kept(r, q) /\ Tokens(new, q) = Tokens(r, q)
      /\ \A q, n : Paid(new, q, n) = Paid(r, q, n)
  <2>1. new.name = r.name /\ new.charged = r.charged /\ new.lost = r.lost /\ new.req.ctx = r.req.ctx
    BY <1>2
  <2> QED
    BY <2>1, SameBudget, Zenon
<1>6. CountsOK(new)
  BY <1>2 DEF Others, CountsOK, Late, Reported
<1>7. ASSUME NEW q \in Limits PROVE LimitOK(new, q)
  <2>1. q \in Nat
    BY ChainIsList
  <2>2. CASE q = r.at
    BY <1>1, <1>2, <1>5, <2>1, <2>2 DEF LimitOK, Ahead, Late
  <2>3. CASE q # r.at
    <3>1. LimitOK(r, q)
      BY <2>3 DEF Others
    <3> QED
      BY <1>1, <1>2, <1>5, <2>1, <2>3, <3>1 DEF LimitOK, Ahead, Late
  <2> QED
    BY <2>2, <2>3
<1>8. BudgetOK(new)
  BY <1>2, <1>5, <1>6, <1>7 DEF Others, BudgetOK
<1> QED
  BY <1>3, <1>4, <1>8 DEF RequestOK, new

-----------------------------------------------------------------------------
(* On the way in *)

(* A limit that loses a charge promises less.                              *)
LEMMA Losing ==
  ASSUME NEW r, RequestOK(r), NEW policy
  PROVE  /\ RequestOK([r EXCEPT !.lost = @ \cup {policy}])
         /\ \A f \in ConnFields \ {"lost"} : [r EXCEPT !.lost = @ \cup {policy}][f] = r[f]
<1> DEFINE new == [r EXCEPT !.lost = @ \cup {policy}]
<1>1. r = [f \in ConnFields |-> r[f]]
  BY DEF RequestOK, Form
<1>2. /\ new = [f \in ConnFields |-> new[f]] /\ new.lost = r.lost \cup {policy}
      /\ \A f \in ConnFields \ {"lost"} : new[f] = r[f]
  BY <1>1 DEF ConnFields
<1>3. /\ new.pc = r.pc /\ new.at = r.at /\ new.name = r.name /\ new.req = r.req /\ new.sent = r.sent
      /\ new.targets = r.targets /\ new.charged = r.charged /\ new.left = r.left
  BY <1>2 DEF ConnFields
<1> HIDE DEF new
<1>4. Form(new)
  BY <1>2, <1>3 DEF RequestOK, Form
<1>5. TargetsOK(new)
  BY <1>3 DEF RequestOK, TargetsOK, Trying, Tried, ModelOf
<1>6. \A q : /\ BillOK(new, q) = BillOK(r, q) /\ Kept(new, q) = Kept(r, q) /\ Tokens(new, q) = Tokens(r, q)
             /\ Ahead(new, q) = Ahead(r, q)
  BY <1>3, SameKeys DEF BillOK, Kept, Tokens, ProfileFor, PartitionOf, Ahead
<1>7. \A q, n : Paid(r, q, n) => Paid(new, q, n)
  BY <1>2, <1>3 DEF Paid
<1>8. CountsOK(new)
  BY <1>3 DEF RequestOK, BudgetOK, CountsOK, Reported
<1>9. ASSUME NEW q \in Limits PROVE LimitOK(new, q)
  BY <1>3, <1>6, <1>7 DEF RequestOK, BudgetOK, LimitOK
<1>10. BudgetOK(new)
  BY <1>3, <1>6, <1>8, <1>9 DEF RequestOK, BudgetOK
<1> QED
  BY <1>2, <1>4, <1>5, <1>10 DEF RequestOK, new

(* The next middleware, or the dispatcher.                                 *)
LEMMA PassedFields ==
  ASSUME NEW r, r = [f \in ConnFields |-> r[f]], NEW req
  PROVE  LET new == Passed(r, Continue(req))
         IN /\ new = [f \in ConnFields |-> new[f]]
            /\ new.pc = (IF r.at = Len(Chain) THEN "dispatch" ELSE "request")
            /\ new.at = (IF r.at = Len(Chain) THEN r.at ELSE r.at + 1) /\ new.name = r.name /\ new.req = req
            /\ new.sent = r.sent /\ new.targets = r.targets /\ new.charged = r.charged /\ new.lost = r.lost
  BY DEF Passed, Continue, ConnFields

(* A middleware lets the request pass; if it is a limit, it has kept the   *)
(* partition and charged one unit.                                         *)
LEMMA Advancing ==
  ASSUME NEW r, RequestOK(r), r.pc = "request", NEW new, new = [f \in ConnFields |-> new[f]],
         new.pc = (IF r.at = Len(Chain) THEN "dispatch" ELSE "request"),
         new.at = (IF r.at = Len(Chain) THEN r.at ELSE r.at + 1),
         new.name = r.name, new.sent = r.sent, new.targets = r.targets, IsList(new.charged),
         SameAsker(new.req, Requests[r.name]), new.req.ctx["ai.tokens"] = {},
         \A q \in Limits : BillOK(new, q),
         \A q \in Limits : (q < r.at => Kept(new, q) /\ Paid(new, q, 1)) /\ (q > r.at => Own(new.charged, q) = {}),
         r.at \in Limits => Kept(new, r.at) /\ Paid(new, r.at, 1)
  PROVE  RequestOK(new)
<1>1. r.at \in 1 .. Len(Chain) /\ Len(Chain) \in Nat /\ Limits \subseteq 1 .. Len(Chain)
  BY ChainIsList DEF RequestOK, Form
<1>2. Form(new)
  BY <1>1 DEF RequestOK, Form, AiStages
<1>3. r.sent = <<>> /\ new.pc \in Early
  BY DEF RequestOK, TargetsOK, Early
<1>4. TargetsOK(new)
  BY <1>3 DEF TargetsOK, Tried, Early
<1>5. CountsOK(new)
  BY <1>3 DEF CountsOK, TokenCounts, Early, Late
<1>7. ASSUME NEW q \in Limits PROVE LimitOK(new, q)
  <2>1. q \in Nat /\ q <= Len(Chain)
    BY <1>1
  <2>2. r.at \in Nat /\ r.at <= Len(Chain)
    BY <1>1
  <2>3. q <= r.at => Kept(new, q) /\ Paid(new, q, 1)
    BY <2>1, <2>2
  <2>4. CASE r.at = Len(Chain)
    BY <2>1, <2>3, <2>4 DEF LimitOK, Ahead, Late
  <2>5. CASE r.at # Len(Chain)
    <3>1. new.pc = "request" /\ new.at = r.at + 1
      BY <2>5
    <3>2. q >= new.at => q > r.at
      BY <2>1, <2>2, <3>1
    <3>3. q < new.at => q <= r.at
      BY <2>1, <2>2, <3>1
    <3>4. q > r.at => Own(new.charged, q) = {}
      BY Zenon
    <3> QED
      BY <2>3, <3>1, <3>2, <3>3, <3>4 DEF LimitOK, Ahead, Late
  <2> QED
    BY <2>4, <2>5
<1> QED
  BY <1>2, <1>4, <1>5, <1>7 DEF RequestOK, BudgetOK

(* A middleware that is no limit may change the body.                      *)
LEMMA Passing ==
  ASSUME NEW r, RequestOK(r), r.pc = "request", r.at \notin Limits, NEW req, req = [f \in ReqFields |-> req[f]],
         req.ctx = r.req.ctx, req.client = r.req.client, req.header = r.req.header
  PROVE  RequestOK(Passed(r, Continue(req)))
<1> DEFINE new == Passed(r, Continue(req))
<1>1. /\ new = [f \in ConnFields |-> new[f]]
      /\ new.pc = (IF r.at = Len(Chain) THEN "dispatch" ELSE "request")
      /\ new.at = (IF r.at = Len(Chain) THEN r.at ELSE r.at + 1) /\ new.name = r.name /\ new.req = req
      /\ new.sent = r.sent /\ new.targets = r.targets /\ new.charged = r.charged /\ new.lost = r.lost
  BY PassedFields DEF RequestOK, Form
<1> HIDE DEF new
<1>2. SameAsker(new.req, Requests[r.name])
  BY <1>1 DEF RequestOK, Form, SameAsker
<1>3. new.req.ctx["ai.tokens"] = {}
  BY <1>1 DEF RequestOK, BudgetOK, CountsOK, Late
<1>4. /\ \A q : Kept(new, q) = Kept(r, q) /\ BillOK(new, q) = BillOK(r, q)
      /\ \A q, n : Paid(new, q, n) = Paid(r, q, n)
  <2>1. new.name = r.name /\ new.charged = r.charged /\ new.lost = r.lost /\ new.req.ctx = r.req.ctx
    BY <1>1
  <2> QED
    BY <2>1, SameBudget, Zenon
<1>5. /\ \A q \in Limits : BillOK(new, q)
      /\ IsList(new.charged)
  BY <1>1, <1>4 DEF RequestOK, BudgetOK, Form
<1>6. ASSUME NEW q \in Limits
      PROVE  (q < r.at => Kept(new, q) /\ Paid(new, q, 1)) /\ (q > r.at => Own(new.charged, q) = {})
  <2>1. LimitOK(r, q) /\ q \in Nat /\ r.at \in Nat
    BY ChainIsList DEF RequestOK, BudgetOK, Form
  <2> QED
    BY <1>1, <1>4, <2>1 DEF LimitOK, Ahead
<1>7. RequestOK(new)
  BY <1>1, <1>2, <1>3, <1>5, <1>6, Advancing
<1> QED
  BY <1>7 DEF new

(* prompt_guard refuses, or passes the request on with at most another     *)
(* body.                                                                   *)
LEMMA PromptOutcome ==
  ASSUME NEW cfg, NEW req, req = [f \in ReqFields |-> req[f]]
  PROVE  \/ \E resp : prompt_guard(cfg, req) = ShortCircuited(resp)
         \/ \E new : /\ prompt_guard(cfg, req) = Continue(new) /\ new = [f \in ReqFields |-> new[f]]
                     /\ new.ctx = req.ctx /\ new.client = req.client /\ new.header = req.header
<1> DEFINE With(b) == [req EXCEPT !.body = b]
           Fine(new) == /\ new = [f \in ReqFields |-> new[f]]
                        /\ new.ctx = req.ctx /\ new.client = req.client /\ new.header = req.header
<1>1. Fine(req) /\ \A b : Fine(With(b))
  BY DEF ReqFields
<1>2. \/ \E resp : prompt_guard(cfg, req) = ShortCircuited(resp)
      \/ prompt_guard(cfg, req) = Continue(req)
      \/ \E b : prompt_guard(cfg, req) = Continue(With(b))
  BY Zenon DEF prompt_guard
<1> HIDE DEF With, Fine
<1>3. \/ \E resp : prompt_guard(cfg, req) = ShortCircuited(resp)
      \/ \E new : prompt_guard(cfg, req) = Continue(new) /\ Fine(new)
  BY <1>1, <1>2, Zenon
<1> QED
  BY <1>3 DEF Fine

(* Put sets one key and leaves the others.                                 *)
LEMMA PutSets ==
  ASSUME NEW f, NEW k, NEW v
  PROVE  /\ Put(f, k, v) = [x \in DOMAIN Put(f, k, v) |-> Put(f, k, v)[x]]
         /\ DOMAIN Put(f, k, v) = DOMAIN f \cup {k} /\ Put(f, k, v)[k] = v
         /\ \A x \in DOMAIN f \ {k} : Put(f, k, v)[x] = f[x]
  BY DEF Put

(* Policy and partition are read from what no middleware changes.          *)
LEMMA SameProfile ==
  ASSUME NEW req, NEW r, r.name \in DOMAIN Requests, SameAsker(req, Requests[r.name]), NEW q
  PROVE  resolve_profile(Chain[q], req.ctx) = ProfileFor(r, q) /\ extract_partition(Chain[q], req) = PartitionOf(r, q)
<1>1. /\ req.client = Requests[r.name].client /\ req.header = Requests[r.name].header
      /\ req.ctx["ai.policy"] = Requests[r.name].ctx["ai.policy"]
      /\ req.ctx["consumer"] = Requests[r.name].ctx["consumer"]
  BY DEF SameAsker
<1>2. \A k \in {"ai.policy", "consumer"} : context_get(req.ctx, k) = context_get(Requests[r.name].ctx, k)
  <2>1. {"ai.policy", "consumer"} \subseteq DOMAIN req.ctx /\ {"ai.policy", "consumer"} \subseteq DOMAIN Requests[r.name].ctx
    <3>1. {"ai.policy", "consumer", "ai.tokens"} \subseteq DOMAIN Requests[r.name].ctx
      BY AiRequestAssumption, Zenon
    <3> QED
      BY <3>1 DEF SameAsker
  <2> QED
    BY <1>1, <2>1 DEF context_get, Get
<1>3. resolve_profile(Chain[q], req.ctx) = ProfileFor(r, q)
  BY <1>2 DEF resolve_profile, resolve_profile_name, ProfileFor
<1>4. extract_partition(Chain[q], req) = PartitionOf(r, q)
  BY <1>1, <1>2 DEF extract_partition, PartitionOf
<1> QED
  BY <1>3, <1>4

(* The partition that the response phase finds: the one that was kept, or, *)
(* if that is empty, what the context alone gives.                         *)
LEMMA LateParty ==
  ASSUME NEW r, r.name \in DOMAIN Requests, SameAsker(r.req, Requests[r.name]), NEW q, NEW kept, kept = {PartitionOf(r, q)} \ {""}
  PROVE  Or(kept, partition_from_context_only(Chain[q], r.req.ctx)) =
            IF EmptyHeader(Chain[q], r) THEN "unknown" ELSE PartitionOf(r, q)
<1> DEFINE cfg == Chain[q]
<1>1. CASE PartitionOf(r, q) # ""
  <2>1. kept = {PartitionOf(r, q)} /\ ~EmptyHeader(cfg, r)
    BY <1>1 DEF EmptyHeader, PartitionOf
  <2> QED
    BY <2>1 DEF Or, The
<1>2. CASE PartitionOf(r, q) = ""
  <2>1. kept = {}
    BY <1>2
  <2>2. EmptyHeader(cfg, r) <=> cfg.partition = "header"
    BY <1>2 DEF EmptyHeader, PartitionOf
  <2>3. cfg.partition = "header" => partition_from_context_only(cfg, r.req.ctx) = "unknown"
    BY DEF partition_from_context_only
  <2>4. cfg.partition # "client_ip"
    BY <1>2 DEF PartitionOf, extract_partition
  <2>5. cfg.partition \notin {"client_ip", "header"} => partition_from_context_only(cfg, r.req.ctx) = extract_partition(cfg, r.req)
    BY DEF partition_from_context_only, extract_partition
  <2>6. extract_partition(cfg, r.req) = PartitionOf(r, q)
    BY SameProfile
  <2> QED
    BY <1>2, <2>1, <2>2, <2>3, <2>4, <2>5, <2>6 DEF Or
<1> QED
  BY <1>1, <1>2

(* The request as the limit hands it on: one unit charged or lost, and its *)
(* partition in the context. *)
ChargedOne(r, one) ==
  /\ one = [f \in ConnFields |-> one[f]] /\ \A f \in ConnFields \ {"charged", "lost"} : one[f] = r[f]
  /\ \/ one.charged = Append(r.charged, BudgetKey(r, r.at)) /\ one.lost = r.lost
     \/ one.charged = r.charged /\ one.lost = r.lost \cup {Chain[r.at].policy}
WithPartition(r, req) ==
  req = [r.req EXCEPT !.ctx = Put(@, partition_context_key(Chain[r.at]), {PartitionOf(r, r.at)})]

(* A limit that admits a request has kept its partition and has charged    *)
(* one unit, or it has lost the charge.                                    *)
LEMMA Admitting ==
  ASSUME NEW r, RequestOK(r), r.pc = "request", r.at \in Limits, ProfileFor(r, r.at) # {},
         NEW one, ChargedOne(r, one), NEW req, WithPartition(r, req)
  PROVE  RequestOK(Passed(one, Continue(req)))
<1> DEFINE new == Passed(one, Continue(req))
           key(q) == partition_context_key(Chain[q])
<1>1. one.pc = r.pc /\ one.at = r.at /\ one.name = r.name /\ one.sent = r.sent /\ one.targets = r.targets
  BY DEF ChargedOne, ConnFields
<1>0. \/ one.charged = Append(r.charged, BudgetKey(r, r.at)) /\ one.lost = r.lost
      \/ one.charged = r.charged /\ one.lost = r.lost \cup {Chain[r.at].policy}
  BY DEF ChargedOne
<1>2. /\ new = [f \in ConnFields |-> new[f]]
      /\ new.pc = (IF r.at = Len(Chain) THEN "dispatch" ELSE "request")
      /\ new.at = (IF r.at = Len(Chain) THEN r.at ELSE r.at + 1) /\ new.name = r.name /\ new.req = req
      /\ new.sent = r.sent /\ new.targets = r.targets /\ new.charged = one.charged /\ new.lost = one.lost
  <2>1. /\ new = [f \in ConnFields |-> new[f]]
        /\ new.pc = (IF one.at = Len(Chain) THEN "dispatch" ELSE "request")
        /\ new.at = (IF one.at = Len(Chain) THEN one.at ELSE one.at + 1) /\ new.name = one.name /\ new.req = req
        /\ new.sent = one.sent /\ new.targets = one.targets /\ new.charged = one.charged /\ new.lost = one.lost
    BY PassedFields DEF ChargedOne
  <2> HIDE DEF new
  <2> QED
    BY <1>1, <2>1
<1> HIDE DEF new
<1>3. SameAsker(r.req, Requests[r.name]) /\ IsList(r.charged) /\ r.at \in Nat
  BY ChainIsList DEF RequestOK, Form
<1>4. /\ req = [f \in ReqFields |-> req[f]] /\ req.ctx = Put(r.req.ctx, key(r.at), {PartitionOf(r, r.at)})
      /\ req.client = r.req.client /\ req.header = r.req.header
  BY <1>3 DEF SameAsker, ReqFields, WithPartition
<1>5. /\ req.ctx = [k \in DOMAIN req.ctx |-> req.ctx[k]] /\ DOMAIN req.ctx = DOMAIN r.req.ctx \cup {key(r.at)}
      /\ req.ctx[key(r.at)] = {PartitionOf(r, r.at)} /\ \A x \in DOMAIN r.req.ctx \ {key(r.at)} : req.ctx[x] = r.req.ctx[x]
  <2> DEFINE k == key(r.at)
  <2> HIDE DEF k
  <2> DEFINE new_ctx == Put(r.req.ctx, k, {PartitionOf(r, r.at)})
  <2>1. /\ new_ctx = [x \in DOMAIN new_ctx |-> new_ctx[x]]
        /\ DOMAIN new_ctx = DOMAIN r.req.ctx \cup {k} /\ new_ctx[k] = {PartitionOf(r, r.at)}
        /\ \A x \in DOMAIN r.req.ctx \ {k} : new_ctx[x] = r.req.ctx[x]
    BY DEF Put
  <2>2. req.ctx = new_ctx
    BY <1>4 DEF k
  <2> HIDE DEF new_ctx
  <2>3. /\ req.ctx = [x \in DOMAIN req.ctx |-> req.ctx[x]] /\ DOMAIN req.ctx = DOMAIN r.req.ctx \cup {k}
        /\ req.ctx[k] = {PartitionOf(r, r.at)} /\ \A x \in DOMAIN r.req.ctx \ {k} : req.ctx[x] = r.req.ctx[x]
    BY <2>1, <2>2
  <2> QED
    BY <2>3 DEF k
<1>6. key(r.at) \notin {"ai.policy", "consumer", "ai.tokens", "ai.provider", "ai.model", "store_downgrade"}
  BY KeysDiffer
<1>7. \A q \in Limits : key(q) = key(r.at) => q = r.at
  BY KeysDiffer
<1> HIDE DEF key
<1>8. SameAsker(new.req, Requests[r.name])
  <2>1. \A x \in {"ai.policy", "consumer", "ai.tokens"} : x \in DOMAIN req.ctx /\ req.ctx[x] = r.req.ctx[x]
    BY <1>3, <1>5, <1>6 DEF SameAsker
  <2> QED
    BY <1>2, <1>3, <1>4, <1>5, <2>1 DEF SameAsker
<1>9. new.req.ctx["ai.tokens"] = {}
  <2>1. r.req.ctx["ai.tokens"] = {} /\ "ai.tokens" \in DOMAIN r.req.ctx
    BY <1>3 DEF RequestOK, BudgetOK, CountsOK, SameAsker, Late
  <2> QED
    BY <1>2, <1>5, <1>6, <2>1
<1>11. \A q \in Limits : BillOK(new, q)
  <2>1. \A q \in Limits : BillOK(r, q) /\ LimitOK(r, q)
    BY DEF RequestOK, BudgetOK
  <2>2. CASE new.charged = r.charged
    BY <1>2, <2>1, <2>2, SameKeys DEF BillOK
  <2>3. CASE new.charged = Append(r.charged, BudgetKey(r, r.at))
    <3>1. Own(r.charged, r.at) = {}
      BY <1>3, <2>1 DEF LimitOK
    <3> QED
      BY <1>2, <1>3, <2>1, <2>3, <3>1, BillMore
  <2> QED
    BY <1>0, <1>2, <2>2, <2>3
<1>12. IsList(new.charged)
  <2>1. IsList(Append(r.charged, BudgetKey(r, r.at)))
    BY <1>3, AppendList
  <2> QED
    BY <1>0, <1>2, <1>3, <2>1
<1>13. BudgetKey(r, r.at)[1] = Chain[r.at].policy /\ \A q \in Limits : Chain[r.at].policy = Chain[q].policy => r.at = q
  BY KeysDiffer
<1>14. ASSUME NEW q \in Limits, q # r.at PROVE Own(new.charged, q) = Own(r.charged, q) /\ (Paid(r, q, 1) => Paid(new, q, 1))
  <2>0. BudgetKey(r, r.at)[1] # Chain[q].policy
    BY <1>13, <1>14
  <2>1. Own(new.charged, q) = Own(r.charged, q)
    <3>1. Own(Append(r.charged, BudgetKey(r, r.at)), q) = Own(r.charged, q)
      BY <1>3, <2>0, Charged
    <3> QED
      BY <1>0, <1>2, <3>1
  <2> QED
    BY <1>0, <1>2, <2>1 DEF Paid
<1>15. ASSUME NEW q \in Limits, q # r.at, Kept(r, q) PROVE Kept(new, q)
  <2>1. ProfileFor(r, q) # {} /\ key(q) \in DOMAIN r.req.ctx /\ r.req.ctx[key(q)] = {PartitionOf(r, q)}
    BY <1>15 DEF Kept, key
  <2>2. key(q) # key(r.at)
    BY <1>7, <1>15
  <2>3. key(q) \in DOMAIN new.req.ctx /\ new.req.ctx[key(q)] = {PartitionOf(r, q)}
    BY <1>2, <1>5, <2>1, <2>2
  <2> QED
    BY <1>2, <2>1, <2>3 DEF Kept, ProfileFor, PartitionOf, key
<1>16. Kept(new, r.at)
  <2>1. ProfileFor(new, r.at) = ProfileFor(r, r.at) /\ PartitionOf(new, r.at) = PartitionOf(r, r.at)
    BY <1>2 DEF ProfileFor, PartitionOf
  <2>2. key(r.at) \in DOMAIN new.req.ctx /\ new.req.ctx[key(r.at)] = {PartitionOf(r, r.at)}
    BY <1>2, <1>5
  <2> QED
    BY <2>1, <2>2 DEF Kept, key
<1>17. LimitOK(r, r.at) /\ \A q \in Limits : LimitOK(r, q) /\ q \in Nat
  <2>1. \A q \in Limits : LimitOK(r, q)
    BY DEF RequestOK, BudgetOK
  <2>2. \A q \in Limits : q \in Nat
    BY ChainIsList
  <2> QED
    BY <2>1, <2>2, Zenon
<1>18. Paid(new, r.at, 1)
  <2>1. Own(r.charged, r.at) = {}
    BY <1>3, <1>17 DEF LimitOK
  <2>2. Cardinality(Own(r.charged, r.at)) = 0
    BY <2>1, FS_EmptySet
  <2>3. CASE one.charged = Append(r.charged, BudgetKey(r, r.at)) /\ one.lost = r.lost
    <3>1. Cardinality(Own(new.charged, r.at)) = 1
      <4>1. Cardinality(Own(Append(r.charged, BudgetKey(r, r.at)), r.at)) = Cardinality(Own(r.charged, r.at)) + 1
        <5> DEFINE k == BudgetKey(r, r.at)
                   p == r.at
        <5>1. k[1] = Chain[p].policy /\ p \in Limits
          BY <1>13
        <5> HIDE DEF k, p
        <5>2. Cardinality(Own(Append(r.charged, k), p)) = Cardinality(Own(r.charged, p)) + 1
          BY <1>3, <5>1, Charged
        <5> QED
          BY <5>2 DEF k, p
      <4>2. new.charged = Append(r.charged, BudgetKey(r, r.at))
        BY <1>2, <2>3
      <4>3. Cardinality(Own(new.charged, r.at)) = 0 + 1
        BY <2>2, <4>1, <4>2, Zenon
      <4> QED
        BY <4>3
    <3> QED
      BY <3>1 DEF Paid
  <2>4. CASE one.charged = r.charged /\ one.lost = r.lost \cup {Chain[r.at].policy}
    BY <1>2, <2>4 DEF Paid
  <2> QED
    BY <1>0, <2>3, <2>4
<1>19. ASSUME NEW q \in Limits
       PROVE  (q < r.at => Kept(new, q) /\ Paid(new, q, 1)) /\ (q > r.at => Own(new.charged, q) = {})
  <2>1. q < r.at => Kept(r, q) /\ Paid(r, q, 1) /\ q # r.at
    BY <1>3, <1>17 DEF LimitOK, Ahead
  <2>2. q > r.at => Own(r.charged, q) = {} /\ q # r.at
    BY <1>3, <1>17 DEF LimitOK
  <2> QED
    BY <1>14, <1>15, <2>1, <2>2
<1>20. RequestOK(new)
  BY <1>2, <1>8, <1>9, <1>11, <1>12, <1>16, <1>18, <1>19, Advancing
<1> QED
  BY <1>20 DEF new

-----------------------------------------------------------------------------
(* What the proxy makes of an answer *)

Reports(x) == UNION {b.tokens : b \in x.body}

(* At most one answer, whose tokens are those that the proxy reads in it. *)
ResultOK(res) ==
  \/ res = {}
  \/ \E x : /\ res = {x} /\ Reports(x) \in TokenCounts /\ extract_tokens(x) = Reports(x)
            /\ x.status = 0 => Reports(x) = {}

BodyOK(status, body) ==
  \/ body = {}
  \/ \E b : body = {b} /\ b.tokens \in TokenCounts /\ (status = 0 => b.tokens = {})

(* A response with at most one body.                                       *)
LEMMA ResponseIsRead ==
  ASSUME NEW status, NEW warnings, NEW body, BodyOK(status, body)
  PROVE  ResultOK({[status |-> status, warnings |-> warnings, body |-> body]})
<1> DEFINE x == [status |-> status, warnings |-> warnings, body |-> body]
<1>0. x.status = status /\ x.body = body
  OBVIOUS
<1> HIDE DEF x
<1>1. CASE body = {}
  <2>1. Reports(x) = {} /\ extract_tokens(x) = {}
    BY <1>0, <1>1 DEF Reports, extract_tokens
  <2> QED
    BY <2>1 DEF ResultOK, TokenCounts, x
<1>2. ASSUME NEW b, body = {b}, b.tokens \in TokenCounts, status = 0 => b.tokens = {} PROVE ResultOK({x})
  <2>1. The(body) = b
    BY <1>2 DEF The
  <2>2. Reports(x) = b.tokens /\ extract_tokens(x) = b.tokens
    BY <1>0, <1>2, <2>1 DEF Reports, extract_tokens
  <2> QED
    BY <1>0, <1>2, <2>2 DEF ResultOK
<1> QED
  BY <1>1, <1>2 DEF BodyOK, x

(* Bodies of the answers: an error has no tokens, a chat has those of the  *)
(* provider, and the shape of Responses has none.                          *)
LEMMA BodiesAreRead ==
  ASSUME NEW a, a.usage \subseteq Nat \X Nat, \A x, y \in a.usage : x = y, NEW status
  PROVE  /\ BodyOK(status, RawBody(a)) /\ BodyOK(status, AnthropicToResponses(a))
         /\ \A e, streaming : BodyOK(status, AnthropicToResponses(Events(e, streaming)))
         /\ status # 0 => /\ BodyOK(status, translate_from_anthropic(a))
                          /\ \A shape : BodyOK(status, OpenAiBody(a, shape))
<1>1. {} \in TokenCounts /\ a.usage \in TokenCounts /\ {Or(a.usage, <<0, 0>>)} \in TokenCounts
  <2>1. Or(a.usage, <<0, 0>>) \in Nat \X Nat
    BY DEF Or, The
  <2> QED
    BY <2>1 DEF TokenCounts
<1>2. ASSUME NEW b, b.tokens = {} PROVE BodyOK(status, {b})
  BY <1>1, <1>2 DEF BodyOK
<1>3. BodyOK(status, {})
  BY DEF BodyOK
<1>4. BodyOK(status, RawBody(a))
  BY <1>2 DEF RawBody
<1>5. \A e : BodyOK(status, AnthropicToResponses(e))
  <2>1. ASSUME NEW e PROVE AnthropicToResponses(e) = {} \/ \E b : AnthropicToResponses(e) = {b} /\ b.tokens = {}
    <3> DEFINE R(items) == [shape |-> "responses", text |-> <<>>, items |-> items, finish |-> "completed", tokens |-> {}]
    <3>1. \A items : R(items).tokens = {}
      OBVIOUS
    <3>2. AnthropicToResponses(e) = {} \/ \E items : AnthropicToResponses(e) = {R(items)}
      BY Zenon DEF AnthropicToResponses
    <3> HIDE DEF R
    <3> QED
      BY <3>1, <3>2
  <2> QED
    BY <1>2, <1>3, <2>1
<1>6. ASSUME status # 0 PROVE BodyOK(status, translate_from_anthropic(a))
  <2> DEFINE R(text, items, finish) ==
               [shape |-> "chat", text |-> text, items |-> items, finish |-> finish, tokens |-> {Or(a.usage, <<0, 0>>)}]
  <2>1. \A text, items, finish : R(text, items, finish).tokens = {Or(a.usage, <<0, 0>>)}
    OBVIOUS
  <2>2. translate_from_anthropic(a) = {} \/ \E text, items, finish : translate_from_anthropic(a) = {R(text, items, finish)}
    BY Zenon DEF translate_from_anthropic
  <2> HIDE DEF R
  <2> QED
    BY <1>1, <1>6, <2>1, <2>2 DEF BodyOK
<1>7. ASSUME status # 0, NEW shape PROVE BodyOK(status, OpenAiBody(a, shape))
  <2> DEFINE R(text, items, finish) ==
               [shape |-> "chat", text |-> text, items |-> items, finish |-> finish, tokens |-> a.usage]
  <2>1. \A text, items, finish : R(text, items, finish).tokens = a.usage
    OBVIOUS
  <2>2. \/ OpenAiBody(a, shape) = {} \/ OpenAiBody(a, shape) = AnthropicToResponses(a)
        \/ \E text, items, finish : OpenAiBody(a, shape) = {R(text, items, finish)}
    BY Zenon DEF OpenAiBody
  <2> HIDE DEF R
  <2>3. ASSUME NEW text, NEW items, NEW finish, OpenAiBody(a, shape) = {R(text, items, finish)}
        PROVE  BodyOK(status, OpenAiBody(a, shape))
    BY <1>1, <1>7, <2>1, <2>3 DEF BodyOK
  <2> QED
    BY <1>3, <1>5, <2>2, <2>3
<1> QED
  BY <1>4, <1>5, <1>6, <1>7

(* A provider's answer, of which the proxy makes at most one response. *)
Made(res, a) == res = {} \/ \E body : res = {build_response(a, body)} /\ BodyOK(a.status, body)

Warned(res, w) == {IF Success(x) THEN [x EXCEPT !.warnings = w] ELSE x : x \in res}

(* The response is read as it was made, whatever warnings it carries.      *)
LEMMA MadeIsRead ==
  ASSUME NEW a, NEW res, Made(res, a), NEW warnings
  PROVE  ResultOK(res) /\ ResultOK(Warned(res, warnings))
<1>1. CASE res = {}
  BY <1>1 DEF ResultOK, Warned
<1>2. ASSUME NEW body, res = {build_response(a, body)}, BodyOK(a.status, body)
      PROVE  ResultOK(res) /\ ResultOK(Warned(res, warnings))
  <2> DEFINE R(w) == [status |-> a.status, warnings |-> w, body |-> body]
  <2>1. ResultOK({R({})}) /\ ResultOK({R(warnings)})
    BY <1>2, ResponseIsRead
  <2>2. res = {R({})}
    BY <1>2 DEF build_response
  <2>3. [R({}) EXCEPT !.warnings = warnings] = R(warnings)
    OBVIOUS
  <2> HIDE DEF R
  <2>4. Warned(res, warnings) \in {{R({})}, {R(warnings)}}
    BY <2>2, <2>3 DEF Warned
  <2> QED
    BY <2>1, <2>2, <2>4
<1> QED
  BY <1>1, <1>2 DEF Made

(* What is made of the answers of the two kinds of provider.               *)
LEMMA Making ==
  ASSUME NEW a, a.usage \subseteq Nat \X Nat, \A x, y \in a.usage : x = y, NEW t, NEW req, NEW body
  PROVE  /\ \A shape : Made(openai_call(t, req, a, body, shape).result, a)
         /\ ResultOK(openai_stream(t, req, a, body).result)
         /\ \A translated : (Success(a) => BodyOK(a.status, translated))
                               => Made(anthropic_messages_call_raw(t, body, a, translated).result, a)
<1>1. /\ BodyOK(a.status, RawBody(a))
      /\ Success(a) => \A shape : BodyOK(a.status, OpenAiBody(a, shape))
  <2>1. /\ BodyOK(a.status, RawBody(a))
        /\ a.status # 0 => \A shape : BodyOK(a.status, OpenAiBody(a, shape))
    BY BodiesAreRead, Zenon
  <2>2. Success(a) => a.status # 0
    BY DEF Success
  <2> QED
    BY <2>1, <2>2, Zenon
<1>2. \A B : BodyOK(a.status, B) => Made({build_response(a, B)}, a)
  BY Zenon DEF Made
<1>3. Made({}, a)
  BY DEF Made
<1>4. ASSUME NEW shape PROVE Made(openai_call(t, req, a, body, shape).result, a)
  <2>1. \/ openai_call(t, req, a, body, shape).result = {}
        \/ openai_call(t, req, a, body, shape).result = {build_response(a, RawBody(a))}
        \/ Success(a) /\ openai_call(t, req, a, body, shape).result = {build_response(a, OpenAiBody(a, shape))}
    BY DEF openai_call
  <2> QED
    BY <1>1, <1>2, <1>3, <2>1
<1>5. ResultOK(openai_stream(t, req, a, body).result)
  <2>1. ResultOK({}) /\ ResultOK({streamed_response})
    <3>1. BodyOK(0, {})
      BY DEF BodyOK
    <3> QED
      BY <3>1, ResponseIsRead DEF ResultOK, streamed_response
  <2>2. openai_stream(t, req, a, body).result \in {{}, {streamed_response}}
    BY DEF openai_stream
  <2> QED
    BY <2>1, <2>2
<1>6. ASSUME NEW translated, Success(a) => BodyOK(a.status, translated)
      PROVE  Made(anthropic_messages_call_raw(t, body, a, translated).result, a)
  <2> DEFINE res == anthropic_messages_call_raw(t, body, a, translated).result
  <2>1. \/ res = {} \/ res = {build_response(a, RawBody(a))}
        \/ Success(a) /\ res = {build_response(a, {b}) : b \in translated}
    BY DEF anthropic_messages_call_raw
  <2>2. ASSUME Success(a) PROVE Made({build_response(a, {b}) : b \in translated}, a)
    <3>1. CASE translated = {}
      BY <1>3, <3>1
    <3>2. ASSUME NEW b, translated = {b} PROVE Made({build_response(a, {c}) : c \in translated}, a)
      <4>1. {build_response(a, {c}) : c \in translated} = {build_response(a, {b})} /\ BodyOK(a.status, {b})
        BY <1>6, <2>2, <3>2
      <4> QED
        BY <1>2, <4>1
    <3> QED
      BY <1>6, <2>2, <3>1, <3>2 DEF BodyOK
  <2> QED
    BY <1>1, <1>2, <1>3, <2>1, <2>2
<1> QED
  BY <1>4, <1>5, <1>6

(* Every call ends in at most one response, with the tokens it reports.    *)
LEMMA CallResult ==
  ASSUME NEW a, a.usage \subseteq Nat \X Nat, \A x, y \in a.usage : x = y, NEW t, NEW req
  PROVE  ResultOK(chat_handle(t, req, a).result) /\ ResultOK(responses_handle(t, req, a).result)
<1>1. /\ \A body, shape : ResultOK(openai_call(t, req, a, body, shape).result)
      /\ \A body : ResultOK(openai_stream(t, req, a, body).result)
      /\ \A body, translated : (Success(a) => BodyOK(a.status, translated))
                                  => Made(anthropic_messages_call_raw(t, body, a, translated).result, a)
  <2>1. \A body : /\ \A shape : Made(openai_call(t, req, a, body, shape).result, a)
                  /\ ResultOK(openai_stream(t, req, a, body).result)
                  /\ \A translated : (Success(a) => BodyOK(a.status, translated))
                                        => Made(anthropic_messages_call_raw(t, body, a, translated).result, a)
    BY Making
  <2>2. \A body, shape : ResultOK(openai_call(t, req, a, body, shape).result)
    BY <2>1, MadeIsRead
  <2> QED
    BY <2>1, <2>2, Zenon
<1>2. /\ Success(a) => BodyOK(a.status, translate_from_anthropic(a))
      /\ \A streaming : BodyOK(a.status, AnthropicToResponses(Events(a, streaming)))
  <2>1. a.status # 0 => BodyOK(a.status, translate_from_anthropic(a))
    BY BodiesAreRead
  <2>2. \A streaming : BodyOK(a.status, AnthropicToResponses(Events(a, streaming)))
    BY BodiesAreRead
  <2>3. Success(a) => a.status # 0
    BY DEF Success
  <2> QED
    BY <2>1, <2>2, <2>3, Zenon
<1>3. \A results : NotSent(results).result = results
  BY DEF NotSent
<1>4. ResultOK({}) /\ \A status : status # 0 => ResultOK({Problem(status)})
  <2>1. ResultOK({})
    BY DEF ResultOK
  <2>2. ASSUME NEW status PROVE ResultOK({Problem(status)})
    <3> DEFINE b == [shape |-> "problem", text |-> <<>>, items |-> <<>>, finish |-> "", tokens |-> {}]
    <3>1. b.tokens = {} /\ {} \in TokenCounts
      BY DEF TokenCounts
    <3>2. Problem(status) = [status |-> status, warnings |-> {}, body |-> {b}]
      BY DEF Problem
    <3> HIDE DEF b
    <3>3. BodyOK(status, {b})
      BY <3>1 DEF BodyOK
    <3> QED
      BY <3>2, <3>3, ResponseIsRead
  <2> QED
    BY <2>1, <2>2
<1>5. ResultOK(anthropic_call(t, req, a).result)
  <2>1. \/ anthropic_call(t, req, a) = NotSent({})
        \/ \E body : anthropic_call(t, req, a) = anthropic_messages_call_raw(t, body, a, translate_from_anthropic(a))
    BY Zenon DEF anthropic_call
  <2>2. \A body : ResultOK(anthropic_messages_call_raw(t, body, a, translate_from_anthropic(a)).result)
    BY <1>1, <1>2, MadeIsRead
  <2> QED
    BY <1>3, <1>4, <2>1, <2>2
<1>6. ResultOK(chat_handle(t, req, a).result)
  <2>1. \/ chat_handle(t, req, a) = anthropic_call(t, req, a)
        \/ \E body : chat_handle(t, req, a) \in {openai_stream(t, req, a, body), openai_call(t, req, a, body, "chat")}
    BY Zenon DEF chat_handle
  <2> QED
    BY <1>1, <1>5, <2>1
<1>7. ResultOK(responses_handle(t, req, a).result)
  <2> DEFINE raw(body, streaming) == anthropic_messages_call_raw(t, body, a, AnthropicToResponses(Events(a, streaming)))
             full(body, streaming, w) == [raw(body, streaming) EXCEPT !.result = Warned(@, w)]
             out == responses_handle(t, req, a)
  <2>1. \/ out = openai_passthrough(t, req, a) \/ out = NotSent({responses_not_supported_for_provider_response})
        \/ out = NotSent({}) \/ out = NotSent({custom_tools_not_supported_response})
        \/ \E body, streaming, w : out = full(body, streaming, w)
    <3>1. CASE t.provider = "openai"
      BY <3>1 DEF responses_handle
    <3>2. CASE t.provider = "ollama"
      BY <3>2 DEF responses_handle
    <3>3. CASE t.provider \notin {"openai", "ollama"}
      <4> DEFINE doc == The(req.body)
                 streams == is_streaming_request(req.body)
                 tools == responses_tools_to_anthropic(doc.tools)
                 bodies == ResponsesToAnthropic(doc, The(extract_client_model(req.body)), streams, The(tools))
                 ws == attach_warnings(req.ctx["store_downgrade"], The(bodies).dropped > 0)
      <4>1. out = IF tools = {} THEN NotSent({custom_tools_not_supported_response})
                  ELSE IF bodies = {} THEN NotSent({}) ELSE full(The(bodies).body, streams, ws)
        BY <3>3 DEF responses_handle, Warned
      <4> HIDE DEF out, full, tools, bodies, streams, ws
      <4> QED
        BY <4>1, Zenon
    <3> QED
      BY <3>1, <3>2, <3>3, Zenon
  <2>2. \A body, streaming, w : ResultOK(full(body, streaming, w).result)
    <3> TAKE body, streaming, w
    <3> DEFINE res == raw(body, streaming).result
    <3>1. Made(res, a)
      BY <1>1, <1>2
    <3>2. full(body, streaming, w).result = Warned(res, w)
      BY DEF anthropic_messages_call_raw
    <3>3. ResultOK(Warned(res, w))
      <4> HIDE DEF res
      <4> QED
        BY <3>1, MadeIsRead
    <3> QED
      BY <3>2, <3>3
  <2> HIDE DEF full
  <2>3. ResultOK(openai_passthrough(t, req, a).result)
    <3>1. \E body : openai_passthrough(t, req, a) \in {openai_stream(t, req, a, body), openai_call(t, req, a, body, "responses")}
      BY Zenon DEF openai_passthrough
    <3> QED
      BY <1>1, <3>1
  <2>4. /\ ResultOK({responses_not_supported_for_provider_response}) /\ ResultOK({custom_tools_not_supported_response})
    BY <1>4 DEF responses_not_supported_for_provider_response, custom_tools_not_supported_response
  <2> QED
    BY <1>3, <1>4, <2>1, <2>2, <2>3, <2>4
<1> QED
  BY <1>6, <1>7

-----------------------------------------------------------------------------
(* The proxy *)

(* A model that the policy does not refuse is one the catalog permits.     *)
LEMMA PermitsByPolicy ==
  ASSUME NEW t, NEW model, evaluate_catalog_policy(t, model) = {}
  PROVE  Permits(t, model)
<1>1. \A p : p \in DOMAIN Globs => compile_glob(p) # {} /\ The(compile_glob(p)) = Globs[p]
  BY DEF compile_glob, The
<1>2. \A p : compile_glob(p) # {} => p \in DOMAIN Globs
  BY DEF compile_glob
<1>3. ASSUME NEW S, model \in UNION compile_glob_set(S) PROVE \E p \in S \cap DOMAIN Globs : model \in Globs[p]
  BY <1>1, <1>2, <1>3 DEF compile_glob_set
<1>4. ASSUME NEW S, compile_glob_set(S) # {}, model \notin UNION compile_glob_set(S)
      PROVE  \A p \in S : p \in DOMAIN Globs /\ model \notin Globs[p]
  BY <1>1, <1>2, <1>4 DEF compile_glob_set
<1>5. t.allow # {} => model \in UNION compile_glob_set(t.allow)
  BY DEF evaluate_catalog_policy
<1>6. t.deny # {} => compile_glob_set(t.deny) # {} /\ model \notin UNION compile_glob_set(t.deny)
  BY <1>5 DEF evaluate_catalog_policy
<1> QED
  BY <1>3, <1>4, <1>5, <1>6 DEF Permits

(* What the proxy writes of a context: none of the keys that others read. *)
Annotated(old, new) ==
  /\ new = [k \in DOMAIN new |-> new[k]] /\ DOMAIN old \subseteq DOMAIN new
  /\ \A k \in DOMAIN old \ {"ai.tokens", "ai.provider", "ai.model", "store_downgrade"} : new[k] = old[k]

(* Asker, budgets and partitions are as before.                            *)
LEMMA Writing ==
  ASSUME NEW r, SameAsker(r.req, Requests[r.name]), NEW ctx, Annotated(r.req.ctx, ctx),
         NEW new, new.req = [r.req EXCEPT !.ctx = ctx],
         new.name = r.name, new.charged = r.charged, new.lost = r.lost
  PROVE  /\ SameAsker(new.req, Requests[new.name]) /\ new.req.body = r.req.body /\ new.req.ctx = ctx
         /\ \A q \in Limits : Kept(r, q) => Kept(new, q)
         /\ \A q : BillOK(new, q) = BillOK(r, q)
         /\ \A q, n : Paid(new, q, n) = Paid(r, q, n)
<1>1. /\ new.req = [f \in ReqFields |-> new.req[f]] /\ new.req.ctx = ctx
      /\ new.req.client = r.req.client /\ new.req.header = r.req.header /\ new.req.body = r.req.body
  BY DEF SameAsker, ReqFields
<1>2. SameAsker(new.req, Requests[new.name])
  <2>1. \A x \in {"ai.policy", "consumer"} : x \in DOMAIN r.req.ctx /\ ctx[x] = r.req.ctx[x]
    BY DEF SameAsker, Annotated
  <2>2. ctx = [k \in DOMAIN ctx |-> ctx[k]] /\ {"ai.policy", "consumer", "ai.tokens"} \subseteq DOMAIN ctx
    BY DEF SameAsker, Annotated
  <2> QED
    BY <1>1, <2>1, <2>2 DEF SameAsker
<1>3. \A q : ProfileFor(new, q) = ProfileFor(r, q) /\ PartitionOf(new, q) = PartitionOf(r, q)
  BY DEF ProfileFor, PartitionOf
<1>4. ASSUME NEW q \in Limits, Kept(r, q) PROVE Kept(new, q)
  <2> DEFINE key == partition_context_key(Chain[q])
  <2>1. ProfileFor(r, q) # {} /\ key \in DOMAIN r.req.ctx /\ r.req.ctx[key] = {PartitionOf(r, q)}
    BY <1>4 DEF Kept
  <2>2. key \notin {"ai.tokens", "ai.provider", "ai.model", "store_downgrade"}
    BY KeysDiffer
  <2> HIDE DEF key
  <2>3. key \in DOMAIN ctx /\ ctx[key] = r.req.ctx[key]
    BY <2>1, <2>2 DEF Annotated
  <2> QED
    BY <1>1, <1>3, <2>1, <2>3 DEF Kept, key
<1>5. \A q : BillOK(new, q) = BillOK(r, q)
  BY SameKeys DEF BillOK
<1>6. \A q, n : Paid(new, q, n) = Paid(r, q, n)
  BY DEF Paid
<1> QED
  BY <1>1, <1>2, <1>4, <1>5, <1>6

(* The proxy may note something in the context before it dispatches.       *)
LEMMA Noting ==
  ASSUME NEW r, RequestOK(r), r.pc = "dispatch", NEW v
  PROVE  LET new == [r EXCEPT !.req.ctx = Put(@, "store_downgrade", v)]
         IN RequestOK(new) /\ new.pc = "dispatch"
<1> DEFINE new == [r EXCEPT !.req.ctx = Put(@, "store_downgrade", v)]
           ctx == Put(r.req.ctx, "store_downgrade", v)
<1>1. r = [f \in ConnFields |-> r[f]] /\ SameAsker(r.req, Requests[r.name])
  BY DEF RequestOK, Form
<1>2. /\ new = [f \in ConnFields |-> new[f]] /\ new.req = [r.req EXCEPT !.ctx = ctx]
      /\ new.pc = r.pc /\ new.at = r.at /\ new.name = r.name /\ new.sent = r.sent
      /\ new.targets = r.targets /\ new.charged = r.charged /\ new.lost = r.lost
  BY <1>1 DEF ConnFields
<1>3. /\ ctx = [k \in DOMAIN ctx |-> ctx[k]] /\ DOMAIN ctx = DOMAIN r.req.ctx \cup {"store_downgrade"}
      /\ \A k \in DOMAIN r.req.ctx \ {"store_downgrade"} : ctx[k] = r.req.ctx[k]
  BY DEF Put
<1> HIDE DEF new, ctx
<1>4. Annotated(r.req.ctx, ctx) /\ ctx["ai.tokens"] = r.req.ctx["ai.tokens"]
  BY <1>1, <1>3 DEF Annotated, SameAsker
<1>5. /\ SameAsker(new.req, Requests[new.name]) /\ new.req.body = r.req.body /\ new.req.ctx = ctx
      /\ \A q \in Limits : Kept(r, q) => Kept(new, q)
      /\ \A q : BillOK(new, q) = BillOK(r, q)
      /\ \A q, n : Paid(new, q, n) = Paid(r, q, n)
  BY <1>1, <1>2, <1>4, Writing
<1>6. Form(new)
  BY <1>2, <1>5 DEF RequestOK, Form
<1>7. TargetsOK(new)
  BY <1>2 DEF RequestOK, TargetsOK, Early, Tried
<1>8. CountsOK(new)
  BY <1>2, <1>4, <1>5 DEF RequestOK, BudgetOK, CountsOK, Late
<1>9. ASSUME NEW q \in Limits PROVE LimitOK(new, q)
  <2>1. LimitOK(r, q)
    BY DEF RequestOK, BudgetOK
  <2> QED
    BY <1>2, <1>5, <2>1 DEF LimitOK, Ahead, Late
<1>10. BudgetOK(new)
  BY <1>2, <1>5, <1>8, <1>9 DEF RequestOK, BudgetOK
<1> QED
  BY <1>2, <1>6, <1>7, <1>10 DEF RequestOK, new

(* The targets are the one the model resolves to, which permits it, and    *)
(* the fallbacks.                                                          *)
LEMMA Calling ==
  ASSUME NEW r, RequestOK(r), r.pc = "dispatch", NEW t, Permits(t, ModelOf(r))
  PROVE  RequestOK([r EXCEPT !.pc = "call", !.targets = <<t>> \o Config.fallback])
<1> DEFINE all == <<t>> \o Config.fallback
           new == [r EXCEPT !.pc = "call", !.targets = all]
<1>1. IsList(all) /\ all # <<>> /\ Len(all) = 1 + Len(Config.fallback) /\ all[1] = t
  <2>1. PICK S : Config.fallback \in Seq(S)
    BY ChainIsList DEF IsList
  <2>2. Config.fallback \in Seq(S \cup {t}) /\ <<t>> \in Seq(S \cup {t})
    BY <2>1
  <2>3. all \in Seq(S \cup {t}) /\ Len(all) = 1 + Len(Config.fallback) /\ all[1] = t
    BY <2>2
  <2>4. Len(Config.fallback) \in Nat
    BY ChainIsList
  <2>5. all # <<>>
    BY <2>3, <2>4
  <2> QED
    BY <2>3, <2>5 DEF IsList
<1>2. /\ new = [f \in ConnFields |-> new[f]] /\ new.pc = "call" /\ new.targets = all
      /\ new.at = r.at /\ new.name = r.name /\ new.req = r.req /\ new.sent = r.sent
      /\ new.charged = r.charged /\ new.lost = r.lost
  BY DEF RequestOK, Form, ConnFields
<1>3. r.sent = <<>> /\ Len(<<>>) = 0 /\ Len(Config.fallback) \in Nat
  BY ChainIsList DEF RequestOK, TargetsOK, Early
<1> HIDE DEF new, all
<1>4. Form(new)
  BY <1>1, <1>2 DEF RequestOK, Form, AiStages
<1>5. Trying(new)
  <2>1. Permits(new.targets[1], ModelOf(new)) /\ new.sent = <<>> /\ new.targets # <<>>
    BY <1>1, <1>2, <1>3 DEF ModelOf
  <2>2. Len(new.targets) + Len(new.sent) = 1 + Len(Config.fallback)
    <3>1. Len(new.targets) = 1 + Len(Config.fallback) /\ Len(new.sent) = 0
      BY <1>1, <1>2, <1>3, EmptyList, Zenon
    <3> QED
      BY <1>3, <3>1
  <2>3. \A n \in DOMAIN new.sent : Failed(new.sent[n])
    BY <2>1, EmptyList
  <2> QED
    BY <2>1, <2>2, <2>3 DEF Trying
<1>6. TargetsOK(new)
  BY <1>2, <1>5 DEF TargetsOK, Early
<1>7. /\ \A q : BillOK(new, q) = BillOK(r, q) /\ Kept(new, q) = Kept(r, q)
      /\ \A q, n : Paid(new, q, n) = Paid(r, q, n)
  <2>1. new.name = r.name /\ new.charged = r.charged /\ new.lost = r.lost /\ new.req.ctx = r.req.ctx
    BY <1>2
  <2> QED
    BY <2>1, SameBudget, Zenon
<1>8. CountsOK(new)
  BY <1>2 DEF RequestOK, BudgetOK, CountsOK, Late
<1>9. ASSUME NEW q \in Limits PROVE LimitOK(new, q)
  <2>1. LimitOK(r, q)
    BY DEF RequestOK, BudgetOK
  <2> QED
    BY <1>2, <1>7, <2>1 DEF LimitOK, Ahead, Late
<1>10. BudgetOK(new)
  BY <1>2, <1>7, <1>8, <1>9 DEF RequestOK, BudgetOK
<1> QED
  BY <1>4, <1>6, <1>10 DEF RequestOK, new, all

(* dispatch refuses the request or calls the first target.                 *)
LEMMA Dispatching ==
  ASSUME NEW r, RequestOK(r), r.pc = "dispatch"
  PROVE  RequestOK(dispatch_with_handler(r)) /\ RequestOK(dispatch_responses(r))
<1>1. ASSUME NEW s, RequestOK(s), s.pc = "dispatch" PROVE RequestOK(dispatch_with_handler(s))
  <2> DEFINE model == ModelOf(s)
             primary == The(resolve_target(model, s.req.ctx))
             new == [s EXCEPT !.pc = "call", !.targets = <<primary>> \o Config.fallback]
  <2>1. \A resp : RequestOK(Responded(s, resp))
    BY <1>1, Responding
  <2>2. \/ \E resp : dispatch_with_handler(s) = Responded(s, resp)
        \/ evaluate_catalog_policy(primary, model) = {} /\ dispatch_with_handler(s) = new
    BY ZenonT(60) DEF dispatch_with_handler, ModelOf
  <2>3. evaluate_catalog_policy(primary, model) = {} => RequestOK(new)
    <3> HIDE DEF model, primary
    <3>1. evaluate_catalog_policy(primary, model) = {} => Permits(primary, model)
      BY PermitsByPolicy
    <3> QED
      BY <1>1, <3>1, Calling DEF model
  <2> HIDE DEF new
  <2> QED
    BY <2>1, <2>2, <2>3
<1>2. \/ \E resp : dispatch_responses(r) = Responded(r, resp)
      \/ \E v : dispatch_responses(r) = dispatch_with_handler([r EXCEPT !.req.ctx = Put(@, "store_downgrade", v)])
  BY Zenon DEF dispatch_responses
<1>3. \A resp : RequestOK(Responded(r, resp))
  BY Responding
<1>4. \A v : RequestOK(dispatch_with_handler([r EXCEPT !.req.ctx = Put(@, "store_downgrade", v)]))
  <2> TAKE v
  <2> DEFINE s == [r EXCEPT !.req.ctx = Put(@, "store_downgrade", v)]
  <2>1. RequestOK(s) /\ s.pc = "dispatch"
    BY Noting
  <2> HIDE DEF s
  <2>2. RequestOK(dispatch_with_handler(s))
    BY <1>1, <2>1
  <2> QED
    BY <2>2 DEF s
<1> QED
  BY <1>1, <1>2, <1>3, <1>4, Zenon

(* One target fewer to try is one more that was tried.                     *)
LEMMA Counting ==
  ASSUME NEW m \in Nat, NEW n \in Nat \ {0}, NEW k \in Nat, n + m = 1 + k
  PROVE  (n - 1) + (m + 1) = 1 + k /\ (n = 1 => m + 1 = 1 + k) /\ (n # 1 => n - 1 # 0)
  OBVIOUS

(* One more target was called: the first one permits the model, and all    *)
(* before the last have failed.                                            *)
LEMMA SentOneMore ==
  ASSUME NEW r, RequestOK(r), r.pc = "call", NEW s, s.to = Head(r.targets)
  PROVE  LET calls == Append(r.sent, s)
         IN /\ IsList(calls) /\ calls # <<>> /\ Len(calls) = Len(r.sent) + 1 /\ Len(r.sent) \in Nat /\ calls[Len(calls)] = s
            /\ DOMAIN calls = 1 .. Len(r.sent) + 1
            /\ Permits(calls[1].to, ModelOf(r)) /\ \A n \in 1 .. Len(calls) - 1 : Failed(calls[n])
            /\ IsList(Tail(r.targets)) /\ Len(r.targets) \in Nat \ {0} /\ Len(Tail(r.targets)) = Len(r.targets) - 1
            /\ Len(r.targets) + Len(r.sent) = 1 + Len(Config.fallback) /\ Len(Config.fallback) \in Nat
<1> DEFINE calls == Append(r.sent, s)
<1>1. /\ Trying(r) /\ IsList(r.sent) /\ IsList(r.targets)
  BY DEF RequestOK, Form, TargetsOK
<1>2. /\ IsList(calls) /\ Len(calls) = Len(r.sent) + 1 /\ calls[Len(r.sent) + 1] = s /\ Len(r.sent) \in Nat
      /\ DOMAIN r.sent = 1 .. Len(r.sent) /\ DOMAIN calls = 1 .. Len(r.sent) + 1
      /\ \A n \in 1 .. Len(r.sent) : calls[n] = r.sent[n]
      /\ (r.sent = <<>> <=> Len(r.sent) = 0)
  BY <1>1, AppendList
<1>3. calls # <<>>
  <2>1. Len(calls) # 0
    BY <1>2
  <2> HIDE DEF calls
  <2> QED
    BY <2>1, EmptyList
<1>4. /\ IsList(Tail(r.targets)) /\ Len(r.targets) \in Nat \ {0} /\ Len(Tail(r.targets)) = Len(r.targets) - 1
      /\ Head(r.targets) = r.targets[1]
  BY <1>1, TailList DEF Trying
<1>5. /\ \A n \in DOMAIN r.sent : Failed(r.sent[n])
      /\ Len(r.targets) + Len(r.sent) = 1 + Len(Config.fallback) /\ Len(Config.fallback) \in Nat
  BY <1>1, ChainIsList DEF Trying
<1> HIDE DEF calls
<1>6. Permits(calls[1].to, ModelOf(r))
  <2>1. CASE r.sent = <<>>
    <3>1. calls[1] = s
      BY <1>2, <2>1
    <3> QED
      BY <1>1, <1>4, <2>1, <3>1 DEF Trying
  <2>2. CASE r.sent # <<>>
    <3>1. calls[1] = r.sent[1]
      BY <1>2, <2>2
    <3> QED
      BY <1>1, <2>2, <3>1 DEF Trying
  <2> QED
    BY <2>1, <2>2
<1>7. \A n \in 1 .. Len(calls) - 1 : Failed(calls[n])
  BY <1>2, <1>5
<1> QED
  BY <1>2, <1>3, <1>4, <1>5, <1>6, <1>7 DEF calls

(* A failure with a target left: the next one is tried.                    *)
LEMMA Retrying ==
  ASSUME NEW r, RequestOK(r), r.pc = "call", NEW s, s.to = Head(r.targets), Failed(s), Len(r.targets) # 1
  PROVE  RequestOK([r EXCEPT !.targets = Tail(@), !.sent = Append(@, s)])
<1> DEFINE new == [r EXCEPT !.targets = Tail(@), !.sent = Append(@, s)]
           calls == Append(r.sent, s)
<1>1. /\ IsList(calls) /\ calls # <<>> /\ Len(calls) = Len(r.sent) + 1 /\ Len(r.sent) \in Nat /\ calls[Len(calls)] = s
      /\ DOMAIN calls = 1 .. Len(r.sent) + 1
      /\ Permits(calls[1].to, ModelOf(r)) /\ \A n \in 1 .. Len(calls) - 1 : Failed(calls[n])
      /\ IsList(Tail(r.targets)) /\ Len(r.targets) \in Nat \ {0} /\ Len(Tail(r.targets)) = Len(r.targets) - 1
      /\ Len(r.targets) + Len(r.sent) = 1 + Len(Config.fallback) /\ Len(Config.fallback) \in Nat
  BY SentOneMore
<1>2. /\ new = [f \in ConnFields |-> new[f]] /\ new.pc = "call" /\ new.targets = Tail(r.targets) /\ new.sent = calls
      /\ new.at = r.at /\ new.name = r.name /\ new.req = r.req
      /\ new.charged = r.charged /\ new.lost = r.lost
  BY DEF RequestOK, Form, ConnFields
<1> HIDE DEF new, calls
<1>3. Form(new)
  BY <1>1, <1>2 DEF RequestOK, Form
<1>4. Trying(new)
  <2>1. Permits(new.sent[1].to, ModelOf(new)) /\ new.sent # <<>>
    BY <1>1, <1>2 DEF ModelOf
  <2>2. Len(new.targets) + Len(new.sent) = 1 + Len(Config.fallback) /\ Len(new.targets) # 0
    <3>1. Len(new.targets) = Len(r.targets) - 1 /\ Len(new.sent) = Len(r.sent) + 1
      BY <1>1, <1>2, Zenon
    <3>2. /\ Len(r.targets) \in Nat \ {0} /\ Len(r.sent) \in Nat /\ Len(Config.fallback) \in Nat
          /\ Len(r.targets) + Len(r.sent) = 1 + Len(Config.fallback)
      BY <1>1, Zenon
    <3>3. (Len(r.targets) - 1) + (Len(r.sent) + 1) = 1 + Len(Config.fallback) /\ Len(r.targets) - 1 # 0
      BY <3>2, Counting, Zenon
    <3> QED
      BY <3>1, <3>3, Zenon
  <2>3. new.targets # <<>>
    BY <2>2, EmptyList
  <2>4. \A n \in DOMAIN new.sent : Failed(new.sent[n])
    BY <1>1, <1>2
  <2> QED
    BY <2>1, <2>2, <2>3, <2>4 DEF Trying
<1>5. TargetsOK(new)
  BY <1>2, <1>4 DEF TargetsOK, Early
<1>6. /\ \A q : BillOK(new, q) = BillOK(r, q) /\ Kept(new, q) = Kept(r, q)
      /\ \A q, n : Paid(new, q, n) = Paid(r, q, n)
  <2>1. new.name = r.name /\ new.charged = r.charged /\ new.lost = r.lost /\ new.req.ctx = r.req.ctx
    BY <1>2
  <2> QED
    BY <2>1, SameBudget, Zenon
<1>7. CountsOK(new)
  BY <1>2 DEF RequestOK, BudgetOK, CountsOK, Late
<1>8. ASSUME NEW q \in Limits PROVE LimitOK(new, q)
  <2>1. LimitOK(r, q)
    BY DEF RequestOK, BudgetOK
  <2> QED
    BY <1>2, <1>6, <2>1 DEF LimitOK, Ahead, Late
<1>9. BudgetOK(new)
  BY <1>2, <1>6, <1>7, <1>8 DEF RequestOK, BudgetOK
<1> QED
  BY <1>3, <1>5, <1>9 DEF RequestOK, new

(* The context says what the last provider reported, if it says anything. *)
Noted(r, s, ctx) ==
  /\ Annotated(r.req.ctx, ctx) /\ ctx["ai.tokens"] \in TokenCounts
  /\ ctx["ai.tokens"] = IF s.result = {} THEN {} ELSE Reports(The(s.result))
AfterCall(r, s, ctx) == [r EXCEPT !.targets = Tail(@), !.sent = Append(@, s), !.req = [@ EXCEPT !.ctx = ctx]]

(* The last call answers, or none is left: every middleware sees it.       *)
LEMMA Answering ==
  ASSUME NEW r, RequestOK(r), r.pc = "call", NEW s, s.to = Head(r.targets), Failed(s) => Len(r.targets) = 1,
         NEW ctx, Noted(r, s, ctx), NEW resp
  PROVE  RequestOK(Responded(AfterCall(r, s, ctx), resp))
<1> DEFINE mid == AfterCall(r, s, ctx)
           new == Responded(mid, resp)
           calls == Append(r.sent, s)
<1>0. Len(Chain) \in Nat \ {0} /\ Limits \subseteq 1 .. Len(Chain)
  BY ChainIsList
<1>1. /\ IsList(calls) /\ calls # <<>> /\ Len(calls) = Len(r.sent) + 1 /\ Len(r.sent) \in Nat /\ calls[Len(calls)] = s
      /\ Permits(calls[1].to, ModelOf(r)) /\ \A n \in 1 .. Len(calls) - 1 : Failed(calls[n])
      /\ IsList(Tail(r.targets)) /\ Len(r.targets) \in Nat \ {0}
      /\ Len(r.targets) + Len(r.sent) = 1 + Len(Config.fallback) /\ Len(Config.fallback) \in Nat
  BY SentOneMore
<1>2. /\ mid = [f \in ConnFields |-> mid[f]] /\ mid.targets = Tail(r.targets) /\ mid.sent = calls
      /\ mid.name = r.name /\ mid.req = [r.req EXCEPT !.ctx = ctx] /\ mid.charged = r.charged /\ mid.lost = r.lost
  BY DEF RequestOK, Form, ConnFields, AfterCall
<1> HIDE DEF mid
<1>3. /\ new = [f \in ConnFields |-> new[f]] /\ new.pc = "response" /\ new.at = Len(Chain)
      /\ new.targets = Tail(r.targets) /\ new.sent = calls
      /\ new.name = r.name /\ new.req = [r.req EXCEPT !.ctx = ctx] /\ new.charged = r.charged /\ new.lost = r.lost
  <2>1. /\ new = [f \in ConnFields |-> new[f]] /\ new.pc = (IF Len(Chain) = 0 THEN "done" ELSE "response")
        /\ new.at = Len(Chain) /\ new.name = mid.name /\ new.req = mid.req
        /\ new.sent = mid.sent /\ new.targets = mid.targets /\ new.charged = mid.charged /\ new.lost = mid.lost
    <3>1. mid = [f \in ConnFields |-> mid[f]]
      BY <1>2
    <3> QED
      BY <3>1, AnswerFields DEF Responded
  <2>2. new.pc = "response"
    BY <1>0, <2>1
  <2> HIDE DEF new
  <2> QED
    BY <1>2, <2>1, <2>2, Zenon
<1> HIDE DEF new, calls
<1>4. /\ SameAsker(new.req, Requests[new.name]) /\ new.req.body = r.req.body /\ new.req.ctx = ctx
      /\ \A q \in Limits : Kept(r, q) => Kept(new, q)
      /\ \A q : BillOK(new, q) = BillOK(r, q)
      /\ \A q, n : Paid(new, q, n) = Paid(r, q, n)
  <2>1. SameAsker(r.req, Requests[r.name]) /\ Annotated(r.req.ctx, ctx)
    BY DEF RequestOK, Form, Noted
  <2>2. /\ new.name = r.name /\ new.req = [r.req EXCEPT !.ctx = ctx] /\ new.charged = r.charged /\ new.lost = r.lost
    BY <1>3, Zenon
  <2> QED
    BY <2>1, <2>2, Writing
<1>5. Form(new)
  BY <1>0, <1>1, <1>3, <1>4 DEF RequestOK, Form, AiStages
<1>6. Tried(new)
  <2>1. new.sent[Len(new.sent)] = s /\ Len(new.sent) = Len(r.sent) + 1
    BY <1>1, <1>3
  <2>2. Failed(new.sent[Len(new.sent)]) => Len(new.sent) = 1 + Len(Config.fallback)
    <3>1. Failed(new.sent[Len(new.sent)]) => Len(r.targets) = 1
      BY <2>1, Zenon
    <3>2. /\ Len(r.sent) \in Nat /\ Len(Config.fallback) \in Nat /\ Len(r.targets) \in Nat \ {0}
          /\ Len(r.targets) + Len(r.sent) = 1 + Len(Config.fallback)
      BY <1>1, Zenon
    <3>3. Len(r.targets) = 1 => Len(r.sent) + 1 = 1 + Len(Config.fallback)
      BY <3>2, Counting, Zenon
    <3> QED
      BY <2>1, <3>1, <3>3, Zenon
  <2>3. /\ Permits(new.sent[1].to, ModelOf(new)) /\ \A n \in 1 .. Len(new.sent) - 1 : Failed(new.sent[n])
    BY <1>1, <1>3, <1>4 DEF ModelOf
  <2> QED
    BY <2>2, <2>3 DEF Tried
<1>7. TargetsOK(new)
  BY <1>3, <1>6 DEF TargetsOK, Early
<1>8. CountsOK(new)
  <2>1. new.req.ctx["ai.tokens"] = IF s.result = {} THEN {} ELSE Reports(The(s.result))
    BY <1>4 DEF Noted
  <2>2. Last(new.sent) = s /\ new.sent # <<>>
    BY <1>1, <1>3 DEF Last
  <2>3. Reported(new) = new.req.ctx["ai.tokens"]
    BY <2>1, <2>2 DEF Reported, Reports
  <2>4. new.req.ctx["ai.tokens"] \in TokenCounts
    BY <1>4 DEF Noted
  <2> QED
    BY <1>3, <2>3, <2>4 DEF CountsOK, Late
<1>9. ASSUME NEW q \in Limits PROVE LimitOK(new, q)
  <2>1. LimitOK(r, q) /\ q \in Nat /\ q <= Len(Chain)
    BY <1>0 DEF RequestOK, BudgetOK
  <2>2. Kept(r, q) /\ Paid(r, q, 1)
    BY <2>1 DEF LimitOK, Ahead
  <2>3. Kept(new, q) /\ Paid(new, q, 1)
    BY <1>4, <2>2
  <2> QED
    BY <1>0, <1>3, <2>1, <2>3 DEF LimitOK, Ahead, Late
<1>10. BudgetOK(new)
  BY <1>3, <1>4, <1>8, <1>9 DEF RequestOK, BudgetOK
<1> QED
  BY <1>5, <1>7, <1>10 DEF RequestOK, new, mid

(* propagate_context notes the tokens that the response reports.           *)
LEMMA Propagating ==
  ASSUME NEW ctx, "ai.tokens" \in DOMAIN ctx, ctx["ai.tokens"] = {},
         NEW res, ResultOK(res), res # {}, NEW t, NEW model
  PROVE  LET new == propagate_context(ctx, t, model, The(res))
         IN Annotated(ctx, new) /\ new["ai.tokens"] = Reports(The(res)) /\ new["ai.tokens"] \in TokenCounts
<1> DEFINE new == propagate_context(ctx, t, model, The(res))
           one == Put(ctx, "ai.provider", {t.provider})
           two == Put(one, "ai.model", {model})
<1>1. PICK x : /\ res = {x} /\ Reports(x) \in TokenCounts /\ extract_tokens(x) = Reports(x)
               /\ x.status = 0 => Reports(x) = {}
  BY DEF ResultOK
<1>2. The(res) = x
  BY <1>1 DEF The
<1>3. /\ one = [k \in DOMAIN one |-> one[k]] /\ DOMAIN one = DOMAIN ctx \cup {"ai.provider"}
      /\ \A k \in DOMAIN ctx \ {"ai.provider"} : one[k] = ctx[k]
  BY DEF Put
<1>4. /\ two = [k \in DOMAIN two |-> two[k]] /\ DOMAIN two = DOMAIN one \cup {"ai.model"}
      /\ \A k \in DOMAIN one \ {"ai.model"} : two[k] = one[k]
  <2> HIDE DEF one
  <2> QED
    BY DEF Put
<1>5. new = [two EXCEPT !["ai.tokens"] = IF x.status = 0 \/ extract_tokens(x) = {} THEN @ ELSE extract_tokens(x)]
  BY <1>2 DEF propagate_context
<1> HIDE DEF one, two, new
<1>6. "ai.tokens" \in DOMAIN two /\ two["ai.tokens"] = {}
  BY <1>3, <1>4
<1>7. new = [two EXCEPT !["ai.tokens"] = Reports(x)]
  BY <1>1, <1>5, <1>6
<1>8. /\ new = [k \in DOMAIN new |-> new[k]] /\ DOMAIN new = DOMAIN two /\ new["ai.tokens"] = Reports(x)
      /\ \A k \in DOMAIN two \ {"ai.tokens"} : new[k] = two[k]
  BY <1>4, <1>6, <1>7
<1>9. Annotated(ctx, new)
  BY <1>3, <1>4, <1>8 DEF Annotated
<1> QED
  BY <1>1, <1>2, <1>8, <1>9 DEF new

(* A step of one connection that keeps its request in order. *)
Moves(c) == \E r : Set(c, r) /\ RequestOK(r)

(* Call: the next target is tried only after a failure, and what the last  *)
(* one reports is what the limits will read.                               *)
LEMMA CallMoves ==
  ASSUME NEW c \in Conns, RequestOK(conn[c]), NEW a, a.usage \subseteq Nat \X Nat, \A x, y \in a.usage : x = y, Call(c, a)
  PROVE  Moves(c)
<1> DEFINE r == conn[c]
           t == Head(r.targets)
           model == The(extract_client_model(r.req.body))
           out == IF r.req.path = "responses" THEN responses_handle(t, r.req, a) ELSE chat_handle(t, r.req, a)
           s == [to |-> t, sent |-> out.sent, result |-> out.result]
           tried == [r EXCEPT !.targets = Tail(@), !.sent = Append(@, s)]
           ctx == propagate_context(r.req.ctx, t, model, The(out.result))
           last == Responded([tried EXCEPT !.req.ctx = propagate_context(@, t, model, The(out.result))], The(out.result))
<1>1. /\ r.pc = "call"
      /\ Set(c, IF FallsBack(out.result, Len(r.targets) - 1)
                THEN IF Len(r.targets) = 1 THEN Responded(tried, error_response(502)) ELSE tried
                ELSE last)
  BY DEF Call, Step
<1>2. ResultOK(out.result)
  <2>1. ResultOK(chat_handle(t, r.req, a).result) /\ ResultOK(responses_handle(t, r.req, a).result)
    BY CallResult
  <2> QED
    BY <2>1
<1> HIDE DEF out
<1>3. s.to = Head(r.targets) /\ s.result = out.result
  OBVIOUS
<1> HIDE DEF s
<1>4. RequestOK(r)
  OBVIOUS
<1> HIDE DEF r
<1>5. /\ r = [f \in ConnFields |-> r[f]] /\ SameAsker(r.req, Requests[r.name]) /\ r.req.ctx["ai.tokens"] = {}
      /\ "ai.tokens" \in DOMAIN r.req.ctx /\ r.req.ctx = [k \in DOMAIN r.req.ctx |-> r.req.ctx[k]]
  <2>1. r = [f \in ConnFields |-> r[f]] /\ SameAsker(r.req, Requests[r.name])
    BY <1>4 DEF RequestOK, Form
  <2>2. r.req.ctx["ai.tokens"] = {}
    BY <1>1, <1>4 DEF RequestOK, BudgetOK, CountsOK, Late
  <2> QED
    BY <2>1, <2>2 DEF SameAsker
<1>6. Len(r.targets) \in Nat \ {0}
  BY <1>1, <1>3, <1>4, SentOneMore
<1>7. Failed(s) <=> out.result = {} \/ The(out.result).status >= 500
  BY <1>3 DEF Failed
<1>8. ASSUME FallsBack(out.result, Len(r.targets) - 1), Len(r.targets) = 1
      PROVE  RequestOK(Responded(tried, error_response(502)))
  <2>1. out.result = {}
    BY <1>8 DEF FallsBack
  <2>2. Noted(r, s, r.req.ctx)
    BY <1>3, <1>5, <2>1 DEF Noted, Annotated, TokenCounts
  <2>3. tried = AfterCall(r, s, r.req.ctx)
    <3>1. [r.req EXCEPT !.ctx = r.req.ctx] = r.req
      BY <1>5 DEF SameAsker, ReqFields
    <3>2. \A u : r = [r EXCEPT !.req = r.req] /\ [r EXCEPT !.targets = Tail(r.targets), !.sent = u] = [r EXCEPT !.targets = Tail(r.targets), !.sent = u, !.req = r.req]
      BY <1>5 DEF ConnFields
    <3> QED
      BY <3>1, <3>2 DEF AfterCall
  <2>4. RequestOK(Responded(AfterCall(r, s, r.req.ctx), error_response(502)))
    BY <1>1, <1>3, <1>4, <1>8, <2>2, Answering
  <2> QED
    BY <2>3, <2>4
<1>9. ASSUME FallsBack(out.result, Len(r.targets) - 1), Len(r.targets) # 1 PROVE RequestOK(tried)
  <2>1. Failed(s)
    BY <1>7, <1>9 DEF FallsBack
  <2> QED
    BY <1>1, <1>3, <1>4, <1>9, <2>1, Retrying
<1>10. ASSUME ~FallsBack(out.result, Len(r.targets) - 1) PROVE RequestOK(last)
  <2>1. out.result # {} /\ (Failed(s) => Len(r.targets) = 1)
    <3>1. out.result # {} /\ (The(out.result).status >= 500 => ~(Len(r.targets) - 1 > 0))
      BY <1>10, Zenon DEF FallsBack
    <3>2. \A n \in Nat \ {0} : ~(n - 1 > 0) => n = 1
      OBVIOUS
    <3> QED
      BY <1>6, <1>7, <3>1, <3>2, Zenon
  <2>2. Annotated(r.req.ctx, ctx) /\ ctx["ai.tokens"] = Reports(The(out.result)) /\ ctx["ai.tokens"] \in TokenCounts
    BY <1>2, <1>5, <2>1, Propagating
  <2>3. last = Responded(AfterCall(r, s, ctx), The(out.result))
    <3> DEFINE P(x) == propagate_context(x, t, model, The(out.result))
    <3>1. \A u, v : [[r EXCEPT !.targets = u, !.sent = v] EXCEPT !.req.ctx = P(@)]
                      = [r EXCEPT !.targets = u, !.sent = v, !.req = [r.req EXCEPT !.ctx = P(r.req.ctx)]]
      <4> HIDE DEF P
      <4> QED
        BY <1>5 DEF ConnFields
    <3> QED
      BY <3>1, Zenon DEF AfterCall
  <2> HIDE DEF ctx
  <2>4. Noted(r, s, ctx)
    BY <1>3, <2>1, <2>2 DEF Noted
  <2>5. RequestOK(Responded(AfterCall(r, s, ctx), The(out.result)))
    BY <1>1, <1>3, <1>4, <2>1, <2>4, Answering
  <2> QED
    BY <2>3, <2>5
<1> HIDE DEF tried, last
<1> QED
  BY <1>1, <1>8, <1>9, <1>10, Zenon DEF Moves

(* Listing models touches neither budgets nor targets.                     *)
LEMMA Listing ==
  ASSUME NEW r, RequestOK(r), r.pc \in {"dispatch", "models"}, NEW new, new = [f \in ConnFields |-> new[f]],
         new.pc = "models", new.name = r.name, new.req = r.req, new.sent = r.sent, new.targets = r.targets,
         new.charged = r.charged, new.lost = r.lost
  PROVE  RequestOK(new)
<1>1. Form(new)
  BY DEF RequestOK, Form, AiStages
<1>2. TargetsOK(new)
  BY TargetsKept DEF RequestOK, Early
<1>3. /\ \A q : BillOK(new, q) = BillOK(r, q) /\ Kept(new, q) = Kept(r, q)
      /\ \A q, n : Paid(new, q, n) = Paid(r, q, n)
  BY SameBudget
<1>4. CountsOK(new)
  BY DEF RequestOK, BudgetOK, CountsOK, Late
<1>5. ASSUME NEW q \in Limits PROVE LimitOK(new, q)
  <2>1. LimitOK(r, q)
    BY DEF RequestOK, BudgetOK
  <2> QED
    BY <1>3, <2>1 DEF LimitOK, Ahead, Late
<1> QED
  BY <1>1, <1>2, <1>3, <1>4, <1>5 DEF RequestOK, BudgetOK

(* dispatch, and the two steps of GET /v1/models.                          *)
LEMMA ProxyMoves ==
  ASSUME NEW c \in Conns, RequestOK(conn[c]), NEW a, dispatch(c) \/ models_handle(c) \/ fetch_provider_models(c, a)
  PROVE  Moves(c)
<1> DEFINE r == conn[c]
<1>1. CASE dispatch(c)
  <2>1. r.pc = "dispatch" /\ (Set(c, dispatch_responses(r)) \/ Set(c, dispatch_with_handler(r)))
    BY <1>1, Zenon DEF dispatch, Step
  <2>2. RequestOK(dispatch_with_handler(r)) /\ RequestOK(dispatch_responses(r))
    BY <2>1, Dispatching
  <2> QED
    BY <2>1, <2>2, Zenon DEF Moves
<1>2. CASE models_handle(c)
  <2> DEFINE new == [r EXCEPT !.pc = "models", !.left = Len(collect_unique_providers)]
  <2>1. r.pc = "dispatch" /\ (Set(c, new) \/ \E resp : Set(c, Responded(r, resp)))
    BY <1>2, Zenon DEF models_handle, Step
  <2>2. \A resp : RequestOK(Responded(r, resp))
    BY <2>1, Responding
  <2>3. RequestOK(new)
    <3>1. /\ new = [f \in ConnFields |-> new[f]] /\ new.pc = "models" /\ new.name = r.name /\ new.req = r.req
          /\ new.sent = r.sent /\ new.targets = r.targets /\ new.charged = r.charged /\ new.lost = r.lost
      BY DEF RequestOK, Form, ConnFields
    <3> HIDE DEF new
    <3> QED
      BY <2>1, <3>1, Listing
  <2> QED
    BY <2>1, <2>2, <2>3, Zenon DEF Moves
<1>3. CASE fetch_provider_models(c, a)
  <2> DEFINE More(x, y) == [r EXCEPT !.left = @ - 1, !.listed = @ \o x, !.resp = {y}]
  <2>1. r.pc = "models" /\ \E x, y : (Set(c, More(x, y)) \/ \E resp : Set(c, Responded(More(x, y), resp)))
    <3> DEFINE providers == collect_unique_providers
               t == providers[Len(providers) - r.left + 1].target
               good == a.reached /\ Success(a) /\ a.json
               listed == IF good THEN translate_models_response(t.provider, ListedModels) ELSE <<>>
               warned == IF good THEN {} ELSE {t.provider}
               soFar == Or(r.resp, [status |-> 200, warnings |-> {}, body |-> {}])
               more == More(listed, [soFar EXCEPT !.warnings = @ \cup warned])
    <3>1. r.pc = "models" /\ Set(c, IF more.left = 0 THEN Responded(more, The(more.resp)) ELSE more)
      BY <1>3, ZenonT(60) DEF fetch_provider_models, Step
    <3> HIDE DEF More, listed, warned, soFar
    <3>2. \E x, y : more = More(x, y)
      BY Zenon
    <3> HIDE DEF more
    <3> QED
      BY <3>1, <3>2, Zenon
  <2>2. ASSUME NEW x, NEW y PROVE RequestOK(More(x, y)) /\ More(x, y).pc = "models"
    <3> DEFINE new == More(x, y)
    <3>1. /\ new = [f \in ConnFields |-> new[f]] /\ new.pc = "models" /\ new.name = r.name /\ new.req = r.req
          /\ new.sent = r.sent /\ new.targets = r.targets /\ new.charged = r.charged /\ new.lost = r.lost
      BY <2>1 DEF RequestOK, Form, ConnFields
    <3> HIDE DEF new
    <3>2. RequestOK(new)
      BY <2>1, <3>1, Listing
    <3> QED
      BY <3>1, <3>2 DEF new
  <2> HIDE DEF More
  <2>3. \A x, y, resp : RequestOK(Responded(More(x, y), resp))
    BY <2>2, Responding
  <2> QED
    BY <2>1, <2>2, <2>3, Zenon DEF Moves
<1> QED
  BY <1>1, <1>2, <1>3

-----------------------------------------------------------------------------
(* The middlewares *)

(* A refusal is an answer.                                                 *)
LEMMA RefusalIsAnswer ==
  ASSUME NEW r, NEW resp PROVE Passed(r, ShortCircuited(resp)) = Answer(r, resp, r.at - 1)
  BY DEF Passed, ShortCircuited

(* ai-prompt-guard, and the middlewares that let every request pass.       *)
LEMMA GuardMoves ==
  ASSUME NEW c \in Conns, RequestOK(conn[c]), PromptGuard(c) \/ PassRequest(c)
  PROVE  Moves(c)
<1> DEFINE r == conn[c]
<1>1. r.pc = "request" /\ Chain[r.at].plugin # "ai-token-limit"
  BY DEF PromptGuard, PassRequest, Step, Cfg
<1>2. r.at \notin Limits /\ r.req = [f \in ReqFields |-> r.req[f]]
  BY <1>1 DEF Limits, RequestOK, Form, SameAsker
<1>3. CASE PromptGuard(c)
  <2> DEFINE act == prompt_guard(Chain[r.at], r.req)
  <2>1. Set(c, Passed(r, act))
    BY <1>3 DEF PromptGuard, Cfg
  <2>2. \/ \E resp : act = ShortCircuited(resp)
        \/ \E new : /\ act = Continue(new) /\ new = [f \in ReqFields |-> new[f]]
                    /\ new.ctx = r.req.ctx /\ new.client = r.req.client /\ new.header = r.req.header
    BY <1>2, PromptOutcome
  <2> HIDE DEF act
  <2>3. ASSUME NEW resp, act = ShortCircuited(resp) PROVE RequestOK(Passed(r, act))
    BY <1>1, <2>3, RefusalIsAnswer, Refusing
  <2>4. ASSUME NEW new, act = Continue(new), new = [f \in ReqFields |-> new[f]],
               new.ctx = r.req.ctx, new.client = r.req.client, new.header = r.req.header
        PROVE  RequestOK(Passed(r, act))
    BY <1>1, <1>2, <2>4, Passing
  <2>5. RequestOK(Passed(r, act))
    BY <2>2, <2>3, <2>4
  <2> QED
    BY <2>1, <2>5, Zenon DEF Moves
<1>4. CASE PassRequest(c)
  <2>1. Set(c, Passed(r, Continue(r.req)))
    BY <1>4 DEF PassRequest
  <2>2. RequestOK(Passed(r, Continue(r.req)))
    BY <1>1, <1>2, Passing
  <2> QED
    BY <2>1, <2>2, Zenon DEF Moves
<1> QED
  BY <1>3, <1>4

(* ai-token-limit in the request phase.                                    *)
LEMMA AdmitMoves ==
  ASSUME NEW c \in Conns, RequestOK(conn[c]), TokenAdmit(c)
  PROVE  Moves(c)
<1> DEFINE r == conn[c]
           found == resolve_profile(Chain[r.at], r.req.ctx)
           partition == extract_partition(Chain[r.at], r.req)
           req == [r.req EXCEPT !.ctx = Put(@, partition_context_key(Chain[r.at]), {partition})]
           key == bucket_key(Chain[r.at], The(found)[1], partition)
           check == check_rate_limit(key, The(found)[2])
           paid == [r EXCEPT !.charged = @ \o <<key>>]
           unpaid == [r EXCEPT !.charged = @ \o <<>>]
           lost == [r EXCEPT !.lost = @ \cup {Chain[r.at].policy}]
<1>1. r.pc = "request" /\ Chain[r.at].plugin = "ai-token-limit"
  BY DEF TokenAdmit, Step, Cfg
<1>2. \/ \E resp : Set(c, Passed(r, ShortCircuited(resp)))
      \/ found # {} /\ Set(c, Passed(paid, Continue(req)))
      \/ \E resp : Set(c, Passed(unpaid, ShortCircuited(resp)))
      \/ found # {} /\ Set(c, Passed(lost, Continue(req)))
      \/ \E resp : Set(c, Passed(lost, ShortCircuited(resp)))
  BY Zenon DEF TokenAdmit, Cfg
<1>3. /\ r.at \in Limits /\ SameAsker(r.req, Requests[r.name]) /\ r = [f \in ConnFields |-> r[f]] /\ IsList(r.charged)
      /\ r.name \in DOMAIN Requests
  BY <1>1, ChainIsList DEF RequestOK, Form, Limits
<1>4. found = ProfileFor(r, r.at) /\ partition = PartitionOf(r, r.at)
  BY <1>3, SameProfile
<1>5. key = BudgetKey(r, r.at)
  BY <1>4, Zenon DEF BudgetKey
<1>6. WithPartition(r, req)
  BY <1>4, Zenon DEF WithPartition
<1> HIDE DEF found, partition, key, req
<1>7. r.charged \o <<key>> = Append(r.charged, key) /\ r.charged \o <<>> = r.charged
  BY <1>3, AppendList
<1>8. ChargedOne(r, paid) /\ unpaid = r
  <2>1. /\ paid = [f \in ConnFields |-> paid[f]] /\ \A f \in ConnFields \ {"charged", "lost"} : paid[f] = r[f]
        /\ paid.charged = r.charged \o <<key>> /\ paid.lost = r.lost
    BY <1>3 DEF ConnFields
  <2>2. unpaid = r
    BY <1>3, <1>7 DEF ConnFields
  <2> HIDE DEF paid
  <2> QED
    BY <1>5, <1>7, <2>1, <2>2 DEF ChargedOne
<1>9. ChargedOne(r, lost) /\ RequestOK(lost) /\ lost.pc = "request" /\ lost.at = r.at
  <2>1. /\ lost = [f \in ConnFields |-> lost[f]] /\ \A f \in ConnFields \ {"charged", "lost"} : lost[f] = r[f]
        /\ lost.charged = r.charged /\ lost.lost = r.lost \cup {Chain[r.at].policy}
    BY <1>3 DEF ConnFields
  <2>2. RequestOK(lost)
    BY Losing
  <2> HIDE DEF lost
  <2>3. lost.pc = "request" /\ lost.at = r.at
    BY <1>1, <2>1 DEF ConnFields
  <2> QED
    BY <2>1, <2>2, <2>3 DEF ChargedOne
<1> HIDE DEF paid, unpaid, lost
<1>10. \A resp : /\ RequestOK(Passed(r, ShortCircuited(resp))) /\ RequestOK(Passed(unpaid, ShortCircuited(resp)))
                 /\ RequestOK(Passed(lost, ShortCircuited(resp)))
  BY <1>1, <1>8, <1>9, RefusalIsAnswer, Refusing
<1>11. found # {} => RequestOK(Passed(paid, Continue(req))) /\ RequestOK(Passed(lost, Continue(req)))
  BY <1>1, <1>3, <1>4, <1>6, <1>8, <1>9, Admitting
<1> QED
  BY <1>2, <1>10, <1>11, Zenon DEF Moves

(* On the way back a limit is the only one whose turn it is.               *)
LEMMA OthersOK ==
  ASSUME NEW r, RequestOK(r) PROVE Others(r)
  BY DEF RequestOK, BudgetOK, Others

(* The middlewares that charge nothing on the way back.                    *)
LEMMA BackMoves ==
  ASSUME NEW c \in Conns, RequestOK(conn[c]), ResponseGuard(c) \/ CostTracker(c) \/ PassResponse(c)
  PROVE  Moves(c)
<1> DEFINE r == conn[c]
<1>1. r.pc = "response" /\ Chain[r.at].plugin # "ai-token-limit"
  BY DEF ResponseGuard, CostTracker, PassResponse, Step, Cfg
<1>2. \E resp : Set(c, Back(r, resp))
  BY Zenon DEF ResponseGuard, CostTracker, PassResponse
<1>3. r.at \notin Limits
  BY <1>1 DEF Limits
<1>4. \A resp : RequestOK(Back(r, resp))
  BY <1>1, <1>3, OthersOK, Backing
<1> QED
  BY <1>2, <1>4, Zenon DEF Moves

(* ai-token-limit in the response phase: how much is still to be charged.  *)
LEMMA SettleMoves ==
  ASSUME NEW c \in Conns, RequestOK(conn[c]), TokenSettle(c)
  PROVE  Moves(c)
<1> DEFINE r == conn[c]
           tokens == Tokens(r, r.at)
           new == [r EXCEPT !.pc = "charge", !.left = tokens - 1]
<1>1. /\ r.pc = "response" /\ Chain[r.at].plugin = "ai-token-limit"
      /\ Set(c, IF resolve_profile(Chain[r.at], r.req.ctx) # {} /\ tokens > 1 THEN new ELSE Back(r, The(r.resp)))
  BY DEF TokenSettle, Step, Cfg, Tokens
<1>2. /\ r.at \in Limits /\ r.at \in Nat /\ SameAsker(r.req, Requests[r.name]) /\ r = [f \in ConnFields |-> r[f]]
      /\ r.name \in DOMAIN Requests
  BY <1>1, ChainIsList DEF RequestOK, Form, Limits
<1>3. Kept(r, r.at) /\ Paid(r, r.at, 1)
  BY <1>1, <1>2 DEF RequestOK, BudgetOK, LimitOK, Ahead
<1>4. resolve_profile(Chain[r.at], r.req.ctx) # {}
  <2>1. resolve_profile(Chain[r.at], r.req.ctx) = ProfileFor(r, r.at)
    BY <1>2, SameProfile
  <2> QED
    BY <1>3, <2>1 DEF Kept
<1>5. tokens \in Nat
  <2>1. r.req.ctx["ai.tokens"] \in TokenCounts
    BY DEF RequestOK, BudgetOK, CountsOK
  <2> QED
    BY <2>1, TokensAreNumbers
<1>6. /\ new = [f \in ConnFields |-> new[f]] /\ new.pc = "charge" /\ new.left = tokens - 1
      /\ new.at = r.at /\ new.name = r.name /\ new.req = r.req /\ new.sent = r.sent /\ new.targets = r.targets
      /\ new.charged = r.charged /\ new.lost = r.lost
  BY <1>2 DEF ConnFields
<1> HIDE DEF new, r
<1>7. ASSUME tokens > 1 PROVE RequestOK(new)
  <2>1. RequestOK(r)
    BY DEF r
  <2>2. Form(new)
    BY <1>1, <1>2, <1>6, <2>1 DEF RequestOK, Form, AiStages
  <2>3. TargetsOK(new)
    BY <1>1, <1>6, <2>1, TargetsKept DEF RequestOK, Early
  <2>4. /\ \A q : BillOK(new, q) = BillOK(r, q) /\ Kept(new, q) = Kept(r, q) /\ Tokens(new, q) = Tokens(r, q)
        /\ \A q, n : Paid(new, q, n) = Paid(r, q, n)
    <3>1. new.name = r.name /\ new.charged = r.charged /\ new.lost = r.lost /\ new.req.ctx = r.req.ctx
      BY <1>6
    <3> QED
      BY <3>1, SameBudget, Zenon
  <2>5. CountsOK(new)
    BY <1>1, <1>6, <2>1 DEF RequestOK, BudgetOK, CountsOK, Late, Reported
  <2>6. ASSUME NEW q \in Limits PROVE LimitOK(new, q)
    <3>1. LimitOK(r, q) /\ q \in Nat
      BY <2>1, ChainIsList DEF RequestOK, BudgetOK
    <3>2. CASE q = r.at
      <4>1. Tokens(new, q) = tokens /\ tokens - (tokens - 1) = 1 /\ tokens - 1 \in Nat \ {0}
        BY <1>5, <1>7, <2>4, <3>2
      <4>2. Kept(new, q) /\ Paid(new, q, 1)
        BY <1>3, <2>4, <3>2
      <4>3. new.left \in Nat \ {0} /\ Tokens(new, q) > 1 /\ Paid(new, q, Tokens(new, q) - new.left)
        <5>1. Tokens(new, q) - new.left = 1 /\ new.left \in Nat \ {0} /\ Tokens(new, q) > 1
          BY <1>6, <1>7, <4>1, Zenon
        <5> QED
          BY <4>2, <5>1, Zenon
      <4> HIDE DEF tokens
      <4>4. ~Ahead(new, q) /\ ~(q > new.at) /\ new.pc # "request"
        BY <1>6, <3>1, <3>2 DEF Ahead
      <4> QED
        BY <4>2, <4>3, <4>4, Zenon DEF LimitOK
    <3>3. CASE q # r.at
      BY <1>1, <1>2, <1>6, <2>4, <3>1, <3>3 DEF LimitOK, Ahead, Late
    <3> QED
      BY <3>2, <3>3
  <2> QED
    BY <1>6, <2>1, <2>2, <2>3, <2>4, <2>5, <2>6 DEF RequestOK, BudgetOK
<1>8. ASSUME ~(tokens > 1) PROVE \A resp : RequestOK(Back(r, resp))
  <2>1. AtLeastOne(Tokens(r, r.at)) = 1
    BY <1>8, Zenon DEF AtLeastOne
  <2>2. Paid(r, r.at, AtLeastOne(Tokens(r, r.at)))
    BY <1>3, <2>1, Zenon
  <2>3. Others(r)
    BY OthersOK DEF r
  <2> QED
    BY <1>1, <2>2, <2>3, Backing
<1> HIDE DEF tokens
<1> QED
  BY <1>1, <1>4, <1>7, <1>8, Zenon DEF Moves, r

(* What one charge leaves of the request: a unit more for the limit whose  *)
(* turn it is, or a loss of its own. *)
OneCharge(r, new) ==
  /\ new = [f \in ConnFields |-> new[f]]
  /\ \A f \in ConnFields \ {"charged", "lost", "left"} : new[f] = r[f]
  /\ \/ new.charged = Append(r.charged, LateKey(r, r.at)) /\ new.lost = r.lost
     \/ new.charged = r.charged /\ new.lost = r.lost \cup {Chain[r.at].policy}

(* A charge is nobody else's.                                              *)
LEMMA ChargeOthers ==
  ASSUME NEW r, RequestOK(r), r.pc = "charge", NEW new, OneCharge(r, new)
  PROVE  /\ Others(new) /\ Kept(new, r.at) /\ Tokens(new, r.at) = Tokens(r, r.at)
         /\ new.pc = "charge" /\ new.at = r.at
<1>1. /\ new.pc = r.pc /\ new.at = r.at /\ new.name = r.name /\ new.req = r.req /\ new.sent = r.sent
      /\ new.targets = r.targets /\ new = [f \in ConnFields |-> new[f]]
  BY DEF OneCharge, ConnFields
<1>2. \/ new.charged = Append(r.charged, LateKey(r, r.at)) /\ new.lost = r.lost
      \/ new.charged = r.charged /\ new.lost = r.lost \cup {Chain[r.at].policy}
  BY DEF OneCharge
<1>3. r.at \in Limits /\ IsList(r.charged)
  BY DEF RequestOK, Form
<1>4. /\ IsList(new.charged) /\ \A q \in Limits : BillOK(new, q)
  <2>1. \A q \in Limits : BillOK(r, q)
    BY DEF RequestOK, BudgetOK
  <2>2. CASE new.charged = r.charged
    BY <1>1, <1>3, <2>1, <2>2, SameKeys DEF BillOK
  <2>3. CASE new.charged = Append(r.charged, LateKey(r, r.at))
    <3>1. IsList(new.charged)
      BY <1>3, <2>3, AppendList
    <3> QED
      BY <1>1, <1>3, <2>1, <2>3, <3>1, BillMore
  <2> QED
    BY <1>2, <2>2, <2>3
<1>5. Form(new)
  BY <1>1, <1>4 DEF RequestOK, Form
<1>6. TargetsOK(new)
  BY <1>1, TargetsKept DEF RequestOK, Early
<1>7. \A q : /\ Kept(new, q) = Kept(r, q) /\ Tokens(new, q) = Tokens(r, q)
             /\ Ahead(new, q) = Ahead(r, q)
  BY <1>1 DEF Kept, Tokens, ProfileFor, PartitionOf, Ahead
<1>8. CountsOK(new)
  BY <1>1 DEF RequestOK, BudgetOK, CountsOK, Reported
<1>9. ASSUME NEW q \in Limits, q # r.at PROVE LimitOK(new, q)
  <2>1. Own(new.charged, q) = Own(r.charged, q)
    <3>1. LateKey(r, r.at)[1] # Chain[q].policy
      BY <1>3, <1>9, KeysDiffer
    <3>2. Own(Append(r.charged, LateKey(r, r.at)), q) = Own(r.charged, q)
      BY <1>3, <3>1, Charged
    <3> QED
      BY <1>2, <3>2, Zenon
  <2>2. \A n : Paid(r, q, n) => Paid(new, q, n)
    BY <1>2, <2>1 DEF Paid
  <2>3. LimitOK(r, q)
    BY DEF RequestOK, BudgetOK
  <2> QED
    BY <1>1, <1>7, <1>9, <2>1, <2>2, <2>3 DEF LimitOK
<1>10. Kept(r, r.at)
  BY <1>3 DEF RequestOK, BudgetOK, LimitOK
<1> QED
  BY <1>1, <1>4, <1>5, <1>6, <1>7, <1>8, <1>9, <1>10 DEF Others

(* One token more that was charged is one fewer that is left.              *)
LEMMA OneFewerLeft ==
  ASSUME NEW tokens \in Nat, NEW left \in Nat \ {0}
  PROVE  /\ tokens - (left - 1) = (tokens - left) + 1 /\ (left - 1 # 0 => left - 1 \in Nat \ {0})
         /\ (left - 1 = 0 => (tokens - left) + 1 = tokens)
  OBVIOUS

(* ai-token-limit charges one unit: to the budget that admitted the        *)
(* request, which the context still names unless the partition is empty.   *)
LEMMA ChargeMoves ==
  ASSUME NEW c \in Conns, RequestOK(conn[c]), TokenCharge(c)
  PROVE  Moves(c)
<1> DEFINE r == conn[c]
           q == r.at
           ctx == r.req.ctx
           profile == The(resolve_profile(Chain[q], ctx))
           partition == Or(context_get(ctx, partition_context_key(Chain[q])), partition_from_context_only(Chain[q], ctx))
           key == bucket_key(Chain[q], profile[1], partition)
           paid == [r EXCEPT !.charged = Append(@, key), !.left = @ - 1]
           refused == [r EXCEPT !.lost = @ \cup {Chain[q].policy}, !.left = 0]
           silent == [r EXCEPT !.left = 0, !.lost = @ \cup {Chain[q].policy}]
<1>1. /\ r.pc = "charge"
      /\ \/ Set(c, Back(refused, The(r.resp)))
         \/ Set(c, IF paid.left = 0 THEN Back(paid, The(r.resp)) ELSE paid)
         \/ Set(c, Back(silent, The(r.resp)))
  BY Zenon DEF TokenCharge, Step, Cfg
<1>2. /\ q \in Limits /\ SameAsker(r.req, Requests[r.name]) /\ r = [f \in ConnFields |-> r[f]] /\ IsList(r.charged)
      /\ r.name \in DOMAIN Requests
  BY <1>1 DEF RequestOK, Form
<1>3. /\ Kept(r, q) /\ r.left \in Nat \ {0} /\ Tokens(r, q) > 1 /\ Paid(r, q, Tokens(r, q) - r.left)
  BY <1>1, <1>2 DEF RequestOK, BudgetOK, LimitOK
<1>4. Tokens(r, q) \in Nat
  <2>1. r.req.ctx["ai.tokens"] \in TokenCounts
    BY DEF RequestOK, BudgetOK, CountsOK
  <2> QED
    BY <2>1, TokensAreNumbers
<1>5. key = LateKey(r, q)
  <2>1. resolve_profile(Chain[q], ctx) = ProfileFor(r, q)
    BY <1>2, SameProfile
  <2>2. context_get(ctx, partition_context_key(Chain[q])) = {PartitionOf(r, q)} \ {""}
    BY <1>3, Zenon DEF Kept, Get, context_get
  <2>3. partition = IF EmptyHeader(Chain[q], r) THEN "unknown" ELSE PartitionOf(r, q)
    BY <1>2, <2>2, LateParty DEF partition
  <2> QED
    BY <2>1, <2>3, Zenon DEF LateKey
<1> HIDE DEF key
<1>6. /\ paid = [f \in ConnFields |-> paid[f]] /\ paid.left = r.left - 1
      /\ \A f \in ConnFields \ {"charged", "lost", "left"} : paid[f] = r[f]
      /\ paid.charged = Append(r.charged, key) /\ paid.lost = r.lost
  BY <1>2 DEF ConnFields
<1>7. /\ refused = [f \in ConnFields |-> refused[f]] /\ refused.charged = r.charged
      /\ \A f \in ConnFields \ {"charged", "lost", "left"} : refused[f] = r[f]
      /\ refused.lost = r.lost \cup {Chain[q].policy}
  BY <1>2 DEF ConnFields
<1>8. silent = refused
  BY <1>2 DEF ConnFields
<1> HIDE DEF paid, refused, silent, q, r
<1>9. RequestOK(r)
  BY DEF r
<1>10. OneCharge(r, paid) /\ OneCharge(r, refused)
  BY <1>5, <1>6, <1>7 DEF OneCharge, q
<1>11. /\ Others(paid) /\ Kept(paid, q) /\ Tokens(paid, q) = Tokens(r, q) /\ paid.pc = "charge" /\ paid.at = q
  BY <1>1, <1>9, <1>10, ChargeOthers DEF q
<1>12. Others(refused) /\ refused.pc = "charge" /\ refused.at = q
  BY <1>1, <1>9, <1>10, ChargeOthers DEF q
<1>13. \A resp : RequestOK(Back(refused, resp))
  <2>1. \A n : Paid(refused, q, n)
    BY <1>7 DEF Paid
  <2> QED
    BY <1>12, <2>1, Backing
<1>14. Paid(paid, q, (Tokens(r, q) - r.left) + 1)
  <2>1. key[1] = Chain[q].policy
    BY <1>2, <1>5, KeysDiffer
  <2>2. Cardinality(Own(Append(r.charged, key), q)) = Cardinality(Own(r.charged, q)) + 1
    BY <1>2, <2>1, Charged
  <2>3. Chain[q].policy \notin r.lost => Cardinality(Own(r.charged, q)) = Tokens(r, q) - r.left
    BY <1>3 DEF Paid
  <2> QED
    BY <1>6, <2>2, <2>3, Zenon DEF Paid
<1>15. /\ Tokens(r, q) - (r.left - 1) = (Tokens(r, q) - r.left) + 1
       /\ (r.left - 1 # 0 => r.left - 1 \in Nat \ {0})
       /\ (r.left - 1 = 0 => (Tokens(r, q) - r.left) + 1 = Tokens(r, q))
  BY <1>3, <1>4, OneFewerLeft
<1>16. ASSUME paid.left = 0 PROVE \A resp : RequestOK(Back(paid, resp))
  <2>1. AtLeastOne(Tokens(paid, q)) = Tokens(r, q)
    BY <1>3, <1>11, Zenon DEF AtLeastOne
  <2>2. (Tokens(r, q) - r.left) + 1 = Tokens(r, q)
    BY <1>6, <1>15, <1>16, Zenon
  <2>3. Paid(paid, q, AtLeastOne(Tokens(paid, q)))
    BY <1>14, <2>1, <2>2, Zenon
  <2> QED
    BY <1>11, <2>3, Backing
<1>17. ASSUME paid.left # 0 PROVE RequestOK(paid)
  <2>1. paid.left \in Nat \ {0} /\ Tokens(paid, q) > 1
    BY <1>3, <1>6, <1>11, <1>15, <1>17, Zenon
  <2>2. Tokens(paid, q) - paid.left = (Tokens(r, q) - r.left) + 1
    BY <1>6, <1>11, <1>15, Zenon
  <2>3. Paid(paid, q, Tokens(paid, q) - paid.left)
    BY <1>14, <2>2, Zenon
  <2>4. LimitOK(paid, q)
    <3>1. ~Ahead(paid, q) /\ ~(q > paid.at) /\ paid.pc # "request"
      <4>1. q \in Nat
        BY <1>2, ChainIsList
      <4> QED
        BY <1>11, <4>1 DEF Ahead
    <3> QED
      BY <1>11, <2>1, <2>3, <3>1, Zenon DEF LimitOK
  <2>5. \A p \in Limits : LimitOK(paid, p)
    BY <1>11, <2>4 DEF Others
  <2> QED
    BY <1>11, <2>5 DEF Others, RequestOK, BudgetOK
<1> QED
  BY <1>1, <1>8, <1>13, <1>16, <1>17, Zenon DEF Moves, r

(* A request that has just come in.                                        *)
LEMMA ReceiveMoves ==
  ASSUME NEW c \in Conns, NEW name \in DOMAIN Requests, Receive(c, name)
  PROVE  Moves(c)
<1> DEFINE new == [pc |-> "request", at |-> 1, name |-> name, req |-> Requests[name], sent |-> <<>>, targets |-> <<>>,
                   left |-> 0, charged |-> <<>>, lost |-> {}, resp |-> {}, listed |-> <<>>]
<1>1. Set(c, new)
  BY DEF Receive
<1>2. /\ new = [f \in ConnFields |-> new[f]] /\ new.pc = "request" /\ new.at = 1 /\ new.name = name
      /\ new.req = Requests[name] /\ new.sent = <<>> /\ new.targets = <<>> /\ new.charged = <<>>
  BY DEF ConnFields
<1> HIDE DEF new
<1>3. /\ Requests[name] = [f \in ReqFields |-> Requests[name][f]]
      /\ Requests[name].ctx = [k \in DOMAIN Requests[name].ctx |-> Requests[name].ctx[k]]
      /\ {"ai.policy", "consumer", "ai.tokens"} \subseteq DOMAIN Requests[name].ctx
      /\ Requests[name].ctx["ai.tokens"] = {}
  BY AiRequestAssumption, Zenon DEF ReqFields
<1>4. Form(new)
  <2>1. SameAsker(new.req, Requests[new.name])
    BY <1>2, <1>3 DEF SameAsker
  <2>2. 1 \in 1 .. Len(Chain)
    BY ChainIsList
  <2> QED
    BY <1>2, <2>1, <2>2, EmptyList DEF Form, AiStages
<1>5. TargetsOK(new)
  BY <1>2 DEF TargetsOK, Tried, Early
<1>6. CountsOK(new)
  BY <1>2, <1>3 DEF CountsOK, TokenCounts, Late
<1>7. DOMAIN new.charged = {}
  BY <1>2, EmptyList
<1>8. ASSUME NEW q \in Limits PROVE LimitOK(new, q)
  <2>1. q \in Nat \ {0}
    BY ChainIsList
  <2>2. Own(new.charged, q) = {}
    BY <1>7 DEF Own
  <2>3. ~Ahead(new, q)
    <3>1. ~(q < 1)
      BY <2>1
    <3> QED
      BY <1>2, <3>1 DEF Ahead
  <2>4. new.pc # "charge" /\ new.pc \notin Late
    BY <1>2 DEF Late
  <2> QED
    BY <2>2, <2>3, <2>4, Zenon DEF LimitOK
<1>9. \A q \in Limits : BillOK(new, q)
  BY <1>7 DEF BillOK, Own
<1>10. RequestOK(new)
  BY <1>4, <1>5, <1>6, <1>8, <1>9 DEF RequestOK, BudgetOK
<1> QED
  BY <1>1, <1>10, Zenon DEF Moves

-----------------------------------------------------------------------------
(* Invariance *)

(* Every step is the clock's, or moves one request on.                     *)
LEMMA AiStep == AiInv /\ [AiNext]_aiVars => AiInv'
<1> SUFFICES ASSUME AiInv, [AiNext]_aiVars PROVE AiInv'
  OBVIOUS
<1>1. CASE conn' = conn
  BY <1>1 DEF AiInv
<1>2. ASSUME NEW c \in Conns, Moves(c) PROVE AiInv'
  <2>1. PICK r : conn' = [conn EXCEPT ![c] = r] /\ RequestOK(r)
    BY <1>2 DEF Moves, Set
  <2> QED
    BY <2>1 DEF AiInv
<1>3. ASSUME NEW c \in Conns, conn[c].pc # "idle" PROVE RequestOK(conn[c])
  BY <1>3 DEF AiInv, Idle
<1>4. ASSUME NEW c \in Conns, NEW name \in DOMAIN Requests, Receive(c, name) PROVE AiInv'
  BY <1>2, <1>4, ReceiveMoves
<1>5. ASSUME NEW c \in Conns, PromptGuard(c) \/ PassRequest(c) \/ TokenAdmit(c) PROVE AiInv'
  <2>1. RequestOK(conn[c])
    BY <1>3, <1>5 DEF PromptGuard, PassRequest, TokenAdmit, Step
  <2> QED
    BY <1>2, <1>5, <2>1, GuardMoves, AdmitMoves
<1>6. ASSUME NEW c \in Conns, dispatch(c) \/ models_handle(c) PROVE AiInv'
  <2>1. RequestOK(conn[c])
    BY <1>3, <1>6 DEF dispatch, models_handle, Step
  <2> QED
    BY <1>2, <1>6, <2>1, ProxyMoves
<1>7. ASSUME NEW c \in Conns, conn[c].pc \in {"call", "models"}, NEW a \in Answers[conn[c].name],
             Call(c, a) \/ fetch_provider_models(c, a)
      PROVE  AiInv'
  <2>1. RequestOK(conn[c])
    BY <1>3, <1>7
  <2>2. conn[c].name \in DOMAIN Requests
    BY <2>1 DEF RequestOK, Form
  <2>3. a.usage \subseteq Nat \X Nat /\ \A x, y \in a.usage : x = y
    BY <2>2, AiRequestAssumption, Zenon
  <2>4. CASE Call(c, a)
    BY <1>2, <2>1, <2>3, <2>4, CallMoves
  <2>5. CASE fetch_provider_models(c, a)
    BY <1>2, <2>1, <2>5, ProxyMoves
  <2> QED
    BY <1>7, <2>4, <2>5
<1>8. ASSUME NEW c \in Conns, ResponseGuard(c) \/ CostTracker(c) \/ PassResponse(c) \/ TokenSettle(c) \/ TokenCharge(c)
      PROVE  AiInv'
  <2>1. RequestOK(conn[c])
    BY <1>3, <1>8 DEF ResponseGuard, CostTracker, PassResponse, TokenSettle, TokenCharge, Step
  <2>2. CASE ResponseGuard(c) \/ CostTracker(c) \/ PassResponse(c)
    BY <1>2, <2>1, <2>2, BackMoves
  <2>3. CASE TokenSettle(c)
    BY <1>2, <2>1, <2>3, SettleMoves
  <2>4. CASE TokenCharge(c)
    BY <1>2, <2>1, <2>4, ChargeMoves
  <2> QED
    BY <1>8, <2>2, <2>3, <2>4
<1>9. AiNext => AiInv'
  <2>1. CASE Tick \/ Finished
    BY <1>1, <2>1 DEF Tick, Finished, aiVars
  <2> QED
    BY <1>4, <1>5, <1>6, <1>7, <1>8, <2>1 DEF AiNext
<1> QED
  BY <1>1, <1>9 DEF aiVars

(* AiInv is inductive: every request on a connection is in order, whatever *)
(* the others do to the budgets meanwhile (plugins/ai-token-limit,         *)
(* plugins/ai-proxy).                                                      *)
THEOREM AiInvHolds == AiSpec => []AiInv
<1>1. AiInit => AiInv
  BY DEF AiInit, AiInv
<1> QED
  BY <1>1, AiStep, PTL DEF AiSpec

(* BudgetsAgree follows from the invariant: a charge bears the name of the *)
(* limit that made it, and a request that is done has passed them all.     *)
LEMMA BudgetsOfInv == AiInv => BudgetsAgree
<1> SUFFICES ASSUME AiInv, NEW r \in Live, NEW cfg \in PluginCfgs("ai-token-limit")
             PROVE  LET own == {n \in DOMAIN r.charged : r.charged[n][1] = cfg.policy}
                        due == IF Reported(r) = {} THEN 0 ELSE Counted(cfg, The(Reported(r)))
                        admitting == BudgetOf(cfg, r, extract_partition(cfg, Requests[r.name]))
                        settling == IF EmptyHeader(cfg, r) THEN BudgetOf(cfg, r, "unknown") ELSE admitting
                    IN /\ \A n \in own : r.charged[n] \in {admitting, settling}
                       /\ \A m, n \in own : m < n => r.charged[n] = settling
                       /\ r.pc = "done" /\ own # {} /\ cfg.policy \notin r.lost /\ r.sent # <<>>
                            => Cardinality(own) = IF due > 1 THEN due ELSE 1
  BY Zenon DEF BudgetsAgree
<1>1. RequestOK(r)
  BY DEF Live, AiInv, Idle
<1>2. PICK q \in Limits : cfg = Chain[q]
  BY DEF PluginCfgs, Limits
<1> DEFINE own == {n \in DOMAIN r.charged : r.charged[n][1] = cfg.policy}
           due == IF Reported(r) = {} THEN 0 ELSE Counted(cfg, The(Reported(r)))
           admitting == BudgetOf(cfg, r, extract_partition(cfg, Requests[r.name]))
           settling == IF EmptyHeader(cfg, r) THEN BudgetOf(cfg, r, "unknown") ELSE admitting
<1>3. own = Own(r.charged, q)
  BY <1>2, Zenon DEF Own
<1>4. /\ \A n \in own : r.charged[n] \in {admitting, settling}
      /\ \A m, n \in own : m < n => r.charged[n] = settling
  <2>1. admitting = BudgetKey(r, q) /\ settling = LateKey(r, q)
    BY <1>2, Zenon DEF BudgetKey, LateKey, BudgetOf, ProfileFor, PartitionOf
  <2>2. BillOK(r, q)
    BY <1>1 DEF RequestOK, BudgetOK
  <2> HIDE DEF admitting, settling, own
  <2> QED
    BY <1>3, <2>1, <2>2 DEF BillOK
<1>5. ASSUME r.pc = "done", cfg.policy \notin r.lost, r.sent # <<>>
      PROVE  Cardinality(own) = IF due > 1 THEN due ELSE 1
  <2>1. r.at = 0 /\ q > 0
    BY <1>1, <1>5, ChainIsList DEF RequestOK, Form
  <2>2. LimitOK(r, q) /\ CountsOK(r)
    BY <1>1 DEF RequestOK, BudgetOK
  <2>3. Paid(r, q, AtLeastOne(Tokens(r, q))) /\ r.req.ctx["ai.tokens"] = Reported(r)
    BY <1>5, <2>1, <2>2 DEF LimitOK, CountsOK, Late
  <2>4. Cardinality(own) = AtLeastOne(Tokens(r, q))
    BY <1>2, <1>3, <1>5, <2>3, Zenon DEF Paid
  <2>5. Tokens(r, q) = due
    <3>1. CASE Reported(r) = {}
      <4>1. parse_token_count(r.req.ctx, 1) = 0 /\ parse_token_count(r.req.ctx, 2) = 0
        BY <2>3, <3>1 DEF parse_token_count
      <4> QED
        BY <3>1, <4>1 DEF Tokens, tokens_from_context
    <3>2. CASE Reported(r) # {}
      <4>1. \A n : parse_token_count(r.req.ctx, n) = The(Reported(r))[n]
        BY <2>3, <3>2 DEF parse_token_count
      <4> QED
        BY <1>2, <3>2, <4>1 DEF Tokens, tokens_from_context, Counted
    <3> QED
      BY <3>1, <3>2
  <2> QED
    BY <2>4, <2>5, Zenon DEF AtLeastOne
<1> QED
  BY <1>4, <1>5, Zenon

(* Every instance of the token limit charges the budget that admitted the  *)
(* request and no other, except after a header that the client sent empty  *)
(* (the rest then goes to the budget of the requests without the header),  *)
(* and, unless a charge was refused or lost, exactly what the provider     *)
(* reported: for any chain, providers and interleaving.                    *)
THEOREM BudgetsStayTrue == AiSpec => []BudgetsAgree
  BY AiInvHolds, BudgetsOfInv, PTL

(* FallbackIsJustified is what TargetsOK says.                             *)
LEMMA FallbackOfInv == AiInv => FallbackIsJustified
<1> SUFFICES ASSUME AiInv, NEW r \in Live, r.sent # <<>>
             PROVE  /\ Permits(r.sent[1].to, ModelOf(r))
                    /\ \A n \in 1 .. Len(r.sent) - 1 : Failed(r.sent[n])
                    /\ r.pc # "call" /\ Failed(r.sent[Len(r.sent)]) => Len(r.sent) = 1 + Len(Config.fallback)
  BY Zenon DEF FallbackIsJustified, ModelOf, Failed
<1>1. RequestOK(r)
  BY DEF Live, AiInv, Idle
<1>2. CASE r.pc # "call"
  BY <1>1, <1>2 DEF RequestOK, TargetsOK, Tried
<1>3. CASE r.pc = "call"
  <2>1. Trying(r) /\ IsList(r.sent)
    BY <1>1, <1>3 DEF RequestOK, TargetsOK, Form
  <2>2. DOMAIN r.sent = 1 .. Len(r.sent) /\ Len(r.sent) \in Nat
    BY <2>1, AppendList
  <2>3. \A n \in 1 .. Len(r.sent) - 1 : n \in DOMAIN r.sent
    BY <2>2
  <2> QED
    BY <1>3, <2>1, <2>3 DEF Trying
<1> QED
  BY <1>2, <1>3

(* A request reaches the target it resolves to only if that target's       *)
(* catalog permits the model, and another one only after every earlier one *)
(* failed; a failure is the answer only if there was no target left        *)
(* (dispatch_with_handler, plugins/ai-proxy/src/lib.rs).                   *)
THEOREM FallbackStaysJustified == AiSpec => []FallbackIsJustified
  BY AiInvHolds, FallbackOfInv, PTL

=============================================================================
