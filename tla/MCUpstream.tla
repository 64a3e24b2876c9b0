----------------------------- MODULE MCUpstream -----------------------------
(* An instance of Upstream for TLC: one scenario per service, each with    *)
(* the chain, the requests and the faults it is about.                     *)
EXTENDS Upstream

CONSTANTS r1, r2, t1, t2, k1, k2, burst, slow

MCRequests == {r1, r2}
MCThreads == {t1, t2}
MCKeys == {k1, k2}
MCPolicies == {burst, slow}
MCKey == burst :> k1 @@ slow :> k2
MCQuota == burst :> 2 @@ slow :> 1
MCWindow == burst :> 4 @@ slow :> 2
MCSymmetry == Permutations(MCThreads) \cup Permutations(MCRequests)

Json == Object([m \in {"p"} |-> [string |-> "x"]])
Text == [kind |-> "text"]

Get == [method |-> "GET", path |-> <<"/", "x">>, query |-> <<>>, headers |-> <<>>, body |-> {},
        path_params |-> <<>>, client_ip |-> "ip"]
French == [Get EXCEPT !.headers = "lang" :> "fr"]
Piped == [Get EXCEPT !.path = <<"/", "x", "|", "lang", "=", "fr">>]
Queried == [Get EXCEPT !.query = << <<"q", "x">> >>]
Post == [Get EXCEPT !.method = "POST", !.body = {Json},
                    !.headers = "lang" :> "fr" @@ "te" :> "x" @@ "host" :> "gw"]

Url(host) == [scheme |-> "https", host |-> host, path |-> <<"/">>, query |-> <<>>]
Ok == [status |-> 200, headers |-> <<>>, body |-> {Text}]
Missing == [Ok EXCEPT !.status = 404]
Secret == [Ok EXCEPT !.headers = "cache-control" :> "private"]
Big == [Ok EXCEPT !.body = {[kind |-> "oversized"]}]

Base ==
  [limiter |-> FALSE, chain |-> <<>>, requests |-> {Get}, racing |-> 1, rounds |-> 1, time |-> 0,
   dispatcher |-> [plugin |-> "http-upstream", config |-> [url |-> Url("h"), path |-> {}]],
   dns |-> [h \in {"h", "log", "i", "b1", "b2", "k.s3.eu", "store"} |->
              CASE h = "i" -> {"loopback"} [] h = "b2" -> {"public", "private"} [] OTHER -> {"public"}],
   rebind |-> <<>>, breakers |-> <<>>, allow_internal |-> FALSE, allow_plaintext |-> FALSE,
   advertised |-> {"b1"}, answers |-> {Ok}, failures |-> {"timeout"}, day |-> 19782, ops |-> {}, steps |-> 0,
   pool |-> [secrets |-> "mine" :> "s1" @@ "theirs" :> "s2", refs |-> "probe" :> {"mine"}]]

None == [remove |-> {}, rename |-> <<>>, set |-> <<>>, add |-> <<>>]
From(where, name) == [from |-> where, name |-> name]

Rewrite ==
  [plugin |-> "request-transformer",
   config |->
     [headers |-> [None EXCEPT !.remove = {"te"}, !.rename = << <<"lang", "accept">> >>,
                               !.set = << <<"host", From("literal", "q")>> >>,
                               !.add = << <<"x-lang", From("header", "lang")>>, <<"x-ip", From("client_ip", "")>> >>],
      query |-> [None EXCEPT !.remove = {"k"}, !.rename = << <<"q", "p">> >>,
                             !.add = << <<"lang", From("header", "lang")>>, <<"x", From("query", "q")>> >>],
      path |-> [strip_prefix |-> {<<"/", "x">>}, add_prefix |-> {<<"p">>},
                replace |-> {[pattern |-> "p", replacement |-> "q", valid |-> TRUE]}],
      body |-> [None EXCEPT !.remove = {"k"}, !.rename = << <<"p", "q">> >>,
                            !.add = << <<"lang", From("header", "lang")>>, <<"x", From("context", "y")>> >>]]]

Reshape ==
  [plugin |-> "response-transformer",
   config |-> [status |-> 404 :> 200, headers |-> [None EXCEPT !.add = << <<"x", From("literal", "x")>> >>],
               body |-> None]]

Observer == [plugin |-> "observability", config |-> <<>>]
Logger == [plugin |-> "http-log", config |-> [url |-> Url("log")]]
Caching == [plugin |-> "cache",
            config |-> [ttl |-> 2, vary |-> <<"lang">>, methods |-> {"GET"}, cacheable_status |-> {200, 404}]]

Bucket == [endpoint |-> {}, force_path_style |-> FALSE, region |-> "eu", bucket |-> {"k"}, bucket_param |-> "b",
           key_param |-> "k", fallback_key |-> {}, session_token |-> {}, secret |-> "s"]
Stored == [Get EXCEPT !.path_params = "k" :> "a b", !.query = << <<"q", "a%20b">>, <<"k", "7">> >>]
KeyOf(k) == [Get EXCEPT !.path_params = "k" :> k]
S3(config) == [plugin |-> "s3", config |-> config]

Broker(plugin, brokers) ==
  [plugin |-> plugin,
   config |-> [url |-> brokers, brokers |-> brokers, tls |-> FALSE, topic |-> "t", key |-> {From("header", "lang")},
               headers_from_request |-> {"lang"}, ack |-> {}]]

Socket == [plugin |-> "ws-upstream", config |-> [url |-> Url("h"), path |-> {<<"/", "id", "/", "id">>}]]
Upgrade == [Get EXCEPT !.headers = "upgrade" :> "websocket", !.path_params = "id" :> "7"]
Probe == [plugin |-> "probe", config |-> [url |-> Url("h")]]

TheSetup ==
  "limiter" :> [Base EXCEPT !.limiter = TRUE]
  @@ "transform" :> [Base EXCEPT !.chain = <<Rewrite, Reshape, Observer>>,
                        !.requests = {Post, Queried, [Queried EXCEPT !.query = << <<"q", "a%20b">>, <<"k", "7">> >>],
                                      [Post EXCEPT !.body = {Text}]}, !.answers = {Ok, Missing, Big}]
  @@ "egress" :> [Base EXCEPT !.rebind = "h" :> {"public", "link_local"}, !.racing = 2, !.rounds = 2,
                     !.failures = {"timeout", "connect", "reset"}, !.time = 1]
  @@ "rebound" :> [Base EXCEPT !.rebind = "h" :> {"private"}, !.chain = <<Observer>>]
  @@ "internal" :> [Base EXCEPT !.dispatcher.config.url.host = "i"]
  @@ "opted" :> [Base EXCEPT !.allow_internal = TRUE, !.dispatcher.config.url.host = "i"]
  @@ "plaintext" :> [Base EXCEPT !.dispatcher.config.url.scheme = "http"]
  @@ "breaker" :> [Base EXCEPT !.breakers = "h" :> [failure_threshold |-> 2, failure_window |-> 1,
                                                    reset_timeout |-> 1, success_threshold |-> 1],
                      !.racing = 2, !.rounds = 4, !.time = 4]
  @@ "cache" :> [Base EXCEPT !.chain = <<Caching>>, !.requests = {Get, French}, !.rounds = 3,
                    !.racing = 2, !.time = 3, !.answers = {Ok, Secret}, !.failures = {},
                    !.dispatcher = [plugin |-> "fire-and-forget",
                                    config |-> [url |-> Url("h"), status |-> 200, headers |-> <<>>, body |-> {Text}]]]
  @@ "keys" :> [Base EXCEPT !.chain = <<[Caching EXCEPT !.config.vary = <<"lang", "te">>]>>, !.rounds = 2,
                   !.requests = {Get, French, Piped, [French EXCEPT !.headers = "lang" :> "fr|te=x"],
                                 [French EXCEPT !.headers = "lang" :> "fr" @@ "te" :> "x"]}]
  @@ "caching" :> [Base EXCEPT !.chain = <<Observer, Caching>>, !.requests = {Get, Post}, !.rounds = 2,
                      !.answers = {Ok, Secret, Missing}]
  @@ "log" :> [Base EXCEPT !.chain = <<Logger, Reshape>>, !.time = 3, !.answers = {Ok, Missing},
                  !.dispatcher = [plugin |-> "lambda", config |-> [url |-> Url("h"), pass_through_headers |-> TRUE]],
                  !.requests = {Post}]
  @@ "mock" :> [Base EXCEPT !.dispatcher = [plugin |-> "mock",
                   config |-> [status |-> 200, headers |-> <<>>, template |-> <<From("client_ip", "")>>]]]
  @@ "s3" :> [Base EXCEPT !.dispatcher = S3(Bucket), !.requests = {Stored, Get, KeyOf("a%20b"), KeyOf("a?b"), [Stored EXCEPT !.method = "PUT", !.body = {Text}]}]
  @@ "spa" :> [Base EXCEPT !.dispatcher = S3([Bucket EXCEPT !.fallback_key = {"x"}, !.session_token = {"tok"},
                    !.endpoint = {[scheme |-> "https", host |-> "store"]}]),
                  !.requests = {Stored}, !.answers = {Ok, Missing}, !.day = 11016]
  @@ "century" :> [Base EXCEPT !.dispatcher = S3(Bucket), !.requests = {Stored}, !.day = 47540]
  @@ "kafka" :> [Base EXCEPT !.dispatcher = Broker("kafka", {"b1"}), !.requests = {Post}, !.racing = 2,
                    !.rounds = 3, !.time = 2, !.rebind = "b1" :> {"private"}]
  @@ "brokers" :> [Base EXCEPT !.dispatcher = Broker("kafka", {"b1", "b2"}), !.requests = {Get}, !.rounds = 2,
                      !.advertised = {"b2", "i"}]
  @@ "nats" :> [Base EXCEPT !.dispatcher = Broker("nats", {"b1"}), !.rounds = 2, !.rebind = "b1" :> {"private"}]
  @@ "nats_tls" :> [Base EXCEPT !.dispatcher = [Broker("nats", {"b1"}) EXCEPT !.config.tls = TRUE],
                       !.rebind = "b1" :> {"private"}]
  @@ "socket" :> [Base EXCEPT !.dispatcher = Socket, !.chain = <<Reshape>>, !.requests = {Upgrade, Get},
                     !.rebind = "h" :> {"private", "public"}]
  @@ "probe_calls" :> [Base EXCEPT !.dispatcher = Probe, !.ops = {"http", "upgrade"}, !.steps = 3]
  @@ "probe_stores" :> [Base EXCEPT !.dispatcher = Probe, !.chain = <<Caching>>, !.ops = {"secret", "uuid", "cache"},
                           !.steps = 3, !.racing = 2, !.rounds = 2]

MCScenarios == DOMAIN TheSetup
MCSetup == TheSetup

=============================================================================
