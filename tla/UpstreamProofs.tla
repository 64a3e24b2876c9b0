--------------------------- MODULE UpstreamProofs ---------------------------
(***************************************************************************)
(* Proofs about RateLimiter and about Upstream, which composes it with the *)
(* other services of the host: for any number of threads, keys, policies,  *)
(* scenarios and requests, any quotas, windows, tables and clocks.         *)
(*                                                                         *)
(* The first part is about the limiter alone.  The composition runs it as  *)
(* it is, so that what is shown of it there holds in the host too.         *)
(* BreakerInv ties the counter of a closed breaker to the end of its       *)
(* history; EgressInv says of a connection that waits between lookup and   *)
(* connect that its addresses have passed the filter; CallsInv says what   *)
(* the host holds for the plugin of a request at each of its steps.        *)
(***************************************************************************)
EXTENDS Upstream, FiniteSetTheorems, SequenceTheorems, WellFoundedInduction, TLAPS

(* A log ts of the grants g of a window w at time `at`: ts is a suffix of  *)
(* g, what is missing is out of the window, and nothing is in the future.  *)
Log(ts, g, w, at) ==
  /\ Len(ts) <= Len(g)
  /\ \A i \in 1 .. Len(ts) : ts[i] = g[Len(g) - Len(ts) + i]
  /\ \A i \in 1 .. Len(g) - Len(ts) : g[i] + w <= at
  /\ \A i \in 1 .. Len(g) : g[i] <= at

Spaced(g, q, w) ==
  \A i \in 1 .. Len(g) : i + q <= Len(g) => g[i] + w <= g[i + q]

LogInv ==
  \A p \in Policies : Sound(p) => Log(windows[Key[p]], granted[p], Window[p], now)

(* The clock of a call is not ahead. *)
ClockInv == \A t \in Threads : call[t].step = "cleanup" => call[t].at <= now

IInv == TypeOK /\ ClockInv /\ LogInv /\ QuotaHolds

-----------------------------------------------------------------------------
(* What the operations on the log do to it *)

(* A log whose entries are all out of the window may be forgotten.         *)
LEMMA DropAll ==
  ASSUME NEW ts \in Seq(Nat), NEW g \in Seq(Nat), NEW w \in Nat, NEW at \in Nat,
         Log(ts, g, w, at), \A i \in 1 .. Len(ts) : ts[i] + w <= at
  PROVE  Log(<<>>, g, w, at)
<1>1. Len(<<>>) = 0
  OBVIOUS
<1>2. Len(ts) \in Nat /\ Len(g) \in Nat
  BY LenProperties
<1>3. ASSUME NEW i \in 1 .. Len(g) PROVE g[i] + w <= at
  <2>1. CASE i <= Len(g) - Len(ts)
    BY <2>1, <1>2 DEF Log
  <2>2. CASE i > Len(g) - Len(ts)
    <3>1. i - (Len(g) - Len(ts)) \in 1 .. Len(ts)
      BY <2>2, <1>2
    <3>2. g[i] = ts[i - (Len(g) - Len(ts))]
      BY <3>1, <1>2 DEF Log
    <3> QED
      BY <3>1, <3>2
  <2> QED
    BY <2>1, <2>2, <1>2
<1> QED
  BY <1>1, <1>2, <1>3 DEF Log

(* Dropping the leading entries that are out of the window keeps a log.    *)
LEMMA DropExpired ==
  ASSUME NEW ts \in Seq(Nat), NEW g \in Seq(Nat), NEW w \in Nat \ {0}, NEW at \in Nat,
         Log(ts, g, w, at), NEW d \in Expired(ts, at, w)
  PROVE  /\ SubSeq(ts, d + 1, Len(ts)) \in Seq(Nat)
         /\ Len(SubSeq(ts, d + 1, Len(ts))) = Len(ts) - d
         /\ Log(SubSeq(ts, d + 1, Len(ts)), g, w, at)
<1> DEFINE rest == SubSeq(ts, d + 1, Len(ts))
<1>1. Len(ts) \in Nat /\ Len(g) \in Nat /\ d \in 0 .. Len(ts)
  BY LenProperties DEF Expired
<1>2. /\ rest \in Seq(Nat) /\ Len(rest) = Len(ts) - d
      /\ \A i \in 1 .. Len(rest) : rest[i] = ts[d + i]
  <2>1. \A i \in d + 1 .. Len(ts) : ts[i] \in Nat
    BY <1>1, ElementOfSeq
  <2> QED
    BY <1>1, <2>1, SubSeqProperties
<1>3. \A i \in 1 .. d : ts[i] + w <= at
  BY <1>1, ElementOfSeq DEF Expired, Since
<1> HIDE DEF rest
<1>4. ASSUME NEW i \in 1 .. Len(g) - Len(rest) PROVE g[i] + w <= at
  <2>1. CASE i <= Len(g) - Len(ts)
    BY <2>1, <1>1, <1>2 DEF Log
  <2>2. CASE i > Len(g) - Len(ts)
    <3>1. i - (Len(g) - Len(ts)) \in 1 .. d
      BY <2>2, <1>1, <1>2
    <3>2. g[i] = ts[i - (Len(g) - Len(ts))]
      BY <3>1, <1>1 DEF Log
    <3> QED
      BY <3>1, <3>2, <1>3
  <2> QED
    BY <2>1, <2>2, <1>1, <1>2
<1>5. ASSUME NEW i \in 1 .. Len(rest) PROVE rest[i] = g[Len(g) - Len(rest) + i]
  <2>1. Len(rest) = Len(ts) - d
    BY <1>2
  <2>2. d + i \in 1 .. Len(ts)
    BY <1>1, <2>1
  <2>3. ts[d + i] = g[Len(g) - Len(ts) + (d + i)]
    BY <2>2 DEF Log
  <2>4. Len(g) - Len(ts) + (d + i) = Len(g) - Len(rest) + i
    BY <1>1, <2>1
  <2> QED
    BY <2>3, <2>4, <1>2
<1>6. Len(rest) <= Len(g)
  BY <1>1, <1>2 DEF Log
<1>7. Log(rest, g, w, at)
  BY <1>4, <1>5, <1>6 DEF Log
<1> QED
  BY <1>2, <1>7 DEF rest

(* A grant made now goes to the end of the log and of the grants alike.    *)
LEMMA RecordGrant ==
  ASSUME NEW ts \in Seq(Nat), NEW g \in Seq(Nat), NEW w \in Nat, NEW at \in Nat,
         Log(ts, g, w, at)
  PROVE  /\ Append(ts, at) \in Seq(Nat) /\ Append(g, at) \in Seq(Nat)
         /\ Log(Append(ts, at), Append(g, at), w, at)
<1> DEFINE t2 == Append(ts, at)
           g2 == Append(g, at)
<1>1. Len(ts) \in Nat /\ Len(g) \in Nat /\ Len(ts) <= Len(g)
  BY LenProperties DEF Log
<1>2. /\ t2 \in Seq(Nat) /\ Len(t2) = Len(ts) + 1 /\ t2[Len(ts) + 1] = at
      /\ \A i \in 1 .. Len(ts) : t2[i] = ts[i]
  BY AppendProperties
<1>3. /\ g2 \in Seq(Nat) /\ Len(g2) = Len(g) + 1 /\ g2[Len(g) + 1] = at
      /\ \A i \in 1 .. Len(g) : g2[i] = g[i]
  BY AppendProperties
<1> HIDE DEF t2, g2
<1>4. ASSUME NEW i \in 1 .. Len(t2) PROVE t2[i] = g2[Len(g2) - Len(t2) + i]
  <2>1. CASE i = Len(ts) + 1
    BY <2>1, <1>1, <1>2, <1>3
  <2>2. CASE i \in 1 .. Len(ts)
    <3>1. Len(g) - Len(ts) + i \in 1 .. Len(g) /\ Len(g2) - Len(t2) + i = Len(g) - Len(ts) + i
      BY <2>2, <1>1, <1>2, <1>3
    <3> QED
      BY <2>2, <3>1, <1>2, <1>3 DEF Log
  <2> QED
    BY <2>1, <2>2, <1>1, <1>2
<1>5. \A i \in 1 .. Len(g2) - Len(t2) : g2[i] + w <= at
  <2>1. Len(g2) - Len(t2) = Len(g) - Len(ts)
    BY <1>1, <1>2, <1>3
  <2>2. ASSUME NEW i \in 1 .. Len(g) - Len(ts) PROVE g2[i] + w <= at
    <3>1. i \in 1 .. Len(g)
      BY <1>1
    <3>2. g[i] + w <= at
      BY DEF Log
    <3> QED
      BY <3>1, <3>2, <1>3
  <2> QED
    BY <2>1, <2>2
<1>6. ASSUME NEW i \in 1 .. Len(g2) PROVE g2[i] <= at
  <2>1. CASE i = Len(g) + 1
    BY <2>1, <1>3
  <2>2. CASE i \in 1 .. Len(g)
    <3>1. g[i] <= at
      BY <2>2 DEF Log
    <3> QED
      BY <2>2, <3>1, <1>3
  <2> QED
    BY <2>1, <2>2, <1>1, <1>3
<1>7. Log(t2, g2, w, at)
  BY <1>1, <1>2, <1>3, <1>4, <1>5, <1>6 DEF Log
<1> QED
  BY <1>2, <1>3, <1>7 DEF t2, g2

(* The arithmetic behind RecordSpaced.                                     *)
LEMMA AtMostNext ==
  ASSUME NEW a \in Nat, NEW n \in Nat, a <= n + 1
  PROVE  a = n + 1 \/ a <= n
OBVIOUS

(* With room in the window, the grant quota places back is out of it.      *)
LEMMA RecordSpaced ==
  ASSUME NEW ts \in Seq(Nat), NEW g \in Seq(Nat), NEW w \in Nat, NEW at \in Nat,
         NEW q \in Nat \ {0}, Log(ts, g, w, at), Len(ts) < q, Spaced(g, q, w)
  PROVE  Spaced(Append(g, at), q, w)
<1> DEFINE g2 == Append(g, at)
<1>1. Len(ts) \in Nat /\ Len(g) \in Nat
  BY LenProperties
<1>2. /\ Len(g2) = Len(g) + 1 /\ g2[Len(g) + 1] = at
      /\ \A i \in 1 .. Len(g) : g2[i] = g[i]
  BY AppendProperties
<1> HIDE DEF g2
<1>3. ASSUME NEW i \in 1 .. Len(g) + 1, i + q <= Len(g) + 1
      PROVE  g2[i] + w <= g2[i + q]
  <2>1. CASE i + q = Len(g) + 1
    <3>1. i \in 1 .. Len(g) - Len(ts) /\ i \in 1 .. Len(g)
      BY <2>1, <1>1
    <3>2. g[i] + w <= at
      BY <3>1 DEF Log
    <3>3. g2[i] = g[i] /\ g2[i + q] = at
      BY <2>1, <3>1, <1>2
    <3> QED
      BY <3>2, <3>3
  <2>2. CASE i + q <= Len(g)
    <3>1. i \in 1 .. Len(g) /\ i + q \in 1 .. Len(g)
      BY <2>2, <1>1
    <3>2. g[i] + w <= g[i + q]
      BY <2>2, <3>1 DEF Spaced
    <3>3. g2[i] = g[i] /\ g2[i + q] = g[i + q]
      BY <3>1, <1>2
    <3> QED
      BY <3>2, <3>3
  <2>3. i + q \in Nat
    BY <1>1
  <2>4. i + q = Len(g) + 1 \/ i + q <= Len(g)
    BY <1>1, <1>3, <2>3, AtMostNext
  <2> QED
    BY <2>1, <2>2, <2>4
<1>4. Spaced(g2, q, w)
  BY <1>2, <1>3 DEF Spaced
<1> QED
  BY <1>4 DEF g2

(* A log at one time is a log at every later time.                         *)
LEMMA Later ==
  ASSUME NEW ts \in Seq(Nat), NEW g \in Seq(Nat), NEW w \in Nat, NEW at \in Nat,
         NEW later \in Nat, at <= later, Log(ts, g, w, at)
  PROVE  Log(ts, g, w, later)
<1>1. \A i \in 1 .. Len(g) : g[i] \in Nat
  BY ElementOfSeq
<1>2. Len(ts) \in Nat /\ Len(g) \in Nat
  BY LenProperties
<1> QED
  BY SMTT(60), <1>1, <1>2 DEF Log

(* Pruning at a time that is not ahead removes only what is out of the     *)
(* window of a sound policy.                                               *)
LEMMA PruneKeepsLog ==
  ASSUME NEW table \in [Keys -> Seq(Nat)], NEW k \in Keys, NEW g \in Seq(Nat),
         NEW w \in Nat, w <= cleanup_threshold, NEW at \in Nat, NEW later \in Nat,
         at <= later, Log(table[k], g, w, later)
  PROVE  Log(Prune(table, at)[k], g, w, later)
<1>1. CASE \E i \in 1 .. Len(table[k]) : Since(at, table[k][i]) < cleanup_threshold
  BY <1>1 DEF Prune
<1>2. CASE ~ \E i \in 1 .. Len(table[k]) : Since(at, table[k][i]) < cleanup_threshold
  <2>1. Prune(table, at)[k] = <<>>
    BY <1>2 DEF Prune
  <2>2. \A i \in 1 .. Len(table[k]) : table[k][i] \in Nat
    BY ElementOfSeq
  <2>3. ASSUME NEW i \in 1 .. Len(table[k]) PROVE table[k][i] + w <= later
    <3>1. Since(at, table[k][i]) \in Nat /\ Since(at, table[k][i]) >= cleanup_threshold
      BY SMTT(60), <1>2, <2>2, LimiterAssumption DEF Since
    <3>2. table[k][i] + cleanup_threshold <= at
      BY <3>1, <2>2, LimiterAssumption DEF Since
    <3> QED
      BY <3>2, <2>2, LimiterAssumption
  <2> QED
    BY <2>1, <2>3, DropAll
<1> QED
  BY <1>1, <1>2

(* Pruning a sequence of times leaves a sequence of times.                 *)
LEMMA PruneTypes ==
  ASSUME NEW table \in [Keys -> Seq(Nat)], NEW at
  PROVE  Prune(table, at) \in [Keys -> Seq(Nat)]
BY DEF Prune

(* What a check of policy q sees is a log of every sound policy's grants.  *)
LEMMA TableKeepsLog ==
  ASSUME IInv, NEW q \in Policies
  PROVE  /\ Table(q) \in [Keys -> Seq(Nat)]
         /\ \A p \in Policies :
              Sound(p) => Log(Table(q)[Key[p]], granted[p], Window[p], now)
<1>0. windows \in [Keys -> Seq(Nat)] /\ now \in Nat
  BY DEF IInv, TypeOK
<1>1. CASE ~Crowded(q)
  BY <1>0, <1>1 DEF Table, IInv, LogInv
<1>2. CASE Crowded(q)
  <2>1. Table(q) = Prune(windows, now)
    BY <1>2 DEF Table
  <2>2. Table(q) \in [Keys -> Seq(Nat)]
    BY <1>0, <2>1, PruneTypes
  <2>3. ASSUME NEW p \in Policies, Sound(p)
        PROVE  Log(Table(q)[Key[p]], granted[p], Window[p], now)
    <3>1. Key[p] \in Keys /\ Window[p] \in Nat
      BY PolicyAssumption
    <3>2. granted[p] \in Seq(Nat) /\ now <= now
      BY <1>0 DEF IInv, TypeOK
    <3>3. Window[p] <= cleanup_threshold
      BY <2>3 DEF Sound
    <3>4. Log(windows[Key[p]], granted[p], Window[p], now)
      BY <2>3 DEF IInv, LogInv
    <3> QED
      BY <1>0, <2>1, <3>1, <3>2, <3>3, <3>4, PruneKeepsLog
  <2> QED
    BY <2>2, <2>3
<1> QED
  BY <1>1, <1>2

-----------------------------------------------------------------------------
(* The invariant *)

(* The empty table satisfies the invariant.                                *)
LEMMA InitInv == Init => IInv
<1> SUFFICES ASSUME Init PROVE IInv
  OBVIOUS
<1>1. TypeOK
  BY DEF Init, TypeOK, Calls, Idle
<1>2. ClockInv
  BY DEF Init, ClockInv, Idle
<1>3. ASSUME NEW p \in Policies
      PROVE  windows[Key[p]] = <<>> /\ granted[p] = <<>> /\ Len(<<>>) = 0
  BY PolicyAssumption DEF Init
<1>4. LogInv
  <2>1. ASSUME NEW w PROVE Log(<<>>, <<>>, w, 0)
    BY DEF Log
  <2> QED
    BY <1>3, <2>1 DEF LogInv, Init
<1>5. QuotaHolds
  BY <1>3 DEF QuotaHolds, SpacedGrants
<1> QED
  BY <1>1, <1>2, <1>4, <1>5 DEF IInv

(* A step that grants nothing keeps the quota.                             *)
LEMMA QuotaSame == ASSUME QuotaHolds, UNCHANGED granted PROVE QuotaHolds'
BY DEF QuotaHolds, SpacedGrants, Sound

(* Passing time only takes grants out of their windows.                    *)
LEMMA TickInv == ASSUME IInv, Tick PROVE IInv'
<1>1. TypeOK'
  BY DEF IInv, Tick, TypeOK
<1>2. ClockInv'
  BY DEF IInv, Tick, TypeOK, ClockInv, Calls, Idle
<1>3. ASSUME NEW p \in Policies, Sound(p)
      PROVE  Log(windows[Key[p]], granted[p], Window[p], now + 1)
  <2>1. /\ windows[Key[p]] \in Seq(Nat) /\ granted[p] \in Seq(Nat) /\ Window[p] \in Nat
        /\ now \in Nat /\ now + 1 \in Nat /\ now <= now + 1
        /\ Log(windows[Key[p]], granted[p], Window[p], now)
    BY <1>3, PolicyAssumption DEF IInv, TypeOK, LogInv
  <2> QED
    BY <2>1, Later
<1>4. LogInv'
  BY <1>3 DEF LogInv, Tick, Sound
<1>5. QuotaHolds'
  BY QuotaSame DEF IInv, Tick
<1> QED
  BY <1>1, <1>2, <1>4, <1>5 DEF IInv

(* A thread that enters check reads the clock of this instant.             *)
LEMMA CallInv ==
  ASSUME IInv, NEW t \in Threads, NEW p \in Policies, Call(t, p) PROVE IInv'
<1>1. TypeOK'
  BY DEF IInv, Call, TypeOK, Calls
<1>2. ClockInv'
  BY DEF IInv, Call, TypeOK, ClockInv
<1>3. LogInv'
  BY DEF IInv, Call, LogInv, Sound
<1>4. QuotaHolds'
  BY QuotaSame DEF IInv, Call
<1> QED
  BY <1>1, <1>2, <1>3, <1>4 DEF IInv

(* A call that moves on to its check keeps the types and the clocks.       *)
LEMMA ProceedKeeps ==
  ASSUME IInv, NEW t \in Threads, call[t].step = "cleanup", Proceed(t), now' = now
  PROVE  call' \in [Threads -> Calls] /\ ClockInv'
<1>1. call[t] \in [step : {"cleanup", "check"}, policy : Policies, at : Nat]
  BY DEF IInv, TypeOK, Calls, Idle
<1>2. [call[t] EXCEPT !.step = "check"] \in Calls
  BY <1>1 DEF Calls
<1>3. call' \in [Threads -> Calls]
  BY <1>2 DEF IInv, TypeOK, Proceed
<1>4. \A u \in Threads : call'[u].step = "cleanup" => call'[u] = call[u]
  BY <1>1 DEF IInv, TypeOK, Proceed
<1> QED
  BY <1>3, <1>4 DEF IInv, ClockInv

(* maybe_cleanup with nothing to do.                                       *)
LEMMA SkipCleanupInv ==
  ASSUME IInv, NEW t \in Threads, SkipCleanup(t) PROVE IInv'
<1>1. call' \in [Threads -> Calls] /\ ClockInv'
  BY ProceedKeeps DEF SkipCleanup
<1>2. TypeOK'
  BY <1>1 DEF IInv, SkipCleanup, TypeOK
<1>3. LogInv'
  BY DEF IInv, SkipCleanup, LogInv, Sound
<1>4. QuotaHolds'
  BY QuotaSame DEF IInv, SkipCleanup
<1> QED
  BY <1>1, <1>2, <1>3, <1>4 DEF IInv

(* maybe_cleanup removes only partitions that hold nothing in a window.    *)
LEMMA CleanupInv ==
  ASSUME IInv, NEW t \in Threads, Cleanup(t) PROVE IInv'
<1> DEFINE at == call[t].at
<1>1. call' \in [Threads -> Calls] /\ ClockInv'
  BY ProceedKeeps DEF Cleanup
<1>2. at \in Nat /\ at <= now
  BY DEF IInv, TypeOK, ClockInv, Cleanup, Calls, Idle
<1>3. windows' = Prune(windows, at) \/ windows' = windows
  BY DEF Cleanup
<1>4. windows' \in [Keys -> Seq(Nat)]
  <2>1. windows \in [Keys -> Seq(Nat)]
    BY DEF IInv, TypeOK
  <2>2. Prune(windows, at) \in [Keys -> Seq(Nat)]
    BY <2>1, PruneTypes
  <2> QED
    BY <1>3, <2>1, <2>2
<1>5. last_cleanup' = at /\ UNCHANGED <<now, granted, retry>>
  BY DEF Cleanup
<1> HIDE DEF at
<1>6. TypeOK'
  BY <1>1, <1>2, <1>4, <1>5 DEF IInv, TypeOK
<1>7. ASSUME NEW p \in Policies, Sound(p)
      PROVE  Log(windows'[Key[p]], granted[p], Window[p], now)
  <2>1. /\ windows \in [Keys -> Seq(Nat)] /\ Key[p] \in Keys /\ granted[p] \in Seq(Nat)
        /\ Window[p] \in Nat /\ Window[p] <= cleanup_threshold /\ now \in Nat
        /\ Log(windows[Key[p]], granted[p], Window[p], now)
    BY <1>7, PolicyAssumption DEF IInv, TypeOK, LogInv, Sound
  <2>2. Log(Prune(windows, at)[Key[p]], granted[p], Window[p], now)
    BY <1>2, <2>1, PruneKeepsLog
  <2> QED
    BY <1>3, <2>1, <2>2
<1>8. LogInv'
  BY <1>5, <1>7 DEF LogInv, Sound
<1>9. QuotaHolds'
  BY <1>5, QuotaSame DEF IInv
<1> QED
  BY <1>1, <1>6, <1>8, <1>9 DEF IInv

(* A call that returns keeps the types and the clocks.                     *)
LEMMA ReturnKeeps ==
  ASSUME IInv, NEW t \in Threads, call' = [call EXCEPT ![t] = Idle], now' = now
  PROVE  call' \in [Threads -> Calls] /\ ClockInv'
BY DEF IInv, TypeOK, ClockInv, Calls, Idle

(* A call that is checking has a policy.                                   *)
LEMMA CheckingPolicy ==
  ASSUME IInv, NEW t \in Threads, call[t].step = "check"
  PROVE  call[t].policy \in Policies
BY DEF IInv, TypeOK, Calls, Idle

(* A refusal for a full table changes no window.                           *)
LEMMA RefuseNewKeyInv ==
  ASSUME IInv, NEW t \in Threads, RefuseNewKey(t) PROVE IInv'
<1>1. call' \in [Threads -> Calls] /\ ClockInv'
  BY ReturnKeeps DEF RefuseNewKey
<1>2. call[t].policy \in Policies
  BY CheckingPolicy DEF RefuseNewKey
<1>3. windows' = Table(call[t].policy) /\ UNCHANGED <<now, last_cleanup, granted, retry>>
  BY DEF RefuseNewKey
<1>4. /\ windows' \in [Keys -> Seq(Nat)]
      /\ \A p \in Policies : Sound(p) => Log(windows'[Key[p]], granted[p], Window[p], now)
  BY <1>2, <1>3, TableKeepsLog
<1>5. TypeOK'
  BY <1>1, <1>3, <1>4 DEF IInv, TypeOK
<1>6. LogInv'
  BY <1>3, <1>4 DEF LogInv, Sound
<1>7. QuotaHolds'
  BY <1>3, QuotaSame DEF IInv
<1> QED
  BY <1>1, <1>5, <1>6, <1>7 DEF IInv

(* A check that allows the request: prune, then record.                    *)
LEMMA AllowInv ==
  ASSUME IInv, NEW t \in Threads, Allow(t) PROVE IInv'
<1> DEFINE q == call[t].policy
           ts == Table(q)[Key[q]]
<1>1. call' \in [Threads -> Calls] /\ ClockInv'
  BY ReturnKeeps DEF Allow
<1>2. q \in Policies
  BY CheckingPolicy DEF Allow
<1>3. PICK d \in Expired(ts, now, Window[q]) :
        /\ Len(ts) - d < Quota[q]
        /\ windows' = [Table(q) EXCEPT ![Key[q]] = Append(SubSeq(ts, d + 1, Len(ts)), now)]
        /\ granted' = [granted EXCEPT ![q] = Append(granted[q], now)]
  BY DEF Allow
<1>4. UNCHANGED <<now, last_cleanup, retry>>
  BY DEF Allow
<1>5. /\ Table(q) \in [Keys -> Seq(Nat)]
      /\ \A p \in Policies : Sound(p) => Log(Table(q)[Key[p]], granted[p], Window[p], now)
  BY <1>2, TableKeepsLog
<1>6. /\ Key[q] \in Keys /\ Window[q] \in Nat \ {0} /\ Quota[q] \in Nat \ {0}
      /\ now \in Nat /\ ts \in Seq(Nat)
  BY <1>2, <1>5, PolicyAssumption DEF IInv, TypeOK
<1>7. granted \in [Policies -> Seq(Nat)] /\ granted[q] \in Seq(Nat)
  BY <1>2 DEF IInv, TypeOK
<1> DEFINE rest == SubSeq(ts, d + 1, Len(ts))
<1> HIDE DEF q, ts
<1>8. rest \in Seq(Nat)
  <2>1. Len(ts) \in Nat /\ d \in 0 .. Len(ts)
    BY <1>3, <1>6, LenProperties DEF Expired
  <2>2. \A i \in d + 1 .. Len(ts) : ts[i] \in Nat
    BY <2>1, <1>6, ElementOfSeq
  <2> QED
    BY <2>1, <2>2, <1>6, SubSeqProperties
<1> HIDE DEF rest
<1>9. /\ windows' = [Table(q) EXCEPT ![Key[q]] = Append(rest, now)]
      /\ granted' = [granted EXCEPT ![q] = Append(granted[q], now)]
  BY <1>3 DEF rest
<1>10. Append(rest, now) \in Seq(Nat) /\ Append(granted[q], now) \in Seq(Nat)
  BY <1>6, <1>7, <1>8, AppendProperties
<1>11. windows' \in [Keys -> Seq(Nat)] /\ granted' \in [Policies -> Seq(Nat)]
  BY <1>5, <1>7, <1>9, <1>10
<1>12. TypeOK'
  BY <1>1, <1>4, <1>11 DEF IInv, TypeOK
<1>13. ASSUME NEW p \in Policies, Sound(p), p /= q
       PROVE  windows'[Key[p]] = Table(q)[Key[p]] /\ granted'[p] = granted[p]
  <2>1. Key[q] /= Key[p] /\ Key[p] \in Keys
    BY <1>2, <1>13, PolicyAssumption DEF Sound
  <2> QED
    BY <2>1, <1>5, <1>7, <1>9, <1>13
<1>14. ASSUME Sound(q)
       PROVE  /\ Log(windows'[Key[q]], granted'[q], Window[q], now)
              /\ Spaced(granted'[q], Quota[q], Window[q])
  <2>1. windows'[Key[q]] = Append(rest, now) /\ granted'[q] = Append(granted[q], now)
    BY <1>2, <1>5, <1>6, <1>7, <1>9
  <2>2. Log(ts, granted[q], Window[q], now)
    BY <1>2, <1>5, <1>14 DEF ts
  <2>3. Log(rest, granted[q], Window[q], now) /\ Len(rest) = Len(ts) - d
    BY <2>2, <1>3, <1>6, <1>7, DropExpired DEF rest
  <2>4. Len(rest) < Quota[q]
    BY <2>3, <1>3
  <2>5. Spaced(granted[q], Quota[q], Window[q])
    BY <1>2, <1>14 DEF IInv, QuotaHolds, SpacedGrants, Spaced
  <2>6. Log(Append(rest, now), Append(granted[q], now), Window[q], now)
    BY <2>3, <1>6, <1>7, <1>8, RecordGrant
  <2>7. Spaced(Append(granted[q], now), Quota[q], Window[q])
    BY <2>3, <2>4, <2>5, <1>6, <1>7, <1>8, RecordSpaced
  <2> QED
    BY <2>1, <2>6, <2>7
<1>15. ASSUME NEW p \in Policies, Sound(p)
       PROVE  /\ Log(windows'[Key[p]], granted'[p], Window[p], now)
              /\ Spaced(granted'[p], Quota[p], Window[p])
  <2>1. CASE p = q
    BY <2>1, <1>14, <1>15
  <2>2. CASE p /= q
    <3>1. Spaced(granted[p], Quota[p], Window[p])
      BY <1>15 DEF IInv, QuotaHolds, SpacedGrants, Spaced
    <3> QED
      BY <2>2, <3>1, <1>5, <1>13, <1>15
  <2> QED
    BY <2>1, <2>2
<1>16. LogInv'
  BY <1>4, <1>15 DEF LogInv, Sound
<1>17. QuotaHolds'
  BY <1>15 DEF QuotaHolds, SpacedGrants, Spaced, Sound
<1> QED
  BY <1>1, <1>12, <1>16, <1>17 DEF IInv

(* The announced delay is whole seconds, and less than one short of the    *)
(* reset instant.                                                          *)
LEMMA RetryAfterBound ==
  ASSUME NEW oldest \in Nat, NEW w \in Nat, now \in Nat
  PROVE  /\ now + RetryAfter(oldest, w) * Second \in Nat
         /\ oldest + w + 1 <= now + RetryAfter(oldest, w) * Second + Second
<1> DEFINE left == Since(oldest + w, now)
           secs == left \div Second
<1>1. Second \in Nat \ {0} /\ left \in Nat /\ oldest + w <= now + left
  BY LimiterAssumption DEF Since
<1> HIDE DEF left
<1>2. secs \in Nat /\ left = Second * secs + (left % Second) /\ left % Second \in 0 .. Second - 1
  BY <1>1
<1> HIDE DEF secs
<1>3. secs * Second \in Nat /\ left + 1 <= secs * Second + Second
  BY <1>1, <1>2
<1>4. RetryAfter(oldest, w) = IF secs = 0 THEN 1 ELSE secs
  BY DEF RetryAfter, secs, left
<1>5. CASE secs = 0
  BY <1>1, <1>3, <1>4, <1>5
<1>6. CASE secs /= 0
  <2>1. RetryAfter(oldest, w) * Second = secs * Second
    BY <1>4, <1>6
  <2> HIDE DEF secs
  <2> QED
    BY <1>1, <1>3, <2>1
<1> QED
  BY <1>5, <1>6

(* A check that refuses the request: prune only.                           *)
LEMMA BlockInv ==
  ASSUME IInv, NEW t \in Threads, Block(t) PROVE IInv'
<1> DEFINE q == call[t].policy
           ts == Table(q)[Key[q]]
<1>1. call' \in [Threads -> Calls] /\ ClockInv'
  BY ReturnKeeps DEF Block
<1>2. q \in Policies
  BY CheckingPolicy DEF Block
<1>3. PICK d \in Expired(ts, now, Window[q]) :
        /\ Len(ts) - d >= Quota[q]
        /\ windows' = [Table(q) EXCEPT ![Key[q]] = SubSeq(ts, d + 1, Len(ts))]
        /\ retry' = [retry EXCEPT ![q] = [at |-> now + RetryAfter(ts[d + 1], Window[q]) * Second,
                                          grants |-> Len(granted[q])]]
  BY DEF Block
<1>4. UNCHANGED <<now, last_cleanup, granted>>
  BY DEF Block
<1>5. /\ Table(q) \in [Keys -> Seq(Nat)]
      /\ \A p \in Policies : Sound(p) => Log(Table(q)[Key[p]], granted[p], Window[p], now)
  BY <1>2, TableKeepsLog
<1>6. /\ Key[q] \in Keys /\ Window[q] \in Nat \ {0} /\ Quota[q] \in Nat \ {0}
      /\ now \in Nat /\ ts \in Seq(Nat)
  BY <1>2, <1>5, PolicyAssumption DEF IInv, TypeOK
<1>7. granted \in [Policies -> Seq(Nat)] /\ granted[q] \in Seq(Nat)
  BY <1>2 DEF IInv, TypeOK
<1> DEFINE rest == SubSeq(ts, d + 1, Len(ts))
<1> HIDE DEF q, ts
<1>8. Len(ts) \in Nat /\ d \in 0 .. Len(ts) /\ d + 1 \in 1 .. Len(ts)
  BY <1>3, <1>6, LenProperties DEF Expired
<1>9. rest \in Seq(Nat)
  <2>1. \A i \in d + 1 .. Len(ts) : ts[i] \in Nat
    BY <1>6, <1>8, ElementOfSeq
  <2> QED
    BY <2>1, <1>6, <1>8, SubSeqProperties
<1>10. windows' = [Table(q) EXCEPT ![Key[q]] = rest]
  BY <1>3
<1>11. windows' \in [Keys -> Seq(Nat)]
  BY <1>5, <1>9, <1>10
<1>12. retry' \in [Policies -> [at : Nat, grants : Nat]]
  <2>1. now + RetryAfter(ts[d + 1], Window[q]) * Second \in Nat
    <3>1. ts[d + 1] \in Nat
      BY <1>6, <1>8, ElementOfSeq
    <3> QED
      BY <1>6, <3>1, RetryAfterBound
  <2>2. Len(granted[q]) \in Nat
    BY <1>7, LenProperties
  <2> QED
    BY <2>1, <2>2, <1>3 DEF IInv, TypeOK
<1>13. TypeOK'
  BY <1>1, <1>4, <1>11, <1>12 DEF IInv, TypeOK
<1> HIDE DEF rest
<1>14. ASSUME NEW p \in Policies, Sound(p)
       PROVE  Log(windows'[Key[p]], granted[p], Window[p], now)
  <2>1. CASE p = q
    <3>1. Log(ts, granted[q], Window[q], now)
      BY <2>1, <1>2, <1>5, <1>14 DEF ts
    <3>2. Log(rest, granted[q], Window[q], now)
      BY <3>1, <1>3, <1>6, <1>7, DropExpired DEF rest
    <3> QED
      BY <2>1, <3>2, <1>5, <1>6, <1>10
  <2>2. CASE p /= q
    <3>1. Key[q] /= Key[p] /\ Key[p] \in Keys
      BY <2>2, <1>2, <1>14, PolicyAssumption DEF Sound
    <3> QED
      BY <3>1, <1>5, <1>10, <1>14
  <2> QED
    BY <2>1, <2>2
<1>15. LogInv'
  BY <1>4, <1>14 DEF LogInv, Sound
<1>16. QuotaHolds'
  BY <1>4, QuotaSame DEF IInv
<1> QED
  BY <1>1, <1>13, <1>15, <1>16 DEF IInv

(* A stuttering step keeps the invariant.                                  *)
LEMMA StutterInv == ASSUME IInv, UNCHANGED vars PROVE IInv'
BY DEF IInv, vars, TypeOK, ClockInv, LogInv, QuotaHolds, SpacedGrants, Sound

(* The timestamps of a sound policy's key are always a suffix of the       *)
(* grants it has made, and what the suffix lacks has left the window.      *)
THEOREM RateInv == Spec => []IInv
<1>1. ASSUME IInv, [Next]_vars PROVE IInv'
  <2>1. CASE Tick
    BY <1>1, <2>1, TickInv
  <2>2. ASSUME NEW t \in Threads, NEW p \in Policies, Call(t, p) PROVE IInv'
    BY <1>1, <2>2, CallInv
  <2>3. ASSUME NEW t \in Threads, SkipCleanup(t) PROVE IInv'
    BY <1>1, <2>3, SkipCleanupInv
  <2>4. ASSUME NEW t \in Threads, Cleanup(t) PROVE IInv'
    BY <1>1, <2>4, CleanupInv
  <2>5. ASSUME NEW t \in Threads, RefuseNewKey(t) PROVE IInv'
    BY <1>1, <2>5, RefuseNewKeyInv
  <2>6. ASSUME NEW t \in Threads, Allow(t) PROVE IInv'
    BY <1>1, <2>6, AllowInv
  <2>7. ASSUME NEW t \in Threads, Block(t) PROVE IInv'
    BY <1>1, <2>7, BlockInv
  <2>8. CASE UNCHANGED vars
    BY <1>1, <2>8, StutterInv
  <2> QED
    BY <1>1, <2>1, <2>2, <2>3, <2>4, <2>5, <2>6, <2>7, <2>8 DEF Next
<1> QED
  BY <1>1, InitInv, PTL DEF Spec

(* Type correctness of the limiter. *)
THEOREM RateTypeCorrect == Spec => []TypeOK
<1>1. IInv => TypeOK
  BY DEF IInv
<1> QED
  BY <1>1, RateInv, PTL

(* No interleaving of checks and cleanups lets a policy pass more than its *)
(* quota of requests in one window, as long as no other policy uses its    *)
(* key and its window is within cleanup_threshold.                         *)
THEOREM QuotaIsKept == Spec => []QuotaHolds
<1>1. IInv => QuotaHolds
  BY DEF IInv
<1> QED
  BY <1>1, RateInv, PTL

-----------------------------------------------------------------------------
(* The reset instant of a refusal *)

Sorted(g) == \A i, j \in 1 .. Len(g) : i <= j => g[i] <= g[j]

(* The log ts of a policy that was last refused with the answer r: while   *)
(* the policy is granted nothing, its log is the one that r was read from, *)
(* or is forgotten.                                                        *)
Honest(ts, g, q, w, r) ==
  /\ r.grants <= Len(g)
  /\ Len(g) = r.grants => \/ ts = <<>>
                          \/ Len(ts) = q /\ ts[1] + w + 1 <= r.at + Second

RetryInv ==
  \A p \in Policies :
    Sound(p) => /\ Sorted(granted[p])
                /\ Honest(windows[Key[p]], granted[p], Quota[p], Window[p], retry[p])

(* A set of natural numbers has a least one: a minimal counterexample      *)
(* stands in for induction on the length of a log.                         *)
LEMMA LeastNumber ==
  ASSUME NEW T \in SUBSET Nat, T /= {}
  PROVE  \E m \in T : \A n \in T : m <= n
<1> DEFINE Less == {ss \in Nat \X Nat : ss[1] < ss[2]}
<1>1. IsWellFoundedOn(Less, Nat)
  BY NatLessThanWellFounded, Zenon DEF OpToRel
<1>2. PICK m \in T : \A n \in T : ~(<<n, m>> \in Less)
  BY <1>1, WFMin, Zenon
<1>3. \A n \in T : ~(n < m)
  BY <1>2
<1> QED
  BY <1>3

(* retain drops a prefix of a log in the order of the clock: the entries   *)
(* before the first one that is in the window.                             *)
LEMMA ExpiredPrefix ==
  ASSUME NEW ts \in Seq(Nat), NEW at \in Nat, NEW w \in Nat \ {0}, Sorted(ts)
  PROVE  \E d \in Expired(ts, at, w) :
           d < Len(ts) => Since(at, ts[d + 1]) < w
<1> DEFINE Inside == {i \in 1 .. Len(ts) : Since(at, ts[i]) < w}
<1>1. Len(ts) \in Nat /\ \A i \in 1 .. Len(ts) : ts[i] \in Nat
  BY LenProperties, ElementOfSeq
<1>2. CASE Inside = {}
  <2>1. \A i \in 1 .. Len(ts) : ~(Since(at, ts[i]) < w)
    BY <1>2
  <2>2. \A i \in 1 .. Len(ts) : Since(at, ts[i]) >= w
    BY <2>1, <1>1 DEF Since
  <2>3. Len(ts) \in Expired(ts, at, w)
    BY <2>2, <1>1 DEF Expired
  <2> QED
    BY <2>3, <1>1
<1>3. CASE Inside /= {}
  <2>1. Inside \in SUBSET Nat
    BY <1>1
  <2>2. PICK m \in Inside : \A n \in Inside : m <= n
    BY <2>1, <1>3, LeastNumber
  <2>3. m \in 1 .. Len(ts) /\ Since(at, ts[m]) < w
    BY <2>2
  <2>4. ASSUME NEW i \in 1 .. m - 1 PROVE Since(at, ts[i]) >= w
    <3>1. i \in 1 .. Len(ts) /\ i < m
      BY <2>3, <1>1
    <3>2. ~(Since(at, ts[i]) < w)
      BY <3>1, <2>2, <2>3, <1>1
    <3> QED
      BY <3>1, <3>2, <1>1 DEF Since
  <2>5. ASSUME NEW i \in m .. Len(ts) PROVE Since(at, ts[i]) < w
    <3>1. i \in 1 .. Len(ts) /\ m <= i
      BY <2>3, <1>1
    <3>2. ts[m] <= ts[i]
      BY <3>1, <2>3 DEF Sorted
    <3> QED
      BY <3>1, <3>2, <2>3, <1>1 DEF Since
  <2>6. m - 1 \in 0 .. Len(ts) /\ (m - 1) + 1 = m
    BY <2>3, <1>1
  <2>7. m - 1 \in Expired(ts, at, w)
    BY <2>4, <2>5, <2>6 DEF Expired
  <2> QED
    BY <2>3, <2>6, <2>7
<1> QED
  BY <1>2, <1>3

(* A log of sorted grants is sorted.                                       *)
LEMMA LogSorted ==
  ASSUME NEW ts \in Seq(Nat), NEW g \in Seq(Nat), NEW w \in Nat, NEW at \in Nat,
         Log(ts, g, w, at), Sorted(g)
  PROVE  Sorted(ts)
<1>1. Len(ts) \in Nat /\ Len(g) \in Nat /\ Len(ts) <= Len(g)
  BY LenProperties DEF Log
<1>2. ASSUME NEW i \in 1 .. Len(ts), NEW j \in 1 .. Len(ts), i <= j
      PROVE  ts[i] <= ts[j]
  <2>1. /\ Len(g) - Len(ts) + i \in 1 .. Len(g)
        /\ Len(g) - Len(ts) + j \in 1 .. Len(g)
        /\ Len(g) - Len(ts) + i <= Len(g) - Len(ts) + j
    BY <1>1, <1>2
  <2>2. g[Len(g) - Len(ts) + i] <= g[Len(g) - Len(ts) + j]
    BY <2>1 DEF Sorted
  <2> QED
    BY <2>2 DEF Log
<1> QED
  BY <1>2 DEF Sorted

(* A grant made now is the latest.                                         *)
LEMMA RecordSorted ==
  ASSUME NEW g \in Seq(Nat), NEW at \in Nat, Sorted(g),
         \A i \in 1 .. Len(g) : g[i] <= at
  PROVE  Sorted(Append(g, at))
<1> DEFINE g2 == Append(g, at)
<1>1. Len(g) \in Nat
  BY LenProperties
<1>2. /\ Len(g2) = Len(g) + 1 /\ g2[Len(g) + 1] = at
      /\ \A i \in 1 .. Len(g) : g2[i] = g[i]
  BY AppendProperties
<1> HIDE DEF g2
<1>3. ASSUME NEW i \in 1 .. Len(g2), NEW j \in 1 .. Len(g2), i <= j
      PROVE  g2[i] <= g2[j]
  <2>1. CASE j = Len(g) + 1
    <3>1. i = Len(g) + 1 \/ i \in 1 .. Len(g)
      BY <1>1, <1>2
    <3> QED
      BY <2>1, <3>1, <1>2
  <2>2. CASE j \in 1 .. Len(g)
    <3>1. i \in 1 .. Len(g)
      BY <2>2, <1>3, <1>1, <1>2
    <3> QED
      BY <2>2, <3>1, <1>2, <1>3 DEF Sorted
  <2> QED
    BY <2>1, <2>2, <1>1, <1>2
<1>4. Sorted(g2)
  BY <1>3 DEF Sorted
<1> QED
  BY <1>4 DEF g2

(* A log that holds only what is in the window is no longer than the       *)
(* quota, as the grants are spaced.                                        *)
LEMMA LogWithinQuota ==
  ASSUME NEW ts \in Seq(Nat), NEW g \in Seq(Nat), NEW w \in Nat \ {0}, NEW at \in Nat,
         NEW q \in Nat \ {0}, Log(ts, g, w, at), Spaced(g, q, w),
         \A i \in 1 .. Len(ts) : ts[i] + w > at
  PROVE  Len(ts) <= q
<1>1. Len(ts) \in Nat /\ Len(g) \in Nat /\ Len(ts) <= Len(g)
  BY LenProperties DEF Log
<1> SUFFICES ASSUME Len(ts) > q PROVE FALSE
  BY <1>1
<1> DEFINE first == Len(g) - Len(ts) + 1
<1>2. first \in 1 .. Len(g) /\ first + q \in 1 .. Len(g) /\ first + q <= Len(g) /\ 1 \in 1 .. Len(ts)
  BY <1>1
<1>3. ts[1] = g[first]
  BY <1>2 DEF Log
<1> HIDE DEF first
<1>4. g[first] + w <= g[first + q]
  BY <1>2 DEF Spaced
<1>5. g[first + q] <= at
  BY <1>2 DEF Log
<1>6. g[first] \in Nat /\ g[first + q] \in Nat
  BY <1>2, ElementOfSeq
<1>7. g[first] + w > at
  BY <1>2, <1>3
<1> QED
  BY SMTT(60), <1>4, <1>5, <1>6, <1>7

(* Forgetting a log, or leaving it alone, keeps the promise of a refusal.  *)
LEMMA HonestKept ==
  ASSUME NEW ts, NEW g, NEW q, NEW w, NEW r, Honest(ts, g, q, w, r),
         NEW t2, t2 = ts \/ t2 = <<>>
  PROVE  Honest(t2, g, q, w, r)
BY DEF Honest

(* A pruned log is the log or nothing.                                     *)
LEMMA PruneKeepsOrDrops ==
  ASSUME NEW table, NEW at, NEW k \in Keys
  PROVE  Prune(table, at)[k] = table[k] \/ Prune(table, at)[k] = <<>>
BY DEF Prune

(* The table a check works on: each log as it was, or nothing.             *)
LEMMA TableKeepsOrDrops ==
  ASSUME NEW q \in Policies, NEW k \in Keys
  PROVE  Table(q)[k] = windows[k] \/ Table(q)[k] = <<>>
BY PruneKeepsOrDrops DEF Table

(* A step that only keeps or forgets logs keeps every promise.             *)
LEMMA RetryKept ==
  ASSUME RetryInv, UNCHANGED <<granted, retry>>,
         \A k \in Keys : windows'[k] = windows[k] \/ windows'[k] = <<>>
  PROVE  RetryInv'
<1> SUFFICES ASSUME NEW p \in Policies, Sound(p)
             PROVE  /\ Sorted(granted[p])
                    /\ Honest(windows'[Key[p]], granted[p], Quota[p], Window[p], retry[p])
  BY DEF RetryInv, Sound
<1>1. Key[p] \in Keys
  BY PolicyAssumption
<1>2. /\ Sorted(granted[p])
      /\ Honest(windows[Key[p]], granted[p], Quota[p], Window[p], retry[p])
  BY DEF RetryInv
<1> QED
  BY <1>1, <1>2, HonestKept

(* A grant outdates the refusal before it.                                 *)
LEMMA AllowRetry ==
  ASSUME IInv, RetryInv, NEW t \in Threads, Allow(t) PROVE RetryInv'
<1> DEFINE q == call[t].policy
           ts == Table(q)[Key[q]]
<1>1. q \in Policies
  BY CheckingPolicy DEF Allow
<1>2. PICK d \in Expired(ts, now, Window[q]) :
        /\ Len(ts) - d < Quota[q]
        /\ windows' = [Table(q) EXCEPT ![Key[q]] = Append(SubSeq(ts, d + 1, Len(ts)), now)]
        /\ granted' = [granted EXCEPT ![q] = Append(granted[q], now)]
  BY DEF Allow
<1>3. UNCHANGED <<now, retry>>
  BY DEF Allow
<1>4. /\ Table(q) \in [Keys -> Seq(Nat)] /\ now \in Nat
      /\ granted \in [Policies -> Seq(Nat)] /\ granted[q] \in Seq(Nat)
  BY <1>1, TableKeepsLog DEF IInv, TypeOK
<1> HIDE DEF q, ts
<1> SUFFICES ASSUME NEW p \in Policies, Sound(p)
             PROVE  /\ Sorted(granted'[p])
                    /\ Honest(windows'[Key[p]], granted'[p], Quota[p], Window[p], retry[p])
  BY <1>3 DEF RetryInv, Sound
<1>5. /\ Sorted(granted[p])
      /\ Honest(windows[Key[p]], granted[p], Quota[p], Window[p], retry[p])
  BY DEF RetryInv
<1>6. CASE p = q
  <2>1. granted'[p] = Append(granted[p], now)
    BY <1>1, <1>2, <1>4, <1>6
  <2>2. \A i \in 1 .. Len(granted[p]) : granted[p][i] <= now
    BY DEF IInv, LogInv, Log
  <2>3. Sorted(granted'[p])
    BY <2>1, <2>2, <1>4, <1>5, <1>6, RecordSorted
  <2>4. Len(granted'[p]) = Len(granted[p]) + 1 /\ Len(granted[p]) \in Nat
    BY <2>1, <1>4, <1>6, AppendProperties, LenProperties
  <2>5. retry[p].grants \in Nat /\ retry[p].grants <= Len(granted[p])
    BY <1>5 DEF IInv, TypeOK, Honest
  <2>6. retry[p].grants <= Len(granted'[p]) /\ Len(granted'[p]) /= retry[p].grants
    BY <2>4, <2>5
  <2> QED
    BY <2>3, <2>6 DEF Honest
<1>7. CASE p /= q
  <2>1. Key[q] /= Key[p] /\ Key[p] \in Keys
    BY <1>1, <1>7, PolicyAssumption DEF Sound
  <2>2. granted'[p] = granted[p] /\ windows'[Key[p]] = Table(q)[Key[p]]
    BY <2>1, <1>2, <1>4, <1>7
  <2> QED
    BY <2>1, <2>2, <1>1, <1>5, TableKeepsOrDrops, HonestKept
<1> QED
  BY <1>6, <1>7

(* What is left of a log when its first d entries are gone.                *)
LEMMA SuffixOf ==
  ASSUME NEW ts \in Seq(Nat), NEW d \in 0 .. Len(ts)
  PROVE  LET rest == SubSeq(ts, d + 1, Len(ts))
         IN  /\ rest \in Seq(Nat) /\ Len(rest) = Len(ts) - d
             /\ \A i \in 1 .. Len(rest) : rest[i] = ts[d + i]
<1>1. Len(ts) \in Nat /\ \A i \in 1 .. Len(ts) : ts[i] \in Nat
  BY LenProperties, ElementOfSeq
<1>2. \A i \in d + 1 .. Len(ts) : ts[i] \in Nat
  BY <1>1
<1>3. /\ SubSeq(ts, d + 1, Len(ts)) \in Seq(Nat)
      /\ Len(SubSeq(ts, d + 1, Len(ts))) = Len(ts) - d
  BY <1>1, <1>2, SubSeqProperties
<1>4. \A i \in 1 .. Len(ts) - d : SubSeq(ts, d + 1, Len(ts))[i] = ts[d + i]
  BY <1>1, <1>2, SubSeqProperties
<1> QED
  BY <1>3, <1>4

(* A refusal promises the second in which the oldest of exactly quota      *)
(* timestamps leaves the window.                                           *)
LEMMA BlockRetry ==
  ASSUME IInv, RetryInv, NEW t \in Threads, Block(t) PROVE RetryInv'
<1> DEFINE q == call[t].policy
           ts == Table(q)[Key[q]]
<1>1. q \in Policies
  BY CheckingPolicy DEF Block
<1>2. PICK d \in Expired(ts, now, Window[q]) :
        /\ Len(ts) - d >= Quota[q]
        /\ windows' = [Table(q) EXCEPT ![Key[q]] = SubSeq(ts, d + 1, Len(ts))]
        /\ retry' = [retry EXCEPT ![q] = [at |-> now + RetryAfter(ts[d + 1], Window[q]) * Second,
                                          grants |-> Len(granted[q])]]
  BY DEF Block
<1>3. UNCHANGED <<now, granted>>
  BY DEF Block
<1>4. /\ Table(q) \in [Keys -> Seq(Nat)] /\ now \in Nat /\ ts \in Seq(Nat)
      /\ retry \in [Policies -> [at : Nat, grants : Nat]]
      /\ Key[q] \in Keys /\ Window[q] \in Nat \ {0} /\ Quota[q] \in Nat \ {0}
      /\ granted[q] \in Seq(Nat) /\ Len(granted[q]) \in Nat
  BY <1>1, TableKeepsLog, PolicyAssumption, LenProperties DEF IInv, TypeOK
<1>5. /\ Len(ts) \in Nat /\ d \in 0 .. Len(ts) /\ d + 1 \in 1 .. Len(ts)
      /\ \A i \in d + 1 .. Len(ts) : Since(now, ts[i]) < Window[q]
      /\ \A i \in 1 .. Len(ts) : ts[i] \in Nat
  <2> HIDE DEF q, ts
  <2>1. Len(ts) \in Nat /\ \A i \in 1 .. Len(ts) : ts[i] \in Nat
    BY <1>4, LenProperties, ElementOfSeq
  <2>2. /\ d \in 0 .. Len(ts)
        /\ \A i \in d + 1 .. Len(ts) : Since(now, ts[i]) < Window[q]
    BY <1>2 DEF Expired
  <2>3. d + 1 \in 1 .. Len(ts)
    <3>1. Len(ts) - d >= Quota[q] /\ Quota[q] \in Nat \ {0}
      BY <1>2, <1>4
    <3> QED
      BY <2>1, <2>2, <3>1
  <2> QED
    BY <2>1, <2>2, <2>3
<1> DEFINE rest == SubSeq(ts, d + 1, Len(ts))
<1>6. /\ rest \in Seq(Nat) /\ Len(rest) = Len(ts) - d
      /\ \A i \in 1 .. Len(rest) : rest[i] = ts[d + i]
  <2> HIDE DEF q, ts
  <2>1. \A i \in d + 1 .. Len(ts) : ts[i] \in Nat
    BY <1>5
  <2>2. ts \in Seq(Nat) /\ Len(ts) \in Nat /\ d \in 0 .. Len(ts)
    BY <1>4, <1>5
  <2> QED
    BY <2>2, SuffixOf
<1>7. ASSUME Sound(q) PROVE Log(rest, granted[q], Window[q], now)
  BY <1>1, <1>2, <1>4, <1>7, TableKeepsLog, DropExpired
<1>8. windows' = [Table(q) EXCEPT ![Key[q]] = rest]
  BY <1>2
<1> HIDE DEF q, ts, rest
<1> SUFFICES ASSUME NEW p \in Policies, Sound(p)
             PROVE  /\ Sorted(granted[p])
                    /\ Honest(windows'[Key[p]], granted[p], Quota[p], Window[p], retry'[p])
  BY <1>3 DEF RetryInv, Sound
<1>9. /\ Sorted(granted[p])
      /\ Honest(windows[Key[p]], granted[p], Quota[p], Window[p], retry[p])
  BY DEF RetryInv
<1>10. CASE p = q
  <2>1. ASSUME NEW i \in 1 .. Len(rest) PROVE rest[i] + Window[q] > now
    <3>1. d + i \in d + 1 .. Len(ts) /\ d + i \in 1 .. Len(ts)
      BY <1>5, <1>6
    <3>2. Since(now, ts[d + i]) < Window[q] /\ ts[d + i] \in Nat
      BY <3>1, <1>5
    <3>3. ts[d + i] + Window[q] > now
      BY SMTT(60), <3>2, <1>4 DEF Since
    <3> QED
      BY <3>3, <1>6
  <2>2. Spaced(granted[q], Quota[q], Window[q])
    BY <1>10 DEF IInv, QuotaHolds, SpacedGrants, Spaced
  <2>3. Len(rest) <= Quota[q]
    BY <2>1, <2>2, <1>4, <1>6, <1>7, <1>10, LogWithinQuota
  <2>4. Len(rest) = Quota[q] /\ 1 \in 1 .. Len(rest)
    <3>1. Len(rest) >= Quota[q] /\ Len(rest) \in Nat
      BY <1>2, <1>6, LenProperties
    <3> QED
      BY <3>1, <2>3, <1>4
  <2>5. rest[1] = ts[d + 1]
    BY <2>4, <1>6
  <2>6. windows'[Key[q]] = rest
    BY <1>4, <1>8
  <2>7. retry'[q] = [at |-> now + RetryAfter(rest[1], Window[q]) * Second, grants |-> Len(granted[q])]
    BY <1>1, <1>2, <1>4, <2>5
  <2>8. retry'[q].grants = Len(granted[q]) /\ rest[1] + Window[q] + 1 <= retry'[q].at + Second
    <3>1. rest[1] \in Nat
      BY <2>4, <1>6, ElementOfSeq
    <3>2. rest[1] + Window[q] + 1 <= now + RetryAfter(rest[1], Window[q]) * Second + Second
      BY <3>1, <1>4, RetryAfterBound
    <3> QED
      BY <2>7, <3>2
  <2> QED
    BY <2>4, <2>6, <2>8, <1>4, <1>9, <1>10 DEF Honest
<1>11. CASE p /= q
  <2>1. Key[q] /= Key[p] /\ Key[p] \in Keys
    BY <1>1, <1>11, PolicyAssumption DEF Sound
  <2>2. retry'[p] = retry[p] /\ windows'[Key[p]] = Table(q)[Key[p]]
    BY <2>1, <1>2, <1>4, <1>8, <1>11
  <2> QED
    BY <2>1, <2>2, <1>1, <1>9, TableKeepsOrDrops, HonestKept
<1> QED
  BY <1>10, <1>11

(* Every step of the limiter keeps the promises of its refusals.           *)
LEMMA RetryStep == ASSUME IInv, RetryInv, [Next]_vars PROVE RetryInv'
<1>1. CASE Tick \/ UNCHANGED vars
  <2>1. UNCHANGED <<windows, granted, retry>>
    BY <1>1 DEF Tick, vars
  <2> QED
    BY <2>1, RetryKept
<1>2. ASSUME NEW t \in Threads, NEW p \in Policies, Call(t, p) PROVE RetryInv'
  <2>1. UNCHANGED <<windows, granted, retry>>
    BY <1>2 DEF Call
  <2> QED
    BY <2>1, RetryKept
<1>3. ASSUME NEW t \in Threads, SkipCleanup(t) PROVE RetryInv'
  <2>1. UNCHANGED <<windows, granted, retry>>
    BY <1>3 DEF SkipCleanup
  <2> QED
    BY <2>1, RetryKept
<1>4. ASSUME NEW t \in Threads, Cleanup(t) PROVE RetryInv'
  <2>1. /\ windows' = Prune(windows, call[t].at) \/ windows' = windows
        /\ UNCHANGED <<granted, retry>>
    BY <1>4 DEF Cleanup
  <2> QED
    BY <2>1, PruneKeepsOrDrops, RetryKept
<1>5. ASSUME NEW t \in Threads, RefuseNewKey(t) PROVE RetryInv'
  <2>1. /\ windows' = Table(call[t].policy) /\ call[t].policy \in Policies
        /\ UNCHANGED <<granted, retry>>
    BY <1>5, CheckingPolicy DEF RefuseNewKey
  <2> QED
    BY <2>1, TableKeepsOrDrops, RetryKept
<1>6. ASSUME NEW t \in Threads, Allow(t) PROVE RetryInv'
  BY <1>6, AllowRetry
<1>7. ASSUME NEW t \in Threads, Block(t) PROVE RetryInv'
  BY <1>7, BlockRetry
<1> QED
  BY <1>1, <1>2, <1>3, <1>4, <1>5, <1>6, <1>7 DEF Next

(* By the end of the promised second the oldest timestamp has left.        *)
LEMMA RetryInvSuffices == ASSUME IInv, RetryInv PROVE RetryIsHonest
<1> SUFFICES ASSUME NEW p \in Policies, Sound(p), now + 1 >= retry[p].at + Second,
                    Len(granted[p]) = retry[p].grants
             PROVE  \E d \in Expired(windows[Key[p]], now, Window[p]) :
                      Len(windows[Key[p]]) - d < Quota[p]
  BY DEF RetryIsHonest
<1>0. now + 1 >= retry[p].at + Second /\ Second \in Nat
  BY LimiterAssumption
<1> DEFINE ts == windows[Key[p]]
<1>1. /\ ts \in Seq(Nat) /\ granted[p] \in Seq(Nat) /\ now \in Nat /\ Len(ts) \in Nat
      /\ Window[p] \in Nat \ {0} /\ Quota[p] \in Nat \ {0}
      /\ retry[p].at \in Nat
  BY PolicyAssumption, LenProperties DEF IInv, TypeOK
<1>2. Sorted(ts)
  BY <1>1, LogSorted DEF IInv, LogInv, RetryInv
<1>3. PICK d \in Expired(ts, now, Window[p]) :
        d < Len(ts) => Since(now, ts[d + 1]) < Window[p]
  BY <1>1, <1>2, ExpiredPrefix
<1>4. ts = <<>> \/ (Len(ts) = Quota[p] /\ ts[1] + Window[p] + 1 <= retry[p].at + Second)
  BY DEF RetryInv, Honest
<1> HIDE DEF ts
<1>5. d \in 0 .. Len(ts)
  BY <1>3 DEF Expired
<1>6. ASSUME ts = <<>> PROVE Len(ts) - d < Quota[p]
  BY <1>1, <1>3, <1>5, <1>6
<1>7. ASSUME Len(ts) = Quota[p], ts[1] + Window[p] + 1 <= retry[p].at + Second
      PROVE  Len(ts) - d < Quota[p]
  <2>1. 1 \in 1 .. Len(ts) /\ ts[1] \in Nat
    BY <1>1, <1>7, ElementOfSeq
  <2>2. ~(Since(now, ts[1]) < Window[p])
    <3> DEFINE oldest == ts[1]  w == Window[p]  at == retry[p].at
    <3>1. oldest \in Nat /\ w \in Nat \ {0} /\ at \in Nat /\ now \in Nat
      BY <2>1, <1>1
    <3>2. now + 1 >= at + Second /\ oldest + w + 1 <= at + Second
      BY <1>0, <1>7
    <3> HIDE DEF oldest, w, at
    <3>3. now >= oldest + w
      BY <1>0, <3>1, <3>2
    <3>4. ~(Since(now, oldest) < w)
      BY <3>1, <3>3 DEF Since
    <3> QED
      BY <3>4 DEF oldest, w
  <2>3. d /= 0
    BY <2>1, <2>2, <1>1, <1>3
  <2> QED
    BY <2>3, <1>1, <1>5, <1>7
<1>8. \E e \in Expired(ts, now, Window[p]) : Len(ts) - e < Quota[p]
  BY <1>3, <1>4, <1>6, <1>7
<1> QED
  BY <1>8 DEF ts

(* A client that waits the retry_after it was given, with no grant of its  *)
(* own in between, finds room in its window within the following second,   *)
(* the fraction that as_secs cuts off: for any quota, window, cleanup      *)
(* threshold and number of threads.                                        *)
THEOREM RetryIsKept == Spec => []RetryIsHonest
<1>1. Init => RetryInv
  <2> SUFFICES ASSUME Init, NEW p \in Policies
               PROVE  /\ Sorted(granted[p])
                      /\ Honest(windows[Key[p]], granted[p], Quota[p], Window[p], retry[p])
    BY DEF RetryInv
  <2>1. /\ windows[Key[p]] = <<>> /\ granted[p] = <<>> /\ Len(<<>>) = 0
        /\ retry[p].grants = 0
    BY PolicyAssumption DEF Init
  <2> QED
    BY <2>1 DEF Sorted, Honest
<1>2. IInv /\ RetryInv /\ [Next]_vars => RetryInv'
  BY RetryStep
<1>3. IInv /\ RetryInv => RetryIsHonest
  BY RetryInvSuffices
<1> QED
  BY <1>1, <1>2, <1>3, RateInv, PTL DEF Spec

-----------------------------------------------------------------------------
(* The limiter in the host *)

(* Every step of the host is a step of the limiter or leaves it alone.     *)
LEMMA HostStep == ASSUME [HostNext]_hostVars PROVE [Next]_vars
<1>1. CASE HostNext
  <2>1. CASE S.limiter /\ Next
    BY <2>1
  <2>2. CASE Tick
    BY <2>2 DEF Next
  <2>3. CASE UNCHANGED <<now, limiter>>
    BY <2>3 DEF limiter, vars
  <2>4. CASE UNCHANGED hostVars
    BY <2>4 DEF hostVars, limiter, vars
  <2> QED
    BY <1>1, <2>1, <2>2, <2>3, <2>4 DEF HostNext
<1>2. CASE UNCHANGED hostVars
  BY <1>2 DEF hostVars, limiter, vars
<1> QED
  BY <1>1, <1>2

(* The rate limiter next to the other services of the host behaves as the  *)
(* limiter alone: HostSpec implements the specification of RateLimiter.    *)
THEOREM HostRunsLimiter == HostSpec => Spec
<1>1. HostInit => Init
  BY DEF HostInit
<1>2. [HostNext]_hostVars => [Next]_vars
  BY HostStep
<1> QED
  BY <1>1, <1>2, PTL DEF HostSpec, Spec

(* Quotas hold and refusals are honest in the host as a whole.             *)
THEOREM HostKeepsQuotas == HostSpec => [](QuotaHolds /\ RetryIsHonest)
BY HostRunsLimiter, QuotaIsKept, RetryIsKept, PTL

(* The clock of the host is a natural number, as the limiter's is.         *)
LEMMA HostClock == HostSpec => [](now \in Nat)
<1>1. TypeOK => now \in Nat
  BY DEF TypeOK
<1> QED
  BY <1>1, HostRunsLimiter, RateTypeCorrect, PTL

-----------------------------------------------------------------------------
(* Circuit breakers *)

Breakers ==
  [config : [failure_threshold : Nat \ {0}, failure_window : Nat,
             reset_timeout : Nat, success_threshold : Nat],
   state : {"closed", "open", "half_open"}, failures : Nat, window_start : Nat,
   opened_at : Nat, successes : Nat]

Results == [ok : BOOLEAN, at : Nat]

(* What a closed breaker has counted are the last results, all of them     *)
(* failures since the beginning of its window.                             *)
Counted(b, log) ==
  b.state = "closed" =>
    /\ b.failures <= Len(log)
    /\ \A i \in 1 .. Len(log) :
         i > Len(log) - b.failures => ~log[i].ok /\ b.window_start <= log[i].at

BreakerInv ==
  /\ breakers \in [DOMAIN breakers -> Breakers]
  /\ outcomes \in [DOMAIN breakers -> Seq(Results)]
  /\ \A h \in DOMAIN breakers : /\ Counted(breakers[h], outcomes[h])
                               /\ breakers[h].window_start <= now_millis

(* The failures that open a breaker b, the last one now.                   *)
Justified(b, log) ==
  LET n == b.config.failure_threshold
      last == SubSeq(log, Len(log) - n + 1, Len(log))
  IN /\ Len(log) >= n
     /\ \A i \in 1 .. n : ~last[i].ok
     /\ last[n].at - last[1].at <= b.config.failure_window

(* Looking at the clock changes an open breaker only.                      *)
LEMMA EvaluateKeeps ==
  ASSUME NEW b \in Breakers, now \in Nat
  PROVE  /\ evaluate_state(b) \in Breakers
         /\ evaluate_state(b).config = b.config
         /\ evaluate_state(b).window_start = b.window_start
         /\ b.state = "closed" => evaluate_state(b) = b
         /\ b.state /= "closed" => evaluate_state(b).state /= "closed"
<1>1. CASE b.state = "open" /\ now_millis > b.opened_at + b.config.reset_timeout
  BY <1>1 DEF evaluate_state, Breakers
<1>2. CASE ~(b.state = "open" /\ now_millis > b.opened_at + b.config.reset_timeout)
  BY <1>2 DEF evaluate_state
<1> QED
  BY <1>1, <1>2

(* record_success: a breaker that is closed afterwards has counted none.   *)
LEMMA SuccessForgets ==
  ASSUME NEW h, breakers[h] \in Breakers, now \in Nat, breakers[h].window_start <= now_millis
  PROVE  /\ record_success(h) \in Breakers /\ record_success(h).window_start <= now_millis
         /\ record_success(h).state = "closed" => record_success(h).failures = 0
         /\ breakers[h].state = "closed" => record_success(h).state = "closed"
<1> DEFINE b == evaluate_state(breakers[h])
           closed == [b EXCEPT !.failures = 0, !.window_start = 0, !.successes = 0]
<1>0. now_millis \in Nat
  BY DEF now_millis
<1>1. /\ b \in Breakers /\ b.window_start <= now_millis
      /\ breakers[h].state = "closed" => b.state = "closed"
  BY EvaluateKeeps
<1>2. record_success(h) =
        CASE b.state = "closed" -> [closed EXCEPT !.successes = b.successes]
          [] b.state = "half_open" -> IF b.successes + 1 >= b.config.success_threshold
                                      THEN [closed EXCEPT !.state = "closed"]
                                      ELSE [b EXCEPT !.successes = b.successes + 1]
          [] OTHER -> b
  BY DEF record_success
<1> HIDE DEF b
<1>3. b.state \in {"closed", "open", "half_open"} /\ b.successes \in Nat
  BY <1>1 DEF Breakers
<1>4. /\ closed \in Breakers /\ closed.failures = 0 /\ closed.state = b.state
      /\ closed.window_start = 0
  BY <1>1 DEF Breakers
<1>5. CASE b.state = "closed"
  <2>1. record_success(h) = [closed EXCEPT !.successes = b.successes]
    BY <1>2, <1>5
  <2> HIDE DEF closed
  <2> QED
    BY <2>1, <1>0, <1>3, <1>4, <1>5 DEF Breakers
<1>6. CASE b.state = "half_open" /\ b.successes + 1 >= b.config.success_threshold
  <2>1. record_success(h) = [closed EXCEPT !.state = "closed"]
    BY <1>2, <1>6
  <2> HIDE DEF closed
  <2> QED
    BY <2>1, <1>0, <1>1, <1>4, <1>6 DEF Breakers
<1>7. CASE b.state = "half_open" /\ ~(b.successes + 1 >= b.config.success_threshold)
  <2>1. record_success(h) = [b EXCEPT !.successes = b.successes + 1]
    BY <1>2, <1>7
  <2>2. b.successes + 1 \in Nat
    BY <1>3
  <2> QED
    BY <2>1, <2>2, <1>1, <1>7 DEF Breakers
<1>8. CASE b.state = "open"
  BY <1>1, <1>2, <1>8
<1> QED
  BY <1>3, <1>5, <1>6, <1>7, <1>8

(* A failure that is recorded now: the run of failures at the end of the   *)
(* history grows by one.                                                   *)
LEMMA RunGrows ==
  ASSUME NEW b \in Breakers, NEW log \in Seq(Results), NEW at \in Nat,
         b.state = "closed", Counted(b, log), b.window_start <= at
  PROVE  LET new == Append(log, [ok |-> FALSE, at |-> at])
         IN /\ b.failures + 1 <= Len(new)
            /\ \A i \in 1 .. Len(new) :
                 i > Len(new) - (b.failures + 1) => ~new[i].ok /\ b.window_start <= new[i].at
<1> DEFINE new == Append(log, [ok |-> FALSE, at |-> at])
<1>1. /\ Len(log) \in Nat /\ Len(new) = Len(log) + 1
      /\ new[Len(log) + 1] = [ok |-> FALSE, at |-> at]
      /\ \A i \in 1 .. Len(log) : new[i] = log[i]
  <2>1. [ok |-> FALSE, at |-> at] \in Results
    BY DEF Results
  <2> QED
    BY <2>1, AppendProperties, LenProperties
<1>2. b.failures \in Nat /\ b.failures <= Len(log)
  BY DEF Breakers, Counted
<1> HIDE DEF new
<1>3. ASSUME NEW i \in 1 .. Len(new), i > Len(new) - (b.failures + 1)
      PROVE  ~new[i].ok /\ b.window_start <= new[i].at
  <2>1. CASE i = Len(log) + 1
    BY <2>1, <1>1
  <2>2. CASE i \in 1 .. Len(log)
    <3>1. i > Len(log) - b.failures
      BY <1>1, <1>2, <1>3
    <3>2. ~log[i].ok /\ b.window_start <= log[i].at
      BY <2>2, <3>1 DEF Counted
    <3> QED
      BY <2>2, <3>2, <1>1
  <2> QED
    BY <2>1, <2>2, <1>1
<1> QED
  BY <1>1, <1>2, <1>3 DEF new

(* record_failure: it counts the failure, and opens a closed breaker only  *)
(* on as many failures as the threshold, within one window.                *)
LEMMA FailureCounts ==
  ASSUME NEW h, breakers[h] \in Breakers, now \in Nat, NEW log \in Seq(Results),
         Counted(breakers[h], log), breakers[h].window_start <= now_millis
  PROVE  LET new == Append(log, [ok |-> FALSE, at |-> now_millis])
         IN /\ record_failure(h) \in Breakers /\ record_failure(h).window_start <= now_millis
            /\ Counted(record_failure(h), new)
            /\ breakers[h].state = "closed" /\ record_failure(h).state = "open"
                 => Justified(breakers[h], new)
<1> DEFINE new == Append(log, [ok |-> FALSE, at |-> now_millis])
           b == evaluate_state(breakers[h])
           expired == b.window_start = 0 \/ now_millis > b.window_start + b.config.failure_window
           restarted == [b EXCEPT !.window_start = now_millis, !.failures = 1]
           added == [b EXCEPT !.failures = b.failures + 1]
           counted == IF expired THEN restarted ELSE added
<1>1. now_millis \in Nat
  BY DEF now_millis
<1>2. /\ b \in Breakers /\ b.config = breakers[h].config /\ b.window_start <= now_millis
      /\ breakers[h].state = "closed" => b = breakers[h]
      /\ breakers[h].state /= "closed" => b.state /= "closed"
  BY EvaluateKeeps
<1>3. record_failure(h) =
        CASE b.state = "closed" -> IF counted.failures >= b.config.failure_threshold
                                   THEN Opened(counted) ELSE counted
          [] b.state = "half_open" -> Opened([b EXCEPT !.successes = 0])
          [] OTHER -> b
  BY DEF record_failure
<1> HIDE DEF b
<1>4. /\ b.state \in {"closed", "open", "half_open"} /\ b.failures \in Nat
      /\ b.window_start \in Nat /\ b.config.failure_window \in Nat
      /\ b.config.failure_threshold \in Nat \ {0}
  BY <1>2 DEF Breakers
<1>5. ASSUME b.state = "closed"
      PROVE  record_failure(h) = IF counted.failures >= b.config.failure_threshold
                                 THEN Opened(counted) ELSE counted
  <2> HIDE DEF counted
  <2> QED
    BY <1>3, <1>5
<1> DEFINE Goal(x) == /\ x \in Breakers /\ x.window_start <= now_millis
                      /\ Counted(x, new)
                      /\ breakers[h].state = "closed" /\ x.state = "open" => Justified(breakers[h], new)
<1>6. CASE b.state = "half_open"
  <2>1. record_failure(h) = Opened([b EXCEPT !.successes = 0])
    BY <1>3, <1>6
  <2> DEFINE reset == [b EXCEPT !.successes = 0]
  <2>2. reset \in Breakers /\ reset.window_start = b.window_start
    BY <1>2 DEF Breakers
  <2> HIDE DEF reset
  <2>3. /\ Opened(reset) \in Breakers /\ Opened(reset).window_start = b.window_start
        /\ Opened(reset).state = "open"
    BY <2>2, <1>1 DEF Breakers, Opened
  <2>4. record_failure(h) = Opened(reset)
    BY <2>1 DEF reset
  <2>5. breakers[h].state /= "closed"
    BY <1>2, <1>6
  <2> HIDE DEF new
  <2>6. Goal(record_failure(h))
    BY <2>3, <2>4, <2>5, <1>2 DEF Counted
  <2> QED
    BY <2>6 DEF new
<1>7. CASE b.state = "open"
  <2>1. record_failure(h) = b /\ breakers[h].state /= "closed"
    BY <1>2, <1>3, <1>7
  <2> HIDE DEF new
  <2>2. Goal(record_failure(h))
    BY <2>1, <1>2, <1>7 DEF Counted
  <2> QED
    BY <2>2 DEF new
<1>8. CASE b.state = "closed"
  <2>1. breakers[h].state = "closed" /\ b = breakers[h] /\ Counted(b, log)
    BY <1>2, <1>8
  <2>2. /\ restarted \in Breakers /\ restarted.failures = 1 /\ restarted.window_start = now_millis
        /\ restarted.state = "closed" /\ restarted.config = b.config
    BY <1>1, <1>2, <1>8 DEF Breakers
  <2>3. /\ added \in Breakers /\ added.failures = b.failures + 1
        /\ added.window_start = b.window_start
        /\ added.state = "closed" /\ added.config = b.config
    <3>1. b.failures + 1 \in Nat
      BY <1>4
    <3> QED
      BY <3>1, <1>2, <1>8 DEF Breakers
  <2>4. /\ Len(log) \in Nat /\ Len(new) = Len(log) + 1 /\ new \in Seq(Results)
        /\ new[Len(log) + 1] = [ok |-> FALSE, at |-> now_millis]
    <3>1. [ok |-> FALSE, at |-> now_millis] \in Results
      BY <1>1 DEF Results
    <3> QED
      BY <3>1, AppendProperties, LenProperties
  <2>5. /\ b.failures + 1 <= Len(new)
        /\ \A i \in 1 .. Len(new) :
             i > Len(new) - (b.failures + 1) => ~new[i].ok /\ b.window_start <= new[i].at
    BY <2>1, <1>1, <1>2, RunGrows
  <2> HIDE DEF new, restarted, added, expired
  <2>6. counted \in Breakers /\ counted.state = "closed" /\ counted.window_start <= now_millis
    BY <2>2, <2>3, <1>1, <1>2
  <2>7. /\ counted.failures <= Len(new) /\ counted.failures \in Nat
        /\ \A i \in 1 .. Len(new) :
             i > Len(new) - counted.failures => ~new[i].ok /\ counted.window_start <= new[i].at
    <3>1. CASE expired
      <4>1. \A i \in 1 .. Len(new) : i > Len(new) - 1 => i = Len(log) + 1
        BY <2>4
      <4> QED
        BY <3>1, <4>1, <2>2, <2>4, <1>1
    <3>2. CASE ~expired
      BY <3>2, <2>3, <2>5, <1>4
    <3> QED
      BY <3>1, <3>2
  <2>8. Counted(counted, new)
    BY <2>7 DEF Counted
  <2>9. now_millis <= counted.window_start + b.config.failure_window
    <3>1. CASE expired
      BY <3>1, <2>2, <1>1, <1>4
    <3>2. CASE ~expired
      BY <3>2, <2>3, <1>1, <1>4 DEF expired
    <3> QED
      BY <3>1, <3>2
  <2> HIDE DEF counted
  <2>10. ASSUME counted.failures >= b.config.failure_threshold PROVE Justified(b, new)
    <3> DEFINE n == b.config.failure_threshold
               last == SubSeq(new, Len(new) - n + 1, Len(new))
    <3>1. n \in Nat \ {0} /\ n <= Len(new) /\ Len(new) \in Nat
      BY <2>4, <2>7, <2>10, <1>4
    <3> HIDE DEF n
    <3>2. \A i \in 1 .. n : last[i] = new[Len(new) - n + i]
      <4>1. Len(new) - n + 1 \in 1 .. Len(new) + 1
        BY <3>1
      <4>2. \A i \in Len(new) - n + 1 .. Len(new) : new[i] \in Results
        BY <2>4, <3>1, ElementOfSeq
      <4>3. /\ Len(last) = Len(new) - (Len(new) - n + 1) + 1
            /\ \A i \in 1 .. Len(last) : last[i] = new[(Len(new) - n + 1) + i - 1]
        BY <4>1, <4>2, <2>4, <3>1, SubSeqProperties
      <4>4. Len(last) = n
        BY <4>3, <3>1
      <4> HIDE DEF last
      <4>5. ASSUME NEW i \in 1 .. n PROVE (Len(new) - n + 1) + i - 1 = Len(new) - n + i
        BY <3>1
      <4> QED
        BY <4>3, <4>4, <4>5
    <3> HIDE DEF last
    <3>3. ASSUME NEW i \in 1 .. n
          PROVE  /\ ~last[i].ok /\ counted.window_start <= last[i].at
                 /\ last[i].at \in Nat
      <4>1. /\ Len(new) - n + i \in 1 .. Len(new)
            /\ Len(new) - n + i > Len(new) - counted.failures
        BY <3>1, <2>7, <2>10 DEF n
      <4>2. new[Len(new) - n + i] \in Results
        BY <4>1, <2>4, ElementOfSeq
      <4> QED
        BY <4>1, <4>2, <3>2, <2>7 DEF Results
    <3>4. last[n].at = now_millis
      <4>1. n \in 1 .. n /\ Len(new) - n + n = Len(log) + 1
        BY <3>1, <2>4
      <4> QED
        BY <4>1, <3>2, <2>4
    <3>5. 1 \in 1 .. n /\ counted.window_start \in Nat
      BY <3>1, <2>6 DEF Breakers
    <3>6. last[n].at - last[1].at <= b.config.failure_window
      BY <3>3, <3>4, <3>5, <2>9, <1>1, <1>4
    <3> QED
      BY <3>1, <3>3, <3>6 DEF Justified, n, last
  <2>11. /\ Opened(counted) \in Breakers /\ Opened(counted).state = "open"
         /\ Opened(counted).window_start = counted.window_start
    BY <2>6, <1>1 DEF Opened, Breakers
  <2>12. Goal(record_failure(h))
    <3>1. CASE counted.failures >= b.config.failure_threshold
      BY <3>1, <2>1, <2>6, <2>10, <2>11, <1>8, <1>5 DEF Counted
    <3>2. CASE ~(counted.failures >= b.config.failure_threshold)
      BY <3>2, <2>6, <2>8, <1>8, <1>5
    <3> QED
      BY <3>1, <3>2
  <2> QED
    BY <2>12 DEF new
<1> QED
  BY <1>4, <1>6, <1>7, <1>8

(* Recording a result keeps BreakerInv and opens a closed breaker justly.  *)
LEMMA RecordBreaker ==
  ASSUME BreakerInv, now \in Nat, now' = now, NEW host, NEW ok \in BOOLEAN, Record(host, ok)
  PROVE  BreakerInv' /\ OpensJustly
<1>1. CASE host \notin DOMAIN breakers
  <2>1. UNCHANGED <<breakers, outcomes>>
    BY <1>1 DEF Record
  <2> QED
    BY <2>1 DEF BreakerInv, OpensJustly, now_millis
<1>2. CASE host \in DOMAIN breakers
  <2> DEFINE b == IF ok THEN record_success(host) ELSE record_failure(host)
             log == Append(outcomes[host], [ok |-> ok, at |-> now_millis])
  <2>1. /\ breakers' = [breakers EXCEPT ![host] = b]
        /\ outcomes' = [outcomes EXCEPT ![host] = log]
    BY <1>2 DEF Record
  <2>2. /\ breakers[host] \in Breakers /\ outcomes[host] \in Seq(Results)
        /\ Counted(breakers[host], outcomes[host]) /\ breakers[host].window_start <= now_millis
    BY <1>2 DEF BreakerInv
  <2>3. log \in Seq(Results)
    <3>1. [ok |-> ok, at |-> now_millis] \in Results
      BY DEF Results, now_millis
    <3> QED
      BY <3>1, <2>2, AppendProperties
  <2>4. /\ b \in Breakers /\ b.window_start <= now_millis /\ Counted(b, log)
        /\ breakers[host].state = "closed" /\ b.state = "open" => Justified(breakers[host], log)
    <3>1. CASE ok
      <4>1. /\ b \in Breakers /\ b.window_start <= now_millis
            /\ b.state = "closed" => b.failures = 0
            /\ breakers[host].state = "closed" => b.state = "closed"
        BY <3>1, <2>2, SuccessForgets
      <4>2. Len(log) \in Nat
        BY <2>3, LenProperties
      <4> HIDE DEF b, log
      <4> QED
        BY <4>1, <4>2 DEF Counted
    <3>2. CASE ~ok
      <4>1. ok = FALSE
        BY <3>2
      <4> QED
        BY <3>2, <4>1, <2>2, FailureCounts
    <3> QED
      BY <3>1, <3>2
  <2> HIDE DEF b, log
  <2>5. DOMAIN breakers' = DOMAIN breakers /\ now_millis' = now_millis
    BY <2>1 DEF now_millis
  <2>6. \A h \in DOMAIN breakers :
          /\ breakers'[h] = (IF h = host THEN b ELSE breakers[h])
          /\ outcomes'[h] = (IF h = host THEN log ELSE outcomes[h])
    BY <2>1 DEF BreakerInv
  <2>7. BreakerInv'
    <3>1. breakers' \in [DOMAIN breakers -> Breakers] /\ outcomes' \in [DOMAIN breakers -> Seq(Results)]
      BY <2>1, <2>3, <2>4 DEF BreakerInv
    <3> QED
      BY <3>1, <2>4, <2>5, <2>6 DEF BreakerInv
  <2>8. OpensJustly
    <3>1. ASSUME NEW h \in DOMAIN breakers, breakers[h].state = "closed", breakers'[h].state = "open"
          PROVE  Justified(breakers[h], outcomes'[h])
      BY <3>1, <2>4, <2>6
    <3> QED
      BY <3>1 DEF OpensJustly, Justified
  <2> QED
    BY <2>7, <2>8
<1> QED
  BY <1>1, <1>2

(* Looking at the clock before a request goes out, as HttpGuard does,      *)
(* closes nothing and opens nothing.                                       *)
LEMMA LookBreaker ==
  ASSUME BreakerInv, now \in Nat, now' = now, UNCHANGED outcomes, NEW hosts,
         breakers' = [h \in DOMAIN breakers |->
                        IF h \in hosts THEN evaluate_state(breakers[h]) ELSE breakers[h]]
  PROVE  BreakerInv' /\ OpensJustly
<1>1. ASSUME NEW h \in DOMAIN breakers
      PROVE  /\ breakers'[h] \in Breakers /\ breakers'[h].window_start = breakers[h].window_start
             /\ breakers[h].state = "closed" => breakers'[h] = breakers[h]
             /\ breakers[h].state /= "closed" => breakers'[h].state /= "closed"
  <2>1. breakers[h] \in Breakers
    BY DEF BreakerInv
  <2> QED
    BY <2>1, EvaluateKeeps
<1>2. now_millis' = now_millis
  BY DEF now_millis
<1>3. ASSUME NEW h \in DOMAIN breakers
      PROVE  Counted(breakers'[h], outcomes[h]) /\ breakers'[h].window_start <= now_millis
  BY <1>1 DEF BreakerInv, Counted
<1>4. BreakerInv'
  BY <1>1, <1>2, <1>3 DEF BreakerInv
<1>5. OpensJustly
  BY <1>1 DEF OpensJustly, BreakerInv, Breakers
<1> QED
  BY <1>4, <1>5

(* Only the HTTP client touches the breakers.                              *)
LEMMA OnlyClientRecords ==
  ASSUME NEW r \in Requests, PluginStep(r)
  PROVE  HttpGuard(r) \/ HttpFail(r) \/ HttpAnswer(r) \/ UNCHANGED <<breakers, outcomes>>
<1>1. CASE Start(r) \/ Finish(r) \/ Answer(r) \/ TransformRequest(r) \/ TransformResponse(r)
  BY <1>1 DEF Start, Finish, Answer, TransformRequest, TransformResponse, shared
<1>2. CASE Pass(r) \/ LogRequest(r) \/ Observe(r) \/ CacheLookup(r) \/ CacheStore(r)
  BY <1>2 DEF Pass, LogRequest, Observe, CacheLookup, CacheStore, shared
<1>3. CASE Trap(r) \/ LogResponse(r) \/ LogSent(r) \/ DispatchHttpUpstream(r) \/ DispatchLambda(r)
  BY <1>3 DEF Trap, LogResponse, LogSent, DispatchHttpUpstream, DispatchLambda, shared
<1>4. CASE DispatchForward(r) \/ DispatchMock(r) \/ DispatchS3(r) \/ HttpResume(r) \/ DispatchWs(r)
  BY <1>4 DEF DispatchForward, DispatchMock, DispatchS3, HttpResume, DispatchWs, shared
<1>5. CASE ConnectWs(r) \/ DispatchKafka(r) \/ DispatchNats(r) \/ KafkaConnect(r) \/ NatsConnect(r)
  BY <1>5 DEF ConnectWs, DispatchKafka, DispatchNats, KafkaConnect, NatsConnect, shared
<1>6. CASE KafkaPublish(r) \/ NatsPublish(r) \/ BrokerResume(r)
  BY <1>6 DEF KafkaPublish, NatsPublish, BrokerResume, shared
<1>7. CASE ProbeCall(r) \/ ProbeResume(r) \/ ProbeEnds(r)
  BY <1>7 DEF ProbeCall, ProbeResume, ProbeEnds, shared
<1>8. CASE UNCHANGED <<started, shared>>
  BY <1>8 DEF shared
<1>9. CASE UNCHANGED <<started, dns, breakers, cache_cleanup, conns, published, reached, outcomes>>
  BY <1>9
<1> QED
  BY <1>1, <1>2, <1>3, <1>4, <1>5, <1>6, <1>7, <1>8, <1>9 DEF PluginStep

(* Breakers that are left alone stay counted while the clock advances.     *)
LEMMA BreakersRest ==
  ASSUME BreakerInv, now \in Nat, now' \in Nat, now <= now', UNCHANGED <<breakers, outcomes>>
  PROVE  BreakerInv' /\ OpensJustly
<1>1. now_millis \in Nat /\ now_millis' \in Nat /\ now_millis <= now_millis'
  BY DEF now_millis
<1>2. ASSUME NEW h \in DOMAIN breakers PROVE breakers[h].window_start <= now_millis'
  <2>1. breakers[h].window_start \in Nat /\ breakers[h].window_start <= now_millis
    BY DEF BreakerInv, Breakers
  <2> QED
    BY <2>1, <1>1
<1> QED
  BY <1>2 DEF BreakerInv, OpensJustly

(* Every step of the host keeps BreakerInv and opens breakers justly.      *)
LEMMA BreakerStep ==
  ASSUME BreakerInv, now \in Nat, [HostNext]_hostVars
  PROVE  BreakerInv' /\ OpensJustly
<1>1. CASE UNCHANGED hostVars
  <2>1. UNCHANGED <<breakers, outcomes, now>>
    BY <1>1 DEF hostVars, shared
  <2> QED
    BY <2>1, BreakersRest
<1>2. CASE Next /\ UNCHANGED <<started, rq, shared>>
  <2>1. now' = now \/ now' = now + 1
    BY <1>2 DEF Next, Tick, Call, SkipCleanup, Cleanup, RefuseNewKey, Allow, Block
  <2>2. now' \in Nat /\ now <= now' /\ UNCHANGED <<breakers, outcomes>>
    BY <1>2, <2>1 DEF shared
  <2> QED
    BY <2>2, BreakersRest
<1>3. CASE Rebind /\ UNCHANGED <<now, limiter>>
  <2>1. UNCHANGED <<breakers, outcomes, now>>
    BY <1>3 DEF Rebind
  <2> QED
    BY <2>1, BreakersRest
<1>4. ASSUME NEW r \in Requests, PluginStep(r), UNCHANGED <<now, limiter>>
      PROVE  BreakerInv' /\ OpensJustly
  <2>1. now' = now
    BY <1>4
  <2>2. CASE HttpGuard(r)
    <3> DEFINE url == rq[r].io.request.url
    <3>1. PICK hosts : breakers' = [h \in DOMAIN breakers |->
                                      IF h \in hosts THEN evaluate_state(breakers[h]) ELSE breakers[h]]
      <4>1. PICK verdict :
              breakers' = [h \in DOMAIN breakers |->
                             IF h = url.host /\ verdict \in {"ok", "circuit_open"}
                             THEN evaluate_state(breakers[h]) ELSE breakers[h]]
        BY <2>2 DEF HttpGuard
      <4> DEFINE hosts == IF verdict \in {"ok", "circuit_open"} THEN {url.host} ELSE {}
      <4>2. \A h : h \in hosts <=> h = url.host /\ verdict \in {"ok", "circuit_open"}
        OBVIOUS
      <4> HIDE DEF hosts
      <4>3. breakers' = [h \in DOMAIN breakers |->
                           IF h \in hosts THEN evaluate_state(breakers[h]) ELSE breakers[h]]
        BY <4>1, <4>2
      <4> QED
        BY <4>3
    <3>2. UNCHANGED outcomes
      BY <2>2 DEF HttpGuard
    <3> QED
      BY <3>1, <3>2, <2>1, LookBreaker
  <2>3. CASE HttpFail(r)
    <3>1. Record(rq[r].io.request.url.host, FALSE)
      BY <2>3 DEF HttpFail
    <3> QED
      BY <3>1, <2>1, RecordBreaker
  <2>4. CASE HttpAnswer(r)
    <3>1. Record(rq[r].io.request.url.host, TRUE)
      BY <2>4 DEF HttpAnswer
    <3> QED
      BY <3>1, <2>1, RecordBreaker
  <2>5. CASE UNCHANGED <<breakers, outcomes>>
    BY <2>1, <2>5, BreakersRest
  <2> QED
    BY <1>4, <2>2, <2>3, <2>4, <2>5, OnlyClientRecords
<1>5. CASE Tick /\ UNCHANGED <<started, rq, shared>>
  BY <1>2, <1>5 DEF Next
<1> QED
  BY <1>1, <1>2, <1>3, <1>4, <1>5 DEF HostNext

(* For any thresholds, windows and interleavings of requests: a closed     *)
(* circuit breaker opens only on its threshold of failures in a row, all   *)
(* of them within one window (CircuitBreaker::record_failure).             *)
THEOREM BreakersOpenJustly == HostSpec => BreakerOpensJustly
<1>1. HostInit => BreakerInv
  <2> SUFFICES ASSUME HostInit PROVE BreakerInv
    OBVIOUS
  <2>1. /\ breakers = [h \in DOMAIN S.breakers |-> NewBreaker(S.breakers[h])]
        /\ outcomes = [h \in DOMAIN S.breakers |-> <<>>]
        /\ scenario \in Scenarios /\ now = 0
    BY DEF HostInit, Init
  <2>2. ASSUME NEW h \in DOMAIN S.breakers
        PROVE  /\ NewBreaker(S.breakers[h]) \in Breakers
               /\ NewBreaker(S.breakers[h]).failures = 0
               /\ NewBreaker(S.breakers[h]).window_start = 0
    BY <2>1, BreakerAssumption DEF NewBreaker, Breakers, S
  <2>3. Len(<<>>) = 0 /\ <<>> \in Seq(Results)
    OBVIOUS
  <2>4. now_millis = 1
    BY <2>1 DEF now_millis
  <2>5. DOMAIN breakers = DOMAIN S.breakers
    BY <2>1
  <2> QED
    BY <2>1, <2>2, <2>3, <2>4, <2>5 DEF BreakerInv, Counted
<1>2. BreakerInv /\ now \in Nat /\ [HostNext]_hostVars => BreakerInv' /\ OpensJustly
  BY BreakerStep
<1> QED
  BY <1>1, <1>2, HostClock, PTL DEF HostSpec, BreakerOpensJustly

-----------------------------------------------------------------------------
(* Egress *)

Fields == {"pc", "i", "msg", "context", "resp", "insts", "s", "io", "entered", "came", "id", "hit",
           "trap", "wire", "reads", "n", "upgraded"}

Permitted(addrs) == S.allow_internal \/ \A a \in addrs : ~ip_is_internal(a)

(* A request between the lookup of its brokers and the connection has      *)
(* addresses that have passed the filter.                                  *)
Waiting(q) ==
  /\ "pc" \in DOMAIN q
  /\ q.pc /= "idle" => DOMAIN q = Fields
  /\ q.pc = "io" => "step" \in DOMAIN q.io
  /\ q.pc = "io" /\ q.io.step = "connect" =>
       Permitted(q.io.addrs) /\ q.io.who = S.dispatcher.plugin

EgressInv ==
  /\ scenario \in Scenarios
  /\ DOMAIN rq = Requests
  /\ \A r \in Requests : Waiting(rq[r])
  /\ EgressConfined

(* Connections to addresses that have passed the filter, or of a library   *)
(* that goes past it, keep the confinement.                                *)
LEMMA ByConfined ==
  ASSUME NEW client, NEW addrs, NEW some \in SUBSET addrs, Permitted(addrs) \/ client \in Unfiltered,
         reached' = reached \/ reached' = reached \cup By(client, some)
  PROVE  S.allow_internal \/ \A c \in reached' : c \in reached \/ Confined(c)
<1> SUFFICES ASSUME ~S.allow_internal, NEW c \in By(client, some) PROVE Confined(c)
  OBVIOUS
<1>1. c[1] = client /\ c[2] \in addrs
  BY DEF By
<1>2. CASE Permitted(addrs)
  BY <1>1, <1>2 DEF Permitted, Confined
<1>3. CASE client \in Unfiltered
  BY <1>1, <1>3 DEF Confined
<1> QED
  BY <1>2, <1>3

(* Request r moves, and no other.                                          *)
Moved(r) ==
  /\ DOMAIN rq' = Requests
  /\ \A u \in Requests \ {r} : rq'[u] = rq[u]
  /\ DOMAIN rq'[r] = Fields

(* What a step of one request owes to the invariant.                       *)
LEMMA RequestMoves ==
  ASSUME EgressInv, NEW r \in Requests, UNCHANGED scenario, DOMAIN rq' = Requests,
         \A u \in Requests \ {r} : rq'[u] = rq[u], Waiting(rq'[r]),
         S.allow_internal \/ \A c \in reached' : c \in reached \/ Confined(c)
  PROVE  EgressInv'
<1>1. \A u \in Requests : Waiting(rq'[u])
  BY DEF EgressInv
<1>2. \A u \in Requests : Waiting(rq[u])'
  BY <1>1 DEF Waiting, Permitted, S
<1>3. EgressConfined'
  BY DEF EgressInv, EgressConfined, S
<1> QED
  BY <1>2, <1>3 DEF EgressInv

(* A step that leaves the request outside a blocking call.                 *)
LEMMA QuietMove ==
  ASSUME EgressInv, NEW r \in Requests, UNCHANGED scenario, Moved(r), rq'[r].pc /= "io",
         S.allow_internal \/ \A c \in reached' : c \in reached \/ Confined(c)
  PROVE  EgressInv'
<1>1. Waiting(rq'[r])
  BY DEF Moved, Waiting, Fields
<1> QED
  BY <1>1, RequestMoves DEF Moved

(* The updates a handler makes to its request, one lemma for each form.    *)
LEMMA ContinueMoves ==
  ASSUME DOMAIN rq = Requests, NEW r \in Requests, DOMAIN rq[r] = Fields, NEW s, NEW msg,
         Continue(r, s, msg)
  PROVE  Moved(r) /\ rq'[r].pc = rq[r].pc
BY DEF Continue, Moved, Fields

(* on_response of a middleware has returned.                               *)
LEMMA ReturnMoves ==
  ASSUME DOMAIN rq = Requests, NEW r \in Requests, DOMAIN rq[r] = Fields, NEW s, NEW resp,
         Return(r, s, resp)
  PROVE  Moved(r) /\ rq'[r].pc = "response"
BY DEF Return, Moved, Fields

(* A dispatcher has returned its response.                                 *)
LEMMA DispatchedMoves ==
  ASSUME DOMAIN rq = Requests, NEW r \in Requests, DOMAIN rq[r] = Fields, NEW s, NEW resp,
         Dispatched(r, s, resp)
  PROVE  Moved(r) /\ rq'[r].pc = "response"
BY DEF Dispatched, Moved, Fields

(* A handler blocks in a host function.                                    *)
LEMMA SuspendMoves ==
  ASSUME DOMAIN rq = Requests, NEW r \in Requests, DOMAIN rq[r] = Fields, NEW s, NEW io,
         Suspend(r, s, io)
  PROVE  Moved(r) /\ rq'[r].pc = "io" /\ rq'[r].io = io
BY DEF Suspend, Moved, Fields

(* A host function returns to its guest.                                   *)
LEMMA BackMoves ==
  ASSUME DOMAIN rq = Requests, NEW r \in Requests, DOMAIN rq[r] = Fields,
         "step" \in DOMAIN rq[r].io, NEW s, Back(r, s)
  PROVE  /\ Moved(r) /\ rq'[r].pc = rq[r].pc
         /\ rq'[r].io.step = "back" /\ DOMAIN rq'[r].io = DOMAIN rq[r].io
BY DEF Back, Moved, Fields

(* A step that leaves the request in a blocking call, but not before a     *)
(* connection to a broker.                                                 *)
LEMMA BlockedMove ==
  ASSUME EgressInv, NEW r \in Requests, UNCHANGED scenario, Moved(r), rq'[r].pc = "io",
         "step" \in DOMAIN rq'[r].io, rq'[r].io.step /= "connect",
         S.allow_internal \/ \A c \in reached' : c \in reached \/ Confined(c)
  PROVE  EgressInv'
<1>1. Waiting(rq'[r])
  BY DEF Moved, Waiting, Fields
<1> QED
  BY <1>1, RequestMoves DEF Moved

(* A request that is not idle has all its fields.                          *)
LEMMA ActiveFields ==
  ASSUME EgressInv, NEW r \in Requests, rq[r].pc /= "idle"
  PROVE  DOMAIN rq = Requests /\ DOMAIN rq[r] = Fields
BY DEF EgressInv, Waiting

(* A request in a blocking call has a step.                                *)
LEMMA BlockedFields ==
  ASSUME EgressInv, NEW r \in Requests, rq[r].pc = "io"
  PROVE  DOMAIN rq = Requests /\ DOMAIN rq[r] = Fields /\ "step" \in DOMAIN rq[r].io
BY DEF EgressInv, Waiting

(* A call of the HTTP client waits for its guard first.                    *)
LEMMA BlockingMoves ==
  ASSUME EgressInv, NEW r \in Requests, rq[r].pc /= "idle", NEW s, NEW who, NEW request,
         Blocking(r, s, who, request), UNCHANGED <<scenario, reached>>
  PROVE  EgressInv'
<1>1. DOMAIN rq = Requests /\ DOMAIN rq[r] = Fields
  BY ActiveFields
<1>2. PICK state, sent : Suspend(r, state, [who |-> who, step |-> "guard", request |-> sent])
  BY DEF Blocking
<1>3. Moved(r) /\ rq'[r].pc = "io" /\ rq'[r].io = [who |-> who, step |-> "guard", request |-> sent]
  BY <1>1, <1>2, SuspendMoves
<1>4. "step" \in DOMAIN rq'[r].io /\ rq'[r].io.step /= "connect"
  BY <1>3
<1> QED
  BY <1>3, <1>4, BlockedMove

(* Handlers that do not call out.                                          *)
LEMMA HandlerEgress ==
  ASSUME EgressInv, NEW r \in Requests, UNCHANGED scenario,
         \/ Answer(r) \/ TransformRequest(r) \/ TransformResponse(r) \/ Pass(r) \/ LogRequest(r)
         \/ Observe(r) \/ CacheLookup(r) \/ CacheStore(r) \/ LogSent(r)
  PROVE  EgressInv'
<1>1. /\ rq[r].pc \in {"request", "response", "io"}
      /\ UNCHANGED reached
  BY DEF Answer, TransformRequest, TransformResponse, Pass, LogRequest, Observe, CacheLookup,
         CacheStore, LogSent, AtRequest, AtResponse, Resumes, AtStep, shared
<1>2. DOMAIN rq = Requests /\ DOMAIN rq[r] = Fields
  BY <1>1, ActiveFields
<1>3. ASSUME NEW s, NEW msg, Continue(r, s, msg), rq[r].pc = "request"
      PROVE  EgressInv'
  BY <1>1, <1>2, <1>3, ContinueMoves, QuietMove
<1>4. ASSUME NEW s, NEW resp, Return(r, s, resp) PROVE EgressInv'
  BY <1>1, <1>2, <1>4, ReturnMoves, QuietMove
<1>5. CASE Answer(r)
  <2>1. Moved(r) /\ rq'[r].pc = "done"
    BY <1>2, <1>5 DEF Answer, Moved, Fields
  <2> QED
    BY <1>1, <2>1, QuietMove
<1>6. CASE TransformRequest(r)
  BY <1>3, <1>6 DEF TransformRequest, AtRequest
<1>7. CASE TransformResponse(r)
  BY <1>4, <1>7 DEF TransformResponse
<1>8. CASE Pass(r)
  BY <1>3, <1>4, <1>8 DEF Pass, AtRequest
<1>9. CASE LogRequest(r)
  BY <1>3, <1>9 DEF LogRequest, AtRequest
<1>10. CASE Observe(r)
  BY <1>3, <1>4, <1>10 DEF Observe, AtRequest
<1>11. CASE CacheStore(r)
  BY <1>4, <1>11 DEF CacheStore
<1>12. CASE LogSent(r)
  BY <1>4, <1>12 DEF LogSent
<1>13. CASE CacheLookup(r)
  <2> DEFINE config == Middleware(r).config
             s == Handler(r, rq[r].msg.body)
             key == build_cache_key(config, rq[r].msg)
             found == cache_get(namespace_key("cache", key))
             keyed == [read_result(host_cache_get(s, found).state, "cache").state EXCEPT !.guest = {key}]
             e == CHOOSE e \in found : TRUE
             hit == {[entry |-> e, at |-> now, config |-> config]}
             resp == [status |-> e.status, body |-> e.body, headers |-> Put(e.headers, "x-cache", "HIT")]
  <2>1. \/ Continue(r, [s EXCEPT !.guest = {}], rq[r].msg) \/ Continue(r, keyed, rq[r].msg)
        \/ rq' = [rq EXCEPT ![r].pc = "response", ![r].i = rq[r].i - 1, ![r].insts[rq[r].i] = keyed,
                            ![r].resp = resp, ![r].hit = hit]
    BY <1>13, Zenon DEF CacheLookup
  <2> HIDE DEF s, keyed, hit, resp
  <2>2. ASSUME rq' = [rq EXCEPT ![r].pc = "response", ![r].i = rq[r].i - 1, ![r].insts[rq[r].i] = keyed,
                                ![r].resp = resp, ![r].hit = hit]
        PROVE  Moved(r) /\ rq'[r].pc = "response"
    BY <1>2, <2>2 DEF Moved, Fields
  <2>3. rq[r].pc = "request"
    BY <1>13 DEF CacheLookup, AtRequest
  <2> QED
    BY <1>1, <1>3, <2>1, <2>2, <2>3, QuietMove
<1> QED
  BY <1>5, <1>6, <1>7, <1>8, <1>9, <1>10, <1>11, <1>12, <1>13

(* The filter leaves nothing internal.                                     *)
LEMMA FilterPermits == ASSUME NEW addrs PROVE Permitted(permitted_addrs(addrs))
BY DEF Permitted, permitted_addrs

(* The beginning and the end of a request.                                 *)
LEMMA LifecycleEgress ==
  ASSUME EgressInv, NEW r \in Requests, UNCHANGED scenario, Start(r) \/ Finish(r)
  PROVE  EgressInv'
<1>1. UNCHANGED reached /\ DOMAIN rq = Requests
  BY DEF Start, Finish, shared, EgressInv
<1>2. CASE Start(r)
  <2>1. Moved(r) /\ rq'[r].pc = "request"
    BY <1>1, <1>2 DEF Start, Moved, Fields
  <2> QED
    BY <1>1, <2>1, QuietMove
<1>3. CASE Finish(r)
  <2>1. rq' = [rq EXCEPT ![r] = [pc |-> "idle"]]
    BY <1>3 DEF Finish
  <2>2. rq'[r] = [pc |-> "idle"]
    BY <1>1, <2>1
  <2>3. Waiting(rq'[r])
    BY <2>2 DEF Waiting
  <2> QED
    BY <1>1, <2>1, <2>3, RequestMoves
<1> QED
  BY <1>2, <1>3

(* The HTTP client: what it connects to has passed the resolver, whatever  *)
(* the name meant when the guard looked.                                   *)
LEMMA ClientEgress ==
  ASSUME EgressInv, NEW r \in Requests, UNCHANGED scenario,
         HttpGuard(r) \/ HttpFail(r) \/ HttpAnswer(r) \/ Trap(r)
  PROVE  EgressInv'
<1>1. rq[r].pc = "io"
  BY DEF HttpGuard, HttpFail, HttpAnswer, Trap, AtStep
<1>2. DOMAIN rq = Requests /\ DOMAIN rq[r] = Fields /\ "step" \in DOMAIN rq[r].io
  BY <1>1, BlockedFields
<1>3. ASSUME NEW s, Back(r, s)
      PROVE  Moved(r) /\ rq'[r].pc = "io" /\ "step" \in DOMAIN rq'[r].io /\ rq'[r].io.step /= "connect"
  BY <1>1, <1>2, <1>3, BackMoves
<1>4. CASE HttpGuard(r)
  <2>1. UNCHANGED reached
    BY <1>4 DEF HttpGuard
  <2>2. rq' = [rq EXCEPT ![r].io.step = "send"] \/ \E s : Back(r, s)
    BY <1>4 DEF HttpGuard
  <2>3. ASSUME rq' = [rq EXCEPT ![r].io.step = "send"]
        PROVE  Moved(r) /\ rq'[r].pc = "io" /\ "step" \in DOMAIN rq'[r].io /\ rq'[r].io.step /= "connect"
    BY <1>1, <1>2, <2>3 DEF Moved, Fields
  <2> QED
    BY <1>3, <2>1, <2>2, <2>3, BlockedMove
<1>5. CASE HttpFail(r)
  <2> DEFINE addrs == GuardedResolver(rq[r].io.request.url.host)
  <2>1. Permitted(addrs)
    BY FilterPermits DEF GuardedResolver
  <2>2. (reached' = reached \/ reached' = reached \cup By("http", addrs)) /\ \E s : Back(r, s)
    BY <1>5 DEF HttpFail
  <2> HIDE DEF addrs
  <2>3. S.allow_internal \/ \A c \in reached' : c \in reached \/ Confined(c)
    BY <2>1, <2>2, ByConfined
  <2> QED
    BY <1>3, <2>2, <2>3, BlockedMove
<1>6. CASE HttpAnswer(r)
  <2> DEFINE addrs == GuardedResolver(rq[r].io.request.url.host)
  <2>1. Permitted(addrs)
    BY FilterPermits DEF GuardedResolver
  <2> DEFINE host == rq[r].io.request.url.host
             back(answer) == IF answer.body = {[kind |-> "oversized"]}
                             THEN host_http_call_returns(rq[r].s, error_head("too_large"), {}, now)
                             ELSE host_http_call_returns(rq[r].s, [status |-> answer.status,
                                                                   headers |-> answer.headers],
                                                         answer.body, now)
             wire == {Wire(rq[r].io.request)}
  <2>2. PICK a \in addrs, answer \in S.answers :
          /\ reached' = reached \cup By("http", {a})
          /\ rq' = [rq EXCEPT ![r].s = back(answer), ![r].io.step = "back", ![r].entered = now, ![r].wire = wire]
    BY <1>6, Zenon DEF HttpAnswer
  <2> HIDE DEF addrs, back, wire
  <2>3. S.allow_internal \/ \A c \in reached' : c \in reached \/ Confined(c)
    <3>1. {a} \in SUBSET addrs
      BY <2>2
    <3> QED
      BY <2>1, <2>2, <3>1, ByConfined
  <2>4. Moved(r) /\ rq'[r].pc = "io" /\ "step" \in DOMAIN rq'[r].io /\ rq'[r].io.step /= "connect"
    BY <1>1, <1>2, <2>2 DEF Moved, Fields
  <2> QED
    BY <2>3, <2>4, BlockedMove
<1>7. CASE Trap(r)
  <2>1. UNCHANGED reached
    BY <1>7 DEF Trap, shared
  <2>2. Moved(r) /\ rq'[r].pc \in {"response", "done"}
    BY <1>2, <1>7 DEF Trap, Moved, Fields
  <2> QED
    BY <2>1, <2>2, QuietMove
<1> QED
  BY <1>4, <1>5, <1>6, <1>7

(* Dispatchers that use the HTTP client, or nothing.                       *)
LEMMA DispatchEgress ==
  ASSUME EgressInv, NEW r \in Requests, UNCHANGED scenario,
         \/ LogResponse(r) \/ DispatchHttpUpstream(r) \/ DispatchLambda(r) \/ DispatchForward(r)
         \/ DispatchMock(r) \/ DispatchS3(r) \/ HttpResume(r) \/ BrokerResume(r)
  PROVE  EgressInv'
<1>1. UNCHANGED reached
  BY DEF LogResponse, DispatchHttpUpstream, DispatchLambda, DispatchForward, DispatchMock,
         DispatchS3, HttpResume, BrokerResume, shared
<1>2. rq[r].pc \in {"request", "response", "io"}
  BY DEF LogResponse, DispatchHttpUpstream, DispatchLambda, DispatchForward, DispatchMock,
         DispatchS3, HttpResume, BrokerResume, AtResponse, AtDispatch, Resumes, AtStep
<1>3. DOMAIN rq = Requests /\ DOMAIN rq[r] = Fields
  BY <1>2, ActiveFields
<1>4. ASSUME NEW s, NEW resp, Dispatched(r, s, resp) PROVE EgressInv'
  BY <1>1, <1>3, <1>4, DispatchedMoves, QuietMove
<1>5. ASSUME NEW request, CallOut(r, request) PROVE EgressInv'
  BY <1>1, <1>2, <1>5, BlockingMoves DEF CallOut
<1>6. CASE LogResponse(r)
  BY <1>1, <1>2, <1>6, BlockingMoves DEF LogResponse
<1>7. CASE DispatchHttpUpstream(r)
  BY <1>5, <1>7 DEF DispatchHttpUpstream
<1>8. CASE DispatchLambda(r)
  BY <1>5, <1>8 DEF DispatchLambda
<1>9. CASE DispatchForward(r)
  BY <1>5, <1>9 DEF DispatchForward
<1>10. CASE DispatchMock(r)
  BY <1>4, <1>10 DEF DispatchMock
<1>11. CASE DispatchS3(r)
  BY <1>4, <1>5, <1>11 DEF DispatchS3
<1>12. CASE HttpResume(r)
  <2>1. rq[r].pc = "io"
    BY <1>12 DEF HttpResume, Resumes, AtStep
  <2>2. \/ \E s, resp : Dispatched(r, s, resp)
        \/ \E s, who, sent :
             rq' = [rq EXCEPT ![r].n = 1, ![r].s = s, ![r].io = [who |-> who, step |-> "guard", request |-> sent]]
    BY <1>12 DEF HttpResume
  <2>3. ASSUME NEW s, NEW who, NEW sent,
               rq' = [rq EXCEPT ![r].n = 1, ![r].s = s, ![r].io = [who |-> who, step |-> "guard", request |-> sent]]
        PROVE  Moved(r) /\ rq'[r].pc = "io" /\ "step" \in DOMAIN rq'[r].io /\ rq'[r].io.step /= "connect"
    BY <1>3, <2>1, <2>3 DEF Moved, Fields
  <2> QED
    BY <1>1, <1>4, <2>2, <2>3, BlockedMove
<1>13. CASE BrokerResume(r)
  BY <1>4, <1>13 DEF BrokerResume
<1> QED
  BY <1>6, <1>7, <1>8, <1>9, <1>10, <1>11, <1>12, <1>13

(* A lookup for a broker or a websocket leaves nothing internal.           *)
LEMMA ResolvedPermits == ASSUME NEW host PROVE Permitted(resolve_permitted_addrs(host).addrs)
BY FilterPermits DEF resolve_permitted_addrs

(* The websocket upgrade is pinned to the addresses its lookup has left.   *)
LEMMA SocketEgress ==
  ASSUME EgressInv, NEW r \in Requests, UNCHANGED scenario, DispatchWs(r) \/ ConnectWs(r)
  PROVE  EgressInv'
<1>1. rq[r].pc \in {"request", "upgrade"}
  BY DEF DispatchWs, ConnectWs, AtDispatch
<1>2. DOMAIN rq = Requests /\ DOMAIN rq[r] = Fields
  BY <1>1, ActiveFields
<1>3. CASE DispatchWs(r)
  <2>1. UNCHANGED reached
    BY <1>3 DEF DispatchWs, shared
  <2>2. \/ \E s, resp : Dispatched(r, s, resp)
        \/ \E s, values : rq' = [rq EXCEPT ![r].pc = "upgrade", ![r].s = s, ![r].context = values,
                                           ![r].resp = SwitchingProtocols]
    BY <1>3 DEF DispatchWs
  <2>3. Moved(r) /\ rq'[r].pc \in {"response", "upgrade"}
    <3>1. ASSUME NEW s, NEW resp, Dispatched(r, s, resp) PROVE Moved(r) /\ rq'[r].pc = "response"
      BY <1>2, <3>1, DispatchedMoves
    <3>2. ASSUME NEW s, NEW values,
                 rq' = [rq EXCEPT ![r].pc = "upgrade", ![r].s = s, ![r].context = values,
                                  ![r].resp = SwitchingProtocols]
          PROVE  Moved(r) /\ rq'[r].pc = "upgrade"
      BY <1>2, <3>2 DEF Moved, Fields
    <3> QED
      BY <2>2, <3>1, <3>2
  <2> QED
    BY <2>1, <2>3, QuietMove
<1>4. CASE ConnectWs(r)
  <2>1. PICK addrs :
          /\ Permitted(addrs)
          /\ \/ /\ \E a \in addrs : reached' = reached \cup By("ws", {a})
                /\ rq' = [rq EXCEPT ![r].pc = "response", ![r].i = Len(S.chain), ![r].upgraded = TRUE]
             \/ /\ rq' = [rq EXCEPT ![r].pc = "done", ![r].resp = Problem(500)]
                /\ UNCHANGED reached
    BY <1>4, ResolvedPermits DEF ConnectWs
  <2>2. S.allow_internal \/ \A c \in reached' : c \in reached \/ Confined(c)
    <3>1. CASE reached' = reached
      BY <3>1
    <3>2. ASSUME NEW a \in addrs, reached' = reached \cup By("ws", {a})
          PROVE  S.allow_internal \/ \A c \in reached' : c \in reached \/ Confined(c)
      <4>1. {a} \in SUBSET addrs /\ Permitted(addrs)
        BY <2>1
      <4> QED
        BY <3>2, <4>1, ByConfined
    <3> QED
      BY <2>1, <3>1, <3>2
  <2>3. Moved(r) /\ rq'[r].pc \in {"response", "done"}
    BY <1>2, <2>1 DEF Moved, Fields
  <2> QED
    BY <2>2, <2>3, QuietMove
<1> QED
  BY <1>3, <1>4

(* get_or_connect of the brokers: the lookup keeps its addresses in the    *)
(* blocking call, and the connection uses no others unless a tls url makes *)
(* the client look again.                                                  *)
LEMMA LookupEgress ==
  ASSUME EgressInv, NEW r \in Requests, UNCHANGED <<scenario, reached>>, rq[r].pc = "request", Publishing(r)
  PROVE  EgressInv'
<1>1. DOMAIN rq = Requests /\ DOMAIN rq[r] = Fields
  BY ActiveFields
<1> DEFINE found == [b \in Config.brokers |-> resolve_permitted_addrs(b)]
           io(step, addrs) == [who |-> S.dispatcher.plugin, message |-> BrokerMessage(Config, rq[r].msg),
                               step |-> step, addrs |-> addrs]
           all == UNION {found[b].addrs : b \in Config.brokers}
<1>2. PICK s, step, addrs :
        /\ Suspend(r, s, io(step, addrs))
        /\ addrs = {} \/ addrs = all
  BY DEF Publishing
<1>3. Permitted(all)
  <2>1. \A b \in Config.brokers : Permitted(found[b].addrs)
    BY ResolvedPermits
  <2> QED
    BY <2>1 DEF Permitted
<1>4. Permitted({})
  BY DEF Permitted
<1>5. Permitted(addrs)
  BY <1>2, <1>3, <1>4
<1>6. Moved(r) /\ rq'[r].pc = "io" /\ rq'[r].io = io(step, addrs)
  <2> HIDE DEF io
  <2> QED
    BY <1>1, <1>2, SuspendMoves
<1>7. /\ "step" \in DOMAIN rq'[r].io
      /\ rq'[r].io.addrs = addrs /\ rq'[r].io.who = S.dispatcher.plugin
  BY <1>6
<1>8. Waiting(rq'[r])
  BY <1>5, <1>6, <1>7 DEF Waiting, Moved, Fields
<1> QED
  BY <1>6, <1>8, RequestMoves DEF Moved

(* The connection of kafka and of nats.                                    *)
LEMMA ConnectEgress ==
  ASSUME EgressInv, NEW r \in Requests, UNCHANGED scenario, AtStep(r, "connect"),
         NEW client, NEW addrs, Connects(r, client, addrs), Permitted(addrs) \/ client \in Unfiltered
  PROVE  EgressInv'
<1>1. rq[r].pc = "io"
  BY DEF AtStep
<1>2. DOMAIN rq = Requests /\ DOMAIN rq[r] = Fields /\ "step" \in DOMAIN rq[r].io
  BY <1>1, BlockedFields
<1>3. /\ \E step \in {"refused", "publish"} : rq' = [rq EXCEPT ![r].io.step = step]
      /\ reached' = reached \/ \E a \in addrs : reached' = reached \cup By(client, {a})
  BY DEF Connects
<1>4. S.allow_internal \/ \A c \in reached' : c \in reached \/ Confined(c)
  <2>1. CASE reached' = reached
    BY <2>1
  <2>2. ASSUME NEW a \in addrs, reached' = reached \cup By(client, {a})
        PROVE  S.allow_internal \/ \A c \in reached' : c \in reached \/ Confined(c)
    <3>1. {a} \in SUBSET addrs
      OBVIOUS
    <3> QED
      BY <2>2, <3>1, ByConfined
  <2> QED
    BY <1>3, <2>1, <2>2
<1>5. Moved(r) /\ rq'[r].pc = "io" /\ "step" \in DOMAIN rq'[r].io /\ rq'[r].io.step /= "connect"
  BY <1>1, <1>2, <1>3 DEF Moved, Fields
<1> QED
  BY <1>4, <1>5, BlockedMove

(* The dispatchers of kafka and nats.                                      *)
LEMMA BrokerEgress ==
  ASSUME EgressInv, NEW r \in Requests, UNCHANGED scenario,
         \/ DispatchKafka(r) \/ DispatchNats(r) \/ KafkaConnect(r) \/ NatsConnect(r)
         \/ KafkaPublish(r) \/ NatsPublish(r)
  PROVE  EgressInv'
<1>1. CASE DispatchKafka(r) \/ DispatchNats(r)
  <2>1. UNCHANGED reached /\ rq[r].pc = "request" /\ Publishing(r)
    BY <1>1 DEF DispatchKafka, DispatchNats, AtDispatch, shared
  <2> QED
    BY <2>1, LookupEgress
<1>2. ASSUME AtStep(r, "connect") PROVE Permitted(rq[r].io.addrs) /\ rq[r].io.who = S.dispatcher.plugin
  BY <1>2 DEF AtStep, EgressInv, Waiting
<1>3. CASE KafkaConnect(r)
  <2>1. AtStep(r, "connect") /\ Connects(r, "kafka", rq[r].io.addrs)
    BY <1>3 DEF KafkaConnect
  <2> QED
    BY <1>2, <2>1, ConnectEgress
<1>4. CASE NatsConnect(r)
  <2>1. AtStep(r, "connect") /\ "nats tls" \in Unfiltered
    BY <1>4 DEF NatsConnect, Unfiltered
  <2>2. CASE Connects(r, "nats tls", UNION {dns[b] : b \in Config.brokers})
    BY <2>1, <2>2, ConnectEgress
  <2>3. CASE Connects(r, "nats", rq[r].io.addrs)
    BY <1>2, <2>1, <2>3, ConnectEgress
  <2> QED
    BY <1>4, <2>2, <2>3 DEF NatsConnect
<1>5. CASE KafkaPublish(r) \/ NatsPublish(r)
  <2>1. rq[r].pc = "io"
    BY <1>5 DEF KafkaPublish, NatsPublish, AtStep
  <2>2. DOMAIN rq = Requests /\ DOMAIN rq[r] = Fields /\ "step" \in DOMAIN rq[r].io
    BY <2>1, BlockedFields
  <2>3. PICK s : Back(r, s)
    BY <1>5 DEF KafkaPublish, NatsPublish
  <2>4. S.allow_internal \/ \A c \in reached' : c \in reached \/ Confined(c)
    <3>1. reached' = reached \/ \E a : reached' = reached \cup By("kafka leader", {a})
      BY <1>5 DEF KafkaPublish, NatsPublish, PartitionLeader
    <3>2. CASE reached' = reached
      BY <3>2
    <3>3. ASSUME NEW a, reached' = reached \cup By("kafka leader", {a})
          PROVE  S.allow_internal \/ \A c \in reached' : c \in reached \/ Confined(c)
      <4>1. {a} \in SUBSET {a} /\ "kafka leader" \in Unfiltered
        BY DEF Unfiltered
      <4> QED
        BY <3>3, <4>1, ByConfined
    <3> QED
      BY <3>1, <3>2, <3>3
  <2> QED
    BY <2>1, <2>2, <2>3, <2>4, BackMoves, BlockedMove
<1> QED
  BY <1>1, <1>3, <1>4, <1>5

(* A guest that calls the host in any order.                               *)
LEMMA ProbeEgress ==
  ASSUME EgressInv, NEW r \in Requests, UNCHANGED <<scenario, reached>>,
         \/ ProbeCall(r) \/ ProbeResume(r) \/ ProbeEnds(r) \/ ProbeMemory(r) \/ ProbeCache(r)
  PROVE  EgressInv'
<1>1. rq[r].pc \in {"request", "io"}
  BY DEF ProbeCall, ProbeResume, ProbeEnds, ProbeMemory, ProbeCache, Probing, AtDispatch, Resumes, AtStep
<1>2. DOMAIN rq = Requests /\ DOMAIN rq[r] = Fields
  BY <1>1, ActiveFields
<1>3. CASE ProbeCall(r)
  <2>1. PICK s, request :
          rq' = [rq EXCEPT ![r].pc = "io", ![r].s = s,
                           ![r].io = [who |-> "probe", step |-> "guard", request |-> request],
                           ![r].n = rq[r].n + 1]
    BY <1>3 DEF ProbeCall
  <2>2. Moved(r) /\ rq'[r].pc = "io" /\ "step" \in DOMAIN rq'[r].io /\ rq'[r].io.step /= "connect"
    BY <1>2, <2>1 DEF Moved, Fields
  <2> QED
    BY <2>2, BlockedMove
<1>4. CASE ProbeResume(r)
  <2>1. \/ rq' = [rq EXCEPT ![r].pc = "request"]
        \/ \E s, reads : rq' = [rq EXCEPT ![r].pc = "request", ![r].s = s, ![r].reads = @ \cup reads]
    BY <1>4 DEF ProbeResume
  <2>2. Moved(r) /\ rq'[r].pc = "request"
    BY ZenonT(60), <1>2, <2>1 DEF Moved, Fields
  <2> QED
    BY <2>2, QuietMove
<1>5. CASE ProbeEnds(r)
  <2>1. PICK s, resp : Dispatched(r, s, resp)
    BY <1>5 DEF ProbeEnds
  <2> QED
    BY <1>2, <2>1, DispatchedMoves, QuietMove
<1>6. ASSUME NEW s, Probed(r, s), rq[r].pc = "request" PROVE EgressInv'
  <2>1. Moved(r) /\ rq'[r].pc = "request"
    BY <1>2, <1>6 DEF Probed, Moved, Fields
  <2> QED
    BY <2>1, QuietMove
<1>7. ASSUME NEW s, NEW c, NEW data, Noted(r, s, c, data), rq[r].pc = "request" PROVE EgressInv'
  <2>1. Moved(r) /\ rq'[r].pc = "request"
    BY <1>2, <1>7 DEF Noted, Moved, Fields
  <2> QED
    BY <2>1, QuietMove
<1>8. CASE ProbeMemory(r)
  BY <1>6, <1>7, <1>8 DEF ProbeMemory, Probing, AtDispatch
<1>9. CASE ProbeCache(r)
  BY <1>6, <1>7, <1>9 DEF ProbeCache, Probing, AtDispatch
<1> QED
  BY <1>3, <1>4, <1>5, <1>8, <1>9

(* Every step of the host.                                                 *)
LEMMA EgressStep == ASSUME EgressInv, [HostNext]_hostVars PROVE EgressInv'
<1>1. ASSUME UNCHANGED <<scenario, rq, reached>> PROVE EgressInv'
  BY <1>1 DEF EgressInv, Waiting, Permitted, EgressConfined, S
<1>2. CASE UNCHANGED hostVars
  BY <1>1, <1>2 DEF hostVars, shared
<1>3. ASSUME UNCHANGED scenario, NEW r \in Requests, PluginStep(r) PROVE EgressInv'
  <2>1. CASE Start(r) \/ Finish(r)
    BY <1>3, <2>1, LifecycleEgress
  <2>2. CASE \/ Answer(r) \/ TransformRequest(r) \/ TransformResponse(r) \/ Pass(r) \/ LogRequest(r)
             \/ Observe(r) \/ CacheLookup(r) \/ CacheStore(r) \/ LogSent(r)
    BY <1>3, <2>2, HandlerEgress
  <2>3. CASE HttpGuard(r) \/ HttpFail(r) \/ HttpAnswer(r) \/ Trap(r)
    BY <1>3, <2>3, ClientEgress
  <2>4. CASE \/ LogResponse(r) \/ DispatchHttpUpstream(r) \/ DispatchLambda(r) \/ DispatchForward(r)
             \/ DispatchMock(r) \/ DispatchS3(r) \/ HttpResume(r) \/ BrokerResume(r)
    BY <1>3, <2>4, DispatchEgress
  <2>5. CASE DispatchWs(r) \/ ConnectWs(r)
    BY <1>3, <2>5, SocketEgress
  <2>6. CASE \/ DispatchKafka(r) \/ DispatchNats(r) \/ KafkaConnect(r) \/ NatsConnect(r)
             \/ KafkaPublish(r) \/ NatsPublish(r)
    BY <1>3, <2>6, BrokerEgress
  <2>7. CASE \/ ProbeCall(r) \/ ProbeResume(r) \/ ProbeEnds(r)
             \/ (ProbeMemory(r) /\ UNCHANGED <<started, shared>>)
             \/ (ProbeCache(r) /\ UNCHANGED <<started, dns, breakers, cache_cleanup, conns, published,
                                               reached, outcomes>>)
    <3>1. UNCHANGED reached
      BY <2>7 DEF ProbeCall, ProbeResume, ProbeEnds, shared
    <3> QED
      BY <1>3, <2>7, <3>1, ProbeEgress
  <2> QED
    BY <1>3, <2>1, <2>2, <2>3, <2>4, <2>5, <2>6, <2>7 DEF PluginStep
<1>4. CASE UNCHANGED <<scenario, rq>> /\ (Rebind \/ UNCHANGED shared)
  BY <1>1, <1>4 DEF Rebind, shared
<1> QED
  BY <1>2, <1>3, <1>4 DEF HostNext, Rebind

(* Nothing has been reached at first.                                      *)
LEMMA EgressInit == ASSUME HostInit PROVE EgressInv
<1>1. scenario \in Scenarios /\ rq = [r \in Requests |-> [pc |-> "idle"]] /\ reached = {}
  BY DEF HostInit
<1>2. \A r \in Requests : Waiting(rq[r])
  BY <1>1 DEF Waiting
<1> QED
  BY <1>1, <1>2 DEF EgressInv, EgressConfined

(* For any configuration of the plugins, any number of requests and any    *)
(* rebinding of names between the check, the lookup and the connection: an *)
(* internal address is reached only by async_nats with a tls url, or by    *)
(* rskafka at the address that a broker advertises (GuardedResolver,       *)
(* resolve_permitted_addrs).                                               *)
THEOREM EgressStaysConfined == HostSpec => []EgressConfined
<1>1. HostInit => EgressInv
  BY EgressInit
<1>2. EgressInv /\ [HostNext]_hostVars => EgressInv'
  BY EgressStep
<1>3. EgressInv => EgressConfined
  BY DEF EgressInv
<1> QED
  BY <1>1, <1>2, <1>3, PTL DEF HostSpec

-----------------------------------------------------------------------------
(* Calls of the plugins to the host.  The invariant follows a request from *)
(* its arrival to its end: whose turn it is, what the slots of the         *)
(* dispatcher's instance hold, and how far its message is.                 *)

(* What every PluginState has. *)
StateFields == {"name", "secrets", "values", "output", "slot", "request_body", "output_body",
                "http_request_body", "http_response_body", "ws_upgrade_request", "deadline", "guest"}

WellFormed(s) == DOMAIN s = StateFields /\ DOMAIN s.slot = Channels

Places == 1 .. Len(S.chain)

(* Where a request is: which middleware's turn it is, and for whom a call  *)
(* is out.                                                                 *)
Turn(q) ==
  /\ q.pc \in {"request", "io", "upgrade", "response", "done"}
  /\ DOMAIN q.insts = Places /\ \A j \in Places : WellFormed(q.insts[j])
  /\ q.pc \in {"request", "io"} => WellFormed(q.s)
  /\ q.pc = "request" \/ (q.pc = "io" /\ q.io.who = "probe") => q.i \in 1 .. Len(S.chain) + 1
  /\ q.pc = "response" => q.i \in 0 .. Len(S.chain)
  /\ q.pc = "upgrade" => S.dispatcher.plugin = "ws-upstream"
  /\ q.pc = "io" => \/ q.io.who = "http-log" /\ q.i \in Places
                    \/ q.io.who = S.dispatcher.plugin /\ q.io.who /= "http-log"
  /\ q.pc = "io" /\ q.io.who = "kafka" => q.io.step \in {"connect", "publish", "refused", "back"}

(* The budget of a guest that a host function has returned to began then.  *)
Budget(q) ==
  /\ q.pc = "io" /\ q.io.step = "back" =>
       q.entered \in Nat /\ q.s.deadline = q.entered + max_execution_ms
  /\ \A t \in q.trap : t >= max_execution_ms

Mine == {S.pool.secrets[ref] : ref \in S.pool.refs["probe"]}

OwnSecrets(s) ==
  /\ \A ref \in DOMAIN s.secrets : s.secrets[ref] \in Mine
  /\ s.slot["secret"] \subseteq Mine

HoldsResult(s) ==
  \E h \in s.slot["http"] :
    /\ s.slot["http"] = {h}
    /\ OfOneCall([status |-> h.status, headers |-> h.headers, body |-> s.http_response_body])

(* What the instance of the dispatcher holds for its guest. *)
Own(q) ==
  /\ \A read \in q.reads : OwnRead(read)
  /\ S.dispatcher.plugin = "probe" /\ (q.pc = "request" \/ (q.pc = "io" /\ q.io.who = "probe")) =>
       OwnSecrets(q.s)
  /\ q.pc = "io" /\ q.io.who = "probe" /\ q.io.step = "back" => HoldsResult(q.s)

(* How far the message of a request to kafka is. *)
Acked(q) ==
  S.dispatcher.plugin = "kafka" =>
    /\ \A k, l \in Delivered(q.id) : k = l
    /\ \A k \in Delivered(q.id) : published[k].message = BrokerMessage(Config, q.msg)
    /\ q.pc = "request" => Delivered(q.id) = {}
    /\ q.pc = "io" /\ q.io.who = "kafka" /\ q.io.step /= "back" =>
         Delivered(q.id) = {} /\ q.io.message = BrokerMessage(Config, q.msg)
    /\ q.pc = "io" /\ q.io.who = "kafka" /\ q.io.step = "back" =>
         \E x \in q.s.slot["broker"] : q.s.slot["broker"] = {x} /\ (x.success => Delivered(q.id) /= {})
    /\ q.pc = "response" /\ q.i = Len(S.chain) /\ q.resp.status = 202 => Delivered(q.id) /= {}

SoundCall(q) == Turn(q) /\ Budget(q) /\ Own(q) /\ Acked(q)

(* A request is known by its number. *)
Numbered ==
  /\ started \in Nat
  /\ \A r \in Active : rq[r].id \in 1 .. started
  /\ \A r, u \in Active : rq[r].id = rq[u].id => r = u
  /\ published \in Seq(Range(published))
  /\ \A k \in 1 .. Len(published) : published[k].id \in 1 .. started

(* An entry under a plugin's name was stored by it. *)
OwnEntries == \A k \in DOMAIN entries : k[1] = "probe" => entries[k].by = "probe"

ChainIsSeq == Len(S.chain) \in Nat

CallsInv == Numbered /\ OwnEntries /\ \A r \in Active : SoundCall(rq[r])

-----------------------------------------------------------------------------
(* Host functions keep the shape of an instance's state, and most of them  *)
(* its secrets.                                                            *)

Alike(s, t) == WellFormed(t) /\ t.secrets = s.secrets /\ t.slot["secret"] = s.slot["secret"]

(* A new instance, and a handler that is called.                           *)
LEMMA NewInstance == ASSUME NEW name PROVE WellFormed(get_instance(S.pool, name))
BY DEF get_instance, PluginState, WellFormed, StateFields, Channels

(* call_handler and the functions around the message.                      *)
LEMMA HandlerState ==
  ASSUME NEW s, WellFormed(s), NEW context, NEW body, NEW at
  PROVE  Alike(s, call_handler(s, context, body, at))
BY DEF call_handler, WellFormed, Alike, StateFields

(* The SDK reads the message's body, the macros write the output's.        *)
LEMMA BodyState ==
  ASSUME NEW s, WellFormed(s), NEW body, NEW output
  PROVE  /\ Alike(s, read_request_body(s).state)
         /\ Alike(s, write_body(s, body))
         /\ Alike(s, host_set_output(s, output))
BY DEF read_request_body, write_body, host_body_set, host_body_clear, host_set_output, WellFormed, Alike, StateFields

(* Slots, other than the one for secrets.                                  *)
LEMMA SlotState ==
  ASSUME NEW s, WellFormed(s), NEW c \in Channels \ {"secret"}, NEW x
  PROVE  /\ Alike(s, read_result(s, c).state)
         /\ Alike(s, [s EXCEPT !.slot[c] = x])
BY DEF read_result, WellFormed, Alike, StateFields, Channels

(* The context and the guest's own memory.                                 *)
LEMMA ContextState ==
  ASSUME NEW s, WellFormed(s), NEW key, NEW value
  PROVE  /\ Alike(s, host_context_set(s, key, value))
         /\ Alike(s, host_context_get(s, key).state)
         /\ Alike(s, [s EXCEPT !.guest = value])
         /\ Alike(s, host_cache_get(s, value).state)
<1>1. Alike(s, [s EXCEPT !.slot["context"] = {s.values[key]}])
  BY SlotState DEF Channels
<1>2. Alike(s, [s EXCEPT !.slot["cache"] = {value}])
  BY SlotState DEF Channels
<1> QED
  BY <1>1, <1>2 DEF host_context_set, host_context_get, host_cache_get, Ret, WellFormed, Alike, StateFields

(* host_http_call before and after the client.                             *)
LEMMA HttpState ==
  ASSUME NEW s, WellFormed(s), NEW head, NEW body, NEW at
  PROVE  /\ Alike(s, host_http_request_body_set(s, body))
         /\ Alike(s, host_http_call_takes(s))
         /\ Alike(s, host_http_call_returns(s, head, body, at))
         /\ host_http_call_returns(s, head, body, at).deadline = at + max_execution_ms
         /\ host_http_call_returns(s, head, body, at).slot["http"] = {head}
         /\ host_http_call_returns(s, head, body, at).http_response_body = body
BY DEF host_http_request_body_set, host_http_call_takes, host_http_call_returns, Refresh, WellFormed, Alike,
       StateFields, Channels

(* host_kafka_publish and host_nats_publish, back from the publisher.      *)
LEMMA PublishState ==
  ASSUME NEW s, WellFormed(s), NEW result, NEW at
  PROVE  LET k == host_kafka_publish(s, result, at).state
             n == host_nats_publish(s, result, at).state
         IN /\ k = n /\ Alike(s, k)
            /\ k.deadline = at + max_execution_ms /\ k.slot["broker"] = {result}
BY DEF host_kafka_publish, host_nats_publish, Ret, Refresh, WellFormed, Alike, StateFields, Channels

(* SDK http::call after the host has returned.                             *)
LEMMA ResultState ==
  ASSUME NEW s, WellFormed(s)
  PROVE  Alike(s, http_call_result(s).state)
<1> DEFINE t == read_result(s, "http").state
<1>1. Alike(s, t)
  BY SlotState DEF Channels
<1>2. Alike(t, read_http_response_body(t).state)
  <2> HIDE DEF t
  <2> QED
    BY <1>1 DEF read_http_response_body, Alike, WellFormed, StateFields
<1>3. http_call_result(s).state = read_http_response_body(t).state
  BY DEF http_call_result
<1> QED
  BY <1>1, <1>2, <1>3 DEF Alike

(* What it gives to the guest is of one call.                              *)
LEMMA ResultData ==
  ASSUME NEW s, WellFormed(s), HoldsResult(s)
  PROVE  OfOneCall(http_call_result(s).data)
<1>1. PICK h : /\ s.slot["http"] = {h}
               /\ OfOneCall([status |-> h.status, headers |-> h.headers, body |-> s.http_response_body])
  BY DEF HoldsResult
<1>2. read_result(s, "http").data = {h}
  BY <1>1 DEF read_result
<1>3. read_http_response_body(read_result(s, "http").state).data = s.http_response_body
  BY DEF read_http_response_body, read_result, WellFormed, StateFields
<1>4. (CHOOSE x \in read_result(s, "http").data : TRUE) = h
  BY <1>2
<1> QED
  BY <1>1, <1>3, <1>4 DEF http_call_result
-----------------------------------------------------------------------------
(* Requests *)

(* Scenario and messages as they are, a request is judged as before.       *)
LEMMA SoundStays ==
  ASSUME NEW r \in Requests, UNCHANGED <<scenario, published>>, SoundCall(rq'[r])
  PROVE  SoundCall(rq[r])'
<1>1. S' = S /\ Config' = Config /\ Places' = Places /\ Mine' = Mine
  BY DEF S, Config, Places, Mine
<1>2. \A id : Delivered(id)' = Delivered(id)
  BY DEF Delivered
<1>3. Turn(rq[r])'
  BY <1>1 DEF SoundCall, Turn
<1>4. Budget(rq[r])'
  BY DEF SoundCall, Budget
<1>5. Own(rq[r])'
  BY <1>1 DEF SoundCall, Own, OwnRead, OwnSecrets, HoldsResult, OfOneCall
<1>6. Acked(rq[r])'
  BY <1>1, <1>2 DEF SoundCall, Acked
<1> QED
  BY <1>3, <1>4, <1>5, <1>6 DEF SoundCall

(* What a step of one request owes to the invariant.                       *)
LEMMA CallMoves ==
  ASSUME CallsInv, NEW r \in Requests, UNCHANGED <<scenario, started, published>>,
         DOMAIN rq' = Requests, \A u \in Requests \ {r} : rq'[u] = rq[u],
         rq'[r].pc /= "idle" => rq[r].pc /= "idle" /\ rq'[r].id = rq[r].id /\ SoundCall(rq'[r]),
         OwnEntries'
  PROVE  CallsInv'
<1>1. \A u \in Active' : u \in Active /\ rq'[u].id = rq[u].id /\ SoundCall(rq'[u])
  BY DEF Active, CallsInv
<1>2. \A u \in Active' : SoundCall(rq[u])'
  BY <1>1, SoundStays DEF Active
<1>3. Numbered'
  BY <1>1 DEF CallsInv, Numbered
<1> QED
  BY <1>2, <1>3 DEF CallsInv

(* Request r in its new form p has left the guest of the dispatcher: what  *)
(* it read and how it was stopped stays, and the dispatcher's 202 is true. *)
LEMMA LeavesGuest ==
  ASSUME NEW q, NEW p, SoundCall(q),
         p.pc \in {"upgrade", "response", "done"}, p.trap = q.trap, p.reads = q.reads, p.id = q.id,
         p.msg = q.msg, DOMAIN p.insts = Places, \A j \in Places : WellFormed(p.insts[j]),
         p.pc = "upgrade" => S.dispatcher.plugin = "ws-upstream",
         p.pc = "response" => p.i \in 0 .. Len(S.chain),
         p.pc = "response" /\ p.i = Len(S.chain) /\ p.resp.status = 202 /\ S.dispatcher.plugin = "kafka" =>
           Delivered(q.id) /= {}
  PROVE  SoundCall(p)
<1>1. Turn(p)
  BY DEF Turn
<1>2. Budget(p)
  BY DEF SoundCall, Budget
<1>3. Own(p)
  BY DEF SoundCall, Own
<1>4. Acked(p)
  BY DEF SoundCall, Acked
<1> QED
  BY <1>1, <1>2, <1>3, <1>4 DEF SoundCall

(* on_request of a middleware has returned.                                *)
LEMMA ContinueCalls ==
  ASSUME CallsInv, DOMAIN rq = Requests, NEW r \in Requests, DOMAIN rq[r] = Fields, NEW s, NEW msg,
         UNCHANGED <<scenario, started, published>>, OwnEntries', ChainIsSeq,
         rq[r].pc = "request", rq[r].i <= Len(S.chain), WellFormed(s), Continue(r, s, msg)
  PROVE  CallsInv'
<1> DEFINE q == rq[r]
           p == rq'[r]
<1>1. SoundCall(q)
  BY DEF CallsInv, Active
<1>2. /\ DOMAIN rq' = Requests /\ \A u \in Requests \ {r} : rq'[u] = rq[u]
      /\ p.pc = "request" /\ p.i = q.i + 1 /\ p.insts = [q.insts EXCEPT ![q.i] = s]
      /\ p.trap = q.trap /\ p.reads = q.reads /\ p.id = q.id /\ p.s = q.s
  BY DEF Continue, Fields
<1> HIDE DEF p, q
<1>3. q.pc = "request"
  BY DEF q
<1>4. Turn(p)
  <2>1. q.i \in 1 .. Len(S.chain) /\ Len(S.chain) \in Nat
    BY <1>1, <1>3 DEF SoundCall, Turn, q, ChainIsSeq
  <2>2. DOMAIN p.insts = Places /\ \A j \in Places : WellFormed(p.insts[j])
    BY <1>1, <1>2 DEF SoundCall, Turn
  <2> QED
    BY <1>1, <1>2, <1>3, <2>1, <2>2 DEF SoundCall, Turn
<1>5. Budget(p) /\ Own(p) /\ Acked(p)
  BY <1>1, <1>2, <1>3 DEF SoundCall, Budget, Own, Acked
<1>6. SoundCall(p)
  BY <1>4, <1>5 DEF SoundCall
<1> QED
  BY <1>2, <1>3, <1>6, CallMoves DEF p, q

(* on_response of a middleware has returned.                               *)
LEMMA ReturnCalls ==
  ASSUME CallsInv, DOMAIN rq = Requests, NEW r \in Requests, DOMAIN rq[r] = Fields, NEW s, NEW resp,
         UNCHANGED <<scenario, started, published>>, OwnEntries', ChainIsSeq,
         rq[r].pc /= "idle", rq[r].i \in Places, WellFormed(s), Return(r, s, resp)
  PROVE  CallsInv'
<1> DEFINE q == rq[r]
           p == rq'[r]
<1>1. SoundCall(q)
  BY DEF CallsInv, Active
<1>2. /\ DOMAIN rq' = Requests /\ \A u \in Requests \ {r} : rq'[u] = rq[u]
      /\ p.pc = "response" /\ p.i = q.i - 1 /\ p.insts = [q.insts EXCEPT ![q.i] = s]
      /\ p.trap = q.trap /\ p.reads = q.reads /\ p.id = q.id /\ p.msg = q.msg
  BY DEF Return, Fields
<1>3. rq[r].pc /= "idle" /\ q.i \in 1 .. Len(S.chain) /\ Len(S.chain) \in Nat
  BY DEF Places, ChainIsSeq
<1> HIDE DEF p, q
<1>4. DOMAIN p.insts = Places /\ \A j \in Places : WellFormed(p.insts[j])
  BY <1>1, <1>2 DEF SoundCall, Turn
<1>5. p.i \in 0 .. Len(S.chain) /\ p.i /= Len(S.chain)
  BY <1>2, <1>3
<1>6. SoundCall(p)
  BY <1>1, <1>2, <1>4, <1>5, LeavesGuest
<1> QED
  BY <1>2, <1>3, <1>6, CallMoves DEF p, q

(* The dispatcher has returned.                                            *)
LEMMA DispatchedCalls ==
  ASSUME CallsInv, DOMAIN rq = Requests, NEW r \in Requests, DOMAIN rq[r] = Fields, NEW s, NEW resp,
         UNCHANGED <<scenario, started, published>>, OwnEntries', ChainIsSeq,
         rq[r].pc /= "idle", Dispatched(r, s, resp),
         S.dispatcher.plugin = "kafka" /\ resp.status = 202 => Delivered(rq[r].id) /= {}
  PROVE  CallsInv'
<1> DEFINE q == rq[r]
           p == rq'[r]
<1>1. SoundCall(q)
  BY DEF CallsInv, Active
<1>2. /\ DOMAIN rq' = Requests /\ \A u \in Requests \ {r} : rq'[u] = rq[u]
      /\ p.pc = "response" /\ p.i = Len(S.chain) /\ p.insts = q.insts /\ p.resp = resp
      /\ p.trap = q.trap /\ p.reads = q.reads /\ p.id = q.id /\ p.msg = q.msg
  BY DEF Dispatched, Fields
<1>3. p.i \in 0 .. Len(S.chain)
  BY <1>2 DEF ChainIsSeq
<1>4. rq[r].pc /= "idle" /\ (S.dispatcher.plugin = "kafka" /\ resp.status = 202 => Delivered(q.id) /= {})
  OBVIOUS
<1> HIDE DEF p, q
<1>5. DOMAIN p.insts = Places /\ \A j \in Places : WellFormed(p.insts[j])
  BY <1>1, <1>2 DEF SoundCall, Turn
<1>6. SoundCall(p)
  BY <1>1, <1>2, <1>3, <1>4, <1>5, LeavesGuest
<1> QED
  BY <1>2, <1>4, <1>6, CallMoves DEF p, q

(* A blocking call leaves all of this alone.                               *)
Kept(p, q) ==
  p.trap = q.trap /\ p.reads = q.reads /\ p.id = q.id /\ p.msg = q.msg /\ p.insts = q.insts /\ p.i = q.i

(* A handler blocks in a host function.                                    *)
LEMMA SuspendCalls ==
  ASSUME CallsInv, DOMAIN rq = Requests, NEW r \in Requests, DOMAIN rq[r] = Fields, NEW s, NEW io,
         UNCHANGED <<scenario, started, published>>, OwnEntries',
         rq[r].pc /= "idle", WellFormed(s), Suspend(r, s, io), io.step /= "back",
         \/ io.who = "http-log" /\ rq[r].i \in Places
         \/ io.who = S.dispatcher.plugin /\ io.who /= "http-log",
         io.who /= "probe",
         io.who = "kafka" => /\ rq[r].pc = "request" /\ io.step \in {"connect", "publish", "refused"}
                             /\ io.message = BrokerMessage(Config, rq[r].msg)
  PROVE  CallsInv'
<1> DEFINE q == rq[r]
           p == rq'[r]
<1>1. SoundCall(q)
  BY DEF CallsInv, Active
<1>2. /\ DOMAIN rq' = Requests /\ \A u \in Requests \ {r} : rq'[u] = rq[u]
      /\ p.pc = "io" /\ p.s = s /\ p.io = io /\ Kept(p, q)
  BY DEF Suspend, Fields, Kept
<1>3. /\ rq[r].pc /= "idle" /\ WellFormed(s)
      /\ io.who = "kafka" => q.pc = "request" /\ io.message = BrokerMessage(Config, q.msg)
      /\ \/ io.who = "http-log" /\ q.i \in Places
         \/ io.who = S.dispatcher.plugin /\ io.who /= "http-log"
  OBVIOUS
<1> HIDE DEF p, q
<1>4. Turn(p)
  BY <1>1, <1>2, <1>3 DEF SoundCall, Turn, Kept
<1>5. Budget(p)
  BY <1>1, <1>2 DEF SoundCall, Budget, Kept
<1>6. Own(p)
  BY <1>1, <1>2 DEF SoundCall, Own, Kept
<1>7. Acked(p)
  BY <1>1, <1>2, <1>3 DEF SoundCall, Acked, Kept
<1>8. SoundCall(p)
  BY <1>4, <1>5, <1>6, <1>7 DEF SoundCall
<1> QED
  BY <1>2, <1>3, <1>8, CallMoves DEF p, q, Kept

(* The HTTP client has come back, with the head and the body of one call.  *)
LEMMA HttpReturns ==
  ASSUME NEW q, NEW p, SoundCall(q), now \in Nat, q.pc = "io", q.io.step \in {"guard", "send"},
         NEW head, NEW body, OfOneCall([status |-> head.status, headers |-> head.headers, body |-> body]),
         p.pc = "io", p.io.who = q.io.who, p.io.step = "back", p.entered = now, Kept(p, q),
         p.s = host_http_call_returns(q.s, head, body, now)
  PROVE  SoundCall(p)
<1>1. WellFormed(q.s) /\ q.io.who /= "kafka"
  BY DEF SoundCall, Turn
<1>2. /\ Alike(q.s, p.s) /\ p.s.deadline = now + max_execution_ms
      /\ p.s.slot["http"] = {head} /\ p.s.http_response_body = body
  BY <1>1, HttpState
<1>3. Turn(p)
  BY <1>1, <1>2 DEF SoundCall, Turn, Kept, Alike
<1>4. Budget(p)
  BY <1>2 DEF SoundCall, Budget, Kept
<1>5. HoldsResult(p.s)
  BY <1>2 DEF HoldsResult
<1>6. Own(p)
  BY <1>2, <1>5 DEF SoundCall, Own, Kept, OwnSecrets, Alike
<1>7. Acked(p)
  BY <1>1 DEF SoundCall, Acked, Kept
<1> QED
  BY <1>3, <1>4, <1>6, <1>7 DEF SoundCall

(* An error of the client has no body.                                     *)
LEMMA ErrorIsOneCall ==
  ASSUME NEW kind
  PROVE  OfOneCall([status |-> error_head(kind).status, headers |-> error_head(kind).headers, body |-> {}])
BY DEF OfOneCall, error_head

(* HttpClient::call.                                                       *)
LEMMA ClientCalls ==
  ASSUME CallsInv, EgressInv, now \in Nat, NEW r \in Requests, UNCHANGED scenario,
         HttpGuard(r) \/ HttpFail(r) \/ HttpAnswer(r)
  PROVE  CallsInv'
<1> DEFINE q == rq[r]
           p == rq'[r]
<1>1. /\ q.pc = "io" /\ q.io.step \in {"guard", "send"} /\ UNCHANGED <<started, published, entries>>
  BY DEF HttpGuard, HttpFail, HttpAnswer, AtStep
<1>2. DOMAIN rq = Requests /\ DOMAIN q = Fields /\ "step" \in DOMAIN q.io
  BY <1>1, BlockedFields
<1>3. SoundCall(q) /\ OwnEntries'
  BY <1>1 DEF CallsInv, Active, OwnEntries
<1>4. ASSUME NEW head, NEW body, OfOneCall([status |-> head.status, headers |-> head.headers, body |-> body]),
             Back(r, host_http_call_returns(q.s, head, body, now))
      PROVE  CallsInv'
  <2> DEFINE s == host_http_call_returns(q.s, head, body, now)
  <2> HIDE DEF s
  <2>1. /\ DOMAIN rq' = Requests /\ \A u \in Requests \ {r} : rq'[u] = rq[u]
        /\ p.pc = "io" /\ p.s = s /\ p.io.who = q.io.who /\ p.io.step = "back" /\ p.entered = now /\ Kept(p, q)
    BY <1>1, <1>2, <1>4 DEF Back, Fields, Kept, s
  <2>2. SoundCall(p)
    <3> HIDE DEF p, q
    <3> QED
      BY <1>1, <1>3, <1>4, <2>1, HttpReturns DEF s
  <2> QED
    BY <1>1, <1>3, <2>1, <2>2, CallMoves DEF Kept
<1>5. CASE HttpGuard(r)
  <2>1. \/ rq' = [rq EXCEPT ![r].io.step = "send"] /\ AtStep(r, "guard")
        \/ \E kind : Back(r, host_http_call_returns(q.s, error_head(kind), {}, now))
    BY <1>5 DEF HttpGuard
  <2>2. ASSUME rq' = [rq EXCEPT ![r].io.step = "send"], AtStep(r, "guard") PROVE CallsInv'
    <3>1. /\ DOMAIN rq' = Requests /\ \A u \in Requests \ {r} : rq'[u] = rq[u]
          /\ p.pc = "io" /\ p.s = q.s /\ p.io.who = q.io.who /\ p.io.step = "send" /\ Kept(p, q)
      BY <1>1, <1>2, <2>2 DEF Fields, Kept
    <3>2. q.io.step = "guard"
      BY <2>2 DEF AtStep
    <3>3. SoundCall(p)
      <4> HIDE DEF p, q
      <4>1. q.io.who /= "kafka"
        BY <1>1, <1>3, <3>2 DEF SoundCall, Turn
      <4>2. Turn(p) /\ Budget(p)
        BY <1>1, <1>3, <3>1, <4>1 DEF SoundCall, Turn, Budget, Kept
      <4>3. Own(p) /\ Acked(p)
        BY <1>1, <1>3, <3>1, <4>1 DEF SoundCall, Own, Acked, Kept
      <4> QED
        BY <4>2, <4>3 DEF SoundCall
    <3> QED
      BY <1>1, <1>3, <3>1, <3>3, CallMoves DEF Kept
  <2> QED
    BY <1>4, <2>1, <2>2, ErrorIsOneCall
<1>6. CASE HttpFail(r)
  <2>1. \E kind : Back(r, host_http_call_returns(q.s, error_head(kind), {}, now))
    BY <1>6 DEF HttpFail
  <2> QED
    BY <1>4, <2>1, ErrorIsOneCall
<1>7. CASE HttpAnswer(r)
  <2> DEFINE wire == {Wire(rq[r].io.request)}
             over(answer) == answer.body = {[kind |-> "oversized"]}
             head(answer) == IF over(answer) THEN error_head("too_large")
                             ELSE [status |-> answer.status, headers |-> answer.headers]
             body(answer) == IF over(answer) THEN {} ELSE answer.body
             s(answer) == host_http_call_returns(q.s, head(answer), body(answer), now)
  <2>1. PICK answer \in S.answers :
          rq' = [rq EXCEPT ![r].s = IF over(answer)
                                    THEN host_http_call_returns(q.s, error_head("too_large"), {}, now)
                                    ELSE host_http_call_returns(q.s, [status |-> answer.status,
                                                                      headers |-> answer.headers],
                                                                answer.body, now),
                           ![r].io.step = "back", ![r].entered = now, ![r].wire = wire]
    BY <1>7, Zenon DEF HttpAnswer
  <2>2. rq' = [rq EXCEPT ![r].s = s(answer), ![r].io.step = "back", ![r].entered = now, ![r].wire = wire]
    BY <2>1
  <2>3. OfOneCall([status |-> head(answer).status, headers |-> head(answer).headers, body |-> body(answer)])
    <3>1. CASE over(answer)
      BY <3>1, ErrorIsOneCall
    <3>2. CASE ~over(answer)
      BY <3>2 DEF OfOneCall
    <3> QED
      BY <3>1, <3>2
  <2>4. /\ DOMAIN rq' = Requests /\ \A u \in Requests \ {r} : rq'[u] = rq[u]
        /\ p.pc = "io" /\ p.s = s(answer) /\ p.io.who = q.io.who /\ p.io.step = "back" /\ p.entered = now
        /\ Kept(p, q)
    <3> HIDE DEF s, wire
    <3> QED
      BY <1>1, <1>2, <2>2 DEF Fields, Kept
  <2>5. SoundCall(p)
    <3> HIDE DEF p, q, head, body
    <3> QED
      BY <1>1, <1>3, <2>3, <2>4, HttpReturns
  <2> QED
    BY <1>1, <1>3, <2>4, <2>5, CallMoves DEF Kept
<1> QED
  BY <1>5, <1>6, <1>7

(* The middleware whose turn it is runs in its own instance.               *)
LEMMA HandlerRuns ==
  ASSUME NEW r, SoundCall(rq[r]), rq[r].i \in Places, NEW held
  PROVE  WellFormed(Handler(r, held))
BY HandlerState DEF SoundCall, Turn, Handler, Alike

(* What the cache drops or stores keeps the owners of its entries.         *)
LEMMA CacheKeeps ==
  ASSUME OwnEntries, NEW name, NEW key, NEW entry, name = "probe" => entry.by = "probe",
         \/ entries' \in {entries, Cleaned}
         \/ entries' \in cache_set(namespace_key(name, key), entry)
  PROVE  OwnEntries'
<1> DEFINE Owns(t) == \A k \in DOMAIN t : k[1] = "probe" => t[k].by = "probe"
           id == namespace_key(name, key)
<1>1. Owns(entries) /\ Owns(Live(entries))
  BY DEF OwnEntries, Live
<1>2. ASSUME NEW t, Owns(t) PROVE Owns(Put(t, id, entry))
  BY <1>2 DEF Put, namespace_key
<1>3. ASSUME NEW v PROVE Owns(Without(Live(entries), {v}))
  BY <1>1 DEF Without
<1> HIDE DEF Owns, id
<1>4. CASE entries' \in {entries, Cleaned}
  BY <1>1, <1>4 DEF Cleaned, OwnEntries, Owns
<1>5. CASE entries' \in cache_set(id, entry)
  <2>1. \/ \E v : entries' = Put(Without(Live(entries), {v}), id, entry)
        \/ entries' = Put(Live(entries), id, entry) \/ entries' = Put(entries, id, entry)
    BY <1>5 DEF cache_set
  <2>2. Owns(entries')
    BY <1>1, <1>2, <1>3, <2>1
  <2> QED
    BY <2>2 DEF OwnEntries, Owns
<1> QED
  BY <1>4, <1>5 DEF id

(* Middlewares that need nothing but the message and the context.          *)
LEMMA MiddlewareCalls ==
  ASSUME CallsInv, EgressInv, ChainIsSeq, NEW r \in Requests, UNCHANGED scenario,
         TransformRequest(r) \/ TransformResponse(r) \/ Pass(r) \/ LogRequest(r) \/ Observe(r)
  PROVE  CallsInv'
<1>1. /\ rq[r].pc \in {"request", "response"} /\ UNCHANGED <<started, published, entries>>
      /\ rq[r].pc = "request" => rq[r].i <= Len(S.chain)
      /\ rq[r].pc = "response" => rq[r].i > 0
  BY DEF TransformRequest, TransformResponse, Pass, LogRequest, Observe, AtRequest, AtResponse, shared
<1>2. DOMAIN rq = Requests /\ DOMAIN rq[r] = Fields
  BY <1>1, ActiveFields
<1>3. SoundCall(rq[r]) /\ OwnEntries'
  BY <1>1 DEF CallsInv, Active, OwnEntries
<1>4. rq[r].i \in Places
  BY <1>1, <1>3 DEF SoundCall, Turn, Places, ChainIsSeq
<1>5. ASSUME NEW held PROVE WellFormed(Handler(r, held))
  BY <1>3, <1>4, HandlerRuns
<1>6. ASSUME NEW s, NEW msg, WellFormed(s), rq[r].pc = "request", Continue(r, s, msg) PROVE CallsInv'
  BY <1>1, <1>2, <1>3, <1>6, ContinueCalls
<1>7. ASSUME NEW s, NEW resp, WellFormed(s), Return(r, s, resp) PROVE CallsInv'
  BY <1>1, <1>2, <1>3, <1>4, <1>7, ReturnCalls
<1>8. ASSUME NEW held, NEW body, NEW output
      PROVE  WellFormed(host_set_output(write_body(read_request_body(Handler(r, held)).state, body), output))
  <2> DEFINE a == Handler(r, held)
             b == read_request_body(a).state
             c == write_body(b, body)
  <2>1. WellFormed(a)
    BY <1>5
  <2> HIDE DEF a
  <2>2. WellFormed(b)
    BY <2>1, BodyState DEF Alike
  <2> HIDE DEF b
  <2>3. WellFormed(c)
    BY <2>2, BodyState DEF Alike
  <2> HIDE DEF c
  <2>4. WellFormed(host_set_output(c, output))
    BY <2>3, BodyState DEF Alike
  <2> QED
    BY <2>4 DEF a, b, c
<1>9. ASSUME NEW held, NEW key, NEW value, NEW other, NEW word
      PROVE  /\ WellFormed(host_context_set(Handler(r, held), key, value))
             /\ WellFormed(host_context_set(host_context_set(Handler(r, held), key, value), other, word))
             /\ WellFormed(read_result(host_context_get(Handler(r, held), key).state, "context").state)
  <2> DEFINE a == Handler(r, held)
             b == host_context_set(a, key, value)
             c == host_context_get(a, key).state
  <2>1. WellFormed(a)
    BY <1>5
  <2> HIDE DEF a
  <2>2. WellFormed(b) /\ WellFormed(c)
    BY <2>1, ContextState DEF Alike
  <2> HIDE DEF b, c
  <2>3. WellFormed(host_context_set(b, other, word)) /\ WellFormed(read_result(c, "context").state)
    BY <2>2, ContextState, SlotState DEF Alike, Channels
  <2> QED
    BY <2>2, <2>3 DEF a, b, c
<1>10. CASE TransformRequest(r)
  BY <1>6, <1>8, <1>10 DEF TransformRequest, AtRequest
<1>11. CASE TransformResponse(r)
  BY <1>7, <1>8, <1>11 DEF TransformResponse
<1>12. CASE Pass(r)
  BY <1>5, <1>6, <1>7, <1>12 DEF Pass, AtRequest
<1>13. CASE LogRequest(r)
  BY <1>6, <1>9, <1>13 DEF LogRequest, AtRequest
<1>14. CASE Observe(r)
  BY <1>6, <1>7, <1>9, <1>14 DEF Observe, AtRequest
<1> QED
  BY <1>10, <1>11, <1>12, <1>13, <1>14

(* The cache middleware.                                                   *)
LEMMA CacheCalls ==
  ASSUME CallsInv, EgressInv, ChainIsSeq, NEW r \in Requests, UNCHANGED scenario,
         CacheLookup(r) \/ CacheStore(r)
  PROVE  CallsInv'
<1>1. /\ rq[r].pc \in {"request", "response"} /\ UNCHANGED <<started, published>>
      /\ rq[r].pc = "request" => rq[r].i <= Len(S.chain)
      /\ rq[r].pc = "response" => rq[r].i > 0
  BY DEF CacheLookup, CacheStore, AtRequest, AtResponse
<1>2. DOMAIN rq = Requests /\ DOMAIN rq[r] = Fields
  BY <1>1, ActiveFields
<1>3. SoundCall(rq[r]) /\ OwnEntries
  BY <1>1 DEF CallsInv, Active
<1>4. rq[r].i \in Places
  BY <1>1, <1>3 DEF SoundCall, Turn, Places, ChainIsSeq
<1>5. ASSUME NEW held PROVE WellFormed(Handler(r, held))
  BY <1>3, <1>4, HandlerRuns
<1>6. CASE CacheLookup(r)
  <2> DEFINE config == Middleware(r).config
             s == Handler(r, rq[r].msg.body)
             key == build_cache_key(config, rq[r].msg)
             found == cache_get(namespace_key("cache", key))
             got == read_result(host_cache_get(s, found).state, "cache").state
             keyed == [got EXCEPT !.guest = {key}]
             e == CHOOSE e \in found : TRUE
             hit == {[entry |-> e, at |-> now, config |-> config]}
             resp == [status |-> e.status, body |-> e.body, headers |-> Put(e.headers, "x-cache", "HIT")]
  <2>1. /\ rq[r].pc = "request" /\ entries' \in {entries, Cleaned}
        /\ \/ Continue(r, [s EXCEPT !.guest = {}], rq[r].msg) \/ Continue(r, keyed, rq[r].msg)
           \/ rq' = [rq EXCEPT ![r].pc = "response", ![r].i = rq[r].i - 1, ![r].insts[rq[r].i] = keyed,
                               ![r].resp = resp, ![r].hit = hit]
    <3>1. rq[r].pc = "request"
      BY <1>6 DEF CacheLookup, AtRequest
    <3>2. entries' = entries \/ entries' = Cleaned
      BY <1>6, Zenon DEF CacheLookup
    <3>3. \/ Continue(r, [s EXCEPT !.guest = {}], rq[r].msg) \/ Continue(r, keyed, rq[r].msg)
          \/ rq' = [rq EXCEPT ![r].pc = "response", ![r].i = rq[r].i - 1, ![r].insts[rq[r].i] = keyed,
                              ![r].resp = resp, ![r].hit = hit]
      BY <1>6, Zenon DEF CacheLookup
    <3> QED
      BY <3>1, <3>2, <3>3
  <2>2. OwnEntries'
    BY <1>3, <2>1, CacheKeeps
  <2>3. WellFormed(s)
    BY <1>5
  <2> HIDE DEF s
  <2>4. WellFormed([s EXCEPT !.guest = {}])
    BY <2>3, ContextState DEF Alike
  <2>5. WellFormed(host_cache_get(s, found).state)
    BY <2>3, ContextState DEF Alike
  <2>6. WellFormed(got)
    <3> DEFINE t == host_cache_get(s, found).state
    <3>1. WellFormed(t)
      BY <2>5
    <3> HIDE DEF t
    <3>2. WellFormed(read_result(t, "cache").state)
      BY <3>1, SlotState DEF Alike, Channels
    <3> QED
      BY <3>2 DEF t
  <2> HIDE DEF got
  <2>7. WellFormed(keyed)
    BY <2>6, ContextState DEF Alike
  <2> HIDE DEF keyed, hit, resp
  <2>8. ASSUME rq' = [rq EXCEPT ![r].pc = "response", ![r].i = rq[r].i - 1, ![r].insts[rq[r].i] = keyed,
                                ![r].resp = resp, ![r].hit = hit]
        PROVE  CallsInv'
    <3> DEFINE q == rq[r]
               p == rq'[r]
    <3>1. /\ DOMAIN rq' = Requests /\ \A u \in Requests \ {r} : rq'[u] = rq[u]
          /\ p.pc = "response" /\ p.i = q.i - 1 /\ p.insts = [q.insts EXCEPT ![q.i] = keyed]
          /\ p.trap = q.trap /\ p.reads = q.reads /\ p.id = q.id /\ p.msg = q.msg
      BY <1>2, <2>8 DEF Fields
    <3>2. q.i \in 1 .. Len(S.chain) /\ Len(S.chain) \in Nat
      BY <1>4 DEF Places, ChainIsSeq
    <3> HIDE DEF p, q
    <3>3. SoundCall(q)
      BY <1>3 DEF q
    <3>4. DOMAIN p.insts = Places /\ \A j \in Places : WellFormed(p.insts[j])
      BY <2>7, <3>1, <3>3 DEF SoundCall, Turn
    <3>5. p.i \in 0 .. Len(S.chain) /\ p.i /= Len(S.chain)
      BY <3>1, <3>2
    <3>6. SoundCall(p)
      BY <3>1, <3>3, <3>4, <3>5, LeavesGuest
    <3> QED
      BY <1>1, <2>1, <2>2, <3>1, <3>6, CallMoves DEF p, q
  <2> QED
    BY <1>1, <1>2, <2>1, <2>2, <2>4, <2>7, <2>8, ContinueCalls
<1>7. CASE CacheStore(r)
  <2> DEFINE s == Handler(r, rq[r].resp.body)
  <2>1. PICK key, entry :
          /\ entries' = entries \/ entries' \in cache_set(namespace_key("cache", key), entry)
          /\ \E resp : Return(r, s, resp)
    <3> DEFINE config == Middleware(r).config
               seen == Seen(s, rq[r].resp)
               k == CHOOSE k \in s.guest : TRUE
               e == [status |-> seen.status, headers |-> seen.headers, body |-> seen.body,
                     expires_at |-> now + config.ttl, created_at |-> now, by |-> "cache",
                     of |-> rq[r].msg, held |-> rq[r].resp.body]
               changed == [seen EXCEPT !.headers = Put(seen.headers, "x-cache", "MISS")]
    <3>1. \/ Return(r, s, seen) /\ entries' = entries
          \/ entries' \in cache_set(namespace_key("cache", k), e) /\ Return(r, s, changed)
      BY <1>7, Zenon DEF CacheStore
    <3> HIDE DEF seen, k, e, changed
    <3> QED
      BY <3>1, Zenon
  <2>2. OwnEntries'
    BY <1>3, <2>1, CacheKeeps
  <2> QED
    BY <1>1, <1>2, <1>4, <1>5, <2>1, <2>2, ReturnCalls
<1> QED
  BY <1>6, <1>7

(* SDK http::call goes out.                                                *)
LEMMA BlockingCalls ==
  ASSUME CallsInv, DOMAIN rq = Requests, NEW r \in Requests, DOMAIN rq[r] = Fields, NEW s, NEW who, NEW request,
         UNCHANGED <<scenario, started, published, entries>>, rq[r].pc /= "idle", WellFormed(s),
         \/ who = "http-log" /\ rq[r].i \in Places
         \/ who = S.dispatcher.plugin /\ who /= "http-log",
         who \notin {"probe", "kafka"}, Blocking(r, s, who, request)
  PROVE  CallsInv'
<1> DEFINE body == IF request.body = {} THEN Empty ELSE CHOOSE b \in request.body : TRUE
           set == host_http_request_body_set(s, body)
           io == [who |-> who, step |-> "guard", request |-> [request EXCEPT !.body = set.http_request_body]]
<1>1. Suspend(r, host_http_call_takes(set), io)
  BY Zenon DEF Blocking
<1>2. io.who = who /\ io.step = "guard"
  OBVIOUS
<1> HIDE DEF body
<1>3. WellFormed(set)
  BY HttpState DEF Alike
<1> HIDE DEF set
<1>4. WellFormed(host_http_call_takes(set))
  BY <1>3, HttpState DEF Alike
<1> HIDE DEF io
<1>5. OwnEntries'
  BY DEF CallsInv, OwnEntries
<1> QED
  BY <1>1, <1>2, <1>4, <1>5, SuspendCalls

(* http-log on the way back.                                               *)
LEMMA LogCalls ==
  ASSUME CallsInv, EgressInv, ChainIsSeq, NEW r \in Requests, UNCHANGED scenario, LogResponse(r) \/ LogSent(r)
  PROVE  CallsInv'
<1>1. rq[r].pc \in {"response", "io"} /\ UNCHANGED <<started, published, entries>>
  BY DEF LogResponse, LogSent, AtResponse, Resumes, AtStep, shared
<1>2. DOMAIN rq = Requests /\ DOMAIN rq[r] = Fields
  BY <1>1, ActiveFields
<1>3. SoundCall(rq[r]) /\ OwnEntries'
  BY <1>1 DEF CallsInv, Active, OwnEntries
<1>4. CASE LogResponse(r)
  <2> DEFINE s == Handler(r, rq[r].resp.body)
  <2>1. rq[r].pc = "response" /\ rq[r].i > 0 /\ \E request : Blocking(r, s, "http-log", request)
    BY <1>4 DEF LogResponse, AtResponse
  <2>2. rq[r].i \in Places
    BY <1>3, <2>1 DEF SoundCall, Turn, Places, ChainIsSeq
  <2>3. WellFormed(s)
    BY <1>3, <2>2, HandlerRuns
  <2> HIDE DEF s
  <2> QED
    BY <1>1, <1>2, <2>1, <2>2, <2>3, BlockingCalls
<1>5. CASE LogSent(r)
  <2>1. /\ rq[r].pc = "io" /\ rq[r].io.who = "http-log"
        /\ Return(r, http_call_result(rq[r].s).state, rq[r].resp)
    BY <1>5 DEF LogSent, Resumes, AtStep
  <2>2. rq[r].i \in Places /\ WellFormed(rq[r].s)
    BY <1>3, <2>1 DEF SoundCall, Turn
  <2>3. WellFormed(http_call_result(rq[r].s).state)
    BY <2>2, ResultState DEF Alike
  <2> QED
    BY <1>1, <1>2, <1>3, <2>1, <2>2, <2>3, ReturnCalls
<1> QED
  BY <1>4, <1>5

(* Dispatchers that use the HTTP client, or nothing.                       *)
LEMMA DispatchCalls ==
  ASSUME CallsInv, EgressInv, ChainIsSeq, NEW r \in Requests, UNCHANGED scenario,
         \/ DispatchHttpUpstream(r) \/ DispatchLambda(r) \/ DispatchForward(r)
         \/ DispatchMock(r) \/ DispatchS3(r) \/ HttpResume(r)
  PROVE  CallsInv'
<1>1. rq[r].pc \in {"request", "io"} /\ UNCHANGED <<started, published, entries>>
  BY DEF DispatchHttpUpstream, DispatchLambda, DispatchForward, DispatchMock, DispatchS3, HttpResume,
         AtDispatch, Resumes, AtStep, shared
<1>2. DOMAIN rq = Requests /\ DOMAIN rq[r] = Fields
  BY <1>1, ActiveFields
<1>3. SoundCall(rq[r]) /\ OwnEntries'
  BY <1>1 DEF CallsInv, Active, OwnEntries
<1>4. S.dispatcher.plugin \in {"http-upstream", "lambda", "fire-and-forget", "mock", "s3"}
  <2>1. CASE HttpResume(r)
    <3>1. rq[r].pc = "io" /\ rq[r].io.who \in {"http-upstream", "lambda", "fire-and-forget", "s3"}
      BY <2>1 DEF HttpResume, Resumes, AtStep
    <3> QED
      BY <1>3, <3>1 DEF SoundCall, Turn
  <2> QED
    BY <2>1 DEF DispatchHttpUpstream, DispatchLambda, DispatchForward, DispatchMock, DispatchS3, AtDispatch
<1>5. ASSUME NEW s, NEW resp, Dispatched(r, s, resp) PROVE CallsInv'
  BY <1>1, <1>2, <1>3, <1>4, <1>5, DispatchedCalls
<1>6. ASSUME NEW request, CallOut(r, request) PROVE CallsInv'
  <2> DEFINE a == DispatchState(r)
             b == read_request_body(a).state
  <2>1. WellFormed(a)
    BY <1>1, <1>3, HandlerState DEF SoundCall, Turn, DispatchState, Alike
  <2> HIDE DEF a
  <2>2. WellFormed(b)
    BY <2>1, BodyState DEF Alike
  <2>3. Blocking(r, b, S.dispatcher.plugin, request)
    BY <1>6 DEF CallOut, a
  <2> HIDE DEF b
  <2> QED
    BY <1>1, <1>2, <1>4, <2>2, <2>3, BlockingCalls
<1>7. CASE DispatchHttpUpstream(r) \/ DispatchLambda(r) \/ DispatchForward(r)
  BY <1>6, <1>7 DEF DispatchHttpUpstream, DispatchLambda, DispatchForward
<1>8. CASE DispatchMock(r)
  BY <1>5, <1>8 DEF DispatchMock
<1>9. CASE DispatchS3(r)
  BY <1>5, <1>6, <1>9 DEF DispatchS3
<1>10. CASE HttpResume(r)
  <2> DEFINE got == http_call_result(rq[r].s)
             s == host_http_call_takes(got.state)
  <2>1. /\ rq[r].pc = "io" /\ rq[r].io.who \in {"http-upstream", "lambda", "fire-and-forget", "s3"}
        /\ \/ \E resp : Dispatched(r, got.state, resp)
           \/ \E sent : rq' = [rq EXCEPT ![r].n = 1, ![r].s = s,
                                         ![r].io = [who |-> rq[r].io.who, step |-> "guard", request |-> sent]]
    BY <1>10 DEF HttpResume, Resumes, AtStep
  <2>2. WellFormed(got.state)
    BY <1>3, <2>1, ResultState DEF SoundCall, Turn, Alike
  <2> HIDE DEF got
  <2>3. WellFormed(s)
    BY <2>2, HttpState DEF Alike
  <2> HIDE DEF s
  <2>4. ASSUME NEW sent,
               rq' = [rq EXCEPT ![r].n = 1, ![r].s = s,
                                ![r].io = [who |-> rq[r].io.who, step |-> "guard", request |-> sent]]
        PROVE  CallsInv'
    <3> DEFINE q == rq[r]
               p == rq'[r]
    <3>1. /\ DOMAIN rq' = Requests /\ \A u \in Requests \ {r} : rq'[u] = rq[u]
          /\ p.pc = "io" /\ p.s = s /\ p.io.who = q.io.who /\ p.io.step = "guard" /\ Kept(p, q)
      BY <1>2, <2>1, <2>4 DEF Fields, Kept
    <3>2. SoundCall(q) /\ q.pc = "io" /\ q.io.who \notin {"kafka", "probe"}
      BY <1>3, <2>1
    <3> HIDE DEF p, q
    <3>3. Turn(p) /\ Budget(p)
      BY <2>3, <3>1, <3>2 DEF SoundCall, Turn, Budget, Kept
    <3>4. Own(p) /\ Acked(p)
      BY <3>1, <3>2 DEF SoundCall, Own, Acked, Kept
    <3>5. SoundCall(p)
      BY <3>3, <3>4 DEF SoundCall
    <3> QED
      BY <1>1, <1>3, <3>1, <3>5, CallMoves DEF p, q, Kept
  <2> QED
    BY <1>5, <2>1, <2>4
<1> QED
  BY <1>7, <1>8, <1>9, <1>10

(* The websocket upgrade.                                                  *)
LEMMA SocketCalls ==
  ASSUME CallsInv, EgressInv, ChainIsSeq, NEW r \in Requests, UNCHANGED scenario, DispatchWs(r) \/ ConnectWs(r)
  PROVE  CallsInv'
<1> DEFINE q == rq[r]
           p == rq'[r]
<1>1. rq[r].pc \in {"request", "upgrade"} /\ UNCHANGED <<started, published, entries>>
  BY DEF DispatchWs, ConnectWs, AtDispatch, shared
<1>2. DOMAIN rq = Requests /\ DOMAIN rq[r] = Fields
  BY <1>1, ActiveFields
<1>3. SoundCall(rq[r]) /\ OwnEntries'
  BY <1>1 DEF CallsInv, Active, OwnEntries
<1>4. S.dispatcher.plugin = "ws-upstream"
  BY <1>3 DEF DispatchWs, AtDispatch, ConnectWs, SoundCall, Turn
<1>5. ASSUME DOMAIN rq' = Requests, \A u \in Requests \ {r} : rq'[u] = rq[u],
             p.pc \in {"upgrade", "response", "done"}, p.pc = "response" => p.i = Len(S.chain),
             p.trap = q.trap, p.reads = q.reads, p.id = q.id, p.msg = q.msg, p.insts = q.insts
      PROVE  CallsInv'
  <2>1. p.pc = "response" => p.i \in 0 .. Len(S.chain)
    BY <1>5 DEF ChainIsSeq
  <2>2. DOMAIN p.insts = Places /\ \A j \in Places : WellFormed(p.insts[j])
    BY <1>3, <1>5 DEF SoundCall, Turn
  <2>3. SoundCall(p)
    <3>1. SoundCall(q)
      BY <1>3
    <3> HIDE DEF p, q
    <3> QED
      BY <1>4, <1>5, <2>1, <2>2, <3>1, LeavesGuest
  <2> QED
    BY <1>1, <1>3, <1>5, <2>3, CallMoves
<1>6. CASE DispatchWs(r)
  <2>1. \/ \E s, resp : Dispatched(r, s, resp)
        \/ \E s, values : rq' = [rq EXCEPT ![r].pc = "upgrade", ![r].s = s, ![r].context = values,
                                           ![r].resp = SwitchingProtocols]
    BY <1>6 DEF DispatchWs
  <2>2. ASSUME NEW s, NEW resp, Dispatched(r, s, resp) PROVE CallsInv'
    BY <1>1, <1>2, <1>3, <1>4, <2>2, DispatchedCalls
  <2>3. ASSUME NEW s, NEW values,
               rq' = [rq EXCEPT ![r].pc = "upgrade", ![r].s = s, ![r].context = values,
                                ![r].resp = SwitchingProtocols]
        PROVE  CallsInv'
    <3>1. /\ DOMAIN rq' = Requests /\ \A u \in Requests \ {r} : rq'[u] = rq[u]
          /\ p.pc = "upgrade" /\ p.trap = q.trap /\ p.reads = q.reads /\ p.id = q.id /\ p.msg = q.msg
          /\ p.insts = q.insts
      BY <1>2, <2>3 DEF Fields
    <3> QED
      BY <1>5, <3>1
  <2> QED
    BY <2>1, <2>2, <2>3
<1>7. CASE ConnectWs(r)
  <2>1. \/ rq' = [rq EXCEPT ![r].pc = "response", ![r].i = Len(S.chain), ![r].upgraded = TRUE]
        \/ rq' = [rq EXCEPT ![r].pc = "done", ![r].resp = Problem(500)]
    BY <1>7 DEF ConnectWs
  <2>2. /\ DOMAIN rq' = Requests /\ \A u \in Requests \ {r} : rq'[u] = rq[u]
        /\ p.pc \in {"response", "done"} /\ (p.pc = "response" => p.i = Len(S.chain))
        /\ p.trap = q.trap /\ p.reads = q.reads /\ p.id = q.id /\ p.msg = q.msg /\ p.insts = q.insts
    BY <1>2, <2>1 DEF Fields
  <2> QED
    BY <1>5, <2>2
<1> QED
  BY <1>6, <1>7

(* A request begins, under a number that no message carries yet.           *)
LEMMA StartCalls ==
  ASSUME CallsInv, EgressInv, ChainIsSeq, NEW r \in Requests, UNCHANGED scenario, Start(r)
  PROVE  CallsInv'
<1> DEFINE p == rq'[r]
           chain == [j \in 1 .. Len(S.chain) |-> get_instance(S.pool, S.chain[j].plugin)]
           own == get_instance(S.pool, S.dispatcher.plugin)
<1>1. /\ DOMAIN rq = Requests /\ UNCHANGED <<published, entries>> /\ started' = started + 1
      /\ rq[r].pc = "idle" /\ started \in Nat
  BY DEF Start, shared, EgressInv, CallsInv, Numbered
<1>2. PICK m : rq' = [rq EXCEPT ![r] =
                       [pc |-> "request", i |-> 1, msg |-> m, context |-> <<>>, resp |-> NoResponse,
                        insts |-> chain, s |-> own, io |-> <<>>, entered |-> now,
                        came |-> m, id |-> started + 1, hit |-> {}, trap |-> {}, wire |-> {}, reads |-> {}, n |-> 0,
                        upgraded |-> FALSE]]
  BY Zenon DEF Start
<1>3. DOMAIN chain = Places /\ \A j \in Places : WellFormed(chain[j])
  BY NewInstance DEF Places
<1>4. WellFormed(own)
  BY NewInstance
<1>5. S.dispatcher.plugin = "probe" => OwnSecrets(own)
  BY DEF OwnSecrets, Mine, get_instance, PluginState, scoped, Channels
<1> HIDE DEF chain, own
<1>6. /\ DOMAIN rq' = Requests /\ \A u \in Requests \ {r} : rq'[u] = rq[u]
      /\ p.pc = "request" /\ p.i = 1 /\ p.insts = chain /\ p.s = own /\ p.id = started + 1
      /\ p.trap = {} /\ p.reads = {}
  BY <1>1, <1>2
<1>7. Delivered(started + 1) = {}
  BY <1>1 DEF Delivered, CallsInv, Numbered
<1>8. SoundCall(p)
  <2> HIDE DEF p
  <2>1. Turn(p)
    BY <1>3, <1>4, <1>6 DEF Turn, ChainIsSeq
  <2>2. Budget(p) /\ Acked(p)
    BY <1>6, <1>7 DEF Budget, Acked
  <2>3. Own(p)
    BY <1>5, <1>6 DEF Own
  <2> QED
    BY <2>1, <2>2, <2>3 DEF SoundCall
<1>9. \A u \in Active' : u = r \/ (u \in Active /\ rq'[u] = rq[u])
  BY <1>6 DEF Active
<1>10. \A u \in Active' : SoundCall(rq[u])'
  <2>1. \A u \in Active' : SoundCall(rq'[u])
    BY <1>8, <1>9 DEF CallsInv
  <2> QED
    BY <1>1, <2>1, SoundStays DEF Active
<1>11. Numbered'
  <2>1. started' \in Nat /\ \A n \in 1 .. started : n \in 1 .. started' /\ n /= started + 1
    BY <1>1
  <2>2. \A u \in Active' : rq'[u].id \in 1 .. started'
    BY <1>1, <1>6, <1>9, <2>1 DEF CallsInv, Numbered
  <2>3. ASSUME NEW u \in Active', NEW v \in Active', rq'[u].id = rq'[v].id PROVE u = v
    BY <1>6, <1>9, <2>1, <2>3 DEF CallsInv, Numbered
  <2> QED
    BY <1>1, <2>1, <2>2, <2>3 DEF CallsInv, Numbered
<1>12. OwnEntries'
  BY <1>1 DEF CallsInv, OwnEntries
<1> QED
  BY <1>10, <1>11, <1>12 DEF CallsInv

(* The end of a request.                                                   *)
LEMMA EndCalls ==
  ASSUME CallsInv, EgressInv, ChainIsSeq, NEW r \in Requests, UNCHANGED scenario, Finish(r) \/ Answer(r)
  PROVE  CallsInv'
<1>1. rq[r].pc \in {"response", "done"} /\ UNCHANGED <<started, published, entries>>
  BY DEF Finish, Answer, shared
<1>2. DOMAIN rq = Requests /\ DOMAIN rq[r] = Fields
  BY <1>1, ActiveFields
<1>3. SoundCall(rq[r]) /\ OwnEntries'
  BY <1>1 DEF CallsInv, Active, OwnEntries
<1>4. CASE Finish(r)
  <2>1. rq' = [rq EXCEPT ![r] = [pc |-> "idle"]]
    BY <1>4 DEF Finish
  <2>2. rq'[r].pc = "idle"
    BY <1>2, <2>1
  <2> QED
    BY <1>1, <1>2, <1>3, <2>1, <2>2, CallMoves
<1>5. CASE Answer(r)
  <2> DEFINE q == rq[r]
             p == rq'[r]
  <2>1. /\ DOMAIN rq' = Requests /\ \A u \in Requests \ {r} : rq'[u] = rq[u]
        /\ p.pc = "done" /\ p.trap = q.trap /\ p.reads = q.reads /\ p.id = q.id /\ p.msg = q.msg
        /\ p.insts = q.insts
    BY <1>2, <1>5 DEF Answer, Fields
  <2>2. SoundCall(q)
    BY <1>3
  <2> HIDE DEF p, q
  <2>3. DOMAIN p.insts = Places /\ \A j \in Places : WellFormed(p.insts[j])
    BY <2>1, <2>2 DEF SoundCall, Turn
  <2>4. SoundCall(p)
    BY <2>1, <2>2, <2>3, LeavesGuest
  <2> QED
    BY <1>1, <1>3, <2>1, <2>4, CallMoves DEF p, q
<1> QED
  BY <1>4, <1>5

(* A guest is stopped: it has run since the host function returned.        *)
LEMMA TrapCalls ==
  ASSUME CallsInv, EgressInv, ChainIsSeq, now \in Nat, NEW r \in Requests, UNCHANGED scenario, Trap(r)
  PROVE  CallsInv'
<1> DEFINE q == rq[r]
           p == rq'[r]
<1>1. /\ q.pc = "io" /\ q.io.step = "back" /\ now >= q.s.deadline /\ UNCHANGED <<started, published, entries>>
  BY DEF Trap, AtStep, Overrun, shared
<1>2. DOMAIN rq = Requests /\ DOMAIN q = Fields
  BY <1>1, ActiveFields
<1>3. SoundCall(q) /\ OwnEntries'
  BY <1>1 DEF CallsInv, Active, OwnEntries
<1>4. /\ DOMAIN rq' = Requests /\ \A u \in Requests \ {r} : rq'[u] = rq[u]
      /\ p.trap = {now - q.entered} /\ p.reads = q.reads /\ p.id = q.id /\ p.msg = q.msg /\ p.insts = q.insts
      /\ p.pc = "done" \/ (p.pc = "response" /\ p.i = q.i - 1 /\ q.io.who = "http-log")
  BY <1>2 DEF Trap, Fields
<1> HIDE DEF p, q
<1>5. now - q.entered >= max_execution_ms
  BY <1>1, <1>3, BudgetAssumption DEF SoundCall, Budget
<1>6. p.pc = "response" => p.i \in 0 .. Len(S.chain) /\ p.i /= Len(S.chain)
  <2>1. ASSUME p.pc = "response" PROVE q.i \in 1 .. Len(S.chain) /\ p.i = q.i - 1
    BY <1>1, <1>3, <1>4, <2>1 DEF SoundCall, Turn, Places
  <2> QED
    BY <2>1 DEF ChainIsSeq
<1>7. Turn(p)
  BY <1>3, <1>4, <1>6 DEF SoundCall, Turn
<1>8. Budget(p)
  BY <1>4, <1>5 DEF Budget
<1>9. Own(p) /\ Acked(p)
  BY <1>3, <1>4, <1>6 DEF SoundCall, Own, Acked
<1>10. SoundCall(p)
  BY <1>7, <1>8, <1>9 DEF SoundCall
<1> QED
  BY <1>1, <1>3, <1>4, <1>10, CallMoves DEF p, q

(* get_or_connect of the brokers.                                          *)
LEMMA BrokerCalls ==
  ASSUME CallsInv, EgressInv, ChainIsSeq, NEW r \in Requests, UNCHANGED scenario,
         DispatchKafka(r) \/ DispatchNats(r) \/ KafkaConnect(r) \/ NatsConnect(r)
  PROVE  CallsInv'
<1>1. rq[r].pc \in {"request", "io"} /\ UNCHANGED <<started, published, entries>>
  BY DEF DispatchKafka, DispatchNats, KafkaConnect, NatsConnect, AtDispatch, AtStep, shared
<1>2. DOMAIN rq = Requests /\ DOMAIN rq[r] = Fields
  BY <1>1, ActiveFields
<1>3. SoundCall(rq[r]) /\ OwnEntries'
  BY <1>1 DEF CallsInv, Active, OwnEntries
<1>4. CASE DispatchKafka(r) \/ DispatchNats(r)
  <2> DEFINE a == DispatchState(r)
             s == read_request_body(a).state
             io(step, addrs) == [who |-> S.dispatcher.plugin, message |-> BrokerMessage(Config, rq[r].msg),
                                 step |-> step, addrs |-> addrs]
  <2>1. rq[r].pc = "request" /\ S.dispatcher.plugin \in {"kafka", "nats"} /\ Publishing(r)
    BY <1>4 DEF DispatchKafka, DispatchNats, AtDispatch
  <2>2. PICK step \in {"connect", "publish", "refused"}, addrs \in {rq'[r].io.addrs} : Suspend(r, s, io(step, addrs))
    <3>1. \E step \in {"connect", "publish", "refused"} : \E addrs : Suspend(r, s, io(step, addrs))
      BY <2>1 DEF Publishing
    <3>2. PICK step \in {"connect", "publish", "refused"} : \E addrs : Suspend(r, s, io(step, addrs))
      BY <3>1
    <3>3. PICK addrs : Suspend(r, s, io(step, addrs))
      BY <3>2
    <3>4. rq'[r].io = io(step, addrs)
      <4> HIDE DEF io, s
      <4> QED
        BY <1>2, <3>3, SuspendMoves
    <3>5. rq'[r].io.addrs = addrs
      BY <3>4
    <3> QED
      BY <3>2, <3>3, <3>5
  <2>3. WellFormed(a)
    BY <1>3, <2>1, HandlerState DEF SoundCall, Turn, DispatchState, Alike
  <2> HIDE DEF a
  <2>4. WellFormed(s)
    BY <2>3, BodyState DEF Alike
  <2> HIDE DEF s
  <2> DEFINE o == io(step, addrs)
  <2>5. o.who = S.dispatcher.plugin /\ o.step = step /\ o.message = BrokerMessage(Config, rq[r].msg)
    OBVIOUS
  <2>6. Suspend(r, s, o)
    BY <2>2
  <2> HIDE DEF o
  <2> QED
    BY <1>1, <1>2, <1>3, <2>1, <2>2, <2>4, <2>5, <2>6, SuspendCalls
<1>5. CASE KafkaConnect(r) \/ NatsConnect(r)
  <2> DEFINE q == rq[r]
             p == rq'[r]
  <2>1. /\ q.pc = "io" /\ q.io.step = "connect"
        /\ \E step \in {"publish", "refused"} : rq' = [rq EXCEPT ![r].io.step = step]
    BY <1>5 DEF KafkaConnect, NatsConnect, AtStep, Connects
  <2>2. "step" \in DOMAIN q.io
    BY <2>1, BlockedFields
  <2>3. /\ DOMAIN rq' = Requests /\ \A u \in Requests \ {r} : rq'[u] = rq[u]
        /\ p.pc = "io" /\ p.s = q.s /\ p.io.who = q.io.who /\ p.io.step \in {"publish", "refused"} /\ Kept(p, q)
        /\ p.io.message = q.io.message
    BY <1>2, <2>1, <2>2 DEF Fields, Kept
  <2>4. SoundCall(q) /\ q.io.step = "connect" /\ q.pc = "io"
    BY <1>3, <2>1
  <2>5. q.io.who \in {"kafka", "nats"}
    BY <1>5 DEF KafkaConnect, NatsConnect
  <2> HIDE DEF p, q
  <2>6. Turn(p) /\ Budget(p)
    BY <2>3, <2>4 DEF SoundCall, Turn, Budget, Kept
  <2>7. Own(p) /\ Acked(p)
    BY <2>3, <2>4, <2>5 DEF SoundCall, Own, Acked, Kept
  <2>8. SoundCall(p)
    BY <2>6, <2>7 DEF SoundCall
  <2> QED
    BY <1>1, <1>3, <2>3, <2>8, CallMoves DEF p, q, Kept
<1> QED
  BY <1>4, <1>5

(* A message more in the topic.                                            *)
LEMMA OneMore ==
  ASSUME published \in Seq(Range(published)), NEW m, published' = Append(published, m)
  PROVE  /\ published' \in Seq(Range(published')) /\ Len(published) \in Nat
         /\ Len(published') = Len(published) + 1 /\ published'[Len(published) + 1] = m
         /\ \A k \in 1 .. Len(published) : published'[k] = published[k]
<1>1. published' \in Seq(Range(published) \cup {m}) /\ Len(published) \in Nat
  OBVIOUS
<1>2. /\ Len(published') = Len(published) + 1 /\ published'[Len(published) + 1] = m
      /\ \A k \in 1 .. Len(published) : published'[k] = published[k]
  OBVIOUS
<1>3. published' \in Seq(Range(published'))
  BY <1>1, SeqOfRange
<1> QED
  BY <1>1, <1>2, <1>3

(* The publisher has come back: with the message in the topic, if it says  *)
(* so.  No other request has a message more.                               *)
LEMMA PublishCalls ==
  ASSUME CallsInv, EgressInv, now \in Nat, NEW r \in Requests, UNCHANGED scenario,
         KafkaPublish(r) \/ NatsPublish(r)
  PROVE  CallsInv'
<1> DEFINE q == rq[r]
           p == rq'[r]
           m == [id |-> q.id, message |-> q.io.message]
<1>1. /\ q.pc = "io" /\ q.io.step \in {"publish", "refused"} /\ q.io.who \in {"kafka", "nats"}
      /\ UNCHANGED <<started, entries>>
  BY DEF KafkaPublish, NatsPublish, AtStep
<1>2. PICK outcome :
        /\ published' = published \/ published' = Append(published, m)
        /\ q.io.who = "kafka" /\ publish_result(r, outcome).success => published' = Append(published, m)
        /\ Back(r, host_kafka_publish(q.s, publish_result(r, outcome), now).state)
  <2>1. ASSUME NEW outcome PROVE /\ Deliver(r, outcome) => published' = published \/ published' = Append(published, m)
                                 /\ Deliver(r, outcome) /\ publish_result(r, outcome).success =>
                                      published' = Append(published, m)
    BY DEF Deliver, publish_result
  <2>2. ASSUME NEW result PROVE host_nats_publish(q.s, result, now) = host_kafka_publish(q.s, result, now)
    BY DEF host_kafka_publish, host_nats_publish
  <2>3. \E outcome : /\ Deliver(r, outcome) \/ (q.io.who = "nats" /\ UNCHANGED published)
                     /\ Back(r, host_kafka_publish(q.s, publish_result(r, outcome), now).state)
    BY <2>2, Zenon DEF KafkaPublish, NatsPublish
  <2> QED
    BY <2>1, <2>3
<1>3. DOMAIN rq = Requests /\ DOMAIN q = Fields /\ "step" \in DOMAIN q.io
  BY <1>1, BlockedFields
<1>4. SoundCall(q) /\ Numbered /\ r \in Active /\ OwnEntries'
  BY <1>1 DEF CallsInv, Active, OwnEntries
<1> DEFINE result == publish_result(r, outcome)
           s == host_kafka_publish(q.s, result, now).state
<1>5. WellFormed(q.s)
  BY <1>1, <1>4 DEF SoundCall, Turn
<1>6. Alike(q.s, s) /\ s.deadline = now + max_execution_ms /\ s.slot["broker"] = {result}
  BY <1>5, PublishState
<1>7. q.io.who = "kafka" /\ result.success => published' = Append(published, m)
  BY <1>2
<1> HIDE DEF s, result
<1>8. /\ DOMAIN rq' = Requests /\ \A u \in Requests \ {r} : rq'[u] = rq[u]
      /\ p.pc = "io" /\ p.s = s /\ p.io.who = q.io.who /\ p.io.step = "back" /\ p.entered = now /\ Kept(p, q)
  BY <1>1, <1>2, <1>3 DEF Back, Fields, Kept, s, result
<1>9. S' = S /\ Config' = Config /\ Places' = Places /\ Mine' = Mine
  BY DEF S, Config, Places, Mine
<1>10. \A u \in Active' : u \in Active /\ rq'[u].id = rq[u].id /\ (u /= r => rq'[u] = rq[u])
  BY <1>1, <1>8 DEF Active, Kept
<1>11. published' = Append(published, m) =>
         /\ published' \in Seq(Range(published')) /\ Len(published) \in Nat
         /\ Len(published') = Len(published) + 1 /\ published'[Len(published) + 1] = m
         /\ \A k \in 1 .. Len(published) : published'[k] = published[k]
  BY <1>4, OneMore DEF Numbered
<1>12. m.id = q.id /\ m.message = q.io.message
  OBVIOUS
<1> HIDE DEF m
<1>13. Numbered'
  <2>1. CASE published' = published
    BY <1>1, <1>4, <1>10, <2>1 DEF Numbered
  <2>2. CASE published' = Append(published, m)
    <3>1. \A k \in 1 .. Len(published') : published'[k].id \in 1 .. started
      BY <1>4, <1>11, <1>12, <2>2 DEF Numbered
    <3> QED
      BY <1>1, <1>4, <1>10, <1>11, <2>2, <3>1 DEF Numbered
  <2> QED
    BY <1>2, <2>1, <2>2
<1>14. ASSUME NEW id, id /= q.id
       PROVE  /\ Delivered(id)' = Delivered(id)
              /\ \A k \in Delivered(id) : published'[k] = published[k]
  <2>1. CASE published' = published
    BY <2>1 DEF Delivered
  <2>2. CASE published' = Append(published, m)
    BY <1>11, <1>12, <1>14, <2>2 DEF Delivered
  <2> QED
    BY <1>2, <2>1, <2>2
<1>15. ASSUME NEW u \in Active', u /= r PROVE SoundCall(rq[u])'
  <2> DEFINE w == rq[u]
  <2>1. u \in Active /\ rq'[u] = w /\ w.id /= q.id /\ SoundCall(w)
    BY <1>4, <1>10, <1>15 DEF CallsInv, Numbered
  <2>2. Turn(rq[u])' /\ Budget(rq[u])'
    BY <1>9, <2>1 DEF SoundCall, Turn, Budget
  <2>3. Own(rq[u])'
    BY <1>9, <2>1 DEF SoundCall, Own, OwnRead, OwnSecrets, HoldsResult, OfOneCall
  <2>4. Acked(rq[u])'
    <3>1. /\ Delivered(w.id)' = Delivered(w.id)
          /\ \A k \in Delivered(w.id) : published'[k] = published[k]
      BY <1>14, <2>1
    <3>2. Acked(w)
      BY <2>1 DEF SoundCall
    <3> QED
      BY <1>9, <2>1, <3>1, <3>2 DEF Acked
  <2> QED
    BY <2>2, <2>3, <2>4 DEF SoundCall
<1>16. SoundCall(rq[r])'
  <2>1. Turn(rq[r])'
    BY <1>1, <1>4, <1>5, <1>6, <1>8, <1>9 DEF SoundCall, Turn, Kept, Alike
  <2>2. Budget(rq[r])'
    BY <1>4, <1>6, <1>8 DEF SoundCall, Budget, Kept
  <2>3. Own(rq[r])'
    BY <1>1, <1>4, <1>8, <1>9 DEF SoundCall, Own, Kept, OwnRead, OwnSecrets, HoldsResult, OfOneCall
  <2>4. Acked(rq[r])'
    <3> SUFFICES ASSUME S.dispatcher.plugin = "kafka" PROVE Acked(rq[r])'
      BY <1>9 DEF Acked
    <3>1. q.io.who = "kafka"
      BY <1>1, <1>4 DEF SoundCall, Turn
    <3>2. Delivered(q.id) = {} /\ q.io.message = BrokerMessage(Config, q.msg)
      BY <1>1, <1>4, <3>1 DEF SoundCall, Acked
    <3> DEFINE D == {k \in 1 .. Len(published') : published'[k].id = q.id}
    <3>3. D \subseteq {Len(published) + 1} /\ (D /= {} => published' = Append(published, m))
      <4>1. CASE published' = published
        BY <3>2, <4>1 DEF Delivered
      <4>2. CASE published' = Append(published, m)
        BY <1>11, <3>2, <4>2 DEF Delivered
      <4> QED
        BY <1>2, <4>1, <4>2
    <3>4. result.success => D /= {}
      <4> SUFFICES ASSUME result.success PROVE Len(published) + 1 \in D
        OBVIOUS
      <4> QED
        BY <1>7, <1>11, <1>12, <3>1
    <3>5. \A k \in D : published'[k].message = BrokerMessage(Config, q.msg)
      BY <1>11, <1>12, <3>2, <3>3
    <3>6. Delivered(rq[r].id)' = D
      BY <1>8 DEF Kept, Delivered
    <3>7. \A k, l \in D : k = l
      BY <3>3
    <3> HIDE DEF D
    <3>8. (\E x \in rq[r].s.slot["broker"] :
             rq[r].s.slot["broker"] = {x} /\ (x.success => Delivered(rq[r].id) /= {}))'
      BY <1>6, <1>8, <3>4, <3>6
    <3>9. p.pc = "io" /\ p.io.step = "back" /\ p.msg = q.msg
      BY <1>8 DEF Kept
    <3> QED
      BY <1>9, <3>5, <3>6, <3>7, <3>8, <3>9 DEF Acked
  <2> QED
    BY <2>1, <2>2, <2>3, <2>4 DEF SoundCall
<1> QED
  BY <1>4, <1>13, <1>15, <1>16 DEF CallsInv

(* The plugins of the brokers answer by what the publisher says.           *)
LEMMA BrokerResumeCalls ==
  ASSUME CallsInv, EgressInv, ChainIsSeq, NEW r \in Requests, UNCHANGED scenario, BrokerResume(r)
  PROVE  CallsInv'
<1> DEFINE q == rq[r]
           got == read_result(q.s, "broker")
           result == CHOOSE x \in got.data : TRUE
           resp == IF result.success THEN accepted_response(Config, result.topic) ELSE Problem(502)
<1>1. /\ q.pc = "io" /\ q.io.step = "back" /\ q.io.who \in {"kafka", "nats"}
      /\ Dispatched(r, got.state, resp) /\ UNCHANGED <<started, published, entries>>
  BY DEF BrokerResume, Resumes, AtStep, shared
<1>2. DOMAIN rq = Requests /\ DOMAIN rq[r] = Fields
  BY <1>1, ActiveFields
<1>3. SoundCall(q) /\ OwnEntries'
  BY <1>1 DEF CallsInv, Active, OwnEntries
<1>4. resp.status = 202 => result.success
  BY DEF Problem
<1>5. ASSUME S.dispatcher.plugin = "kafka", result.success PROVE Delivered(q.id) /= {}
  <2>1. q.io.who = "kafka"
    BY <1>1, <1>3, <1>5 DEF SoundCall, Turn
  <2>2. PICK x : q.s.slot["broker"] = {x} /\ (x.success => Delivered(q.id) /= {})
    BY <1>1, <1>3, <1>5, <2>1 DEF SoundCall, Acked
  <2>3. result = x
    BY <2>2 DEF read_result
  <2> QED
    BY <1>5, <2>2, <2>3
<1> HIDE DEF resp, result, got
<1> QED
  BY <1>1, <1>2, <1>3, <1>4, <1>5, DispatchedCalls

(* What the probe does between two of its calls: it keeps its secrets, and *)
(* what it reads is its own.                                               *)
LEMMA ProbeMoves ==
  ASSUME CallsInv, NEW r \in Requests, rq[r].pc /= "idle",
         UNCHANGED <<scenario, started, published>>, OwnEntries', S.dispatcher.plugin = "probe",
         DOMAIN rq' = Requests, \A u \in Requests \ {r} : rq'[u] = rq[u],
         \/ rq'[r].pc = "request"
         \/ rq'[r].pc = "io" /\ rq'[r].io.who = "probe" /\ rq'[r].io.step = "guard",
         rq[r].pc = "request" \/ (rq[r].pc = "io" /\ rq[r].io.who = "probe"),
         rq'[r].i = rq[r].i, rq'[r].id = rq[r].id, rq'[r].trap = rq[r].trap, rq'[r].insts = rq[r].insts,
         \A read \in rq'[r].reads : read \in rq[r].reads \/ OwnRead(read),
         WellFormed(rq'[r].s), OwnSecrets(rq'[r].s)
  PROVE  CallsInv'
<1> DEFINE q == rq[r]
           p == rq'[r]
<1>1. SoundCall(q)
  BY DEF CallsInv, Active
<1>2. Turn(p)
  BY <1>1 DEF SoundCall, Turn
<1>3. Budget(p)
  BY <1>1 DEF SoundCall, Budget
<1>4. Own(p)
  BY <1>1 DEF SoundCall, Own
<1>5. SoundCall(p)
  BY <1>2, <1>3, <1>4 DEF SoundCall, Acked
<1> QED
  BY <1>5, CallMoves

(* A step of the probe that sets its state s, and perhaps reads.           *)
LEMMA ProbeSteps ==
  ASSUME CallsInv, DOMAIN rq = Requests, NEW r \in Requests, DOMAIN rq[r] = Fields,
         UNCHANGED <<scenario, started, published>>, OwnEntries', AtDispatch(r, "probe"),
         NEW s, WellFormed(s), OwnSecrets(s),
         \/ Probed(r, s)
         \/ \E c, data : Noted(r, s, c, data) /\ \A d \in data : OwnRead(<<c, d>>)
  PROVE  CallsInv'
<1> DEFINE q == rq[r]
           p == rq'[r]
<1>1. q.pc = "request" /\ S.dispatcher.plugin = "probe"
  BY DEF AtDispatch
<1>2. CASE Probed(r, s)
  <2>1. /\ DOMAIN rq' = Requests /\ \A u \in Requests \ {r} : rq'[u] = rq[u]
        /\ p.pc = "request" /\ p.i = q.i /\ p.id = q.id /\ p.trap = q.trap /\ p.insts = q.insts
        /\ p.reads = q.reads /\ p.s = s
    BY <1>1, <1>2 DEF Probed, Fields
  <2> QED
    BY <1>1, <2>1, ProbeMoves
<1>3. CASE \E c, data : Noted(r, s, c, data) /\ \A d \in data : OwnRead(<<c, d>>)
  <2>1. PICK c, data : Noted(r, s, c, data) /\ \A d \in data : OwnRead(<<c, d>>)
    BY <1>3
  <2> DEFINE more == {<<c, d>> : d \in data}
  <2>2. \A read \in more : OwnRead(read)
    BY <2>1, Zenon
  <2>3. rq' = [rq EXCEPT ![r].s = s, ![r].n = rq[r].n + 1, ![r].reads = @ \cup more]
    BY <2>1 DEF Noted
  <2> HIDE DEF more
  <2>4. /\ DOMAIN rq' = Requests /\ \A u \in Requests \ {r} : rq'[u] = rq[u]
        /\ p.pc = "request" /\ p.i = q.i /\ p.id = q.id /\ p.trap = q.trap /\ p.insts = q.insts
        /\ p.reads = q.reads \cup more /\ p.s = s
    BY <1>1, <2>3 DEF Fields
  <2>5. \A read \in p.reads : read \in q.reads \/ OwnRead(read)
    BY <2>2, <2>4
  <2> QED
    BY <1>1, <2>4, <2>5, ProbeMoves
<1> QED
  BY <1>2, <1>3

(* The calls of the probe to the host.                                     *)
LEMMA ProbeCalls ==
  ASSUME CallsInv, EgressInv, ChainIsSeq, NEW r \in Requests, UNCHANGED scenario,
         ProbeCall(r) \/ ProbeResume(r) \/ ProbeEnds(r)
  PROVE  CallsInv'
<1> DEFINE q == rq[r]
           p == rq'[r]
<1>1. q.pc \in {"request", "io"} /\ UNCHANGED <<started, published, entries>>
  BY DEF ProbeCall, ProbeResume, ProbeEnds, Probing, AtDispatch, Resumes, AtStep, shared
<1>2. DOMAIN rq = Requests /\ DOMAIN q = Fields
  BY <1>1, ActiveFields
<1>3. SoundCall(q) /\ OwnEntries' /\ WellFormed(q.s)
  BY <1>1 DEF CallsInv, Active, OwnEntries, SoundCall, Turn
<1>4. CASE ProbeCall(r)
  <2>1. PICK request, n :
          rq' = [rq EXCEPT ![r].pc = "io", ![r].s = host_http_call_takes(q.s),
                           ![r].io = [who |-> "probe", step |-> "guard", request |-> request], ![r].n = n]
    BY <1>4 DEF ProbeCall
  <2> DEFINE s == host_http_call_takes(q.s)
  <2>2. q.pc = "request" /\ S.dispatcher.plugin = "probe"
    BY <1>4 DEF ProbeCall, Probing, AtDispatch
  <2>3. WellFormed(s) /\ OwnSecrets(s)
    BY <1>3, <2>2, HttpState DEF Alike, SoundCall, Own, OwnSecrets
  <2> HIDE DEF s
  <2>4. /\ DOMAIN rq' = Requests /\ \A u \in Requests \ {r} : rq'[u] = rq[u]
        /\ p.pc = "io" /\ p.i = q.i /\ p.id = q.id /\ p.trap = q.trap /\ p.insts = q.insts
        /\ p.reads = q.reads /\ p.s = s /\ p.io.who = "probe" /\ p.io.step = "guard"
    BY <1>2, <2>1 DEF Fields, s
  <2> QED
    BY <1>1, <1>3, <2>2, <2>3, <2>4, ProbeMoves
<1>5. CASE ProbeResume(r)
  <2> DEFINE got == http_call_result(q.s)
             read == <<"http", got.data>>
  <2>1. /\ q.pc = "io" /\ q.io.who = "probe" /\ q.io.step = "back"
        /\ \/ rq' = [rq EXCEPT ![r].pc = "request"]
           \/ rq' = [rq EXCEPT ![r].pc = "request", ![r].s = got.state, ![r].reads = @ \cup {read}]
    BY <1>5 DEF ProbeResume, Resumes, AtStep
  <2>2. S.dispatcher.plugin = "probe" /\ OwnSecrets(q.s) /\ HoldsResult(q.s)
    BY <1>3, <2>1 DEF SoundCall, Turn, Own
  <2>3. OfOneCall(got.data)
    BY <1>3, <2>2, ResultData
  <2>4. OwnRead(read)
    BY <2>3, Zenon DEF OwnRead
  <2>5. WellFormed(got.state) /\ OwnSecrets(got.state)
    BY <1>3, <2>2, ResultState DEF Alike, OwnSecrets
  <2> HIDE DEF got, read
  <2>6. CASE rq' = [rq EXCEPT ![r].pc = "request"]
    <3>1. /\ DOMAIN rq' = Requests /\ \A u \in Requests \ {r} : rq'[u] = rq[u]
          /\ p.pc = "request" /\ p.i = q.i /\ p.id = q.id /\ p.trap = q.trap /\ p.insts = q.insts
          /\ p.reads = q.reads /\ p.s = q.s
      BY <1>2, <2>6 DEF Fields
    <3> QED
      BY <1>1, <1>3, <2>1, <2>2, <3>1, ProbeMoves
  <2>7. CASE rq' = [rq EXCEPT ![r].pc = "request", ![r].s = got.state, ![r].reads = @ \cup {read}]
    <3>1. /\ DOMAIN rq' = Requests /\ \A u \in Requests \ {r} : rq'[u] = rq[u]
          /\ p.pc = "request" /\ p.i = q.i /\ p.id = q.id /\ p.trap = q.trap /\ p.insts = q.insts
          /\ p.reads = q.reads \cup {read} /\ p.s = got.state
      BY <1>2, <2>7 DEF Fields
    <3>2. \A x \in p.reads : x \in q.reads \/ OwnRead(x)
      BY <2>4, <3>1
    <3> QED
      BY <1>1, <1>3, <2>1, <2>2, <2>5, <3>1, <3>2, ProbeMoves
  <2> QED
    BY <2>1, <2>6, <2>7
<1>6. CASE ProbeEnds(r)
  <2>1. PICK resp : Dispatched(r, q.s, resp)
    BY <1>6 DEF ProbeEnds
  <2>2. S.dispatcher.plugin = "probe"
    BY <1>6 DEF ProbeEnds, AtDispatch
  <2> QED
    BY <1>1, <1>2, <1>3, <2>1, <2>2, DispatchedCalls
<1> QED
  BY <1>4, <1>5, <1>6

(* host_get_secret looks in the instance's own view, and reading takes.    *)
LEMMA SecretState ==
  ASSUME NEW s, WellFormed(s), OwnSecrets(s)
  PROVE  /\ \A ref : LET t == host_get_secret(s, ref).state IN WellFormed(t) /\ OwnSecrets(t)
         /\ \A c \in {"secret", "uuid"} : LET t == read_result(s, c).state IN WellFormed(t) /\ OwnSecrets(t)
<1>1. ASSUME NEW x \in SUBSET Mine
      PROVE  WellFormed([s EXCEPT !.slot["secret"] = x]) /\ OwnSecrets([s EXCEPT !.slot["secret"] = x])
  BY <1>1 DEF WellFormed, OwnSecrets, StateFields, Channels
<1>2. ASSUME NEW ref PROVE LET t == host_get_secret(s, ref).state IN WellFormed(t) /\ OwnSecrets(t)
  <2>1. CASE ref \in DOMAIN s.secrets
    <3>1. {s.secrets[ref]} \in SUBSET Mine
      BY <2>1 DEF OwnSecrets
    <3> QED
      BY <1>1, <2>1, <3>1 DEF host_get_secret, Ret
  <2>2. CASE ref \notin DOMAIN s.secrets
    BY <2>2 DEF host_get_secret, Ret
  <2> QED
    BY <2>1, <2>2
<1>3. LET t == read_result(s, "uuid").state IN WellFormed(t) /\ OwnSecrets(t)
  BY SlotState DEF Channels, Alike, OwnSecrets
<1>4. LET t == read_result(s, "secret").state IN WellFormed(t) /\ OwnSecrets(t)
  BY <1>1 DEF read_result
<1> QED
  BY <1>2, <1>3, <1>4

(* The other host functions do not touch secrets.                          *)
LEMMA ProbeState ==
  ASSUME NEW s, WellFormed(s), NEW x
  PROVE  /\ Alike(s, host_uuid_generate(s, x).state)
         /\ Alike(s, host_ws_upgrade(s, x).state)
         /\ Alike(s, read_result(host_cache_get(s, x).state, "cache").state)
<1>1. Alike(s, host_uuid_generate(s, x).state)
  BY SlotState DEF host_uuid_generate, Ret, Channels
<1>2. Alike(s, host_ws_upgrade(s, x).state)
  <2>1. Alike(s, [s EXCEPT !.slot["http"] = {[parse_error |-> x]}])
    BY SlotState DEF Channels
  <2> QED
    BY <2>1 DEF host_ws_upgrade, Ret, Alike, WellFormed, StateFields
<1> DEFINE t == host_cache_get(s, x).state
<1>3. Alike(s, t)
  BY ContextState
<1> HIDE DEF t
<1>4. Alike(t, read_result(t, "cache").state)
  BY <1>3, SlotState DEF Channels, Alike
<1>5. Alike(s, read_result(t, "cache").state)
  BY <1>3, <1>4 DEF Alike
<1> QED
  BY <1>1, <1>2, <1>5 DEF t

(* The probe and its instance.                                             *)
LEMMA ProbeMemoryCalls ==
  ASSUME CallsInv, EgressInv, NEW r \in Requests, UNCHANGED <<scenario, started, shared>>, ProbeMemory(r)
  PROVE  CallsInv'
<1> DEFINE q == rq[r]
           s == q.s
<1>1. AtDispatch(r, "probe") /\ q.pc = "request" /\ S.dispatcher.plugin = "probe"
  BY DEF ProbeMemory, Probing, AtDispatch
<1>2. DOMAIN rq = Requests /\ DOMAIN q = Fields
  BY <1>1, ActiveFields
<1>3. OwnEntries' /\ WellFormed(s) /\ OwnSecrets(s) /\ UNCHANGED <<scenario, started, published>>
  BY <1>1 DEF CallsInv, Active, OwnEntries, SoundCall, Turn, Own, shared
<1>4. \/ \E ref : Probed(r, host_get_secret(s, ref).state)
      \/ \E x : Probed(r, host_uuid_generate(s, x).state)
      \/ \E c \in {"secret", "uuid"} : Noted(r, read_result(s, c).state, c, s.slot[c])
      \/ \E x : Probed(r, host_ws_upgrade(s, x).state)
  BY Zenon DEF ProbeMemory
<1>5. ASSUME NEW d \in s.slot["secret"] PROVE OwnRead(<<"secret", d>>)
  <2>1. d \in Mine
    BY <1>3 DEF OwnSecrets
  <2>2. \E ref \in S.pool.refs["probe"] : S.pool.secrets[ref] = d
    BY <2>1 DEF Mine
  <2> QED
    BY <2>2, Zenon DEF OwnRead
<1>6. ASSUME NEW d PROVE OwnRead(<<"uuid", d>>)
  BY Zenon DEF OwnRead
<1> HIDE DEF s
<1>7. ASSUME NEW x PROVE LET t == host_uuid_generate(s, x).state IN WellFormed(t) /\ OwnSecrets(t)
  BY <1>3, ProbeState DEF Alike, OwnSecrets
<1>8. ASSUME NEW x PROVE LET t == host_ws_upgrade(s, x).state IN WellFormed(t) /\ OwnSecrets(t)
  BY <1>3, ProbeState DEF Alike, OwnSecrets
<1>9. ASSUME NEW t, WellFormed(t), OwnSecrets(t), Probed(r, t) PROVE CallsInv'
  BY <1>1, <1>2, <1>3, <1>9, ProbeSteps
<1>10. ASSUME NEW c \in {"secret", "uuid"}, Noted(r, read_result(s, c).state, c, s.slot[c]) PROVE CallsInv'
  <2> DEFINE t == read_result(s, c).state
  <2>1. WellFormed(t) /\ OwnSecrets(t)
    BY <1>3, SecretState
  <2>2. \A d \in s.slot[c] : OwnRead(<<c, d>>)
    BY <1>5, <1>6
  <2> HIDE DEF t
  <2>3. \E k, data : Noted(r, t, k, data) /\ \A d \in data : OwnRead(<<k, d>>)
    BY <1>10, <2>2, Zenon DEF t
  <2> QED
    BY <1>1, <1>2, <1>3, <2>1, <2>3, ProbeSteps
<1> QED
  BY <1>3, <1>4, <1>7, <1>8, <1>9, <1>10, SecretState

(* The probe and the cache: the entry it finds is its own.                 *)
LEMMA ProbeCacheCalls ==
  ASSUME CallsInv, EgressInv, NEW r \in Requests, UNCHANGED <<scenario, started, published>>, ProbeCache(r)
  PROVE  CallsInv'
<1> DEFINE q == rq[r]
           s == q.s
           id == namespace_key("probe", ProbeKey)
           found == cache_get(id)
           t == read_result(host_cache_get(s, found).state, "cache").state
           e == [status |-> 200, headers |-> <<>>, body |-> {}, expires_at |-> now + 1,
                 created_at |-> now, by |-> "probe", of |-> rq[r].msg, held |-> {}]
<1>1. AtDispatch(r, "probe") /\ q.pc = "request" /\ S.dispatcher.plugin = "probe"
  BY DEF ProbeCache, Probing, AtDispatch
<1>2. DOMAIN rq = Requests /\ DOMAIN q = Fields
  BY <1>1, ActiveFields
<1>3. OwnEntries /\ WellFormed(s) /\ OwnSecrets(s)
  BY <1>1 DEF CallsInv, Active, SoundCall, Turn, Own
<1>4. \/ Noted(r, t, "cache", found) /\ entries' = Cleaned
      \/ entries' \in cache_set(id, e) /\ Probed(r, s)
  BY Zenon DEF ProbeCache
<1>5. e.by = "probe"
  OBVIOUS
<1> HIDE DEF e
<1>6. OwnEntries'
  BY <1>3, <1>4, <1>5, CacheKeeps
<1>7. ASSUME NEW d \in found PROVE d.by = "probe"
  BY <1>3, <1>7 DEF cache_get, Cleaned, Live, OwnEntries, namespace_key
<1>8. \A d \in found : OwnRead(<<"cache", d>>)
  BY <1>7, Zenon DEF OwnRead
<1> HIDE DEF found, s
<1>9. WellFormed(t) /\ OwnSecrets(t)
  BY <1>3, ProbeState DEF Alike, OwnSecrets
<1> HIDE DEF t
<1>10. \/ Probed(r, s)
       \/ \E c, data : Noted(r, t, c, data) /\ \A d \in data : OwnRead(<<c, d>>)
  BY <1>4, <1>8, Zenon
<1> QED
  BY <1>1, <1>2, <1>3, <1>6, <1>9, <1>10, ProbeSteps

(* Every step of the host.                                                 *)
LEMMA CallsStep ==
  ASSUME CallsInv, EgressInv, now \in Nat, [HostNext]_hostVars
  PROVE  CallsInv'
<1>1. ChainIsSeq
  BY ChainAssumption DEF EgressInv, ChainIsSeq, S
<1>2. ASSUME UNCHANGED <<scenario, started, rq, published, entries>> PROVE CallsInv'
  <2>1. Active' = Active /\ OwnEntries' /\ Numbered'
    BY <1>2 DEF CallsInv, Active, OwnEntries, Numbered
  <2>2. \A r \in Active : SoundCall(rq[r])'
    BY <1>2, SoundStays DEF CallsInv, Active
  <2> QED
    BY <1>2, <2>1, <2>2 DEF CallsInv
<1>3. CASE UNCHANGED hostVars
  BY <1>2, <1>3 DEF hostVars, shared
<1>4. ASSUME UNCHANGED scenario, NEW r \in Requests, PluginStep(r) PROVE CallsInv'
  <2>1. CASE Start(r)
    BY <1>1, <1>4, <2>1, StartCalls
  <2>2. CASE Finish(r) \/ Answer(r)
    BY <1>1, <1>4, <2>2, EndCalls
  <2>3. CASE TransformRequest(r) \/ TransformResponse(r) \/ Pass(r) \/ LogRequest(r) \/ Observe(r)
    BY <1>1, <1>4, <2>3, MiddlewareCalls
  <2>4. CASE CacheLookup(r) \/ CacheStore(r)
    BY <1>1, <1>4, <2>4, CacheCalls
  <2>5. CASE HttpGuard(r) \/ HttpFail(r) \/ HttpAnswer(r)
    BY <1>4, <2>5, ClientCalls
  <2>6. CASE Trap(r)
    BY <1>1, <1>4, <2>6, TrapCalls
  <2>7. CASE LogResponse(r) \/ LogSent(r)
    BY <1>1, <1>4, <2>7, LogCalls
  <2>8. CASE \/ DispatchHttpUpstream(r) \/ DispatchLambda(r) \/ DispatchForward(r)
             \/ DispatchMock(r) \/ DispatchS3(r) \/ HttpResume(r)
    BY <1>1, <1>4, <2>8, DispatchCalls
  <2>9. CASE DispatchWs(r) \/ ConnectWs(r)
    BY <1>1, <1>4, <2>9, SocketCalls
  <2>10. CASE DispatchKafka(r) \/ DispatchNats(r) \/ KafkaConnect(r) \/ NatsConnect(r)
    BY <1>1, <1>4, <2>10, BrokerCalls
  <2>11. CASE KafkaPublish(r) \/ NatsPublish(r)
    BY <1>4, <2>11, PublishCalls
  <2>12. CASE BrokerResume(r)
    BY <1>1, <1>4, <2>12, BrokerResumeCalls
  <2>13. CASE ProbeCall(r) \/ ProbeResume(r) \/ ProbeEnds(r)
    BY <1>1, <1>4, <2>13, ProbeCalls
  <2>14. CASE ProbeMemory(r) /\ UNCHANGED <<started, shared>>
    BY <1>4, <2>14, ProbeMemoryCalls
  <2>15. CASE /\ ProbeCache(r)
              /\ UNCHANGED <<started, dns, breakers, cache_cleanup, conns, published, reached, outcomes>>
    BY <1>4, <2>15, ProbeCacheCalls
  <2> QED
    BY <1>4, <2>1, <2>2, <2>3, <2>4, <2>5, <2>6, <2>7, <2>8, <2>9, <2>10, <2>11, <2>12, <2>13, <2>14, <2>15
    DEF PluginStep
<1>5. CASE UNCHANGED <<scenario, started, rq>> /\ (Rebind \/ UNCHANGED shared)
  BY <1>2, <1>5 DEF Rebind, shared
<1> QED
  BY <1>3, <1>4, <1>5 DEF HostNext, Rebind

(* The invariant says of each request what the property does.              *)
LEMMA CallsSuffice == CallsInv => HostCallsAreSound
<1> SUFFICES ASSUME CallsInv PROVE HostCallsAreSound
  OBVIOUS
<1>1. OwnResult
  BY DEF CallsInv, SoundCall, Own, OwnResult
<1>2. NoSpuriousTrap
  BY DEF CallsInv, SoundCall, Budget, NoSpuriousTrap
<1>3. AcknowledgedOnce
  <2> SUFFICES ASSUME NEW r \in Active, S.dispatcher.plugin = "kafka"
               PROVE  /\ Cardinality(Delivered(rq[r].id)) <= 1
                      /\ \A k \in Delivered(rq[r].id) : published[k].message = BrokerMessage(Config, rq[r].msg)
                      /\ rq[r].pc = "response" /\ rq[r].i = Len(S.chain) /\ rq[r].resp.status = 202 =>
                           Delivered(rq[r].id) /= {}
    BY Zenon DEF AcknowledgedOnce
  <2> DEFINE mine == Delivered(rq[r].id)
  <2>1. Acked(rq[r])
    BY DEF CallsInv, SoundCall
  <2>2. \A k, l \in mine : k = l
    BY <2>1 DEF Acked
  <2> HIDE DEF mine
  <2>3. ASSUME mine = {} PROVE Cardinality(mine) <= 1
    <3>1. Cardinality(mine) = 0
      BY <2>3, FS_EmptySet, Zenon
    <3> QED
      BY <3>1
  <2>4. ASSUME mine /= {} PROVE Cardinality(mine) <= 1
    <3>1. PICK k : k \in mine
      BY <2>4
    <3>2. mine = {k}
      BY <2>2, <3>1
    <3>3. Cardinality(mine) = 1
      BY <3>2, FS_Singleton, Zenon
    <3> QED
      BY <3>3
  <2>5. Cardinality(mine) <= 1
    BY <2>3, <2>4
  <2> QED
    BY <2>1, <2>5 DEF Acked, mine
<1> QED
  BY <1>1, <1>2, <1>3 DEF HostCallsAreSound

(* For any plugins, any interleaving of their calls and any answer or loss *)
(* outside: a plugin reads from the host what its own call, secret or      *)
(* entry put there, status, headers and body of one answer together; a     *)
(* guest stopped by the epoch deadline has had its whole budget since the  *)
(* last blocking call; and a message to kafka is in the topic at most      *)
(* once, and is there when the dispatcher answers 202.                     *)
THEOREM HostCallsStaySound == HostSpec => []HostCallsAreSound
<1>1. HostInit => EgressInv /\ CallsInv
  <2> SUFFICES ASSUME HostInit PROVE EgressInv /\ CallsInv
    OBVIOUS
  <2>1. /\ rq = [r \in Requests |-> [pc |-> "idle"]] /\ started = 0 /\ entries = <<>> /\ published = <<>>
        /\ EgressInv
    BY EgressInit DEF HostInit
  <2>2. Active = {}
    BY <2>1 DEF Active
  <2>3. published \in Seq(Range(published)) /\ Len(published) = 0 /\ DOMAIN entries = {}
    BY <2>1
  <2>4. Numbered
    BY <2>1, <2>2, <2>3 DEF Numbered
  <2>5. OwnEntries
    BY <2>3 DEF OwnEntries
  <2> QED
    BY <2>1, <2>2, <2>4, <2>5 DEF CallsInv
<1>2. EgressInv /\ CallsInv /\ now \in Nat /\ [HostNext]_hostVars => EgressInv' /\ CallsInv'
  BY EgressStep, CallsStep
<1> QED
  BY <1>1, <1>2, HostClock, CallsSuffice, PTL DEF HostSpec

=============================================================================
