----------------------------- MODULE RateLimiter -----------------------------
(***************************************************************************)
(* The host's sliding-window rate limiter (rate_limiter.rs), shared by all *)
(* requests, as the rate-limit plugin calls it.                            *)
(*                                                                         *)
(* A policy is one rate-limit middleware applied to one client: it calls   *)
(* host_rate_limit_check with its partition key, its quota and its window. *)
(* The key is extract_partition_key's, namespaced by the plugin's name:    *)
(* nothing of the policy is in it, so policies may share a key.            *)
(*                                                                         *)
(* A call runs on the thread of its request, in two critical sections:     *)
(* maybe_cleanup, then the check under the write lock of the table.  Each  *)
(* reads the clock by itself.                                              *)
(***************************************************************************)
EXTENDS Integers, Sequences, FiniteSets

CONSTANTS
  Threads,            \* requests that may be inside the limiter at once
  Keys,               \* partition keys
  Policies,
  Key,                \* the partition key, quota and window of each policy
  Quota,
  Window,
  Second,             \* ticks of the clock in a second
  cleanup_threshold,  \* 300 seconds in the code
  MAX_PARTITIONS,     \* 100 000 in the code
  MaxTime             \* bound on the clock

ASSUME PolicyAssumption ==
  /\ Key \in [Policies -> Keys]
  /\ Quota \in [Policies -> Nat \ {0}]
  /\ Window \in [Policies -> Nat \ {0}]
ASSUME LimiterAssumption ==
  /\ Second \in Nat \ {0}
  /\ cleanup_threshold \in Nat \ {0}
  /\ MAX_PARTITIONS \in Nat \ {0}
  /\ MaxTime \in Nat
  /\ IsFiniteSet(Keys)

VARIABLES
  now,           \* Instant::now()
  windows,       \* timestamps of each key; <<>> if it is not in the table
  last_cleanup,
  call,          \* the call each thread is in
  granted,       \* history: when each policy let a request pass
  retry          \* history: when the last refusal of each policy said to come back

vars == <<now, windows, last_cleanup, call, granted, retry>>

Idle == [step |-> "idle"]

Init ==
  /\ now = 0
  /\ windows = [k \in Keys |-> <<>>]
  /\ last_cleanup = 0
  /\ call = [t \in Threads |-> Idle]
  /\ granted = [p \in Policies |-> <<>>]
  /\ retry = [p \in Policies |-> [at |-> 0, grants |-> 0]]

-----------------------------------------------------------------------------
(* Instant::duration_since saturates at zero. *)
Since(at, t) == IF t > at THEN 0 ELSE at - t

(* The timestamps are in the order of the clock, so that retain drops a    *)
(* prefix: the lengths it may have, for a window that ends at `at`.        *)
Expired(ts, at, w) ==
  {d \in 0 .. Len(ts) : /\ \A i \in 1 .. d : Since(at, ts[i]) >= w
                        /\ \A i \in d + 1 .. Len(ts) : Since(at, ts[i]) < w}

(* A check always leaves a timestamp behind, as quotas are not zero. *)
Partitions(table) == {k \in Keys : table[k] /= <<>>}

(* Mutant: a partition goes as soon as one of its timestamps is old. *)
PruneEager(table, at) ==
  [k \in Keys |-> IF \A i \in 1 .. Len(table[k]) : Since(at, table[k][i]) < cleanup_threshold
                  THEN table[k] ELSE <<>>]

(* windows.retain: keep the partitions with a recent timestamp. *)
Prune(table, at) ==
  [k \in Keys |-> IF \E i \in 1 .. Len(table[k]) : Since(at, table[k][i]) < cleanup_threshold
                  THEN table[k] ELSE <<>>]

-----------------------------------------------------------------------------
(* RateLimiter::check of policy p begins, with the clock read in           *)
(* maybe_cleanup.                                                          *)
Call(t, p) ==
  /\ call[t].step = "idle"
  /\ call' = [call EXCEPT ![t] = [step |-> "cleanup", policy |-> p, at |-> now]]
  /\ UNCHANGED <<now, windows, last_cleanup, granted, retry>>

Proceed(t) == call' = [call EXCEPT ![t].step = "check"]

(* Not due, or another thread has the lock of last_cleanup. *)
SkipCleanup(t) ==
  /\ call[t].step = "cleanup"
  /\ \/ Since(call[t].at, last_cleanup) < cleanup_threshold
     \/ \E u \in Threads \ {t} : call[u].step = "cleanup"
  /\ Proceed(t)
  /\ UNCHANGED <<now, windows, last_cleanup, granted, retry>>

(* Due: the table is pruned unless another thread has its lock. *)
Cleanup(t) ==
  /\ call[t].step = "cleanup"
  /\ Since(call[t].at, last_cleanup) >= cleanup_threshold
  /\ last_cleanup' = call[t].at
  /\ \/ windows' = Prune(windows, call[t].at)
     \/ /\ \E u \in Threads \ {t} : call[u].step = "check"
        /\ UNCHANGED windows
  /\ Proceed(t)
  /\ UNCHANGED <<now, granted, retry>>

(* The key is new and the table full: stale partitions go first. *)
Crowded(p) == /\ Cardinality(Partitions(windows)) >= MAX_PARTITIONS
              /\ windows[Key[p]] = <<>>

Table(p) == IF Crowded(p) THEN Prune(windows, now) ELSE windows

Full(p) == Crowded(p) /\ Cardinality(Partitions(Table(p))) >= MAX_PARTITIONS

(* Still full: fail closed for the new key. *)
RefuseNewKey(t) ==
  /\ call[t].step = "check" /\ Full(call[t].policy)
  /\ windows' = Table(call[t].policy)
  /\ call' = [call EXCEPT ![t] = Idle]
  /\ UNCHANGED <<now, last_cleanup, granted, retry>>

(* check_and_record: below the quota, the request is recorded. *)
Allow(t) ==
  /\ call[t].step = "check" /\ ~Full(call[t].policy)
  /\ LET p == call[t].policy
         ts == Table(p)[Key[p]]
     IN \E d \in Expired(ts, now, Window[p]) :
          /\ Len(ts) - d < Quota[p]
          /\ windows' = [Table(p) EXCEPT ![Key[p]] = Append(SubSeq(ts, d + 1, Len(ts)), now)]
          /\ granted' = [granted EXCEPT ![p] = Append(granted[p], now)]
  /\ call' = [call EXCEPT ![t] = Idle]
  /\ UNCHANGED <<now, last_cleanup, retry>>

(* retry_after: the time until the oldest timestamp leaves the window, in  *)
(* whole seconds (as_secs cuts the rest off), and one second at least.     *)
RetryAfter(oldest, w) ==
  LET secs == Since(oldest + w, now) \div Second
  IN IF secs = 0 THEN 1 ELSE secs

(* Mutant: a refused request is recorded as well. *)
BlockRecords(t) ==
  /\ call[t].step = "check" /\ ~Full(call[t].policy)
  /\ LET p == call[t].policy
         ts == Table(p)[Key[p]]
     IN \E d \in Expired(ts, now, Window[p]) :
          /\ Len(ts) - d >= Quota[p]
          /\ windows' = [Table(p) EXCEPT ![Key[p]] = Append(SubSeq(ts, d + 1, Len(ts)), now)]
          /\ retry' = [retry EXCEPT ![p] = [at |-> now + RetryAfter(ts[d + 1], Window[p]) * Second,
                                            grants |-> Len(granted[p])]]
  /\ call' = [call EXCEPT ![t] = Idle]
  /\ UNCHANGED <<now, last_cleanup, granted>>

(* At the quota: the oldest timestamp says when to come back. *)
Block(t) ==
  /\ call[t].step = "check" /\ ~Full(call[t].policy)
  /\ LET p == call[t].policy
         ts == Table(p)[Key[p]]
     IN \E d \in Expired(ts, now, Window[p]) :
          /\ Len(ts) - d >= Quota[p]
          /\ windows' = [Table(p) EXCEPT ![Key[p]] = SubSeq(ts, d + 1, Len(ts))]
          /\ retry' = [retry EXCEPT ![p] = [at |-> now + RetryAfter(ts[d + 1], Window[p]) * Second,
                                            grants |-> Len(granted[p])]]
  /\ call' = [call EXCEPT ![t] = Idle]
  /\ UNCHANGED <<now, last_cleanup, granted>>

Tick ==
  /\ now < MaxTime
  /\ now' = now + 1
  /\ UNCHANGED <<windows, last_cleanup, call, granted, retry>>

-----------------------------------------------------------------------------
Next ==
  \/ Tick
  \/ \E t \in Threads :
       \/ \E p \in Policies : Call(t, p)
       \/ SkipCleanup(t) \/ Cleanup(t)
       \/ RefuseNewKey(t) \/ Allow(t) \/ Block(t)

Spec == Init /\ [][Next]_vars

-----------------------------------------------------------------------------
(* Properties *)

Calls == {Idle} \cup [step : {"cleanup", "check"}, policy : Policies, at : Nat]

TypeOK ==
  /\ now \in Nat
  /\ windows \in [Keys -> Seq(Nat)]
  /\ last_cleanup \in Nat
  /\ call \in [Threads -> Calls]
  /\ granted \in [Policies -> Seq(Nat)]
  /\ retry \in [Policies -> [at : Nat, grants : Nat]]

(* No other policy counts on the key, and the cleanup does not forget what *)
(* the window still needs.                                                 *)
Sound(p) ==
  /\ \A q \in Policies : Key[q] = Key[p] => q = p
  /\ Window[p] <= cleanup_threshold

(* Any quota + 1 requests that a policy lets pass span its window: however *)
(* the calls interleave, the cleanup prunes and the table overflows, no    *)
(* more than quota of them fall into one window.                           *)
SpacedGrants(p) ==
  \A i \in 1 .. Len(granted[p]) :
    i + Quota[p] <= Len(granted[p]) =>
      granted[p][i] + Window[p] <= granted[p][i + Quota[p]]

QuotaHolds == \A p \in Policies : Sound(p) => SpacedGrants(p)

(* A client that waits the retry_after of its refusal, with no grant of    *)
(* its own in between, finds room in its window within the next second:    *)
(* the fraction that as_secs cuts off is all it can be refused for.        *)
RetryIsHonest ==
  \A p \in Policies :
    /\ Sound(p)
    /\ now + 1 >= retry[p].at + Second
    /\ Len(granted[p]) = retry[p].grants
    => \E d \in Expired(windows[Key[p]], now, Window[p]) :
         Len(windows[Key[p]]) - d < Quota[p]

=============================================================================
