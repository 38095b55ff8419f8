---------------------------- MODULE RateLimiter -----------------------------
(***************************************************************************)
(* The rate limiter in front of every route: a token bucket for each       *)
(* client, made on demand in a sync.Map, used by requests that run side by *)
(* side, and dropped by a cleanup goroutine when it has rested.            *)
(*                                                                         *)
(* A tick of the clock is a fixed time in which Rate tokens come.  Each    *)
(* operation of the sync.Map and each critical section of a bucket's mutex *)
(* is one action.                                                          *)
(***************************************************************************)
EXTENDS Integers

CONSTANTS
  Key,           \* what getClientKey makes of requests: one for each address
  Request,       \* the requests that may run at the same time
  Rate,
  Capacity,
  TTL,           \* bucketTTL, in ticks
  MaxTime,       \* bound: the clock
  MaxBuckets     \* bound: buckets made in one behaviour

VARIABLES
  now,
  buckets,       \* the map, 0 where it has no bucket
  made,          \* the buckets made so far are 1..made
  tokens,        \* TokenBucket.tokens
  lastRefresh,   \* TokenBucket.lastRefresh
  req,           \* the requests
  sweep,         \* keys cleanupOldBuckets has still to visit
  cutoff,        \* its cutoff
  dropped,       \* buckets it has removed
  spent,         \* requests let through, per key, but for those of dropped buckets
  served         \* when a key last had a request let through, -1 for never

clientVars == <<made, req>>
bucketVars == <<tokens, lastRefresh>>
cleanupVars == <<sweep, cutoff, dropped>>
grantVars == <<spent, served>>

vars == <<now, buckets, clientVars, bucketVars, cleanupVars, grantVars>>

BucketId == 1..MaxBuckets

\* A bucket that has rested for bucketTTL is full: 10 tokens a second, a
\* capacity of 50 and five minutes in router.go and NewHybridRateLimiter.
ASSUME RateLimiterAssumption ==
  /\ Rate \in Nat \ {0}
  /\ Capacity \in Nat \ {0}
  /\ TTL \in Nat
  /\ Rate * TTL >= Capacity
  /\ MaxTime \in Nat
  /\ MaxBuckets \in Nat

\* Faulty variant: the comparison is the wrong way round.
max(a, b) == IF a > b THEN a ELSE b

min(a, b) == IF a < b THEN a ELSE b

Init ==
  /\ now = 0
  /\ buckets = [k \in Key |-> 0]
  /\ made = 0
  /\ tokens = [b \in BucketId |-> 0]
  /\ lastRefresh = [b \in BucketId |-> 0]
  /\ req \in [Request -> {[at |-> "idle", why |-> "check", key |-> k, bucket |-> 0] : k \in Key}]
  /\ sweep = {}
  /\ cutoff = 0
  /\ dropped = {}
  /\ spent = [k \in Key |-> 0]
  /\ served = [k \in Key |-> -1]

Tick ==
  /\ now < MaxTime
  /\ now' = now + 1
  /\ UNCHANGED <<buckets, clientVars, bucketVars, cleanupVars, grantVars>>

-----------------------------------------------------------------------------
(* The buckets.                                                              *)

Refreshed(b) == min(Capacity, tokens[b] + Rate * (now - lastRefresh[b]))

\* Sets the tokens of b, and lastRefresh to the present.
SetTokens(b, n) ==
  /\ tokens' = [tokens EXCEPT ![b] = n]
  /\ lastRefresh' = [lastRefresh EXCEPT ![b] = now]

-----------------------------------------------------------------------------
(* A request.  It looks its bucket up to consume a token, and once more for  *)
(* the answer or the log: why says which.                                    *)

Goes(p, place) == req' = [req EXCEPT ![p].at = place]

Finds(p, b) == req' = [req EXCEPT ![p].at = "use", ![p].bucket = b]

\* Middleware, and getClientKey; upgrades to a websocket pass by.
Arrive(p) ==
  /\ req[p].at = "idle"
  /\ Goes(p, "load")
  /\ UNCHANGED <<now, buckets, made, bucketVars, cleanupVars, grantVars>>

\* getBucket: the first look ...
Load(p) ==
  /\ req[p].at = "load"
  /\ IF buckets[req[p].key] # 0 THEN Finds(p, buckets[req[p].key]) ELSE Goes(p, "store")
  /\ UNCHANGED <<now, buckets, made, bucketVars, cleanupVars, grantVars>>

\* NewTokenBucket, put in the map for k.
NewTokenBucket(k) ==
  /\ made < MaxBuckets
  /\ made' = made + 1
  /\ buckets' = [buckets EXCEPT ![k] = made + 1]
  /\ SetTokens(made + 1, Capacity)

\* Faulty variant: the new bucket replaces one that came in between.
Store(p) ==
  /\ req[p].at = "store"
  /\ NewTokenBucket(req[p].key)
  /\ Finds(p, made + 1)
  /\ UNCHANGED <<now, cleanupVars, grantVars>>

\* ... and LoadOrStore.
LoadOrStore(p) ==
  LET k == req[p].key
  IN  /\ req[p].at = "store"
      /\ IF buckets[k] # 0
         THEN Finds(p, buckets[k]) /\ UNCHANGED <<buckets, made, bucketVars>>
         ELSE NewTokenBucket(k) /\ Finds(p, made + 1)
      /\ UNCHANGED <<now, cleanupVars, grantVars>>

\* The request is let through.
Grant(k, b) ==
  /\ spent' = IF b \in dropped THEN spent ELSE [spent EXCEPT ![k] = @ + 1]
  /\ served' = [served EXCEPT ![k] = now]

TryConsume(p) ==
  LET b == req[p].bucket
  IN  /\ req[p].at = "use"
      /\ req[p].why = "check"
      /\ IF Refreshed(b) >= 1
         THEN /\ SetTokens(b, Refreshed(b) - 1)
              /\ Grant(req[p].key, b)
              /\ req' = [req EXCEPT ![p].at = "load", ![p].why = "allowed"]
         ELSE /\ SetTokens(b, Refreshed(b))
              /\ req' = [req EXCEPT ![p].at = "load", ![p].why = "refused"]
              /\ UNCHANGED grantVars
      /\ UNCHANGED <<now, buckets, made, cleanupVars>>

\* The request is answered, and its place is free for the next one.
Done(p) ==
  \E k \in Key :
    req' = [req EXCEPT ![p] = [at |-> "idle", why |-> "check", key |-> k, bucket |-> 0]]

\* Faulty variant: the time is taken note of, the tokens are not added.
GetTokensForgetting(p) ==
  /\ req[p].at = "use"
  /\ req[p].why # "check"
  /\ SetTokens(req[p].bucket, tokens[req[p].bucket])
  /\ Done(p)
  /\ UNCHANGED <<now, buckets, made, cleanupVars, grantVars>>

\* GetTokens, for the header of a refusal or the log of the rest.
GetTokens(p) ==
  /\ req[p].at = "use"
  /\ req[p].why # "check"
  /\ SetTokens(req[p].bucket, Refreshed(req[p].bucket))
  /\ Done(p)
  /\ UNCHANGED <<now, buckets, made, cleanupVars, grantVars>>

-----------------------------------------------------------------------------
(* cleanupOldBuckets.                                                        *)

StartCleanup ==
  /\ sweep = {}
  /\ sweep' = Key
  /\ cutoff' = now - TTL
  /\ UNCHANGED <<now, buckets, clientVars, bucketVars, dropped, grantVars>>

\* Faulty variant: every bucket that is not in use this instant goes.
VisitAnyOld(k) ==
  LET b == buckets[k]
  IN  /\ k \in sweep
      /\ sweep' = sweep \ {k}
      /\ IF b # 0 /\ lastRefresh[b] < now
         THEN buckets' = [buckets EXCEPT ![k] = 0] /\ dropped' = dropped \cup {b}
         ELSE UNCHANGED <<buckets, dropped>>
      /\ UNCHANGED <<now, clientVars, bucketVars, cutoff, grantVars>>

\* One step of Range, under the mutex of the bucket.  A request may hold the
\* bucket that is removed, and go on to use it.
Visit(k) ==
  LET b == buckets[k]
  IN  /\ k \in sweep
      /\ sweep' = sweep \ {k}
      /\ IF b # 0 /\ lastRefresh[b] < cutoff
         THEN buckets' = [buckets EXCEPT ![k] = 0] /\ dropped' = dropped \cup {b}
         ELSE UNCHANGED <<buckets, dropped>>
      /\ UNCHANGED <<now, clientVars, bucketVars, cutoff, grantVars>>

-----------------------------------------------------------------------------

RequestStep(p) == Arrive(p) \/ Load(p) \/ LoadOrStore(p) \/ TryConsume(p) \/ GetTokens(p)

Next ==
  \/ Tick
  \/ \E p \in Request : RequestStep(p)
  \/ StartCleanup
  \/ \E k \in Key : Visit(k)

Spec == Init /\ [][Next]_vars

-----------------------------------------------------------------------------
(* Properties.                                                               *)

Req == [at : {"idle", "load", "store", "use"}, why : {"check", "allowed", "refused"},
        key : Key, bucket : 0..MaxBuckets]

\* The types; no bucket holds more than its capacity or less than nothing, and
\* none was refreshed in the future.
TypeOK ==
  /\ now \in 0..MaxTime
  /\ made \in 0..MaxBuckets
  /\ buckets \in [Key -> 0..MaxBuckets]
  /\ tokens \in [BucketId -> 0..Capacity]
  /\ lastRefresh \in [BucketId -> 0..now]
  /\ req \in [Request -> Req]
  /\ \A p \in Request : req[p].at = "use" => req[p].bucket \in 1..made
  /\ \A k \in Key : buckets[k] \in 0..made
  /\ sweep \subseteq Key
  /\ cutoff \in Int
  /\ cutoff <= now - (IF sweep = {} THEN 0 ELSE TTL)
  /\ dropped \subseteq 1..made
  /\ spent \in [Key -> Nat]
  /\ served \in [Key -> -1..now]

\* A client gets no more than its capacity and what has come since, however many
\* of its requests look for a bucket at once and however often its bucket is
\* cleaned up and made anew; only requests that still hold a bucket that was
\* removed come on top (rate-limiter.go: getBucket, cleanupOldBuckets).
KeyBounded == \A k \in Key : spent[k] <= Capacity + Rate * now

\* No client is refused that has had nothing for as long as one token takes to
\* come, whatever was refused it meanwhile and whatever buckets it had: a tenth
\* of the second that Retry-After asks for (rate-limiter.go: Middleware,
\* TryConsume and GetTokens on the same bucket).
RefusedOnlyIfServed ==
  [][\A p \in Request :
       (req[p].why = "check" /\ req'[p].why = "refused") => served[req[p].key] = now]_vars

\* What the cleanup takes away is full, so the client that returns to a new
\* bucket has gained nothing (rate-limiter.go: bucketTTL against the rate).
CleanupForgetsNothing ==
  [][\A b \in dropped' \ dropped : Refreshed(b) = Capacity]_vars
=============================================================================
