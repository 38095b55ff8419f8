-------------------------- MODULE RateLimiterProofs -------------------------
(***************************************************************************)
(* The bounds of the rate limiter, for any number of keys and of requests  *)
(* side by side, any rate, capacity and time to live.                      *)
(***************************************************************************)
EXTENDS RateLimiter, TLAPS

\* What comes in a stretch of time: the only products the proofs need.
LEMMA Earned ==
  ASSUME NEW s \in Nat, NEW t \in Nat, s <= t
  PROVE  /\ Rate * s \in Nat
         /\ Rate * (t - s) \in Nat
         /\ Rate * t = Rate * s + Rate * (t - s)
         /\ s < t => Rate * (t - s) >= 1
<1>1. Rate \in Nat /\ Rate >= 1
  BY RateLimiterAssumption
<1>2. PICK d \in Nat : t = s + d
  <2>1. t - s \in Nat /\ t = s + (t - s)
    OBVIOUS
  <2>. QED
    BY <2>1
<1>3. Rate * s \in Nat /\ Rate * d \in Nat /\ Rate * (s + d) = Rate * s + Rate * d
  BY <1>1
<1>4. t - s = d
  BY <1>2
<1>5. d >= 1 => Rate * d >= 1
  BY <1>1
<1>. QED
  BY <1>2, <1>3, <1>4, <1>5

\* A bucket that was last refreshed longer ago than the time to live is full.
LEMMA RestedIsFull ==
  ASSUME NEW s \in Nat, NEW t \in Nat, s <= t - TTL
  PROVE  Rate * (t - s) >= Capacity
<1>1. /\ TTL \in Nat /\ Rate \in Nat /\ Capacity \in Nat
      /\ Rate * TTL >= Capacity
  BY RateLimiterAssumption
<1>2. PICK d \in Nat : t - s = TTL + d
  <2>1. (t - s) - TTL \in Nat /\ t - s = TTL + ((t - s) - TTL)
    BY <1>1
  <2>. QED
    BY <2>1
<1>3. Rate * (TTL + d) = Rate * TTL + Rate * d /\ Rate * d \in Nat /\ Rate * TTL \in Nat
  BY <1>1
<1>. QED
  BY <1>1, <1>2, <1>3

-----------------------------------------------------------------------------
(* Types.                                                                    *)

\* Refreshing a bucket keeps it within its capacity.
LEMMA RefreshedTyped ==
  ASSUME TypeOK, NEW b \in BucketId
  PROVE  /\ Refreshed(b) \in 0..Capacity
         /\ Refreshed(b) <= tokens[b] + Rate * (now - lastRefresh[b])
         /\ tokens[b] >= 1 => Refreshed(b) >= 1
         /\ lastRefresh[b] < now => Refreshed(b) >= 1
<1>1. /\ tokens[b] \in 0..Capacity /\ lastRefresh[b] \in Nat
      /\ now \in Nat /\ lastRefresh[b] <= now
  BY DEF TypeOK
<1>2. Capacity \in Nat /\ Capacity >= 1
  BY RateLimiterAssumption
<1>. DEFINE e == Rate * (now - lastRefresh[b])
<1>3. e \in Nat /\ (lastRefresh[b] < now => e >= 1)
  BY <1>1, Earned
<1>4. Refreshed(b) = IF Capacity < tokens[b] + e THEN Capacity ELSE tokens[b] + e
  BY DEF Refreshed, min
<1>. HIDE DEF e
<1>5. /\ Refreshed(b) \in 0..Capacity
      /\ Refreshed(b) <= tokens[b] + e
      /\ tokens[b] >= 1 => Refreshed(b) >= 1
      /\ lastRefresh[b] < now => Refreshed(b) >= 1
  BY <1>1, <1>2, <1>3, <1>4
<1>. QED
  BY <1>5 DEF e

\* A new bucket for a key.
LEMMA NewBucketTyped ==
  ASSUME TypeOK, NEW k \in Key, NewTokenBucket(k)
  PROVE  /\ made' \in 0..MaxBuckets /\ made' = made + 1 /\ made + 1 \in BucketId
         /\ buckets' \in [Key -> 0..MaxBuckets]
         /\ \A l \in Key : buckets'[l] \in 0..made'
         /\ tokens' \in [BucketId -> 0..Capacity]
         /\ lastRefresh' \in [BucketId -> 0..now]
<1>1. made + 1 \in BucketId
  BY RateLimiterAssumption DEF TypeOK, NewTokenBucket, BucketId
<1>2. made' \in 0..MaxBuckets /\ made' = made + 1
  BY <1>1, RateLimiterAssumption DEF TypeOK, NewTokenBucket, BucketId
<1>3. /\ buckets' \in [Key -> 0..MaxBuckets]
      /\ \A l \in Key : buckets'[l] \in 0..made'
  BY <1>2, RateLimiterAssumption DEF TypeOK, NewTokenBucket
<1>4. Capacity \in 0..Capacity /\ now \in 0..now
  BY RateLimiterAssumption DEF TypeOK
<1>5. tokens' \in [BucketId -> 0..Capacity] /\ lastRefresh' \in [BucketId -> 0..now]
  <2>. HIDE DEF BucketId
  <2>. QED
    BY <1>1, <1>4 DEF TypeOK, NewTokenBucket, SetTokens
<1>. QED
  BY <1>1, <1>2, <1>3, <1>5

\* A request that has found a bucket.
LEMMA FoundTyped ==
  ASSUME TypeOK, NEW p \in Request, NEW n \in 0..MaxBuckets, made <= n, NEW b \in 1..n, Finds(p, b)
  PROVE  /\ req' \in [Request -> Req]
         /\ \A q \in Request : req'[q].at = "use" => req'[q].bucket \in 1..n
<1>1. b \in 0..MaxBuckets
  BY RateLimiterAssumption
<1>2. req' \in [Request -> Req]
  BY <1>1 DEF TypeOK, Finds, Req
<1>3. ASSUME NEW q \in Request, req'[q].at = "use" PROVE req'[q].bucket \in 1..n
  <2>1. CASE q = p
    BY <2>1 DEF TypeOK, Finds, Req
  <2>2. CASE q # p
    BY <1>3, <2>2, RateLimiterAssumption DEF TypeOK, Finds
  <2>. QED
    BY <2>1, <2>2
<1>. QED
  BY <1>2, <1>3

LEMMA TypeStep == TypeOK /\ [Next]_vars => TypeOK'
<1>. SUFFICES ASSUME TypeOK, [Next]_vars PROVE TypeOK'
  OBVIOUS
<1>. USE DEF TypeOK
<1>1. CASE Tick
  <2>1. now' \in 0..MaxTime /\ now' = now + 1
    BY <1>1, RateLimiterAssumption DEF Tick
  <2>2. lastRefresh \in [BucketId -> 0..now'] /\ served \in [Key -> -1..now']
    BY <2>1
  <2>3. cutoff <= now' - (IF sweep = {} THEN 0 ELSE TTL)
    BY <2>1, RateLimiterAssumption
  <2>. QED
    BY <1>1, <2>1, <2>2, <2>3 DEF Tick, clientVars, bucketVars, cleanupVars, grantVars
<1>2. ASSUME NEW p \in Request, Arrive(p) PROVE TypeOK'
  BY <1>2 DEF Arrive, Goes, Req, bucketVars, cleanupVars, grantVars
<1>3. ASSUME NEW p \in Request, Load(p) PROVE TypeOK'
  <2>1. UNCHANGED <<now, buckets, made, bucketVars, cleanupVars, grantVars>>
    BY <1>3 DEF Load
  <2>2. req[p].key \in Key /\ buckets[req[p].key] \in 0..made /\ made \in 0..MaxBuckets
    BY DEF Req
  <2>3. CASE buckets[req[p].key] # 0
    <3>1. Finds(p, buckets[req[p].key]) /\ buckets[req[p].key] \in 1..made
      BY <1>3, <2>2, <2>3 DEF Load
    <3>2. /\ req' \in [Request -> Req]
          /\ \A q \in Request : req'[q].at = "use" => req'[q].bucket \in 1..made
      BY <2>2, <3>1, FoundTyped
    <3>. QED
      BY <2>1, <3>2 DEF bucketVars, cleanupVars, grantVars
  <2>4. CASE buckets[req[p].key] = 0
    <3>1. Goes(p, "store")
      BY <1>3, <2>4 DEF Load
    <3>2. req' \in [Request -> Req]
      BY <3>1 DEF Goes, Req
    <3>3. \A q \in Request : req'[q].at = "use" => req'[q].bucket \in 1..made
      BY <3>1 DEF Goes, Req
    <3>. QED
      BY <2>1, <3>2, <3>3 DEF bucketVars, cleanupVars, grantVars
  <2>. QED
    BY <2>3, <2>4
<1>4. ASSUME NEW p \in Request, LoadOrStore(p) PROVE TypeOK'
  <2>. DEFINE k == req[p].key
  <2>1. k \in Key
    BY DEF Req
  <2>2. CASE buckets[k] # 0
    <3>1. /\ Finds(p, buckets[k])
          /\ UNCHANGED <<now, buckets, made, bucketVars, cleanupVars, grantVars>>
      BY <1>4, <2>2 DEF LoadOrStore
    <3>2. buckets[k] \in 1..made /\ made \in 0..MaxBuckets
      BY <2>1, <2>2
    <3>. QED
      BY <3>1, <3>2, FoundTyped DEF bucketVars, cleanupVars, grantVars
  <2>3. CASE buckets[k] = 0
    <3>1. NewTokenBucket(k) /\ Finds(p, made + 1) /\ UNCHANGED <<now, cleanupVars, grantVars>>
      BY <1>4, <2>3 DEF LoadOrStore
    <3>2. /\ made' \in 0..MaxBuckets /\ made' = made + 1
          /\ buckets' \in [Key -> 0..MaxBuckets]
          /\ \A l \in Key : buckets'[l] \in 0..made'
          /\ tokens' \in [BucketId -> 0..Capacity]
          /\ lastRefresh' \in [BucketId -> 0..now]
      BY <2>1, <3>1, NewBucketTyped
    <3>3. made + 1 \in 1..made'
      BY <3>2
    <3>4. req' \in [Request -> Req] /\ \A q \in Request : req'[q].at = "use" => req'[q].bucket \in 1..made'
      BY <3>1, <3>2, <3>3, FoundTyped
    <3>. QED
      BY <3>1, <3>2, <3>3, <3>4 DEF cleanupVars, grantVars
  <2>. QED
    BY <2>2, <2>3
<1>5. ASSUME NEW p \in Request, TryConsume(p) PROVE TypeOK'
  <2>. DEFINE b == req[p].bucket
  <2>1. b \in BucketId /\ req[p].key \in Key
    BY <1>5, RateLimiterAssumption DEF TryConsume, Req, BucketId
  <2>2. Refreshed(b) \in 0..Capacity
    BY <2>1, RefreshedTyped
  <2>3. tokens' \in [BucketId -> 0..Capacity] /\ lastRefresh' \in [BucketId -> 0..now]
    BY <1>5, <2>1, <2>2, RateLimiterAssumption DEF TryConsume, SetTokens
  <2>4. spent' \in [Key -> Nat] /\ served' \in [Key -> -1..now]
    BY <1>5, <2>1 DEF TryConsume, Grant, grantVars
  <2>5. req' \in [Request -> Req] /\ \A q \in Request : req'[q].at = "use" => req'[q].bucket \in 1..made
    BY <1>5 DEF TryConsume, Req
  <2>. QED
    BY <1>5, <2>3, <2>4, <2>5 DEF TryConsume, cleanupVars
<1>6. ASSUME NEW p \in Request, GetTokens(p) PROVE TypeOK'
  <2>. DEFINE b == req[p].bucket
  <2>1. b \in BucketId
    BY <1>6, RateLimiterAssumption DEF GetTokens, BucketId
  <2>2. Refreshed(b) \in 0..Capacity
    BY <2>1, RefreshedTyped
  <2>3. tokens' \in [BucketId -> 0..Capacity] /\ lastRefresh' \in [BucketId -> 0..now]
    BY <1>6, <2>1, <2>2 DEF GetTokens, SetTokens
  <2>4. req' \in [Request -> Req] /\ \A q \in Request : req'[q].at = "use" => req'[q].bucket \in 1..made
    BY <1>6, RateLimiterAssumption DEF GetTokens, Done, Req
  <2>. QED
    BY <1>6, <2>3, <2>4 DEF GetTokens, cleanupVars, grantVars
<1>7. CASE StartCleanup
  BY <1>7, RateLimiterAssumption DEF StartCleanup, clientVars, bucketVars, grantVars
<1>8. ASSUME NEW k \in Key, Visit(k) PROVE TypeOK'
  <2>1. buckets' \in [Key -> 0..MaxBuckets] /\ dropped' \subseteq 1..made
        /\ \A l \in Key : buckets'[l] \in 0..made
    <3>1. CASE buckets[k] # 0 /\ lastRefresh[buckets[k]] < cutoff
      <4>1. /\ buckets' = [buckets EXCEPT ![k] = 0]
            /\ dropped' = dropped \cup {buckets[k]}
        BY <1>8, <3>1 DEF Visit
      <4>2. buckets[k] \in 1..made /\ made \in 0..MaxBuckets
        BY <3>1
      <4>3. MaxBuckets \in Nat
        BY RateLimiterAssumption
      <4>4. 0 \in 0..MaxBuckets /\ 0 \in 0..made
        BY <4>2, <4>3
      <4>5. buckets' \in [Key -> 0..MaxBuckets]
        BY <4>1, <4>4
      <4>6. \A l \in Key : buckets'[l] \in 0..made
        BY <4>1, <4>4
      <4>7. dropped' \subseteq 1..made
        BY <4>1, <4>2
      <4>. QED
        BY <4>5, <4>6, <4>7
    <3>2. CASE ~(buckets[k] # 0 /\ lastRefresh[buckets[k]] < cutoff)
      BY <1>8, <3>2 DEF Visit
    <3>. QED
      BY <3>1, <3>2
  <2>2. cutoff <= now - (IF sweep' = {} THEN 0 ELSE TTL) /\ sweep' \subseteq Key
    BY <1>8, RateLimiterAssumption DEF Visit
  <2>. QED
    BY <1>8, <2>1, <2>2 DEF Visit, clientVars, bucketVars, grantVars
<1>9. CASE UNCHANGED vars
  BY <1>9 DEF vars, clientVars, bucketVars, cleanupVars, grantVars
<1>. QED
  BY <1>1, <1>2, <1>3, <1>4, <1>5, <1>6, <1>7, <1>8, <1>9 DEF Next, RequestStep

\* The types hold in every behaviour (rate-limiter.go: a bucket's tokens stay
\* between nothing and its capacity).
THEOREM TypeCorrect == Spec => []TypeOK
<1>1. Init => TypeOK
  BY RateLimiterAssumption DEF Init, TypeOK, Req, BucketId
<1>. QED
  BY <1>1, TypeStep, PTL DEF Spec

-----------------------------------------------------------------------------
(* Which bucket belongs to which key.                                        *)

Holds(p) == req[p].at = "use"

\* A bucket is in the map once at most and not after it was removed; a request
\* that holds a bucket has that of its key, or one that was removed, and nobody
\* holds it for another key.
KeyInv ==
  /\ \A k \in Key : buckets[k] \notin dropped
  /\ \A k, l \in Key : buckets[k] # 0 /\ buckets[k] = buckets[l] => k = l
  /\ \A p \in Request : Holds(p) => req[p].bucket \in dropped \cup {buckets[req[p].key]}
  /\ \A p, q \in Request :
       Holds(p) /\ Holds(q) /\ req[p].bucket = req[q].bucket => req[p].key = req[q].key

\* A bucket that is empty was refreshed last no later than its key was served.
Credit(b, k) == tokens[b] >= 1 \/ lastRefresh[b] <= served[k]

CreditInv ==
  /\ \A k \in Key : buckets[k] # 0 => Credit(buckets[k], k)
  /\ \A p \in Request : Holds(p) => Credit(req[p].bucket, req[p].key)

\* What a key was given and what it could take now are within its budget at the
\* time of the last refresh; without a bucket it has its whole capacity.
Budget(k) ==
  IF buckets[k] = 0
  THEN spent[k] <= Rate * now
  ELSE spent[k] + tokens[buckets[k]] <= Capacity + Rate * lastRefresh[buckets[k]]

BudgetInv == \A k \in Key : Budget(k)

\* A request that finds the bucket of its key.
LEMMA FoundKeepsKeys ==
  ASSUME TypeOK, KeyInv, NEW p \in Request, NEW b, buckets[req[p].key] = b, b # 0,
         Finds(p, b), UNCHANGED <<buckets, dropped>>
  PROVE  KeyInv'
<1>. DEFINE k == req[p].key
<1>1. /\ k \in Key /\ req \in [Request -> Req]
      /\ \A q \in Request : req[q].key \in Key
  BY DEF TypeOK, Req
<1>2. /\ req'[p].key = k /\ req'[p].bucket = b
      /\ \A q \in Request : req'[q].key = req[q].key
      /\ \A q \in Request \ {p} : req'[q] = req[q]
  BY <1>1 DEF Finds, Req
<1>3. ASSUME NEW q \in Request, Holds(q)'
      PROVE  req'[q].bucket \in dropped \cup {buckets[req'[q].key]}
  BY <1>2, <1>3 DEF KeyInv, Holds
<1>4. ASSUME NEW q \in Request \ {p}, Holds(q), req[q].bucket = b
      PROVE  req[q].key = k
  <2>1. b \notin dropped
    BY <1>1 DEF KeyInv
  <2>2. buckets[req[q].key] = b
    BY <1>4, <2>1 DEF KeyInv
  <2>. QED
    BY <1>1, <2>2 DEF KeyInv
<1>5. ASSUME NEW q \in Request, NEW r \in Request, Holds(q)', Holds(r)',
             req'[q].bucket = req'[r].bucket
      PROVE  req'[q].key = req'[r].key
  <2>1. CASE q = p /\ r # p
    BY <1>2, <1>4, <1>5, <2>1 DEF Holds
  <2>2. CASE q # p /\ r = p
    BY <1>2, <1>4, <1>5, <2>2 DEF Holds
  <2>3. CASE q # p /\ r # p
    BY <1>2, <1>5, <2>3 DEF Holds, KeyInv
  <2>. QED
    BY <2>1, <2>2, <2>3
<1>. QED
  BY <1>3, <1>5 DEF KeyInv

\* A request that holds no bucket after the step, or the one it held.
LEMMA LooseKeepsKeys ==
  ASSUME KeyInv, UNCHANGED <<buckets, dropped>>,
         \A q \in Request : Holds(q)' => UNCHANGED req[q]
  PROVE  KeyInv'
BY DEF KeyInv, Holds

LEMMA KeyStep == TypeOK /\ KeyInv /\ [Next]_vars => KeyInv'
<1>. SUFFICES ASSUME TypeOK, KeyInv, [Next]_vars PROVE KeyInv'
  OBVIOUS
<1>0. req \in [Request -> Req] /\ \A q \in Request : req[q].key \in Key
  BY DEF TypeOK, Req
<1>1. CASE Tick
  BY <1>1 DEF Tick, clientVars, cleanupVars, KeyInv, Holds
<1>2. ASSUME NEW p \in Request, Arrive(p) PROVE KeyInv'
  <2>1. UNCHANGED <<buckets, dropped>>
    BY <1>2 DEF Arrive, cleanupVars
  <2>2. \A q \in Request : Holds(q)' => UNCHANGED req[q]
    BY <1>0, <1>2 DEF Arrive, Goes, Holds, Req
  <2>. QED
    BY <2>1, <2>2, LooseKeepsKeys
<1>3. ASSUME NEW p \in Request, Load(p) PROVE KeyInv'
  <2>1. UNCHANGED <<buckets, dropped>>
    BY <1>3 DEF Load, cleanupVars
  <2>2. CASE buckets[req[p].key] # 0
    BY <1>3, <2>1, <2>2, FoundKeepsKeys DEF Load
  <2>3. CASE buckets[req[p].key] = 0
    <3>1. Goes(p, "store")
      BY <1>3, <2>3 DEF Load
    <3>2. \A q \in Request : Holds(q)' => UNCHANGED req[q]
      BY <1>0, <3>1 DEF Goes, Holds, Req
    <3>. QED
      BY <2>1, <3>2, LooseKeepsKeys
  <2>. QED
    BY <2>2, <2>3
<1>4. ASSUME NEW p \in Request, LoadOrStore(p) PROVE KeyInv'
  <2>. DEFINE k == req[p].key
  <2>1. CASE buckets[k] # 0
    BY <1>4, <2>1, FoundKeepsKeys DEF LoadOrStore, cleanupVars
  <2>2. CASE buckets[k] = 0
    <3>1. Finds(p, made + 1) /\ buckets' = [buckets EXCEPT ![k] = made + 1] /\ dropped' = dropped
      BY <1>4, <2>2 DEF LoadOrStore, NewTokenBucket, cleanupVars
    <3>2. /\ made \in Nat /\ dropped \subseteq 1..made
          /\ \A l \in Key : buckets[l] \in 0..made
          /\ \A q \in Request : Holds(q) => req[q].bucket \in 1..made
      BY RateLimiterAssumption DEF TypeOK, Holds
    <3>3. /\ made + 1 # 0 /\ made + 1 \notin dropped
          /\ \A l \in Key : buckets[l] # made + 1
          /\ \A q \in Request : Holds(q) => req[q].bucket # made + 1
      BY <3>2
    <3>4. buckets'[k] = made + 1 /\ \A l \in Key \ {k} : buckets'[l] = buckets[l]
      BY <1>0, <3>1 DEF TypeOK
    <3>5. /\ Holds(p)' /\ req'[p].key = k /\ req'[p].bucket = made + 1
          /\ \A q \in Request \ {p} : req'[q] = req[q]
      BY <1>0, <3>1 DEF Finds, Req, Holds
    <3>6. \A l \in Key : buckets'[l] \notin dropped'
      BY <3>1, <3>3, <3>4 DEF KeyInv
    <3>7. \A l, m \in Key : buckets'[l] # 0 /\ buckets'[l] = buckets'[m] => l = m
      BY <3>3, <3>4 DEF KeyInv
    <3>8. ASSUME NEW q \in Request, Holds(q)'
          PROVE  req'[q].bucket \in dropped' \cup {buckets'[req'[q].key]}
      <4>1. CASE q = p
        BY <3>4, <3>5, <4>1
      <4>2. CASE q # p
        <5>1. req'[q] = req[q] /\ Holds(q)
          BY <3>5, <3>8, <4>2 DEF Holds
        <5>2. req[q].bucket \in dropped \cup {buckets[req[q].key]} /\ req[q].bucket # 0
          BY <3>2, <5>1 DEF KeyInv
        <5>3. CASE req[q].key = k
          BY <2>2, <3>1, <5>1, <5>2, <5>3
        <5>4. CASE req[q].key # k
          BY <1>0, <3>1, <3>4, <5>1, <5>2, <5>4
        <5>. QED
          BY <5>3, <5>4
      <4>. QED
        BY <4>1, <4>2
    <3>9. \A q, r \in Request :
            Holds(q)' /\ Holds(r)' /\ req'[q].bucket = req'[r].bucket => req'[q].key = req'[r].key
      <4>1. \A q \in Request \ {p} : Holds(q)' => Holds(q) /\ req'[q].bucket # made + 1
        BY <3>3, <3>5 DEF Holds
      <4>. QED
        BY <3>5, <4>1 DEF KeyInv, Holds
    <3>. QED
      BY <3>6, <3>7, <3>8, <3>9 DEF KeyInv
  <2>. QED
    BY <2>1, <2>2
<1>5. ASSUME NEW p \in Request, TryConsume(p) PROVE KeyInv'
  <2>1. UNCHANGED <<buckets, dropped>>
    BY <1>5 DEF TryConsume, cleanupVars
  <2>2. \A q \in Request : Holds(q)' => UNCHANGED req[q]
    BY <1>0, <1>5 DEF TryConsume, Holds, Req
  <2>. QED
    BY <2>1, <2>2, LooseKeepsKeys
<1>6. ASSUME NEW p \in Request, GetTokens(p) PROVE KeyInv'
  <2>1. UNCHANGED <<buckets, dropped>>
    BY <1>6 DEF GetTokens, cleanupVars
  <2>2. \A q \in Request : Holds(q)' => UNCHANGED req[q]
    BY <1>0, <1>6 DEF GetTokens, Done, Holds, Req
  <2>. QED
    BY <2>1, <2>2, LooseKeepsKeys
<1>7. CASE StartCleanup
  BY <1>7 DEF StartCleanup, clientVars, KeyInv, Holds
<1>8. ASSUME NEW k \in Key, Visit(k) PROVE KeyInv'
  <2>1. req' = req
    BY <1>8 DEF Visit, clientVars
  <2>2. CASE buckets[k] # 0 /\ lastRefresh[buckets[k]] < cutoff
    <3>1. buckets' = [buckets EXCEPT ![k] = 0] /\ dropped' = dropped \cup {buckets[k]}
      BY <1>8, <2>2 DEF Visit
    <3>2. buckets'[k] = 0 /\ \A l \in Key \ {k} : buckets'[l] = buckets[l]
      BY <3>1 DEF TypeOK
    <3>3. 0 \notin dropped'
      BY <2>2, <3>1 DEF TypeOK
    <3>4. \A l \in Key : buckets'[l] \notin dropped'
      BY <2>2, <3>1, <3>2, <3>3 DEF KeyInv
    <3>5. \A l, m \in Key : buckets'[l] # 0 /\ buckets'[l] = buckets'[m] => l = m
      BY <3>2 DEF KeyInv
    <3>6. \A q \in Request : Holds(q)' => req'[q].bucket \in dropped' \cup {buckets'[req'[q].key]}
      BY <1>0, <2>1, <3>1, <3>2 DEF KeyInv, Holds
    <3>. QED
      BY <2>1, <3>4, <3>5, <3>6 DEF KeyInv, Holds
  <2>3. CASE ~(buckets[k] # 0 /\ lastRefresh[buckets[k]] < cutoff)
    BY <1>8, <2>1, <2>3 DEF Visit, KeyInv, Holds
  <2>. QED
    BY <2>2, <2>3
<1>9. CASE UNCHANGED vars
  BY <1>9 DEF vars, clientVars, cleanupVars, KeyInv, Holds
<1>. QED
  BY <1>1, <1>2, <1>3, <1>4, <1>5, <1>6, <1>7, <1>8, <1>9 DEF Next, RequestStep

-----------------------------------------------------------------------------
(* Who is refused.                                                           *)

\* After b is refreshed: it holds a token, or it was refused and its key has
\* been served this instant.
LEMMA RefreshKeepsCredit ==
  ASSUME TypeOK, NEW b \in BucketId, NEW k \in Key, Credit(b, k), Refreshed(b) < 1
  PROVE  served[k] = now
<1>1. tokens[b] \in 0..Capacity /\ lastRefresh[b] \in 0..now /\ served[k] \in -1..now /\ now \in Nat
  BY DEF TypeOK
<1>2. /\ Refreshed(b) \in 0..Capacity /\ Capacity \in Nat
      /\ tokens[b] >= 1 => Refreshed(b) >= 1
      /\ lastRefresh[b] < now => Refreshed(b) >= 1
  BY RefreshedTyped, RateLimiterAssumption
<1>3. ~(Refreshed(b) >= 1)
  BY <1>2
<1>4. ~(tokens[b] >= 1) /\ ~(lastRefresh[b] < now)
  BY <1>2, <1>3
<1>. QED
  BY <1>1, <1>4 DEF Credit

\* Credit is not lost while a key is served more, the bucket untouched.
LEMMA CreditStays ==
  ASSUME TypeOK, NEW b \in BucketId, NEW k \in Key, Credit(b, k),
         UNCHANGED <<tokens[b], lastRefresh[b]>>, served'[k] \in {served[k], now}
  PROVE  Credit(b, k)'
BY DEF TypeOK, Credit

LEMMA CreditStep == TypeOK /\ KeyInv /\ CreditInv /\ [Next]_vars => CreditInv'
<1>. SUFFICES ASSUME TypeOK, KeyInv, CreditInv, [Next]_vars PROVE CreditInv'
  OBVIOUS
<1>0. /\ req \in [Request -> Req] /\ \A q \in Request : req[q].key \in Key
      /\ \A q \in Request : Holds(q) => req[q].bucket \in BucketId
      /\ \A k \in Key : buckets[k] # 0 => buckets[k] \in BucketId
  BY RateLimiterAssumption DEF TypeOK, Req, Holds, BucketId
\* Steps that leave the buckets' contents alone.
<1>1. ASSUME UNCHANGED <<bucketVars, served>>,
             \A k \in Key : buckets'[k] \in {0, buckets[k]},
             \A q \in Request : Holds(q)' =>
               \/ UNCHANGED req[q]
               \/ req'[q].key = req[q].key /\ req'[q].bucket = buckets[req[q].key] /\ buckets[req[q].key] # 0
      PROVE  CreditInv'
  BY <1>0, <1>1 DEF CreditInv, Credit, Holds, bucketVars
\* Steps of a request that uses the bucket it holds.
<1>2. ASSUME NEW p \in Request, Holds(p), UNCHANGED buckets,
             \A q \in Request : Holds(q)' => UNCHANGED req[q],
             NEW n, SetTokens(req[p].bucket, n),
             \/ n \in Nat /\ n >= 1 /\ served' = served
             \/ served' = [served EXCEPT ![req[p].key] = now]
      PROVE  CreditInv'
  <2>. DEFINE b == req[p].bucket
              k == req[p].key
  <2>1. b \in BucketId /\ k \in Key /\ now \in Nat
    BY <1>0, <1>2 DEF TypeOK
  <2>2. /\ tokens'[b] = n /\ lastRefresh'[b] = now
        /\ \A c \in BucketId \ {b} : UNCHANGED <<tokens[c], lastRefresh[c]>>
    BY <1>2, <2>1 DEF SetTokens, TypeOK
  <2>3. \A l \in Key : served'[l] \in {served[l], now}
    BY <1>2, <2>1 DEF TypeOK
  <2>4. tokens'[b] >= 1 \/ lastRefresh'[b] <= served'[k]
    <3>1. CASE n \in Nat /\ n >= 1
      BY <2>2, <3>1
    <3>2. CASE served' = [served EXCEPT ![k] = now]
      <4>1. served'[k] = now
        BY <2>1, <3>2 DEF TypeOK
      <4>. QED
        BY <2>1, <2>2, <4>1
    <3>. QED
      BY <1>2, <3>1, <3>2
  <2>5. ASSUME NEW l \in Key, buckets'[l] # 0 PROVE Credit(buckets[l], l)'
    <3>1. buckets[l] \in BucketId /\ Credit(buckets[l], l)
      BY <1>0, <1>2, <2>5 DEF CreditInv
    <3>2. CASE buckets[l] = b
      <4>1. l = k
        BY <1>2, <2>1, <2>5, <3>2 DEF KeyInv
      <4>. QED
        BY <2>4, <3>2, <4>1, <1>2 DEF Credit
    <3>3. CASE buckets[l] # b
      BY <1>2, <2>2, <2>3, <3>1, <3>3, CreditStays DEF Credit
    <3>. QED
      BY <3>2, <3>3
  <2>6. ASSUME NEW q \in Request, Holds(q)' PROVE Credit(req[q].bucket, req[q].key)'
    <3>1. req'[q] = req[q] /\ Holds(q)
      BY <1>2, <2>6 DEF Holds
    <3>2. CASE req[q].bucket = b
      <4>1. req[q].key = k
        BY <1>2, <3>1, <3>2 DEF KeyInv
      <4>. QED
        BY <1>2, <2>4, <3>1, <3>2, <4>1 DEF Credit
    <3>3. CASE req[q].bucket # b
      <4>1. req[q].bucket \in BucketId /\ req[q].key \in Key /\ Credit(req[q].bucket, req[q].key)
        BY <1>0, <3>1 DEF CreditInv
      <4>2. UNCHANGED <<tokens[req[q].bucket], lastRefresh[req[q].bucket]>>
        BY <2>2, <3>1, <3>3, <4>1
      <4>3. served'[req[q].key] \in {served[req[q].key], now}
        BY <2>3, <3>1, <4>1
      <4>. QED
        BY <3>1, <4>1, <4>2, <4>3 DEF Credit, TypeOK
    <3>. QED
      BY <3>2, <3>3
  <2>. QED
    BY <1>2, <2>5, <2>6 DEF CreditInv, Credit
<1>3. CASE Tick
  BY <1>1, <1>3 DEF Tick, clientVars, bucketVars, grantVars
<1>4. ASSUME NEW p \in Request, Arrive(p) PROVE CreditInv'
  <2>1. \A q \in Request : Holds(q)' => UNCHANGED req[q]
    BY <1>0, <1>4 DEF Arrive, Goes, Holds, Req
  <2>. QED
    BY <1>1, <1>4, <2>1 DEF Arrive, grantVars
<1>5. ASSUME NEW p \in Request, Load(p) PROVE CreditInv'
  <2>1. \A q \in Request : Holds(q)' =>
          \/ UNCHANGED req[q]
          \/ req'[q].key = req[q].key /\ req'[q].bucket = buckets[req[q].key] /\ buckets[req[q].key] # 0
    <3>1. CASE buckets[req[p].key] # 0
      BY <1>0, <1>5, <3>1 DEF Load, Finds, Holds, Req
    <3>2. CASE buckets[req[p].key] = 0
      <4>1. Goes(p, "store")
        BY <1>5, <3>2 DEF Load
      <4>. QED
        BY <1>0, <4>1 DEF Goes, Holds, Req
    <3>. QED
      BY <3>1, <3>2
  <2>. QED
    BY <1>1, <1>5, <2>1 DEF Load, grantVars
<1>6. ASSUME NEW p \in Request, LoadOrStore(p) PROVE CreditInv'
  <2>. DEFINE k == req[p].key
  <2>1. CASE buckets[k] # 0
    <3>1. Finds(p, buckets[k]) /\ UNCHANGED <<buckets, bucketVars, grantVars>>
      BY <1>6, <2>1 DEF LoadOrStore
    <3>2. \A q \in Request : Holds(q)' =>
            \/ UNCHANGED req[q]
            \/ req'[q].key = req[q].key /\ req'[q].bucket = buckets[req[q].key] /\ buckets[req[q].key] # 0
      BY <1>0, <2>1, <3>1 DEF Finds, Holds, Req
    <3>. QED
      BY <1>1, <3>1, <3>2 DEF grantVars
  <2>2. CASE buckets[k] = 0
    <3>1. /\ NewTokenBucket(k) /\ Finds(p, made + 1) /\ UNCHANGED <<now, served>>
      BY <1>6, <2>2 DEF LoadOrStore, grantVars
    <3>2. /\ made \in Nat /\ made + 1 \in BucketId
          /\ \A l \in Key : buckets[l] # made + 1
          /\ \A q \in Request : Holds(q) => req[q].bucket # made + 1
      BY <1>0, <3>1, NewBucketTyped, RateLimiterAssumption DEF TypeOK, Holds
    <3>3. tokens'[made + 1] = Capacity /\ Capacity >= 1
      BY <3>1, <3>2, RateLimiterAssumption DEF NewTokenBucket, SetTokens, TypeOK
    <3>4. \A c \in BucketId \ {made + 1} : UNCHANGED <<tokens[c], lastRefresh[c]>>
      BY <3>1, <3>2 DEF NewTokenBucket, SetTokens, TypeOK
    <3>5. buckets'[k] = made + 1 /\ \A l \in Key \ {k} : buckets'[l] = buckets[l]
      BY <1>0, <3>1 DEF NewTokenBucket, TypeOK
    <3>6. req'[p].bucket = made + 1 /\ \A q \in Request \ {p} : req'[q] = req[q]
      BY <1>0, <3>1 DEF Finds, Req
    <3>7. ASSUME NEW l \in Key, buckets'[l] # 0 PROVE Credit(buckets[l], l)'
      <4>1. CASE l = k
        BY <3>3, <3>5, <4>1 DEF Credit
      <4>2. CASE l # k
        BY <1>0, <3>1, <3>2, <3>4, <3>5, <3>7, <4>2 DEF Credit, CreditInv
      <4>. QED
        BY <4>1, <4>2
    <3>8. ASSUME NEW q \in Request, Holds(q)' PROVE Credit(req[q].bucket, req[q].key)'
      <4>1. CASE q = p
        BY <3>3, <3>6, <4>1 DEF Credit
      <4>2. CASE q # p
        BY <1>0, <3>1, <3>2, <3>4, <3>6, <3>8, <4>2 DEF Credit, CreditInv, Holds
      <4>. QED
        BY <4>1, <4>2
    <3>. QED
      BY <3>7, <3>8 DEF CreditInv
  <2>. QED
    BY <2>1, <2>2
<1>7. ASSUME NEW p \in Request, TryConsume(p) PROVE CreditInv'
  <2>. DEFINE b == req[p].bucket
  <2>1. Holds(p) /\ b \in BucketId /\ req[p].key \in Key /\ Credit(b, req[p].key)
    BY <1>0, <1>7 DEF TryConsume, Holds, CreditInv
  <2>2. Refreshed(b) \in Nat
    BY <2>1, RefreshedTyped, RateLimiterAssumption
  <2>3. UNCHANGED buckets /\ \A q \in Request : Holds(q)' => UNCHANGED req[q]
    BY <1>0, <1>7 DEF TryConsume, Holds, Req
  <2>4. CASE Refreshed(b) >= 1
    <3>1. /\ SetTokens(b, Refreshed(b) - 1)
          /\ served' = [served EXCEPT ![req[p].key] = now]
      BY <1>7, <2>4 DEF TryConsume, Grant
    <3>. QED
      BY <1>2, <2>1, <2>3, <3>1
  <2>5. CASE ~(Refreshed(b) >= 1)
    <3>1. SetTokens(b, Refreshed(b)) /\ served' = served
      BY <1>7, <2>5 DEF TryConsume, grantVars
    <3>2. served[req[p].key] = now
      BY <2>1, <2>2, <2>5, RefreshKeepsCredit
    <3>3. served' = [served EXCEPT ![req[p].key] = now]
      BY <2>1, <3>1, <3>2 DEF TypeOK
    <3>. QED
      BY <1>2, <2>1, <2>3, <3>1, <3>3
  <2>. QED
    BY <2>4, <2>5
<1>8. ASSUME NEW p \in Request, GetTokens(p) PROVE CreditInv'
  <2>. DEFINE b == req[p].bucket
  <2>1. Holds(p) /\ b \in BucketId /\ req[p].key \in Key /\ Credit(b, req[p].key)
    BY <1>0, <1>8 DEF GetTokens, Holds, CreditInv
  <2>2. Refreshed(b) \in Nat
    BY <2>1, RefreshedTyped, RateLimiterAssumption
  <2>3. UNCHANGED buckets /\ \A q \in Request : Holds(q)' => UNCHANGED req[q]
    BY <1>0, <1>8 DEF GetTokens, Done, Holds, Req
  <2>4. SetTokens(b, Refreshed(b)) /\ served' = served
    BY <1>8 DEF GetTokens, grantVars
  <2>5. CASE Refreshed(b) >= 1
    BY <1>2, <2>1, <2>2, <2>3, <2>4, <2>5
  <2>6. CASE Refreshed(b) < 1
    <3>1. served[req[p].key] = now
      BY <2>1, <2>6, RefreshKeepsCredit
    <3>2. served' = [served EXCEPT ![req[p].key] = now]
      BY <2>1, <2>4, <3>1 DEF TypeOK
    <3>. QED
      BY <1>2, <2>1, <2>3, <2>4, <3>2
  <2>. QED
    BY <2>2, <2>5, <2>6
<1>9. CASE StartCleanup
  BY <1>1, <1>9 DEF StartCleanup, clientVars, grantVars
<1>10. ASSUME NEW k \in Key, Visit(k) PROVE CreditInv'
  <2>1. \A l \in Key : buckets'[l] \in {0, buckets[l]}
    BY <1>10 DEF Visit, TypeOK
  <2>. QED
    BY <1>1, <1>10, <2>1 DEF Visit, clientVars, grantVars
<1>11. CASE UNCHANGED vars
  BY <1>1, <1>11 DEF vars, clientVars, grantVars
<1>. QED
  BY <1>3, <1>4, <1>5, <1>6, <1>7, <1>8, <1>9, <1>10, <1>11 DEF Next, RequestStep

-----------------------------------------------------------------------------
(* What a key is given.                                                      *)

LEMMA BucketBounds == ASSUME TypeOK, NEW b \in BucketId
  PROVE /\ lastRefresh[b] \in Nat /\ now \in Nat /\ lastRefresh[b] <= now
        /\ tokens[b] \in Nat /\ Capacity \in Nat /\ Rate * lastRefresh[b] \in Nat
        /\ Rate * now \in Nat /\ Rate * lastRefresh[b] <= Rate * now
        /\ Refreshed(b) \in Nat
        /\ Refreshed(b) + Rate * lastRefresh[b] <= tokens[b] + Rate * now
<1>1. /\ lastRefresh[b] \in Nat /\ now \in Nat /\ lastRefresh[b] <= now
      /\ tokens[b] \in Nat /\ Capacity \in Nat
  BY RateLimiterAssumption DEF TypeOK
<1>2. /\ Rate * lastRefresh[b] \in Nat /\ Rate * (now - lastRefresh[b]) \in Nat
      /\ Rate * now = Rate * lastRefresh[b] + Rate * (now - lastRefresh[b])
  BY <1>1, Earned
<1>3. Refreshed(b) \in Nat /\ Refreshed(b) <= tokens[b] + Rate * (now - lastRefresh[b])
  BY <1>1, RefreshedTyped
<1>. DEFINE last == Rate * lastRefresh[b]
            earned == Rate * (now - lastRefresh[b])
            all == Rate * now
<1>4. /\ last \in Nat /\ earned \in Nat /\ all = last + earned
      /\ Refreshed(b) \in Nat /\ Refreshed(b) <= tokens[b] + earned
  BY <1>2, <1>3
<1>. HIDE DEF last, earned, all
<1>5. all \in Nat /\ last <= all /\ Refreshed(b) + last <= tokens[b] + all
  BY <1>1, <1>4
<1>. QED
  BY <1>1, <1>2, <1>3, <1>5 DEF last, all

\* A bucket is refreshed, and the request that holds it takes one token or none.
LEMMA UseKeepsBudget ==
  ASSUME TypeOK, KeyInv, BudgetInv, NEW p \in Request, Holds(p), UNCHANGED <<buckets, now>>,
         NEW n \in Nat, SetTokens(req[p].bucket, n), n <= Refreshed(req[p].bucket),
         \/ spent' = spent
         \/ /\ n = Refreshed(req[p].bucket) - 1
            /\ req[p].bucket \notin dropped
            /\ spent' = [spent EXCEPT ![req[p].key] = @ + 1]
  PROVE  BudgetInv'
<1>. DEFINE b == req[p].bucket
            k == req[p].key
<1>1. b \in BucketId /\ k \in Key /\ \A l \in Key : buckets[l] # 0 => buckets[l] \in BucketId
  BY RateLimiterAssumption DEF TypeOK, Req, Holds, BucketId
<1>2. /\ tokens'[b] = n /\ lastRefresh'[b] = now
      /\ \A c \in BucketId \ {b} : UNCHANGED <<tokens[c], lastRefresh[c]>>
  BY <1>1 DEF SetTokens, TypeOK
<1>3. /\ spent'[k] = spent[k] \/ (n = Refreshed(b) - 1 /\ b \notin dropped /\ spent'[k] = spent[k] + 1)
      /\ \A l \in Key \ {k} : spent'[l] = spent[l]
  BY <1>1 DEF TypeOK
<1>4. spent[k] \in Nat
  BY <1>1 DEF TypeOK
<1>5. b \in dropped \/ buckets[k] = b
  BY DEF KeyInv
<1>6. ASSUME NEW l \in Key PROVE Budget(l)'
  <2>1. CASE buckets[l] = b
    <3>1. l = k /\ buckets[k] = b
      <4>1. b \notin dropped
        BY <2>1 DEF KeyInv
      <4>2. b # 0
        BY <1>1 DEF BucketId
      <4>. QED
        BY <1>1, <1>5, <2>1, <4>1, <4>2 DEF KeyInv
    <3>2. spent[k] + tokens[b] <= Capacity + Rate * lastRefresh[b] /\ b # 0
      BY <1>1, <3>1 DEF BudgetInv, Budget, BucketId
    <3>. DEFINE last == Rate * lastRefresh[b]
                all == Rate * now
    <3>3. /\ last \in Nat /\ all \in Nat /\ tokens[b] \in Nat /\ Capacity \in Nat /\ Refreshed(b) \in Nat
          /\ Refreshed(b) + last <= tokens[b] + all /\ spent[k] + tokens[b] <= Capacity + last
      BY <1>1, <3>2, BucketBounds
    <3>4. spent'[k] + n <= Capacity + all
      <4>. HIDE DEF last, all
      <4>1. CASE spent'[k] = spent[k]
        BY <1>4, <3>3, <4>1
      <4>2. CASE n = Refreshed(b) - 1 /\ spent'[k] = spent[k] + 1
        BY <1>4, <3>3, <4>2
      <4>. QED
        BY <1>3, <4>1, <4>2
    <3>. QED
      BY <1>2, <3>1, <3>2, <3>4 DEF Budget
  <2>2. CASE buckets[l] # b
    <3>1. spent'[l] = spent[l]
      <4>1. CASE l = k
        BY <1>3, <1>5, <2>2, <4>1
      <4>2. CASE l # k
        BY <1>3, <4>2
      <4>. QED
        BY <4>1, <4>2
    <3>2. CASE buckets[l] = 0
      BY <3>1, <3>2 DEF BudgetInv, Budget
    <3>3. CASE buckets[l] # 0
      <4>1. UNCHANGED <<tokens[buckets[l]], lastRefresh[buckets[l]]>>
        BY <1>1, <1>2, <2>2, <3>3
      <4>. QED
        BY <3>1, <3>3, <4>1 DEF BudgetInv, Budget
    <3>. QED
      BY <3>2, <3>3
  <2>. QED
    BY <2>1, <2>2
<1>. QED
  BY <1>6 DEF BudgetInv

LEMMA BudgetStep == TypeOK /\ KeyInv /\ BudgetInv /\ [Next]_vars => BudgetInv'
<1>. SUFFICES ASSUME TypeOK, KeyInv, BudgetInv, [Next]_vars PROVE BudgetInv'
  OBVIOUS
<1>0. /\ \A q \in Request : Holds(q) => req[q].bucket \in BucketId
      /\ \A k \in Key : buckets[k] # 0 => buckets[k] \in BucketId
      /\ \A q \in Request : req[q].key \in Key
  BY RateLimiterAssumption DEF TypeOK, Req, Holds, BucketId
<1>1. ASSUME UNCHANGED <<now, buckets, bucketVars, spent>> PROVE BudgetInv'
  BY <1>1 DEF BudgetInv, Budget, bucketVars
<1>2. CASE Tick
  <2>1. now \in Nat /\ now + 1 \in Nat /\ now <= now + 1 /\ now' = now + 1
    BY <1>2 DEF Tick, TypeOK
  <2>2. Rate * now \in Nat /\ Rate * now' \in Nat /\ Rate * now <= Rate * now'
    <3>1. /\ Rate * now \in Nat /\ Rate * ((now + 1) - now) \in Nat
          /\ Rate * (now + 1) = Rate * now + Rate * ((now + 1) - now)
      BY <2>1, Earned
    <3>. DEFINE before == Rate * now
                more == Rate * ((now + 1) - now)
    <3>2. before \in Nat /\ more \in Nat /\ Rate * (now + 1) = before + more
      BY <3>1
    <3>. HIDE DEF before, more
    <3>3. before + more \in Nat /\ before <= before + more
      BY <3>2
    <3>4. Rate * (now + 1) \in Nat /\ before <= Rate * (now + 1)
      BY <3>2, <3>3
    <3>. QED
      BY <2>1, <3>2, <3>4 DEF before
  <2>3. UNCHANGED <<buckets, tokens, lastRefresh, spent>>
    BY <1>2 DEF Tick, bucketVars, grantVars
  <2>4. ASSUME NEW k \in Key PROVE Budget(k)'
    <3>1. CASE buckets[k] = 0
      <4>. DEFINE before == Rate * now
                  after == Rate * now'
      <4>1. spent[k] \in Nat /\ spent[k] <= before /\ before \in Nat /\ after \in Nat /\ before <= after
        BY <2>2, <3>1 DEF BudgetInv, Budget, TypeOK
      <4>. HIDE DEF before, after
      <4>2. spent[k] <= after
        BY <4>1
      <4>. QED
        BY <2>3, <3>1, <4>2 DEF Budget, after
    <3>2. CASE buckets[k] # 0
      BY <2>3, <3>2 DEF BudgetInv, Budget
    <3>. QED
      BY <3>1, <3>2
  <2>. QED
    BY <2>4 DEF BudgetInv
<1>3. ASSUME NEW p \in Request, Arrive(p) \/ Load(p) PROVE BudgetInv'
  BY <1>1, <1>3 DEF Arrive, Load, grantVars
<1>4. ASSUME NEW p \in Request, LoadOrStore(p) PROVE BudgetInv'
  <2>. DEFINE k == req[p].key
  <2>1. CASE buckets[k] # 0
    BY <1>1, <1>4, <2>1 DEF LoadOrStore, grantVars
  <2>2. CASE buckets[k] = 0
    <3>1. NewTokenBucket(k) /\ UNCHANGED <<now, spent>>
      BY <1>4, <2>2 DEF LoadOrStore, grantVars
    <3>2. made + 1 \in BucketId /\ made + 1 # 0 /\ \A l \in Key : buckets[l] # made + 1
      BY <1>0, <3>1, NewBucketTyped DEF TypeOK
    <3>3. /\ buckets'[k] = made + 1 /\ \A l \in Key \ {k} : buckets'[l] = buckets[l]
          /\ tokens'[made + 1] = Capacity /\ lastRefresh'[made + 1] = now
          /\ \A c \in BucketId \ {made + 1} : UNCHANGED <<tokens[c], lastRefresh[c]>>
      BY <1>0, <3>1, <3>2 DEF NewTokenBucket, SetTokens, TypeOK
    <3>4. ASSUME NEW l \in Key PROVE Budget(l)'
      <4>1. CASE l = k
        <5>. DEFINE all == Rate * now
        <5>1. spent[k] \in Nat /\ Capacity \in Nat /\ all \in Nat /\ spent[k] <= all
          BY <1>0, <2>2, <3>2, BucketBounds DEF BudgetInv, Budget, TypeOK
        <5>. HIDE DEF all
        <5>2. spent[k] + Capacity <= Capacity + all
          BY <5>1
        <5>. QED
          BY <3>1, <3>2, <3>3, <4>1, <5>2 DEF Budget, all
      <4>2. CASE l # k /\ buckets[l] = 0
        BY <3>1, <3>3, <4>2 DEF BudgetInv, Budget
      <4>3. CASE l # k /\ buckets[l] # 0
        <5>1. buckets'[l] = buckets[l] /\ UNCHANGED <<tokens[buckets[l]], lastRefresh[buckets[l]]>>
          BY <1>0, <3>2, <3>3, <4>3
        <5>. QED
          BY <3>1, <4>3, <5>1 DEF BudgetInv, Budget
      <4>. QED
        BY <4>1, <4>2, <4>3
    <3>. QED
      BY <3>4 DEF BudgetInv
  <2>. QED
    BY <2>1, <2>2
<1>5. ASSUME NEW p \in Request, TryConsume(p) PROVE BudgetInv'
  <2>. DEFINE b == req[p].bucket
  <2>1. Holds(p) /\ b \in BucketId /\ UNCHANGED <<buckets, now>>
    BY <1>0, <1>5 DEF TryConsume, Holds
  <2>2. Refreshed(b) \in Nat
    BY <2>1, RefreshedTyped, RateLimiterAssumption
  <2>3. CASE Refreshed(b) >= 1
    <3>1. Refreshed(b) - 1 \in Nat /\ Refreshed(b) - 1 <= Refreshed(b)
      BY <2>2, <2>3
    <3>2. SetTokens(b, Refreshed(b) - 1) /\ Grant(req[p].key, b)
      BY <1>5, <2>3 DEF TryConsume
    <3>3. spent' = spent \/ (b \notin dropped /\ spent' = [spent EXCEPT ![req[p].key] = @ + 1])
      BY <3>2 DEF Grant
    <3>. QED
      BY <2>1, <3>1, <3>2, <3>3, UseKeepsBudget
  <2>4. CASE ~(Refreshed(b) >= 1)
    <3>1. SetTokens(b, Refreshed(b)) /\ spent' = spent
      BY <1>5, <2>4 DEF TryConsume, grantVars
    <3>. QED
      BY <2>1, <2>2, <3>1, UseKeepsBudget
  <2>. QED
    BY <2>3, <2>4
<1>6. ASSUME NEW p \in Request, GetTokens(p) PROVE BudgetInv'
  <2>. DEFINE b == req[p].bucket
  <2>1. Holds(p) /\ b \in BucketId /\ UNCHANGED <<buckets, now>>
    BY <1>0, <1>6 DEF GetTokens, Holds
  <2>2. Refreshed(b) \in Nat
    BY <2>1, RefreshedTyped, RateLimiterAssumption
  <2>3. SetTokens(b, Refreshed(b)) /\ spent' = spent
    BY <1>6 DEF GetTokens, grantVars
  <2>. QED
    BY <2>1, <2>2, <2>3, UseKeepsBudget
<1>7. CASE StartCleanup
  BY <1>1, <1>7 DEF StartCleanup, grantVars
<1>8. ASSUME NEW k \in Key, Visit(k) PROVE BudgetInv'
  <2>. DEFINE b == buckets[k]
  <2>1. UNCHANGED <<now, tokens, lastRefresh, spent>>
    BY <1>8 DEF Visit, bucketVars, grantVars
  <2>2. CASE b # 0 /\ lastRefresh[b] < cutoff
    <3>1. buckets' = [buckets EXCEPT ![k] = 0]
      BY <1>8, <2>2 DEF Visit
    <3>2. buckets'[k] = 0 /\ \A l \in Key \ {k} : buckets'[l] = buckets[l]
      BY <3>1 DEF TypeOK
    <3>3. spent[k] <= Rate * now
      <4>. DEFINE last == Rate * lastRefresh[b]
                  earned == Rate * (now - lastRefresh[b])
                  all == Rate * now
      <4>1. b \in BucketId /\ lastRefresh[b] \in Nat /\ now \in Nat /\ lastRefresh[b] <= now
        BY <1>0, <2>2, BucketBounds
      <4>2. lastRefresh[b] <= now - TTL
        BY <1>8, <2>2, <4>1, RateLimiterAssumption DEF Visit, TypeOK
      <4>3. earned >= Capacity
        BY <4>1, <4>2, RestedIsFull
      <4>4. last \in Nat /\ earned \in Nat /\ all = last + earned
        BY <4>1, Earned
      <4>5. spent[k] + tokens[b] <= Capacity + last
        BY <2>2 DEF BudgetInv, Budget
      <4>6. spent[k] \in Nat /\ tokens[b] \in Nat /\ Capacity \in Nat
        BY <4>1, BucketBounds DEF TypeOK
      <4>. HIDE DEF last, earned, all
      <4>7. spent[k] <= all
        BY <4>3, <4>4, <4>5, <4>6
      <4>. QED
        BY <4>7 DEF all
    <3>. QED
      BY <2>1, <3>2, <3>3 DEF BudgetInv, Budget
  <2>3. CASE ~(b # 0 /\ lastRefresh[b] < cutoff)
    BY <1>8, <2>1, <2>3 DEF Visit, BudgetInv, Budget
  <2>. QED
    BY <2>2, <2>3
<1>9. CASE UNCHANGED vars
  BY <1>1, <1>9 DEF vars, clientVars, grantVars
<1>. QED
  BY <1>2, <1>3, <1>4, <1>5, <1>6, <1>7, <1>8, <1>9 DEF Next, RequestStep

-----------------------------------------------------------------------------
(* The invariant, and what follows.                                          *)

LimiterInv == TypeOK /\ KeyInv /\ CreditInv /\ BudgetInv

LEMMA LimiterInvariant == Spec => []LimiterInv
<1>1. Init => LimiterInv
  <2>1. ASSUME Init PROVE TypeOK
    BY <2>1, RateLimiterAssumption DEF Init, TypeOK, Req, BucketId
  <2>2. ASSUME Init PROVE KeyInv /\ CreditInv
    BY <2>2 DEF Init, KeyInv, CreditInv, Holds
  <2>3. ASSUME Init PROVE BudgetInv
    <3>1. Rate * 0 = 0
      BY RateLimiterAssumption
    <3>. DEFINE all == Rate * now
    <3>2. all = 0
      BY <2>3, <3>1 DEF Init
    <3>3. \A k \in Key : buckets[k] = 0 /\ spent[k] = 0
      BY <2>3 DEF Init
    <3>. HIDE DEF all
    <3>4. ASSUME NEW k \in Key PROVE spent[k] <= all
      <4>1. spent[k] \in Int /\ all \in Int /\ spent[k] = all
        BY <3>2, <3>3
      <4>. QED
        BY <4>1
    <3>. QED
      BY <3>3, <3>4 DEF BudgetInv, Budget, all
  <2>. QED
    BY <2>1, <2>2, <2>3 DEF LimiterInv
<1>2. LimiterInv /\ [Next]_vars => LimiterInv'
  BY TypeStep, KeyStep, CreditStep, BudgetStep DEF LimiterInv
<1>. QED
  BY <1>1, <1>2, PTL DEF Spec

\* No client gets more than its capacity and what has come since, whatever the
\* number of its requests and of its buckets (rate-limiter.go: getBucket,
\* TryConsume, cleanupOldBuckets).
THEOREM BoundCorrect == Spec => []KeyBounded
<1>1. LimiterInv => KeyBounded
  <2>. SUFFICES ASSUME LimiterInv, NEW k \in Key PROVE spent[k] <= Capacity + Rate * now
    BY DEF KeyBounded
  <2>. DEFINE all == Rate * now
  <2>0. TypeOK
    BY DEF LimiterInv
  <2>1. spent[k] \in Nat /\ Capacity \in Nat /\ now \in Nat /\ Rate * now \in Nat
    BY <2>0, Earned, RateLimiterAssumption DEF TypeOK
  <2>2. CASE buckets[k] = 0
    <3>1. spent[k] <= all /\ all \in Nat
      BY <2>1, <2>2 DEF LimiterInv, BudgetInv, Budget
    <3>. HIDE DEF all
    <3>2. spent[k] <= Capacity + all
      BY <2>1, <3>1
    <3>. QED
      BY <3>2 DEF all
  <2>3. CASE buckets[k] # 0
    <3>. DEFINE b == buckets[k]
                last == Rate * lastRefresh[b]
    <3>1. b \in BucketId
      BY <2>0, <2>3, RateLimiterAssumption DEF TypeOK, BucketId
    <3>2. /\ spent[k] + tokens[b] <= Capacity + last /\ tokens[b] \in Nat
          /\ last \in Nat /\ all \in Nat /\ last <= all
      BY <2>0, <2>3, <3>1, BucketBounds DEF LimiterInv, BudgetInv, Budget
    <3>. HIDE DEF last, all
    <3>3. spent[k] <= Capacity + all
      BY <2>1, <3>2
    <3>. QED
      BY <3>3 DEF all
  <2>. QED
    BY <2>2, <2>3
<1>. QED
  BY <1>1, LimiterInvariant, PTL

\* Only a client that was served within the time of one token is refused
\* (rate-limiter.go: TryConsume and GetTokens refresh the same bucket).
THEOREM RefusalCorrect == Spec => RefusedOnlyIfServed
<1>. DEFINE Fair == \A p \in Request :
       (req[p].why = "check" /\ req'[p].why = "refused") => served[req[p].key] = now
<1>1. LimiterInv /\ [Next]_vars => [Fair]_vars
  <2>. SUFFICES ASSUME LimiterInv, Next, NEW p \in Request, req[p].why = "check", req'[p].why = "refused"
                PROVE  served[req[p].key] = now
    BY DEF Fair
  <2>0. TypeOK /\ req \in [Request -> Req]
    BY DEF LimiterInv, TypeOK
  <2>1. TryConsume(p)
    <3>1. req' # req
      OBVIOUS
    <3>2. ~Tick /\ ~StartCleanup /\ \A k \in Key : ~Visit(k)
      BY <3>1 DEF Tick, StartCleanup, Visit, clientVars
    <3>3. PICK q \in Request : RequestStep(q)
      BY <3>2 DEF Next
    <3>4. ~Arrive(q) /\ ~Load(q) /\ ~LoadOrStore(q)
      BY <2>0 DEF Arrive, Load, LoadOrStore, Goes, Finds, Req
    <3>5. ~GetTokens(q)
      BY <2>0 DEF GetTokens, Done, Req
    <3>6. TryConsume(q)
      BY <3>3, <3>4, <3>5 DEF RequestStep
    <3>7. q = p
      BY <2>0, <3>6 DEF TryConsume, Req
    <3>. QED
      BY <3>6, <3>7
  <2>. DEFINE b == req[p].bucket
  <2>2. Holds(p) /\ b \in BucketId /\ req[p].key \in Key /\ Credit(b, req[p].key)
    BY <2>1, RateLimiterAssumption DEF TryConsume, Holds, LimiterInv, TypeOK, CreditInv, Req, BucketId
  <2>3. ~(Refreshed(b) >= 1)
    BY <2>0, <2>1 DEF TryConsume, Req
  <2>4. Refreshed(b) < 1
    BY <2>0, <2>2, <2>3, RefreshedTyped, RateLimiterAssumption
  <2>. QED
    BY <2>0, <2>2, <2>4, RefreshKeepsCredit
<1>. QED
  BY <1>1, LimiterInvariant, PTL DEF Spec, RefusedOnlyIfServed

\* What the cleanup takes away is full (rate-limiter.go: cleanupOldBuckets).
THEOREM CleanupCorrect == Spec => CleanupForgetsNothing
<1>. DEFINE Full == \A b \in dropped' \ dropped : Refreshed(b) = Capacity
<1>1. LimiterInv /\ [Next]_vars => [Full]_vars
  <2>. SUFFICES ASSUME LimiterInv, Next, NEW b \in dropped' \ dropped PROVE Refreshed(b) = Capacity
    BY DEF Full
  <2>0. TypeOK
    BY DEF LimiterInv
  <2>1. PICK k \in Key : Visit(k)
    BY DEF Next, RequestStep, Tick, Arrive, Load, LoadOrStore, TryConsume, GetTokens, StartCleanup, cleanupVars
  <2>2. b = buckets[k] /\ b # 0 /\ lastRefresh[b] < cutoff
    BY <2>1 DEF Visit
  <2>3. b \in BucketId
    BY <2>0, <2>2, RateLimiterAssumption DEF TypeOK, BucketId
  <2>. DEFINE earned == Rate * (now - lastRefresh[b])
  <2>4. lastRefresh[b] \in Nat /\ now \in Nat /\ tokens[b] \in Nat /\ Capacity \in Nat
    BY <2>0, <2>3, BucketBounds
  <2>5. lastRefresh[b] <= now - TTL
    BY <2>0, <2>1, <2>2, <2>4, RateLimiterAssumption DEF Visit, TypeOK
  <2>6. earned >= Capacity
    BY <2>4, <2>5, RestedIsFull
  <2>7. earned \in Nat
    BY <2>4, <2>0, <2>3, BucketBounds, Earned
  <2>8. Refreshed(b) = IF Capacity < tokens[b] + earned THEN Capacity ELSE tokens[b] + earned
    BY DEF Refreshed, min
  <2>. HIDE DEF earned
  <2>. QED
    BY <2>4, <2>6, <2>7, <2>8
<1>. QED
  BY <1>1, LimiterInvariant, PTL DEF Spec, CleanupForgetsNothing
=============================================================================
