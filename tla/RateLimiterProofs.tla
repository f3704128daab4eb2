------------------------- MODULE RateLimiterProofs -------------------------
(***************************************************************************)
(* Proofs about RateLimiter for all endpoints, users, threads, clock       *)
(* resolutions and bounds.                                                 *)
(*                                                                         *)
(* WindowBound speaks of pairs of past admissions and is not inductive: a  *)
(* step that admits needs to know what the bucket still holds.  Budget     *)
(* adds that: from every past admission up to the last refill, admissions  *)
(* and the tokens left together stay within the limit.  A refill adds at   *)
(* most refill_rate for the time it covers because last_refill never runs  *)
(* ahead of `now' (Stamped), which holds because `now' is read under the   *)
(* mutex (Locked).                                                         *)
(***************************************************************************)
EXTENDS RateLimiter, TLAPS

\* A thread inside CheckRateLimit is the one that holds the mutex.
Locked ==
  \A t \in Thread : pc[t] = "holding" => holder[call[t][1]] = t

\* A bucket is never stamped later than the `now' of the thread about to
\* stamp it, nor than the clock; nobody was admitted without a bucket.
Stamped ==
  /\ \A k \in DOMAIN rate_limits : rate_limits[k].last_refill <= clock
  /\ \A t \in Thread : pc[t] = "holding" =>
       /\ now[t] <= clock
       /\ call[t] \in DOMAIN rate_limits =>
            rate_limits[call[t]].last_refill <= now[t]
  /\ \A k \in Key : k \notin DOMAIN rate_limits => admitted[k] = <<>>

\* What the bucket holds is still within the limit, seen from admission i.
Budget ==
  \A k \in DOMAIN rate_limits : \A i \in 1 .. Len(admitted[k]) :
    (Len(admitted[k]) - i + 1 + rate_limits[k].tokens - max_tokens)
      * TicksPerSecond
      <= refill_rate * (rate_limits[k].last_refill - admitted[k][i])

IInv == TypeOK /\ Locked /\ Stamped /\ Budget /\ WindowBound

----------------------------------------------------------------------------
(* Arithmetic.                                                             *)

\* Whole seconds of a non-negative span are a natural number, and their
\* ticks do not exceed the span.
LEMMA WholeSecondsBound ==
  ASSUME NEW d \in Nat
  PROVE  /\ WholeSeconds(d) \in Nat
         /\ WholeSeconds(d) * TicksPerSecond <= d
         /\ d >= TicksPerSecond => WholeSeconds(d) >= 1
BY TicksAssumption DEF WholeSeconds

\* Truncation towards zero: a negative span shorter than a second is zero
\* seconds.
LEMMA WholeSecondsOfAShortStall ==
  ASSUME NEW d \in Nat, d < TicksPerSecond
  PROVE  WholeSeconds(-d) = 0
BY TicksAssumption DEF WholeSeconds

\* A span in either direction is an integer number of whole seconds, and
\* not a positive one when the span is negative.
LEMMA WholeSecondsInt ==
  ASSUME NEW d \in Int
  PROVE  WholeSeconds(d) \in Int /\ (d <= 0 => WholeSeconds(d) <= 0)
BY TicksAssumption DEF WholeSeconds

\* Scaling by the clock's resolution keeps order.
LEMMA ScaledOrder ==
  ASSUME NEW a \in Int, NEW b \in Int, a <= b
  PROVE  a * TicksPerSecond <= b * TicksPerSecond
<1>1. (b - a) * TicksPerSecond >= 0
  BY TicksAssumption
<1>2. (b - a) * TicksPerSecond = b * TicksPerSecond - a * TicksPerSecond
  BY TicksAssumption
<1>. QED
  BY <1>1, <1>2, TicksAssumption

\* A refill of refill_rate for e whole seconds between `last' and `time' keeps
\* n admissions and the tokens within the limit since admission time a.
LEMMA RefillArithmetic ==
  ASSUME NEW n \in Int, NEW tokens \in Int, NEW left \in Int, NEW e \in Nat,
         NEW last \in Nat, NEW time \in Nat, NEW a \in Nat,
         (n + tokens) * TicksPerSecond <= refill_rate * (last - a),
         e * TicksPerSecond <= time - last,
         left <= tokens + refill_rate * e
  PROVE  (n + left) * TicksPerSecond <= refill_rate * (time - a)
<1>1. (n + left) * TicksPerSecond
        <= (n + tokens + refill_rate * e) * TicksPerSecond
  <2>1. n + left \in Int /\ n + tokens + refill_rate * e \in Int
        /\ n + left <= n + tokens + refill_rate * e
    BY DEF refill_rate
  <2>. QED
    BY <2>1, ScaledOrder
<1>2. (n + tokens + refill_rate * e) * TicksPerSecond
        = (n + tokens) * TicksPerSecond + refill_rate * (e * TicksPerSecond)
  BY TicksAssumption DEF refill_rate
<1>3. /\ (n + left) * TicksPerSecond \in Int
      /\ (n + tokens) * TicksPerSecond \in Int
      /\ e * TicksPerSecond \in Int
  BY TicksAssumption
<1>. DEFINE x == (n + tokens) * TicksPerSecond
            y == e * TicksPerSecond
            z == (n + left) * TicksPerSecond
<1>4. z <= x + refill_rate * y
  BY <1>1, <1>2
<1>5. x <= refill_rate * (last - a) /\ y <= time - last
  OBVIOUS
<1>6. x \in Int /\ y \in Int /\ z \in Int
  BY <1>3
<1>. HIDE DEF x, y, z
<1>7. z <= refill_rate * (time - a)
  BY <1>4, <1>5, <1>6 DEF refill_rate
<1>. QED
  BY <1>7 DEF z

----------------------------------------------------------------------------
(* What one draw from a bucket does.                                       *)

\* Take leaves a bucket, stamped with the caller's `now', that holds at most
\* one token after an admission; it holds no more than the old bucket plus
\* refill_rate for every whole second in between, the token taken included.
LEMMA TakeBounds ==
  ASSUME NEW b \in Bucket, NEW time \in Nat
  PROVE  LET r == Take(b, time)
             drawn == IF r.ok THEN 1 ELSE 0
         IN  /\ r.ok \in BOOLEAN
             /\ r.bucket \in Bucket
             /\ r.bucket.last_refill = time
             /\ r.bucket.tokens + drawn <= max_tokens
             /\ r.ok => r.bucket.tokens >= 0
             /\ r.bucket.tokens + drawn
                  <= b.tokens
                     + refill_rate * WholeSeconds(time - b.last_refill)
<1>. DEFINE e == WholeSeconds(time - b.last_refill)
            n == Refill(b.tokens, e)
<1>1. b.tokens \in Int /\ b.tokens <= max_tokens /\ b.last_refill \in Nat
  BY DEF Bucket
<1>2. e \in Int
  BY <1>1, WholeSecondsInt
<1>. HIDE DEF e
<1>3. n \in Int /\ n <= max_tokens /\ n <= b.tokens + refill_rate * e
  BY <1>1, <1>2 DEF Refill, max_tokens, refill_rate
<1>. HIDE DEF n
<1>4. Take(b, time) =
        [ok |-> n >= 1,
         bucket |-> [tokens |-> IF n >= 1 THEN n - 1 ELSE n,
                     last_refill |-> time]]
  BY DEF Take, n, e
<1>5. CASE n >= 1
  <2>1. Take(b, time) =
          [ok |-> TRUE, bucket |-> [tokens |-> n - 1, last_refill |-> time]]
    BY <1>4, <1>5
  <2>2. n - 1 \in Int /\ n - 1 <= max_tokens /\ n - 1 >= 0
    BY <1>3, <1>5 DEF max_tokens
  <2>. QED
    BY <1>3, <2>1, <2>2 DEF Bucket, e
<1>6. CASE ~(n >= 1)
  <2>1. Take(b, time) =
          [ok |-> FALSE, bucket |-> [tokens |-> n, last_refill |-> time]]
    <3>1. (n >= 1) = FALSE
      BY <1>3, <1>6
    <3>. QED
      BY <1>4, <3>1, Zenon
  <2>. QED
    BY <1>3, <2>1 DEF Bucket, e
<1>. QED
  BY <1>5, <1>6

----------------------------------------------------------------------------
(* The inductive invariant.                                                *)

\* No bucket and no admission yet.
LEMMA InitIInv == Init => IInv
<1>. SUFFICES ASSUME Init PROVE IInv
  OBVIOUS
<1>1. TypeOK
  BY DEF Init, TypeOK
<1>2. Locked /\ Stamped /\ Budget
  BY DEF Init, Locked, Stamped, Budget, Key
<1>3. WindowBound
  BY DEF Init, WindowBound
<1>. QED
  BY <1>1, <1>2, <1>3 DEF IInv

\* A call that only waits for the mutex disturbs nothing.
LEMMA CallIInv ==
  ASSUME IInv, NEW t \in Thread, NEW k \in Key, Call(t, k)
  PROVE  IInv'
<1>. USE DEF IInv, Call
<1>1. TypeOK'
  BY DEF TypeOK
<1>2. Locked'
  BY DEF Locked, TypeOK
<1>3. Stamped'
  BY DEF Stamped, TypeOK
<1>4. Budget' /\ WindowBound'
  BY DEF Budget, WindowBound
<1>. QED
  BY <1>1, <1>2, <1>3, <1>4

\* The thread that takes the mutex reads a `now' that no bucket is ahead of.
LEMMA EnterIInv ==
  ASSUME IInv, NEW t \in Thread, Enter(t)
  PROVE  IInv'
<1>. USE DEF IInv, Enter
<1>0. call[t] \in Key /\ call[t][1] \in Endpoint
  BY DEF TypeOK, Key
<1>1. TypeOK'
  BY <1>0 DEF TypeOK
<1>2. Locked'
  <2>. SUFFICES ASSUME NEW s \in Thread, pc'[s] = "holding"
                PROVE  holder'[call'[s][1]] = s
    BY DEF Locked
  <2>1. CASE s = t
    BY <2>1, <1>0 DEF TypeOK
  <2>2. CASE s # t
    <3>1. holder[call[s][1]] = s
      BY <2>2 DEF Locked, TypeOK
    <3>2. call[s][1] # call[t][1]
      BY <3>1, ThreadAssumption
    <3>. QED
      BY <3>1, <3>2 DEF TypeOK
  <2>. QED
    BY <2>1, <2>2
<1>3. Stamped'
  BY <1>0 DEF Stamped, TypeOK
<1>4. Budget' /\ WindowBound'
  BY DEF Budget, WindowBound
<1>. QED
  BY <1>1, <1>2, <1>3, <1>4

\* Time passes.
LEMMA TickIInv ==
  ASSUME IInv, Tick
  PROVE  IInv'
<1>. USE DEF IInv, Tick
<1>1. TypeOK'
  BY DEF TypeOK
<1>2. Locked'
  BY DEF Locked
<1>3. Stamped'
  <2>1. clock' \in Nat /\ clock <= clock'
    BY DEF TypeOK
  <2>2. \A k \in DOMAIN rate_limits : rate_limits[k].last_refill \in Nat
    BY DEF TypeOK, Bucket
  <2>. QED
    BY <2>1, <2>2 DEF Stamped, TypeOK
<1>4. Budget' /\ WindowBound'
  BY DEF Budget, WindowBound
<1>. QED
  BY <1>1, <1>2, <1>3, <1>4

\* The state a holding thread t leaves behind, and the arithmetic of it: r is
\* the verdict and the new bucket of the key t was called with.
LEMMA DrawFacts ==
  ASSUME IInv, NEW t \in Thread, CheckRateLimit(t)
  PROVE  LET key == call[t]
             r   == Take(Lookup(key), now[t])
         IN  /\ key \in Key /\ key[1] \in Endpoint /\ now[t] \in Nat
             /\ Lookup(key) \in Bucket
             /\ DOMAIN rate_limits' = DOMAIN rate_limits \cup {key}
             /\ rate_limits'[key] = r.bucket
             /\ \A k \in DOMAIN rate_limits :
                  k # key => rate_limits'[k] = rate_limits[k]
             /\ admitted' \in [Key -> Seq(Nat)]
             /\ refused' \in [Key -> Seq(Nat)]
             /\ \A k \in Key : k # key => admitted'[k] = admitted[k]
             /\ r.ok => admitted'[key] = Append(admitted[key], now[t])
             /\ ~r.ok => admitted'[key] = admitted[key]
<1>. DEFINE key == call[t]
            r   == Take(Lookup(key), now[t])
<1>1. key \in Key /\ key[1] \in Endpoint /\ now[t] \in Nat
  BY DEF IInv, TypeOK, Key
<1>2. Lookup(key) \in Bucket
  BY DEF IInv, TypeOK, Lookup, NewBucket, Bucket, max_tokens
<1>3. /\ rate_limits' = [k \in DOMAIN rate_limits \cup {key} |->
                            IF k = key THEN r.bucket ELSE rate_limits[k]]
      /\ admitted' = IF r.ok
                     THEN [admitted EXCEPT ![key] = Append(@, now[t])]
                     ELSE admitted
      /\ refused'  = IF r.ok
                     THEN refused
                     ELSE [refused EXCEPT ![key] = Append(@, now[t])]
  BY DEF CheckRateLimit
<1>4. admitted \in [Key -> Seq(Nat)] /\ refused \in [Key -> Seq(Nat)]
  BY DEF IInv, TypeOK
<1>. HIDE DEF key, r
<1>5. /\ DOMAIN rate_limits' = DOMAIN rate_limits \cup {key}
      /\ rate_limits'[key] = r.bucket
      /\ \A k \in DOMAIN rate_limits :
           k # key => rate_limits'[k] = rate_limits[k]
  BY <1>3
<1>6. /\ Append(admitted[key], now[t]) \in Seq(Nat)
      /\ Append(refused[key], now[t]) \in Seq(Nat)
  BY <1>1, <1>4
<1>7. /\ admitted' \in [Key -> Seq(Nat)]
      /\ refused' \in [Key -> Seq(Nat)]
      /\ \A k \in Key : k # key => admitted'[k] = admitted[k]
      /\ r.ok => admitted'[key] = Append(admitted[key], now[t])
      /\ ~r.ok => admitted'[key] = admitted[key]
  BY <1>1, <1>3, <1>4, <1>6
<1>. QED
  BY <1>1, <1>2, <1>5, <1>7 DEF key, r

\* The limit survives a draw: seen from any earlier admission i of the key,
\* admissions, the one drawn included, and the tokens left stay within
\* refill_rate for the time up to `now'.
LEMMA DrawBudget ==
  ASSUME IInv, NEW t \in Thread, CheckRateLimit(t),
         NEW i \in 1 .. Len(admitted[call[t]])
  PROVE  LET key == call[t]
             r   == Take(Lookup(key), now[t])
             drawn == IF r.ok THEN 1 ELSE 0
         IN  (Len(admitted[key]) - i + 1 - max_tokens
                + (r.bucket.tokens + drawn)) * TicksPerSecond
               <= refill_rate * (now[t] - admitted[key][i])
<1>. DEFINE key == call[t]
            b   == Lookup(key)
            r   == Take(b, now[t])
            drawn == IF r.ok THEN 1 ELSE 0
            L   == Len(admitted[key])
            a   == admitted[key][i]
            e   == WholeSeconds(now[t] - b.last_refill)
<1>1. key \in Key /\ now[t] \in Nat /\ b \in Bucket
  BY DrawFacts
<1>2. admitted[key] \in Seq(Nat) /\ L \in Nat /\ i \in Nat /\ a \in Nat
  BY <1>1 DEF IInv, TypeOK
<1>3. key \in DOMAIN rate_limits /\ b = rate_limits[key]
  <2>1. admitted[key] # <<>>
    BY <1>2
  <2>. QED
    BY <1>1, <2>1 DEF IInv, Stamped, Lookup
<1>4. b.last_refill \in Nat /\ b.tokens \in Int /\ b.last_refill <= now[t]
  <2>1. pc[t] = "holding"
    BY DEF CheckRateLimit
  <2>. QED
    BY <1>1, <1>3, <2>1 DEF IInv, Stamped, Bucket
<1>5. (L - i + 1 + b.tokens - max_tokens) * TicksPerSecond
        <= refill_rate * (b.last_refill - a)
  BY <1>3 DEF IInv, Budget
<1>6. e \in Nat /\ e * TicksPerSecond <= now[t] - b.last_refill
  <2>1. now[t] - b.last_refill \in Nat
    BY <1>1, <1>4
  <2>. QED
    BY <2>1, WholeSecondsBound
<1>. HIDE DEF key, b, L, a
<1>7. /\ r.bucket.tokens \in Int /\ drawn \in Int
      /\ r.bucket.tokens + drawn <= b.tokens + refill_rate * e
  <2>. HIDE DEF e
  <2>1. r.bucket \in Bucket
    BY <1>1, TakeBounds
  <2>2. r.bucket.tokens + drawn <= b.tokens + refill_rate * e
    BY <1>1, TakeBounds DEF e
  <2>. QED
    BY <2>1, <2>2 DEF Bucket
<1>. HIDE DEF r, drawn, e
<1>8. (L - i + 1 - max_tokens + (r.bucket.tokens + drawn)) * TicksPerSecond
        <= refill_rate * (now[t] - a)
  <2>1. (L - i + 1 - max_tokens + b.tokens) * TicksPerSecond
          <= refill_rate * (b.last_refill - a)
    BY <1>2, <1>4, <1>5 DEF max_tokens
  <2>2. L - i + 1 - max_tokens \in Int /\ r.bucket.tokens + drawn \in Int
    BY <1>2, <1>7 DEF max_tokens
  <2>. QED
    BY <1>1, <1>2, <1>4, <1>6, <1>7, <2>1, <2>2, RefillArithmetic
<1>. QED
  BY <1>8 DEF key, b, r, drawn, L, a

\* The draw keeps the invariant: the only step that refills and admits.
LEMMA CheckRateLimitIInv ==
  ASSUME IInv, NEW t \in Thread, CheckRateLimit(t)
  PROVE  IInv'
<1>. DEFINE key == call[t]
            b   == Lookup(key)
            r   == Take(b, now[t])
            drawn == IF r.ok THEN 1 ELSE 0
            L   == Len(admitted[key])
<1>1. /\ key \in Key /\ key[1] \in Endpoint /\ now[t] \in Nat
      /\ b \in Bucket
      /\ DOMAIN rate_limits' = DOMAIN rate_limits \cup {key}
      /\ rate_limits'[key] = r.bucket
      /\ \A k \in DOMAIN rate_limits :
           k # key => rate_limits'[k] = rate_limits[k]
      /\ admitted' \in [Key -> Seq(Nat)]
      /\ refused' \in [Key -> Seq(Nat)]
      /\ \A k \in Key : k # key => admitted'[k] = admitted[k]
      /\ r.ok => admitted'[key] = Append(admitted[key], now[t])
      /\ ~r.ok => admitted'[key] = admitted[key]
  BY DrawFacts
<1>2. pc[t] = "holding" /\ UNCHANGED <<clock, call, now>>
      /\ holder' = [holder EXCEPT ![key[1]] = NoThread]
      /\ pc' = [pc EXCEPT ![t] = "idle"]
  BY DEF CheckRateLimit
<1>3. \A i \in 1 .. L :
        (L - i + 1 - max_tokens + (r.bucket.tokens + drawn)) * TicksPerSecond
          <= refill_rate * (now[t] - admitted[key][i])
  BY DrawBudget
<1>. HIDE DEF b
<1>4. /\ r.ok \in BOOLEAN
      /\ r.bucket \in Bucket
      /\ r.bucket.last_refill = now[t]
      /\ r.bucket.tokens + drawn <= max_tokens
      /\ r.ok => r.bucket.tokens >= 0
  BY <1>1, TakeBounds
<1>5. r.bucket.tokens \in Int
  BY <1>4 DEF Bucket
<1>6. admitted[key] \in Seq(Nat) /\ L \in Nat
  BY <1>1 DEF IInv, TypeOK
<1>. HIDE DEF key, r, drawn, L
<1>7. TypeOK'
  <2>1. DOMAIN rate_limits' \subseteq Key
    BY <1>1 DEF IInv, TypeOK
  <2>2. \A k \in DOMAIN rate_limits' : rate_limits'[k] \in Bucket
    BY <1>1, <1>4 DEF IInv, TypeOK
  <2>3. holder' \in [Endpoint -> Thread \cup {NoThread}]
    BY <1>2 DEF IInv, TypeOK
  <2>4. pc' \in [Thread -> {"idle", "waiting", "holding"}]
    BY <1>2 DEF IInv, TypeOK
  <2>. QED
    BY <1>1, <1>2, <2>1, <2>2, <2>3, <2>4 DEF IInv, TypeOK
<1>8. \A s \in Thread : pc'[s] = "holding" =>
        s # t /\ pc[s] = "holding" /\ call[s][1] # key[1]
  <2>. SUFFICES ASSUME NEW s \in Thread, pc'[s] = "holding"
                PROVE  s # t /\ pc[s] = "holding" /\ call[s][1] # key[1]
    OBVIOUS
  <2>1. s # t /\ pc[s] = "holding"
    BY <1>2 DEF IInv, TypeOK
  <2>2. holder[call[s][1]] = s /\ holder[key[1]] = t
    BY <1>2, <2>1 DEF IInv, Locked, key
  <2>. QED
    BY <2>1, <2>2
<1>9. Locked'
  <2>. SUFFICES ASSUME NEW s \in Thread, pc'[s] = "holding"
                PROVE  holder'[call'[s][1]] = s
    BY DEF Locked
  <2>1. call[s] \in Key /\ call[s][1] \in Endpoint
    BY DEF IInv, TypeOK, Key
  <2>. QED
    BY <1>2, <1>8, <2>1 DEF IInv, Locked, TypeOK
<1>10. Stamped'
  <2>1. now[t] <= clock
    BY <1>2 DEF IInv, Stamped
  <2>2. \A k \in DOMAIN rate_limits' : rate_limits'[k].last_refill <= clock'
    BY <1>1, <1>2, <1>4, <2>1 DEF IInv, Stamped
  <2>3. \A s \in Thread : pc'[s] = "holding" =>
          /\ now'[s] <= clock'
          /\ call'[s] \in DOMAIN rate_limits' =>
               rate_limits'[call'[s]].last_refill <= now'[s]
    <3>. SUFFICES ASSUME NEW s \in Thread, pc'[s] = "holding"
                  PROVE  /\ now[s] <= clock
                         /\ call[s] \in DOMAIN rate_limits' =>
                              rate_limits'[call[s]].last_refill <= now[s]
      BY <1>2
    <3>1. call[s] # key
      BY <1>8
    <3>. QED
      BY <1>1, <1>8, <3>1 DEF IInv, Stamped
  <2>4. \A k \in Key : k \notin DOMAIN rate_limits' => admitted'[k] = <<>>
    BY <1>1 DEF IInv, Stamped
  <2>. QED
    BY <2>2, <2>3, <2>4 DEF Stamped
<1>11. Budget' /\ WindowBound'
  <2>1. ASSUME NEW k \in DOMAIN rate_limits', k # key
        PROVE  \A i \in 1 .. Len(admitted'[k]) :
                 (Len(admitted'[k]) - i + 1 + rate_limits'[k].tokens
                    - max_tokens) * TicksPerSecond
                   <= refill_rate
                        * (rate_limits'[k].last_refill - admitted'[k][i])
    <3>1. k \in Key /\ k \in DOMAIN rate_limits
      BY <1>1, <2>1 DEF IInv, TypeOK
    <3>2. admitted'[k] = admitted[k] /\ rate_limits'[k] = rate_limits[k]
      BY <1>1, <2>1, <3>1
    <3>. QED
      BY <3>1, <3>2 DEF IInv, Budget
  <2>2. ASSUME NEW k \in Key, k # key
        PROVE  \A j \in 1 .. Len(admitted'[k]) : \A i \in 1 .. j :
                 (j - i + 1 - max_tokens) * TicksPerSecond
                   <= refill_rate * (admitted'[k][j] - admitted'[k][i])
    <3>1. admitted'[k] = admitted[k]
      BY <1>1, <2>2
    <3>. QED
      BY <3>1 DEF IInv, WindowBound
  <2>3. \A j \in 1 .. L : \A i \in 1 .. j :
          (j - i + 1 - max_tokens) * TicksPerSecond
            <= refill_rate * (admitted[key][j] - admitted[key][i])
    BY <1>1 DEF IInv, WindowBound, L
  <2>4. CASE ~r.ok
    <3>1. admitted'[key] = admitted[key] /\ drawn = 0
      BY <1>1, <2>4 DEF drawn
    <3>2. \A i \in 1 .. L :
            (L - i + 1 + r.bucket.tokens - max_tokens) * TicksPerSecond
              <= refill_rate * (now[t] - admitted[key][i])
      <4>. SUFFICES ASSUME NEW i \in 1 .. L
                    PROVE (L - i + 1 + r.bucket.tokens - max_tokens)
                            * TicksPerSecond
                            <= refill_rate * (now[t] - admitted[key][i])
        OBVIOUS
      <4>. DEFINE tokens == r.bucket.tokens
      <4>1. tokens \in Int
        BY <1>5
      <4>. HIDE DEF tokens
      <4>2. L - i + 1 - max_tokens + (tokens + 0)
              = L - i + 1 + tokens - max_tokens
        BY <1>6, <4>1 DEF max_tokens
      <4>. QED
        BY <1>3, <3>1, <4>2 DEF tokens
    <3>3. Budget'
      BY <1>1, <1>4, <2>1, <3>1, <3>2 DEF Budget, L
    <3>4. WindowBound'
      BY <2>2, <2>3, <3>1 DEF WindowBound, L
    <3>. QED
      BY <3>3, <3>4
  <2>5. CASE r.ok
    <3>1. drawn = 1
      BY <2>5 DEF drawn
    <3>2. /\ Len(admitted'[key]) = L + 1
          /\ admitted'[key][L + 1] = now[t]
          /\ \A i \in 1 .. L : admitted'[key][i] = admitted[key][i]
      <4>1. admitted'[key] = Append(admitted[key], now[t])
        BY <1>1, <2>5
      <4>. QED
        BY <1>1, <1>6, <4>1 DEF L
    <3>3. \A i \in 1 .. L + 1 :
            (L + 1 - i + 1 + r.bucket.tokens - max_tokens) * TicksPerSecond
              <= refill_rate * (now[t] - admitted'[key][i])
      <4>. SUFFICES ASSUME NEW i \in 1 .. L + 1
                    PROVE (L + 1 - i + 1 + r.bucket.tokens - max_tokens)
                            * TicksPerSecond
                            <= refill_rate * (now[t] - admitted'[key][i])
        OBVIOUS
      <4>1. CASE i \in 1 .. L
        <5>1. L - i + 1 - max_tokens + (r.bucket.tokens + 1)
                = L + 1 - i + 1 + r.bucket.tokens - max_tokens
          BY <1>5, <1>6 DEF max_tokens
        <5>. QED
          BY <1>3, <3>1, <3>2, <4>1, <5>1
      <4>2. CASE i = L + 1
        <5>1. L + 1 - i + 1 + r.bucket.tokens - max_tokens <= 0
              /\ L + 1 - i + 1 + r.bucket.tokens - max_tokens \in Int
          BY <1>4, <1>5, <1>6, <3>1, <4>2 DEF max_tokens
        <5>2. 0 * TicksPerSecond = 0 /\ refill_rate * (now[t] - now[t]) = 0
          BY <1>1, TicksAssumption DEF refill_rate
        <5>3. (L + 1 - i + 1 + r.bucket.tokens - max_tokens) * TicksPerSecond
                <= 0
          BY <5>1, <5>2, ScaledOrder
        <5>. QED
          BY <3>2, <4>2, <5>2, <5>3
      <4>. QED
        BY <1>6, <4>1, <4>2
    <3>4. Budget'
      <4>. SUFFICES ASSUME NEW k \in DOMAIN rate_limits',
                           NEW i \in 1 .. Len(admitted'[k])
                    PROVE  (Len(admitted'[k]) - i + 1 + rate_limits'[k].tokens
                              - max_tokens) * TicksPerSecond
                             <= refill_rate * (rate_limits'[k].last_refill
                                                 - admitted'[k][i])
        BY DEF Budget
      <4>1. CASE k # key
        BY <2>1, <4>1
      <4>2. CASE k = key
        <5>1. /\ rate_limits'[k].tokens = r.bucket.tokens
              /\ rate_limits'[k].last_refill = now[t]
          BY <1>1, <1>4, <4>2
        <5>2. Len(admitted'[k]) = L + 1 /\ i \in 1 .. L + 1
          BY <3>2, <4>2
        <5>3. (L + 1 - i + 1 + r.bucket.tokens - max_tokens) * TicksPerSecond
                <= refill_rate * (now[t] - admitted'[key][i])
          BY <3>3, <5>2
        <5>4. Len(admitted'[k]) - i + 1 + rate_limits'[k].tokens - max_tokens
                = L + 1 - i + 1 + r.bucket.tokens - max_tokens
          BY <1>5, <1>6, <5>1, <5>2 DEF max_tokens
        <5>5. rate_limits'[k].last_refill - admitted'[k][i]
                = now[t] - admitted'[key][i]
          BY <4>2, <5>1
        <5>. QED
          BY <5>3, <5>4, <5>5
      <4>. QED
        BY <4>1, <4>2
    <3>5. \A i \in 1 .. L + 1 :
            (L + 1 - i + 1 - max_tokens) * TicksPerSecond
              <= refill_rate * (now[t] - admitted'[key][i])
      <4>. SUFFICES ASSUME NEW i \in 1 .. L + 1
                    PROVE (L + 1 - i + 1 - max_tokens) * TicksPerSecond
                            <= refill_rate * (now[t] - admitted'[key][i])
        OBVIOUS
      <4>1. /\ L + 1 - i + 1 - max_tokens \in Int
            /\ L + 1 - i + 1 + r.bucket.tokens - max_tokens \in Int
            /\ L + 1 - i + 1 - max_tokens
                 <= L + 1 - i + 1 + r.bucket.tokens - max_tokens
        BY <1>4, <1>5, <1>6, <2>5 DEF max_tokens
      <4>2. (L + 1 - i + 1 - max_tokens) * TicksPerSecond
              <= (L + 1 - i + 1 + r.bucket.tokens - max_tokens)
                   * TicksPerSecond
        BY <4>1, ScaledOrder
      <4>3. admitted'[key][i] \in Nat
        BY <1>1, <3>2
      <4>4. /\ (L + 1 - i + 1 - max_tokens) * TicksPerSecond \in Int
            /\ (L + 1 - i + 1 + r.bucket.tokens - max_tokens)
                  * TicksPerSecond \in Int
            /\ refill_rate * (now[t] - admitted'[key][i]) \in Int
        <5>1. \A n \in Int : n * TicksPerSecond \in Int
          BY TicksAssumption
        <5>2. refill_rate * (now[t] - admitted'[key][i]) \in Int
          BY <1>1, <4>3 DEF refill_rate
        <5>. QED
          BY <4>1, <5>1, <5>2
      <4>. QED
        BY <3>3, <4>2, <4>4
    <3>6. WindowBound'
      <4>. SUFFICES ASSUME NEW j \in 1 .. L + 1, NEW i \in 1 .. j
                    PROVE  (j - i + 1 - max_tokens) * TicksPerSecond
                             <= refill_rate
                                  * (admitted'[key][j] - admitted'[key][i])
        BY <2>2, <3>2 DEF WindowBound
      <4>1. CASE j \in 1 .. L
        <5>1. i \in 1 .. L
          BY <1>6, <4>1
        <5>. QED
          BY <2>3, <3>2, <4>1, <5>1
      <4>2. CASE j = L + 1
        BY <1>6, <3>2, <3>5, <4>2
      <4>. QED
        BY <1>6, <4>1, <4>2
    <3>. QED
      BY <3>4, <3>6
  <2>. QED
    BY <2>4, <2>5
<1>. QED
  BY <1>7, <1>9, <1>10, <1>11 DEF IInv

\* IInv is inductive.
LEMMA NextIInv == IInv /\ [Next]_vars => IInv'
<1>. SUFFICES ASSUME IInv, [Next]_vars PROVE IInv'
  OBVIOUS
<1>1. ASSUME NEW t \in Thread, NEW k \in Key, Call(t, k) PROVE IInv'
  BY <1>1, CallIInv
<1>2. ASSUME NEW t \in Thread, Enter(t) PROVE IInv'
  BY <1>2, EnterIInv
<1>3. ASSUME NEW t \in Thread, CheckRateLimit(t) PROVE IInv'
  BY <1>3, CheckRateLimitIInv
<1>4. CASE Tick
  BY <1>4, TickIInv
<1>5. CASE UNCHANGED vars
  BY <1>5 DEF vars, IInv, TypeOK, Locked, Stamped, Budget, WindowBound
<1>. QED
  BY <1>1, <1>2, <1>3, <1>4, <1>5 DEF Next, Quiet

\* The state stays well typed; in particular no interleaving of threads and
\* no stall fills a bucket beyond max_tokens.
THEOREM TypeCorrect == Spec => []TypeOK
<1>1. IInv => TypeOK
  BY DEF IInv
<1>. QED
  BY <1>1, InitIInv, NextIInv, PTL DEF Spec

\* The limit holds for any number of threads, users and endpoints, any clock
\* resolution and any stall: between two admissions of a user at an endpoint
\* CheckRateLimit lets through at most max_tokens and refill_rate a second.
THEOREM LimitHolds == Spec => []WindowBound
<1>1. IInv => WindowBound
  BY DEF IInv
<1>. QED
  BY <1>1, InitIInv, NextIInv, PTL DEF Spec

\* last_refill of a bucket never goes back, because CheckRateLimit reads
\* `now' under the mutex.
THEOREM RefillTimeNeverBack == Spec => RefillTimeMonotone
<1>. DEFINE Mono == \A k \in DOMAIN rate_limits :
              rate_limits'[k].last_refill >= rate_limits[k].last_refill
<1>1. ASSUME IInv, Next PROVE Mono
  <2>1. \A k \in DOMAIN rate_limits : rate_limits[k].last_refill \in Nat
    BY <1>1 DEF IInv, TypeOK, Bucket
  <2>2. CASE UNCHANGED rate_limits
    BY <2>1, <2>2
  <2>3. ASSUME NEW t \in Thread, CheckRateLimit(t) PROVE Mono
    <3>. DEFINE r == Take(Lookup(call[t]), now[t])
    <3>1. /\ now[t] \in Nat /\ Lookup(call[t]) \in Bucket
          /\ rate_limits'[call[t]] = r.bucket
          /\ \A k \in DOMAIN rate_limits :
               k # call[t] => rate_limits'[k] = rate_limits[k]
      BY <1>1, <2>3, DrawFacts
    <3>2. r.bucket.last_refill = now[t]
      BY <3>1, TakeBounds
    <3>3. call[t] \in DOMAIN rate_limits =>
            rate_limits[call[t]].last_refill <= now[t]
      BY <1>1, <2>3 DEF CheckRateLimit, IInv, Stamped
    <3>. HIDE DEF r
    <3>. QED
      BY <2>1, <3>1, <3>2, <3>3
  <2>. QED
    BY <1>1, <2>2, <2>3 DEF Next, Call, Enter, Tick, Quiet, vars
<1>2. IInv /\ [Next]_vars => [Mono]_vars
  BY <1>1
<1>. QED
  BY <1>2, InitIInv, NextIInv, PTL DEF Spec, RefillTimeMonotone

----------------------------------------------------------------------------
(* With stalls shorter than a second a bucket born after `now' is harmless. *)

\* Every bucket a check meets or makes is ahead of `now' by at most the time
\* that the thread was off the processor since it read `now'.
Punctual ==
  \A t \in Thread : pc[t] = "holding" => clock <= now[t] + MaxStall

\* Punctual is what Tick waits for.
LEMMA NextPunctual == IInv /\ Punctual /\ [Next]_vars => Punctual'
<1>. SUFFICES ASSUME IInv, Punctual, [Next]_vars PROVE Punctual'
  OBVIOUS
<1>. USE StallAssumption DEF IInv, TypeOK, Punctual
<1>1. ASSUME NEW t \in Thread, NEW k \in Key, Call(t, k) PROVE Punctual'
  BY <1>1 DEF Call
<1>2. ASSUME NEW t \in Thread, Enter(t) PROVE Punctual'
  BY <1>2 DEF Enter
<1>3. ASSUME NEW t \in Thread, CheckRateLimit(t) PROVE Punctual'
  BY <1>3 DEF CheckRateLimit
<1>4. CASE Tick
  BY <1>4 DEF Tick
<1>5. CASE UNCHANGED vars
  BY <1>5 DEF vars
<1>. QED
  BY <1>1, <1>2, <1>3, <1>4, <1>5 DEF Next, Quiet

\* A draw refills by a natural number of seconds when no thread stalls for a
\* second, and by at least one when the bucket is older than a second.
LEMMA PunctualRefill ==
  ASSUME MaxStall < TicksPerSecond, IInv, Punctual,
         NEW t \in Thread, pc[t] = "holding"
  PROVE  LET d == now[t] - Lookup(call[t]).last_refill
         IN  /\ WholeSeconds(d) \in Nat
             /\ d >= TicksPerSecond => WholeSeconds(d) >= 1
<1>1. /\ call[t] \in Key /\ now[t] \in Nat /\ clock \in Nat
      /\ now[t] <= clock /\ clock <= now[t] + MaxStall
  BY DEF IInv, TypeOK, Stamped, Punctual
<1>2. CASE call[t] \in DOMAIN rate_limits
  <2>1. /\ Lookup(call[t]) = rate_limits[call[t]]
        /\ rate_limits[call[t]].last_refill \in Nat
        /\ rate_limits[call[t]].last_refill <= now[t]
    BY <1>2 DEF Lookup, IInv, TypeOK, Stamped, Bucket
  <2>2. now[t] - Lookup(call[t]).last_refill \in Nat
    BY <1>1, <2>1
  <2>. QED
    BY <2>2, WholeSecondsBound
<1>3. CASE call[t] \notin DOMAIN rate_limits
  <2>1. Lookup(call[t]).last_refill = clock
    BY <1>3 DEF Lookup, NewBucket
  <2>2. /\ clock - now[t] \in Nat /\ clock - now[t] < TicksPerSecond
        /\ now[t] - clock = -(clock - now[t])
        /\ ~(now[t] - clock >= TicksPerSecond)
    BY <1>1, TicksAssumption, StallAssumption
  <2>3. WholeSeconds(now[t] - clock) = 0
    BY <2>2, WholeSecondsOfAShortStall
  <2>. QED
    BY <2>1, <2>2, <2>3
<1>. QED
  BY <1>2, <1>3

\* Take from a bucket that is not overdrawn, with a refill that is not
\* negative: the result is not overdrawn; a refused call found the bucket
\* empty and not a second old.
LEMMA TakeFromCredit ==
  ASSUME NEW b \in Bucket, NEW time \in Nat, b.tokens >= 0,
         WholeSeconds(time - b.last_refill) \in Nat
  PROVE  /\ Take(b, time).bucket.tokens >= 0
         /\ ~Take(b, time).ok =>
              b.tokens = 0 /\ WholeSeconds(time - b.last_refill) = 0
<1>. DEFINE e == WholeSeconds(time - b.last_refill)
            n == Refill(b.tokens, e)
<1>1. b.tokens \in Int /\ e \in Nat
  BY DEF Bucket
<1>2. /\ (n >= 1 => Take(b, time).bucket.tokens = n - 1)
      /\ (~(n >= 1) => Take(b, time).bucket.tokens = n)
      /\ (Take(b, time).ok <=> n >= 1)
  BY DEF Take
<1>. HIDE DEF e
<1>3. n \in Int /\ n >= 0 /\ (~(n >= 1) => b.tokens = 0 /\ e = 0)
  BY <1>1 DEF Refill, max_tokens, refill_rate
<1>. HIDE DEF n
<1>4. Take(b, time).bucket.tokens >= 0
  BY <1>2, <1>3
<1>. QED
  BY <1>2, <1>3, <1>4 DEF e

----------------------------------------------------------------------------
\* The invariant behind the two theorems that need short stalls.
Credit == IInv /\ Punctual /\ NeverOverdrawn

\* No bucket, no debt.
LEMMA InitCredit == Init => Credit
<1>1. Init => Punctual /\ NeverOverdrawn
  BY DEF Init, Punctual, NeverOverdrawn
<1>. QED
  BY <1>1, InitIInv DEF Credit

\* A draw in a state with credit: the bucket found, and what Take makes of it.
LEMMA CreditDraw ==
  ASSUME MaxStall < TicksPerSecond, Credit,
         NEW t \in Thread, CheckRateLimit(t)
  PROVE  LET b == Lookup(call[t])
             r == Take(b, now[t])
         IN  /\ r.bucket.tokens >= 0
             /\ r.bucket.last_refill = now[t]
             /\ ~r.ok => /\ b.tokens = 0
                         /\ now[t] - b.last_refill < TicksPerSecond
<1>. DEFINE b == Lookup(call[t])
            d == now[t] - b.last_refill
<1>1. now[t] \in Nat /\ b \in Bucket /\ b.last_refill \in Nat
  BY DrawFacts DEF Credit, Bucket
<1>2. b.tokens >= 0
  BY DEF Lookup, NewBucket, max_tokens, Credit, NeverOverdrawn
<1>3. WholeSeconds(d) \in Nat /\ (d >= TicksPerSecond => WholeSeconds(d) >= 1)
  BY PunctualRefill DEF CheckRateLimit, Credit
<1>. HIDE DEF b
<1>4. /\ Take(b, now[t]).bucket.tokens >= 0
      /\ ~Take(b, now[t]).ok => b.tokens = 0 /\ WholeSeconds(d) = 0
  BY <1>1, <1>2, <1>3, TakeFromCredit
<1>5. Take(b, now[t]).bucket.last_refill = now[t]
  BY <1>1, TakeBounds
<1>6. WholeSeconds(d) = 0 => d < TicksPerSecond
  BY <1>1, <1>3, TicksAssumption
<1>. QED
  BY <1>4, <1>5, <1>6 DEF b

\* Credit is inductive when stalls are shorter than a second.
LEMMA NextCredit ==
  ASSUME MaxStall < TicksPerSecond
  PROVE  Credit /\ [Next]_vars => Credit'
<1>. SUFFICES ASSUME Credit, [Next]_vars PROVE NeverOverdrawn'
  BY NextIInv, NextPunctual DEF Credit
<1>1. CASE UNCHANGED rate_limits
  BY <1>1 DEF NeverOverdrawn, Credit
<1>2. ASSUME NEW t \in Thread, CheckRateLimit(t) PROVE NeverOverdrawn'
  <2>1. /\ DOMAIN rate_limits' = DOMAIN rate_limits \cup {call[t]}
        /\ rate_limits'[call[t]] = Take(Lookup(call[t]), now[t]).bucket
        /\ \A k \in DOMAIN rate_limits :
             k # call[t] => rate_limits'[k] = rate_limits[k]
    BY <1>2, DrawFacts DEF Credit
  <2>2. Take(Lookup(call[t]), now[t]).bucket.tokens >= 0
    BY <1>2, CreditDraw
  <2>. QED
    BY <2>1, <2>2 DEF NeverOverdrawn, Credit
<1>. QED
  BY <1>1, <1>2 DEF Next, Call, Enter, Tick, Quiet, vars

\* No check overdraws a bucket as long as no thread stalls for a second
\* between reading `now' and releasing the mutex.
THEOREM Overdraft ==
  ASSUME MaxStall < TicksPerSecond
  PROVE  Spec => []NeverOverdrawn
<1>1. Credit => NeverOverdrawn
  BY DEF Credit
<1>. QED
  BY <1>1, InitCredit, NextCredit, PTL DEF Spec

\* Under the same condition X-RateLimit-Reset: 1 is true: CheckRateLimit lets
\* through a user's first request and any that follows a silent second.
THEOREM SilentSecondSuffices ==
  ASSUME MaxStall < TicksPerSecond
  PROVE  Spec => RefusedOnlyWithinASecond
<1>. DEFINE Refusal(k) ==
              /\ k \in DOMAIN rate_limits
              /\ rate_limits'[k].last_refill - rate_limits[k].last_refill
                   < TicksPerSecond
            Fair == \A k \in Key : refused'[k] # refused[k] => Refusal(k)
<1>1. ASSUME Credit, Next PROVE Fair
  <2>1. CASE UNCHANGED refused
    BY <2>1
  <2>2. ASSUME NEW t \in Thread, CheckRateLimit(t), NEW k \in Key,
               refused'[k] # refused[k]
        PROVE  Refusal(k)
    <3>. DEFINE r == Take(Lookup(call[t]), now[t])
    <3>1. refused \in [Key -> Seq(Nat)]
      BY <1>1 DEF Credit, IInv, TypeOK
    <3>2. ~r.ok /\ k = call[t]
      BY <2>2, <3>1 DEF CheckRateLimit
    <3>3. rate_limits'[call[t]] = r.bucket
      BY <1>1, <2>2, DrawFacts DEF Credit
    <3>4. /\ r.bucket.last_refill = now[t]
          /\ Lookup(call[t]).tokens = 0
          /\ now[t] - Lookup(call[t]).last_refill < TicksPerSecond
      BY <1>1, <2>2, <3>2, CreditDraw
    <3>. HIDE DEF r
    <3>5. call[t] \in DOMAIN rate_limits
      BY <3>4 DEF Lookup, NewBucket, max_tokens
    <3>. QED
      BY <3>2, <3>3, <3>4, <3>5 DEF Lookup
  <2>. QED
    BY <1>1, <2>1, <2>2 DEF Next, Call, Enter, Tick, Quiet, vars
<1>2. Credit /\ [Next]_vars => [Fair]_vars
  BY <1>1
<1>. QED
  BY <1>2, InitCredit, NextCredit, PTL DEF Spec, RefusedOnlyWithinASecond
=============================================================================
