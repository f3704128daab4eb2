---------------------------- MODULE RateLimiter ----------------------------
(***************************************************************************)
(* The per-user token bucket that six handlers keep, each in the anonymous *)
(* namespace of its own source file: one map rate_limits and one mutex per *)
(* endpoint.  The handlers run on the four worker threads of the main task *)
(* processor, so CheckRateLimit is modelled by its steps: wait for the     *)
(* mutex, take it and read the clock, update the bucket and release it.    *)
(* steady_clock goes on between any two of them.                           *)
(*                                                                         *)
(* `tokens' is a double in the code.  It starts at 2.0, grows by multiples *)
(* of 2.0, is cut off at 2.0 and shrinks by 1.0: it is always an integer,  *)
(* and is one here.  The out parameter `remaining' only feeds a response   *)
(* header and is left out.                                                 *)
(***************************************************************************)
EXTENDS Integers, Sequences, FiniteSets

CONSTANTS
  Endpoint,        \* the handlers that keep a rate_limits map
  User,            \* user ids
  Thread,          \* worker threads
  TicksPerSecond,  \* resolution of steady_clock
  MaxStall,        \* longest time, in ticks, that a thread can be off the
                   \* processor between reading `now' and releasing the mutex
  MaxTime,         \* bound: the clock stops here
  MaxChecks        \* bound: calls of CheckRateLimit per endpoint and user

ASSUME TicksAssumption  == TicksPerSecond \in Nat \ {0}
ASSUME StallAssumption  == MaxStall \in Nat
ASSUME BoundsAssumption == MaxTime \in Nat /\ MaxChecks \in Nat

Key == Endpoint \X User

NoThread == "no thread"
ASSUME ThreadAssumption == NoThread \notin Thread

VARIABLES
  clock,        \* steady_clock::now(), in ticks
  rate_limits,  \* the maps: a bucket for every key met so far
  holder,       \* holder[e]: the thread that holds e's rate_limits_mutex
  pc,           \* pc[t]: where thread t is in CheckRateLimit
  call,         \* call[t]: the key thread t was called with last
  now,          \* now[t]: the local variable `now'
  admitted,     \* history: times at which a key was let through, in order
  refused       \* history: times at which a key was refused, in order

vars == <<clock, rate_limits, holder, pc, call, now, admitted, refused>>

----------------------------------------------------------------------------
(* struct TokenBucket and the arithmetic of CheckRateLimit.                *)

max_tokens  == 2
refill_rate == 2

NewBucket(time) == [tokens |-> max_tokens, last_refill |-> time]

FloorSeconds(d) == d \div TicksPerSecond   \* a mutant: rounds down

\* duration_cast<seconds>: truncation towards zero, also of a negative span.
WholeSeconds(d) ==
  IF d >= 0 THEN d \div TicksPerSecond ELSE -((-d) \div TicksPerSecond)

Uncapped(tokens, elapsed) == tokens + elapsed * refill_rate  \* a mutant

Refill(tokens, elapsed) ==
  IF tokens + elapsed * refill_rate <= max_tokens
  THEN tokens + elapsed * refill_rate
  ELSE max_tokens

\* A mutant: the refill is added and its time is not recorded.
ForgetRefillTime(bucket, time) ==
  LET tokens == Refill(bucket.tokens, WholeSeconds(time - bucket.last_refill))
  IN  [ok |-> tokens >= 1,
       bucket |-> [bucket EXCEPT !.tokens =
                     IF tokens >= 1 THEN tokens - 1 ELSE tokens]]

\* A mutant: a bucket with no token left is drawn from.
TakeFromEmpty(bucket, time) ==
  LET tokens == Refill(bucket.tokens, WholeSeconds(time - bucket.last_refill))
  IN  [ok |-> tokens >= 0,
       bucket |-> [tokens |-> IF tokens >= 0 THEN tokens - 1 ELSE tokens,
                   last_refill |-> time]]

\* The body of CheckRateLimit once the bucket is found: refill, stamp, take.
Take(bucket, time) ==
  LET tokens == Refill(bucket.tokens, WholeSeconds(time - bucket.last_refill))
  IN  [ok |-> tokens >= 1,
       bucket |-> [tokens |-> IF tokens >= 1 THEN tokens - 1 ELSE tokens,
                   last_refill |-> time]]

\* rate_limits[user_id] default-constructs a missing bucket, which reads the
\* clock again: its last_refill may be later than `now'.
Lookup(key) ==
  IF key \in DOMAIN rate_limits THEN rate_limits[key] ELSE NewBucket(clock)

----------------------------------------------------------------------------
Init ==
  /\ clock = 0
  /\ rate_limits = [k \in {} |-> NewBucket(0)]
  /\ holder = [e \in Endpoint |-> NoThread]
  /\ pc = [t \in Thread |-> "idle"]
  /\ call \in [Thread -> Key]
  /\ now = [t \in Thread |-> 0]
  /\ admitted = [k \in Key |-> <<>>]
  /\ refused = [k \in Key |-> <<>>]

Pending(k) == {t \in Thread : pc[t] # "idle" /\ call[t] = k}

\* A handler of endpoint k[1] calls CheckRateLimit for user k[2].
Call(t, k) ==
  /\ pc[t] = "idle"
  /\ Len(admitted[k]) + Len(refused[k]) + Cardinality(Pending(k)) < MaxChecks
  /\ pc' = [pc EXCEPT ![t] = "waiting"]
  /\ call' = [call EXCEPT ![t] = k]
  /\ UNCHANGED <<clock, rate_limits, holder, now, admitted, refused>>

\* A mutant: the clock is read without waiting for the mutex.
EnterUnlocked(t) ==
  /\ pc[t] = "waiting"
  /\ pc' = [pc EXCEPT ![t] = "holding"]
  /\ now' = [now EXCEPT ![t] = clock]
  /\ UNCHANGED <<clock, rate_limits, holder, call, admitted, refused>>

\* lock_guard takes the mutex; `now' is read under it.
Enter(t) ==
  /\ pc[t] = "waiting"
  /\ holder[call[t][1]] = NoThread
  /\ holder' = [holder EXCEPT ![call[t][1]] = t]
  /\ pc' = [pc EXCEPT ![t] = "holding"]
  /\ now' = [now EXCEPT ![t] = clock]
  /\ UNCHANGED <<clock, rate_limits, call, admitted, refused>>

\* A mutant: an early return that does not release the mutex.
ReturnLocked(t) ==
  /\ pc[t] = "holding"
  /\ admitted' = [admitted EXCEPT ![call[t]] = Append(@, now[t])]
  /\ pc' = [pc EXCEPT ![t] = "idle"]
  /\ UNCHANGED <<clock, rate_limits, holder, call, now, refused>>

\* The bucket is found or made, refilled, stamped and drawn from; the verdict
\* is returned and lock_guard releases the mutex.
CheckRateLimit(t) ==
  LET key   == call[t]
      taken == Take(Lookup(key), now[t])
  IN  /\ pc[t] = "holding"
      /\ rate_limits' = [k \in DOMAIN rate_limits \cup {key} |->
                           IF k = key THEN taken.bucket ELSE rate_limits[k]]
      /\ admitted' = IF taken.ok
                     THEN [admitted EXCEPT ![key] = Append(@, now[t])]
                     ELSE admitted
      /\ refused'  = IF taken.ok
                     THEN refused
                     ELSE [refused EXCEPT ![key] = Append(@, now[t])]
      /\ holder' = [holder EXCEPT ![key[1]] = NoThread]
      /\ pc' = [pc EXCEPT ![t] = "idle"]
      /\ UNCHANGED <<clock, call, now>>

Tick ==
  /\ clock < MaxTime
  /\ \A t \in Thread : pc[t] = "holding" => clock < now[t] + MaxStall
  /\ clock' = clock + 1
  /\ UNCHANGED <<rate_limits, holder, pc, call, now, admitted, refused>>

\* No request is being served: the only state in which nothing has to happen.
Quiet ==
  /\ \A t \in Thread : pc[t] = "idle"
  /\ UNCHANGED vars

Next ==
  \/ \E t \in Thread : \/ \E k \in Key : Call(t, k)
                       \/ Enter(t)
                       \/ CheckRateLimit(t)
  \/ Tick
  \/ Quiet

Spec == Init /\ [][Next]_vars

----------------------------------------------------------------------------
(* Properties.                                                             *)

Bucket == [tokens : {n \in Int : n <= max_tokens}, last_refill : Nat]

\* Types of the state.  A bucket never holds more than max_tokens; it may
\* hold less than none (see NeverOverdrawn).
TypeOK ==
  /\ clock \in Nat
  /\ DOMAIN rate_limits \subseteq Key
  /\ \A k \in DOMAIN rate_limits : rate_limits[k] \in Bucket
  /\ holder \in [Endpoint -> Thread \cup {NoThread}]
  /\ pc \in [Thread -> {"idle", "waiting", "holding"}]
  /\ call \in [Thread -> Key]
  /\ now \in [Thread -> Nat]
  /\ admitted \in [Key -> Seq(Nat)]
  /\ refused \in [Key -> Seq(Nat)]

\* The limit itself.  Between any two admissions i and j of one user at one
\* endpoint, the requests let through are at most the two of a full bucket
\* and two for every second that passed from the first to the last.
WindowBound ==
  \A k \in Key : \A j \in 1 .. Len(admitted[k]) : \A i \in 1 .. j :
    (j - i + 1 - max_tokens) * TicksPerSecond
      <= refill_rate * (admitted[k][j] - admitted[k][i])

\* CheckRateLimit never moves last_refill back: `now' is read under the
\* mutex, so calls stamp a bucket in the order of the clock.
RefillTimeMonotone ==
  [][\A k \in DOMAIN rate_limits :
       rate_limits'[k].last_refill >= rate_limits[k].last_refill]_vars

\* A bucket is never overdrawn.  This needs MaxStall < TicksPerSecond: when a
\* thread stalls for a second or more between reading `now' and making a
\* user's first bucket, the bucket is born in the future, `elapsed' is
\* negative and tokens are taken away instead of added.
NeverOverdrawn ==
  \A k \in DOMAIN rate_limits : rate_limits[k].tokens >= 0

\* What the header X-RateLimit-Reset: 1 tells a refused client.  A user is
\* refused only when the previous check of the same bucket is less than a
\* second old; the first request and one after a silent second go through.
\* This needs MaxStall < TicksPerSecond, too.
RefusedOnlyWithinASecond ==
  [][\A k \in Key : refused'[k] # refused[k] =>
       /\ k \in DOMAIN rate_limits
       /\ rate_limits'[k].last_refill - rate_limits[k].last_refill
            < TicksPerSecond]_vars

InLastSecond(times, t) ==
  Cardinality({i \in DOMAIN times : t - TicksPerSecond < times[i]
                                    /\ times[i] <= t})

\* What performance_design.md says ("2 RPS per endpoint, otherwise 429"): a
\* request is refused only if more than two requests, itself included,
\* reached CheckRateLimit in the second that ends with it.
RefusedOnlyAboveTwoPerSecond ==
  \A k \in Key : \A i \in DOMAIN refused[k] :
    InLastSecond(admitted[k], refused[k][i])
      + InLastSecond(refused[k], refused[k][i]) > refill_rate
=============================================================================
