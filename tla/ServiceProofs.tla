--------------------------- MODULE ServiceProofs ---------------------------
(***************************************************************************)
(* Proofs about the handlers and the limiters together: what a user has    *)
(* stored in the databases stays within the limit, for any number of       *)
(* users, requests at a time, faults and restarts, any resolution of the   *)
(* clock and stalls of any length; and the handlers behind the limiters    *)
(* implement GoalTasks.                                                    *)
(*                                                                         *)
(* The invariant has two halves.  Credit, Fresh and Within bound how often *)
(* a key was let through, from its bucket and the number of starts;        *)
(* Counted charges everything a user has stored, and everything that his   *)
(* requests are about to store, to a check that let them through.          *)
(***************************************************************************)
EXTENDS Service, TLAPS, FiniteSetTheorems

Creating == {"goals_create", "tasks_create"}

\* How often user u was let through at endpoint e.
Admissions(e, u) ==
  IF <<e, u>> \in L!Key THEN Len(admitted[<<e, u>>]) ELSE 0

\* Requests that were let through and may still store something.
InFlight(e, u) ==
  {s \in Slot : /\ pc[s] \in {"CreateGoal", "GetById", "CreateTask"}
                /\ req[s].op = e /\ req[s].user = u}

\* Types of what the limiters keep.
LimiterTypes ==
  /\ clock \in Nat
  /\ starts \in Nat \ {0}
  /\ DOMAIN rate_limits \subseteq L!Key
  /\ \A k \in DOMAIN rate_limits :
       rate_limits[k].tokens \in Int /\ rate_limits[k].last_refill \in Nat
  /\ holder \in [Endpoint -> Slot \cup {L!NoThread}]
  /\ check \in [Slot -> {"idle", "waiting", "holding"}]
  /\ asked \in [Slot -> L!Key]
  /\ now \in [Slot -> Nat]
  /\ admitted \in [L!Key -> Seq(Nat)]
  /\ refused \in [L!Key -> Seq(Nat)]

\* A thread that is past its reading of the clock holds the mutex.
Locked ==
  \A s \in Slot : check[s] = "holding" => holder[asked[s][1]] = s

\* No bucket is stamped after the clock, nor after the reading about to stamp it.
Stamped ==
  /\ \A k \in DOMAIN rate_limits : rate_limits[k].last_refill <= clock
  /\ \A s \in Slot : check[s] = "holding" =>
       /\ now[s] <= clock
       /\ asked[s] \in DOMAIN rate_limits =>
            rate_limits[asked[s]].last_refill <= now[s]

\* What a bucket has let through and still holds is paid for by one full
\* bucket for every start and the time up to its last refill.
Credit ==
  \A k \in DOMAIN rate_limits :
    (Len(admitted[k]) + rate_limits[k].tokens) * TicksPerSecond
      <= 2 * (starts * TicksPerSecond + rate_limits[k].last_refill)

\* While a key has no bucket since the last start, the full one it will be
\* given is not spent.
Fresh ==
  /\ \A k \in L!Key : k \notin DOMAIN rate_limits =>
       Len(admitted[k]) * TicksPerSecond
         <= 2 * ((starts - 1) * TicksPerSecond + clock)
  /\ \A s \in Slot :
       check[s] = "holding" /\ asked[s] \notin DOMAIN rate_limits =>
         Len(admitted[asked[s]]) * TicksPerSecond
           <= 2 * ((starts - 1) * TicksPerSecond + now[s])

Within ==
  \A k \in L!Key :
    Len(admitted[k]) * TicksPerSecond
      <= 2 * (starts * TicksPerSecond + clock)

\* Types of the requests.
RequestTypes ==
  /\ pc \in [Slot -> G!Label]
  /\ DOMAIN req = Slot /\ req = [s \in Slot |-> req[s]]
  /\ DOMAIN answer = Slot /\ answer = [s \in Slot |-> answer[s]]
  /\ \A s \in Slot :
       /\ pc[s] # "idle" => req[s] \in Requests
       /\ pc[s] # "answered" => answer[s] = G!NoAnswer
       /\ pc[s] = "CreateGoal" => req[s].op = "goals_create"
       /\ pc[s] = "CreateTask" => req[s].op = "tasks_create"
       /\ check[s] # "idle" => /\ pc[s] = "received" /\ PassesBody(req[s])
                               /\ asked[s] = KeyOf(req[s])
  /\ \A i \in DOMAIN tasks : "by" \in DOMAIN tasks[i]

Counted ==
  \A e \in Creating, u \in User :
    /\ IsFiniteSet(Made(e, u)) /\ IsFiniteSet(InFlight(e, u))
    /\ Cardinality(Made(e, u)) + Cardinality(InFlight(e, u))
         <= Admissions(e, u)

LimiterInv == LimiterTypes /\ Locked /\ Stamped /\ Credit /\ Fresh /\ Within

IInv == LimiterInv /\ RequestTypes /\ Counted

----------------------------------------------------------------------------
(* Arithmetic.                                                             *)

\* Whole seconds of a span are an integer; of one that is not negative, they
\* are a natural number whose ticks do not exceed the span.
LEMMA WholeSecondsBound ==
  ASSUME NEW d \in Int
  PROVE  /\ L!WholeSeconds(d) \in Int
         /\ d >= 0 => /\ L!WholeSeconds(d) \in Nat
                      /\ L!WholeSeconds(d) * TicksPerSecond <= d
BY TicksAssumption DEF L!WholeSeconds

\* Scaling by the clock's resolution keeps order.
LEMMA ScaledOrder ==
  ASSUME NEW a \in Int, NEW b \in Int, a <= b
  PROVE  a * TicksPerSecond <= b * TicksPerSecond
<1>1. (b - a) * TicksPerSecond >= 0
  BY TicksAssumption
<1>2. (b - a) * TicksPerSecond = b * TicksPerSecond - a * TicksPerSecond
  BY TicksAssumption
<1>. QED
  BY <1>1, <1>2, TicksAssumption

\* A refill for e whole seconds between `last' and `time' keeps the credit.
LEMMA RefillKeepsCredit ==
  ASSUME NEW n \in Nat, NEW tokens \in Int, NEW left \in Int, NEW e \in Nat,
         NEW last \in Nat, NEW time \in Nat, NEW s \in Nat,
         (n + tokens) * TicksPerSecond <= 2 * (s * TicksPerSecond + last),
         e * TicksPerSecond <= time - last,
         left <= tokens + 2 * e
  PROVE  (n + left) * TicksPerSecond <= 2 * (s * TicksPerSecond + time)
<1>1. (n + left) * TicksPerSecond <= (n + tokens + 2 * e) * TicksPerSecond
  BY ScaledOrder
<1>2. (n + tokens + 2 * e) * TicksPerSecond
        = (n + tokens) * TicksPerSecond + 2 * (e * TicksPerSecond)
  BY TicksAssumption
<1>. DEFINE x == (n + tokens) * TicksPerSecond
            y == e * TicksPerSecond
            z == (n + left) * TicksPerSecond
            w == s * TicksPerSecond
<1>3. x \in Int /\ y \in Int /\ z \in Int /\ w \in Int
  BY TicksAssumption
<1>4. z <= x + 2 * y /\ x <= 2 * (w + last) /\ y <= time - last
  BY <1>1, <1>2
<1>. HIDE DEF x, y, z, w
<1>5. z <= 2 * (w + time)
  BY <1>3, <1>4
<1>. QED
  BY <1>5 DEF z, w

\* A full bucket that was not spent before pays for the first draws from it.
LEMMA NewBucketHasCredit ==
  ASSUME NEW n \in Nat, NEW left \in Int, NEW time \in Nat,
         NEW s \in Nat \ {0},
         n * TicksPerSecond <= 2 * ((s - 1) * TicksPerSecond + time),
         left <= 2
  PROVE  (n + left) * TicksPerSecond <= 2 * (s * TicksPerSecond + time)
<1>1. (n + left) * TicksPerSecond <= (n + 2) * TicksPerSecond
  BY ScaledOrder
<1>2. /\ (n + 2) * TicksPerSecond = n * TicksPerSecond + 2 * TicksPerSecond
      /\ (s - 1) * TicksPerSecond = s * TicksPerSecond - TicksPerSecond
  BY TicksAssumption
<1>. DEFINE x == n * TicksPerSecond
            z == (n + left) * TicksPerSecond
            w == s * TicksPerSecond
<1>3. x \in Int /\ z \in Int /\ w \in Int /\ TicksPerSecond \in Nat
  BY TicksAssumption
<1>4. z <= x + 2 * TicksPerSecond /\ x <= 2 * (w - TicksPerSecond + time)
  BY <1>1, <1>2
<1>. HIDE DEF x, z, w
<1>5. z <= 2 * (w + time)
  BY <1>3, <1>4
<1>. QED
  BY <1>5 DEF z, w

\* Admissions that are paid for with tokens to spare are within the limit.
LEMMA CreditIsWithin ==
  ASSUME NEW n \in Nat, NEW left \in Nat, NEW time \in Nat, NEW later \in Nat,
         NEW s \in Nat, time <= later,
         (n + left) * TicksPerSecond <= 2 * (s * TicksPerSecond + time)
  PROVE  n * TicksPerSecond <= 2 * (s * TicksPerSecond + later)
<1>1. n * TicksPerSecond <= (n + left) * TicksPerSecond
  BY ScaledOrder
<1>. DEFINE x == n * TicksPerSecond
            z == (n + left) * TicksPerSecond
            w == s * TicksPerSecond
<1>2. x \in Int /\ z \in Int /\ w \in Int
  BY TicksAssumption
<1>3. x <= z /\ z <= 2 * (w + time)
  BY <1>1
<1>. HIDE DEF x, z, w
<1>4. x <= 2 * (w + later)
  BY <1>2, <1>3
<1>. QED
  BY <1>4 DEF x, w

\* The limit grows with the clock and with every start.
LEMMA LimitGrows ==
  ASSUME NEW n \in Int, NEW s \in Int, NEW s2 \in Int,
         NEW time \in Nat, NEW later \in Nat, s <= s2, time <= later,
         n <= 2 * (s * TicksPerSecond + time)
  PROVE  n <= 2 * (s2 * TicksPerSecond + later)
<1>1. s * TicksPerSecond <= s2 * TicksPerSecond
  BY ScaledOrder
<1>. DEFINE w == s * TicksPerSecond
            v == s2 * TicksPerSecond
<1>2. w \in Int /\ v \in Int /\ w <= v /\ n <= 2 * (w + time)
  BY <1>1, TicksAssumption
<1>. HIDE DEF w, v
<1>3. n <= 2 * (v + later)
  BY <1>2
<1>. QED
  BY <1>3 DEF v

\* What one check makes of a bucket.
LEMMA TakeBounds ==
  ASSUME NEW b, b.tokens \in Int, b.last_refill \in Nat, NEW time \in Nat
  PROVE  LET r == L!Take(b, time)
             most == b.tokens + 2 * L!WholeSeconds(time - b.last_refill)
         IN  /\ r.bucket.tokens \in Int
             /\ r.bucket.last_refill = time
             /\ r.ok => /\ r.bucket.tokens >= 0
                        /\ r.bucket.tokens + 1 <= 2
                        /\ r.bucket.tokens + 1 <= most
             /\ ~r.ok => r.bucket.tokens <= 2 /\ r.bucket.tokens <= most
<1>. DEFINE e == L!WholeSeconds(time - b.last_refill)
            n == L!Refill(b.tokens, e)
<1>1. e \in Int
  BY WholeSecondsBound
<1>2. n \in Int /\ n <= 2 /\ n <= b.tokens + 2 * e
  <2>. HIDE DEF e
  <2>. QED
    BY <1>1 DEF L!Refill, L!max_tokens, L!refill_rate
<1>3. /\ L!Take(b, time).ok <=> n >= 1
      /\ L!Take(b, time).bucket.tokens = IF n >= 1 THEN n - 1 ELSE n
      /\ L!Take(b, time).bucket.last_refill = time
  BY DEF L!Take
<1>. HIDE DEF n, e
<1>. QED
  BY <1>1, <1>2, <1>3 DEF e

----------------------------------------------------------------------------
(* The limiters' half.                                                     *)

LEMMA LimiterInit ==
  ASSUME L!Init, starts = 1
  PROVE  LimiterInv
<1>. USE DEF L!Init
<1>1. LimiterTypes /\ Locked /\ Stamped
  BY DEF LimiterTypes, Locked, Stamped
<1>2. \A k \in L!Key : Len(admitted[k]) = 0
  OBVIOUS
<1>3. /\ 0 * TicksPerSecond = 0
      /\ (1 - 1) * TicksPerSecond = 0
      /\ 1 * TicksPerSecond = TicksPerSecond
  BY TicksAssumption
<1>4. Credit /\ Fresh /\ Within
  BY <1>2, <1>3, TicksAssumption DEF Credit, Fresh, Within
<1>. QED
  BY <1>1, <1>4 DEF LimiterInv

LEMMA LimiterCall ==
  ASSUME LimiterInv, NEW s \in Slot, NEW k \in L!Key, L!Call(s, k),
         UNCHANGED starts
  PROVE  LimiterInv'
<1>. USE DEF LimiterInv
<1>1. /\ UNCHANGED <<clock, rate_limits, holder, now, admitted, refused, starts>>
      /\ check' \in [Slot -> {"idle", "waiting", "holding"}]
      /\ asked' \in [Slot -> L!Key]
      /\ \A t \in Slot : check'[t] = "holding" =>
           check[t] = "holding" /\ asked'[t] = asked[t]
  BY DEF L!Call, LimiterTypes
<1>2. LimiterTypes'
  BY <1>1 DEF LimiterTypes
<1>3. Locked' /\ Stamped'
  BY <1>1 DEF Locked, Stamped
<1>4. Credit' /\ Fresh' /\ Within'
  BY <1>1 DEF Credit, Fresh, Within
<1>. QED
  BY <1>2, <1>3, <1>4

LEMMA LimiterEnter ==
  ASSUME LimiterInv, NEW s \in Slot, L!Enter(s), UNCHANGED starts
  PROVE  LimiterInv'
<1>. USE DEF LimiterInv
<1>1. /\ UNCHANGED <<clock, rate_limits, asked, admitted, refused, starts>>
      /\ check[s] = "waiting" /\ asked[s] \in L!Key
      /\ asked[s][1] \in Endpoint
      /\ holder[asked[s][1]] = L!NoThread
      /\ holder' = [holder EXCEPT ![asked[s][1]] = s]
      /\ check' = [check EXCEPT ![s] = "holding"]
      /\ now' = [now EXCEPT ![s] = clock]
  BY DEF L!Enter, LimiterTypes, L!Key
<1>2. LimiterTypes'
  BY <1>1 DEF LimiterTypes
<1>3. Locked'
  <2>. SUFFICES ASSUME NEW t \in Slot, check'[t] = "holding"
                PROVE  holder'[asked[t][1]] = t
    BY <1>1 DEF Locked
  <2>1. CASE t = s
    BY <1>1, <2>1 DEF LimiterTypes
  <2>2. CASE t # s
    <3>1. check[t] = "holding" /\ holder[asked[t][1]] = t
      BY <1>1, <2>2 DEF Locked, LimiterTypes
    <3>. QED
      BY <1>1, <3>1, SlotAssumption DEF LimiterTypes
  <2>. QED
    BY <2>1, <2>2
<1>4. Stamped'
  BY <1>1 DEF Stamped, LimiterTypes
<1>5. Credit' /\ Within'
  BY <1>1 DEF Credit, Within
<1>6. Fresh'
  <2>1. \A t \in Slot : t # s =>
          check'[t] = check[t] /\ now'[t] = now[t]
    BY <1>1 DEF LimiterTypes
  <2>2. now'[s] = clock
    BY <1>1 DEF LimiterTypes
  <2>. QED
    BY <1>1, <2>1, <2>2 DEF Fresh
<1>. QED
  BY <1>2, <1>3, <1>4, <1>5, <1>6

LEMMA LimiterTick ==
  ASSUME LimiterInv, L!Tick, UNCHANGED starts
  PROVE  LimiterInv'
<1>. USE DEF LimiterInv
<1>1. /\ UNCHANGED <<rate_limits, holder, check, asked, now, admitted, refused,
                     starts>>
      /\ clock \in Nat /\ clock' = clock + 1
      /\ clock' \in Nat /\ clock <= clock'
  BY DEF L!Tick, LimiterTypes
<1>2. LimiterTypes' /\ Locked'
  BY <1>1 DEF LimiterTypes, Locked
<1>3. Stamped'
  BY <1>1 DEF Stamped, LimiterTypes
<1>4. Credit'
  BY <1>1 DEF Credit
<1>5. /\ starts - 1 \in Int /\ starts \in Int
      /\ \A k \in L!Key : Len(admitted[k]) * TicksPerSecond \in Int
  BY TicksAssumption DEF LimiterTypes
<1>6. Within'
  BY <1>1, <1>5, LimitGrows DEF Within
<1>7. Fresh'
  BY <1>1, <1>5, LimitGrows DEF Fresh
<1>. QED
  BY <1>2, <1>3, <1>4, <1>6, <1>7

LEMMA LimiterRestart ==
  ASSUME LimiterInv, Restart
  PROVE  LimiterInv'
<1>. USE DEF LimiterInv
<1>1. /\ UNCHANGED <<clock, asked, now, admitted, refused>>
      /\ starts' = starts + 1
      /\ starts \in Int /\ starts' \in Nat \ {0}
      /\ starts' - 1 = starts
      /\ DOMAIN rate_limits' = {}
      /\ holder' = [e \in Endpoint |-> L!NoThread]
      /\ check' = [s \in Slot |-> "idle"]
  BY DEF Restart, LimiterTypes
<1>2. LimiterTypes' /\ Locked' /\ Stamped' /\ Credit'
  BY <1>1 DEF LimiterTypes, Locked, Stamped, Credit
<1>3. Fresh'
  BY <1>1 DEF Fresh, Within
<1>4. /\ clock \in Nat /\ starts <= starts'
      /\ \A k \in L!Key : Len(admitted[k]) * TicksPerSecond \in Int
  BY <1>1, TicksAssumption DEF LimiterTypes
<1>5. Within'
  BY <1>1, <1>4, LimitGrows DEF Within
<1>. QED
  BY <1>2, <1>3, <1>5

\* The draw: the only step that refills a bucket and lets a request through.
LEMMA LimiterDraw ==
  ASSUME LimiterInv, NEW s \in Slot, L!CheckRateLimit(s), UNCHANGED starts
  PROVE  LimiterInv'
<1>. DEFINE key == asked[s]
            b   == L!Lookup(key)
            r   == L!Take(b, now[s])
            n   == Len(admitted[key])
            e   == L!WholeSeconds(now[s] - b.last_refill)
<1>1. /\ key \in L!Key /\ key[1] \in Endpoint /\ now[s] \in Nat
      /\ clock \in Nat /\ now[s] <= clock
      /\ starts \in Nat \ {0} /\ n \in Nat
      /\ check[s] = "holding" /\ holder[key[1]] = s
      /\ b.tokens \in Int /\ b.last_refill \in Nat
  <2>1. check[s] = "holding" /\ key \in L!Key /\ now[s] \in Nat
    BY DEF L!CheckRateLimit, LimiterInv, LimiterTypes
  <2>2. b.tokens \in Int /\ b.last_refill \in Nat
    BY <2>1 DEF L!Lookup, L!NewBucket, L!max_tokens, LimiterInv, LimiterTypes
  <2>3. now[s] <= clock /\ holder[key[1]] = s
    BY <2>1 DEF LimiterInv, Stamped, Locked
  <2>. QED
    BY <2>1, <2>2, <2>3 DEF LimiterInv, LimiterTypes, L!Key
<1>2. /\ DOMAIN rate_limits' = DOMAIN rate_limits \cup {key}
      /\ rate_limits'[key] = r.bucket
      /\ \A k \in DOMAIN rate_limits :
           k # key => rate_limits'[k] = rate_limits[k]
  BY DEF L!CheckRateLimit
<1>3. /\ holder' = [holder EXCEPT ![key[1]] = L!NoThread]
      /\ check' = [check EXCEPT ![s] = "idle"]
      /\ UNCHANGED <<clock, asked, now, starts>>
  BY DEF L!CheckRateLimit
<1>4. /\ r.ok => /\ admitted' = [admitted EXCEPT ![key] = Append(@, now[s])]
                 /\ refused' = refused
      /\ ~r.ok => /\ refused' = [refused EXCEPT ![key] = Append(@, now[s])]
                  /\ admitted' = admitted
  BY DEF L!CheckRateLimit
<1>5. /\ admitted' \in [L!Key -> Seq(Nat)]
      /\ refused' \in [L!Key -> Seq(Nat)]
      /\ \A k \in L!Key : k # key => admitted'[k] = admitted[k]
      /\ r.ok => Len(admitted'[key]) = n + 1
      /\ ~r.ok => Len(admitted'[key]) = n
  <2>1. /\ admitted \in [L!Key -> Seq(Nat)] /\ refused \in [L!Key -> Seq(Nat)]
        /\ admitted[key] \in Seq(Nat) /\ refused[key] \in Seq(Nat)
    BY <1>1 DEF LimiterInv, LimiterTypes
  <2>2. /\ Append(admitted[key], now[s]) \in Seq(Nat)
        /\ Append(refused[key], now[s]) \in Seq(Nat)
        /\ Len(Append(admitted[key], now[s])) = n + 1
    BY <1>1, <2>1
  <2>. HIDE DEF key, r
  <2>3. CASE r.ok
    BY <1>1, <1>4, <2>1, <2>2, <2>3 DEF n
  <2>4. CASE ~r.ok
    BY <1>1, <1>4, <2>1, <2>2, <2>4 DEF n
  <2>. QED
    BY <2>3, <2>4
<1>6. /\ r.bucket.tokens \in Int
      /\ r.bucket.last_refill = now[s]
      /\ r.ok => /\ r.bucket.tokens >= 0
                 /\ r.bucket.tokens + 1 <= 2
                 /\ r.bucket.tokens + 1 <= b.tokens + 2 * e
      /\ ~r.ok => r.bucket.tokens <= 2 /\ r.bucket.tokens <= b.tokens + 2 * e
  BY <1>1, TakeBounds
<1>7. e \in Int
  <2>1. now[s] - b.last_refill \in Int
    <3>. HIDE DEF b, key
    <3>. QED
      BY <1>1
  <2>. QED
    BY <2>1, WholeSecondsBound
<1>8. \A t \in Slot : check'[t] = "holding" =>
        check[t] = "holding" /\ t # s /\ asked[t][1] # key[1]
              /\ asked[t] # key
  BY <1>1, <1>3 DEF LimiterInv, LimiterTypes, Locked
<1>9. (Len(admitted'[key]) + r.bucket.tokens) * TicksPerSecond
        <= 2 * (starts * TicksPerSecond + now[s])
  <2>. DEFINE left == IF r.ok THEN r.bucket.tokens + 1 ELSE r.bucket.tokens
  <2>1. /\ left \in Int /\ left <= 2 /\ left <= b.tokens + 2 * e
        /\ Len(admitted'[key]) + r.bucket.tokens = n + left
    <3>. HIDE DEF key, b, r, n, e
    <3>1. CASE r.ok
      <4>1. left = r.bucket.tokens + 1 /\ Len(admitted'[key]) = n + 1
        BY <1>5, <3>1
      <4>2. left \in Int /\ left <= 2 /\ left <= b.tokens + 2 * e
        BY <1>6, <3>1, <4>1
      <4>3. n \in Int /\ r.bucket.tokens \in Int
        BY <1>1, <1>6
      <4>. HIDE DEF left
      <4>4. Len(admitted'[key]) + r.bucket.tokens = n + left
        BY <4>1, <4>3
      <4>. QED
        BY <4>2, <4>4
    <3>2. CASE ~r.ok
      <4>1. left = r.bucket.tokens /\ Len(admitted'[key]) = n
        BY <1>5, <3>2
      <4>2. left \in Int /\ left <= 2 /\ left <= b.tokens + 2 * e
        BY <1>6, <3>2, <4>1
      <4>3. n \in Int /\ r.bucket.tokens \in Int
        BY <1>1, <1>6
      <4>. HIDE DEF left
      <4>4. Len(admitted'[key]) + r.bucket.tokens = n + left
        BY <4>1, <4>3
      <4>. QED
        BY <4>2, <4>4
    <3>. QED
      BY <3>1, <3>2
  <2>. HIDE DEF left
  <2>2. CASE key \in DOMAIN rate_limits
    <3>1. b = rate_limits[key]
      BY <2>2 DEF L!Lookup
    <3>2. /\ (n + b.tokens) * TicksPerSecond
               <= 2 * (starts * TicksPerSecond + b.last_refill)
          /\ b.last_refill <= now[s]
      BY <1>1, <2>2, <3>1 DEF LimiterInv, Credit, Stamped
    <3>3. e \in Nat /\ e * TicksPerSecond <= now[s] - b.last_refill
      <4>1. now[s] - b.last_refill \in Int /\ now[s] - b.last_refill >= 0
        BY <1>1, <3>2
      <4>. QED
        BY <4>1, WholeSecondsBound
    <3>. HIDE DEF key, b, n, e, r
    <3>4. (n + left) * TicksPerSecond
            <= 2 * (starts * TicksPerSecond + now[s])
      BY <1>1, <2>1, <3>2, <3>3, RefillKeepsCredit
    <3>. QED
      BY <2>1, <3>4
  <2>3. CASE key \notin DOMAIN rate_limits
    <3>1. n * TicksPerSecond
            <= 2 * ((starts - 1) * TicksPerSecond + now[s])
      BY <1>1, <2>3 DEF LimiterInv, Fresh
    <3>. HIDE DEF key, b, n, e, r
    <3>2. (n + left) * TicksPerSecond
            <= 2 * (starts * TicksPerSecond + now[s])
      BY <1>1, <2>1, <3>1, NewBucketHasCredit
    <3>. QED
      BY <2>1, <3>2
  <2>. QED
    BY <2>2, <2>3
<1>. HIDE DEF key, b, r, n, e
<1>10. LimiterTypes'
  <2>1. \A k \in DOMAIN rate_limits' : /\ rate_limits'[k].tokens \in Int
                                       /\ rate_limits'[k].last_refill \in Nat
    BY <1>1, <1>2, <1>6 DEF LimiterInv, LimiterTypes
  <2>2. /\ check' \in [Slot -> {"idle", "waiting", "holding"}]
        /\ holder' \in [Endpoint -> Slot \cup {L!NoThread}]
    BY <1>3 DEF LimiterInv, LimiterTypes
  <2>. QED
    BY <1>1, <1>2, <1>3, <1>5, <2>1, <2>2 DEF LimiterInv, LimiterTypes
<1>11. Locked'
  BY <1>3, <1>8 DEF LimiterInv, LimiterTypes, Locked
<1>12. Stamped'
  BY <1>1, <1>2, <1>3, <1>6, <1>8 DEF LimiterInv, Stamped
<1>13. Credit'
  <2>. SUFFICES ASSUME NEW k \in DOMAIN rate_limits'
                PROVE  (Len(admitted'[k]) + rate_limits'[k].tokens)
                         * TicksPerSecond
                       <= 2 * (starts * TicksPerSecond
                               + rate_limits'[k].last_refill)
    BY <1>3 DEF Credit
  <2>1. CASE k = key
    BY <1>2, <1>6, <1>9, <2>1
  <2>2. CASE k # key
    <3>1. k \in DOMAIN rate_limits /\ k \in L!Key
      BY <1>2, <2>2 DEF LimiterInv, LimiterTypes
    <3>. QED
      BY <1>2, <1>5, <2>2, <3>1 DEF LimiterInv, Credit
  <2>. QED
    BY <2>1, <2>2
<1>14. Fresh'
  <2>1. \A k \in L!Key : k \notin DOMAIN rate_limits' =>
          k \notin DOMAIN rate_limits /\ admitted'[k] = admitted[k]
    BY <1>2, <1>5
  <2>2. \A t \in Slot : asked[t] \in L!Key
    BY DEF LimiterInv, LimiterTypes
  <2>. QED
    BY <1>3, <1>8, <2>1, <2>2 DEF LimiterInv, Fresh
<1>15. Within'
  <2>. SUFFICES ASSUME NEW k \in L!Key
                PROVE  Len(admitted'[k]) * TicksPerSecond
                         <= 2 * (starts * TicksPerSecond + clock)
    BY <1>3 DEF Within
  <2>1. CASE k = key /\ r.ok
    <3>1. /\ Len(admitted'[key]) \in Nat /\ r.bucket.tokens \in Nat
          /\ starts \in Nat
      BY <1>1, <1>5, <1>6, <2>1
    <3>. QED
      BY <1>1, <1>9, <2>1, <3>1, CreditIsWithin
  <2>2. CASE k = key /\ ~r.ok
    BY <1>1, <1>5, <2>2 DEF LimiterInv, Within, n
  <2>3. CASE k # key
    BY <1>5, <2>3 DEF LimiterInv, Within
  <2>. QED
    BY <2>1, <2>2, <2>3
<1>. QED
  BY <1>10, <1>11, <1>12, <1>13, <1>14, <1>15 DEF LimiterInv

----------------------------------------------------------------------------
(* The handlers' half.                                                     *)

\* One more in the one set at most, and one less in the other: the sum of the
\* two does not grow.
LEMMA CountMoves ==
  ASSUME NEW A, NEW B, NEW H, NEW K, NEW x, NEW s \in H,
         IsFiniteSet(A), IsFiniteSet(H),
         B \subseteq A \cup {x}, K \subseteq H \ {s}
  PROVE  /\ IsFiniteSet(B) /\ IsFiniteSet(K)
         /\ Cardinality(B) + Cardinality(K) <= Cardinality(A) + Cardinality(H)
<1>1. /\ IsFiniteSet(A \cup {x}) /\ IsFiniteSet(H \ {s})
      /\ Cardinality(A \cup {x}) <= Cardinality(A) + 1
      /\ Cardinality(H \ {s}) = Cardinality(H) - 1
      /\ Cardinality(A) \in Nat /\ Cardinality(H) \in Nat
  BY FS_AddElement, FS_RemoveElement, FS_CardinalityType
<1>2. /\ IsFiniteSet(B) /\ Cardinality(B) <= Cardinality(A \cup {x})
      /\ IsFiniteSet(K) /\ Cardinality(K) <= Cardinality(H \ {s})
  BY <1>1, FS_Subset
<1>3. /\ Cardinality(B) \in Nat /\ Cardinality(K) \in Nat
      /\ Cardinality(A \cup {x}) \in Nat /\ Cardinality(H \ {s}) \in Nat
  BY <1>1, <1>2, FS_CardinalityType
<1>. QED
  BY <1>1, <1>2, <1>3

\* The same when the first does not grow; then the second may lose nothing.
LEMMA CountKeeps ==
  ASSUME NEW A, NEW B, NEW H, NEW K, IsFiniteSet(A), IsFiniteSet(H),
         B \subseteq A, K \subseteq H
  PROVE  /\ IsFiniteSet(B) /\ IsFiniteSet(K)
         /\ Cardinality(B) + Cardinality(K) <= Cardinality(A) + Cardinality(H)
<1>1. /\ IsFiniteSet(B) /\ Cardinality(B) <= Cardinality(A)
      /\ IsFiniteSet(K) /\ Cardinality(K) <= Cardinality(H)
  BY FS_Subset
<1>2. /\ Cardinality(A) \in Nat /\ Cardinality(H) \in Nat
      /\ Cardinality(B) \in Nat /\ Cardinality(K) \in Nat
  BY <1>1, FS_CardinalityType
<1>. QED
  BY <1>1, <1>2

\* One more in the second: the sum grows by one at most.
LEMMA CountAdmits ==
  ASSUME NEW A, NEW H, NEW K, NEW s, IsFiniteSet(A), IsFiniteSet(H),
         K \subseteq H \cup {s}
  PROVE  /\ IsFiniteSet(K)
         /\ Cardinality(A) + Cardinality(K)
              <= Cardinality(A) + Cardinality(H) + 1
<1>. DEFINE J == H \cup {s}
<1>1. /\ IsFiniteSet(J) /\ Cardinality(J) <= Cardinality(H) + 1
      /\ Cardinality(A) \in Nat /\ Cardinality(H) \in Nat
  <2>1. Cardinality(A) \in Nat /\ Cardinality(H) \in Nat
    BY FS_CardinalityType
  <2>2. /\ IsFiniteSet(J)
        /\ Cardinality(J) =
             IF s \in H THEN Cardinality(H) ELSE Cardinality(H) + 1
    BY FS_AddElement
  <2>. HIDE DEF J
  <2>. QED
    BY <2>1, <2>2
<1>2. IsFiniteSet(K) /\ Cardinality(K) <= Cardinality(J)
  BY <1>1, FS_Subset
<1>3. Cardinality(K) \in Nat /\ Cardinality(J) \in Nat
  BY <1>1, <1>2, FS_CardinalityType
<1>. HIDE DEF J
<1>. QED
  BY <1>1, <1>2, <1>3

\* A handler that goes on, or answers.
Moves(s) ==
  /\ UNCHANGED req
  /\ pc' = [pc EXCEPT ![s] = pc'[s]]
  /\ pc'[s] \in G!Label \ {"idle", "received"}
  /\ answer' = [answer EXCEPT ![s] = answer'[s]]
  /\ pc'[s] # "answered" => answer'[s] = G!NoAnswer

LEMMA ReplyMoves ==
  ASSUME RequestTypes, NEW s \in Slot, NEW a, G!Reply(s, a), UNCHANGED req
  PROVE  Moves(s) /\ pc'[s] = "answered" /\ answer'[s] = a
<1>1. pc' = [pc EXCEPT ![s] = "answered"] /\ answer' = [answer EXCEPT ![s] = a]
  BY DEF G!Reply
<1>2. pc'[s] = "answered" /\ answer'[s] = a
  BY <1>1 DEF RequestTypes
<1>. QED
  BY <1>1, <1>2 DEF Moves, G!Label

LEMMA GotoMoves ==
  ASSUME RequestTypes, NEW s \in Slot, pc[s] # "answered",
         NEW l \in G!Label \ {"idle", "received", "answered"},
         G!Goto(s, l), UNCHANGED req
  PROVE  Moves(s) /\ pc'[s] = l /\ answer'[s] = G!NoAnswer
<1>1. pc' = [pc EXCEPT ![s] = l] /\ answer' = answer
  BY DEF G!Goto
<1>2. pc'[s] = l /\ answer'[s] = G!NoAnswer
  BY <1>1 DEF RequestTypes
<1>3. answer' = [answer EXCEPT ![s] = answer'[s]]
  BY <1>1 DEF RequestTypes
<1>. QED
  BY <1>1, <1>2, <1>3 DEF Moves

\* A request that was received: its handler goes on to a database only with a
\* body that will do, and answers 429 only where it stops.
LEMMA ReceivedStep ==
  ASSUME RequestTypes, NEW s \in Slot, G!Step(s), pc[s] = "received"
  PROVE  /\ Moves(s) /\ UNCHANGED <<goals, tasks>>
         /\ pc'[s] # "CreateTask"
         /\ pc'[s] = "CreateGoal" =>
              req[s].op = "goals_create" /\ req[s].body = "valid"
         /\ pc'[s] = "GetById" /\ req[s].op \in Creating =>
              req[s].op = "tasks_create" /\ req[s].body = "valid"
<1>1. \/ G!GoalsCreate(s) \/ G!GoalsList(s) \/ G!TasksCreate(s)
      \/ G!TasksList(s) \/ G!TasksUpdate(s)
  BY DEF G!Step, G!Receive, G!CreateGoal, G!GoalsListFind, G!At,
         G!TasksCreateFindGoal, G!CreateTask, G!TasksListFindGoal,
         G!TasksListSelect, G!TasksUpdateFindGoal, G!TasksUpdateWrite,
         G!DbFails, G!Deliver
<1>. USE DEF Creating, G!stored, G!client, G!At, G!TooManyRequests, G!Refuse,
             G!Label
<1>2. CASE G!GoalsCreate(s)
  BY <1>2, ReplyMoves, GotoMoves DEF G!GoalsCreate
<1>3. CASE G!GoalsList(s)
  BY <1>3, ReplyMoves, GotoMoves DEF G!GoalsList
<1>4. CASE G!TasksCreate(s)
  BY <1>4, ReplyMoves, GotoMoves DEF G!TasksCreate
<1>5. CASE G!TasksList(s)
  BY <1>5, ReplyMoves, GotoMoves DEF G!TasksList
<1>6. CASE G!TasksUpdate(s)
  BY <1>6, ReplyMoves, GotoMoves DEF G!TasksUpdate
<1>. QED
  BY <1>1, <1>2, <1>3, <1>4, <1>5, <1>6

\* A request at work on the databases: what it stores, it stores once, as the
\* last thing it does.
LEMMA WorkStep ==
  ASSUME RequestTypes, NEW s \in Slot, G!Step(s),
         pc[s] \notin {"idle", "received", "answered"}
  PROVE  /\ Moves(s)
         /\ pc'[s] \notin {"CreateGoal", "GetById"}
         /\ pc'[s] = "CreateTask" =>
              pc[s] = "GetById" /\ req[s].op = "tasks_create"
         /\ \A i \in DOMAIN tasks' : "by" \in DOMAIN tasks'[i]
         /\ \/ \A e, u : Made(e, u)' \subseteq Made(e, u)
            \/ /\ pc[s] \in {"CreateGoal", "CreateTask"}
               /\ pc'[s] = "answered"
               /\ \E x : \A e \in Creating : \A u :
                    /\ Made(e, u)' \subseteq Made(e, u) \cup {x}
                    /\ e # req[s].op \/ u # req[s].user =>
                         Made(e, u)' \subseteq Made(e, u)
<1>. USE DEF G!stored, G!client, G!At, G!Refuse, G!Fault, G!Label
<1>1. \/ G!CreateGoal(s) \/ G!CreateTask(s) \/ G!TasksUpdateWrite(s)
      \/ G!GoalsListFind(s) \/ G!TasksCreateFindGoal(s)
      \/ G!TasksListFindGoal(s) \/ G!TasksListSelect(s)
      \/ G!TasksUpdateFindGoal(s) \/ G!DbFails(s)
  BY DEF G!Step, G!Receive, G!GoalsCreate, G!GoalsList, G!TasksCreate,
         G!TasksList, G!TasksUpdate, G!Deliver
<1>2. UNCHANGED <<goals, tasks>> =>
        /\ \A e, u : Made(e, u)' \subseteq Made(e, u)
        /\ \A i \in DOMAIN tasks' : "by" \in DOMAIN tasks'[i]
  BY DEF Made, RequestTypes
<1>3. CASE G!CreateGoal(s)
  <2>1. Moves(s) /\ pc'[s] = "answered"
    BY <1>3, ReplyMoves DEF G!CreateGoal
  <2>2. pc[s] = "CreateGoal" /\ req[s].op = "goals_create"
    BY <1>3 DEF G!CreateGoal, RequestTypes
  <2>3. UNCHANGED tasks
    BY <1>3 DEF G!CreateGoal
  <2>4. PICK oid : goals' = [o \in DOMAIN goals \cup {oid} |->
                               IF o = oid THEN req[s].user ELSE goals[o]]
    BY <1>3 DEF G!CreateGoal
  <2>5. \A e \in Creating : \A u :
          /\ Made(e, u)' \subseteq Made(e, u) \cup {oid}
          /\ e # req[s].op \/ u # req[s].user =>
               Made(e, u)' \subseteq Made(e, u)
    BY <2>2, <2>3, <2>4 DEF Made, Creating
  <2>6. \A i \in DOMAIN tasks' : "by" \in DOMAIN tasks'[i]
    BY <2>3 DEF RequestTypes
  <2>. QED
    BY <2>1, <2>2, <2>5, <2>6
<1>4. CASE G!CreateTask(s)
  <2>1. Moves(s) /\ pc'[s] = "answered"
    BY <1>4, ReplyMoves DEF G!CreateTask
  <2>2. pc[s] = "CreateTask" /\ req[s].op = "tasks_create"
    BY <1>4 DEF G!CreateTask, RequestTypes
  <2>3. UNCHANGED goals
    BY <1>4 DEF G!CreateTask
  <2>. DEFINE id  == tasks_id_seq + 1
              row == G!NewTask(req[s])
  <2>4. \/ tasks' = [i \in DOMAIN tasks \cup {id} |->
                       IF i = id THEN row ELSE tasks[i]]
        \/ UNCHANGED tasks
    BY <1>4 DEF G!CreateTask, G!Inserted
  <2>5. row.by = req[s].user /\ "by" \in DOMAIN row
    BY DEF G!NewTask
  <2>. HIDE DEF id, row
  <2>6. \A e \in Creating : \A u :
          /\ Made(e, u)' \subseteq Made(e, u) \cup {id}
          /\ e # req[s].op \/ u # req[s].user =>
               Made(e, u)' \subseteq Made(e, u)
    BY <2>2, <2>3, <2>4, <2>5 DEF Made, Creating
  <2>7. \A i \in DOMAIN tasks' : "by" \in DOMAIN tasks'[i]
    BY <2>4, <2>5 DEF RequestTypes
  <2>. QED
    BY <2>1, <2>2, <2>6, <2>7
<1>5. CASE G!TasksUpdateWrite(s)
  <2>1. Moves(s) /\ pc'[s] = "answered"
    BY <1>5, ReplyMoves DEF G!TasksUpdateWrite
  <2>2. UNCHANGED goals
    BY <1>5 DEF G!TasksUpdateWrite
  <2>3. /\ DOMAIN tasks' = DOMAIN tasks
        /\ \A i \in DOMAIN tasks :
             \/ tasks'[i] = tasks[i]
             \/ tasks'[i] = [tasks[i] EXCEPT !.status = req[s].status]
    BY <1>5 DEF G!TasksUpdateWrite
  <2>4. \A i \in DOMAIN tasks :
          "by" \in DOMAIN tasks'[i] /\ tasks'[i].by = tasks[i].by
    BY <2>3 DEF RequestTypes
  <2>5. \A e, u : Made(e, u)' \subseteq Made(e, u)
    BY <2>2, <2>3, <2>4 DEF Made
  <2>. QED
    BY <2>1, <2>3, <2>4, <2>5
<1>6. CASE G!GoalsListFind(s)
  BY <1>2, <1>6, ReplyMoves DEF G!GoalsListFind
<1>7. CASE G!TasksCreateFindGoal(s)
  BY <1>2, <1>7, ReplyMoves, GotoMoves DEF G!TasksCreateFindGoal, G!OwnGoal
<1>8. CASE G!TasksListFindGoal(s)
  BY <1>2, <1>8, ReplyMoves, GotoMoves DEF G!TasksListFindGoal, G!OwnGoal
<1>9. CASE G!TasksListSelect(s)
  BY <1>2, <1>9, ReplyMoves DEF G!TasksListSelect
<1>10. CASE G!TasksUpdateFindGoal(s)
  BY <1>2, <1>10, ReplyMoves, GotoMoves DEF G!TasksUpdateFindGoal
<1>11. CASE G!DbFails(s)
  BY <1>2, <1>11, ReplyMoves DEF G!DbFails
<1>. QED
  BY <1>1, <1>3, <1>4, <1>5, <1>6, <1>7, <1>8, <1>9, <1>10, <1>11

----------------------------------------------------------------------------
(* Every step keeps both halves.                                           *)

\* What a handler's step does to the types of the requests.
LEMMA MovesTypes ==
  ASSUME RequestTypes, NEW s \in Slot, Moves(s), pc[s] # "idle",
         pc'[s] = "CreateGoal" => req[s].op = "goals_create",
         pc'[s] = "CreateTask" => req[s].op = "tasks_create",
         check'[s] = "idle",
         \A t \in Slot \ {s} : check'[t] = check[t] /\ asked'[t] = asked[t],
         \A i \in DOMAIN tasks' : "by" \in DOMAIN tasks'[i]
  PROVE  RequestTypes'
<1>1. /\ req' = req
      /\ pc' = [pc EXCEPT ![s] = pc'[s]]
      /\ answer' = [answer EXCEPT ![s] = answer'[s]]
      /\ pc'[s] \in G!Label \ {"idle", "received"}
      /\ pc'[s] # "answered" => answer'[s] = G!NoAnswer
  BY DEF Moves
<1>2. pc' \in [Slot -> G!Label]
  BY <1>1 DEF RequestTypes
<1>3. DOMAIN req' = Slot /\ req' = [t \in Slot |-> req'[t]]
  BY <1>1 DEF RequestTypes
<1>4. DOMAIN answer' = Slot /\ answer' = [t \in Slot |-> answer'[t]]
  BY <1>1 DEF RequestTypes
<1>5. ASSUME NEW t \in Slot
      PROVE  /\ pc'[t] # "idle" => req'[t] \in Requests
             /\ pc'[t] # "answered" => answer'[t] = G!NoAnswer
             /\ pc'[t] = "CreateGoal" => req'[t].op = "goals_create"
             /\ pc'[t] = "CreateTask" => req'[t].op = "tasks_create"
             /\ check'[t] # "idle" =>
                  /\ pc'[t] = "received" /\ PassesBody(req'[t])
                  /\ asked'[t] = KeyOf(req'[t])
  <2>1. CASE t = s
    BY <1>1, <2>1 DEF RequestTypes
  <2>2. CASE t # s
    <3>1. /\ pc'[t] = pc[t] /\ answer'[t] = answer[t]
          /\ check'[t] = check[t] /\ asked'[t] = asked[t]
      BY <1>1, <2>2 DEF RequestTypes
    <3>. QED
      BY <1>1, <3>1 DEF RequestTypes
  <2>. QED
    BY <2>1, <2>2
<1>. QED
  BY <1>2, <1>3, <1>4, <1>5 DEF RequestTypes, KeyOf, PassesBody

\* A step that stores nothing and sends no request on to a database.
LEMMA CountedQuiet ==
  ASSUME LimiterInv, Counted, UNCHANGED admitted,
         \A e \in Creating, u \in User :
           /\ Made(e, u)' \subseteq Made(e, u)
           /\ InFlight(e, u)' \subseteq InFlight(e, u)
  PROVE  Counted'
<1>. SUFFICES ASSUME NEW e \in Creating, NEW u \in User
              PROVE  /\ IsFiniteSet(Made(e, u)') /\ IsFiniteSet(InFlight(e, u)')
                     /\ Cardinality(Made(e, u)') + Cardinality(InFlight(e, u)')
                          <= Admissions(e, u)'
  BY DEF Counted
<1>1. /\ IsFiniteSet(Made(e, u)) /\ IsFiniteSet(InFlight(e, u))
      /\ Cardinality(Made(e, u)) + Cardinality(InFlight(e, u))
           <= Admissions(e, u)
  BY DEF Counted
<1>2. Admissions(e, u)' = Admissions(e, u)
  BY DEF Admissions
<1>. DEFINE A == Made(e, u)
            B == Made(e, u)'
            H == InFlight(e, u)
            K == InFlight(e, u)'
<1>3. /\ IsFiniteSet(A) /\ IsFiniteSet(H) /\ B \subseteq A /\ K \subseteq H
  BY <1>1
<1>4. /\ IsFiniteSet(B) /\ IsFiniteSet(K)
      /\ Cardinality(B) + Cardinality(K) <= Cardinality(A) + Cardinality(H)
      /\ Cardinality(A) \in Nat /\ Cardinality(H) \in Nat
      /\ Cardinality(B) \in Nat /\ Cardinality(K) \in Nat
  <2>. HIDE DEF A, B, H, K
  <2>. QED
    BY <1>3, CountKeeps, FS_CardinalityType
<1>5. Admissions(e, u) \in Int
  BY DEF Admissions, LimiterInv, LimiterTypes
<1>. QED
  BY <1>1, <1>2, <1>4, <1>5

\* The draw's verdict: the key gains an admission, or a refusal.
LEMMA DrawVerdict ==
  ASSUME LimiterInv, NEW s \in Slot, L!CheckRateLimit(s)
  PROVE  /\ asked[s] \in L!Key
         /\ check[s] = "holding" /\ UNCHANGED asked
         /\ check' = [check EXCEPT ![s] = "idle"]
         /\ \/ UNCHANGED admitted /\ refused' # refused
            \/ /\ UNCHANGED refused
               /\ Len(admitted'[asked[s]]) = Len(admitted[asked[s]]) + 1
               /\ \A k \in L!Key \ {asked[s]} : admitted'[k] = admitted[k]
<1>. DEFINE key == asked[s]
            r   == L!Take(L!Lookup(key), now[s])
<1>1. /\ check[s] = "holding" /\ UNCHANGED asked
      /\ check' = [check EXCEPT ![s] = "idle"]
      /\ r.ok => /\ admitted' = [admitted EXCEPT ![key] = Append(@, now[s])]
                 /\ refused' = refused
      /\ ~r.ok => /\ refused' = [refused EXCEPT ![key] = Append(@, now[s])]
                  /\ admitted' = admitted
  BY DEF L!CheckRateLimit
<1>2. /\ key \in L!Key /\ now[s] \in Nat
      /\ admitted \in [L!Key -> Seq(Nat)] /\ refused \in [L!Key -> Seq(Nat)]
  BY DEF LimiterInv, LimiterTypes
<1>3. /\ admitted[key] \in Seq(Nat) /\ refused[key] \in Seq(Nat)
      /\ Len(Append(admitted[key], now[s])) = Len(admitted[key]) + 1
      /\ Len(Append(refused[key], now[s])) = Len(refused[key]) + 1
      /\ Len(refused[key]) \in Nat
  BY <1>2
<1>. HIDE DEF key, r
<1>4. CASE r.ok
  BY <1>1, <1>2, <1>3, <1>4 DEF key
<1>5. CASE ~r.ok
  <2>1. Len(refused'[key]) = Len(refused[key]) + 1
    BY <1>1, <1>2, <1>3, <1>5
  <2>2. refused' # refused
    BY <1>3, <2>1
  <2>. QED
    BY <1>1, <1>2, <1>5, <2>2 DEF key
<1>. QED
  BY <1>4, <1>5

LEMMA ReceiveKeeps ==
  ASSUME IInv, NEW s \in Slot, Receive(s)
  PROVE  IInv'
<1>. USE DEF IInv
<1>1. LimiterInv'
  BY DEF Receive, limiters, LimiterInv, LimiterTypes, Locked, Stamped, Credit,
         Fresh, Within
<1>2. PICK r \in Requests : req' = [req EXCEPT ![s] = r]
  BY DEF Receive, G!Receive
<1>3. /\ pc[s] = "idle" /\ pc' = [pc EXCEPT ![s] = "received"]
      /\ UNCHANGED <<goals, tasks, answer, check, asked, admitted>>
  BY DEF Receive, G!Receive, G!stored, limiters
<1>4. /\ pc'[s] = "received" /\ req'[s] = r /\ pc[s] = "idle"
      /\ \A t \in Slot \ {s} : pc'[t] = pc[t] /\ req'[t] = req[t]
      /\ check[s] = "idle"
  BY <1>2, <1>3 DEF RequestTypes
<1>5. RequestTypes'
  <2>1. pc' \in [Slot -> G!Label]
    BY <1>3 DEF RequestTypes, G!Label
  <2>2. DOMAIN req' = Slot /\ req' = [t \in Slot |-> req'[t]]
    BY <1>2 DEF RequestTypes
  <2>. QED
    BY <1>3, <1>4, <2>1, <2>2 DEF RequestTypes, KeyOf, PassesBody
<1>6. Counted'
  <2>1. \A e \in Creating, u \in User :
          /\ Made(e, u)' \subseteq Made(e, u)
          /\ InFlight(e, u)' \subseteq InFlight(e, u)
    BY <1>3, <1>4 DEF Made, InFlight
  <2>. QED
    BY <1>3, <2>1, CountedQuiet
<1>. QED
  BY <1>1, <1>5, <1>6

\* A handler's step that ends, or goes on with a request that was in flight.
LEMMA InFlightShrinks ==
  ASSUME RequestTypes, NEW s \in Slot, Moves(s),
         pc'[s] \in {"CreateGoal", "GetById", "CreateTask"}
           /\ req[s].op \in Creating
           => pc[s] \in {"CreateGoal", "GetById", "CreateTask"}
  PROVE  \A e \in Creating : \A u : InFlight(e, u)' \subseteq InFlight(e, u)
<1>1. req' = req /\ \A t \in Slot \ {s} : pc'[t] = pc[t]
  BY DEF Moves, RequestTypes
<1>. QED
  BY <1>1 DEF InFlight

LEMMA RefuseBodyKeeps ==
  ASSUME IInv, NEW s \in Slot, RefuseBody(s)
  PROVE  IInv'
<1>. USE DEF IInv
<1>1. /\ pc[s] = "received" /\ ~PassesBody(req[s]) /\ G!Step(s)
      /\ UNCHANGED <<limiters, starts>>
  BY DEF RefuseBody
<1>2. LimiterInv'
  BY <1>1 DEF limiters, LimiterInv, LimiterTypes, Locked, Stamped, Credit,
              Fresh, Within
<1>3. req[s].body # "valid"
  BY <1>1 DEF PassesBody
<1>4. /\ Moves(s) /\ UNCHANGED <<goals, tasks>>
      /\ pc'[s] \notin {"CreateTask", "CreateGoal"}
      /\ pc'[s] = "GetById" => req[s].op \notin Creating
  BY <1>1, <1>3, ReceivedStep
<1>5. /\ UNCHANGED <<check, asked, admitted>>
      /\ \A e, u : Made(e, u)' \subseteq Made(e, u)
  BY <1>1, <1>4 DEF limiters, Made
<1>6. Counted'
  BY <1>4, <1>5, InFlightShrinks, CountedQuiet
<1>7. check[s] = "idle" /\ \A i \in DOMAIN tasks' : "by" \in DOMAIN tasks'[i]
  BY <1>1, <1>4 DEF RequestTypes
<1>8. RequestTypes'
  BY <1>1, <1>4, <1>5, <1>7, MovesTypes
<1>. QED
  BY <1>2, <1>6, <1>8

LEMMA CheckKeeps ==
  ASSUME IInv, NEW s \in Slot, Check(s)
  PROVE  IInv'
<1>. USE DEF IInv
<1>. DEFINE k == KeyOf(req[s])
<1>1. /\ pc[s] = "received" /\ PassesBody(req[s])
      /\ L!Call(s, k) \/ L!Enter(s)
      /\ UNCHANGED <<handlers, starts>>
  BY DEF Check
<1>2. k \in L!Key
  <2>1. req[s] \in Requests
    BY <1>1 DEF RequestTypes
  <2>. QED
    BY <2>1, RequestsAssumption DEF KeyOf, Endpoint, L!Key
<1>3. LimiterInv'
  BY <1>1, <1>2, LimiterCall, LimiterEnter
<1>4. /\ UNCHANGED <<goals, tasks, pc, req, answer, admitted>>
      /\ \A t \in Slot \ {s} : check'[t] = check[t] /\ asked'[t] = asked[t]
      /\ asked'[s] = k
  <2>. HIDE DEF k
  <2>1. UNCHANGED <<goals, tasks, pc, req, answer>>
    BY <1>1 DEF handlers
  <2>2. CASE L!Call(s, k)
    BY <2>1, <2>2 DEF L!Call, LimiterInv, LimiterTypes
  <2>3. CASE L!Enter(s)
    <3>1. asked[s] = k
      BY <2>3 DEF L!Enter, RequestTypes, k
    <3>. QED
      BY <2>1, <2>3, <3>1 DEF L!Enter, LimiterInv, LimiterTypes
  <2>. QED
    BY <1>1, <2>2, <2>3
<1>5. RequestTypes'
  BY <1>1, <1>4 DEF RequestTypes, KeyOf, PassesBody
<1>6. Counted'
  <2>1. \A e \in Creating, u \in User :
          /\ Made(e, u)' \subseteq Made(e, u)
          /\ InFlight(e, u)' \subseteq InFlight(e, u)
    BY <1>4 DEF Made, InFlight
  <2>. QED
    BY <1>4, <2>1, CountedQuiet
<1>. QED
  BY <1>3, <1>5, <1>6

\* An admission pays for the request that it lets through.
LEMMA AdmissionCounted ==
  ASSUME IInv, NEW s \in Slot, Moves(s), UNCHANGED <<goals, tasks>>,
         asked[s] = KeyOf(req[s]), asked[s] \in L!Key,
         Len(admitted'[asked[s]]) = Len(admitted[asked[s]]) + 1,
         \A k \in L!Key \ {asked[s]} : admitted'[k] = admitted[k]
  PROVE  Counted'
<1>. SUFFICES ASSUME NEW e \in Creating, NEW u \in User
              PROVE  /\ IsFiniteSet(Made(e, u)') /\ IsFiniteSet(InFlight(e, u)')
                     /\ Cardinality(Made(e, u)') + Cardinality(InFlight(e, u)')
                          <= Admissions(e, u)'
  BY DEF Counted
<1>. DEFINE A == Made(e, u)
            H == InFlight(e, u)
            K == InFlight(e, u)'
<1>1. /\ IsFiniteSet(A) /\ IsFiniteSet(H)
      /\ Cardinality(A) + Cardinality(H) <= Admissions(e, u)
  BY DEF Counted, IInv
<1>2. Made(e, u)' = A
  BY DEF Made
<1>3. req' = req /\ \A t \in Slot \ {s} : pc'[t] = pc[t]
  BY DEF Moves, IInv, RequestTypes
<1>4. Admissions(e, u) \in Int
  BY DEF Admissions, IInv, LimiterInv, LimiterTypes
<1>5. CASE req[s].op = e /\ req[s].user = u
  <2>1. K \subseteq H \cup {s}
    BY <1>3 DEF InFlight
  <2>2. Admissions(e, u)' = Admissions(e, u) + 1
    BY <1>5 DEF Admissions, KeyOf, L!Key
  <2>3. /\ IsFiniteSet(K) /\ Cardinality(A) + Cardinality(K)
                               <= Cardinality(A) + Cardinality(H) + 1
        /\ Cardinality(A) \in Nat /\ Cardinality(H) \in Nat
        /\ Cardinality(K) \in Nat
    <3>. HIDE DEF A, H, K
    <3>. QED
      BY <1>1, <2>1, CountAdmits, FS_CardinalityType
  <2>. QED
    BY <1>1, <1>2, <1>4, <2>2, <2>3
<1>6. CASE ~(req[s].op = e /\ req[s].user = u)
  <2>1. K \subseteq H
    BY <1>3, <1>6 DEF InFlight
  <2>2. <<e, u>> # asked[s]
    BY <1>6 DEF KeyOf
  <2>3. Admissions(e, u)' = Admissions(e, u)
    BY <2>2 DEF Admissions, L!Key
  <2>4. /\ IsFiniteSet(K)
        /\ Cardinality(A) + Cardinality(K) <= Cardinality(A) + Cardinality(H)
        /\ Cardinality(A) \in Nat /\ Cardinality(H) \in Nat
        /\ Cardinality(K) \in Nat
    <3>. HIDE DEF A, H, K
    <3>. QED
      BY <1>1, <2>1, CountKeeps, FS_CardinalityType
  <2>. QED
    BY <1>1, <1>2, <1>4, <2>3, <2>4
<1>. QED
  BY <1>5, <1>6

LEMMA VerdictKeeps ==
  ASSUME IInv, NEW s \in Slot, Verdict(s)
  PROVE  IInv'
<1>. USE DEF IInv
<1>1. /\ pc[s] = "received" /\ PassesBody(req[s])
      /\ L!CheckRateLimit(s) /\ G!Step(s)
      /\ refused' # refused => answer'[s].code = 429
      /\ UNCHANGED starts
  BY DEF Verdict
<1>2. LimiterInv'
  BY <1>1, LimiterDraw
<1>3. /\ Moves(s) /\ UNCHANGED <<goals, tasks>>
      /\ pc'[s] # "CreateTask"
      /\ pc'[s] = "CreateGoal" => req[s].op = "goals_create"
  BY <1>1, ReceivedStep
<1>4. /\ asked[s] \in L!Key
      /\ check[s] = "holding" /\ UNCHANGED asked
      /\ check' = [check EXCEPT ![s] = "idle"]
      /\ \/ UNCHANGED admitted /\ refused' # refused
         \/ /\ UNCHANGED refused
            /\ Len(admitted'[asked[s]]) = Len(admitted[asked[s]]) + 1
            /\ \A k \in L!Key \ {asked[s]} : admitted'[k] = admitted[k]
  BY <1>1, DrawVerdict
<1>5. RequestTypes'
  <2>1. /\ check'[s] = "idle"
        /\ \A t \in Slot \ {s} : check'[t] = check[t] /\ asked'[t] = asked[t]
    BY <1>4 DEF LimiterInv, LimiterTypes
  <2>2. \A i \in DOMAIN tasks' : "by" \in DOMAIN tasks'[i]
    BY <1>3 DEF RequestTypes
  <2>. QED
    BY <1>1, <1>3, <2>1, <2>2, MovesTypes
<1>6. Counted'
  <2>1. CASE UNCHANGED admitted /\ refused' # refused
    <3>1. answer'[s].code = 429
      BY <1>1, <2>1
    <3>2. pc'[s] = "answered"
      BY <1>3, <3>1 DEF Moves, G!NoAnswer
    <3>3. \A e \in Creating : \A u : InFlight(e, u)' \subseteq InFlight(e, u)
      BY <1>3, <3>2, InFlightShrinks
    <3>4. \A e, u : Made(e, u)' \subseteq Made(e, u)
      BY <1>3 DEF Made
    <3>. QED
      BY <2>1, <3>3, <3>4, CountedQuiet
  <2>2. CASE /\ UNCHANGED refused
             /\ Len(admitted'[asked[s]]) = Len(admitted[asked[s]]) + 1
             /\ \A k \in L!Key \ {asked[s]} : admitted'[k] = admitted[k]
    <3>1. asked[s] = KeyOf(req[s])
      BY <1>4 DEF RequestTypes
    <3>. QED
      BY <1>3, <1>4, <2>2, <3>1, AdmissionCounted
  <2>. QED
    BY <1>4, <2>1, <2>2
<1>. QED
  BY <1>2, <1>5, <1>6

\* A request that stores something was in flight, and no longer is.
LEMMA StoreCounted ==
  ASSUME IInv, NEW s \in Slot, Moves(s), UNCHANGED admitted,
         pc[s] \in {"CreateGoal", "CreateTask"}, pc'[s] = "answered",
         NEW x, \A e \in Creating : \A u :
                  /\ Made(e, u)' \subseteq Made(e, u) \cup {x}
                  /\ e # req[s].op \/ u # req[s].user =>
                       Made(e, u)' \subseteq Made(e, u)
  PROVE  Counted'
<1>. SUFFICES ASSUME NEW e \in Creating, NEW u \in User
              PROVE  /\ IsFiniteSet(Made(e, u)') /\ IsFiniteSet(InFlight(e, u)')
                     /\ Cardinality(Made(e, u)') + Cardinality(InFlight(e, u)')
                          <= Admissions(e, u)'
  BY DEF Counted
<1>. DEFINE A == Made(e, u)
            B == Made(e, u)'
            H == InFlight(e, u)
            K == InFlight(e, u)'
<1>1. /\ IsFiniteSet(A) /\ IsFiniteSet(H)
      /\ Cardinality(A) + Cardinality(H) <= Admissions(e, u)
  BY DEF Counted, IInv
<1>2. Admissions(e, u)' = Admissions(e, u) /\ Admissions(e, u) \in Int
  BY DEF Admissions, IInv, LimiterInv, LimiterTypes
<1>3. req' = req /\ \A t \in Slot \ {s} : pc'[t] = pc[t]
  BY DEF Moves, IInv, RequestTypes
<1>4. K \subseteq H \ {s}
  BY <1>3 DEF InFlight
<1>5. /\ IsFiniteSet(B) /\ IsFiniteSet(K)
      /\ Cardinality(B) + Cardinality(K) <= Cardinality(A) + Cardinality(H)
  <2>1. CASE req[s].op = e /\ req[s].user = u
    <3>1. s \in H /\ B \subseteq A \cup {x}
      BY <2>1 DEF InFlight
    <3>. HIDE DEF A, B, H, K
    <3>. QED
      BY <1>1, <1>4, <3>1, CountMoves
  <2>2. CASE ~(req[s].op = e /\ req[s].user = u)
    <3>1. B \subseteq A
      BY <2>2
    <3>. HIDE DEF A, B, H, K
    <3>. QED
      BY <1>1, <1>4, <3>1, CountKeeps
  <2>. QED
    BY <2>1, <2>2
<1>6. /\ Cardinality(A) \in Nat /\ Cardinality(H) \in Nat
      /\ Cardinality(B) \in Nat /\ Cardinality(K) \in Nat
  <2>. HIDE DEF A, B, H, K
  <2>. QED
    BY <1>1, <1>5, FS_CardinalityType
<1>. QED
  BY <1>1, <1>2, <1>5, <1>6

LEMMA WorkKeeps ==
  ASSUME IInv, NEW s \in Slot, Work(s)
  PROVE  IInv'
<1>. USE DEF IInv
<1>1. /\ pc[s] \notin {"idle", "received"} /\ G!Step(s)
      /\ UNCHANGED <<limiters, starts>>
  BY DEF Work
<1>2. LimiterInv'
  BY <1>1 DEF limiters, LimiterInv, LimiterTypes, Locked, Stamped, Credit,
              Fresh, Within
<1>3. UNCHANGED <<check, asked, admitted>> /\ check[s] = "idle"
  BY <1>1 DEF limiters, RequestTypes, LimiterInv, LimiterTypes
<1>4. CASE pc[s] = "answered"
  <2>1. G!Deliver(s)
    BY <1>1, <1>4
       DEF G!Step, G!Receive, G!GoalsCreate, G!GoalsList, G!TasksCreate,
           G!TasksList, G!TasksUpdate, G!CreateGoal, G!GoalsListFind, G!At,
           G!TasksCreateFindGoal, G!CreateTask, G!TasksListFindGoal,
           G!TasksListSelect, G!TasksUpdateFindGoal, G!TasksUpdateWrite,
           G!DbFails
  <2>2. /\ UNCHANGED <<goals, tasks>>
        /\ pc' = [pc EXCEPT ![s] = "idle"]
        /\ req' = [req EXCEPT ![s] = G!NoRequest]
        /\ answer' = [answer EXCEPT ![s] = G!NoAnswer]
    BY <2>1 DEF G!Deliver, G!stored
  <2>3. /\ pc'[s] = "idle" /\ answer'[s] = G!NoAnswer
        /\ \A t \in Slot \ {s} :
             pc'[t] = pc[t] /\ req'[t] = req[t] /\ answer'[t] = answer[t]
    BY <2>2 DEF RequestTypes
  <2>4. RequestTypes'
    <3>1. pc' \in [Slot -> G!Label]
      BY <2>2 DEF RequestTypes, G!Label
    <3>2. /\ DOMAIN req' = Slot /\ req' = [t \in Slot |-> req'[t]]
          /\ DOMAIN answer' = Slot /\ answer' = [t \in Slot |-> answer'[t]]
      BY <2>2 DEF RequestTypes
    <3>. QED
      BY <1>3, <2>2, <2>3, <3>1, <3>2 DEF RequestTypes, KeyOf, PassesBody
  <2>5. \A e, u : /\ Made(e, u)' \subseteq Made(e, u)
                  /\ InFlight(e, u)' \subseteq InFlight(e, u)
    BY <2>2, <2>3 DEF Made, InFlight
  <2>. QED
    BY <1>2, <1>3, <2>4, <2>5, CountedQuiet
<1>5. CASE pc[s] # "answered"
  <2>1. /\ Moves(s)
        /\ pc'[s] \notin {"CreateGoal", "GetById"}
        /\ pc'[s] = "CreateTask" =>
             pc[s] = "GetById" /\ req[s].op = "tasks_create"
        /\ \A i \in DOMAIN tasks' : "by" \in DOMAIN tasks'[i]
        /\ \/ \A e, u : Made(e, u)' \subseteq Made(e, u)
           \/ /\ pc[s] \in {"CreateGoal", "CreateTask"}
              /\ pc'[s] = "answered"
              /\ \E x : \A e \in Creating : \A u :
                   /\ Made(e, u)' \subseteq Made(e, u) \cup {x}
                   /\ e # req[s].op \/ u # req[s].user =>
                        Made(e, u)' \subseteq Made(e, u)
    BY <1>1, <1>5, WorkStep
  <2>2. RequestTypes'
    BY <1>1, <1>3, <2>1, MovesTypes
  <2>3. CASE \A e, u : Made(e, u)' \subseteq Made(e, u)
    <3>1. \A e \in Creating : \A u : InFlight(e, u)' \subseteq InFlight(e, u)
      BY <2>1, InFlightShrinks
    <3>. QED
      BY <1>2, <1>3, <2>2, <2>3, <3>1, CountedQuiet
  <2>4. CASE /\ pc[s] \in {"CreateGoal", "CreateTask"}
             /\ pc'[s] = "answered"
             /\ \E x : \A e \in Creating : \A u :
                  /\ Made(e, u)' \subseteq Made(e, u) \cup {x}
                  /\ e # req[s].op \/ u # req[s].user =>
                       Made(e, u)' \subseteq Made(e, u)
    <3>1. Counted'
      BY <1>3, <2>1, <2>4, StoreCounted
    <3>. QED
      BY <1>2, <2>2, <3>1
  <2>. QED
    BY <2>1, <2>3, <2>4
<1>. QED
  BY <1>4, <1>5

LEMMA RestartKeeps ==
  ASSUME IInv, Restart
  PROVE  IInv'
<1>. USE DEF IInv
<1>1. LimiterInv'
  BY LimiterRestart
<1>2. /\ UNCHANGED <<goals, tasks, admitted>>
      /\ check' = [s \in Slot |-> "idle"]
      /\ pc' = [s \in Slot |-> "idle"]
      /\ \/ (\A s \in Slot : pc[s] = "idle") /\ UNCHANGED <<req, answer>>
         \/ /\ req' = [s \in Slot |-> G!NoRequest]
            /\ answer' = [s \in Slot |-> G!NoAnswer]
  <2>1. UNCHANGED admitted /\ check' = [s \in Slot |-> "idle"]
    BY DEF Restart
  <2>2. CASE G!Restart
    BY <2>1, <2>2 DEF G!Restart, G!stored
  <2>3. CASE (\A s \in Slot : pc[s] = "idle") /\ UNCHANGED handlers
    BY <2>1, <2>3 DEF handlers, RequestTypes
  <2>. QED
    BY <2>2, <2>3 DEF Restart
<1>3. \A s \in Slot : pc'[s] = "idle" /\ check'[s] = "idle"
  BY <1>2
<1>4. RequestTypes'
  <2>1. pc' \in [Slot -> G!Label]
    BY <1>2 DEF G!Label
  <2>2. /\ DOMAIN req' = Slot /\ req' = [t \in Slot |-> req'[t]]
        /\ DOMAIN answer' = Slot /\ answer' = [t \in Slot |-> answer'[t]]
    BY <1>2 DEF RequestTypes
  <2>3. \A s \in Slot : answer'[s] = G!NoAnswer
    <3>1. CASE (\A s \in Slot : pc[s] = "idle") /\ UNCHANGED <<req, answer>>
      BY <3>1 DEF RequestTypes
    <3>2. CASE answer' = [s \in Slot |-> G!NoAnswer]
      BY <3>2
    <3>. QED
      BY <1>2, <3>1, <3>2
  <2>. QED
    BY <1>2, <1>3, <2>1, <2>2, <2>3 DEF RequestTypes, KeyOf, PassesBody
<1>5. \A e, u : /\ Made(e, u)' \subseteq Made(e, u)
                /\ InFlight(e, u)' \subseteq InFlight(e, u)
  BY <1>2, <1>3 DEF Made, InFlight
<1>. QED
  BY <1>1, <1>2, <1>4, <1>5, CountedQuiet

----------------------------------------------------------------------------
LEMMA IInvInitially ==
  ASSUME Init
  PROVE  IInv
<1>1. G!Init /\ L!Init /\ starts = 1
  BY DEF Init
<1>2. LimiterInv
  BY <1>1, LimiterInit
<1>3. RequestTypes
  <2>1. pc \in [Slot -> G!Label]
    BY <1>1 DEF G!Init, G!Label
  <2>2. \A s \in Slot : check[s] = "idle"
    BY <1>1 DEF L!Init
  <2>. QED
    BY <1>1, <2>1, <2>2 DEF RequestTypes, G!Init
<1>4. Counted
  <2>. SUFFICES ASSUME NEW e \in Creating, NEW u \in User
                PROVE  /\ IsFiniteSet(Made(e, u)) /\ IsFiniteSet(InFlight(e, u))
                       /\ Cardinality(Made(e, u)) + Cardinality(InFlight(e, u))
                            <= Admissions(e, u)
    BY DEF Counted
  <2>1. Made(e, u) = {} /\ InFlight(e, u) = {}
    BY <1>1 DEF G!Init, Made, InFlight
  <2>2. Admissions(e, u) = 0
    BY <1>1 DEF Admissions, L!Init
  <2>. QED
    BY <2>1, <2>2, FS_EmptySet
<1>. QED
  BY <1>2, <1>3, <1>4 DEF IInv

LEMMA IInvKept ==
  ASSUME IInv, [Next]_vars
  PROVE  IInv'
<1>1. CASE UNCHANGED vars
  <2>1. UNCHANGED <<goals, tasks, pc, req, answer, clock, rate_limits, holder,
                    check, asked, now, admitted, refused, starts>>
    BY <1>1 DEF vars, handlers, limiters
  <2>2. LimiterInv'
    BY <2>1 DEF IInv, LimiterInv, LimiterTypes, Locked, Stamped, Credit, Fresh,
                Within
  <2>3. RequestTypes'
    BY <2>1 DEF IInv, RequestTypes
  <2>4. Counted'
    BY <2>1 DEF IInv, Counted, Made, InFlight, Admissions
  <2>. QED
    BY <2>2, <2>3, <2>4 DEF IInv
<1>2. ASSUME NEW s \in Slot, Receive(s) \/ Serve(s)
      PROVE  IInv'
  BY <1>2, ReceiveKeeps, RefuseBodyKeeps, CheckKeeps, VerdictKeeps, WorkKeeps
     DEF Serve
<1>3. CASE Tick
  <2>1. L!Tick /\ UNCHANGED <<handlers, starts>>
    BY <1>3 DEF Tick
  <2>2. LimiterInv'
    BY <2>1, LimiterTick DEF IInv
  <2>3. UNCHANGED <<goals, tasks, pc, req, answer, check, asked, admitted>>
    BY <2>1 DEF handlers, L!Tick
  <2>4. RequestTypes'
    BY <2>3 DEF IInv, RequestTypes
  <2>5. Counted'
    BY <2>3 DEF IInv, Counted, Made, InFlight, Admissions
  <2>. QED
    BY <2>2, <2>4, <2>5 DEF IInv
<1>4. CASE Restart
  BY <1>4, RestartKeeps
<1>. QED
  BY <1>1, <1>2, <1>3, <1>4 DEF Next

\* What is stored is counted against admissions, and those are within.
LEMMA CountedIsWithin ==
  ASSUME IInv
  PROVE  StoredWithinLimit
<1>. SUFFICES ASSUME NEW e \in Creating, NEW u \in User
              PROVE  Cardinality(Made(e, u)) * TicksPerSecond
                       <= 2 * TicksPerSecond * starts + 2 * clock
  BY DEF StoredWithinLimit, Creating, L!max_tokens, L!refill_rate
<1>1. starts \in Nat \ {0} /\ clock \in Nat
  BY DEF IInv, LimiterInv, LimiterTypes
<1>2. /\ Cardinality(Made(e, u)) \in Nat /\ Cardinality(InFlight(e, u)) \in Nat
      /\ Cardinality(Made(e, u)) + Cardinality(InFlight(e, u))
           <= Admissions(e, u)
  BY FS_CardinalityType DEF IInv, Counted
<1>3. /\ Admissions(e, u) \in Nat
      /\ Admissions(e, u) * TicksPerSecond
           <= 2 * (starts * TicksPerSecond + clock)
  <2>1. CASE <<e, u>> \in L!Key
    BY <2>1 DEF Admissions, IInv, LimiterInv, LimiterTypes, Within
  <2>2. CASE <<e, u>> \notin L!Key
    <3>1. Admissions(e, u) = 0
      BY <2>2 DEF Admissions
    <3>2. 0 * TicksPerSecond = 0 /\ starts * TicksPerSecond \in Nat
      BY <1>1, TicksAssumption
    <3>. QED
      BY <1>1, <3>1, <3>2
  <2>. QED
    BY <2>1, <2>2
<1>. DEFINE m == Cardinality(Made(e, u))
            f == Cardinality(InFlight(e, u))
            a == Admissions(e, u)
            w == starts * TicksPerSecond
<1>4. m * TicksPerSecond <= a * TicksPerSecond
  <2>1. m \in Int /\ a \in Int /\ m <= a
    <3>1. m \in Nat /\ f \in Nat /\ a \in Nat /\ m + f <= a
      BY <1>2, <1>3
    <3>. HIDE DEF m, f, a
    <3>. QED
      BY <3>1
  <2>. HIDE DEF m, f, a
  <2>. QED
    BY <2>1, ScaledOrder
<1>5. 2 * TicksPerSecond * starts = 2 * w /\ w \in Int
  BY <1>1, TicksAssumption
<1>6. /\ m * TicksPerSecond \in Int /\ a * TicksPerSecond \in Int
  BY <1>2, <1>3, TicksAssumption
<1>. DEFINE x == m * TicksPerSecond
            y == a * TicksPerSecond
<1>7. x \in Int /\ y \in Int /\ w \in Int /\ x <= y /\ y <= 2 * (w + clock)
  BY <1>3, <1>4, <1>5, <1>6
<1>. HIDE DEF x, y, w
<1>8. x <= 2 * w + 2 * clock
  BY <1>1, <1>7
<1>. QED
  BY <1>5, <1>8 DEF x

\* The goals, and the tasks, that a user has stored never exceed two for every
\* start of the process and two for every second.
THEOREM LimitHoldsInStores == Spec => []StoredWithinLimit
<1>1. Init => IInv
  BY IInvInitially
<1>2. IInv /\ [Next]_vars => IInv'
  BY IInvKept
<1>3. IInv => StoredWithinLimit
  BY CountedIsWithin
<1>. QED
  BY <1>1, <1>2, <1>3, PTL DEF Spec

----------------------------------------------------------------------------
\* Behind the limiters the handlers do what GoalTasks lets them do and nothing
\* else, restarts and refusals included: what is proved of GoalTasks for any
\* verdict holds for the limiter's.
THEOREM HandlersAsInGoalTasks == Spec => G!Spec
<1>1. Init => G!Init
  BY DEF Init
<1>2. [Next]_vars => [G!Next]_(G!vars)
  <2>. SUFFICES ASSUME [Next]_vars
                PROVE  G!Next \/ UNCHANGED handlers
    BY DEF G!vars, handlers
  <2>1. ASSUME NEW s \in Slot, Receive(s)
        PROVE  G!Next
    BY <2>1 DEF Receive, G!Next, G!Step
  <2>2. ASSUME NEW s \in Slot, Serve(s)
        PROVE  G!Next \/ UNCHANGED handlers
    BY <2>2 DEF Serve, RefuseBody, Check, Verdict, Work, G!Next
  <2>3. CASE Tick
    BY <2>3 DEF Tick
  <2>4. CASE Restart
    BY <2>4 DEF Restart, G!Next
  <2>5. CASE UNCHANGED vars
    BY <2>5 DEF vars
  <2>. QED
    BY <2>1, <2>2, <2>3, <2>4, <2>5 DEF Next
<1>. QED
  BY <1>1, <1>2, PTL DEF Spec, G!Spec
----------------------------------------------------------------------------
(* Who holds a mutex.                                                      *)

\* A mutex is held by a slot that was called with a key of its endpoint and
\* has not returned.  Inductive next to IInv, which has the types.
Held ==
  \A e \in Endpoint : holder[e] # L!NoThread =>
    check[holder[e]] = "holding" /\ asked[holder[e]][1] = e

LEMMA HeldInitially ==
  ASSUME Init
  PROVE  Held
BY DEF Init, L!Init, Held

\* A slot enters CheckRateLimit; the mutex it takes was free.
LEMMA CheckHeld ==
  ASSUME IInv, Held, NEW s \in Slot, Check(s)
  PROVE  Held'
<1>1. /\ holder \in [Endpoint -> Slot \cup {L!NoThread}]
      /\ check \in [Slot -> {"idle", "waiting", "holding"}]
      /\ asked \in [Slot -> L!Key]
  BY DEF IInv, LimiterInv, LimiterTypes
<1>2. \A e \in Endpoint : holder[e] # L!NoThread => holder[e] \in Slot
  BY <1>1
<1>3. check[s] # "holding"
  BY DEF Check, L!Call, L!Enter
<1>4. \A e \in Endpoint : holder[e] # s
  BY <1>3, SlotAssumption DEF Held
<1>5. \A t \in Slot \ {s} : check'[t] = check[t] /\ asked'[t] = asked[t]
  BY <1>1 DEF Check, L!Call, L!Enter
<1>6. CASE UNCHANGED holder
  BY <1>2, <1>4, <1>5, <1>6 DEF Held
<1>7. CASE L!Enter(s)
  <2>1. /\ holder' = [holder EXCEPT ![asked[s][1]] = s]
        /\ check'[s] = "holding" /\ asked' = asked
    BY <1>1, <1>7 DEF L!Enter
  <2>2. ASSUME NEW e \in Endpoint, holder'[e] # L!NoThread
        PROVE  check'[holder'[e]] = "holding" /\ asked'[holder'[e]][1] = e
    <3>1. CASE e = asked[s][1]
      <4>1. holder'[e] = s
        BY <1>1, <2>1, <3>1
      <4>. QED
        BY <2>1, <3>1, <4>1
    <3>2. CASE e # asked[s][1]
      <4>1. holder'[e] = holder[e]
        BY <1>1, <2>1, <3>2
      <4>. QED
        BY <1>2, <1>4, <1>5, <2>2, <4>1 DEF Held
    <3>. QED
      BY <3>1, <3>2
  <2>. QED
    BY <2>2 DEF Held
<1>. QED
  BY <1>6, <1>7 DEF Check, L!Call

\* A slot returns, and held no other mutex than the one it gives back.
LEMMA VerdictHeld ==
  ASSUME IInv, Held, NEW s \in Slot, Verdict(s)
  PROVE  Held'
<1>1. /\ holder \in [Endpoint -> Slot \cup {L!NoThread}]
      /\ check \in [Slot -> {"idle", "waiting", "holding"}]
  BY DEF IInv, LimiterInv, LimiterTypes
<1>2. /\ holder' = [holder EXCEPT ![asked[s][1]] = L!NoThread]
      /\ check' = [check EXCEPT ![s] = "idle"]
      /\ asked' = asked
  BY DEF Verdict, L!CheckRateLimit
<1>. SUFFICES ASSUME NEW e \in Endpoint, holder'[e] # L!NoThread
              PROVE  check'[holder'[e]] = "holding" /\ asked'[holder'[e]][1] = e
  BY DEF Held
<1>3. e # asked[s][1] /\ holder'[e] = holder[e]
  BY <1>1, <1>2
<1>4. check[holder[e]] = "holding" /\ asked[holder[e]][1] = e
  BY <1>3 DEF Held
<1>5. holder[e] \in Slot \ {s}
  BY <1>1, <1>3, <1>4
<1>. QED
  BY <1>1, <1>2, <1>3, <1>4, <1>5

LEMMA NextHeld ==
  ASSUME IInv, Held, [Next]_vars
  PROVE  Held'
<1>1. ASSUME UNCHANGED <<holder, check, asked>> PROVE Held'
  BY <1>1 DEF Held
<1>2. ASSUME NEW s \in Slot, Receive(s) \/ RefuseBody(s) \/ Work(s)
      PROVE  Held'
  BY <1>1, <1>2 DEF Receive, RefuseBody, Work, limiters
<1>3. CASE Tick \/ UNCHANGED vars
  BY <1>1, <1>3 DEF Tick, L!Tick, vars, limiters
<1>4. CASE Restart
  BY <1>4 DEF Restart, Held
<1>. QED
  BY <1>2, <1>3, <1>4, CheckHeld, VerdictHeld DEF Next, Serve

\* A mutex is held by a request that its own endpoint is checking and by
\* nobody else, for any number of requests, stalls of threads and restarts:
\* the safety half of RequestsAnswered.
THEOREM NoMutexLeftLocked == Spec => []MutexHeldInside
<1>1. IInv /\ Held => MutexHeldInside
  <2>. SUFFICES ASSUME IInv, Held, NEW e \in Endpoint, holder[e] # L!NoThread
                PROVE  \E s \in Slot :
                         /\ holder[e] = s /\ check[s] = "holding"
                         /\ pc[s] = "received" /\ req[s].op = e
    BY DEF MutexHeldInside
  <2>1. PICK s \in Slot : holder[e] = s
    BY DEF IInv, LimiterInv, LimiterTypes
  <2>2. check[s] = "holding" /\ asked[s][1] = e
    BY <2>1 DEF Held
  <2>3. pc[s] = "received" /\ asked[s] = KeyOf(req[s])
    BY <2>2 DEF IInv, RequestTypes
  <2>. QED
    BY <2>1, <2>2, <2>3 DEF KeyOf
<1>2. Init => IInv /\ Held
  BY IInvInitially, HeldInitially
<1>3. IInv /\ Held /\ [Next]_vars => (IInv /\ Held)'
  BY IInvKept, NextHeld
<1>. QED
  BY <1>1, <1>2, <1>3, PTL DEF Spec
----------------------------------------------------------------------------
(***************************************************************************)
(* What is proved of GoalTasks, for the handlers behind the limiters.  P   *)
(* has the theorems of GoalTasksProofs for the constants and variables of  *)
(* Service.  Its copies of the definitions of GoalTasks and those of G are *)
(* the same text, which the next lemmas unfold.                            *)
(***************************************************************************)
P == INSTANCE GoalTasksProofs

\* The assumptions under which GoalTasksProofs proves its theorems.
LEMMA AssumedOfGoalTasks ==
  /\ P!OidLenAssumption /\ P!Int64MaxAssumption /\ P!BoundAssumption
  /\ P!OidAssumption /\ P!ArgAssumption /\ P!RequestsAssumption
<1>1. P!OidLenAssumption /\ P!Int64MaxAssumption /\ P!BoundAssumption
  BY GoalTasksAssumption
  DEF P!OidLenAssumption, P!Int64MaxAssumption, P!BoundAssumption
<1>2. P!OidAssumption
  BY GoalTasksAssumption
  DEF P!OidAssumption, P!Char, G!Char, P!IsOid, G!IsOid, P!Hex, G!Hex
<1>3. P!ArgAssumption
  BY GoalTasksAssumption DEF P!ArgAssumption, P!Char, G!Char
<1>4. P!RequestsAssumption
  BY GoalTasksAssumption
  DEF P!RequestsAssumption, P!Request, G!Request, P!Body, G!Body,
      P!StatusArg, G!StatusArg, P!Status, G!Status
<1>. QED
  BY <1>1, <1>2, <1>3, <1>4

LEMMA SameNext == [G!Next]_(G!vars) => [P!Next]_(P!vars)
<1>1. ASSUME G!Next PROVE P!Next
  BY <1>1, Zenon
  DEF P!stored, G!stored, P!client, G!client, P!vars, G!vars, P!Status,
      G!Status, P!NoRequest, G!NoRequest, P!NoAnswer, G!NoAnswer, P!Nothing,
      G!Nothing, P!GetById, G!GetById, P!NewestFirst, G!NewestFirst,
      P!GetByUser, G!GetByUser, P!GetByGoal, G!GetByGoal, P!UpdateStatus,
      G!UpdateStatus, P!Receive, G!Receive, P!At, G!At, P!Goto, G!Goto,
      P!Reply, G!Reply, P!Refuse, G!Refuse, P!Fault, G!Fault,
      P!TooManyRequests, G!TooManyRequests, P!GoalsCreate, G!GoalsCreate,
      P!CreateGoal, G!CreateGoal, P!GoalsList, G!GoalsList, P!GoalsListFind,
      G!GoalsListFind, P!TasksCreate, G!TasksCreate, P!TasksList,
      G!TasksList, P!OwnGoal, G!OwnGoal, P!TasksCreateFindGoal,
      G!TasksCreateFindGoal, P!TasksListFindGoal, G!TasksListFindGoal,
      P!NewTask, G!NewTask, P!Inserted, G!Inserted, P!CreateTask,
      G!CreateTask, P!TasksListSelect, G!TasksListSelect, P!TasksUpdate,
      G!TasksUpdate, P!TasksUpdateFindGoal, G!TasksUpdateFindGoal,
      P!TasksUpdateWrite, G!TasksUpdateWrite, P!DbFails, G!DbFails,
      P!Created, G!Created, P!Deliver, G!Deliver, P!Restart, G!Restart,
      P!Step, G!Step, P!Next, G!Next, P!Digit, G!Digit, P!Hex, G!Hex,
      P!IsOid, G!IsOid, P!DigitRun, G!DigitRun, P!Numeral, G!Numeral,
      P!Stoll, G!Stoll, P!ParseInt, G!ParseInt, P!OidValue, G!OidValue,
      P!Cardinality, G!Cardinality, P!IsFiniteSet, G!IsFiniteSet
<1>. QED
  BY <1>1 DEF G!vars, P!vars

\* The handlers behind the limiters do what those theorems are about.
LEMMA SameSpec == Spec => P!Spec
<1>1. G!Init => P!Init
  BY DEF G!Init, P!Init, G!NoRequest, P!NoRequest, G!NoAnswer, P!NoAnswer,
         G!Nothing, P!Nothing
<1>. QED
  BY <1>1, SameNext, HandlersAsInGoalTasks, PTL DEF G!Spec, P!Spec

\* The stored goals and tasks, and every answer, are right behind the limiters,
\* too: the invariants that MCGoalTasks checks hold of the whole service.
THEOREM HandlersRight ==
  Spec => []( /\ G!TypeOK /\ G!TaskOwnership /\ G!AckedTasksKept
              /\ G!GoalsListed /\ G!AckedTasksListed /\ G!GoalAccess)
<1>1. P!TypeOK => G!TypeOK
  BY DEF P!TypeOK, G!TypeOK, P!Row, G!Row, P!Status, G!Status, P!Label,
      G!Label, P!NoRequest, G!NoRequest, P!Answer, G!Answer, P!Acks, G!Acks,
      P!TaskAck, G!TaskAck
<1>2. P!TaskOwnership /\ P!AckedTasksKept => G!TaskOwnership /\ G!AckedTasksKept
  BY DEF P!TaskOwnership, G!TaskOwnership, P!AckedTasksKept, G!AckedTasksKept,
         P!Stoll, G!Stoll, P!DigitRun, G!DigitRun, P!Digit, G!Digit,
         P!Numeral, G!Numeral
<1>3. P!GoalsListed => G!GoalsListed
  BY DEF P!GoalsListed, G!GoalsListed, P!Answered, G!Answered,
         P!OidValue, G!OidValue, P!Numeral, G!Numeral
<1>4. P!AckedTasksListed /\ P!GoalAccess => G!AckedTasksListed /\ G!GoalAccess
  BY DEF P!AckedTasksListed, G!AckedTasksListed, P!GoalAccess, G!GoalAccess,
         P!Answered, G!Answered, P!Stoll, G!Stoll, P!DigitRun, G!DigitRun,
         P!Digit, G!Digit, P!Numeral, G!Numeral
<1>5. P!Spec => [](P!TypeOK /\ P!TaskOwnership /\ P!AckedTasksKept)
  BY AssumedOfGoalTasks, P!TypeCorrect, P!OwnershipHolds, P!AckedTasksHold, PTL
  DEF P!TypeCorrect, P!OwnershipHolds, P!AckedTasksHold
<1>6. P!Spec => [](P!GoalsListed /\ P!AckedTasksListed /\ P!GoalAccess)
  BY AssumedOfGoalTasks, P!ListedGoalsTrue, P!ListedTasksComplete,
     P!GoalsForOwners, PTL
  DEF P!ListedGoalsTrue, P!ListedTasksComplete, P!GoalsForOwners
<1>. QED
  BY <1>1, <1>2, <1>3, <1>4, <1>5, <1>6, SameSpec, PTL

\* The service as a whole, limiters, restarts and all, implements TaskBoard.
THEOREM ServiceKeepsBoard == Spec => G!KeepsBoard
<1>1. P!Spec => P!KeepsBoard
  BY AssumedOfGoalTasks, P!HandlersKeepBoard, PTL DEF P!HandlersKeepBoard
<1>2. P!Board!Init => G!Board!Init
  BY DEF P!Board!Init, G!Board!Init, P!Promised, G!Promised
<1>3. [P!Board!Next]_(P!Board!vars) => [G!Board!Next]_(G!Board!vars)
  BY DEF P!Board!Next, G!Board!Next, P!Board!AddGoal, G!Board!AddGoal,
         P!Board!AddTask, G!Board!AddTask, P!Board!SetStatus,
         G!Board!SetStatus, P!Board!Tell, G!Board!Tell, P!Board!vars,
         G!Board!vars, P!Status, G!Status, P!Promised, G!Promised
<1>4. P!KeepsBoard => G!KeepsBoard
  BY <1>2, <1>3, PTL
  DEF P!KeepsBoard, G!KeepsBoard, P!Board!Spec, G!Board!Spec
<1>. QED
  BY <1>1, <1>4, SameSpec, PTL
=============================================================================
