------------------------------ MODULE Service -------------------------------
(***************************************************************************)
(* The handlers under /api/goals together with the limiters in front of    *)
(* them.  GoalTasks leaves the verdict of CheckRateLimit open; here it is  *)
(* the one of RateLimiter, called by the task that serves the request,     *)
(* which no database call suspends while it is in there.  The limiters     *)
(* live in the memory of the process: a restart empties them, while the    *)
(* databases keep what they have and steady_clock goes on.                 *)
(***************************************************************************)
EXTENDS Integers, Sequences, FiniteSets

CONSTANTS
  OidLen, Int64Max, User, Slot, Oid, GoalArg, TaskArg, Requests, PgGoals,
  MaxTasks,                                       \* see GoalTasks
  TicksPerSecond, MaxStall, MaxTime, MaxChecks,   \* see RateLimiter
  MaxStarts   \* bound: starts of the process

VARIABLES
  goals, tasks, tasks_id_seq, pc, req, answer, acked, known,  \* GoalTasks
  clock, rate_limits, holder, check, asked, now,                \* RateLimiter
  admitted, refused,
  starts   \* history: how often the process was started

stored   == <<goals, tasks, tasks_id_seq>>
handlers == <<goals, tasks, tasks_id_seq, pc, req, answer, acked, known>>
limiters == <<clock, rate_limits, holder, check, asked, now, admitted, refused>>
vars     == <<handlers, limiters, starts>>

\* Every handler that is called keeps a rate_limits map of its own.
Endpoint == {r.op : r \in Requests}

G == INSTANCE GoalTasks
L == INSTANCE RateLimiter WITH Thread <- Slot, pc <- check, call <- asked

ASSUME SlotAssumption     == L!NoThread \notin Slot
ASSUME TicksAssumption    == TicksPerSecond \in Nat \ {0}
ASSUME RequestsAssumption == \A r \in Requests : r.user \in User

\* What GoalTasks assumes of its constants.
ASSUME GoalTasksAssumption ==
  /\ OidLen \in Nat \ {0} /\ Int64Max \in Nat /\ MaxTasks \in Nat
  /\ \A o \in Oid : o \in Seq(G!Char) /\ G!IsOid(o)
  /\ GoalArg \subseteq Seq(G!Char) /\ TaskArg \subseteq Seq(G!Char)
  /\ Requests \subseteq G!Request

----------------------------------------------------------------------------
Init == G!Init /\ L!Init /\ starts = 1

KeyOf(r) == <<r.op, r.user>>

\* The two handlers that create look at the body first, and refuse one that
\* does not do without asking the limiter.
PassesBody(r) == "body" \in DOMAIN r => r.body = "valid"

\* Requests that may still be checked under key k.
Unchecked(k) == {s \in Slot : pc[s] = "received" /\ KeyOf(req[s]) = k}

\* A request comes in, while another check of its key is within the bound.
Receive(s) ==
  /\ G!Receive(s)
  /\ LET k == KeyOf(req'[s])
     IN  Len(admitted[k]) + Len(refused[k]) + Cardinality(Unchecked(k))
           < MaxChecks
  /\ UNCHANGED <<limiters, starts>>

RefuseBody(s) ==
  /\ pc[s] = "received" /\ ~PassesBody(req[s])
  /\ G!Step(s)
  /\ UNCHANGED <<limiters, starts>>

\* The handler calls CheckRateLimit, and waits for the mutex.
Check(s) ==
  /\ pc[s] = "received" /\ PassesBody(req[s])
  /\ L!Call(s, KeyOf(req[s])) \/ L!Enter(s)
  /\ UNCHANGED <<handlers, starts>>

NoVerdict(s) ==   \* a mutant: the verdict is not looked at
  /\ pc[s] = "received" /\ PassesBody(req[s])
  /\ L!CheckRateLimit(s)
  /\ G!Step(s)
  /\ UNCHANGED starts

\* The verdict is there: 429 if it is no, and what the handler does next if it
\* is yes.
Verdict(s) ==
  /\ pc[s] = "received" /\ PassesBody(req[s])
  /\ L!CheckRateLimit(s)
  /\ G!Step(s)
  /\ (answer'[s].code = 429) = (refused' # refused)
  /\ UNCHANGED starts

\* The handler's steps after that, and the client that reads the answer.
Work(s) ==
  /\ pc[s] \notin {"idle", "received"}
  /\ G!Step(s)
  /\ UNCHANGED <<limiters, starts>>

Tick == L!Tick /\ UNCHANGED <<handlers, starts>>

\* The process ends and is started again, whatever it is doing.
Restart ==
  /\ starts < MaxStarts
  /\ starts' = starts + 1
  /\ \/ G!Restart
     \/ (\A s \in Slot : pc[s] = "idle") /\ UNCHANGED handlers
  /\ rate_limits' = [k \in {} |-> 0]
  /\ holder' = [e \in Endpoint |-> L!NoThread]
  /\ check' = [s \in Slot |-> "idle"]
  /\ UNCHANGED <<clock, asked, now, admitted, refused>>

Serve(s) == RefuseBody(s) \/ Check(s) \/ Verdict(s) \/ Work(s)

Next ==
  \/ \E s \in Slot : Receive(s) \/ Serve(s)
  \/ Tick
  \/ Restart

\* The worker threads run every task that can run.  A call to a database ends,
\* if only by its timeout: DbFails is part of Work.  Nothing is asked of the
\* clients, of the clock or of restarts.
Fairness == \A s \in Slot : WF_vars(Serve(s))

Spec == Init /\ [][Next]_vars /\ Fairness

----------------------------------------------------------------------------
(* Properties.                                                             *)

Made(e, u) ==
  IF e = "goals_create" THEN {o \in DOMAIN goals : goals[o] = u}
                        ELSE {i \in DOMAIN tasks : tasks[i].by = u}

\* What the limit is for: the goals, and the tasks, that a user has stored in
\* the databases are at most two for every start of the process and two for
\* every second, however requests and threads interleave.
StoredWithinLimit ==
  \A e \in {"goals_create", "tasks_create"}, u \in User :
    Cardinality(Made(e, u)) * TicksPerSecond
      <= L!max_tokens * TicksPerSecond * starts + L!refill_rate * clock

\* A mutex is only ever held by a request that its own endpoint is checking:
\* never by one that was answered, by one elsewhere, or from before a restart.
\* So whoever waits for it waits for a request that can go on.
MutexHeldInside ==
  \A e \in Endpoint : holder[e] # L!NoThread =>
    \E s \in Slot :
      /\ holder[e] = s /\ check[s] = "holding"
      /\ pc[s] = "received" /\ req[s].op = e

\* Every request that the process takes is answered, or lost in a restart: no
\* mutex is kept and no handler waits for ever.  (For ever new requests to the
\* same endpoint this would ask std::mutex to be fair; MaxChecks bounds them.)
RequestsAnswered ==
  \A s \in Slot : pc[s] = "received" ~> pc[s] \in {"answered", "idle"}
=============================================================================
