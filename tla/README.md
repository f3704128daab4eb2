# leadertask-userver in TLA+

LeaderTask is a small task-planning service written in C++ on the userver
framework: users sign up and log in, keep goals, and keep tasks under goals.
Accounts and tasks are rows in PostgreSQL, goals are documents in MongoDB.
This directory holds TLA+ modules of the service, the TLC configurations that
check them, and TLAPS proofs.  `PROJECT.json` maps every definition to the lines
it models.

Paths below are relative to the repository (`src/` is its C++ source directory).

## 1. The system

| Component | State it keeps | Operations | Depends on |
|---|---|---|---|
| Rate limiter, six copies (`src/views/{goals/create,goals/list,tasks/create,tasks/list,tasks/update,users/search}.cpp`) | one map `rate_limits` of token buckets and one mutex per endpoint | `CheckRateLimit` | called first by the handler in whose file it is |
| Goal handlers (`src/views/goals/*.cpp`) | none | `POST /api/goals`, `GET /api/goals` | limiter, GoalsRepository |
| Task handlers (`src/views/tasks/*.cpp`) | none | `POST` and `GET /api/goals/{goalId}/tasks`, `PUT .../{taskId}/status` | limiter, GoalsRepository, TasksRepository |
| GoalsRepository | MongoDB collection of goals | `CreateGoal`, `GetById`, `GetByUser` | bson::Oid |
| TasksRepository | PostgreSQL table `tasks`, its sequence, the foreign key to `goals(id)` | `CreateTask`, `GetByGoal`, `UpdateStatus`, `GetById` (no caller) | |
| User handlers (`src/views/users/*.cpp`) | none | sign-up, log-in, search | UsersRepository; search: limiter, JwtChecker |
| UsersRepository | PostgreSQL table `users`, UNIQUE login | `CreateUser`, `GetByLoginWithPassword`, `Search`; `GetById`, `UserExists` (no caller) | |
| JwtChecker (`src/auth/`) | the secret, set at start | `CheckAuth`; puts the user id into the request's context | runs before every handler with `auth` |
| In-memory storages (`src/*_storage.hpp`) | two maps of tasks, two of users, one of goals, each storage under a mutex | create, get, update, search | included by `main.cpp`, called by nobody |
| Hello handler, greeting | none | formats a text | JwtChecker |
| Wiring (`main.cpp`, `static_config.yaml`, `*_component.hpp`, `db_client.hpp`, auth factory) | components, built at start and destroyed at the end | constructors, `Get` | find each other by name |

A request goes through JwtChecker, the handler's checks, the limiter of its own
endpoint and one or two databases.  `configs/static_config.yaml` gives the main
task processor four worker threads, so requests run concurrently.  They share
the limiter's maps and the databases and nothing else.

What is hard here, and what makes each part correct:

* **Limiter**: threads interleave around the mutex and two readings of the
  clock; time is truncated to seconds.  Correct means: no window of time lets
  through more than the bucket and its refill, the bucket's time never goes
  back, tokens do not become negative, and a client that stays below the limit
  is served.
* **Goals and tasks**: a goal is checked in one database and the task written
  to the other; `goalId` is a hexadecimal object id for the one and a decimal
  integer for the other; calls fail, replies are lost, the process restarts.
  Correct means: tasks belong to a goal of their maker, what a client was told
  of stays and is listed, and only its owner creates and lists tasks under a
  goal.  (The code does not keep the tasks of two goals apart when their ids
  begin with the same number, and asks for no owner in an update: section 5.)
* **Accounts**: sign-ups race on a unique login; failures are caught with
  everything else; the token's subject is text.  Correct means: one account per
  login, an account a client was told of works and is found, a token names the
  user who logged in, and only the service's own tokens pass.
* **Storages**: a record has two copies, an id is read and then written, under
  one mutex.  Correct means: a call takes effect at one moment, as on one
  table.  Nobody calls them in this program, so these interleavings are not
  among its hazards; the classes are modelled because the headers are part of it.
* **Start and end**: constructors run concurrently and wait for each other by
  name; handlers keep bare references.  Correct means: the start ends, and no
  reference outlives what it refers to.
* **All together**: the limiter is emptied by a restart and the databases are
  not; a verdict is acted on long after the mutex is given back.  Correct means:
  what a user has stored stays within the limit, and every request is answered.

`PROJECT.json` lists these hazards by line.

## 2. The modules

| Module | Models | Checked by |
|---|---|---|
| `RateLimiter` | `struct TokenBucket` and `CheckRateLimit` of all endpoints, threads, clock | `MCRateLimiter` |
| `RateLimiterProofs` | theorems about it | tlapm |
| `Ids` | `bson::Oid`, `std::stoll`, `ParseInt`, `std::to_string` | `MCIds` |
| `IdsProofs` | lemmas about it, and the induction they need | tlapm |
| `MCIdsProofs` | theorems about the strings of `MCIds` | tlapm |
| `TaskBoard` | the board the API promises: goals, tasks, what was told (abstract) | as `KeepsBoard` of `GoalTasks` |
| `GoalTasks` | five handlers, two repositories, both stores, clients (extends `Ids`) | `MCGoalTasks` |
| `GoalTasksProofs` | theorems about it, and that it implements `TaskBoard` | tlapm |
| `AccountBook` | the accounts the API promises: entered once, told of, logged in to (abstract) | as `KeepsBook` of `UserAccounts` |
| `UserAccounts` | three handlers, repository, JwtChecker, table, clients (extends `Ids`) | `MCUserAccounts` |
| `UserAccountsProofs` | theorems about it, and that it implements `AccountBook` | tlapm |
| `Service` | `GoalTasks` behind `RateLimiter`, restarts of the process | `MCService` |
| `ServiceProofs` | theorems about it, and that it implements `GoalTasks` and, with it, `TaskBoard` | tlapm |
| `AtomicStore` | one table, calls that take effect at one moment (abstract) | as `...Atomic` of the storages |
| `StorageCalls` | threads, mutex and returns, shared by the three storages | `MCStorages` |
| `TasksStorage`, `UsersStorage`, `GoalsStorage` | the classes of those names | `MCStorages` |
| `StoragesProofs` | that they implement `AtomicStore` | tlapm |
| `Startup` | the components that `main` registers, from start to end | itself |
| `StartupProofs` | theorems about it | tlapm |

**RateLimiter.**  `rate_limits` is the map of every endpoint, keyed by (endpoint,
user); `holder` is the mutex.  A check is three actions: `Call`, `Enter` (the
lock is taken and `now` read), `CheckRateLimit` (the bucket is found or made,
refilled, stamped and drawn from; the lock is released).  `Tick` moves
`steady_clock` between them.  `admitted` and `refused` are histories.
`WholeSeconds` truncates towards zero as `duration_cast` does, also for
negative spans: a new bucket reads the clock after `now`, so such spans exist.
Two bounds are not in the code: `MaxTime` and `MaxChecks`; the proofs
use neither.  `MaxStall`, how long a thread can be off the processor while it
holds the mutex, is the one assumption about the environment; only the two
properties that say so depend on it.

**Ids.**  A string is a sequence of character classes.  `Stoll` is defined on the
whole string (longest decimal prefix, overflow against `Int64Max`).  `OidValue` is
the order of object ids, by which the list of goals is sorted (`NewestFirst`).

**GoalTasks.**  `goals` and `tasks` are the two stores, `tasks_id_seq` the
sequence, which also moves when an insert is refused.  A request occupies a
slot.  Its handler is cut at each database call and nowhere else: between
two calls it touches only its own locals.  A database step either answers,
or takes effect and loses its reply (`Fault`), or fails without effect
(`DbFails`); `Restart` drops every request in flight.  `OwnGoal` is the check of
existence and owner that create and list share.  `acked` collects what delivered
answers told clients, and `known[s]` is what was told before the request in slot
s was sent; the properties about listings are stated with them, so an answer
that was lost promises nothing.  `tasks[i].goal` and `.by` are not columns but
record the request that made the row.  The tasks `data.sql` seeds are left out.
Of the goals it seeds only the ids matter (`PgGoals`), because
no code writes that table.

The schema of a new goal asks for a title of three characters, so the handler's
own test for an empty one (400) is never reached and the parse error becomes
500; the schema of a task has no such bound, and there the test is met.

**TaskBoard** has no requests, no databases and no faults: goals have one owner
for good, a task is added through a goal by the goal's owner, only its status
ever changes, nothing goes away, and clients are told of what is there.
`GoalTasks!Board` maps the two stores and `acked` to it (`Promised` drops the
column `goal_id` for the goal that was asked for), and `KeepsBoard` is its
specification.

**UserAccounts.**  Same shape as `GoalTasks`.  A token is the record of what the
verifier finds (`Form`: decodable, algorithm, signature, times; issuer, subject).
`CheckAuth` gives the status: 401 from the explicit returns and from
`token_verification_exception` (another algorithm, expired, another issuer), 403
from every other exception (a wrong signature, a text that cannot be decoded, no
subject).  Sign-up and
log-in catch everything and answer 400; an exception of the search becomes 500.
`user_id[s]` is what the request's context holds.  The users `data.sql` seeds
and the checks of userver itself (malformed JSON) are left out.  `BoundAssumption`
keeps the ids below `Int64Max`: `users.id` is a BIGSERIAL.

**AccountBook** has three steps: an account is entered under an id and a login
that nobody has, a client is told of an account that is there, or let in as the
one whose login and password it gave.  `UserAccounts!Book` maps the table and `told` to it;
a token is mapped (`NamedBy`) to the id that `std::stoll` reads from its
subject, so a subject that is written wrongly is a step the book does not have.

**Service** instantiates `GoalTasks` (`G`) and `RateLimiter` (`L`, whose threads
are the slots).  A request that is received has its body checked in the two
handlers that create (`RefuseBody`), then takes `L!Call`, `L!Enter` and
`L!CheckRateLimit`; `Verdict` is that last step together with the handler's next
one, which must be 429 exactly if the limiter refused.  `GoalTasks` alone leaves
the verdict open, so all its properties hold in the composition, too.
`Restart` empties the limiters and drops the requests in flight; the databases,
`steady_clock` and the histories go on.

**The storages.**  A member function is `Invoke`, `Lock`, its steps under the
mutex, and `Return`.  A function that writes two maps (or reads and then writes
`next_id_`) is cut between the two, so a caller that got in would see one
written.  An `optional` is a set of at most one element; the vector of
`GetByGoal` is compared as a set, and its order is part of `TaskCopiesAgree`.
`AtomicStore` is instantiated with the effect of every call on one table
(tasks by id, users by login, goals by id).  Under the mapping a call
takes effect at its first write, or at its end if it writes nothing.

**Startup.**  `Registered`, `Finds`, `Keeps` and `Authorized` are the code:
`main.cpp`, the constructors, the members that are references, and the `auth`
entries of `static_config.yaml`.  The rest is what the framework does with them:
it constructs all components at once, `FindComponent` waits, an exception
cancels the start, and a component is destroyed after those that found it.

## 3. The runs

| Run | Instance | What it shows |
|---|---|---|
| `limiter` | 1 endpoint, 1 user, 2 threads, stalls below a second | `WindowBound`, `NeverOverdrawn`, `RefillTimeMonotone`, `RefusedOnlyWithinASecond` |
| `limiter_doc` | 1 thread | *violated*: `RefusedOnlyAboveTwoPerSecond` |
| `ids` | all strings up to 4 characters; object ids of 3 digits, `Int64Max` = 92 | `OidNeverInteger`, `SubjectReadsBack` |
| `goals_tasks` | 2 slots, 2 users, a goal that takes tasks and one (`G0`) that the foreign key refuses and an update accepts, 2 tasks, faults, restarts | `TaskOwnership`, `AckedTasksKept`, `AckedTasksListed`, and `KeepsBoard`: the refinement of `TaskBoard` |
| `goals_tasks_inputs` | 1 slot, 2 users, 3 goals, two with one decimal prefix and `G0`, every input | `GoalsListed`, `GoalAccess`, `StatusNeedsIntegerGoal` |
| `create_doc`, `list_doc`, `update_doc` | 1 slot | *violated*: see section 5 |
| `accounts` | 2 slots, 2 logins, 2 passwords, 2 ids, every kind of header | `UniqueLogins`, what follows from having been told of an account or given a token, `OnlySignedTokensPass`, and `KeepsBook`: the refinement of `AccountBook` |
| `storages` | 2 threads; 2 goals and 2 tasks; 2 logins and 2 users; 2 owners and 2 goals | `TasksAtomic`, `UsersAtomic`, `GoalsAtomic` (the refinements of `AtomicStore`), `TaskCopiesAgree`, `UserCopiesAgree` |
| `startup` | 5 handlers, one of each way to be wired; `postgres`, `mongo` and `jwt-auth-checker` may throw | `NoDangling`, `StartNotStuck`, `StartEnds` |
| `service` | 1 user, 2 slots, `POST /api/goals`, 5 object ids, 5 checks, 1 second, 1 restart | `StoredWithinLimit`, `MutexHeldInside`, `RequestsAnswered` |

Bounds.  Two ticks to the second tell a whole second from a part of one; five
ticks and six checks let a bucket be emptied, be starved by requests half a
second apart and refill.  `Int64Max` has fewer digits than an object id has, as in the code 19 and 24, so decimal ids that overflow exist; `ScaleAssumption` states it: a 1 and
`OidLen - 1` zeros (`LeastLong`) do not fit.  Two requests at a time
give every overlap of two handlers' steps, and a third request changes nothing
for a property about one row or one answer.  Two users, or logins, are the owner
and somebody else.  `MaxTasks` = 2 lets an id be wasted by a
refused insert and the next one used.  Symmetry is over users, slots,
logins and passwords, in `goals_tasks`, `goals_tasks_inputs` and `accounts`, which
have no liveness property; nothing orders or compares these values but for
equality.  `KeepsBoard`, `KeepsBook` and `StatusNeedsIntegerGoal` are safety
properties (an initial predicate, box actions) and symmetric in them as well.

Object ids made today begin with `6`.  The goal `G0`, whose id begins with zeros,
is one that a clock near 1970 would make; only such an id lets an update pass
both checks on `goalId`, and with it the last step of the update handler is
checked, too.  In `goals_tasks` the number that `G0` begins with is no row of
the PostgreSQL table, so a create under `G0` is refused after its id was
taken from the sequence, while the other slot inserts, lists or updates.  In
`goals_tasks_inputs` there is such a row; one request at a time is enough there, as its
properties are about what is said of a goal and of its list, and other
requests come before and after.

`MCStorages` runs one storage at a time, as they share nothing.  Two threads
overlap any two calls, and two records tell the one asked for from another;
names are one string, a longer one that has it as a part, and a search by either.  The proofs lift these bounds.

The five handlers of `startup` have every combination of what they find that
exists: users alone, users with the JWT check, the check alone, both goals and
users, both goals and tasks.  The other four repeat two of these.

In `service` one user's two requests race for one bucket.  Whole seconds are
enough here; `limiter` has the parts.  Five checks and five object ids
let one goal too many be stored after a restart (two buckets are four tokens) and
also after a second has passed (a bucket and its refill), and the code's limit
is reached in both.  `MaxStarts` = 2 is one restart at any moment.  The run's
`VIEW` is the state without the two histories of `GoalTasks`, `acked` and `known`:
no guard reads them and no property of the run does, so states that differ in
them alone behave alike.  Other users and endpoints have other buckets, which
`limiter` and the proofs cover.

Deadlock is checked in every run but two.  `Quiet` and `Done` mark the states in
which nothing has to happen.  The process of `Startup` ends, and `service` runs
out of requests, so those two really stop.

Fairness is assumed in two places.  In `Startup`, of every component's
constructor and destructor and of the end of the start: the framework runs a
task that can run.  Clients and the signal to stop come or do not, and no handler
is asked to finish.  In `Service`, of every slot that has a request (`Serve`): the
worker threads run every task that can run, a call to a database ends, if
only by its timeout (`DbFails`), and the thread inside `CheckRateLimit` goes on.
Clients, clock and restarts are not fair.  Weak fairness is enough for the mutex
as the requests are bounded (`MaxChecks`); `std::mutex` promises nothing
to a thread that others overtake for ever.

## 4. The proofs

TLAPS proves the following for every value of the constants.

`RateLimiterProofs`:
`TypeCorrect` (`[]TypeOK`), `LimitHolds` (`[]WindowBound`),
`RefillTimeNeverBack` (`RefillTimeMonotone`), from the constants' assumptions
alone; `Overdraft` (`[]NeverOverdrawn`) and `SilentSecondSuffices`
(`RefusedOnlyWithinASecond`) when `MaxStall < TicksPerSecond`.

`WindowBound` is not inductive: it says nothing of the bucket, so a step from a
state with a full bucket and a history just full would break it.  `IInv` adds
three parts.  *Locked*: the thread that is between its clock reading and its
release holds the mutex of its endpoint.  *Stamped*: a bucket's `last_refill` is
after neither the clock nor the `now` of the thread about to stamp it, and nobody
was admitted without a bucket.  *Budget*: for every admission i of a bucket's
history, the admissions since i plus the tokens left are paid for by a full
bucket and the time from i to `last_refill`.  A draw turns
Budget into WindowBound for the new admission.  Truncating to seconds only
loses time, which is the one arithmetic fact the refill needs
(`WholeSecondsBound`).  For the other two theorems the span between a new
bucket's time and `now` is less than a second, truncates to zero (also when
negative), and the bucket stays between 0 and 2.

`GoalTasksProofs`:
`OwnershipHolds` (`[]TaskOwnership`), `AckedTasksHold` (`[]AckedTasksKept`),
`UpdateNeedsIntegerGoal` (`StatusNeedsIntegerGoal`), `StatusNeverSet`,
`ListedGoalsTrue` (`[]GoalsListed`), `ListedTasksComplete` (`[]AckedTasksListed`),
`GoalsForOwners` (`[]GoalAccess`) and `TypeCorrect` (`[]TypeOK`).
`GoalsForOwners` is about the access check of create and list, and about the list it
guards: the tasks in it are the caller's own or were made through another goal
whose id begins with the same number.  That these may be somebody else's is what
the run `list_doc` finds; the theorem does not deny it.
`StatusNeverSet` draws the conclusion with `OidOverflows` of `IdsProofs`: while
object ids start with another digit than 0 and `Int64Max` has fewer digits than
they have, its two hypotheses, no request ever changes a task.

The strengthening says of a request between its two databases (*Pending*) that
the goal it looked up still exists and is its caller's, since goals are never
removed nor change hands; of an answer not yet read (*Given*) that the rows it
tells of are there; and of the tasks (*Shape*) that the sequence is past every
id in use, so an insert never overwrites.

The theorems about answers need to know more: what the client was told of when
it asked (*KnownTrue*), and why the answer is what it is.  *Honest* says, of
every slot, that what its client was told of is still so, that a request on its
way to a list has the right to it (*Asks*), and that an answer already there is true (*True*): a list of goals has
all of `known[s]` that are the caller's, a list of tasks all of `known[s]` that
were made through its goal and none whose goal's id begins with another
number (*TasksOf*), and a 404 was not said of a goal the caller owned
and knew.  All of it outlives the steps of others, because goals and rows stay
and a row keeps its goal.  That the list of goals is what `NewestFirst` chooses needs that a sorted list exists,
for any finite set of object ids: by induction on its size, and because no two
ids have the same value (`OidValueInjective`, `SortExists`).

The refinement, `HandlersKeepBoard` (`Spec => KeepsBoard`), rests on the same
invariant.  An insert maps to `AddGoal` or `AddTask` (*Pending* gives the goal and
its owner, *Shape* that the id is new), a delivered answer to `Tell` (*Given*), an update
to `SetStatus` or, if it finds no row, to a stutter; all other steps are stutters.

`UserAccountsProofs`: `LoginsUnique`, `ToldAccountsStay`, `ToldAccountsWork`,
`SearchFindsTold`, `SignedTokensPass`, `TypeCorrect` and `TokensNameUsers`
(`[]TokensNameTheirUser`), for any number of requests, logins,
headers and faults.  The strengthening adds to what clients were told what they
are about to be told: an answer that gives an account, or was composed while
`known[s]` already held one, is consistent with the rows.  `ToldAccountsLogIn`
speaks of an answer, so the invariant must know why a log-in was refused: no
row had that login and password, at a moment after `known[s]` was
fixed, and rows never change.  The JWT part ties `user_id[s]` to the header for as
long as the request runs.  The second invariant, `TInv`, has the types, and of
every token, given or about to be, that it was made for a row with that login
and password (*Names*); `DecimalStoll` then says that the id comes back from the
subject, as all ids fit into `std::int64_t`.

`HandlersKeepBook` (`Spec => KeepsBook`) rests on both invariants.  The insert of
a sign-up maps to `SignUp`, also when its reply is lost (the sequence is past every id, and the constraint
kept the login free); every other step at the database changes nothing the book
sees.  A delivered answer maps to `Tell` or `LogIn`: what an answer gives away is
true of the rows (`IInv`), and as one login has one row it is a single entry, not
several at once (`GivenIsOneEntry`).  That the id of a token is this row's is *Names*
and `DecimalStoll` again (`NamedById`).

`IdsProofs` and `MCIdsProofs`: `OidsAreNotIntegers` and `SubjectsReadBack`, the two
properties of the run `ids` for strings of any length.  The recursive functions of `Ids` compute by induction; the library's
induction theorems take an operator for the property, which the provers
cannot instantiate, so `IdsProofs` proves induction for a *set* of numbers, from the
least element of the numbers outside it (`LeastElement`, from the
well-foundedness of < on Nat), and every lemma names its set.  From there:
what one more character adds to a numeral (`NumeralStep`), that equal numerals of one length
have equal digits (`NumeralInjective`), that the decimal
prefix exists and is unique (`DigitRunIs`), and that `Decimal` writes digits whose
numeral is the number (`DecimalReadsBack`).

`ServiceProofs`: `LimitHoldsInStores` (`[]StoredWithinLimit`), for any
number of users, slots, requests and restarts, and any stalls, from `TicksAssumption`,
`SlotAssumption` (no slot is the mark of a free mutex) and `RequestsAssumption`
(every request has one of the users).  What is stored says nothing of who is
about to store, so the invariant has two halves.  The limiters': *Credit*
(what a bucket let through and still holds is paid for by a full bucket per start
and the time up to `last_refill`), *Fresh* (without a bucket since the last
start, one full bucket is not spent yet: that is why a restart, which empties
the map, costs one bucket and no more) and *Within*, which follows at every draw.
The handlers': *Counted*, everything a user has stored plus his requests that
were let through and may still store (`InFlight`) are at most the admissions of
his key.  A verdict adds one to both sides; an insert moves one from in flight
to stored, also when its reply is lost; a fault or a restart only takes away.

`NoMutexLeftLocked` (`[]MutexHeldInside`) is the safety half of `RequestsAnswered`.
*Held* says that a mutex is held by a slot that was called with a key of its
endpoint and has not returned; the types of `LimitHoldsInStores`' invariant say
that the request in such a slot is still the one it was called for.  Answers and
faults come after the return, and a restart frees every mutex with the requests
it drops, so nobody waits for a mutex that no one will give back.

`HandlersAsInGoalTasks` (`Spec => G!Spec`): every step of `Service` is a step of
`GoalTasks` or leaves its variables alone.  From it, `HandlersRight`
(the six invariants of `GoalTasks`, of the whole service) and `ServiceKeepsBoard`
(`Spec => G!KeepsBoard`, two refinements in one).  `P` is `GoalTasksProofs` with the
service's variables; its actions are those of `G` under other names,
which `SameNext` shows by unfolding both.  These two need what `GoalTasks` assumes
of its constants, `GoalTasksAssumption`.

`StoragesProofs`:
`CopiesOfTasksAgree` (`[]TaskCopiesAgree`), `CopiesOfUsersAgree`
(`[]UserCopiesAgree`), and `TasksStorageIsAtomic`, `UsersStorageIsAtomic`,
`GoalsStorageIsAtomic` (the refinements of `AtomicStore`), for any number of
threads and records, from one assumption: no thread is the mark of a free mutex.
`MCStorages` has `UsersStorage` and `GoalsStorage` as instances, under variables of
their own, so the run checks these statements with the variables renamed.
Its first part is what the three share: who is inside a function has the mutex,
so at most one is (`OneInside`), and every step of a call is one the abstract
store does not see (`Silent`) or the one at which the call takes effect
(`Effective`).  That the copies agree while nobody is inside is not
inductive.  The invariants say what the thread between its two writes still owes:
of the users, the one user who is by login and not yet by id (*Owed*); of the
tasks, the last one, which is in no list yet (*Unlisted*), or one whose status in
the list is still the old one (*Lagging*); of the goals, that the id it read is
still the next one (*ReadIdsTrue*).  All ids are given out without gaps, so that
the next one is what the abstract table gives out, one more than its records.

`StartupProofs`: `NothingDangles` (`[]NoDangling`) and `StartGoesOn`
(`[]StartNotStuck`), for every set of handlers and of constructors that may
throw, and without the fairness.  What is loaded is closed under `Finds` at every moment,
which is more than `NoDangling` asks for (`Keeps` is part of `Finds`) and what a
destructor's guard keeps; while the server listens or drains, everything is
loaded.  The start does not get stuck because components come in three tiers
(`Tiers`): some find nobody, the repositories find only these, the handlers only these two.

Only model-checked is everything about liveness (`StartEnds`, `RequestsAnswered`):
it needs ENABLED.  `StartGoesOn` is the part of `StartEnds` that does not.
`LimitHolds` and `RefillTimeNeverBack` cover stalls of any length, which the
run `limiter` does not.

## 5. Where the code and its documents part

* `RefusedOnlyAboveTwoPerSecond`: the limiter drops the fraction of a second but
  moves `last_refill`; a client that asks every half second is served twice and
  then never again, though `performance_design.md` promises 2 requests a second.
* `OwnGoalTakesTask`: the id of a goal (hexadecimal) is read with `std::stoll`.
  Ids that begin with a letter are refused with 400; others become a small number
  that must happen to be a row of the PostgreSQL table `goals`.
* `ListedTasksBelongToGoal`: goals with the same decimal prefix share tasks.
* `OwnTaskUpdates`: no status update of a task the client has just made succeeds.

Three more can be read off the model and have no run of their own:

* Failures of the database in sign-up and log-in are answered with 400
  (`UserAccounts!Fault`).
* A token with a wrong signature, one that cannot be decoded and one without a
  subject are answered with 403 (`UserAccounts!CheckAuth`), where `openapi.yaml` has
  401 for every invalid token and no 403.  Another algorithm, other times and
  another issuer get the 401.
* `tasks/update.cpp` passes `(goal_id, task_id)` where
  `TasksRepository::UpdateStatus` takes `(task_id, goal_id)`, so the handler, once
  reached, updates the task whose id is the goal's number (`TasksUpdateWrite`).  It
  does not compare the goal's owner with the caller either.  `OwnTaskUpdates`
  hides this: no object id in use gets that far.

## 6. Not modelled

The text the hello handler returns (stateless), ports, paths, pool sizes and
logging of `static_config.yaml`, titles, descriptions and names (those of users appear
in `UsersStorage` only, where a search looks into them), response headers, the
order of a list of tasks, seeded users and tasks.  Without a caller and therefore left out:
`TasksRepository::GetById`, `UsersRepository::GetById` and `UserExists`,
`TaskStatusFromString`.  PostgreSQL, MongoDB, bson, jwt-cpp and userver are
external: they appear as the source uses them, each definition marked external in
the map.

One PostgreSQL host is assumed, as `docker-compose.yml` deploys it.  The reads ask
for a kSlave host; with a replica that lags, the properties about listings,
log-ins and searches would fail for a reason that lies in the deployment and not in the code,
and no document of the repository says which freshness is wanted.

## 7. Plan

Done: `RateLimiter`, `Ids`, `GoalTasks`, `UserAccounts`, the storages, `Startup`,
the composition `Service`, the three abstract specifications (`TaskBoard`,
`AccountBook`, `AtomicStore`), and for every
invariant and action property of the passing runs a theorem (section 4).

Left:

* A lagging replica behind the kSlave reads, once it is decided what freshness
  the API promises.
