----------------------------- MODULE GoalTasks -----------------------------
(***************************************************************************)
(* The five handlers under /api/goals and the two repositories behind      *)
(* them: goals are documents of a MongoDB collection, tasks are rows of a  *)
(* PostgreSQL table.  Requests run concurrently, one per Slot; a handler   *)
(* is cut where it waits for a database, so other requests, and a crash,   *)
(* come between its steps.  A database call may fail, or take effect and   *)
(* lose its reply; either way an exception leaves the handler and the      *)
(* client gets 500.                                                        *)
(*                                                                         *)
(* The caller is authenticated: JwtChecker has set the user before any of  *)
(* these handlers runs.  The verdict of CheckRateLimit, whose state is the *)
(* module RateLimiter, is a free choice here.  Titles, descriptions, the   *)
(* order of a list of tasks and the tasks that data.sql seeds, which no    *)
(* request made, are left out; of the goals it seeds in PostgreSQL, which  *)
(* no code writes, only the ids matter.                                    *)
(***************************************************************************)
EXTENDS Ids, FiniteSets

CONSTANTS
  User,      \* user ids
  Slot,      \* requests served at a time
  Oid,       \* the object ids the driver can make
  GoalArg,   \* strings that clients send for goalId
  TaskArg,   \* strings that clients send for taskId
  Requests,  \* the requests that clients send
  PgGoals,   \* ids of the PostgreSQL table goals
  MaxTasks   \* bound: values taken from the sequence of tasks.id

ASSUME OidAssumption   == \A o \in Oid : o \in Seq(Char) /\ IsOid(o)
ASSUME BoundAssumption == MaxTasks \in Nat
ASSUME ArgAssumption   == GoalArg \subseteq Seq(Char) /\ TaskArg \subseteq Seq(Char)

VARIABLES
  goals,         \* MongoDB: _id -> userId
  tasks,         \* PostgreSQL: id -> row
  tasks_id_seq,  \* PostgreSQL: last value of the sequence behind tasks.id
  pc,            \* pc[s]: where the handler in slot s is
  req,           \* req[s]: the request in slot s
  answer,        \* answer[s]: its answer
  acked,         \* history: what clients were told was created
  known          \* known[s]: `acked' when the request in slot s was sent

stored == <<goals, tasks, tasks_id_seq>>
client == <<req, acked, known>>
vars   == <<goals, tasks, tasks_id_seq, pc, req, answer, acked, known>>

Status == {"todo", "in_progress", "done"}

\* A body is "valid", has an "empty" title, or is "malformed": it does not fit
\* its schema.  The schema of a goal asks for a title of three characters.
Body == {"valid", "empty", "malformed"}

\* What PUT .../status may carry: a string, or a body that does not fit.
StatusArg == Status \cup {"unknown", "malformed"}

Request ==
       [op : {"goals_create"}, user : User, body : Body]
  \cup [op : {"goals_list"}, user : User]
  \cup [op : {"tasks_create"}, user : User, goalId : GoalArg, body : Body]
  \cup [op : {"tasks_list"}, user : User, goalId : GoalArg]
  \cup [op : {"tasks_update"}, user : User, goalId : GoalArg,
        taskId : TaskArg, status : StatusArg]

ASSUME RequestsAssumption == Requests \subseteq Request

NoRequest == [op |-> "none"]
NoAnswer  == [code |-> 0, fault |-> FALSE, goals |-> <<>>, tasks |-> {}]
Nothing   == [goals |-> {}, tasks |-> {}]

----------------------------------------------------------------------------
(* GoalsRepository and TasksRepository.                                    *)

\* FindOne by _id.  bson::Oid(id) throws on a string that is no object id.
GetById(id) ==
  IF ~IsOid(id) THEN "throws"
  ELSE IF id \in DOMAIN goals THEN "found" ELSE "missing"

\* The order of a sort by _id, descending: the newest first.
NewestFirst(oids) ==
  CHOOSE list \in [1 .. Cardinality(oids) -> oids] :
    \A i, j \in DOMAIN list : i < j => OidValue(list[i]) > OidValue(list[j])

AllGoals(user) == NewestFirst(DOMAIN goals)   \* a mutant: no filter on userId

\* Find by userId, sorted.
GetByUser(user) == NewestFirst({o \in DOMAIN goals : goals[o] = user})

ByTaskId(goal_id) == {i \in DOMAIN tasks : i = goal_id}   \* a mutant

\* SELECT ... WHERE goal_id = $1.
GetByGoal(goal_id) == {i \in DOMAIN tasks : tasks[i].goal_id = goal_id}

\* The rows that UPDATE ... WHERE id = $1 AND goal_id = $2 hits.
UpdateStatus(task_id, goal_id) ==
  {i \in DOMAIN tasks : i = task_id /\ tasks[i].goal_id = goal_id}

----------------------------------------------------------------------------
Init ==
  /\ goals = [o \in {} |-> "nobody"]
  /\ tasks = [i \in {} |-> 0]
  /\ tasks_id_seq = 0
  /\ pc = [s \in Slot |-> "idle"]
  /\ req = [s \in Slot |-> NoRequest]
  /\ answer = [s \in Slot |-> NoAnswer]
  /\ acked = Nothing
  /\ known = [s \in Slot |-> Nothing]

\* A client sends a request.
Receive(s) ==
  /\ pc[s] = "idle"
  /\ \E r \in Requests : req' = [req EXCEPT ![s] = r]
  /\ pc' = [pc EXCEPT ![s] = "received"]
  /\ known' = [known EXCEPT ![s] = acked]
  /\ UNCHANGED <<stored, answer, acked>>

At(s, label, op) == pc[s] = label /\ req[s].op = op

Goto(s, label) ==
  /\ pc' = [pc EXCEPT ![s] = label]
  /\ UNCHANGED answer

Reply(s, a) ==
  /\ pc' = [pc EXCEPT ![s] = "answered"]
  /\ answer' = [answer EXCEPT ![s] = a]

Refuse(s, code) == Reply(s, [NoAnswer EXCEPT !.code = code])

\* The reply of a database is lost; the exception becomes 500.
Fault(s) == Reply(s, [NoAnswer EXCEPT !.code = 500, !.fault = TRUE])

TooManyRequests(s) == Refuse(s, 429)

----------------------------------------------------------------------------
(* POST /api/goals and GET /api/goals.                                     *)

\* As<CreateGoalRequestBody> throws on an empty title, too: it is shorter than
\* the schema's three characters, and the handler's own test is never met.
GoalsCreate(s) ==
  /\ At(s, "received", "goals_create")
  /\ \/ req[s].body # "valid" /\ Refuse(s, 500)
     \/ req[s].body = "valid" /\ TooManyRequests(s)
     \/ req[s].body = "valid" /\ Goto(s, "CreateGoal")
  /\ UNCHANGED <<stored, client>>

\* InsertOne under a new object id.
CreateGoal(s) ==
  /\ pc[s] = "CreateGoal"
  /\ \E oid \in Oid \ DOMAIN goals :
       /\ goals' = [o \in DOMAIN goals \cup {oid} |->
                      IF o = oid THEN req[s].user ELSE goals[o]]
       /\ \/ Reply(s, [NoAnswer EXCEPT !.code = 201, !.goals = <<oid>>])
          \/ Fault(s)
  /\ UNCHANGED <<tasks, tasks_id_seq, client>>

GoalsList(s) ==
  /\ At(s, "received", "goals_list")
  /\ TooManyRequests(s) \/ Goto(s, "GetByUser")
  /\ UNCHANGED <<stored, client>>

GoalsListFind(s) ==
  /\ pc[s] = "GetByUser"
  /\ Reply(s, [NoAnswer EXCEPT !.code = 200,
                               !.goals = GetByUser(req[s].user)])
  /\ UNCHANGED <<stored, client>>

----------------------------------------------------------------------------
(* POST and GET /api/goals/{goalId}/tasks.                                 *)

TasksCreate(s) ==
  /\ At(s, "received", "tasks_create")
  /\ \/ req[s].body = "malformed" /\ Refuse(s, 500)
     \/ req[s].body = "empty" /\ Refuse(s, 400)
     \/ req[s].body = "valid" /\ TooManyRequests(s)
     \/ /\ req[s].body = "valid"
        /\ \/ ~Stoll(req[s].goalId).ok /\ Refuse(s, 400)
           \/ Stoll(req[s].goalId).ok /\ Goto(s, "GetById")
  /\ UNCHANGED <<stored, client>>

TasksList(s) ==
  /\ At(s, "received", "tasks_list")
  /\ \/ TooManyRequests(s)
     \/ ~Stoll(req[s].goalId).ok /\ Refuse(s, 400)
     \/ Stoll(req[s].goalId).ok /\ Goto(s, "GetById")
  /\ UNCHANGED <<stored, client>>

AnyOwner(s, label) ==   \* a mutant: the owner of the goal is not looked at
  \/ GetById(req[s].goalId) = "throws"  /\ Refuse(s, 500)
  \/ GetById(req[s].goalId) = "missing" /\ Refuse(s, 404)
  \/ GetById(req[s].goalId) = "found"   /\ Goto(s, label)

\* The goal must exist and be the caller's; then the handler goes on at label.
OwnGoal(s, label) ==
  \/ GetById(req[s].goalId) = "throws"  /\ Refuse(s, 500)
  \/ GetById(req[s].goalId) = "missing" /\ Refuse(s, 404)
  \/ /\ GetById(req[s].goalId) = "found"
     /\ \/ goals[req[s].goalId] # req[s].user /\ Refuse(s, 404)
        \/ goals[req[s].goalId] = req[s].user /\ Goto(s, label)

TasksCreateFindGoal(s) ==
  /\ At(s, "GetById", "tasks_create")
  /\ OwnGoal(s, "CreateTask")
  /\ UNCHANGED <<stored, client>>

TasksListFindGoal(s) ==
  /\ At(s, "GetById", "tasks_list")
  /\ OwnGoal(s, "GetByGoal")
  /\ UNCHANGED <<stored, client>>

\* `goal' and `by' are not columns: they record whose request made the row.
NewTask(r) == [goal_id |-> Stoll(r.goalId).value, status |-> "todo",
               goal |-> r.goalId, by |-> r.user]

Inserted(id, row) ==
  [i \in DOMAIN tasks \cup {id} |-> IF i = id THEN row ELSE tasks[i]]

CreateTaskSameId(s) ==   \* a mutant: the sequence is read, not advanced
  /\ pc[s] = "CreateTask"
  /\ tasks' = Inserted(tasks_id_seq + 1, NewTask(req[s]))
  /\ Reply(s, [NoAnswer EXCEPT !.code = 201, !.tasks = {tasks_id_seq + 1}])
  /\ UNCHANGED <<goals, tasks_id_seq, client>>

CreateTaskUnseen(s) ==   \* a mutant: a refused row is answered like one made
  LET id  == tasks_id_seq + 1
      row == NewTask(req[s])
  IN  /\ pc[s] = "CreateTask"
      /\ id <= MaxTasks
      /\ tasks_id_seq' = id
      /\ tasks' = IF row.goal_id \in PgGoals THEN Inserted(id, row) ELSE tasks
      /\ Reply(s, [NoAnswer EXCEPT !.code = 201, !.tasks = {id}])
      /\ UNCHANGED <<goals, client>>

\* INSERT INTO tasks ... RETURNING.  The sequence moves even when the foreign
\* key on goals(id) refuses the row; nobody catches that exception.
CreateTask(s) ==
  LET id  == tasks_id_seq + 1
      row == NewTask(req[s])
  IN  /\ pc[s] = "CreateTask"
      /\ id <= MaxTasks
      /\ tasks_id_seq' = id
      /\ \/ /\ row.goal_id \in PgGoals
            /\ tasks' = Inserted(id, row)
            /\ \/ Reply(s, [NoAnswer EXCEPT !.code = 201, !.tasks = {id}])
               \/ Fault(s)
         \/ /\ row.goal_id \notin PgGoals
            /\ UNCHANGED tasks
            /\ Refuse(s, 500)
      /\ UNCHANGED <<goals, client>>

TasksListSelect(s) ==
  /\ pc[s] = "GetByGoal"
  /\ Reply(s, [NoAnswer EXCEPT !.code = 200,
                 !.tasks = GetByGoal(Stoll(req[s].goalId).value)])
  /\ UNCHANGED <<stored, client>>

----------------------------------------------------------------------------
(* PUT /api/goals/{goalId}/tasks/{taskId}/status.                          *)

UnparsedIds(s) ==   \* a mutant: std::stoll alone, as in the other two handlers
  /\ At(s, "received", "tasks_update")
  /\ \/ TooManyRequests(s)
     \/ ~(Stoll(req[s].goalId).ok /\ Stoll(req[s].taskId).ok)
        /\ Refuse(s, 400)
     \/ Stoll(req[s].goalId).ok /\ Stoll(req[s].taskId).ok
        /\ Goto(s, "GetById")
  /\ UNCHANGED <<stored, client>>

TasksUpdate(s) ==
  /\ At(s, "received", "tasks_update")
  /\ \/ TooManyRequests(s)
     \/ ~(ParseInt(req[s].goalId) /\ ParseInt(req[s].taskId))
        /\ Refuse(s, 400)
     \/ ParseInt(req[s].goalId) /\ ParseInt(req[s].taskId)
        /\ Goto(s, "GetById")
  /\ UNCHANGED <<stored, client>>

\* The goal must exist, whoever owns it.  A body that does not fit is 400; for
\* a status it does not know UpdateStatus returns before it asks the database.
TasksUpdateFindGoal(s) ==
  /\ At(s, "GetById", "tasks_update")
  /\ \/ GetById(req[s].goalId) = "throws"  /\ Refuse(s, 500)
     \/ GetById(req[s].goalId) = "missing" /\ Refuse(s, 404)
     \/ /\ GetById(req[s].goalId) = "found"
        /\ \/ req[s].status = "malformed" /\ Refuse(s, 400)
           \/ req[s].status = "unknown" /\ Refuse(s, 404)
           \/ req[s].status \in Status /\ Goto(s, "UpdateStatus")
  /\ UNCHANGED <<stored, client>>

\* The handler passes (goal_id, task_id) to UpdateStatus(task_id, goal_id).
TasksUpdateWrite(s) ==
  LET hit == UpdateStatus(Stoll(req[s].goalId).value,
                          Stoll(req[s].taskId).value)
  IN  /\ pc[s] = "UpdateStatus"
      /\ tasks' = [i \in DOMAIN tasks |->
                     IF i \in hit
                     THEN [tasks[i] EXCEPT !.status = req[s].status]
                     ELSE tasks[i]]
      /\ \/ hit = {} /\ Refuse(s, 404)
         \/ hit # {} /\ Reply(s, [NoAnswer EXCEPT !.code = 200, !.tasks = hit])
         \/ Fault(s)
      /\ UNCHANGED <<goals, tasks_id_seq, client>>

----------------------------------------------------------------------------
\* A call that fails without effect: no connection, a timeout on the way.
DbFails(s) ==
  /\ pc[s] \in {"CreateGoal", "GetByUser", "GetById", "CreateTask",
                "GetByGoal", "UpdateStatus"}
  /\ Fault(s)
  /\ UNCHANGED <<stored, client>>

\* What the answer in slot s tells the client it has created.
Created(s) ==
  IF answer[s].code = 201
  THEN [goals |-> {answer[s].goals[i] : i \in DOMAIN answer[s].goals},
        tasks |-> {[id |-> i, goal |-> req[s].goalId, by |-> req[s].user] :
                     i \in answer[s].tasks}]
  ELSE Nothing

\* The client reads the answer.
Deliver(s) ==
  /\ pc[s] = "answered"
  /\ acked' = [goals |-> acked.goals \cup Created(s).goals,
               tasks |-> acked.tasks \cup Created(s).tasks]
  /\ pc' = [pc EXCEPT ![s] = "idle"]
  /\ req' = [req EXCEPT ![s] = NoRequest]
  /\ answer' = [answer EXCEPT ![s] = NoAnswer]
  /\ known' = [known EXCEPT ![s] = Nothing]
  /\ UNCHANGED stored

\* The process dies and is started again: requests in flight and answers not
\* yet read are lost, the databases keep what they have.
Restart ==
  /\ \E s \in Slot : pc[s] # "idle"
  /\ pc' = [s \in Slot |-> "idle"]
  /\ req' = [s \in Slot |-> NoRequest]
  /\ answer' = [s \in Slot |-> NoAnswer]
  /\ known' = [s \in Slot |-> Nothing]
  /\ UNCHANGED <<stored, acked>>

Step(s) ==
  \/ Receive(s)
  \/ GoalsCreate(s) \/ CreateGoal(s)
  \/ GoalsList(s) \/ GoalsListFind(s)
  \/ TasksCreate(s) \/ TasksCreateFindGoal(s) \/ CreateTask(s)
  \/ TasksList(s) \/ TasksListFindGoal(s) \/ TasksListSelect(s)
  \/ TasksUpdate(s) \/ TasksUpdateFindGoal(s) \/ TasksUpdateWrite(s)
  \/ DbFails(s)
  \/ Deliver(s)

Next == (\E s \in Slot : Step(s)) \/ Restart

Spec == Init /\ [][Next]_vars

----------------------------------------------------------------------------
(* Properties.                                                             *)

Label == {"idle", "received", "CreateGoal", "GetByUser", "GetById",
          "CreateTask", "GetByGoal", "UpdateStatus", "answered"}

Row == [goal_id : Nat, status : Status, goal : GoalArg, by : User]

TaskAck == [id : 1 .. MaxTasks, goal : GoalArg, by : User]

Answer == [code : {0, 200, 201, 400, 404, 429, 500}, fault : BOOLEAN,
           goals : Seq(Oid), tasks : SUBSET (1 .. MaxTasks)]

Acks == [goals : SUBSET Oid, tasks : SUBSET TaskAck]

\* Types of the state.
TypeOK ==
  /\ DOMAIN goals \subseteq Oid /\ \A o \in DOMAIN goals : goals[o] \in User
  /\ DOMAIN tasks \subseteq 1 .. tasks_id_seq
  /\ \A i \in DOMAIN tasks : tasks[i] \in Row
  /\ tasks_id_seq \in 0 .. MaxTasks
  /\ pc \in [Slot -> Label]
  /\ req \in [Slot -> Requests \cup {NoRequest}]
  /\ answer \in [Slot -> Answer]
  /\ acked \in Acks
  /\ known \in [Slot -> Acks]

\* Every task was made through a goal that exists and belongs to the user who
\* made the task, although the goal was looked up in one database before the
\* row was written to the other; and its goal_id is what std::stoll makes of
\* that goal's id, a row of the table the foreign key names.
TaskOwnership ==
  \A i \in DOMAIN tasks :
    /\ tasks[i].goal \in DOMAIN goals
    /\ goals[tasks[i].goal] = tasks[i].by
    /\ tasks[i].goal_id = Stoll(tasks[i].goal).value
    /\ tasks[i].goal_id \in PgGoals

\* A task a client was told of keeps its id, its goal and its maker: no other
\* create, no fault, no lost reply and no restart takes the id again or
\* drops the row.
AckedTasksKept ==
  \A a \in acked.tasks :
    /\ a.id \in DOMAIN tasks
    /\ tasks[a.id].goal = a.goal
    /\ tasks[a.id].by = a.by

Answered(s, op, code) ==
  pc[s] = "answered" /\ req[s].op = op /\ answer[s].code = code

\* The list of goals holds the caller's goals and no others, newest first, and
\* every goal of his whose creation he was told of before he asked.
GoalsListed ==
  \A s \in Slot : Answered(s, "goals_list", 200) =>
    LET list == answer[s].goals
    IN  /\ \A i \in DOMAIN list : goals[list[i]] = req[s].user
        /\ \A i, j \in DOMAIN list :
             i < j => OidValue(list[i]) > OidValue(list[j])
        /\ \A o \in known[s].goals :
             goals[o] = req[s].user => \E i \in DOMAIN list : list[i] = o

\* The list of tasks of a goal holds every task made through that goal that a
\* client was told of before the list was asked for.
AckedTasksListed ==
  \A s \in Slot : Answered(s, "tasks_list", 200) =>
    \A a \in known[s].tasks : a.goal = req[s].goalId => a.id \in answer[s].tasks

\* Whom POST and GET /api/goals/{goalId}/tasks serve.  They answer for a goal
\* of the caller's own, and a caller who was told of the goal in the path and
\* owns it is never told that there is none.  What a list shows besides the
\* tasks of that goal, which are all the caller's, was made through a goal,
\* maybe of another user, whose id begins with the same number: that this
\* happens is what ListedTasksBelongToGoal is about.  (PUT .../status does not
\* look at the owner of the goal.)
GoalAccess ==
  /\ \A s \in Slot : \A op \in {"tasks_create", "tasks_list"} :
       /\ \A code \in {200, 201} : Answered(s, op, code) =>
            req[s].goalId \in DOMAIN goals /\ goals[req[s].goalId] = req[s].user
       /\ Answered(s, op, 404) =>
            ~(req[s].goalId \in known[s].goals
              /\ goals[req[s].goalId] = req[s].user)
  /\ \A s \in Slot : Answered(s, "tasks_list", 200) =>
       \A i \in answer[s].tasks :
         /\ Stoll(tasks[i].goal).value = Stoll(req[s].goalId).value
         /\ tasks[i].goal = req[s].goalId => tasks[i].by = req[s].user

\* A status is only ever set while some goal has an id that is an integer, too:
\* PUT .../status wants a goalId that is an integer for ParseInt and the object
\* id of a goal at once.  No object id made today is one (see OidNeverInteger of
\* MCIds), and with such ids tasks stay as they were made.
StatusNeedsIntegerGoal ==
  [][\A i \in DOMAIN tasks :
       /\ i \in DOMAIN tasks'
       /\ tasks'[i] # tasks[i] =>
            /\ tasks'[i] = [tasks[i] EXCEPT !.status = tasks'[i].status]
            /\ \E o \in DOMAIN goals : ParseInt(o)]_vars

----------------------------------------------------------------------------
(* The promise that the handlers keep, whatever comes in between.          *)

\* A row as its maker knows it, without the goal_id that was made of the goal.
Promised(row) == [goal |-> row.goal, by |-> row.by, status |-> row.status]

Board == INSTANCE TaskBoard WITH
           GoalId <- Oid, TaskId <- 1 .. MaxTasks, told <- acked,
           FirstStatus <- "todo",
           tasks <- [i \in DOMAIN tasks |-> Promised(tasks[i])]

\* Two databases without a transaction, calls that fail or lose their reply,
\* and restarts: still goals and tasks change as TaskBoard says and no other
\* way, and what clients were told is true at the time and stays.
KeepsBoard == Board!Spec

----------------------------------------------------------------------------
(* What the documents and the tests of the repository say.                 *)

\* main_tests.py expects 201 when a user adds a task to a goal of his own that
\* he has just been given the id of (no fault, not over the limit).
OwnGoalTakesTask ==
  \A s \in Slot :
    /\ pc[s] = "answered" /\ ~answer[s].fault /\ answer[s].code # 429
    /\ req[s].op = "tasks_create" /\ req[s].body = "valid"
    /\ req[s].goalId \in known[s].goals
    /\ goals[req[s].goalId] = req[s].user
    => answer[s].code = 201

\* openapi.yaml calls GET /api/goals/{goalId}/tasks the tasks of a goal: every
\* task listed was made through the goal in the path.
ListedTasksBelongToGoal ==
  \A s \in Slot : Answered(s, "tasks_list", 200) =>
    \A i \in answer[s].tasks : tasks[i].goal = req[s].goalId

\* main_tests.py expects 200 when a user sets the status of a task that he was
\* told of, under the goal it was made through.
OwnTaskUpdates ==
  \A s \in Slot :
    /\ pc[s] = "answered" /\ ~answer[s].fault /\ answer[s].code # 429
    /\ req[s].op = "tasks_update" /\ req[s].status \in Status
    /\ \E a \in known[s].tasks :
         /\ a.goal = req[s].goalId /\ a.by = req[s].user
         /\ ParseInt(req[s].taskId) /\ a.id = Stoll(req[s].taskId).value
    => answer[s].code = 200
=============================================================================
