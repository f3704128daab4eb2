--------------------------- MODULE GoalTasksProofs --------------------------
(***************************************************************************)
(* Proofs about GoalTasks for all users, slots, object ids, path arguments *)
(* and requests.                                                           *)
(*                                                                         *)
(* What a handler read before it waits for a database is remembered by     *)
(* where it waits: Pending says, for every label, what the steps up to it  *)
(* have checked and that nobody has undone it since.  Given stands for the *)
(* answers that are on their way to a client.  After the refinement of     *)
(* TaskBoard, Answers says what these answers, and the requests waiting    *)
(* for a database, hold of what their client was told, and Types the rest  *)
(* of TypeOK.                                                              *)
(***************************************************************************)
EXTENDS GoalTasks, IdsProofs, FiniteSetTheorems, TLAPS

\* The part of TypeOK that the argument needs.
Shape ==
  /\ DOMAIN goals \subseteq Oid /\ \A o \in DOMAIN goals : goals[o] \in User
  /\ tasks_id_seq \in Nat
  /\ DOMAIN tasks \subseteq 1 .. tasks_id_seq
  /\ \A i \in DOMAIN tasks : tasks[i] \in
       [goal_id : PgGoals, status : Status, goal : Oid, by : User]
  /\ pc \in [Slot -> Label]
  /\ req \in [Slot -> Requests \cup {NoRequest}]
  /\ DOMAIN answer = Slot

\* What the request of slot s has passed when it waits at a label.
Passed(s) ==
  /\ pc[s] # "idle" => req[s] \in Requests
  /\ pc[s] = "CreateGoal" => req[s].op = "goals_create"
  /\ pc[s] = "CreateTask" => /\ req[s].op = "tasks_create"
                             /\ req[s].goalId \in DOMAIN goals
                             /\ goals[req[s].goalId] = req[s].user
  /\ At(s, "GetById", "tasks_update") => ParseInt(req[s].goalId)
  /\ pc[s] = "UpdateStatus" => /\ req[s].op = "tasks_update"
                               /\ req[s].status \in Status
                               /\ req[s].goalId \in DOMAIN goals
                               /\ ParseInt(req[s].goalId)

Pending == \A s \in Slot : Passed(s)

\* Row i is there and was made by that user through that goal.
MadeBy(i, goal, user) ==
  i \in DOMAIN tasks /\ tasks[i].goal = goal /\ tasks[i].by = user

\* The tasks that an answer on its way announces are in the table.
Given ==
  \A s \in Slot : pc[s] = "answered" /\ answer[s].code = 201 =>
    \A i \in answer[s].tasks : MadeBy(i, req[s].goalId, req[s].user)

IInv == Shape /\ Pending /\ Given /\ TaskOwnership /\ AckedTasksKept

----------------------------------------------------------------------------
\* Nobody has made anything yet.
LEMMA InitIInv == Init => IInv
<1>. SUFFICES ASSUME Init PROVE IInv
  OBVIOUS
<1>1. Shape
  BY DEF Init, Shape, NoAnswer, Label
<1>2. Pending /\ Given
  BY DEF Init, Pending, Passed, Given, At
<1>3. TaskOwnership /\ AckedTasksKept
  BY DEF Init, TaskOwnership, AckedTasksKept, Nothing
<1>. QED
  BY <1>1, <1>2, <1>3 DEF IInv

----------------------------------------------------------------------------
(* Steps that only move their own slot.                                    *)

\* A slot goes on to another label, having passed what that label asks for.
LEMMA GotoIInv ==
  ASSUME IInv, NEW s \in Slot, NEW label \in Label \ {"answered"},
         Goto(s, label), Passed(s)', UNCHANGED <<stored, client>>
  PROVE  IInv'
<1>. USE DEF IInv, Goto, stored, client
<1>1. Shape'
  BY DEF Shape
<1>2. Pending'
  <2>. SUFFICES ASSUME NEW q \in Slot, q # s PROVE Passed(q)'
    BY DEF Pending
  <2>1. pc'[q] = pc[q]
    BY DEF Shape
  <2>2. Passed(q)
    BY DEF Pending
  <2>. QED
    BY <2>1, <2>2 DEF Passed, At
<1>3. Given'
  <2>. SUFFICES ASSUME NEW q \in Slot, pc'[q] = "answered",
                       answer[q].code = 201, NEW i \in answer[q].tasks
                PROVE  MadeBy(i, req[q].goalId, req[q].user)'
    BY DEF Given
  <2>1. pc[q] = "answered"
    BY DEF Shape
  <2>. QED
    BY <2>1 DEF Given, MadeBy
<1>4. TaskOwnership' /\ AckedTasksKept'
  BY DEF TaskOwnership, AckedTasksKept
<1>. QED
  BY <1>1, <1>2, <1>3, <1>4

\* A slot answers that nothing was created.
LEMMA ReplyIInv ==
  ASSUME IInv, NEW s \in Slot, NEW a, a.code # 201, pc[s] # "idle",
         Reply(s, a), UNCHANGED <<stored, client>>
  PROVE  IInv'
<1>. USE DEF IInv, Reply, stored, client
<1>1. Shape'
  BY DEF Shape, Label
<1>2. Pending'
  <2>. SUFFICES ASSUME NEW q \in Slot PROVE Passed(q)'
    BY DEF Pending
  <2>1. Passed(q)
    BY DEF Pending
  <2>2. pc'[q] = IF q = s THEN "answered" ELSE pc[q]
    BY DEF Shape
  <2>. QED
    BY <2>1, <2>2 DEF Passed, At
<1>3. Given'
  <2>. SUFFICES ASSUME NEW q \in Slot, pc'[q] = "answered",
                       answer'[q].code = 201, NEW i \in answer'[q].tasks
                PROVE  MadeBy(i, req[q].goalId, req[q].user)'
    BY DEF Given
  <2>1. q # s
    BY DEF Shape
  <2>2. pc[q] = "answered" /\ answer'[q] = answer[q]
    BY <2>1 DEF Shape
  <2>. QED
    BY <2>2 DEF Given, MadeBy
<1>4. TaskOwnership' /\ AckedTasksKept'
  BY DEF TaskOwnership, AckedTasksKept
<1>. QED
  BY <1>1, <1>2, <1>3, <1>4

\* The answer of a fault.
LEMMA FaultIsReply ==
  ASSUME NEW s \in Slot, Fault(s)
  PROVE  \E a : Reply(s, a) /\ a.code = 500 /\ a.tasks = {}
<1>. DEFINE f == [NoAnswer EXCEPT !.code = 500, !.fault = TRUE]
<1>1. f.code = 500 /\ f.tasks = {}
  BY DEF NoAnswer
<1>2. Reply(s, f)
  BY DEF Fault
<1>. HIDE DEF f
<1>. QED
  BY <1>1, <1>2

\* Every refusal, and every fault, is such an answer.
LEMMA RefuseIInv ==
  ASSUME IInv, NEW s \in Slot, pc[s] # "idle", UNCHANGED <<stored, client>>,
         \/ \E code \in Nat \ {201} : Refuse(s, code)
         \/ Fault(s)
  PROVE  IInv'
<1>1. CASE Fault(s)
  <2>. DEFINE a == [NoAnswer EXCEPT !.code = 500, !.fault = TRUE]
  <2>1. a.code # 201
    BY DEF NoAnswer
  <2>2. Reply(s, a)
    BY <1>1 DEF Fault
  <2>. HIDE DEF a
  <2>. QED
    BY <2>1, <2>2, ReplyIInv
<1>2. ASSUME NEW code \in Nat \ {201}, Refuse(s, code) PROVE IInv'
  <2>. DEFINE a == [NoAnswer EXCEPT !.code = code]
  <2>1. a.code # 201
    BY DEF NoAnswer
  <2>2. Reply(s, a)
    BY <1>2 DEF Refuse
  <2>. HIDE DEF a
  <2>. QED
    BY <2>1, <2>2, ReplyIInv
<1>. QED
  BY <1>1, <1>2

\* The goal lookup that tasks/create.cpp and tasks/list.cpp share.
LEMMA OwnGoalIInv ==
  ASSUME IInv, NEW s \in Slot, pc[s] = "GetById",
         NEW label \in {"CreateTask", "GetByGoal"},
         label = "CreateTask" => req[s].op = "tasks_create",
         OwnGoal(s, label), UNCHANGED <<stored, client>>
  PROVE  IInv'
<1>1. \/ \E code \in {404, 500} : Refuse(s, code)
      \/ /\ Goto(s, label)
         /\ req[s].goalId \in DOMAIN goals
         /\ goals[req[s].goalId] = req[s].user
  BY DEF OwnGoal, GetById
<1>2. CASE \E code \in {404, 500} : Refuse(s, code)
  BY <1>2, RefuseIInv
<1>3. CASE /\ Goto(s, label)
           /\ req[s].goalId \in DOMAIN goals
           /\ goals[req[s].goalId] = req[s].user
  <2>1. Passed(s)'
    BY <1>3 DEF IInv, Pending, Passed, Goto, At, Shape, client, stored
  <2>2. label \in Label \ {"answered"}
    BY DEF Label
  <2>. QED
    BY <1>3, <2>1, <2>2, GotoIInv
<1>. QED
  BY <1>1, <1>2, <1>3

----------------------------------------------------------------------------
(* Steps that change what is stored or what a client knows.                *)

\* A request comes in.
LEMMA ReceiveIInv ==
  ASSUME IInv, NEW s \in Slot, Receive(s)
  PROVE  IInv'
<1>. USE DEF IInv, Receive, stored
<1>1. PICK r \in Requests : req' = [req EXCEPT ![s] = r]
  OBVIOUS
<1>2. Shape'
  BY <1>1 DEF Shape, Label
<1>3. \A q \in Slot : q # s => pc'[q] = pc[q] /\ req'[q] = req[q]
  BY <1>1 DEF Shape
<1>4. pc'[s] = "received" /\ req'[s] = r
  BY <1>1 DEF Shape
<1>5. Pending'
  <2>. SUFFICES ASSUME NEW q \in Slot PROVE Passed(q)'
    BY DEF Pending
  <2>1. CASE q = s
    BY <1>4, <2>1 DEF Passed, At
  <2>2. CASE q # s
    BY <1>3, <2>2 DEF Pending, Passed, At
  <2>. QED
    BY <2>1, <2>2
<1>6. Given'
  BY <1>3, <1>4 DEF Given, MadeBy
<1>7. TaskOwnership' /\ AckedTasksKept'
  BY DEF TaskOwnership, AckedTasksKept
<1>. QED
  BY <1>2, <1>5, <1>6, <1>7

\* A goal is inserted: no goal that a handler has found goes away or changes
\* hands.
LEMMA CreateGoalIInv ==
  ASSUME IInv, NEW s \in Slot, CreateGoal(s)
  PROVE  IInv'
<1>. USE DEF IInv, CreateGoal, client
<1>1. PICK oid \in Oid \ DOMAIN goals :
        /\ goals' = [o \in DOMAIN goals \cup {oid} |->
                       IF o = oid THEN req[s].user ELSE goals[o]]
        /\ \/ Reply(s, [NoAnswer EXCEPT !.code = 201, !.goals = <<oid>>])
           \/ Fault(s)
  OBVIOUS
<1>2. /\ DOMAIN goals' = DOMAIN goals \cup {oid}
      /\ \A o \in DOMAIN goals : goals'[o] = goals[o]
  BY <1>1
<1>3. PICK a : Reply(s, a) /\ a.tasks = {}
  <2>. DEFINE c == [NoAnswer EXCEPT !.code = 201, !.goals = <<oid>>]
  <2>1. c.tasks = {}
    BY DEF NoAnswer
  <2>2. Reply(s, c) \/ Fault(s)
    BY <1>1
  <2>. HIDE DEF c
  <2>. QED
    BY <2>1, <2>2, FaultIsReply
<1>4. Shape'
  <2>1. req[s].user \in User
    BY RequestsAssumption DEF Pending, Passed, Request
  <2>2. \A o \in DOMAIN goals' : goals'[o] \in User
    BY <1>1, <2>1 DEF Shape
  <2>. QED
    BY <1>2, <1>3, <2>2 DEF Shape, Reply, Label
<1>5. \A q \in Slot :
        /\ pc'[q] = IF q = s THEN "answered" ELSE pc[q]
        /\ answer'[q] = IF q = s THEN a ELSE answer[q]
  BY <1>3 DEF Shape, Reply
<1>6. Pending'
  <2>. SUFFICES ASSUME NEW q \in Slot PROVE Passed(q)'
    BY DEF Pending
  <2>1. Passed(q)
    BY DEF Pending
  <2>. QED
    BY <1>2, <1>5, <2>1 DEF Passed, At
<1>7. Given'
  BY <1>3, <1>5 DEF Given, MadeBy
<1>8. TaskOwnership'
  BY <1>2 DEF TaskOwnership
<1>9. AckedTasksKept'
  BY DEF AckedTasksKept
<1>. QED
  BY <1>4, <1>6, <1>7, <1>8, <1>9

\* A task is inserted under an id that no task had before.
LEMMA CreateTaskIInv ==
  ASSUME IInv, NEW s \in Slot, CreateTask(s)
  PROVE  IInv'
<1>. DEFINE id  == tasks_id_seq + 1
            row == NewTask(req[s])
<1>. USE DEF IInv
<1>1. /\ pc[s] = "CreateTask" /\ tasks_id_seq' = id
      /\ UNCHANGED <<goals, req, acked, known>>
  BY DEF CreateTask, client
<1>2. /\ id \in Nat \ DOMAIN tasks
      /\ DOMAIN tasks \subseteq 1 .. id
  BY DEF Shape
<1>3. CASE /\ row.goal_id \in PgGoals
           /\ tasks' = Inserted(id, row)
           /\ \/ Reply(s, [NoAnswer EXCEPT !.code = 201, !.tasks = {id}])
              \/ Fault(s)
  <2>1. PICK a : Reply(s, a) /\ (a.code = 201 => a.tasks = {id})
    <3>. DEFINE c == [NoAnswer EXCEPT !.code = 201, !.tasks = {id}]
    <3>1. c.tasks = {id}
      BY DEF NoAnswer
    <3>2. Reply(s, c) \/ Fault(s)
      BY <1>3
    <3>. HIDE DEF c
    <3>. QED
      BY <3>1, <3>2, FaultIsReply
  <2>2. /\ DOMAIN tasks' = DOMAIN tasks \cup {id}
        /\ tasks'[id] = row
        /\ \A i \in DOMAIN tasks : tasks'[i] = tasks[i]
    BY <1>2, <1>3 DEF Inserted
  <2>. HIDE DEF id, row
  <2>3. \A q \in Slot :
          /\ pc'[q] = IF q = s THEN "answered" ELSE pc[q]
          /\ answer'[q] = IF q = s THEN a ELSE answer[q]
    BY <2>1 DEF Shape, Reply
  <2>4. Shape'
    <3>1. req[s].goalId \in DOMAIN goals /\ goals[req[s].goalId] = req[s].user
      BY <1>1 DEF Pending, Passed
    <3>2. row \in [goal_id : PgGoals, status : Status, goal : Oid, by : User]
      BY <1>3, <3>1 DEF Shape, row, NewTask, Status
    <3>3. DOMAIN tasks' \subseteq 1 .. tasks_id_seq' /\ tasks_id_seq' \in Nat
      BY <1>1, <1>2, <2>2 DEF Shape, id
    <3>4. \A i \in DOMAIN tasks' : tasks'[i] \in
            [goal_id : PgGoals, status : Status, goal : Oid, by : User]
      BY <2>2, <3>2 DEF Shape
    <3>. QED
      BY <1>1, <2>1, <3>3, <3>4 DEF Shape, Reply, Label
  <2>5. Pending'
    <3>. SUFFICES ASSUME NEW q \in Slot PROVE Passed(q)'
      BY DEF Pending
    <3>1. Passed(q)
      BY DEF Pending
    <3>. QED
      BY <1>1, <2>3, <3>1 DEF Passed, At
  <2>6. /\ row.goal = req[s].goalId /\ row.by = req[s].user
        /\ row.goal_id = Stoll(req[s].goalId).value
    BY DEF row, NewTask
  <2>7. Given'
    <3>. SUFFICES ASSUME NEW q \in Slot, pc'[q] = "answered",
                         answer'[q].code = 201, NEW i \in answer'[q].tasks
                  PROVE  MadeBy(i, req[q].goalId, req[q].user)'
      BY <1>1 DEF Given
    <3>1. CASE q = s
      BY <1>1, <2>1, <2>2, <2>3, <2>6, <3>1 DEF MadeBy
    <3>2. CASE q # s
      BY <1>1, <2>2, <2>3, <3>2 DEF Given, MadeBy
    <3>. QED
      BY <3>1, <3>2
  <2>8. TaskOwnership'
    <3>1. req[s].goalId \in DOMAIN goals /\ goals[req[s].goalId] = req[s].user
      BY <1>1 DEF Pending, Passed
    <3>. QED
      BY <1>1, <1>3, <2>2, <2>6, <3>1 DEF TaskOwnership
  <2>9. AckedTasksKept'
    BY <1>1, <2>2 DEF AckedTasksKept
  <2>. QED
    BY <2>4, <2>5, <2>7, <2>8, <2>9
<1>4. CASE UNCHANGED tasks /\ Refuse(s, 500)
  <2>1. PICK a : Reply(s, a) /\ a.code = 500
    BY <1>4 DEF Refuse, NoAnswer
  <2>. HIDE DEF id, row
  <2>3. \A q \in Slot :
          /\ pc'[q] = IF q = s THEN "answered" ELSE pc[q]
          /\ answer'[q] = IF q = s THEN a ELSE answer[q]
    BY <2>1 DEF Shape, Reply
  <2>4. Shape'
    BY <1>1, <1>2, <1>4, <2>1 DEF Shape, Reply, Label, id
  <2>5. Pending'
    <3>. SUFFICES ASSUME NEW q \in Slot PROVE Passed(q)'
      BY DEF Pending
    <3>1. Passed(q)
      BY DEF Pending
    <3>. QED
      BY <1>1, <2>3, <3>1 DEF Passed, At
  <2>6. Given'
    BY <1>1, <1>4, <2>1, <2>3 DEF Given, MadeBy
  <2>7. TaskOwnership' /\ AckedTasksKept'
    BY <1>1, <1>4 DEF TaskOwnership, AckedTasksKept
  <2>. QED
    BY <2>4, <2>5, <2>6, <2>7
<1>. QED
  BY <1>3, <1>4 DEF CreateTask

\* A status is written: rows keep their goals and their makers.
LEMMA TasksUpdateWriteIInv ==
  ASSUME IInv, NEW s \in Slot, TasksUpdateWrite(s)
  PROVE  IInv'
<1>. DEFINE hit == UpdateStatus(Stoll(req[s].goalId).value,
                                Stoll(req[s].taskId).value)
<1>. USE DEF IInv
<1>1. /\ pc[s] = "UpdateStatus"
      /\ UNCHANGED <<goals, tasks_id_seq, req, acked, known>>
      /\ tasks' = [i \in DOMAIN tasks |->
                     IF i \in hit
                     THEN [tasks[i] EXCEPT !.status = req[s].status]
                     ELSE tasks[i]]
      /\ \/ Refuse(s, 404)
         \/ Reply(s, [NoAnswer EXCEPT !.code = 200, !.tasks = hit])
         \/ Fault(s)
  BY DEF TasksUpdateWrite, client
<1>2. PICK a : Reply(s, a) /\ a.code # 201
  <2>. DEFINE r == [NoAnswer EXCEPT !.code = 404]
              c == [NoAnswer EXCEPT !.code = 200, !.tasks = hit]
  <2>1. r.code # 201 /\ c.code # 201
    BY DEF NoAnswer
  <2>2. Reply(s, r) \/ Reply(s, c) \/ Fault(s)
    BY <1>1 DEF Refuse
  <2>. HIDE DEF r, c
  <2>. QED
    BY <2>1, <2>2, FaultIsReply
<1>3. \A q \in Slot :
        /\ pc'[q] = IF q = s THEN "answered" ELSE pc[q]
        /\ answer'[q] = IF q = s THEN a ELSE answer[q]
  BY <1>2 DEF Shape, Reply
<1>4. DOMAIN tasks' = DOMAIN tasks
  BY <1>1
<1>5. ASSUME NEW i \in DOMAIN tasks
      PROVE  /\ tasks'[i] \in
                  [goal_id : PgGoals, status : Status, goal : Oid, by : User]
             /\ tasks'[i].goal = tasks[i].goal /\ tasks'[i].by = tasks[i].by
             /\ tasks'[i].goal_id = tasks[i].goal_id
  <2>1. tasks[i] \in
          [goal_id : PgGoals, status : Status, goal : Oid, by : User]
    BY DEF Shape
  <2>2. req[s].status \in Status
    BY <1>1 DEF Pending, Passed
  <2>. HIDE DEF hit
  <2>3. \/ tasks'[i] = [tasks[i] EXCEPT !.status = req[s].status]
        \/ tasks'[i] = tasks[i]
    BY <1>1
  <2>. QED
    BY <2>1, <2>2, <2>3
<1>. HIDE DEF hit
<1>6. Shape'
  BY <1>1, <1>2, <1>4, <1>5 DEF Shape, Reply, Label
<1>7. Pending'
  <2>. SUFFICES ASSUME NEW q \in Slot PROVE Passed(q)'
    BY DEF Pending
  <2>1. Passed(q)
    BY DEF Pending
  <2>. QED
    BY <1>1, <1>3, <2>1 DEF Passed, At
<1>8. Given'
  BY <1>1, <1>2, <1>3, <1>4, <1>5 DEF Given, MadeBy
<1>9. TaskOwnership'
  BY <1>1, <1>4, <1>5 DEF TaskOwnership
<1>10. AckedTasksKept'
  BY <1>1, <1>4, <1>5 DEF AckedTasksKept
<1>. QED
  BY <1>6, <1>7, <1>8, <1>9, <1>10

\* An answer is read: what it announces has been Given.
LEMMA DeliverIInv ==
  ASSUME IInv, NEW s \in Slot, Deliver(s)
  PROVE  IInv'
<1>. USE DEF IInv, Deliver, stored
<1>1. \A q \in Slot :
        /\ pc'[q] = IF q = s THEN "idle" ELSE pc[q]
        /\ q # s => req'[q] = req[q] /\ answer'[q] = answer[q]
  BY DEF Shape
<1>2. Shape'
  BY DEF Shape, Label
<1>3. Pending'
  <2>. SUFFICES ASSUME NEW q \in Slot PROVE Passed(q)'
    BY DEF Pending
  <2>1. Passed(q)
    BY DEF Pending
  <2>. QED
    BY <1>1, <2>1 DEF Passed, At
<1>4. Given'
  BY <1>1 DEF Given, MadeBy
<1>5. TaskOwnership'
  BY DEF TaskOwnership
<1>6. AckedTasksKept'
  <2>. SUFFICES ASSUME NEW a \in acked'.tasks
                PROVE  MadeBy(a.id, a.goal, a.by)
    BY DEF AckedTasksKept, MadeBy
  <2>1. CASE a \in acked.tasks
    BY <2>1 DEF AckedTasksKept, MadeBy
  <2>2. CASE a \in Created(s).tasks
    <3>1. answer[s].code = 201
      BY <2>2 DEF Created, Nothing
    <3>2. PICK i \in answer[s].tasks :
            a = [id |-> i, goal |-> req[s].goalId, by |-> req[s].user]
      BY <2>2, <3>1 DEF Created
    <3>. QED
      BY <3>1, <3>2 DEF Given
  <2>. QED
    BY <2>1, <2>2
<1>. QED
  BY <1>2, <1>3, <1>4, <1>5, <1>6

\* The process starts again.
LEMMA RestartIInv ==
  ASSUME IInv, Restart
  PROVE  IInv'
<1>. USE DEF IInv, Restart, stored
<1>1. Shape'
  BY DEF Shape, Label
<1>2. Pending' /\ Given'
  BY DEF Pending, Given, Passed, At
<1>3. TaskOwnership' /\ AckedTasksKept'
  BY DEF TaskOwnership, AckedTasksKept
<1>. QED
  BY <1>1, <1>2, <1>3

----------------------------------------------------------------------------
(* The steps of the handlers that change nothing but their own slot.       *)

\* The first step of a handler refuses the request or goes on to its first
\* database call.
LEMMA EnterIInv ==
  ASSUME IInv, NEW s \in Slot,
         \/ GoalsCreate(s) \/ GoalsList(s)
         \/ TasksCreate(s) \/ TasksList(s) \/ TasksUpdate(s)
  PROVE  IInv'
<1>1. /\ pc[s] = "received" /\ UNCHANGED <<stored, client>>
      /\ \/ \E code \in {400, 429, 500} : Refuse(s, code)
         \/ Goto(s, "CreateGoal") /\ req[s].op = "goals_create"
         \/ Goto(s, "GetByUser")
         \/ Goto(s, "GetById") /\ req[s].op # "tasks_update"
         \/ Goto(s, "GetById") /\ ParseInt(req[s].goalId)
  BY DEF GoalsCreate, GoalsList, TasksCreate, TasksList, TasksUpdate, At,
         TooManyRequests
<1>2. ASSUME NEW code \in {400, 429, 500}, Refuse(s, code) PROVE IInv'
  BY <1>1, <1>2, RefuseIInv
<1>3. ASSUME NEW label \in {"CreateGoal", "GetByUser", "GetById"},
             Goto(s, label),
             label = "CreateGoal" => req[s].op = "goals_create",
             label = "GetById" =>
               req[s].op # "tasks_update" \/ ParseInt(req[s].goalId)
      PROVE  IInv'
  <2>1. pc'[s] = label /\ req' = req
    BY <1>1, <1>3 DEF Goto, IInv, Shape, client
  <2>2. Passed(s)
    BY DEF IInv, Pending
  <2>3. Passed(s)'
    BY <1>1, <1>3, <2>1, <2>2 DEF Passed, At
  <2>4. label \in Label \ {"answered"}
    BY DEF Label
  <2>. QED
    BY <1>1, <1>3, <2>3, <2>4, GotoIInv
<1>. QED
  BY <1>1, <1>2, <1>3

\* The reads and the failures.
LEMMA ReadIInv ==
  ASSUME IInv, NEW s \in Slot,
         GoalsListFind(s) \/ TasksListSelect(s) \/ DbFails(s)
  PROVE  IInv'
<1>1. pc[s] # "idle" /\ UNCHANGED <<stored, client>>
  BY DEF GoalsListFind, TasksListSelect, DbFails
<1>2. ASSUME NEW a, a.code # 201, Reply(s, a) PROVE IInv'
  BY <1>1, <1>2, ReplyIInv
<1>3. CASE GoalsListFind(s)
  <2>. DEFINE a == [NoAnswer EXCEPT !.code = 200,
                                    !.goals = GetByUser(req[s].user)]
  <2>1. a.code # 201
    BY DEF NoAnswer
  <2>2. Reply(s, a)
    BY <1>3 DEF GoalsListFind
  <2>. HIDE DEF a
  <2>. QED
    BY <1>2, <2>1, <2>2
<1>4. CASE TasksListSelect(s)
  <2>. DEFINE a == [NoAnswer EXCEPT !.code = 200,
                      !.tasks = GetByGoal(Stoll(req[s].goalId).value)]
  <2>1. a.code # 201
    BY DEF NoAnswer
  <2>2. Reply(s, a)
    BY <1>4 DEF TasksListSelect
  <2>. HIDE DEF a
  <2>. QED
    BY <1>2, <2>1, <2>2
<1>5. CASE DbFails(s)
  BY <1>1, <1>5, RefuseIInv DEF DbFails
<1>. QED
  BY <1>3, <1>4, <1>5

\* The lookup of a goal.
LEMMA FindGoalIInv ==
  ASSUME IInv, NEW s \in Slot,
         \/ TasksCreateFindGoal(s) \/ TasksListFindGoal(s)
         \/ TasksUpdateFindGoal(s)
  PROVE  IInv'
<1>1. CASE TasksCreateFindGoal(s)
  BY <1>1, OwnGoalIInv DEF TasksCreateFindGoal, At
<1>2. CASE TasksListFindGoal(s)
  BY <1>2, OwnGoalIInv DEF TasksListFindGoal, At
<1>3. CASE TasksUpdateFindGoal(s)
  <2>1. /\ At(s, "GetById", "tasks_update") /\ UNCHANGED <<stored, client>>
        /\ \/ \E code \in {400, 404, 500} : Refuse(s, code)
           \/ /\ Goto(s, "UpdateStatus")
              /\ req[s].goalId \in DOMAIN goals /\ req[s].status \in Status
    BY <1>3 DEF TasksUpdateFindGoal, GetById
  <2>2. ASSUME NEW code \in {400, 404, 500}, Refuse(s, code) PROVE IInv'
    BY <2>1, <2>2, RefuseIInv DEF At
  <2>3. CASE /\ Goto(s, "UpdateStatus")
             /\ req[s].goalId \in DOMAIN goals /\ req[s].status \in Status
    <3>1. pc'[s] = "UpdateStatus" /\ req' = req /\ goals' = goals
      BY <2>1, <2>3 DEF Goto, IInv, Shape, client, stored
    <3>2. Passed(s)
      BY DEF IInv, Pending
    <3>3. Passed(s)'
      BY <2>1, <2>3, <3>1, <3>2 DEF Passed, At
    <3>4. "UpdateStatus" \in Label \ {"answered"}
      BY DEF Label
    <3>. QED
      BY <2>1, <2>3, <3>3, <3>4, GotoIInv
  <2>. QED
    BY <2>1, <2>2, <2>3
<1>. QED
  BY <1>1, <1>2, <1>3

----------------------------------------------------------------------------
\* IInv is inductive.
LEMMA NextIInv == IInv /\ [Next]_vars => IInv'
<1>. SUFFICES ASSUME IInv, [Next]_vars PROVE IInv'
  OBVIOUS
<1>1. ASSUME NEW s \in Slot, Step(s) PROVE IInv'
  BY <1>1, ReceiveIInv, EnterIInv, CreateGoalIInv, ReadIInv, FindGoalIInv,
     CreateTaskIInv, TasksUpdateWriteIInv, DeliverIInv DEF Step
<1>2. CASE Restart
  BY <1>2, RestartIInv
<1>3. CASE UNCHANGED vars
  <2>1. Shape'
    BY <1>3 DEF IInv, vars, Shape
  <2>2. Pending' /\ Given'
    BY <1>3 DEF IInv, vars, Pending, Passed, At, Given, MadeBy
  <2>3. TaskOwnership' /\ AckedTasksKept'
    BY <1>3 DEF IInv, vars, TaskOwnership, AckedTasksKept
  <2>. QED
    BY <2>1, <2>2, <2>3 DEF IInv
<1>. QED
  BY <1>1, <1>2, <1>3 DEF Next

\* The owner check outlives the gap between the two databases: for any number
\* of concurrent requests, faults and restarts, every task was made by the
\* owner of the goal it was made through.
THEOREM OwnershipHolds == Spec => []TaskOwnership
<1>1. IInv => TaskOwnership
  BY DEF IInv
<1>. QED
  BY <1>1, InitIInv, NextIInv, PTL DEF Spec

\* A task that a client was told of is there for good, under its id.
THEOREM AckedTasksHold == Spec => []AckedTasksKept
<1>1. IInv => AckedTasksKept
  BY DEF IInv
<1>. QED
  BY <1>1, InitIInv, NextIInv, PTL DEF Spec

\* PUT .../status changes nothing but a status, and that only while some goal
\* has an id that ParseInt takes for an integer.
THEOREM UpdateNeedsIntegerGoal == Spec => StatusNeedsIntegerGoal
<1>. DEFINE Kept(i) ==
       /\ i \in DOMAIN tasks'
       /\ tasks'[i] # tasks[i] =>
            /\ tasks'[i] = [tasks[i] EXCEPT !.status = tasks'[i].status]
            /\ \E o \in DOMAIN goals : ParseInt(o)
<1>1. ASSUME IInv, Next, NEW i \in DOMAIN tasks PROVE Kept(i)
  <2>1. ASSUME NEW s \in Slot, TasksUpdateWrite(s) PROVE Kept(i)
    <3>1. req[s].goalId \in DOMAIN goals /\ ParseInt(req[s].goalId)
      BY <1>1, <2>1 DEF IInv, Pending, Passed, TasksUpdateWrite
    <3>2. DOMAIN tasks' = DOMAIN tasks
      BY <2>1 DEF TasksUpdateWrite
    <3>3. \/ tasks'[i] = tasks[i]
          \/ tasks'[i] = [tasks[i] EXCEPT !.status = req[s].status]
      BY <2>1 DEF TasksUpdateWrite
    <3>4. tasks[i] \in [goal_id : PgGoals, status : Status, goal : Oid, by : User]
      BY <1>1 DEF IInv, Shape
    <3>5. CASE tasks'[i] = [tasks[i] EXCEPT !.status = req[s].status]
      <4>1. tasks'[i].status = req[s].status
        BY <3>4, <3>5
      <4>. QED
        BY <3>1, <3>2, <3>5, <4>1
    <3>. QED
      BY <3>2, <3>3, <3>5
  <2>2. ASSUME NEW s \in Slot, CreateTask(s) PROVE Kept(i)
    <3>1. tasks_id_seq + 1 \notin DOMAIN tasks
      BY <1>1 DEF IInv, Shape
    <3>. QED
      BY <1>1, <2>2, <3>1 DEF CreateTask, Inserted
  <2>3. CASE UNCHANGED tasks
    BY <1>1, <2>3
  <2>4. ASSUME NEW s \in Slot, Step(s), ~TasksUpdateWrite(s), ~CreateTask(s)
        PROVE  UNCHANGED tasks
    BY <2>4 DEF Step, Receive, GoalsCreate, CreateGoal, GoalsList,
         GoalsListFind, TasksCreate, TasksCreateFindGoal, TasksList,
         TasksListFindGoal, TasksListSelect, TasksUpdate, TasksUpdateFindGoal,
         DbFails, Deliver, stored
  <2>. QED
    BY <1>1, <2>1, <2>2, <2>3, <2>4 DEF Next, Restart, stored
<1>2. IInv /\ [Next]_vars => [\A i \in DOMAIN tasks : Kept(i)]_vars
  BY <1>1
<1>. QED
  BY <1>2, InitIInv, NextIInv, PTL DEF Spec, StatusNeedsIntegerGoal

\* While all object ids start with a digit other than 0, as those made since
\* July 1978 do, and Int64Max has fewer digits than they have, PUT .../status
\* sets nothing: a task stays for good as it was made.
THEOREM StatusNeverSet ==
  ASSUME Int64Max < LeastLong, \A o \in Oid : o[1] # 0
  PROVE  Spec => [][\A i \in DOMAIN tasks :
                      i \in DOMAIN tasks' /\ tasks'[i] = tasks[i]]_vars
<1>. DEFINE Set(i) ==
       /\ i \in DOMAIN tasks'
       /\ tasks'[i] # tasks[i] =>
            /\ tasks'[i] = [tasks[i] EXCEPT !.status = tasks'[i].status]
            /\ \E o \in DOMAIN goals : ParseInt(o)
<1>1. IInv => ~ \E o \in DOMAIN goals : ParseInt(o)
  BY OidAssumption, OidOverflows DEF IInv, Shape
<1>2. IInv /\ [\A i \in DOMAIN tasks : Set(i)]_vars
        => [\A i \in DOMAIN tasks :
              i \in DOMAIN tasks' /\ tasks'[i] = tasks[i]]_vars
  BY <1>1
<1>3. Spec => [][\A i \in DOMAIN tasks : Set(i)]_vars
  BY UpdateNeedsIntegerGoal DEF StatusNeedsIntegerGoal
<1>. HIDE DEF Set
<1>. QED
  BY <1>2, <1>3, InitIInv, NextIInv, PTL DEF Spec

----------------------------------------------------------------------------
(***************************************************************************)
(* The handlers implement TaskBoard, for all users, slots, object ids,     *)
(* path arguments and requests.  The rows lose their goal_id on the way    *)
(* (Promised); goals and what clients were told map to themselves.         *)
(*                                                                         *)
(* Most steps stutter.  An insert maps to AddGoal or AddTask, whether its  *)
(* reply arrives or not; a status write maps to SetStatus, and to a        *)
(* stutter when it hits no row; reading an answer maps to Tell.            *)
(***************************************************************************)

\* The rows as TaskBoard sees them.
board == [i \in DOMAIN tasks |-> Promised(tasks[i])]

\* The goals that an answer on its way announces are in the collection.
GoalsGiven ==
  \A s \in Slot : pc[s] = "answered" /\ answer[s].code = 201 =>
    \A i \in DOMAIN answer[s].goals : answer[s].goals[i] \in DOMAIN goals

----------------------------------------------------------------------------
\* What a step of slot s must do for GoalsGiven to outlive it: goals stay, the
\* other slots stay, and its own answer announces only goals that are there.
LEMMA SlotKeepsGoalsGiven ==
  ASSUME IInv, GoalsGiven, NEW s \in Slot,
         DOMAIN goals \subseteq DOMAIN goals',
         \A q \in Slot \ {s} : pc'[q] = pc[q] /\ answer'[q] = answer[q],
         pc'[s] = "answered" /\ answer'[s].code = 201 =>
           \A i \in DOMAIN answer'[s].goals : answer'[s].goals[i] \in DOMAIN goals'
  PROVE  GoalsGiven'
BY DEF GoalsGiven

\* Going on to another label announces nothing.
LEMMA GotoKeepsGoalsGiven ==
  ASSUME IInv, GoalsGiven, NEW s \in Slot, NEW label, label # "answered",
         Goto(s, label), UNCHANGED goals
  PROVE  GoalsGiven'
<1>1. /\ \A q \in Slot \ {s} : pc'[q] = pc[q] /\ answer'[q] = answer[q]
      /\ pc'[s] = label
  BY DEF Goto, IInv, Shape
<1>. QED
  BY <1>1, SlotKeepsGoalsGiven

\* An answer that names no goal, or is no 201, announces none.
LEMMA ReplyKeepsGoalsGiven ==
  ASSUME IInv, GoalsGiven, NEW s \in Slot, NEW a, Reply(s, a),
         UNCHANGED goals, a.code # 201 \/ a.goals = <<>>
  PROVE  GoalsGiven'
<1>1. /\ \A q \in Slot \ {s} : pc'[q] = pc[q] /\ answer'[q] = answer[q]
      /\ answer'[s] = a
  BY DEF Reply, IInv, Shape
<1>. QED
  BY <1>1, SlotKeepsGoalsGiven

\* A refusal or a fault announces none.
LEMMA RefuseKeepsGoalsGiven ==
  ASSUME IInv, GoalsGiven, NEW s \in Slot, UNCHANGED goals,
         (\E code : Refuse(s, code)) \/ Fault(s)
  PROVE  GoalsGiven'
<1>1. ASSUME NEW code, Refuse(s, code) PROVE GoalsGiven'
  <2>. DEFINE a == [NoAnswer EXCEPT !.code = code]
  <2>1. a.goals = <<>>
    BY DEF NoAnswer
  <2>2. Reply(s, a)
    BY <1>1 DEF Refuse
  <2>. HIDE DEF a
  <2>. QED
    BY <2>1, <2>2, ReplyKeepsGoalsGiven
<1>2. CASE Fault(s)
  <2>. DEFINE a == [NoAnswer EXCEPT !.code = 500, !.fault = TRUE]
  <2>1. a.goals = <<>>
    BY DEF NoAnswer
  <2>2. Reply(s, a)
    BY <1>2 DEF Fault
  <2>. HIDE DEF a
  <2>. QED
    BY <2>1, <2>2, ReplyKeepsGoalsGiven
<1>. QED
  BY <1>1, <1>2

\* The insert of a goal announces the goal it has inserted.
LEMMA CreateGoalKeepsGoalsGiven ==
  ASSUME IInv, GoalsGiven, NEW s \in Slot, CreateGoal(s)
  PROVE  GoalsGiven'
<1>1. PICK oid \in Oid \ DOMAIN goals :
        /\ goals' = [o \in DOMAIN goals \cup {oid} |->
                       IF o = oid THEN req[s].user ELSE goals[o]]
        /\ \/ Reply(s, [NoAnswer EXCEPT !.code = 201, !.goals = <<oid>>])
           \/ Fault(s)
  BY DEF CreateGoal
<1>2. DOMAIN goals' = DOMAIN goals \cup {oid}
  BY <1>1
<1>3. PICK a : Reply(s, a) /\ a.goals \in {<<oid>>, <<>>}
  <2>. DEFINE c == [NoAnswer EXCEPT !.code = 201, !.goals = <<oid>>]
              f == [NoAnswer EXCEPT !.code = 500, !.fault = TRUE]
  <2>1. c.goals = <<oid>> /\ f.goals = <<>>
    BY DEF NoAnswer
  <2>2. Reply(s, c) \/ Reply(s, f)
    BY <1>1 DEF Fault
  <2>. HIDE DEF c, f
  <2>. QED
    BY <2>1, <2>2
<1>4. /\ \A q \in Slot \ {s} : pc'[q] = pc[q] /\ answer'[q] = answer[q]
      /\ answer'[s] = a
  BY <1>3 DEF Reply, IInv, Shape
<1>5. \A i \in DOMAIN a.goals : a.goals[i] \in DOMAIN goals'
  BY <1>2, <1>3
<1>. QED
  BY <1>2, <1>4, <1>5, SlotKeepsGoalsGiven

\* GoalsGiven is inductive next to IInv.
LEMMA NextGoalsGiven == IInv /\ GoalsGiven /\ [Next]_vars => GoalsGiven'
<1>. SUFFICES ASSUME IInv, GoalsGiven, [Next]_vars PROVE GoalsGiven'
  OBVIOUS
<1>1. ASSUME NEW s \in Slot, Receive(s) PROVE GoalsGiven'
  <2>1. /\ \A q \in Slot \ {s} : pc'[q] = pc[q] /\ answer'[q] = answer[q]
        /\ pc'[s] = "received" /\ goals' = goals
    BY <1>1 DEF Receive, stored, IInv, Shape
  <2>. QED
    BY <2>1, SlotKeepsGoalsGiven
<1>2. ASSUME NEW s \in Slot,
             \/ GoalsCreate(s) \/ GoalsList(s) \/ TasksCreate(s)
             \/ TasksList(s) \/ TasksUpdate(s) \/ TasksCreateFindGoal(s)
             \/ TasksListFindGoal(s) \/ TasksUpdateFindGoal(s) \/ DbFails(s)
      PROVE  GoalsGiven'
  <2>1. /\ UNCHANGED goals
        /\ \/ \E code : Refuse(s, code)
           \/ Fault(s)
           \/ \E label \in Label \ {"answered"} : Goto(s, label)
    BY <1>2 DEF GoalsCreate, GoalsList, TasksCreate, TasksList, TasksUpdate,
         TasksCreateFindGoal, TasksListFindGoal, TasksUpdateFindGoal, DbFails,
         OwnGoal, TooManyRequests, stored, Label
  <2>. QED
    BY <2>1, GotoKeepsGoalsGiven, RefuseKeepsGoalsGiven
<1>3. ASSUME NEW s \in Slot, CreateGoal(s) PROVE GoalsGiven'
  BY <1>3, CreateGoalKeepsGoalsGiven
<1>4. ASSUME NEW s \in Slot, GoalsListFind(s) PROVE GoalsGiven'
  <2>. DEFINE a == [NoAnswer EXCEPT !.code = 200,
                                    !.goals = GetByUser(req[s].user)]
  <2>1. a.code # 201
    BY DEF NoAnswer
  <2>2. Reply(s, a) /\ UNCHANGED goals
    BY <1>4 DEF GoalsListFind, stored
  <2>. HIDE DEF a
  <2>. QED
    BY <2>1, <2>2, ReplyKeepsGoalsGiven
<1>5. ASSUME NEW s \in Slot,
             CreateTask(s) \/ TasksListSelect(s) \/ TasksUpdateWrite(s)
      PROVE  GoalsGiven'
  <2>. DEFINE Says(code, T) ==
                \/ Reply(s, [NoAnswer EXCEPT !.code = code, !.tasks = T])
                \/ Refuse(s, code)
                \/ Fault(s)
  <2>1. ASSUME CreateTask(s)
        PROVE  UNCHANGED goals /\ \E code, T : Says(code, T)
    BY <2>1 DEF CreateTask
  <2>2. ASSUME TasksListSelect(s)
        PROVE  UNCHANGED goals /\ \E code, T : Says(code, T)
    BY <2>2 DEF TasksListSelect, stored
  <2>3. ASSUME TasksUpdateWrite(s)
        PROVE  UNCHANGED goals /\ \E code, T : Says(code, T)
    <3>. DEFINE hit == UpdateStatus(Stoll(req[s].goalId).value,
                                    Stoll(req[s].taskId).value)
    <3>1. /\ UNCHANGED goals
          /\ \/ Refuse(s, 404)
             \/ Reply(s, [NoAnswer EXCEPT !.code = 200, !.tasks = hit])
             \/ Fault(s)
      BY <2>3 DEF TasksUpdateWrite
    <3>2. Says(200, hit) \/ Says(404, hit)
      BY <3>1
    <3>. HIDE DEF hit, Says
    <3>. QED
      BY <3>1, <3>2
  <2>4. PICK code, T : UNCHANGED goals /\ Says(code, T)
    BY <1>5, <2>1, <2>2, <2>3
  <2>5. CASE Reply(s, [NoAnswer EXCEPT !.code = code, !.tasks = T])
    <3>. DEFINE a == [NoAnswer EXCEPT !.code = code, !.tasks = T]
    <3>1. a.goals = <<>>
      BY DEF NoAnswer
    <3>2. Reply(s, a) /\ UNCHANGED goals
      BY <2>4, <2>5
    <3>. HIDE DEF a
    <3>. QED
      BY <3>1, <3>2, ReplyKeepsGoalsGiven
  <2>. QED
    BY <2>4, <2>5, RefuseKeepsGoalsGiven
<1>6. ASSUME NEW s \in Slot, Deliver(s) PROVE GoalsGiven'
  <2>1. /\ \A q \in Slot \ {s} : pc'[q] = pc[q] /\ answer'[q] = answer[q]
        /\ pc'[s] = "idle" /\ goals' = goals
    BY <1>6 DEF Deliver, stored, IInv, Shape
  <2>. QED
    BY <2>1, SlotKeepsGoalsGiven
<1>7. CASE Restart
  BY <1>7 DEF Restart, GoalsGiven
<1>8. CASE UNCHANGED vars
  BY <1>8 DEF vars, GoalsGiven
<1>. QED
  BY <1>1, <1>2, <1>3, <1>4, <1>5, <1>6, <1>7, <1>8 DEF Next, Step

----------------------------------------------------------------------------
(* Each step maps to a step of TaskBoard or to a stutter.                  *)

\* A goal that is inserted is a new goal of its maker.
LEMMA CreateGoalAdds ==
  ASSUME IInv, NEW s \in Slot, CreateGoal(s)
  PROVE  Board!AddGoal
<1>1. req[s].user \in User
  BY RequestsAssumption DEF CreateGoal, IInv, Pending, Passed, Request
<1>2. PICK oid \in Oid \ DOMAIN goals :
        goals' = [o \in DOMAIN goals \cup {oid} |->
                    IF o = oid THEN req[s].user ELSE goals[o]]
  BY DEF CreateGoal
<1>3. UNCHANGED <<board, acked>>
  BY DEF CreateGoal, board, client
<1>. QED
  BY <1>1, <1>2, <1>3 DEF Board!AddGoal, board

\* A task that is inserted is a new task, made by the owner of its goal; an
\* insert that the foreign key refuses is no step of TaskBoard.
LEMMA CreateTaskAdds ==
  ASSUME IInv, NEW s \in Slot, CreateTask(s)
  PROVE  Board!AddTask \/ UNCHANGED Board!vars
<1>. DEFINE id  == tasks_id_seq + 1
            row == NewTask(req[s])
            g   == req[s].goalId
<1>1. id \in 1 .. MaxTasks /\ id \notin DOMAIN tasks
  BY BoundAssumption DEF CreateTask, IInv, Shape
<1>2. g \in DOMAIN goals /\ goals[g] = req[s].user
  BY DEF CreateTask, IInv, Pending, Passed
<1>3. Promised(row) = [goal |-> g, by |-> goals[g], status |-> "todo"]
  BY <1>2 DEF Promised, NewTask
<1>4. UNCHANGED <<goals, acked>>
  BY DEF CreateTask, client
<1>5. \/ tasks' = Inserted(id, row)
      \/ tasks' = tasks
  BY DEF CreateTask
<1>. HIDE DEF id, row, g
<1>6. CASE tasks' = Inserted(id, row)
  <2>1. board' = [j \in DOMAIN board \cup {id} |->
                    IF j = id
                    THEN [goal |-> g, by |-> goals[g], status |-> "todo"]
                    ELSE board[j]]
    BY <1>1, <1>3, <1>6 DEF board, Inserted
  <2>. QED
    BY <1>1, <1>2, <1>4, <2>1 DEF Board!AddTask, board
<1>7. CASE tasks' = tasks
  BY <1>4, <1>7 DEF Board!vars
<1>. QED
  BY <1>5, <1>6, <1>7

\* A status write hits one row at most and changes its status alone.
LEMMA UpdateSetsStatus ==
  ASSUME IInv, NEW s \in Slot, TasksUpdateWrite(s)
  PROVE  Board!SetStatus \/ UNCHANGED Board!vars
<1>. DEFINE id  == Stoll(req[s].taskId).value
            hit == UpdateStatus(Stoll(req[s].goalId).value, id)
            old == UpdateStatus(Stoll(req[s].goalId).value,
                                Stoll(req[s].taskId).value)
            st  == req[s].status
<1>1. st \in Status
  BY DEF TasksUpdateWrite, IInv, Pending, Passed
<1>2. UNCHANGED <<goals, acked>>
  BY DEF TasksUpdateWrite, client
<1>3. tasks' = [i \in DOMAIN tasks |->
                  IF i \in hit THEN [tasks[i] EXCEPT !.status = st] ELSE tasks[i]]
  BY DEF TasksUpdateWrite
<1>4. PICK i : hit \subseteq {i} /\ (hit # {} => i \in DOMAIN tasks)
  BY DEF UpdateStatus
<1>. HIDE DEF id, hit, st
<1>5. ASSUME NEW j \in DOMAIN tasks
      PROVE  board'[j] = IF j \in hit THEN [board[j] EXCEPT !.status = st]
                                      ELSE board[j]
  <2>1. tasks[j] \in [goal_id : PgGoals, status : Status, goal : Oid, by : User]
    BY DEF IInv, Shape
  <2>2. CASE j \in hit
    <3>1. tasks'[j] = [tasks[j] EXCEPT !.status = st]
      BY <1>3, <2>2
    <3>2. /\ tasks'[j].goal = tasks[j].goal /\ tasks'[j].by = tasks[j].by
          /\ tasks'[j].status = st
      BY <2>1, <3>1
    <3>3. board'[j] = Promised(tasks[j])'
      BY <1>3 DEF board
    <3>4. board[j] = Promised(tasks[j])
      BY DEF board
    <3>. QED
      BY <2>2, <3>2, <3>3, <3>4 DEF Promised
  <2>3. CASE j \notin hit
    BY <1>3, <2>3 DEF board
  <2>. QED
    BY <2>2, <2>3
<1>6. DOMAIN board = DOMAIN tasks /\ DOMAIN board' = DOMAIN tasks
  BY <1>3 DEF board
<1>7. CASE hit = {}
  <2>1. board' = board
    BY <1>5, <1>6, <1>7 DEF board
  <2>. QED
    BY <1>2, <2>1 DEF Board!vars, board
<1>8. CASE hit # {}
  <2>1. i \in DOMAIN tasks /\ hit = {i}
    BY <1>4, <1>8
  <2>2. board' = [board EXCEPT ![i].status = st]
    BY <1>5, <1>6, <2>1 DEF board
  <2>. QED
    BY <1>1, <1>2, <1>6, <2>1, <2>2 DEF Board!SetStatus, board
<1>. QED
  BY <1>7, <1>8

\* What an answer announces is there when it is read.
LEMMA DeliverTells ==
  ASSUME IInv, GoalsGiven, NEW s \in Slot, Deliver(s)
  PROVE  Board!Tell
<1>1. UNCHANGED <<goals, board>>
  BY DEF Deliver, stored, board
<1>2. acked' = [goals |-> acked.goals \cup Created(s).goals,
                tasks |-> acked.tasks \cup Created(s).tasks]
  BY DEF Deliver
<1>3. DOMAIN board = DOMAIN tasks
  BY DEF board
<1>4. PICK T \in SUBSET DOMAIN board :
        Created(s).tasks =
          {[id |-> i, goal |-> board[i].goal, by |-> board[i].by] : i \in T}
  <2>1. CASE answer[s].code = 201
    <3>1. \A i \in answer[s].tasks : MadeBy(i, req[s].goalId, req[s].user)
      BY <2>1 DEF IInv, Given, Deliver
    <3>2. \A i \in answer[s].tasks :
            /\ i \in DOMAIN board
            /\ board[i].goal = req[s].goalId /\ board[i].by = req[s].user
      BY <3>1 DEF MadeBy, board, Promised
    <3>3. Created(s).tasks =
            {[id |-> i, goal |-> req[s].goalId, by |-> req[s].user] :
               i \in answer[s].tasks}
      BY <2>1 DEF Created
    <3>4. Created(s).tasks =
            {[id |-> i, goal |-> board[i].goal, by |-> board[i].by] :
               i \in answer[s].tasks}
      BY <3>2, <3>3
    <3>. QED
      BY <3>2, <3>4
  <2>2. CASE answer[s].code # 201
    BY <2>2 DEF Created, Nothing
  <2>. QED
    BY <2>1, <2>2
<1>5. Created(s).goals \in SUBSET DOMAIN goals
  <2>1. CASE answer[s].code = 201
    BY <2>1 DEF Created, GoalsGiven, Deliver
  <2>2. CASE answer[s].code # 201
    BY <2>2 DEF Created, Nothing
  <2>. QED
    BY <2>1, <2>2
<1>. QED
  BY <1>1, <1>2, <1>4, <1>5 DEF Board!Tell, board

\* Every step maps to a step of TaskBoard or to a stutter.
LEMMA NextImplementsBoard ==
  IInv /\ GoalsGiven /\ [Next]_vars => [Board!Next]_(Board!vars)
<1>. SUFFICES ASSUME IInv, GoalsGiven, [Next]_vars
              PROVE  Board!Next \/ UNCHANGED Board!vars
  OBVIOUS
<1>1. ASSUME UNCHANGED <<goals, tasks, acked>> PROVE UNCHANGED Board!vars
  BY <1>1 DEF Board!vars
<1>2. ASSUME NEW s \in Slot, Step(s), ~CreateGoal(s), ~CreateTask(s),
             ~TasksUpdateWrite(s), ~Deliver(s)
      PROVE  UNCHANGED <<goals, tasks, acked>>
  BY <1>2 DEF Step, Receive, GoalsCreate, GoalsList, GoalsListFind,
       TasksCreate, TasksCreateFindGoal, TasksList, TasksListFindGoal,
       TasksListSelect, TasksUpdate, TasksUpdateFindGoal, DbFails, stored, client
<1>3. ASSUME NEW s \in Slot, Step(s)
      PROVE  Board!Next \/ UNCHANGED Board!vars
  BY <1>1, <1>2, <1>3, CreateGoalAdds, CreateTaskAdds, UpdateSetsStatus,
     DeliverTells DEF Board!Next
<1>4. CASE Restart \/ UNCHANGED vars
  BY <1>1, <1>4 DEF Restart, vars, stored
<1>. QED
  BY <1>3, <1>4 DEF Next

\* For any number of concurrent requests, faults and restarts, the two
\* databases and the answers of the handlers behave as one TaskBoard.
THEOREM HandlersKeepBoard == Spec => KeepsBoard
<1>1. Init => Board!Init
  BY DEF Init, Board!Init, Nothing
<1>2. Init => GoalsGiven
  BY DEF Init, GoalsGiven
<1>. QED
  BY <1>1, <1>2, InitIInv, NextIInv, NextGoalsGiven, NextImplementsBoard, PTL
  DEF Spec, KeepsBoard, Board!Spec

----------------------------------------------------------------------------
(***************************************************************************)
(* What the answers say.  An answer is true when it is composed, and stays *)
(* so: goals stay with their owners and rows with their goals (StoredStay),*)
(* and what the client knew when it asked is fixed.                        *)
(***************************************************************************)

GoalsStay ==
  /\ DOMAIN goals \subseteq DOMAIN goals'
  /\ \A o \in DOMAIN goals : goals'[o] = goals[o]

RowsStay ==
  \A i \in DOMAIN tasks :
    /\ i \in DOMAIN tasks'
    /\ tasks'[i].goal = tasks[i].goal /\ tasks'[i].by = tasks[i].by

LEMMA StoredStay ==
  ASSUME IInv, [Next]_vars
  PROVE  GoalsStay /\ RowsStay
<1>1. ASSUME UNCHANGED goals PROVE GoalsStay
  BY <1>1 DEF GoalsStay
<1>2. ASSUME UNCHANGED tasks PROVE RowsStay
  BY <1>2 DEF RowsStay
<1>3. ASSUME NEW s \in Slot, CreateGoal(s) PROVE GoalsStay /\ RowsStay
  <2>1. GoalsStay
    BY <1>3 DEF CreateGoal, GoalsStay
  <2>. QED
    BY <1>2, <1>3, <2>1 DEF CreateGoal
<1>4. ASSUME NEW s \in Slot, CreateTask(s) PROVE GoalsStay /\ RowsStay
  <2>1. tasks_id_seq + 1 \notin DOMAIN tasks
    BY DEF IInv, Shape
  <2>2. RowsStay
    BY <1>4, <2>1 DEF CreateTask, Inserted, RowsStay
  <2>. QED
    BY <1>1, <1>4, <2>2 DEF CreateTask
<1>5. ASSUME NEW s \in Slot, TasksUpdateWrite(s) PROVE GoalsStay /\ RowsStay
  <2>. DEFINE hit == UpdateStatus(Stoll(req[s].goalId).value,
                                  Stoll(req[s].taskId).value)
  <2>1. tasks' = [i \in DOMAIN tasks |->
                    IF i \in hit
                    THEN [tasks[i] EXCEPT !.status = req[s].status]
                    ELSE tasks[i]]
    BY <1>5 DEF TasksUpdateWrite
  <2>. HIDE DEF hit
  <2>2. ASSUME NEW i \in DOMAIN tasks
        PROVE  /\ i \in DOMAIN tasks'
               /\ tasks'[i].goal = tasks[i].goal /\ tasks'[i].by = tasks[i].by
    <3>1. tasks[i] \in
            [goal_id : PgGoals, status : Status, goal : Oid, by : User]
      BY DEF IInv, Shape
    <3>2. \/ tasks'[i] = [tasks[i] EXCEPT !.status = req[s].status]
          \/ tasks'[i] = tasks[i]
      BY <2>1
    <3>. QED
      BY <2>1, <3>1, <3>2
  <2>. QED
    BY <1>1, <1>5, <2>2 DEF TasksUpdateWrite, RowsStay
<1>6. ASSUME NEW s \in Slot, Step(s), ~CreateGoal(s), ~CreateTask(s),
             ~TasksUpdateWrite(s)
      PROVE  UNCHANGED <<goals, tasks>>
  BY <1>6 DEF Step, Receive, GoalsCreate, GoalsList, GoalsListFind,
       TasksCreate, TasksCreateFindGoal, TasksList, TasksListFindGoal,
       TasksListSelect, TasksUpdate, TasksUpdateFindGoal, DbFails, Deliver,
       stored
<1>7. CASE Restart \/ UNCHANGED vars
  BY <1>1, <1>2, <1>7 DEF Restart, vars, stored
<1>. QED
  BY <1>1, <1>2, <1>3, <1>4, <1>5, <1>6, <1>7 DEF Next

\* What a client was told of before it asked is there.
KnownTrue(s) ==
  /\ known[s].goals \subseteq DOMAIN goals
  /\ \A a \in known[s].tasks : MadeBy(a.id, a.goal, a.by)

\* The goal asked for is the caller's.
OwnsGoal(s) ==
  req[s].goalId \in DOMAIN goals /\ goals[req[s].goalId] = req[s].user

\* What the request has passed when it waits to read a list.
Asks(s) ==
  /\ pc[s] = "GetByUser" => req[s].op = "goals_list"
  /\ pc[s] = "GetByGoal" => req[s].op = "tasks_list" /\ OwnsGoal(s)

\* The list of goals l is the answer to the request of slot s.
GoalsOf(s, l) ==
  /\ \A i \in DOMAIN l : l[i] \in DOMAIN goals /\ goals[l[i]] = req[s].user
  /\ \A i, j \in DOMAIN l : i < j => OidValue(l[i]) > OidValue(l[j])
  /\ \A o \in known[s].goals :
       goals[o] = req[s].user => \E i \in DOMAIN l : l[i] = o

\* The tasks T are an answer to the request of slot s.
TasksOf(s, T) ==
  /\ \A a \in known[s].tasks : a.goal = req[s].goalId => a.id \in T
  /\ \A i \in T :
       /\ i \in DOMAIN tasks
       /\ Stoll(tasks[i].goal).value = Stoll(req[s].goalId).value
       /\ tasks[i].goal = req[s].goalId => tasks[i].by = req[s].user

\* It would be true to answer a in slot s.
True(s, a) ==
  /\ req[s].op = "goals_list" /\ a.code = 200 => GoalsOf(s, a.goals)
  /\ req[s].op = "tasks_list" /\ a.code = 200 => TasksOf(s, a.tasks)
  /\ req[s].op \in {"tasks_create", "tasks_list"} =>
       /\ a.code \in {200, 201} => OwnsGoal(s)
       /\ a.code = 404 => ~(req[s].goalId \in known[s].goals /\ OwnsGoal(s))

Honest(s) ==
  /\ KnownTrue(s)
  /\ Asks(s)
  /\ pc[s] = "answered" => True(s, answer[s])

\* With GoalsGiven and IInv, this is inductive.
Answers ==
  /\ IsFiniteSet(DOMAIN goals)
  /\ acked.goals \subseteq DOMAIN goals
  /\ DOMAIN known = Slot
  /\ \A s \in Slot : Honest(s)

----------------------------------------------------------------------------
\* Steps that leave a slot alone leave it honest.
LEMMA OthersHonest ==
  ASSUME GoalsStay, RowsStay, NEW s \in Slot, Honest(s),
         pc'[s] = pc[s], req'[s] = req[s], known'[s] = known[s],
         answer'[s] = answer[s]
  PROVE  Honest(s)'
<1>1. KnownTrue(s)'
  BY DEF Honest, KnownTrue, MadeBy, GoalsStay, RowsStay
<1>2. Asks(s)'
  BY DEF Honest, Asks, OwnsGoal, GoalsStay
<1>3. ASSUME pc'[s] = "answered" PROVE True(s, answer[s])'
  <2>1. True(s, answer[s])
    BY <1>3 DEF Honest
  <2>2. \A o \in known[s].goals : o \in DOMAIN goals /\ goals'[o] = goals[o]
    BY DEF Honest, KnownTrue, GoalsStay
  <2>3. GoalsOf(s, answer[s].goals) => GoalsOf(s, answer[s].goals)'
    BY <2>2 DEF GoalsOf, GoalsStay
  <2>4. TasksOf(s, answer[s].tasks) => TasksOf(s, answer[s].tasks)'
    BY DEF TasksOf, RowsStay
  <2>5. OwnsGoal(s) => OwnsGoal(s)'
    BY DEF OwnsGoal, GoalsStay
  <2>6. req[s].goalId \in known[s].goals /\ OwnsGoal(s)' => OwnsGoal(s)
    BY <2>2 DEF OwnsGoal
  <2>. QED
    BY <2>1, <2>3, <2>4, <2>5, <2>6 DEF True
<1>. QED
  BY <1>1, <1>2, <1>3 DEF Honest

\* A slot that goes on to another label has passed what that label asks for.
LEMMA GotoHonest ==
  ASSUME IInv, NEW s \in Slot, Honest(s), NEW label, label # "answered",
         Goto(s, label), UNCHANGED <<stored, client>>,
         label = "GetByUser" => req[s].op = "goals_list",
         label = "GetByGoal" => req[s].op = "tasks_list" /\ OwnsGoal(s)
  PROVE  Honest(s)'
<1>1. /\ pc'[s] = label
      /\ UNCHANGED <<goals, tasks, req, known>>
  BY DEF Goto, IInv, Shape, stored, client
<1>2. KnownTrue(s)'
  BY <1>1 DEF Honest, KnownTrue, MadeBy
<1>3. Asks(s)'
  BY <1>1 DEF Asks, OwnsGoal
<1>. QED
  BY <1>1, <1>2, <1>3 DEF Honest

\* A slot that answers is honest if the answer is true.
LEMMA ReplyHonest ==
  ASSUME IInv, NEW s \in Slot, Honest(s), GoalsStay, RowsStay,
         NEW a, Reply(s, a), UNCHANGED client, True(s, a)'
  PROVE  Honest(s)'
<1>1. /\ pc'[s] = "answered" /\ answer'[s] = a
      /\ UNCHANGED <<req, known>>
  BY DEF Reply, IInv, Shape, client
<1>2. KnownTrue(s)'
  BY <1>1 DEF Honest, KnownTrue, MadeBy, GoalsStay, RowsStay
<1>3. Asks(s)'
  BY <1>1 DEF Asks
<1>4. True(s, answer[s])'
  BY <1>1 DEF True, GoalsOf, TasksOf, OwnsGoal
<1>. QED
  BY <1>1, <1>2, <1>3, <1>4 DEF Honest

\* A refusal other than 404 and a fault say nothing that could be wrong.
LEMMA RefuseHonest ==
  ASSUME IInv, NEW s \in Slot, Honest(s), UNCHANGED <<stored, client>>,
         \/ \E code \in {400, 429, 500} : Refuse(s, code)
         \/ Fault(s)
  PROVE  Honest(s)'
<1>1. PICK a : Reply(s, a) /\ a.code \notin {200, 201, 404}
  <2>1. CASE Fault(s)
    BY <2>1, FaultIsReply
  <2>2. ASSUME NEW code \in {400, 429, 500}, Refuse(s, code)
        PROVE  \E a : Reply(s, a) /\ a.code \notin {200, 201, 404}
    <3>. DEFINE a == [NoAnswer EXCEPT !.code = code]
    <3>1. a.code \notin {200, 201, 404}
      BY DEF NoAnswer
    <3>2. Reply(s, a)
      BY <2>2 DEF Refuse
    <3>. HIDE DEF a
    <3>. QED
      BY <3>1, <3>2
  <2>. QED
    BY <2>1, <2>2
<1>2. True(s, a)'
  BY <1>1 DEF True
<1>3. GoalsStay /\ RowsStay /\ UNCHANGED client
  BY DEF GoalsStay, RowsStay, stored
<1>. QED
  BY <1>1, <1>2, <1>3, ReplyHonest

\* The goal lookup: 404 is said of a goal that is not there, which the client
\* was not told of then, or of somebody else's.
LEMMA OwnGoalHonest ==
  ASSUME IInv, NEW s \in Slot, Honest(s),
         NEW op \in {"tasks_create", "tasks_list"}, req[s].op = op,
         NEW label \in {"CreateTask", "GetByGoal"},
         label = "GetByGoal" => op = "tasks_list",
         OwnGoal(s, label), UNCHANGED <<stored, client>>
  PROVE  Honest(s)'
<1>1. \/ Refuse(s, 500)
      \/ Refuse(s, 404) /\ ~OwnsGoal(s)
      \/ Goto(s, label) /\ OwnsGoal(s)
  BY DEF OwnGoal, GetById, OwnsGoal
<1>2. CASE Refuse(s, 500)
  BY <1>2, RefuseHonest
<1>3. CASE Refuse(s, 404) /\ ~OwnsGoal(s)
  <2>. DEFINE a == [NoAnswer EXCEPT !.code = 404]
  <2>1. a.code = 404
    BY DEF NoAnswer
  <2>2. Reply(s, a)
    BY <1>3 DEF Refuse
  <2>. HIDE DEF a
  <2>3. True(s, a)'
    BY <1>3, <2>1 DEF True, OwnsGoal, stored, client
  <2>4. GoalsStay /\ RowsStay /\ UNCHANGED client
    BY DEF GoalsStay, RowsStay, stored
  <2>. QED
    BY <2>2, <2>3, <2>4, ReplyHonest
<1>4. CASE Goto(s, label) /\ OwnsGoal(s)
  BY <1>4, GotoHonest
<1>. QED
  BY <1>1, <1>2, <1>3, <1>4

----------------------------------------------------------------------------
(* The two lists.                                                          *)

\* Object ids can be sorted, as no two of them compare as equal.
LEMMA SortExists ==
  ASSUME NEW oids, IsFiniteSet(oids), oids \subseteq Oid
  PROVE  \E list \in [1 .. Cardinality(oids) -> oids] :
           \A i, j \in DOMAIN list :
             i < j => OidValue(list[i]) > OidValue(list[j])
<1>. DEFINE Sorted(S, list) ==
              /\ list \in [1 .. Cardinality(S) -> S]
              /\ \A i, j \in DOMAIN list :
                   i < j => OidValue(list[i]) > OidValue(list[j])
            N == {n \in Nat : \A S \in SUBSET oids :
                    Cardinality(S) = n => \E list : Sorted(S, list)}
<1>1. \A o \in Oid : OidValue(o) \in Nat
  BY OidAssumption, OidValueType
<1>2. 0 \in N
  <2>. SUFFICES ASSUME NEW S \in SUBSET oids, Cardinality(S) = 0
                PROVE  \E list : Sorted(S, list)
    OBVIOUS
  <2>1. S = {}
    BY FS_Subset, FS_EmptySet
  <2>2. Sorted(S, <<>>)
    BY <2>1
  <2>. QED
    BY <2>2
<1>3. ASSUME NEW n \in Nat, n \in N PROVE n + 1 \in N
  <2>. SUFFICES ASSUME NEW S \in SUBSET oids, Cardinality(S) = n + 1
                PROVE  \E list : Sorted(S, list)
    OBVIOUS
  <2>1. IsFiniteSet(S) /\ S # {} /\ S \subseteq Oid
    BY FS_Subset, FS_EmptySet
  <2>. DEFINE V == {OidValue(o) : o \in S}
  <2>2. V \subseteq Nat /\ V # {}
    BY <1>1, <2>1
  <2>. HIDE DEF V
  <2>3. PICK v \in V : \A w \in V : v <= w
    BY <2>2, LeastElement
  <2>4. PICK x \in S : v = OidValue(x)
    BY DEF V
  <2>5. ASSUME NEW o \in S, o # x PROVE OidValue(o) > OidValue(x)
    <3>1. OidValue(o) \in V
      BY DEF V
    <3>2. OidValue(o) # OidValue(x)
      BY <2>1, <2>5, OidAssumption, OidValueInjective
    <3>3. OidValue(x) <= OidValue(o)
      BY <2>3, <2>4, <3>1
    <3>4. PICK p \in Nat, q \in Nat : p = OidValue(o) /\ q = OidValue(x)
      BY <1>1, <2>1
    <3>5. q <= p /\ p # q => p > q
      OBVIOUS
    <3>. QED
      BY <3>2, <3>3, <3>4, <3>5
  <2>. DEFINE R == S \ {x}
  <2>6. R \in SUBSET oids /\ Cardinality(R) = n
    <3>1. Cardinality(R) = Cardinality(S) - 1
      BY <2>1, FS_RemoveElement
    <3>2. Cardinality(R) = n + 1 - 1
      BY <3>1
    <3>. QED
      BY <3>2
  <2>7. PICK list \in [1 .. n -> R] :
          \A i, j \in 1 .. n : i < j => OidValue(list[i]) > OidValue(list[j])
    <3>1. PICK list : Sorted(R, list)
      BY <1>3, <2>6
    <3>2. list \in [1 .. n -> R]
      BY <2>6, <3>1
    <3>. QED
      BY <3>1, <3>2
  <2>. DEFINE more == [i \in 1 .. n + 1 |-> IF i = n + 1 THEN x ELSE list[i]]
  <2>8. /\ more \in [1 .. n + 1 -> S] /\ more[n + 1] = x
        /\ \A i \in 1 .. n : more[i] = list[i] /\ more[i] \in R
    <3>1. \A i \in 1 .. n : i # n + 1 /\ i \in 1 .. n + 1 /\ list[i] \in R
      BY <2>7
    <3>2. \A i \in 1 .. n + 1 : i # n + 1 => i \in 1 .. n
      OBVIOUS
    <3>3. n + 1 \in 1 .. n + 1
      OBVIOUS
    <3>. QED
      BY <3>1, <3>2, <3>3
  <2>9. ASSUME NEW i \in 1 .. n + 1, NEW j \in 1 .. n + 1, i < j
        PROVE  OidValue(more[i]) > OidValue(more[j])
    <3>1. i \in 1 .. n
      BY <2>9
    <3>2. CASE j = n + 1
      BY <2>5, <2>8, <3>1, <3>2
    <3>3. CASE j # n + 1
      <4>1. j \in 1 .. n
        BY <3>3
      <4>. QED
        BY <2>7, <2>8, <2>9, <3>1, <4>1
    <3>. QED
      BY <3>2, <3>3
  <2>. HIDE DEF more
  <2>10. DOMAIN more = 1 .. n + 1
    BY <2>8
  <2>11. Sorted(S, more)
    BY <2>8, <2>9, <2>10
  <2>. QED
    BY <2>11
<1>. HIDE DEF N
<1>4. Nat \subseteq N
  BY <1>2, <1>3, SetInduction
<1>5. Cardinality(oids) \in N /\ oids \in SUBSET oids
  BY <1>4, FS_CardinalityType
<1>6. \E list : Sorted(oids, list)
  BY <1>5 DEF N
<1>. QED
  BY <1>6

\* A sorted list has every member of the set, and nothing else.
LEMMA NewestFirstLists ==
  ASSUME NEW oids, IsFiniteSet(oids), oids \subseteq Oid,
         NEW list, list = NewestFirst(oids)
  PROVE  /\ list \in [1 .. Cardinality(oids) -> oids]
         /\ \A i, j \in DOMAIN list :
              i < j => OidValue(list[i]) > OidValue(list[j])
         /\ \A o \in oids : \E i \in DOMAIN list : list[i] = o
<1>1. /\ list \in [1 .. Cardinality(oids) -> oids]
      /\ \A i, j \in DOMAIN list :
           i < j => OidValue(list[i]) > OidValue(list[j])
  BY SortExists DEF NewestFirst
<1>. DEFINE n == Cardinality(oids)
<1>2. n \in Nat
  BY FS_CardinalityType
<1>3. \A i \in 1 .. n : OidValue(list[i]) \in Nat
  BY <1>1, OidAssumption, OidValueType
<1>4. ASSUME NEW i \in 1 .. n, NEW j \in 1 .. n, list[i] = list[j] PROVE i = j
  <2>1. DOMAIN list = 1 .. n
    BY <1>1
  <2>. HIDE DEF n
  <2>2. PICK v \in Nat : v = OidValue(list[i]) /\ v = OidValue(list[j])
    BY <1>3, <1>4
  <2>3. ~(v > v)
    OBVIOUS
  <2>4. ~(i < j) /\ ~(j < i)
    BY <1>1, <2>1, <2>2, <2>3
  <2>. QED
    BY <1>2, <2>4
<1>5. list \in Injection(1 .. n, oids)
  BY <1>1, <1>4 DEF Injection, IsInjective
<1>6. Cardinality(1 .. n) = n
  BY <1>2, FS_Interval
<1>7. list \in Surjection(1 .. n, oids)
  BY <1>5, <1>6, FS_Injection
<1>8. \A o \in oids : \E i \in DOMAIN list : list[i] = o
  BY <1>1, <1>7 DEF Surjection
<1>. QED
  BY <1>1, <1>8

\* The list of goals that is read is the answer.
LEMMA GoalsListFindHonest ==
  ASSUME IInv, IsFiniteSet(DOMAIN goals), NEW s \in Slot, Honest(s),
         GoalsListFind(s)
  PROVE  Honest(s)'
<1>. DEFINE mine == {o \in DOMAIN goals : goals[o] = req[s].user}
            list == NewestFirst(mine)
            a    == [NoAnswer EXCEPT !.code = 200, !.goals = list]
<1>1. pc[s] = "GetByUser" /\ req[s].op = "goals_list"
  BY DEF GoalsListFind, Honest, Asks
<1>2. Reply(s, a) /\ UNCHANGED <<stored, client>>
  BY DEF GoalsListFind, GetByUser
<1>3. a.code = 200 /\ a.goals = list
  BY DEF NoAnswer
<1>4. IsFiniteSet(mine) /\ mine \subseteq Oid
  BY FS_Subset DEF IInv, Shape
<1>5. \A o \in mine : o \in DOMAIN goals /\ goals[o] = req[s].user
  OBVIOUS
<1>6. \A o \in known[s].goals : goals[o] = req[s].user => o \in mine
  BY DEF Honest, KnownTrue
<1>. HIDE DEF a, list, mine
<1>7. /\ list \in [1 .. Cardinality(mine) -> mine]
      /\ \A i, j \in DOMAIN list :
           i < j => OidValue(list[i]) > OidValue(list[j])
      /\ \A o \in mine : \E i \in DOMAIN list : list[i] = o
  BY <1>4, NewestFirstLists DEF list
<1>8. PICK l : l = list
  OBVIOUS
<1>9. GoalsOf(s, l)
  BY <1>5, <1>6, <1>7, <1>8 DEF GoalsOf
<1>10. PICK b : b = a
  OBVIOUS
<1>11. True(s, b)'
  <2>1. GoalsOf(s, l)'
    BY <1>2, <1>9 DEF GoalsOf, stored, client
  <2>2. req'[s].op = "goals_list"
    BY <1>1, <1>2 DEF client
  <2>3. b.goals = l
    BY <1>3, <1>8, <1>10
  <2>. QED
    BY <2>1, <2>2, <2>3 DEF True
<1>12. GoalsStay /\ RowsStay
  BY <1>2 DEF GoalsStay, RowsStay, stored
<1>. QED
  BY <1>2, <1>10, <1>11, <1>12, ReplyHonest

\* The list of tasks that is read has every task of the goal: its goal_id is
\* the one the goal's id is read as.  The goal is the caller's, so every task
\* that was made in it is his.
LEMMA TasksListSelectHonest ==
  ASSUME IInv, NEW s \in Slot, Honest(s), TasksListSelect(s)
  PROVE  Honest(s)'
<1>. DEFINE T == GetByGoal(Stoll(req[s].goalId).value)
            a == [NoAnswer EXCEPT !.code = 200, !.tasks = T]
<1>1. /\ pc[s] = "GetByGoal" /\ req[s].op = "tasks_list" /\ OwnsGoal(s)
  BY DEF TasksListSelect, Honest, Asks
<1>2. Reply(s, a) /\ UNCHANGED <<stored, client>>
  BY DEF TasksListSelect
<1>3. a.code = 200 /\ a.tasks = T
  BY DEF NoAnswer
<1>4. TasksOf(s, T)
  <2>1. ASSUME NEW k \in known[s].tasks, k.goal = req[s].goalId
        PROVE  k.id \in T
    <3>1. k.id \in DOMAIN tasks /\ tasks[k.id].goal = req[s].goalId
      BY <2>1 DEF Honest, KnownTrue, MadeBy
    <3>2. tasks[k.id].goal_id = Stoll(req[s].goalId).value
      BY <3>1 DEF IInv, TaskOwnership
    <3>. QED
      BY <3>1, <3>2 DEF GetByGoal
  <2>2. ASSUME NEW i \in T
        PROVE  /\ i \in DOMAIN tasks
               /\ Stoll(tasks[i].goal).value = Stoll(req[s].goalId).value
               /\ tasks[i].goal = req[s].goalId => tasks[i].by = req[s].user
    <3>1. /\ i \in DOMAIN tasks
          /\ tasks[i].goal_id = Stoll(req[s].goalId).value
      BY <2>2 DEF GetByGoal
    <3>2. /\ tasks[i].goal_id = Stoll(tasks[i].goal).value
          /\ goals[tasks[i].goal] = tasks[i].by
      BY <3>1 DEF IInv, TaskOwnership
    <3>. QED
      BY <1>1, <3>1, <3>2 DEF OwnsGoal
  <2>. QED
    BY <2>1, <2>2 DEF TasksOf
<1>. HIDE DEF a, T
<1>5. PICK b, U : b = a /\ U = T
  OBVIOUS
<1>6. True(s, b)'
  <2>1. TasksOf(s, U)'
    BY <1>2, <1>4, <1>5 DEF TasksOf, stored, client
  <2>2. req'[s].op = "tasks_list" /\ OwnsGoal(s)'
    BY <1>1, <1>2 DEF OwnsGoal, stored, client
  <2>3. b.tasks = U /\ b.code = 200
    BY <1>3, <1>5
  <2>. QED
    BY <2>1, <2>2, <2>3 DEF True
<1>7. GoalsStay /\ RowsStay
  BY <1>2 DEF GoalsStay, RowsStay, stored
<1>. QED
  BY <1>2, <1>5, <1>6, <1>7, ReplyHonest

\* The three steps that write: a created goal's answer says nothing that is
\* asked of the other requests, a task is created in a goal of the caller's.
LEMMA WriteHonest ==
  ASSUME IInv, NEW s \in Slot, Honest(s), GoalsStay, RowsStay,
         CreateGoal(s) \/ CreateTask(s) \/ TasksUpdateWrite(s)
  PROVE  Honest(s)'
<1>. DEFINE Good == \E a : /\ Reply(s, a)
                           /\ req[s].op = "tasks_create" => a.code # 404
<1>1. Good
  <2>1. CASE CreateGoal(s)
    <3>1. req[s].op # "tasks_create"
      BY <2>1 DEF CreateGoal, IInv, Pending, Passed
    <3>2. \E a : Reply(s, a)
      BY <2>1 DEF CreateGoal, Fault
    <3>. QED
      BY <3>1, <3>2
  <2>2. CASE CreateTask(s)
    <3>. DEFINE c == [NoAnswer EXCEPT !.code = 201, !.tasks = {tasks_id_seq + 1}]
                r == [NoAnswer EXCEPT !.code = 500]
                f == [NoAnswer EXCEPT !.code = 500, !.fault = TRUE]
    <3>1. c.code # 404 /\ r.code # 404 /\ f.code # 404
      BY DEF NoAnswer
    <3>2. Reply(s, c) \/ Reply(s, r) \/ Reply(s, f)
      BY <2>2 DEF CreateTask, Refuse, Fault
    <3>. HIDE DEF c, r, f
    <3>. QED
      BY <3>1, <3>2
  <2>3. CASE TasksUpdateWrite(s)
    <3>1. req[s].op # "tasks_create"
      BY <2>3 DEF TasksUpdateWrite, IInv, Pending, Passed
    <3>2. \E a : Reply(s, a)
      BY <2>3 DEF TasksUpdateWrite, Refuse, Fault
    <3>. QED
      BY <3>1, <3>2
  <2>. QED
    BY <2>1, <2>2, <2>3
<1>2. PICK a : Reply(s, a) /\ (req[s].op = "tasks_create" => a.code # 404)
  BY <1>1
<1>3. /\ req[s].op \in {"goals_create", "tasks_create", "tasks_update"}
      /\ req[s].op = "tasks_create" => OwnsGoal(s)
  BY DEF CreateGoal, CreateTask, TasksUpdateWrite, IInv, Pending, Passed,
     OwnsGoal
<1>4. UNCHANGED client
  BY DEF CreateGoal, CreateTask, TasksUpdateWrite, client
<1>5. OwnsGoal(s) => OwnsGoal(s)'
  BY <1>4 DEF OwnsGoal, GoalsStay, client
<1>6. True(s, a)'
  <2>1. req'[s] = req[s]
    BY <1>4 DEF client
  <2>. QED
    BY <1>2, <1>3, <1>5, <2>1 DEF True
<1>. QED
  BY <1>2, <1>4, <1>6, ReplyHonest

\* Every step of a slot leaves it honest.
LEMMA StepHonest ==
  ASSUME IInv, GoalsStay, RowsStay, Answers, NEW s \in Slot, Step(s)
  PROVE  Honest(s)'
<1>1. Honest(s) /\ IsFiniteSet(DOMAIN goals)
  BY DEF Answers
<1>2. CASE Receive(s)
  <2>1. /\ pc'[s] = "received" /\ known'[s] = acked
        /\ UNCHANGED <<goals, tasks>>
    BY <1>2 DEF Receive, IInv, Shape, stored, Answers
  <2>2. KnownTrue(s)'
    BY <2>1 DEF KnownTrue, MadeBy, Answers, IInv, AckedTasksKept
  <2>. QED
    BY <2>1, <2>2 DEF Honest, Asks
<1>3. CASE \/ GoalsCreate(s) \/ GoalsList(s) \/ TasksCreate(s)
           \/ TasksList(s) \/ TasksUpdate(s)
  <2>1. /\ UNCHANGED <<stored, client>>
        /\ \/ \E code \in {400, 429, 500} : Refuse(s, code)
           \/ Goto(s, "GetByUser") /\ req[s].op = "goals_list"
           \/ Goto(s, "CreateGoal")
           \/ Goto(s, "GetById")
    BY <1>3 DEF GoalsCreate, GoalsList, TasksCreate, TasksList, TasksUpdate,
         At, TooManyRequests
  <2>. QED
    BY <1>1, <2>1, GotoHonest, RefuseHonest
<1>4. CASE TasksCreateFindGoal(s)
  BY <1>1, <1>4, OwnGoalHonest DEF TasksCreateFindGoal, At
<1>5. CASE TasksListFindGoal(s)
  BY <1>1, <1>5, OwnGoalHonest DEF TasksListFindGoal, At
<1>6. CASE TasksUpdateFindGoal(s)
  <2>1. /\ UNCHANGED <<stored, client>> /\ req[s].op = "tasks_update"
        /\ \/ \E code : Refuse(s, code)
           \/ Goto(s, "UpdateStatus")
    BY <1>6 DEF TasksUpdateFindGoal, At
  <2>2. ASSUME NEW code, Refuse(s, code) PROVE Honest(s)'
    <3>1. PICK a : Reply(s, a)
      BY <2>2 DEF Refuse
    <3>2. True(s, a)'
      BY <2>1 DEF True, client
    <3>. QED
      BY <1>1, <2>1, <3>1, <3>2, ReplyHonest
  <2>. QED
    BY <1>1, <2>1, <2>2, GotoHonest
<1>7. CASE GoalsListFind(s)
  BY <1>1, <1>7, GoalsListFindHonest
<1>8. CASE TasksListSelect(s)
  BY <1>1, <1>8, TasksListSelectHonest
<1>9. CASE CreateGoal(s) \/ CreateTask(s) \/ TasksUpdateWrite(s)
  BY <1>1, <1>9, WriteHonest
<1>10. CASE DbFails(s)
  BY <1>1, <1>10, RefuseHonest DEF DbFails
<1>11. CASE Deliver(s)
  <2>1. pc'[s] = "idle" /\ known'[s] = Nothing
    BY <1>11 DEF Deliver, IInv, Shape, Answers
  <2>. QED
    BY <2>1 DEF Honest, KnownTrue, Asks, Nothing
<1>. QED
  BY <1>2, <1>3, <1>4, <1>5, <1>6, <1>7, <1>8, <1>9, <1>10, <1>11 DEF Step

\* A slot's step leaves the other slots alone.
LEMMA StepOfOneSlot ==
  ASSUME IInv, DOMAIN known = Slot, NEW s \in Slot, Step(s)
  PROVE  /\ DOMAIN known' = Slot
         /\ \A q \in Slot \ {s} :
              /\ pc'[q] = pc[q] /\ req'[q] = req[q]
              /\ known'[q] = known[q] /\ answer'[q] = answer[q]
<1>. DEFINE Others == \A q \in Slot \ {s} :
                        /\ pc'[q] = pc[q] /\ req'[q] = req[q]
                        /\ known'[q] = known[q] /\ answer'[q] = answer[q]
<1>1. ASSUME NEW label, Goto(s, label), UNCHANGED client
      PROVE  DOMAIN known' = Slot /\ Others
  BY <1>1 DEF Goto, IInv, Shape, client
<1>2. ASSUME NEW a, Reply(s, a), UNCHANGED client
      PROVE  DOMAIN known' = Slot /\ Others
  BY <1>2 DEF Reply, IInv, Shape, client
<1>3. CASE Receive(s) \/ Deliver(s)
  BY <1>3 DEF Receive, Deliver, IInv, Shape
<1>4. CASE ~Receive(s) /\ ~Deliver(s)
  <2>1. /\ UNCHANGED client
        /\ (\E label : Goto(s, label)) \/ (\E a : Reply(s, a))
    BY <1>4 DEF Step, GoalsCreate, CreateGoal, GoalsList, GoalsListFind,
         TasksCreate, TasksCreateFindGoal, CreateTask, TasksList,
         TasksListFindGoal, TasksListSelect, TasksUpdate, TasksUpdateFindGoal,
         TasksUpdateWrite, DbFails, OwnGoal, TooManyRequests, Refuse, Fault,
         client
  <2>. QED
    BY <1>1, <1>2, <2>1
<1>. QED
  BY <1>3, <1>4

\* Answers is inductive next to IInv and GoalsGiven.
LEMMA NextAnswers ==
  IInv /\ GoalsGiven /\ Answers /\ [Next]_vars => Answers'
<1>. SUFFICES ASSUME IInv, GoalsGiven, Answers, [Next]_vars PROVE Answers'
  OBVIOUS
<1>1. GoalsStay /\ RowsStay
  BY StoredStay
<1>2. ASSUME NEW s \in Slot, Step(s) PROVE Answers'
  <2>1. IsFiniteSet(DOMAIN goals')
    <3>1. CASE UNCHANGED goals
      BY <3>1 DEF Answers
    <3>2. ASSUME NEW oid, DOMAIN goals' = DOMAIN goals \cup {oid}
          PROVE  IsFiniteSet(DOMAIN goals')
      BY <3>2, FS_AddElement DEF Answers
    <3>3. UNCHANGED goals \/ \E oid : DOMAIN goals' = DOMAIN goals \cup {oid}
      BY <1>2 DEF Step, Receive, GoalsCreate, CreateGoal, GoalsList,
         GoalsListFind, TasksCreate, TasksCreateFindGoal, CreateTask,
         TasksList, TasksListFindGoal, TasksListSelect, TasksUpdate,
         TasksUpdateFindGoal, TasksUpdateWrite, DbFails, Deliver, stored
    <3>. QED
      BY <3>1, <3>2, <3>3
  <2>2. acked'.goals \subseteq DOMAIN goals'
    <3>1. CASE Deliver(s)
      <4>1. acked'.goals = acked.goals \cup Created(s).goals
        BY <3>1 DEF Deliver
      <4>2. Created(s).goals \subseteq DOMAIN goals
        <5>1. CASE answer[s].code = 201
          BY <3>1, <5>1 DEF Created, GoalsGiven, Deliver
        <5>2. CASE answer[s].code # 201
          BY <5>2 DEF Created, Nothing
        <5>. QED
          BY <5>1, <5>2
      <4>. QED
        BY <1>1, <4>1, <4>2 DEF Answers, GoalsStay
    <3>2. ~Deliver(s) => UNCHANGED acked
      BY <1>2 DEF Step, Receive, GoalsCreate, CreateGoal, GoalsList,
         GoalsListFind, TasksCreate, TasksCreateFindGoal, CreateTask,
         TasksList, TasksListFindGoal, TasksListSelect, TasksUpdate,
         TasksUpdateFindGoal, TasksUpdateWrite, DbFails, client
    <3>. QED
      BY <1>1, <3>1, <3>2 DEF Answers, GoalsStay
  <2>3. /\ DOMAIN known' = Slot
        /\ \A q \in Slot \ {s} :
             /\ pc'[q] = pc[q] /\ req'[q] = req[q]
             /\ known'[q] = known[q] /\ answer'[q] = answer[q]
    BY <1>2, StepOfOneSlot DEF Answers
  <2>4. \A q \in Slot \ {s} : Honest(q)'
    BY <1>1, <2>3, OthersHonest DEF Answers
  <2>5. Honest(s)'
    BY <1>1, <1>2, StepHonest
  <2>. QED
    BY <2>1, <2>2, <2>3, <2>4, <2>5 DEF Answers
<1>3. CASE Restart
  <2>1. ASSUME NEW q \in Slot PROVE Honest(q)'
    BY <1>3 DEF Restart, Honest, KnownTrue, Asks, Nothing
  <2>. QED
    BY <1>3, <2>1 DEF Restart, stored, Answers
<1>4. CASE UNCHANGED vars
  <2>1. ASSUME NEW q \in Slot PROVE Honest(q)'
    BY <1>1, <1>4, OthersHonest DEF Answers, vars
  <2>. QED
    BY <1>4, <2>1 DEF vars, Answers
<1>. QED
  BY <1>2, <1>3, <1>4 DEF Next

LEMMA InitAnswers == Init => Answers
<1>. SUFFICES ASSUME Init PROVE Answers
  OBVIOUS
<1>1. DOMAIN goals = {} /\ acked.goals = {} /\ DOMAIN known = Slot
  BY DEF Init, Nothing
<1>2. ASSUME NEW s \in Slot PROVE Honest(s)
  BY DEF Init, Honest, KnownTrue, Asks, Nothing
<1>. QED
  BY <1>1, <1>2, FS_EmptySet DEF Answers

\* What the answers say holds in every state.
LEMMA AnswersHold == Spec => [](IInv /\ Answers)
<1>1. Init => GoalsGiven
  BY DEF Init, GoalsGiven
<1>. QED
  BY <1>1, InitIInv, NextIInv, NextGoalsGiven, InitAnswers, NextAnswers, PTL
  DEF Spec

\* The list of goals has the caller's goals and no others, newest first, and
\* every one he was told of before he asked, whatever other requests insert.
THEOREM ListedGoalsTrue == Spec => []GoalsListed
<1>1. ASSUME IInv, Answers PROVE GoalsListed
  <2>. SUFFICES ASSUME NEW s \in Slot, Answered(s, "goals_list", 200)
                PROVE  GoalsOf(s, answer[s].goals)
    BY DEF GoalsListed, GoalsOf
  <2>. QED
    BY <1>1 DEF Answers, Honest, True, Answered
<1>. QED
  BY <1>1, AnswersHold, PTL

\* The list of a goal's tasks has every one of them that a client was told of
\* before the list was asked for.
THEOREM ListedTasksComplete == Spec => []AckedTasksListed
<1>1. ASSUME IInv, Answers PROVE AckedTasksListed
  BY <1>1 DEF Answers, Honest, True, TasksOf, Answered, AckedTasksListed
<1>. QED
  BY <1>1, AnswersHold, PTL

\* A create and a list are served only to the owner of the goal in their path,
\* who is not told that a goal he was told of does not exist.  The tasks of
\* the list are his own or were made in another goal whose id begins with the
\* same number; they need not be his then.
THEOREM GoalsForOwners == Spec => []GoalAccess
<1>1. ASSUME IInv, Answers PROVE GoalAccess
  <2>1. ASSUME NEW s \in Slot
        PROVE  Honest(s)
    BY <1>1, <2>1 DEF Answers
  <2>2. ASSUME NEW s \in Slot, NEW op \in {"tasks_create", "tasks_list"},
               pc[s] = "answered", req[s].op = op
        PROVE  /\ answer[s].code \in {200, 201} => OwnsGoal(s)
               /\ answer[s].code = 404 =>
                    ~(req[s].goalId \in known[s].goals
                      /\ goals[req[s].goalId] = req[s].user)
    <3>1. True(s, answer[s]) /\ known[s].goals \subseteq DOMAIN goals
      BY <2>1, <2>2 DEF Honest, KnownTrue
    <3>. QED
      BY <2>2, <3>1 DEF True, OwnsGoal
  <2>3. ASSUME NEW s \in Slot, pc[s] = "answered", req[s].op = "tasks_list",
               answer[s].code = 200
        PROVE  TasksOf(s, answer[s].tasks)
    BY <2>1, <2>3 DEF Honest, True
  <2>4. \A s \in Slot : \A op \in {"tasks_create", "tasks_list"} :
          /\ \A code \in {200, 201} : Answered(s, op, code) => OwnsGoal(s)
          /\ Answered(s, op, 404) =>
               ~(req[s].goalId \in known[s].goals
                 /\ goals[req[s].goalId] = req[s].user)
    BY <2>2 DEF Answered
  <2>5. \A s \in Slot : Answered(s, "tasks_list", 200) =>
          TasksOf(s, answer[s].tasks)
    BY <2>3 DEF Answered
  <2>. QED
    BY <2>4, <2>5 DEF GoalAccess, OwnsGoal, TasksOf
<1>. QED
  BY <1>1, AnswersHold, PTL

----------------------------------------------------------------------------
(* Types.  IInv has most of TypeOK; these are the rest of it.              *)

Types ==
  /\ tasks_id_seq <= MaxTasks
  /\ \A i \in DOMAIN tasks : tasks[i].goal \in GoalArg
  /\ answer \in [Slot -> Answer]
  /\ acked \in Acks
  /\ known \in [Slot -> Acks]

LEMMA InitTypes == Init => Types
<1>. SUFFICES ASSUME Init PROVE Types
  OBVIOUS
<1>1. NoAnswer \in Answer /\ Nothing \in Acks
  BY DEF NoAnswer, Answer, Nothing, Acks
<1>. QED
  BY <1>1, BoundAssumption DEF Init, Types

Codes == {0, 200, 201, 400, 404, 429, 500}

\* The answers that carry no list, one list of goals, or one set of tasks.
LEMMA AnswersAre ==
  ASSUME NEW c \in Codes
  PROVE  /\ NoAnswer \in Answer
         /\ [NoAnswer EXCEPT !.code = c] \in Answer
         /\ [NoAnswer EXCEPT !.code = c, !.fault = TRUE] \in Answer
         /\ \A g \in Seq(Oid) :
              [NoAnswer EXCEPT !.code = c, !.goals = g] \in Answer
         /\ \A T \in SUBSET (1 .. MaxTasks) :
              [NoAnswer EXCEPT !.code = c, !.tasks = T] \in Answer
<1>. DEFINE G == Seq(Oid)
            S == SUBSET (1 .. MaxTasks)
            R == [code : Codes, fault : BOOLEAN, goals : G, tasks : S]
<1>1. 0 \in Codes /\ <<>> \in G /\ {} \in S
  BY DEF Codes
<1>2. Answer = R
  BY DEF Answer, Codes
<1>. HIDE DEF G, S
<1>3. NoAnswer \in R
  BY <1>1 DEF NoAnswer
<1>4. /\ [NoAnswer EXCEPT !.code = c] \in R
      /\ [NoAnswer EXCEPT !.code = c, !.fault = TRUE] \in R
  BY <1>3
<1>5. ASSUME NEW g \in G
      PROVE  [NoAnswer EXCEPT !.code = c, !.goals = g] \in R
  BY <1>3
<1>6. ASSUME NEW T \in S
      PROVE  [NoAnswer EXCEPT !.code = c, !.tasks = T] \in R
  BY <1>3
<1>. HIDE DEF R
<1>7. \A g \in Seq(Oid) : [NoAnswer EXCEPT !.code = c, !.goals = g] \in R
  BY <1>5 DEF G
<1>8. \A T \in SUBSET (1 .. MaxTasks) :
        [NoAnswer EXCEPT !.code = c, !.tasks = T] \in R
  BY <1>6 DEF S
<1>. QED
  BY <1>2, <1>3, <1>4, <1>7, <1>8

\* Refusals and faults are answers.
LEMMA PlainAnswers ==
  ASSUME NEW code \in {400, 404, 429, 500}
  PROVE  /\ [NoAnswer EXCEPT !.code = code] \in Answer
         /\ [NoAnswer EXCEPT !.code = 500, !.fault = TRUE] \in Answer
<1>1. [NoAnswer EXCEPT !.code = code] \in Answer
  <2>1. code \in Codes
    BY DEF Codes
  <2>. QED
    BY <2>1, AnswersAre
<1>2. [NoAnswer EXCEPT !.code = 500, !.fault = TRUE] \in Answer
  <2>1. PICK c \in Codes : c = 500
    BY DEF Codes
  <2>2. [NoAnswer EXCEPT !.code = c, !.fault = TRUE] \in Answer
    BY AnswersAre, Zenon
  <2>. QED
    BY <2>1, <2>2
<1>. QED
  BY <1>1, <1>2

\* A step that leaves the tables alone.
LEMMA PlainTypes ==
  ASSUME Types, NEW s \in Slot, UNCHANGED <<tasks, tasks_id_seq, acked, known>>,
         \/ UNCHANGED answer
         \/ \E code \in {400, 404, 429, 500} : Refuse(s, code)
         \/ Fault(s)
         \/ \E a \in Answer : Reply(s, a)
  PROVE  Types'
<1>1. (\E a \in Answer : Reply(s, a)) \/ UNCHANGED answer
  BY PlainAnswers DEF Refuse, Fault
<1>2. answer' \in [Slot -> Answer]
  BY <1>1 DEF Reply, Types
<1>. QED
  BY <1>2 DEF Types

LEMMA CreateGoalTypes ==
  ASSUME Types, NEW s \in Slot, CreateGoal(s)
  PROVE  Types'
<1>1. UNCHANGED <<tasks, tasks_id_seq, acked, known>>
  BY DEF CreateGoal, client
<1>2. PICK oid \in Oid :
        \/ Reply(s, [NoAnswer EXCEPT !.code = 201, !.goals = <<oid>>])
        \/ Fault(s)
  BY DEF CreateGoal
<1>3. [NoAnswer EXCEPT !.code = 201, !.goals = <<oid>>] \in Answer
  <2>1. <<oid>> \in Seq(Oid) /\ 201 \in Codes
    BY DEF Codes
  <2>. QED
    BY <2>1, AnswersAre
<1>. QED
  BY <1>1, <1>2, <1>3, PlainTypes

LEMMA CreateTaskTypes ==
  ASSUME IInv, Types, NEW s \in Slot, CreateTask(s)
  PROVE  Types'
<1>. DEFINE id == tasks_id_seq + 1
<1>1. /\ tasks_id_seq' = id /\ id \in 1 .. MaxTasks
      /\ UNCHANGED <<acked, known>>
  BY BoundAssumption DEF CreateTask, client, IInv, Shape
<1>2. req[s] \in Requests /\ req[s].op = "tasks_create"
  BY DEF CreateTask, IInv, Pending, Passed
<1>3. req[s].goalId \in GoalArg
  BY <1>2, RequestsAssumption DEF Request
<1>4. \A i \in DOMAIN tasks' : tasks'[i].goal \in GoalArg
  BY <1>3 DEF CreateTask, Inserted, NewTask, Types
<1>5. PICK a \in Answer : Reply(s, a)
  <2>1. [NoAnswer EXCEPT !.code = 201, !.tasks = {id}] \in Answer
    <3>1. {id} \in SUBSET (1 .. MaxTasks)
          /\ 201 \in Codes
      BY <1>1 DEF Codes
    <3>. QED
      BY <3>1, AnswersAre
  <2>. QED
    BY <2>1, PlainAnswers DEF CreateTask, Refuse, Fault
<1>6. answer' \in [Slot -> Answer]
  BY <1>5 DEF Reply, Types
<1>. HIDE DEF id
<1>7. tasks_id_seq' <= MaxTasks
  BY <1>1
<1>. QED
  BY <1>1, <1>4, <1>6, <1>7 DEF Types

\* The list of goals that is read is a sequence of object ids.
LEMMA GoalsListFindTypes ==
  ASSUME IInv, Types, IsFiniteSet(DOMAIN goals), NEW s \in Slot,
         GoalsListFind(s)
  PROVE  Types'
<1>. DEFINE mine == {o \in DOMAIN goals : goals[o] = req[s].user}
            list == NewestFirst(mine)
            a    == [NoAnswer EXCEPT !.code = 200, !.goals = list]
<1>1. Reply(s, a) /\ UNCHANGED <<tasks, tasks_id_seq, acked, known>>
  BY DEF GoalsListFind, GetByUser, stored, client
<1>2. IsFiniteSet(mine) /\ mine \subseteq Oid
  BY FS_Subset DEF IInv, Shape
<1>3. list \in Seq(Oid)
  <2>. HIDE DEF mine
  <2>1. list \in [1 .. Cardinality(mine) -> mine]
    BY <1>2, NewestFirstLists
  <2>2. Cardinality(mine) \in Nat
    BY <1>2, FS_CardinalityType
  <2>. HIDE DEF list
  <2>3. list \in [1 .. Cardinality(mine) -> Oid]
    BY <1>2, <2>1
  <2>. QED
    BY <2>2, <2>3
<1>. HIDE DEF list
<1>4. a \in Answer
  <2>1. 200 \in Codes
    BY DEF Codes
  <2>. QED
    BY <1>3, <2>1, AnswersAre
<1>. HIDE DEF a
<1>. QED
  BY <1>1, <1>4, PlainTypes

LEMMA TasksListSelectTypes ==
  ASSUME IInv, Types, NEW s \in Slot, TasksListSelect(s)
  PROVE  Types'
<1>. DEFINE T == GetByGoal(Stoll(req[s].goalId).value)
            a == [NoAnswer EXCEPT !.code = 200, !.tasks = T]
<1>1. Reply(s, a) /\ UNCHANGED <<tasks, tasks_id_seq, acked, known>>
  BY DEF TasksListSelect, stored, client
<1>2. T \subseteq 1 .. MaxTasks
  BY BoundAssumption DEF GetByGoal, IInv, Shape, Types
<1>. HIDE DEF T
<1>3. a \in Answer
  <2>1. 200 \in Codes
    BY DEF Codes
  <2>. QED
    BY <1>2, <2>1, AnswersAre
<1>. HIDE DEF a
<1>. QED
  BY <1>1, <1>3, PlainTypes

LEMMA TasksUpdateWriteTypes ==
  ASSUME IInv, Types, RowsStay, NEW s \in Slot, TasksUpdateWrite(s)
  PROVE  Types'
<1>. DEFINE hit == UpdateStatus(Stoll(req[s].goalId).value,
                                Stoll(req[s].taskId).value)
            a   == [NoAnswer EXCEPT !.code = 200, !.tasks = hit]
<1>1. /\ UNCHANGED <<tasks_id_seq, acked, known>>
      /\ DOMAIN tasks' = DOMAIN tasks
      /\ Refuse(s, 404) \/ Reply(s, a) \/ Fault(s)
  BY DEF TasksUpdateWrite, client
<1>2. hit \subseteq 1 .. MaxTasks
  BY BoundAssumption DEF UpdateStatus, IInv, Shape, Types
<1>. HIDE DEF hit
<1>3. a \in Answer
  <2>1. 200 \in Codes
    BY DEF Codes
  <2>. QED
    BY <1>2, <2>1, AnswersAre
<1>. HIDE DEF a
<1>4. PICK b \in Answer : Reply(s, b)
  BY <1>1, <1>3, PlainAnswers DEF Refuse, Fault
<1>5. answer' \in [Slot -> Answer]
  BY <1>4 DEF Reply, Types
<1>6. \A i \in DOMAIN tasks' : tasks'[i].goal \in GoalArg
  BY <1>1 DEF RowsStay, Types
<1>. QED
  BY <1>1, <1>5, <1>6 DEF Types

LEMMA DeliverTypes ==
  ASSUME IInv, Types, NEW s \in Slot, Deliver(s)
  PROVE  Types'
<1>1. NoAnswer \in Answer /\ Nothing \in Acks
  BY DEF NoAnswer, Answer, Nothing, Acks
<1>2. /\ answer' \in [Slot -> Answer] /\ known' \in [Slot -> Acks]
      /\ UNCHANGED <<tasks, tasks_id_seq>>
  BY <1>1 DEF Deliver, Types, stored
<1>3. Created(s) \in Acks
  <2>1. CASE answer[s].code = 201
    <3>1. answer[s].goals \in Seq(Oid) /\ answer[s].tasks \subseteq 1 .. MaxTasks
      BY DEF Types, Answer
    <3>2. {answer[s].goals[i] : i \in DOMAIN answer[s].goals} \subseteq Oid
      BY <3>1
    <3>3. ASSUME NEW i \in answer[s].tasks
          PROVE  [id |-> i, goal |-> req[s].goalId, by |-> req[s].user] \in TaskAck
      <4>1. MadeBy(i, req[s].goalId, req[s].user)
        BY <2>1 DEF Deliver, IInv, Given
      <4>2. req[s].goalId \in GoalArg /\ req[s].user \in User
        BY <4>1 DEF MadeBy, Types, IInv, Shape
      <4>. QED
        BY <3>1, <4>2 DEF TaskAck
    <3>. QED
      BY <2>1, <3>2, <3>3 DEF Created, Acks
  <2>2. CASE answer[s].code # 201
    BY <1>1, <2>2 DEF Created
  <2>. QED
    BY <2>1, <2>2
<1>4. acked' \in Acks
  BY <1>3 DEF Deliver, Types, Acks
<1>. QED
  BY <1>2, <1>4 DEF Types

\* Types is inductive next to the other invariants.
LEMMA NextTypes == IInv /\ Answers /\ Types /\ [Next]_vars => Types'
<1>. SUFFICES ASSUME IInv, Answers, Types, [Next]_vars PROVE Types'
  OBVIOUS
<1>1. RowsStay
  BY StoredStay
<1>2. ASSUME NEW s \in Slot, Receive(s) PROVE Types'
  BY <1>2 DEF Receive, stored, Types
<1>3. ASSUME NEW s \in Slot,
             \/ GoalsCreate(s) \/ GoalsList(s) \/ TasksCreate(s)
             \/ TasksList(s) \/ TasksUpdate(s) \/ TasksCreateFindGoal(s)
             \/ TasksListFindGoal(s) \/ TasksUpdateFindGoal(s) \/ DbFails(s)
      PROVE  Types'
  <2>1. /\ UNCHANGED <<tasks, tasks_id_seq, acked, known>>
        /\ \/ UNCHANGED answer
           \/ \E code \in {400, 404, 429, 500} : Refuse(s, code)
           \/ Fault(s)
    BY <1>3 DEF GoalsCreate, GoalsList, TasksCreate, TasksList, TasksUpdate,
         TasksCreateFindGoal, TasksListFindGoal, TasksUpdateFindGoal, DbFails,
         OwnGoal, TooManyRequests, Goto, stored, client
  <2>. QED
    BY <2>1, PlainTypes
<1>4. ASSUME NEW s \in Slot, Step(s) PROVE Types'
  BY <1>1, <1>2, <1>3, <1>4, CreateGoalTypes, GoalsListFindTypes,
     CreateTaskTypes, TasksListSelectTypes, TasksUpdateWriteTypes,
     DeliverTypes DEF Step, Answers
<1>5. CASE Restart
  <2>1. NoAnswer \in Answer /\ Nothing \in Acks
    BY DEF NoAnswer, Answer, Nothing, Acks
  <2>. QED
    BY <1>5, <2>1 DEF Restart, stored, Types
<1>6. CASE UNCHANGED vars
  BY <1>6 DEF vars, Types
<1>. QED
  BY <1>4, <1>5, <1>6 DEF Next

\* The types of the state, for all constants: what std::stoll makes of any
\* argument is a number, and the sort always has a list to give.
THEOREM TypeCorrect == Spec => []TypeOK
<1>1. ASSUME IInv, Types PROVE TypeOK
  <2>1. \A i \in DOMAIN tasks : tasks[i] \in Row
    <3>. SUFFICES ASSUME NEW i \in DOMAIN tasks PROVE tasks[i] \in Row
      OBVIOUS
    <3>1. tasks[i] \in [goal_id : PgGoals, status : Status, goal : Oid, by : User]
      BY <1>1 DEF IInv, Shape
    <3>2. tasks[i].goal \in GoalArg
      BY <1>1 DEF Types
    <3>3. tasks[i].goal_id = Stoll(tasks[i].goal).value
      BY <1>1 DEF IInv, TaskOwnership
    <3>4. tasks[i].goal_id \in Nat
      BY <3>2, <3>3, ArgAssumption, StollType
    <3>. QED
      BY <3>1, <3>2, <3>4 DEF Row
  <2>2. tasks_id_seq \in 0 .. MaxTasks
    BY <1>1, BoundAssumption DEF IInv, Shape, Types
  <2>. QED
    BY <1>1, <2>1, <2>2 DEF IInv, Shape, Types, TypeOK
<1>2. Init => GoalsGiven
  BY DEF Init, GoalsGiven
<1>. QED
  BY <1>1, <1>2, InitIInv, NextIInv, NextGoalsGiven, InitAnswers, NextAnswers,
     InitTypes, NextTypes, PTL DEF Spec
=============================================================================
