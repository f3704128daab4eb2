---------------------------- MODULE StoragesProofs ---------------------------
(***************************************************************************)
(* The three storages implement AtomicStore, and the copies they keep of a *)
(* record agree.  First what the proofs share: what the steps of           *)
(* StorageCalls keep, and what they look like to a caller for whom a call  *)
(* takes effect at one moment.  Then one part for each storage.            *)
(***************************************************************************)
EXTENDS TasksStorage, UsersStorage, GoalsStorage, TLAPS, FiniteSetTheorems

Inside == {"locked", "id read", "second copy"}

\* Types of the calls; who is inside a member function has the mutex.
CallTypes ==
  /\ pc \in [Thread -> {"idle", "called", "done"} \cup Inside]
  /\ DOMAIN call = Thread /\ call = [t \in Thread |-> call[t]]
  /\ DOMAIN result = Thread /\ result = [t \in Thread |-> result[t]]
  /\ \A t \in Thread : pc[t] \in Inside => mutex_ = t

\* A step of thread t leaves the calls of the others alone.
Only(t) ==
  \A s \in Thread \ {t} :
    pc'[s] = pc[s] /\ call'[s] = call[s] /\ result'[s] = result[s]

\* Nothing a caller could tell.
Silent == UNCHANGED <<Stages, Results, call>>

\* The call of thread t takes effect, with result r.
Effective(t, r) ==
  /\ Stages[t] = "called"
  /\ Stages' = [Stages EXCEPT ![t] = "done"]
  /\ Results' = [Results EXCEPT ![t] = r]
  /\ UNCHANGED call

\* At most one thread is inside.
LEMMA OneInside ==
  ASSUME CallTypes, NEW s \in Thread, NEW t \in Thread,
         pc[s] \in Inside, pc[t] \in Inside
  PROVE  s = t
BY DEF CallTypes

LEMMA StartOfCalls ==
  ASSUME CallsInit
  PROVE  /\ CallTypes
         /\ Stages = [t \in Thread |-> "idle"]
         /\ Results = [t \in Thread |-> {}]
         /\ \A t \in Thread : pc[t] = "idle"
BY DEF CallsInit, CallTypes, Stages, Results, Stage, Inside

LEMMA InvokeStep ==
  ASSUME CallTypes, NEW t \in Thread, NEW c, Invoke(t, c)
  PROVE  /\ CallTypes' /\ Only(t) /\ pc'[t] = "called" /\ call'[t] = c
         /\ pc[t] = "idle"
         /\ Stages[t] = "idle" /\ Stages' = [Stages EXCEPT ![t] = "called"]
         /\ call' = [call EXCEPT ![t] = c]
         /\ Results' = Results
<1>. USE DEF Invoke, CallTypes, Inside
<1>1. CallTypes' /\ Only(t) /\ pc'[t] = "called" /\ call'[t] = c
  BY DEF Only
<1>2. Stages[t] = "idle" /\ Stages' = [Stages EXCEPT ![t] = "called"]
  BY DEF Stages, Stage
<1>3. Results' = Results
  BY DEF Results, Stage
<1>. QED
  BY <1>1, <1>2, <1>3

LEMMA LockStep ==
  ASSUME CallTypes, NoThread \notin Thread, NEW t \in Thread, Lock(t)
  PROVE  /\ CallTypes' /\ Only(t) /\ Silent
         /\ pc[t] = "called" /\ pc'[t] = "locked" /\ result'[t] = result[t]
<1>. USE DEF Lock, CallTypes, Inside
<1>1. CallTypes' /\ Only(t) /\ pc'[t] = "locked"
  BY DEF Only
<1>2. Stages' = Stages
  BY DEF Stages, Stage
<1>3. Results' = Results
  BY DEF Results, Stage
<1>. QED
  BY <1>1, <1>2, <1>3 DEF Silent

\* Between its two writes a function has taken effect already.
LEMMA KeepStep ==
  ASSUME CallTypes, NEW t \in Thread, NEW r, pc[t] = "locked",
         Keep(t, "second copy", r)
  PROVE  /\ CallTypes' /\ Only(t) /\ Effective(t, r)
         /\ pc'[t] = "second copy" /\ result'[t] = r
<1>. USE DEF Keep, CallTypes, Inside
<1>1. CallTypes' /\ Only(t) /\ pc'[t] = "second copy" /\ result'[t] = r
  BY DEF Only
<1>2. Stages[t] = "called" /\ Stages' = [Stages EXCEPT ![t] = "done"]
  BY DEF Stages, Stage
<1>3. Results' = [Results EXCEPT ![t] = r]
  BY DEF Results, Stage
<1>. QED
  BY <1>1, <1>2, <1>3 DEF Effective

\* Between reading next_id_ and writing it a function has not.
LEMMA ReadStep ==
  ASSUME CallTypes, NEW t \in Thread, NEW r, pc[t] = "locked",
         Keep(t, "id read", r)
  PROVE  /\ CallTypes' /\ Only(t) /\ Silent
         /\ pc'[t] = "id read" /\ result'[t] = r
<1>. USE DEF Keep, CallTypes, Inside
<1>1. CallTypes' /\ Only(t) /\ pc'[t] = "id read" /\ result'[t] = r
  BY DEF Only
<1>2. Stages' = Stages
  BY DEF Stages, Stage
<1>3. Results' = Results
  BY DEF Results, Stage
<1>. QED
  BY <1>1, <1>2, <1>3 DEF Silent

LEMMA FinishStep ==
  ASSUME CallTypes, NoThread \notin Thread, NEW t \in Thread, NEW r,
         Finish(t, r), pc[t] \in Inside
  PROVE  /\ CallTypes' /\ Only(t) /\ pc'[t] = "done" /\ result'[t] = r
         /\ UNCHANGED call
         /\ pc[t] # "second copy" => Effective(t, r)
         /\ pc[t] = "second copy" /\ r = result[t] => Silent
<1>. USE DEF Finish, CallTypes, Inside
<1>1. CallTypes' /\ Only(t) /\ pc'[t] = "done" /\ result'[t] = r
  BY DEF Only
<1>2. ASSUME pc[t] # "second copy"
      PROVE  Effective(t, r)
  <2>1. Stages[t] = "called" /\ Stages' = [Stages EXCEPT ![t] = "done"]
    BY <1>2 DEF Stages, Stage
  <2>2. Results' = [Results EXCEPT ![t] = r]
    BY <1>2 DEF Results, Stage
  <2>. QED
    BY <2>1, <2>2 DEF Effective
<1>3. ASSUME pc[t] = "second copy", r = result[t]
      PROVE  Silent
  <2>1. Stages' = Stages
    BY <1>3 DEF Stages, Stage
  <2>2. Results' = Results
    BY <1>3 DEF Results, Stage
  <2>. QED
    BY <2>1, <2>2 DEF Silent
<1>. QED
  BY <1>1, <1>2, <1>3

LEMMA ReturnStep ==
  ASSUME CallTypes, NEW t \in Thread, Return(t)
  PROVE  /\ CallTypes' /\ Only(t) /\ pc'[t] = "idle" /\ pc[t] = "done"
         /\ Stages[t] = "done" /\ Stages' = [Stages EXCEPT ![t] = "idle"]
         /\ call' = [call EXCEPT ![t] = NoCall]
         /\ Results' = [Results EXCEPT ![t] = {}]
<1>. USE DEF Return, CallTypes, Inside
<1>1. CallTypes' /\ Only(t) /\ pc'[t] = "idle"
  BY DEF Only
<1>2. Stages[t] = "done" /\ Stages' = [Stages EXCEPT ![t] = "idle"]
  BY DEF Stages, Stage
<1>3. Results' = [Results EXCEPT ![t] = {}]
  BY DEF Results, Stage
<1>. QED
  BY <1>1, <1>2, <1>3

----------------------------------------------------------------------------
(***************************************************************************)
(* TasksStorage implements AtomicStore, for any number of threads, tasks,  *)
(* goals and calls.  The map by id is the table; the lists of the goals    *)
(* lag behind it by what the thread between its two writes still owes:     *)
(* the last task, or the new status of one.                                *)
(***************************************************************************)

Task == [id : Nat, goalId : Goal,
         status : {TaskStatusToString[s] : s \in TaskStatus}]

Between(t, op) == pc[t] = "second copy" /\ call[t].op = op

\* The last task is in no list yet.
Unlisted(id) ==
  id = next_id_ - 1 /\ \E t \in Thread : Between(t, "CreateTask")

\* The status of a task in its list is still the old one.
Lagging(id) ==
  \E t \in Thread : Between(t, "UpdateTaskStatus") /\ call[t].task_id = id

TaskCallsMatch ==
  \A t \in Thread :
    /\ pc[t] # "id read"
    /\ pc[t] # "idle" => call[t] \in TasksCall
    /\ pc[t] = "second copy" =>
         Between(t, "CreateTask") \/ Between(t, "UpdateTaskStatus")

\* What a thread between its two writes has written.
Written ==
  \A t \in Thread :
    /\ Between(t, "CreateTask") =>
         /\ next_id_ - 1 \in DOMAIN tasks_by_id_
         /\ result[t] = {tasks_by_id_[next_id_ - 1]}
         /\ tasks_by_id_[next_id_ - 1].goalId = call[t].goal_id
    /\ Between(t, "UpdateTaskStatus") =>
         /\ call[t].task_id \in DOMAIN tasks_by_id_
         /\ result[t] = {tasks_by_id_[call[t].task_id]}
         /\ tasks_by_id_[call[t].task_id].goalId = call[t].goal_id
         /\ tasks_by_id_[call[t].task_id].status
              = TaskStatusToString[call[t].new_st]

\* Ids are given out without gaps.
TaskNoGaps ==
  /\ next_id_ \in Nat \ {0}
  /\ DOMAIN tasks_by_id_ = 1 .. (next_id_ - 1)
  /\ tasks_by_id_ = [id \in DOMAIN tasks_by_id_ |-> tasks_by_id_[id]]
  /\ \A id \in DOMAIN tasks_by_id_ :
       tasks_by_id_[id] \in Task /\ tasks_by_id_[id].id = id

Increasing(list) ==
  \A i, j \in DOMAIN list : i < j => list[i].id < list[j].id

\* A task in the list of a goal is the one by id, or lags behind it.
Copy(g, task) ==
  /\ task.goalId = g
  /\ task.id \in DOMAIN tasks_by_id_
  /\ ~Unlisted(task.id)
  /\ Lagging(task.id) \/ tasks_by_id_[task.id] = task
  /\ tasks_by_id_[task.id].goalId = g

Lists ==
  \A g \in Goal :
    /\ ListOf(g) \in Seq(Task)
    /\ Increasing(ListOf(g))
    /\ \A i \in DOMAIN ListOf(g) : Copy(g, ListOf(g)[i])

Listed(g, id) == \E i \in DOMAIN ListOf(g) : ListOf(g)[i].id = id

AllListed ==
  \A id \in DOMAIN tasks_by_id_ :
    Unlisted(id) \/ Listed(tasks_by_id_[id].goalId, id)

TasksIInv ==
  /\ CallTypes /\ TaskCallsMatch /\ Written /\ TaskNoGaps
  /\ DOMAIN tasks_by_goal_ \subseteq Goal /\ Lists /\ AllListed

----------------------------------------------------------------------------
\* A thread that has the mutex and has written nothing sees two equal copies.
LEMMA TaskLockedCopies ==
  ASSUME TasksIInv, NEW t \in Thread, pc[t] = "locked"
  PROVE  /\ \A s \in Thread : pc[s] # "second copy"
         /\ \A id : ~Unlisted(id) /\ ~Lagging(id)
<1>1. \A s \in Thread : pc[s] # "second copy"
  BY OneInside DEF TasksIInv, Inside
<1>. QED
  BY <1>1 DEF Unlisted, Lagging, Between

\* The id of the next task is one more than the tasks there are.
LEMMA NextTaskId ==
  ASSUME TaskNoGaps
  PROVE  Cardinality(DOMAIN tasks_by_id_) + 1 = next_id_
<1>1. next_id_ \in Nat \ {0} /\ next_id_ - 1 \in Nat
  BY DEF TaskNoGaps
<1>2. Cardinality(1 .. (next_id_ - 1)) = next_id_ - 1
  BY <1>1, FS_Interval
<1>. QED
  BY <1>1, <1>2 DEF TaskNoGaps

\* Steps that leave the tables alone, and are not between the two writes.
LEMMA TasksKept ==
  ASSUME TasksIInv, NEW t \in Thread, Only(t), CallTypes',
         pc[t] # "second copy", pc'[t] \notin {"second copy", "id read"},
         pc'[t] # "idle" => call'[t] \in TasksCall,
         UNCHANGED tasks_stored
  PROVE  TasksIInv'
<1>1. UNCHANGED <<next_id_, tasks_by_id_, tasks_by_goal_>>
  BY DEF tasks_stored
<1>2. \A s \in Thread :
        /\ pc'[s] = "second copy" <=> pc[s] = "second copy"
        /\ pc[s] = "second copy" => call'[s] = call[s] /\ result'[s] = result[s]
  BY DEF Only
<1>3. TaskCallsMatch'
  BY <1>2 DEF TasksIInv, TaskCallsMatch, Only, Between
<1>4. Written'
  BY <1>1, <1>2 DEF TasksIInv, Written, Between
<1>5. \A id : (Unlisted(id)' <=> Unlisted(id)) /\ (Lagging(id)' <=> Lagging(id))
  BY <1>1, <1>2 DEF Unlisted, Lagging, Between
<1>6. TaskNoGaps'
  BY <1>1 DEF TasksIInv, TaskNoGaps
<1>7. \A g : ListOf(g)' = ListOf(g)
  BY <1>1 DEF ListOf
<1>8. \A g, task : Copy(g, task)' <=> Copy(g, task)
  BY <1>1, <1>5 DEF Copy
<1>9. Lists'
  BY <1>7, <1>8 DEF TasksIInv, Lists, Increasing
<1>10. AllListed'
  BY <1>1, <1>5, <1>7 DEF TasksIInv, AllListed, Listed
<1>. QED
  BY <1>1, <1>3, <1>4, <1>6, <1>9, <1>10 DEF TasksIInv

LEMMA CreateTaskKeeps ==
  ASSUME TasksIInv, NEW t \in Thread, CreateTask(t)
  PROVE  TasksIInv' /\ Effective(t, TaskEffect(tasks_by_id_, call[t]).result)
         /\ tasks_by_id_' = TaskEffect(tasks_by_id_, call[t]).table
<1>a. PICK c, n, new : c = call[t] /\ n = next_id_ /\ new = NewTask(n, c.goal_id)
  OBVIOUS
<1>1. /\ pc[t] = "locked" /\ c.op = "CreateTask" /\ CallTypes
      /\ Keep(t, "second copy", {new})
      /\ next_id_' = n + 1
      /\ UNCHANGED tasks_by_goal_
  BY <1>a DEF CreateTask, At, TasksIInv
<1>2. /\ CallTypes' /\ Only(t) /\ Effective(t, {new}) /\ UNCHANGED call
      /\ pc'[t] = "second copy" /\ result'[t] = {new}
  BY <1>1, KeepStep DEF Keep
<1>3. /\ n \in Nat \ {0} /\ DOMAIN tasks_by_id_ = 1 .. (n - 1)
      /\ \A id \in DOMAIN tasks_by_id_ :
           tasks_by_id_[id] \in Task /\ tasks_by_id_[id].id = id
  BY <1>a DEF TasksIInv, TaskNoGaps
<1>4. /\ n + 1 \in Nat \ {0} /\ (n + 1) - 1 = n /\ n \notin 1 .. (n - 1)
      /\ 1 .. (n - 1) \cup {n} = 1 .. n
  BY <1>3
<1>5. c \in TasksCall /\ c.goal_id \in Goal
  <2>1. c \in TasksCall
    BY <1>a, <1>1 DEF TasksIInv, TaskCallsMatch
  <2>. QED
    BY <1>1, <2>1 DEF TasksCall
<1>6. new \in Task /\ new.id = n /\ new.goalId = c.goal_id
  <2>1. "TASK_STATUS_TODO" \in TaskStatus
    BY DEF TaskStatus
  <2>. QED
    BY <1>a, <1>3, <1>5, <2>1 DEF NewTask, Task
<1>7. tasks_by_id_' = Emplace(tasks_by_id_, n, new)
  <2>1. NewTask(next_id_, call[t].goal_id) = new /\ new.id = n
    BY <1>a, <1>6
  <2>. QED
    BY <2>1 DEF CreateTask
<1>8. /\ DOMAIN tasks_by_id_' = 1 .. n
      /\ tasks_by_id_'[n] = new
      /\ \A id \in DOMAIN tasks_by_id_ : tasks_by_id_'[id] = tasks_by_id_[id]
  BY <1>3, <1>4, <1>7 DEF Emplace
<1>9. /\ \A s \in Thread : pc[s] # "second copy"
      /\ \A s \in Thread : pc'[s] = "second copy" => s = t
      /\ \A id : ~Unlisted(id) /\ ~Lagging(id)
  BY <1>1, <1>2, TaskLockedCopies DEF Only
<1>10. Between(t, "CreateTask")'
  BY <1>a, <1>1, <1>2 DEF Between
<1>11. /\ \A id : Unlisted(id)' <=> id = n
       /\ \A id : ~Lagging(id)'
  <2>1. next_id_' - 1 = n
    BY <1>1, <1>4
  <2>. QED
    BY <1>9, <1>10, <2>1 DEF Unlisted, Lagging, Between
<1>12. TaskCallsMatch'
  <2>1. call'[t] \in TasksCall
    BY <1>a, <1>2, <1>5
  <2>2. \A s \in Thread \ {t} :
          pc'[s] # "id read" /\ (pc'[s] # "idle" => call'[s] \in TasksCall)
    BY <1>2 DEF TasksIInv, TaskCallsMatch, Only
  <2>. QED
    BY <1>2, <1>9, <1>10, <2>1, <2>2 DEF TaskCallsMatch
<1>13. Written'
  <2>1. next_id_' - 1 = n /\ n \in 1 .. n
    BY <1>1, <1>3, <1>4
  <2>2. call'[t].goal_id = c.goal_id
    BY <1>a, <1>2
  <2>. QED
    BY <1>2, <1>6, <1>8, <1>9, <1>10, <2>1, <2>2 DEF Written, Between
<1>14. TaskNoGaps'
  <2>1. \A id \in 1 .. n : tasks_by_id_'[id] \in Task /\ tasks_by_id_'[id].id = id
    BY <1>3, <1>4, <1>6, <1>8
  <2>2. (tasks_by_id_ = [id \in DOMAIN tasks_by_id_ |-> tasks_by_id_[id]])'
    BY <1>7 DEF Emplace
  <2>. QED
    BY <1>1, <1>4, <1>8, <2>1, <2>2 DEF TaskNoGaps
<1>15. \A g : ListOf(g)' = ListOf(g)
  BY <1>1 DEF ListOf
<1>16. ASSUME NEW g, NEW task, Copy(g, task)
       PROVE  Copy(g, task)'
  <2>1. task.id \in DOMAIN tasks_by_id_ /\ task.id \in 1 .. n /\ task.id # n
    BY <1>3, <1>4, <1>16 DEF Copy
  <2>. QED
    BY <1>8, <1>9, <1>11, <1>16, <2>1 DEF Copy
<1>17. Lists'
  BY <1>15, <1>16 DEF TasksIInv, Lists, Increasing
<1>18. AllListed'
  <2>1. ASSUME NEW id \in 1 .. (n - 1)
        PROVE  /\ tasks_by_id_'[id].goalId = tasks_by_id_[id].goalId
               /\ Listed(tasks_by_id_[id].goalId, id)
    BY <1>3, <1>8, <1>9, <2>1 DEF TasksIInv, AllListed
  <2>2. \A g, id : Listed(g, id) => Listed(g, id)'
    BY <1>15 DEF Listed
  <2>3. \A id \in 1 .. n : id = n \/ id \in 1 .. (n - 1)
    BY <1>3
  <2>. QED
    BY <1>8, <1>11, <2>1, <2>2, <2>3 DEF AllListed
<1>19. /\ TaskEffect(tasks_by_id_, c).result = {new}
       /\ TaskEffect(tasks_by_id_, c).table = tasks_by_id_'
  <2>1. NewTask(Cardinality(DOMAIN tasks_by_id_) + 1, c.goal_id) = new
    BY <1>a, NextTaskId DEF TasksIInv
  <2>2. Cardinality(DOMAIN tasks_by_id_) + 1 = n
    BY <1>a, NextTaskId DEF TasksIInv
  <2>. QED
    BY <1>1, <1>7, <2>1, <2>2 DEF TaskEffect
<1>. QED
  BY <1>a, <1>1, <1>2, <1>12, <1>13, <1>14, <1>17, <1>18, <1>19 DEF TasksIInv

\* What a list is like with one more task at its end.
LEMMA Appended ==
  ASSUME NEW list \in Seq(Task), NEW task \in Task
  PROVE  LET longer == Append(list, task)
         IN  /\ longer \in Seq(Task)
             /\ DOMAIN list = 1 .. Len(list) /\ Len(list) \in Nat
             /\ DOMAIN longer = 1 .. (Len(list) + 1)
             /\ longer[Len(list) + 1] = task
             /\ \A i \in DOMAIN list : longer[i] = list[i]
OBVIOUS

\* At the end of a create, when nobody is inside any more, the tables are those
\* of before and one list is longer.
LEMMA CreateTaskListKeeps ==
  ASSUME TasksIInv, NoThread \notin Thread, NEW t \in Thread, CreateTaskList(t)
  PROVE  TasksIInv' /\ Silent /\ UNCHANGED tasks_by_id_
<1>a. PICK n, goal_id : n = next_id_ - 1 /\ goal_id = call[t].goal_id
  OBVIOUS
<1>b. PICK task : task = tasks_by_id_[n]
  OBVIOUS
<1>1. /\ pc[t] = "second copy" /\ CallTypes /\ Between(t, "CreateTask")
      /\ Finish(t, result[t]) /\ UNCHANGED <<next_id_, tasks_by_id_>>
  BY DEF CreateTaskList, At, TasksIInv, Between
<1>2. /\ CallTypes' /\ Only(t) /\ Silent /\ UNCHANGED call /\ pc'[t] = "done"
  BY <1>1, FinishStep DEF Inside
<1>3. /\ n \in DOMAIN tasks_by_id_ /\ result[t] = {task} /\ task.goalId = goal_id
      /\ task \in Task /\ task.id = n
  BY <1>a, <1>b, <1>1 DEF TasksIInv, Written, TaskNoGaps
<1>4. goal_id \in Goal
  BY <1>3 DEF Task
<1>5. tasks_by_goal_' = [g \in DOMAIN tasks_by_goal_ \cup {goal_id} |->
         IF g = goal_id THEN Append(ListOf(g), task) ELSE tasks_by_goal_[g]]
  BY <1>a, <1>3 DEF CreateTaskList
<1>6. /\ ListOf(goal_id)' = Append(ListOf(goal_id), task)
      /\ \A g : g # goal_id => ListOf(g)' = ListOf(g)
  BY <1>5 DEF ListOf
<1>7. /\ \A s \in Thread : pc[s] = "second copy" => s = t
      /\ \A s \in Thread : pc'[s] # "second copy"
  <2>1. \A s \in Thread : pc[s] = "second copy" => s = t
    BY <1>1, OneInside DEF Inside
  <2>. QED
    BY <1>2, <2>1 DEF Only
<1>8. /\ \A id : Unlisted(id) <=> id = n
      /\ \A id : ~Lagging(id) /\ ~Unlisted(id)' /\ ~Lagging(id)'
  BY <1>a, <1>1, <1>7 DEF Unlisted, Lagging, Between
<1>9. TaskCallsMatch' /\ Written'
  <2>1. TaskCallsMatch'
    <3>1. call'[t] \in TasksCall
      BY <1>1, <1>2 DEF TasksIInv, TaskCallsMatch
    <3>2. \A s \in Thread \ {t} :
            pc'[s] # "id read" /\ (pc'[s] # "idle" => call'[s] \in TasksCall)
      BY <1>2 DEF TasksIInv, TaskCallsMatch, Only
    <3>. QED
      BY <1>2, <1>7, <3>1, <3>2 DEF TaskCallsMatch
  <2>2. Written'
    BY <1>7 DEF Written, Between
  <2>. QED
    BY <2>1, <2>2
<1>10. TaskNoGaps'
  BY <1>1 DEF TasksIInv, TaskNoGaps
<1>11. ASSUME NEW g, NEW other, Copy(g, other)
       PROVE  Copy(g, other)'
  BY <1>1, <1>8, <1>11 DEF Copy
<1>12. Copy(goal_id, task)'
  BY <1>1, <1>b, <1>3, <1>8 DEF Copy
<1>c. PICK list, longer, k :
        /\ list = ListOf(goal_id) /\ longer = ListOf(goal_id)'
        /\ k = Len(list) + 1
  OBVIOUS
<1>13. /\ list \in Seq(Task) /\ longer \in Seq(Task)
       /\ \A i \in DOMAIN list : i \in DOMAIN longer /\ longer[i] = list[i]
       /\ k \in DOMAIN longer /\ longer[k] = task
       /\ \A i \in DOMAIN longer :
            i \in Nat /\ ((i \in DOMAIN list /\ i < k) \/ i = k)
  <2>1. list \in Seq(Task) /\ longer = Append(list, task)
    BY <1>c, <1>4, <1>6 DEF TasksIInv, Lists
  <2>2. /\ longer \in Seq(Task)
        /\ DOMAIN list = 1 .. Len(list) /\ Len(list) \in Nat
        /\ DOMAIN longer = 1 .. (Len(list) + 1)
        /\ longer[Len(list) + 1] = task
        /\ \A i \in DOMAIN list : longer[i] = list[i]
    BY <1>3, <2>1, Appended
  <2>. QED
    BY <1>c, <2>1, <2>2
<1>14. Lists'
  <2>1. /\ Increasing(list)
        /\ \A i \in DOMAIN list : Copy(goal_id, list[i])
    BY <1>c, <1>4 DEF TasksIInv, Lists
  <2>2. \A i \in DOMAIN list : list[i].id < n
    <3>1. \A i \in DOMAIN list :
            list[i].id \in DOMAIN tasks_by_id_ /\ list[i].id # n
      BY <1>8, <2>1 DEF Copy
    <3>2. \A id \in DOMAIN tasks_by_id_ : id # n => id < n
      BY <1>a DEF TasksIInv, TaskNoGaps
    <3>. QED
      BY <3>1, <3>2
  <2>3. Increasing(longer)
    <3>. SUFFICES ASSUME NEW i \in DOMAIN longer, NEW j \in DOMAIN longer, i < j
                  PROVE  longer[i].id < longer[j].id
      BY DEF Increasing
    <3>1. /\ i \in DOMAIN list /\ longer[i] = list[i]
          /\ (j \in DOMAIN list /\ longer[j] = list[j]) \/ j = k
      BY <1>13
    <3>. QED
      BY <1>3, <1>13, <2>1, <2>2, <3>1 DEF Increasing
  <2>4. \A i \in DOMAIN longer : Copy(goal_id, longer[i])'
    <3>1. ASSUME NEW i \in DOMAIN list
          PROVE  Copy(goal_id, list[i])'
      BY <2>1, <1>11
    <3>. QED
      BY <1>12, <1>13, <3>1
  <2>5. ASSUME NEW g \in Goal
        PROVE  (/\ ListOf(g) \in Seq(Task)
                /\ Increasing(ListOf(g))
                /\ \A i \in DOMAIN ListOf(g) : Copy(g, ListOf(g)[i]))'
    <3>1. CASE g = goal_id
      BY <1>c, <1>13, <2>3, <2>4, <3>1
    <3>2. CASE g # goal_id
      <4>1. PICK same : same = ListOf(g) /\ same = ListOf(g)'
        BY <1>6, <3>2
      <4>2. /\ same \in Seq(Task) /\ Increasing(same)
            /\ \A i \in DOMAIN same : Copy(g, same[i])
        BY <4>1 DEF TasksIInv, Lists
      <4>3. \A i \in DOMAIN same : Copy(g, same[i])'
        BY <4>2, <1>11
      <4>. QED
        BY <4>1, <4>2, <4>3
    <3>. QED
      BY <3>1, <3>2
  <2>. QED
    BY <2>5 DEF Lists
<1>16. AllListed'
  <2>1. ASSUME NEW g, NEW id, Listed(g, id)
        PROVE  Listed(g, id)'
    <3>1. CASE g = goal_id
      BY <1>c, <1>13, <2>1, <3>1 DEF Listed
    <3>2. CASE g # goal_id
      BY <1>6, <2>1, <3>2 DEF Listed
    <3>. QED
      BY <3>1, <3>2
  <2>2. Listed(goal_id, n)'
    BY <1>c, <1>3, <1>13 DEF Listed
  <2>. QED
    BY <1>b, <1>1, <1>3, <1>8, <2>1, <2>2 DEF TasksIInv, AllListed
<1>15. (DOMAIN tasks_by_goal_ \subseteq Goal)'
  BY <1>4, <1>5 DEF TasksIInv
<1>. QED
  BY <1>1, <1>2, <1>9, <1>10, <1>14, <1>15, <1>16 DEF TasksIInv

\* What an update that finds its task does to the table.
LEMMA UpdateEffect ==
  ASSUME TaskNoGaps, NEW c, c.op = "UpdateTaskStatus",
         c.task_id \in DOMAIN tasks_by_id_,
         tasks_by_id_[c.task_id].goalId = c.goal_id
  PROVE  LET updated == [tasks_by_id_[c.task_id]
                           EXCEPT !.status = TaskStatusToString[c.new_st]]
         IN  /\ TaskEffect(tasks_by_id_, c).table
                  = [tasks_by_id_ EXCEPT ![c.task_id] = updated]
             /\ TaskEffect(tasks_by_id_, c).result = {updated}
<1>. DEFINE table == tasks_by_id_
            st    == TaskStatusToString[c.new_st]
            found == {task \in Find(table, c.task_id) : task.goalId = c.goal_id}
            set   == [i \in DOMAIN table |->
                        IF table[i] \in found
                        THEN [table[i] EXCEPT !.status = st] ELSE table[i]]
<1>1. found = {table[c.task_id]}
  BY DEF Find
<1>2. \A i \in DOMAIN table : table[i].id = i
  BY DEF TaskNoGaps
<1>3. \A i \in DOMAIN table : table[i] \in found <=> i = c.task_id
  BY <1>1, <1>2
<1>4. set = [table EXCEPT ![c.task_id] = [table[c.task_id] EXCEPT !.status = st]]
  BY <1>3
<1>5. {set[task.id] : task \in found} = {[table[c.task_id] EXCEPT !.status = st]}
  <2>1. PICK x : x = table[c.task_id]
    OBVIOUS
  <2>2. found = {x} /\ x.id = c.task_id
    BY <1>1, <1>2, <2>1
  <2>3. {set[task.id] : task \in found} = {set[x.id]}
    <3>. HIDE DEF set, found
    <3>. QED
      BY <2>2
  <2>4. set[c.task_id] = [table[c.task_id] EXCEPT !.status = st]
    BY <1>3
  <2>. QED
    BY <2>2, <2>3, <2>4
<1>6. /\ TaskEffect(table, c).table = set
      /\ TaskEffect(table, c).result = {set[task.id] : task \in found}
  BY DEF TaskEffect
<1>. QED
  BY <1>4, <1>5, <1>6

\* And one that does not find it.
LEMMA NoUpdateEffect ==
  ASSUME NEW c, c.op = "UpdateTaskStatus",
         {task \in Find(tasks_by_id_, c.task_id) : task.goalId = c.goal_id} = {},
         TaskNoGaps
  PROVE  /\ TaskEffect(tasks_by_id_, c).table = tasks_by_id_
         /\ TaskEffect(tasks_by_id_, c).result = {}
<1>. DEFINE table == tasks_by_id_
            st    == TaskStatusToString[c.new_st]
            found == {task \in Find(table, c.task_id) : task.goalId = c.goal_id}
            set   == [i \in DOMAIN table |->
                        IF table[i] \in found
                        THEN [table[i] EXCEPT !.status = st] ELSE table[i]]
<1>1. table = [i \in DOMAIN table |-> table[i]]
  BY DEF TaskNoGaps
<1>2. set = table
  BY <1>1
<1>3. /\ TaskEffect(table, c).table = set
      /\ TaskEffect(table, c).result = {set[task.id] : task \in found}
  BY DEF TaskEffect
<1>. QED
  BY <1>2, <1>3

LEMMA UpdateTaskStatusKeeps ==
  ASSUME TasksIInv, NoThread \notin Thread, NEW t \in Thread, UpdateTaskStatus(t)
  PROVE  TasksIInv' /\ Effective(t, TaskEffect(tasks_by_id_, call[t]).result)
         /\ tasks_by_id_' = TaskEffect(tasks_by_id_, call[t]).table
<1>a. PICK c, id, st : /\ c = call[t] /\ id = c.task_id
                       /\ st = TaskStatusToString[c.new_st]
  OBVIOUS
<1>b. PICK found : found = {task \in Find(tasks_by_id_, id) :
                              task.goalId = c.goal_id}
  OBVIOUS
<1>c. PICK u : u = [tasks_by_id_[id] EXCEPT !.status = st]
  OBVIOUS
<1>1. /\ pc[t] = "locked" /\ c.op = "UpdateTaskStatus" /\ CallTypes
      /\ c \in TasksCall /\ TaskNoGaps
  BY <1>a DEF UpdateTaskStatus, At, TasksIInv, TaskCallsMatch
<1>2. CASE found = {}
  <2>1. Finish(t, {}) /\ UNCHANGED tasks_stored
    BY <1>a, <1>b, <1>2 DEF UpdateTaskStatus
  <2>2. CallTypes' /\ Only(t) /\ pc'[t] = "done" /\ Effective(t, {})
        /\ UNCHANGED call
    BY <1>1, <2>1, FinishStep DEF Inside
  <2>3. /\ TaskEffect(tasks_by_id_, c).table = tasks_by_id_
        /\ TaskEffect(tasks_by_id_, c).result = {}
    BY <1>a, <1>b, <1>1, <1>2, NoUpdateEffect
  <2>. QED
    BY <1>a, <1>1, <2>1, <2>2, <2>3, TasksKept DEF tasks_stored
<1>3. CASE found # {}
  <2>1. /\ id \in DOMAIN tasks_by_id_ /\ found = {tasks_by_id_[id]}
        /\ tasks_by_id_[id].goalId = c.goal_id
    BY <1>b, <1>3 DEF Find
  <2>3. /\ tasks_by_id_' = [tasks_by_id_ EXCEPT ![id] = u]
        /\ Keep(t, "second copy", {u})
        /\ UNCHANGED <<next_id_, tasks_by_goal_>>
    <3>. DEFINE F == {task \in Find(tasks_by_id_, call[t].task_id) :
                        task.goalId = call[t].goal_id}
                U == {[task EXCEPT !.status = TaskStatusToString[call[t].new_st]] :
                        task \in F}
    <3>1. F = found
      BY <1>a, <1>b
    <3>2. F # {} => /\ \E task \in U :
                         tasks_by_id_' = [tasks_by_id_ EXCEPT
                                            ![call[t].task_id] = task]
                    /\ Keep(t, "second copy", U)
                    /\ UNCHANGED <<next_id_, tasks_by_goal_>>
      BY DEF UpdateTaskStatus
    <3>3. U = {u}
      <4>1. F = {tasks_by_id_[id]}
        BY <2>1, <3>1
      <4>. HIDE DEF F
      <4>. QED
        BY <1>a, <1>c, <4>1
    <3>. HIDE DEF F, U
    <3>. QED
      BY <1>a, <1>3, <3>1, <3>2, <3>3
  <2>4. /\ CallTypes' /\ Only(t) /\ Effective(t, {u}) /\ UNCHANGED call
        /\ pc'[t] = "second copy" /\ result'[t] = {u}
    BY <1>1, <2>3, KeepStep DEF Keep
  <2>5. u \in Task /\ u.id = id /\ u.goalId = c.goal_id /\ u.status = st
    <3>1. c.new_st \in TaskStatus
      BY <1>1 DEF TasksCall
    <3>2. tasks_by_id_[id] \in Task /\ tasks_by_id_[id].id = id
      BY <1>1, <2>1 DEF TaskNoGaps
    <3>. QED
      BY <1>a, <1>c, <2>1, <3>1, <3>2 DEF Task
  <2>6. /\ DOMAIN tasks_by_id_' = DOMAIN tasks_by_id_
        /\ tasks_by_id_'[id] = u
        /\ \A i \in DOMAIN tasks_by_id_ :
             /\ i # id => tasks_by_id_'[i] = tasks_by_id_[i]
             /\ tasks_by_id_'[i].goalId = tasks_by_id_[i].goalId
    BY <2>1, <2>3, <2>5
  <2>7. /\ \A s \in Thread : pc[s] # "second copy"
        /\ \A s \in Thread : pc'[s] = "second copy" => s = t
        /\ \A i : ~Unlisted(i) /\ ~Lagging(i)
    BY <1>1, <2>4, TaskLockedCopies DEF Only
  <2>8. Between(t, "UpdateTaskStatus")'
    BY <1>a, <1>1, <2>4 DEF Between
  <2>9. \A i : ~Unlisted(i)' /\ (Lagging(i)' <=> i = id)
    <3>1. call'[t].task_id = id /\ call'[t].op # "CreateTask"
      BY <1>a, <1>1, <2>4
    <3>. QED
      BY <2>7, <2>8, <3>1 DEF Unlisted, Lagging, Between
  <2>10. TaskCallsMatch'
    <3>1. call'[t] \in TasksCall
      BY <1>a, <1>1, <2>4
    <3>2. \A s \in Thread \ {t} :
            pc'[s] # "id read" /\ (pc'[s] # "idle" => call'[s] \in TasksCall)
      BY <2>4 DEF TasksIInv, TaskCallsMatch, Only
    <3>. QED
      BY <2>4, <2>7, <2>8, <3>1, <3>2 DEF TaskCallsMatch
  <2>11. Written'
    <3>1. /\ call'[t].task_id = id /\ call'[t].op # "CreateTask"
          /\ call'[t].goal_id = c.goal_id
          /\ TaskStatusToString[call'[t].new_st] = st
      BY <1>a, <1>1, <2>4
    <3>2. \A s \in Thread :
            /\ ~Between(s, "CreateTask")'
            /\ Between(s, "UpdateTaskStatus")' => s = t
      BY <2>7, <3>1 DEF Between
    <3>3. /\ call'[t].task_id \in DOMAIN tasks_by_id_'
          /\ result'[t] = {tasks_by_id_'[call'[t].task_id]}
          /\ tasks_by_id_'[call'[t].task_id].goalId = call'[t].goal_id
          /\ tasks_by_id_'[call'[t].task_id].status
               = TaskStatusToString[call'[t].new_st]
      BY <2>1, <2>4, <2>5, <2>6, <3>1
    <3>. QED
      BY <3>2, <3>3 DEF Written
  <2>12. TaskNoGaps'
    <3>1. (tasks_by_id_ = [i \in DOMAIN tasks_by_id_ |-> tasks_by_id_[i]])'
      BY <2>3
    <3>. QED
      BY <1>1, <2>3, <2>5, <2>6, <3>1 DEF TaskNoGaps
  <2>13. \A g : ListOf(g)' = ListOf(g)
    BY <2>3 DEF ListOf
  <2>14. ASSUME NEW g, NEW task, Copy(g, task)
         PROVE  Copy(g, task)'
    BY <2>6, <2>7, <2>9, <2>14 DEF Copy
  <2>15. Lists'
    BY <2>13, <2>14 DEF TasksIInv, Lists, Increasing
  <2>16. AllListed'
    <3>1. \A i \in DOMAIN tasks_by_id_ :
            /\ tasks_by_id_'[i].goalId = tasks_by_id_[i].goalId
            /\ Listed(tasks_by_id_[i].goalId, i)
      BY <2>6, <2>7 DEF TasksIInv, AllListed
    <3>2. \A g, i : Listed(g, i) => Listed(g, i)'
      BY <2>13 DEF Listed
    <3>. QED
      BY <2>6, <3>1, <3>2 DEF AllListed
  <2>17. /\ TaskEffect(tasks_by_id_, c).table = tasks_by_id_'
         /\ TaskEffect(tasks_by_id_, c).result = {u}
    BY <1>a, <1>c, <1>1, <2>1, <2>3, UpdateEffect
  <2>. QED
    BY <1>a, <2>3, <2>4, <2>10, <2>11, <2>12, <2>15, <2>16, <2>17 DEF TasksIInv
<1>. QED
  BY <1>2, <1>3

\* At the end of an update the list of the goal has caught up.
LEMMA UpdateTaskStatusListKeeps ==
  ASSUME TasksIInv, NoThread \notin Thread, NEW t \in Thread, UpdateTaskStatusList(t)
  PROVE  TasksIInv' /\ Silent /\ UNCHANGED tasks_by_id_
<1>a. PICK goal_id, id, st, row : /\ goal_id = call[t].goal_id
                                  /\ id = call[t].task_id
                                  /\ st = TaskStatusToString[call[t].new_st]
                                  /\ row = tasks_by_id_[id]
  OBVIOUS
<1>b. PICK list : list = ListOf(goal_id)
  OBVIOUS
<1>1. /\ pc[t] = "second copy" /\ CallTypes
      /\ Between(t, "UpdateTaskStatus")
      /\ Finish(t, result[t]) /\ UNCHANGED <<next_id_, tasks_by_id_>>
  BY DEF UpdateTaskStatusList, At, TasksIInv, Between
<1>2. /\ CallTypes' /\ Only(t) /\ Silent /\ UNCHANGED call /\ pc'[t] = "done"
  BY <1>1, FinishStep DEF Inside
<1>3. /\ id \in DOMAIN tasks_by_id_ /\ row.goalId = goal_id
      /\ row.status = st /\ row \in Task /\ row.id = id
  BY <1>a, <1>1 DEF TasksIInv, Written, TaskNoGaps
<1>4. goal_id \in Goal
  BY <1>3 DEF Task
<1>5. /\ \A s \in Thread : pc[s] = "second copy" => s = t
      /\ \A s \in Thread : pc'[s] # "second copy"
  <2>1. \A s \in Thread : pc[s] = "second copy" => s = t
    BY <1>1, OneInside DEF Inside
  <2>. QED
    BY <1>2, <2>1 DEF Only
<1>6. /\ \A i : Lagging(i) <=> i = id
      /\ \A i : ~Unlisted(i) /\ ~Unlisted(i)' /\ ~Lagging(i)'
  BY <1>a, <1>1, <1>5 DEF Unlisted, Lagging, Between
<1>7. /\ list \in Seq(Task) /\ Increasing(list)
      /\ \A i \in DOMAIN list : i \in Nat /\ list[i].id \in Nat /\ list[i] \in Task
      /\ \A i \in DOMAIN list : Copy(goal_id, list[i])
  <2>1. /\ list \in Seq(Task) /\ Increasing(list)
        /\ \A i \in DOMAIN list : Copy(goal_id, list[i])
    BY <1>b, <1>4 DEF TasksIInv, Lists
  <2>2. \A i \in DOMAIN list : i \in Nat /\ list[i] \in Task
    BY <2>1
  <2>. QED
    BY <2>1, <2>2 DEF Task
<1>8. \E i \in DOMAIN list : list[i].id = id
  BY <1>a, <1>b, <1>3, <1>6 DEF TasksIInv, AllListed, Listed
<1>9. PICK at \in DOMAIN list :
        /\ list[at].id = id
        /\ tasks_by_goal_' = [tasks_by_goal_ EXCEPT ![goal_id][at].status = st]
  BY <1>a, <1>b, <1>8 DEF UpdateTaskStatusList
<1>10. goal_id \in DOMAIN tasks_by_goal_ /\ list = tasks_by_goal_[goal_id]
  BY <1>b, <1>9 DEF ListOf
<1>c. PICK caught : caught = [list EXCEPT ![at] = [list[at] EXCEPT !.status = st]]
  OBVIOUS
<1>11. /\ ListOf(goal_id)' = caught
       /\ \A g : g # goal_id => ListOf(g)' = ListOf(g)
       /\ DOMAIN tasks_by_goal_' = DOMAIN tasks_by_goal_
  BY <1>c, <1>9, <1>10 DEF ListOf
<1>12. [list[at] EXCEPT !.status = st] = row
  <2>1. list[at] \in Task /\ list[at].goalId = goal_id
    BY <1>7 DEF Copy
  <2>. QED
    BY <1>3, <1>9, <2>1 DEF Task
<1>13. /\ caught \in Seq(Task) /\ DOMAIN caught = DOMAIN list
       /\ caught[at] = row
       /\ \A i \in DOMAIN list :
            /\ caught[i].id = list[i].id
            /\ i # at => caught[i] = list[i]
  <2>1. caught = [list EXCEPT ![at] = row]
    BY <1>c, <1>12
  <2>2. list \in Seq(Task) /\ row \in Task /\ at \in DOMAIN list
    BY <1>3, <1>7
  <2>3. caught \in Seq(Task) /\ DOMAIN caught = DOMAIN list
    BY <2>1, <2>2
  <2>4. /\ caught[at] = row
        /\ \A i \in DOMAIN list : i # at => caught[i] = list[i]
    BY <2>1, <2>2
  <2>. QED
    BY <1>3, <1>9, <2>3, <2>4
<1>14. \A i \in DOMAIN list : i # at => list[i].id # id
  BY <1>7, <1>9 DEF Increasing
<1>15. TaskCallsMatch' /\ Written' /\ TaskNoGaps'
  <2>1. TaskCallsMatch'
    <3>1. call'[t] \in TasksCall
      BY <1>1, <1>2 DEF TasksIInv, TaskCallsMatch
    <3>2. \A s \in Thread \ {t} :
            pc'[s] # "id read" /\ (pc'[s] # "idle" => call'[s] \in TasksCall)
      BY <1>2 DEF TasksIInv, TaskCallsMatch, Only
    <3>. QED
      BY <1>2, <1>5, <3>1, <3>2 DEF TaskCallsMatch
  <2>2. Written'
    BY <1>5 DEF Written, Between
  <2>3. TaskNoGaps'
    BY <1>1 DEF TasksIInv, TaskNoGaps
  <2>. QED
    BY <2>1, <2>2, <2>3
<1>16. ASSUME NEW g, NEW task, Copy(g, task), task.id # id
       PROVE  Copy(g, task)'
  BY <1>1, <1>6, <1>16 DEF Copy
<1>17. Copy(goal_id, row)'
  BY <1>a, <1>1, <1>3, <1>6 DEF Copy
<1>18. Lists'
  <2>1. ASSUME NEW g \in Goal
        PROVE  (/\ ListOf(g) \in Seq(Task)
                /\ Increasing(ListOf(g))
                /\ \A i \in DOMAIN ListOf(g) : Copy(g, ListOf(g)[i]))'
    <3>1. CASE g = goal_id
      <4>1. Increasing(caught)
        <5>. SUFFICES ASSUME NEW i \in DOMAIN caught, NEW j \in DOMAIN caught,
                             i < j
                      PROVE  caught[i].id < caught[j].id
          BY DEF Increasing
        <5>1. i \in DOMAIN list /\ j \in DOMAIN list
          BY <1>13
        <5>2. list[i].id < list[j].id
          BY <1>7, <5>1 DEF Increasing
        <5>3. caught[i].id = list[i].id /\ caught[j].id = list[j].id
          BY <1>13, <5>1
        <5>. QED
          BY <5>2, <5>3
      <4>2. \A i \in DOMAIN caught : Copy(goal_id, caught[i])'
        <5>1. ASSUME NEW i \in DOMAIN list, i # at
              PROVE  Copy(goal_id, list[i])'
          BY <1>7, <1>14, <1>16, <5>1
        <5>2. \A i \in DOMAIN caught :
                \/ caught[i] = row
                \/ i \in DOMAIN list /\ i # at /\ caught[i] = list[i]
          BY <1>13
        <5>. QED
          BY <1>17, <5>1, <5>2
      <4>. QED
        BY <1>11, <1>13, <3>1, <4>1, <4>2
    <3>2. CASE g # goal_id
      <4>1. PICK same : same = ListOf(g) /\ same = ListOf(g)'
        BY <1>11, <3>2
      <4>2. /\ same \in Seq(Task) /\ Increasing(same)
            /\ \A i \in DOMAIN same : Copy(g, same[i])
        BY <4>1 DEF TasksIInv, Lists
      <4>3. \A i \in DOMAIN same : same[i].id # id
        BY <1>a, <1>3, <3>2, <4>2 DEF Copy
      <4>4. \A i \in DOMAIN same : Copy(g, same[i])'
        BY <4>2, <4>3, <1>16
      <4>. QED
        BY <4>1, <4>2, <4>4
    <3>. QED
      BY <3>1, <3>2
  <2>. QED
    BY <2>1 DEF Lists
<1>19. AllListed'
  <2>1. ASSUME NEW g, NEW i, Listed(g, i)
        PROVE  Listed(g, i)'
    <3>1. CASE g = goal_id
      <4>1. PICK k \in DOMAIN list : list[k].id = i
        BY <1>b, <2>1, <3>1 DEF Listed
      <4>2. k \in DOMAIN caught /\ caught[k].id = i
        BY <1>13, <4>1
      <4>. QED
        BY <1>11, <3>1, <4>2 DEF Listed
    <3>2. CASE g # goal_id
      BY <1>11, <2>1, <3>2 DEF Listed
    <3>. QED
      BY <3>1, <3>2
  <2>. QED
    BY <1>1, <1>6, <2>1 DEF TasksIInv, AllListed
<1>. QED
  BY <1>1, <1>2, <1>11, <1>15, <1>18, <1>19 DEF TasksIInv

\* The list of a goal, for who has the mutex: the tasks of that goal by id.
LEMMA ListIsTable ==
  ASSUME TasksIInv, NEW t \in Thread, pc[t] = "locked", NEW g \in Goal
  PROVE  ToSet(ListOf(g))
           = {tasks_by_id_[i] : i \in {j \in DOMAIN tasks_by_id_ :
                                         tasks_by_id_[j].goalId = g}}
<1>a. PICK list : list = ListOf(g)
  OBVIOUS
<1>1. \A id : ~Unlisted(id) /\ ~Lagging(id)
  BY TaskLockedCopies
<1>2. \A i \in DOMAIN list :
        /\ list[i].goalId = g
        /\ list[i].id \in DOMAIN tasks_by_id_
        /\ tasks_by_id_[list[i].id] = list[i]
  BY <1>a, <1>1 DEF TasksIInv, Lists, Copy
<1>3. \A id \in DOMAIN tasks_by_id_ :
        tasks_by_id_[id].goalId = g =>
          \E i \in DOMAIN list : list[i].id = id
  BY <1>a, <1>1 DEF TasksIInv, AllListed, Listed
<1>4. ASSUME NEW x \in ToSet(list)
      PROVE  \E i \in DOMAIN tasks_by_id_ :
               tasks_by_id_[i].goalId = g /\ x = tasks_by_id_[i]
  <2>1. PICK i \in DOMAIN list : x = list[i]
    BY DEF ToSet
  <2>. QED
    BY <1>2, <2>1
<1>5. ASSUME NEW i \in DOMAIN tasks_by_id_, tasks_by_id_[i].goalId = g
      PROVE  tasks_by_id_[i] \in ToSet(list)
  <2>1. PICK k \in DOMAIN list : list[k].id = i
    BY <1>3, <1>5
  <2>2. tasks_by_id_[i] = list[k]
    BY <1>2, <2>1
  <2>. QED
    BY <2>2 DEF ToSet
<1>. QED
  BY <1>a, <1>4, <1>5

\* The calls that only look.
LEMMA TaskLookKeeps ==
  ASSUME TasksIInv, NoThread \notin Thread, NEW t \in Thread,
         TasksGetById(t) \/ GetByGoal(t)
  PROVE  TasksIInv' /\ Effective(t, TaskEffect(tasks_by_id_, call[t]).result)
         /\ tasks_by_id_' = TaskEffect(tasks_by_id_, call[t]).table
<1>. DEFINE e == TaskEffect(tasks_by_id_, call[t])
<1>1. pc[t] = "locked" /\ CallTypes /\ UNCHANGED tasks_stored /\ call[t] \in TasksCall
  BY DEF TasksGetById, GetByGoal, At, TasksIInv, TaskCallsMatch
<1>2. Finish(t, e.result) /\ e.table = tasks_by_id_
  <2>1. CASE TasksGetById(t)
    BY <2>1 DEF TasksGetById, At, TaskEffect
  <2>2. CASE GetByGoal(t)
    <3>1. /\ call[t].op = "GetByGoal"
          /\ Finish(t, ToSet(ListOf(call[t].goal_id)))
      BY <2>2 DEF GetByGoal, At
    <3>2. call[t].goal_id \in Goal
      BY <1>1, <3>1 DEF TasksCall
    <3>3. /\ e.table = tasks_by_id_
          /\ e.result = {tasks_by_id_[i] :
                           i \in {j \in DOMAIN tasks_by_id_ :
                                    tasks_by_id_[j].goalId = call[t].goal_id}}
      BY <3>1 DEF TaskEffect
    <3>. QED
      BY <1>1, <3>1, <3>2, <3>3, ListIsTable
  <2>. QED
    BY <2>1, <2>2
<1>3. /\ CallTypes' /\ Only(t) /\ pc'[t] = "done" /\ Effective(t, e.result)
      /\ UNCHANGED call
  BY <1>1, <1>2, FinishStep DEF Inside
<1>. QED
  BY <1>1, <1>2, <1>3, TasksKept DEF tasks_stored

----------------------------------------------------------------------------
\* Every step keeps the invariant, and is one of AtomicStore or a stutter.
LEMMA StepOfTasks ==
  ASSUME TasksIInv, NoThread \notin Thread, [TasksNext]_tasks_vars
  PROVE  TasksIInv' /\ [TasksStore!Next]_(TasksStore!vars)
<1>1. CASE UNCHANGED tasks_vars
  <2>1. UNCHANGED <<mutex_, pc, call, result, next_id_, tasks_by_id_,
                    tasks_by_goal_>>
    BY <1>1 DEF tasks_vars, calls, tasks_stored
  <2>2. UNCHANGED TasksStore!vars
    BY <2>1 DEF TasksStore!vars, Stages, Results, Stage
  <2>3. CallTypes' /\ TaskCallsMatch' /\ Written' /\ TaskNoGaps'
    <3>1. CallTypes'
      BY <2>1 DEF TasksIInv, CallTypes
    <3>2. TaskCallsMatch'
      BY <2>1 DEF TasksIInv, TaskCallsMatch, Between
    <3>3. Written'
      BY <2>1 DEF TasksIInv, Written, Between
    <3>4. TaskNoGaps'
      BY <2>1 DEF TasksIInv, TaskNoGaps
    <3>. QED
      BY <3>1, <3>2, <3>3, <3>4
  <2>4. /\ \A id : (Unlisted(id)' <=> Unlisted(id)) /\ (Lagging(id)' <=> Lagging(id))
        /\ \A g : ListOf(g)' = ListOf(g)
    BY <2>1 DEF Unlisted, Lagging, Between, ListOf
  <2>5. \A g, task : Copy(g, task)' <=> Copy(g, task)
    BY <2>1, <2>4 DEF Copy
  <2>6. (DOMAIN tasks_by_goal_ \subseteq Goal /\ Lists /\ AllListed)'
    BY <2>1, <2>4, <2>5 DEF TasksIInv, Lists, Increasing, AllListed, Listed
  <2>. QED
    BY <2>2, <2>3, <2>6 DEF TasksIInv
<1>2. ASSUME NEW t \in Thread, TasksStart(t)
      PROVE  TasksIInv' /\ TasksStore!Begin(t)
  <2>1. PICK c \in TasksCall : Invoke(t, c)
    BY <1>2 DEF TasksStart
  <2>2. UNCHANGED tasks_stored
    BY <1>2 DEF TasksStart
  <2>3. /\ CallTypes' /\ Only(t) /\ pc'[t] = "called" /\ pc[t] = "idle"
        /\ call'[t] = c
        /\ Stages[t] = "idle" /\ Stages' = [Stages EXCEPT ![t] = "called"]
        /\ call' = [call EXCEPT ![t] = c]
        /\ Results' = Results
    BY <2>1, InvokeStep DEF TasksIInv
  <2>4. TasksIInv'
    BY <2>2, <2>3, TasksKept
  <2>. QED
    BY <2>2, <2>3, <2>4 DEF TasksStore!Begin, tasks_stored
<1>3. ASSUME NEW t \in Thread, Lock(t), UNCHANGED tasks_stored
      PROVE  TasksIInv' /\ UNCHANGED TasksStore!vars
  <2>1. /\ CallTypes' /\ Only(t) /\ Silent
        /\ pc[t] = "called" /\ pc'[t] = "locked"
    BY <1>3, LockStep DEF TasksIInv
  <2>2. call'[t] \in TasksCall
    BY <2>1 DEF TasksIInv, TaskCallsMatch, Silent
  <2>. QED
    BY <1>3, <2>1, <2>2, TasksKept DEF Silent, TasksStore!vars, tasks_stored
<1>4. ASSUME NEW t \in Thread, Return(t), UNCHANGED tasks_stored
      PROVE  TasksIInv' /\ TasksStore!End(t)
  <2>1. /\ CallTypes' /\ Only(t) /\ pc'[t] = "idle" /\ pc[t] = "done"
        /\ Stages[t] = "done" /\ Stages' = [Stages EXCEPT ![t] = "idle"]
        /\ call' = [call EXCEPT ![t] = NoCall]
        /\ Results' = [Results EXCEPT ![t] = {}]
    BY <1>4, ReturnStep DEF TasksIInv
  <2>. QED
    BY <1>4, <2>1, TasksKept DEF TasksStore!End, tasks_stored
<1>5. ASSUME NEW t \in Thread, CreateTaskList(t) \/ UpdateTaskStatusList(t)
      PROVE  TasksIInv' /\ UNCHANGED TasksStore!vars
  BY <1>5, CreateTaskListKeeps, UpdateTaskStatusListKeeps DEF Silent, TasksStore!vars
<1>6. ASSUME NEW t \in Thread,
             \/ CreateTask(t) \/ UpdateTaskStatus(t)
             \/ TasksGetById(t) \/ GetByGoal(t)
      PROVE  TasksIInv' /\ TasksStore!TakeEffect(t)
  <2>1. /\ TasksIInv' /\ Effective(t, TaskEffect(tasks_by_id_, call[t]).result)
        /\ tasks_by_id_' = TaskEffect(tasks_by_id_, call[t]).table
    BY <1>6, CreateTaskKeeps, UpdateTaskStatusKeeps, TaskLookKeeps
  <2>. QED
    BY <2>1 DEF Effective, TasksStore!TakeEffect
<1>. QED
  BY <1>1, <1>2, <1>3, <1>4, <1>5, <1>6 DEF TasksNext, TasksStore!Next

LEMMA TasksInitially ==
  ASSUME TasksInit
  PROVE  TasksIInv /\ TasksStore!Init
<1>1. /\ CallTypes /\ \A t \in Thread : pc[t] = "idle"
      /\ Stages = [t \in Thread |-> "idle"]
      /\ Results = [t \in Thread |-> {}]
  BY StartOfCalls DEF TasksInit
<1>2. /\ DOMAIN tasks_by_id_ = {} /\ DOMAIN tasks_by_goal_ = {}
      /\ tasks_by_id_ = EmptyMap /\ next_id_ = 1
      /\ call = [t \in Thread |-> NoCall]
  BY DEF TasksInit, CallsInit, EmptyMap
<1>3. TaskCallsMatch /\ Written
  BY <1>1 DEF TaskCallsMatch, Written, Between
<1>4. TaskNoGaps /\ AllListed
  BY <1>2 DEF TaskNoGaps, AllListed, EmptyMap
<1>5. Lists
  BY <1>2 DEF Lists, ListOf, Increasing
<1>. QED
  BY <1>1, <1>2, <1>3, <1>4, <1>5 DEF TasksIInv, TasksStore!Init

\* Whenever nobody is inside a member function, the list of a goal holds exactly
\* the tasks of that goal, as they are by id, in the order of their ids.
THEOREM CopiesOfTasksAgree ==
  ASSUME NoThread \notin Thread
  PROVE  TasksSpec => []TaskCopiesAgree
<1>1. TasksInit => TasksIInv
  BY TasksInitially
<1>2. TasksIInv /\ [TasksNext]_tasks_vars => TasksIInv'
  BY StepOfTasks
<1>3. TasksIInv => TaskCopiesAgree
  <2>. SUFFICES ASSUME TasksIInv, mutex_ = NoThread
                PROVE  TaskCopiesAgree
    BY DEF TaskCopiesAgree
  <2>1. \A t \in Thread : pc[t] # "second copy"
    BY DEF TasksIInv, CallTypes, Inside
  <2>2. \A id : ~Unlisted(id) /\ ~Lagging(id)
    BY <2>1 DEF Unlisted, Lagging, Between
  <2>3. ASSUME NEW g \in DOMAIN tasks_by_goal_
        PROVE  /\ \A i \in DOMAIN tasks_by_goal_[g] :
                    Copy(g, tasks_by_goal_[g][i])
               /\ Increasing(tasks_by_goal_[g])
    <3>1. ListOf(g) = tasks_by_goal_[g] /\ g \in Goal
      BY DEF ListOf, TasksIInv
    <3>. QED
      BY <3>1 DEF TasksIInv, Lists
  <2>4. \A id \in DOMAIN tasks_by_id_ : Listed(tasks_by_id_[id].goalId, id)
    BY <2>2 DEF TasksIInv, AllListed
  <2>. QED
    BY <2>2, <2>3, <2>4 DEF TaskCopiesAgree, Copy, Increasing, Listed
<1>. QED
  BY <1>1, <1>2, <1>3, PTL DEF TasksSpec

\* Every call of a thread takes effect at one moment, on one table of tasks.
THEOREM TasksStorageIsAtomic ==
  ASSUME NoThread \notin Thread
  PROVE  TasksSpec => TasksAtomic
<1>1. TasksInit => TasksIInv /\ TasksStore!Init
  BY TasksInitially
<1>2. TasksIInv /\ [TasksNext]_tasks_vars => TasksIInv' /\ [TasksStore!Next]_(TasksStore!vars)
  BY StepOfTasks
<1>. QED
  BY <1>1, <1>2, PTL DEF TasksSpec, TasksAtomic, TasksStore!Spec

----------------------------------------------------------------------------
(***************************************************************************)
(* UsersStorage implements AtomicStore, for any number of threads, users   *)
(* and calls.  While nobody is inside, the two maps hold the same users;   *)
(* while somebody creates one, they differ by the user he still owes to    *)
(* the copy by id, and nobody else can look.                               *)
(***************************************************************************)

UserCallsMatch ==
  \A t \in Thread :
    /\ pc[t] # "id read"
    /\ pc[t] = "second copy" => call[t].op = "CreateUser"

\* The user that thread t has written by login, and not yet by id.
Owes(t, user) ==
  /\ pc[t] = "second copy"
  /\ result[t] = {user.id}
  /\ user = NewUser(user.id, call[t])

ById(user) == user.id \in DOMAIN users_by_id_ /\ users_by_id_[user.id] = user

ByLogin(user) ==
  user.login \in DOMAIN users_by_login_ /\ users_by_login_[user.login] = user

LoginCopies ==
  \A l \in DOMAIN users_by_login_ :
    LET user == users_by_login_[l]
    IN  /\ user.login = l /\ user.id \in 1 .. (next_id_ - 1)
        /\ ById(user) \/ \E t \in Thread : Owes(t, user)

IdCopies ==
  \A i \in DOMAIN users_by_id_ :
    LET user == users_by_id_[i] IN user.id = i /\ ByLogin(user)

Owed ==
  \A t \in Thread : pc[t] = "second copy" =>
    \E user : /\ Owes(t, user) /\ ByLogin(user)
              /\ user.id \notin DOMAIN users_by_id_

\* Ids are given out without gaps.
Counted ==
  /\ next_id_ \in Nat
  /\ IsFiniteSet(DOMAIN users_by_login_)
  /\ next_id_ = Cardinality(DOMAIN users_by_login_) + 1

UsersIInv == CallTypes /\ UserCallsMatch /\ LoginCopies /\ IdCopies /\ Owed /\ Counted

----------------------------------------------------------------------------
\* A thread that has the mutex and has written nothing sees two equal copies.
LEMMA UserLockedCopies ==
  ASSUME UsersIInv, NEW t \in Thread, pc[t] = "locked"
  PROVE  /\ \A s \in Thread : pc[s] # "second copy"
         /\ \A l \in DOMAIN users_by_login_ :
              users_by_login_[l].login = l /\ ById(users_by_login_[l])
<1>1. \A s \in Thread : pc[s] # "second copy"
  BY OneInside DEF UsersIInv, Inside
<1>. QED
  BY <1>1 DEF UsersIInv, LoginCopies, Owes

\* So a look-up by id finds what the table by login has under that id.
LEMMA FindById ==
  ASSUME UsersIInv, NEW t \in Thread, pc[t] = "locked", NEW id
  PROVE  /\ Find(users_by_id_, id)
              = {users_by_login_[l] :
                   l \in {k \in DOMAIN users_by_login_ :
                            users_by_login_[k].id = id}}
         /\ {id} \cap DOMAIN users_by_id_
              = {user.id : user \in Find(users_by_id_, id)}
<1>. DEFINE With == {users_by_login_[l] :
                       l \in {k \in DOMAIN users_by_login_ :
                                users_by_login_[k].id = id}}
<1>1. /\ \A l \in DOMAIN users_by_login_ :
           LET user == users_by_login_[l]
           IN user.id \in DOMAIN users_by_id_ /\ users_by_id_[user.id] = user
      /\ \A i \in DOMAIN users_by_id_ :
           LET user == users_by_id_[i]
           IN  /\ user.id = i /\ user.login \in DOMAIN users_by_login_
               /\ users_by_login_[user.login] = user
  BY UserLockedCopies DEF UsersIInv, ById, IdCopies, ByLogin
<1>2. CASE id \in DOMAIN users_by_id_
  <2>1. \A user : user \in With <=> user = users_by_id_[id]
    BY <1>1, <1>2
  <2>2. With = {users_by_id_[id]}
    BY <2>1
  <2>. QED
    BY <1>1, <1>2, <2>2 DEF Find
<1>3. CASE id \notin DOMAIN users_by_id_
  <2>1. With = {}
    BY <1>1, <1>3
  <2>. QED
    BY <1>3, <2>1 DEF Find
<1>. QED
  BY <1>2, <1>3

\* Steps that leave the tables alone, and are not between the two writes.
LEMMA UsersKept ==
  ASSUME UsersIInv, NEW t \in Thread, Only(t), CallTypes',
         pc[t] # "second copy", pc'[t] \notin {"second copy", "id read"},
         UNCHANGED users_stored
  PROVE  UsersIInv'
<1>1. UNCHANGED <<next_id_, users_by_login_, users_by_id_>>
  BY DEF users_stored
<1>2. UserCallsMatch'
  BY DEF UsersIInv, UserCallsMatch, Only
<1>3. \A s \in Thread : \A user : Owes(s, user)' <=> Owes(s, user)
  BY DEF Owes, Only
<1>4. \A user : (ById(user)' <=> ById(user)) /\ (ByLogin(user)' <=> ByLogin(user))
  BY <1>1 DEF ById, ByLogin
<1>5. LoginCopies' /\ IdCopies'
  BY <1>1, <1>3, <1>4 DEF UsersIInv, LoginCopies, IdCopies
<1>6. Owed'
  BY <1>1, <1>3, <1>4 DEF UsersIInv, Owed, Only
<1>7. Counted'
  BY <1>1 DEF UsersIInv, Counted
<1>. QED
  BY <1>2, <1>5, <1>6, <1>7 DEF UsersIInv

LEMMA CreateUserKeeps ==
  ASSUME UsersIInv, NoThread \notin Thread, NEW t \in Thread, CreateUser(t)
  PROVE  UsersIInv' /\ Effective(t, UserEffect(users_by_login_, call[t]).result)
         /\ users_by_login_' = UserEffect(users_by_login_, call[t]).table
<1>a. PICK c, l, n, new :
        c = call[t] /\ l = c.login /\ n = next_id_ /\ new = NewUser(n, c)
  OBVIOUS
<1>1. pc[t] = "locked" /\ c.op = "CreateUser" /\ CallTypes
  BY <1>a DEF CreateUser, At, UsersIInv
<1>2. CASE l \in DOMAIN users_by_login_
  <2>1. Finish(t, {}) /\ UNCHANGED users_stored
    BY <1>a, <1>2 DEF CreateUser
  <2>2. CallTypes' /\ Only(t) /\ pc'[t] = "done" /\ Effective(t, {})
    BY <1>1, <2>1, FinishStep DEF Inside
  <2>3. /\ UserEffect(users_by_login_, c).result = {}
        /\ UserEffect(users_by_login_, c).table = users_by_login_
    BY <1>a, <1>1, <1>2 DEF UserEffect
  <2>. QED
    BY <1>a, <1>1, <2>1, <2>2, <2>3, UsersKept DEF users_stored
<1>3. CASE l \notin DOMAIN users_by_login_
  <2>1. /\ next_id_' = n + 1
        /\ users_by_login_' = Emplace(users_by_login_, l, new)
        /\ Keep(t, "second copy", {n})
        /\ UNCHANGED users_by_id_
    BY <1>a, <1>3 DEF CreateUser
  <2>2. /\ CallTypes' /\ Only(t) /\ pc'[t] = "second copy"
        /\ result'[t] = {n} /\ Effective(t, {n}) /\ call' = call
    BY <1>1, <2>1, KeepStep DEF Keep
  <2>3. /\ new.id = n /\ new.login = l
        /\ DOMAIN users_by_login_' = DOMAIN users_by_login_ \cup {l}
        /\ users_by_login_'[l] = new
        /\ \A k \in DOMAIN users_by_login_ :
             k # l /\ users_by_login_'[k] = users_by_login_[k]
    BY <1>a, <1>3, <2>1 DEF Emplace, NewUser
  <2>4. /\ \A s \in Thread : pc[s] # "second copy"
        /\ \A k \in DOMAIN users_by_login_ :
             users_by_login_[k].login = k /\ ById(users_by_login_[k])
    BY <1>1, UserLockedCopies
  <2>5. Owes(t, new)'
    BY <1>a, <2>2, <2>3 DEF Owes
  <2>6. n \in Nat /\ n >= 1 /\ n \notin DOMAIN users_by_id_
    <3>1. n \in Nat /\ n >= 1
      BY <1>a, FS_CardinalityType DEF UsersIInv, Counted
    <3>2. \A i \in DOMAIN users_by_id_ : i \in 1 .. (n - 1)
      BY <1>a DEF UsersIInv, IdCopies, LoginCopies, ByLogin
    <3>. QED
      BY <3>1, <3>2
  <2>0. next_id_' \in Nat /\ 1 .. (next_id_' - 1) = 1 .. n
    <3>1. n + 1 \in Nat /\ (n + 1) - 1 = n
      BY <2>6
    <3>. QED
      BY <2>1, <3>1
  <2>7. UserCallsMatch'
    BY <1>a, <1>1, <2>2 DEF UsersIInv, UserCallsMatch, Only
  <2>8. LoginCopies'
    <3>1. ASSUME NEW k \in DOMAIN users_by_login_
          PROVE  /\ users_by_login_'[k].login = k
                 /\ users_by_login_'[k].id \in 1 .. (next_id_' - 1)
                 /\ ById(users_by_login_[k])'
      <4>1. /\ users_by_login_'[k] = users_by_login_[k]
            /\ users_by_login_[k].login = k /\ ById(users_by_login_[k])
        BY <2>3, <2>4
      <4>2. users_by_login_[k].id \in 1 .. (n - 1)
        BY <1>a DEF UsersIInv, LoginCopies
      <4>3. users_by_login_[k].id \in 1 .. n
        BY <2>6, <4>2
      <4>. QED
        BY <2>0, <2>1, <4>1, <4>3 DEF ById
    <3>2. new.id \in 1 .. (next_id_' - 1)
      <4>1. n \in 1 .. n /\ new.id = n
        BY <2>3, <2>6
      <4>. QED
        BY <2>0, <4>1
    <3>. QED
      BY <2>3, <2>5, <3>1, <3>2 DEF LoginCopies, ById
  <2>9. IdCopies'
    BY <2>1, <2>3 DEF UsersIInv, IdCopies, ByLogin
  <2>10. Owed'
    <3>1. \A s \in Thread : pc'[s] = "second copy" => s = t
      BY <2>2, <2>4 DEF Only
    <3>2. ByLogin(new)' /\ new.id \notin DOMAIN users_by_id_'
      BY <2>1, <2>3, <2>6, <2>2 DEF ByLogin
    <3>. QED
      BY <2>5, <3>1, <3>2 DEF Owed
  <2>11. Counted'
    <3>. DEFINE D == DOMAIN users_by_login_
    <3>1. IsFiniteSet(D) /\ n = Cardinality(D) + 1 /\ n \in Nat
      BY <1>a DEF UsersIInv, Counted
    <3>2. IsFiniteSet(D \cup {l}) /\ Cardinality(D \cup {l}) = Cardinality(D) + 1
      <4>. HIDE DEF D
      <4>. QED
        BY <1>3, <3>1, FS_AddElement DEF D
    <3>. QED
      BY <2>0, <2>1, <2>3, <3>1, <3>2 DEF Counted
  <2>12. /\ UserEffect(users_by_login_, c).result = {n}
         /\ UserEffect(users_by_login_, c).table = users_by_login_'
    BY <1>a, <1>1, <1>3, <2>1 DEF UserEffect, NewUser, UsersIInv, Counted
  <2>. QED
    BY <1>a, <2>2, <2>7, <2>8, <2>9, <2>10, <2>11, <2>12 DEF UsersIInv
<1>. QED
  BY <1>2, <1>3

LEMMA CreateUserByIdKeeps ==
  ASSUME UsersIInv, NoThread \notin Thread, NEW t \in Thread, CreateUserById(t)
  PROVE  UsersIInv' /\ Silent /\ UNCHANGED users_by_login_
<1>1. /\ pc[t] = "second copy" /\ CallTypes
      /\ Finish(t, result[t]) /\ UNCHANGED <<next_id_, users_by_login_>>
  BY DEF CreateUserById, At, UsersIInv
<1>2. /\ CallTypes' /\ Only(t) /\ Silent /\ UNCHANGED call
      /\ pc'[t] = "done" /\ result'[t] = result[t]
  BY <1>1, FinishStep DEF Inside
<1>3. PICK user : /\ Owes(t, user) /\ ByLogin(user)
                  /\ user.id \notin DOMAIN users_by_id_
  BY <1>1 DEF UsersIInv, Owed
<1>4. users_by_id_' = Emplace(users_by_id_, user.id, user)
  BY <1>3 DEF CreateUserById, Owes
<1>5. /\ DOMAIN users_by_id_' = DOMAIN users_by_id_ \cup {user.id}
      /\ users_by_id_'[user.id] = user
      /\ \A i \in DOMAIN users_by_id_ : users_by_id_'[i] = users_by_id_[i]
  BY <1>3, <1>4 DEF Emplace
<1>6. \A s \in Thread : pc[s] = "second copy" => s = t
  BY <1>1, OneInside DEF Inside
<1>7. \A s \in Thread : pc'[s] # "second copy"
  BY <1>2, <1>6 DEF Only
<1>8. UserCallsMatch'
  BY <1>2, <1>7 DEF UsersIInv, UserCallsMatch, Only
<1>9. LoginCopies'
  <2>1. ASSUME NEW l \in DOMAIN users_by_login_
        PROVE  ById(users_by_login_[l])'
    <3>. DEFINE other == users_by_login_[l]
    <3>1. CASE ById(other)
      BY <1>5, <1>1, <3>1 DEF ById
    <3>2. CASE Owes(t, other)
      <4>1. other = user
        BY <1>3, <3>2 DEF Owes
      <4>. QED
        BY <1>1, <1>5, <4>1 DEF ById
    <3>. QED
      BY <1>6, <3>1, <3>2 DEF UsersIInv, LoginCopies, Owes
  <2>. QED
    BY <1>1, <2>1 DEF UsersIInv, LoginCopies, ById
<1>10. IdCopies'
  BY <1>1, <1>3, <1>5 DEF UsersIInv, IdCopies, ByLogin
<1>11. Owed'
  BY <1>7 DEF Owed
<1>12. Counted'
  BY <1>1 DEF UsersIInv, Counted
<1>. QED
  BY <1>1, <1>2, <1>8, <1>9, <1>10, <1>11, <1>12 DEF UsersIInv

\* The calls that only look.
LEMMA UserLookKeeps ==
  ASSUME UsersIInv, NoThread \notin Thread, NEW t \in Thread,
         GetByLogin(t) \/ UsersGetById(t) \/ UserExists(t) \/ Search(t)
  PROVE  UsersIInv' /\ Effective(t, UserEffect(users_by_login_, call[t]).result)
         /\ users_by_login_' = UserEffect(users_by_login_, call[t]).table
<1>. DEFINE e == UserEffect(users_by_login_, call[t])
<1>1. pc[t] = "locked" /\ CallTypes /\ UNCHANGED users_stored
  BY DEF GetByLogin, UsersGetById, UserExists, Search, At, UsersIInv
<1>2. Finish(t, e.result) /\ e.table = users_by_login_
  <2>1. CASE GetByLogin(t)
    BY <2>1 DEF GetByLogin, At, UserEffect
  <2>2. CASE UsersGetById(t)
    <3>1. /\ call[t].op = "GetById"
          /\ Finish(t, Find(users_by_id_, call[t].id))
      BY <2>2 DEF UsersGetById, At
    <3>2. /\ e.result = {users_by_login_[l] :
                           l \in {k \in DOMAIN users_by_login_ :
                                    users_by_login_[k].id = call[t].id}}
          /\ e.table = users_by_login_
      BY <3>1 DEF UserEffect
    <3>. QED
      BY <1>1, <3>1, <3>2, FindById
  <2>3. CASE UserExists(t)
    <3>1. /\ call[t].op = "UserExists"
          /\ Finish(t, {call[t].id} \cap DOMAIN users_by_id_)
      BY <2>3 DEF UserExists, At
    <3>2. /\ e.result = {user.id : user \in
                           {users_by_login_[l] :
                             l \in {k \in DOMAIN users_by_login_ :
                                      users_by_login_[k].id = call[t].id}}}
          /\ e.table = users_by_login_
      BY <3>1 DEF UserEffect
    <3>3. /\ {users_by_login_[l] :
              l \in {k \in DOMAIN users_by_login_ :
                       users_by_login_[k].id = call[t].id}}
               = Find(users_by_id_, call[t].id)
          /\ {call[t].id} \cap DOMAIN users_by_id_
               = {user.id : user \in Find(users_by_id_, call[t].id)}
      BY <1>1, FindById
    <3>4. e.result = {user.id : user \in Find(users_by_id_, call[t].id)}
      BY ONLY <3>2, <3>3
    <3>. QED
      BY <3>1, <3>2, <3>3, <3>4
  <2>4. CASE Search(t)
    BY <2>4 DEF Search, At, UserEffect
  <2>. QED
    BY <2>1, <2>2, <2>3, <2>4
<1>3. CallTypes' /\ Only(t) /\ pc'[t] = "done" /\ Effective(t, e.result)
  BY <1>1, <1>2, FinishStep DEF Inside
<1>. QED
  BY <1>1, <1>2, <1>3, UsersKept DEF users_stored

----------------------------------------------------------------------------
\* Every step keeps the invariant, and is one of AtomicStore or a stutter.
LEMMA StepOfUsers ==
  ASSUME UsersIInv, NoThread \notin Thread, [UsersNext]_users_vars
  PROVE  UsersIInv' /\ [UsersStore!Next]_(UsersStore!vars)
<1>1. CASE UNCHANGED users_vars
  <2>1. UNCHANGED <<mutex_, pc, call, result, next_id_, users_by_login_,
                    users_by_id_>>
    BY <1>1 DEF users_vars, calls, users_stored
  <2>2. UNCHANGED UsersStore!vars
    BY <2>1 DEF UsersStore!vars, Stages, Results, Stage
  <2>3. (CallTypes /\ UserCallsMatch /\ Counted)'
    BY <2>1 DEF UsersIInv, CallTypes, UserCallsMatch, Counted
  <2>4. (LoginCopies /\ IdCopies /\ Owed)'
    BY <2>1 DEF UsersIInv, LoginCopies, IdCopies, Owed, Owes, ById, ByLogin
  <2>. QED
    BY <2>2, <2>3, <2>4 DEF UsersIInv
<1>2. ASSUME NEW t \in Thread, UsersStart(t)
      PROVE  UsersIInv' /\ UsersStore!Begin(t)
  <2>1. PICK c \in UsersCall : Invoke(t, c)
    BY <1>2 DEF UsersStart
  <2>2. UNCHANGED users_stored
    BY <1>2 DEF UsersStart
  <2>3. /\ CallTypes' /\ Only(t) /\ pc'[t] = "called" /\ pc[t] = "idle"
        /\ Stages[t] = "idle" /\ Stages' = [Stages EXCEPT ![t] = "called"]
        /\ call' = [call EXCEPT ![t] = c]
        /\ Results' = Results
    BY <2>1, InvokeStep DEF UsersIInv
  <2>4. UsersIInv'
    BY <2>2, <2>3, UsersKept
  <2>. QED
    BY <2>2, <2>3, <2>4 DEF UsersStore!Begin, users_stored
<1>3. ASSUME NEW t \in Thread, Lock(t), UNCHANGED users_stored
      PROVE  UsersIInv' /\ UNCHANGED UsersStore!vars
  <2>1. /\ CallTypes' /\ Only(t) /\ Silent
        /\ pc[t] = "called" /\ pc'[t] = "locked"
    BY <1>3, LockStep DEF UsersIInv
  <2>. QED
    BY <1>3, <2>1, UsersKept DEF Silent, UsersStore!vars, users_stored
<1>4. ASSUME NEW t \in Thread, Return(t), UNCHANGED users_stored
      PROVE  UsersIInv' /\ UsersStore!End(t)
  <2>1. /\ CallTypes' /\ Only(t) /\ pc'[t] = "idle" /\ pc[t] = "done"
        /\ Stages[t] = "done" /\ Stages' = [Stages EXCEPT ![t] = "idle"]
        /\ call' = [call EXCEPT ![t] = NoCall]
        /\ Results' = [Results EXCEPT ![t] = {}]
    BY <1>4, ReturnStep DEF UsersIInv
  <2>. QED
    BY <1>4, <2>1, UsersKept DEF UsersStore!End, users_stored
<1>5. ASSUME NEW t \in Thread, CreateUserById(t)
      PROVE  UsersIInv' /\ UNCHANGED UsersStore!vars
  BY <1>5, CreateUserByIdKeeps DEF Silent, UsersStore!vars
<1>6. ASSUME NEW t \in Thread,
             \/ CreateUser(t)
             \/ GetByLogin(t) \/ UsersGetById(t) \/ UserExists(t) \/ Search(t)
      PROVE  UsersIInv' /\ UsersStore!TakeEffect(t)
  <2>1. /\ UsersIInv' /\ Effective(t, UserEffect(users_by_login_, call[t]).result)
        /\ users_by_login_' = UserEffect(users_by_login_, call[t]).table
    BY <1>6, CreateUserKeeps, UserLookKeeps
  <2>. QED
    BY <2>1 DEF Effective, UsersStore!TakeEffect
<1>. QED
  BY <1>1, <1>2, <1>3, <1>4, <1>5, <1>6 DEF UsersNext, UsersStore!Next

LEMMA UsersInitially ==
  ASSUME UsersInit
  PROVE  UsersIInv /\ UsersStore!Init
<1>1. /\ CallTypes /\ \A t \in Thread : pc[t] = "idle"
      /\ Stages = [t \in Thread |-> "idle"]
      /\ Results = [t \in Thread |-> {}]
  BY StartOfCalls DEF UsersInit
<1>2. /\ DOMAIN users_by_login_ = {} /\ DOMAIN users_by_id_ = {}
      /\ users_by_login_ = EmptyMap /\ next_id_ = 1
      /\ call = [t \in Thread |-> NoCall]
  BY DEF UsersInit, CallsInit, EmptyMap
<1>3. Counted
  BY <1>2, FS_EmptySet DEF Counted
<1>4. UserCallsMatch /\ LoginCopies /\ IdCopies /\ Owed
  BY <1>1, <1>2 DEF UserCallsMatch, LoginCopies, IdCopies, Owed
<1>. QED
  BY <1>1, <1>2, <1>3, <1>4 DEF UsersIInv, UsersStore!Init

\* Whenever nobody is inside a member function, the map by login and the map
\* by id hold the same users.
THEOREM CopiesOfUsersAgree ==
  ASSUME NoThread \notin Thread
  PROVE  UsersSpec => []UserCopiesAgree
<1>1. UsersInit => UsersIInv
  BY UsersInitially
<1>2. UsersIInv /\ [UsersNext]_users_vars => UsersIInv'
  BY StepOfUsers
<1>3. UsersIInv => UserCopiesAgree
  <2>. SUFFICES ASSUME UsersIInv, mutex_ = NoThread
                PROVE  UserCopiesAgree
    BY DEF UserCopiesAgree
  <2>1. \A t \in Thread : pc[t] # "second copy"
    BY DEF UsersIInv, CallTypes, Inside
  <2>. QED
    BY <2>1 DEF UsersIInv, LoginCopies, IdCopies, Owes, ById, ByLogin, Find,
                UserCopiesAgree
<1>. QED
  BY <1>1, <1>2, <1>3, PTL DEF UsersSpec

\* Every call of a thread takes effect at one moment, on one table of users.
THEOREM UsersStorageIsAtomic ==
  ASSUME NoThread \notin Thread
  PROVE  UsersSpec => UsersAtomic
<1>1. UsersInit => UsersIInv /\ UsersStore!Init
  BY UsersInitially
<1>2. UsersIInv /\ [UsersNext]_users_vars => UsersIInv' /\ [UsersStore!Next]_(UsersStore!vars)
  BY StepOfUsers
<1>. QED
  BY <1>1, <1>2, PTL DEF UsersSpec, UsersAtomic, UsersStore!Spec

----------------------------------------------------------------------------
(***************************************************************************)
(* GoalsStorage implements AtomicStore, for any number of threads, goals   *)
(* and calls.  Reading next_id_ and writing it are two steps, but what was *)
(* read is still true when it is used: the reader has the mutex.           *)
(***************************************************************************)

ReadIdsTrue ==
  \A t \in Thread :
    /\ pc[t] # "second copy"
    /\ pc[t] = "id read" =>
         /\ call[t].op = "CreateGoal"
         /\ result[t] = {NewGoal(next_id_, call[t].user_id)}

\* Ids are given out without gaps.
GoalNoGaps == next_id_ \in Nat \ {0} /\ DOMAIN goals_by_id_ = 1 .. (next_id_ - 1)

GoalsIInv == CallTypes /\ ReadIdsTrue /\ GoalNoGaps

----------------------------------------------------------------------------
\* A call that takes effect gives its goal the id that is next.
LEMMA NextGoalId ==
  ASSUME GoalNoGaps
  PROVE  Cardinality(DOMAIN goals_by_id_) + 1 = next_id_
<1>1. next_id_ \in Nat \ {0} /\ next_id_ - 1 \in Nat
  BY DEF GoalNoGaps
<1>2. Cardinality(1 .. (next_id_ - 1)) = next_id_ - 1
  BY <1>1, FS_Interval
<1>. QED
  BY <1>1, <1>2 DEF GoalNoGaps

LEMMA GoalsKept ==
  ASSUME GoalsIInv, NEW t \in Thread, Only(t), CallTypes',
         pc'[t] \notin {"second copy", "id read"},
         UNCHANGED goals_stored
  PROVE  GoalsIInv'
BY DEF GoalsIInv, ReadIdsTrue, GoalNoGaps, Only, goals_stored

LEMMA CreateGoalKeeps ==
  ASSUME GoalsIInv, NEW t \in Thread, CreateGoal(t)
  PROVE  GoalsIInv' /\ Silent /\ UNCHANGED goals_by_id_
<1>. DEFINE r == {NewGoal(next_id_, call[t].user_id)}
<1>1. /\ pc[t] = "locked" /\ call[t].op = "CreateGoal" /\ CallTypes
      /\ Keep(t, "id read", r) /\ UNCHANGED <<next_id_, goals_by_id_, call>>
  BY DEF CreateGoal, At, GoalsIInv, goals_stored, Keep
<1>2. /\ CallTypes' /\ Only(t) /\ Silent
      /\ pc'[t] = "id read" /\ result'[t] = r
  BY <1>1, ReadStep
<1>3. ReadIdsTrue'
  BY <1>1, <1>2 DEF GoalsIInv, ReadIdsTrue, Only
<1>. QED
  BY <1>1, <1>2, <1>3 DEF GoalsIInv, GoalNoGaps

LEMMA CreateGoalEmplaceKeeps ==
  ASSUME GoalsIInv, NoThread \notin Thread, NEW t \in Thread, CreateGoalEmplace(t)
  PROVE  GoalsIInv' /\ Effective(t, GoalEffect(goals_by_id_, call[t]).result)
         /\ goals_by_id_' = GoalEffect(goals_by_id_, call[t]).table
<1>a. PICK n, new : n = next_id_ /\ new = NewGoal(n, call[t].user_id)
  OBVIOUS
<1>1. /\ pc[t] = "id read" /\ call[t].op = "CreateGoal" /\ CallTypes
      /\ result[t] = {new} /\ Finish(t, {new})
  BY <1>a DEF CreateGoalEmplace, At, GoalsIInv, ReadIdsTrue
<1>2. /\ next_id_' = n + 1
      /\ goals_by_id_' = Emplace(goals_by_id_, n, new)
  <2>1. new.id = n
    BY <1>a DEF NewGoal
  <2>2. PICK goal \in result[t] :
          /\ next_id_' = goal.id + 1
          /\ goals_by_id_' = Emplace(goals_by_id_, goal.id, goal)
    BY DEF CreateGoalEmplace
  <2>. QED
    BY <1>1, <2>1, <2>2
<1>3. /\ CallTypes' /\ Only(t) /\ pc'[t] = "done" /\ Effective(t, {new})
  BY <1>1, FinishStep DEF Inside
<1>4. ReadIdsTrue'
  <2>1. \A s \in Thread : pc[s] \in {"id read", "second copy"} => s = t
    BY <1>1, OneInside DEF Inside
  <2>. QED
    BY <1>3, <2>1 DEF GoalsIInv, ReadIdsTrue, Only
<1>5. GoalNoGaps'
  <2>1. n \in Nat \ {0} /\ DOMAIN goals_by_id_ = 1 .. (n - 1)
    BY <1>a DEF GoalsIInv, GoalNoGaps
  <2>2. (n + 1) \in Nat \ {0} /\ (n + 1) - 1 = n
        /\ (1 .. (n - 1)) \cup {n} = 1 .. n
    BY <2>1
  <2>3. DOMAIN goals_by_id_' = 1 .. n
    BY <1>2, <2>1, <2>2 DEF Emplace
  <2>. QED
    BY <1>2, <2>2, <2>3 DEF GoalNoGaps
<1>6. /\ GoalEffect(goals_by_id_, call[t]).result = {new}
      /\ GoalEffect(goals_by_id_, call[t]).table = goals_by_id_'
  <2>1. NewGoal(Cardinality(DOMAIN goals_by_id_) + 1, call[t].user_id) = new
    BY <1>a, NextGoalId DEF GoalsIInv
  <2>2. new.id = n
    BY <1>a DEF NewGoal
  <2>. QED
    BY <1>1, <1>2, <2>1, <2>2 DEF GoalEffect
<1>. QED
  BY <1>3, <1>4, <1>5, <1>6 DEF GoalsIInv

\* The calls that only look.
LEMMA GoalLookKeeps ==
  ASSUME GoalsIInv, NoThread \notin Thread, NEW t \in Thread,
         GoalsGetById(t) \/ GetGoalsByUser(t)
  PROVE  GoalsIInv' /\ Effective(t, GoalEffect(goals_by_id_, call[t]).result)
         /\ goals_by_id_' = GoalEffect(goals_by_id_, call[t]).table
<1>. DEFINE e == GoalEffect(goals_by_id_, call[t])
<1>1. pc[t] = "locked" /\ CallTypes /\ UNCHANGED goals_stored
  BY DEF GoalsGetById, GetGoalsByUser, At, GoalsIInv
<1>2. Finish(t, e.result) /\ e.table = goals_by_id_
  BY DEF GoalsGetById, GetGoalsByUser, At, GoalEffect
<1>3. CallTypes' /\ Only(t) /\ pc'[t] = "done" /\ Effective(t, e.result)
  BY <1>1, <1>2, FinishStep DEF Inside
<1>. QED
  BY <1>1, <1>2, <1>3, GoalsKept DEF goals_stored

----------------------------------------------------------------------------
\* Every step keeps the invariant, and is one of AtomicStore or a stutter.
LEMMA StepOfGoals ==
  ASSUME GoalsIInv, NoThread \notin Thread, [GoalsNext]_goals_vars
  PROVE  GoalsIInv' /\ [GoalsStore!Next]_(GoalsStore!vars)
<1>1. CASE UNCHANGED goals_vars
  <2>1. UNCHANGED <<mutex_, pc, call, result, next_id_, goals_by_id_>>
    BY <1>1 DEF goals_vars, calls, goals_stored
  <2>2. UNCHANGED GoalsStore!vars
    BY <2>1 DEF GoalsStore!vars, Stages, Results, Stage
  <2>3. GoalsIInv'
    BY <2>1 DEF GoalsIInv, CallTypes, ReadIdsTrue, GoalNoGaps
  <2>. QED
    BY <2>2, <2>3
<1>2. ASSUME NEW t \in Thread, GoalsStart(t)
      PROVE  GoalsIInv' /\ GoalsStore!Begin(t)
  <2>1. PICK c \in GoalsCall : Invoke(t, c)
    BY <1>2 DEF GoalsStart
  <2>2. UNCHANGED goals_stored
    BY <1>2 DEF GoalsStart
  <2>3. /\ CallTypes' /\ Only(t) /\ pc'[t] = "called"
        /\ Stages[t] = "idle" /\ Stages' = [Stages EXCEPT ![t] = "called"]
        /\ call' = [call EXCEPT ![t] = c]
        /\ Results' = Results
    BY <2>1, InvokeStep DEF GoalsIInv
  <2>. QED
    BY <2>2, <2>3, GoalsKept DEF GoalsStore!Begin, goals_stored
<1>3. ASSUME NEW t \in Thread, Lock(t), UNCHANGED goals_stored
      PROVE  GoalsIInv' /\ UNCHANGED GoalsStore!vars
  <2>1. CallTypes' /\ Only(t) /\ Silent /\ pc'[t] = "locked"
    BY <1>3, LockStep DEF GoalsIInv
  <2>. QED
    BY <1>3, <2>1, GoalsKept DEF Silent, GoalsStore!vars, goals_stored
<1>4. ASSUME NEW t \in Thread, Return(t), UNCHANGED goals_stored
      PROVE  GoalsIInv' /\ GoalsStore!End(t)
  <2>1. /\ CallTypes' /\ Only(t) /\ pc'[t] = "idle"
        /\ Stages[t] = "done" /\ Stages' = [Stages EXCEPT ![t] = "idle"]
        /\ call' = [call EXCEPT ![t] = NoCall]
        /\ Results' = [Results EXCEPT ![t] = {}]
    BY <1>4, ReturnStep DEF GoalsIInv
  <2>. QED
    BY <1>4, <2>1, GoalsKept DEF GoalsStore!End, goals_stored
<1>5. ASSUME NEW t \in Thread, CreateGoal(t)
      PROVE  GoalsIInv' /\ UNCHANGED GoalsStore!vars
  BY <1>5, CreateGoalKeeps DEF Silent, GoalsStore!vars
<1>6. ASSUME NEW t \in Thread,
             CreateGoalEmplace(t) \/ GoalsGetById(t) \/ GetGoalsByUser(t)
      PROVE  GoalsIInv' /\ GoalsStore!TakeEffect(t)
  <2>1. /\ GoalsIInv' /\ Effective(t, GoalEffect(goals_by_id_, call[t]).result)
        /\ goals_by_id_' = GoalEffect(goals_by_id_, call[t]).table
    BY <1>6, CreateGoalEmplaceKeeps, GoalLookKeeps
  <2>. QED
    BY <2>1 DEF Effective, GoalsStore!TakeEffect
<1>. QED
  BY <1>1, <1>2, <1>3, <1>4, <1>5, <1>6 DEF GoalsNext, GoalsStore!Next

LEMMA GoalsInitially ==
  ASSUME GoalsInit
  PROVE  GoalsIInv /\ GoalsStore!Init
<1>1. /\ CallTypes /\ \A t \in Thread : pc[t] = "idle"
      /\ Stages = [t \in Thread |-> "idle"]
      /\ Results = [t \in Thread |-> {}]
  BY StartOfCalls DEF GoalsInit
<1>2. /\ DOMAIN goals_by_id_ = {} /\ goals_by_id_ = EmptyMap /\ next_id_ = 1
      /\ call = [t \in Thread |-> NoCall]
  BY DEF GoalsInit, CallsInit, EmptyMap
<1>3. GoalNoGaps
  BY <1>2 DEF GoalNoGaps
<1>. QED
  BY <1>1, <1>2, <1>3 DEF GoalsIInv, ReadIdsTrue, GoalsStore!Init

\* Every call of a thread takes effect at one moment, on one table of goals; no
\* two goals get one id, and a goal a caller was given is kept.
THEOREM GoalsStorageIsAtomic ==
  ASSUME NoThread \notin Thread
  PROVE  GoalsSpec => GoalsAtomic
<1>1. GoalsInit => GoalsIInv /\ GoalsStore!Init
  BY GoalsInitially
<1>2. GoalsIInv /\ [GoalsNext]_goals_vars => GoalsIInv' /\ [GoalsStore!Next]_(GoalsStore!vars)
  BY StepOfGoals
<1>. QED
  BY <1>1, <1>2, PTL DEF GoalsSpec, GoalsAtomic, GoalsStore!Spec
=============================================================================
