---------------------------- MODULE TasksStorage ----------------------------
(***************************************************************************)
(* TasksStorage: every task is kept twice, by its id and in the list of    *)
(* its goal, and the two copies are written one after the other.  Titles   *)
(* are left out.                                                           *)
(***************************************************************************)
EXTENDS StorageCalls, SequencesExt

CONSTANTS
  Goal,     \* goal ids
  MaxTasks  \* bound: tasks that are created

VARIABLES
  tasks_by_id_,   \* id -> task
  tasks_by_goal_  \* goal id -> tasks, in the order of their creation

tasks_stored == <<next_id_, tasks_by_id_, tasks_by_goal_>>
tasks_vars   == <<calls, tasks_stored>>

TaskStatus == {"TASK_STATUS_TODO", "TASK_STATUS_IN_PROGRESS", "TASK_STATUS_DONE"}

TaskStatusToString ==
  [TASK_STATUS_TODO |-> "todo", TASK_STATUS_IN_PROGRESS |-> "in_progress",
   TASK_STATUS_DONE |-> "done"]

TasksCall ==
       [op : {"CreateTask"}, goal_id : Goal]
  \cup [op : {"GetById"}, id : 1 .. MaxTasks]
  \cup [op : {"GetByGoal"}, goal_id : Goal]
  \cup [op : {"UpdateTaskStatus"}, goal_id : Goal, task_id : 1 .. MaxTasks,
        new_st : TaskStatus]

NewTask(id, goal_id) ==
  [id |-> id, goalId |-> goal_id,
   status |-> TaskStatusToString["TASK_STATUS_TODO"]]

ListOf(goal_id) ==
  IF goal_id \in DOMAIN tasks_by_goal_ THEN tasks_by_goal_[goal_id] ELSE <<>>

TasksInit ==
  /\ CallsInit
  /\ next_id_ = 1
  /\ tasks_by_id_ = EmptyMap
  /\ tasks_by_goal_ = EmptyMap

\* Creations under way that have not taken their id yet.
TasksCreating ==
  {t \in Thread : pc[t] \in {"called", "locked"} /\ call[t].op = "CreateTask"}

TasksStart(t) ==
  /\ \E c \in TasksCall :
       /\ c.op = "CreateTask" => next_id_ + Cardinality(TasksCreating) <= MaxTasks
       /\ Invoke(t, c)
  /\ UNCHANGED tasks_stored

CreateTask(t) ==
  LET task == NewTask(next_id_, call[t].goal_id)
  IN  /\ At(t, "locked", "CreateTask")
      /\ next_id_' = next_id_ + 1
      /\ tasks_by_id_' = Emplace(tasks_by_id_, task.id, task)
      /\ Keep(t, "second copy", {task})
      /\ UNCHANGED tasks_by_goal_

CreateTaskOneCopy(t) ==   \* a mutant: the list of the goal is forgotten
  /\ At(t, "second copy", "CreateTask")
  /\ Finish(t, result[t])
  /\ UNCHANGED tasks_stored

CreateTaskList(t) ==
  LET goal_id == call[t].goal_id
  IN  /\ At(t, "second copy", "CreateTask")
      /\ \E task \in result[t] :
           tasks_by_goal_' = [g \in DOMAIN tasks_by_goal_ \cup {goal_id} |->
             IF g = goal_id THEN Append(ListOf(g), task) ELSE tasks_by_goal_[g]]
      /\ Finish(t, result[t])
      /\ UNCHANGED <<next_id_, tasks_by_id_>>

TasksGetById(t) ==
  /\ At(t, "locked", "GetById")
  /\ Finish(t, Find(tasks_by_id_, call[t].id))
  /\ UNCHANGED tasks_stored

GetByGoal(t) ==
  /\ At(t, "locked", "GetByGoal")
  /\ Finish(t, ToSet(ListOf(call[t].goal_id)))
  /\ UNCHANGED tasks_stored

\* The task must exist and be the goal's; then its copy by id is written.
UpdateTaskStatus(t) ==
  LET c       == call[t]
      found   == {task \in Find(tasks_by_id_, c.task_id) :
                    task.goalId = c.goal_id}
      updated == {[task EXCEPT !.status = TaskStatusToString[c.new_st]] :
                    task \in found}
  IN  /\ At(t, "locked", "UpdateTaskStatus")
      /\ \/ found = {} /\ Finish(t, {}) /\ UNCHANGED tasks_stored
         \/ /\ found # {}
            /\ \E task \in updated :
                 tasks_by_id_' = [tasks_by_id_ EXCEPT ![c.task_id] = task]
            /\ Keep(t, "second copy", updated)
            /\ UNCHANGED <<next_id_, tasks_by_goal_>>

UpdateOneCopy(t) ==   \* a mutant: the copy in the list stays as it was
  /\ At(t, "second copy", "UpdateTaskStatus")
  /\ Finish(t, result[t])
  /\ UNCHANGED tasks_stored

\* Then the first copy with this id in the list of the goal, if there is one.
UpdateTaskStatusList(t) ==
  LET c    == call[t]
      list == ListOf(c.goal_id)
      hits == {i \in DOMAIN list : list[i].id = c.task_id}
  IN  /\ At(t, "second copy", "UpdateTaskStatus")
      /\ \/ hits = {} /\ UNCHANGED tasks_by_goal_
         \/ \E i \in hits :
              /\ \A j \in hits : i <= j
              /\ tasks_by_goal_' = [tasks_by_goal_ EXCEPT ![c.goal_id][i].status
                                      = TaskStatusToString[c.new_st]]
      /\ Finish(t, result[t])
      /\ UNCHANGED <<next_id_, tasks_by_id_>>

TasksNext ==
  \E t \in Thread :
    \/ TasksStart(t)
    \/ (Lock(t) \/ Return(t)) /\ UNCHANGED tasks_stored
    \/ CreateTask(t) \/ CreateTaskList(t)
    \/ TasksGetById(t)
    \/ GetByGoal(t)
    \/ UpdateTaskStatus(t) \/ UpdateTaskStatusList(t)

TasksSpec == TasksInit /\ [][TasksNext]_tasks_vars

----------------------------------------------------------------------------
(* Properties.                                                             *)

\* Whenever nobody is inside, the two copies agree: the list of a goal holds
\* exactly the tasks of that goal, as they are by id, each of them once and
\* in the order of their ids.
TaskCopiesAgree ==
  mutex_ = NoThread =>
    /\ \A g \in DOMAIN tasks_by_goal_ :
         LET list == tasks_by_goal_[g]
         IN  /\ \A i \in DOMAIN list :
                  /\ list[i].goalId = g
                  /\ list[i].id \in DOMAIN tasks_by_id_
                  /\ tasks_by_id_[list[i].id] = list[i]
             /\ \A i, j \in DOMAIN list : i < j => list[i].id < list[j].id
    /\ \A id \in DOMAIN tasks_by_id_ :
         \E i \in DOMAIN ListOf(tasks_by_id_[id].goalId) :
           ListOf(tasks_by_id_[id].goalId)[i].id = id

\* The promise: one table of tasks by id.
TaskEffect(table, c) ==
  LET id    == Cardinality(DOMAIN table) + 1
      new   == NewTask(id, c.goal_id)
      found == {task \in Find(table, c.task_id) : task.goalId = c.goal_id}
      set   == [i \in DOMAIN table |->
                  IF table[i] \in found
                  THEN [table[i] EXCEPT
                          !.status = TaskStatusToString[c.new_st]]
                  ELSE table[i]]
  IN  CASE c.op = "CreateTask" -> [table |-> Emplace(table, id, new), result |-> {new}]
        [] c.op = "GetById" -> [table |-> table, result |-> Find(table, c.id)]
        [] c.op = "GetByGoal" ->
             [table |-> table,
              result |-> {table[i] : i \in {j \in DOMAIN table :
                                              table[j].goalId = c.goal_id}}]
        [] OTHER -> [table |-> set, result |-> {set[task.id] : task \in found}]

TasksStore == INSTANCE AtomicStore WITH
           Call <- TasksCall, Empty <- EmptyMap, Effect <- TaskEffect,
           table <- tasks_by_id_, stage <- Stages, result <- Results

\* Every call of a thread takes effect at one moment, on one table of tasks.
TasksAtomic == TasksStore!Spec
=============================================================================
