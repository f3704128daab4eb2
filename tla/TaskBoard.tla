----------------------------- MODULE TaskBoard ------------------------------
(***************************************************************************)
(* What the API under /api/goals promises, without requests, databases and *)
(* faults: goals have one owner for good; a task is made through a goal by *)
(* that goal's owner; nothing of a task but its status ever changes,       *)
(* nothing goes away, and clients are told of what is there.               *)
(***************************************************************************)
CONSTANTS
  User,    \* user ids
  GoalId,  \* ids of goals
  TaskId,  \* ids of tasks
  Status,  \* what a task's status may be
  FirstStatus

VARIABLES
  goals,  \* goal id -> owner
  tasks,  \* task id -> goal, maker and status
  told    \* goals and tasks that clients were told they have made

vars == <<goals, tasks, told>>

Init ==
  /\ goals = [o \in {} |-> "nobody"]
  /\ tasks = [i \in {} |-> 0]
  /\ told = [goals |-> {}, tasks |-> {}]

AddGoal ==
  /\ \E o \in GoalId \ DOMAIN goals, u \in User :
       goals' = [g \in DOMAIN goals \cup {o} |-> IF g = o THEN u ELSE goals[g]]
  /\ UNCHANGED <<tasks, told>>

AddTask ==
  /\ \E i \in TaskId \ DOMAIN tasks, o \in DOMAIN goals :
       tasks' = [j \in DOMAIN tasks \cup {i} |->
                   IF j = i
                   THEN [goal |-> o, by |-> goals[o], status |-> FirstStatus]
                   ELSE tasks[j]]
  /\ UNCHANGED <<goals, told>>

SetStatus ==
  /\ \E i \in DOMAIN tasks, st \in Status :
       tasks' = [tasks EXCEPT ![i].status = st]
  /\ UNCHANGED <<goals, told>>

Tell ==
  /\ \E G \in SUBSET DOMAIN goals, T \in SUBSET DOMAIN tasks :
       told' = [goals |-> told.goals \cup G,
                tasks |-> told.tasks \cup
                  {[id |-> i, goal |-> tasks[i].goal, by |-> tasks[i].by] :
                     i \in T}]
  /\ UNCHANGED <<goals, tasks>>

Next == AddGoal \/ AddTask \/ SetStatus \/ Tell

Spec == Init /\ [][Next]_vars
=============================================================================
