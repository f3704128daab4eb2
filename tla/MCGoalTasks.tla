---------------------------- MODULE MCGoalTasks ----------------------------
(***************************************************************************)
(* Small instances of GoalTasks.  Object ids have three digits and         *)
(* Int64Max two, as they have 24 and 19 in the code: an id of decimal      *)
(* digits alone does not fit, like a decimal prefix that is long enough.   *)
(***************************************************************************)
EXTENDS GoalTasks, TLC

G1 == <<1, 10, 10>>   \* two object ids with the decimal prefix 1 ...
G2 == <<1, 11, 11>>
G7 == <<7, 10, 10>>   \* ... one with the prefix 7 ...
G0 == <<0, 0, 2>>     \* ... and one that reads as the integer 2

TwoGoals     == {G1, G2}
IntegerGoals == {G1, G0}
TwinGoals    == {G1, G2, G0}
ThreeGoals   == {G1, G7, G0}

\* For goalId clients send object ids, one that starts with a letter and is
\* never made, and an integer that is no object id; for taskId the id of the
\* first task and a string that is no integer.
MCGoalArg == {G1, G2, G7, G0, <<10, 1, 1>>, <<1>>}
MCTaskArg == {<<1>>, <<10>>}

\* Well-formed requests for the goals of IntegerGoals.  Only one of them is
\* listed, and only the other one gets past the checks of an update.  The list
\* of goals is left to the run with one slot.
PlainRequests ==
  {r \in Request :
     /\ r.op # "goals_list"
     /\ r.op \in {"goals_create", "tasks_create"} => r.body = "valid"
     /\ r.op = "tasks_create" => r.goalId \in IntegerGoals
     /\ r.op = "tasks_list" => r.goalId = G1
     /\ r.op = "tasks_update" =>
          r.goalId = G0 /\ r.taskId = <<1>> /\ r.status = "done"}

\* All requests there are.
AllRequests == Request

\* The rows of the PostgreSQL table goals: one of them, so that a goal whose
\* id begins with another number gets no tasks; or two.
OnePgGoal  == {1}
TwoPgGoals == {1, 2}

MCSymmetry == Permutations(User) \cup Permutations(Slot)
=============================================================================
