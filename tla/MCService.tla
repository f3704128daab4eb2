----------------------------- MODULE MCService ------------------------------
(***************************************************************************)
(* A small instance of Service: one user, whose requests to one endpoint   *)
(* race each other, a restart and a second that passes.  A goal more than  *)
(* the limit allows at the start is not enough to show that a restart and  *)
(* a refill are counted right: there are five object ids and five checks,  *)
(* one more than two full buckets, or than one bucket and its refill.      *)
(***************************************************************************)
EXTENDS Service

G1 == <<1, 10, 10>>
G2 == <<1, 11, 11>>
G3 == <<1, 12, 12>>
G4 == <<2, 10, 10>>
G5 == <<2, 11, 11>>

MCOid     == {G1, G2, G3, G4, G5}
MCGoalArg == {G1}
MCTaskArg == {<<1>>}
MCPgGoals == {1}

\* New goals, with a body that will do and one that will not.
MCRequests ==
  [op : {"goals_create"}, user : User, body : {"valid", "malformed"}]

\* The state without the histories of GoalTasks: no guard and no property of
\* this run looks at what clients were told.
MCView == <<stored, pc, req, answer, limiters, starts>>
=============================================================================
