---------------------------- MODULE GoalsStorage ----------------------------
(***************************************************************************)
(* GoalsStorage: one map of goals and the id of the next one.  Titles and  *)
(* descriptions are left out.                                              *)
(***************************************************************************)
EXTENDS StorageCalls

CONSTANTS
  User,     \* user ids
  MaxGoals  \* bound: goals that are created

VARIABLE goals_by_id_   \* id -> goal

goals_stored == <<next_id_, goals_by_id_>>
goals_vars   == <<calls, goals_stored>>

GoalsCall ==
       [op : {"CreateGoal", "GetGoalsByUser"}, user_id : User]
  \cup [op : {"GetById"}, id : 1 .. MaxGoals]

NewGoal(id, user_id) == [id |-> id, userId |-> user_id]

OwnedBy(map, user_id) ==
  {map[i] : i \in {j \in DOMAIN map : map[j].userId = user_id}}

GoalsInit == CallsInit /\ next_id_ = 1 /\ goals_by_id_ = EmptyMap

\* Creations under way that have not moved next_id_ yet.
GoalsCreating ==
  {t \in Thread : pc[t] \in {"called", "locked", "id read"}
                  /\ call[t].op = "CreateGoal"}

GoalsStart(t) ==
  /\ \E c \in GoalsCall :
       /\ c.op = "CreateGoal" => next_id_ + Cardinality(GoalsCreating) <= MaxGoals
       /\ Invoke(t, c)
  /\ UNCHANGED goals_stored

\* next_id_++ is a read and a write: what is read becomes the goal's id ...
CreateGoal(t) ==
  /\ At(t, "locked", "CreateGoal")
  /\ Keep(t, "id read", {NewGoal(next_id_, call[t].user_id)})
  /\ UNCHANGED goals_stored

\* ... and then one more is written.
CreateGoalEmplace(t) ==
  /\ At(t, "id read", "CreateGoal")
  /\ \E goal \in result[t] :
       /\ next_id_' = goal.id + 1
       /\ goals_by_id_' = Emplace(goals_by_id_, goal.id, goal)
  /\ Finish(t, result[t])

GoalsGetById(t) ==
  /\ At(t, "locked", "GetById")
  /\ Finish(t, Find(goals_by_id_, call[t].id))
  /\ UNCHANGED goals_stored

GetGoalsByUser(t) ==
  /\ At(t, "locked", "GetGoalsByUser")
  /\ Finish(t, OwnedBy(goals_by_id_, call[t].user_id))
  /\ UNCHANGED goals_stored

GoalsNext ==
  \E t \in Thread :
    \/ GoalsStart(t)
    \/ (Lock(t) \/ Return(t)) /\ UNCHANGED goals_stored
    \/ CreateGoal(t) \/ CreateGoalEmplace(t)
    \/ GoalsGetById(t)
    \/ GetGoalsByUser(t)

GoalsSpec == GoalsInit /\ [][GoalsNext]_goals_vars

----------------------------------------------------------------------------
(* Properties.                                                             *)

\* The promise: one table of goals by id.
GoalEffect(table, c) ==
  LET new == NewGoal(Cardinality(DOMAIN table) + 1, c.user_id)
  IN  CASE c.op = "CreateGoal" ->
             [table |-> Emplace(table, new.id, new), result |-> {new}]
        [] c.op = "GetById" -> [table |-> table, result |-> Find(table, c.id)]
        [] OTHER -> [table |-> table, result |-> OwnedBy(table, c.user_id)]

GoalsStore == INSTANCE AtomicStore WITH
           Call <- GoalsCall, Empty <- EmptyMap, Effect <- GoalEffect,
           table <- goals_by_id_, stage <- Stages, result <- Results

\* Every call of a thread takes effect at one moment, on one table of goals; no
\* two goals get one id, and a goal a caller was given is kept.
GoalsAtomic == GoalsStore!Spec
=============================================================================
