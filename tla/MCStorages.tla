----------------------------- MODULE MCStorages -----------------------------
(***************************************************************************)
(* Small instances of the three storages.  They share nothing, so each     *)
(* behaviour is one of one storage (`which'), and the other two stay as    *)
(* they started.  TasksStorage is extended, the other two are instances    *)
(* with variables of their own.                                            *)
(***************************************************************************)
EXTENDS TasksStorage

CONSTANTS Login, Name, MaxUsers, User, MaxGoals

VARIABLES
  which,
  u_mutex, u_pc, u_call, u_result, u_next, users_by_login_, users_by_id_,
  g_mutex, g_pc, g_call, g_result, g_next, goals_by_id_

U == INSTANCE UsersStorage WITH mutex_ <- u_mutex, pc <- u_pc, call <- u_call,
                                result <- u_result, next_id_ <- u_next
G == INSTANCE GoalsStorage WITH mutex_ <- g_mutex, pc <- g_pc, call <- g_call,
                                result <- g_result, next_id_ <- g_next

users == <<u_mutex, u_pc, u_call, u_result, u_next,
           users_by_login_, users_by_id_>>
goals == <<g_mutex, g_pc, g_call, g_result, g_next, goals_by_id_>>

StoragesInit ==
  /\ which \in {"tasks", "users", "goals"}
  /\ TasksInit /\ U!UsersInit /\ G!GoalsInit

StoragesNext ==
  /\ UNCHANGED which
  /\ \/ which = "tasks" /\ TasksNext /\ UNCHANGED <<users, goals>>
     \/ which = "users" /\ U!UsersNext /\ UNCHANGED <<tasks_vars, goals>>
     \/ which = "goals" /\ G!GoalsNext /\ UNCHANGED <<tasks_vars, users>>

StoragesSpec == StoragesInit /\ [][StoragesNext]_<<which, tasks_vars, users, goals>>

\* A name and one that has it as a part; either may be searched for.
TwoNames == {<<"a">>, <<"a", "b">>}

----------------------------------------------------------------------------
\* The properties of UsersStorage and GoalsStorage under names of their own:
\* each keeps its promise, and the two copies of a user agree.
UsersAtomic == U!UsersAtomic
GoalsAtomic == G!GoalsAtomic
UserCopiesAgree == U!UserCopiesAgree
=============================================================================
