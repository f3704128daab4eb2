------------------------------ MODULE Startup -------------------------------
(***************************************************************************)
(* The components that main registers, from the start of the process to    *)
(* its end.  The framework constructs all of them at the same time;        *)
(* FindComponent in a constructor waits until the other one is there.      *)
(* When all are, the server listens.  At the end it waits for the requests *)
(* it still serves and destroys the components, each after those that      *)
(* found it.  A constructor that throws cancels the start: the others that *)
(* still wait throw, too, and what was constructed is destroyed.           *)
(*                                                                         *)
(* The framework is not part of the repository; what is, is who is         *)
(* registered, who finds whom, and who keeps a reference to whom.          *)
(***************************************************************************)
EXTENDS FiniteSets

CONSTANTS
  Handler,   \* the handlers that take part
  MayThrow   \* components whose constructor may throw

VARIABLES
  status,  \* status[c]: "constructing", "loaded" or "gone"
  phase,   \* of the process
  threw,   \* history: the constructors that threw of themselves
  busy     \* handlers that serve a request

vars == <<status, phase, threw, busy>>

----------------------------------------------------------------------------
(* main.cpp, static_config.yaml and the constructors.                      *)

TaskHandler == {"handler-tasks-create", "handler-goals-update-task-status",
                "handler-goals-list-tasks"}
UserHandler == {"handler-signup", "handler-login", "handler-users-search"}

AllHandler == TaskHandler \cup UserHandler \cup
              {"handler-hello", "handler-goals-create", "handler-goals-list"}

ASSUME HandlerAssumption == Handler \subseteq AllHandler

NoChecker ==   \* a mutant: JwtAuthComponent is not appended to the list
  Handler \cup {"postgres", "mongo", "users-repository", "tasks-repository",
                "goals-repository", "db-client"}

\* The list that main puts together, without the components of the framework
\* that no constructor here asks for.
Registered ==
  Handler \cup {"postgres", "mongo", "users-repository", "tasks-repository",
                "goals-repository", "db-client", "jwt-auth-checker"}

\* Handlers with "auth: types: jwt-auth": their base class makes a
\* JwtAuthCheckerFactory, which finds JwtAuthComponent.
Authorized == Handler \ {"handler-signup", "handler-login"}

\* Who keeps a reference to a repository that a component owns.
Keeps(c) ==
  CASE c \in UserHandler -> {"users-repository"}
    [] c = "handler-goals-create" -> {"goals-repository", "users-repository"}
    [] c = "handler-goals-list" -> {"goals-repository"}
    [] c \in TaskHandler -> {"goals-repository", "tasks-repository"}
    [] OTHER -> {}

\* The storage that a repository, or DbClient, is built on.
StoreOf(c) ==
  CASE c \in {"users-repository", "tasks-repository", "db-client"} -> {"postgres"}
    [] c = "goals-repository" -> {"mongo"}
    [] OTHER -> {}

CheckerOf(c) == IF c \in Authorized THEN {"jwt-auth-checker"} ELSE {}

FindsTooLittle(c) ==   \* a mutant: the repository of goals is not asked for
  StoreOf(c) \cup (Keeps(c) \ {"goals-repository"}) \cup CheckerOf(c)

\* The calls of FindComponent in the constructor of a component.
Finds(c) == StoreOf(c) \cup Keeps(c) \cup CheckerOf(c)

----------------------------------------------------------------------------
Init ==
  /\ status = [c \in Registered |-> "constructing"]
  /\ phase = "starting"
  /\ threw = {}
  /\ busy = {}

With(s) == {c \in Registered : status[c] = s}

\* A constructor has found all it asks for and ends.
Load(c) ==
  /\ phase = "starting"
  /\ status[c] = "constructing"
  /\ Finds(c) \subseteq With("loaded")
  /\ status' = [status EXCEPT ![c] = "loaded"]
  /\ UNCHANGED <<phase, threw, busy>>

\* It throws: a missing secret, a database that does not answer.
Throw(c) ==
  /\ phase = "starting"
  /\ c \in MayThrow
  /\ status[c] = "constructing"
  /\ Finds(c) \subseteq With("loaded")
  /\ status' = [status EXCEPT ![c] = "gone"]
  /\ threw' = threw \cup {c}
  /\ UNCHANGED <<phase, busy>>

\* FindComponent throws: nothing of that name is registered, or the start is
\* cancelled.
FindThrows(c) ==
  /\ phase = "starting"
  /\ status[c] = "constructing"
  /\ ~(Finds(c) \subseteq With("loaded"))
  /\ ~(Finds(c) \subseteq Registered) \/ With("gone") # {}
  /\ status' = [status EXCEPT ![c] = "gone"]
  /\ UNCHANGED <<phase, threw, busy>>

\* Every constructor has ended: the server listens, or the process gives up.
AllEnded ==
  /\ phase = "starting"
  /\ With("constructing") = {}
  /\ phase' = IF With("gone") = {} THEN "serving" ELSE "clearing"
  /\ UNCHANGED <<status, threw, busy>>

Serve(h) ==
  /\ phase = "serving"
  /\ h \notin busy
  /\ busy' = busy \cup {h}
  /\ UNCHANGED <<status, phase, threw>>

Answer(h) ==
  /\ h \in busy
  /\ busy' = busy \ {h}
  /\ UNCHANGED <<status, phase, threw>>

\* A signal: nothing new is accepted.
Stop ==
  /\ phase = "serving"
  /\ phase' = "draining"
  /\ UNCHANGED <<status, threw, busy>>

Drained ==
  /\ phase = "draining"
  /\ busy = {}
  /\ phase' = "clearing"
  /\ UNCHANGED <<status, threw, busy>>

\* A component goes after all that found it.
Destroy(c) ==
  /\ phase = "clearing"
  /\ status[c] = "loaded"
  /\ \A d \in With("loaded") : c \notin Finds(d)
  /\ status' = [status EXCEPT ![c] = "gone"]
  /\ UNCHANGED <<phase, threw, busy>>

Own(c) == Load(c) \/ Throw(c) \/ FindThrows(c) \/ Destroy(c)

Next ==
  \/ \E c \in Registered : Own(c)
  \/ AllEnded \/ Stop \/ Drained
  \/ \E h \in Handler : Serve(h) \/ Answer(h)

\* The framework runs every task that can run; clients and signals come as they
\* like, and nothing is asked of a handler at work.
Fairness ==
  /\ \A c \in Registered : WF_vars(Own(c))
  /\ WF_vars(AllEnded)

Spec == Init /\ [][Next]_vars /\ Fairness

----------------------------------------------------------------------------
(* Properties.                                                             *)

\* A component that is there keeps no reference to one that is not, at the
\* start, at the end and when the start fails half-way; and every handler that
\* serves a request is there.
NoDangling ==
  /\ \A c \in With("loaded") : Keeps(c) \subseteq With("loaded")
  /\ busy \subseteq With("loaded")

\* As long as no constructor has thrown, one of those that have not ended has
\* found all it asks for: every name asked for is registered, and nobody waits
\* for himself by way of others.
StartNotStuck ==
  phase = "starting" /\ With("gone") = {} /\ With("constructing") # {} =>
    \E c \in With("constructing") : Finds(c) \subseteq With("loaded")

\* If no constructor throws of itself, the start ends and the server listens.
StartEnds == <>(phase = "serving" \/ threw # {})
=============================================================================
