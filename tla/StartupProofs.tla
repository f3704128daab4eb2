---------------------------- MODULE StartupProofs ----------------------------
(***************************************************************************)
(* Proofs about Startup for every choice of handlers and of constructors   *)
(* that may throw.                                                         *)
(*                                                                         *)
(* What is loaded is closed under Finds at every moment, and a server that *)
(* listens or drains has all of it.  That nobody waits for himself comes   *)
(* from three tiers of components: those that find nobody, those that find *)
(* only these, and the handlers.                                           *)
(***************************************************************************)
EXTENDS Startup, TLAPS

IInv ==
  /\ status \in [Registered -> {"constructing", "loaded", "gone"}]
  /\ \A c \in With("loaded") : Finds(c) \subseteq With("loaded")
  /\ phase \in {"starting", "serving", "draining", "clearing"}
  /\ phase \in {"serving", "draining"} => With("loaded") = Registered
  /\ busy \subseteq Handler
  /\ busy # {} => phase \in {"serving", "draining"}

LEMMA InitIInv == Init => IInv
BY DEF Init, IInv, With

\* A component gets another status.
LEMMA StatusStep ==
  ASSUME IInv, NEW c \in Registered, NEW new \in {"loaded", "gone"},
         status' = [status EXCEPT ![c] = new]
  PROVE  /\ status' \in [Registered -> {"constructing", "loaded", "gone"}]
         /\ With("loaded")' = IF new = "loaded" THEN With("loaded") \cup {c}
                              ELSE With("loaded") \ {c}
BY DEF IInv, With

\* Of two kinds are the components that change: those that were constructing,
\* and those that nobody who is there has found.
LEMMA OwnIInv ==
  ASSUME IInv, NEW c \in Registered, Own(c)
  PROVE  IInv'
<1>1. CASE Load(c)
  <2>1. /\ phase = "starting" /\ Finds(c) \subseteq With("loaded")
        /\ status' = [status EXCEPT ![c] = "loaded"]
        /\ UNCHANGED <<phase, busy>>
    BY <1>1 DEF Load
  <2>2. With("loaded")' = With("loaded") \cup {c}
    BY <2>1, StatusStep
  <2>3. \A d \in With("loaded")' : Finds(d) \subseteq With("loaded")'
    BY <2>1, <2>2 DEF IInv
  <2>. QED
    BY <2>1, <2>3, StatusStep DEF IInv
<1>2. CASE Throw(c) \/ FindThrows(c)
  <2>1. /\ phase = "starting" /\ c \notin With("loaded")
        /\ status' = [status EXCEPT ![c] = "gone"]
        /\ UNCHANGED <<phase, busy>>
    BY <1>2 DEF Throw, FindThrows, With
  <2>2. With("loaded")' = With("loaded")
    <3>1. With("loaded")' = With("loaded") \ {c}
      BY <2>1, StatusStep
    <3>. QED
      BY <2>1, <3>1
  <2>3. \A d \in With("loaded")' : Finds(d) \subseteq With("loaded")'
    BY <2>2 DEF IInv
  <2>. QED
    BY <2>1, <2>3, StatusStep DEF IInv
<1>3. CASE Destroy(c)
  <2>1. /\ phase = "clearing" /\ \A d \in With("loaded") : c \notin Finds(d)
        /\ status' = [status EXCEPT ![c] = "gone"]
        /\ UNCHANGED <<phase, busy>>
    BY <1>3 DEF Destroy
  <2>2. With("loaded")' = With("loaded") \ {c}
    BY <2>1, StatusStep
  <2>3. \A d \in With("loaded")' : Finds(d) \subseteq With("loaded")'
    BY <2>1, <2>2 DEF IInv
  <2>. QED
    BY <2>1, <2>3, StatusStep DEF IInv
<1>. QED
  BY <1>1, <1>2, <1>3 DEF Own

\* When no constructor is left and none has failed, all are there.
LEMMA AllEndedIInv == ASSUME IInv, AllEnded PROVE IInv'
<1>1. UNCHANGED <<status, busy>> /\ With("loaded")' = With("loaded")
  BY DEF AllEnded, With
<1>2. With("gone") = {} => With("loaded") = Registered
  BY DEF AllEnded, IInv, With
<1>3. busy = {}
  BY DEF AllEnded, IInv
<1>. QED
  BY <1>1, <1>2, <1>3 DEF AllEnded, IInv

\* Requests, the signal and the last answer move no component.
LEMMA ServerIInv ==
  ASSUME IInv,
         \/ Stop \/ Drained \/ UNCHANGED vars
         \/ \E h \in Handler : Serve(h) \/ Answer(h)
  PROVE  IInv'
<1>1. UNCHANGED status /\ With("loaded")' = With("loaded")
  BY DEF Stop, Drained, Serve, Answer, vars, With
<1>. QED
  BY <1>1 DEF IInv, Stop, Drained, Serve, Answer, vars

\* IInv is inductive.
LEMMA NextIInv == IInv /\ [Next]_vars => IInv'
BY OwnIInv, AllEndedIInv, ServerIInv DEF Next

LEMMA IInvHolds == Spec => []IInv
BY InitIInv, NextIInv, PTL DEF Spec

\* Nobody who is there keeps a reference to one who is not, and who serves a
\* request is there: at the start, at the end, and when the start fails.
THEOREM NothingDangles == Spec => []NoDangling
<1>1. IInv => NoDangling
  <2>. SUFFICES ASSUME IInv PROVE NoDangling
    OBVIOUS
  <2>1. \A c \in With("loaded") : Keeps(c) \subseteq With("loaded")
    BY DEF IInv, Finds
  <2>2. busy \subseteq With("loaded")
    BY DEF IInv, Registered
  <2>. QED
    BY <2>1, <2>2 DEF NoDangling
<1>. QED
  BY <1>1, IInvHolds, PTL

----------------------------------------------------------------------------
(* The start.                                                              *)

Alone  == {"postgres", "mongo", "jwt-auth-checker"}
Middle == {"users-repository", "tasks-repository", "goals-repository",
           "db-client"}

LEMMA Tiers ==
  /\ Registered = Alone \cup Middle \cup Handler
  /\ \A c \in Alone : Finds(c) = {}
  /\ \A c \in Middle : Finds(c) \subseteq Alone
  /\ \A c \in Handler : Finds(c) \subseteq Alone \cup Middle
<1>1. Handler \cap (Alone \cup Middle) = {}
  BY HandlerAssumption DEF AllHandler, TaskHandler, UserHandler, Alone, Middle
<1>2. Registered = Alone \cup Middle \cup Handler
  BY DEF Registered, Alone, Middle
<1>3. ASSUME NEW c PROVE /\ Keeps(c) \subseteq Middle
                         /\ StoreOf(c) \subseteq Alone
                         /\ CheckerOf(c) \subseteq Alone
                         /\ c \in Alone => StoreOf(c) = {}
  BY DEF Keeps, StoreOf, CheckerOf, Alone, Middle
<1>4. ASSUME NEW c \in Alone \cup Middle
      PROVE  Keeps(c) = {} /\ CheckerOf(c) = {}
  BY <1>1
  DEF Keeps, CheckerOf, Authorized, TaskHandler, UserHandler, Alone, Middle
<1>. QED
  BY <1>2, <1>3, <1>4 DEF Finds

\* Whatever handlers there are, the start cannot get stuck.
THEOREM StartGoesOn == Spec => []StartNotStuck
<1>1. IInv => StartNotStuck
  <2>. SUFFICES ASSUME IInv, With("gone") = {}, With("constructing") # {}
                PROVE  \E c \in With("constructing") :
                         Finds(c) \subseteq With("loaded")
    BY DEF StartNotStuck
  <2>1. \A c \in Registered \ With("constructing") : c \in With("loaded")
    BY DEF IInv, With
  <2>2. CASE Alone \cap With("constructing") # {}
    BY <2>2, Tiers
  <2>3. CASE /\ Alone \cap With("constructing") = {}
             /\ Middle \cap With("constructing") # {}
    <3>1. Alone \subseteq With("loaded")
      BY <2>1, <2>3, Tiers
    <3>. QED
      BY <2>3, <3>1, Tiers
  <2>4. CASE (Alone \cup Middle) \cap With("constructing") = {}
    <3>1. Alone \cup Middle \subseteq With("loaded")
      BY <2>1, <2>4, Tiers
    <3>2. With("constructing") \subseteq Handler
      BY <2>4, Tiers DEF With
    <3>. QED
      BY <3>1, <3>2, Tiers
  <2>. QED
    BY <2>2, <2>3, <2>4
<1>. QED
  BY <1>1, IInvHolds, PTL
=============================================================================
