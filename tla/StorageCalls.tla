---------------------------- MODULE StorageCalls ----------------------------
(***************************************************************************)
(* What the member functions of TasksStorage, UsersStorage and             *)
(* GoalsStorage have in common: each takes the storage's one mutex before  *)
(* it does anything and gives it back when it returns.  Threads call them  *)
(* at any time.  A result is a set: an optional is one of at most one      *)
(* element, and the order of a vector is left to the invariants.           *)
(***************************************************************************)
EXTENDS Integers, Sequences, FiniteSets

CONSTANT Thread   \* the threads that call the storage

NoThread == "no thread"   \* no member of Thread
NoCall   == [op |-> "none"]

VARIABLES
  mutex_,  \* the thread that holds the mutex
  pc,      \* pc[t]: where thread t is in its call
  call,    \* call[t]: the member function and its arguments
  result,  \* result[t]: what it is about to return
  next_id_ \* the id of the storage's next record

calls == <<mutex_, pc, call, result>>

CallsInit ==
  /\ mutex_ = NoThread
  /\ pc = [t \in Thread |-> "idle"]
  /\ call = [t \in Thread |-> NoCall]
  /\ result = [t \in Thread |-> {}]

Invoke(t, c) ==
  /\ pc[t] = "idle"
  /\ pc' = [pc EXCEPT ![t] = "called"]
  /\ call' = [call EXCEPT ![t] = c]
  /\ UNCHANGED <<mutex_, result>>

LockNothing(t) ==   \* a mutant: the lock_guard is gone
  /\ pc[t] = "called"
  /\ pc' = [pc EXCEPT ![t] = "locked"]
  /\ UNCHANGED <<mutex_, call, result>>

\* std::lock_guard lock(mutex_).
Lock(t) ==
  /\ pc[t] = "called"
  /\ mutex_ = NoThread
  /\ mutex_' = t
  /\ pc' = [pc EXCEPT ![t] = "locked"]
  /\ UNCHANGED <<call, result>>

At(t, label, op) == pc[t] = label /\ call[t].op = op

\* The function goes on under the mutex; r is what it will return.
Keep(t, label, r) ==
  /\ pc' = [pc EXCEPT ![t] = label]
  /\ result' = [result EXCEPT ![t] = r]
  /\ UNCHANGED <<mutex_, call>>

\* The function returns r and its lock_guard gives the mutex back.
Finish(t, r) ==
  /\ pc' = [pc EXCEPT ![t] = "done"]
  /\ result' = [result EXCEPT ![t] = r]
  /\ mutex_' = NoThread
  /\ UNCHANGED call

\* The caller has the result.
Return(t) ==
  /\ pc[t] = "done"
  /\ pc' = [pc EXCEPT ![t] = "idle"]
  /\ call' = [call EXCEPT ![t] = NoCall]
  /\ result' = [result EXCEPT ![t] = {}]
  /\ UNCHANGED mutex_

\* How a call looks to somebody for whom it takes effect at one moment: at its
\* first write to a table, or at its end if it writes none.
Stage(t) ==
  IF pc[t] \in {"locked", "id read"} THEN "called"
  ELSE IF pc[t] = "second copy" THEN "done" ELSE pc[t]

Stages  == [t \in Thread |-> Stage(t)]
Results == [t \in Thread |-> IF Stage(t) = "done" THEN result[t] ELSE {}]

----------------------------------------------------------------------------
(* std::unordered_map.                                                     *)

\* emplace leaves a key that is there as it is.
Emplace(f, key, value) ==
  [k \in DOMAIN f \cup {key} |-> IF k \in DOMAIN f THEN f[k] ELSE value]

\* find, as an optional.
Find(f, key) == IF key \in DOMAIN f THEN {f[key]} ELSE {}

EmptyMap == [k \in {} |-> 0]
=============================================================================
