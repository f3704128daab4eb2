---------------------------- MODULE AtomicStore -----------------------------
(***************************************************************************)
(* What a storage promises to the threads that call it: one table of       *)
(* records, and every call takes effect on it, and gets its result from    *)
(* it, at one moment between its start and its return.                     *)
(***************************************************************************)
CONSTANTS
  Thread,          \* the threads that call
  Call,            \* the calls they may make
  NoCall,          \* no call
  Empty,           \* the table at the start
  Effect(_, _)     \* of a call on a table: the table after it, and its result

VARIABLES table, stage, call, result

vars == <<table, stage, call, result>>

Init ==
  /\ table = Empty
  /\ stage = [t \in Thread |-> "idle"]
  /\ call = [t \in Thread |-> NoCall]
  /\ result = [t \in Thread |-> {}]

Begin(t) ==
  /\ stage[t] = "idle"
  /\ stage' = [stage EXCEPT ![t] = "called"]
  /\ \E c \in Call : call' = [call EXCEPT ![t] = c]
  /\ UNCHANGED <<table, result>>

TakeEffect(t) ==
  /\ stage[t] = "called"
  /\ stage' = [stage EXCEPT ![t] = "done"]
  /\ table' = Effect(table, call[t]).table
  /\ result' = [result EXCEPT ![t] = Effect(table, call[t]).result]
  /\ UNCHANGED call

End(t) ==
  /\ stage[t] = "done"
  /\ stage' = [stage EXCEPT ![t] = "idle"]
  /\ call' = [call EXCEPT ![t] = NoCall]
  /\ result' = [result EXCEPT ![t] = {}]
  /\ UNCHANGED table

Next == \E t \in Thread : Begin(t) \/ TakeEffect(t) \/ End(t)

Spec == Init /\ [][Next]_vars
=============================================================================
