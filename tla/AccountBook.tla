---------------------------- MODULE AccountBook -----------------------------
(***************************************************************************)
(* What the API under /api/users promises, without requests, a database,   *)
(* tokens or faults: accounts are entered once, each under an id and a     *)
(* login of its own, and stay as they are; clients are told of accounts    *)
(* that are there, and are let in as the one whose login and password they *)
(* gave.                                                                   *)
(***************************************************************************)
CONSTANTS
  Id,              \* ids of accounts
  Login, Password

VARIABLES
  accounts,  \* id -> login and password
  told       \* what clients were given for a login and a password (`of'):
             \* the id of a new account, or of the one they are let in as

vars == <<accounts, told>>

Init ==
  /\ accounts = [i \in {} |-> 0]
  /\ told = [accounts |-> {}, tokens |-> {}]

Taken(login) == \E i \in DOMAIN accounts : accounts[i].login = login

SignUp ==
  /\ \E i \in Id \ DOMAIN accounts, l \in Login, p \in Password :
       /\ ~ Taken(l)
       /\ accounts' = [j \in DOMAIN accounts \cup {i} |->
                         IF j = i THEN [login |-> l, password |-> p]
                                  ELSE accounts[j]]
  /\ UNCHANGED told

Entry(i) == [of |-> accounts[i], is |-> i]

Tell ==
  /\ \E i \in DOMAIN accounts :
       told' = [told EXCEPT !.accounts = @ \cup {Entry(i)}]
  /\ UNCHANGED accounts

LogIn ==
  /\ \E i \in DOMAIN accounts :
       told' = [told EXCEPT !.tokens = @ \cup {Entry(i)}]
  /\ UNCHANGED accounts

Next == SignUp \/ Tell \/ LogIn

Spec == Init /\ [][Next]_vars
=============================================================================
