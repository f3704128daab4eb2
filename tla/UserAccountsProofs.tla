------------------------- MODULE UserAccountsProofs -------------------------
(***************************************************************************)
(* Proofs about UserAccounts for all logins, passwords, slots, headers and *)
(* requests.                                                               *)
(*                                                                         *)
(* Rows are only ever added, each with a login and an id of its own, so    *)
(* what a handler has read stays true: SlotOk says what is known of the    *)
(* request in one slot, and outlives every step of another slot.  TInv has *)
(* the types, which need what IInv says, and whom the tokens name.         *)
(***************************************************************************)
EXTENDS UserAccounts, IdsProofs, TLAPS

\* The part of TypeOK that the argument needs.
Shape ==
  /\ users_id_seq \in Nat
  /\ DOMAIN users \subseteq 1 .. users_id_seq
  /\ DOMAIN pc = Slot /\ DOMAIN req = Slot /\ DOMAIN user_id = Slot
  /\ DOMAIN answer = Slot /\ DOMAIN known = Slot

\* The request belongs where it waits.
Placed(s) ==
  /\ pc[s] # "idle" => req[s] \in Requests
  /\ pc[s] = "CreateUser" => req[s].op = "signup"
  /\ pc[s] = "GetByLogin" => req[s].op = "login"
  /\ pc[s] \in {"authorized", "Search"} => req[s].op = "search"

\* It has a token of ours where it needs one.
Signed(s) ==
  pc[s] \in {"authorized", "Search"} =>
    /\ req[s].header.form = "ours" /\ req[s].header.iss = "sample"
    /\ Stoll(req[s].header.sub).ok
    /\ Stoll(req[s].header.sub).value = user_id[s]

\* The account that an answer on its way announces is in the table.
Made(s) ==
  Answered(s, "signup", 200) =>
    \A i \in answer[s].users : i \in DOMAIN users /\ users[i] = Account(req[s])

\* A refused log-in is none to an account that its client was told of.
RightlyRefused(s) ==
  Answered(s, "login", 401) =>
    \A a \in known[s].accounts : a.of # Account(req[s])

\* A search that has run has found what its client was told of.
RightlyFound(s) ==
  Answered(s, "search", 200) =>
    /\ \A a \in known[s].accounts :
         a.of.login = req[s].login => a.is \in answer[s].users
    /\ \A i \in answer[s].users :
         i \in DOMAIN users /\ users[i].login = req[s].login

SlotOk(s) ==
  /\ Placed(s) /\ Signed(s)
  /\ known[s].accounts \subseteq told.accounts
  /\ Made(s) /\ RightlyRefused(s) /\ RightlyFound(s)

IInv ==
  /\ Shape /\ UniqueLogins /\ ToldAccountsKept
  /\ \A s \in Slot : SlotOk(s)

----------------------------------------------------------------------------
\* There is nobody yet.
LEMMA InitIInv == Init => IInv
<1>. SUFFICES ASSUME Init PROVE IInv
  OBVIOUS
<1>1. Shape /\ UniqueLogins /\ ToldAccountsKept
  BY DEF Init, Shape, UniqueLogins, ToldAccountsKept, Nothing
<1>2. ASSUME NEW s \in Slot PROVE SlotOk(s)
  BY DEF Init, SlotOk, Placed, Signed, Made, RightlyRefused, RightlyFound,
     Answered, Nothing
<1>. QED
  BY <1>1, <1>2 DEF IInv

\* Nothing of the table goes away, and clients forget nothing.
Grows ==
  /\ DOMAIN users \subseteq DOMAIN users'
  /\ \A i \in DOMAIN users : users'[i] = users[i]
  /\ told.accounts \subseteq told'.accounts

\* What is known of a slot outlives the steps of others.
LEMMA OtherSlotOk ==
  ASSUME NEW s, SlotOk(s), Grows,
         pc'[s] = pc[s], req'[s] = req[s], user_id'[s] = user_id[s],
         answer'[s] = answer[s], known'[s] = known[s]
  PROVE  SlotOk(s)'
<1>1. Placed(s)' /\ Signed(s)'
  BY DEF SlotOk, Placed, Signed
<1>2. known'[s].accounts \subseteq told'.accounts
  BY DEF SlotOk, Grows
<1>3. Made(s)'
  BY DEF SlotOk, Made, Answered, Grows
<1>4. RightlyRefused(s)' /\ RightlyFound(s)'
  BY DEF SlotOk, RightlyRefused, RightlyFound, Answered, Grows
<1>. QED
  BY <1>1, <1>2, <1>3, <1>4 DEF SlotOk

\* A step that touches neither the table nor what clients were told, and of
\* the slots only s.
LEMMA SlotStep ==
  ASSUME IInv, NEW s \in Slot,
         UNCHANGED <<users, users_id_seq, told>>, Shape', SlotOk(s)',
         \A q \in Slot \ {s} :
           /\ pc'[q] = pc[q] /\ req'[q] = req[q] /\ user_id'[q] = user_id[q]
           /\ answer'[q] = answer[q] /\ known'[q] = known[q]
  PROVE  IInv'
<1>1. Grows
  BY DEF Grows
<1>2. \A q \in Slot \ {s} : SlotOk(q)'
  BY <1>1, OtherSlotOk DEF IInv
<1>3. UniqueLogins' /\ ToldAccountsKept'
  BY DEF IInv, UniqueLogins, ToldAccountsKept
<1>. QED
  BY <1>2, <1>3 DEF IInv

\* A slot goes on to another label, having passed what that label asks for.
LEMMA GotoIInv ==
  ASSUME IInv, NEW s \in Slot, NEW label, label # "answered", Goto(s, label),
         UNCHANGED <<users, users_id_seq, client>>,
         \/ UNCHANGED user_id
         \/ \E id : user_id' = [user_id EXCEPT ![s] = id],
         (Placed(s) /\ Signed(s))'
  PROVE  IInv'
<1>1. /\ pc'[s] = label
      /\ \A q \in Slot \ {s} :
           /\ pc'[q] = pc[q] /\ req'[q] = req[q] /\ user_id'[q] = user_id[q]
           /\ answer'[q] = answer[q] /\ known'[q] = known[q]
  BY DEF Goto, client, IInv, Shape
<1>2. Shape'
  BY DEF Goto, client, IInv, Shape
<1>3. SlotOk(s)'
  <2>1. Made(s)' /\ RightlyRefused(s)' /\ RightlyFound(s)'
    BY <1>1 DEF Made, RightlyRefused, RightlyFound, Answered
  <2>2. known'[s].accounts \subseteq told'.accounts
    BY DEF client, IInv, SlotOk
  <2>. QED
    BY <2>1, <2>2 DEF SlotOk
<1>. QED
  BY <1>1, <1>2, <1>3, SlotStep DEF client

\* A slot answers, and the answer says nothing that is not so.
LEMMA ReplyIInv ==
  ASSUME IInv, NEW s \in Slot, NEW a, Reply(s, a), pc[s] # "idle",
         UNCHANGED <<users, users_id_seq, user_id, client>>,
         req[s].op = "signup" => a.code # 200,
         req[s].op = "login" /\ a.code = 401 =>
           \A t \in known[s].accounts : t.of # Account(req[s]),
         req[s].op = "search" /\ a.code = 200 =>
           /\ \A t \in known[s].accounts :
                t.of.login = req[s].login => t.is \in a.users
           /\ \A i \in a.users :
                i \in DOMAIN users /\ users[i].login = req[s].login
  PROVE  IInv'
<1>1. /\ pc'[s] = "answered" /\ answer'[s] = a
      /\ req' = req /\ known' = known /\ users' = users /\ told' = told
      /\ \A q \in Slot \ {s} :
           /\ pc'[q] = pc[q] /\ req'[q] = req[q] /\ user_id'[q] = user_id[q]
           /\ answer'[q] = answer[q] /\ known'[q] = known[q]
  BY DEF Reply, client, IInv, Shape
<1>2. Shape'
  BY DEF Reply, client, IInv, Shape
<1>3. SlotOk(s)
  BY DEF IInv
<1>4. SlotOk(s)'
  <2>1. Placed(s)' /\ Signed(s)'
    BY <1>1, <1>3 DEF SlotOk, Placed, Signed
  <2>2. Made(s)' /\ RightlyRefused(s)'
    BY <1>1 DEF Made, RightlyRefused, Answered
  <2>3. RightlyFound(s)'
    BY <1>1 DEF RightlyFound, Answered
  <2>4. known'[s].accounts \subseteq told'.accounts
    BY <1>1, <1>3 DEF SlotOk
  <2>. QED
    BY <2>1, <2>2, <2>3, <2>4 DEF SlotOk
<1>. QED
  BY <1>1, <1>2, <1>4, SlotStep

\* Refusals that need no reason in the table, and faults.
LEMMA RefuseIInv ==
  ASSUME IInv, NEW s \in Slot, pc[s] # "idle",
         UNCHANGED <<users, users_id_seq, user_id, client>>,
         \/ \E code : /\ Refuse(s, code)
                      /\ code # 200 /\ (req[s].op = "login" => code # 401)
         \/ Fault(s)
  PROVE  IInv'
<1>1. PICK a : /\ Reply(s, a)
               /\ a.code # 200 /\ (req[s].op = "login" => a.code # 401)
  <2>1. ASSUME NEW code, Refuse(s, code), code # 200,
               req[s].op = "login" => code # 401
        PROVE  \E a : /\ Reply(s, a)
                      /\ a.code # 200 /\ (req[s].op = "login" => a.code # 401)
    <3>. DEFINE r == [NoAnswer EXCEPT !.code = code]
    <3>1. r.code = code
      BY DEF NoAnswer
    <3>2. Reply(s, r)
      BY <2>1 DEF Refuse
    <3>. HIDE DEF r
    <3>. QED
      BY <2>1, <3>1, <3>2
  <2>2. ASSUME Fault(s)
        PROVE  \E a : /\ Reply(s, a)
                      /\ a.code # 200 /\ (req[s].op = "login" => a.code # 401)
    <3>. DEFINE f == [NoAnswer EXCEPT
                        !.code = IF req[s].op = "search" THEN 500 ELSE 400,
                        !.fault = TRUE]
    <3>1. f.code = IF req[s].op = "search" THEN 500 ELSE 400
      BY DEF NoAnswer
    <3>2. Reply(s, f)
      BY <2>2 DEF Fault
    <3>. HIDE DEF f
    <3>. QED
      BY <3>1, <3>2
  <2>. QED
    BY <2>1, <2>2
<1>. QED
  BY <1>1, ReplyIInv

----------------------------------------------------------------------------
(* The steps of the handlers.                                              *)

\* A request comes in: its client knows what clients have been told.
LEMMA ReceiveIInv ==
  ASSUME IInv, NEW s \in Slot, Receive(s)
  PROVE  IInv'
<1>1. PICK r \in Requests : req' = [req EXCEPT ![s] = r]
  BY DEF Receive
<1>2. /\ pc'[s] = "received" /\ req'[s] = r /\ known'[s] = told
      /\ told' = told /\ UNCHANGED <<users, users_id_seq, user_id, answer>>
      /\ \A q \in Slot \ {s} :
           pc'[q] = pc[q] /\ req'[q] = req[q] /\ known'[q] = known[q]
  BY <1>1 DEF Receive, IInv, Shape
<1>3. Shape'
  BY <1>1 DEF Receive, IInv, Shape
<1>4. SlotOk(s)'
  BY <1>2 DEF SlotOk, Placed, Signed, Made, RightlyRefused, RightlyFound,
              Answered
<1>. QED
  BY <1>2, <1>3, <1>4, SlotStep

\* The handlers of sign-up and log-in look at the body.
LEMMA EnterIInv ==
  ASSUME IInv, NEW s \in Slot, SignupEnter(s) \/ LoginEnter(s)
  PROVE  IInv'
<1>1. /\ pc[s] = "received"
      /\ UNCHANGED <<users, users_id_seq, user_id, client>>
      /\ \/ Refuse(s, 400)
         \/ req[s].op = "signup" /\ Goto(s, "CreateUser")
         \/ req[s].op = "login" /\ Goto(s, "GetByLogin")
  BY DEF SignupEnter, LoginEnter, At
<1>2. CASE Refuse(s, 400)
  BY <1>1, <1>2, RefuseIInv
<1>3. ASSUME NEW label \in {"CreateUser", "GetByLogin"}, Goto(s, label),
             label = "CreateUser" => req[s].op = "signup",
             label = "GetByLogin" => req[s].op = "login"
      PROVE  IInv'
  <2>1. pc'[s] = label /\ req' = req
    BY <1>1, <1>3 DEF Goto, client, IInv, Shape
  <2>2. (Placed(s) /\ Signed(s))'
    BY <1>1, <1>3, <2>1 DEF Placed, Signed, IInv, SlotOk
  <2>. QED
    BY <1>1, <1>3, <2>2, GotoIInv
<1>. QED
  BY <1>1, <1>2, <1>3

\* A sign-up inserts a row of a new id and a new login, or none.
LEMMA CreateUserIInv ==
  ASSUME IInv, NEW s \in Slot, CreateUser(s)
  PROVE  IInv'
<1>. DEFINE id  == users_id_seq + 1
            row == Account(req[s])
<1>1. /\ pc[s] = "CreateUser" /\ req[s].op = "signup" /\ users_id_seq' = id
      /\ UNCHANGED <<user_id, req, told, known>>
  BY DEF CreateUser, client, IInv, SlotOk, Placed
<1>2. /\ id \in Nat /\ id \in 1 .. id /\ id \notin DOMAIN users
      /\ DOMAIN users \subseteq 1 .. id
  BY DEF IInv, Shape
<1>3. PICK a :
        /\ Reply(s, a)
        /\ \/ /\ \A i \in DOMAIN users : users[i].login # row.login
              /\ users' = Inserted(id, row)
              /\ a.code = 200 => a.users = {id}
           \/ users' = users /\ a.code # 200
  <2>. DEFINE c == [NoAnswer EXCEPT !.code = 200, !.users = {id}]
              f == [NoAnswer EXCEPT
                      !.code = IF req[s].op = "search" THEN 500 ELSE 400,
                      !.fault = TRUE]
              r == [NoAnswer EXCEPT !.code = 409]
  <2>1. c.users = {id} /\ f.code # 200 /\ r.code # 200
    BY DEF NoAnswer
  <2>2. row.login = req[s].login
    BY DEF Account
  <2>3. \/ /\ \A i \in DOMAIN users : users[i].login # req[s].login
           /\ users' = Inserted(id, row)
           /\ Reply(s, c) \/ Reply(s, f)
        \/ users' = users /\ Reply(s, r)
    BY DEF CreateUser, Fault, Refuse
  <2>. HIDE DEF c, f, r, id, row
  <2>. QED
    BY <2>1, <2>2, <2>3
<1>. HIDE DEF id, row
<1>4. /\ pc'[s] = "answered" /\ answer'[s] = a
      /\ \A q \in Slot \ {s} : pc'[q] = pc[q] /\ answer'[q] = answer[q]
      /\ DOMAIN pc' = Slot /\ DOMAIN answer' = Slot
  BY <1>3 DEF Reply, IInv, Shape
<1>5. \/ /\ DOMAIN users' = DOMAIN users \cup {id} /\ users'[id] = row
         /\ \A i \in DOMAIN users : /\ users'[i] = users[i]
                                    /\ users[i].login # row.login
         /\ a.code = 200 => a.users = {id}
      \/ users' = users /\ a.code # 200
  BY <1>2, <1>3 DEF Inserted
<1>6. Grows
  BY <1>1, <1>5 DEF Grows
<1>7. Shape'
  <2>1. DOMAIN users' \subseteq DOMAIN users \cup {id}
    BY <1>5
  <2>. QED
    BY <1>1, <1>2, <1>4, <2>1 DEF IInv, Shape
<1>8. UniqueLogins' /\ ToldAccountsKept'
  BY <1>1, <1>2, <1>5 DEF IInv, UniqueLogins, ToldAccountsKept
<1>9. SlotOk(s)'
  <2>1. Placed(s)' /\ Signed(s)'
    BY <1>1, <1>4 DEF IInv, SlotOk, Placed, Signed
  <2>2. Made(s)'
    BY <1>1, <1>4, <1>5 DEF Made, Answered, row
  <2>3. RightlyRefused(s)' /\ RightlyFound(s)'
    BY <1>1 DEF RightlyRefused, RightlyFound, Answered
  <2>4. known'[s].accounts \subseteq told'.accounts
    BY <1>1 DEF IInv, SlotOk
  <2>. QED
    BY <2>1, <2>2, <2>3, <2>4 DEF SlotOk
<1>10. \A q \in Slot \ {s} : SlotOk(q)'
  BY <1>1, <1>4, <1>6, OtherSlotOk DEF IInv
<1>. QED
  BY <1>7, <1>8, <1>9, <1>10 DEF IInv

\* A log-in is refused only if its login has no row or another password: the
\* row of an account the client knows is the only one of that login.
LEMMA LoginSelectIInv ==
  ASSUME IInv, NEW s \in Slot, LoginSelect(s)
  PROVE  IInv'
<1>1. /\ pc[s] = "GetByLogin" /\ req[s].op = "login"
      /\ UNCHANGED <<users, users_id_seq, user_id, client>>
  BY DEF LoginSelect, IInv, SlotOk, Placed
<1>2. ASSUME NEW a, Reply(s, a),
             a.code = 401 =>
               \A t \in known[s].accounts : t.of # Account(req[s])
      PROVE  IInv'
  BY <1>1, <1>2, ReplyIInv
<1>3. ASSUME Refuse(s, 401),
             \A i \in DOMAIN users : users[i].login = req[s].login =>
                                     users[i].password # req[s].password
      PROVE  IInv'
  <2>. DEFINE r == [NoAnswer EXCEPT !.code = 401]
  <2>1. \A t \in known[s].accounts : t.of # Account(req[s])
    <3>1. \A t \in known[s].accounts :
            t.is \in DOMAIN users /\ users[t.is] = t.of
      BY DEF IInv, SlotOk, ToldAccountsKept
    <3>. QED
      BY <1>3, <3>1 DEF Account
  <2>2. Reply(s, r)
    BY <1>3 DEF Refuse
  <2>. HIDE DEF r
  <2>. QED
    BY <1>2, <2>1, <2>2
<1>4. ASSUME NEW i \in DOMAIN users, users[i].login = req[s].login,
             users[i].password # req[s].password, Refuse(s, 401)
      PROVE  IInv'
  BY <1>3, <1>4 DEF IInv, UniqueLogins
<1>5. ASSUME NEW i \in DOMAIN users,
             Reply(s, [NoAnswer EXCEPT !.code = 200, !.tokens = {Token(i)}])
      PROVE  IInv'
  <2>. DEFINE c == [NoAnswer EXCEPT !.code = 200, !.tokens = {Token(i)}]
  <2>1. c.code # 401
    BY DEF NoAnswer
  <2>2. Reply(s, c)
    BY <1>5
  <2>. HIDE DEF c
  <2>. QED
    BY <1>2, <2>1, <2>2
<1>. QED
  BY <1>3, <1>4, <1>5 DEF LoginSelect, GetByLoginWithPassword

\* CheckAuth lets a token through only if it is signed with the secret, names
\* the issuer and has a number for a subject.
LEMMA CheckAuthPasses ==
  ASSUME NEW h \in Header, CheckAuth(h) = 200
  PROVE  /\ h.kind = "bearer" /\ h.form = "ours" /\ h.iss = "sample"
         /\ h.sub # NoSubject /\ Stoll(h.sub).ok
<1>1. IsHeader(h)
  BY HeaderAssumption
<1>2. ASSUME h.kind # "bearer" PROVE FALSE
  <2>1. CheckAuth(h) = 401
    BY <1>2, Zenon DEF CheckAuth
  <2>. QED
    BY <2>1
<1>3. h.form \in Form
  <2>1. NoHeader.kind # "bearer" /\ OtherAuth.kind # "bearer"
    BY DEF NoHeader, OtherAuth
  <2>. QED
    BY <1>1, <1>2, <2>1 DEF IsHeader, Form
<1>4. ASSUME h.form \in {"garbage", "forged"} PROVE FALSE
  <2>1. CheckAuth(h) = 403
    BY <1>2, <1>4, Zenon DEF CheckAuth
  <2>. QED
    BY <2>1
<1>5. ASSUME h.form \in {"other algorithm", "expired"} \/ h.iss # "sample"
      PROVE  FALSE
  <2>1. CheckAuth(h) = 401
    BY <1>2, <1>4, <1>5, Zenon DEF CheckAuth
  <2>. QED
    BY <2>1
<1>6. ASSUME h.sub = NoSubject PROVE FALSE
  <2>1. CheckAuth(h) = 403
    BY <1>2, <1>4, <1>5, <1>6, Zenon DEF CheckAuth
  <2>. QED
    BY <2>1
<1>7. ASSUME ~Stoll(h.sub).ok PROVE FALSE
  <2>1. CheckAuth(h) = 401
    BY <1>2, <1>4, <1>5, <1>6, <1>7, Zenon DEF CheckAuth
  <2>. QED
    BY <2>1
<1>. QED
  BY <1>2, <1>3, <1>4, <1>5, <1>6, <1>7 DEF Form

\* The check puts the subject of the token into the request's context.
LEMMA AuthorizeIInv ==
  ASSUME IInv, NEW s \in Slot, Authorize(s)
  PROVE  IInv'
<1>. DEFINE h == req[s].header
<1>1. /\ pc[s] = "received" /\ req[s].op = "search"
      /\ UNCHANGED <<users, users_id_seq, client>>
  BY DEF Authorize, At
<1>2. h \in Header
  BY <1>1, RequestsAssumption DEF IInv, SlotOk, Placed, Request
<1>3. CASE CheckAuth(h) # 200
  BY <1>1, <1>3, RefuseIInv DEF Authorize
<1>4. CASE CheckAuth(h) = 200
  <2>1. /\ user_id' = [user_id EXCEPT ![s] = Stoll(h.sub).value]
        /\ Goto(s, "authorized")
    BY <1>4 DEF Authorize
  <2>2. pc'[s] = "authorized" /\ user_id'[s] = Stoll(h.sub).value /\ req' = req
    BY <1>1, <2>1 DEF Goto, client, IInv, Shape
  <2>3. (Placed(s) /\ Signed(s))'
    BY <1>1, <1>2, <1>4, <2>2, CheckAuthPasses
    DEF Placed, Signed, IInv, SlotOk
  <2>. QED
    BY <1>1, <2>1, <2>3, GotoIInv
<1>. QED
  BY <1>3, <1>4

\* The search asks the limiter and looks at its argument.
LEMMA SearchEnterIInv ==
  ASSUME IInv, NEW s \in Slot, SearchEnter(s)
  PROVE  IInv'
<1>1. /\ pc[s] = "authorized" /\ req[s].op = "search"
      /\ UNCHANGED <<users, users_id_seq, user_id, client>>
      /\ \/ \E code \in {400, 429} : Refuse(s, code)
         \/ Goto(s, "Search")
  BY DEF SearchEnter, IInv, SlotOk, Placed
<1>2. ASSUME NEW code \in {400, 429}, Refuse(s, code) PROVE IInv'
  BY <1>1, <1>2, RefuseIInv
<1>3. CASE Goto(s, "Search")
  <2>1. pc'[s] = "Search" /\ req' = req
    BY <1>1, <1>3 DEF Goto, client, IInv, Shape
  <2>2. (Placed(s) /\ Signed(s))'
    BY <1>1, <2>1 DEF Placed, Signed, IInv, SlotOk
  <2>. QED
    BY <1>1, <1>3, <2>2, GotoIInv
<1>. QED
  BY <1>1, <1>2, <1>3

\* The accounts a client was told of are in the table when the search reads it.
LEMMA SearchSelectIInv ==
  ASSUME IInv, NEW s \in Slot, SearchSelect(s)
  PROVE  IInv'
<1>. DEFINE found == Search(req[s].login)
            a == [NoAnswer EXCEPT !.code = 200, !.users = found]
<1>1. /\ pc[s] = "Search" /\ req[s].op = "search" /\ Reply(s, a)
      /\ UNCHANGED <<users, users_id_seq, user_id, client>>
  BY DEF SearchSelect, IInv, SlotOk, Placed
<1>2. a.users = found
  BY DEF NoAnswer
<1>3. \A t \in known[s].accounts : t.is \in DOMAIN users /\ users[t.is] = t.of
  BY DEF IInv, SlotOk, ToldAccountsKept
<1>4. \A t \in known[s].accounts :
        t.of.login = req[s].login => t.is \in found
  BY <1>3 DEF Search
<1>5. \A i \in found : i \in DOMAIN users /\ users[i].login = req[s].login
  BY DEF Search
<1>. HIDE DEF a, found
<1>. QED
  BY <1>1, <1>2, <1>4, <1>5, ReplyIInv

\* A slot is emptied: nothing is known of its request any more.
LEMMA ForgottenSlotOk ==
  ASSUME NEW S, NEW s \in S, s \in Slot, Forget(S)
  PROVE  SlotOk(s)'
<1>1. pc'[s] = "idle" /\ known'[s] = Nothing
  BY DEF Forget
<1>. QED
  BY <1>1 DEF SlotOk, Placed, Signed, Made, RightlyRefused, RightlyFound,
              Answered, Nothing

\* What a sign-up's answer announces has been Made when it is read.
LEMMA DeliverIInv ==
  ASSUME IInv, NEW s \in Slot, Deliver(s)
  PROVE  IInv'
<1>1. /\ told'.accounts = told.accounts \cup Given(s).accounts
      /\ UNCHANGED <<users, users_id_seq>>
      /\ Forget({s})
  BY DEF Deliver
<1>2. Shape'
  BY <1>1 DEF Forget, IInv, Shape
<1>3. Grows
  BY <1>1 DEF Grows
<1>4. \A q \in Slot \ {s} :
        /\ pc'[q] = pc[q] /\ req'[q] = req[q] /\ user_id'[q] = user_id[q]
        /\ answer'[q] = answer[q] /\ known'[q] = known[q]
  BY <1>1 DEF Forget
<1>5. ToldAccountsKept'
  <2>. SUFFICES ASSUME NEW t \in Given(s).accounts
                PROVE  t.is \in DOMAIN users /\ users[t.is] = t.of
    BY <1>1 DEF IInv, ToldAccountsKept
  <2>1. Answered(s, "signup", 200)
    BY DEF Given, Nothing, Deliver, Answered
  <2>2. PICK i \in answer[s].users : t = [of |-> Account(req[s]), is |-> i]
    BY <2>1 DEF Given, Nothing, Answered
  <2>. QED
    BY <2>1, <2>2 DEF IInv, SlotOk, Made
<1>6. UniqueLogins'
  BY <1>1 DEF IInv, UniqueLogins
<1>7. ASSUME NEW q \in Slot PROVE SlotOk(q)'
  BY <1>1, <1>3, <1>4, OtherSlotOk, ForgottenSlotOk DEF IInv
<1>. QED
  BY <1>2, <1>5, <1>6, <1>7 DEF IInv

\* The process starts again.
LEMMA RestartIInv ==
  ASSUME IInv, Restart
  PROVE  IInv'
<1>1. Forget(Slot) /\ UNCHANGED <<users, users_id_seq, told>>
  BY DEF Restart
<1>2. Shape'
  BY <1>1 DEF Forget, IInv, Shape
<1>3. UniqueLogins' /\ ToldAccountsKept'
  BY <1>1 DEF IInv, UniqueLogins, ToldAccountsKept
<1>4. ASSUME NEW q \in Slot PROVE SlotOk(q)'
  BY <1>1, ForgottenSlotOk
<1>. QED
  BY <1>2, <1>3, <1>4 DEF IInv

----------------------------------------------------------------------------
\* IInv is inductive.
LEMMA NextIInv == IInv /\ [Next]_vars => IInv'
<1>. SUFFICES ASSUME IInv, [Next]_vars PROVE IInv'
  OBVIOUS
<1>1. ASSUME NEW s \in Slot, DbFails(s) PROVE IInv'
  BY <1>1, RefuseIInv DEF DbFails
<1>2. CASE UNCHANGED vars
  <2>1. Shape' /\ UniqueLogins' /\ ToldAccountsKept'
    BY <1>2 DEF vars, client, IInv, Shape, UniqueLogins, ToldAccountsKept
  <2>2. Grows
    BY <1>2 DEF vars, Grows
  <2>3. ASSUME NEW q \in Slot PROVE SlotOk(q)'
    BY <1>2, <2>2, OtherSlotOk DEF vars, IInv
  <2>. QED
    BY <2>1, <2>3 DEF IInv
<1>. QED
  BY <1>1, <1>2, ReceiveIInv, EnterIInv, CreateUserIInv, LoginSelectIInv,
     AuthorizeIInv, SearchEnterIInv, SearchSelectIInv, DeliverIInv,
     RestartIInv DEF Next

\* However many sign-ups run at once and are retried, a login has one account.
THEOREM LoginsUnique == Spec => []UniqueLogins
<1>1. IInv => UniqueLogins
  BY DEF IInv
<1>. QED
  BY <1>1, InitIInv, NextIInv, PTL DEF Spec

\* An account a client was told of keeps its id, login and password.
THEOREM ToldAccountsStay == Spec => []ToldAccountsKept
<1>1. IInv => ToldAccountsKept
  BY DEF IInv
<1>. QED
  BY <1>1, InitIInv, NextIInv, PTL DEF Spec

\* Who was told of his account is never refused with its login and password.
THEOREM ToldAccountsWork == Spec => []ToldAccountsLogIn
<1>1. IInv => ToldAccountsLogIn
  BY DEF IInv, SlotOk, RightlyRefused, ToldAccountsLogIn
<1>. QED
  BY <1>1, InitIInv, NextIInv, PTL DEF Spec

\* A search finds the accounts its client was told of, and nobody else.
THEOREM SearchFindsTold == Spec => []ToldAccountsFound
<1>1. IInv => ToldAccountsFound
  BY DEF IInv, SlotOk, RightlyFound, ToldAccountsFound
<1>. QED
  BY <1>1, InitIInv, NextIInv, PTL DEF Spec

\* Only tokens of the service pass the check, each with its own subject.
THEOREM SignedTokensPass == Spec => []OnlySignedTokensPass
<1>1. IInv => OnlySignedTokensPass
  BY DEF IInv, SlotOk, Signed, OnlySignedTokensPass
<1>. QED
  BY <1>1, InitIInv, NextIInv, PTL DEF Spec
----------------------------------------------------------------------------
(* Types, and what tokens name.  These are inductive next to IInv.         *)

Label == {"idle", "received", "CreateUser", "GetByLogin", "authorized",
          "Search", "answered"}

Code == {0, 200, 400, 401, 403, 409, 429, 500}

\* x is the token of a user who has that login and password.
Names(x, account) ==
  \E i \in DOMAIN users : x = Token(i) /\ users[i] = account

TableTyped ==
  /\ users_id_seq <= MaxUsers
  /\ \A i \in DOMAIN users : users[i] \in Row

SlotsTyped ==
  /\ pc \in [Slot -> Label]
  /\ req \in [Slot -> Requests \cup {NoRequest}]
  /\ user_id \in [Slot -> Nat]

\* A log-in's answer on its way has a token of the one who logs in.
SlotTyped(s) ==
  /\ answer[s].code \in Code /\ answer[s].users \subseteq 1 .. MaxUsers
  /\ IsTold(known[s])
  /\ Answered(s, "login", 200) =>
       \A x \in answer[s].tokens : Names(x, Account(req[s]))

TInv ==
  /\ TableTyped /\ SlotsTyped
  /\ \A s \in Slot : SlotTyped(s)
  /\ IsTold(told)
  /\ \A t \in told.tokens : Names(t.is, t.of)

LEMMA InitTInv == Init => TInv
<1>. SUFFICES ASSUME Init PROVE TInv
  OBVIOUS
<1>1. TableTyped /\ SlotsTyped
  BY BoundAssumption, Int64MaxAssumption
  DEF Init, TableTyped, SlotsTyped, Label
<1>2. IsTold(told) /\ told.tokens = {} /\ \A s \in Slot : IsTold(known[s])
  BY DEF Init, IsTold, Nothing
<1>3. ASSUME NEW s \in Slot PROVE SlotTyped(s)
  BY <1>2 DEF Init, SlotTyped, Answered, NoAnswer, Code
<1>. QED
  BY <1>1, <1>2, <1>3 DEF TInv

\* A token names the same user as long as rows stay.
LEMMA NamesStays ==
  ASSUME Grows, NEW x, NEW account, Names(x, account)
  PROVE  Names(x, account)'
BY DEF Grows, Names

LEMMA OtherSlotTyped ==
  ASSUME NEW s, SlotTyped(s), Grows,
         pc'[s] = pc[s], req'[s] = req[s],
         answer'[s] = answer[s], known'[s] = known[s]
  PROVE  SlotTyped(s)'
BY NamesStays DEF SlotTyped, Answered

\* A step of slot s that tells no client anything.
LEMMA StepTInv ==
  ASSUME TInv, NEW s \in Slot, Grows, told' = told,
         TableTyped', SlotsTyped', SlotTyped(s)',
         \A q \in Slot \ {s} :
           /\ pc'[q] = pc[q] /\ req'[q] = req[q]
           /\ answer'[q] = answer[q] /\ known'[q] = known[q]
  PROVE  TInv'
<1>1. \A q \in Slot : SlotTyped(q)'
  BY OtherSlotTyped DEF TInv
<1>2. IsTold(told')
  BY DEF TInv
<1>3. \A t \in told'.tokens : Names(t.is, t.of)'
  BY NamesStays DEF TInv
<1>. QED
  BY <1>1, <1>2, <1>3 DEF TInv, IsTold

\* A slot goes on to another label.
LEMMA GotoTInv ==
  ASSUME TInv, NEW s \in Slot, NEW label \in Label \ {"answered"},
         Goto(s, label), UNCHANGED <<users, users_id_seq, client>>,
         \/ UNCHANGED user_id
         \/ \E id \in Nat : user_id' = [user_id EXCEPT ![s] = id]
  PROVE  TInv'
<1>1. SlotsTyped'
  BY DEF Goto, client, TInv, SlotsTyped
<1>2. /\ pc'[s] = label
      /\ \A q \in Slot \ {s} : pc'[q] = pc[q]
      /\ UNCHANGED <<users, users_id_seq, req, answer, known, told>>
  BY DEF Goto, client, TInv, SlotsTyped
<1>3. SlotTyped(s)'
  BY <1>2 DEF TInv, SlotTyped, Answered, IsTold
<1>4. TableTyped' /\ Grows
  BY <1>2 DEF TInv, TableTyped, Grows
<1>. QED
  BY <1>1, <1>2, <1>3, <1>4, StepTInv

\* A slot answers; a token that it sends names the one who logs in.
LEMMA ReplyTInv ==
  ASSUME IInv, TInv, NEW s \in Slot, NEW a, Reply(s, a),
         UNCHANGED <<user_id, client>>, Grows, TableTyped',
         a.code \in Code, a.users \subseteq 1 .. MaxUsers,
         req[s].op = "login" /\ a.code = 200 =>
           \A x \in a.tokens : Names(x, Account(req[s]))
  PROVE  TInv'
<1>1. SlotsTyped'
  BY DEF Reply, client, TInv, SlotsTyped, Label
<1>2. /\ pc'[s] = "answered" /\ answer'[s] = a
      /\ \A q \in Slot \ {s} : pc'[q] = pc[q] /\ answer'[q] = answer[q]
      /\ UNCHANGED <<req, known, told>>
  BY DEF Reply, client, TInv, SlotsTyped, IInv, Shape
<1>3. IsTold(known'[s])
  BY <1>2 DEF TInv, SlotTyped
<1>4. req[s].op = "login" /\ a.code = 200 =>
        \A x \in a.tokens : Names(x, Account(req[s]))'
  BY <1>2, NamesStays
<1>5. SlotTyped(s)'
  BY <1>2, <1>3, <1>4 DEF SlotTyped, Answered, Account, IsTold
<1>. QED
  BY <1>1, <1>2, <1>5, StepTInv

\* Refusals and faults.
LEMMA RefuseTInv ==
  ASSUME IInv, TInv, NEW s \in Slot,
         UNCHANGED <<user_id, client>>, Grows, TableTyped',
         (\E code \in Code \ {200} : Refuse(s, code)) \/ Fault(s)
  PROVE  TInv'
<1>1. PICK a : /\ Reply(s, a)
               /\ a.code \in Code /\ a.code # 200 /\ a.users = {}
  <2>1. ASSUME NEW code \in Code \ {200}, Refuse(s, code)
        PROVE  \E a : /\ Reply(s, a)
                      /\ a.code \in Code /\ a.code # 200 /\ a.users = {}
    <3>. DEFINE r == [NoAnswer EXCEPT !.code = code]
    <3>1. r.code = code /\ r.users = {}
      BY DEF NoAnswer
    <3>2. Reply(s, r)
      BY <2>1 DEF Refuse
    <3>. HIDE DEF r
    <3>. QED
      BY <3>1, <3>2
  <2>2. ASSUME Fault(s)
        PROVE  \E a : /\ Reply(s, a)
                      /\ a.code \in Code /\ a.code # 200 /\ a.users = {}
    <3>. DEFINE f == [NoAnswer EXCEPT
                        !.code = IF req[s].op = "search" THEN 500 ELSE 400,
                        !.fault = TRUE]
    <3>1. f.code \in {400, 500} /\ f.users = {}
      BY DEF NoAnswer
    <3>2. Reply(s, f)
      BY <2>2 DEF Fault
    <3>3. f.code \in Code /\ f.code # 200
      <4>. HIDE DEF f
      <4>. QED
        BY <3>1 DEF Code
    <3>. HIDE DEF f
    <3>. QED
      BY <3>1, <3>2, <3>3
  <2>. QED
    BY <2>1, <2>2
<1>2. a.users \subseteq 1 .. MaxUsers
  BY <1>1
<1>. QED
  BY <1>1, <1>2, ReplyTInv

\* A step that leaves the table alone leaves it as it is.
LEMMA SameTable ==
  ASSUME TInv, UNCHANGED <<users, users_id_seq, told>>
  PROVE  Grows /\ TableTyped'
BY DEF TInv, TableTyped, Grows

LEMMA ReceiveTInv ==
  ASSUME TInv, NEW s \in Slot, Receive(s), Shape
  PROVE  TInv'
<1>1. PICK r \in Requests : req' = [req EXCEPT ![s] = r]
  BY DEF Receive
<1>2. /\ pc'[s] = "received" /\ known'[s] = told
      /\ UNCHANGED <<users, users_id_seq, told, answer>>
      /\ \A q \in Slot \ {s} :
           pc'[q] = pc[q] /\ req'[q] = req[q] /\ known'[q] = known[q]
  BY <1>1 DEF Receive, Shape
<1>3. SlotsTyped'
  BY <1>1 DEF Receive, TInv, SlotsTyped, Label
<1>4. IsTold(known'[s])
  BY <1>2 DEF TInv
<1>5. SlotTyped(s)'
  BY <1>2, <1>4 DEF TInv, SlotTyped, Answered, IsTold
<1>. QED
  BY <1>2, <1>3, <1>5, SameTable, StepTInv

\* The handlers' entries, with no database call.
LEMMA EnterTInv ==
  ASSUME IInv, TInv, NEW s \in Slot,
         SignupEnter(s) \/ LoginEnter(s) \/ SearchEnter(s)
  PROVE  TInv'
<1>1. /\ UNCHANGED <<users, users_id_seq, user_id, client>>
      /\ \/ \E code \in {400, 429} : Refuse(s, code)
         \/ \E label \in {"CreateUser", "GetByLogin", "Search"} : Goto(s, label)
  BY DEF SignupEnter, LoginEnter, SearchEnter
<1>2. Grows /\ TableTyped'
  BY <1>1, SameTable DEF client
<1>3. ASSUME NEW code \in {400, 429}, Refuse(s, code) PROVE TInv'
  <2>1. code \in Code \ {200}
    BY DEF Code
  <2>. QED
    BY <1>1, <1>2, <1>3, <2>1, RefuseTInv
<1>4. ASSUME NEW label \in {"CreateUser", "GetByLogin", "Search"},
             Goto(s, label)
      PROVE  TInv'
  <2>1. label \in Label \ {"answered"}
    BY DEF Label
  <2>. QED
    BY <1>1, <1>4, <2>1, GotoTInv
<1>. QED
  BY <1>1, <1>3, <1>4

\* What the check refuses, and what it reads from a token it lets through.
LEMMA CheckAuthTypes ==
  ASSUME NEW h \in Header
  PROVE  /\ CheckAuth(h) \in Code
         /\ CheckAuth(h) = 200 => Stoll(h.sub).value \in Nat
<1>1. CheckAuth(h) \in {200, 401, 403}
  BY DEF CheckAuth
<1>2. ASSUME CheckAuth(h) = 200 PROVE Stoll(h.sub).value \in Nat
  <2>1. h.kind = "bearer" /\ h.sub # NoSubject
    BY <1>2, CheckAuthPasses
  <2>2. NoHeader.kind # "bearer" /\ OtherAuth.kind # "bearer"
    BY DEF NoHeader, OtherAuth
  <2>3. h.sub \in Seq(Char)
    BY <2>1, <2>2, HeaderAssumption DEF IsHeader
  <2>. QED
    BY <2>3, StollType
<1>3. CheckAuth(h) \in Code
  BY <1>1 DEF Code
<1>. QED
  BY <1>2, <1>3

LEMMA AuthorizeTInv ==
  ASSUME IInv, TInv, NEW s \in Slot, Authorize(s)
  PROVE  TInv'
<1>. DEFINE h == req[s].header
            c == CheckAuth(h)
            v == Stoll(h.sub).value
<1>1. /\ UNCHANGED <<users, users_id_seq, client>>
      /\ \/ c # 200 /\ Refuse(s, c) /\ UNCHANGED user_id
         \/ /\ c = 200 /\ Goto(s, "authorized")
            /\ user_id' = [user_id EXCEPT ![s] = v]
  BY DEF Authorize
<1>2. h \in Header
  BY RequestsAssumption DEF Authorize, At, IInv, SlotOk, Placed, Request
<1>3. c \in Code /\ (c = 200 => v \in Nat)
  BY <1>2, CheckAuthTypes
<1>4. Grows /\ TableTyped'
  BY <1>1, SameTable DEF client
<1>5. "authorized" \in Label \ {"answered"}
  BY DEF Label
<1>. HIDE DEF c, v
<1>6. CASE c # 200
  BY <1>1, <1>3, <1>4, <1>6, RefuseTInv
<1>7. CASE c = 200
  BY <1>1, <1>3, <1>5, <1>7, GotoTInv
<1>. QED
  BY <1>6, <1>7

\* The new row and its id are in their types.
LEMMA CreateUserTInv ==
  ASSUME IInv, TInv, NEW s \in Slot, CreateUser(s)
  PROVE  TInv'
<1>. DEFINE id  == users_id_seq + 1
            row == Account(req[s])
            c   == [NoAnswer EXCEPT !.code = 200, !.users = {id}]
<1>1. /\ pc[s] = "CreateUser" /\ req[s].op = "signup" /\ req[s] \in Requests
      /\ users_id_seq' = id /\ id <= MaxUsers
      /\ UNCHANGED <<user_id, client>>
      /\ users' = Inserted(id, row) \/ users' = users
      /\ Reply(s, c) \/ Fault(s) \/ Refuse(s, 409)
  BY DEF CreateUser, IInv, SlotOk, Placed
<1>2. id \in 1 .. MaxUsers /\ id \notin DOMAIN users
  BY <1>1, BoundAssumption, Int64MaxAssumption DEF IInv, Shape
<1>3. row \in Row
  BY <1>1, RequestsAssumption DEF Request, Account, Row
<1>4. c.code = 200 /\ c.users = {id}
  BY DEF NoAnswer
<1>. HIDE DEF c, id, row
<1>5. Grows
  BY <1>1, <1>2 DEF Grows, Inserted, client
<1>6. TableTyped'
  BY <1>1, <1>2, <1>3 DEF TInv, TableTyped, Inserted
<1>7. CASE Reply(s, c)
  <2>1. c.code \in Code /\ c.users \subseteq 1 .. MaxUsers
    BY <1>2, <1>4 DEF Code
  <2>. QED
    BY <1>1, <1>5, <1>6, <1>7, <2>1, ReplyTInv
<1>8. CASE Fault(s) \/ Refuse(s, 409)
  <2>1. 409 \in Code \ {200}
    BY DEF Code
  <2>. QED
    BY <1>1, <1>5, <1>6, <1>8, <2>1, RefuseTInv
<1>. QED
  BY <1>1, <1>7, <1>8

\* The token of a log-in names the row whose login and password were right.
LEMMA LoginSelectTInv ==
  ASSUME IInv, TInv, NEW s \in Slot, LoginSelect(s)
  PROVE  TInv'
<1>1. UNCHANGED <<users, users_id_seq, user_id, client>>
  BY DEF LoginSelect
<1>2. Grows /\ TableTyped'
  BY <1>1, SameTable DEF client
<1>3. CASE Refuse(s, 401)
  <2>1. 401 \in Code \ {200}
    BY DEF Code
  <2>. QED
    BY <1>1, <1>2, <1>3, <2>1, RefuseTInv
<1>4. ASSUME NEW i \in DOMAIN users, users[i].login = req[s].login,
             users[i].password = req[s].password,
             Reply(s, [NoAnswer EXCEPT !.code = 200, !.tokens = {Token(i)}])
      PROVE  TInv'
  <2>. DEFINE c == [NoAnswer EXCEPT !.code = 200, !.tokens = {Token(i)}]
  <2>1. users[i] = Account(req[s])
    BY <1>4 DEF TInv, TableTyped, Row, Account
  <2>2. Names(Token(i), Account(req[s]))
    BY <2>1 DEF Names
  <2>3. c.code = 200 /\ c.users = {} /\ c.tokens = {Token(i)}
    BY DEF NoAnswer
  <2>4. Reply(s, c)
    BY <1>4
  <2>. HIDE DEF c
  <2>5. c.code \in Code /\ c.users \subseteq 1 .. MaxUsers
    BY <2>3 DEF Code
  <2>6. \A x \in c.tokens : Names(x, Account(req[s]))
    BY <2>2, <2>3
  <2>. QED
    BY <1>1, <1>2, <2>4, <2>5, <2>6, ReplyTInv
<1>. QED
  BY <1>3, <1>4 DEF LoginSelect, GetByLoginWithPassword

LEMMA SearchSelectTInv ==
  ASSUME IInv, TInv, NEW s \in Slot, SearchSelect(s)
  PROVE  TInv'
<1>. DEFINE found == Search(req[s].login)
            a == [NoAnswer EXCEPT !.code = 200, !.users = found]
<1>1. /\ Reply(s, a) /\ req[s].op = "search"
      /\ UNCHANGED <<users, users_id_seq, user_id, client>>
  BY DEF SearchSelect, IInv, SlotOk, Placed
<1>2. a.code = 200 /\ a.users = found
  BY DEF NoAnswer
<1>3. found \subseteq 1 .. MaxUsers
  BY BoundAssumption, Int64MaxAssumption
  DEF Search, IInv, Shape, TInv, TableTyped
<1>. HIDE DEF a, found
<1>4. a.code \in Code /\ a.users \subseteq 1 .. MaxUsers
  BY <1>2, <1>3 DEF Code
<1>5. Grows /\ TableTyped'
  BY <1>1, SameTable DEF client
<1>. QED
  BY <1>1, <1>4, <1>5, ReplyTInv

\* Slots are emptied, by a client who has read an answer or by a restart.
LEMMA ForgetTInv ==
  ASSUME TInv, NEW S, Forget(S), UNCHANGED <<users, users_id_seq>>, Grows
  PROVE  TableTyped' /\ SlotsTyped' /\ \A s \in Slot : SlotTyped(s)'
<1>1. TableTyped'
  BY DEF TInv, TableTyped
<1>2. SlotsTyped'
  <2>1. "idle" \in Label
    BY DEF Label
  <2>. QED
    BY <2>1 DEF Forget, TInv, SlotsTyped
<1>3. ASSUME NEW s \in Slot PROVE SlotTyped(s)'
  <2>1. CASE s \in S
    <3>1. pc'[s] = "idle" /\ answer'[s] = NoAnswer /\ known'[s] = Nothing
      BY <2>1 DEF Forget
    <3>2. IsTold(Nothing)
      BY DEF IsTold, Nothing
    <3>3. NoAnswer.code \in Code /\ NoAnswer.users \subseteq 1 .. MaxUsers
      BY DEF NoAnswer, Code
    <3>. QED
      BY <3>1, <3>2, <3>3 DEF SlotTyped, Answered, IsTold
  <2>2. CASE s \notin S
    <3>1. /\ pc'[s] = pc[s] /\ req'[s] = req[s]
          /\ answer'[s] = answer[s] /\ known'[s] = known[s]
      BY <2>2 DEF Forget
    <3>. QED
      BY <3>1, OtherSlotTyped DEF TInv
  <2>. QED
    BY <2>1, <2>2
<1>. QED
  BY <1>1, <1>2, <1>3

\* The token of a user is a header of the service's.
LEMMA TokenIsHeader ==
  ASSUME NEW i \in 1 .. MaxUsers
  PROVE  IsHeader(Token(i))
<1>1. Decimal(i) \in Seq(Char)
  BY DecimalStoll, BoundAssumption, Int64MaxAssumption
<1>. QED
  BY <1>1 DEF IsHeader, Form, Token, Bearer

\* What an answer gives its client is an account or a token of the right kind.
LEMMA DeliverTInv ==
  ASSUME IInv, TInv, NEW s \in Slot, Deliver(s)
  PROVE  TInv'
<1>1. /\ told'.accounts = told.accounts \cup Given(s).accounts
      /\ told'.tokens = told.tokens \cup Given(s).tokens
      /\ UNCHANGED <<users, users_id_seq>>
      /\ Forget({s})
  BY DEF Deliver
<1>2. Grows
  BY <1>1 DEF Grows
<1>3. TableTyped' /\ SlotsTyped' /\ \A q \in Slot : SlotTyped(q)'
  BY <1>1, <1>2, ForgetTInv
<1>4. DOMAIN users \subseteq 1 .. MaxUsers
  BY BoundAssumption, Int64MaxAssumption DEF IInv, Shape, TInv, TableTyped
<1>5. ASSUME NEW t \in Given(s).accounts PROVE t \in Accounts
  <2>1. Answered(s, "signup", 200)
    BY DEF Given, Nothing, Deliver, Answered
  <2>2. PICK i \in answer[s].users : t = [of |-> Account(req[s]), is |-> i]
    BY <2>1 DEF Given, Nothing, Answered
  <2>3. i \in DOMAIN users /\ users[i] = Account(req[s])
    BY <2>1, <2>2 DEF IInv, SlotOk, Made
  <2>4. i \in 1 .. MaxUsers /\ Account(req[s]) \in Row
    BY <1>4, <2>3 DEF TInv, TableTyped
  <2>. QED
    BY <2>2, <2>4 DEF Accounts
<1>6. ASSUME NEW t \in Given(s).tokens PROVE Names(t.is, t.of)
  <2>1. Answered(s, "login", 200)
    BY DEF Given, Nothing, Deliver, Answered
  <2>2. PICK x \in answer[s].tokens : t = [of |-> Account(req[s]), is |-> x]
    BY <2>1 DEF Given, Nothing, Answered
  <2>3. Names(x, Account(req[s]))
    BY <2>1, <2>2 DEF TInv, SlotTyped
  <2>. QED
    BY <2>2, <2>3
<1>7. ASSUME NEW t, Names(t.is, t.of) PROVE t.of \in Row /\ IsHeader(t.is)
  BY <1>4, <1>7, TokenIsHeader DEF Names, TInv, TableTyped
<1>8. IsTold(told')
  BY <1>1, <1>5, <1>6, <1>7 DEF TInv, IsTold
<1>9. \A t \in told'.tokens : Names(t.is, t.of)'
  BY <1>1, <1>2, <1>6, NamesStays DEF TInv
<1>. QED
  BY <1>3, <1>8, <1>9 DEF TInv, IsTold

LEMMA RestartTInv ==
  ASSUME TInv, Restart
  PROVE  TInv'
<1>1. Forget(Slot) /\ UNCHANGED <<users, users_id_seq, told>>
  BY DEF Restart
<1>2. Grows
  BY <1>1 DEF Grows
<1>3. TableTyped' /\ SlotsTyped' /\ \A q \in Slot : SlotTyped(q)'
  BY <1>1, <1>2, ForgetTInv
<1>4. \A t \in told'.tokens : Names(t.is, t.of)'
  BY <1>1, <1>2, NamesStays DEF TInv
<1>. QED
  BY <1>1, <1>3, <1>4 DEF TInv, IsTold

\* TInv is inductive next to IInv.
LEMMA NextTInv == IInv /\ TInv /\ [Next]_vars => TInv'
<1>. SUFFICES ASSUME IInv, TInv, [Next]_vars PROVE TInv'
  OBVIOUS
<1>1. ASSUME NEW s \in Slot, DbFails(s) PROVE TInv'
  <2>1. UNCHANGED <<user_id, client>> /\ Fault(s) /\ Grows /\ TableTyped'
    BY <1>1, SameTable DEF DbFails, client
  <2>. QED
    BY <2>1, RefuseTInv
<1>2. CASE UNCHANGED vars
  <2>1. Grows /\ TableTyped' /\ SlotsTyped'
    BY <1>2, SameTable DEF vars, client, TInv, SlotsTyped
  <2>2. ASSUME NEW q \in Slot PROVE SlotTyped(q)'
    BY <1>2, <2>1, OtherSlotTyped DEF vars, client, TInv
  <2>3. \A t \in told'.tokens : Names(t.is, t.of)'
    BY <1>2, <2>1, NamesStays DEF vars, client, TInv
  <2>. QED
    BY <1>2, <2>1, <2>2, <2>3 DEF vars, client, TInv, IsTold
<1>3. Shape
  BY DEF IInv
<1>. QED
  BY <1>1, <1>2, <1>3, ReceiveTInv, EnterTInv, CreateUserTInv, LoginSelectTInv,
     AuthorizeTInv, SearchSelectTInv, DeliverTInv, RestartTInv DEF Next

\* Both invariants hold.
LEMMA InvariantsHold == Spec => [](IInv /\ TInv)
<1>. QED
  BY InitIInv, NextIInv, InitTInv, NextTInv, PTL DEF Spec

\* Every variable stays in its type.
THEOREM TypeCorrect == Spec => []TypeOK
<1>1. ASSUME IInv, TInv PROVE TypeOK
  <2>1. users_id_seq \in 0 .. MaxUsers
    BY <1>1, BoundAssumption, Int64MaxAssumption
    DEF IInv, Shape, TInv, TableTyped
  <2>. QED
    BY <1>1, <2>1
    DEF TypeOK, IInv, Shape, TInv, TableTyped, SlotsTyped, SlotTyped, Label,
        Code
<1>. QED
  BY <1>1, InvariantsHold, PTL

\* A token that a client was given passes CheckAuth and is read back there as
\* the id of the user whose login and password it was given for.
THEOREM TokensNameUsers == Spec => []TokensNameTheirUser
<1>1. ASSUME IInv, TInv, NEW t \in told.tokens
      PROVE  /\ CheckAuth(t.is) = 200
             /\ Stoll(t.is.sub).value \in DOMAIN users
             /\ users[Stoll(t.is.sub).value] = t.of
  <2>1. PICK i \in DOMAIN users : t.is = Token(i) /\ users[i] = t.of
    BY <1>1 DEF TInv, Names
  <2>2. i \in Nat /\ i <= Int64Max
    BY <1>1, BoundAssumption, Int64MaxAssumption
    DEF IInv, Shape, TInv, TableTyped
  <2>3. /\ Decimal(i) \in Seq(Char)
        /\ Stoll(Decimal(i)).ok /\ Stoll(Decimal(i)).value = i
    BY <2>2, DecimalStoll
  <2>4. Decimal(i) # NoSubject
    <3>1. PICK d \in Seq(Char) : d = Decimal(i)
      BY <2>3
    <3>2. Len(d) = 1 => d[1] \in Char
      OBVIOUS
    <3>3. Len(NoSubject) = 1 /\ NoSubject[1] \notin Char
      BY DEF NoSubject, Char
    <3>. QED
      BY <3>1, <3>2, <3>3
  <2>5. /\ Token(i).kind = "bearer" /\ Token(i).form = "ours"
        /\ Token(i).iss = "sample" /\ Token(i).sub = Decimal(i)
    BY DEF Token, Bearer
  <2>6. CheckAuth(Token(i)) = 200
    BY <2>3, <2>4, <2>5 DEF CheckAuth
  <2>. QED
    BY <2>1, <2>3, <2>5, <2>6
<1>2. IInv /\ TInv => TokensNameTheirUser
  BY <1>1 DEF TokensNameTheirUser
<1>. QED
  BY <1>2, InvariantsHold, PTL
----------------------------------------------------------------------------
(***************************************************************************)
(* The handlers implement AccountBook, for all logins, passwords, slots,   *)
(* headers and requests.  An insert maps to SignUp, whether its reply      *)
(* arrives or not, and reading an answer to Tell or LogIn; every other     *)
(* step stutters.  That reading is one step of AccountBook, and a token    *)
(* one of its entries, rests on both invariants.                           *)
(***************************************************************************)

\* What clients were told, as AccountBook sees it.
entries == [accounts |-> told.accounts,
            tokens   |-> {NamedBy(t) : t \in told.tokens}]

\* The subject of a user's token is read back as his id.
LEMMA NamedById ==
  ASSUME IInv, TInv, NEW x, NEW account, Names(x, account)
  PROVE  \E i \in DOMAIN users :
           users[i] = account /\ Stoll(x.sub).value = i
<1>1. PICK i \in DOMAIN users : x = Token(i) /\ users[i] = account
  BY DEF Names
<1>2. i \in Nat /\ i <= Int64Max
  BY BoundAssumption, Int64MaxAssumption DEF IInv, Shape, TInv, TableTyped
<1>3. Stoll(Decimal(i)).value = i
  BY <1>2, DecimalStoll
<1>4. Token(i).sub = Decimal(i)
  BY DEF Token, Bearer
<1>. QED
  BY <1>1, <1>3, <1>4

\* A row that is inserted is a new account; an insert that the constraint on
\* login refuses is no step of AccountBook.
LEMMA CreateUserSignsUp ==
  ASSUME IInv, TInv, NEW s \in Slot, CreateUser(s)
  PROVE  Book!SignUp \/ UNCHANGED Book!vars
<1>. DEFINE id == users_id_seq + 1
            l  == req[s].login
            p  == req[s].password
<1>1. id \in (1 .. MaxUsers) \ DOMAIN users
  BY BoundAssumption, Int64MaxAssumption DEF CreateUser, IInv, Shape
<1>2. l \in Login /\ p \in Password
  BY RequestsAssumption DEF CreateUser, IInv, SlotOk, Placed, Request
<1>3. UNCHANGED entries
  BY DEF CreateUser, client, entries
<1>4. \/ /\ \A i \in DOMAIN users : users[i].login # l
         /\ users' = Inserted(id, [login |-> l, password |-> p])
      \/ users' = users
  BY DEF CreateUser, Account
<1>. HIDE DEF id, l, p
<1>5. CASE /\ \A i \in DOMAIN users : users[i].login # l
           /\ users' = Inserted(id, [login |-> l, password |-> p])
  BY <1>1, <1>2, <1>3, <1>5
  DEF Book!SignUp, Book!Taken, Inserted, entries
<1>6. CASE users' = users
  BY <1>3, <1>6 DEF Book!vars, entries
<1>. QED
  BY <1>4, <1>5, <1>6

\* What an answer gives its client: nothing, an entry of his account, or one
\* token that is read back as his id.
LEMMA GivenIsOneEntry ==
  ASSUME IInv, TInv, NEW s \in Slot, Deliver(s)
  PROVE  \/ Given(s).accounts = {} /\ Given(s).tokens = {}
         \/ \E i \in DOMAIN users :
              \/ /\ Given(s).accounts = {Book!Entry(i)}
                 /\ Given(s).tokens = {}
              \/ /\ Given(s).accounts = {}
                 /\ {NamedBy(t) : t \in Given(s).tokens} = {Book!Entry(i)}
<1>. DEFINE account == Account(req[s])
<1>1. CASE Answered(s, "signup", 200)
  <2>1. /\ Given(s).tokens = {}
        /\ Given(s).accounts =
             {[of |-> account, is |-> x] : x \in answer[s].users}
    BY <1>1 DEF Given, Nothing, Answered
  <2>2. \A i \in answer[s].users : i \in DOMAIN users /\ users[i] = account
    BY <1>1 DEF IInv, SlotOk, Made
  <2>. HIDE DEF account
  <2>3. \A i, j \in answer[s].users : i = j
    BY <2>2 DEF IInv, UniqueLogins
  <2>4. CASE answer[s].users = {}
    BY <2>1, <2>4
  <2>5. ASSUME NEW i \in answer[s].users
        PROVE  Given(s).accounts = {Book!Entry(i)}
    <3>1. answer[s].users = {i}
      BY <2>3, <2>5
    <3>. QED
      BY <2>1, <2>2, <3>1 DEF Book!Entry
  <2>. QED
    BY <2>1, <2>2, <2>4, <2>5
<1>2. CASE Answered(s, "login", 200)
  <2>1. /\ Given(s).accounts = {}
        /\ Given(s).tokens =
             {[of |-> account, is |-> x] : x \in answer[s].tokens}
    BY <1>2 DEF Given, Nothing, Answered
  <2>2. \A x \in answer[s].tokens : Names(x, account)
    BY <1>2 DEF TInv, SlotTyped
  <2>. HIDE DEF account
  <2>3. \A x \in answer[s].tokens : \E i \in DOMAIN users :
          users[i] = account /\ Stoll(x.sub).value = i
    BY <2>2, NamedById
  <2>4. CASE answer[s].tokens = {}
    BY <2>1, <2>4
  <2>5. ASSUME NEW x \in answer[s].tokens
        PROVE  \E i \in DOMAIN users :
                 {NamedBy(t) : t \in Given(s).tokens} = {Book!Entry(i)}
    <3>1. PICK i \in DOMAIN users :
            users[i] = account /\ Stoll(x.sub).value = i
      BY <2>3
    <3>2. \A y \in answer[s].tokens : Stoll(y.sub).value = i
      BY <2>3, <3>1 DEF IInv, UniqueLogins
    <3>3. \A t \in Given(s).tokens : NamedBy(t) = Book!Entry(i)
      BY <2>1, <3>1, <3>2 DEF NamedBy, Book!Entry
    <3>4. Given(s).tokens # {}
      BY <2>1
    <3>. QED
      BY <3>3, <3>4
  <2>. QED
    BY <2>1, <2>4, <2>5
<1>3. CASE ~ Answered(s, "signup", 200) /\ ~ Answered(s, "login", 200)
  BY <1>3 DEF Given, Nothing, Answered, Deliver
<1>. QED
  BY <1>1, <1>2, <1>3

\* An answer that is read tells its client of his account, lets him in, or
\* tells him nothing.
LEMMA DeliverTells ==
  ASSUME IInv, TInv, NEW s \in Slot, Deliver(s)
  PROVE  Book!Tell \/ Book!LogIn \/ UNCHANGED Book!vars
<1>. DEFINE A == Given(s).accounts
            T == {NamedBy(t) : t \in Given(s).tokens}
<1>1. UNCHANGED users
  BY DEF Deliver
<1>2. /\ told'.accounts = told.accounts \cup A
      /\ told'.tokens = told.tokens \cup Given(s).tokens
  BY DEF Deliver
<1>3. entries' = [accounts |-> entries.accounts \cup A,
                  tokens   |-> entries.tokens \cup T]
  <2>1. {NamedBy(t) : t \in told'.tokens} =
          {NamedBy(t) : t \in told.tokens} \cup T
    BY <1>2
  <2>. QED
    BY <1>2, <2>1 DEF entries
<1>4. \/ A = {} /\ T = {}
      \/ \E i \in DOMAIN users : \/ A = {Book!Entry(i)} /\ T = {}
                                 \/ A = {} /\ T = {Book!Entry(i)}
  BY GivenIsOneEntry
<1>. HIDE DEF A, T
<1>5. PICK a, t : entries = [accounts |-> a, tokens |-> t]
  BY DEF entries
<1>6. entries' = [accounts |-> a \cup A, tokens |-> t \cup T]
  BY <1>3, <1>5
<1>7. CASE A = {} /\ T = {}
  BY <1>1, <1>3, <1>7 DEF Book!vars, entries
<1>8. ASSUME NEW i \in DOMAIN users, A = {Book!Entry(i)}, T = {}
      PROVE  Book!Tell
  <2>1. entries' = [entries EXCEPT !.accounts = @ \cup {Book!Entry(i)}]
    <3>1. t \cup T = t
      BY <1>8
    <3>. QED
      BY <1>8, <1>5, <1>6, <3>1
  <2>. QED
    BY <1>1, <2>1 DEF Book!Tell, entries
<1>9. ASSUME NEW i \in DOMAIN users, A = {}, T = {Book!Entry(i)}
      PROVE  Book!LogIn
  <2>1. entries' = [entries EXCEPT !.tokens = @ \cup {Book!Entry(i)}]
    <3>1. a \cup A = a
      BY <1>9
    <3>. QED
      BY <1>9, <1>5, <1>6, <3>1
  <2>. QED
    BY <1>1, <2>1 DEF Book!LogIn, entries
<1>. QED
  BY <1>4, <1>7, <1>8, <1>9

\* Every step maps to a step of AccountBook or to a stutter.
LEMMA NextImplementsBook ==
  IInv /\ TInv /\ [Next]_vars => [Book!Next]_(Book!vars)
<1>. SUFFICES ASSUME IInv, TInv, [Next]_vars
              PROVE  Book!Next \/ UNCHANGED Book!vars
  OBVIOUS
<1>1. ASSUME UNCHANGED <<users, told>> PROVE UNCHANGED Book!vars
  BY <1>1 DEF Book!vars
<1>2. ASSUME NEW s \in Slot,
             \/ Receive(s) \/ SignupEnter(s) \/ LoginEnter(s) \/ LoginSelect(s)
             \/ Authorize(s) \/ SearchEnter(s) \/ SearchSelect(s) \/ DbFails(s)
      PROVE  UNCHANGED <<users, told>>
  BY <1>2 DEF Receive, SignupEnter, LoginEnter, LoginSelect, Authorize,
       SearchEnter, SearchSelect, DbFails, client
<1>3. CASE Restart \/ UNCHANGED vars
  BY <1>1, <1>3 DEF Restart, vars, client
<1>. QED
  BY <1>1, <1>2, <1>3, CreateUserSignsUp, DeliverTells DEF Next, Book!Next

\* For any number of concurrent requests, faults, retries and restarts, the
\* table of users and the answers of the handlers behave as one AccountBook.
THEOREM HandlersKeepBook == Spec => KeepsBook
<1>1. Init => Book!Init
  <2>. SUFFICES ASSUME Init PROVE Book!Init
    OBVIOUS
  <2>1. told.accounts = {} /\ told.tokens = {}
    BY DEF Init, Nothing
  <2>2. {NamedBy(t) : t \in told.tokens} = {}
    BY <2>1
  <2>. QED
    BY <2>1, <2>2 DEF Init, Book!Init
<1>. QED
  BY <1>1, InitIInv, NextIInv, InitTInv, NextTInv, NextImplementsBook, PTL
  DEF Spec, KeepsBook, Book!Spec
=============================================================================
