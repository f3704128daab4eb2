---------------------------- MODULE UserAccounts ----------------------------
(***************************************************************************)
(* Sign-up, log-in, the JWT check and the user search: the three handlers  *)
(* under /api/users, UsersRepository and JwtChecker.  Requests run         *)
(* concurrently, one per Slot, cut where a handler waits for PostgreSQL; a *)
(* call may fail, or take effect and lose its reply.  Sign-up and log-in   *)
(* catch every exception and answer 400; search lets it become 500.        *)
(*                                                                         *)
(* A token is the record of what the verifier looks at: whether it is well *)
(* formed, signed with the service's secret and in its time, its issuer    *)
(* and its subject.  Names of users, their masks in a search, the order of *)
(* its result and the users that data.sql seeds are left out.              *)
(***************************************************************************)
EXTENDS Ids, FiniteSets

CONSTANTS
  Login, Password,   \* strings that clients register and log in with
  Slot,              \* requests served at a time
  Header,            \* Authorization headers that clients send to search
  Requests,          \* the requests that clients send
  MaxUsers           \* bound: values taken from the sequence of users.id

VARIABLES
  users,         \* PostgreSQL: id -> login and password
  users_id_seq,  \* last value of the sequence behind users.id
  pc,            \* pc[s]: where the request in slot s is
  req,           \* req[s]: the request in slot s
  user_id,       \* user_id[s]: what CheckAuth put into the request's context
  answer,        \* answer[s]: its answer
  told,          \* history: the accounts and tokens clients were given
  known          \* known[s]: `told' when the request in slot s was sent

client == <<req, told, known>>
vars   == <<users, users_id_seq, pc, req, user_id, answer, told, known>>

----------------------------------------------------------------------------
(* Tokens and headers.                                                     *)

None      == "none"
NoSubject == <<99>>   \* the claim is missing: this is not a string

\* A header that is not a token, or the token after "Bearer ".
NoHeader   == [kind |-> "empty"]
OtherAuth  == [kind |-> "not bearer"]
Bearer(form, iss, sub) ==
  [kind |-> "bearer", form |-> form, iss |-> iss, sub |-> sub]

\* form: "ours" is signed with the secret and valid today; "expired" has an
\* exp, nbf or iat that says otherwise; "forged" has another signature, "other
\* algorithm" names one than HS256; "garbage" cannot be decoded.
Form == {"ours", "expired", "forged", "other algorithm", "garbage"}

IsHeader(h) ==
  \/ h \in {NoHeader, OtherAuth}
  \/ /\ h.kind = "bearer" /\ h.form \in Form
     /\ h.iss \in {"sample", "other", None}
     /\ h.sub = NoSubject \/ h.sub \in Seq(Char)

\* users.id is a BIGSERIAL: its sequence ends where std::int64_t does.
ASSUME BoundAssumption  == MaxUsers \in 0 .. Int64Max
ASSUME HeaderAssumption == \A h \in Header : IsHeader(h)

\* jwt::create() in Login.
Token(id) == Bearer("ours", "sample", Decimal(id))

AnySigner(h) ==   \* a mutant: the signature is not verified
  IF h.kind # "bearer" THEN 401
  ELSE IF h.form = "garbage" THEN 403
  ELSE IF h.form \in {"other algorithm", "expired"} \/ h.iss # "sample" THEN 401
  ELSE IF h.sub = NoSubject THEN 403
  ELSE IF Stoll(h.sub).ok THEN 200 ELSE 401

\* JwtChecker::CheckAuth: 200 lets the request through.  The verifier looks at
\* the algorithm, the signature and the claims; an algorithm that is not
\* allowed and a claim that does not hold raise token_verification_exception,
\* which ends as kInvalidToken.  A wrong signature, a token that cannot be
\* decoded and a missing subject raise other exceptions and end as kForbidden.
\* An empty subject is one that std::stoll cannot convert; both get the same
\* answer.
CheckAuth(h) ==
  IF h.kind # "bearer" THEN 401
  ELSE IF h.form \in {"garbage", "forged"} THEN 403
  ELSE IF h.form \in {"other algorithm", "expired"} \/ h.iss # "sample" THEN 401
  ELSE IF h.sub = NoSubject THEN 403
  ELSE IF Stoll(h.sub).ok THEN 200 ELSE 401

----------------------------------------------------------------------------
(* Requests, answers and the database.                                     *)

\* Body: "valid", or "invalid": it does not fit its schema, or a field is
\* empty.  A search without a login has no filter.
Request ==
       [op : {"signup", "login"}, login : Login, password : Password,
        body : {"valid", "invalid"}]
  \cup [op : {"search"}, header : Header, login : Login \cup {None}]

ASSUME RequestsAssumption == Requests \subseteq Request

NoRequest == [op |-> "none"]
NoAnswer  == [code |-> 0, fault |-> FALSE, users |-> {}, tokens |-> {}]
Nothing   == [accounts |-> {}, tokens |-> {}]

AnyRow(login) == DOMAIN users   \* a mutant: the WHERE clause is lost

\* The row of SELECT ... WHERE login = $1, if any.
GetByLoginWithPassword(login) ==
  {i \in DOMAIN users : users[i].login = login}

\* SELECT ... WHERE login = $1 of the search.
Search(login) == {i \in DOMAIN users : users[i].login = login}

Init ==
  /\ users = [i \in {} |-> 0]
  /\ users_id_seq = 0
  /\ pc = [s \in Slot |-> "idle"]
  /\ req = [s \in Slot |-> NoRequest]
  /\ user_id = [s \in Slot |-> 0]
  /\ answer = [s \in Slot |-> NoAnswer]
  /\ told = Nothing
  /\ known = [s \in Slot |-> Nothing]

\* A client sends a request.
Receive(s) ==
  /\ pc[s] = "idle"
  /\ \E r \in Requests : req' = [req EXCEPT ![s] = r]
  /\ pc' = [pc EXCEPT ![s] = "received"]
  /\ known' = [known EXCEPT ![s] = told]
  /\ UNCHANGED <<users, users_id_seq, user_id, answer, told>>

At(s, label, op) == pc[s] = label /\ req[s].op = op

Goto(s, label) ==
  /\ pc' = [pc EXCEPT ![s] = label]
  /\ UNCHANGED answer

Reply(s, a) ==
  /\ pc' = [pc EXCEPT ![s] = "answered"]
  /\ answer' = [answer EXCEPT ![s] = a]

Refuse(s, code) == Reply(s, [NoAnswer EXCEPT !.code = code])

\* The exception of a failed call, or of a lost reply, reaches the client.
Fault(s) == Reply(s, [NoAnswer EXCEPT
                        !.code = IF req[s].op = "search" THEN 500 ELSE 400,
                        !.fault = TRUE])

----------------------------------------------------------------------------
(* POST /api/users.                                                        *)

SignupEnter(s) ==
  /\ At(s, "received", "signup")
  /\ \/ req[s].body = "invalid" /\ Refuse(s, 400)
     \/ req[s].body = "valid" /\ Goto(s, "CreateUser")
  /\ UNCHANGED <<users, users_id_seq, user_id, client>>

Account(r) == [login |-> r.login, password |-> r.password]

Inserted(id, row) ==
  [i \in DOMAIN users \cup {id} |-> IF i = id THEN row ELSE users[i]]

CreateUserUnguarded(s) ==   \* a mutant: login is not UNIQUE
  /\ pc[s] = "CreateUser" /\ users_id_seq < MaxUsers
  /\ users_id_seq' = users_id_seq + 1
  /\ users' = Inserted(users_id_seq + 1, Account(req[s]))
  /\ Reply(s, [NoAnswer EXCEPT !.code = 200, !.users = {users_id_seq + 1}])
  /\ UNCHANGED <<user_id, client>>

CreateUserAnyId(s) ==   \* a mutant: an id is used twice
  /\ pc[s] = "CreateUser"
  /\ GetByLoginWithPassword(req[s].login) = {}
  /\ users' = Inserted(users_id_seq + 1, Account(req[s]))
  /\ Reply(s, [NoAnswer EXCEPT !.code = 200, !.users = {users_id_seq + 1}])
  /\ UNCHANGED <<users_id_seq, user_id, client>>

CreateUserUnseen(s) ==   \* a mutant: a refused row is answered like one made
  LET id == users_id_seq + 1
  IN  /\ pc[s] = "CreateUser"
      /\ id <= MaxUsers
      /\ users_id_seq' = id
      /\ users' = IF GetByLoginWithPassword(req[s].login) = {}
                  THEN Inserted(id, Account(req[s])) ELSE users
      /\ Reply(s, [NoAnswer EXCEPT !.code = 200, !.users = {id}])
      /\ UNCHANGED <<user_id, client>>

\* INSERT INTO users ... RETURNING id.  login is UNIQUE; a second row is
\* refused, which the repository turns into 409, but takes its id.
CreateUser(s) ==
  LET id == users_id_seq + 1
  IN  /\ pc[s] = "CreateUser"
      /\ id <= MaxUsers
      /\ users_id_seq' = id
      /\ \/ /\ \A i \in DOMAIN users : users[i].login # req[s].login
            /\ users' = Inserted(id, Account(req[s]))
            /\ \/ Reply(s, [NoAnswer EXCEPT !.code = 200, !.users = {id}])
               \/ Fault(s)
         \/ /\ \E i \in DOMAIN users : users[i].login = req[s].login
            /\ UNCHANGED users
            /\ Refuse(s, 409)
      /\ UNCHANGED <<user_id, client>>

----------------------------------------------------------------------------
(* POST /api/users/login.                                                  *)

LoginEnter(s) ==
  /\ At(s, "received", "login")
  /\ \/ req[s].body = "invalid" /\ Refuse(s, 400)
     \/ req[s].body = "valid" /\ Goto(s, "GetByLogin")
  /\ UNCHANGED <<users, users_id_seq, user_id, client>>

LoginAnyPassword(s) ==   \* a mutant: the password is not compared
  LET rows == GetByLoginWithPassword(req[s].login)
  IN  /\ pc[s] = "GetByLogin"
      /\ \/ rows = {} /\ Refuse(s, 401)
         \/ \E id \in rows :
              Reply(s, [NoAnswer EXCEPT !.code = 200, !.tokens = {Token(id)}])
      /\ UNCHANGED <<users, users_id_seq, user_id, client>>

\* The row is read, the password compared, the token made.
LoginSelect(s) ==
  LET rows == GetByLoginWithPassword(req[s].login)
  IN  /\ pc[s] = "GetByLogin"
      /\ \/ rows = {} /\ Refuse(s, 401)
         \/ \E id \in rows :
              IF users[id].password # req[s].password THEN Refuse(s, 401)
              ELSE Reply(s, [NoAnswer EXCEPT !.code = 200,
                                             !.tokens = {Token(id)}])
      /\ UNCHANGED <<users, users_id_seq, user_id, client>>

----------------------------------------------------------------------------
(* GET /api/users/search, behind the JWT check.                            *)

Authorize(s) ==
  /\ At(s, "received", "search")
  /\ \/ /\ CheckAuth(req[s].header) # 200
        /\ Refuse(s, CheckAuth(req[s].header))
        /\ UNCHANGED user_id
     \/ /\ CheckAuth(req[s].header) = 200
        /\ user_id' = [user_id EXCEPT ![s] = Stoll(req[s].header.sub).value]
        /\ Goto(s, "authorized")
  /\ UNCHANGED <<users, users_id_seq, client>>

SearchEnter(s) ==
  /\ pc[s] = "authorized"
  /\ \/ Refuse(s, 429)
     \/ req[s].login = None /\ Refuse(s, 400)
     \/ req[s].login # None /\ Goto(s, "Search")
  /\ UNCHANGED <<users, users_id_seq, user_id, client>>

SearchSelect(s) ==
  /\ pc[s] = "Search"
  /\ Reply(s, [NoAnswer EXCEPT !.code = 200, !.users = Search(req[s].login)])
  /\ UNCHANGED <<users, users_id_seq, user_id, client>>

----------------------------------------------------------------------------
\* A call that fails without effect.
DbFails(s) ==
  /\ pc[s] \in {"CreateUser", "GetByLogin", "Search"}
  /\ Fault(s)
  /\ UNCHANGED <<users, users_id_seq, user_id, client>>

\* What the answer in slot s gives the client.
Given(s) ==
  IF answer[s].code = 200 /\ req[s].op \in {"signup", "login"}
  THEN LET given == {[of |-> Account(req[s]), is |-> x] :
                       x \in IF req[s].op = "signup" THEN answer[s].users
                                                     ELSE answer[s].tokens}
       IN  IF req[s].op = "signup"
           THEN [Nothing EXCEPT !.accounts = given]
           ELSE [Nothing EXCEPT !.tokens = given]
  ELSE Nothing

Forget(S) ==
  /\ pc' = [s \in Slot |-> IF s \in S THEN "idle" ELSE pc[s]]
  /\ req' = [s \in Slot |-> IF s \in S THEN NoRequest ELSE req[s]]
  /\ user_id' = [s \in Slot |-> IF s \in S THEN 0 ELSE user_id[s]]
  /\ answer' = [s \in Slot |-> IF s \in S THEN NoAnswer ELSE answer[s]]
  /\ known' = [s \in Slot |-> IF s \in S THEN Nothing ELSE known[s]]

\* The client reads the answer.
Deliver(s) ==
  /\ pc[s] = "answered"
  /\ told' = [accounts |-> told.accounts \cup Given(s).accounts,
              tokens   |-> told.tokens \cup Given(s).tokens]
  /\ Forget({s})
  /\ UNCHANGED <<users, users_id_seq>>

\* The process dies and is started again; the table stays.
Restart ==
  /\ \E s \in Slot : pc[s] # "idle"
  /\ Forget(Slot)
  /\ UNCHANGED <<users, users_id_seq, told>>

Next ==
  \/ \E s \in Slot :
       \/ Receive(s)
       \/ SignupEnter(s) \/ CreateUser(s)
       \/ LoginEnter(s) \/ LoginSelect(s)
       \/ Authorize(s) \/ SearchEnter(s) \/ SearchSelect(s)
       \/ DbFails(s)
       \/ Deliver(s)
  \/ Restart

Spec == Init /\ [][Next]_vars

----------------------------------------------------------------------------
(* Properties.                                                             *)

Row == [login : Login, password : Password]

Accounts == [of : Row, is : 1 .. MaxUsers]

IsTold(k) ==
  /\ k.accounts \subseteq Accounts
  /\ \A t \in k.tokens : t.of \in Row /\ IsHeader(t.is)

\* Types of the state.
TypeOK ==
  /\ users_id_seq \in 0 .. MaxUsers
  /\ DOMAIN users \subseteq 1 .. users_id_seq
  /\ \A i \in DOMAIN users : users[i] \in Row
  /\ pc \in [Slot -> {"idle", "received", "CreateUser", "GetByLogin",
                      "authorized", "Search", "answered"}]
  /\ req \in [Slot -> Requests \cup {NoRequest}]
  /\ user_id \in [Slot -> Nat]
  /\ \A s \in Slot :
       /\ answer[s].code \in {0, 200, 400, 401, 403, 409, 429, 500}
       /\ answer[s].users \subseteq 1 .. MaxUsers
       /\ IsTold(known[s])
  /\ IsTold(told)

\* However many sign-ups of one login run at once, and whichever of them are
\* retried after a lost reply, one account comes out of them.
UniqueLogins ==
  \A i, j \in DOMAIN users : users[i].login = users[j].login => i = j

\* An account a client was told of keeps its id, its login and its password.
ToldAccountsKept ==
  \A a \in told.accounts : a.is \in DOMAIN users /\ users[a.is] = a.of

\* A token names the user whose login and password were given for it, also
\* when it is read back by CheckAuth.
TokensNameTheirUser ==
  \A t \in told.tokens :
    /\ CheckAuth(t.is) = 200
    /\ Stoll(t.is.sub).value \in DOMAIN users
    /\ users[Stoll(t.is.sub).value] = t.of

Answered(s, op, code) ==
  pc[s] = "answered" /\ req[s].op = op /\ answer[s].code = code

\* Who was told that his account was made is never told that his login or his
\* password is wrong.
ToldAccountsLogIn ==
  \A s \in Slot : Answered(s, "login", 401) =>
    \A a \in known[s].accounts : a.of # Account(req[s])

\* Only a token signed with the service's secret gets a request past CheckAuth,
\* and what the request's context holds then is the token's subject.
OnlySignedTokensPass ==
  \A s \in Slot : pc[s] \in {"authorized", "Search"} =>
    /\ req[s].header.form = "ours" /\ req[s].header.iss = "sample"
    /\ Stoll(req[s].header.sub).ok
    /\ Stoll(req[s].header.sub).value = user_id[s]

\* A search for a login finds the account a client was told of before the
\* search was sent, and nobody else.
ToldAccountsFound ==
  \A s \in Slot : Answered(s, "search", 200) =>
    /\ \A a \in known[s].accounts :
         a.of.login = req[s].login => a.is \in answer[s].users
    /\ \A i \in answer[s].users : users[i].login = req[s].login

----------------------------------------------------------------------------
(* The abstract specification.  A token is to it the id that its subject   *)
(* is read back as.                                                        *)

NamedBy(t) == [of |-> t.of, is |-> Stoll(t.is.sub).value]

Book == INSTANCE AccountBook WITH
  accounts <- users,
  told     <- [accounts |-> told.accounts,
               tokens   |-> {NamedBy(t) : t \in told.tokens}],
  Id       <- 1 .. MaxUsers

\* The three handlers, with any number of requests under way and with lost
\* replies, retries and restarts: still accounts are entered once, one for a
\* login, and clients are told, and let in, as AccountBook says and no other
\* way.
KeepsBook == Book!Spec
=============================================================================
