---------------------------- MODULE UsersStorage ----------------------------
(***************************************************************************)
(* UsersStorage: every user is kept twice, by login and by id, and the two *)
(* copies are written one after the other.  Passwords are left out, and a  *)
(* user has one name for his first and last names, which Search treats     *)
(* alike.                                                                  *)
(***************************************************************************)
EXTENDS StorageCalls

CONSTANTS
  Login,    \* logins
  Name,     \* names and masks: sequences of letters
  MaxUsers  \* bound: users that are created

VARIABLES
  users_by_login_,  \* login -> user
  users_by_id_      \* id -> user

users_stored == <<next_id_, users_by_login_, users_by_id_>>
users_vars   == <<calls, users_stored>>

UsersCall ==
       [op : {"CreateUser"}, login : Login, name : Name]
  \cup [op : {"GetByLogin"}, login : Login]
  \cup [op : {"GetById", "UserExists"}, id : 1 .. MaxUsers]
  \cup [op : {"Search"}, logins : {{}} \cup {{l} : l \in Login},
        masks : {{}} \cup {{n} : n \in Name}]

\* name.find(mask) != npos.
HasMask(name, mask) ==
  \E i \in 0 .. Len(name) - Len(mask) :
    SubSeq(name, i + 1, i + Len(mask)) = mask

\* The users of a map that have the login and the mask asked for, if any.
Matching(map, c) ==
  {map[k] : k \in {j \in DOMAIN map :
                     /\ \A l \in c.logins : map[j].login = l
                     /\ \A m \in c.masks : HasMask(map[j].name, m)}}

UsersInit ==
  /\ CallsInit
  /\ next_id_ = 1
  /\ users_by_login_ = EmptyMap
  /\ users_by_id_ = EmptyMap

\* Creations under way that have not taken their id yet.
UsersCreating ==
  {t \in Thread : pc[t] \in {"called", "locked"} /\ call[t].op = "CreateUser"}

UsersStart(t) ==
  /\ \E c \in UsersCall :
       /\ c.op = "CreateUser" => next_id_ + Cardinality(UsersCreating) <= MaxUsers
       /\ Invoke(t, c)
  /\ UNCHANGED users_stored

NewUser(id, c) == [id |-> id, login |-> c.login, name |-> c.name]

CreateUserTwice(t) ==   \* a mutant: the test for the login is lost
  /\ At(t, "locked", "CreateUser")
  /\ next_id_' = next_id_ + 1
  /\ users_by_login_' = Emplace(users_by_login_, call[t].login,
                                NewUser(next_id_, call[t]))
  /\ Keep(t, "second copy", {next_id_})
  /\ UNCHANGED users_by_id_

\* nullopt if the login is taken; else the copy by login is written ...
CreateUser(t) ==
  /\ At(t, "locked", "CreateUser")
  /\ \/ /\ call[t].login \in DOMAIN users_by_login_
        /\ Finish(t, {})
        /\ UNCHANGED users_stored
     \/ /\ call[t].login \notin DOMAIN users_by_login_
        /\ next_id_' = next_id_ + 1
        /\ users_by_login_' = Emplace(users_by_login_, call[t].login,
                                      NewUser(next_id_, call[t]))
        /\ Keep(t, "second copy", {next_id_})
        /\ UNCHANGED users_by_id_

\* ... and then the copy by id.
CreateUserById(t) ==
  /\ At(t, "second copy", "CreateUser")
  /\ \E id \in result[t] :
       users_by_id_' = Emplace(users_by_id_, id, NewUser(id, call[t]))
  /\ Finish(t, result[t])
  /\ UNCHANGED <<next_id_, users_by_login_>>

GetByLogin(t) ==
  /\ At(t, "locked", "GetByLogin")
  /\ Finish(t, Find(users_by_login_, call[t].login))
  /\ UNCHANGED users_stored

UsersGetById(t) ==
  /\ At(t, "locked", "GetById")
  /\ Finish(t, Find(users_by_id_, call[t].id))
  /\ UNCHANGED users_stored

UserExists(t) ==
  /\ At(t, "locked", "UserExists")
  /\ Finish(t, {call[t].id} \cap DOMAIN users_by_id_)
  /\ UNCHANGED users_stored

Search(t) ==
  /\ At(t, "locked", "Search")
  /\ Finish(t, Matching(users_by_login_, call[t]))
  /\ UNCHANGED users_stored

UsersNext ==
  \E t \in Thread :
    \/ UsersStart(t)
    \/ (Lock(t) \/ Return(t)) /\ UNCHANGED users_stored
    \/ CreateUser(t) \/ CreateUserById(t)
    \/ GetByLogin(t) \/ UsersGetById(t) \/ UserExists(t) \/ Search(t)

UsersSpec == UsersInit /\ [][UsersNext]_users_vars

----------------------------------------------------------------------------
(* Properties.                                                             *)

\* Whenever nobody is inside, the two copies agree: they hold the same users,
\* each under its own key, so no two users share a login or an id.
UserCopiesAgree ==
  mutex_ = NoThread =>
    /\ \A l \in DOMAIN users_by_login_ :
         LET user == users_by_login_[l]
         IN  user.login = l /\ Find(users_by_id_, user.id) = {user}
    /\ \A i \in DOMAIN users_by_id_ :
         LET user == users_by_id_[i]
         IN  user.id = i /\ Find(users_by_login_, user.login) = {user}

\* The promise: one table of users by login.
UserEffect(table, c) ==
  LET new     == NewUser(Cardinality(DOMAIN table) + 1, c)
      With(i) == {table[l] : l \in {k \in DOMAIN table : table[k].id = i}}
      Same(r) == [table |-> table, result |-> r]
  IN  CASE c.op = "CreateUser" ->
             IF c.login \in DOMAIN table THEN Same({})
             ELSE [table |-> Emplace(table, c.login, new), result |-> {new.id}]
        [] c.op = "GetByLogin" -> Same(Find(table, c.login))
        [] c.op = "GetById" -> Same(With(c.id))
        [] c.op = "UserExists" -> Same({user.id : user \in With(c.id)})
        [] OTHER -> Same(Matching(table, c))

UsersStore == INSTANCE AtomicStore WITH
           Call <- UsersCall, Empty <- EmptyMap, Effect <- UserEffect,
           table <- users_by_login_, stage <- Stages, result <- Results

\* Every call of a thread takes effect at one moment, on one table of users.
UsersAtomic == UsersStore!Spec
=============================================================================
