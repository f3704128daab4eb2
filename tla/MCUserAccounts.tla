-------------------------- MODULE MCUserAccounts ---------------------------
(***************************************************************************)
(* Small instances of UserAccounts: two logins, two passwords, two ids.    *)
(***************************************************************************)
EXTENDS UserAccounts, TLC

\* Every way a header is turned down, the token of user 1, and a token of ours
\* whose subject goes on after the number.
MCHeader ==
  {NoHeader, OtherAuth,
   Bearer("garbage", None, NoSubject),
   Bearer("other algorithm", "sample", <<1>>),
   Bearer("forged", "sample", <<1>>),
   Bearer("expired", "sample", <<1>>),
   Bearer("ours", "other", <<1>>),
   Bearer("ours", "sample", NoSubject),
   Bearer("ours", "sample", <<>>),
   Bearer("ours", "sample", <<10>>),
   Bearer("ours", "sample", <<1>>),
   Bearer("ours", "sample", <<1, 10>>)}

\* Sign-up and log-in, well formed or not; searches for each login with the
\* token of user 1, and without a login with every header.
MCRequests ==
  {r \in Request :
     r.op = "search" => (r.header = Token(1) <=> r.login # None)}

MCSymmetry == Permutations(Login) \cup Permutations(Password)
                \cup Permutations(Slot)
=============================================================================
