SPECIFICATION Spec
CONSTANTS
  OidLen = 3
  Int64Max = 92
  Login = {ann, bob}
  Password = {p1, p2}
  Slot = {s1, s2}
  Header <- MCHeader
  Requests <- MCRequests
  MaxUsers = 2
SYMMETRY MCSymmetry
INVARIANTS TypeOK UniqueLogins ToldAccountsKept TokensNameTheirUser ToldAccountsLogIn ToldAccountsFound OnlySignedTokensPass
PROPERTY KeepsBook
