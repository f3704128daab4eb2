SPECIFICATION Spec
CONSTANTS
  OidLen = 3
  Int64Max = 92
  User = {u1, u2}
  Slot = {s1, s2}
  Oid <- IntegerGoals
  GoalArg <- MCGoalArg
  TaskArg <- MCTaskArg
  Requests <- PlainRequests
  PgGoals <- OnePgGoal
  MaxTasks = 2
SYMMETRY MCSymmetry
INVARIANTS TypeOK TaskOwnership AckedTasksKept AckedTasksListed
PROPERTY KeepsBoard
