SPECIFICATION Spec
CONSTANTS
  OidLen = 3
  Int64Max = 92
  User = {u1, u2}
  Slot = {s1}
  Oid <- TwinGoals
  GoalArg <- MCGoalArg
  TaskArg <- MCTaskArg
  Requests <- AllRequests
  PgGoals <- TwoPgGoals
  MaxTasks = 2
SYMMETRY MCSymmetry
INVARIANTS GoalsListed GoalAccess
PROPERTY StatusNeedsIntegerGoal
