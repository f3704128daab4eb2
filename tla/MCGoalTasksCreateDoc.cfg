SPECIFICATION Spec
CONSTANTS
  OidLen = 3
  Int64Max = 92
  User = {u1, u2}
  Slot = {s1}
  Oid <- ThreeGoals
  GoalArg <- MCGoalArg
  TaskArg <- MCTaskArg
  Requests <- AllRequests
  PgGoals <- OnePgGoal
  MaxTasks = 2
INVARIANT OwnGoalTakesTask
