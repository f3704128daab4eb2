SPECIFICATION Spec
CONSTANTS
  OidLen = 3
  Int64Max = 92
  User = {u1}
  Slot = {s1}
  Oid <- TwoGoals
  GoalArg <- MCGoalArg
  TaskArg <- MCTaskArg
  Requests <- AllRequests
  PgGoals <- OnePgGoal
  MaxTasks = 2
INVARIANT ListedTasksBelongToGoal
