SPECIFICATION Spec
CONSTANTS
  OidLen = 3
  Int64Max = 92
  User = {u1}
  Slot = {s1, s2}
  Oid <- MCOid
  GoalArg <- MCGoalArg
  TaskArg <- MCTaskArg
  Requests <- MCRequests
  PgGoals <- MCPgGoals
  MaxTasks = 1
  TicksPerSecond = 1
  MaxStall = 1
  MaxTime = 1
  MaxChecks = 5
  MaxStarts = 2
INVARIANTS StoredWithinLimit MutexHeldInside
PROPERTY RequestsAnswered
VIEW MCView
CHECK_DEADLOCK FALSE
