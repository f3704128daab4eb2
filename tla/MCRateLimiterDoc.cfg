SPECIFICATION Spec
CONSTANTS
  Endpoint = {goals_create}
  User = {u1}
  Thread = {t1}
  TicksPerSecond = 2
  MaxStall = 0
  MaxTime = 5
  MaxChecks = 5
INVARIANT RefusedOnlyAboveTwoPerSecond
