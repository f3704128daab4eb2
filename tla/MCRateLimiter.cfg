SPECIFICATION Spec
CONSTANTS
  Endpoint = {goals_create}
  User = {u1}
  Thread = {t1, t2}
  TicksPerSecond = 2
  MaxStall = 1
  MaxTime = 5
  MaxChecks = 6
INVARIANTS TypeOK WindowBound NeverOverdrawn
PROPERTIES RefillTimeMonotone RefusedOnlyWithinASecond
