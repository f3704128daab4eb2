SPECIFICATION StoragesSpec
CONSTANTS
  Thread = {t1, t2}
  Goal = {1, 2}
  MaxTasks = 2
  Login = {l1, l2}
  Name <- TwoNames
  MaxUsers = 2
  User = {1, 2}
  MaxGoals = 2
INVARIANTS TaskCopiesAgree UserCopiesAgree
PROPERTIES TasksAtomic UsersAtomic GoalsAtomic
