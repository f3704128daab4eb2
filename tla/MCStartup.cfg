SPECIFICATION Spec
CONSTANTS
  Handler = {"handler-signup", "handler-users-search", "handler-hello", "handler-goals-create", "handler-goals-update-task-status"}
  MayThrow = {"postgres", "mongo", "jwt-auth-checker"}
INVARIANTS NoDangling StartNotStuck
PROPERTY StartEnds
CHECK_DEADLOCK FALSE
