\* What kthread_stop asks of its caller.
CONSTANTS
  MaxLoads = 1
SPECIFICATION Spec
INVARIANTS
  StopsLiveTask
CHECK_DEADLOCK FALSE
