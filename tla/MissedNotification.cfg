SPECIFICATION Spec
CONSTANTS
  Queue = {q1, q2}
  Mobile = {q2}
  Deaf = {}
  Leaving = {}
  MaxMessages = 1
  MaxRestarts = 0
INVARIANT MissedIsNotified
CHECK_DEADLOCK FALSE
