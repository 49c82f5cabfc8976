SPECIFICATION Spec
CONSTANTS
  Rows = 1
  Reminders = {}
  Broken = {}
  Editor = {e1}
  MaxTime = 1
  MaxVersion = 2
  MaxFaults = 0
INVARIANT SentOnce
CHECK_DEADLOCK FALSE
