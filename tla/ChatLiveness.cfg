SPECIFICATION FairSpec
CONSTANTS
  Parts = {"events", "web", "mobile", "push", "mails", "scheduled"}
  EventTypes = {"message", "flags/add/read"}
  Compressed = {"flags/add/read"}
  Conn = {c1, c2}
  MaxEvents = 2
  MaxBeats = 0
  EventFaults = 1
  Queue = {q1, q3}
  Deaf = {q3}
  MaxMessages = 2
  MaxRestarts = 1
  Pushed = {m1, m2}
  MaxRetries = 1
  MaxAdds = 2
  MaxMarks = 2
  PushFaults = 1
  MaxCrashes = 1
  Owner <- OneEach
  MaxReads = 1
  MailFaults = 1
  MaxStops = 1
  MaxRows = 3
  Reminders = {3}
  Broken = {1}
  Editor = {e1}
  MaxTime = 2
  MaxVersion = 2
  DeliveryFaults = 1
PROPERTIES
  CatchesUp
  AwayIsNotified
  EverythingIsSettled
  WorkersGetDone
CHECK_DEADLOCK FALSE
