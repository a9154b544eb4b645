SPECIFICATION Spec
CONSTANTS
  c1 = c1
  c2 = c2
  scheduled = scheduled
  pressed = pressed
  Cards = {c1, c2}
  Runs = {scheduled}
  Forced = {}
  QueueLimit = 1
  KeyLimit = 1
  MaxFaults = 5
INVARIANT ReturnedAfterExecution
CHECK_DEADLOCK FALSE
