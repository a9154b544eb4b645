SPECIFICATION FairSpec
CONSTANTS
  c1 = c1
  c2 = c2
  scheduled = scheduled
  pressed = pressed
  Cards = {c1, c2}
  Runs = {scheduled, pressed}
  Forced = {pressed}
  QueueLimit = 1
  KeyLimit = 1
  MaxFaults = 3
ACTION_CONSTRAINT OverlapBound
INVARIANT TypeOK ExecutedOnce ResultKept
PROPERTY CardSettles ImplementsCardExecution
CHECK_DEADLOCK FALSE
