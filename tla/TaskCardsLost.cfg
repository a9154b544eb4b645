SPECIFICATION Spec
CONSTANTS
  w1 = w1
  w2 = w2
  t1 = t1
  t2 = t2
  t3 = t3
  o1 = o1
  o2 = o2
  Work = {w1}
  Autonomous = {w1}
  Answering = {w1}
  Turns = {t1, t2, t3}
  Ops = {o1, o2}
  MaxUpsets = 1
SYMMETRY Symmetric
INVARIANT RestoredNotAccepted
CHECK_DEADLOCK FALSE
