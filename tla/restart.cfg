\* One worker, closed by a signal.
SPECIFICATION Spec
CONSTANTS
  w1 = w1  w2 = w2  w3 = w3
  Worker = {w1}
PROPERTIES SignalledIsNotReplaced
CHECK_DEADLOCK FALSE
