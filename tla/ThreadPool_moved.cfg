SPECIFICATION RequestSpec
CONSTANTS
  Services = {s1}
  Files = {f1, f2}
  Ops = {o1}
  Fds = {fd1}
  NumThreads = 1
  Closed = Closed
  Nil = Nil
INVARIANT CancelStopsQueued
CHECK_DEADLOCK FALSE
