SPECIFICATION FairSpec
CONSTANTS
  Services = {s1}
  Files = {f1}
  Ops = {o1, o2}
  Fds = {fd1}
  NumThreads = 1
  Closed = Closed
  Nil = Nil
PROPERTY RunOutlivesOps
PROPERTY OpsComplete
CHECK_DEADLOCK FALSE
