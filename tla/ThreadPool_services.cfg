SPECIFICATION Spec
CONSTANTS
  Services = {s1, s2}
  Files = {f1, f2}
  Ops = {o1}
  Fds = {fd1, fd2}
  NumThreads = 1
  Closed = Closed
  Nil = Nil
SYMMETRY Symmetry
INVARIANT HandlesOwnedOnce
INVARIANT QueuedTokensAgree
INVARIANT DoomedNeverRuns
INVARIANT LiveTokenLiveHandle
INVARIANT ShutdownClosesAll
PROPERTY UsesLists
PROPERTY UsesTokens
CHECK_DEADLOCK FALSE
