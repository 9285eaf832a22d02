SPECIFICATION TokenSpec
CONSTANTS
  Sources = {s1, s2}
  Tokens = {t1, t2}
  Blocks = {b1, b2, b3, b4, b5}
  Null = Null
  Gone = Gone
INVARIANT SoleOwner
PROPERTY CancelledIsFinal
PROPERTY ImplementsContract
