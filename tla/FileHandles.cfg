CONSTANTS
  Fds = {3, 4}
  SizeMax = 2
  MaxTrouble = 1
  Uniques = {u1, u2}
  Files = {f1}
  Raws = {h1}
  Callers = {t1}
SPECIFICATION Spec
INVARIANTS OwnedOnce NothingUninitialised CallsExact
PROPERTY CallsReturn
