SPECIFICATION Spec
CONSTANTS
  Slots = {s1, s2}
  Ops = {o1, o2}
  Blocks = {b1, b2}
  Executors = {e1, e2}
  Null = Null
  Dead = Dead
INVARIANTS StorageLive InOnePlace GuardsMatchOps
PROPERTY PostedRuns
