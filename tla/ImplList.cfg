SPECIFICATION Spec
CONSTANTS
  Services = {s1, s2}
  Impls = {i1, i2, i3, i4}
  Nil = Nil
INVARIANT WalkVisitsAll
INVARIANT WalkVisitsOnlyMembers
INVARIANT WellLinked
