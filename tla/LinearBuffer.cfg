SPECIFICATION ViewSpec
CONSTANTS
  Buffers = {b1, b2}
  Blocks = {k1, k2, k3}
  Bytes = {1, 2}
  Junk = 1
  Wild = Wild
  Unspecified = Unspecified
  NoBlock = NoBlock
  NoBuffer = NoBuffer
  SizeMax = 3
  AllocMax = 2
  MaxArg = 1
INVARIANT BlocksOwned
INVARIANT ContentAsDocumented
INVARIANT InputKept
SYMMETRY Symmetry
