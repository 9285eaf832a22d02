SPECIFICATION Spec
CONSTANTS
  MaxWrite = 3
  MaxRead = 2
  MaxBytes = 4
INVARIANT SentInOrder
INVARIANT NothingLost
INVARIANT ReadInOrder
