CONSTANTS
  RepMax = 7
  Hz = 6
  Usec = 2
  Threads = {t1, t2}
SPECIFICATION MetadataSpec
INVARIANTS BitsExact 
