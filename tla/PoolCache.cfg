\* Three readers and one writer; the clock runs until an entry that came in two
\* chunks, each a timeout after the last, is handed out for the last time.
SPECIFICATION Spec
SYMMETRY CallSymmetry
CONSTANTS
  Readers = {r1, r2, r3}
  Writers = {w1}
  CacheTime = 1
  Timeout = 1
  Horizon = 4
  MaxChunks = 1
INVARIANTS
  TypeOK
  ReadsNotBehindSetPools
  AgeBound
