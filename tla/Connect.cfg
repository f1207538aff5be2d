\* Three handlers, so that one can join a connection and one can follow a
\* failed one; the miner changes what it serves up to three times.
SPECIFICATION Spec
CONSTANTS
  Handlers = {h1, h2, h3}
  MaxShifts = 3
INVARIANTS
  TypeOK
  OneClient
  NothingLeaks
  FailureNotKept
PROPERTY
  Termination
