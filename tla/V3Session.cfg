\* A command and a change of the power mode, while the miner changes its salt
\* twice: an answer with the first salt can arrive after the second was refused.
SPECIFICATION Spec
CONSTANTS
  Commands = {w1}
  PowerModes = {m1}
  MaxSalt = 3
INVARIANTS
  TypeOK
  RefusedSaltIsGone
PROPERTIES
  KeepsContract
  Termination
