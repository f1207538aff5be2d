\* Both generations; a v3 miner may also answer the command with a success
\* that is not "ready".  Two undecodable messages: one before "ready", one after.
SPECIFICATION Spec
CONSTANTS
  Generations = {"v2", "v3"}
  EarlyOk = {"v3"}
  MaxNoise = 2
INVARIANT
  TypeOK
PROPERTIES
  KeepsContract
  Termination
