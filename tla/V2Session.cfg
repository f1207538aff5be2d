\* Every two of: two writes with their retry loops, a reboot, a network change
\* and a log download, sharing the token.  MaxTokens is what two retrying
\* writes can mint between them: no request for a token is held back by it.
SPECIFICATION MCSpec
CONSTANTS
  Commands = {w1, w2}
  Reboots = {r1}
  NetworkCalls = {n1}
  Downloads = {d1}
  MaxTokens = 6
  Casts = {{w1, w2}, {w1, r1}, {w1, n1}, {w1, d1}, {r1, n1}, {r1, d1}, {n1, d1}}
INVARIANTS
  TypeOK
  ExpiredOnlyAfterThreeTokens
PROPERTIES
  KeepsContract
  DeadTokenNotRestored
  Termination
