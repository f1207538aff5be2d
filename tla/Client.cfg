\* Two commands, or a command and a snapshot, or two snapshots, at the same
\* time, with a client of either generation.
SPECIFICATION MCSpec
CONSTANTS
  Generations = {"v2", "v3"}
  Calls = {c1, c2}
  Kinds = {"ledOn", "ledOff", "low", "high", "sleep", "plain", "setZone"}
  Modes = {"low", "high"}
  Snaps = {s1, s2}
  ErrorCodes = {e1}
  MaxShares = 2
  Casts = {{c1, c2}, {c1, s1}, {s1, s2}}
INVARIANTS
  TypeOK
  SuccessIsTrue
  ModeAfterStart
  LedAttended
  SnapTypeOK
  SharesAddUp
  LastSnapAgrees
PROPERTIES
  LedReturns
  SnapShowsLed
