\* One setPools of the v2 client that drops a backup pool.
SPECIFICATION Spec
CONSTANTS
  Generations = {"v2"}
  Setters = {c1}
  Setups = {}
  Urls = {u1, u2}
  Users = {x}
  MaxPools = 2
INVARIANT
  SkipMeansSame
