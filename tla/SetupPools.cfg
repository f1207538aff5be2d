\* One setupPools of the v2 client, whose update_pools may fail.
SPECIFICATION Spec
CONSTANTS
  Generations = {"v2"}
  Setters = {}
  Setups = {c1}
  Urls = {u1}
  Users = {x}
  MaxPools = 1
INVARIANT
  SetupSuccessWasTrue
