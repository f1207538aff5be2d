\* Two calls with up to two pools each, of two addresses and two users.
SPECIFICATION Spec
SYMMETRY Symmetry
CONSTANTS
  Generations = {"v2", "v3"}
  Setters = {c1, c2}
  Setups = {}
  Urls = {u1, u2}
  Users = {x, y}
  MaxPools = 2
INVARIANTS
  TypeOK
  SuccessWasTrue
  PoolsAreActive
  ConfiguredAgrees
  ViewMergesPools
