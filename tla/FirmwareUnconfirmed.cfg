\* A v3 upload whose result is disturbed after the image was sent.
SPECIFICATION Spec
CONSTANTS
  Generations = {"v3"}
  EarlyOk = {}
  MaxNoise = 1
INVARIANT
  UnconfirmedIsUnknown
