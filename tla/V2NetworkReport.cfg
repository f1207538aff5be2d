\* A network change alone, to check what ERR_NETWORK_OUTCOME_UNKNOWN says.
SPECIFICATION Spec
CONSTANTS
  Commands = {}
  Reboots = {}
  NetworkCalls = {n1}
  Downloads = {}
  MaxTokens = 1
INVARIANT
  UnknownOutcomeMeansTransmitted
