SPECIFICATION FairSpec
CONSTANTS
  ControlClients = {c1}
  StatusClients = {s1}
  FailingClaims = {}
PROPERTY ShutdownCompletes
