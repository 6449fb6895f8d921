SPECIFICATION FairSpec
CONSTANTS
  ControlClients = {}
  StatusClients = {}
  FailingClaims = {"status"}
PROPERTY StartupSettles
