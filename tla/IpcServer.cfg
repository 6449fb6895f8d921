SPECIFICATION FairSpec
CONSTANTS
  ControlClients = {c1, c2}
  StatusClients = {s1}
  FailingClaims = {"control", "status"}
INVARIANTS OkMeansHandled HandledAtMostOnce
PROPERTIES ControlClientsAnswered StopSettles
