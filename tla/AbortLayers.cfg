SPECIFICATION FairSpec
INVARIANTS OffMeansSilent ConsumerClosedOnce SessionHasOwner OneLateAbort
PROPERTIES DeactivateReturns PendingShutdownAborted
