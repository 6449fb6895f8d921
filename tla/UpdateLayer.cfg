SPECIFICATION UpdateFairSpec
CONSTANT MaxCrashes = 2
INVARIANT TaskRestored
PROPERTIES EnablesOnlyOriginallyEnabled DeactivateReturns
