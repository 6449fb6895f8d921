SPECIFICATION FairSpec
CONSTANT MaxTrayBacklog = 2
INVARIANTS AllowMeansReleased BlockMeansVeto
PROPERTIES ModeChangesOnlyWhenAsked ImplementsProtectionMode SurvivorReleases ForcedCleanupStopsWorkers TrayConverges
