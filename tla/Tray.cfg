SPECIFICATION FairSpec
CONSTANTS
  MaxClicks = 1
  MaxCommands = 1
  Modes = {"Block", "Allow"}
  Setups = {"visible", "hidden", "deaf"}
INVARIANTS TypeOK ControllerShowsState CheckMarkSettles ToggleMeansShown
PROPERTIES IconReturns ClicksHandled TrayShutdownReturns
CHECK_DEADLOCK FALSE
