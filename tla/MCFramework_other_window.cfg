SPECIFICATION MCSpec
CONSTANTS
  Parts = {"gui"}
  Cap = 3
  Events <- MCEvents
  MaxBackends = 3
  MaxWindows = 3
  MaxInputs = 3
  InputTypes = {"QUIT", "MOUSE_DOWN"}
  Places = {1}
  Mishaps = {"connect", "alloc"}
  Pids <- MCPids
  Paths <- MCPaths
  Positions <- MCPositions
  Asked <- MCAsked
  Durations <- MCDurations
  Seekers <- MCSeekers
  Player = "ffplay"
  Disposition = "default"
  Blocks = {1, 2, 3, 4}
  SizeOf <- MCSizes
  Modules = {"core", "gui"}
  Names = {"f"}
  MaxStarts = 2
PROPERTY StopsOnlyWhenClosed
