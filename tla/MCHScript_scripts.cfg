SPECIFICATION SSpec
CONSTANTS
  Cap = 3
  MaxBackends = 3
  MaxWindows = 2
  MaxInputs = 3
  InputTypes <- MCInputs
  Places <- MCPlaces
  Events <- AllEvents
  Mishaps <- MCMishaps
  Sources <- MCScripts
  MaxInstructions = 10
  MaxLoopDepth = 2
  MaxFrame = 2
  Recorded <- MCBraceScripts
INVARIANTS CountersRight HandledOnce BracesMean
