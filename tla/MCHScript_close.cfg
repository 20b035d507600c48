SPECIFICATION SSpec
CONSTANTS
  Cap = 3
  MaxBackends = 3
  MaxWindows = 2
  MaxInputs = 3
  InputTypes <- MCKeys
  Places <- MCOnePlace
  Events <- AllEvents
  Mishaps <- MCNoMishaps
  Sources <- MCCloseScripts
  MaxInstructions = 12
  MaxLoopDepth = 2
  MaxFrame = 2
  Recorded <- MCNone
PROPERTY CloseEnds
