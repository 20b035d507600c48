SPECIFICATION SSpec
CONSTANTS
  Cap = 3
  MaxBackends = 3
  MaxWindows = 2
  MaxInputs = 1
  InputTypes <- MCMouse
  Places <- MCOnePlace
  Events <- AllEvents
  Mishaps <- MCNoMishaps
  Sources <- MCSurprising
  MaxInstructions = 12
  MaxLoopDepth = 2
  MaxFrame = 2
  Recorded <- MCNone
PROPERTIES ControlsWork CloseStops
