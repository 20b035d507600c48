CONSTANTS
  StackMax = 5
  FramesMax = 3
  HeapMax = 4
  IntMin <- MCIntMin
  IntMax = 3
  MaxExecutions = 1
  Modules <- MCSurprising
  Natives <- MCNoNatives
  NativeResults <- MCResults
SPECIFICATION Spec
INVARIANTS FailureExplained NoTrap
CHECK_DEADLOCK FALSE
