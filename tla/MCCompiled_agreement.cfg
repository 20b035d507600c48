CONSTANTS
  StackMax = 24
  FramesMax = 5
  HeapMax = 40
  IntMin <- MCIntMin
  IntMax = 7
  MaxExecutions = 1
  LocalsMax = 8
  MaxStack = 8
  Modules <- None
  Natives <- None
  NativeResults <- None
  Programs <- Disagreeing
SPECIFICATION CSpec
INVARIANT Agreement
CHECK_DEADLOCK FALSE
