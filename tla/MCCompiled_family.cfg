CONSTANTS
  StackMax = 24
  FramesMax = 5
  HeapMax = 40
  IntMin <- MCIntMin
  IntMax = 7
  MaxExecutions = 1
  LocalsMax = 8
  MaxStack = 8
  Modules <- None
  Natives <- None
  NativeResults <- None
  Programs <- Family
SPECIFICATION CSpec
PROPERTIES Implements CallerIsolated
INVARIANTS BalancedStack WellStacked
CHECK_DEADLOCK FALSE
