CONSTANTS
  StackMax = 5
  FramesMax = 3
  HeapMax = 4
  IntMin <- MCIntMin
  IntMax = 3
  MaxExecutions = 3
  Modules <- MCModules
  Natives <- MCNative
  NativeResults <- MCResults
SPECIFICATION MCSpec
INVARIANTS TypeOK FramesInBounds CallChain ObjectsExist
PROPERTY FreshLocals
CHECK_DEADLOCK FALSE
