SPECIFICATION Spec
CONSTANTS
  BS_VM_STACK_MAX = 8
  Lines <- MCLines
  Programs <- MCBareIfs
  Sources <- MCWritten
  Written <- MCWritten
  MaxLines = 0
INVARIANT SameOutputShared
CHECK_DEADLOCK FALSE
