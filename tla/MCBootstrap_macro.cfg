SPECIFICATION Spec
CONSTANTS
  BS_VM_STACK_MAX = 8
  Lines <- MCMacroLines
  Programs <- MCBareIfs
  Sources <- MCWritten
  Written <- MCWritten
  MaxLines = 1
INVARIANT NothingSkipped
CHECK_DEADLOCK FALSE
