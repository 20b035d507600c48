SPECIFICATION Spec
CONSTANTS
  BS_VM_STACK_MAX = 8
  Lines <- MCLines
  Programs <- MCPrograms
  Sources <- MCSources
  Written <- MCWritten
  MaxLines = 3
INVARIANTS
  ScopesBalanced
  MacrosExpanded
  ReadBack
  SameOutputCommon
  StackBalanced
PROPERTIES
  VMEnds
CHECK_DEADLOCK FALSE
