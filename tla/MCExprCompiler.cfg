SPECIFICATION Spec
CONSTANTS
  Inputs <- MCInputs
  Memories <- MCMemories
  Sym <- MCSym
  Junk = 77
INVARIANTS
  ValueIsRight
  BranchIsRight
  StackTracked
