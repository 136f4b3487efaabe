\* The layout loops, element by element.
SPECIFICATION Spec
CONSTANT Loops <- MCLoops
\* The loops end.
CHECK_DEADLOCK FALSE
INVARIANTS
  InBuffer
  NoPadding
PROPERTY NothingOverwritten
