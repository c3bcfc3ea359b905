\* One call of execute: every form of its code, every fate of its isolates.
SPECIFICATION Spec
CONSTANTS
  None = None
INVARIANTS CodeRunsOnce
PROPERTIES ExecuteAnswers
CHECK_DEADLOCK FALSE
