SPECIFICATION Spec
INVARIANTS
  WordsExact
  NumbersQualify
  RnsExact
  SwitchKeepsPhase
CHECK_DEADLOCK FALSE
