\* Three procedures and an edit at any moment, to any version.
SPECIFICATION Spec
CONSTANTS
  MaxEdits = 2
  MaxPasses = 3
CHECK_DEADLOCK FALSE
INVARIANTS
  TypeOK
  CleanPassIsEvidence
  SecondPassIsCurrent
