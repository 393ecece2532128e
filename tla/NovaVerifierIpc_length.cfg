\* A stream with a few bytes after the envelope.
SPECIFICATION Spec
CONSTANTS
  Magic = Magic
  Fixtures <- MCFixtures
  Short = Short
  Scripts <- OneScript
  MayFail = FALSE
INVARIANTS
  ExactLength
