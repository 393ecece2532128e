\* All interleavings of a parent with one or two signatures and its children.
SPECIFICATION Spec
CONSTANTS
  Magic = Magic
  Fixtures <- MCFixtures
  Short = Short
  Scripts <- MCScripts
  MayFail = TRUE
INVARIANTS
  TypeOK
  VerdictOfStream
  ScriptOutcome
  VerdictsAgree
  EmulatorAgrees
PROPERTIES
  Termination
