CONSTANTS
  Modes = {"x86", "x64"}
  Texts <- MCTexts
SPECIFICATION Spec
INVARIANTS TypeOK Bounded AssertionsHold LengthIsISA NothingRelativeMoved PatchedPlace
