\* pcall and xpcall nested, handlers that fail, errors and Go panics.
CONSTANTS
  Value = {a, b}
  LNil = lnil
  Unset = unset
  Catcher = {"pcall", "xpcall"}
  Fault = {"error", "panic"}
  FrameSize = 2
  MaxFrames = 3
  MaxVars = 2
  MaxUpvalues = 2
  MaxCatches = 2
SYMMETRY ValueSymmetry
SPECIFICATION Spec
INVARIANTS TypeOK CacheHoldsOpenInOrder NoDanglingUntilLeft AgreementUntilError
