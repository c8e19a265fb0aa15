\* Closures when an error is caught. Choose the catcher and the property of one
\* line.
\*   Catcher = {"xpcall"}    INVARIANT NoDangling
\*   Catcher = {"pcall"}     INVARIANT Agreement
CONSTANTS
  Value = {a, b}
  LNil = lnil
  Unset = unset
  Catcher = {"xpcall"}
  Fault = {"error"}
  FrameSize = 1
  MaxFrames = 4
  MaxVars = 3
  MaxUpvalues = 2
  MaxCatches = 2
SPECIFICATION Spec
INVARIANT NoDangling
