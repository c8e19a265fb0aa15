CONSTANTS
  Number <- MCNumber
  Other = {}
  Value = {a, b}
  LNil = lnil
  MaxArrayIndex = 3
  MaxLength = 4
SYMMETRY ValueSymmetry
SPECIFICATION Spec
INVARIANTS TypeOK KeysIndexed VisitedInOrder NextIsNew
PROPERTIES ImplementsLuaTable OperationsAgree
