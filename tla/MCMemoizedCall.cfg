SPECIFICATION Spec
CONSTANTS
  None = None
  MaxElems = 2
  MaxPairs = 2
  MaxFields = 2
  MaxKey = 14
  Overhead = 2
  KeyGenFunc <- NamedKeyFunc
  SameArgs <- DeepEqual
  Serialisable <- Encodes
  Image <- Decoded
  SizeOf <- LengthOf
  Up = {"up"}
  Scenarios <- MCScenarios
CHECK_DEADLOCK FALSE
INVARIANTS TypeOK Transparent ExactOrPanic PlainArgsApart StableKey
