SPECIFICATION Spec
CONSTANTS
  Bytes = {"a", "b"}
  Payloads <- MCPayloads
  FragFirst = 2
  FragMax = 3
  PartFirst = 4
  PartMax = 8
  MaxLen = 11
INVARIANTS WholeOrTooLarge NothingLeft BuffersFit
