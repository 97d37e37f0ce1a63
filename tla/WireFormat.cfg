SPECIFICATION Spec
CONSTANTS
  Strings = {"", "abcde"}
  VarintRadix = 5
  MaxMessages = 3
  MaxEdits = 4
INVARIANTS ParsedIsMerged SizesAgree CopiesEqual
CHECK_DEADLOCK FALSE
