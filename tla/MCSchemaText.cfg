SPECIFICATION Spec
CONSTANTS
  Tokens <- Everything
  MaxTokens = 4
INVARIANTS NamesReadBack ColumnsNeverCutShort OnlyCounterRemoved ForeignKeysReadBack
CHECK_DEADLOCK FALSE
