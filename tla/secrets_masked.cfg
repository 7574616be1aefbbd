SPECIFICATION Spec
CHECK_DEADLOCK FALSE
CONSTANTS
  Byte <- AllBytes
  Mask = "#"
  Blank <- MCBlank
  Digit <- MCDigit
  SecretBody <- MCSecretBody
  SkLiteral <- MCSk
  BearerLiteral <- MCBearer
  TokenLiteral <- MCToken
  SecretPrefixes <- MCPrefixes
  SkMin = 2
  TokenMin = 2
  MessageKey = "m"
  Quote = "q"
  Lookback = 4
  MessageWindow = 1
  Chunks <- TightChunks
  OptionSets <- RedactOnly
  Bound <- Up8
INVARIANTS
  SecretsMasked
