SPECIFICATION Spec
CHECK_DEADLOCK FALSE
CONSTANTS
  Byte <- AllBytes
  Mask = "#"
  Blank <- MCBlank
  Digit <- MCDigit
  SecretBody <- MCSecretBody
  SkLiteral <- MCSk
  BearerLiteral <- MCBearer
  TokenLiteral <- MCToken
  SecretPrefixes <- MCPrefixes
  SkMin = 2
  TokenMin = 2
  MessageKey = "m"
  Quote = "q"
  Lookback = 3
  MessageWindow = 1
  Chunks <- AllChunks
  OptionSets <- AllOptions
  Bound <- OneFamily
INVARIANTS
  TypeOK
  InPlace
  WindowKept
  ShortStreamWhole
  KeyHeadMasked
  HoldBounded
  MaskingRecorded
  SummaryAgrees
PROPERTIES
  ChannelSpec
