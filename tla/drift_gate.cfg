SPECIFICATION Spec
CHECK_DEADLOCK FALSE
CONSTANTS
  None = None
  Unreadable = Unreadable
  t1 = t1
  t2 = t2
  t3 = t3
  Names = {t1, t2, t3}
  Refs = {}
  DangerIds = {"D001", "D002"}
  PathNames = {"manifest.json", "x.json", "x.yaml", "m.yml", "agent.tools.yaml", "tools.json", "a.tools.json", "missing.json",
               "tools", "test", "fixtures", "policies", "invalid", "p", "q", "b", "dist", "inside"}
  Json = {"manifest.json", "x.json", "tools.json", "a.tools.json"}
  Structured = {"manifest.json", "x.json", "x.yaml", "m.yml", "agent.tools.yaml", "tools.json", "a.tools.json"}
  AgentTools = {"agent.tools.yaml"}
  ToolsNames = {"tools", "tools.json", "a.tools.json", "agent.tools.yaml"}
  Byte <- Symbols
  Mask = "#"
  Blank <- MCBlank
  Digit <- MCDigit
  SecretBody <- MCSecretBody
  SkLiteral <- MCSk
  BearerLiteral <- MCBearer
  TokenLiteral <- MCToken
  SecretPrefixes <- MCPrefixes
  SkMin = 2
  TokenMin = 2
  MessageKey = "m"
  Quote = "q"
  Lookback = 3
  MessageWindow = 1
  Jobs <- UnreadableJobs
INVARIANT
  DriftGate
