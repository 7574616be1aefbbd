SPECIFICATION Spec
CHECK_DEADLOCK FALSE
CONSTANTS
  c1 = c1
  s1 = s1
  s2 = s2
  None = None
  Streams <- OneStream
  Ids = {c1}
  Names = {"a", "b"}
  Inputs <- SizeInputs
  Pipelines <- OneLimit
  Modes <- BlockMode
  HookThrows = FALSE
  Bound <- TwoEvents
INVARIANTS
  StreamingLimit
