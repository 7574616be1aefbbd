SPECIFICATION Spec
CHECK_DEADLOCK FALSE
CONSTANTS
  c1 = c1
  s1 = s1
  s2 = s2
  None = None
  Streams <- TwoStreams
  Ids = {c1}
  Names = {"a", "b"}
  Inputs <- AllInputs
  Pipelines <- AllPipelines
  Modes <- AllModes
  HookThrows = TRUE
  Bound <- OwnInputs
CONSTRAINT EndsKept
INVARIANTS
  TypeOK
  Substituted
  IndexTrue
  SizeVerdict
  Enforced
  AuditShadow
  SummaryExact
  DangerStopped
