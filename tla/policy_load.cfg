SPECIFICATION Spec
CHECK_DEADLOCK FALSE
CONSTANTS
  None = None
  a = a
  b = b
  c = c
  top = top
  d = d
  n = n
  up = up
  upup = upup
  here = here
  down = down
  below = below
  gate = gate
  t1 = t1
  t2 = t2
  t3 = t3
  Names = {t1, t2, t3}
  Refs <- AllRefs
  Files <- ThreeFiles
  Dirs <- ThreeDirs
  Root = a
  DirOf <- Home
  Target <- Join
  Profiles <- AgentGate
  FileSystems <- AllFiles
  Options <- AllSettings
  MAX_EXTENDS_DEPTH = 2
INVARIANTS
  TypeOK
  CycleCaught
  DepthExact
  Inherited
  Precedence
PROPERTIES
  LoadEnds
