SPECIFICATION PlatformSpec
CONSTANTS
  TheServer = s
  Server = {s}
  Catalog = {s}
  Caller = {a}
  MaxConns = 2
  MaxEdits = 1
  None = None
  Unset = Unset
  Loop = Loop
  Lan = Lan
  Web = Web
  Star = Star
  Exact = Exact
  GlobA = GlobA
  GlobB = GlobB
  Host <- TheHosts
  Pattern <- ThePatterns
  Covers <- TheCovers
  Specificity <- TheSpecificity
  Alphabetic <- TheOrder
  BaseRules <- TheBase
  Hint <- TheHint
  Provider <- TheProviders
  Capability <- TheCapabilities
  GlobalCeiling = 3
  Env <- TheEnvs
  Runner = {a1, b1}
  LocalOnly = {b1}
  Item = {i1, i2}
  Polls = 2
  Nobody = Nobody
  Worker = {w1, w2}
  Edit = {e1, e2}
  File = {f1, f2}
  Cli = {c1, c2, c3}
  MaxPid = 2
  NoFile = NoFile
  Empty = Empty
INVARIANTS WholeBundle DaemonIsFound ResidencyKept PolicyIsRight ItemsReachRunners
PROPERTIES ImplementsHandoff
SYMMETRY Symmetric
CHECK_DEADLOCK FALSE
