SPECIFICATION ControlSpec
CONSTANTS
  MaxIterations = 4
  Agent = {"a", "b"}
  Builtin = {"b"}
  Setting = {"s", "t"}
  Wellformed = {"s", "t"}
  Loadable = {"s", "t"}
  Prompt = {"x", "y"}
  MaxCalls = 3
  MaxMishaps = 2
  Name = {"x", "y"}
  Role = {"d", "w"}
  DefaultRole = "d"
  Job = {1, 2, 3}
  FirstPort = 1
  Custom = {2}
  CustomFirst = FALSE
  MaxRestarts = 1
  Value <- TheValues
  Element <- TheElements
  Path = {"ci", "cost"}
  Held <- TheHeld
  Expected <- TheExpected
  Answer <- TheAnswers
  Profile = {"a", "b"}
  ProfileToken = {"p1", "p2"}
  TaskToken = {"t1", "t0"}
  BoundTo <- TheBindings
  Grants <- TheGrants
  Request = {1}
  Ticket = {1, 2}
  Claimer = {1, 2}
INVARIANTS LoopIsWhole CatalogLasts AddressIsOwn MatchingLaws VerdictIsEarned BearersKept
PROPERTIES SettledLoopIsOver IterationAnswered
CHECK_DEADLOCK FALSE
