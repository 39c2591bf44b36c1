SPECIFICATION RoomsSpec
CONSTANTS
  Persona = {p, q}
  Human = human
  Poster = {human}
  Limit = 2
  Cap = 2
  HistoryLimit = 9
  MaxPosts = 2
  MaxEdits = 1
  Job = {j}
  Closer = {a, b}
  Local = {x, y}
  Afar = {z}
  Stop = {s}
  Found = Found
  None = None
  MaxDowns = 1
  Name = {n, m}
  Mode = {"nat", "bridged", "script"}
  Mac = {m1, m2}
  TemplateMac = m0
  BasePort = 22
  Published = {22}
  NoName = NoName
  Call = {k1, k2}
  FirstCall = k1
  Runner = {r}
  Fallback = fallback
  Anywhere = Anywhere
  Target <- Targets
  MaxInstances = 3
  Query = {q1, q2}
  Nothing = Nothing
  MaxRest = 1
  Tries = 3
SYMMETRY Alike
INVARIANTS CompletionsAccounted AnswersAreOwn RoomTurns DismissalDetaches SessionsTracked ReachesOwnVm
CHECK_DEADLOCK FALSE
