SPECIFICATION CatalogSpec
CONSTANTS
  Agent = {"a", "b"}
  Builtin = {"b"}
  Setting = {"s", "blank"}
  Wellformed = {"s", "blank"}
  Loadable = {"s"}
  Prompt = {"x", "y"}
  MaxCalls = 3
  MaxMishaps = 0
INVARIANT CatalogLasts
CHECK_DEADLOCK FALSE
