CONSTANTS
  MaxRetryAfter = 2
  SchemaNames = {1}
  MaxHooks = 2
  MaxClicks = 5
SPECIFICATION FairSpec
INVARIANTS
  BusyFlagsAreTrue
  LockoutHolds
  ListIsServer
PROPERTIES
  ConsoleSettles
CHECK_DEADLOCK FALSE
