CONSTANTS
  old = old
  new = new
  known = known
  unknown = unknown
  r1 = r1
  None = None
  Instance = {old, new}
  Release <- MCRelease
  Latest = 2
  MaxMishaps = 1
  MaxFaults = 1
  Proc = {p1, p2}
  Movie = {known, unknown}
  Listed = {known}
  Configured = TRUE
  Root = {r1}
  Profile = {0, 1, 9}
  Asked <- MCAsked
SPECIFICATION LiveSpec
INVARIANTS TypeOK AnswersTrue NeverOutOfDate MigratedOnce
PROPERTIES KeepsTable EventuallyAdded
