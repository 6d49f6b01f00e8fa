CONSTANTS
  here = here
  there = there
  None = None
  Proc = {p1, p2}
  Client = {1, 2}
  Server = {here, there}
  Body <- Plain
  Release <- Both
  MaxMishaps = 2
  MaxChanges = 1
SPECIFICATION LiveSpec
INVARIANTS TypeOK AckedIsReceived OneServer
PROPERTIES EventuallyReceived
