CONSTANTS
  here = here
  there = there
  None = None
  Proc = {p1}
  Client = {1, 2}
  Server = {here, there}
  Body <- Incomplete
  Release <- TorrentFile
  MaxMishaps = 0
  MaxChanges = 1
SPECIFICATION Spec
INVARIANTS SentToItsKind
