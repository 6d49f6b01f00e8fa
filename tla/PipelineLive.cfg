CONSTANTS
  near = near
  far = far
  far2 = far2
  pinned = pinned
  loose = loose
  None = None
  Proc = {p1, p2}
  Download = {far}
  Dest <- MCDest
  Device <- MCDevice
  Inode = {1, 2, 3, 4, 5}
  Chunks = 1
  MaxMishaps = 1
  MaxFaults = 1
  Movie = {pinned}
  Root = {1}
  PinnedRoot <- MCPinnedRoot
  FolderOf <- MCFolderOf
  LabelOf <- MCLabelOf
  RequestPath <- OneOrAll
  Slow = {}
SPECIFICATION LiveSpec
INVARIANTS TypeOK AckedIsRecorded
PROPERTIES KeepsLibrary UsesImporter EventuallyImported
