CONSTANTS
  near = near
  far = far
  far2 = far2
  pinned = pinned
  loose = loose
  None = None
  Proc = {p1}
  Download = {far}
  Dest <- MCDest
  Device <- MCDevice
  Inode = {1, 2, 3, 4, 5}
  Chunks = 1
  MaxMishaps = 0
  MaxFaults = 0
  Movie = {pinned}
  Root = {1}
  PinnedRoot <- MCPinnedRoot
  FolderOf <- MCFolderOf
  LabelOf <- MCLabelOf
  RequestPath <- OneOrAll
  Slow = {far}
SPECIFICATION LiveSpec
PROPERTIES EventuallyImported
