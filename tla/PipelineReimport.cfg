CONSTANTS
  near = near
  far = far
  far2 = far2
  pinned = pinned
  loose = loose
  None = None
  Proc = {p1}
  Download = {near, far}
  Dest <- MCDest
  Device <- MCDevice
  Inode = {1, 2, 3, 4, 5, 6}
  Chunks = 1
  MaxMishaps = 0
  MaxFaults = 0
  Movie = {pinned}
  Root = {1}
  PinnedRoot <- MCPinnedRoot
  FolderOf <- MCFolderOf
  LabelOf <- MCLabelOf
  RequestPath <- LibraryToo
  Slow = {}
SPECIFICATION Spec
INVARIANTS RecordedPresent
