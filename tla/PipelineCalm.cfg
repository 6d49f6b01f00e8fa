CONSTANTS
  near = near
  far = far
  far2 = far2
  pinned = pinned
  loose = loose
  None = None
  Proc = {p1, p2}
  Download = {near, far}
  Dest <- MCDest
  Device <- MCDevice
  Inode = {1, 2, 3, 4, 5, 6}
  Chunks = 2
  MaxMishaps = 0
  MaxFaults = 1
  Movie = {loose}
  Root = {1}
  PinnedRoot <- MCPinnedRoot
  FolderOf <- MCFolderOf
  LabelOf <- MCLabelOf
  RequestPath <- OneOrAll
  Slow = {}
SPECIFICATION Spec
INVARIANTS RecordedPresent HistoryExplains Refilled
SYMMETRY Alike
PROPERTIES WorkBounded
