CONSTANTS
  near = near
  far = far
  far2 = far2
  pinned = pinned
  loose = loose
  None = None
  Proc = {p1, p2}
  Download = {near, far2}
  Dest <- MCDest
  Device <- MCDevice
  Inode = {1, 2, 3, 4, 5, 6}
  Chunks = 1
  MaxMishaps = 1
  MaxFaults = 0
  Movie = {pinned}
  Root = {1, 2}
  PinnedRoot <- MCPinnedRoot
  FolderOf <- MCFolderOf
  LabelOf <- MCLabelOf
  RequestPath <- OneOrAll
  Slow = {}
SPECIFICATION Spec
INVARIANTS PinnedPathsAgree FilesLabelled
SYMMETRY Alike
