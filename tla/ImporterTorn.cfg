CONSTANTS
  near = near
  far = far
  far2 = far2
  Torn = Torn
  None = None
  Proc = {p1, p2}
  Download = {far, far2}
  Dest = {lib}
  Device <- MCDevice
  Inode = {1, 2, 3, 4, 5, 6}
  Chunks = 2
  MaxMishaps = 0
SPECIFICATION SpecH
INVARIANTS DestWhole
