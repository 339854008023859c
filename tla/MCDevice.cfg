SPECIFICATION DeviceSpec
CONSTANTS
  b1 = b1
  b2 = b2
  m1 = m1
  m2 = m2
  host = host
  cuda = cuda
  k1 = k1
  k2 = k2
  k3 = k3
  k4 = k4
  Buffers = {b1, b2}
  Matrices = {m1, m2}
  Backends = {host, cuda}
  Blocks = {k1, k2, k3, k4}
  Sizes = {0, 1}
SYMMETRY Symmetry
INVARIANTS
  BlocksHaveOneOwner
  MemoryIsSound
