\* The first update of a sysroot without any boot/loader.
SPECIFICATION Spec
CONSTANTS
  a = a  b = b  c = c  k1 = k1  k2 = k2
  Lists = {a, b, c}
  Kernels = {k1, k2}
  NoList = NoList  NoKernel = NoKernel  Absent = Absent
  Kernel <- TwoKernels
  Symlinks = {TRUE}
  StartKinds = {"none"}
  MaxUpdates = 2
  MaxStops = 1
INVARIANT DirOnlyWithoutSymlinks
CHECK_DEADLOCK FALSE
