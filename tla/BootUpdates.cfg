\* Updates of a device built with a loader link, a loader directory or no loader, on a file
\* system with symbolic links or without (an ESP);
\* and entries of images with unified kernel images, made by a libostree with the patch or without.
SPECIFICATION BootSpec
CONSTANTS
  a = a  b = b  c = c  k1 = k1  k2 = k2
  Lists = {a, b, c}
  Kernels = {k1, k2}
  NoList = NoList  NoKernel = NoKernel  Absent = Absent
  Kernel <- TwoKernels
  Symlinks = {TRUE, FALSE}
  StartKinds = {"none", "bare", "link", "dir"}
  MaxUpdates = 3
  MaxStops = 2
  Images = {"old", "nextk", "tuned", "plain"}
  ImageKernel <- MCKernel
  ImageUki <- MCUki
  Resting = "old"
  NoFile = "none"
  Patched = {"nextk", "tuned", "plain"}
  MaxDeploys = 5
INVARIANTS Boots EntryBoots
PROPERTIES SwitchesAtomically KeepsLoaderConf UpdatesSucceed EntryKept
CHECK_DEADLOCK FALSE
