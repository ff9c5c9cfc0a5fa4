\* Two build machines that publish targets of one name to one backend.
SPECIFICATION Spec
CONSTANTS
  j1 = j1  j2 = j2  j3 = j3  j4 = j4  h1 = h1  h2 = h2  h3 = h3  h4 = h4
  repoA = repoA  repoB = repoB  branchA = branchA
  Jobs = {j1, j2}
  Trees = {"x"}
  Hashes = {h1, h2, h3}
  Names = {branchA}
  NoHash = NoHash  NoTree = NoTree  Free = Free
  Repo <- TwoRepos
  Branch <- OneBranch
  SignRepo <- TwoRepos
  SignLock <- TwoRepos
  Name <- OneBranch
  Override <- NoOverride
  Creds <- AllOffline
  Misconfigured = {}
  PushRetries = 2
  MaxStarts = 3
  MaxFaults = 3
INVARIANTS SignedIsRegistered RetryExplained SignedIsUploaded
PROPERTY PublishesAtomically
SYMMETRY HashSymmetry
CHECK_DEADLOCK FALSE
