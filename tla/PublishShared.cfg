\* Two images of one machine: one repository, one branch, one signing directory. A third sets both
\* expiry variables, the credentials of a fourth are missing.
SPECIFICATION FairSpec
CONSTANTS
  j1 = j1  j2 = j2  j3 = j3  j4 = j4  h1 = h1  h2 = h2  h3 = h3  h4 = h4
  repoA = repoA  repoB = repoB  branchA = branchA
  Jobs = {j1, j2, j3, j4}
  Trees = {"x", "y"}
  Hashes = {h1, h2}
  Names = {branchA}
  NoHash = NoHash  NoTree = NoTree  Free = Free
  Repo <- OneRepo
  Branch <- OneBranch
  SignRepo <- OneRepo
  SignLock <- OneRepo
  Name <- OneBranch
  Override <- NoOverride
  Creds <- MissingLast
  Misconfigured = {j3}
  PushRetries = 2
  MaxStarts = 2
  MaxFaults = 1
INVARIANTS HoldersWork SignDirPrivate OtaIsOwnTree DoneIsPublished
PROPERTY TasksEnd
CHECK_DEADLOCK FALSE
