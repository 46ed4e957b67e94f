\* Three processes, one of them a commit hook of a GitButler command or of `git commit`.
SPECIFICATION FairSpec
CONSTANTS
  a1 = a1
  a2 = a2
  b1 = b1
  h1 = h1
  A = A
  B = B
  H = H
  Thread <- AllThreads
  Process <- AllProcesses
  ProcessOf <- AllProcessOf
  HookProcess <- Hooks
  Nobody = Nobody
  Git = Git
  Orphan = Orphan
  FileLockFails = FALSE
  GitCommits = TRUE
INVARIANTS
  TypeOK
  InProcessExclusion
  InterProcessExclusion
  FileInsideLock
PROPERTIES
  HookReturns
  EveryRequestEnds
