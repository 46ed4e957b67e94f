--------------------------- MODULE RepoAccess_proofs ---------------------------
(***************************************************************************)
(* The exclusion guarantees of RepoAccess for any threads, processes and   *)
(* hooks.  Inter-process exclusion is not inductive: that two writers do   *)
(* not meet follows from each of them having the file (WriterHasFile), and *)
(* that the file is there to be taken only when no such writer is left     *)
(* from FileInsideLock and from the exclusion within the process.          *)
(***************************************************************************)
EXTENDS RepoAccess, TLAPS

\* Only a writer goes for the file, or gives it back.
FileIsForWriters == \A t \in Thread : pc[t] \in {"file", "unlock"} => mode[t] = "exclusive"

\* Where files lock, a writer that is no commit hook has the file.
WriterHasFile ==
  ~FileLockFails => \A t \in Thread : Exclusive(t) /\ ~InHook(t) => file = t

IInv ==
  /\ TypeOK
  /\ FileIsForWriters
  /\ InProcessExclusion
  /\ FileInsideLock
  /\ WriterHasFile

-----------------------------------------------------------------------------
\* The variables keep their types: the type invariant of the lock model.
THEOREM TypeCorrect == Spec => []TypeOK
<1> USE RepoAccessAssumption DEF TypeOK
<1>1. Init => TypeOK
  BY DEF Init
<1>2. TypeOK /\ [Next]_vars => TypeOK'
  <2> SUFFICES ASSUME TypeOK, [Next]_vars PROVE TypeOK'
    OBVIOUS
  <2>1. ASSUME NEW t \in Thread, NEW m \in {"shared", "exclusive"}, Request(t, m)
        PROVE  TypeOK'
    <3>1. ProcessOf[t] \in Process
      OBVIOUS
    <3>2. Append(queue[ProcessOf[t]], t) \in Seq(Thread)
      BY <3>1
    <3> QED BY <2>1, <3>1, <3>2 DEF Request
  <2>2. ASSUME NEW t \in Thread, Grant(t) PROVE TypeOK'
    <3>1. ProcessOf[t] \in Process
      OBVIOUS
    <3>2. Tail(queue[ProcessOf[t]]) \in Seq(Thread)
      BY <2>2, <3>1 DEF Grant
    <3> QED BY <2>2, <3>1, <3>2 DEF Grant
  <2>3. ASSUME NEW t \in Thread, BestEffortLock(t) PROVE TypeOK'
    BY <2>3 DEF BestEffortLock, LockFile, SkipFile
  <2>4. ASSUME NEW t \in Thread, Release(t) PROVE TypeOK'
    BY <2>4 DEF Release, ReleaseShared, UnlockFile, UnlockProcess
  <2>5. ASSUME NEW t \in Thread, NEW h \in HookProcess, LaunchHook(t, h) PROVE TypeOK'
    BY <2>5 DEF LaunchHook
  <2>6. ASSUME NEW h \in HookProcess, GitRunsHook(h) \/ HookExit(h) PROVE TypeOK'
    BY <2>6 DEF GitRunsHook, HookExit
  <2>7. ASSUME NEW p \in Process, Crash(p) PROVE TypeOK'
    <3>1. pc' \in [Thread -> {"idle", "queued", "file", "held", "unlock"}]
      BY <2>7 DEF Crash
    <3>2. queue' \in [Process -> Seq(Thread)]
      BY <2>7 DEF Crash
    <3>3. parent' \in [HookProcess -> Thread \cup {Nobody, Git, Orphan}]
      BY <2>7 DEF Crash
    <3> QED BY <2>7, <3>1, <3>2, <3>3 DEF Crash
  <2>8. CASE UNCHANGED vars
    BY <2>8 DEF vars
  <2> QED BY <2>1, <2>2, <2>3, <2>4, <2>5, <2>6, <2>7, <2>8 DEF Next
<1> QED BY <1>1, <1>2, PTL DEF Spec

-----------------------------------------------------------------------------
\* Every step keeps what the exclusion guarantees rest on.
LEMMA InductiveStep ==
  ASSUME IInv, TypeOK', [Next]_vars
  PROVE  IInv'
<1> USE RepoAccessAssumption
        DEF IInv, TypeOK, FileIsForWriters, InProcessExclusion, FileInsideLock, WriterHasFile,
            Owns, Writes, Exclusive, InHook
<1>1. ASSUME NEW t \in Thread, NEW m \in {"shared", "exclusive"}, Request(t, m)
      PROVE  IInv'
  BY <1>1 DEF Request
<1>2. ASSUME NEW t \in Thread, Grant(t) PROVE IInv'
  <2>1. FileIsForWriters'
    BY <1>2 DEF Grant
  <2>2. InProcessExclusion'
    BY <1>2 DEF Grant, ThreadsOf
  <2>3. file # t
    BY <1>2 DEF Grant, ThreadsOf
  <2>4. FileInsideLock' /\ WriterHasFile'
    BY <1>2, <2>3 DEF Grant
  <2> QED BY <2>1, <2>2, <2>4
<1>3. ASSUME NEW t \in Thread, LockFile(t) PROVE IInv'
  BY <1>3 DEF LockFile
<1>4. ASSUME NEW t \in Thread, SkipFile(t) PROVE IInv'
  BY <1>4 DEF SkipFile
<1>5. ASSUME NEW t \in Thread, ReleaseShared(t) PROVE IInv'
  BY <1>5 DEF ReleaseShared
<1>6. ASSUME NEW t \in Thread, UnlockFile(t) PROVE IInv'
  BY <1>6 DEF UnlockFile
<1>7. ASSUME NEW t \in Thread, UnlockProcess(t) PROVE IInv'
  BY <1>7 DEF UnlockProcess
<1>8. ASSUME NEW t \in Thread, NEW h \in HookProcess, LaunchHook(t, h) PROVE IInv'
  BY <1>8 DEF LaunchHook
<1>9. ASSUME NEW h \in HookProcess, GitRunsHook(h) \/ HookExit(h) PROVE IInv'
  BY <1>9 DEF GitRunsHook, HookExit
<1>10. ASSUME NEW p \in Process, Crash(p) PROVE IInv'
  <2>1. /\ \A t \in Thread : pc'[t] = IF ProcessOf[t] = p THEN "idle" ELSE pc[t]
        /\ mode' = mode
        /\ file' = IF file \in Thread /\ ProcessOf[file] = p THEN Nobody ELSE file
    BY <1>10 DEF Crash, ThreadsOf
  <2>2. FileIsForWriters' /\ InProcessExclusion'
    <3>1. FileIsForWriters'
      BY <2>1
    <3>2. InProcessExclusion'
      <4> SUFFICES ASSUME NEW t \in Thread, NEW u \in Thread, t # u,
                          ProcessOf[t] = ProcessOf[u], Writes(t)', Owns(u)'
                   PROVE  FALSE
        OBVIOUS
      <4>1. ProcessOf[t] # p /\ Writes(t) /\ Owns(u)
        BY <2>1
      <4> QED BY <4>1
    <3> QED BY <3>1, <3>2
  <2>3. FileInsideLock'
    BY <2>1
  <2>4. WriterHasFile'
    <3> SUFFICES ASSUME ~FileLockFails, NEW t \in Thread, Exclusive(t)', ~InHook(t)
                 PROVE  file' = t
      BY DEF InHook
    <3>1. ProcessOf[t] # p /\ Exclusive(t)
      BY <2>1
    <3> QED BY <2>1, <3>1
  <2> QED BY <2>2, <2>3, <2>4
<1>11. CASE UNCHANGED vars
  BY <1>11 DEF vars
<1> QED
  BY <1>1, <1>2, <1>3, <1>4, <1>5, <1>6, <1>7, <1>8, <1>9, <1>10, <1>11
  DEF Next, BestEffortLock, Release

\* What the exclusion guarantees rest on holds throughout.
LEMMA Inductive == Spec => []IInv
<1>1. Init => IInv
  BY RepoAccessAssumption
  DEF Init, IInv, TypeOK, FileIsForWriters, InProcessExclusion, FileInsideLock, WriterHasFile,
      Owns, Writes, Exclusive
<1>2. IInv /\ TypeOK' /\ [Next]_vars => IInv'
  BY InductiveStep
<1> QED BY <1>1, <1>2, TypeCorrect, PTL DEF Spec

\* The hard guarantee of exclusive_repo_access, for any number of threads,
\* processes and hooks, whatever the file system does.
THEOREM InProcessExclusionHolds == Spec => []InProcessExclusion
<1>1. IInv => InProcessExclusion
  BY DEF IInv
<1> QED BY <1>1, Inductive, PTL

\* The file lock lies within the in-process lock, crashes included.
THEOREM FileInsideLockHolds == Spec => []FileInsideLock
<1>1. IInv => FileInsideLock
  BY DEF IInv
<1> QED BY <1>1, Inductive, PTL

\* The best-effort guarantee: where files lock, only a commit hook ever holds
\* an exclusive guard beside another thread.
THEOREM InterProcessExclusionHolds == Spec => []InterProcessExclusion
<1>1. IInv => InterProcessExclusion
  BY DEF IInv, WriterHasFile, InterProcessExclusion
<1> QED BY <1>1, Inductive, PTL
==============================================================================
