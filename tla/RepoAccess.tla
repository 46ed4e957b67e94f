----------------------------- MODULE RepoAccess -----------------------------
(***************************************************************************)
(* Access to one repository (crates/but-core/src/sync.rs).  Within a       *)
(* process a fair reader-writer lock per git directory admits many readers *)
(* or one writer.  A writer then also tries for a file lock that all       *)
(* processes share, as best it can: it goes on without it when the file    *)
(* cannot be locked, and, in a process that runs as a Git commit hook,     *)
(* when someone else holds it, since that may be the command that launched *)
(* the hook and waits for it.  Readers never touch the file.               *)
(***************************************************************************)
EXTENDS Naturals, Sequences, FiniteSets

CONSTANTS Thread,        \* threads of all the processes
          Process,       \* GitButler processes
          ProcessOf,     \* the process of a thread
          HookProcess,   \* processes with Git's commit-hook environment
          Nobody, Git, Orphan,
          FileLockFails, \* may locking the file fail, or be unsupported?
          GitCommits     \* does the user also run `git commit`, hooks and all?

ASSUME RepoAccessAssumption ==
  /\ ProcessOf \in [Thread -> Process]
  /\ HookProcess \subseteq Process
  /\ {Nobody, Git, Orphan} \cap Thread = {}
  /\ Nobody # Git /\ Nobody # Orphan
  /\ FileLockFails \in BOOLEAN /\ GitCommits \in BOOLEAN

VARIABLES pc,     \* where a thread is: idle, queued, locking the file, holding, unlocking
          mode,   \* what it asked for last
          queue,  \* the threads parked on the lock of a process, first come first served
          file,   \* who holds gitbutler.write-lock
          parent  \* who waits for a hook process: a thread, Git, nobody any more, or it is not running
vars == <<pc, mode, queue, file, parent>>

\* Types: in particular a hook's parent is a thread, Git, or gone.
TypeOK ==
  /\ pc \in [Thread -> {"idle", "queued", "file", "held", "unlock"}]
  /\ mode \in [Thread -> {"shared", "exclusive"}]
  /\ queue \in [Process -> Seq(Thread)]
  /\ file \in Thread \cup {Nobody}
  /\ parent \in [HookProcess -> Thread \cup {Nobody, Git, Orphan}]

Init ==
  /\ pc = [t \in Thread |-> "idle"]
  /\ mode = [t \in Thread |-> "shared"]
  /\ queue = [p \in Process |-> <<>>]
  /\ file = Nobody
  /\ parent = [h \in HookProcess |-> Nobody]

InHook(t) == ProcessOf[t] \in HookProcess
Running(t) == InHook(t) => parent[ProcessOf[t]] # Nobody
AwaitsHook(t) == \E h \in HookProcess : parent[h] = t
ThreadsOf(p) == {t \in Thread : ProcessOf[t] = p}

\* Threads that own the in-process lock.
Owns(t) == pc[t] \in {"file", "held", "unlock"}
Writes(t) == Owns(t) /\ mode[t] = "exclusive"
\* Threads that hold a RepoExclusiveGuard.
Exclusive(t) == pc[t] = "held" /\ mode[t] = "exclusive"

\* exclusive_repo_access / shared_repo_access up to where they block.
Request(t, m) ==
  /\ pc[t] = "idle"
  /\ Running(t)
  /\ pc' = [pc EXCEPT ![t] = "queued"]
  /\ mode' = [mode EXCEPT ![t] = m]
  /\ queue' = [queue EXCEPT ![ProcessOf[t]] = Append(@, t)]
  /\ UNCHANGED <<file, parent>>

\* Mutant: a writer does not wait for the readers.
GrantDespiteReaders(t) ==
  LET p == ProcessOf[t]
  IN /\ queue[p] # <<>> /\ Head(queue[p]) = t
     /\ \A u \in ThreadsOf(p) : ~Writes(u)
     /\ queue' = [queue EXCEPT ![p] = Tail(@)]
     /\ pc' = [pc EXCEPT ![t] = IF mode[t] = "shared" THEN "held" ELSE "file"]
     /\ UNCHANGED <<mode, file, parent>>

\* Mutant: readers overtake the writers that wait.
GrantReadersFirst(t) ==
  LET p == ProcessOf[t]
  IN /\ pc[t] = "queued"
     /\ mode[t] = "shared" \/ Head(queue[p]) = t
     /\ \A u \in ThreadsOf(p) : Owns(u) => mode[u] = "shared" /\ mode[t] = "shared"
     /\ queue' = [queue EXCEPT ![p] = SelectSeq(@, LAMBDA u : u # t)]
     /\ pc' = [pc EXCEPT ![t] = IF mode[t] = "shared" THEN "held" ELSE "file"]
     /\ UNCHANGED <<mode, file, parent>>

\* The lock of the process hands itself to the thread that waits longest.
Grant(t) ==
  LET p == ProcessOf[t]
  IN /\ queue[p] # <<>> /\ Head(queue[p]) = t
     /\ \A u \in ThreadsOf(p) : Owns(u) => mode[u] = "shared" /\ mode[t] = "shared"
     /\ queue' = [queue EXCEPT ![p] = Tail(@)]
     /\ pc' = [pc EXCEPT ![t] = IF mode[t] = "shared" THEN "held" ELSE "file"]
     /\ UNCHANGED <<mode, file, parent>>

\* best_effort_inter_process_lock: with the file lock ...
LockFile(t) ==
  /\ pc[t] = "file"
  /\ file = Nobody
  /\ file' = t
  /\ pc' = [pc EXCEPT ![t] = "held"]
  /\ UNCHANGED <<mode, queue, parent>>

\* Mutant: every process goes on without the file when it is taken.
SkipTakenFile(t) ==
  /\ pc[t] = "file"
  /\ FileLockFails \/ file # Nobody
  /\ pc' = [pc EXCEPT ![t] = "held"]
  /\ UNCHANGED <<mode, queue, file, parent>>

\* Mutant: a commit hook waits for the file like everyone else.
SkipBrokenFile(t) ==
  /\ pc[t] = "file"
  /\ FileLockFails
  /\ pc' = [pc EXCEPT ![t] = "held"]
  /\ UNCHANGED <<mode, queue, file, parent>>

\* ... or without it.
SkipFile(t) ==
  /\ pc[t] = "file"
  /\ FileLockFails \/ (InHook(t) /\ file # Nobody)
  /\ pc' = [pc EXCEPT ![t] = "held"]
  /\ UNCHANGED <<mode, queue, file, parent>>

BestEffortLock(t) == LockFile(t) \/ SkipFile(t)

ReleaseShared(t) ==
  /\ pc[t] = "held" /\ mode[t] = "shared"
  /\ pc' = [pc EXCEPT ![t] = "idle"]
  /\ UNCHANGED <<mode, queue, file, parent>>

\* Mutant: the file stays locked.
UnlockFileNever(t) ==
  /\ Exclusive(t)
  /\ ~AwaitsHook(t)
  /\ pc' = [pc EXCEPT ![t] = "unlock"]
  /\ UNCHANGED <<mode, queue, file, parent>>

\* Dropping a RepoExclusiveGuard: the file first, then the in-process lock.
UnlockFile(t) ==
  /\ Exclusive(t)
  /\ ~AwaitsHook(t)
  /\ file' = IF file = t THEN Nobody ELSE file
  /\ pc' = [pc EXCEPT ![t] = "unlock"]
  /\ UNCHANGED <<mode, queue, parent>>

UnlockProcess(t) ==
  /\ pc[t] = "unlock"
  /\ pc' = [pc EXCEPT ![t] = "idle"]
  /\ UNCHANGED <<mode, queue, file, parent>>

Release(t) == ReleaseShared(t) \/ UnlockFile(t) \/ UnlockProcess(t)

\* A writer runs a commit hook that calls GitButler again, and waits for it.
LaunchHook(t, h) ==
  /\ Exclusive(t) /\ ~InHook(t) /\ ~AwaitsHook(t)
  /\ parent[h] = Nobody
  /\ parent' = [parent EXCEPT ![h] = t]
  /\ UNCHANGED <<pc, mode, queue, file>>

\* Git itself does, for a `git commit` of the user.
GitRunsHook(h) ==
  /\ GitCommits
  /\ parent[h] = Nobody
  /\ parent' = [parent EXCEPT ![h] = Git]
  /\ UNCHANGED <<pc, mode, queue, file>>

HookExit(h) ==
  /\ parent[h] # Nobody
  /\ \A t \in ThreadsOf(h) : pc[t] = "idle"
  /\ parent' = [parent EXCEPT ![h] = Nobody]
  /\ UNCHANGED <<pc, mode, queue, file>>

\* Mutant: an orphaned hook goes on naming its dead parent, by its process.
CrashNamingProcess(p) ==
  /\ \E t \in ThreadsOf(p) : pc[t] # "idle"
  /\ pc' = [t \in Thread |-> IF ProcessOf[t] = p THEN "idle" ELSE pc[t]]
  /\ queue' = [queue EXCEPT ![p] = <<>>]
  /\ file' = IF file \in ThreadsOf(p) THEN Nobody ELSE file
  /\ parent' = [h \in HookProcess |->
                  IF h = p THEN Nobody ELSE IF parent[h] \in ThreadsOf(p) THEN p ELSE parent[h]]
  /\ UNCHANGED mode

\* A process is killed.  The operating system frees its file lock; the hooks it
\* launched run on.
Crash(p) ==
  /\ \E t \in ThreadsOf(p) : pc[t] # "idle"
  /\ pc' = [t \in Thread |-> IF ProcessOf[t] = p THEN "idle" ELSE pc[t]]
  /\ queue' = [queue EXCEPT ![p] = <<>>]
  /\ file' = IF file \in ThreadsOf(p) THEN Nobody ELSE file
  /\ parent' = [h \in HookProcess |->
                  IF h = p THEN Nobody ELSE IF parent[h] \in ThreadsOf(p) THEN Orphan ELSE parent[h]]
  /\ UNCHANGED mode

Next ==
  \/ \E t \in Thread :
       \/ \E m \in {"shared", "exclusive"} : Request(t, m)
       \/ Grant(t) \/ BestEffortLock(t) \/ Release(t)
       \/ \E h \in HookProcess : LaunchHook(t, h)
  \/ \E h \in HookProcess : GitRunsHook(h) \/ HookExit(h)
  \/ \E p \in Process : Crash(p)

Spec == Init /\ [][Next]_vars

\* The lock of a process is fair; whoever holds a guard gives it back, and runs
\* finitely many hooks meanwhile; a hook runs finitely many commands.  Of the file
\* lock, which is not fair, only this is assumed: it is not withheld from a
\* thread for ever while nobody else takes it.
Fairness ==
  /\ \A t \in Thread : WF_vars(Grant(t)) /\ WF_vars(BestEffortLock(t)) /\ SF_vars(Release(t))
  /\ \A h \in HookProcess : SF_vars(HookExit(h))

FairSpec == Spec /\ Fairness

-----------------------------------------------------------------------------
\* The hard guarantee of exclusive_repo_access: in a process, whoever owns the
\* lock to write owns it alone, whatever happens to the file.
InProcessExclusion ==
  \A t, u \in Thread :
    t # u /\ ProcessOf[t] = ProcessOf[u] /\ Writes(t) => ~Owns(u)

\* The best-effort guarantee, on a file system that locks: of two guards in
\* different processes at once, one is a commit hook's.
InterProcessExclusion ==
  ~FileLockFails =>
    \A t, u \in Thread :
      t # u /\ Exclusive(t) /\ Exclusive(u) => InHook(t) \/ InHook(u)

\* The file is never held by a thread that has not, or no longer, the lock of
\* its process: the two are taken and given back in opposite order, also on a crash.
FileInsideLock == file # Nobody => Writes(file) /\ pc[file] = "held"

\* A writer that runs a hook is not left waiting for it: the hook, which may
\* want the very lock its parent holds, ends.
HookReturns ==
  \A h \in HookProcess, t \in Thread : parent[h] = t ~> parent[h] # t

\* No request is left behind, by readers or by writers.
EveryRequestEnds ==
  (\A t \in Thread : SF_vars(LockFile(t))) =>
    \A t \in Thread : pc[t] = "queued" ~> pc[t] # "queued"
==============================================================================
