------------------------- MODULE ProjectOnDisk_proofs -------------------------
(***************************************************************************)
(* Proofs about ProjectOnDisk, for any set of changes, any log and any     *)
(* number of errors and crashes.                                           *)
(***************************************************************************)
EXTENDS ProjectOnDisk, TLAPS

USE DEF vars, refVars, editVars, logVars, historyVars, Begin, Then, Finish, Fail

-----------------------------------------------------------------------------
(* Types.                                                                    *)

\* A commit has a tree.
LEMMA TreeIsTree == ASSUME NEW commit \in Commit PROVE TreeOf(commit) \in Tree
BY DEF Commit, TreeOf

\* A merge of trees is a tree.
LEMMA MergedIsTree ==
  ASSUME NEW t \in Tree, NEW from \in Tree, NEW to \in Tree
  PROVE Merged(t, from, to) \in Tree
BY DEF Merged, Tree

\* What is recorded of a project is a snapshot.
LEMMA PreparedIsSnapshot == ASSUME ProjectOK PROVE Prepared \in Snapshot
BY DEF ProjectOK, Prepared, Snapshot

\* Replacing the tree of a commit leaves a commit.
LEMMA RebasedIsCommit ==
  ASSUME NEW old \in Commit, NEW i \in DOMAIN old, NEW t \in Tree
  PROVE Rebased(old, i, t) \in Commit
<1>1. \A j \in DOMAIN old : (IF j < i THEN old[j] ELSE Merged(old[j], old[i], t)) \in Tree
  BY MergedIsTree DEF Commit
<1>2. DOMAIN old = 1 .. Len(old) /\ Len(old) \in Nat \ {0}
  BY DEF Commit
<1>3. Rebased(old, i, t) \in [1 .. Len(old) -> Tree]
  BY <1>1, <1>2 DEF Rebased
<1> QED BY <1>2, <1>3 DEF Commit

\* A user's step keeps the types.
LEMMA UserTypes ==
  ASSUME TypeOK, NEW c \in Change, Write(c) \/ Delete(c)
  PROVE TypeOK'
<1>1. ProjectOK' BY DEF TypeOK, ProjectOK, Write, Delete, Tree
<1>2. LogOK' BY DEF TypeOK, LogOK, Write, Delete
<1>3. JobOK' BY DEF TypeOK, JobOK, Write, Delete
<1>4. HistoryOK' BY DEF TypeOK, HistoryOK, Write, Delete, Tree
<1> QED BY <1>1, <1>2, <1>3, <1>4 DEF TypeOK

\* So does the beginning of an operation.
LEMMA RequestTypes == ASSUME TypeOK, Request PROVE TypeOK'
<1> USE DEF TypeOK
<1>1. ASSUME NEW i \in 2 .. Len(workspace), Enter(SubSeq(workspace, 1, i)) PROVE TypeOK'
  <2>1. SubSeq(workspace, 1, i) \in Commit BY DEF ProjectOK, Commit
  <2>2. Uncommitted \in [added : Tree, removed : Tree]
    BY TreeIsTree DEF ProjectOK, Uncommitted, Tree
  <2>3. ProjectOK' BY <1>1 DEF ProjectOK, Enter
  <2>4. LogOK' BY <1>1 DEF LogOK, Enter
  <2>5. JobOK' BY <1>1, <2>1, PreparedIsSnapshot DEF JobOK, Enter
  <2>6. HistoryOK' BY <1>1, <2>2 DEF HistoryOK, Enter, Tree
  <2> QED BY <2>3, <2>4, <2>5, <2>6
<1>2. ASSUME NEW force \in BOOLEAN, Abort(force) PROVE TypeOK'
  BY <1>2 DEF Abort, ProjectOK, LogOK, JobOK, HistoryOK, Tree
<1>3. ASSUME Save PROVE TypeOK'
  <2>1. /\ editing \in Commit
        /\ Len(editing) \in DOMAIN workspace
    BY <1>3 DEF Save, InEditMode, ProjectOK, Commit
  <2>2. Rebased(workspace, Len(editing), worktree) \in Commit
    BY <2>1, RebasedIsCommit DEF ProjectOK
  <2>3. JobOK' BY <1>3, <2>2 DEF JobOK, Save, ProjectOK
  <2> QED BY <1>3, <2>3 DEF Save, ProjectOK, LogOK, HistoryOK
<1>4. ASSUME NEW i \in DOMAIN log, BeginRestore(log[i]) PROVE TypeOK'
  <2>1. log[i] \in Snapshot BY DEF LogOK
  <2>2. ProjectOK' BY <1>4 DEF ProjectOK, BeginRestore
  <2>3. LogOK' BY <1>4 DEF LogOK, BeginRestore
  <2>4. JobOK' BY <1>4, <2>1, PreparedIsSnapshot DEF JobOK, BeginRestore
  <2>5. faults' \in 0 .. MaxFaults BY <1>4, ProjectAssumption DEF HistoryOK, BeginRestore
  <2>6. gap' \in BOOLEAN BY <1>4 DEF HistoryOK, BeginRestore
  <2>7. HistoryOK' BY <1>4, <2>5, <2>6 DEF HistoryOK, BeginRestore
  <2> QED BY <2>2, <2>3, <2>4, <2>7
<1>5. ASSUME BeginCommit PROVE TypeOK'
  <2>1. ProjectOK' BY <1>5 DEF ProjectOK, BeginCommit
  <2>2. LogOK' BY <1>5 DEF LogOK, BeginCommit
  <2>3. JobOK' BY <1>5, PreparedIsSnapshot DEF JobOK, BeginCommit
  <2>4. HistoryOK' BY <1>5, ProjectAssumption DEF HistoryOK, BeginCommit
  <2> QED BY <2>1, <2>2, <2>3, <2>4
<1>6. ASSUME TakeSnapshot PROVE TypeOK'
  BY <1>6, PreparedIsSnapshot DEF TakeSnapshot, ProjectOK, LogOK, JobOK, HistoryOK
<1> QED BY <1>1, <1>2, <1>3, <1>4, <1>5, <1>6 DEF Request

\* So does every step of an operation.
LEMMA EditTypes ==
  ASSUME TypeOK, EnterStep \/ AbortStep \/ SaveStep \/ CleanStep
  PROVE TypeOK'
<1> USE DEF TypeOK, ProjectOK, LogOK, JobOK, HistoryOK
<1>1. CASE Stash BY <1>1 DEF Stash
<1>2. CASE WriteMetadata BY <1>2 DEF WriteMetadata
<1>3. CASE CreateBranch BY <1>3 DEF CreateBranch
<1>4. CASE SwitchHead BY <1>4 DEF SwitchHead
<1>5. CASE CheckOut BY <1>5, TreeIsTree DEF CheckOut
<1>6. CASE AbortHead BY <1>6 DEF AbortHead
<1>7. CASE Unstash BY <1>7 DEF Unstash
<1>8. CASE Materialize BY <1>8 DEF Materialize
<1>9. CASE SaveHead BY <1>9 DEF SaveHead
<1>10. CASE CheckOutHead
  <2>1. worktree \cup TreeOf(workspace) \in Tree BY TreeIsTree DEF Tree
  <2> QED BY <1>10, <2>1 DEF CheckOutHead
<1>11. CASE MoveUncommitted
  <2>1. Moved(stash, TreeOf(job.old), TreeOf(workspace)) \in Tree
    BY <1>11, TreeIsTree, MergedIsTree DEF MoveUncommitted, Moved
  <2> QED BY <1>11, <2>1 DEF MoveUncommitted
<1>12. CASE CleanBranch BY <1>12 DEF CleanBranch
<1>13. CASE CleanStash BY <1>13 DEF CleanStash
<1>14. CASE CleanMetadata BY <1>14 DEF CleanMetadata, Tree
<1> QED BY <1>1, <1>2, <1>3, <1>4, <1>5, <1>6, <1>7, <1>8, <1>9, <1>10, <1>11, <1>12, <1>13,
           <1>14 DEF EnterStep, AbortStep, SaveStep, CleanStep

LEMMA RestoreTypes == ASSUME TypeOK, RestoreStep PROVE TypeOK'
<1> USE DEF TypeOK, ProjectOK, LogOK, JobOK, HistoryOK
<1>1. CASE RestoreWorktree
  <2>1. Checkout(worktree, TreeOf(workspace), job.to.worktree) \in Tree
    BY <1>1, TreeIsTree, MergedIsTree DEF RestoreWorktree, Checkout, Snapshot
  <2> QED BY <1>1, <2>1 DEF RestoreWorktree
<1>2. CASE RestoreWorkspace
  <2>1. workspace' \in Commit BY <1>2 DEF RestoreWorkspace, Snapshot
  <2> QED BY <1>2, <2>1 DEF RestoreWorkspace
<1>3. CASE RestoreMetadata
  <2>1. stored' \in Commit BY <1>3 DEF RestoreMetadata, Snapshot
  <2> QED BY <1>3, <2>1 DEF RestoreMetadata
<1>4. CASE RestoreBranches
  <2>1. faults' \in 0 .. MaxFaults BY <1>4, ProjectAssumption DEF RestoreBranches
  <2> QED BY <1>4, <2>1 DEF RestoreBranches
<1> QED BY <1>1, <1>2, <1>3, <1>4 DEF RestoreStep

LEMMA LogTypes ==
  ASSUME TypeOK, CommitAdded \/ Record \/ Anchor \/ Unrecorded \/ Interrupt \/ Collect
  PROVE TypeOK'
<1> USE DEF TypeOK
<1>1. CASE CommitAdded
  <2>1. TreeOf(branch) \cup worktree \in Tree BY TreeIsTree DEF ProjectOK, Tree
  <2>2. Append(branch, TreeOf(branch) \cup worktree) \in Commit BY <2>1 DEF ProjectOK, Commit
  <2> QED BY <1>1, <2>2 DEF CommitAdded, ProjectOK, LogOK, JobOK, HistoryOK
<1>2. CASE Record
  <2>1. log' \in Seq(Snapshot) BY <1>2 DEF Record, JobOK, LogOK
  <2>2. anchored' \in BOOLEAN BY <1>2 DEF Record
  <2>3. LogOK' BY <2>1, <2>2 DEF LogOK
  <2> QED BY <1>2, <2>3 DEF Record, ProjectOK, JobOK, HistoryOK
<1>3. CASE Anchor
  <2>1. anchored' \in BOOLEAN BY <1>3 DEF Anchor
  <2>2. LogOK' BY <1>3, <2>1 DEF LogOK, Anchor
  <2> QED BY <1>3, <2>2 DEF Anchor, ProjectOK, JobOK, HistoryOK
<1>4. CASE Unrecorded BY <1>4 DEF Unrecorded, ProjectOK, LogOK, JobOK, HistoryOK
<1>5. CASE Interrupt
  <2>1. faults' \in 0 .. MaxFaults BY <1>5, ProjectAssumption DEF Interrupt, HistoryOK
  <2>2. gap' \in BOOLEAN BY <1>5 DEF Interrupt, HistoryOK
  <2>3. HistoryOK' BY <1>5, <2>1, <2>2 DEF Interrupt, HistoryOK
  <2> QED BY <1>5, <2>3 DEF Interrupt, ProjectOK, LogOK, JobOK
<1>6. CASE Collect
  <2>1. anchored' \in BOOLEAN /\ gap' \in BOOLEAN BY <1>6 DEF Collect
  <2>2. LogOK' BY <1>6, <2>1 DEF LogOK, Collect
  <2>3. HistoryOK' BY <1>6, <2>1 DEF HistoryOK, Collect
  <2> QED BY <1>6, <2>2, <2>3 DEF Collect, ProjectOK, JobOK
<1> QED BY <1>1, <1>2, <1>3, <1>4, <1>5, <1>6

LEMMA TypeInit == Init => TypeOK
<1> SUFFICES ASSUME Init PROVE TypeOK
  OBVIOUS
<1>1. <<{}, {First}>> \in Commit BY ProjectAssumption DEF Commit, Tree
<1>2. ProjectOK BY <1>1, ProjectAssumption DEF Init, ProjectOK, Tree
<1>3. anchored \in BOOLEAN /\ gap \in BOOLEAN BY DEF Init
<1>4. LogOK BY <1>3 DEF Init, LogOK
<1>5. JobOK BY DEF Init, JobOK
<1>6. HistoryOK BY <1>3, ProjectAssumption DEF Init, HistoryOK, Tree
<1> QED BY <1>2, <1>4, <1>5, <1>6 DEF TypeOK

LEMMA TypeStep == TypeOK /\ [Next]_vars => TypeOK'
<1> SUFFICES ASSUME TypeOK, [Next]_vars PROVE TypeOK'
  OBVIOUS
<1>1. CASE User BY <1>1, UserTypes DEF User
<1>2. CASE Request BY <1>2, RequestTypes
<1>3. CASE Step BY <1>3, EditTypes, RestoreTypes, LogTypes DEF Step
<1>4. CASE Interrupt \/ Collect BY <1>4, LogTypes
<1>5. CASE UNCHANGED vars
  BY <1>5 DEF TypeOK, ProjectOK, LogOK, JobOK, HistoryOK
<1> QED BY <1>1, <1>2, <1>3, <1>4, <1>5 DEF Next

\* The state keeps its types, whatever is interrupted how often.
THEOREM TypeCorrect == Spec => []TypeOK
BY TypeInit, TypeStep, PTL DEF Spec

-----------------------------------------------------------------------------
(* Edit mode can be left.                                                    *)

\* What edit mode needs is written before HEAD moves, in an order, and removed only once
\* HEAD is back.
EditInv ==
  /\ EditModeCanBeLeft
  /\ step \in {"metadata", "branch", "switch", "checkout"} => stash # Nothing
  /\ step \in {"branch", "switch", "checkout"} => editing # Nothing
  /\ step \in {"switch", "checkout"} => editBranch # Nothing
  /\ step \in {"stash", "metadata", "branch", "switch",
               "cleanBranch", "cleanStash", "cleanMetadata", "unstash", "reset", "move"} =>
       head = "workspace"

\* Entering writes what is needed.
LEMMA EnterKeepsEditInv == ASSUME TypeOK, EditInv, EnterStep PROVE EditInv'
<1> USE DEF EditInv, EditModeCanBeLeft
<1>1. CASE Stash
  <2>1. stash' # Nothing BY <1>1, ProjectAssumption DEF Stash, TypeOK, ProjectOK
  <2> QED BY <1>1, <2>1 DEF Stash
<1>2. CASE WriteMetadata
  <2>1. editing' # Nothing
    BY <1>2, ProjectAssumption DEF WriteMetadata, TypeOK, JobOK
  <2> QED BY <1>2, <2>1 DEF WriteMetadata
<1>3. CASE CreateBranch
  <2>1. editBranch' # Nothing
    BY <1>3, ProjectAssumption DEF CreateBranch, TypeOK, JobOK
  <2> QED BY <1>3, <2>1 DEF CreateBranch
<1>4. CASE SwitchHead BY <1>4 DEF SwitchHead
<1>5. CASE CheckOut BY <1>5 DEF CheckOut
<1> QED BY <1>1, <1>2, <1>3, <1>4, <1>5 DEF EnterStep

\* Leaving removes it after HEAD moved back.
LEMMA LeaveKeepsEditInv ==
  ASSUME EditInv, AbortStep \/ SaveStep \/ CleanStep
  PROVE EditInv'
<1> USE DEF EditInv, EditModeCanBeLeft
<1>1. CASE AbortStep BY <1>1 DEF AbortStep, AbortHead, Unstash
<1>2. CASE Materialize \/ SaveHead BY <1>2 DEF Materialize, SaveHead
<1>3. CASE CheckOutHead \/ MoveUncommitted BY <1>3 DEF CheckOutHead, MoveUncommitted
<1>4. CASE CleanBranch BY <1>4 DEF CleanBranch
<1>5. CASE CleanStash BY <1>5 DEF CleanStash
<1>6. CASE CleanMetadata BY <1>6 DEF CleanMetadata
<1> QED BY <1>1, <1>2, <1>3, <1>4, <1>5, <1>6 DEF SaveStep, CleanStep

\* Nothing else touches it.
LEMMA OthersKeepEditInv ==
  ASSUME EditInv, User \/ Request \/ RestoreStep \/ CommitAdded \/ Record \/ Anchor
                    \/ Unrecorded \/ Interrupt \/ Collect \/ UNCHANGED vars
  PROVE EditInv'
<1> USE DEF EditInv, EditModeCanBeLeft
<1>1. CASE User BY <1>1 DEF User, Write, Delete
<1>2. ASSUME NEW i \in 2 .. Len(workspace), Enter(SubSeq(workspace, 1, i)) PROVE EditInv'
  BY <1>2 DEF Enter, OpenWorkspace
<1>3. ASSUME NEW force \in BOOLEAN, Abort(force) PROVE EditInv'
  BY <1>3 DEF Abort
<1>4. ASSUME NEW i \in DOMAIN log, BeginRestore(log[i]) PROVE EditInv'
  BY <1>4 DEF BeginRestore
<1>5. CASE Save \/ BeginCommit \/ TakeSnapshot BY <1>5 DEF Save, BeginCommit, TakeSnapshot
<1>6. CASE Request BY <1>2, <1>3, <1>4, <1>5, <1>6 DEF Request
<1>7. CASE RestoreStep
  BY <1>7 DEF RestoreStep, RestoreWorktree, RestoreWorkspace, RestoreMetadata, RestoreBranches
<1>8. CASE CommitAdded \/ Record \/ Anchor \/ Unrecorded
  BY <1>8 DEF CommitAdded, Record, Anchor, Unrecorded
<1>9. CASE Interrupt \/ Collect BY <1>9 DEF Interrupt, Collect
<1>10. CASE UNCHANGED vars BY <1>10
<1> QED BY <1>1, <1>6, <1>7, <1>8, <1>9, <1>10

LEMMA EditInvStep == TypeOK /\ EditInv /\ [Next]_vars => EditInv'
BY EnterKeepsEditInv, LeaveKeepsEditInv, OthersKeepEditInv DEF Next, Step

\* However often entering, saving and aborting are interrupted: while HEAD is on the edit
\* branch, what leaving edit mode needs is there.
THEOREM EditModeCanBeLeftHolds == Spec => []EditModeCanBeLeft
<1>1. Init => EditInv BY DEF Init, EditInv, EditModeCanBeLeft
<1>2. EditInv => EditModeCanBeLeft BY DEF EditInv
<1> QED BY <1>1, <1>2, EditInvStep, TypeCorrect, PTL DEF Spec

-----------------------------------------------------------------------------
(* The log only grows.                                                       *)

\* Only a crash between the head file and the reflog leaves the newest snapshot unnamed.
AnchorInv == faults = 0 /\ ~anchored => step = "anchor"

LEMMA AnchorInvStep ==
  ASSUME TypeOK, AnchorInv, [Next]_vars
  PROVE /\ AnchorInv'
        /\ faults = 0 => Len(log) <= Len(log') /\ SubSeq(log', 1, Len(log)) = log
<1>1. log \in Seq(Snapshot) BY DEF TypeOK, LogOK
<1>2. Len(log) <= Len(log) /\ SubSeq(log, 1, Len(log)) = log BY <1>1
<1>3. faults \in Nat BY ProjectAssumption DEF TypeOK, HistoryOK
<1> USE DEF AnchorInv
<1>4. CASE User BY <1>2, <1>4 DEF User, Write, Delete
<1>5. ASSUME NEW i \in 2 .. Len(workspace), Enter(SubSeq(workspace, 1, i))
      PROVE AnchorInv' /\ log' = log
  BY <1>5 DEF Enter
<1>6. ASSUME NEW force \in BOOLEAN, Abort(force) PROVE AnchorInv' /\ log' = log
  BY <1>6 DEF Abort
<1>7. ASSUME NEW i \in DOMAIN log, BeginRestore(log[i]) PROVE AnchorInv' /\ log' = log
  BY <1>3, <1>7 DEF BeginRestore
<1>8. CASE Save \/ BeginCommit \/ TakeSnapshot
  BY <1>2, <1>3, <1>8 DEF Save, BeginCommit, TakeSnapshot
<1>9. CASE Request BY <1>2, <1>5, <1>6, <1>7, <1>8, <1>9 DEF Request
<1>10. CASE EnterStep
  BY <1>2, <1>10 DEF EnterStep, Stash, WriteMetadata, CreateBranch, SwitchHead, CheckOut
<1>11. CASE AbortStep \/ SaveStep
  BY <1>2, <1>11 DEF AbortStep, AbortHead, Unstash, SaveStep, Materialize, SaveHead,
                     CheckOutHead, MoveUncommitted
<1>12. CASE CleanStep
  BY <1>2, <1>12 DEF CleanStep, CleanBranch, CleanStash, CleanMetadata
<1>13. CASE RestoreStep
  BY <1>2, <1>3, <1>13
     DEF RestoreStep, RestoreWorktree, RestoreWorkspace, RestoreMetadata, RestoreBranches
<1>14. CASE CommitAdded \/ Unrecorded BY <1>2, <1>14 DEF CommitAdded, Unrecorded
<1>15. CASE Record
  <2>1. job.snapshot \in Snapshot BY <1>15 DEF Record, TypeOK, JobOK
  <2>2. log' = Append(log, job.snapshot) BY <1>15 DEF Record
  <2>3. Len(log) <= Len(log') /\ SubSeq(log', 1, Len(log)) = log BY <1>1, <2>1, <2>2
  <2>4. AnchorInv' BY <1>15 DEF Record
  <2> QED BY <2>3, <2>4
<1>16. CASE Anchor
  <2>1. anchored' /\ log' = log BY <1>16 DEF Anchor
  <2> QED BY <1>2, <2>1
<1>17. CASE Interrupt BY <1>2, <1>3, <1>17 DEF Interrupt
<1>18. CASE Collect
  <2>1. faults # 0 /\ faults' = faults BY <1>18 DEF Collect
  <2> QED BY <2>1
<1>19. CASE UNCHANGED vars BY <1>2, <1>19
<1> QED BY <1>4, <1>9, <1>10, <1>11, <1>12, <1>13, <1>14, <1>15, <1>16, <1>17, <1>18, <1>19
        DEF Next, Step

\* As long as nothing goes wrong, no step and no collection takes a snapshot from the log.
THEOREM LogOnlyGrowsHolds == Spec => LogOnlyGrows
<1>1. Init => AnchorInv BY DEF Init, AnchorInv
<1>2. TypeOK /\ AnchorInv /\ [Next]_vars => AnchorInv'
  BY AnchorInvStep
<1>3. TypeOK /\ AnchorInv /\ [Next]_vars =>
        [faults = 0 => Len(log) <= Len(log') /\ SubSeq(log', 1, Len(log)) = log]_vars
  BY AnchorInvStep
<1> QED BY <1>1, <1>2, <1>3, TypeCorrect, PTL DEF Spec, LogOnlyGrows

-----------------------------------------------------------------------------
(* A restore is whole.                                                       *)

\* What a restore has already put in place.
RestoreInv ==
  /\ step \in {"stored", "refs"} /\ job.to.workspace # Nothing => workspace = job.to.workspace
  /\ step = "refs" => stored = job.to.stored

LEMMA RestoreInvStep == TypeOK /\ RestoreInv /\ [Next]_vars => RestoreInv'
<1> SUFFICES ASSUME TypeOK, RestoreInv, [Next]_vars PROVE RestoreInv'
  OBVIOUS
<1> USE DEF RestoreInv
<1>1. CASE User BY <1>1 DEF User, Write, Delete
<1>2. CASE Request
  BY <1>2 DEF Request, Enter, Abort, Save, BeginRestore, BeginCommit, TakeSnapshot
<1>3. CASE EnterStep \/ AbortStep
  BY <1>3 DEF EnterStep, Stash, WriteMetadata, CreateBranch, SwitchHead, CheckOut,
              AbortStep, AbortHead, Unstash
<1>4. CASE SaveStep \/ CleanStep
  BY <1>4 DEF SaveStep, Materialize, SaveHead, CheckOutHead, MoveUncommitted,
              CleanStep, CleanBranch, CleanStash, CleanMetadata
<1>5. CASE RestoreStep
  BY <1>5 DEF RestoreStep, RestoreWorktree, RestoreWorkspace, RestoreMetadata, RestoreBranches
<1>6. CASE CommitAdded \/ Record \/ Anchor \/ Unrecorded \/ Interrupt \/ Collect
  BY <1>6 DEF CommitAdded, Record, Anchor, Unrecorded, Interrupt, Collect, TypeOK, JobOK
<1>7. CASE UNCHANGED vars BY <1>7
<1> QED BY <1>1, <1>2, <1>3, <1>4, <1>5, <1>6, <1>7 DEF Next, Step

\* From whatever an interruption left, restoring a snapshot of a workspace in order brings
\* workspace, metadata and branch back to that one commit, if the branch can be set.
THEOREM RestoreIsWholeHolds == Spec => RestoreIsWhole
<1> DEFINE Whole ==
      step = "refs" /\ faults' = faults /\ job.to.workspace = job.to.stored =>
        workspace' = job.to.stored /\ stored' = job.to.stored /\ branch' = job.to.stored
<1>1. Init => RestoreInv BY DEF Init, RestoreInv
<1>2. TypeOK /\ RestoreInv /\ [Next]_vars => [Whole]_vars
  <2> SUFFICES ASSUME TypeOK, RestoreInv, Next, step = "refs", faults' = faults,
                      job.to.workspace = job.to.stored
               PROVE workspace' = job.to.stored /\ stored' = job.to.stored /\ branch' = job.to.stored
    OBVIOUS
  <2>1. job.to.stored \in Commit BY DEF TypeOK, JobOK, Snapshot
  <2>2. workspace = job.to.stored /\ stored = job.to.stored
    BY <2>1, ProjectAssumption DEF RestoreInv
  <2>3. faults \in Nat BY ProjectAssumption DEF TypeOK, HistoryOK
  <2>4. ~Interrupt BY <2>3 DEF Interrupt
  <2>5. ~(User \/ Request \/ Collect)
    BY DEF User, Write, Delete, Request, Enter, Abort, Save, BeginRestore, BeginCommit,
           TakeSnapshot, Collect
  <2>6. ~(EnterStep \/ AbortStep \/ SaveStep \/ CleanStep)
    BY DEF EnterStep, Stash, WriteMetadata, CreateBranch, SwitchHead, CheckOut,
           AbortStep, AbortHead, Unstash, SaveStep, Materialize, SaveHead, CheckOutHead,
           MoveUncommitted, CleanStep, CleanBranch, CleanStash, CleanMetadata
  <2>7. RestoreBranches
    BY <2>4, <2>5, <2>6 DEF Next, Step, CommitAdded, Record, Anchor, Unrecorded,
                            RestoreStep, RestoreWorktree, RestoreWorkspace, RestoreMetadata
  <2>8. branch' = stored BY <2>3, <2>7 DEF RestoreBranches
  <2> QED BY <2>2, <2>7, <2>8 DEF RestoreBranches
<1> QED BY <1>1, <1>2, RestoreInvStep, TypeCorrect, PTL DEF Spec, RestoreIsWhole
-----------------------------------------------------------------------------
(* What an operation found when it began.                                    *)

Entering == {"stash", "metadata", "branch", "switch", "checkout"}
Restoring == {"worktree", "workspace", "stored", "refs"}
Leaving == {"abort", "unstash", "materialize", "return", "reset", "move",
            "cleanBranch", "cleanStash", "cleanMetadata"}

StepInv ==
  /\ step \in {"commit"} \cup Restoring => head = "workspace"
  /\ step = "commit" => workspace = branch
  /\ step \in {"branch", "switch", "checkout"} => editing = job.commit
  /\ step = "materialize" => job.old = workspace
  /\ step \in Entering => edits = {}
  /\ step \in {"checkout", "abort", "materialize", "return"} => head = "edit"
  /\ head = "edit" => edits \subseteq worktree
  /\ step \in Leaving => job.snapshot = Nothing

LEMMA StepInvStep == EditInv /\ StepInv /\ [Next]_vars => StepInv'
<1> SUFFICES ASSUME EditInv, StepInv, [Next]_vars PROVE StepInv'
  OBVIOUS
<1> USE DEF EditInv, StepInv, Restoring, Entering, Leaving
<1>1. CASE User BY <1>1 DEF User, Write, Delete
<1>2. ASSUME NEW i \in 2 .. Len(workspace), Enter(SubSeq(workspace, 1, i)) PROVE StepInv'
  BY <1>2 DEF Enter
<1>3. ASSUME NEW force \in BOOLEAN, Abort(force) PROVE StepInv'
  BY <1>3 DEF Abort, InEditMode
<1>4. ASSUME NEW i \in DOMAIN log, BeginRestore(log[i]) PROVE StepInv'
  BY <1>4 DEF BeginRestore
<1>5. CASE Save \/ BeginCommit \/ TakeSnapshot
  BY <1>5 DEF Save, InEditMode, BeginCommit, TakeSnapshot
<1>6. CASE Request BY <1>2, <1>3, <1>4, <1>5, <1>6 DEF Request
<1>7. CASE EnterStep
  BY <1>7 DEF EnterStep, Stash, WriteMetadata, CreateBranch, SwitchHead, CheckOut
<1>8. CASE AbortStep \/ SaveStep
  BY <1>8 DEF AbortStep, AbortHead, Unstash, SaveStep, Materialize, SaveHead, CheckOutHead,
              MoveUncommitted
<1>9. CASE CleanStep BY <1>9 DEF CleanStep, CleanBranch, CleanStash, CleanMetadata
<1>10. CASE RestoreStep
  BY <1>10 DEF RestoreStep, RestoreWorktree, RestoreWorkspace, RestoreMetadata, RestoreBranches
<1>11. CASE CommitAdded \/ Record \/ Anchor \/ Unrecorded \/ Interrupt \/ Collect
  BY <1>11 DEF CommitAdded, Record, Anchor, Unrecorded, Interrupt, Collect
<1>12. CASE UNCHANGED vars BY <1>12
<1> QED BY <1>1, <1>6, <1>7, <1>8, <1>9, <1>10, <1>11, <1>12 DEF Next, Step

\* The commit that is saved: its tree is the worktree, and the newest one is what there was
\* with the difference of the two on top.
LEMMA SavedTree ==
  ASSUME TypeOK, Save
  PROVE  LET i == Len(editing)
             new == Rebased(workspace, i, worktree)
         IN /\ i \in DOMAIN workspace /\ workspace[i] = TreeOf(editing)
            /\ i \in DOMAIN new /\ new[i] = Merged(TreeOf(editing), TreeOf(editing), worktree)
            /\ TreeOf(new) = Merged(TreeOf(workspace), TreeOf(editing), worktree)
<1> DEFINE i == Len(editing)
           new == Rebased(workspace, i, worktree)
<1>1. editing \in Commit /\ workspace \in Commit /\ worktree \in Tree
  BY DEF Save, InEditMode, TypeOK, ProjectOK
<1>2. i \in 1 .. Len(workspace) /\ Len(workspace) \in Nat \ {0} /\ DOMAIN workspace = 1 .. Len(workspace)
  BY <1>1 DEF Save, Commit
<1>3. workspace[i] = TreeOf(editing)
  <2>1. SubSeq(workspace, 1, i)[i] = workspace[i]
    BY <1>1, <1>2 DEF Commit
  <2> QED BY <2>1 DEF Save, TreeOf
<1>4. new \in Commit
  BY <1>1, <1>2, RebasedIsCommit
<1>5. DOMAIN new = 1 .. Len(workspace)
  BY <1>2 DEF Rebased
<1>6. Len(new) = Len(workspace)
  <2>1. DOMAIN new = 1 .. Len(new) /\ Len(new) \in Nat
    BY <1>4 DEF Commit
  <2> QED BY <1>2, <1>5, <2>1
<1>7. \A j \in 1 .. Len(workspace) : new[j] = IF j < i THEN workspace[j] ELSE Merged(workspace[j], workspace[i], worktree)
  BY <1>2 DEF Rebased
<1>8. new[i] = Merged(TreeOf(editing), TreeOf(editing), worktree)
  BY <1>2, <1>3, <1>7
<1>9. TreeOf(new) = Merged(TreeOf(workspace), TreeOf(editing), worktree)
  <2>1. ~(Len(workspace) < i) /\ Len(workspace) \in 1 .. Len(workspace)
    BY <1>2
  <2> QED BY <1>3, <1>6, <1>7, <2>1 DEF TreeOf
<1> QED BY <1>2, <1>3, <1>5, <1>8, <1>9

-----------------------------------------------------------------------------
(* What was uncommitted comes back.                                          *)

\* How a tree differs from that of a commit.
Difference(tree, commit) == [added |-> tree \ TreeOf(commit), removed |-> TreeOf(commit) \ tree]

\* From the moment they are put aside, the stashed changes are what was uncommitted, and the
\* commit they are told from is the workspace or what a save made a new one of, which has
\* all the old one has.
LeaveInv ==
  /\ step = "stash" => uncommitted = Uncommitted
  /\ (head = "edit" /\ step # "return")
       \/ step \in {"metadata", "branch", "switch", "abort", "unstash", "materialize"} =>
       uncommitted = Difference(stash, workspace)
  /\ step = "materialize" => TreeOf(job.old) \subseteq TreeOf(job.new)
  /\ step \in {"return", "reset", "move"} =>
       uncommitted = Difference(stash, job.old) /\ TreeOf(job.old) \subseteq TreeOf(workspace)
  /\ step \in {"cleanBranch", "cleanStash", "cleanMetadata"} =>
       Uncommitted = [uncommitted EXCEPT !.added = @ \ TreeOf(workspace)]
  /\ head = "edit" /\ step # "checkout" => TreeOf(editing) \subseteq worktree

\* Entering edit mode.
LEMMA EnterKeepsLeaveInv ==
  ASSUME EditInv, StepInv, LeaveInv,
         EnterStep \/ \E i \in 2 .. Len(workspace) : Enter(SubSeq(workspace, 1, i))
  PROVE  LeaveInv'
<1> USE DEF LeaveInv, StepInv, EditInv
<1>1. ASSUME NEW i \in 2 .. Len(workspace), Enter(SubSeq(workspace, 1, i)) PROVE LeaveInv'
  BY <1>1 DEF Enter, OpenWorkspace, Uncommitted, Difference
<1>2. CASE Stash BY <1>2 DEF Stash, Uncommitted, Difference
<1>3. CASE WriteMetadata BY <1>3 DEF WriteMetadata, Difference
<1>4. CASE CreateBranch BY <1>4 DEF CreateBranch, Difference
<1>5. CASE SwitchHead BY <1>5 DEF SwitchHead, Difference
<1>6. CASE CheckOut BY <1>6 DEF CheckOut, Difference
<1> QED BY <1>1, <1>2, <1>3, <1>4, <1>5, <1>6 DEF EnterStep

\* Leaving it.
LEMMA LeaveKeepsLeaveInv ==
  ASSUME TypeOK, EditInv, StepInv, LeaveInv,
         Save \/ AbortStep \/ SaveStep \/ CleanStep \/ \E force \in BOOLEAN : Abort(force)
  PROVE  LeaveInv'
<1> USE DEF LeaveInv, StepInv, EditInv
<1>1. CASE Save
  <2> DEFINE new == Rebased(workspace, Len(editing), worktree)
  <2>1. TreeOf(new) = Merged(TreeOf(workspace), TreeOf(editing), worktree)
    BY <1>1, SavedTree
  <2>2. TreeOf(editing) \subseteq worktree
    BY <1>1 DEF Save, InEditMode
  <2>3. TreeOf(workspace) \subseteq TreeOf(new)
    BY <2>1, <2>2 DEF Merged
  <2> HIDE DEF new
  <2>4. job'.old = workspace /\ job'.new = new
    BY <1>1 DEF Save, new
  <2> QED BY <1>1, <2>3, <2>4 DEF Save, InEditMode, Difference
<1>2. ASSUME NEW force \in BOOLEAN, Abort(force) PROVE LeaveInv'
  BY <1>2 DEF Abort, InEditMode, Difference
<1>3. CASE AbortHead BY <1>3 DEF AbortHead, Difference
<1>4. CASE Unstash
  <2>1. Uncommitted' = uncommitted /\ uncommitted' = uncommitted /\ workspace' = workspace
    BY <1>4 DEF Unstash, Uncommitted, Difference
  <2>2. uncommitted = [uncommitted EXCEPT !.added = @ \ TreeOf(workspace)]
    BY <1>4 DEF Unstash, Difference
  <2> QED BY <1>4, <2>1, <2>2 DEF Unstash
<1>5. CASE Materialize BY <1>5 DEF Materialize
<1>6. CASE SaveHead BY <1>6 DEF SaveHead, Difference
<1>7. CASE CheckOutHead BY <1>7 DEF CheckOutHead, Difference
<1>8. CASE MoveUncommitted
  <2> DEFINE old == TreeOf(job.old)
             new == TreeOf(workspace)
  <2>1. worktree' = Merged(new, old, stash) /\ uncommitted' = uncommitted /\ workspace' = workspace
    BY <1>8 DEF MoveUncommitted, Moved
  <2>2. old \subseteq new /\ uncommitted = Difference(stash, job.old)
    BY <1>8 DEF MoveUncommitted
  <2>3. Merged(new, old, stash) \ new = (stash \ old) \ new
        /\ new \ Merged(new, old, stash) = old \ stash
    BY <2>2 DEF Merged
  <2>4. Uncommitted' = [added |-> (stash \ old) \ new, removed |-> old \ stash]
    BY <2>1, <2>3 DEF Uncommitted
  <2>5. Uncommitted' = [uncommitted EXCEPT !.added = @ \ TreeOf(workspace)]
    <3> DEFINE a == stash \ old
               r == old \ stash
    <3>1. uncommitted = [added |-> a, removed |-> r] /\ Uncommitted' = [added |-> a \ new, removed |-> r]
      BY <2>2, <2>4 DEF Difference
    <3> HIDE DEF a, r
    <3> QED BY <3>1
  <2> QED BY <1>8, <2>1, <2>5 DEF MoveUncommitted
<1>9. CASE CleanBranch BY <1>9 DEF CleanBranch, Uncommitted
<1>10. CASE CleanStash BY <1>10 DEF CleanStash, Uncommitted
<1>11. CASE CleanMetadata BY <1>11 DEF CleanMetadata
<1> QED BY <1>1, <1>2, <1>3, <1>4, <1>5, <1>6, <1>7, <1>8, <1>9, <1>10, <1>11
        DEF AbortStep, SaveStep, CleanStep

\* Nothing else comes between.
LEMMA OthersKeepLeaveInv ==
  ASSUME EditInv, StepInv, LeaveInv, faults' = faults, faults \in Nat,
         \/ User \/ BeginCommit \/ TakeSnapshot \/ (\E i \in DOMAIN log : BeginRestore(log[i]))
         \/ RestoreStep \/ CommitAdded \/ Record \/ Anchor \/ Unrecorded \/ Interrupt \/ Collect
         \/ UNCHANGED vars
  PROVE  LeaveInv'
<1> USE DEF LeaveInv, StepInv, EditInv, Difference, Uncommitted
<1>1. CASE User BY <1>1 DEF User, Write, Delete
<1>2. CASE BeginCommit BY <1>2 DEF BeginCommit
<1>3. CASE TakeSnapshot BY <1>3 DEF TakeSnapshot
<1>4. ASSUME NEW i \in DOMAIN log, BeginRestore(log[i]) PROVE LeaveInv'
  BY <1>4 DEF BeginRestore
<1>5. CASE RestoreStep
  BY <1>5 DEF RestoreStep, RestoreWorktree, RestoreWorkspace, RestoreMetadata, RestoreBranches, Restoring
<1>6. CASE CommitAdded BY <1>6 DEF CommitAdded
<1>7. CASE Record \/ Anchor \/ Unrecorded BY <1>7 DEF Record, Anchor, Unrecorded
<1>8. CASE Interrupt BY <1>8 DEF Interrupt
<1>9. CASE Collect BY <1>9 DEF Collect
<1>10. CASE UNCHANGED vars BY <1>10
<1> QED BY <1>1, <1>2, <1>3, <1>4, <1>5, <1>6, <1>7, <1>8, <1>9, <1>10
LEMMA LeaveInvStep ==
  ASSUME TypeOK, EditInv, StepInv, faults = 0 => LeaveInv, [Next]_vars, faults' = 0
  PROVE  LeaveInv'
<1>1. faults = 0 /\ faults \in Nat /\ LeaveInv
  <2>1. faults \in Nat BY ProjectAssumption DEF TypeOK, HistoryOK
  <2>2. faults' = faults \/ faults' = faults + 1
    <3>1. CASE Request
      BY <3>1 DEF Request, Enter, Abort, Save, BeginRestore, BeginCommit, TakeSnapshot
    <3>2. CASE User \/ Interrupt \/ Collect BY <3>2 DEF User, Write, Delete, Interrupt, Collect
    <3>3. CASE EnterStep \/ AbortStep
      BY <3>3 DEF EnterStep, Stash, WriteMetadata, CreateBranch, SwitchHead, CheckOut,
                  AbortStep, AbortHead, Unstash
    <3>4. CASE SaveStep \/ CleanStep
      BY <3>4 DEF SaveStep, Materialize, SaveHead, CheckOutHead, MoveUncommitted,
                  CleanStep, CleanBranch, CleanStash, CleanMetadata
    <3>5. CASE RestoreStep
      BY <3>5 DEF RestoreStep, RestoreWorktree, RestoreWorkspace, RestoreMetadata, RestoreBranches
    <3>6. CASE CommitAdded \/ Record \/ Anchor \/ Unrecorded
      BY <3>6 DEF CommitAdded, Record, Anchor, Unrecorded
    <3>7. CASE UNCHANGED vars BY <3>7
    <3> QED BY <3>1, <3>2, <3>3, <3>4, <3>5, <3>6, <3>7 DEF Next, Step
  <2> QED BY <2>1, <2>2
<1> QED BY <1>1, EnterKeepsLeaveInv, LeaveKeepsLeaveInv, OthersKeepLeaveInv DEF Next, Step, Request

\* Whatever is edited, however many commits build on it and whatever happened before: what
\* was uncommitted is there again when edit mode is left, save for what was saved.
THEOREM LeavingRestoresHolds == Spec => LeavingRestores
<1> DEFINE Left == step = "cleanMetadata" /\ faults = 0 =>
                     Uncommitted' = [uncommitted EXCEPT !.added = @ \ TreeOf(workspace)]
           Inv == faults = 0 => LeaveInv
<1>1. Init => StepInv /\ EditInv /\ Inv
  BY DEF Init, StepInv, Restoring, Entering, Leaving, EditInv, EditModeCanBeLeft, LeaveInv
<1>2. TypeOK /\ EditInv /\ StepInv /\ Inv /\ [Next]_vars => EditInv' /\ StepInv' /\ Inv'
  BY EditInvStep, StepInvStep, LeaveInvStep
<1>3. Inv /\ [Next]_vars => [Left]_vars
  <2> SUFFICES ASSUME LeaveInv, Next, step = "cleanMetadata", faults = 0
               PROVE  vars' # vars => Uncommitted' = [uncommitted EXCEPT !.added = @ \ TreeOf(workspace)]
    OBVIOUS
  <2>1. worktree' = worktree /\ workspace' = workspace
    <3>1. ~(User \/ Request \/ Collect)
      BY DEF User, Write, Delete, Request, Enter, Abort, Save, BeginRestore, BeginCommit,
             TakeSnapshot, Collect
    <3>2. ~(EnterStep \/ AbortStep \/ SaveStep)
      BY DEF EnterStep, Stash, WriteMetadata, CreateBranch, SwitchHead, CheckOut, AbortStep,
             AbortHead, Unstash, SaveStep, Materialize, SaveHead, CheckOutHead, MoveUncommitted
    <3>3. ~(RestoreStep \/ CommitAdded \/ Record \/ Anchor \/ Unrecorded)
      BY DEF RestoreStep, RestoreWorktree, RestoreWorkspace, RestoreMetadata, RestoreBranches,
             CommitAdded, Record, Anchor, Unrecorded
    <3> QED BY <3>1, <3>2, <3>3 DEF Next, Step, CleanStep, CleanBranch, CleanStash, CleanMetadata,
                                    Interrupt
  <2>2. Uncommitted' = Uncommitted BY <2>1 DEF Uncommitted
  <2> QED BY <2>2 DEF LeaveInv
<1> QED BY <1>1, <1>2, <1>3, TypeCorrect, PTL DEF Spec, LeavingRestores
-----------------------------------------------------------------------------
(* No change is lost.                                                        *)

\* The changes the log names, those the running operation holds a snapshot of, and those
\* put aside.
LogChanges == UNION {InSnapshot(log[i]) : i \in DOMAIN log}
HeldChanges ==
  IF step = "idle" THEN {} ELSE IF job.snapshot = Nothing THEN {} ELSE InSnapshot(job.snapshot)
Stashed == IF stash = Nothing THEN {} ELSE stash

\* Where the changes made are, whatever went wrong before: what an operation overwrites is in
\* the snapshot it holds or, once that is recorded, in the log.
KeptInv ==
  /\ step \in Entering \cup Restoring => made \subseteq LogChanges \cup HeldChanges
  /\ head = "workspace" /\ step \notin {"unstash", "reset", "move"} =>
       made \subseteq worktree \cup Changes(workspace) \cup Changes(branch) \cup LogChanges \cup HeldChanges
  /\ head = "edit" /\ step # "checkout" =>
       /\ made \subseteq LogChanges \cup HeldChanges \cup Stashed \cup edits
       /\ TreeOf(editing) \subseteq worktree \/ Stashed \subseteq worktree
  /\ step \in {"abort", "unstash"} => made \subseteq LogChanges \cup Stashed
  /\ step = "materialize" =>
       edits \subseteq Changes(job.new) /\ Stashed \cap TreeOf(job.old) \subseteq TreeOf(job.new)
  /\ step \in {"return", "reset", "move"} =>
       edits \subseteq Changes(workspace) /\ Stashed \cap TreeOf(job.old) \subseteq TreeOf(workspace)
  /\ step \in {"reset", "move"} => made \subseteq LogChanges \cup Stashed \cup edits
  /\ step = "anchor" => HeldChanges \subseteq LogChanges

\* As long as nothing went wrong they are, besides, where the first interruption cannot take
\* them: in the worktree or the log, not only in a commit or a snapshot not yet recorded.
UnharmedInv ==
  /\ head = "workspace" /\ step \notin {"unstash", "reset", "move", "record"} \cup (Restoring \ {"worktree"})
       => made \subseteq LogChanges \cup worktree
  /\ head = "workspace" /\ step = "record" =>
       /\ made \subseteq LogChanges \cup HeldChanges \cup worktree
       /\ job.op = "restore" \/ made \subseteq LogChanges \cup worktree
  /\ step = "workspace" => made \subseteq LogChanges \cup worktree \cup Changes(workspace)
  /\ step = "checkout" => made \subseteq LogChanges \cup worktree
  /\ step \in Entering \ {"stash"} => stash = worktree
  /\ step \in Entering => Changes(workspace) \subseteq HeldChanges
  /\ head = "edit" /\ step \notin {"checkout", "return"} =>
       /\ Changes(workspace) \subseteq LogChanges \cup HeldChanges
       /\ TreeOf(editing) \subseteq worktree
  /\ head = "edit" /\ step # "checkout" =>
       /\ made \subseteq LogChanges \cup HeldChanges \cup edits
       /\ made \subseteq LogChanges \cup Stashed \cup edits
  /\ step \in {"abort", "unstash"} => made \subseteq LogChanges
  /\ step = "materialize" => edits \subseteq TreeOf(job.new) \cup LogChanges
  /\ step \in {"return", "reset", "move"} =>
       /\ made \subseteq LogChanges \cup edits
       /\ edits \subseteq TreeOf(workspace) \cup LogChanges
       /\ TreeOf(job.old) \subseteq LogChanges

LossInv == (gap \/ KeptInv) /\ (faults = 0 => KeptInv /\ UnharmedInv)

\* What becomes of the three when what they are read off stays.
LEMMA SameChanges ==
  /\ log' = log => LogChanges' = LogChanges
  /\ step' = "idle" => HeldChanges' = {}
  /\ step # "idle" /\ step' # "idle" /\ job'.snapshot = job.snapshot => HeldChanges' = HeldChanges
  /\ stash' = stash => Stashed' = Stashed
BY DEF LogChanges, HeldChanges, Stashed

LEMMA TreeInChanges ==
  ASSUME NEW commit \in Commit
  PROVE  /\ TreeOf(commit) \subseteq Changes(commit)
         /\ \A i \in DOMAIN commit : commit[i] \subseteq Changes(commit)
<1>1. Len(commit) \in DOMAIN commit BY DEF Commit
<1> QED BY <1>1 DEF TreeOf, Changes

\* A snapshot holds what a restore or entering edit mode overwrites.
LEMMA PreparedChanges ==
  ASSUME TypeOK, step' # "idle", job'.snapshot = Prepared
  PROVE  /\ worktree \cup Changes(branch) \subseteq HeldChanges'
         /\ head = "workspace" => Changes(workspace) \subseteq HeldChanges'
<1>1. Prepared # Nothing
  BY PreparedIsSnapshot, ProjectAssumption DEF TypeOK
<1>2. HeldChanges' = InSnapshot(Prepared)
  BY <1>1 DEF HeldChanges
<1>3. head = "workspace" => workspace # Nothing
  BY ProjectAssumption DEF TypeOK, ProjectOK
<1> QED BY <1>2, <1>3 DEF InSnapshot, Prepared

\* What was held is in the log once it is recorded.
LEMMA RecordedChanges ==
  ASSUME TypeOK, Record
  PROVE  LogChanges' = LogChanges \cup HeldChanges
<1>1. log \in Seq(Snapshot) /\ log' = Append(log, job.snapshot)
  BY DEF TypeOK, LogOK, Record
<1>2. HeldChanges = InSnapshot(job.snapshot)
  BY DEF HeldChanges, Record
<1>3. /\ DOMAIN log' = DOMAIN log \cup {Len(log) + 1}
      /\ \A i \in DOMAIN log : log'[i] = log[i]
      /\ log'[Len(log) + 1] = job.snapshot
  BY <1>1
<1>4. \A x : x \in LogChanges' <=> x \in LogChanges \/ x \in InSnapshot(job.snapshot)
  BY <1>3 DEF LogChanges
<1> QED BY <1>2, <1>4

\* A commit on top keeps what is below.
LEMMA AppendedChanges ==
  ASSUME NEW commit \in Commit, NEW tree \in Tree
  PROVE  Changes(commit) \subseteq Changes(Append(commit, tree))
<1>1. \A i \in DOMAIN commit : i \in DOMAIN Append(commit, tree) /\ Append(commit, tree)[i] = commit[i]
  BY DEF Commit
<1> QED BY <1>1 DEF Changes
\* What the user does between operations.
LEMMA UserKeeps ==
  ASSUME NEW c \in Change, Write(c) \/ Delete(c)
  PROVE  (KeptInv => KeptInv') /\ (UnharmedInv => UnharmedInv')
<1>1. LogChanges' = LogChanges /\ HeldChanges' = {} /\ HeldChanges = {} /\ Stashed' = Stashed
  BY SameChanges DEF Write, Delete, HeldChanges
<1>2. step = "idle" /\ step' = "idle" /\ head' = head /\ workspace' = workspace /\ branch' = branch
      /\ editing' = editing
  BY DEF Write, Delete
<1>3. CASE Write(c)
  <2>1. made' = made \cup {c} /\ worktree' = worktree \cup {c}
        /\ edits' = IF head = "edit" THEN edits \cup {c} ELSE edits
    BY <1>3 DEF Write
  <2> QED BY <1>1, <1>2, <2>1 DEF KeptInv, UnharmedInv, Entering, Restoring
<1>4. CASE Delete(c)
  <2>1. head = "workspace" /\ made' = made \ {c} /\ worktree' = worktree \ {c} /\ edits' = edits
    BY <1>4 DEF Delete
  <2> QED BY <1>1, <1>2, <2>1 DEF KeptInv, UnharmedInv, Entering, Restoring
<1> QED BY <1>3, <1>4

\* An operation begins with a snapshot of all there is.
LEMMA SnapshotKeeps ==
  ASSUME TypeOK, EditInv,
         \/ \E i \in 2 .. Len(workspace) : Enter(SubSeq(workspace, 1, i))
         \/ \E i \in DOMAIN log : BeginRestore(log[i])
         \/ BeginCommit
         \/ TakeSnapshot
  PROVE  /\ KeptInv => gap' \/ KeptInv'
         /\ KeptInv /\ faults' = faults => KeptInv'
         /\ UnharmedInv /\ faults' = faults => UnharmedInv'
<1> USE DEF KeptInv, UnharmedInv, Entering, Restoring
<1>1. faults \in Nat /\ faults # faults + 1
  BY ProjectAssumption DEF TypeOK, HistoryOK
<1>2. HeldChanges = {} /\ step = "idle"
  BY DEF Enter, BeginRestore, BeginCommit, TakeSnapshot, HeldChanges
<1>3. LogChanges' = LogChanges /\ Stashed' = Stashed
  BY SameChanges DEF Enter, BeginRestore, BeginCommit, TakeSnapshot
<1>4. ASSUME NEW i \in 2 .. Len(workspace), Enter(SubSeq(workspace, 1, i))
      PROVE  (KeptInv => KeptInv') /\ (UnharmedInv => UnharmedInv')
  <2>1. /\ worktree \cup Changes(branch) \cup Changes(workspace) \subseteq HeldChanges'
        /\ step' = "stash" /\ head' = head /\ head = "workspace" /\ edits' = {} /\ made' = made
        /\ worktree' = worktree /\ workspace' = workspace /\ branch' = branch
    BY <1>4, PreparedChanges DEF Enter, OpenWorkspace
  <2> QED BY <1>2, <1>3, <2>1
<1>5. ASSUME NEW i \in DOMAIN log, BeginRestore(log[i])
      PROVE  /\ KeptInv => gap' \/ KeptInv'
             /\ KeptInv /\ faults' = faults => KeptInv'
             /\ UnharmedInv /\ faults' = faults => UnharmedInv'
  <2>1. /\ step' = "worktree" /\ head' = head /\ head = "workspace" /\ made' = made
        /\ worktree' = worktree /\ workspace' = workspace /\ branch' = branch
    BY <1>5 DEF BeginRestore
  <2>2. (gap' /\ faults' = faults + 1)
          \/ worktree \cup Changes(branch) \cup Changes(workspace) \subseteq HeldChanges'
    BY <1>5, <2>1, PreparedChanges DEF BeginRestore
  <2> QED BY <1>1, <1>2, <1>3, <2>1, <2>2
<1>6. ASSUME BeginCommit PROVE (KeptInv => KeptInv') /\ (UnharmedInv => UnharmedInv')
  <2>1. /\ step' = "commit" /\ head' = head /\ head = "workspace" /\ made' = made
        /\ worktree' = worktree /\ workspace' = workspace /\ branch' = branch
    BY <1>6 DEF BeginCommit
  <2> QED BY <1>2, <1>3, <2>1
<1>7. ASSUME TakeSnapshot PROVE (KeptInv => KeptInv') /\ (UnharmedInv => UnharmedInv')
  <2>1. /\ step' = "record" /\ head' = head /\ made' = made /\ edits' = edits /\ stash' = stash
        /\ worktree' = worktree /\ workspace' = workspace /\ branch' = branch /\ editing' = editing
    BY <1>7 DEF TakeSnapshot
  <2> QED BY <1>2, <1>3, <2>1
<1> QED BY <1>4, <1>5, <1>6, <1>7
\* Entering: what was there is in the snapshot held, and put aside.
LEMMA EnteringKeeps ==
  ASSUME TypeOK, EditInv, StepInv, EnterStep
  PROVE  (KeptInv => KeptInv') /\ (KeptInv /\ UnharmedInv => UnharmedInv')
<1> USE DEF KeptInv, UnharmedInv, StepInv, Entering, Restoring
<1>1. /\ LogChanges' = LogChanges /\ HeldChanges' = HeldChanges
      /\ made' = made /\ edits' = edits /\ edits = {}
      /\ workspace' = workspace /\ branch' = branch
      /\ stash' # stash => step = "stash"
  BY SameChanges DEF EnterStep, Stash, WriteMetadata, CreateBranch, SwitchHead, CheckOut
<1>2. stash' = stash => Stashed' = Stashed
  BY SameChanges
<1>3. CASE Stash
  <2>1. /\ step = "stash" /\ step' = "metadata" /\ stash' = worktree
        /\ head' = "workspace" /\ head = "workspace" /\ worktree' = worktree
    BY <1>3 DEF Stash, EditInv
  <2> QED BY <1>1, <2>1
<1>4. CASE WriteMetadata \/ CreateBranch
  <2>1. /\ step \in {"metadata", "branch"} /\ step' \in {"branch", "switch"}
        /\ worktree' = worktree /\ stash' = stash
        /\ head' = "workspace" /\ head = "workspace"
    BY <1>4 DEF WriteMetadata, CreateBranch, EditInv
  <2> QED BY <1>1, <1>2, <2>1
<1>5. CASE SwitchHead
  <2>1. /\ step = "switch" /\ step' = "checkout" /\ head' = "edit" /\ head = "workspace"
        /\ worktree' = worktree /\ stash' = stash
    BY <1>5 DEF SwitchHead, EditInv
  <2> QED BY <1>1, <1>2, <2>1
<1>6. CASE CheckOut
  <2>1. /\ step = "checkout" /\ step' = "record" /\ worktree' = TreeOf(job.commit)
        /\ head' = "edit" /\ head = "edit" /\ editing' = job.commit /\ Stashed' = Stashed
    BY <1>2, <1>6 DEF CheckOut
  <2>2. Stashed = stash
    BY <2>1 DEF Stashed, EditInv
  <2>3. TreeOf(editing)' = worktree'
    BY <2>1
  <2>4. ASSUME KeptInv PROVE KeptInv'
    BY <1>1, <2>1, <2>3, <2>4
  <2>5. ASSUME KeptInv, UnharmedInv PROVE UnharmedInv'
    <3>1. /\ made \subseteq LogChanges \cup HeldChanges /\ made \subseteq LogChanges \cup Stashed
          /\ Changes(workspace) \subseteq HeldChanges
      BY <2>1, <2>2, <2>5
    <3>2. step' = "record" /\ head' = "edit" /\ made' = made /\ Stashed' = Stashed
          /\ TreeOf(editing)' = worktree' /\ LogChanges' = LogChanges /\ HeldChanges' = HeldChanges
          /\ Changes(workspace)' = Changes(workspace)
      BY <1>1, <2>1, <2>3
    <3> QED BY <3>1, <3>2
  <2> QED BY <2>4, <2>5
<1> QED BY <1>3, <1>4, <1>5, <1>6 DEF EnterStep
\* Giving up what was edited, and only that.
LEMMA AbortKeeps ==
  ASSUME TypeOK, EditInv, AbortStep \/ \E force \in BOOLEAN : Abort(force)
  PROVE  (KeptInv => KeptInv') /\ (UnharmedInv => UnharmedInv')
<1> USE DEF KeptInv, UnharmedInv, Entering, Restoring
<1>1. /\ LogChanges' = LogChanges /\ Stashed' = Stashed
      /\ workspace' = workspace /\ branch' = branch /\ editing' = editing
  BY SameChanges DEF AbortStep, AbortHead, Unstash, Abort
<1>2. ASSUME NEW force \in BOOLEAN, Abort(force)
      PROVE  (KeptInv => KeptInv') /\ (UnharmedInv => UnharmedInv')
  <2>1. /\ step = "idle" /\ step' = "abort" /\ head = "edit" /\ head' = "edit"
        /\ made' = made \ edits /\ edits' = {} /\ worktree' = worktree
    BY <1>2 DEF Abort, InEditMode
  <2>2. HeldChanges = {}
    BY <2>1 DEF HeldChanges
  <2> QED BY <1>1, <2>1, <2>2
<1>3. CASE AbortHead
  <2>1. /\ step = "abort" /\ step' = "unstash" /\ head' = "workspace"
        /\ made' = made /\ edits' = edits /\ worktree' = worktree
    BY <1>3 DEF AbortHead
  <2> QED BY <1>1, <2>1
<1>4. CASE Unstash
  <2>1. /\ step = "unstash" /\ step' = "cleanBranch" /\ head = "workspace" /\ head' = "workspace"
        /\ made' = made /\ edits' = edits /\ worktree' = Stashed
    BY <1>4 DEF Unstash, EditInv, Stashed
  <2> QED BY <1>1, <2>1
<1> QED BY <1>2, <1>3, <1>4 DEF AbortStep

\* Saving: the edits are in the commit, and nothing that was put aside and in the workspace
\* has left the workspace.
LEMMA SaveKeeps ==
  ASSUME TypeOK, EditInv, StepInv, Save
  PROVE  (KeptInv => KeptInv') /\ (UnharmedInv => UnharmedInv')
<1> DEFINE i == Len(editing)
           new == Rebased(workspace, i, worktree)
<1>1. /\ i \in DOMAIN workspace /\ workspace[i] = TreeOf(editing)
      /\ i \in DOMAIN new /\ new[i] = Merged(TreeOf(editing), TreeOf(editing), worktree)
      /\ TreeOf(new) = Merged(TreeOf(workspace), TreeOf(editing), worktree)
  BY SavedTree
<1>2. /\ step = "idle" /\ head = "edit" /\ step' = "materialize" /\ head' = "edit"
      /\ job'.old = workspace /\ job'.new = new
      /\ made' = made /\ edits' = edits /\ worktree' = worktree /\ workspace' = workspace
      /\ editing' = editing
  BY DEF Save, InEditMode
<1>3. LogChanges' = LogChanges /\ Stashed' = Stashed /\ HeldChanges = {}
  BY SameChanges, <1>2 DEF Save, HeldChanges
<1>4. edits \subseteq worktree
  BY <1>2 DEF StepInv
<1>5. worktree \subseteq Changes(new)
  <2>1. new[i] = worktree
    BY <1>1 DEF Merged
  <2> QED BY <1>1, <2>1 DEF Changes
<1>6. TreeOf(editing) \subseteq Changes(workspace)
  BY <1>1 DEF Changes
<1>7. \A x : x \in TreeOf(new) <=> /\ x \in TreeOf(workspace) \/ x \in worktree \ TreeOf(editing)
                                   /\ x \notin TreeOf(editing) \ worktree
  BY <1>1 DEF Merged
<1> HIDE DEF new, i
<1>8. Changes(job'.new) = Changes(new) /\ TreeOf(job'.new) = TreeOf(new)
      /\ TreeOf(job'.old) = TreeOf(workspace)
  BY <1>2
<1>9. ASSUME KeptInv PROVE KeptInv'
  <2>1. TreeOf(editing) \subseteq worktree \/ Stashed \subseteq worktree
    BY <1>2, <1>9 DEF KeptInv
  <2>2. Stashed \cap TreeOf(workspace) \subseteq TreeOf(new)
    BY <1>7, <2>1
  <2> QED BY <1>2, <1>3, <1>4, <1>5, <1>8, <1>9, <2>2 DEF KeptInv, Entering, Restoring
<1>10. ASSUME UnharmedInv PROVE UnharmedInv'
  <2>1. TreeOf(editing) \subseteq LogChanges
    BY <1>2, <1>3, <1>6, <1>10 DEF UnharmedInv
  <2>2. edits \subseteq TreeOf(new) \cup LogChanges
    <3> SUFFICES ASSUME NEW x \in edits, x \notin LogChanges PROVE x \in TreeOf(new)
      OBVIOUS
    <3> QED BY <1>4, <1>7, <2>1
  <2> QED BY <1>2, <1>3, <1>8, <1>10, <2>2 DEF UnharmedInv, Entering, Restoring
<1> QED BY <1>9, <1>10
\* The saved commit on the branches, HEAD back, and what was put aside on top of it.
LEMMA SavingKeeps ==
  ASSUME TypeOK, EditInv, StepInv, SaveStep
  PROVE  (KeptInv => KeptInv') /\ (UnharmedInv => UnharmedInv')
<1> USE DEF KeptInv, UnharmedInv, Entering, Restoring
<1>1. /\ LogChanges' = LogChanges /\ Stashed' = Stashed
      /\ made' = made /\ edits' = edits /\ job' = job /\ editing' = editing
  BY SameChanges DEF SaveStep, Materialize, SaveHead, CheckOutHead, MoveUncommitted
<1>2. step # "idle" /\ HeldChanges = {}
  BY DEF SaveStep, Materialize, SaveHead, CheckOutHead, MoveUncommitted, StepInv, Leaving, HeldChanges
<1>3. CASE Materialize
  <2>1. /\ step = "materialize" /\ step' = "return" /\ head = "edit" /\ head' = "edit"
        /\ worktree' = worktree /\ workspace' = job.new /\ job.old = workspace
    BY <1>3 DEF Materialize, StepInv
  <2>2. TreeOf(workspace) \subseteq Changes(workspace)
    BY TreeInChanges DEF TypeOK, ProjectOK
  <2>3. Changes(workspace') = Changes(job.new) /\ TreeOf(workspace') = TreeOf(job.new)
        /\ TreeOf(job.old) = TreeOf(workspace) /\ TreeOf(job'.old) = TreeOf(job.old)
    BY <1>1, <2>1
  <2>4. ASSUME KeptInv PROVE KeptInv'
    BY <1>1, <1>2, <2>1, <2>3, <2>4
  <2>5. ASSUME UnharmedInv PROVE UnharmedInv'
    <3>1. TreeOf(job.old) \subseteq LogChanges /\ edits \subseteq TreeOf(job.new) \cup LogChanges
          /\ made \subseteq LogChanges \cup edits
      BY <1>2, <2>1, <2>2, <2>3, <2>5
    <3> QED BY <1>1, <2>1, <2>3, <3>1
  <2> QED BY <2>4, <2>5
<1>4. CASE SaveHead
  <2>1. /\ step = "return" /\ step' = "reset" /\ head = "edit" /\ head' = "workspace"
        /\ worktree' = worktree /\ workspace' = workspace
    BY <1>4 DEF SaveHead, StepInv
  <2> QED BY <1>1, <1>2, <2>1
<1>5. CASE CheckOutHead
  <2>1. /\ step = "reset" /\ step' = "move" /\ head = "workspace" /\ head' = "workspace"
        /\ workspace' = workspace
    BY <1>5 DEF CheckOutHead, EditInv
  <2> QED BY <1>1, <1>2, <2>1
<1>6. CASE MoveUncommitted
  <2> DEFINE old == TreeOf(job.old)
             new == TreeOf(workspace)
  <2>1. /\ step = "move" /\ step' = "cleanBranch" /\ head = "workspace" /\ head' = "workspace"
        /\ workspace' = workspace /\ branch' = branch /\ worktree' = Merged(new, old, Stashed)
    BY <1>6 DEF MoveUncommitted, EditInv, Moved, Stashed
  <2>2. \A x : x \in worktree' <=> (x \in new \/ x \in Stashed \ old) /\ x \notin old \ Stashed
    BY <2>1 DEF Merged
  <2>3. new \subseteq Changes(workspace)
    BY TreeInChanges DEF TypeOK, ProjectOK
  <2>4. ASSUME KeptInv PROVE KeptInv'
    <3>1. made \subseteq LogChanges \cup Stashed \cup edits /\ edits \subseteq Changes(workspace)
          /\ Stashed \cap old \subseteq new
      BY <2>1, <2>4
    <3>2. made \subseteq worktree' \cup Changes(workspace) \cup LogChanges
      BY <2>2, <3>1
    <3> QED BY <1>1, <2>1, <3>2
  <2>5. ASSUME UnharmedInv PROVE UnharmedInv'
    <3>1. made \subseteq LogChanges \cup edits /\ edits \subseteq new \cup LogChanges
          /\ old \subseteq LogChanges
      BY <2>1, <2>5
    <3>2. made \subseteq LogChanges \cup worktree'
      BY <2>2, <3>1
    <3> QED BY <1>1, <2>1, <3>2
  <2> QED BY <2>4, <2>5
<1> QED BY <1>3, <1>4, <1>5, <1>6 DEF SaveStep

\* Tidying up: nothing is needed of what goes.
LEMMA CleaningKeeps ==
  ASSUME TypeOK, EditInv, StepInv, CleanStep
  PROVE  (KeptInv => KeptInv') /\ (UnharmedInv => UnharmedInv')
<1>1. /\ step \in {"cleanBranch", "cleanStash", "cleanMetadata"}
      /\ step' \in {"cleanStash", "cleanMetadata", "idle"}
      /\ head = "workspace" /\ head' = "workspace"
      /\ made' = made /\ worktree' = worktree /\ workspace' = workspace /\ branch' = branch
  BY DEF CleanStep, CleanBranch, CleanStash, CleanMetadata, EditInv
<1>2. LogChanges' = LogChanges /\ HeldChanges = {}
  BY <1>1, SameChanges DEF CleanStep, CleanBranch, CleanStash, CleanMetadata, StepInv, Leaving,
                           HeldChanges
<1> QED BY <1>1, <1>2 DEF KeptInv, UnharmedInv, Entering, Restoring
\* Restoring: what is overwritten is in the snapshot held.
LEMMA RestoringKeeps ==
  ASSUME TypeOK, StepInv, RestoreStep
  PROVE  /\ KeptInv => KeptInv'
         /\ KeptInv /\ UnharmedInv /\ faults' = faults => UnharmedInv'
<1> USE DEF KeptInv, UnharmedInv, Entering, Restoring
<1>1. /\ LogChanges' = LogChanges /\ HeldChanges' = HeldChanges /\ Stashed' = Stashed
      /\ made' = made /\ edits' = edits /\ job' = job /\ editing' = editing
      /\ head = "workspace" /\ head' = "workspace" /\ job.op = "restore"
  BY SameChanges
     DEF RestoreStep, RestoreWorktree, RestoreWorkspace, RestoreMetadata, RestoreBranches,
         StepInv, TypeOK, JobOK
<1>2. CASE RestoreWorktree
  <2>1. /\ step = "worktree" /\ step' = "workspace" /\ workspace' = workspace
        /\ worktree' = Merged(worktree, TreeOf(workspace), job.to.worktree)
    BY <1>2 DEF RestoreWorktree, Checkout
  <2>2. worktree \subseteq worktree' \cup Changes(workspace)
    <3>1. TreeOf(workspace) \subseteq Changes(workspace)
      BY TreeInChanges DEF TypeOK, ProjectOK
    <3> QED BY <2>1, <3>1 DEF Merged
  <2> QED BY <1>1, <2>1, <2>2
<1>3. CASE RestoreWorkspace \/ RestoreMetadata
  <2>1. step \in {"workspace", "stored"} /\ step' \in {"stored", "refs"}
    BY <1>3 DEF RestoreWorkspace, RestoreMetadata
  <2> QED BY <1>1, <2>1
<1>4. CASE RestoreBranches
  <2>1. step = "refs" /\ step' = "record"
    BY <1>4 DEF RestoreBranches
  <2> QED BY <1>1, <2>1
<1> QED BY <1>2, <1>3, <1>4 DEF RestoreStep

\* Committing, and recording the snapshot.
LEMMA RecordingKeeps ==
  ASSUME TypeOK, StepInv, CommitAdded \/ Record \/ Anchor \/ Unrecorded
  PROVE  (KeptInv => KeptInv') /\ (KeptInv /\ UnharmedInv => UnharmedInv')
<1> USE DEF KeptInv, UnharmedInv, Entering, Restoring
<1>1. /\ Stashed' = Stashed /\ made' = made /\ edits' = edits /\ editing' = editing
      /\ head' = head /\ worktree' = worktree
  BY SameChanges DEF CommitAdded, Record, Anchor, Unrecorded
<1>2. CASE CommitAdded
  <2>1. /\ step = "commit" /\ step' = "record" /\ head = "workspace"
        /\ LogChanges' = LogChanges /\ HeldChanges' = HeldChanges
    BY <1>2, SameChanges DEF CommitAdded, StepInv
  <2>2. workspace' = branch' /\ workspace = branch
        /\ branch' = Append(branch, TreeOf(branch) \cup worktree)
    BY <1>2 DEF CommitAdded, StepInv
  <2>3. Changes(branch) \subseteq Changes(branch')
    <3>1. TreeOf(branch) \cup worktree \in Tree
      BY TreeIsTree DEF TypeOK, ProjectOK, Tree
    <3> QED BY <2>2, <3>1, AppendedChanges DEF TypeOK, ProjectOK
  <2> QED BY <1>1, <2>1, <2>2, <2>3
<1>3. CASE Record
  <2>1. /\ step = "record" /\ step' = "anchor" /\ workspace' = workspace /\ branch' = branch
        /\ LogChanges' = LogChanges \cup HeldChanges /\ HeldChanges' = HeldChanges
    BY <1>3, RecordedChanges, SameChanges DEF Record
  <2> QED BY <1>1, <2>1
<1>4. CASE Anchor
  <2>1. /\ step = "anchor" /\ step' = "idle" /\ workspace' = workspace /\ branch' = branch
        /\ LogChanges' = LogChanges /\ HeldChanges' = {}
    BY <1>4, SameChanges DEF Anchor
  <2> QED BY <1>1, <2>1
<1>5. CASE Unrecorded
  <2>1. /\ step = "record" /\ step' = "idle" /\ workspace' = workspace /\ branch' = branch
        /\ LogChanges' = LogChanges /\ HeldChanges = {} /\ HeldChanges' = {}
    BY <1>5, SameChanges DEF Unrecorded, HeldChanges
  <2> QED BY <1>1, <2>1
<1> QED BY <1>2, <1>3, <1>4, <1>5
\* The first interruption takes nothing with it.
LEMMA InterruptKeeps ==
  ASSUME TypeOK, EditInv, StepInv, KeptInv, UnharmedInv, Interrupt
  PROVE  gap' \/ KeptInv'
<1>1. /\ step # "idle" /\ step' = "idle" /\ LogChanges' = LogChanges /\ Stashed' = Stashed
      /\ HeldChanges' = {}
      /\ made' = made /\ edits' = edits /\ editing' = editing /\ head' = head
      /\ worktree' = worktree /\ workspace' = workspace /\ branch' = branch
  BY SameChanges DEF Interrupt
<1>2. step \in {"stored", "refs"} => gap'
  BY DEF Interrupt, TypeOK, JobOK
<1>3. step = "record" /\ job.op = "restore" => gap'
  BY DEF Interrupt
<1>4. CASE head = "workspace"
  <2>1. gap' \/ made \subseteq worktree \cup Changes(workspace) \cup LogChanges
    BY <1>2, <1>3, <1>4 DEF UnharmedInv, KeptInv, Restoring
  <2> QED BY <1>1, <1>4, <2>1 DEF KeptInv, Entering, Restoring
<1>5. CASE head = "edit"
  <2>1. step = "checkout" => Stashed = worktree
    BY <1>5 DEF UnharmedInv, Entering, EditInv, EditModeCanBeLeft, Stashed
  <2>2. made \subseteq LogChanges \cup Stashed \cup edits
    BY <1>5, <2>1 DEF UnharmedInv
  <2>3. TreeOf(editing) \subseteq worktree \/ Stashed \subseteq worktree
    BY <1>5, <2>1 DEF KeptInv
  <2> QED BY <1>1, <1>5, <2>2, <2>3 DEF KeptInv, Entering, Restoring
<1> QED BY <1>4, <1>5 DEF TypeOK, ProjectOK

LEMMA LossInvStep ==
  ASSUME MaxFaults <= 1, TypeOK, EditInv, StepInv, AnchorInv, LossInv, [Next]_vars
  PROVE  LossInv'
<1>1. faults \in {0, 1} /\ faults \in Nat
  BY ProjectAssumption DEF TypeOK, HistoryOK
<1>2. (gap => gap') /\ (faults' = faults \/ faults' = faults + 1)
  <2>1. CASE Request
    <3>1. ASSUME NEW i \in DOMAIN log, BeginRestore(log[i])
          PROVE  (gap => gap') /\ (faults' = faults \/ faults' = faults + 1)
      BY <3>1 DEF BeginRestore
    <3>2. CASE BeginCommit BY <3>2 DEF BeginCommit
    <3> QED BY <2>1, <3>1, <3>2 DEF Request, Enter, Abort, Save, TakeSnapshot
  <2>2. CASE User \/ Collect
    BY <2>2 DEF User, Write, Delete, Collect
  <2>3. CASE EnterStep \/ AbortStep
    BY <2>3 DEF EnterStep, Stash, WriteMetadata, CreateBranch, SwitchHead, CheckOut,
                AbortStep, AbortHead, Unstash
  <2>4. CASE SaveStep \/ CleanStep
    BY <2>4 DEF SaveStep, Materialize, SaveHead, CheckOutHead, MoveUncommitted,
                CleanStep, CleanBranch, CleanStash, CleanMetadata
  <2>5. CASE RestoreStep
    BY <2>5 DEF RestoreStep, RestoreWorktree, RestoreWorkspace, RestoreMetadata, RestoreBranches
  <2>6. CASE CommitAdded \/ Record \/ Anchor \/ Unrecorded
    BY <2>6 DEF CommitAdded, Record, Anchor, Unrecorded
  <2>7. CASE Interrupt
    <3>1. faults' = faults + 1 BY <2>7 DEF Interrupt
    <3>2. gap => gap' BY <2>7 DEF Interrupt
    <3> QED BY <3>1, <3>2
  <2>8. CASE UNCHANGED vars BY <2>8
  <2> QED BY <2>1, <2>2, <2>3, <2>4, <2>5, <2>6, <2>7, <2>8 DEF Next, Step
<1>3. faults' = 0 => faults = 0 /\ faults' = faults
  BY <1>1, <1>2
<1>4. SUFFICES ASSUME ~Interrupt, ~Collect
               PROVE  /\ KeptInv => gap' \/ KeptInv'
                      /\ KeptInv /\ UnharmedInv /\ faults' = faults /\ faults = 0 => KeptInv' /\ UnharmedInv'
  <2>1. CASE Interrupt
    <3>1. faults = 0 /\ faults' # 0
      BY <1>1, <2>1, ProjectAssumption DEF Interrupt
    <3> QED BY <2>1, <3>1, InterruptKeeps DEF LossInv
  <2>2. CASE Collect
    <3>1. gap' /\ faults' = faults /\ ~anchored /\ step = "idle"
      BY <2>2 DEF Collect
    <3> QED BY <3>1 DEF AnchorInv, LossInv
  <2> QED BY <1>2, <1>3, <1>4, <2>1, <2>2 DEF LossInv
<1>5. CASE User
  BY <1>5, UserKeeps DEF User
<1>6. CASE Request
  <2>1. CASE \/ \E i \in 2 .. Len(workspace) : Enter(SubSeq(workspace, 1, i))
             \/ \E i \in DOMAIN log : BeginRestore(log[i])
             \/ BeginCommit
             \/ TakeSnapshot
    BY <1>1, <2>1, SnapshotKeeps
  <2>2. CASE Save BY <2>2, SaveKeeps
  <2>3. CASE \E force \in BOOLEAN : Abort(force) BY <2>3, AbortKeeps
  <2> QED BY <1>6, <2>1, <2>2, <2>3 DEF Request
<1>7. CASE EnterStep \/ AbortStep \/ SaveStep
  BY <1>7, EnteringKeeps, AbortKeeps, SavingKeeps
<1>8. CASE CleanStep \/ RestoreStep
  BY <1>8, CleaningKeeps, RestoringKeeps
<1>9. CASE CommitAdded \/ Record \/ Anchor \/ Unrecorded
  BY <1>9, RecordingKeeps
<1>10. CASE UNCHANGED vars
  BY <1>10 DEF KeptInv, UnharmedInv, LogChanges, HeldChanges, Stashed
<1> QED BY <1>4, <1>5, <1>6, <1>7, <1>8, <1>9, <1>10 DEF Next, Step
\* With at most one fault, at whatever step of whatever operation, and however many changes,
\* commits and snapshots there are: no change is lost, short of the gap of a restore.
THEOREM ChangesKeptHolds == ASSUME MaxFaults <= 1 PROVE Spec => []ChangesKept
<1>1. Init => StepInv /\ EditInv /\ AnchorInv /\ LossInv
  <2> SUFFICES ASSUME Init PROVE StepInv /\ EditInv /\ AnchorInv /\ LossInv
    OBVIOUS
  <2>1. StepInv /\ EditInv /\ AnchorInv
    BY DEF Init, StepInv, Restoring, Entering, Leaving, EditInv, EditModeCanBeLeft, AnchorInv
  <2>2. KeptInv /\ UnharmedInv
    BY DEF Init, KeptInv, UnharmedInv, Entering, Restoring
  <2> QED BY <2>1, <2>2 DEF LossInv
<1>2. TypeOK /\ StepInv /\ EditInv /\ AnchorInv /\ LossInv /\ [Next]_vars =>
        StepInv' /\ EditInv' /\ AnchorInv' /\ LossInv'
  BY StepInvStep, EditInvStep, AnchorInvStep, LossInvStep
<1>3. TypeOK /\ StepInv /\ EditInv /\ LossInv => ChangesKept
  <2> SUFFICES ASSUME TypeOK, StepInv, EditInv, KeptInv PROVE made \subseteq Reachable
    BY DEF LossInv, ChangesKept
  <2>1. Reachable = worktree \cup Changes(workspace) \cup Changes(branch) \cup Changes(stored)
                      \cup Stashed \cup LogChanges \cup HeldChanges
    BY DEF Reachable, Stashed, LogChanges, HeldChanges
  <2>2. CASE head = "workspace"
    <3>1. made \subseteq worktree \cup Changes(workspace) \cup Changes(branch)
                           \cup Stashed \cup LogChanges \cup HeldChanges
      BY <2>2 DEF KeptInv
    <3> QED BY <2>1, <3>1
  <2>3. CASE head = "edit"
    <3>1. made \subseteq worktree \cup Stashed \cup LogChanges \cup HeldChanges
      BY <2>3 DEF KeptInv, StepInv, Entering
    <3> QED BY <2>1, <3>1
  <2> QED BY <2>2, <2>3 DEF TypeOK, ProjectOK
<1> QED BY <1>1, <1>2, <1>3, TypeCorrect, PTL DEF Spec
==============================================================================
