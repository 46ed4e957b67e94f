--------------------------- MODULE SnapshotRestore ---------------------------
(***************************************************************************)
(* Restoring a snapshot (restore_snapshot, crates/gitbutler-oplog): the    *)
(* worktree, the workspace commit, the metadata and the branches one after *)
(* the other, and only at the end a snapshot of what there was before.     *)
(***************************************************************************)
EXTENDS ProjectState

\* Mutant: the worktree becomes that of the snapshot.
Replaced(tree, from, to) == to

\* safe_checkout: what differs between the two trees is written, the rest left alone.
Checkout(tree, from, to) == Merged(tree, from, to)

\* Whether the snapshot of before could be prepared is looked at in the end.  (Where HEAD
\* is not on the workspace, nothing is done once that snapshot is prepared.)
BeginRestore(s) ==
  /\ step = "idle" /\ Len(log) < MaxLog
  /\ head = "workspace"
  /\ stored' = branch
  /\ \/ /\ Begin("worktree", [op |-> "restore", snapshot |-> Prepared, to |-> s])
        /\ UNCHANGED <<faults, gap>>
     \/ /\ Begin("worktree", [op |-> "restore", snapshot |-> Nothing, to |-> s])
        /\ Fail /\ gap' = TRUE
  /\ UNCHANGED <<head, worktree, workspace, branch, editVars, logVars, made, edits, uncommitted>>

RestoreWorktree ==
  /\ step = "worktree"
  /\ worktree' = Checkout(worktree, TreeOf(workspace), job.to.worktree)
  /\ Then("workspace")
  /\ UNCHANGED <<head, refVars, editVars, logVars, faults, historyVars>>

\* Mutant: every snapshot is taken to hold a workspace commit.
AlwaysWorkspace ==
  /\ step = "workspace"
  /\ workspace' = job.to.workspace
  /\ Then("stored")
  /\ UNCHANGED <<head, worktree, branch, stored, editVars, logVars, faults, historyVars>>

RestoreWorkspace ==
  /\ step = "workspace"
  /\ workspace' = IF job.to.workspace = Nothing THEN workspace ELSE job.to.workspace
  /\ Then("stored")
  /\ UNCHANGED <<head, worktree, branch, stored, editVars, logVars, faults, historyVars>>

RestoreMetadata ==
  /\ step = "stored"
  /\ stored' = job.to.stored
  /\ Then("refs")
  /\ UNCHANGED <<head, worktree, workspace, branch, editVars, logVars, faults, historyVars>>

\* Mutant: the branches are left to whoever needs them.
LeaveBranches ==
  /\ step = "refs"
  /\ Then("record")
  /\ UNCHANGED <<head, worktree, refVars, editVars, logVars, faults, historyVars>>

\* A branch that cannot be set is skipped.
RestoreBranches ==
  /\ step = "refs"
  /\ \/ branch' = stored /\ UNCHANGED faults
     \/ UNCHANGED branch /\ Fail
  /\ Then("record")
  /\ UNCHANGED <<head, worktree, workspace, stored, editVars, logVars, historyVars>>

RestoreStep == RestoreWorktree \/ RestoreWorkspace \/ RestoreMetadata \/ RestoreBranches
==============================================================================
