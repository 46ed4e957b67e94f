------------------------------ MODULE EditMode ------------------------------
(***************************************************************************)
(* Edit mode (crates/gitbutler-edit-mode): a commit of the workspace is    *)
(* checked out alone, edited, and saved or given up.  The mode is read off *)
(* HEAD and a metadata file (crates/gitbutler-operating-modes).            *)
(***************************************************************************)
EXTENDS ProjectState

\* operating_mode.
OpenWorkspace == head = "workspace"
InEditMode == head = "edit" /\ editing # Nothing

-----------------------------------------------------------------------------
(* enter_edit_mode.                                                          *)

\* Here a snapshot that cannot be prepared ends the operation before it begins.
Enter(commit) ==
  /\ step = "idle" /\ OpenWorkspace /\ Len(log) < MaxLog
  /\ stored' = branch
  /\ Begin("stash", [op |-> "enter", snapshot |-> Prepared, commit |-> commit])
  /\ uncommitted' = Uncommitted /\ edits' = {}
  /\ UNCHANGED <<head, worktree, workspace, branch, editVars, logVars, faults, made, gap>>

\* commit_uncommited_changes: the whole worktree.
Stash ==
  /\ step = "stash"
  /\ stash' = worktree
  /\ Then("metadata")
  /\ UNCHANGED <<head, worktree, refVars, editBranch, editing, logVars, faults, historyVars>>

\* Mutant: the metadata is not written before the checkout.
SkipMetadata ==
  /\ step = "metadata"
  /\ Then("branch")
  /\ UNCHANGED <<head, worktree, refVars, editVars, logVars, faults, historyVars>>

WriteMetadata ==
  /\ step = "metadata"
  /\ editing' = job.commit
  /\ Then("branch")
  /\ UNCHANGED <<head, worktree, refVars, editBranch, stash, logVars, faults, historyVars>>

\* checkout_edit_branch: the reference, HEAD, and the files.
CreateBranch ==
  /\ step = "branch"
  /\ editBranch' = job.commit
  /\ Then("switch")
  /\ UNCHANGED <<head, worktree, refVars, stash, editing, logVars, faults, historyVars>>

SwitchHead ==
  /\ step = "switch"
  /\ head' = "edit"
  /\ Then("checkout")
  /\ UNCHANGED <<worktree, refVars, editVars, logVars, faults, historyVars>>

\* Forced, and untracked files are removed.
CheckOut ==
  /\ step = "checkout"
  /\ worktree' = TreeOf(job.commit)
  /\ Then("record")
  /\ UNCHANGED <<head, refVars, editVars, logVars, faults, historyVars>>

-----------------------------------------------------------------------------
(* abort_and_return_to_workspace.                                            *)

\* Without force, only if nothing was edited.
Abort(force) ==
  /\ step = "idle" /\ InEditMode
  /\ force \/ worktree = TreeOf(editing)
  /\ Begin("abort", [op |-> "abort", snapshot |-> Nothing])
  /\ made' = made \ edits
  /\ edits' = {}
  /\ UNCHANGED <<head, worktree, refVars, editVars, logVars, faults, uncommitted, gap>>

AbortHead ==
  /\ step = "abort"
  /\ head' = "workspace"
  /\ Then("unstash")
  /\ UNCHANGED <<worktree, refVars, editVars, logVars, faults, historyVars>>

Unstash ==
  /\ step = "unstash"
  /\ stash # Nothing
  /\ worktree' = stash
  /\ Then("cleanBranch")
  /\ UNCHANGED <<head, refVars, editVars, logVars, faults, historyVars>>

-----------------------------------------------------------------------------
(* save_and_return_to_workspace.                                             *)

\* The commit at i becomes one with another tree, and what builds on it is rebased.
Rebased(old, i, tree) ==
  [j \in DOMAIN old |-> IF j < i THEN old[j] ELSE Merged(old[j], old[i], tree)]

\* The commit must still be in the workspace.  Its new version holds all of the worktree.
\* (What a rebase does where branch and workspace disagree is not modelled.)
Save ==
  /\ step = "idle" /\ InEditMode
  /\ workspace = branch
  /\ Len(editing) <= Len(workspace) /\ SubSeq(workspace, 1, Len(editing)) = editing
  /\ Begin("materialize", [op |-> "save", snapshot |-> Nothing, old |-> workspace,
                           new |-> Rebased(workspace, Len(editing), worktree)])
  /\ UNCHANGED <<head, worktree, refVars, editVars, logVars, faults, historyVars>>

\* materialize_without_checkout.
Materialize ==
  /\ step = "materialize"
  /\ workspace' = job.new /\ branch' = job.new
  /\ Then("return")
  /\ UNCHANGED <<head, worktree, stored, editVars, logVars, faults, historyVars>>

SaveHead ==
  /\ step = "return"
  /\ head' = "workspace"
  /\ Then("reset")
  /\ UNCHANGED <<worktree, refVars, editVars, logVars, faults, historyVars>>

\* checkout_head, forced; untracked files stay.
CheckOutHead ==
  /\ step = "reset"
  /\ worktree' = worktree \cup TreeOf(workspace)
  /\ Then("move")
  /\ UNCHANGED <<head, refVars, editVars, logVars, faults, historyVars>>

\* Mutant: what was uncommitted is checked out as it was.
Unmoved(tree, old, new) == tree

\* move_tree: how the tree differs from the old workspace, on top of the new one.
Moved(tree, old, new) == Merged(new, old, tree)

\* update_uncommitted_changes_with_tree.
MoveUncommitted ==
  /\ step = "move"
  /\ stash # Nothing
  /\ worktree' = Moved(stash, TreeOf(job.old), TreeOf(workspace))
  /\ Then("cleanBranch")
  /\ UNCHANGED <<head, refVars, editVars, logVars, faults, historyVars>>

-----------------------------------------------------------------------------
(* cleanup_edit_mode.                                                        *)

CleanBranch ==
  /\ step = "cleanBranch"
  /\ editBranch' = Nothing
  /\ Then("cleanStash")
  /\ UNCHANGED <<head, worktree, refVars, stash, editing, logVars, faults, historyVars>>

CleanStash ==
  /\ step = "cleanStash"
  /\ stash' = Nothing
  /\ Then("cleanMetadata")
  /\ UNCHANGED <<head, worktree, refVars, editBranch, editing, logVars, faults, historyVars>>

CleanMetadata ==
  /\ step = "cleanMetadata"
  /\ editing' = Nothing
  /\ uncommitted' = Nothing /\ edits' = {}
  /\ Finish
  /\ UNCHANGED <<head, worktree, refVars, editBranch, stash, logVars, faults, made, gap>>

EnterStep == Stash \/ WriteMetadata \/ CreateBranch \/ SwitchHead \/ CheckOut
AbortStep == AbortHead \/ Unstash
SaveStep == Materialize \/ SaveHead \/ CheckOutHead \/ MoveUncommitted
CleanStep == CleanBranch \/ CleanStash \/ CleanMetadata
==============================================================================
