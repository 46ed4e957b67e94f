---------------------------- MODULE ProjectState ----------------------------
(***************************************************************************)
(* What a GitButler project keeps on disk and several multi-step           *)
(* operations share: HEAD, the worktree, the workspace commit, the branch  *)
(* of a stack and the head stored for it in the metadata, the files of     *)
(* edit mode, and the operations log with what keeps it from being         *)
(* collected as garbage.  One operation runs at a time, under the          *)
(* exclusive guard; its steps are the writes a crash can come between.     *)
(*                                                                         *)
(* A tree is the set of the changes in it, every change in a file of its   *)
(* own; a commit is the sequence of the trees from the target's to its     *)
(* own.                                                                    *)
(***************************************************************************)
EXTENDS Naturals, Sequences

CONSTANTS Change,     \* what a user writes into files
          First,      \* the change of the commit there is in the beginning
          Nothing,
          MaxLog, MaxCommits, MaxFaults  \* bounds on the log, the stack and what goes wrong

Tree == SUBSET Change
Commit == Seq(Tree) \ {<<>>}
Snapshot == [workspace : {Nothing} \cup Commit, stored : Commit, worktree : Tree]

ASSUME ProjectAssumption ==
  /\ First \in Change
  /\ Nothing \notin Commit \cup Snapshot /\ \A tree \in Tree : tree # Nothing
  /\ MaxLog \in Nat /\ MaxCommits \in Nat /\ MaxFaults \in Nat

TreeOf(commit) == commit[Len(commit)]

\* What a three-way merge makes of a tree: what differs between the other two, put on top.
Merged(tree, from, to) == (tree \cup (to \ from)) \ (from \ to)

VARIABLES head,       \* the branch HEAD names
          worktree,
          workspace,  \* refs/heads/gitbutler/workspace
          branch,     \* the branch of the stack
          stored,     \* its head in virtual_branches.toml
          editBranch, \* refs/heads/gitbutler/edit
          stash,      \* refs/gitbutler/edit-uncommitted-changes
          editing,    \* edit_mode_metadata.toml
          log,        \* the snapshots reachable from operations-log.toml
          anchored,   \* does the reflog of gitbutler/target name the newest of them?
          step, job,  \* what the running operation does next, and what it holds
          faults,     \* errors and crashes so far
          made, edits,    \* changes made and not discarded; those of them made in edit mode
          uncommitted,    \* what was uncommitted when edit mode was entered
          gap         \* does the log lack what a restore replaced?

refVars == <<workspace, branch, stored>>
editVars == <<editBranch, stash, editing>>
logVars == <<log, anchored>>
historyVars == <<made, edits, uncommitted, gap>>
vars == <<head, worktree, refVars, editVars, logVars, step, job, faults, historyVars>>

Begin(next, held) == step' = next /\ job' = held
Then(next) == step' = next /\ UNCHANGED job
Finish == step' = "idle" /\ job' = Nothing
Fail == faults < MaxFaults /\ faults' = faults + 1

\* What of the worktree the workspace does not hold, and the other way round.
Uncommitted == [added |-> worktree \ TreeOf(workspace), removed |-> TreeOf(workspace) \ worktree]

-----------------------------------------------------------------------------
(* Snapshots, crates/gitbutler-oplog.                                        *)

\* prepare_snapshot brings the stored head in line with the branch.  The workspace
\* commit is part of the snapshot only while HEAD is on it.
Prepared ==
  [workspace |-> IF head = "workspace" THEN workspace ELSE Nothing,
   stored |-> branch, worktree |-> worktree]

\* commit_snapshot: the head file ...
Record ==
  /\ step = "record"
  /\ job.snapshot # Nothing
  /\ log' = Append(log, job.snapshot)
  /\ anchored' = FALSE
  /\ Then("anchor")
  /\ UNCHANGED <<head, worktree, refVars, editVars, faults, historyVars>>

\* Mutant: the reflog is left as it was.
Unanchored ==
  /\ step = "anchor"
  /\ Finish
  /\ UNCHANGED <<head, worktree, refVars, editVars, logVars, faults, historyVars>>

\* ... then set_reference_to_oplog.
Anchor ==
  /\ step = "anchor"
  /\ anchored' = TRUE
  /\ Finish
  /\ UNCHANGED <<head, worktree, refVars, editVars, log, faults, historyVars>>

\* Without a prepared snapshot nothing is recorded; a restore reports that as its error.
Unrecorded ==
  /\ step = "record"
  /\ job.snapshot = Nothing
  /\ Finish
  /\ UNCHANGED <<head, worktree, refVars, editVars, logVars, faults, historyVars>>

\* git gc, once its grace is over: the newest snapshot goes if only the head file names
\* it.  commit_snapshot then starts a log of its own.
Collect ==
  /\ step = "idle" /\ log # <<>>
  /\ ~anchored
  /\ log' = <<>> /\ anchored' = TRUE
  /\ gap' = TRUE
  /\ UNCHANGED <<head, worktree, refVars, editVars, step, job, faults, made, edits, uncommitted>>

-----------------------------------------------------------------------------
(* Other operations: but-api's commit_create, and its create_snapshot.       *)

\* A snapshot that cannot be prepared is ignored.
BeginCommit ==
  /\ step = "idle" /\ head = "workspace"
  /\ Len(log) < MaxLog /\ Len(branch) < MaxCommits
  /\ workspace = branch /\ Uncommitted.added # {}
  /\ stored' = branch
  /\ \/ Begin("commit", [op |-> "commit", snapshot |-> Prepared]) /\ UNCHANGED faults
     \/ Begin("commit", [op |-> "commit", snapshot |-> Nothing]) /\ Fail
  /\ UNCHANGED <<head, worktree, workspace, branch, editVars, logVars, historyVars>>

\* All that was added is committed.  A rebase writes its references in one transaction,
\* and no metadata.
CommitAdded ==
  /\ step = "commit"
  /\ LET new == Append(branch, TreeOf(branch) \cup worktree)
     IN workspace' = new /\ branch' = new
  /\ Then("record")
  /\ UNCHANGED <<head, worktree, stored, editVars, logVars, faults, historyVars>>

TakeSnapshot ==
  /\ step = "idle" /\ Len(log) < MaxLog
  /\ stored' = branch
  /\ Begin("record", [op |-> "snapshot", snapshot |-> Prepared])
  /\ UNCHANGED <<head, worktree, workspace, branch, editVars, logVars, faults, historyVars>>

\* The user writes a file while no operation runs ...
Write(c) ==
  /\ step = "idle" /\ c \notin made \cup worktree
  /\ worktree' = worktree \cup {c}
  /\ made' = made \cup {c}
  /\ edits' = IF head = "edit" THEN edits \cup {c} ELSE edits
  /\ UNCHANGED <<head, refVars, editVars, logVars, step, job, faults, uncommitted, gap>>

\* ... or deletes one that is in the workspace.
Delete(c) ==
  /\ step = "idle" /\ head = "workspace"
  /\ c \in worktree \cap TreeOf(workspace) /\ Uncommitted.removed = {}
  /\ worktree' = worktree \ {c}
  /\ made' = made \ {c}
  /\ UNCHANGED <<head, refVars, editVars, logVars, step, job, faults, edits, uncommitted, gap>>

\* An operation stops between two steps: the process dies, or a step returns an error.
Interrupt ==
  /\ step # "idle"
  /\ Fail
  /\ gap' = (gap \/ (job.op = "restore" /\ step \in {"stored", "refs", "record"}))
  /\ Finish
  /\ UNCHANGED <<head, worktree, refVars, editVars, logVars, made, edits, uncommitted>>
==============================================================================
