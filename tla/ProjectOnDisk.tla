---------------------------- MODULE ProjectOnDisk ----------------------------
(***************************************************************************)
(* Edit mode, restores, commits and snapshots over one project, each a     *)
(* sequence of writes an error or a crash may cut short.                   *)
(***************************************************************************)
EXTENDS EditMode, SnapshotRestore

-----------------------------------------------------------------------------
Init ==
  LET commit == <<{}, {First}>>
  IN /\ head = "workspace" /\ worktree = {First}
     /\ workspace = commit /\ branch = commit /\ stored = commit
     /\ editBranch = Nothing /\ stash = Nothing /\ editing = Nothing
     /\ log = <<>> /\ anchored = TRUE
     /\ step = "idle" /\ job = Nothing /\ faults = 0
     /\ made = {First} /\ edits = {}
     /\ uncommitted = Nothing
     /\ gap = FALSE

User == \E c \in Change : Write(c) \/ Delete(c)

\* The commits to edit are those above the target's.
Request ==
  \/ \E i \in 2 .. Len(workspace) : Enter(SubSeq(workspace, 1, i))
  \/ \E force \in BOOLEAN : Abort(force)
  \/ Save
  \/ \E i \in DOMAIN log : BeginRestore(log[i])
  \/ BeginCommit
  \/ TakeSnapshot

Step == EnterStep \/ AbortStep \/ SaveStep \/ CleanStep \/ RestoreStep
          \/ CommitAdded \/ Record \/ Anchor \/ Unrecorded

Next == User \/ Request \/ Step \/ Interrupt \/ Collect

Spec == Init /\ [][Next]_vars

-----------------------------------------------------------------------------
ProjectOK ==
  /\ head \in {"workspace", "edit"} /\ worktree \in Tree
  /\ workspace \in Commit /\ branch \in Commit /\ stored \in Commit
  /\ editBranch \in {Nothing} \cup Commit
  /\ stash \in {Nothing} \cup Tree
  /\ editing \in {Nothing} \cup Commit

LogOK == log \in Seq(Snapshot) /\ anchored \in BOOLEAN

JobOK ==
  /\ step \in {"idle", "commit", "record", "anchor",
               "stash", "metadata", "branch", "switch", "checkout",
               "abort", "unstash", "materialize", "return", "reset", "move",
               "cleanBranch", "cleanStash", "cleanMetadata",
               "worktree", "workspace", "stored", "refs"}
  /\ step = "idle" => job = Nothing
  /\ step \in {"stash", "metadata", "branch", "switch", "checkout"} =>
       job \in [op : {"enter"}, snapshot : Snapshot, commit : Commit]
  /\ step \in {"materialize", "return", "reset", "move"} =>
       job \in [op : {"save"}, snapshot : {Nothing}, old : Commit, new : Commit]
  /\ step \in {"worktree", "workspace", "stored", "refs"} =>
       job \in [op : {"restore"}, snapshot : {Nothing} \cup Snapshot, to : Snapshot]
  /\ step = "commit" => job \in [op : {"commit"}, snapshot : {Nothing} \cup Snapshot]
  /\ step = "record" => job.snapshot \in {Nothing} \cup Snapshot

HistoryOK ==
  /\ faults \in 0 .. MaxFaults
  /\ made \in Tree /\ edits \in Tree
  /\ uncommitted \in {Nothing} \cup [added : Tree, removed : Tree]
  /\ gap \in BOOLEAN

\* What the state is made of.
TypeOK == ProjectOK /\ LogOK /\ JobOK /\ HistoryOK

\* While HEAD is on the edit branch, that branch, the stashed changes and the metadata
\* exist: an editor interrupted anywhere finds a project edit mode can still be left from.
\* (cleanup_edit_mode: HEAD must point back before the branch is deleted.)
EditModeCanBeLeft ==
  head = "edit" => editBranch # Nothing /\ stash # Nothing /\ editing # Nothing

Changes(commit) == UNION {commit[i] : i \in DOMAIN commit}
InSnapshot(s) ==
  s.worktree \cup Changes(s.stored)
    \cup (IF s.workspace = Nothing THEN {} ELSE Changes(s.workspace))

\* Everything a reference, the worktree, the log or the running operation still names.
Reachable ==
  worktree \cup Changes(workspace) \cup Changes(branch) \cup Changes(stored)
    \cup (IF stash = Nothing THEN {} ELSE stash)
    \cup (UNION {InSnapshot(log[i]) : i \in DOMAIN log})
    \cup (IF step = "idle" THEN {} ELSE IF job.snapshot = Nothing THEN {} ELSE InSnapshot(job.snapshot))

\* No change is lost that was not discarded, wherever one operation stops, short of a
\* restore that stops after its first reference moved and before its snapshot is recorded.
\* (Two that stop lose some: entering before its snapshot is recorded, then aborting with
\* HEAD moved back, and entering anew puts the wrong worktree aside.)
ChangesKept == gap \/ made \subseteq Reachable

\* Leaving edit mode, saved or not, brings back what was uncommitted when it was entered,
\* except what the saved commit holds by now.
LeavingRestores ==
  [][step = "cleanMetadata" /\ faults = 0 =>
       Uncommitted' = [uncommitted EXCEPT !.added = @ \ TreeOf(workspace)]]_vars

\* Restoring a snapshot of a workspace in order puts one in order, however torn it was
\* by what was interrupted before, unless a branch could not be set.
RestoreIsWhole ==
  [][step = "refs" /\ faults' = faults /\ job.to.workspace = job.to.stored =>
       workspace' = job.to.stored /\ stored' = job.to.stored /\ branch' = job.to.stored]_vars

\* Without a crash, git gc leaves the log alone: it only grows.
LogOnlyGrows ==
  [][faults = 0 => Len(log) <= Len(log') /\ SubSeq(log', 1, Len(log)) = log]_vars
==============================================================================
