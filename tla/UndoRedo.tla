------------------------------ MODULE UndoRedo ------------------------------
(***************************************************************************)
(* Operations, undo, redo and explicit restores of one project over the    *)
(* append-only operations log.  Clients are the programs that work on the  *)
(* project at once (the desktop application, `but`, its TUI); whoever      *)
(* changes the repository holds the exclusive guard, so a restore or an    *)
(* operation is serialised against the others.  Selecting what to undo is  *)
(* not: handle_undo and restore_to_target_snapshot read the log first and  *)
(* only restore_snapshot_with_kind takes the guard.                        *)
(*                                                                         *)
(* A State is what a restore replaces: the references, the metadata and    *)
(* the workspace commit.  The files of the worktree are merged rather than *)
(* replaced (safe_checkout) and are no part of it.                         *)
(***************************************************************************)
EXTENDS OplogWalk, FiniteSets

CONSTANTS Client,   \* the programs working on the project
          State,    \* what a snapshot captures, as opaque values
          NoState,  \* no prepared snapshot tree
          Nobody,   \* the exclusive guard is free
          MaxLog    \* bound on the length of the log

ASSUME UndoRedoAssumption ==
  /\ NoState \notin State
  /\ Nobody \notin Client
  /\ MaxLog \in Nat

VARIABLES repo,    \* the state of the repository
          log,     \* the snapshots, oldest first
          holder,  \* who holds exclusive_worktree_access
          before,  \* the holder's UnmaterializedOplogSnapshot, or NoState
          sel      \* the target each client selected and has not restored yet
vars == <<repo, log, holder, before, sel>>

NotSelected == [kind |-> "none", target |-> 0]

\* Types: in particular only a prepared state ever becomes a snapshot.
TypeOK ==
  /\ repo \in State
  /\ log \in Seq([kind : OperationKind, state : State, from : Nat])
  /\ holder \in Client \cup {Nobody}
  /\ before \in State \cup {NoState}
  /\ sel \in [Client -> [kind : {"none", "undo", "redo"}, target : Nat]]

Init ==
  /\ repo \in State
  /\ log = <<>>
  /\ holder = Nobody
  /\ before = NoState
  /\ sel = [c \in Client |-> NotSelected]

Free(c) == holder = Nobody /\ sel[c] = NotSelected

\* commit_snapshot: one more snapshot on top of the log.
CommitSnapshot(kind, state, from) ==
  /\ Len(log) < MaxLog
  /\ log' = Append(log, Snapshot(kind, state, from))

\* Git, another program, or a restore that fails half-way changes the
\* repository without leaving a snapshot.
Drift == repo' \in State /\ UNCHANGED <<log, holder, before, sel>>

\* prepare_snapshot: a tree of the references, the metadata and the workspace
\* commit as they are, or a failure.
PrepareSnapshot == {repo, NoState}

\* A non-legacy operation takes the guard and prepares its snapshot; a
\* preparation that fails is logged and ignored, and the operation goes on.
BeginOperation(c) ==
  /\ Free(c)
  /\ Len(log) < MaxLog
  /\ holder' = c
  /\ before' \in PrepareSnapshot
  /\ UNCHANGED <<repo, log, sel>>

\* Mutant: the snapshot is committed without asking whether there is one.
FinishUnprepared(c) ==
  /\ holder = c
  /\ repo' \in State
  /\ CommitSnapshot("op", before, 0)
  /\ holder' = Nobody
  /\ before' = NoState
  /\ UNCHANGED sel

\* Its effect succeeds: the prepared snapshot, when there is one, is committed.
FinishOperation(c) ==
  /\ holder = c
  /\ repo' \in State
  /\ IF before = NoState THEN UNCHANGED log ELSE CommitSnapshot("op", before, 0)
  /\ holder' = Nobody
  /\ before' = NoState
  /\ UNCHANGED sel

\* Its effect fails: the snapshot tree is dropped; what it changed before is a Drift.
FailOperation(c) ==
  /\ holder = c
  /\ holder' = Nobody
  /\ before' = NoState
  /\ UNCHANGED <<repo, log, sel>>

\* create_snapshot: on demand, or before a legacy operation whose effect then
\* changes the repository (a Drift here) whether it succeeds or fails.
CreateSnapshot(c) ==
  /\ Free(c)
  /\ CommitSnapshot("op", repo, 0)
  /\ UNCHANGED <<repo, holder, before, sel>>

\* handle_undo / handle_redo: the target is chosen without holding the guard.
Target(kind) == IF kind = "undo" THEN UndoTarget(log) ELSE RedoTarget(log)

Select(c, kind) ==
  /\ sel[c] = NotSelected
  /\ holder # c
  /\ Target(kind) # 0
  /\ sel' = [sel EXCEPT ![c] = [kind |-> kind, target |-> Target(kind)]]
  /\ UNCHANGED <<repo, log, holder, before>>

\* restore_snapshot: back to what snapshot i captured; the state before the
\* restore becomes the newest snapshot.
RestoreSnapshot(kind, i) ==
  /\ holder = Nobody
  /\ repo' = log[i].state
  /\ CommitSnapshot(kind, repo, i)
  /\ UNCHANGED <<holder, before>>

RestoreSelected(c) ==
  /\ sel[c] # NotSelected
  /\ RestoreSnapshot(sel[c].kind, sel[c].target)
  /\ sel' = [sel EXCEPT ![c] = NotSelected]

\* `but oplog restore`: any snapshot of the log.
RestoreExplicit(c) ==
  /\ sel[c] = NotSelected
  /\ \E i \in 1 .. Len(log) : RestoreSnapshot("restore", i)
  /\ UNCHANGED sel

\* The program is killed: the guard goes with it, and what it had prepared or selected.
Crash(c) ==
  /\ holder = c \/ sel[c] # NotSelected
  /\ holder' = IF holder = c THEN Nobody ELSE holder
  /\ before' = IF holder = c THEN NoState ELSE before
  /\ sel' = [sel EXCEPT ![c] = NotSelected]
  /\ UNCHANGED <<repo, log>>

Next ==
  \/ Drift
  \/ \E c \in Client :
       \/ BeginOperation(c) \/ FinishOperation(c) \/ FailOperation(c)
       \/ CreateSnapshot(c)
       \/ \E kind \in {"undo", "redo"} : Select(c, kind)
       \/ RestoreSelected(c) \/ RestoreExplicit(c)
       \/ Crash(c)

Spec == Init /\ [][Next]_vars

-----------------------------------------------------------------------------
(* The refinement: the stacks, read off the log. *)

NoStacks == [past |-> <<>>, future |-> <<>>]

\* What a snapshot does to the stacks.
StacksStep(x, s) ==
  LET front(q) == SubSeq(q, 1, Len(q) - 1)
  IN CASE x.kind = "undo" -> [past |-> front(s.past), future |-> Append(s.future, x.state)]
       [] x.kind = "redo" -> [past |-> Append(s.past, x.state), future |-> front(s.future)]
       [] OTHER -> [past |-> Append(s.past, x.state), future |-> <<>>]

\* The stacks after the first n snapshots of a log.
Stacks(l) ==
  LET stacks[n \in 0 .. Len(l)] ==
        IF n = 0 THEN NoStacks ELSE StacksStep(l[n], stacks[n - 1])
  IN stacks

History == INSTANCE UndoHistory WITH
  NoMark <- NoState,
  now <- repo,
  mark <- before,
  past <- Stacks(log)[Len(log)].past,
  future <- Stacks(log)[Len(log)].future

\* A single program: the two walks over the append-only log behave like the
\* two stacks of an editor, whatever it did before, with undos, redos, new
\* operations, explicit restores and crashes in any order.
UndoHistorySpec == History!Spec

\* RestoreKind's promise for an implicit restore (oplog.rs): an undo undoes the
\* last snapshot that is not undone yet, and a redo the last undo, as the log
\* stands when the restore happens.
ImplicitRestoreIsLast ==
  [][\A c \in Client :
       sel[c] # NotSelected /\ Len(log') > Len(log) /\ sel'[c] = NotSelected
         => sel[c].target = Target(sel[c].kind)]_vars

\* A restore snapshot names an older snapshot, so that peel_restore_snapshot
\* ends, and it ends at a snapshot some operation took.
PeelFindsAnOperation ==
  \A i \in 1 .. Len(log) :
    LET p == PeelRestoreSnapshot(log, i) IN p \in 1 .. i /\ log[p].kind = "op"

\* Paging through list_snapshots with the last snapshot of a page as the cursor
\* yields each snapshot once and in order, whatever the kinds left out, even
\* though snapshots are added on top between the pages.
PagesTile ==
  \A n \in 0 .. Len(log), size \in 1 .. 2, exclude \in {{}, {"undo", "redo"}} :
    LET older == SubSeq(log, 1, n)
        page == ListSnapshots(older, 0, exclude, size)
        rest == ListSnapshots(log, page[Len(page)], exclude, Len(log))
    IN page # <<>> => page \o rest = ListSnapshots(older, 0, exclude, Len(log))
==============================================================================
