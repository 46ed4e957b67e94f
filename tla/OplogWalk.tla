------------------------------ MODULE OplogWalk ------------------------------
(***************************************************************************)
(* The walks over the operations log (crates/gitbutler-oplog/src/oplog.rs, *)
(* crates/but-api/src/legacy/oplog.rs).  A log is a sequence of snapshots, *)
(* oldest first: the first-parent chain that SnapshotIter follows from the *)
(* oplog head.  A snapshot is a record                                     *)
(*   kind  : what the operation that took it was (OperationKind),          *)
(*   state : the repository state it captured, from before that operation, *)
(*   from  : the position of the snapshot a restore restored (the          *)
(*           RestoredFrom trailer), 0 for the other kinds.                 *)
(* The kinds are abstracted to the four the walks tell apart.  Recursion   *)
(* is written as recursive functions.                                      *)
(***************************************************************************)
EXTENDS Integers, Sequences

RestoreKind == {"undo", "redo", "restore"}
OperationKind == {"op"} \cup RestoreKind

Snapshot(kind, state, from) == [kind |-> kind, state |-> state, from |-> from]

\* Mutant: two UNDOs in a row cancel only one snapshot.
UndoTargetOnce(log) ==
  LET walk[i \in 0 .. Len(log), skip \in 0 .. 1] ==
        IF i = 0 THEN 0
        ELSE IF log[i].kind = "undo" THEN walk[i - 1, 1]
        ELSE IF skip = 0 THEN i
        ELSE walk[i - 1, 0]
  IN walk[Len(log), 0]

\* get_undo_target_snapshot: newest to oldest, every UNDO cancels one older
\* snapshot of another kind; the first one left over is the target.  0 is None.
\* At snapshot i, with skip snapshots still to be cancelled; `older` is the walk below i.
UndoStep(log, i, older) ==
  [skip \in Nat |-> IF log[i].kind = "undo" THEN older[skip + 1]
                    ELSE IF skip = 0 THEN i ELSE older[skip - 1]]

UndoWalk(log) ==
  LET walk[i \in 0 .. Len(log)] ==
        IF i = 0 THEN [skip \in Nat |-> 0] ELSE UndoStep(log, i, walk[i - 1])
  IN walk

UndoTarget(log) == UndoWalk(log)[Len(log)][0]

\* get_redo_target_snapshot: every REDO cancels one older snapshot; the first
\* one left over is the target if it is an UNDO, else there is nothing to redo.
RedoStep(log, i, older) ==
  [skip \in Nat |-> IF log[i].kind = "redo" THEN older[skip + 1]
                    ELSE IF skip # 0 THEN older[skip - 1]
                    ELSE IF log[i].kind = "undo" THEN i ELSE 0]

RedoWalk(log) ==
  LET walk[i \in 0 .. Len(log)] ==
        IF i = 0 THEN [skip \in Nat |-> 0] ELSE RedoStep(log, i, walk[i - 1])
  IN walk

RedoTarget(log) == RedoWalk(log)[Len(log)][0]

\* Mutant: a redo is not recognised as a restore.
PeelKeepingRedo(log, at) ==
  LET peel[i \in 0 .. Len(log)] ==
        IF i = 0 \/ log[i].kind \notin {"undo", "restore"} THEN i ELSE peel[log[i].from]
  IN peel[at]

\* peel_restore_snapshot: follow RestoredFrom until a snapshot that is no restore.
PeelRestoreSnapshot(log, at) ==
  LET peel[i \in 0 .. Len(log)] ==
        IF i = 0 \/ log[i].kind \notin RestoreKind THEN i ELSE peel[log[i].from]
  IN peel[at]

\* SnapshotIter, kinds in exclude skipped: the next n snapshots from i on, newest first.
ListStep(log, exclude, i, older) ==
  [n \in Nat |-> IF n = 0 THEN <<>>
                 ELSE IF log[i].kind \in exclude THEN older[n]
                 ELSE <<i>> \o older[n - 1]]

ListWalk(log, exclude) ==
  LET walk[i \in 0 .. Len(log)] ==
        IF i = 0 THEN [n \in Nat |-> <<>>] ELSE ListStep(log, exclude, i, walk[i - 1])
  IN walk

\* Mutant: the page starts with the cursor instead of below it.
ListFromCursor(log, cursor, exclude, limit) ==
  LET start == IF cursor = 0 THEN Len(log) ELSE cursor
  IN ListWalk(log, exclude)[start][limit]

\* list_snapshots: at most limit snapshots older than the cursor (the oplog head when 0).
ListSnapshots(log, cursor, exclude, limit) ==
  LET start == IF cursor = 0 THEN Len(log) ELSE cursor - 1
  IN ListWalk(log, exclude)[start][limit]
==============================================================================
