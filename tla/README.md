# GitButler in TLA+

TLA+ models of the parts of GitButler (`crates/`) whose correctness depends on
order, on several programs at once, on crashes, or on arithmetic that is easy to
get wrong by one. TLC checks every model on small instances, and TLAPS proves
the main results about seven of them for every value of the constants.
`PROJECT.json` lists for every definition the lines it stands for, for every run
what it checks, and for every property a mutation of the code that breaks it.

## The system

A GitButler project is a Git repository with a workspace of several applied
*stacks* of branches. Several programs work on it at once: the desktop
application (Tauri, one process, several windows, many request threads), the
command line `but` and its TUI, the commit hooks these launch, agents, and Git
itself. There is no server; they meet in files.

    desktop / but / TUI / agents  ->  but-api, gitbutler-branch-actions
        |  takes a guard                        (but-core/src/sync.rs)       RepoAccess
        |  prepares and commits a snapshot      (gitbutler-oplog)            UndoRedo
        |  rearranges commits and references    (but-transaction,            Transaction
        |                                        but-workspace, but-rebase)
        |  edits a commit, restores a snapshot  (gitbutler-edit-mode, -oplog) ProjectOnDisk
        |  reads and writes branch metadata     (but-meta/src/legacy)        VbStorage
        |  asks which commits own which lines   (but-hunk-dependency)        HunkRanges
        v
    .git, .git/gitbutler/*.toml, SQLite database, worktree

    desktop application -> but-irc: connections kept up in the background    IrcConnections

### Components that keep state or carry logic

| Component | State | Operations | Hard behaviour | What makes it correct |
|---|---|---|---|---|
| Repository access (`but-core/src/sync.rs`, `but-ctx/src/access.rs`) | fair read-write lock per git directory, `gitbutler.write-lock` file | shared and exclusive guards, drop | processes, hooks that call GitButler while their parent holds the lock, kills, file systems without locks | one writer per process; one writer per project but for hooks; nobody waits for ever |
| Operations log (`gitbutler-oplog`, `but-api/src/legacy/oplog.rs`, `but/src/command/legacy/oplog.rs`) | chain of snapshot commits, a head file, a reflog | prepare and commit a snapshot, list, peel, choose what to undo or redo, restore | the log only grows, so undo and redo are walks over it; two programs; failed preparations; crashes inside a restore | behaves like two stacks; no state is lost by a restore |
| Branch metadata storage (`but-meta/src/legacy/storage.rs`) | `virtual_branches.toml` and database rows with last-seen time and hash | read, write, import, reconcile | the file is outside the transaction; other writers; clock resolution; crashes between rename and commit | an access never changes what the metadata is except to what it was asked to write |
| Branch metadata handle (`but-meta/src/legacy/mod.rs`) | an in-memory copy | read, set, write, write on drop | the copy may be stale | no lost update |
| Hunk dependency (`but-hunk-dependency`) | ranges per file and stack | add a commit's diff, combine the stacks, look up locks | splitting, trimming, zero-line ranges, line shifts | the ranges are the blame of the file |
| Hunk assignment (`but-hunk-assignment`) | assignments of worktree hunks to branches | reconcile | stale hunks, locks that override | every hunk assigned once, locked hunks where they must be |
| Edit mode (`gitbutler-edit-mode`) | a metadata file, two references, HEAD | enter, save, abort | several steps on disk | uncommitted changes are never lost |
| Rebase engine (`but-rebase/src/graph_rebase`) | a graph of steps, the mapping of commits | insert, disconnect, replace, rebase | conflicts that come and go, chains of rewrites | a commit keeps its patch; ids lead to the newest commit |
| Workspace operations (`but-workspace/src/commit`) | none of their own | create, amend, move, squash, reword, discard, move changes | commits in between, anchors that move | each is an edit of a list of commits |
| Transactions (`but-transaction`) | a rebase session, references created ahead | run an operation, roll back, commit | failures half-way, ids from before | all or nothing |
| Commit graph (`but-graph`) | a projection of the history | build, query | size, odd histories | stacks are those of the history |
| File monitor (`gitbutler-filemonitor`, `gitbutler-watcher`) | debounced events | coalesce, notify | bursts, suppressed events | no change stays unreported |
| IRC (`but-irc`) | connections, watchers | add, remove, reconnect | tasks, back-off, re-added ids | one watcher per connection |
| Project windows (`gitbutler-tauri/src/window.rs`) | windows and project locks | open, close | order of closing | some window owns the project |

The other components (API marshalling, settings, forges, user interface,
generators, test support) are listed in `PROJECT.json` with the reason they are
left out. The `hazards` there name what is hard to test in this code line by
line, with the property that covers it or the reason why none does.

## Modules

### RepoAccess (`but-core/src/sync.rs`)

A thread is idle, queued on the lock of its process, trying the file lock,
holding a guard, or giving it back. `Request` is `exclusive_repo_access` or
`shared_repo_access` up to where it blocks; `Grant` the fair read-write lock,
which serves its queue in order and admits several readers at its head;
`LockFile` and `SkipFile` are the outcomes of `best_effort_inter_process_lock`:
it goes on without the file when locking fails, and in a Git commit hook also
when somebody else has it. Dropping a `RepoExclusiveGuard` is two steps
(`UnlockFile`, `UnlockProcess`), the file first. `LaunchHook`,
`GitRunsHook` and `HookExit` are the environment: a writer that runs a commit
hook waits for it. `Crash` kills a process: the operating system gives back its
file lock, and the hooks it launched go on as orphans.

* `InProcessExclusion`, `InterProcessExclusion`: the "hard" and the
  "best-effort" guarantee of the module's comments. The second is claimed only on
  a file system that locks (`~FileLockFails`).
* `FileInsideLock`: the file is only held by a thread that owns its process's
  lock to write, so a file lock is never left behind by a thread that went on.
* `HookReturns`: no writer waits for ever for its own hook. This is why a hook
  skips a taken file.
* `EveryRequestEnds`: readers and writers are all served.

`EveryRequestEnds` carries its assumption about the file lock in its premise: if no
thread that tries the file for ever misses it every time it is free
(`SF(LockFile)`), every request ends. The other properties need no such thing.

Left out: `try_exclusive_inter_process_access` (it probes other lock files and
queues nowhere) and the re-entry panic of debug builds.

### OplogWalk, UndoRedo, UndoHistory (`gitbutler-oplog`, `but-api`, `but`)

`OplogWalk` has the pure walks over the log: `get_undo_target_snapshot`,
`get_redo_target_snapshot`, `peel_restore_snapshot` and `list_snapshots`. A walk
is a function over the positions of the log, the oldest first: `UndoWalk(log)[i]`
gives for every count of snapshots still to be cancelled what the loop finds from
snapshot i on, and `UndoStep` is one turn of the loop (likewise `RedoStep`,
`ListStep`). A snapshot records its kind, the state it captured (from before its operation) and
what a restore restored.

`UndoRedo` has the programs. An operation takes the guard, prepares a snapshot,
which may fail and is then ignored, and on success commits it; one that fails
leaves none. `CreateSnapshot` is the older path, which commits before the effect.
`Select` is `handle_undo` / `handle_redo` choosing the target **without** the
guard, `RestoreSelected` the restore with it. `RestoreExplicit` restores any
snapshot. `Crash` may hit any of these. `Drift` changes the repository with no
snapshot: Git, another tool, the effect of a failing operation, or a restore
that stops half-way.

`UndoHistory` is the abstract specification: the two stacks of an editor. The
property `UndoHistorySpec` states that `UndoRedo` with one program implements it;
the refinement mapping reads the stacks off the log (`Stacks`). `PeelFindsAnOperation`
and `PagesTile` are about the other two walks. `ImplicitRestoreIsLast` is what
the documentation of `RestoreKind` promises, and fails with two programs
(finding below).

Left out: what is in the tree of a snapshot, the diff of snapshots and the text
of their messages, filtering a listing by what to include, and commits in the log that are no
snapshots. A restore is one step here.

### VbStorage (`but-meta/src/legacy/storage.rs`)

State: the file (content and modification time), the committed rows (content,
last seen time and hash), the open transaction and the phase it is in, and for
each process how far an import is. `SyncImport`, `SyncEqual` and `SyncRewrite`
are the branches of `ensure_vb_storage_in_sync`; `WriteData` and `Reread` the two
halves of `write_toml`; `RestoreFile`, `ReadRestored` and `Import` are
`restore_legacy_metadata_from_toml` and `import_toml_into_db`, which write and
read the file outside a transaction. `Edit` is any other program. `Tick` is the
clock of the file system, so that two writes can have the same time. Three
constants switch the environment: `WriteInside` (others may write the file
during a transaction), `DbMayFail` (an in-memory database stands in for one that
does not open) and `ClockGoesBack`.

* `SeenIsSame`: what `toml_compare` calls equal is equal.
* `AccessSeesMeaning`: an access works on, and a read returns, what the metadata
  is.
* `SyncIsInvisible`: with `Effective` the metadata the next access would find,
  every single step of an access keeps it or makes it what was asked for. As a
  crash may follow any step, this is also the crash safety of the storage.

The conversions between file and rows stand for a bijection; a failing one ends
the access (`Abort`), as does an unsuccessful second reading of the file.

Limits: the run has all three switches off, and the theorems say which they need off.
With `WriteInside`, a file replaced between the two halves of `write_toml` is recorded as seen
though nobody imported it (`storage.rs:224`), and `SeenIsSame` fails. With `DbMayFail`, an
access that falls back to the blank database in memory rewrites a broken or missing file as
empty while the rows on disk hold metadata (`storage.rs:190`; the comment at 161 asks to "Fail
loudly"), and `SyncIsInvisible` fails. With `ClockGoesBack` a newer file may look older.

### HunkRanges (`but-hunk-dependency/src/ranges`)

One file over all stacks. `Add` is `PathRanges::add` with `HunkRange::receive`
(`Receive`), `Combine` is `combine_path_ranges`, and `Locks` the lookup with
`intersects` and `intersects_or_adjacent`. Next to them the module keeps the file
itself: which commit wrote each line, and which removed lines at each gap. A
commit changes the file and passes its diff to the ranges.

* `RangesAreBlame`: the ranges of a stack are exactly the blame of its file.
* `ShiftsAddUp`: the shifts stored with the ranges above a line add up to how far
  the line has moved, however a split divided them.
* `OrderedMeansRight`: combined ranges that are in order are the workspace's.
* `LinesAreLocked`: under that condition a worktree hunk is locked to the commit of every
  line it removes. This is what a user meets. It holds with the headers as the crate
  documents them; with those of the program's own diff it is proved where commits substitute
  lines, and fails where they insert some (finding below).
* `WorkspaceLinesAreBlame`: the combined ranges name the lines of the workspace
  commit. It fails where ranges are taken in the wrong order (finding below).

`GixHeaders` chooses between the header convention in this crate's comments
(an empty span starts at the line before it) and the one the program's diff
has (the line after it). Left out: renames, and diffs that are binary or too
large and have no hunks. Numbers are unbounded; that none falls below zero is
part of `TypeOK`.

### ProjectState, EditMode, SnapshotRestore, ProjectOnDisk (`gitbutler-edit-mode`, `gitbutler-oplog`)

What several multi-step operations share on disk, and each operation write by
write, so that an error or a crash (`Interrupt`) may come between any two.
`ProjectState` has the state, the taking of snapshots (`Record`, the head file;
`Anchor`, the reflog entry that keeps it), `git gc` (`Collect`), a commit and the
user's own writes; `EditMode` has `enter_edit_mode`,
`abort_and_return_to_workspace` and `save_and_return_to_workspace`;
`SnapshotRestore` the five writes of `restore_snapshot`; and `ProjectOnDisk`
composes them. A tree is the set of the changes in it and a commit the sequence
of trees from the target's to its own; a three-way merge puts a difference of
two trees on a third (`Merged`).

* `EditModeCanBeLeft`: while HEAD is on the edit branch, everything an abort or a
  save needs exists. It decides the order of the writes in `enter_edit_mode` and
  `cleanup_edit_mode`.
* `ChangesKept`: every change the user made and did not discard is still named by
  a reference, the worktree, the log or the running operation, wherever an
  operation stops. A restore is excused from its first reference until its
  snapshot is recorded (`gap`): the code records what was there before only
  when everything is replaced.
* `LeavingRestores`: leaving edit mode brings back what was uncommitted, except what
  the saved commit holds by then. The exception is real: a change the user had
  deleted, that a restore brought back into the worktree and that is written again in
  edit mode, is committed by the save and no longer uncommitted.
* `RestoreIsWhole`: a restore heals whatever another one left torn.
* `LogOnlyGrows`: without a fault `git gc` never shortens the log. A crash between the head
  file and the reflog leaves the newest snapshot to it, and with it the way to the others.

Restoring leaves a file that only the worktree changed as it is, since
`safe_checkout` writes just the paths in which HEAD's tree and the snapshot
differ (`oplog.rs:732`); `Checkout` models this.

Left out: conflicted commits and the index (also the one swapped while a hook
runs), a HEAD that is on neither the workspace nor the edit branch, what a rebase
does where workspace commit and branch disagree, and more than one stack.

### TreeMerge, RevisionHistory, RebaseGraph, StackEdits, Transaction, TransactionStacks (`but-rebase`, `but-workspace`, `but-transaction`)

`TreeMerge` is the three-way merge of trees, file by file; `RevisionHistory` the
mapping of commits through a session. `RebaseGraph` is the engine: steps with
ordered parents, the mutations (`Insert`, `Disconnect`, `Replace`), `CherryPick`,
which makes a conflicted commit out of a clash and heals one when the clash is
gone, and `Rebase`, which picks every commit onto its present parents. A commit is
its own id: a record that contains its parents and the set of its ancestors. The
loops of the code over the graph (`Through`, `PostOrder`, `PickingOrder`,
`MergedTree`, `PickAll`) are functions from the number of a turn to the state after
it, so that they can be proved about.

`Transaction` has one action per operation of `but-transaction`, each the whole
function of `but-workspace` it calls, and `Commit` and `Rollback`. Every operation
that fails ends the transaction (`Refused`). The client names commits by the ids
it knows.

`StackEdits` is the abstract specification: stacks are lists of references and
commits, a commit is its message and its patch, and every operation is the edit of
a list that a user has in mind. Nothing is saved before the end, and then all is.
`TransactionStacks` has the refinement mapping, which reads the stacks off the graph
(`Stacks`) and off the references of the repository (`Saved`).

* `IsStackEdit`: `Transaction` implements `StackEdits`. Commits keep their patch and message through any
  conflicts, their order, and references their place. It excuses the patch of a commit
  into which one from farther below is squashed (`SquashesButForPatch`), and nothing
  else of that operation.
* `SquashHasBoth`: what it excuses. A squash leaves a commit that does what both did,
  as the documentation of `squash_commits` says. It fails (finding below).
* `IdsMeanTheirCommit`: the id the client knows leads to that commit however
  often it was rewritten.
* `WorkspaceIsItsStacks`: the workspace commit, which is checked out, has the tips of
  the stacks for parents and nothing in its tree that is not theirs, though it is
  picked like any other commit.

What the code does that one may not expect, and the model says as it is:

* `commit_amend` does not note its commit in the history, and picks of created and
  blank commits are not tracked. The client has to use the id it is told; for
  a created commit even that one stops working once an operation below it rewrites
  it.
* `remove_reference` leaves a step without effect in the graph, and a squash into the
  commit right above it fails with "BUG: expected parent selector" (modelled as a
  refusal).
* Uncommitted changes are changes of HEAD's tree, which earlier operations of the
  transaction have not moved (`but-core/src/tree/mod.rs:87`): they are merged into
  the commit's tree or rejected (`Rejected`).

Limits of the model: a file is merged whole and each writer writes content of
its own. Anchors are never among the commits that are moved (the command line
sees to it, the API does not: the step would become its own parent). Nothing is
inserted above the reference on top of a stack, and every stack has one. A squash has
one subject, keeps both messages and neither commit is conflicted. References are
created next to others and under fresh names. All a commit does to one file is
moved at a time, and never to the same commit. Steps keep their number over a
rebase, so that selectors are not normalised. The metadata, the database and the
snapshot of a committed transaction are left out, and so are a crash between
the checkout and the references when it is committed (`materialize.rs:54`), merge
commits inside a stack and preserved parents.

### IrcConnections (`but-irc`)

One connection id of the manager. Tasks start, remove or re-create the
connection; a watcher task reconnects it; `Attempt` takes the client out of the
map, so that no lock is held while it waits for the network (`DialFails`,
`DialSucceeds`), and `Restore` puts it back into whatever entry has the id then.
The message handler of each attempt writes the state the others read, possibly
late (`WriteLate`); a forwarder reads the events.

* `AbsentClientReturns`: an entry without its client is being connected by somebody.
* `WatcherConnects`: a watcher that goes on gets its connection ready again and again,
  whatever streams fail and whichever handler writes late.
* `ConnectionGetsReady`: what the comments of `create_and_connect` promise, a connection that
  was created gets ready unless it is removed or everything shuts down. It fails, because the
  watcher may stop (finding below). `EventsGetRead`, too, is about watchers that go on.
* `EventsGetRead`: once a spawner is registered, a watched connection does not stay
  without a reader. A state misreported as ready by a late handler
  (`client.rs:608`) is excused: nothing in the code would notice it.
* `ShutdownEndsAll`: the broadcast ends every watcher and handler, also those of
  connections that were not drained.

The watcher looks every five seconds, so that an id removed and added again in
between has two watchers; the model and the proofs cover that, the run has one creation,
one removal and one watcher, since two of each take TLC too long. Left out: channels, messages, and the durations of
back-off and timeouts.

## Runs

Each module `MC<name>` gives the constants of `<name>` their values for TLC, and
`<run>.cfg` selects what is checked.

| Run | Instance | Distinct states | Shows |
|---|---|---|---|
| `UndoRedo` | 1 program, 2 states, 5 snapshots | 63 348 | undo and redo are two stacks; peeling ends; pages tile |
| `UndoRedoRace` | 2 programs, 3 snapshots | violation | an undo reverts two operations |
| `VbStorage` | 2 processes, 3 contents, 3 times | 99 120 | reconciling changes nothing, crashes included |
| `RepoAccess` | 4 threads in 3 processes, one a hook | 8 926 | both exclusions, hooks return, every request ends |
| `IrcConnections` | 2 tasks, 1 watcher | 41 330 | a watcher that goes on gets its connection ready and read; shutdown ends all |
| `IrcReconnect` | the same | violation | a watcher that looks during a dial stops for ever |
| `ProjectOnDisk` | 3 changes, 3 snapshots, 3 commits, 1 fault | 2 682 169 | edit mode can be left, no change is lost, restores heal |
| `Transaction` | 3 layouts of stacks, 2 files, 2 operations | 19 648 | operations are edits of lists; all or nothing |
| `TransactionSquash` | a stack of 3 commits, 1 operation | violation | a squash from farther below loses a change |
| `HunkRanges` | 2 stacks, 3 base lines, 3 commits, 3 hunks | 36 233 | ranges, shifts and locks are right, and the order decides |
| `HunkRangesHeaders` | 1 stack, 3 base lines, the program's headers | violation | insertions leave ranges behind, and hunks lose their locks |
| `HunkRangesCombine` | 2 stacks of substitutions, 5 base lines | violation | ranges combined in the wrong order |

### Bounds, and why they are enough

* `MaxLog = 5`: two operations, two undos and a redo or a new operation fit, so
  that walks skip over runs of both kinds; the counters of the walks depend on
  the kinds only. `MaxLog = 3` is enough for the race.
* Two states: the refinement only compares states, and each choice is
  nondeterministic.
* `VbStorage`: a file, rows and a writer's argument can all differ with three
  contents; older, equal and newer exist with three times. One process has the
  transaction, the second is between reading and importing.
* `RepoAccess`: two threads of one process meet in the queue, one of another at
  the file, and one of a hook takes part in both. A second hook would only add
  another thread that skips the file.
* `ProjectOnDisk`: three changes are one that is committed, one that is uncommitted
  and one made in edit mode. With `MaxFaults = 1` an operation stops anywhere and
  everything may follow. With two, `ChangesKept` fails, and rightly: an abort that
  stops once HEAD moved leaves the changes in the stash only; entering edit mode
  again overwrites the stash before its own snapshot is recorded, and stops
  there too. The changes of two users' files are alike but for `First`, which
  `SYMMETRY` uses.
* `Transaction`: `MaxOperations = 2` lets every operation meet what any other left:
  a conflict is made and healed, an id is mapped twice, a reference is created
  and removed. The layouts have commits that depend on each other and ones that do
  not, references in the middle, and an empty stack. Random behaviours of five
  operations (226 000 states) showed nothing else.
* `TransactionSquash` begins with one stack of three commits; the lowest changes a file of its
  own, so that no conflict is to blame.
* `IrcConnections`: two tasks are enough for a client to be replaced while it is
  out, and each attempt may fail, be overtaken or be removed any number of times.
* `HunkRanges`: three commits are one that writes lines, one that splits them and
  one that meets the pieces. `MaxHunks = 3` makes one of these two-hunked. Hunks
  replace and bring up to two lines, so that splits leave unequal parts.
  Deadlock is not checked since the commits are bounded.

### Fairness

`RepoAccess`. `WF(Grant)`: the lock of the process is parking_lot's with fair
unlocking, and a grant that is possible happens. `WF(BestEffortLock)`: the file is
not withheld for ever from a thread while nobody else takes it; under contention
only the premise of `EveryRequestEnds` says more. `SF(Release)`: the owner of a guard gives it back
after running finitely many hooks. `SF(HookExit)`: a hook runs finitely many
commands and then exits. No fairness is assumed of requests, hooks being
launched, or crashes.

`IrcConnections`. Tasks, watchers and handlers run, since the runtime drops no
future. A dial ends one way or the other; of endlessly many not every one fails,
nor is every one that succeeds left without a welcome (a server that always
refuses is nothing the watcher could help). `SF(RunForwarder)` while the client is
in the entry: the spawned task runs at some time within the five seconds the
watcher sleeps. `SF(WatcherStops)`: both sleeps of the watcher also wait for the
broadcast. Nothing is assumed of the streams, which may fail for ever, of tasks
being begun, or of a shutdown.

`ProjectOnDisk` and `Transaction` have safety properties only: nothing in their
code waits.

## Proofs

* `RepoAccess_proofs`: `TypeOK`, `InProcessExclusion`, `FileInsideLock` and
  `InterProcessExclusion` are invariants for any threads, processes and hooks.
  Inter-process exclusion is not inductive. `IInv` adds that only writers go for
  the file (`FileIsForWriters`) and that a writer which is no hook has it
  (`WriterHasFile`); that two of them exclude each other is then immediate.
* `VbStorage_proofs`: `TypeOK` holds with all three switches on. `SeenIsSame` and
  `AccessSeesMeaning` hold if the file is not written by others inside a
  transaction and the database opens, and `SyncIsInvisible` if, besides, the
  clock is not set back. The inductive invariant says phase by phase how far the
  file, the committed rows and the transaction's agree (`TransactionPhases`),
  that committed rows carry the hash of what they hold (`CommittedRows`), and
  that no time lies in the future (`NothingFromTheFuture`). All three conditions are
  needed (see the limits of `VbStorage`).
* `HunkRanges_proofs`: for any number of stacks, commits, hunks and lines, and for
  headers as the crate's comments have them (`GixHeaders = FALSE`; with the others
  the run `HunkRangesHeaders` is the counterexample), `TypeOK`, `RangesAreBlame`,
  `ShiftsAddUp` and `OrderedMeansRight`, the last for a workspace with at least one stack.
  The proof goes from the inside out. `receive` conserves the shift of a range
  (`ReceiveConservesShift`) and leaves of it what is above and below the hunk
  (`ReceiveTiles`). A hunk passes ranges until one reaches below it
  (`ReceiveWalkIs`, `PassedSay`, `RestIs`), so that the ranges pushed name what they
  did, what was above the hunk, and the hunk's own lines (`HunkAdded`). An edit does
  the same to the file (`PatchedIs`). By induction over the hunks (`AddOK`) the ranges
  pushed so far name the places of the file *after* these edits, in the new line
  numbers, and those still in the iterator the places of the file *before* the commit,
  past the last edit and in the old numbers; `PatchOK` is what lets the two meet: past
  the last edit the file has only moved. At the end that is `AddIsBlame`. The inductive
  invariant of the specification (`StackOK`) is that the ranges of each stack are in
  order, disjoint and name the places of its file; the order is needed because a
  range is passed or put back by where it lies (`RangesInOrder`). The shifts follow the
  same way (`ShiftsOK`, `AddShifts`): where a line of the merge base still is, no range
  names it (`Free`), so that a shift is never divided across it, and what counts above
  it changes only by the net lines of hunks above. The rounding of the division
  therefore never shows in a sum that is taken.
  Combining the stacks takes each range once and moves it by shifts of first
  ranges of the other stacks (`CombineTakesAll`; `NextStackIs` keeps the index inside
  the ranges), so a commit that added or deleted the file always locks it
  (`WholeFileLocks`). The lookup is right for any ranges that are a blame
  (`LocksFollowBlame`), hence for a stack's own (`StackLocksRight`) and for the combined
  ones where one stack alone changes the file (`LoneStackLocksRight`: then nothing
  moves, `StaysPut`).
  For several stacks, that combined ranges in order are those of Git's merge
  (`OrderIsRight`) is argued in the merge base. A range is taken back there by the shifts
  of those before it (`BaseTop`, `BaseBottom`). For the ranges of one stack to be in order
  there too, none may have grown the file by more lines than it has: `Slim`, which the
  rounded division of a split range keeps (`ShareFits`). Each range lies in one block
  between two lines of the merge base that its stack keeps (`RangeBlock`), the lines of a
  file are in the order of the merge base (`KeepsOrder`), and stacks are independent; these
  three are in the inductive invariant (`Inv`) besides what is right for a single stack. A
  block that one stack changed all others keep as it was, so that the ranges of another
  stack are above it or below it, and those above have moved it as far as the lines there
  have moved (`Apart`). The loop itself compares numbers of different files and may take
  ranges in the wrong order, but not without two of what it puts out being out of order:
  as long as they are in order, what was taken before a range is what lies above it and
  what comes later lies below (`Placed`, `ChainOK`, `ChainStep`). In the end a range has
  moved by how much the other stacks move its block (`CombinedIs`). On the other side the
  workspace commit is laid out block by block (`FlattenPlaces`, `WorkspaceIs`), which puts
  the lines of the block in the same place (`WorkspaceSays`, `CombinedMatches`). The lookup
  of locks is then right, too (`CombinedLocks`).
  What the program passes are other headers, but only for empty spans. The proofs ask of a
  commit no more than that its headers are the ones both conventions agree on
  (`HeadersAgree`), so that `RangesAreBlame`, `OrderedMeansRight` and with them
  `LinesAreLocked` hold with the program's headers, too, while commits substitute lines and
  do not create or delete the file (`SubstitutionsLocked`).
* `IrcConnections_proofs`: `TypeOK` and `AbsentClientReturns` for any number of
  tasks and watchers. The invariant adds `HandIsBusy`: exactly those who dial or
  restore have a client in hand.
* `ProjectOnDisk_proofs`: for any changes and any number of faults, `TypeOK`;
  `EditModeCanBeLeft`, with `EditInv`, which says what exists at each step of
  entering and leaving; `LogOnlyGrows`, with `AnchorInv` (without a fault only a
  running operation leaves the log unanchored); `RestoreIsWhole`, with
  `RestoreInv` (what a restore has already put back); and `LeavingRestores`, with
  `LeaveInv`: from when they are put aside until they are back, the stashed changes
  differ from the workspace commit, or from the one the save replaced, by what was
  uncommitted. `ChangesKept` is proved for at most one fault (`MaxFaults <= 1`); with
  two it fails (see the bounds). `KeptInv` says step by step where the changes are,
  after a fault as well: in the log, the snapshot held, the stash, the worktree or the
  branches. `UnharmedInv` is stronger and holds until the first fault: what is being
  overwritten is never only in what an interruption drops, the snapshot that is held.
  `InterruptKeeps` is the step from the second to the first.
* `UndoRedo_proofs`: for any programs and a log of any length. `TypeOK` and `LogInv`
  (a restore names an older snapshot) give `PeelFindsAnOperation`, since the peeling
  goes down the log. `PagesTile` follows from `PagingTiles`, which is about any page
  of any log: what is listed of a log from a position on does not depend on what is
  above it, and a page leaves off where the next begins. For one program,
  `UndoRedoImplementsHistory` is the refinement of `UndoHistory`: by induction over
  the log, for every count k at once, the undo walk with k snapshots to cancel finds the
  one whose state is the k-th from the top of the past, and the redo walk likewise in
  the future (`UndoWalkFinds`, `RedoWalkFinds`); each step of `UndoRedo` is then a step
  of the stacks or a stutter.
  `SoloInv` adds that a selection stays right until it is restored, which only another
  program can break; `SoloRestoreIsLast` states that.
* `Induction`: induction and recursion over the natural numbers with sets and functions
  in the place of operators, from the well-foundedness of finite sets. The proofs about
  walks unfold a recursive function with `RecursionExists`.
* `Transaction_proofs`: `TypeOK`, `WorkspaceIsItsStacks` and, if `AmendsAreNew`,
  `IdsMeanTheirCommit`, for any stacks of any commits and references and any number of
  operations. `TypeOK` is far from inductive: a rebase finds commits by walking the
  graph, so that what an operation does to it depends on all of its edges. `Standing` is
  inductive. The graph is a `Workspace`: no node is its own ancestor (`Ranked`), every
  stack is a line of its own (`Lanes`), what is not removed has a parent, each change
  has one commit, and all of them are known to the client (`Named`). `Disconnect`, `Insert`,
  `AddStep` and `Replace` keep a workspace one, but for one loose node meanwhile
  (`DisconnectIs`, `InsertIs`, `AddStepIs`, `ReplaceIs`); the walks that move and discard
  several commits follow by induction over their turns; and `Advances` sums up in one
  formula what each of the ten operations does, refused or not.
  A rebase then leaves every commit on the parents the graph gives it (`Grown`, from
  `OrderIs`: the picking order puts parents first and leaves none out) and all else as it
  was (`Alike`). For `WorkspaceIsItsStacks`, the workspace commit is always the clean
  merge of its parents (`IsMerged`, from `CherryPickJoins`: a commit that is a mere merge,
  picked, is the merge of where it was picked onto); the ancestors of a stack's commit are
  the target and commits of the same stack (`OwnHistory`), so that the base of every
  merge of two stacks is the target (`MergeBaseIs`), and of what is merged from there
  nothing is lost (`StacksMerged`).
  For `IdsMeanTheirCommit`, `Leads` says that from an id the history leads to the commit
  of its change and no other. Every step of a rebase keeps it (`RewrittenLeads`), as does
  every operation that calls `update_mapping`. `commit_amend` does not: the client is told
  the new id, from which the history leads nowhere unless that commit has been in it
  before, hence the premise `AmendsAreNew`, defined next to the theorem: an amended commit gets an
  id that the transaction has not seen. It is not a theorem of the model: a commit there is what
  it consists of, so that amending one, moving the change out of it, discarding that and
  amending again could make an equal commit. A real one holds the time it was made as
  well.
  The layouts to begin with are proved to be workspaces whose stacks do not clash
  (`WorkspaceGraphIs`, `LaidClean`), so that the first rebase succeeds (`RebaseBegins`).
  The module begins with what a single pick does: for trees of any files and contents, a pick that does not clash
  keeps the patch (`PickKeepsPatch`), picks compose (`PicksCompose`), there and back
  is nothing (`ThereAndBack`), two stacks may be merged in either order
  (`MergeIsSymmetric`) and a change that is moved arrives (`MovedChangeArrives`).
  The premise `Fresh`, that the new parent has nothing of the change yet, is what
  the unique contents of `Transaction` stand for; without it a commit loses the
  part its parent already has. `MappingsStayOneToOne` and `MappedToTheLast` are
  about the history.

The assumptions on constants are those named in the modules
(`RepoAccessAssumption`, `VbStorageAssumption`, `ProjectAssumption`,
`IrcAssumption`, `HunkRangesAssumption`, `LayoutsAssumption`, `AddedAssumption`), which
TLC evaluates. `LayoutsAssumption` says that a stack ends in a branch, that ids are
distinct, and that no two stacks write to one file: the workspace commit there is to
begin with could not have been merged otherwise.

Only model-checked: liveness (out of the prover's reach); of `Transaction`, that it implements
`StackEdits` (`IsStackEdit`): the mapping reads lists off the graph by recursion, and an
edit of a list has to be compared with every pick of a rebase.

## Findings

1. **An undo may revert two operations** (`UndoRedoRace`). The target is chosen
   before the guard is taken (`but/src/command/legacy/oplog.rs:329`).
2. **Insertions leave ranges behind, and hunks lose their locks** (`HunkRangesHeaders`).
   The diff's headers for empty spans are one higher than the range arithmetic documents
   (`unified_diff.rs:195`): a line inserted above another commit's line does not move its
   range, and a worktree hunk that removes that line is not locked to the commit.
3. **Ranges of several stacks in the wrong order** (`HunkRangesCombine`).
   `combine_path_ranges` compares starts in different line numbers.
4. **A watcher stops while its connection is being dialled** (`IrcReconnect`). It takes
   a client that is out for a removed connection (`manager.rs:354`), and nothing starts another.
5. **A squash from farther below loses a change** (`TransactionSquash`). With C1, C2, C3 from the
   bottom, C1 squashed into C3 leaves C3's patch alone, without a conflict: the merged tree
   is picked as a change of the old C2 (`squash_commits.rs:60`), which had C1's already.

`PROJECT.json` quotes the documentation each of them contradicts.

## Not modelled

* The metadata handle over `VbStorage` (`but-meta/src/legacy/mod.rs`): a stale copy
  written on drop. Its lost update is in the hazards, without a property, since the
  code promises nothing about it.
* The index, with its swap around commit hooks (`gitbutler-repo/src/hooks.rs:97`).
* Hunk assignment: one pass over hunks under one guard, no state between its steps.
* The background-refresh lock (`but/src/setup.rs:316`), which at worst makes a
  refresh not happen, and which window owns a project
  (`gitbutler-tauri/src/window.rs:159`).
* Diffs without hunks in `but-hunk-dependency` (`lib.rs:195`): later ranges then name
  wrong lines, and nothing in the code tries to prevent it.
* Applying, unapplying and integrating branches, and the projection of the commit
  graph (`but-graph`): large pure algorithms whose inputs are whole histories, for
  which small instances say little.
* Forges, agents, language models, the API's marshalling, the command line, the
  user interfaces: input, output and formatting.
