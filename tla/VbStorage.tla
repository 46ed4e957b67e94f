------------------------------ MODULE VbStorage ------------------------------
(***************************************************************************)
(* Virtual-branch metadata lives twice: in virtual_branches.toml and in the *)
(* project database (crates/but-meta/src/legacy/storage.rs).  Every access *)
(* first reconciles the two inside one immediate transaction of the        *)
(* database, which only one process holds at a time.  The file is outside  *)
(* the transaction: it is replaced by a rename, other programs write it    *)
(* too, and the process may die between the rename and the commit.         *)
(*                                                                         *)
(* A content of the file stands for its bytes and for their SHA-256, which *)
(* is taken to be injective.  The conversions between a content and the    *)
(* rows (legacy_to_snapshot, snapshot_to_legacy) copy field by field, and  *)
(* are inverse to each other; one that fails ends the access (Abort).      *)
(* Modification times are what the clock of the file system says, so that  *)
(* two writes may carry the same time.                                     *)
(***************************************************************************)
EXTENDS Integers

CONSTANTS Proc,         \* processes that access the metadata
          Content,      \* well-formed metadata
          Empty,        \* VirtualBranches::default()
          Invalid,      \* bytes that do not parse
          Missing,      \* there is no file
          Nobody,       \* no transaction is open
          None,         \* no value
          MaxTime,      \* bound on the clock of the file system
          WriteInside,  \* may the file be written by others during a transaction?
          DbMayFail,    \* may opening the database fail?
          ClockGoesBack \* may the clock be set back?

ASSUME VbStorageAssumption ==
  /\ Empty \in Content
  /\ Invalid \notin Content /\ Missing \notin Content /\ None \notin Content
  /\ Invalid # Missing /\ Invalid # None
  /\ None \notin Nat
  /\ Nobody \notin Proc
  /\ MaxTime \in Nat
  /\ WriteInside \in BOOLEAN /\ DbMayFail \in BOOLEAN /\ ClockGoesBack \in BOOLEAN

VARIABLES toml,      \* the file: its content and its modification time
          db,        \* the committed rows: content and the last seen time and hash
          tx,        \* the open transaction
          restoring, \* how far each process is with restoring and importing the file
          now        \* the clock of the file system
vars == <<toml, db, tx, restoring, now>>

Time == 0 .. MaxTime
File == [data : Content \cup {Invalid, Missing}, mtime : Time]
Rows == [initialized : BOOLEAN, data : Content,
         seenTime : Time \cup {None}, seenHash : Content \cup {Invalid, None}]
Blank == [initialized |-> FALSE, data |-> Empty, seenTime |-> None, seenHash |-> None]

Op == {"read", "write", "import"}
Phase == {"closed", "sync", "rewritten", "write", "written", "commit"}
Transaction == [by : Proc \cup {Nobody}, op : Op, arg : Content \cup {None},
                phase : Phase, rows : Rows, memory : BOOLEAN]
Closed == [by |-> Nobody, op |-> "read", arg |-> None, phase |-> "closed",
           rows |-> Blank, memory |-> FALSE]
Restore == [phase : {"no", "restored", "read"}, file : File]
NotRestoring == [phase |-> "no", file |-> [data |-> Empty, mtime |-> 0]]

\* Types: in particular the rows only ever hold what parsed.
TypeOK ==
  /\ toml \in File
  /\ db \in Rows
  /\ tx \in Transaction
  /\ restoring \in [Proc -> Restore]
  /\ now \in Time

\* A project that was used before there was a database, or a new one.
Init ==
  /\ toml \in [data : Content \cup {Missing}, mtime : {0}]
  /\ db = Blank
  /\ tx = Closed
  /\ restoring = [p \in Proc |-> NotRestoring]
  /\ now = 0

Parsed == toml.data \in Content

\* Mutant: the hash is not looked at.
NewerByTime(rows) ==
  \/ rows.seenTime = None
  \/ rows.seenTime # None /\ toml.mtime > rows.seenTime

\* toml_compare: is the file newer, or older, than what the rows last saw?
Newer(rows) ==
  \/ rows.seenTime = None
  \/ rows.seenTime # None /\ toml.mtime > rows.seenTime
  \/ rows.seenTime = toml.mtime /\ rows.seenHash # toml.data
Older(rows) == rows.seenTime # None /\ toml.mtime < rows.seenTime

\* update_last_seen_metadata_on: the rows go with the file as it was read.
SeenOn(rows, seen) == [rows EXCEPT !.seenTime = seen.mtime, !.seenHash = seen.data]

\* Mutant: the file is marked as seen and its content is left out.
ImportedSeenOnly(rows, seen) == SeenOn([rows EXCEPT !.initialized = TRUE], seen)

\* legacy_to_snapshot, of what was parsed and seen: the rows taken over from the file.
Imported(rows, seen) == SeenOn([rows EXCEPT !.initialized = TRUE, !.data = seen.data], seen)

WriteFile(data) == toml' = [data |-> data, mtime |-> now]

\* db_handle_from_toml_path lets an in-memory database stand in for one that
\* cannot be opened: it starts out blank, and what is committed to it is gone.
Opened(memory) == IF memory THEN Blank ELSE db

\* An immediate transaction on the database.
Begin(p, op, arg) ==
  /\ tx = Closed
  /\ restoring[p] = NotRestoring
  /\ \E memory \in BOOLEAN :
       /\ memory => DbMayFail
       /\ tx' = [by |-> p, op |-> op, arg |-> arg, phase |-> "sync",
                 rows |-> Opened(memory), memory |-> memory]
  /\ UNCHANGED <<toml, db, restoring, now>>

Read(p) == Begin(p, "read", None)

Write(p) == \E data \in Content : Begin(p, "write", data)

\* restore_legacy_metadata_from_toml writes the file outside of a transaction,
RestoreFile(p) ==
  /\ restoring[p] = NotRestoring /\ tx.by # p
  /\ WriteInside \/ tx = Closed
  /\ \E data \in Content : WriteFile(data)
  /\ restoring' = [restoring EXCEPT ![p].phase = "restored"]
  /\ UNCHANGED <<db, tx, now>>

\* Mutant: an import takes what does not parse.
ReadAnyRestored(p) ==
  /\ restoring[p].phase = "restored"
  /\ restoring' = [restoring EXCEPT ![p] = [phase |-> "read", file |-> toml]]
  /\ UNCHANGED <<toml, db, tx, now>>

\* and import_toml_into_db reads it back before it opens one. By then others
\* may have written the file, and will have when the transaction begins.
ReadRestored(p) ==
  /\ restoring[p].phase = "restored"
  /\ Parsed
  /\ restoring' = [restoring EXCEPT ![p] = [phase |-> "read", file |-> toml]]
  /\ UNCHANGED <<toml, db, tx, now>>

\* The rows become what was read, newer or not.
Import(p) ==
  /\ tx = Closed
  /\ restoring[p].phase = "read"
  /\ \E memory \in BOOLEAN :
       /\ memory => DbMayFail
       /\ tx' = [by |-> p, op |-> "import", arg |-> restoring[p].file.data, phase |-> "commit",
                 rows |-> Imported(Opened(memory), restoring[p].file), memory |-> memory]
  /\ restoring' = [restoring EXCEPT ![p] = NotRestoring]
  /\ UNCHANGED <<toml, db, now>>

\* With the file and the rows in agreement, a read commits and a write writes.
AfterSync == IF tx.op = "write" THEN "write" ELSE "commit"

Syncing == tx.phase = "sync"

\* ensure_vb_storage_in_sync: the file wins and becomes the rows.
SyncImport ==
  /\ Syncing
  /\ Parsed
  /\ ~tx.rows.initialized \/ Newer(tx.rows)
  /\ tx' = [tx EXCEPT !.phase = AfterSync, !.rows = Imported(@, toml)]
  /\ UNCHANGED <<toml, db, restoring, now>>

\* Mutant: only an older file counts as out of sync.
SyncEqualUnlessOlder ==
  /\ Syncing
  /\ Parsed /\ tx.rows.initialized
  /\ ~Older(tx.rows)
  /\ tx' = [tx EXCEPT !.phase = AfterSync]
  /\ UNCHANGED <<toml, db, restoring, now>>

\* ... both are as they were last seen,
SyncEqual ==
  /\ Syncing
  /\ Parsed /\ tx.rows.initialized
  /\ ~Newer(tx.rows) /\ ~Older(tx.rows)
  /\ tx' = [tx EXCEPT !.phase = AfterSync]
  /\ UNCHANGED <<toml, db, restoring, now>>

\* ... or the rows win, as the file is older, gone or broken: it is rewritten.
SyncRewrite ==
  /\ Syncing
  /\ ~Parsed \/ (tx.rows.initialized /\ Older(tx.rows))
  /\ WriteFile(tx.rows.data)
  /\ tx' = [tx EXCEPT !.phase = "rewritten", !.rows.initialized = TRUE]
  /\ UNCHANGED <<db, restoring, now>>

\* write_virtual_branches_and_sync, after its sync: the file, and then the rows.
WriteData ==
  /\ tx.phase = "write"
  /\ WriteFile(tx.arg)
  /\ tx' = [tx EXCEPT !.phase = "written", !.rows.data = tx.arg]
  /\ UNCHANGED <<db, restoring, now>>

\* write_toml opens the file again, by its path, for its time and hash.
Reread ==
  /\ tx.phase \in {"rewritten", "written"}
  /\ toml.data # Missing
  /\ tx' = [tx EXCEPT !.phase = IF @ = "rewritten" THEN AfterSync ELSE "commit",
                      !.rows = SeenOn(@, toml)]
  /\ UNCHANGED <<toml, db, restoring, now>>

Commit ==
  /\ tx.phase = "commit"
  /\ db' = IF tx.memory THEN db ELSE tx.rows
  /\ tx' = Closed
  /\ UNCHANGED <<toml, restoring, now>>

\* The process dies, or an error ends the access (the file is gone when it is
\* read back): the transaction is rolled back.
Abort ==
  /\ tx # Closed
  /\ tx' = Closed
  /\ UNCHANGED <<toml, db, restoring, now>>

\* A process dies after it restored the file, or finds it broken or gone when it
\* reads it back: it does not import it any more.
CrashRestoring(p) ==
  /\ restoring[p] # NotRestoring
  /\ restoring' = [restoring EXCEPT ![p] = NotRestoring]
  /\ UNCHANGED <<toml, db, tx, now>>

\* Another program writes or deletes the file, now or with an older time (a
\* copy that keeps times, a checkout).
Edit ==
  /\ WriteInside \/ tx = Closed
  /\ toml' \in [data : Content \cup {Invalid, Missing}, mtime : 0 .. now]
  /\ UNCHANGED <<db, tx, restoring, now>>

\* Time passes; the clock may also be set back.
Tick ==
  /\ now' \in Time
  /\ now' = now + 1 \/ ClockGoesBack
  /\ UNCHANGED <<toml, db, tx, restoring>>

Step ==
  SyncImport \/ SyncEqual \/ SyncRewrite \/ WriteData \/ Reread \/ Commit \/ Abort

Next ==
  \/ \E p \in Proc :
       \/ Read(p) \/ Write(p)
       \/ RestoreFile(p) \/ ReadRestored(p) \/ Import(p) \/ CrashRestoring(p)
  \/ Step \/ Edit \/ Tick

Spec == Init /\ [][Next]_vars

-----------------------------------------------------------------------------
\* What the next access takes the metadata to be.
Effective ==
  IF Parsed /\ (~db.initialized \/ Newer(db)) THEN toml.data ELSE db.data

\* Reconciling file and rows changes nothing about what the metadata is: every
\* step of an access keeps its meaning, or gives it the one the access was asked
\* to give, at once.  So a process that dies between the rename of the file and
\* the commit leaves the old metadata or the new one, and never anything else,
\* whichever of file and rows was behind when the access started. An import
\* that comes late does not undo what others wrote after the file was read.
SyncIsInvisible ==
  [][Step => \/ Effective' = Effective
             \/ tx.op = "write" /\ Effective' = tx.arg
             \/ tx.op = "import" /\ Effective' = IF Parsed /\ ~Older(tx.rows)
                                                 THEN toml.data ELSE tx.arg]_vars

\* "Equal" means equal: a file with the time and hash the rows last saw holds
\* what the rows hold, so that serving the rows without importing is right.
SeenIsSame ==
  db.initialized /\ Parsed /\ ~Newer(db) /\ ~Older(db) => db.data = toml.data

\* What an access works on, and a read returns, is what the metadata is.
AccessSeesMeaning ==
  \/ tx.phase \in {"rewritten", "write"}
  \/ tx.op = "read" /\ tx.phase = "commit"
  => tx.rows.data = Effective
==============================================================================
