---------------------------- MODULE VbStorage_proofs ----------------------------
(***************************************************************************)
(* Reconciling virtual_branches.toml with the database is safe for any     *)
(* processes, contents and times, provided that nobody else writes the     *)
(* file while a transaction is open and that the database opens.  The      *)
(* invariant says, phase by phase, how far the file, the committed rows    *)
(* and those of the transaction have come to agree.                        *)
(***************************************************************************)
EXTENDS VbStorage, TLAPS

\* The rows have seen the file as it is, and hold what it holds.
AgreesWithFile(rows) ==
  /\ rows.initialized
  /\ rows.seenTime = toml.mtime
  /\ rows.seenHash = toml.data
  /\ rows.data = toml.data

\* Committed rows carry the hash of what they hold, or nothing yet.
CommittedRows ==
  IF db.initialized THEN db.seenTime \in Time /\ db.seenHash = db.data ELSE db = Blank

\* An import need not agree with the file any more, only with what it read.
ImportsWhatItRead ==
  /\ tx.rows.initialized
  /\ tx.rows.seenTime \in Time
  /\ tx.rows.seenHash = tx.arg
  /\ tx.rows.data = tx.arg

\* What each phase of a transaction has established.
TransactionPhases ==
  /\ tx.phase = "closed" => tx = Closed
  /\ ~tx.memory
  /\ tx.op = "write" => tx.arg \in Content
  /\ tx.phase = "sync" => tx.rows = db
  /\ tx.phase = "rewritten" =>
       /\ tx.rows.initialized
       /\ tx.rows.data = toml.data /\ tx.rows.data = db.data
  /\ tx.phase \in {"write", "written"} => tx.op = "write"
  /\ tx.phase = "written" =>
       tx.rows.initialized /\ tx.rows.data = toml.data /\ tx.rows.data = tx.arg
  /\ tx.op = "import" => tx.phase = "commit"
  /\ tx.phase \in {"write", "commit"} =>
       IF tx.op = "import" THEN ImportsWhatItRead ELSE AgreesWithFile(tx.rows)
  /\ tx.phase = "commit" /\ tx.op = "write" => tx.rows.data = tx.arg

\* With a clock that only goes forward, nothing was written later than now.
NothingFromTheFuture ==
  ~ClockGoesBack =>
    /\ toml.mtime <= now
    /\ db.seenTime # None => db.seenTime <= now
    /\ tx.rows.seenTime # None => tx.rows.seenTime <= now
    /\ \A p \in Proc : restoring[p].file.mtime <= now

IInv == CommittedRows /\ TransactionPhases /\ AccessSeesMeaning /\ NothingFromTheFuture

-----------------------------------------------------------------------------
\* An access that writes knows what to write, and one that imports what it read.
WriterHasData ==
  /\ tx.op = "write" => tx.arg \in Content
  /\ tx.phase = "write" => tx.op = "write"
  /\ \A p \in Proc : restoring[p].phase = "read" => restoring[p].file.data \in Content

TypeInv == TypeOK /\ WriterHasData

\* Marking a file as seen yields rows, unless the file is gone.
LEMMA SeenOnType ==
  ASSUME NEW rows \in Rows, NEW seen \in File, seen.data # Missing
  PROVE  SeenOn(rows, seen) \in Rows
BY VbStorageAssumption DEF SeenOn, Rows, File

\* Taking over a well-formed file yields rows.
LEMMA ImportedType ==
  ASSUME NEW rows \in Rows, NEW seen \in File, seen.data \in Content
  PROVE  Imported(rows, seen) \in Rows
<1>1. [rows EXCEPT !.initialized = TRUE, !.data = seen.data] \in Rows
  BY DEF Rows
<1>2. seen.data # Missing
  BY VbStorageAssumption
<1> QED BY <1>1, <1>2, SeenOnType DEF Imported

\* The variables keep their types, whatever else writes the file or fails.
THEOREM TypeCorrect == Spec => []TypeOK
<1>1. Init => TypeInv
  BY VbStorageAssumption
  DEF Init, TypeInv, WriterHasData, TypeOK, Time, File, Rows, Blank, Op, Phase, Transaction,
      Closed, Restore, NotRestoring
<1>2. TypeInv /\ [Next]_vars => TypeInv'
  <2> SUFFICES ASSUME TypeInv, [Next]_vars PROVE TypeInv'
    OBVIOUS
  <2>0. /\ TypeOK /\ WriterHasData
        /\ Closed \in Transaction /\ Closed.op = "read" /\ Closed.phase = "closed"
        /\ AfterSync \in Phase /\ (AfterSync = "write" => tx.op = "write")
        /\ now \in Time /\ db \in Rows /\ tx.rows \in Rows /\ Blank \in Rows /\ toml \in File
        /\ NotRestoring \in Restore /\ NotRestoring.phase = "no"
    BY VbStorageAssumption
    DEF TypeInv, TypeOK, Transaction, Closed, Op, Phase, Rows, Blank, AfterSync,
        Restore, NotRestoring, File, Time
  <2>1. ASSUME NEW p \in Proc, Read(p) \/ Write(p) PROVE TypeInv'
    <3>1. PICK op \in Op, arg \in Content \cup {None} :
            (op = "write" => arg \in Content) /\ Begin(p, op, arg)
      BY <2>1 DEF Read, Write, Op
    <3>2. PICK memory \in BOOLEAN :
            tx' = [by |-> p, op |-> op, arg |-> arg, phase |-> "sync",
                   rows |-> Opened(memory), memory |-> memory]
      BY <3>1 DEF Begin
    <3>3. Opened(memory) \in Rows
      BY <2>0 DEF Opened
    <3>4. tx' \in Transaction /\ WriterHasData'
      BY <2>0, <3>1, <3>2, <3>3 DEF Begin, Transaction, Phase, WriterHasData
    <3> QED BY <2>0, <3>1, <3>4 DEF Begin, TypeInv, TypeOK
  <2>2. ASSUME NEW p \in Proc, Import(p) PROVE TypeInv'
    <3>1. PICK memory \in BOOLEAN :
            tx' = [by |-> p, op |-> "import", arg |-> restoring[p].file.data, phase |-> "commit",
                   rows |-> Imported(Opened(memory), restoring[p].file), memory |-> memory]
      BY <2>2 DEF Import
    <3>2. restoring[p].file \in File /\ restoring[p].file.data \in Content /\ Opened(memory) \in Rows
      BY <2>0, <2>2 DEF Import, TypeOK, Restore, WriterHasData, Opened
    <3>3. Imported(Opened(memory), restoring[p].file) \in Rows
      BY <3>2, ImportedType
    <3>4. tx' \in Transaction
      BY <3>1, <3>2, <3>3 DEF Transaction, Op, Phase
    <3>5. /\ restoring' = [restoring EXCEPT ![p] = NotRestoring]
          /\ UNCHANGED <<toml, db, now>>
      BY <2>2 DEF Import
    <3>6. WriterHasData'
      BY <2>0, <3>1, <3>5 DEF WriterHasData, TypeOK
    <3> QED BY <2>0, <3>4, <3>5, <3>6 DEF TypeInv, TypeOK
  <2>3. ASSUME NEW p \in Proc, RestoreFile(p) \/ ReadRestored(p) \/ CrashRestoring(p)
        PROVE  TypeInv'
    <3>1. toml' \in File /\ UNCHANGED <<db, tx, now>>
      BY <2>0, <2>3 DEF RestoreFile, ReadRestored, CrashRestoring, WriteFile, File
    <3>2. PICK r \in Restore :
            /\ restoring' = [restoring EXCEPT ![p] = r]
            /\ r.phase = "read" => r.file.data \in Content
      <4>1. restoring[p] \in Restore /\ DOMAIN restoring = Proc
        BY <2>0 DEF TypeOK
      <4>2. CASE RestoreFile(p)
        <5>1. /\ restoring' = [restoring EXCEPT ![p] = [restoring[p] EXCEPT !.phase = "restored"]]
              /\ [restoring[p] EXCEPT !.phase = "restored"] \in Restore
          BY <4>1, <4>2 DEF RestoreFile, Restore
        <5> QED BY <4>1, <5>1 DEF Restore
      <4>3. CASE ReadRestored(p)
        <5>1. /\ restoring' = [restoring EXCEPT ![p] = [phase |-> "read", file |-> toml]]
              /\ [phase |-> "read", file |-> toml] \in Restore /\ toml.data \in Content
          BY <2>0, <4>3 DEF ReadRestored, Restore, Parsed
        <5> QED BY <5>1
      <4>4. CASE CrashRestoring(p)
        BY <2>0, <4>4 DEF CrashRestoring
      <4> QED BY <2>3, <4>2, <4>3, <4>4
    <3>3. restoring \in [Proc -> Restore]
      BY <2>0 DEF TypeOK
    <3>4. restoring' \in [Proc -> Restore]
      BY <3>2, <3>3
    <3>5. \A q \in Proc : restoring'[q].phase = "read" => restoring'[q].file.data \in Content
      BY <2>0, <3>2, <3>3 DEF WriterHasData
    <3>6. WriterHasData'
      BY <2>0, <3>1, <3>5 DEF WriterHasData
    <3> QED BY <2>0, <3>1, <3>4, <3>6 DEF TypeInv, TypeOK
  <2>4. CASE SyncImport
    <3>1. tx' = [tx EXCEPT !.phase = AfterSync, !.rows = Imported(tx.rows, toml)]
      BY <2>4 DEF SyncImport
    <3>2. Imported(tx.rows, toml) \in Rows /\ UNCHANGED <<toml, db, restoring, now>>
      BY <2>0, <2>4, ImportedType DEF SyncImport, Parsed
    <3>3. tx' \in Transaction /\ WriterHasData'
      BY <2>0, <3>1, <3>2 DEF TypeOK, Transaction, WriterHasData
    <3> QED BY <2>0, <3>2, <3>3 DEF TypeInv, TypeOK
  <2>5. CASE SyncEqual
    <3>1. tx' \in Transaction /\ WriterHasData'
      BY <2>0, <2>5 DEF SyncEqual, TypeOK, Transaction, WriterHasData
    <3> QED BY <2>0, <2>5, <3>1 DEF SyncEqual, TypeInv, TypeOK
  <2>6. CASE SyncRewrite
    <3>1. [tx.rows EXCEPT !.initialized = TRUE] \in Rows /\ tx.rows.data \in Content
      BY <2>0 DEF Rows
    <3>2. tx' \in Transaction /\ WriterHasData'
      BY <2>0, <2>6, <3>1 DEF SyncRewrite, TypeOK, Transaction, Phase, WriterHasData
    <3> QED BY <2>0, <2>6, <3>1, <3>2 DEF SyncRewrite, WriteFile, TypeInv, TypeOK, File
  <2>7. CASE WriteData
    <3>1. tx.arg \in Content
      BY <2>0, <2>7 DEF WriteData, WriterHasData
    <3>2. [tx.rows EXCEPT !.data = tx.arg] \in Rows
      BY <2>0, <3>1 DEF Rows
    <3>3. tx' \in Transaction /\ WriterHasData'
      BY <2>0, <2>7, <3>2 DEF WriteData, TypeOK, Transaction, Phase, WriterHasData
    <3> QED BY <2>0, <2>7, <3>1, <3>3 DEF WriteData, WriteFile, TypeInv, TypeOK, File
  <2>8. CASE Reread
    <3>1. SeenOn(tx.rows, toml) \in Rows
      BY <2>0, <2>8, SeenOnType DEF Reread
    <3>2. PICK phase \in {AfterSync, "commit"} :
            /\ tx' = [tx EXCEPT !.phase = phase, !.rows = SeenOn(tx.rows, toml)]
            /\ UNCHANGED restoring
      BY <2>8 DEF Reread
    <3>3. phase \in Phase /\ (phase = "write" => tx.op = "write")
      BY <2>0 DEF Phase
    <3>4. tx' \in Transaction /\ WriterHasData'
      BY <2>0, <3>1, <3>2, <3>3 DEF TypeOK, Transaction, WriterHasData
    <3> QED BY <2>0, <2>8, <3>4 DEF Reread, TypeInv, TypeOK
  <2>9. CASE Commit \/ Abort
    BY <2>0, <2>9 DEF Commit, Abort, TypeInv, TypeOK, WriterHasData
  <2>10. CASE Edit \/ Tick
    <3>1. CASE Edit
      BY <2>0, <3>1, VbStorageAssumption DEF Edit, TypeInv, TypeOK, File, Time, WriterHasData
    <3> QED BY <2>0, <2>10, <3>1 DEF Tick, TypeInv, TypeOK, WriterHasData
  <2>11. CASE UNCHANGED vars
    BY <2>0, <2>11 DEF vars, TypeInv, TypeOK, WriterHasData
  <2> QED BY <2>1, <2>2, <2>3, <2>4, <2>5, <2>6, <2>7, <2>8, <2>9, <2>10, <2>11 DEF Next, Step
<1>3. TypeInv => TypeOK
  BY DEF TypeInv
<1> QED BY <1>1, <1>2, <1>3, PTL DEF Spec

-----------------------------------------------------------------------------
\* What holds when nothing interferes with an open transaction: nobody else
\* writes the file and the database opens.
Undisturbed == ~WriteInside /\ ~DbMayFail

\* Rows that agree with the file are neither behind it nor ahead of it.
LEMMA AgreementIsSettled ==
  ASSUME TypeOK, NEW rows \in Rows, AgreesWithFile(rows)
  PROVE  ~Newer(rows) /\ ~Older(rows)
BY VbStorageAssumption DEF TypeOK, AgreesWithFile, Newer, Older, Rows, File, Time

\* Rows that have been reconciled to the file by marking it as seen agree with it.
LEMMA SeenOnAgrees ==
  ASSUME NEW rows \in Rows, rows.initialized, rows.data = toml.data
  PROVE  AgreesWithFile(SeenOn(rows, toml))
BY DEF AgreesWithFile, SeenOn, Rows

LEMMA ImportedAgrees ==
  ASSUME NEW rows \in Rows
  PROVE  AgreesWithFile(Imported(rows, toml))
BY DEF AgreesWithFile, Imported, SeenOn, Rows

\* Committed rows that are neither behind nor ahead of a well-formed file equal it.
LEMMA CommittedEqual ==
  ASSUME TypeOK, CommittedRows, db.initialized, Parsed, ~Newer(db), ~Older(db)
  PROVE  AgreesWithFile(db)
BY VbStorageAssumption
DEF TypeOK, CommittedRows, Parsed, AgreesWithFile, Newer, Older, Rows, File, Time

\* Every step keeps the invariant.
LEMMA InductiveStep ==
  ASSUME Undisturbed, TypeOK, TypeOK', IInv, [Next]_vars
  PROVE  IInv'
<1> USE VbStorageAssumption
<1>0. /\ toml \in File /\ db \in Rows /\ tx \in Transaction /\ tx.rows \in Rows
      /\ now \in Nat /\ Closed.op = "read" /\ Closed.phase = "closed" /\ ~Closed.memory
      /\ Closed.rows = Blank /\ Blank.seenTime = None
  BY DEF TypeOK, Transaction, Time, Closed, Blank
<1>1. ASSUME NEW p \in Proc, Read(p) \/ Write(p) PROVE IInv'
  <2>0. PICK op \in {"read", "write"}, arg \in Content \cup {None} :
          (op = "write" => arg \in Content) /\ Begin(p, op, arg)
    BY <1>1 DEF Read, Write
  <2>1. /\ tx = Closed /\ UNCHANGED <<toml, db, restoring, now>>
        /\ tx' = [by |-> p, op |-> op, arg |-> arg, phase |-> "sync",
                  rows |-> db, memory |-> FALSE]
    BY <2>0 DEF Begin, Opened, Undisturbed
  <2>2. CommittedRows' /\ NothingFromTheFuture'
    BY <2>1 DEF IInv, CommittedRows, NothingFromTheFuture
  <2>3. TransactionPhases' /\ AccessSeesMeaning'
    BY <2>0, <2>1 DEF TransactionPhases, AccessSeesMeaning
  <2> QED BY <2>2, <2>3 DEF IInv
<1>2. ASSUME NEW p \in Proc, Import(p) PROVE IInv'
  <2> DEFINE file == restoring[p].file
  <2>1. /\ UNCHANGED <<toml, db, now>>
        /\ restoring' = [restoring EXCEPT ![p] = NotRestoring]
        /\ tx' = [by |-> p, op |-> "import", arg |-> file.data, phase |-> "commit",
                  rows |-> Imported(db, file), memory |-> FALSE]
    BY <1>2 DEF Import, Opened, Undisturbed
  <2>2. file \in File /\ restoring \in [Proc -> Restore]
    BY DEF TypeOK, Restore
  <2>3. ImportsWhatItRead' /\ tx'.rows.seenTime = file.mtime
    BY <1>0, <2>1, <2>2 DEF ImportsWhatItRead, Imported, SeenOn, Rows, File
  <2>4. CommittedRows' /\ TransactionPhases' /\ AccessSeesMeaning'
    BY <2>1, <2>3 DEF IInv, CommittedRows, TransactionPhases, AccessSeesMeaning
  <2>5. NothingFromTheFuture'
    BY <1>0, <2>1, <2>2, <2>3 DEF IInv, NothingFromTheFuture, NotRestoring
  <2> QED BY <2>4, <2>5 DEF IInv
<1>3. CASE /\ tx = Closed /\ UNCHANGED <<db, tx, now>> /\ toml'.mtime <= now
           /\ \A p \in Proc : restoring'[p].file = restoring[p].file
  BY <1>0, <1>3
  DEF IInv, CommittedRows, TransactionPhases, AccessSeesMeaning, NothingFromTheFuture
<1>4. ASSUME NEW p \in Proc, RestoreFile(p) PROVE IInv'
  <2>1. \A q \in Proc : restoring'[q].file = restoring[q].file
    BY <1>4 DEF RestoreFile, TypeOK, Restore
  <2> QED BY <1>0, <1>3, <1>4, <2>1 DEF RestoreFile, WriteFile, Undisturbed
<1>5. CASE Edit
  <2>1. toml'.mtime \in 0 .. now
    BY <1>5 DEF Edit
  <2> QED BY <1>0, <1>3, <1>5, <2>1 DEF Edit, Undisturbed
<1>6. ASSUME NEW rows \in Rows, AgreesWithFile(rows), rows.data = Effective,
             tx.op # "import", UNCHANGED <<toml, db, restoring, now>>,
             tx' = [tx EXCEPT !.phase = AfterSync, !.rows = rows],
             tx.phase = "rewritten" \/ tx.phase = "sync"
      PROVE  IInv'
  <2>1. /\ tx'.phase = AfterSync /\ tx'.rows = rows /\ tx'.op = tx.op
        /\ tx'.arg = tx.arg /\ tx'.memory = tx.memory
    BY <1>0, <1>6 DEF Transaction
  <2>2. AfterSync = IF tx.op = "write" THEN "write" ELSE "commit"
    BY DEF AfterSync
  <2>3. Effective' = Effective /\ AgreesWithFile(rows)'
    BY <1>6 DEF Effective, Parsed, Newer, AgreesWithFile
  <2>4. CommittedRows' /\ TransactionPhases'
    BY <1>6, <2>1, <2>2, <2>3 DEF IInv, CommittedRows, TransactionPhases, AgreesWithFile
  <2>5. AccessSeesMeaning'
    BY <1>6, <2>1, <2>3 DEF AccessSeesMeaning
  <2>6. NothingFromTheFuture'
    BY <1>6, <2>1 DEF IInv, NothingFromTheFuture, AgreesWithFile
  <2> QED BY <2>4, <2>5, <2>6 DEF IInv
<1>7. CASE SyncImport
  <2>1. tx.rows = db /\ Effective = toml.data /\ tx.op # "import"
    BY <1>7 DEF SyncImport, Syncing, IInv, TransactionPhases, Effective
  <2>2. AgreesWithFile(Imported(tx.rows, toml))
    BY <1>0, ImportedAgrees
  <2>3. Imported(tx.rows, toml) \in Rows
    BY <1>0, <1>7, ImportedType DEF SyncImport, Parsed
  <2> QED BY <1>6, <1>7, <2>1, <2>2, <2>3 DEF SyncImport, Syncing, AgreesWithFile
<1>8. CASE SyncEqual
  <2>1. tx.rows = db /\ Effective = db.data /\ tx.op # "import"
    BY <1>8 DEF SyncEqual, Syncing, IInv, TransactionPhases, Effective
  <2>2. AgreesWithFile(db)
    BY <1>8, <2>1, CommittedEqual DEF SyncEqual, IInv
  <2>3. tx' = [tx EXCEPT !.phase = AfterSync, !.rows = db]
    BY <1>0, <1>8, <2>1 DEF SyncEqual, Transaction
  <2> QED BY <1>0, <1>6, <1>8, <2>1, <2>2, <2>3 DEF SyncEqual, Syncing
<1>9. CASE Reread
  <2>1. SeenOn(tx.rows, toml) \in Rows
    BY <1>0, <1>9, SeenOnType DEF Reread
  <2>2. AgreesWithFile(SeenOn(tx.rows, toml)) /\ SeenOn(tx.rows, toml).data = tx.rows.data
    BY <1>0, <1>9, SeenOnAgrees DEF Reread, IInv, TransactionPhases, SeenOn, Rows
  <2>3. CASE tx.phase = "rewritten"
    <3>1. tx.rows.data = Effective
      BY <2>3 DEF IInv, AccessSeesMeaning
    <3>2. tx.op # "import"
      BY <2>3 DEF IInv, TransactionPhases
    <3> QED BY <1>6, <1>9, <2>1, <2>2, <2>3, <3>1, <3>2 DEF Reread
  <2>4. CASE tx.phase = "written"
    <3>1. /\ tx'.phase = "commit" /\ tx'.rows = SeenOn(tx.rows, toml) /\ tx'.op = tx.op
          /\ tx'.arg = tx.arg /\ tx'.memory = tx.memory /\ UNCHANGED <<toml, db, restoring, now>>
      BY <1>0, <1>9, <2>4 DEF Reread, Transaction
    <3>2. AgreesWithFile(tx.rows)'
      BY <2>2, <3>1 DEF AgreesWithFile
    <3>3. tx.op = "write" /\ tx.rows.data = tx.arg
      BY <2>4 DEF IInv, TransactionPhases
    <3>4. CommittedRows' /\ TransactionPhases' /\ AccessSeesMeaning'
      BY <2>2, <3>1, <3>2, <3>3 DEF IInv, CommittedRows, TransactionPhases, AccessSeesMeaning
    <3>5. NothingFromTheFuture'
      BY <2>2, <3>1 DEF IInv, NothingFromTheFuture, AgreesWithFile
    <3> QED BY <3>4, <3>5 DEF IInv
  <2> QED BY <1>9, <2>3, <2>4 DEF Reread
<1>10. CASE SyncRewrite
  <2>1. /\ toml'.data = tx.rows.data /\ toml'.mtime = now /\ UNCHANGED <<db, restoring, now>>
        /\ tx'.phase = "rewritten" /\ tx'.rows.initialized /\ tx'.rows.data = tx.rows.data
        /\ tx'.rows.seenTime = tx.rows.seenTime
        /\ tx'.op = tx.op /\ tx'.arg = tx.arg /\ tx'.memory = tx.memory
        /\ tx.rows = db
    BY <1>0, <1>10
    DEF SyncRewrite, Syncing, WriteFile, Transaction, Rows, IInv, TransactionPhases
  <2>2. TransactionPhases' /\ CommittedRows'
    BY <1>0, <1>10, <2>1 DEF SyncRewrite, Syncing, IInv, TransactionPhases, CommittedRows
  <2>3. AccessSeesMeaning'
    BY <2>1 DEF AccessSeesMeaning, Effective
  <2>4. NothingFromTheFuture'
    BY <1>0, <2>1 DEF IInv, NothingFromTheFuture
  <2> QED BY <2>2, <2>3, <2>4 DEF IInv
<1>11. CASE WriteData
  <2>1. /\ toml'.data = tx.arg /\ toml'.mtime = now /\ UNCHANGED <<db, restoring, now>>
        /\ tx'.phase = "written" /\ tx'.rows.initialized = tx.rows.initialized
        /\ tx'.rows.data = tx.arg /\ tx'.rows.seenTime = tx.rows.seenTime
        /\ tx'.op = tx.op /\ tx'.arg = tx.arg /\ tx'.memory = tx.memory
        /\ tx.phase = "write"
    BY <1>0, <1>11 DEF WriteData, WriteFile, Transaction, Rows
  <2>2. TransactionPhases' /\ CommittedRows' /\ AccessSeesMeaning'
    BY <2>1 DEF IInv, TransactionPhases, CommittedRows, AccessSeesMeaning, AgreesWithFile
  <2>3. NothingFromTheFuture'
    BY <1>0, <2>1 DEF IInv, NothingFromTheFuture
  <2> QED BY <2>2, <2>3 DEF IInv
<1>12. CASE Commit
  <2>1. /\ db' = tx.rows /\ tx' = Closed /\ UNCHANGED <<toml, restoring, now>>
        /\ ImportsWhatItRead \/ AgreesWithFile(tx.rows)
    BY <1>12 DEF Commit, IInv, TransactionPhases
  <2>2. CommittedRows'
    BY <1>0, <2>1 DEF CommittedRows, AgreesWithFile, ImportsWhatItRead, File
  <2>3. TransactionPhases' /\ AccessSeesMeaning'
    BY <1>0, <2>1 DEF TransactionPhases, AccessSeesMeaning
  <2>4. NothingFromTheFuture'
    BY <1>0, <2>1 DEF IInv, NothingFromTheFuture
  <2> QED BY <2>2, <2>3, <2>4 DEF IInv
<1>13. CASE Abort
  <2>1. tx' = Closed /\ UNCHANGED <<toml, db, restoring, now>>
    BY <1>13 DEF Abort
  <2> QED BY <1>0, <2>1
    DEF IInv, CommittedRows, TransactionPhases, AccessSeesMeaning, NothingFromTheFuture
<1>14. CASE /\ UNCHANGED <<toml, db, tx>>
            /\ now' = now \/ ClockGoesBack \/ now' = now + 1
            /\ \A p \in Proc : restoring'[p].file \in {restoring[p].file, toml, NotRestoring.file}
  <2>0. Effective' = Effective /\ \A rows : AgreesWithFile(rows)' <=> AgreesWithFile(rows)
    BY <1>14 DEF Effective, Parsed, Newer, AgreesWithFile
  <2>1. CommittedRows' /\ TransactionPhases' /\ AccessSeesMeaning'
    BY <1>14, <2>0
    DEF IInv, CommittedRows, TransactionPhases, ImportsWhatItRead, AccessSeesMeaning
  <2>2. /\ toml.mtime \in Nat
        /\ db.seenTime # None => db.seenTime \in Nat
        /\ tx.rows.seenTime # None => tx.rows.seenTime \in Nat
        /\ \A p \in Proc : restoring[p].file.mtime \in Nat
        /\ NotRestoring.file.mtime = 0
    BY <1>0 DEF TypeOK, Restore, NotRestoring, File, Rows, Time
  <2>3. NothingFromTheFuture'
    BY <1>0, <1>14, <2>2 DEF IInv, NothingFromTheFuture
  <2> QED BY <2>1, <2>3 DEF IInv
<1>15. ASSUME NEW p \in Proc, ReadRestored(p) \/ CrashRestoring(p) PROVE IInv'
  <2>1. \A q \in Proc : restoring'[q].file \in {restoring[q].file, toml, NotRestoring.file}
    BY <1>15 DEF ReadRestored, CrashRestoring, TypeOK
  <2> QED BY <1>14, <1>15, <2>1 DEF ReadRestored, CrashRestoring
<1>16. CASE Tick \/ UNCHANGED vars
  BY <1>14, <1>16 DEF Tick, vars
<1> QED
  BY <1>1, <1>2, <1>4, <1>5, <1>7, <1>8, <1>9, <1>10, <1>11, <1>12, <1>13, <1>15, <1>16
  DEF Next, Step

\* The invariant holds throughout, as long as nothing interferes.
LEMMA Inductive ==
  ASSUME Undisturbed
  PROVE  Spec => []IInv
<1>1. Init => IInv
  BY VbStorageAssumption
  DEF Init, IInv, CommittedRows, TransactionPhases, AccessSeesMeaning, NothingFromTheFuture,
      Closed, Blank, NotRestoring
<1>2. IInv /\ TypeOK /\ TypeOK' /\ [Next]_vars => IInv'
  BY InductiveStep
<1> QED BY <1>1, <1>2, TypeCorrect, PTL DEF Spec

\* toml_compare's "equal" means equal for any contents and any clock: whenever
\* the file has the time and hash the database last saw, it holds what the
\* database holds, so that serving the rows without importing is right.
THEOREM SeenIsSameHolds ==
  ASSUME Undisturbed
  PROVE  Spec => []SeenIsSame
<1>1. TypeOK /\ IInv => SeenIsSame
  BY CommittedEqual DEF IInv, SeenIsSame, AgreesWithFile
<1> QED BY <1>1, TypeCorrect, Inductive, PTL

\* What ensure_vb_storage_in_sync hands to an access is what the metadata is.
THEOREM AccessSeesMeaningHolds ==
  ASSUME Undisturbed
  PROVE  Spec => []AccessSeesMeaning
<1>1. IInv => AccessSeesMeaning
  BY DEF IInv
<1> QED BY <1>1, Inductive, PTL

\* A step of an access keeps the meaning of the metadata, or gives it the one
\* that was asked for.
LEMMA InvisibleStep ==
  ASSUME Undisturbed, ~ClockGoesBack, TypeOK, IInv, Step
  PROVE  \/ Effective' = Effective
         \/ tx.op = "write" /\ Effective' = tx.arg
         \/ tx.op = "import" /\ Effective' = IF Parsed /\ ~Older(tx.rows) THEN toml.data ELSE tx.arg
<1> USE VbStorageAssumption
<1>0. db \in Rows /\ tx \in Transaction /\ tx.rows \in Rows /\ toml \in File /\ now \in Nat
  BY DEF TypeOK, Transaction, Time
<1>1. CASE UNCHANGED <<toml, db>>
  BY <1>1 DEF Effective, Parsed, Newer
<1>2. CASE SyncRewrite
  <2>1. toml'.data = db.data /\ UNCHANGED db
    BY <1>2 DEF SyncRewrite, Syncing, WriteFile, IInv, TransactionPhases
  <2>2. Effective = db.data
    BY <1>0, <1>2
    DEF SyncRewrite, Syncing, IInv, TransactionPhases, Effective, Newer, Older, Rows, File, Time
  <2> QED BY <2>1, <2>2 DEF Effective
<1>3. CASE WriteData
  <2>1. /\ toml'.data = tx.arg /\ toml'.mtime = now /\ UNCHANGED db
        /\ tx.op = "write" /\ tx.arg \in Content
    BY <1>3 DEF WriteData, WriteFile, IInv, TransactionPhases
  <2>2. CASE db.initialized /\ ~Newer(db)'
    <3>1. db.seenTime \in Nat /\ db.seenTime <= now /\ db.seenHash = db.data
      BY <1>0, <2>2 DEF IInv, CommittedRows, NothingFromTheFuture, Time
    <3>2. db.seenHash = tx.arg
      BY <1>0, <2>1, <2>2, <3>1 DEF Newer
    <3> QED BY <2>1, <3>1, <3>2 DEF Effective
  <2>3. CASE ~db.initialized \/ Newer(db)'
    BY <2>1, <2>3 DEF Effective, Parsed
  <2> QED BY <2>2, <2>3
<1>4. CASE Commit
  <2>1. db' = tx.rows /\ UNCHANGED toml /\ tx.phase = "commit"
    BY <1>4 DEF Commit, IInv, TransactionPhases
  <2>2. CASE tx.op = "import"
    <3>1. /\ ImportsWhatItRead /\ Parsed' = Parsed
          /\ Newer(db)' = Newer(tx.rows) /\ toml.mtime \in Nat
      BY <1>0, <2>1, <2>2 DEF IInv, TransactionPhases, Parsed, Newer, File, Time
    <3>2. tx.rows.seenTime \in Nat /\ tx.rows.seenTime # None
      BY <3>1 DEF ImportsWhatItRead, Time
    <3>3. CASE Newer(tx.rows)
      BY <2>1, <2>2, <3>1, <3>2, <3>3 DEF Effective, Newer, Older, ImportsWhatItRead
    <3>4. CASE ~Newer(tx.rows)
      <4>1. ~Older(tx.rows) => toml.data = tx.arg
        BY <3>1, <3>2, <3>4 DEF Newer, Older, ImportsWhatItRead
      <4>2. Effective' = tx.arg
        BY <2>1, <3>1, <3>4 DEF Effective, ImportsWhatItRead
      <4> QED BY <2>2, <4>1, <4>2
    <3> QED BY <3>3, <3>4
  <2>3. CASE tx.op # "import"
    <3>1. AgreesWithFile(tx.rows)
      BY <2>1, <2>3 DEF IInv, TransactionPhases
    <3>2. Effective' = tx.rows.data /\ tx.rows.data = toml.data
      BY <2>1, <3>1 DEF Effective, AgreesWithFile
    <3>3. CASE tx.op = "read"
      BY <2>1, <3>2, <3>3 DEF IInv, AccessSeesMeaning
    <3>4. CASE tx.op = "write"
      BY <2>1, <3>2, <3>4 DEF IInv, TransactionPhases
    <3>5. tx.op \in Op
      BY <1>0 DEF Transaction
    <3> QED BY <2>3, <3>3, <3>4, <3>5 DEF Op
  <2> QED BY <2>2, <2>3
<1> QED
  BY <1>1, <1>2, <1>3, <1>4 DEF Step, SyncImport, SyncEqual, Reread, Abort

\* Every step of an access keeps the meaning of the metadata or gives it the
\* one that was asked for, so that a crash after any of them loses nothing,
\* provided that the clock does not go back.
THEOREM SyncIsInvisibleHolds ==
  ASSUME Undisturbed, ~ClockGoesBack
  PROVE  Spec => SyncIsInvisible
<1>1. TypeOK /\ IInv /\ [Next]_vars
        => [Step => \/ Effective' = Effective
                    \/ tx.op = "write" /\ Effective' = tx.arg
                    \/ tx.op = "import" /\ Effective' = IF Parsed /\ ~Older(tx.rows)
                                                        THEN toml.data ELSE tx.arg]_vars
  BY InvisibleStep
<1> QED BY <1>1, TypeCorrect, Inductive, PTL DEF Spec, SyncIsInvisible
==============================================================================
