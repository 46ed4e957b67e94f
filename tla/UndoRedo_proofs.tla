--------------------------- MODULE UndoRedo_proofs ---------------------------
(***************************************************************************)
(* Proofs about the operations log, for logs of any length: what its walks *)
(* compute, and that undo and redo behave like the stacks of an editor.    *)
(***************************************************************************)
EXTENDS UndoRedo, Induction

Entry == [kind : OperationKind, state : State, from : Nat]
Log == Seq(Entry)

-----------------------------------------------------------------------------
(* The walks exist: each is the function its recursion describes.            *)

Zero == [skip \in Nat |-> 0]

\* get_undo_target_snapshot, one snapshot after the other.
LEMMA UndoWalkUnfolds ==
  ASSUME NEW l \in Log
  PROVE  /\ UndoWalk(l)[0] = Zero
         /\ \A i \in 1 .. Len(l) : UndoWalk(l)[i] = UndoStep(l, i, UndoWalk(l)[i - 1])
<1> DEFINE N == Len(l)
           V == [Nat -> Nat]
           step == [i \in 1 .. N |-> [w \in V |-> UndoStep(l, i, w)]]
<1>1. N \in Nat
  BY DEF Log
<1>2. ASSUME NEW i \in 1 .. N, NEW w \in V PROVE UndoStep(l, i, w) \in V
  <2>1. \A skip \in Nat : (IF l[i].kind = "undo" THEN w[skip + 1]
                           ELSE IF skip = 0 THEN i ELSE w[skip - 1]) \in Nat
    OBVIOUS
  <2> QED BY <2>1 DEF UndoStep
<1>3. step \in [1 .. N -> [V -> V]] /\ Zero \in V
  BY <1>2 DEF Zero
<1>4. PICK g \in [0 .. N -> V] : IsRecursion(g, N, Zero, step)
  <2> HIDE DEF V, step, N
  <2> QED BY <1>1, <1>3, RecursionExists
<1>5. \A i \in 1 .. N : i - 1 \in 0 .. N /\ i \in 0 .. N /\ i # 0
  BY <1>1
<1>6. g = [i \in 0 .. N |-> IF i = 0 THEN Zero ELSE UndoStep(l, i, g[i - 1])]
  <2>1. ASSUME NEW i \in 1 .. N PROVE g[i] = UndoStep(l, i, g[i - 1])
    BY <1>4, <1>5 DEF IsRecursion
  <2>2. \A i \in 0 .. N : i = 0 \/ i \in 1 .. N
    BY <1>1
  <2> QED BY <1>4, <2>1, <2>2 DEF IsRecursion
<1>7. UndoWalk(l) = [i \in 0 .. N |-> IF i = 0 THEN Zero ELSE UndoStep(l, i, UndoWalk(l)[i - 1])]
  BY <1>6, Zenon DEF UndoWalk, Zero
<1> HIDE DEF N
<1>8. UndoWalk(l)[0] = Zero
  BY <1>1, <1>7
<1>9. \A i \in 1 .. N : UndoWalk(l)[i] = UndoStep(l, i, UndoWalk(l)[i - 1])
  BY <1>5, <1>7
<1> QED BY <1>8, <1>9 DEF N

\* get_redo_target_snapshot.
LEMMA RedoWalkUnfolds ==
  ASSUME NEW l \in Log
  PROVE  /\ RedoWalk(l)[0] = Zero
         /\ \A i \in 1 .. Len(l) : RedoWalk(l)[i] = RedoStep(l, i, RedoWalk(l)[i - 1])
<1> DEFINE N == Len(l)
           V == [Nat -> Nat]
           step == [i \in 1 .. N |-> [w \in V |-> RedoStep(l, i, w)]]
<1>1. N \in Nat
  BY DEF Log
<1>2. ASSUME NEW i \in 1 .. N, NEW w \in V PROVE RedoStep(l, i, w) \in V
  <2>1. \A skip \in Nat : (IF l[i].kind = "redo" THEN w[skip + 1]
                           ELSE IF skip # 0 THEN w[skip - 1]
                           ELSE IF l[i].kind = "undo" THEN i ELSE 0) \in Nat
    OBVIOUS
  <2> QED BY <2>1 DEF RedoStep
<1>3. step \in [1 .. N -> [V -> V]] /\ Zero \in V
  BY <1>2 DEF Zero
<1>4. PICK g \in [0 .. N -> V] : IsRecursion(g, N, Zero, step)
  <2> HIDE DEF V, step, N
  <2> QED BY <1>1, <1>3, RecursionExists
<1>5. \A i \in 1 .. N : i - 1 \in 0 .. N /\ i \in 0 .. N /\ i # 0
  BY <1>1
<1>6. g = [i \in 0 .. N |-> IF i = 0 THEN Zero ELSE RedoStep(l, i, g[i - 1])]
  <2>1. ASSUME NEW i \in 1 .. N PROVE g[i] = RedoStep(l, i, g[i - 1])
    BY <1>4, <1>5 DEF IsRecursion
  <2>2. \A i \in 0 .. N : i = 0 \/ i \in 1 .. N
    BY <1>1
  <2> QED BY <1>4, <2>1, <2>2 DEF IsRecursion
<1>7. RedoWalk(l) = [i \in 0 .. N |-> IF i = 0 THEN Zero ELSE RedoStep(l, i, RedoWalk(l)[i - 1])]
  BY <1>6, Zenon DEF RedoWalk, Zero
<1> HIDE DEF N
<1>8. RedoWalk(l)[0] = Zero
  BY <1>1, <1>7
<1>9. \A i \in 1 .. N : RedoWalk(l)[i] = RedoStep(l, i, RedoWalk(l)[i - 1])
  BY <1>5, <1>7
<1> QED BY <1>8, <1>9 DEF N

StacksRecord == [past : Seq(State), future : Seq(State)]

\* A sequence without its last element, or the empty one.
LEMMA ShorterIsSeq ==
  ASSUME NEW S, NEW q \in Seq(S)
  PROVE  SubSeq(q, 1, Len(q) - 1) \in Seq(S)
<1>1. Len(q) - 1 \in Int /\ \A i \in 1 .. Len(q) - 1 : q[i] \in S
  OBVIOUS
<1> QED BY <1>1

\* A snapshot makes stacks of stacks.
LEMMA StacksStepType ==
  ASSUME NEW x \in Entry, NEW s \in StacksRecord
  PROVE  StacksStep(x, s) \in StacksRecord
<1>1. /\ SubSeq(s.past, 1, Len(s.past) - 1) \in Seq(State)
      /\ SubSeq(s.future, 1, Len(s.future) - 1) \in Seq(State)
  BY ShorterIsSeq DEF StacksRecord
<1>2. /\ Append(s.past, x.state) \in Seq(State)
      /\ Append(s.future, x.state) \in Seq(State)
  BY DEF StacksRecord, Entry
<1>3. <<>> \in Seq(State)
  OBVIOUS
<1> QED BY <1>1, <1>2, <1>3 DEF StacksStep, StacksRecord

\* The stacks an editor would have.
LEMMA StacksUnfold ==
  ASSUME NEW l \in Log
  PROVE  /\ Stacks(l)[0] = NoStacks
         /\ \A i \in 1 .. Len(l) : Stacks(l)[i] = StacksStep(l[i], Stacks(l)[i - 1])
         /\ \A i \in 0 .. Len(l) : Stacks(l)[i] \in StacksRecord
<1> DEFINE N == Len(l)
           V == StacksRecord
           step == [i \in 1 .. N |-> [w \in V |-> StacksStep(l[i], w)]]
<1>1. N \in Nat
  BY DEF Log
<1>2. ASSUME NEW i \in 1 .. N, NEW w \in V PROVE StacksStep(l[i], w) \in V
  <2>1. l[i] \in Entry
    BY DEF Log
  <2> QED BY <2>1, StacksStepType
<1>3. step \in [1 .. N -> [V -> V]] /\ NoStacks \in V
  <2>1. <<>> \in Seq(State)
    OBVIOUS
  <2>2. NoStacks \in V
    BY <2>1 DEF NoStacks, StacksRecord
  <2> HIDE DEF V
  <2> QED BY <1>2, <2>2
<1>4. PICK g \in [0 .. N -> V] : IsRecursion(g, N, NoStacks, step)
  <2> HIDE DEF V, step, N
  <2> QED BY <1>1, <1>3, RecursionExists
<1> HIDE DEF V
<1>5. \A i \in 1 .. N : i - 1 \in 0 .. N /\ i \in 0 .. N /\ i # 0
  BY <1>1
<1>6. g = [i \in 0 .. N |-> IF i = 0 THEN NoStacks ELSE StacksStep(l[i], g[i - 1])]
  <2>1. ASSUME NEW i \in 1 .. N PROVE g[i] = StacksStep(l[i], g[i - 1])
    BY <1>4, <1>5 DEF IsRecursion
  <2>2. \A i \in 0 .. N : i = 0 \/ i \in 1 .. N
    BY <1>1
  <2> QED BY <1>4, <2>1, <2>2 DEF IsRecursion
<1>7. Stacks(l) = [i \in 0 .. N |-> IF i = 0 THEN NoStacks ELSE StacksStep(l[i], Stacks(l)[i - 1])]
  BY <1>6, Zenon DEF Stacks
<1> HIDE DEF N
<1>8. Stacks(l)[0] = NoStacks
  BY <1>1, <1>7
<1>9. \A i \in 1 .. N : Stacks(l)[i] = StacksStep(l[i], Stacks(l)[i - 1])
  BY <1>5, <1>7
<1>10. \A i \in 0 .. N : Stacks(l)[i] \in V
  <2> DEFINE S == {i \in 0 .. N : Stacks(l)[i] \in V}
  <2>1. 0 \in S
    BY <1>1, <1>3, <1>8
  <2>2. ASSUME NEW i \in 1 .. N, i - 1 \in S PROVE i \in S
    BY <1>2, <1>5, <1>9, <2>2
  <2> HIDE DEF S
  <2>3. 0 .. N \subseteq S
    BY <1>1, <2>1, <2>2, BoundedInduction
  <2> QED BY <2>3 DEF S
<1> QED BY <1>8, <1>9, <1>10 DEF N, V

-----------------------------------------------------------------------------
(* What the walks find.                                                      *)

\* The state on top of a stack once k of those on top are taken.
Nth(q, k) == q[Len(q) - k]

\* With k snapshots still to cancel, get_undo_target_snapshot finds the snapshot that
\* captured what is k below the top of the past, and nothing if there is no such.
UndoFinds(l, n, k) ==
  LET past == Stacks(l)[n].past
      at == UndoWalk(l)[n][k]
  IN IF k < Len(past) THEN at \in 1 .. n /\ l[at].state = Nth(past, k) ELSE at = 0

LEMMA UndoWalkFinds ==
  ASSUME NEW l \in Log
  PROVE  \A n \in 0 .. Len(l), k \in Nat : UndoFinds(l, n, k)
<1> DEFINE S == {n \in 0 .. Len(l) : \A k \in Nat : UndoFinds(l, n, k)}
<1>1. Len(l) \in Nat
  BY DEF Log
<1>2. 0 \in S
  BY <1>1, StacksUnfold, UndoWalkUnfolds DEF NoStacks, Zero, UndoFinds
<1>3. ASSUME NEW n \in 1 .. Len(l), n - 1 \in S PROVE n \in S
  <2> DEFINE older == UndoWalk(l)[n - 1]
             prior == Stacks(l)[n - 1]
             after == Stacks(l)[n]
  <2>1. n \in 0 .. Len(l) /\ n - 1 \in 0 .. Len(l) /\ l[n] \in Entry
    BY <1>1 DEF Log
  <2>2. prior \in StacksRecord /\ after = StacksStep(l[n], prior)
    BY <2>1, StacksUnfold
  <2>3. ASSUME NEW k \in Nat
        PROVE  UndoWalk(l)[n][k] = IF l[n].kind = "undo" THEN older[k + 1]
                                   ELSE IF k = 0 THEN n ELSE older[k - 1]
    <3> DEFINE w == UndoWalk(l)[n - 1]
    <3>1. UndoWalk(l)[n] = UndoStep(l, n, w)
      BY UndoWalkUnfolds
    <3> HIDE DEF w
    <3>2. UndoStep(l, n, w)[k] = IF l[n].kind = "undo" THEN w[k + 1]
                                 ELSE IF k = 0 THEN n ELSE w[k - 1]
      BY DEF UndoStep
    <3> QED BY <3>1, <3>2 DEF w
  <2>4. ASSUME NEW k \in Nat
        PROVE  IF k < Len(prior.past) THEN older[k] \in 1 .. n - 1 /\ l[older[k]].state = Nth(prior.past, k)
               ELSE older[k] = 0
    BY <1>3 DEF UndoFinds
  <2> HIDE DEF older, prior, after
  <2>5. prior.past \in Seq(State) /\ l[n].state \in State
    BY <2>1, <2>2 DEF StacksRecord, Entry
  <2>6. SUFFICES ASSUME NEW k \in Nat PROVE UndoFinds(l, n, k)
    BY <2>1
  <2>7. CASE l[n].kind = "undo"
    <3>1. after.past = SubSeq(prior.past, 1, Len(prior.past) - 1)
      BY <2>2, <2>7 DEF StacksStep
    <3>2. UndoWalk(l)[n][k] = older[k + 1]
      BY <2>3, <2>7
    <3>3. CASE Len(prior.past) = 0
      <4>1. Len(after.past) = 0
        BY <2>5, <3>1, <3>3
      <4> QED BY <2>4, <3>2, <3>3, <4>1 DEF UndoFinds, after
    <3>4. CASE Len(prior.past) # 0
      <4>1. Len(after.past) = Len(prior.past) - 1
            /\ \A i \in 1 .. Len(prior.past) - 1 : after.past[i] = prior.past[i]
        BY <2>5, <3>1, <3>4
      <4>2. k < Len(after.past) => Nth(after.past, k) = Nth(prior.past, k + 1)
        BY <2>5, <4>1 DEF Nth
      <4>3. k < Len(after.past) <=> k + 1 < Len(prior.past)
        BY <2>5, <4>1
      <4> QED BY <2>1, <2>4, <3>2, <4>2, <4>3 DEF UndoFinds, after
    <3> QED BY <2>5, <3>3, <3>4
  <2>8. CASE l[n].kind # "undo"
    <3>1. after.past = Append(prior.past, l[n].state)
      BY <2>2, <2>8 DEF StacksStep
    <3>2. /\ Len(after.past) = Len(prior.past) + 1
          /\ after.past[Len(prior.past) + 1] = l[n].state
          /\ \A i \in 1 .. Len(prior.past) : after.past[i] = prior.past[i]
      BY <2>5, <3>1
    <3>3. CASE k = 0
      <4>1. UndoWalk(l)[n][k] = n
        BY <2>3, <2>8, <3>3
      <4>2. Nth(after.past, k) = l[n].state /\ k < Len(after.past)
        BY <2>5, <3>2, <3>3 DEF Nth
      <4> QED BY <2>1, <4>1, <4>2 DEF UndoFinds, after
    <3>4. CASE k # 0
      <4>1. UndoWalk(l)[n][k] = older[k - 1] /\ k - 1 \in Nat
        BY <2>3, <2>8, <3>4
      <4>2. k < Len(after.past) => Nth(after.past, k) = Nth(prior.past, k - 1)
        <5>1. SUFFICES ASSUME k < Len(after.past) PROVE Nth(after.past, k) = Nth(prior.past, k - 1)
          OBVIOUS
        <5>2. /\ Len(after.past) - k \in 1 .. Len(prior.past)
              /\ Len(after.past) - k = Len(prior.past) - (k - 1)
          BY <2>5, <3>2, <3>4, <5>1
        <5> QED BY <3>2, <5>2 DEF Nth
      <4>3. k < Len(after.past) <=> k - 1 < Len(prior.past)
        BY <2>5, <3>2
      <4> QED BY <2>1, <2>4, <4>1, <4>2, <4>3 DEF UndoFinds, after
    <3> QED BY <3>3, <3>4
  <2> QED BY <2>7, <2>8
<1> HIDE DEF S
<1>4. 0 .. Len(l) \subseteq S
  BY <1>1, <1>2, <1>3, BoundedInduction
<1> QED BY <1>4 DEF S
\* Every redo of a log has something to redo.
RedosFindUndos(l) == \A i \in 1 .. Len(l) : l[i].kind = "redo" => Stacks(l)[i - 1].future # <<>>

\* With k snapshots still to cancel, get_redo_target_snapshot finds the snapshot that
\* captured what is k below the top of the future, and nothing at the bottom of it.
RedoFinds(l, n, k) ==
  LET future == Stacks(l)[n].future
      at == RedoWalk(l)[n][k]
  IN /\ k < Len(future) => at \in 1 .. n /\ l[at].state = Nth(future, k)
     /\ k = Len(future) => at = 0

LEMMA RedoWalkFinds ==
  ASSUME NEW l \in Log, RedosFindUndos(l)
  PROVE  \A n \in 0 .. Len(l), k \in Nat : RedoFinds(l, n, k)
<1> DEFINE S == {n \in 0 .. Len(l) : \A k \in Nat : RedoFinds(l, n, k)}
<1>1. Len(l) \in Nat
  BY DEF Log
<1>2. 0 \in S
  BY <1>1, StacksUnfold, RedoWalkUnfolds DEF NoStacks, Zero, RedoFinds
<1>3. ASSUME NEW n \in 1 .. Len(l), n - 1 \in S PROVE n \in S
  <2> DEFINE older == RedoWalk(l)[n - 1]
             prior == Stacks(l)[n - 1]
             after == Stacks(l)[n]
  <2>1. n \in 0 .. Len(l) /\ n - 1 \in 0 .. Len(l) /\ l[n] \in Entry
    BY <1>1 DEF Log
  <2>2. prior \in StacksRecord /\ after = StacksStep(l[n], prior)
    BY <2>1, StacksUnfold
  <2>3. ASSUME NEW k \in Nat
        PROVE  RedoWalk(l)[n][k] = IF l[n].kind = "redo" THEN older[k + 1]
                                   ELSE IF k # 0 THEN older[k - 1]
                                   ELSE IF l[n].kind = "undo" THEN n ELSE 0
    <3> DEFINE w == RedoWalk(l)[n - 1]
    <3>1. RedoWalk(l)[n] = RedoStep(l, n, w)
      BY RedoWalkUnfolds
    <3> HIDE DEF w
    <3>2. RedoStep(l, n, w)[k] = IF l[n].kind = "redo" THEN w[k + 1]
                                 ELSE IF k # 0 THEN w[k - 1]
                                 ELSE IF l[n].kind = "undo" THEN n ELSE 0
      BY DEF RedoStep
    <3> QED BY <3>1, <3>2 DEF w
  <2>4. ASSUME NEW k \in Nat
        PROVE  /\ k < Len(prior.future) => older[k] \in 1 .. n - 1 /\ l[older[k]].state = Nth(prior.future, k)
               /\ k = Len(prior.future) => older[k] = 0
    BY <1>3 DEF RedoFinds
  <2>5. l[n].kind = "redo" => prior.future # <<>>
    BY DEF RedosFindUndos
  <2> HIDE DEF older, prior, after
  <2>6. prior.future \in Seq(State) /\ l[n].state \in State
    BY <2>1, <2>2 DEF StacksRecord, Entry
  <2>7. SUFFICES ASSUME NEW k \in Nat PROVE RedoFinds(l, n, k)
    BY <2>1
  <2>8. CASE l[n].kind = "redo"
    <3>1. after.future = SubSeq(prior.future, 1, Len(prior.future) - 1)
      BY <2>2, <2>8 DEF StacksStep
    <3>2. RedoWalk(l)[n][k] = older[k + 1]
      BY <2>3, <2>8
    <3>3. Len(prior.future) # 0
      BY <2>5, <2>6, <2>8
    <3>4. Len(after.future) = Len(prior.future) - 1
          /\ \A i \in 1 .. Len(prior.future) - 1 : after.future[i] = prior.future[i]
      BY <2>6, <3>1, <3>3
    <3>5. k < Len(after.future) => Nth(after.future, k) = Nth(prior.future, k + 1)
      BY <2>6, <3>4 DEF Nth
    <3>6. /\ k < Len(after.future) <=> k + 1 < Len(prior.future)
          /\ k = Len(after.future) <=> k + 1 = Len(prior.future)
      BY <2>6, <3>4
    <3> QED BY <2>1, <2>4, <3>2, <3>5, <3>6 DEF RedoFinds, after
  <2>9. CASE l[n].kind = "undo"
    <3>1. after.future = Append(prior.future, l[n].state)
      BY <2>2, <2>9 DEF StacksStep
    <3>2. /\ Len(after.future) = Len(prior.future) + 1
          /\ after.future[Len(prior.future) + 1] = l[n].state
          /\ \A i \in 1 .. Len(prior.future) : after.future[i] = prior.future[i]
      BY <2>6, <3>1
    <3>3. CASE k = 0
      <4>1. RedoWalk(l)[n][k] = n
        BY <2>3, <2>9, <3>3
      <4>2. Nth(after.future, k) = l[n].state /\ k < Len(after.future)
        BY <2>6, <3>2, <3>3 DEF Nth
      <4> QED BY <2>1, <4>1, <4>2 DEF RedoFinds, after
    <3>4. CASE k # 0
      <4>1. RedoWalk(l)[n][k] = older[k - 1] /\ k - 1 \in Nat
        BY <2>3, <2>9, <3>4
      <4>2. k < Len(after.future) => Nth(after.future, k) = Nth(prior.future, k - 1)
        <5>1. SUFFICES ASSUME k < Len(after.future)
                       PROVE  Nth(after.future, k) = Nth(prior.future, k - 1)
          OBVIOUS
        <5>2. /\ Len(after.future) - k \in 1 .. Len(prior.future)
              /\ Len(after.future) - k = Len(prior.future) - (k - 1)
          BY <2>6, <3>2, <3>4, <5>1
        <5> QED BY <3>2, <5>2 DEF Nth
      <4>3. /\ k < Len(after.future) <=> k - 1 < Len(prior.future)
            /\ k = Len(after.future) <=> k - 1 = Len(prior.future)
        BY <2>6, <3>2
      <4> QED BY <2>1, <2>4, <4>1, <4>2, <4>3 DEF RedoFinds, after
    <3> QED BY <3>3, <3>4
  <2>10. CASE l[n].kind \notin {"undo", "redo"}
    <3>1. after.future = <<>> /\ Len(after.future) = 0
      BY <2>2, <2>10 DEF StacksStep
    <3>2. k = 0 => RedoWalk(l)[n][k] = 0
      BY <2>3, <2>10
    <3> QED BY <2>1, <3>1, <3>2 DEF RedoFinds, after
  <2> QED BY <2>8, <2>9, <2>10
<1> HIDE DEF S
<1>4. 0 .. Len(l) \subseteq S
  BY <1>1, <1>2, <1>3, BoundedInduction
<1> QED BY <1>4 DEF S

\* Whatever the log, a target is a snapshot of it, or none.
LEMMA TargetsAreSnapshots ==
  ASSUME NEW l \in Log
  PROVE  UndoTarget(l) \in 0 .. Len(l) /\ RedoTarget(l) \in 0 .. Len(l)
<1> DEFINE S == {n \in 0 .. Len(l) : \A k \in Nat : UndoWalk(l)[n][k] \in 0 .. n /\ RedoWalk(l)[n][k] \in 0 .. n}
<1>1. Len(l) \in Nat
  BY DEF Log
<1>2. 0 \in S
  BY <1>1, UndoWalkUnfolds, RedoWalkUnfolds DEF Zero
<1>3. ASSUME NEW n \in 1 .. Len(l), n - 1 \in S PROVE n \in S
  <2> DEFINE undone == UndoWalk(l)[n - 1]
             redone == RedoWalk(l)[n - 1]
  <2>1. UndoWalk(l)[n] = UndoStep(l, n, undone) /\ RedoWalk(l)[n] = RedoStep(l, n, redone)
    BY UndoWalkUnfolds, RedoWalkUnfolds
  <2>2. \A k \in Nat : undone[k] \in 0 .. n - 1 /\ redone[k] \in 0 .. n - 1
    BY <1>3
  <2> HIDE DEF undone, redone
  <2>3. ASSUME NEW k \in Nat PROVE UndoStep(l, n, undone)[k] \in 0 .. n
    <3>1. UndoStep(l, n, undone)[k] = IF l[n].kind = "undo" THEN undone[k + 1]
                                      ELSE IF k = 0 THEN n ELSE undone[k - 1]
      BY DEF UndoStep
    <3> QED BY <2>2, <3>1
  <2>4. ASSUME NEW k \in Nat PROVE RedoStep(l, n, redone)[k] \in 0 .. n
    <3>1. RedoStep(l, n, redone)[k] = IF l[n].kind = "redo" THEN redone[k + 1]
                                      ELSE IF k # 0 THEN redone[k - 1]
                                      ELSE IF l[n].kind = "undo" THEN n ELSE 0
      BY DEF RedoStep
    <3> QED BY <2>2, <3>1
  <2> QED BY <1>1, <2>1, <2>3, <2>4
<1> HIDE DEF S
<1>4. 0 .. Len(l) \subseteq S
  BY <1>1, <1>2, <1>3, BoundedInduction
<1>5. Len(l) \in S
  BY <1>1, <1>4
<1> QED BY <1>5 DEF S, UndoTarget, RedoTarget
-----------------------------------------------------------------------------
(* The log of any number of programs.                                        *)

\* A restore names an older snapshot.
RestoresPointBack(l) ==
  \A i \in 1 .. Len(l) : l[i].kind \in RestoreKind => l[i].from \in 1 .. i - 1

\* What a program selected is a snapshot of the log, which only grows.
SelectionsAreThere ==
  \A c \in Client : sel[c] # NotSelected =>
    sel[c].kind \in {"undo", "redo"} /\ sel[c].target \in 1 .. Len(log)

LogInv == TypeOK /\ RestoresPointBack(log) /\ SelectionsAreThere

\* One more snapshot keeps the log a log whose restores point back.
LEMMA CommitKeepsLog ==
  ASSUME NEW l \in Log, RestoresPointBack(l),
         NEW x \in Entry, x.kind \in RestoreKind => x.from \in 1 .. Len(l)
  PROVE  /\ Append(l, x) \in Log /\ RestoresPointBack(Append(l, x))
         /\ Len(Append(l, x)) = Len(l) + 1
<1>1. /\ Append(l, x) \in Log /\ Len(Append(l, x)) = Len(l) + 1 /\ Len(l) \in Nat
      /\ \A i \in 1 .. Len(l) : Append(l, x)[i] = l[i]
      /\ Append(l, x)[Len(l) + 1] = x
  BY DEF Log
<1> QED BY <1>1 DEF RestoresPointBack

\* What CommitSnapshot does to the log, whoever calls it.
LEMMA CommitKeepsLogInv ==
  ASSUME LogInv,
         NEW kind \in OperationKind, NEW state \in State, NEW from \in Nat,
         kind \in RestoreKind => from \in 1 .. Len(log),
         CommitSnapshot(kind, state, from)
  PROVE  log' \in Log /\ RestoresPointBack(log)' /\ Len(log') = Len(log) + 1
<1> DEFINE x == Snapshot(kind, state, from)
<1>1. x \in Entry /\ x.kind = kind /\ x.from = from
  BY DEF Snapshot, Entry
<1>2. log \in Log /\ log' = Append(log, x)
  BY DEF LogInv, TypeOK, CommitSnapshot, Log, Entry
<1> HIDE DEF x
<1>3. /\ Append(log, x) \in Log /\ RestoresPointBack(Append(log, x))
      /\ Len(Append(log, x)) = Len(log) + 1
  BY <1>1, <1>2, CommitKeepsLog DEF LogInv
<1> QED BY <1>2, <1>3 DEF RestoresPointBack
LEMMA LogInvInit == Init => LogInv
<1> SUFFICES ASSUME Init PROVE LogInv
  OBVIOUS
<1>1. log = <<>> /\ Len(log) = 0 /\ log \in Log
  BY DEF Init, Log
<1>2. NotSelected \in [kind : {"none", "undo", "redo"}, target : Nat]
  BY DEF NotSelected
<1>3. TypeOK
  BY <1>1, <1>2 DEF Init, TypeOK, Log, Entry
<1>4. RestoresPointBack(log)
  BY <1>1 DEF RestoresPointBack
<1>5. SelectionsAreThere
  BY DEF SelectionsAreThere, Init
<1> QED BY <1>3, <1>4, <1>5 DEF LogInv

\* A restore by one program: what it selected, or what it was told.
LEMMA RestoreKeepsLogInv ==
  ASSUME LogInv, NEW kind \in RestoreKind, NEW i \in 1 .. Len(log), RestoreSnapshot(kind, i),
         SelectionsAreThere', sel' \in [Client -> [kind : {"none", "undo", "redo"}, target : Nat]]
  PROVE  LogInv'
<1>1. log \in Log /\ i \in Nat /\ log[i] \in Entry /\ repo \in State
  <2>1. log \in Log /\ repo \in State
    BY DEF LogInv, TypeOK, Log, Entry
  <2> QED BY <2>1 DEF Log
<1>2. log' \in Log /\ RestoresPointBack(log)'
  BY <1>1, CommitKeepsLogInv DEF RestoreSnapshot, OperationKind
<1>3. repo' \in State
  BY <1>1 DEF RestoreSnapshot, Entry
<1>4. TypeOK'
  BY <1>2, <1>3 DEF LogInv, TypeOK, RestoreSnapshot, Log, Entry
<1> QED BY <1>2, <1>4 DEF LogInv

\* Every step of every program.
LEMMA LogInvNext == LogInv /\ [Next]_vars => LogInv'
<1> SUFFICES ASSUME LogInv, [Next]_vars PROVE LogInv'
  OBVIOUS
<1> USE DEF LogInv
<1>1. log \in Log /\ Len(log) \in Nat /\ repo \in State
  BY DEF TypeOK, Log, Entry
<1>2. CASE UNCHANGED vars
  BY <1>2 DEF vars, TypeOK, RestoresPointBack, SelectionsAreThere
<1>3. CASE Drift
  BY <1>3 DEF Drift, TypeOK, RestoresPointBack, SelectionsAreThere
<1>4. ASSUME NEW c \in Client, BeginOperation(c) PROVE LogInv'
  BY <1>4 DEF BeginOperation, PrepareSnapshot, TypeOK, RestoresPointBack, SelectionsAreThere
<1>5. ASSUME NEW c \in Client, FinishOperation(c) PROVE LogInv'
  <2>1. CASE before = NoState
    BY <1>5, <2>1 DEF FinishOperation, TypeOK, RestoresPointBack, SelectionsAreThere
  <2>2. CASE before # NoState
    <3>1. log' \in Log /\ RestoresPointBack(log)' /\ Len(log') = Len(log) + 1
      BY <1>5, <2>2, CommitKeepsLogInv DEF FinishOperation, TypeOK, OperationKind, RestoreKind
    <3>2. TypeOK'
      BY <1>5, <3>1 DEF FinishOperation, TypeOK, Log, Entry
    <3>3. SelectionsAreThere'
      BY <1>1, <1>5, <3>1 DEF FinishOperation, SelectionsAreThere
    <3> QED BY <3>1, <3>2, <3>3
  <2> QED BY <2>1, <2>2
<1>6. ASSUME NEW c \in Client, FailOperation(c) PROVE LogInv'
  BY <1>6 DEF FailOperation, TypeOK, RestoresPointBack, SelectionsAreThere
<1>7. ASSUME NEW c \in Client, CreateSnapshot(c) PROVE LogInv'
  <2>1. log' \in Log /\ RestoresPointBack(log)' /\ Len(log') = Len(log) + 1
    BY <1>1, <1>7, CommitKeepsLogInv DEF CreateSnapshot, OperationKind, RestoreKind
  <2>2. TypeOK'
    BY <1>7, <2>1 DEF CreateSnapshot, TypeOK, Log, Entry
  <2>3. SelectionsAreThere'
    BY <1>1, <1>7, <2>1 DEF CreateSnapshot, SelectionsAreThere
  <2> QED BY <2>1, <2>2, <2>3
<1>8. ASSUME NEW c \in Client, NEW kind \in {"undo", "redo"}, Select(c, kind) PROVE LogInv'
  <2>1. Target(kind) \in 1 .. Len(log)
    <3>1. Target(kind) \in 0 .. Len(log)
      BY <1>1, TargetsAreSnapshots DEF Target
    <3> QED BY <1>1, <1>8, <3>1 DEF Select
  <2> DEFINE s == [kind |-> kind, target |-> Target(kind)]
  <2>2. s \in [kind : {"none", "undo", "redo"}, target : Nat]
    BY <1>1, <2>1
  <2>3. s.kind = kind /\ s.target \in 1 .. Len(log)
    BY <2>1
  <2>4. sel' = [sel EXCEPT ![c] = s] /\ UNCHANGED <<repo, log, holder, before>>
    BY <1>8 DEF Select
  <2> HIDE DEF s
  <2>5. TypeOK'
    BY <2>2, <2>4 DEF TypeOK
  <2>6. SelectionsAreThere'
    BY <2>3, <2>4 DEF SelectionsAreThere, TypeOK
  <2> QED BY <2>4, <2>5, <2>6 DEF RestoresPointBack
<1>9. ASSUME NEW c \in Client, RestoreSelected(c) PROVE LogInv'
  <2>1. sel[c].kind \in RestoreKind /\ sel[c].target \in 1 .. Len(log)
    BY <1>9 DEF RestoreSelected, SelectionsAreThere, RestoreKind
  <2>2. sel' = [sel EXCEPT ![c] = NotSelected] /\ RestoreSnapshot(sel[c].kind, sel[c].target)
    BY <1>9 DEF RestoreSelected
  <2>3. Len(log') = Len(log) + 1
    <3>1. ASSUME NEW kind \in RestoreKind, NEW i \in 1 .. Len(log), RestoreSnapshot(kind, i)
          PROVE  Len(log') = Len(log) + 1
      <4>1. kind \in OperationKind /\ i \in Nat /\ CommitSnapshot(kind, repo, i)
        BY <1>1, <3>1 DEF RestoreSnapshot, OperationKind
      <4> QED BY <1>1, <4>1, CommitKeepsLogInv
    <3> QED BY <2>1, <2>2, <3>1
  <2>4. SelectionsAreThere'
    BY <1>1, <2>2, <2>3 DEF SelectionsAreThere, TypeOK
  <2>5. sel' \in [Client -> [kind : {"none", "undo", "redo"}, target : Nat]]
    BY <2>2 DEF TypeOK, NotSelected
  <2> QED BY <2>1, <2>2, <2>4, <2>5, RestoreKeepsLogInv
<1>10. ASSUME NEW c \in Client, RestoreExplicit(c) PROVE LogInv'
  <2>1. PICK i \in 1 .. Len(log) : RestoreSnapshot("restore", i)
    BY <1>10 DEF RestoreExplicit
  <2>2. UNCHANGED sel
    BY <1>10 DEF RestoreExplicit
  <2>3. Len(log') = Len(log) + 1
    BY <1>1, <2>1, CommitKeepsLogInv DEF RestoreSnapshot, OperationKind, RestoreKind
  <2>4. SelectionsAreThere'
    BY <1>1, <2>2, <2>3 DEF SelectionsAreThere
  <2> QED BY <2>1, <2>2, <2>4, RestoreKeepsLogInv DEF TypeOK, RestoreKind
<1>11. ASSUME NEW c \in Client, Crash(c) PROVE LogInv'
  <2>1. sel' = [sel EXCEPT ![c] = NotSelected] /\ UNCHANGED <<repo, log>>
        /\ holder' \in {holder, Nobody} /\ before' \in {before, NoState}
    BY <1>11 DEF Crash
  <2>2. TypeOK'
    BY <2>1 DEF TypeOK, NotSelected
  <2> QED BY <2>1, <2>2 DEF RestoresPointBack, SelectionsAreThere, TypeOK
<1> QED BY <1>2, <1>3, <1>4, <1>5, <1>6, <1>7, <1>8, <1>9, <1>10, <1>11 DEF Next

THEOREM LogInvariance == Spec => []LogInv
BY LogInvInit, LogInvNext, PTL DEF Spec

\* Only prepared states become snapshots and every selection is of the log's type,
\* whatever the programs and however long the log.
THEOREM UndoRedoTypes == Spec => []TypeOK
<1>1. LogInv => TypeOK
  BY DEF LogInv
<1> QED BY <1>1, LogInvariance, PTL
-----------------------------------------------------------------------------
(* Peeling a restore snapshot.                                               *)

\* What peel_restore_snapshot makes of the snapshots up to n.
Peels(g, l, n) ==
  /\ g[0] = 0
  /\ \A i \in 1 .. n : g[i] = IF l[i].kind \notin RestoreKind THEN i ELSE g[l[i].from]

LEMMA PeelsExist ==
  ASSUME NEW l \in Log, RestoresPointBack(l)
  PROVE  \A n \in 0 .. Len(l) : \E g \in [0 .. n -> Nat] : Peels(g, l, n)
<1> DEFINE S == {n \in 0 .. Len(l) : \E g \in [0 .. n -> Nat] : Peels(g, l, n)}
<1>1. Len(l) \in Nat
  BY DEF Log
<1>2. 0 \in S
  <2> DEFINE g == [i \in 0 .. 0 |-> 0]
  <2>1. g \in [0 .. 0 -> Nat] /\ Peels(g, l, 0)
    BY DEF Peels
  <2> HIDE DEF g
  <2> QED BY <1>1, <2>1
<1>3. ASSUME NEW n \in 1 .. Len(l), n - 1 \in S PROVE n \in S
  <2>1. PICK g \in [0 .. n - 1 -> Nat] : Peels(g, l, n - 1)
    BY <1>3
  <2> DEFINE next == IF l[n].kind \notin RestoreKind THEN n ELSE g[l[n].from]
             h == [i \in 0 .. n |-> IF i = n THEN next ELSE g[i]]
  <2>2. \A i \in 1 .. n : l[i].kind \in RestoreKind => l[i].from \in 1 .. i - 1 /\ l[i].from \in 0 .. n - 1
    BY <1>1 DEF RestoresPointBack
  <2>3. next \in Nat
    BY <2>2
  <2>4. \A i \in 0 .. n - 1 : h[i] = g[i]
    OBVIOUS
  <2>5. h[n] = next
    OBVIOUS
  <2>6. h \in [0 .. n -> Nat]
    <3> HIDE DEF next
    <3> QED BY <2>3
  <2> HIDE DEF h
  <2>7. ASSUME NEW i \in 1 .. n
        PROVE  h[i] = IF l[i].kind \notin RestoreKind THEN i ELSE h[l[i].from]
    <3>1. CASE i = n
      BY <2>2, <2>4, <2>5, <3>1
    <3>2. CASE i # n
      <4>1. i \in 1 .. n - 1 /\ i \in 0 .. n - 1
        BY <3>2
      <4> QED BY <2>1, <2>2, <2>4, <4>1 DEF Peels
    <3> QED BY <3>1, <3>2
  <2>8. h[0] = 0
    BY <2>1, <2>4 DEF Peels
  <2>9. Peels(h, l, n)
    BY <2>7, <2>8 DEF Peels
  <2>10. n \in 0 .. Len(l)
    BY <1>1
  <2> QED BY <2>6, <2>9, <2>10
<1> HIDE DEF S
<1>4. 0 .. Len(l) \subseteq S
  BY <1>1, <1>2, <1>3, BoundedInduction
<1> QED BY <1>4 DEF S

\* The recursion of peel_restore_snapshot is that function, all of it.
LEMMA PeelUnfolds ==
  ASSUME NEW l \in Log, RestoresPointBack(l)
  PROVE  \A i \in 1 .. Len(l) :
           PeelRestoreSnapshot(l, i) \in 1 .. i /\ l[PeelRestoreSnapshot(l, i)].kind = "op"
<1> DEFINE N == Len(l)
           P == CHOOSE peel : peel = [i \in 0 .. Len(l) |->
                  IF i = 0 \/ l[i].kind \notin RestoreKind THEN i ELSE peel[l[i].from]]
<1>1. N \in Nat
  BY DEF Log
<1>2. PICK g \in [0 .. N -> Nat] : Peels(g, l, N)
  BY <1>1, PeelsExist
<1>3. g = [i \in 0 .. Len(l) |-> IF i = 0 \/ l[i].kind \notin RestoreKind THEN i ELSE g[l[i].from]]
  <2>1. ASSUME NEW i \in 0 .. N
        PROVE  g[i] = IF i = 0 \/ l[i].kind \notin RestoreKind THEN i ELSE g[l[i].from]
    BY <1>1, <1>2 DEF Peels
  <2> QED BY <2>1
<1>4. P = [i \in 0 .. Len(l) |-> IF i = 0 \/ l[i].kind \notin RestoreKind THEN i ELSE P[l[i].from]]
  BY <1>3, Zenon
<1>5. \A i : PeelRestoreSnapshot(l, i) = P[i]
  BY DEF PeelRestoreSnapshot
<1> HIDE DEF P
<1> DEFINE S == {n \in 0 .. N : \A i \in 1 .. n : P[i] \in 1 .. i /\ l[P[i]].kind = "op"}
<1>6. 0 \in S
  BY <1>1
<1>7. ASSUME NEW n \in 1 .. N, n - 1 \in S PROVE n \in S
  <2>1. l[n] \in Entry /\ n \in 0 .. N /\ n # 0
    BY <1>1 DEF Log
  <2>2. P[n] = IF l[n].kind \notin RestoreKind THEN n ELSE P[l[n].from]
    BY <1>4, <2>1
  <2>3. P[n] \in 1 .. n /\ l[P[n]].kind = "op"
    <3>1. CASE l[n].kind \notin RestoreKind
      BY <2>1, <2>2, <3>1 DEF Entry, OperationKind
    <3>2. CASE l[n].kind \in RestoreKind
      <4>1. l[n].from \in 1 .. n - 1
        BY <3>2 DEF RestoresPointBack
      <4>2. P[l[n].from] \in 1 .. l[n].from /\ l[P[l[n].from]].kind = "op"
        BY <1>7, <4>1
      <4> QED BY <2>2, <3>2, <4>1, <4>2
    <3> QED BY <3>1, <3>2
  <2> QED BY <1>7, <2>1, <2>3
<1> HIDE DEF S
<1>8. 0 .. N \subseteq S
  BY <1>1, <1>6, <1>7, BoundedInduction
<1>9. N \in S
  BY <1>1, <1>8
<1> QED BY <1>5, <1>9 DEF S

\* Whoever restores what, and however often: from every snapshot peeling ends at one that
\* an operation took.
THEOREM PeelSafe == Spec => []PeelFindsAnOperation
<1>1. LogInv => PeelFindsAnOperation
  BY PeelUnfolds DEF LogInv, TypeOK, PeelFindsAnOperation, Log, Entry
<1> QED BY <1>1, LogInvariance, PTL
-----------------------------------------------------------------------------
(* Paging through the log.                                                   *)

\* A page is a sequence of positions.
Page == Seq(Nat)

\* One more snapshot in front of a page: a page, with the last one it had.
LEMMA InFront ==
  ASSUME NEW i \in Nat, NEW p \in Page
  PROVE  /\ <<i>> \o p \in Page /\ <<i>> \o p # <<>>
         /\ Len(<<i>> \o p) = Len(p) + 1
         /\ p # <<>> => (<<i>> \o p)[Len(p) + 1] = p[Len(p)]
         /\ p = <<>> => (<<i>> \o p)[Len(p) + 1] = i
         /\ \A q \in Page : (<<i>> \o p) \o q = <<i>> \o (p \o q)
<1> USE DEF Page
<1>1. <<i>> \in Page /\ Len(<<i>>) = 1
  OBVIOUS
<1>2. <<i>> \o p \in Page /\ Len(<<i>> \o p) = Len(p) + 1
  BY <1>1
<1>3. <<i>> \o p # <<>>
  BY <1>2
<1>4. p # <<>> => (<<i>> \o p)[Len(p) + 1] = p[Len(p)]
  OBVIOUS
<1>5. p = <<>> => (<<i>> \o p)[Len(p) + 1] = i
  OBVIOUS
<1>6. \A q \in Page : (<<i>> \o p) \o q = <<i>> \o (p \o q)
  OBVIOUS
<1> QED BY <1>2, <1>3, <1>4, <1>5, <1>6

NoPages == [n \in Nat |-> <<>>]

\* A step of SnapshotIter makes pages of pages.
LEMMA ListStepType ==
  ASSUME NEW l, NEW exclude, NEW i \in Nat, NEW older \in [Nat -> Page]
  PROVE  ListStep(l, exclude, i, older) \in [Nat -> Page]
<1>1. ASSUME NEW n \in Nat
      PROVE  (IF n = 0 THEN <<>> ELSE IF l[i].kind \in exclude THEN older[n]
              ELSE <<i>> \o older[n - 1]) \in Page
  <2>1. <<>> \in Page
    BY DEF Page
  <2>2. n # 0 => older[n - 1] \in Page /\ <<i>> \o older[n - 1] \in Page
    BY InFront
  <2> QED BY <2>1, <2>2
<1> QED BY <1>1 DEF ListStep

\* SnapshotIter, one snapshot after the other.
LEMMA ListWalkUnfolds ==
  ASSUME NEW l \in Log, NEW exclude
  PROVE  /\ ListWalk(l, exclude)[0] = NoPages
         /\ \A i \in 1 .. Len(l) :
              ListWalk(l, exclude)[i] = ListStep(l, exclude, i, ListWalk(l, exclude)[i - 1])
         /\ \A i \in 0 .. Len(l) : ListWalk(l, exclude)[i] \in [Nat -> Page]
<1> DEFINE N == Len(l)
           V == [Nat -> Page]
           W == ListWalk(l, exclude)
           step == [i \in 1 .. N |-> [w \in V |-> ListStep(l, exclude, i, w)]]
<1>1. N \in Nat
  BY DEF Log
<1>2. ASSUME NEW i \in 1 .. N, NEW w \in V PROVE ListStep(l, exclude, i, w) \in V
  BY <1>1, ListStepType
<1>3. step \in [1 .. N -> [V -> V]] /\ NoPages \in V
  <2>1. NoPages \in V
    BY DEF NoPages, Page
  <2> HIDE DEF V
  <2> QED BY <1>2, <2>1
<1>4. PICK g \in [0 .. N -> V] : IsRecursion(g, N, NoPages, step)
  <2> HIDE DEF V, step, N
  <2> QED BY <1>1, <1>3, RecursionExists
<1> HIDE DEF V
<1>5. \A i \in 1 .. N : i - 1 \in 0 .. N /\ i \in 0 .. N /\ i # 0
  BY <1>1
<1>6. g = [i \in 0 .. N |-> IF i = 0 THEN NoPages ELSE ListStep(l, exclude, i, g[i - 1])]
  <2>1. ASSUME NEW i \in 1 .. N PROVE g[i] = ListStep(l, exclude, i, g[i - 1])
    BY <1>4, <1>5 DEF IsRecursion
  <2>2. \A i \in 0 .. N : i = 0 \/ i \in 1 .. N
    BY <1>1
  <2> QED BY <1>4, <2>1, <2>2 DEF IsRecursion
<1>7. W = [i \in 0 .. N |-> IF i = 0 THEN NoPages ELSE ListStep(l, exclude, i, W[i - 1])]
  BY <1>6, Zenon DEF ListWalk, NoPages
<1> HIDE DEF N, W
<1>8. W[0] = NoPages
  BY <1>1, <1>7
<1>9. \A i \in 1 .. N : W[i] = ListStep(l, exclude, i, W[i - 1])
  BY <1>5, <1>7
<1>10. \A i \in 0 .. N : W[i] \in V
  <2> DEFINE S == {i \in 0 .. N : W[i] \in V}
  <2>1. 0 \in S
    BY <1>1, <1>3, <1>8
  <2>2. ASSUME NEW i \in 1 .. N, i - 1 \in S PROVE i \in S
    BY <1>2, <1>5, <1>9, <2>2
  <2> HIDE DEF S
  <2>3. 0 .. N \subseteq S
    BY <1>1, <2>1, <2>2, BoundedInduction
  <2> QED BY <2>3 DEF S
<1> QED BY <1>8, <1>9, <1>10 DEF N, V, W

\* The pages of the snapshots up to n do not depend on the later ones.
LEMMA ListWalkOfPrefix ==
  ASSUME NEW l \in Log, NEW exclude, NEW n \in 0 .. Len(l)
  PROVE  /\ SubSeq(l, 1, n) \in Log /\ Len(SubSeq(l, 1, n)) = n
         /\ \A i \in 0 .. n : ListWalk(SubSeq(l, 1, n), exclude)[i] = ListWalk(l, exclude)[i]
<1> DEFINE p == SubSeq(l, 1, n)
           S == {i \in 0 .. n : ListWalk(p, exclude)[i] = ListWalk(l, exclude)[i]}
<1>1. n \in Nat /\ n <= Len(l) /\ Len(l) \in Nat
  BY DEF Log
<1>2. p \in Log /\ Len(p) = n /\ \A i \in 1 .. n : p[i] = l[i]
  BY <1>1 DEF Log
<1> HIDE DEF p
<1>3. 0 \in S
  BY <1>1, <1>2, ListWalkUnfolds
<1>4. ASSUME NEW i \in 1 .. n, i - 1 \in S PROVE i \in S
  <2> DEFINE w == ListWalk(l, exclude)[i - 1]
  <2>1. ListWalk(p, exclude)[i] = ListStep(p, exclude, i, w)
    BY <1>2, <1>4, ListWalkUnfolds
  <2>2. ListWalk(l, exclude)[i] = ListStep(l, exclude, i, w)
    BY <1>1, ListWalkUnfolds
  <2> HIDE DEF w
  <2>3. ListStep(p, exclude, i, w) = ListStep(l, exclude, i, w)
    BY <1>2 DEF ListStep
  <2> QED BY <1>1, <2>1, <2>2, <2>3
<1> HIDE DEF S
<1>5. 0 .. n \subseteq S
  BY <1>1, <1>3, <1>4, BoundedInduction
<1> QED BY <1>2, <1>5 DEF S, p
\* Below i: asking for i snapshots or more gives all of them; a page followed by all that
\* is older than its last snapshot gives all of them too.
Tiles(l, exclude, i) ==
  LET W == ListWalk(l, exclude)
  IN /\ \A j, k \in Nat : j >= i /\ k >= i => W[i][j] = W[i][k]
     /\ \A k, all \in Nat :
          LET page == W[i][k]
              last == page[Len(page)]
          IN k # 0 /\ all >= i /\ page # <<>>
               => last \in 1 .. i /\ page \o W[last - 1][all] = W[i][all]

\* Going on from the last snapshot of a page.
GoesOn(l, exclude, i, page, all) ==
  LET W == ListWalk(l, exclude)
      last == page[Len(page)]
  IN last \in 1 .. i /\ page \o W[last - 1][all] = W[i][all]

LEMMA PagesOfAWalkTile ==
  ASSUME NEW l \in Log, NEW exclude
  PROVE  \A i \in 0 .. Len(l) : Tiles(l, exclude, i)
<1> DEFINE S == {i \in 0 .. Len(l) : Tiles(l, exclude, i)}
           W == ListWalk(l, exclude)
<1>1. Len(l) \in Nat
  BY DEF Log
<1>2. 0 \in S
  <2>1. \A k \in Nat : W[0][k] = <<>>
    BY ListWalkUnfolds DEF NoPages
  <2> HIDE DEF W
  <2>2. /\ \A j, k \in Nat : W[0][j] = W[0][k]
        /\ \A k \in Nat : ~(W[0][k] # <<>>)
    BY <2>1
  <2>3. Tiles(l, exclude, 0)
    BY <2>2 DEF Tiles, W
  <2> QED BY <1>1, <2>3
<1>3. ASSUME NEW i \in 1 .. Len(l), i - 1 \in S PROVE i \in S
  <2> DEFINE older == W[i - 1]
  <2>1. W[i] = ListStep(l, exclude, i, older) /\ older \in [Nat -> Page]
        /\ i \in Nat /\ i - 1 \in 0 .. Len(l) /\ i \in 0 .. Len(l)
    BY <1>1, ListWalkUnfolds
  <2>2. \A j \in 0 .. i - 1 : W[j] \in [Nat -> Page]
    BY <1>1, ListWalkUnfolds
  <2>3. \A j, k \in Nat : j >= i - 1 /\ k >= i - 1 => older[j] = older[k]
    BY <1>3 DEF Tiles
  <2>4. ASSUME NEW k \in Nat, NEW all \in Nat, k # 0, all >= i - 1, older[k] # <<>>
        PROVE  GoesOn(l, exclude, i - 1, older[k], all)
    BY <1>3, <2>4 DEF Tiles, GoesOn
  <2>5. older[0] = <<>>
    <3>1. CASE i - 1 = 0
      BY <3>1, ListWalkUnfolds DEF NoPages
    <3>2. CASE i - 1 # 0
      <4> DEFINE oldest == W[(i - 1) - 1]
      <4>1. older = ListStep(l, exclude, i - 1, oldest)
        BY <1>1, <3>2, ListWalkUnfolds
      <4> HIDE DEF oldest
      <4> QED BY <4>1 DEF ListStep
    <3> QED BY <3>1, <3>2
  <2> HIDE DEF older
  <2>6. \A k \in Nat : W[i][k] = IF k = 0 THEN <<>> ELSE IF l[i].kind \in exclude THEN older[k]
                                 ELSE <<i>> \o older[k - 1]
    BY <2>1 DEF ListStep
  <2>7. ASSUME NEW j \in Nat, NEW k \in Nat, j >= i, k >= i PROVE W[i][j] = W[i][k]
    <3>1. j # 0 /\ k # 0 /\ j - 1 \in Nat /\ k - 1 \in Nat /\ j - 1 >= i - 1 /\ k - 1 >= i - 1
      BY <2>1, <2>7
    <3>2. older[j] = older[k]
      BY <2>1, <2>3, <2>7
    <3>3. older[j - 1] = older[k - 1]
      BY <2>3, <3>1
    <3> QED BY <2>6, <3>1, <3>2, <3>3
  <2>8. ASSUME NEW k \in Nat, NEW all \in Nat, k # 0, all >= i, W[i][k] # <<>>
        PROVE  GoesOn(l, exclude, i, W[i][k], all)
    <3>1. all # 0 /\ all - 1 \in Nat /\ all - 1 >= i - 1 /\ all >= i - 1 /\ k - 1 \in Nat
      BY <2>1, <2>8
    <3>2. CASE l[i].kind \in exclude
      <4>1. W[i][k] = older[k] /\ W[i][all] = older[all]
        BY <2>6, <2>8, <3>1, <3>2
      <4>2. GoesOn(l, exclude, i - 1, older[k], all)
        BY <2>4, <2>8, <3>1, <4>1
      <4> QED BY <2>1, <4>1, <4>2 DEF GoesOn, older
    <3>3. CASE l[i].kind \notin exclude
      <4> DEFINE p == older[k - 1]
      <4>1. W[i][k] = <<i>> \o p /\ W[i][all] = <<i>> \o older[all - 1]
        BY <2>6, <2>8, <3>1, <3>3
      <4>2. older[all - 1] = older[all]
        BY <2>3, <3>1
      <4>3. p \in Page
        BY <2>1, <3>1
      <4>4. CASE p = <<>>
        <5>1. W[i][k] = <<i>> /\ <<i>>[Len(<<i>>)] = i
          BY <4>1, <4>4
        <5>2. <<i>> \o W[i - 1][all] = W[i][all]
          BY <4>1, <4>2 DEF older
        <5> HIDE DEF W
        <5>3. LET last == W[i][k][Len(W[i][k])] IN last \in 1 .. i /\ W[i][k] \o W[last - 1][all] = W[i][all]
          BY <2>1, <5>1, <5>2
        <5> QED BY <5>3 DEF GoesOn, W
      <4>5. CASE p # <<>>
        <5>1. k - 1 # 0
          BY <2>5, <4>5
        <5>2. GoesOn(l, exclude, i - 1, p, all)
          BY <2>4, <3>1, <4>5, <5>1
        <5> DEFINE m == p[Len(p)]
                   rest == W[m - 1][all]
        <5>3. m \in 1 .. i - 1 /\ p \o rest = older[all]
          BY <5>2 DEF GoesOn, older
        <5>4. rest \in Page
          BY <2>1, <2>2, <5>3
        <5> HIDE DEF p, rest, m
        <5>5. (<<i>> \o p)[Len(<<i>> \o p)] = m
          BY <2>1, <4>3, <4>5, InFront DEF m
        <5>6. (<<i>> \o p) \o rest = <<i>> \o (p \o rest)
          BY <2>1, <4>3, <5>4, InFront
        <5>7. (<<i>> \o p) \o rest = W[i][all]
          BY <4>1, <4>2, <5>3, <5>6
        <5>8. m \in 1 .. i
          BY <2>1, <5>3
        <5> HIDE DEF W
        <5>9. LET last == W[i][k][Len(W[i][k])] IN last \in 1 .. i /\ W[i][k] \o W[last - 1][all] = W[i][all]
          BY <4>1, <5>5, <5>7, <5>8 DEF rest
        <5> QED BY <5>9 DEF GoesOn, W
      <4> QED BY <4>4, <4>5
    <3> QED BY <3>2, <3>3
  <2> QED BY <2>1, <2>7, <2>8 DEF Tiles, GoesOn
<1> HIDE DEF S
<1>4. 0 .. Len(l) \subseteq S
  BY <1>1, <1>2, <1>3, BoundedInduction
<1> QED BY <1>4 DEF S

\* Pages of any size, of a log of any length, whatever kinds are left out and whatever is
\* recorded between two pages: the next page starts where the last one ended.
THEOREM PagingTiles ==
  ASSUME NEW l \in Log, NEW n \in 0 .. Len(l), NEW size \in Nat \ {0}, NEW exclude
  PROVE  LET older == SubSeq(l, 1, n)
             page == ListSnapshots(older, 0, exclude, size)
             rest == ListSnapshots(l, page[Len(page)], exclude, Len(l))
         IN page # <<>> => page \o rest = ListSnapshots(older, 0, exclude, Len(l))
<1> DEFINE W == ListWalk(l, exclude)
           older == SubSeq(l, 1, n)
           page == ListSnapshots(older, 0, exclude, size)
           last == page[Len(page)]
<1>1. Len(l) \in Nat /\ n \in Nat /\ n <= Len(l)
  BY DEF Log
<1>2. \A k \in Nat : ListSnapshots(older, 0, exclude, k) = W[n][k]
  BY <1>1, ListWalkOfPrefix DEF ListSnapshots
<1>3. page = W[n][size]
  BY <1>2
<1>4. page # <<>> => last \in 1 .. n /\ page \o W[last - 1][Len(l)] = W[n][Len(l)]
  <2>1. Tiles(l, exclude, n)
    BY PagesOfAWalkTile
  <2>2. LET p == W[n][size]
            m == p[Len(p)]
        IN p # <<>> => m \in 1 .. n /\ p \o W[m - 1][Len(l)] = W[n][Len(l)]
    BY <1>1, <2>1 DEF Tiles
  <2> HIDE DEF W, page
  <2> QED BY <1>3, <2>2
<1>5. \A m \in 1 .. n : ListSnapshots(l, m, exclude, Len(l)) = W[m - 1][Len(l)]
  BY <1>1 DEF ListSnapshots
<1> HIDE DEF page, W, older
<1> QED BY <1>1, <1>2, <1>4, <1>5 DEF page, older

THEOREM PagesSafe == Spec => []PagesTile
<1>1. LogInv => PagesTile
  <2> SUFFICES ASSUME LogInv, NEW n \in 0 .. Len(log), NEW size \in 1 .. 2,
                      NEW exclude \in {{}, {"undo", "redo"}}
               PROVE  LET older == SubSeq(log, 1, n)
                          page == ListSnapshots(older, 0, exclude, size)
                          rest == ListSnapshots(log, page[Len(page)], exclude, Len(log))
                      IN page # <<>> => page \o rest = ListSnapshots(older, 0, exclude, Len(log))
    BY DEF PagesTile
  <2>1. log \in Log /\ size \in Nat \ {0}
    BY DEF LogInv, TypeOK, Log, Entry
  <2> QED BY <2>1, PagingTiles
<1> QED BY <1>1, LogInvariance, PTL
-----------------------------------------------------------------------------
(* Undo and redo of a single program.                                        *)

\* The stacks as they are.
Top == Stacks(log)[Len(log)]

\* Nothing is prepared while the guard is free, and a redo in the log had an undo to redo.
\* While a selected target waits nobody works, so that it is still the one to restore.
SelectionsHold ==
  \A c \in Client : sel[c] # NotSelected => holder = Nobody /\ sel[c].target = Target(sel[c].kind)

SoloInv ==
  /\ LogInv
  /\ RedosFindUndos(log)
  /\ holder = Nobody => before = NoState
  /\ SelectionsHold

OneProgram == \A c, d \in Client : c = d

\* A snapshot more does its step to the stacks and leaves the earlier ones as they are.
LEMMA StacksOfAppend ==
  ASSUME NEW l \in Log, NEW x \in Entry
  PROVE  /\ \A n \in 0 .. Len(l) : Stacks(Append(l, x))[n] = Stacks(l)[n]
         /\ Stacks(Append(l, x))[Len(Append(l, x))] = StacksStep(x, Stacks(l)[Len(l)])
<1> DEFINE more == Append(l, x)
           S == {n \in 0 .. Len(l) : Stacks(more)[n] = Stacks(l)[n]}
<1>1. /\ Len(l) \in Nat /\ more \in Log /\ Len(more) = Len(l) + 1
      /\ \A i \in 1 .. Len(l) : more[i] = l[i]
      /\ more[Len(l) + 1] = x
  BY DEF Log
<1> HIDE DEF more
<1>2. 0 \in S
  BY <1>1, StacksUnfold
<1>3. ASSUME NEW i \in 1 .. Len(l), i - 1 \in S PROVE i \in S
  <2>1. Stacks(more)[i] = StacksStep(l[i], Stacks(l)[i - 1])
    BY <1>1, <1>3, StacksUnfold
  <2> QED BY <1>1, <2>1, StacksUnfold
<1> HIDE DEF S
<1>4. 0 .. Len(l) \subseteq S
  BY <1>1, <1>2, <1>3, BoundedInduction
<1>5. \A n \in 0 .. Len(l) : Stacks(more)[n] = Stacks(l)[n]
  BY <1>4 DEF S
<1>6. Stacks(more)[Len(more)] = StacksStep(x, Stacks(l)[Len(l)])
  <2>1. Len(more) \in 1 .. Len(more) /\ Len(more) - 1 = Len(l) /\ Len(l) \in 0 .. Len(l)
    BY <1>1
  <2>2. Stacks(more)[Len(more)] = StacksStep(more[Len(more)], Stacks(more)[Len(more) - 1])
    BY <1>1, <2>1, StacksUnfold
  <2> QED BY <1>1, <1>5, <2>1, <2>2
<1> QED BY <1>5, <1>6 DEF more

\* The snapshot to undo captured what is on top of the past, the one to redo what is on
\* top of the future.
LEMMA TargetsAreOnTop ==
  ASSUME LogInv, RedosFindUndos(log)
  PROVE  /\ UndoTarget(log) # 0 => /\ Len(Top.past) # 0
                                   /\ log[UndoTarget(log)].state = Top.past[Len(Top.past)]
         /\ RedoTarget(log) # 0 => /\ Len(Top.future) # 0
                                   /\ log[RedoTarget(log)].state = Top.future[Len(Top.future)]
<1>1. log \in Log
  BY DEF LogInv, TypeOK, Log, Entry
<1>2. Len(log) \in 0 .. Len(log)
  BY <1>1 DEF Log
<1>3. Top \in StacksRecord
  BY <1>1, <1>2, StacksUnfold DEF Top
<1>4. Len(Top.past) \in Nat /\ Len(Top.future) \in Nat
  BY <1>3 DEF StacksRecord
<1>5. UndoFinds(log, Len(log), 0)
  BY <1>1, <1>2, UndoWalkFinds
<1>6. RedoFinds(log, Len(log), 0)
  BY <1>1, <1>2, RedoWalkFinds
<1>7. /\ IF 0 < Len(Top.past) THEN log[UndoTarget(log)].state = Nth(Top.past, 0) ELSE UndoTarget(log) = 0
      /\ 0 < Len(Top.future) => log[RedoTarget(log)].state = Nth(Top.future, 0)
      /\ 0 = Len(Top.future) => RedoTarget(log) = 0
  BY <1>5, <1>6 DEF UndoFinds, RedoFinds, UndoTarget, RedoTarget, Top
<1> QED BY <1>4, <1>7 DEF Nth

\* What a snapshot more does to the stacks as they are.
LEMMA CommitKeepsSolo ==
  ASSUME LogInv, RedosFindUndos(log), NEW kind \in OperationKind, NEW state \in State, NEW from \in Nat,
         CommitSnapshot(kind, state, from), kind = "redo" => Len(Top.future) # 0
  PROVE  RedosFindUndos(log)' /\ Top' = StacksStep(Snapshot(kind, state, from), Top)
<1> DEFINE x == Snapshot(kind, state, from)
<1>1. x \in Entry /\ x.kind = kind
  BY DEF Snapshot, Entry
<1>2. log \in Log /\ log' = Append(log, x)
  BY DEF LogInv, TypeOK, CommitSnapshot, Log, Entry
<1> HIDE DEF x
<1>3. Top' = StacksStep(x, Top)
  BY <1>1, <1>2, StacksOfAppend DEF Top
<1>4. /\ Len(log) \in Nat /\ Len(Append(log, x)) = Len(log) + 1
      /\ \A i \in 1 .. Len(log) : Append(log, x)[i] = log[i]
      /\ Append(log, x)[Len(log) + 1] = x
  BY <1>2 DEF Log
<1>5. ASSUME NEW i \in 1 .. Len(log) + 1, Append(log, x)[i].kind = "redo"
      PROVE  Stacks(Append(log, x))[i - 1].future # <<>>
  <2>1. Stacks(Append(log, x))[i - 1] = Stacks(log)[i - 1]
    BY <1>1, <1>2, <1>4, StacksOfAppend
  <2>2. CASE i = Len(log) + 1
    <3>1. Len(Top.future) # 0 /\ Stacks(log)[i - 1] = Top
      BY <1>1, <1>4, <1>5, <2>2 DEF Top
    <3> QED BY <2>1, <3>1
  <2>3. CASE i # Len(log) + 1
    <3>1. i \in 1 .. Len(log) /\ log[i].kind = "redo"
      BY <1>4, <1>5, <2>3
    <3> QED BY <2>1, <3>1 DEF RedosFindUndos
  <2> QED BY <2>2, <2>3
<1>6. RedosFindUndos(log')
  BY <1>2, <1>4, <1>5 DEF RedosFindUndos
<1> QED BY <1>3, <1>6 DEF RedosFindUndos, x
LEMMA SoloInvInit == Init => SoloInv
<1> SUFFICES ASSUME Init PROVE SoloInv
  OBVIOUS
<1>1. LogInv /\ Len(log) = 0
  BY LogInvInit DEF Init
<1>2. RedosFindUndos(log)
  BY <1>1 DEF RedosFindUndos
<1> QED BY <1>1, <1>2 DEF SoloInv, Init, SelectionsHold

\* A restore of what is on top, or of anything when its kind is restore.
LEMMA RestoreIsOne ==
  ASSUME SoloInv, NEW kind \in RestoreKind, NEW i \in 1 .. Len(log), RestoreSnapshot(kind, i),
         kind \in {"undo", "redo"} => i = Target(kind)
  PROVE  /\ RedosFindUndos(log)'
         /\ kind = "undo" => History!Undo
         /\ kind = "redo" => History!Redo
         /\ kind = "restore" => History!Restore
<1>1. LogInv /\ log \in Log /\ i \in Nat /\ i # 0 /\ repo \in State /\ kind \in OperationKind
  BY DEF SoloInv, LogInv, TypeOK, Log, Entry, OperationKind
<1>2. log[i] \in Entry
  BY <1>1 DEF Log
<1>3. /\ holder = Nobody /\ before = NoState /\ before' = before
      /\ repo' = log[i].state /\ CommitSnapshot(kind, repo, i)
  BY DEF RestoreSnapshot, SoloInv
<1>4. /\ kind = "undo" => Len(Top.past) # 0 /\ repo' = Top.past[Len(Top.past)]
      /\ kind = "redo" => Len(Top.future) # 0 /\ repo' = Top.future[Len(Top.future)]
  BY <1>1, <1>3, TargetsAreOnTop DEF Target, SoloInv
<1>5. RedosFindUndos(log)' /\ Top' = StacksStep(Snapshot(kind, repo, i), Top)
  BY <1>1, <1>3, <1>4, CommitKeepsSolo DEF SoloInv
<1>6. CASE kind = "undo"
  <2>1. /\ Top'.past = SubSeq(Top.past, 1, Len(Top.past) - 1)
        /\ Top'.future = Append(Top.future, repo)
    BY <1>5, <1>6 DEF StacksStep, Snapshot
  <2>2. Top.past # <<>>
    BY <1>4, <1>6
  <2> QED BY <1>3, <1>4, <1>5, <1>6, <2>1, <2>2
          DEF History!Undo, History!Last, History!Front, Top
<1>7. CASE kind = "redo"
  <2>1. /\ Top'.past = Append(Top.past, repo)
        /\ Top'.future = SubSeq(Top.future, 1, Len(Top.future) - 1)
    BY <1>5, <1>7 DEF StacksStep, Snapshot
  <2>2. Top.future # <<>>
    BY <1>4, <1>7
  <2> QED BY <1>3, <1>4, <1>5, <1>7, <2>1, <2>2
          DEF History!Redo, History!Last, History!Front, Top
<1>8. CASE kind = "restore"
  <2>1. Top'.past = Append(Top.past, repo) /\ Top'.future = <<>>
    BY <1>5, <1>8 DEF StacksStep, Snapshot
  <2>2. repo' \in State
    BY <1>2, <1>3 DEF Entry
  <2> QED BY <1>3, <1>5, <1>8, <2>1, <2>2 DEF History!Restore, History!Operate, Top
<1> QED BY <1>5, <1>6, <1>7, <1>8

\* An operation that leaves a snapshot.
LEMMA CommitIsOperate ==
  ASSUME SoloInv, NEW state \in State, CommitSnapshot("op", state, 0)
  PROVE  RedosFindUndos(log)' /\ History!Operate(state)
<1>1. RedosFindUndos(log)' /\ Top' = StacksStep(Snapshot("op", state, 0), Top)
  BY CommitKeepsSolo DEF SoloInv, OperationKind
<1>2. Top'.past = Append(Top.past, state) /\ Top'.future = <<>>
  BY <1>1 DEF StacksStep, Snapshot
<1> QED BY <1>1, <1>2 DEF History!Operate, Top

\* Every step of a single program is a step of the editor's history, or none of it.
LEMMA SoloStep ==
  ASSUME SoloInv, OneProgram, [Next]_vars
  PROVE  SoloInv' /\ [History!Next]_(History!vars)
<1> DEFINE Goal == /\ RedosFindUndos(log)' /\ (holder' = Nobody => before' = NoState) /\ SelectionsHold'
                   /\ [History!Next]_(History!vars)
<1>1. LogInv' /\ repo \in State /\ holder \in Client \cup {Nobody} /\ before \in State \cup {NoState}
  BY LogInvNext DEF SoloInv, LogInv, TypeOK
<1>2. log' = log => RedosFindUndos(log)' /\ Top' = Top
  BY DEF SoloInv, RedosFindUndos, Top
<1>3. log' = log /\ sel' = sel /\ (holder = Nobody => holder' = Nobody) => SelectionsHold'
  BY DEF SoloInv, SelectionsHold, Target
<1>4. (\A c \in Client : sel'[c] = NotSelected) => SelectionsHold'
  BY DEF SelectionsHold
<1>5. \A c, d \in Client : c = d
  BY DEF OneProgram
<1>6. ASSUME UNCHANGED vars PROVE Goal
  <2>1. UNCHANGED <<repo, log, holder, before, sel>>
    BY <1>6 DEF vars
  <2> QED BY <1>1, <1>2, <1>3, <2>1 DEF SoloInv, History!vars, Top
<1>7. ASSUME Drift PROVE Goal
  <2>1. History!Drift
    BY <1>2, <1>7 DEF Drift, History!Drift, Top
  <2> QED BY <1>1, <1>2, <1>3, <1>7, <2>1 DEF SoloInv, Drift, History!Next
<1>8. ASSUME NEW c \in Client, BeginOperation(c) PROVE Goal
  <2>1. History!Start
    BY <1>2, <1>8 DEF BeginOperation, Free, PrepareSnapshot, SoloInv, History!Start, Top
  <2>2. \A d \in Client : sel'[d] = NotSelected
    BY <1>5, <1>8 DEF BeginOperation, Free
  <2>3. holder' # Nobody
    BY <1>8, UndoRedoAssumption DEF BeginOperation
  <2> QED BY <1>2, <1>4, <1>8, <2>1, <2>2, <2>3 DEF BeginOperation, History!Next
<1>9. ASSUME NEW c \in Client, FinishOperation(c) PROVE Goal
  <2>1. holder' = Nobody /\ before' = NoState /\ sel' = sel /\ repo' \in State /\ holder = c
    BY <1>9 DEF FinishOperation
  <2>2. \A d \in Client : sel'[d] = NotSelected
    BY <2>1, UndoRedoAssumption DEF SoloInv, SelectionsHold
  <2>3. CASE before = NoState
    <3>1. log' = log
      BY <1>9, <2>3 DEF FinishOperation
    <3>2. History!Drift
      BY <1>2, <2>1, <2>3, <3>1 DEF History!Drift, Top
    <3> QED BY <1>2, <1>4, <2>1, <2>2, <3>1, <3>2 DEF History!Next
  <2>4. CASE before # NoState
    <3>1. CommitSnapshot("op", before, 0) /\ before \in State
      BY <1>1, <1>9, <2>4 DEF FinishOperation
    <3>2. RedosFindUndos(log)' /\ History!Operate(before)
      BY <3>1, CommitIsOperate
    <3>3. History!Finish
      BY <2>1, <2>4, <3>2 DEF History!Finish
    <3> QED BY <1>4, <2>1, <2>2, <3>2, <3>3 DEF History!Next
  <2> QED BY <2>3, <2>4
<1>10. ASSUME NEW c \in Client, FailOperation(c) PROVE Goal
  <2>1. History!Cancel
    BY <1>2, <1>10 DEF FailOperation, History!Cancel, Top
  <2> QED BY <1>2, <1>3, <1>10, <2>1 DEF FailOperation, History!Next
<1>11. ASSUME NEW c \in Client, CreateSnapshot(c) PROVE Goal
  <2>1. RedosFindUndos(log)' /\ History!Operate(repo)
    BY <1>1, <1>11, CommitIsOperate DEF CreateSnapshot
  <2>2. History!Record
    BY <1>11, <2>1 DEF CreateSnapshot, Free, SoloInv, History!Record
  <2>3. \A d \in Client : sel'[d] = NotSelected
    BY <1>5, <1>11 DEF CreateSnapshot, Free
  <2> QED BY <1>4, <1>11, <2>1, <2>2, <2>3 DEF CreateSnapshot, SoloInv, History!Next
<1>12. ASSUME NEW c \in Client, NEW kind \in {"undo", "redo"}, Select(c, kind) PROVE Goal
  <2>1. UNCHANGED <<repo, log, holder, before>> /\ holder # c
    BY <1>12 DEF Select
  <2>2. holder = Nobody
    BY <1>1, <1>5, <2>1
  <2>3. sel'[c].kind = kind /\ sel'[c].target = Target(kind)
    BY <1>12 DEF Select, SoloInv, LogInv, TypeOK
  <2>4. SelectionsHold'
    BY <1>5, <2>1, <2>2, <2>3 DEF SelectionsHold, Target
  <2>5. UNCHANGED History!vars
    BY <1>2, <2>1 DEF History!vars, Top
  <2> QED BY <1>2, <2>1, <2>4, <2>5 DEF SoloInv
<1>13. ASSUME NEW c \in Client, RestoreSelected(c) PROVE Goal
  <2> DEFINE kind == sel[c].kind
             i == sel[c].target
  <2>1. kind \in {"undo", "redo"} /\ i \in 1 .. Len(log) /\ i = Target(kind)
    BY <1>13 DEF RestoreSelected, SoloInv, LogInv, SelectionsAreThere, SelectionsHold
  <2>2. RestoreSnapshot(kind, i) /\ sel' = [sel EXCEPT ![c] = NotSelected]
    BY <1>13 DEF RestoreSelected
  <2> HIDE DEF kind, i
  <2>3. RedosFindUndos(log)' /\ (History!Undo \/ History!Redo)
    BY <2>1, <2>2, RestoreIsOne DEF RestoreKind
  <2>4. \A d \in Client : sel'[d] = NotSelected
    BY <1>5, <2>2 DEF SoloInv, LogInv, TypeOK
  <2> QED BY <1>4, <2>2, <2>3, <2>4 DEF RestoreSnapshot, SoloInv, History!Next
<1>14. ASSUME NEW c \in Client, RestoreExplicit(c) PROVE Goal
  <2>1. PICK i \in 1 .. Len(log) : RestoreSnapshot("restore", i)
    BY <1>14 DEF RestoreExplicit
  <2>2. RedosFindUndos(log)' /\ History!Restore
    BY <2>1, RestoreIsOne DEF RestoreKind
  <2>3. \A d \in Client : sel'[d] = NotSelected
    BY <1>5, <1>14 DEF RestoreExplicit
  <2> QED BY <1>4, <2>1, <2>2, <2>3 DEF RestoreSnapshot, SoloInv, History!Next
<1>15. ASSUME NEW c \in Client, Crash(c) PROVE Goal
  <2>1. UNCHANGED <<repo, log>> /\ sel' = [sel EXCEPT ![c] = NotSelected]
        /\ holder' = (IF holder = c THEN Nobody ELSE holder)
        /\ before' = (IF holder = c THEN NoState ELSE before)
    BY <1>15 DEF Crash
  <2>2. holder' = Nobody /\ before' = NoState
    BY <1>1, <1>5, <2>1 DEF SoloInv
  <2>3. \A d \in Client : sel'[d] = NotSelected
    BY <1>5, <2>1 DEF SoloInv, LogInv, TypeOK
  <2>4. History!Cancel
    BY <1>2, <2>1, <2>2 DEF History!Cancel, Top
  <2> QED BY <1>2, <1>4, <2>1, <2>2, <2>3, <2>4 DEF History!Next
<1>16. Goal
  <2> HIDE DEF Goal
  <2>1. UNCHANGED vars \/ Next
    OBVIOUS
  <2> QED BY <2>1, <1>6, <1>7, <1>8, <1>9, <1>10, <1>11, <1>12, <1>13, <1>14, <1>15 DEF Next
<1> QED BY <1>1, <1>16 DEF SoloInv

\* What one program does to an append-only log of any length, with any operations, undos,
\* redos, explicit restores and crashes, is what the two stacks of an editor do.
THEOREM UndoRedoImplementsHistory ==
  ASSUME OneProgram
  PROVE  Spec => UndoHistorySpec
<1>1. Init => History!Init
  <2> SUFFICES ASSUME Init PROVE History!Init
    OBVIOUS
  <2>1. log = <<>> /\ Len(log) = 0 /\ log \in Log
    BY DEF Init, Log
  <2>2. Stacks(log)[Len(log)] = NoStacks
    BY <2>1, StacksUnfold
  <2> QED BY <2>2 DEF Init, History!Init, NoStacks
<1>2. SoloInv /\ [Next]_vars => SoloInv' /\ [History!Next]_(History!vars)
  BY SoloStep
<1> QED BY <1>1, <1>2, SoloInvInit, PTL DEF Spec, UndoHistorySpec, History!Spec
\* With one program the snapshot restored is the last one not undone yet, or the last undo:
\* it takes a second one to make a selection stale (the run UndoRedoRace).
THEOREM SoloRestoreIsLast ==
  ASSUME OneProgram
  PROVE  Spec => ImplicitRestoreIsLast
<1>1. SoloInv /\ [Next]_vars => SoloInv'
  BY SoloStep
<1>2. SoloInv => \A c \in Client : sel[c] # NotSelected => sel[c].target = Target(sel[c].kind)
  BY DEF SoloInv, SelectionsHold
<1>3. SoloInv /\ [Next]_vars =>
        [\A c \in Client :
           sel[c] # NotSelected /\ Len(log') > Len(log) /\ sel'[c] = NotSelected
             => sel[c].target = Target(sel[c].kind)]_vars
  BY <1>2
<1> QED BY <1>1, <1>3, SoloInvInit, PTL DEF Spec, ImplicitRestoreIsLast
==============================================================================
