-------------------------- MODULE Transaction_proofs --------------------------
(***************************************************************************)
(* Proofs about Transaction and the rebase engine under it, for any stacks *)
(* and any number of operations.                                           *)
(*                                                                         *)
(* The invariant is Standing: the graph is a Workspace, whatever           *)
(* operations rearranged it, and the commits in it are those the client    *)
(* has a name for.  A Workspace has edges without a cycle (Ranked) on      *)
(* which every stack is a line of its own (Lanes); an operation takes      *)
(* nodes out of their lines, puts them into others, adds and removes them, *)
(* and rewrites commits.  TypeOK follows.                                  *)
(*                                                                         *)
(* A rebase then picks every commit onto the parents it has now (Grown)    *)
(* and leaves the rest of the graph (Alike).  Since the commits of two     *)
(* stacks have no ancestor in common but the target, the parents of the    *)
(* workspace commit are merged from there, and it is that merge            *)
(* (IsMerged): WorkspaceIsItsStacks follows.  What update_mapping is told  *)
(* keeps the ids of the client leading to the commits that have become of  *)
(* theirs (Leads, Meant): IdsMeanTheirCommit follows.                      *)
(***************************************************************************)
EXTENDS Transaction, SequenceTheorems, Induction

-----------------------------------------------------------------------------
(* Picking a commit onto another one, and the mapping of commits.          *)

\* No file of a change is in the new parent already as the change would leave it.
Fresh(base, ours, theirs) == \A f \in Touched(base, theirs) : ours[f] # theirs[f]

(***************************************************************************)
(* A merge file by file: what a change touches becomes what the change     *)
(* says unless the new parent has it otherwise, and all else stays.        *)
(***************************************************************************)
LEMMA MergeAt ==
  ASSUME NEW base \in Tree, NEW ours \in Tree, NEW theirs \in Tree, NEW f \in File
  PROVE  /\ Merge(base, ours, theirs) \in Tree
         /\ base[f] # theirs[f] /\ ours[f] = base[f] => Merge(base, ours, theirs)[f] = theirs[f]
         /\ base[f] = theirs[f] \/ ours[f] # base[f] => Merge(base, ours, theirs)[f] = ours[f]
  BY DEF Merge, Touched, Tree

(***************************************************************************)
(* A change that does not clash with a fresh parent meets there the files  *)
(* as it had them.                                                         *)
(***************************************************************************)
LEMMA CleanIsUnchanged ==
  ASSUME NEW base, NEW ours, NEW theirs,
         Clashes(base, ours, theirs) = {}, Fresh(base, ours, theirs),
         NEW f \in Touched(base, theirs)
  PROVE  ours[f] = base[f]
  BY DEF Clashes, Fresh

(***************************************************************************)
(* cherry_pick keeps what a commit does: if nothing clashes and nothing of *)
(* it is in the new parent already, the commit changes its new parent in   *)
(* the same files, from the same into the same.                            *)
(***************************************************************************)
THEOREM PickKeepsPatch ==
  ASSUME NEW base \in Tree, NEW ours \in Tree, NEW theirs \in Tree,
         Clashes(base, ours, theirs) = {}, Fresh(base, ours, theirs)
  PROVE  Patch(ours, Merge(base, ours, theirs)) = Patch(base, theirs)
<1> DEFINE picked == Merge(base, ours, theirs)
<1>1. \A f \in Touched(base, theirs) : ours[f] = base[f] /\ picked[f] = theirs[f]
  <2> SUFFICES ASSUME NEW f \in Touched(base, theirs)
               PROVE  ours[f] = base[f] /\ picked[f] = theirs[f]
    OBVIOUS
  <2>1. f \in File /\ base[f] # theirs[f]
    BY DEF Touched
  <2>2. ours[f] = base[f]
    BY CleanIsUnchanged
  <2> QED BY <2>1, <2>2, MergeAt
<1>2. \A f \in File \ Touched(base, theirs) : picked[f] = ours[f]
  BY MergeAt DEF Touched
<1>3. Touched(ours, picked) = Touched(base, theirs)
  BY <1>1, <1>2 DEF Touched
<1> QED BY <1>1, <1>3 DEF Patch

(***************************************************************************)
(* Picking a commit onto one parent and then onto another is picking it    *)
(* onto the last at once, if the first pick was clean: the same tree, and  *)
(* the same files in conflict.  So the parents a commit had on the way     *)
(* through a transaction do not matter.                                    *)
(***************************************************************************)
THEOREM PicksCompose ==
  ASSUME NEW base \in Tree, NEW ours \in Tree, NEW theirs \in Tree, NEW last \in Tree,
         Clashes(base, ours, theirs) = {}, Fresh(base, ours, theirs)
  PROVE  /\ Merge(ours, last, Merge(base, ours, theirs)) = Merge(base, last, theirs)
         /\ Clashes(ours, last, Merge(base, ours, theirs)) = Clashes(base, last, theirs)
<1> DEFINE picked == Merge(base, ours, theirs)
<1>1. picked \in Tree
  BY DEF Merge, Tree
<1>2. \A f \in Touched(base, theirs) : ours[f] = base[f] /\ picked[f] = theirs[f]
  BY CleanIsUnchanged, MergeAt DEF Touched
<1>3. \A f \in File \ Touched(base, theirs) : picked[f] = ours[f]
  BY MergeAt DEF Touched
<1>4. Touched(ours, picked) = Touched(base, theirs)
  BY <1>2, <1>3 DEF Touched
<1>5. Merge(ours, last, picked) = Merge(base, last, theirs)
  BY <1>2, <1>4, Zenon DEF Merge, Touched
<1>6. Clashes(ours, last, picked) = Clashes(base, last, theirs)
  BY <1>2, <1>4 DEF Clashes, Touched
<1> QED BY <1>5, <1>6

(***************************************************************************)
(* A commit that is moved away and back is what it was.                    *)
(***************************************************************************)
THEOREM ThereAndBack ==
  ASSUME NEW base \in Tree, NEW ours \in Tree, NEW theirs \in Tree,
         Clashes(base, ours, theirs) = {}, Fresh(base, ours, theirs)
  PROVE  Merge(ours, base, Merge(base, ours, theirs)) = theirs
<1>1. Merge(base, base, theirs) = theirs
  BY DEF Merge, Touched, Tree
<1> QED BY <1>1, PicksCompose

(***************************************************************************)
(* merged_tree_from_commits gives the stacks together the same tree in     *)
(* whatever order two of them come, and finds the same conflicts.          *)
(***************************************************************************)
THEOREM MergeIsSymmetric ==
  ASSUME NEW base \in Tree, NEW ours \in Tree, NEW theirs \in Tree,
         Clashes(base, ours, theirs) = {}
  PROVE  /\ Clashes(base, theirs, ours) = {}
         /\ Merge(base, theirs, ours) = Merge(base, ours, theirs)
<1>1. \A f \in File : base[f] = ours[f] \/ base[f] = theirs[f] \/ ours[f] = theirs[f]
  BY DEF Clashes, Touched
<1> QED BY <1>1 DEF Clashes, Merge, Touched

(***************************************************************************)
(* move_changes_between_commits: the source loses just what it did to the  *)
(* file, and the target, whatever else it does, gets just what the source  *)
(* made of it.                                                             *)
(***************************************************************************)
THEOREM MovedChangeArrives ==
  ASSUME NEW before \in Tree, NEW source \in Tree, NEW target \in Tree, NEW file \in File,
         source[file] # before[file]
  PROVE  LET without == [source EXCEPT ![file] = before[file]]
         IN /\ Patch(before, without) = [f \in Touched(before, source) \ {file} |-> <<before[f], source[f]>>]
            /\ Merge(without, source, target) = [target EXCEPT ![file] = source[file]]
            /\ Clashes(without, source, target) = {} =>
                 target[file] \in {before[file], source[file]}
<1> DEFINE without == [source EXCEPT ![file] = before[file]]
<1>1. without[file] = before[file] /\ \A f \in File \ {file} : without[f] = source[f]
  BY DEF Tree
<1>2. Touched(before, without) = Touched(before, source) \ {file}
  BY <1>1 DEF Touched
<1>3. Patch(before, without) = [f \in Touched(before, source) \ {file} |-> <<before[f], source[f]>>]
  BY <1>1, <1>2 DEF Patch, Touched
<1>4. Merge(without, source, target) = [target EXCEPT ![file] = source[file]]
  <2>1. \A f \in File : Merge(without, source, target)[f] =
                         IF f = file THEN source[file] ELSE target[f]
    BY <1>1 DEF Merge, Touched
  <2> QED BY <2>1 DEF Merge, Tree
<1>5. Clashes(without, source, target) = {} => target[file] \in {before[file], source[file]}
  BY <1>1 DEF Clashes, Touched
<1> QED BY <1>3, <1>4, <1>5

-----------------------------------------------------------------------------
\* No two commits are mapped to one.
OneToOne(h) ==
  \A c, d \in DOMAIN h : h[c] = h[d] => c = d

(***************************************************************************)
(* No original is ever mapped to two commits, so that commit_mappings,     *)
(* which turns the history round, loses none: as long as a rewritten       *)
(* commit is new, and none is rewritten that the session has not seen      *)
(* since it stopped being what it was.  (commit_amend, which does not note *)
(* its commit, and untracked picks are why the second is asked for.)       *)
(***************************************************************************)
THEOREM MappingsStayOneToOne ==
  ASSUME NEW h, NEW from, NEW to, OneToOne(h),
         from # to => to \notin DOMAIN h,
         from \in DOMAIN h \/ \A c \in DOMAIN h : h[c] # from
  PROVE  OneToOne(UpdateMapping(h, from, to))
<1> DEFINE new == UpdateMapping(h, from, to)
           old == IF from \in DOMAIN h THEN h[from] ELSE from
<1> HIDE DEF new, old
<1>1. \A c \in DOMAIN h \ {from, to} : new[c] = h[c] /\ h[c] # old
  <2> SUFFICES ASSUME NEW c \in DOMAIN h \ {from, to}
               PROVE  new[c] = h[c] /\ h[c] # old
    OBVIOUS
  <2>1. new[c] = h[c]
    BY DEF new, UpdateMapping
  <2>2. CASE from \in DOMAIN h
    BY <2>1, <2>2 DEF OneToOne, old
  <2>3. CASE from \notin DOMAIN h
    BY <2>1, <2>3 DEF old
  <2> QED BY <2>2, <2>3
<1>2. DOMAIN new = (DOMAIN h \ {from, to}) \cup {to} /\ new[to] = old
  <2>1. DOMAIN new = (DOMAIN h \ {from}) \cup {to}
    BY DEF new, UpdateMapping
  <2>2. new[to] = old
    BY DEF new, old, UpdateMapping
  <2> QED BY <2>1, <2>2
<1>3. SUFFICES ASSUME NEW c \in DOMAIN new, NEW d \in DOMAIN new, new[c] = new[d]
               PROVE  c = d
  BY DEF OneToOne, new
<1>4. CASE c = to \/ d = to
  BY <1>1, <1>2, <1>3, <1>4
<1>5. CASE c # to /\ d # to
  BY <1>1, <1>2, <1>3, <1>5 DEF OneToOne
<1> QED BY <1>4, <1>5

(***************************************************************************)
(* The id a client had leads to what the commit has become, and nowhere    *)
(* else.                                                                   *)
(***************************************************************************)
THEOREM MappedToTheLast ==
  ASSUME NEW h, NEW from, NEW to, NEW id, OneToOne(h),
         from # to, to \notin DOMAIN h,
         from \in DOMAIN h, h[from] = id, to # id
  PROVE  MappedTo(UpdateMapping(h, from, to), id) = {to}
<1> DEFINE new == UpdateMapping(h, from, to)
<1>1. new[to] = id /\ to \in DOMAIN new
  BY DEF UpdateMapping
<1>2. \A d \in DOMAIN new : new[d] = id => d = to
  <2>1. OneToOne(new)
    BY MappingsStayOneToOne
  <2> QED BY <1>1, <2>1 DEF OneToOne
<1> QED BY <1>1, <1>2 DEF MappedTo

-----------------------------------------------------------------------------
(* Walks over the graph: the ordered parents of a node, and the picking order. *)

\* The parents of N nodes.
Parents(N) == [1 .. N -> Seq(1 .. N)]

\* The parents of N nodes are a sequence of N sequences of nodes.
LEMMA ParentsAre ==
  ASSUME NEW N \in Nat, NEW ps \in Parents(N)
  PROVE  /\ ps \in Seq(Seq(1 .. N)) /\ Len(ps) = N /\ DOMAIN ps = 1 .. N
         /\ \A n \in 1 .. N : ps[n] \in Seq(1 .. N)
  BY DEF Parents

\* The elements of a sequence over S are of S.
LEMMA ToSetOf ==
  ASSUME NEW S, NEW s \in Seq(S)
  PROVE  ToSet(s) \subseteq S
  BY DEF ToSet

\* The state of the walk of Through.
Trail(N, picks) == [todo : Seq(1 .. N), seen : SUBSET (1 .. N), out : Seq(picks)]

\* A step of collect_ordered_parents keeps the type of its state.
LEMMA ThroughStepTyped ==
  ASSUME NEW N \in Nat, NEW ps \in Parents(N), NEW picks \in SUBSET (1 .. N),
         NEW acc \in Trail(N, picks)
  PROVE  ThroughStep(ps, picks, acc) \in Trail(N, picks)
<1>1. /\ acc.todo \in Seq(1 .. N) /\ acc.seen \subseteq 1 .. N /\ acc.out \in Seq(picks)
      /\ acc = [todo |-> acc.todo, seen |-> acc.seen, out |-> acc.out]
  BY DEF Trail
<1>2. CASE acc.todo = <<>>
  BY <1>2 DEF ThroughStep
<1>3. CASE acc.todo # <<>>
  <2> DEFINE n == Head(acc.todo)
             rest == Tail(acc.todo)
  <2>1. n \in 1 .. N /\ rest \in Seq(1 .. N)
    BY <1>1, <1>3, HeadTailProperties
  <2>2. ps[n] \in Seq(1 .. N) /\ ToSet(ps[n]) \subseteq 1 .. N
    BY <2>1, ParentsAre, ToSetOf
  <2> HIDE DEF n, rest
  <2>3. CASE n \in picks
    <3>1. ThroughStep(ps, picks, acc) = [acc EXCEPT !.todo = rest, !.out = Append(acc.out, n)]
      BY <1>3, <2>3 DEF ThroughStep, n, rest
    <3>2. Append(acc.out, n) \in Seq(picks)
      BY <1>1, <2>3, AppendProperties
    <3> QED BY <1>1, <2>1, <3>1, <3>2 DEF Trail
  <2>4. CASE n \notin picks /\ ToSet(ps[n]) \subseteq acc.seen
    <3>1. ThroughStep(ps, picks, acc) = [acc EXCEPT !.todo = rest]
      BY <1>3, <2>4 DEF ThroughStep, n, rest
    <3> QED BY <1>1, <2>1, <3>1 DEF Trail
  <2>5. CASE n \notin picks /\ ~(ToSet(ps[n]) \subseteq acc.seen)
    <3>1. ThroughStep(ps, picks, acc) =
            [acc EXCEPT !.todo = ps[n] \o rest, !.seen = acc.seen \cup ToSet(ps[n])]
      BY <1>3, <2>5 DEF ThroughStep, n, rest
    <3>2. ps[n] \o rest \in Seq(1 .. N)
      BY <2>1, <2>2, ConcatProperties
    <3> QED BY <1>1, <2>2, <3>1, <3>2 DEF Trail
  <2> QED BY <2>3, <2>4, <2>5
<1> QED BY <1>2, <1>3

\* The walk of Through: what it starts from, its steps, and what it gives.
IsThrough(ps, picks, n, walk) ==
  /\ walk[0] = [todo |-> ps[n], seen |-> ToSet(ps[n]), out |-> <<>>]
  /\ \A k \in 1 .. Len(ps) : walk[k] = ThroughStep(ps, picks, walk[k - 1])
  /\ Through(ps, picks, n) = walk[Len(ps)].out

\* The walk of Through exists and is typed all along.
LEMMA ThroughIs ==
  ASSUME NEW N \in Nat, NEW ps \in Parents(N), NEW picks \in SUBSET (1 .. N), NEW n \in 1 .. N
  PROVE  \E walk \in [0 .. N -> Trail(N, picks)] : IsThrough(ps, picks, n, walk)
<1> DEFINE V == Trail(N, picks)
           first == [todo |-> ps[n], seen |-> ToSet(ps[n]), out |-> <<>>]
           step == [k \in 1 .. N |-> [acc \in V |-> ThroughStep(ps, picks, acc)]]
           walk == CHOOSE walk : walk = [k \in 0 .. Len(ps) |->
                      IF k = 0 THEN [todo |-> ps[n], seen |-> ToSet(ps[n]), out |-> <<>>]
                      ELSE ThroughStep(ps, picks, walk[k - 1])]
<1>1. Len(ps) = N /\ first \in V
  BY ParentsAre, ToSetOf DEF Trail
<1>2. step \in [1 .. N -> [V -> V]]
  BY ThroughStepTyped
<1>3. PICK g \in [0 .. N -> V] : IsRecursion(g, N, first, step)
  <2> HIDE DEF V, first, step
  <2> QED BY <1>1, <1>2, RecursionExists
<1>4. \A i \in 1 .. N : i - 1 \in 0 .. N /\ i # 0
  OBVIOUS
<1>5. g = [k \in 0 .. Len(ps) |->
             IF k = 0 THEN [todo |-> ps[n], seen |-> ToSet(ps[n]), out |-> <<>>]
             ELSE ThroughStep(ps, picks, g[k - 1])]
  <2>1. ASSUME NEW i \in 1 .. N PROVE g[i] = ThroughStep(ps, picks, g[i - 1])
    BY <1>3, <1>4 DEF IsRecursion
  <2>2. \A i \in 0 .. N : i = 0 \/ i \in 1 .. N
    OBVIOUS
  <2> QED BY <1>1, <1>3, <2>1, <2>2 DEF IsRecursion
<1>6. walk = [k \in 0 .. Len(ps) |->
                IF k = 0 THEN [todo |-> ps[n], seen |-> ToSet(ps[n]), out |-> <<>>]
                ELSE ThroughStep(ps, picks, walk[k - 1])]
  BY <1>5, Zenon
<1>7. Through(ps, picks, n) = walk[Len(ps)].out
  BY DEF Through
<1> HIDE DEF walk
<1>8. walk[0] = first /\ \A k \in 1 .. N : walk[k] = ThroughStep(ps, picks, walk[k - 1])
  BY <1>1, <1>4, <1>6
<1>9. 0 .. N \subseteq {k \in 0 .. N : walk[k] \in V}
  <2> DEFINE S == {k \in 0 .. N : walk[k] \in V}
  <2>1. 0 \in S
    BY <1>1, <1>8
  <2>2. \A i \in 1 .. N : i - 1 \in S => i \in S
    BY <1>4, <1>8, ThroughStepTyped, SMTT(40)
  <2> HIDE DEF S
  <2>3. 0 .. N \subseteq S
    BY <2>1, <2>2, BoundedInduction
  <2> QED BY <2>3 DEF S
<1>10. walk \in [0 .. N -> V]
  BY <1>1, <1>6, <1>9
<1> QED BY <1>1, <1>7, <1>8, <1>10 DEF IsThrough

\* collect_ordered_parents finds commits of the graph.
LEMMA ThroughTyped ==
  ASSUME NEW N \in Nat, NEW ps \in Parents(N), NEW picks \in SUBSET (1 .. N), NEW n \in 1 .. N
  PROVE  Through(ps, picks, n) \in Seq(picks)
<1>1. PICK walk \in [0 .. N -> Trail(N, picks)] : IsThrough(ps, picks, n, walk)
  BY ThroughIs
<1>2. Len(ps) = N
  BY ParentsAre
<1> QED BY <1>1, <1>2 DEF IsThrough, Trail

\* An order of nodes in which each comes once, and after its parents.
InOrder(N, ps, order) ==
  /\ order \in Seq(1 .. N)
  /\ \A i, j \in 1 .. Len(order) : order[i] = order[j] => i = j
  /\ \A i \in 1 .. Len(order) : \A p \in ToSet(ps[order[i]]) : \E j \in 1 .. i - 1 : order[j] = p

\* The graph has no cycle: every node ranks above its parents.
Ranked(N, ps, rank) ==
  /\ rank \in [1 .. N -> Nat]
  /\ \A n \in 1 .. N : \A p \in ToSet(ps[n]) : rank[p] < rank[n]

\* A set of numbers that is not empty has a least one, Min.
LEMMA MinIs ==
  ASSUME NEW S, S \subseteq Nat, S # {}
  PROVE  Min(S) \in S /\ \A x \in S : Min(S) <= x
  BY LeastNatural DEF Min

\* A node of least rank among those that are left is ready.
LEMMA SomeReady ==
  ASSUME NEW N \in Nat, NEW ps \in Parents(N), NEW rank, Ranked(N, ps, rank),
         NEW done \in Seq(1 .. N), Ready(ps, done) = {}
  PROVE  ToSet(done) = 1 .. N
<1>1. DOMAIN ps = 1 .. N /\ ToSet(done) \subseteq 1 .. N /\ \A n \in 1 .. N : ToSet(ps[n]) \subseteq 1 .. N
  BY ParentsAre, ToSetOf
<1> DEFINE left == (1 .. N) \ ToSet(done)
           T == {rank[n] : n \in left}
<1>2. SUFFICES ASSUME left # {} PROVE FALSE
  BY <1>1
<1>3. T \subseteq Nat /\ T # {}
  BY <1>2 DEF Ranked
<1>4. PICK r \in T : \A s \in T : r <= s
  BY <1>3, LeastNatural
<1>5. PICK n \in left : r = rank[n]
  OBVIOUS
<1>6. ASSUME NEW p \in ToSet(ps[n]) PROVE p \in ToSet(done)
  <2>1. p \in 1 .. N /\ n \in 1 .. N
    BY <1>1
  <2>2. rank[p] < rank[n] /\ rank[p] \in Nat /\ rank[n] \in Nat
    BY <2>1 DEF Ranked
  <2>3. SUFFICES ASSUME p \in left PROVE FALSE
    BY <2>1
  <2>4. rank[n] <= rank[p]
    BY <1>4, <1>5, <2>3
  <2> QED BY <2>2, <2>4
<1>7. n \in Ready(ps, done)
  BY <1>1, <1>6 DEF Ready
<1> QED BY <1>7

\* A node that is ready may be the next of the order, and is not in it yet.
LEMMA ReadyIs ==
  ASSUME NEW N \in Nat, NEW ps \in Parents(N), NEW done, InOrder(N, ps, done), Ready(ps, done) # {}
  PROVE  LET next == Append(done, Min(Ready(ps, done)))
         IN InOrder(N, ps, next) /\ Len(next) = Len(done) + 1
<1> DEFINE x == Min(Ready(ps, done))
           next == Append(done, x)
<1>1. x \in 1 .. N /\ x \notin ToSet(done) /\ ToSet(ps[x]) \subseteq ToSet(done)
  <2>1. Ready(ps, done) \subseteq Nat
    BY ParentsAre DEF Ready
  <2>2. x \in Ready(ps, done)
    BY <2>1, MinIs
  <2> QED BY <2>2, ParentsAre DEF Ready
<1>2. done \in Seq(1 .. N) /\ Len(done) \in Nat /\ DOMAIN done = 1 .. Len(done)
  BY DEF InOrder
<1> HIDE DEF x
<1>3. /\ next \in Seq(1 .. N) /\ Len(next) = Len(done) + 1
      /\ \A i \in 1 .. Len(done) : next[i] = done[i]
      /\ next[Len(done) + 1] = x
  BY <1>1, <1>2, AppendProperties
<1> HIDE DEF next
<1>4. ASSUME NEW i \in 1 .. Len(next), NEW j \in 1 .. Len(next), next[i] = next[j] PROVE i = j
  <2>1. \A k \in 1 .. Len(done) : done[k] # x
    BY <1>1, <1>2 DEF ToSet
  <2>2. \A k \in 1 .. Len(next) : k \in 1 .. Len(done) \/ k = Len(done) + 1
    BY <1>2, <1>3
  <2>3. CASE i \in 1 .. Len(done) /\ j \in 1 .. Len(done)
    BY <1>3, <1>4, <2>3 DEF InOrder
  <2> QED BY <1>3, <1>4, <2>1, <2>2, <2>3
<1>5. ASSUME NEW i \in 1 .. Len(next), NEW p \in ToSet(ps[next[i]])
      PROVE  \E j \in 1 .. i - 1 : next[j] = p
  <2>1. CASE i = Len(done) + 1
    <3>1. p \in ToSet(done)
      <4>1. next[i] = x
        BY <1>3, <2>1
      <4> QED BY <1>1, <1>5, <4>1
    <3>2. PICK j \in 1 .. Len(done) : done[j] = p
      BY <1>2, <3>1 DEF ToSet
    <3> QED BY <1>2, <1>3, <2>1, <3>2
  <2>2. CASE i \in 1 .. Len(done)
    <3>1. PICK j \in 1 .. i - 1 : done[j] = p
      BY <1>3, <1>5, <2>2 DEF InOrder
    <3>2. j \in 1 .. Len(done)
      BY <1>2, <2>2
    <3> QED BY <1>3, <3>1, <3>2
  <2> QED BY <1>2, <1>3, <2>1, <2>2
<1> QED BY <1>3, <1>4, <1>5 DEF InOrder, next, x

\* A step of the walk of PickingOrder.
OrderStep(ps, done) ==
  IF Ready(ps, done) = {} THEN done ELSE Append(done, Min(Ready(ps, done)))

\* order_steps_picking puts parents before children, no node twice, and, as the graph has no
\* cycle, leaves none out.
LEMMA OrderIs ==
  ASSUME NEW N \in Nat, NEW ps \in Parents(N)
  PROVE  /\ InOrder(N, ps, PickingOrder(ps))
         /\ \A rank : Ranked(N, ps, rank) => ToSet(PickingOrder(ps)) = 1 .. N
<1> DEFINE V == Seq(1 .. N)
           step == [k \in 1 .. N |-> [done \in V |-> OrderStep(ps, done)]]
           good == [k \in 0 .. N |-> {done \in V : InOrder(N, ps, done)}]
           walk == CHOOSE done : done = [k \in 0 .. Len(ps) |->
                      IF k = 0 THEN <<>>
                      ELSE LET ready == Ready(ps, done[k - 1])
                           IN IF ready = {} THEN done[k - 1] ELSE Append(done[k - 1], Min(ready))]
<1>1. Len(ps) = N /\ <<>> \in V /\ InOrder(N, ps, <<>>)
  BY ParentsAre DEF InOrder
<1>2. \A i \in 1 .. N : i - 1 \in 0 .. N /\ i \in 0 .. N /\ i # 0
  OBVIOUS
<1>3. ASSUME NEW done, InOrder(N, ps, done)
      PROVE  OrderStep(ps, done) \in V /\ InOrder(N, ps, OrderStep(ps, done))
  <2>1. CASE Ready(ps, done) = {}
    BY <1>3, <2>1 DEF OrderStep, InOrder
  <2>2. CASE Ready(ps, done) # {}
    <3>1. InOrder(N, ps, OrderStep(ps, done))
      BY <1>3, <2>2, ReadyIs DEF OrderStep
    <3> QED BY <3>1 DEF InOrder
  <2> QED BY <2>1, <2>2
<1>4. good \in [0 .. N -> SUBSET V] /\ <<>> \in good[0]
  BY <1>1
<1>5. \A i \in 1 .. N : \A v \in good[i - 1] : step[i][v] \in good[i]
  BY <1>2, <1>3
<1>6. PICK g \in [0 .. N -> V] : /\ IsRecursion(g, N, <<>>, step)
                                 /\ \A i \in 0 .. N : g[i] \in good[i]
  <2> HIDE DEF V, step, good
  <2> QED BY <1>4, <1>5, InvariantRecursion
<1>7. g = [k \in 0 .. Len(ps) |->
                      IF k = 0 THEN <<>>
                      ELSE LET ready == Ready(ps, g[k - 1])
                           IN IF ready = {} THEN g[k - 1] ELSE Append(g[k - 1], Min(ready))]
  <2>1. ASSUME NEW i \in 1 .. N PROVE g[i] = OrderStep(ps, g[i - 1])
    BY <1>2, <1>6 DEF IsRecursion
  <2>2. \A i \in 0 .. N : i = 0 \/ i \in 1 .. N
    OBVIOUS
  <2> QED BY <1>1, <1>6, <2>1, <2>2 DEF IsRecursion, OrderStep
<1>8. walk = [k \in 0 .. Len(ps) |->
                      IF k = 0 THEN <<>>
                      ELSE LET ready == Ready(ps, walk[k - 1])
                           IN IF ready = {} THEN walk[k - 1] ELSE Append(walk[k - 1], Min(ready))]
  BY <1>7, Zenon
<1>9. PickingOrder(ps) = walk[N]
  BY <1>1 DEF PickingOrder
<1> HIDE DEF walk
<1>10. walk[0] = <<>> /\ \A k \in 1 .. N : walk[k] = OrderStep(ps, walk[k - 1])
  <2>1. walk[0] = <<>>
    BY <1>1, <1>8
  <2>2. ASSUME NEW k \in 1 .. N PROVE walk[k] = OrderStep(ps, walk[k - 1])
    <3>1. k \in 0 .. Len(ps) /\ k # 0
      BY <1>1, <1>2
    <3> HIDE DEF OrderStep
    <3>2. walk[k] = LET ready == Ready(ps, walk[k - 1])
                    IN IF ready = {} THEN walk[k - 1] ELSE Append(walk[k - 1], Min(ready))
      BY <1>8, <3>1, Zenon
    <3> QED BY <3>2, Zenon DEF OrderStep
  <2> QED BY <2>1, <2>2
<1>11. 0 .. N \subseteq {k \in 0 .. N : InOrder(N, ps, walk[k])}
  <2> DEFINE S == {k \in 0 .. N : InOrder(N, ps, walk[k])}
  <2>1. 0 \in S
    BY <1>1, <1>10
  <2>2. \A i \in 1 .. N : i - 1 \in S => i \in S
    BY <1>2, <1>3, <1>10
  <2> HIDE DEF S
  <2>3. 0 .. N \subseteq S
    BY <2>1, <2>2, BoundedInduction
  <2> QED BY <2>3 DEF S
<1>12. ASSUME NEW rank, Ranked(N, ps, rank) PROVE ToSet(walk[N]) = 1 .. N
  <2> DEFINE All(k) == ToSet(walk[k]) = 1 .. N
             S == {k \in 0 .. N : Len(walk[k]) = k \/ All(k)}
  <2>1. 0 \in S
    BY <1>10
  <2>2. ASSUME NEW i \in 1 .. N, i - 1 \in S PROVE i \in S
    <3>1. InOrder(N, ps, walk[i - 1]) /\ walk[i - 1] \in Seq(1 .. N)
      BY <1>2, <1>11 DEF InOrder
    <3>2. CASE Ready(ps, walk[i - 1]) = {}
      <4>1. ToSet(walk[i - 1]) = 1 .. N
        BY <1>12, <3>1, <3>2, SomeReady
      <4>2. walk[i] = walk[i - 1]
        BY <1>10, <3>2 DEF OrderStep
      <4> QED BY <1>2, <4>1, <4>2
    <3>3. CASE Ready(ps, walk[i - 1]) # {}
      <4>1. ~All(i - 1)
        BY <3>3, ParentsAre DEF Ready
      <4>2. Len(walk[i - 1]) = i - 1
        BY <2>2, <4>1
      <4>3. Len(walk[i]) = Len(walk[i - 1]) + 1
        <5>1. Len(Append(walk[i - 1], Min(Ready(ps, walk[i - 1])))) = Len(walk[i - 1]) + 1
          BY <1>2, <3>1, <3>3, ReadyIs, Zenon
        <5>2. walk[i] = Append(walk[i - 1], Min(Ready(ps, walk[i - 1])))
          BY <1>10, <3>3, Zenon DEF OrderStep
        <5> QED BY <5>1, <5>2
      <4> QED BY <1>2, <4>2, <4>3
    <3> QED BY <3>2, <3>3
  <2>3. N \in S
    <3> HIDE DEF S
    <3>1. 0 .. N \subseteq S
      BY <2>1, <2>2, BoundedInduction
    <3> QED BY <3>1
  <2>4. InOrder(N, ps, walk[N])
    BY <1>11
  <2>5. ToSet(walk[N]) \subseteq 1 .. N
    BY <2>4, ToSetOf DEF InOrder
  <2>6. ASSUME Len(walk[N]) = N, NEW x \in 1 .. N, x \notin ToSet(walk[N]) PROVE FALSE
    <3> DEFINE T == (1 .. N) \ {x}
               f == walk[N]
    <3>1. IsFiniteSet(1 .. N) /\ Cardinality(1 .. N) = N
      BY FS_Interval
    <3>2. IsFiniteSet(T) /\ Cardinality(T) = N - 1
      BY <2>6, <3>1, FS_RemoveElement
    <3>3. f \in [1 .. N -> T]
      <4>1. f \in Seq(1 .. N) /\ Len(f) = N
        BY <2>4, <2>6 DEF InOrder
      <4>2. f \in [1 .. N -> 1 .. N]
        BY <4>1, LenProperties
      <4> HIDE DEF f
      <4>3. \A i \in 1 .. N : f[i] \in ToSet(f)
        <5>1. DOMAIN f = 1 .. N
          BY <4>2
        <5>2. ToSet(f) = {f[i] : i \in DOMAIN f}
          BY Zenon DEF ToSet
        <5> QED BY <5>1, <5>2, Zenon
      <4>4. x \notin ToSet(f)
        BY <2>6 DEF f
      <4>5. \A i \in 1 .. N : f[i] \in T
        BY <4>2, <4>3, <4>4
      <4> QED BY <4>2, <4>5
    <3>4. Cardinality(T) < Cardinality(1 .. N)
      BY <3>1, <3>2
    <3>5. \E i, j \in 1 .. N : i # j /\ f[i] = f[j]
      <4> HIDE DEF f, T
      <4> DEFINE K == 1 .. N
      <4>1. IsFiniteSet(K) /\ Cardinality(T) < Cardinality(K) /\ f \in [K -> T]
        BY <3>1, <3>3, <3>4
      <4> HIDE DEF K
      <4>2. \E i, j \in K : i # j /\ f[i] = f[j]
        BY <3>2, <4>1, FS_PigeonHole
      <4> QED BY <4>2 DEF K
    <3> QED BY <2>4, <2>6, <3>5 DEF InOrder
  <2> QED BY <2>3, <2>5, <2>6
<1> QED BY <1>9, <1>11, <1>12

-----------------------------------------------------------------------------
(* The edges of a workspace, and taking nodes out of them and putting them in. *)

\* Every node but the target on one line of stacks: the line of its parents.
Lanes(N, ps, w, lane) ==
  /\ lane \in [1 .. N -> Nat]
  /\ \A m \in (1 .. N) \ {w} : \A p \in ToSet(ps[m]) \ {1} : lane[p] = lane[m]
  /\ \A i, j \in DOMAIN ps[w] : lane[ps[w][i]] = lane[ps[w][j]] => i = j

\* The edges of a workspace: w is its commit, t its reference, the target is node 1.
Edges(N, ps, w, t) ==
  /\ N \in Nat /\ ps \in Parents(N)
  /\ w \in 2 .. N /\ t \in 2 .. N /\ w # t
  /\ ps[1] = <<>> /\ ps[w] # <<>> /\ ps[t] = <<w>> /\ 1 \notin ToSet(ps[w])
  /\ \A m \in (1 .. N) \ {w} : Len(ps[m]) <= 1
  /\ \A m \in 1 .. N : \A p \in ToSet(ps[m]) :
       (p = 1 \/ ps[p] # <<>>) /\ p # t /\ (p = w => m = t)

\* The edges of a workspace, with a rank and a line of stacks for every node.
Shape(N, ps, w, t) ==
  /\ Edges(N, ps, w, t)
  /\ \E rank : Ranked(N, ps, rank)
  /\ \E lane : Lanes(N, ps, w, lane)

\* The parents after Disconnect and after Insert.
Unlinked(ps, n) ==
  [m \in DOMAIN ps |-> CASE m = n -> <<>>
                         [] m # n /\ Contains(ps[m], n) -> ps[n]
                         [] OTHER -> ps[m]]
Linked(ps, n, anchor, side) ==
  [m \in DOMAIN ps |->
     IF side = "Above"
     THEN IF m = n THEN <<anchor>> ELSE ReplaceAll(ps[m], anchor, n)
     ELSE CASE m = n -> ps[anchor]
            [] m = anchor -> <<n>>
            [] OTHER -> ps[m]]

\* What is used of sequences and of their sets of elements.
LEMMA SeqFacts ==
  ASSUME NEW S, NEW s \in Seq(S)
  PROVE  /\ Len(s) \in Nat /\ DOMAIN s = 1 .. Len(s)
         /\ ToSet(s) \subseteq S /\ ToSet(s) = {s[i] : i \in 1 .. Len(s)}
         /\ \A e : Contains(s, e) <=> e \in ToSet(s)
         /\ s = <<>> <=> ToSet(s) = {}
         /\ Len(s) = 0 <=> s = <<>>
         /\ s # <<>> => \E e \in S : e \in ToSet(s)
<1>1. Len(s) \in Nat /\ DOMAIN s = 1 .. Len(s)
  OBVIOUS
<1>2. ToSet(s) \subseteq S /\ ToSet(s) = {s[i] : i \in 1 .. Len(s)}
  BY <1>1 DEF ToSet
<1>3. \A e : Contains(s, e) <=> e \in ToSet(s)
  BY <1>2 DEF Contains
<1>4. Len(s) = 0 <=> s = <<>>
  BY EmptySeq
<1>5. s = <<>> <=> ToSet(s) = {}
  <2>1. ASSUME s # <<>> PROVE s[1] \in ToSet(s)
    <3>1. 1 \in 1 .. Len(s)
      BY <1>1, <1>4, <2>1
    <3> QED BY <1>2, <3>1
  <2>2. ASSUME s = <<>> PROVE ToSet(s) = {}
    BY <1>2, <1>4, <2>2
  <2> QED BY <2>1, <2>2
<1>6. s # <<>> => \E e \in S : e \in ToSet(s)
  <2> HIDE DEF ToSet
  <2> QED BY <1>2, <1>5
<1> QED BY <1>1, <1>2, <1>3, <1>4, <1>5, <1>6

\* A sequence of one element.
LEMMA OneElement ==
  ASSUME NEW S, NEW x \in S
  PROVE  <<x>> \in Seq(S) /\ Len(<<x>>) = 1 /\ ToSet(<<x>>) = {x} /\ <<x>> # <<>>
  BY DEF ToSet

\* ReplaceAll keeps the length, and puts the new element only where the old one was.
LEMMA ReplacedAll ==
  ASSUME NEW S, NEW s \in Seq(S), NEW old, NEW new \in S
  PROVE  /\ ReplaceAll(s, old, new) \in Seq(S)
         /\ Len(ReplaceAll(s, old, new)) = Len(s)
         /\ ToSet(ReplaceAll(s, old, new)) \subseteq (ToSet(s) \ {old}) \cup {new}
         /\ old \notin ToSet(s) => ReplaceAll(s, old, new) = s
         /\ s # <<>> => ReplaceAll(s, old, new) # <<>>
         /\ new \in ToSet(ReplaceAll(s, old, new)) => new \in ToSet(s) \/ old \in ToSet(s)
<1> DEFINE r == ReplaceAll(s, old, new)
<1>1. Len(s) \in Nat /\ DOMAIN s = 1 .. Len(s) /\ ToSet(s) = {s[i] : i \in 1 .. Len(s)}
  BY SeqFacts
<1>2. /\ r \in Seq(S) /\ Len(r) = Len(s)
      /\ \A i \in 1 .. Len(s) : r[i] = IF s[i] = old THEN new ELSE s[i]
  BY <1>1 DEF ReplaceAll
<1> HIDE DEF r
<1>3. ToSet(r) = {r[i] : i \in 1 .. Len(s)}
  BY <1>2, SeqFacts
<1>4. old \notin ToSet(s) => r = s
  <2> SUFFICES ASSUME old \notin ToSet(s) PROVE r = s
    OBVIOUS
  <2>1. \A i \in 1 .. Len(s) : r[i] = s[i]
    BY <1>1, <1>2
  <2> QED BY <1>2, <2>1, SeqEqual
<1>5. s # <<>> => r # <<>>
  BY <1>1, <1>2, SeqFacts
<1> QED BY <1>1, <1>2, <1>3, <1>4, <1>5 DEF r

\* A node that is linked to others is not the target, or it has a parent of lower rank.
LEMMA EdgesAre ==
  ASSUME NEW N, NEW ps, NEW w, NEW t, Edges(N, ps, w, t)
  PROVE  /\ N \in Nat /\ ps \in Parents(N) /\ Len(ps) = N /\ DOMAIN ps = 1 .. N
         /\ w \in 1 .. N /\ t \in 1 .. N /\ 1 \in 1 .. N
         /\ \A n \in 1 .. N : ps[n] \in Seq(1 .. N) /\ ToSet(ps[n]) \subseteq 1 .. N
         /\ \A p \in ToSet(ps[t]) : p = w
<1>1. /\ N \in Nat /\ ps \in Parents(N) /\ w \in 1 .. N /\ t \in 1 .. N /\ 1 \in 1 .. N
  BY DEF Edges
<1>2. /\ Len(ps) = N /\ DOMAIN ps = 1 .. N
      /\ \A n \in 1 .. N : ps[n] \in Seq(1 .. N) /\ ToSet(ps[n]) \subseteq 1 .. N
  BY <1>1, ParentsAre, ToSetOf
<1>3. ToSet(ps[t]) = {w}
  BY <1>1, OneElement DEF Edges
<1> QED BY <1>1, <1>2, <1>3

\* A node other than the workspace commit has at most the one parent.
LEMMA OnlyParent ==
  ASSUME NEW N, NEW ps, NEW w, NEW t, Edges(N, ps, w, t),
         NEW n \in (1 .. N) \ {w}, NEW p \in ToSet(ps[n])
  PROVE  ps[n] = <<p>>
<1>1. ps[n] \in Seq(1 .. N)
  BY EdgesAre
<1>2. Len(ps[n]) \in Nat /\ Len(ps[n]) <= 1 /\ Len(ps[n]) # 0
  BY <1>1, SeqFacts, SMTT(40) DEF Edges
<1>3. Len(ps[n]) = 1
  <2>1. \A k \in Nat : k <= 1 /\ k # 0 => k = 1
    OBVIOUS
  <2> QED BY <1>2, <2>1
<1>4. p = ps[n][1]
  <2>1. ToSet(ps[n]) = {ps[n][i] : i \in 1 .. Len(ps[n])}
    BY <1>1, SeqFacts
  <2>2. 1 .. 1 = {1}
    OBVIOUS
  <2> QED BY <1>3, <2>1, <2>2
<1>5. ps[n] = <<ps[n][1]>>
  BY <1>1, <1>3
<1> QED BY <1>4, <1>5

\* Taking a commit out of its stack leaves the edges of a workspace, with the same ranks, and
\* no edge to or from the commit.
LEMMA UnlinkedEdges ==
  ASSUME NEW N, NEW ps, NEW w, NEW t, Edges(N, ps, w, t),
         NEW rank, Ranked(N, ps, rank),
         NEW n \in (1 .. N) \ {1, w, t}, n \notin ToSet(ps[w]), ps[n] # <<>>
  PROVE  /\ Edges(N, Unlinked(ps, n), w, t) /\ Ranked(N, Unlinked(ps, n), rank)
         /\ \A m \in 1 .. N : n \notin ToSet(Unlinked(ps, n)[m])
         /\ Unlinked(ps, n)[n] = <<>> /\ Unlinked(ps, n)[w] = ps[w]
         /\ \A m \in (1 .. N) \ {n} : ps[m] # <<>> => Unlinked(ps, n)[m] # <<>>
<1> DEFINE qs == Unlinked(ps, n)
<1>1. /\ N \in Nat /\ ps \in Parents(N) /\ Len(ps) = N /\ DOMAIN ps = 1 .. N
      /\ w \in 1 .. N /\ t \in 1 .. N /\ 1 \in 1 .. N
      /\ \A m \in 1 .. N : ps[m] \in Seq(1 .. N) /\ ToSet(ps[m]) \subseteq 1 .. N
  BY EdgesAre
<1>2. \A m \in 1 .. N : Contains(ps[m], n) <=> n \in ToSet(ps[m])
  BY <1>1, SeqFacts
<1>3. /\ qs \in Parents(N)
      /\ qs[n] = <<>>
      /\ \A m \in (1 .. N) \ {n} : n \in ToSet(ps[m]) => qs[m] = ps[n]
      /\ \A m \in (1 .. N) \ {n} : n \notin ToSet(ps[m]) => qs[m] = ps[m]
  <2>1. DOMAIN qs = 1 .. N
    BY <1>1 DEF Unlinked
  <2>2. /\ qs[n] = <<>>
        /\ \A m \in (1 .. N) \ {n} : n \in ToSet(ps[m]) => qs[m] = ps[n]
        /\ \A m \in (1 .. N) \ {n} : n \notin ToSet(ps[m]) => qs[m] = ps[m]
    BY <1>1, <1>2 DEF Unlinked
  <2>3. qs = [m \in 1 .. N |-> qs[m]]
    BY <1>1 DEF Unlinked
  <2>4. \A m \in 1 .. N : qs[m] \in Seq(1 .. N)
    <3>1. <<>> \in Seq(1 .. N)
      OBVIOUS
    <3> HIDE DEF qs
    <3> QED BY <1>1, <2>2, <3>1
  <2> HIDE DEF qs
  <2> QED BY <2>2, <2>3, <2>4 DEF Parents
<1> HIDE DEF qs
<1>4. ToSet(<<>>) = {}
  BY DEF ToSet
<1>5. n \notin ToSet(ps[n]) /\ \A p \in ToSet(ps[n]) : rank[p] < rank[n] /\ rank[p] \in Nat
  <2>1. \A p \in ToSet(ps[n]) : rank[p] < rank[n] /\ rank[p] \in Nat
    BY <1>1 DEF Ranked
  <2>2. rank[n] \in Nat /\ ~(rank[n] < rank[n])
    BY DEF Ranked
  <2> QED BY <2>1, <2>2
<1>6. Ranked(N, qs, rank)
  <2> SUFFICES ASSUME NEW m \in 1 .. N, NEW p \in ToSet(qs[m]) PROVE rank[p] < rank[m]
    BY DEF Ranked
  <2>1. rank[m] \in Nat /\ rank[n] \in Nat
    BY DEF Ranked
  <2>2. CASE m = n
    BY <1>3, <1>4, <2>2
  <2>3. CASE m # n /\ n \in ToSet(ps[m])
    <3>1. rank[p] < rank[n] /\ rank[p] \in Nat /\ rank[n] < rank[m]
      BY <1>3, <1>5, <2>3 DEF Ranked
    <3> QED BY <2>1, <3>1
  <2>4. CASE m # n /\ n \notin ToSet(ps[m])
    BY <1>3, <2>4 DEF Ranked
  <2> QED BY <2>2, <2>3, <2>4
<1>7. \A m \in 1 .. N : n \notin ToSet(qs[m])
  BY <1>3, <1>4, <1>5
<1>8. \A m \in (1 .. N) \ {n} : ps[m] # <<>> => qs[m] # <<>>
  BY <1>3
<1>9. qs[1] = <<>> /\ qs[w] = ps[w] /\ qs[t] = ps[t]
  <2>1. n \notin ToSet(ps[1])
    BY <1>4 DEF Edges
  <2>2. n \notin ToSet(ps[t])
    <3>1. \A p \in ToSet(ps[t]) : p = w
      BY EdgesAre
    <3> QED BY <3>1
  <2> QED BY <1>1, <1>3, <2>1, <2>2 DEF Edges
<1>10. \A m \in (1 .. N) \ {w} : Len(qs[m]) <= 1
  <2> SUFFICES ASSUME NEW m \in (1 .. N) \ {w} PROVE Len(qs[m]) <= 1
    OBVIOUS
  <2>1. qs[m] = <<>> \/ qs[m] = ps[n] \/ qs[m] = ps[m]
    BY <1>3
  <2>2. Len(<<>>) = 0 /\ Len(ps[n]) <= 1 /\ Len(ps[m]) <= 1
    BY DEF Edges
  <2> QED BY <2>1, <2>2
<1>11. \A m \in 1 .. N : \A p \in ToSet(qs[m]) : (p = 1 \/ qs[p] # <<>>) /\ p # t /\ (p = w => m = t)
  <2> SUFFICES ASSUME NEW m \in 1 .. N, NEW p \in ToSet(qs[m])
               PROVE  (p = 1 \/ qs[p] # <<>>) /\ p # t /\ (p = w => m = t)
    OBVIOUS
  <2>1. p # n
    BY <1>7
  <2>2. \E k \in 1 .. N : p \in ToSet(ps[k]) /\ (k = m \/ k = n)
    BY <1>3, <1>4
  <2>3. PICK k \in 1 .. N : p \in ToSet(ps[k]) /\ (k = m \/ k = n)
    BY <2>2
  <2>4. (p = 1 \/ ps[p] # <<>>) /\ p # t /\ (p = w => k = t)
    BY <2>3 DEF Edges
  <2>5. p \in 1 .. N
    BY <1>1, <2>3
  <2> QED BY <1>8, <2>1, <2>3, <2>4, <2>5
<1>12. Edges(N, qs, w, t)
  BY <1>3, <1>9, <1>10, <1>11 DEF Edges
<1> QED BY <1>3, <1>6, <1>7, <1>8, <1>9, <1>12 DEF qs

\* Taking a commit out of its stack leaves every other node on its line.
LEMMA UnlinkedLanes ==
  ASSUME NEW N, NEW ps, NEW w, NEW t, Edges(N, ps, w, t),
         NEW lane, Lanes(N, ps, w, lane),
         NEW n \in (1 .. N) \ {1, w, t}, n \notin ToSet(ps[w])
  PROVE  Lanes(N, Unlinked(ps, n), w, lane)
<1> DEFINE qs == Unlinked(ps, n)
<1>1. /\ DOMAIN ps = 1 .. N /\ w \in 1 .. N
      /\ \A m \in 1 .. N : ps[m] \in Seq(1 .. N) /\ ToSet(ps[m]) \subseteq 1 .. N
  BY EdgesAre
<1>2. \A m \in 1 .. N : Contains(ps[m], n) <=> n \in ToSet(ps[m])
  BY <1>1, SeqFacts
<1>3. /\ qs[n] = <<>>
      /\ \A m \in (1 .. N) \ {n} : n \in ToSet(ps[m]) => qs[m] = ps[n]
      /\ \A m \in (1 .. N) \ {n} : n \notin ToSet(ps[m]) => qs[m] = ps[m]
  BY <1>1, <1>2 DEF Unlinked
<1>4. qs[w] = ps[w]
  BY <1>1, <1>3
<1> HIDE DEF qs
<1>5. ToSet(<<>>) = {}
  BY DEF ToSet
<1>6. ASSUME NEW m \in (1 .. N) \ {w}, NEW p \in ToSet(qs[m]) \ {1} PROVE lane[p] = lane[m]
  <2>1. CASE m # n /\ n \in ToSet(ps[m])
    <3>1. lane[n] = lane[m] /\ lane[p] = lane[n]
      BY <1>3, <2>1 DEF Lanes
    <3> QED BY <3>1
  <2>2. CASE m # n /\ n \notin ToSet(ps[m])
    BY <1>3, <2>2 DEF Lanes
  <2> QED BY <1>3, <1>5, <2>1, <2>2
<1> QED BY <1>4, <1>6 DEF Lanes, qs

\* The ranks and the lanes once a loose node has been linked to an anchor.
NextRank(N, rank, n, anchor, side) ==
  [m \in 1 .. N |-> CASE m # n -> 2 * rank[m]
                      [] m = n /\ side = "Above" -> 2 * rank[anchor] + 1
                      [] OTHER -> 2 * rank[anchor] - 1]
NextLane(N, lane, n, anchor) ==
  [m \in 1 .. N |-> IF m = n THEN lane[anchor] ELSE lane[m]]

\* Where a loose node may be linked.
Spot(N, ps, w, t, n, anchor, side) ==
  /\ n \in (1 .. N) \ {1, w, t} /\ anchor \in (1 .. N) \ {1, n, w, t}
  /\ ps[n] = <<>> /\ ps[anchor] # <<>>
  /\ \A m \in 1 .. N : n \notin ToSet(ps[m])
  /\ side \in Sides
  /\ side = "Above" => anchor \notin ToSet(ps[w])

\* ReplaceAll changes nothing if there is nothing to replace.
LEMMA ReplacedNone ==
  ASSUME NEW S, NEW s \in Seq(S), NEW old, NEW new \in S, old \notin ToSet(s)
  PROVE  ReplaceAll(s, old, new) = s
  BY ReplacedAll

\* ReplaceAll keeps the length.
LEMMA ReplacedSize ==
  ASSUME NEW S, NEW s \in Seq(S), NEW old, NEW new \in S
  PROVE  /\ Len(ReplaceAll(s, old, new)) = Len(s)
         /\ s # <<>> => ReplaceAll(s, old, new) # <<>>
  BY ReplacedAll

\* Insert, edge by edge.
LEMMA LinkedIs ==
  ASSUME NEW N, NEW ps, NEW w, NEW t, Edges(N, ps, w, t),
         NEW n, NEW anchor, NEW side, Spot(N, ps, w, t, n, anchor, side)
  PROVE  /\ Linked(ps, n, anchor, side) \in Parents(N)
         /\ side = "Above" =>
              /\ Linked(ps, n, anchor, side)[n] = <<anchor>>
              /\ \A m \in (1 .. N) \ {n} :
                   Linked(ps, n, anchor, side)[m] = ReplaceAll(ps[m], anchor, n)
         /\ side # "Above" =>
              /\ Linked(ps, n, anchor, side)[n] = ps[anchor]
              /\ Linked(ps, n, anchor, side)[anchor] = <<n>>
              /\ \A m \in (1 .. N) \ {n, anchor} : Linked(ps, n, anchor, side)[m] = ps[m]
<1> DEFINE qs == Linked(ps, n, anchor, side)
<1>1. /\ N \in Nat /\ DOMAIN ps = 1 .. N /\ n \in 1 .. N /\ anchor \in 1 .. N /\ anchor # n
      /\ \A m \in 1 .. N : ps[m] \in Seq(1 .. N)
  BY EdgesAre DEF Spot
<1>2. qs = [m \in 1 .. N |-> qs[m]]
  BY <1>1 DEF Linked
<1>3. side = "Above" => /\ qs[n] = <<anchor>>
                        /\ \A m \in (1 .. N) \ {n} : qs[m] = ReplaceAll(ps[m], anchor, n)
  BY <1>1 DEF Linked
<1>4. side # "Above" => /\ qs[n] = ps[anchor] /\ qs[anchor] = <<n>>
                        /\ \A m \in (1 .. N) \ {n, anchor} : qs[m] = ps[m]
  BY <1>1 DEF Linked
<1> HIDE DEF qs
<1>5. <<anchor>> \in Seq(1 .. N) /\ <<n>> \in Seq(1 .. N)
  BY <1>1
<1>6. \A m \in 1 .. N : ReplaceAll(ps[m], anchor, n) \in Seq(1 .. N)
  BY <1>1, ReplacedAll
<1>7. \A m \in 1 .. N : qs[m] \in Seq(1 .. N)
  <2>1. CASE side = "Above"
    BY <1>3, <1>5, <1>6, <2>1
  <2>2. CASE side # "Above"
    BY <1>1, <1>4, <1>5, <2>2
  <2> QED BY <2>1, <2>2
<1> QED BY <1>2, <1>3, <1>4, <1>7 DEF Parents, qs

\* Whose parent a node is after it has been linked.
LEMMA LinkedParents ==
  ASSUME NEW N, NEW ps, NEW w, NEW t, Edges(N, ps, w, t),
         NEW n, NEW anchor, NEW side, Spot(N, ps, w, t, n, anchor, side),
         NEW m \in 1 .. N, NEW p \in ToSet(Linked(ps, n, anchor, side)[m])
  PROVE  \/ side = "Above" /\ m = n /\ p = anchor
         \/ side = "Above" /\ m # n /\ p = n /\ anchor \in ToSet(ps[m])
         \/ side # "Above" /\ m = n /\ p # n /\ p \in ToSet(ps[anchor])
         \/ side # "Above" /\ m = anchor /\ p = n
         \/ m # n /\ p # n /\ p \in ToSet(ps[m])
<1> DEFINE qs == Linked(ps, n, anchor, side)
<1>1. /\ N \in Nat /\ n \in 1 .. N /\ anchor \in 1 .. N /\ anchor # n
      /\ \A k \in 1 .. N : ps[k] \in Seq(1 .. N) /\ n \notin ToSet(ps[k])
  BY EdgesAre DEF Spot
<1>2. ToSet(<<anchor>>) = {anchor} /\ ToSet(<<n>>) = {n}
  BY <1>1, OneElement
<1>3. CASE side = "Above" /\ m = n
  BY <1>2, <1>3, LinkedIs
<1>4. CASE side = "Above" /\ m # n
  <2> DEFINE r == ReplaceAll(ps[m], anchor, n)
  <2>1. qs[m] = r
    BY <1>4, LinkedIs
  <2>2. /\ ToSet(r) \subseteq (ToSet(ps[m]) \ {anchor}) \cup {n}
        /\ n \in ToSet(r) => n \in ToSet(ps[m]) \/ anchor \in ToSet(ps[m])
    BY <1>1, ReplacedAll
  <2> HIDE DEF r
  <2> QED BY <1>1, <1>4, <2>1, <2>2
<1>5. CASE side # "Above" /\ m = n
  BY <1>1, <1>5, LinkedIs
<1>6. CASE side # "Above" /\ m = anchor
  BY <1>2, <1>6, LinkedIs
<1>7. CASE side # "Above" /\ m # n /\ m # anchor
  <2>1. qs[m] = ps[m]
    BY <1>7, LinkedIs
  <2> QED BY <1>1, <1>7, <2>1
<1>8. CASE side = "Above"
  BY <1>3, <1>4, <1>8
<1>9. CASE side # "Above"
  BY <1>5, <1>6, <1>7, <1>9
<1> QED BY <1>8, <1>9

\* Inserting a node changes neither the parents of the workspace commit nor those of its
\* reference and of the target, and takes its last parent from none.
LEMMA LinkedKeeps ==
  ASSUME NEW N, NEW ps, NEW w, NEW t, Edges(N, ps, w, t),
         NEW n, NEW anchor, NEW side, Spot(N, ps, w, t, n, anchor, side)
  PROVE  /\ Linked(ps, n, anchor, side)[w] = ps[w]
         /\ Linked(ps, n, anchor, side)[t] = ps[t]
         /\ Linked(ps, n, anchor, side)[1] = ps[1]
         /\ \A m \in 1 .. N : m = n \/ ps[m] # <<>> => Linked(ps, n, anchor, side)[m] # <<>>
         /\ \A m \in (1 .. N) \ {w} : Len(Linked(ps, n, anchor, side)[m]) <= 1
<1> DEFINE qs == Linked(ps, n, anchor, side)
<1>1. /\ N \in Nat /\ n \in 1 .. N /\ anchor \in 1 .. N /\ w \in 1 .. N /\ t \in 1 .. N /\ 1 \in 1 .. N
      /\ \A m \in 1 .. N : ps[m] \in Seq(1 .. N)
      /\ anchor # w /\ n \notin {1, w, t} /\ anchor \notin {1, w, t}
      /\ (\A p \in ToSet(ps[t]) : p = w) /\ ps[1] = <<>> /\ ps[anchor] # <<>>
      /\ \A m \in (1 .. N) \ {w} : Len(ps[m]) <= 1
  <2>1. /\ N \in Nat /\ w \in 1 .. N /\ t \in 1 .. N /\ 1 \in 1 .. N
        /\ \A m \in 1 .. N : ps[m] \in Seq(1 .. N)
        /\ \A p \in ToSet(ps[t]) : p = w
    BY EdgesAre
  <2>2. ps[1] = <<>> /\ \A m \in (1 .. N) \ {w} : Len(ps[m]) <= 1
    BY DEF Edges
  <2>3. /\ n \in 1 .. N /\ anchor \in 1 .. N /\ n \notin {1, w, t} /\ anchor \notin {1, w, t}
        /\ ps[anchor] # <<>>
    BY DEF Spot
  <2> QED BY <2>1, <2>2, <2>3
<1>2. Len(<<anchor>>) = 1 /\ Len(<<n>>) = 1 /\ <<anchor>> # <<>> /\ <<n>> # <<>>
  BY <1>1, OneElement
<1>3. CASE side = "Above"
  <2>1. anchor \notin ToSet(ps[w]) /\ anchor \notin ToSet(ps[t]) /\ anchor \notin ToSet(ps[1])
    BY <1>1, <1>3, SeqFacts DEF Spot
  <2>2. /\ ReplaceAll(ps[w], anchor, n) = ps[w]
        /\ ReplaceAll(ps[t], anchor, n) = ps[t]
        /\ ReplaceAll(ps[1], anchor, n) = ps[1]
    BY <1>1, <2>1, ReplacedNone
  <2>3. \A m \in 1 .. N : /\ ps[m] # <<>> => ReplaceAll(ps[m], anchor, n) # <<>>
                          /\ Len(ReplaceAll(ps[m], anchor, n)) = Len(ps[m])
    <3> SUFFICES ASSUME NEW m \in 1 .. N
                 PROVE  /\ ps[m] # <<>> => ReplaceAll(ps[m], anchor, n) # <<>>
                        /\ Len(ReplaceAll(ps[m], anchor, n)) = Len(ps[m])
      OBVIOUS
    <3>1. ps[m] \in Seq(1 .. N)
      BY <1>1
    <3>2. n \in 1 .. N
      BY <1>1
    <3> HIDE <1>1
    <3> QED BY <3>1, <3>2, ReplacedSize, Zenon
  <2>4. /\ qs[n] = <<anchor>>
        /\ \A m \in (1 .. N) \ {n} : qs[m] = ReplaceAll(ps[m], anchor, n)
    BY <1>3, LinkedIs
  <2> HIDE DEF qs
  <2>5. qs[w] = ps[w] /\ qs[t] = ps[t] /\ qs[1] = ps[1]
    BY <1>1, <2>2, <2>4
  <2>6. \A m \in 1 .. N : m = n \/ ps[m] # <<>> => qs[m] # <<>>
    BY <1>2, <2>3, <2>4
  <2>7. \A m \in (1 .. N) \ {w} : Len(qs[m]) <= 1
    <3> SUFFICES ASSUME NEW m \in (1 .. N) \ {w} PROVE Len(qs[m]) <= 1
      OBVIOUS
    <3>1. CASE m = n
      <4>1. qs[m] = <<anchor>>
        BY <2>4, <3>1
      <4> QED BY <1>2, <4>1
    <3>2. CASE m # n
      <4>1. Len(qs[m]) = Len(ps[m]) /\ Len(ps[m]) <= 1
        BY <1>1, <2>3, <2>4, <3>2
      <4> QED BY <4>1
    <3> QED BY <3>1, <3>2
  <2> QED BY <2>5, <2>6, <2>7 DEF qs
<1>4. CASE side # "Above"
  <2>1. /\ qs[n] = ps[anchor] /\ qs[anchor] = <<n>>
        /\ \A m \in (1 .. N) \ {n, anchor} : qs[m] = ps[m]
    BY <1>4, LinkedIs
  <2> HIDE DEF qs
  <2>2. qs[w] = ps[w] /\ qs[t] = ps[t] /\ qs[1] = ps[1]
    BY <1>1, <2>1
  <2>3. \A m \in 1 .. N : m = n \/ ps[m] # <<>> => qs[m] # <<>>
    BY <1>1, <1>2, <2>1
  <2>4. \A m \in (1 .. N) \ {w} : Len(qs[m]) <= 1
    <3> SUFFICES ASSUME NEW m \in (1 .. N) \ {w} PROVE Len(qs[m]) <= 1
      OBVIOUS
    <3>1. \/ qs[m] = ps[anchor] \/ qs[m] = <<n>> \/ qs[m] = ps[m]
      BY <2>1
    <3>2. Len(ps[anchor]) <= 1 /\ Len(ps[m]) <= 1 /\ Len(<<n>>) <= 1
      BY <1>1, <1>2
    <3> QED BY <3>1, <3>2
  <2> QED BY <2>2, <2>3, <2>4 DEF qs
<1> QED BY <1>3, <1>4

\* Inserting a loose node leaves the edges of a workspace.
LEMMA LinkedEdges ==
  ASSUME NEW N, NEW ps, NEW w, NEW t, Edges(N, ps, w, t),
         NEW n, NEW anchor, NEW side, Spot(N, ps, w, t, n, anchor, side)
  PROVE  Edges(N, Linked(ps, n, anchor, side), w, t)
<1> DEFINE qs == Linked(ps, n, anchor, side)
<1>1. /\ qs \in Parents(N) /\ qs[w] = ps[w] /\ qs[t] = ps[t] /\ qs[1] = ps[1]
      /\ \A m \in 1 .. N : m = n \/ ps[m] # <<>> => qs[m] # <<>>
      /\ \A m \in (1 .. N) \ {w} : Len(qs[m]) <= 1
  BY LinkedIs, LinkedKeeps
<1>2. \A m \in 1 .. N : \A p \in ToSet(qs[m]) : (p = 1 \/ qs[p] # <<>>) /\ p # t /\ (p = w => m = t)
  <2> SUFFICES ASSUME NEW m \in 1 .. N, NEW p \in ToSet(qs[m])
               PROVE  (p = 1 \/ qs[p] # <<>>) /\ p # t /\ (p = w => m = t)
    OBVIOUS
  <2>1. \/ p = n
        \/ p = anchor
        \/ p \in ToSet(ps[anchor])
        \/ p \in ToSet(ps[m])
    BY LinkedParents
  <2>2. /\ n \in 1 .. N /\ anchor \in 1 .. N /\ n \notin {1, w, t} /\ anchor \notin {1, w, t}
        /\ ps[anchor] # <<>> /\ \A k \in 1 .. N : ToSet(ps[k]) \subseteq 1 .. N
    BY EdgesAre DEF Spot
  <2> HIDE DEF qs
  <2>3. CASE p = n \/ p = anchor
    BY <1>1, <2>2, <2>3
  <2>4. CASE p \in ToSet(ps[anchor]) \/ p \in ToSet(ps[m])
    <3>1. PICK k \in {anchor, m} : p \in ToSet(ps[k])
      BY <2>4
    <3>2. k \in 1 .. N /\ p \in 1 .. N
      BY <2>2, <3>1
    <3>3. (p = 1 \/ ps[p] # <<>>) /\ p # t /\ (p = w => k = t)
      BY <3>1, <3>2 DEF Edges
    <3> QED BY <1>1, <2>2, <3>1, <3>2, <3>3
  <2> QED BY <2>1, <2>3, <2>4
<1> HIDE DEF qs
<1>3. qs[1] = <<>> /\ qs[w] # <<>> /\ qs[t] = <<w>> /\ 1 \notin ToSet(qs[w])
  BY <1>1 DEF Edges
<1>4. N \in Nat /\ w \in 2 .. N /\ t \in 2 .. N /\ w # t
  BY DEF Edges
<1> QED BY <1>1, <1>2, <1>3, <1>4 DEF Edges, qs

\* Inserting a loose node makes no cycle: the ranks are doubled, and the node ranks between.
LEMMA LinkedRanked ==
  ASSUME NEW N, NEW ps, NEW w, NEW t, Edges(N, ps, w, t),
         NEW rank, Ranked(N, ps, rank),
         NEW n, NEW anchor, NEW side, Spot(N, ps, w, t, n, anchor, side)
  PROVE  Ranked(N, Linked(ps, n, anchor, side), NextRank(N, rank, n, anchor, side))
<1> DEFINE qs == Linked(ps, n, anchor, side)
           next == NextRank(N, rank, n, anchor, side)
<1>1. /\ N \in Nat /\ n \in 1 .. N /\ anchor \in 1 .. N /\ n # anchor
      /\ \A k \in 1 .. N : ps[k] \in Seq(1 .. N) /\ ToSet(ps[k]) \subseteq 1 .. N
      /\ side \in Sides /\ ps[anchor] # <<>>
  BY EdgesAre DEF Spot
<1>2. \A k \in 1 .. N : rank[k] \in Nat
  BY DEF Ranked
<1>3. rank[anchor] # 0
  <2>1. PICK p \in 1 .. N : p \in ToSet(ps[anchor])
    BY <1>1, SeqFacts
  <2>2. rank[p] < rank[anchor] /\ rank[p] \in Nat
    BY <1>1, <1>2, <2>1 DEF Ranked
  <2> QED BY <2>2
<1>4. /\ next = [k \in 1 .. N |-> next[k]]
      /\ \A k \in (1 .. N) \ {n} : next[k] = 2 * rank[k]
      /\ side = "Above" => next[n] = 2 * rank[anchor] + 1
      /\ side # "Above" => next[n] = 2 * rank[anchor] - 1
  BY <1>1 DEF NextRank
<1> HIDE DEF next
<1>5. next \in [1 .. N -> Nat]
  <2>1. ASSUME NEW k \in 1 .. N PROVE next[k] \in Nat
    <3>1. rank[k] \in Nat /\ rank[anchor] \in Nat \ {0}
      BY <1>1, <1>2, <1>3
    <3>2. CASE k # n
      BY <1>4, <3>1, <3>2
    <3>3. CASE k = n
      BY <1>4, <3>1, <3>3
    <3> QED BY <3>2, <3>3
  <2> QED BY <1>4, <2>1
<1>6. ASSUME NEW m \in 1 .. N, NEW p \in ToSet(qs[m]) PROVE next[p] < next[m]
  <2>0. rank[anchor] \in Nat /\ rank[m] \in Nat
    BY <1>1, <1>2
  <2>1. CASE side = "Above" /\ m = n /\ p = anchor
    BY <1>1, <1>4, <2>0, <2>1
  <2>2. CASE side = "Above" /\ m # n /\ p = n /\ anchor \in ToSet(ps[m])
    <3>1. rank[anchor] < rank[m]
      BY <2>2 DEF Ranked
    <3> QED BY <1>4, <2>0, <2>2, <3>1
  <2>3. CASE side # "Above" /\ m = n /\ p # n /\ p \in ToSet(ps[anchor])
    <3>1. rank[p] < rank[anchor] /\ rank[p] \in Nat /\ p \in 1 .. N
      BY <1>1, <1>2, <2>3 DEF Ranked
    <3>2. next[p] = 2 * rank[p] /\ next[m] = 2 * rank[anchor] - 1
      BY <1>4, <2>3, <3>1
    <3> QED BY <2>0, <3>1, <3>2
  <2>4. CASE side # "Above" /\ m = anchor /\ p = n
    <3>1. next[p] = 2 * rank[anchor] - 1 /\ next[m] = 2 * rank[anchor]
      BY <1>1, <1>4, <2>4
    <3> QED BY <2>0, <3>1
  <2>5. CASE m # n /\ p # n /\ p \in ToSet(ps[m])
    <3>1. rank[p] < rank[m] /\ rank[p] \in Nat /\ p \in 1 .. N
      BY <1>1, <1>2, <2>5 DEF Ranked
    <3>2. next[p] = 2 * rank[p] /\ next[m] = 2 * rank[m]
      BY <1>4, <2>5, <3>1
    <3> QED BY <2>0, <3>1, <3>2
  <2> QED BY <2>1, <2>2, <2>3, <2>4, <2>5, LinkedParents
<1> QED BY <1>5, <1>6 DEF Ranked, qs, next

\* A node that is inserted is on the line of its anchor, and every other one stays on its own.
LEMMA LinkedLanes ==
  ASSUME NEW N, NEW ps, NEW w, NEW t, Edges(N, ps, w, t),
         NEW lane, Lanes(N, ps, w, lane),
         NEW n, NEW anchor, NEW side, Spot(N, ps, w, t, n, anchor, side)
  PROVE  Lanes(N, Linked(ps, n, anchor, side), w, NextLane(N, lane, n, anchor))
<1> DEFINE qs == Linked(ps, n, anchor, side)
           next == NextLane(N, lane, n, anchor)
<1>1. /\ N \in Nat /\ n \in 1 .. N /\ anchor \in 1 .. N /\ n # anchor /\ w \in 1 .. N
      /\ \A k \in 1 .. N : ps[k] \in Seq(1 .. N) /\ ToSet(ps[k]) \subseteq 1 .. N
      /\ \A k \in 1 .. N : n \notin ToSet(ps[k])
      /\ n \notin {1, w, t} /\ anchor \notin {1, w, t}
      /\ side = "Above" => anchor \notin ToSet(ps[w])
  BY EdgesAre DEF Spot
<1>2. /\ next \in [1 .. N -> Nat] /\ next[n] = lane[anchor]
      /\ \A k \in (1 .. N) \ {n} : next[k] = lane[k]
  BY <1>1 DEF NextLane, Lanes
<1> HIDE DEF next
<1>3. ASSUME NEW m \in (1 .. N) \ {w}, NEW p \in ToSet(qs[m]) \ {1} PROVE next[p] = next[m]
  <2>1. CASE side = "Above" /\ m = n /\ p = anchor
    BY <1>1, <1>2, <2>1
  <2>2. CASE side = "Above" /\ m # n /\ p = n /\ anchor \in ToSet(ps[m])
    <3>1. lane[anchor] = lane[m]
      BY <1>1, <2>2 DEF Lanes
    <3> QED BY <1>2, <2>2, <3>1
  <2>3. CASE side # "Above" /\ m = n /\ p # n /\ p \in ToSet(ps[anchor])
    <3>1. lane[p] = lane[anchor] /\ p \in 1 .. N
      BY <1>1, <1>3, <2>3 DEF Lanes
    <3> QED BY <1>2, <2>3, <3>1
  <2>4. CASE side # "Above" /\ m = anchor /\ p = n
    BY <1>1, <1>2, <2>4
  <2>5. CASE m # n /\ p # n /\ p \in ToSet(ps[m])
    <3>1. lane[p] = lane[m] /\ p \in 1 .. N
      BY <1>1, <1>3, <2>5 DEF Lanes
    <3> QED BY <1>2, <2>5, <3>1
  <2> QED BY <2>1, <2>2, <2>3, <2>4, <2>5, LinkedParents
<1>4. ASSUME NEW i \in DOMAIN qs[w], NEW j \in DOMAIN qs[w], next[qs[w][i]] = next[qs[w][j]]
      PROVE  i = j
  <2>1. qs[w] = ps[w]
    BY LinkedKeeps
  <2>2. ps[w][i] \in ToSet(ps[w]) /\ ps[w][j] \in ToSet(ps[w])
    BY <2>1 DEF ToSet
  <2>3. next[ps[w][i]] = lane[ps[w][i]] /\ next[ps[w][j]] = lane[ps[w][j]]
    BY <1>1, <1>2, <2>2
  <2> QED BY <1>4, <2>1, <2>3 DEF Lanes
<1> QED BY <1>2, <1>3, <1>4 DEF Lanes, qs, next

-----------------------------------------------------------------------------
(* A workspace: such edges, with a step for every node.                    *)

\* A commit, whose ancestors are those of its parents.
IsCommit(c) ==
  /\ c = [change |-> c.change, message |-> c.message, parents |-> c.parents, past |-> c.past,
          tree |-> c.tree, sides |-> c.sides]
  /\ c.past = Past(c.parents)

\* A step of the graph.
IsStep(s) ==
  \/ IsCommit(s.commit) /\ s \in {Pick(s.commit), UntrackedPick(s.commit)}
  \/ s = Reference(s.name)
  \/ s = NoStep

\* The steps of a workspace of N nodes.
Steps(N, st, w, t) ==
  /\ st \in Seq(ToSet(st)) /\ Len(st) = N
  /\ \A n \in 1 .. N : IsStep(st[n]) /\ (st[n] = Reference("workspace") <=> n = t)
  /\ st[1] = Pick(TargetCommit)
  /\ st[w].kind = "pick" /\ st[w].commit.change = "workspace"
  /\ \A m, n \in 1 .. N :
       st[m].kind = "pick" /\ st[n].kind = "pick" /\ st[m].commit.change = st[n].commit.change => m = n

\* A graph as the operations leave it, but for nodes that are loose meanwhile.
Workspace(g, w, t, loose) ==
  /\ g = [step |-> g.step, parents |-> g.parents]
  /\ Shape(Len(g.parents), g.parents, w, t)
  /\ Steps(Len(g.parents), g.step, w, t)
  /\ \A n \in ToSet(g.parents[w]) : g.step[n].kind # "pick"
  /\ \A n \in DOMAIN g.parents \ ({1} \cup loose) : g.step[n] = NoStep \/ g.parents[n] # <<>>

\* What the constructors of steps make.
LEMMA Kinds ==
  ASSUME NEW c, NEW name
  PROVE  /\ Pick(c).kind = "pick" /\ Pick(c).commit = c /\ Pick(c).tracked = TRUE
         /\ UntrackedPick(c).kind = "pick" /\ UntrackedPick(c).commit = c /\ UntrackedPick(c).tracked = FALSE
         /\ Reference(name).kind = "reference" /\ Reference(name).name = name
         /\ NoStep.kind = "none"
  BY DEF Pick, UntrackedPick, Reference, NoStep

\* A step is what its kind says.
LEMMA KindOf ==
  ASSUME NEW s, IsStep(s)
  PROVE  /\ s.kind \in {"pick", "reference", "none"}
         /\ s.kind = "pick" => IsCommit(s.commit) /\ s \in {Pick(s.commit), UntrackedPick(s.commit)}
         /\ s.kind = "reference" => s = Reference(s.name)
         /\ s.kind = "none" <=> s = NoStep
<1>1. CASE IsCommit(s.commit) /\ s \in {Pick(s.commit), UntrackedPick(s.commit)}
  <2>1. s.kind = "pick"
    <3>1. Pick(s.commit).kind = "pick" /\ UntrackedPick(s.commit).kind = "pick"
      BY Kinds
    <3> QED BY <1>1, <3>1
  <2>2. NoStep.kind # "pick"
    BY Kinds
  <2> QED BY <1>1, <2>1, <2>2
<1>2. CASE s = Reference(s.name)
  <2>1. s.kind = "reference"
    <3>1. Reference(s.name).kind = "reference"
      BY Kinds
    <3> QED BY <1>2, <3>1
  <2>2. NoStep.kind # "reference"
    BY Kinds
  <2> QED BY <1>2, <2>1, <2>2
<1>3. CASE s = NoStep
  <2>1. s.kind = "none"
    BY <1>3, Kinds
  <2> QED BY <1>3, <2>1
<1> QED BY <1>1, <1>2, <1>3 DEF IsStep

\* The types a workspace has, for citing.
LEMMA WorkspaceIs ==
  ASSUME NEW g, NEW w, NEW t, NEW loose, Workspace(g, w, t, loose)
  PROVE  LET N == Len(g.parents)
         IN /\ N \in Nat /\ g.parents \in Parents(N) /\ DOMAIN g.parents = 1 .. N
            /\ g.step \in Seq(ToSet(g.step)) /\ Len(g.step) = N /\ DOMAIN g.step = 1 .. N
            /\ Edges(N, g.parents, w, t) /\ Steps(N, g.step, w, t)
            /\ 1 \in 1 .. N /\ w \in 1 .. N /\ t \in 1 .. N
            /\ \A n \in 1 .. N : IsStep(g.step[n])
<1> DEFINE N == Len(g.parents)
<1>1. Edges(N, g.parents, w, t) /\ Steps(N, g.step, w, t)
  BY DEF Workspace, Shape
<1>2. /\ N \in Nat /\ g.parents \in Parents(N) /\ DOMAIN g.parents = 1 .. N
      /\ 1 \in 1 .. N /\ w \in 1 .. N /\ t \in 1 .. N
  BY <1>1, EdgesAre
<1>3. /\ g.step \in Seq(ToSet(g.step)) /\ Len(g.step) = N
      /\ \A n \in 1 .. N : IsStep(g.step[n])
  BY <1>1 DEF Steps
<1>4. DOMAIN g.step = 1 .. N
  BY <1>3, SeqFacts
<1> QED BY <1>1, <1>2, <1>3, <1>4

\* The only node without children that counts is the reference of the workspace, and its parent
\* is the workspace commit.
LEMMA TopIs ==
  ASSUME NEW g, NEW w, NEW t, NEW loose, Workspace(g, w, t, loose)
  PROVE  Top(g) = t /\ WorkspaceNode(g) = w
<1> DEFINE N == Len(g.parents)
<1>1. DOMAIN g.step = 1 .. N /\ t \in 1 .. N /\ Edges(N, g.parents, w, t) /\ Steps(N, g.step, w, t)
  BY WorkspaceIs
<1>2. \A n \in 1 .. N : g.step[n] = Reference("workspace") <=> n = t
  BY <1>1 DEF Steps
<1>3. Top(g) = t
  BY <1>1, <1>2 DEF Top
<1>4. g.parents[t] = <<w>>
  BY <1>1 DEF Edges
<1> QED BY <1>3, <1>4 DEF WorkspaceNode

\* A commit that may be moved or discarded.
Free(g, w, n) == n \in DOMAIN g.parents \ {1, w} /\ g.step[n].kind = "pick"

\* A commit that may be moved is of a stack, but not its top.
LEMMA FreeIs ==
  ASSUME NEW g, NEW w, NEW t, NEW loose, Workspace(g, w, t, loose), NEW n, Free(g, w, n)
  PROVE  /\ n \in (1 .. Len(g.parents)) \ {1, w, t} /\ n \notin ToSet(g.parents[w])
         /\ g.step[n] # NoStep
         /\ n \notin loose => g.parents[n] # <<>>
<1>1. DOMAIN g.parents = 1 .. Len(g.parents) /\ Steps(Len(g.parents), g.step, w, t)
  BY WorkspaceIs
<1>2. n \in 1 .. Len(g.parents) /\ n \notin {1, w} /\ g.step[n].kind = "pick"
  BY <1>1 DEF Free
<1>3. g.step[n] # NoStep /\ g.step[n] # Reference("workspace")
  BY <1>2, Kinds
<1>4. n # t
  BY <1>1, <1>2, <1>3 DEF Steps
<1>5. n \notin ToSet(g.parents[w])
  BY <1>2 DEF Workspace
<1>6. n \notin loose => g.parents[n] # <<>>
  BY <1>1, <1>2, <1>3 DEF Workspace
<1> QED BY <1>2, <1>3, <1>4, <1>5, <1>6

\* disconnect_segment_from leaves a workspace with one loose node.
LEMMA DisconnectIs ==
  ASSUME NEW g, NEW w, NEW t, Workspace(g, w, t, {}), NEW n, Free(g, w, n)
  PROVE  /\ Disconnect(g, n).step = g.step
         /\ Disconnect(g, n).parents = Unlinked(g.parents, n)
         /\ Workspace(Disconnect(g, n), w, t, {n})
         /\ Len(Disconnect(g, n).parents) = Len(g.parents)
         /\ Disconnect(g, n).parents[n] = <<>>
         /\ Disconnect(g, n).parents[w] = g.parents[w]
<1> DEFINE N == Len(g.parents)
           qs == Unlinked(g.parents, n)
           d == Disconnect(g, n)
<1>1. /\ n \in (1 .. N) \ {1, w, t} /\ n \notin ToSet(g.parents[w]) /\ g.parents[n] # <<>>
  BY FreeIs
<1>2. /\ g = [step |-> g.step, parents |-> g.parents]
      /\ Edges(N, g.parents, w, t) /\ Steps(N, g.step, w, t)
      /\ \A m \in ToSet(g.parents[w]) : g.step[m].kind # "pick"
      /\ \A m \in DOMAIN g.parents \ {1} : g.step[m] = NoStep \/ g.parents[m] # <<>>
  BY DEF Workspace, Shape
<1>3. d = [step |-> g.step, parents |-> qs]
  BY <1>2 DEF Disconnect, Unlinked
<1>4. PICK rank : Ranked(N, g.parents, rank)
  BY DEF Workspace, Shape
<1>5. PICK lane : Lanes(N, g.parents, w, lane)
  BY DEF Workspace, Shape
<1>6. /\ Edges(N, qs, w, t) /\ Ranked(N, qs, rank)
      /\ qs[n] = <<>> /\ qs[w] = g.parents[w]
      /\ \A m \in (1 .. N) \ {n} : g.parents[m] # <<>> => qs[m] # <<>>
  BY <1>1, <1>2, <1>4, UnlinkedEdges
<1>7. Lanes(N, qs, w, lane)
  BY <1>1, <1>2, <1>5, UnlinkedLanes
<1> HIDE DEF qs, d
<1>8. Len(qs) = N /\ DOMAIN qs = 1 .. N /\ DOMAIN g.parents = 1 .. N
  BY <1>2, <1>6, EdgesAre
<1>9. Shape(N, qs, w, t)
  BY <1>6, <1>7 DEF Shape
<1>10. d.step = g.step /\ d.parents = qs
  BY <1>3
<1>11. \A m \in DOMAIN qs \ ({1} \cup {n}) : g.step[m] = NoStep \/ qs[m] # <<>>
  BY <1>2, <1>6, <1>8
<1>12. Workspace(d, w, t, {n})
  BY <1>2, <1>3, <1>6, <1>8, <1>9, <1>10, <1>11 DEF Workspace
<1> QED BY <1>3, <1>6, <1>8, <1>10, <1>12 DEF qs, d

\* Where a loose node may be inserted.
MayInsert(g, w, t, n, anchor, side) ==
  /\ n \in DOMAIN g.parents \ {1, w, t} /\ g.parents[n] = <<>>
  /\ anchor \in DOMAIN g.parents \ {1, w, t, n} /\ g.step[anchor] # NoStep
  /\ side \in Sides
  /\ side = "Above" => anchor \notin ToSet(g.parents[w])

\* insert brings a loose node back into the workspace.
LEMMA InsertIs ==
  ASSUME NEW g, NEW w, NEW t, NEW n, Workspace(g, w, t, {n}), NEW anchor, NEW side,
         MayInsert(g, w, t, n, anchor, side)
  PROVE  /\ Insert(g, n, anchor, side).step = g.step
         /\ Insert(g, n, anchor, side).parents = Linked(g.parents, n, anchor, side)
         /\ Workspace(Insert(g, n, anchor, side), w, t, {})
         /\ Len(Insert(g, n, anchor, side).parents) = Len(g.parents)
         /\ Insert(g, n, anchor, side).parents[w] = g.parents[w]
<1> DEFINE N == Len(g.parents)
           qs == Linked(g.parents, n, anchor, side)
           d == Insert(g, n, anchor, side)
<1>1. /\ g = [step |-> g.step, parents |-> g.parents]
      /\ Edges(N, g.parents, w, t) /\ Steps(N, g.step, w, t)
      /\ \A m \in ToSet(g.parents[w]) : g.step[m].kind # "pick"
      /\ \A m \in DOMAIN g.parents \ ({1} \cup {n}) : g.step[m] = NoStep \/ g.parents[m] # <<>>
  BY DEF Workspace, Shape
<1>2. DOMAIN g.parents = 1 .. N
  BY <1>1, EdgesAre
<1>3. \A m \in 1 .. N : n \notin ToSet(g.parents[m])
  BY <1>1 DEF Edges, MayInsert
<1>4. Spot(N, g.parents, w, t, n, anchor, side)
  BY <1>1, <1>2, <1>3 DEF Spot, MayInsert
<1>5. d = [step |-> g.step, parents |-> qs]
  BY <1>1 DEF Insert, Linked
<1>6. PICK rank : Ranked(N, g.parents, rank)
  BY DEF Workspace, Shape
<1>7. PICK lane : Lanes(N, g.parents, w, lane)
  BY DEF Workspace, Shape
<1>8. Ranked(N, qs, NextRank(N, rank, n, anchor, side))
  BY <1>1, <1>4, <1>6, LinkedRanked
<1>9. Lanes(N, qs, w, NextLane(N, lane, n, anchor))
  BY <1>1, <1>4, <1>7, LinkedLanes
<1>10. Edges(N, qs, w, t)
  BY <1>1, <1>4, LinkedEdges
<1>11. /\ qs[w] = g.parents[w]
       /\ \A m \in 1 .. N : m = n \/ g.parents[m] # <<>> => qs[m] # <<>>
  BY <1>1, <1>4, LinkedKeeps
<1> HIDE DEF qs, d
<1>12. Len(qs) = N /\ DOMAIN qs = 1 .. N
  BY <1>10, EdgesAre
<1>13. Shape(N, qs, w, t)
  BY <1>8, <1>9, <1>10 DEF Shape
<1>14. d.step = g.step /\ d.parents = qs
  BY <1>5
<1>15. \A m \in DOMAIN qs \ ({1} \cup {}) : g.step[m] = NoStep \/ qs[m] # <<>>
  BY <1>1, <1>2, <1>11, <1>12 DEF MayInsert
<1>16. Workspace(d, w, t, {})
  BY <1>1, <1>5, <1>11, <1>12, <1>13, <1>14, <1>15 DEF Workspace
<1> QED BY <1>5, <1>11, <1>12, <1>14, <1>16 DEF qs, d

\* One step for another: of the same commit, or of none.
MayReplace(g, w, t, n, s) ==
  /\ n \in DOMAIN g.parents \ {1, t}
  /\ IsStep(s)
  /\ \/ /\ s.kind = "pick" /\ g.step[n].kind = "pick"
        /\ s.commit.change = g.step[n].commit.change
     \/ s = NoStep /\ n # w

\* Replacing a step by another of the same commit, or by none, leaves a workspace.
LEMMA ReplaceIs ==
  ASSUME NEW g, NEW w, NEW t, NEW loose, Workspace(g, w, t, loose),
         NEW n, NEW s, MayReplace(g, w, t, n, s)
  PROVE  /\ Replace(g, n, s).step[n] = s
         /\ \A m \in DOMAIN g.parents \ {n} : Replace(g, n, s).step[m] = g.step[m]
         /\ Replace(g, n, s).parents = g.parents
         /\ DOMAIN Replace(g, n, s).step = DOMAIN g.step
         /\ Workspace(Replace(g, n, s), w, t, IF s = NoStep THEN loose \ {n} ELSE loose)
<1> DEFINE N == Len(g.parents)
           d == Replace(g, n, s)
           st == [g.step EXCEPT ![n] = s]
           left == IF s = NoStep THEN loose \ {n} ELSE loose
<1>1. /\ N \in Nat /\ DOMAIN g.parents = 1 .. N
      /\ g.step \in Seq(ToSet(g.step)) /\ Len(g.step) = N /\ DOMAIN g.step = 1 .. N
      /\ Steps(N, g.step, w, t) /\ Edges(N, g.parents, w, t)
      /\ 1 \in 1 .. N /\ w \in 1 .. N /\ t \in 1 .. N
      /\ \A m \in 1 .. N : IsStep(g.step[m])
  BY WorkspaceIs
<1>2. n \in 1 .. N /\ n # 1 /\ n # t /\ IsStep(s)
  BY <1>1 DEF MayReplace
<1>3. d = [step |-> st, parents |-> g.parents]
  BY DEF Replace, Workspace
<1>4. /\ st = [m \in 1 .. N |-> IF m = n THEN s ELSE g.step[m]]
      /\ st[n] = s /\ \A m \in (1 .. N) \ {n} : st[m] = g.step[m]
  BY <1>1, <1>2
<1>5. st \in Seq(ToSet(st)) /\ Len(st) = N
  <2>1. \A m \in 1 .. N : st[m] \in ToSet(st)
    BY <1>4 DEF ToSet
  <2> HIDE DEF st
  <2>2. st = [m \in 1 .. N |-> st[m]]
    BY <1>4
  <2>3. st \in [1 .. N -> ToSet(st)]
    BY <2>1, <2>2
  <2> QED BY <1>1, <2>3, SMTT(40)
<1> HIDE DEF st, d
<1>6. s # Reference("workspace")
  <2>1. Reference("workspace").kind = "reference" /\ NoStep.kind = "none"
    BY Kinds
  <2> QED BY <2>1 DEF MayReplace
<1>7. st[1] = Pick(TargetCommit) /\ st[w].kind = "pick" /\ st[w].commit.change = "workspace"
  <2>1. g.step[1] = Pick(TargetCommit) /\ g.step[w].kind = "pick" /\ g.step[w].commit.change = "workspace"
    BY <1>1 DEF Steps
  <2>2. n = w => s.kind = "pick" /\ s.commit.change = g.step[w].commit.change
    BY DEF MayReplace
  <2> QED BY <1>1, <1>2, <1>4, <2>1, <2>2
<1>8. \A m \in 1 .. N : st[m].kind = "pick" =>
         g.step[m].kind = "pick" /\ st[m].commit.change = g.step[m].commit.change
  <2>1. s.kind = "pick" => g.step[n].kind = "pick" /\ s.commit.change = g.step[n].commit.change
    BY Kinds DEF MayReplace
  <2> QED BY <1>4, <2>1
<1>9. ASSUME NEW m \in 1 .. N, NEW k \in 1 .. N,
             st[m].kind = "pick", st[k].kind = "pick", st[m].commit.change = st[k].commit.change
      PROVE  m = k
  BY <1>1, <1>8, <1>9 DEF Steps
<1>10. \A m \in 1 .. N : IsStep(st[m]) /\ (st[m] = Reference("workspace") <=> m = t)
  BY <1>1, <1>2, <1>4, <1>6 DEF Steps
<1>11. Steps(N, st, w, t)
  BY <1>5, <1>7, <1>9, <1>10 DEF Steps
<1>12. \A m \in ToSet(g.parents[w]) : st[m].kind # "pick"
  <2>1. ToSet(g.parents[w]) \subseteq 1 .. N
    BY <1>1, EdgesAre
  <2>2. \A m \in ToSet(g.parents[w]) : g.step[m].kind # "pick"
    BY DEF Workspace
  <2> QED BY <1>8, <2>1, <2>2
<1>13. \A m \in DOMAIN g.parents \ ({1} \cup left) : st[m] = NoStep \/ g.parents[m] # <<>>
  <2> SUFFICES ASSUME NEW m \in DOMAIN g.parents \ ({1} \cup left), st[m] # NoStep
               PROVE  g.parents[m] # <<>>
    OBVIOUS
  <2>1. CASE m = n
    <3>1. s # NoStep /\ m \notin loose
      BY <1>4, <2>1
    <3>2. g.step[n].kind = "pick"
      BY <3>1 DEF MayReplace
    <3>3. g.step[n] # NoStep
      BY <3>2, Kinds
    <3> QED BY <1>1, <2>1, <3>1, <3>3 DEF Workspace
  <2>2. CASE m # n
    <3>1. m \notin loose /\ g.step[m] # NoStep
      BY <1>1, <1>4, <2>2
    <3> QED BY <3>1 DEF Workspace
  <2> QED BY <2>1, <2>2
<1>14. d.step = st /\ d.parents = g.parents
  BY <1>3
<1>15. Workspace(d, w, t, left)
  <2>1. Shape(N, g.parents, w, t)
    BY DEF Workspace
  <2> HIDE DEF left
  <2> QED BY <1>3, <1>11, <1>12, <1>13, <1>14, <2>1 DEF Workspace
<1>16. DOMAIN st = 1 .. N
  BY <1>4
<1> QED BY <1>1, <1>3, <1>4, <1>14, <1>15, <1>16 DEF st, d

\* What replace does, without that it leaves a workspace.
LEMMA ReplacedSteps ==
  ASSUME NEW g, NEW w, NEW t, NEW loose, Workspace(g, w, t, loose),
         NEW n, NEW s, MayReplace(g, w, t, n, s)
  PROVE  /\ Replace(g, n, s).step[n] = s
         /\ \A m \in DOMAIN g.parents \ {n} : Replace(g, n, s).step[m] = g.step[m]
         /\ Replace(g, n, s).parents = g.parents
         /\ DOMAIN Replace(g, n, s).step = DOMAIN g.step
<1>1. DOMAIN g.parents = DOMAIN g.step /\ n \in DOMAIN g.step
  BY WorkspaceIs DEF MayReplace
<1>2. Replace(g, n, s) = [step |-> [g.step EXCEPT ![n] = s], parents |-> g.parents]
  BY DEF Replace, Workspace
<1>3. Replace(g, n, s).step = [g.step EXCEPT ![n] = s] /\ Replace(g, n, s).parents = g.parents
  BY <1>2
<1> QED BY <1>1, <1>3

\* That it leaves one, alone.
LEMMA ReplacedStays ==
  ASSUME NEW g, NEW w, NEW t, NEW loose, Workspace(g, w, t, loose),
         NEW n, NEW s, MayReplace(g, w, t, n, s)
  PROVE  Workspace(Replace(g, n, s), w, t, IF s = NoStep THEN loose \ {n} ELSE loose)
  BY ReplaceIs

\* A step that may be added: a commit or a reference that the graph does not have.
MayAdd(g, s) ==
  /\ IsStep(s) /\ s # NoStep /\ s # Reference("workspace")
  /\ \A n \in DOMAIN g.step :
       g.step[n].kind = "pick" /\ s.kind = "pick" => g.step[n].commit.change # s.commit.change

\* add_step adds a loose node and changes no other.
LEMMA AddStepIs ==
  ASSUME NEW g, NEW w, NEW t, Workspace(g, w, t, {}), NEW s, MayAdd(g, s)
  PROVE  /\ Workspace(AddStep(g, s, <<>>), w, t, {Len(g.parents) + 1})
         /\ Len(AddStep(g, s, <<>>).parents) = Len(g.parents) + 1
         /\ Len(g.parents) + 1 \in DOMAIN AddStep(g, s, <<>>).parents \ {1, w, t}
         /\ AddStep(g, s, <<>>).parents[Len(g.parents) + 1] = <<>>
         /\ AddStep(g, s, <<>>).step[Len(g.parents) + 1] = s
         /\ \A n \in DOMAIN g.parents : /\ AddStep(g, s, <<>>).parents[n] = g.parents[n]
                                        /\ AddStep(g, s, <<>>).step[n] = g.step[n]
<1> DEFINE N == Len(g.parents)
           M == N + 1
           d == AddStep(g, s, <<>>)
           ps == g.parents
           qs == Append(g.parents, <<>>)
           st == Append(g.step, s)
<1>1. /\ N \in Nat /\ ps \in Parents(N) /\ DOMAIN ps = 1 .. N
      /\ g.step \in Seq(ToSet(g.step)) /\ Len(g.step) = N /\ DOMAIN g.step = 1 .. N
      /\ Steps(N, g.step, w, t) /\ Edges(N, ps, w, t)
      /\ 1 \in 1 .. N /\ w \in 1 .. N /\ t \in 1 .. N
      /\ \A m \in 1 .. N : IsStep(g.step[m])
  BY WorkspaceIs
<1>2. \A n \in 1 .. N : ps[n] \in Seq(1 .. N) /\ ToSet(ps[n]) \subseteq 1 .. N
  BY <1>1, EdgesAre
<1>3. M \in Nat /\ M # 0 /\ 1 .. M = (1 .. N) \cup {M} /\ M \notin 1 .. N /\ 1 .. N \subseteq 1 .. M
  BY <1>1
<1>4. \A n \in 1 .. N : ps[n] \in Seq(1 .. M)
  BY <1>2, <1>3, SeqMonotonic
<1>5. /\ qs \in Seq(Seq(1 .. M)) /\ Len(qs) = M
      /\ \A n \in 1 .. N : qs[n] = ps[n]
      /\ qs[M] = <<>>
  <2>1. ps \in Seq(Seq(1 .. N))
    BY <1>1, ParentsAre
  <2>2. Seq(1 .. N) \subseteq Seq(1 .. M)
    BY <1>3, SeqMonotonic
  <2>3. ps \in Seq(Seq(1 .. M))
    BY <2>1, <2>2, SeqMonotonic
  <2>4. <<>> \in Seq(1 .. M)
    OBVIOUS
  <2> HIDE DEF M
  <2>5. /\ qs \in Seq(Seq(1 .. M)) /\ Len(qs) = N + 1
        /\ \A n \in 1 .. N : qs[n] = ps[n]
        /\ qs[N + 1] = <<>>
    BY <2>3, <2>4, AppendProperties
  <2> QED BY <2>5 DEF M
<1>6. st \in Seq(ToSet(st)) /\ Len(st) = M /\ st[M] = s /\ \A n \in 1 .. N : st[n] = g.step[n]
  <2> DEFINE T == ToSet(g.step) \cup {s}
  <2>1. g.step \in Seq(T) /\ s \in T
    BY <1>1, SeqMonotonic
  <2>2. st \in Seq(T) /\ Len(st) = M /\ st[M] = s /\ \A n \in 1 .. N : st[n] = g.step[n]
    <3> HIDE DEF T
    <3> QED BY <1>1, <2>1, AppendProperties
  <2> HIDE DEF st, T
  <2>3. st \in Seq(ToSet(st))
    <3>1. DOMAIN st = 1 .. M /\ st \in [1 .. M -> T]
      BY <2>2, LenProperties
    <3>2. \A n \in 1 .. M : st[n] \in ToSet(st)
      BY <3>1 DEF ToSet
    <3>3. st \in [1 .. M -> ToSet(st)]
      BY <3>1, <3>2
    <3> QED BY <1>3, <3>3
  <2> QED BY <2>2, <2>3
<1>7. d = [step |-> st, parents |-> qs]
  BY DEF AddStep
<1> HIDE DEF d, qs, st, M
<1>8. qs \in Parents(M) /\ DOMAIN qs = 1 .. M
  <2>1. DOMAIN qs = 1 .. M /\ qs \in [1 .. M -> Seq(1 .. M)]
    BY <1>5, LenProperties
  <2> QED BY <2>1 DEF Parents
<1>9. \A p : p \notin ToSet(qs[M])
  BY <1>5 DEF ToSet
<1>10. Edges(M, qs, w, t)
  <2>1. w \in 2 .. M /\ t \in 2 .. M /\ w # t
    BY <1>1, <1>3 DEF Edges
  <2>2. qs[1] = <<>> /\ qs[w] # <<>> /\ qs[t] = <<w>> /\ 1 \notin ToSet(qs[w])
    BY <1>1, <1>5 DEF Edges
  <2>3. \A m \in (1 .. M) \ {w} : Len(qs[m]) <= 1
    <3> SUFFICES ASSUME NEW m \in (1 .. M) \ {w} PROVE Len(qs[m]) <= 1
      OBVIOUS
    <3>1. CASE m = M
      <4>1. Len(<<>>) = 0
        OBVIOUS
      <4> QED BY <1>5, <3>1, <4>1
    <3>2. CASE m \in 1 .. N
      BY <1>1, <1>5, <3>2 DEF Edges
    <3> QED BY <1>3, <3>1, <3>2
  <2>4. ASSUME NEW m \in 1 .. M, NEW p \in ToSet(qs[m])
        PROVE  (p = 1 \/ qs[p] # <<>>) /\ p # t /\ (p = w => m = t)
    <3>1. m \in 1 .. N
      BY <1>3, <1>9, <2>4
    <3>2. p \in ToSet(ps[m]) /\ p \in 1 .. N
      BY <1>2, <1>5, <2>4, <3>1
    <3>3. (p = 1 \/ ps[p] # <<>>) /\ p # t /\ (p = w => m = t)
      BY <1>1, <3>1, <3>2 DEF Edges
    <3> QED BY <1>5, <3>2, <3>3
  <2> QED BY <1>3, <1>8, <2>1, <2>2, <2>3, <2>4 DEF Edges
<1>11. PICK rank : Ranked(N, ps, rank)
  BY DEF Workspace, Shape
<1>12. PICK lane : Lanes(N, ps, w, lane)
  BY DEF Workspace, Shape
<1>13. Ranked(M, qs, [n \in 1 .. M |-> IF n = M THEN 0 ELSE rank[n]])
  <2> DEFINE next == [n \in 1 .. M |-> IF n = M THEN 0 ELSE rank[n]]
  <2>1. next \in [1 .. M -> Nat]
    BY <1>3, <1>11 DEF Ranked
  <2>2. ASSUME NEW m \in 1 .. M, NEW p \in ToSet(qs[m]) PROVE next[p] < next[m]
    <3>1. m \in 1 .. N
      BY <1>3, <1>9, <2>2
    <3>2. p \in ToSet(ps[m]) /\ p \in 1 .. N
      BY <1>2, <1>5, <2>2, <3>1
    <3>3. rank[p] < rank[m]
      BY <1>11, <3>1, <3>2 DEF Ranked
    <3>4. next[p] = rank[p] /\ next[m] = rank[m]
      BY <1>3, <3>1, <3>2
    <3> QED BY <3>3, <3>4
  <2> HIDE DEF next
  <2>3. Ranked(M, qs, next)
    BY <2>1, <2>2 DEF Ranked
  <2> QED BY <2>3 DEF next
<1>14. Lanes(M, qs, w, [n \in 1 .. M |-> IF n = M THEN M ELSE lane[n]])
  <2> DEFINE next == [n \in 1 .. M |-> IF n = M THEN M ELSE lane[n]]
  <2>1. next \in [1 .. M -> Nat]
    BY <1>3, <1>12 DEF Lanes
  <2>2. \A n \in 1 .. N : next[n] = lane[n]
    BY <1>3
  <2> HIDE DEF next
  <2>3. ASSUME NEW m \in (1 .. M) \ {w}, NEW p \in ToSet(qs[m]) \ {1} PROVE next[p] = next[m]
    <3>1. m \in 1 .. N
      BY <1>3, <1>9, <2>3
    <3>2. p \in ToSet(ps[m]) /\ p \in 1 .. N
      BY <1>2, <1>5, <2>3, <3>1
    <3>3. lane[p] = lane[m]
      BY <1>12, <2>3, <3>1, <3>2 DEF Lanes
    <3> QED BY <2>2, <3>1, <3>2, <3>3
  <2>4. ASSUME NEW i \in DOMAIN qs[w], NEW j \in DOMAIN qs[w], next[qs[w][i]] = next[qs[w][j]]
        PROVE  i = j
    <3>1. qs[w] = ps[w]
      BY <1>1, <1>5
    <3>2. ps[w][i] \in 1 .. N /\ ps[w][j] \in 1 .. N
      <4>1. ps[w] \in Seq(1 .. N)
        BY <1>1, <1>2
      <4> QED BY <2>4, <3>1, <4>1, SMTT(40)
    <3> QED BY <1>12, <2>2, <2>4, <3>1, <3>2 DEF Lanes
  <2>5. Lanes(M, qs, w, next)
    BY <2>1, <2>3, <2>4 DEF Lanes
  <2> QED BY <2>5 DEF next
<1>15. Shape(M, qs, w, t)
  BY <1>10, <1>13, <1>14 DEF Shape
<1>16. Steps(M, st, w, t)
  <2>1. \A n \in 1 .. M : IsStep(st[n]) /\ (st[n] = Reference("workspace") <=> n = t)
    <3>1. \A n \in 1 .. N : IsStep(g.step[n]) /\ (g.step[n] = Reference("workspace") <=> n = t)
      BY <1>1 DEF Steps
    <3>2. IsStep(s) /\ s # Reference("workspace")
      BY DEF MayAdd
    <3>3. M # t
      BY <1>1, <1>3
    <3>4. \A n \in 1 .. M : n \in 1 .. N \/ n = M
      BY <1>3
    <3> QED BY <1>6, <3>1, <3>2, <3>3, <3>4
  <2>2. st[1] = Pick(TargetCommit) /\ st[w].kind = "pick" /\ st[w].commit.change = "workspace"
    BY <1>1, <1>6 DEF Steps
  <2>3. ASSUME NEW m \in 1 .. M, NEW n \in 1 .. M, st[m].kind = "pick", st[n].kind = "pick",
               st[m].commit.change = st[n].commit.change
        PROVE  m = n
    <3>1. \A k \in 1 .. N : g.step[k].kind = "pick" /\ s.kind = "pick" =>
                              g.step[k].commit.change # s.commit.change
      BY <1>1 DEF MayAdd
    <3>2. CASE m \in 1 .. N /\ n \in 1 .. N
      BY <1>1, <1>6, <2>3, <3>2 DEF Steps
    <3> QED BY <1>3, <1>6, <2>3, <3>1, <3>2
  <2> QED BY <1>6, <2>1, <2>2, <2>3 DEF Steps
<1>17. d.step = st /\ d.parents = qs
  BY <1>7
<1>18. \A n \in ToSet(qs[w]) : st[n].kind # "pick"
  BY <1>1, <1>2, <1>5, <1>6 DEF Workspace
<1>19. \A n \in DOMAIN qs \ ({1} \cup {M}) : st[n] = NoStep \/ qs[n] # <<>>
  <2>1. \A n \in (1 .. N) \ ({1} \cup {}) : g.step[n] = NoStep \/ ps[n] # <<>>
    BY <1>1 DEF Workspace
  <2> QED BY <1>3, <1>5, <1>6, <1>8, <2>1
<1>20. Workspace(d, w, t, {M})
  BY <1>5, <1>7, <1>15, <1>16, <1>17, <1>18, <1>19 DEF Workspace
<1> QED BY <1>1, <1>3, <1>5, <1>6, <1>8, <1>17, <1>20 DEF d, M

\* The ordered parents of a node are commits of the graph.
LEMMA OrderedParentsTyped ==
  ASSUME NEW g, NEW w, NEW t, NEW loose, Workspace(g, w, t, loose), NEW n \in DOMAIN g.parents
  PROVE  OrderedParents(g, n) \in Seq(Picks(g)) /\ Picks(g) \subseteq 1 .. Len(g.parents)
<1> DEFINE N == Len(g.parents)
<1>1. N \in Nat /\ g.parents \in Parents(N) /\ DOMAIN g.parents = 1 .. N /\ DOMAIN g.step = 1 .. N
  BY WorkspaceIs
<1>2. Picks(g) \in SUBSET (1 .. N)
  BY <1>1 DEF Picks
<1> QED BY <1>1, <1>2, ThroughTyped DEF OrderedParents

-----------------------------------------------------------------------------
(* order_commit_selectors_by_parentage *)

\* The state of the walk of PostOrder.
Visits(N, nodes) ==
  [stack : Seq([node : 1 .. N, expanded : BOOLEAN]), seen : SUBSET (1 .. N), out : Seq(nodes)]

\* A step of the depth-first walk keeps the type of its state.
LEMMA PostOrderStepTyped ==
  ASSUME NEW g, NEW w, NEW t, NEW loose, Workspace(g, w, t, loose),
         NEW nodes \in SUBSET DOMAIN g.parents, NEW acc \in Visits(Len(g.parents), nodes)
  PROVE  PostOrderStep(g, nodes, acc) \in Visits(Len(g.parents), nodes)
<1> DEFINE N == Len(g.parents)
           Visit == [node : 1 .. N, expanded : BOOLEAN]
           top == Last(acc.stack)
           rest == Front(acc.stack)
           parents == OrderedParents(g, top.node)
           below == [i \in DOMAIN parents |-> [node |-> parents[i], expanded |-> FALSE]]
<1>1. /\ acc = [stack |-> acc.stack, seen |-> acc.seen, out |-> acc.out]
      /\ acc.stack \in Seq(Visit) /\ acc.seen \subseteq 1 .. N /\ acc.out \in Seq(nodes)
  BY DEF Visits
<1>2. N \in Nat /\ DOMAIN g.parents = 1 .. N
  BY WorkspaceIs
<1>3. CASE acc.stack = <<>>
  BY <1>3 DEF PostOrderStep
<1>4. CASE acc.stack # <<>>
  <2>1. top \in Visit /\ rest \in Seq(Visit)
    <3>1. Len(acc.stack) \in Nat /\ Len(acc.stack) # 0
      BY <1>1, <1>4, SeqFacts
    <3>2. \A i \in 1 .. Len(acc.stack) : acc.stack[i] \in Visit
      <4> HIDE DEF Visit
      <4> QED BY <1>1, ElementOfSeq
    <3>5. top \in Visit
      <4>1. Len(acc.stack) \in 1 .. Len(acc.stack)
        BY <3>1
      <4> QED BY <3>2, <4>1 DEF Last
    <3>3. \A i \in 1 .. Len(acc.stack) - 1 : acc.stack[i] \in Visit
      BY <3>1, <3>2
    <3>4. rest \in Seq(Visit)
      <4> HIDE DEF Visit
      <4> QED BY <3>1, <3>3, SubSeqProperties DEF Front
    <3> QED BY <3>4, <3>5
  <2>2. top.node \in 1 .. N /\ top.expanded \in BOOLEAN
    BY <2>1
  <2>3. parents \in Seq(1 .. N)
    <3>1. OrderedParents(g, top.node) \in Seq(Picks(g)) /\ Picks(g) \subseteq 1 .. N
      BY <1>2, <2>2, OrderedParentsTyped
    <3> QED BY <3>1, SeqMonotonic
  <2> HIDE DEF top, rest, parents
  <2>4. below \in Seq(Visit)
    <3>1. Len(parents) \in Nat /\ DOMAIN parents = 1 .. Len(parents)
      BY <2>3
    <3>2. \A i \in 1 .. Len(parents) : parents[i] \in 1 .. N
      BY <2>3
    <3>3. \A i \in 1 .. Len(parents) : [node |-> parents[i], expanded |-> FALSE] \in Visit
      BY <3>2
    <3>4. [i \in 1 .. Len(parents) |-> [node |-> parents[i], expanded |-> FALSE]] \in Seq(Visit)
      <4> HIDE DEF Visit
      <4> QED BY <3>1, <3>3
    <3> QED BY <3>1, <3>4
  <2>5. CASE top.expanded
    <3>1. PostOrderStep(g, nodes, acc) =
            [acc EXCEPT !.stack = rest, !.out = IF top.node \in nodes THEN Append(acc.out, top.node) ELSE acc.out]
      BY <1>4, <2>5 DEF PostOrderStep, top, rest
    <3>2. (IF top.node \in nodes THEN Append(acc.out, top.node) ELSE acc.out) \in Seq(nodes)
      BY <1>1, AppendProperties
    <3> QED BY <1>1, <2>1, <3>1, <3>2 DEF Visits
  <2>6. CASE ~top.expanded /\ top.node \in acc.seen
    <3>1. PostOrderStep(g, nodes, acc) = [acc EXCEPT !.stack = rest]
      BY <1>4, <2>6 DEF PostOrderStep, top, rest
    <3> QED BY <1>1, <2>1, <3>1 DEF Visits
  <2>7. CASE ~top.expanded /\ top.node \notin acc.seen
    <3> DEFINE stack == Append(rest, [node |-> top.node, expanded |-> TRUE]) \o below
    <3>1. PostOrderStep(g, nodes, acc) = [acc EXCEPT !.stack = stack, !.seen = acc.seen \cup {top.node}]
      BY <1>4, <2>7 DEF PostOrderStep, top, rest, parents
    <3>2. stack \in Seq(Visit)
      <4>1. [node |-> top.node, expanded |-> TRUE] \in Visit
        BY <2>2
      <4> HIDE DEF Visit, below
      <4>2. Append(rest, [node |-> top.node, expanded |-> TRUE]) \in Seq(Visit)
        BY <2>1, <4>1, AppendProperties
      <4> QED BY <2>4, <4>2, ConcatProperties
    <3> HIDE DEF stack
    <3>3. acc.seen \cup {top.node} \in SUBSET (1 .. N)
      BY <1>1, <2>2
    <3>4. PostOrderStep(g, nodes, acc) =
            [stack |-> stack, seen |-> acc.seen \cup {top.node}, out |-> acc.out]
      BY <1>1, <3>1
    <3> HIDE DEF Visit
    <3>5. PostOrderStep(g, nodes, acc) \in [stack : Seq(Visit), seen : SUBSET (1 .. N), out : Seq(nodes)]
      BY <1>1, <3>2, <3>3, <3>4
    <3> QED BY <3>5 DEF Visits, Visit
  <2> QED BY <2>2, <2>5, <2>6, <2>7
<1> QED BY <1>3, <1>4

\* Ordering nodes by parentage gives nodes of those that were to be ordered.
LEMMA PostOrderTyped ==
  ASSUME NEW g, NEW w, NEW t, NEW loose, Workspace(g, w, t, loose),
         NEW nodes \in SUBSET DOMAIN g.parents, NEW n \in DOMAIN g.parents
  PROVE  PostOrder(g, n, nodes) \in Seq(nodes)
<1> DEFINE N == Len(g.parents)
           M == 3 * Len(g.step) + 1
           V == Visits(N, nodes)
           first == [stack |-> <<[node |-> n, expanded |-> FALSE]>>, seen |-> {}, out |-> <<>>]
           step == [k \in 1 .. M |-> [acc \in V |-> PostOrderStep(g, nodes, acc)]]
           walk == CHOOSE walk : walk = [k \in 0 .. M |->
                      IF k = 0 THEN first ELSE PostOrderStep(g, nodes, walk[k - 1])]
<1>1. N \in Nat /\ DOMAIN g.parents = 1 .. N /\ M \in Nat
  BY WorkspaceIs
<1>2. first \in V
  <2>1. [node |-> n, expanded |-> FALSE] \in [node : 1 .. N, expanded : BOOLEAN]
    BY <1>1
  <2>2. <<[node |-> n, expanded |-> FALSE]>> \in Seq([node : 1 .. N, expanded : BOOLEAN])
    BY <2>1, OneElement
  <2>3. <<>> \in Seq(nodes)
    OBVIOUS
  <2> QED BY <2>2, <2>3 DEF Visits
<1>3. step \in [1 .. M -> [V -> V]]
  BY PostOrderStepTyped
<1>4. PICK f \in [0 .. M -> V] : IsRecursion(f, M, first, step)
  <2> HIDE DEF V, first, step, M
  <2> QED BY <1>1, <1>2, <1>3, RecursionExists
<1>5. \A i \in 1 .. M : i - 1 \in 0 .. M /\ i # 0
  BY <1>1
<1>6. f = [k \in 0 .. M |-> IF k = 0 THEN first ELSE PostOrderStep(g, nodes, f[k - 1])]
  <2>1. ASSUME NEW i \in 1 .. M PROVE f[i] = PostOrderStep(g, nodes, f[i - 1])
    BY <1>4, <1>5 DEF IsRecursion
  <2>2. \A i \in 0 .. M : i = 0 \/ i \in 1 .. M
    BY <1>1
  <2> HIDE DEF M, first, step
  <2> QED BY <1>4, <2>1, <2>2 DEF IsRecursion
<1>7. walk = [k \in 0 .. M |-> IF k = 0 THEN first ELSE PostOrderStep(g, nodes, walk[k - 1])]
  BY <1>6, Zenon
<1>8. PostOrder(g, n, nodes) = walk[M].out
  BY DEF PostOrder
<1> HIDE DEF walk, M, first
<1>9. walk[0] = first /\ \A k \in 1 .. M : walk[k] = PostOrderStep(g, nodes, walk[k - 1])
  BY <1>1, <1>5, <1>7
<1>10. 0 .. M \subseteq {k \in 0 .. M : walk[k] \in V}
  <2> DEFINE S == {k \in 0 .. M : walk[k] \in V}
  <2>1. 0 \in S
    BY <1>1, <1>2, <1>9
  <2>2. \A i \in 1 .. M : i - 1 \in S => i \in S
    BY <1>5, <1>9, PostOrderStepTyped
  <2> HIDE DEF S
  <2>3. 0 .. M \subseteq S
    BY <1>1, <2>1, <2>2, BoundedInduction
  <2> QED BY <2>3 DEF S
<1>11. walk[M] \in V
  BY <1>1, <1>10
<1> QED BY <1>8, <1>11 DEF Visits

-----------------------------------------------------------------------------
(* Editor::rebase *)

\* What a rebase leaves of a graph: all but what its commits are.
Alike(g, h) ==
  /\ h.parents = g.parents /\ DOMAIN h.step = DOMAIN g.step
  /\ \A n \in DOMAIN g.step :
       /\ h.step[n].kind = g.step[n].kind
       /\ g.step[n].kind = "pick" => /\ h.step[n].commit.change = g.step[n].commit.change
                                     /\ h.step[n].tracked = g.step[n].tracked
       /\ g.step[n].kind # "pick" => h.step[n] = g.step[n]

\* Commits are mapped to what became of them, never to another change.
SameChanges(h) == \A d \in DOMAIN h : h[d].change = d.change

\* A session over a graph that is like g.
Editing(s, g, w, t) ==
  /\ s = [graph |-> s.graph, history |-> s.history, ok |-> s.ok]
  /\ Workspace(s.graph, w, t, {})
  /\ SameChanges(s.history)
  /\ Alike(g, s.graph)

\* From a node without parents nothing is found.
LEMMA NothingThrough ==
  ASSUME NEW N \in Nat, NEW ps \in Parents(N), NEW picks \in SUBSET (1 .. N), NEW n \in 1 .. N,
         ps[n] = <<>>
  PROVE  Through(ps, picks, n) = <<>>
<1>1. PICK walk \in [0 .. N -> Trail(N, picks)] : IsThrough(ps, picks, n, walk)
  BY ThroughIs
<1> DEFINE S == {k \in 0 .. N : walk[k].todo = <<>> /\ walk[k].out = <<>>}
<1>2. Len(ps) = N
  BY ParentsAre
<1>3. 0 \in S
  BY <1>1 DEF IsThrough
<1>4. \A i \in 1 .. N : i - 1 \in S => i \in S
  <2> SUFFICES ASSUME NEW i \in 1 .. N, i - 1 \in S PROVE i \in S
    OBVIOUS
  <2>1. walk[i] = ThroughStep(ps, picks, walk[i - 1])
    BY <1>1, <1>2, SMTT(40) DEF IsThrough
  <2>2. walk[i] = walk[i - 1]
    BY <2>1 DEF ThroughStep
  <2> QED BY <2>2
<1> HIDE DEF S
<1>5. 0 .. N \subseteq S
  BY <1>3, <1>4, BoundedInduction
<1> QED BY <1>1, <1>2, <1>5 DEF S, IsThrough

\* The target is picked onto nothing.
LEMMA TargetHasNoParents ==
  ASSUME NEW g, NEW w, NEW t, NEW loose, Workspace(g, w, t, loose)
  PROVE  ParentCommits(g, 1) = <<>>
<1>1. /\ Len(g.parents) \in Nat /\ g.parents \in Parents(Len(g.parents)) /\ 1 \in 1 .. Len(g.parents)
      /\ DOMAIN g.step = 1 .. Len(g.parents) /\ Edges(Len(g.parents), g.parents, w, t)
  BY WorkspaceIs
<1>2. Picks(g) \in SUBSET (1 .. Len(g.parents)) /\ g.parents[1] = <<>>
  BY <1>1 DEF Picks, Edges
<1>3. OrderedParents(g, 1) = <<>>
  BY <1>1, <1>2, NothingThrough DEF OrderedParents
<1>4. DOMAIN <<>> = {}
  OBVIOUS
<1>5. [i \in DOMAIN <<>> |-> g.step[<<>>[i]].commit] = <<>>
  BY <1>4
<1> QED BY <1>3, <1>5, Zenon DEF ParentCommits

\* A session with another graph and history, or one that has failed.
LEMMA SessionWith ==
  ASSUME NEW s, s = [graph |-> s.graph, history |-> s.history, ok |-> s.ok], NEW d, NEW h, NEW b
  PROVE  /\ [s EXCEPT !.graph = d, !.history = h] = [graph |-> d, history |-> h, ok |-> s.ok]
         /\ [s EXCEPT !.ok = b] = [graph |-> s.graph, history |-> s.history, ok |-> b]
<1>1. PICK x, y, z : s = [graph |-> x, history |-> y, ok |-> z]
  OBVIOUS
<1>2. s \in [graph : {x}, history : {y}, ok : {z}]
  BY <1>1
<1>3. /\ [s EXCEPT !.graph = d, !.history = h] \in [graph : {d}, history : {h}, ok : {z}]
      /\ [s EXCEPT !.ok = b] \in [graph : {x}, history : {y}, ok : {b}]
  BY <1>2
<1>4. s.graph = x /\ s.history = y /\ s.ok = z
  BY <1>1
<1> HIDE <1>1
<1> DEFINE r == [s EXCEPT !.graph = d, !.history = h]
           f == [s EXCEPT !.ok = b]
<1>5. r \in [graph : {d}, history : {h}, ok : {z}] /\ f \in [graph : {x}, history : {y}, ok : {b}]
  BY <1>3
<1> HIDE DEF r, f
<1>6. r = [graph |-> d, history |-> h, ok |-> z] /\ f = [graph |-> x, history |-> y, ok |-> b]
  BY <1>5
<1> QED BY <1>4, <1>6 DEF r, f

\* A pick of another commit.
LEMMA PickWith ==
  ASSUME NEW c, NEW d
  PROVE  /\ [Pick(c) EXCEPT !.commit = d] = Pick(d)
         /\ [UntrackedPick(c) EXCEPT !.commit = d] = UntrackedPick(d)
<1>1. /\ Pick(c) \in [kind : {"pick"}, commit : {c}, tracked : {TRUE}]
      /\ UntrackedPick(c) \in [kind : {"pick"}, commit : {c}, tracked : {FALSE}]
  BY DEF Pick, UntrackedPick
<1>2. /\ [Pick(c) EXCEPT !.commit = d] \in [kind : {"pick"}, commit : {d}, tracked : {TRUE}]
      /\ [UntrackedPick(c) EXCEPT !.commit = d] \in [kind : {"pick"}, commit : {d}, tracked : {FALSE}]
  BY <1>1
<1> DEFINE r == [Pick(c) EXCEPT !.commit = d]
           f == [UntrackedPick(c) EXCEPT !.commit = d]
<1>3. r \in [kind : {"pick"}, commit : {d}, tracked : {TRUE}] /\ f \in [kind : {"pick"}, commit : {d}, tracked : {FALSE}]
  BY <1>2
<1> HIDE DEF r, f
<1>4. /\ r = [kind |-> "pick", commit |-> d, tracked |-> TRUE]
      /\ f = [kind |-> "pick", commit |-> d, tracked |-> FALSE]
  BY <1>3
<1> QED BY <1>4, Zenon DEF r, f, Pick, UntrackedPick

\* A record with the fields of a commit is one.
LEMMA CommitIs ==
  ASSUME NEW a, NEW m, NEW p, NEW x, NEW y, NEW d,
         d = [change |-> a, message |-> m, parents |-> p, past |-> Past(p), tree |-> x, sides |-> y]
  PROVE  IsCommit(d) /\ d.change = a /\ d.parents = p /\ d.tree = x /\ d.sides = y /\ d.message = m
  BY DEF IsCommit

\* A commit put onto other parents, field by field.
LEMMA OnParentsIs ==
  ASSUME NEW c, IsCommit(c), NEW parents, NEW tree, NEW sides
  PROVE  [OnParents(c, parents) EXCEPT !.tree = tree, !.sides = sides] =
           [change |-> c.change, message |-> c.message, parents |-> parents,
            past |-> Past(parents), tree |-> tree, sides |-> sides]
<1> DEFINE d == [OnParents(c, parents) EXCEPT !.tree = tree, !.sides = sides]
<1>1. PICK a, m, p, q, x, y : c = [change |-> a, message |-> m, parents |-> p, past |-> q, tree |-> x, sides |-> y]
  BY DEF IsCommit
<1>2. c \in [change : {a}, message : {m}, parents : {p}, past : {q}, tree : {x}, sides : {y}]
  BY <1>1
<1>3. OnParents(c, parents) \in
        [change : {a}, message : {m}, parents : {parents}, past : {Past(parents)}, tree : {x}, sides : {y}]
  BY <1>2 DEF OnParents
<1>4. d \in [change : {a}, message : {m}, parents : {parents}, past : {Past(parents)}, tree : {tree}, sides : {sides}]
  BY <1>3
<1>5. c.change = a /\ c.message = m
  BY <1>1
<1> HIDE <1>1
<1> HIDE DEF d
<1>6. d = [change |-> a, message |-> m, parents |-> parents, past |-> Past(parents), tree |-> tree, sides |-> sides]
  BY <1>4
<1> QED BY <1>5, <1>6 DEF d

\* cherry_pick gives a commit of the same change and message, on the parents it was to be
\* picked onto.
LEMMA CherryPickIs ==
  ASSUME NEW c, IsCommit(c), NEW ontos
  PROVE  /\ IsCommit(CherryPick(c, ontos)) /\ CherryPick(c, ontos).change = c.change
         /\ CherryPick(c, ontos).parents = ontos
         /\ CherryPick(c, ontos).message = c.message
<1>1. CASE ontos = c.parents
  BY <1>1 DEF CherryPick
<1>2. CASE ontos # c.parents
  <2> DEFINE base == BaseTree(c)
             onto == MergedTree(ontos).tree
             tree == Merge(base, onto, TheirTree(c))
             sides == IF Clashes(base, onto, TheirTree(c)) = {} THEN <<>> ELSE <<base, TheirTree(c)>>
             d == [OnParents(c, ontos) EXCEPT !.tree = tree, !.sides = sides]
  <2>1. CherryPick(c, ontos) = d
    BY <1>2 DEF CherryPick
  <2> HIDE DEF tree, sides
  <2>2. d = [change |-> c.change, message |-> c.message, parents |-> ontos,
            past |-> Past(ontos), tree |-> tree, sides |-> sides]
    BY OnParentsIs, Zenon
  <2> HIDE DEF d
  <2>3. IsCommit(d) /\ d.change = c.change /\ d.parents = ontos /\ d.message = c.message
    BY <2>2, CommitIs
  <2> QED BY <2>1, <2>3
<1> QED BY <1>1, <1>2

\* update_mapping with a commit and what became of it keeps every mapping within its change.
LEMMA MappingKeepsChanges ==
  ASSUME NEW h, SameChanges(h), NEW from, NEW to, from.change = to.change
  PROVE  SameChanges(UpdateMapping(h, from, to))
<1> DEFINE new == UpdateMapping(h, from, to)
<1> SUFFICES ASSUME NEW d \in DOMAIN new PROVE new[d].change = d.change
  BY DEF SameChanges
<1>1. CASE d = to
  <2>1. new[d] = IF from \in DOMAIN h THEN h[from] ELSE from
    BY <1>1 DEF UpdateMapping
  <2> HIDE DEF new
  <2> QED BY <1>1, <2>1 DEF SameChanges
<1>2. CASE d # to
  <2>1. d \in DOMAIN h /\ new[d] = h[d]
    BY <1>2 DEF UpdateMapping
  <2> HIDE DEF new
  <2> QED BY <2>1 DEF SameChanges
<1> QED BY <1>1, <1>2

\* Picking one commit leaves a session over a graph like the first.
LEMMA PickStepIs ==
  ASSUME NEW s, NEW g, NEW w, NEW t, Editing(s, g, w, t), NEW n \in DOMAIN g.parents
  PROVE  Editing(PickStep(s, n), g, w, t)
<1> DEFINE step == s.graph.step[n]
           ontos == ParentCommits(s.graph, n)
           new == CherryPick(step.commit, ontos)
           now == [step EXCEPT !.commit = new]
           d == Replace(s.graph, n, now)
           h == IF step.tracked THEN UpdateMapping(s.history, step.commit, new) ELSE s.history
<1>1. /\ s = [graph |-> s.graph, history |-> s.history, ok |-> s.ok]
      /\ Workspace(s.graph, w, t, {}) /\ SameChanges(s.history) /\ Alike(g, s.graph)
  BY DEF Editing
<1>2. CASE ~s.ok \/ step.kind # "pick"
  BY <1>2 DEF PickStep
<1>3. CASE s.ok /\ step.kind = "pick" /\ ontos # step.commit.parents /\ ~MergedTree(ontos).clean
  <2>1. PickStep(s, n) = Failed(s)
    BY <1>3 DEF PickStep
  <2>2. Failed(s) = [graph |-> s.graph, history |-> s.history, ok |-> FALSE]
    BY <1>1, SessionWith, Zenon DEF Failed
  <2> QED BY <1>1, <2>1, <2>2 DEF Editing
<1>4. CASE s.ok /\ step.kind = "pick" /\ ~(ontos # step.commit.parents /\ ~MergedTree(ontos).clean)
  <2>1. PickStep(s, n) = [s EXCEPT !.graph = d, !.history = h]
    BY <1>4 DEF PickStep
  <2>2. [s EXCEPT !.graph = d, !.history = h] = [graph |-> d, history |-> h, ok |-> s.ok]
    <3> HIDE DEF d, h
    <3> QED BY <1>1, SessionWith, Zenon
  <2>3. /\ DOMAIN s.graph.parents = 1 .. Len(s.graph.parents) /\ n \in DOMAIN s.graph.parents
        /\ DOMAIN s.graph.step = 1 .. Len(s.graph.parents)
        /\ IsStep(step) /\ Steps(Len(s.graph.parents), s.graph.step, w, t)
    BY <1>1, WorkspaceIs DEF Alike
  <2>4. IsCommit(step.commit) /\ step \in {Pick(step.commit), UntrackedPick(step.commit)}
    BY <1>4, <2>3, KindOf
  <2>5. IsCommit(new) /\ new.change = step.commit.change
    BY <2>4, CherryPickIs
  <2>6. /\ now \in {Pick(new), UntrackedPick(new)} /\ now.commit = new
        /\ now.kind = "pick" /\ now.tracked = step.tracked
    <3>1. \A c : /\ [Pick(c) EXCEPT !.commit = new] = Pick(new)
                 /\ [UntrackedPick(c) EXCEPT !.commit = new] = UntrackedPick(new)
      BY PickWith, Zenon
    <3>2. CASE step = Pick(step.commit)
      <4>1. now = Pick(new)
        <5> HIDE DEF new, step
        <5> QED BY <3>1, <3>2, Zenon
      <4>2. Pick(step.commit).tracked = TRUE
        BY Kinds
      <4>3. step.tracked = TRUE
        BY <3>2, <4>2
      <4> HIDE DEF new, step, now
      <4> QED BY <4>1, <4>3, Kinds
    <3>3. CASE step = UntrackedPick(step.commit)
      <4>1. now = UntrackedPick(new)
        <5> HIDE DEF new, step
        <5> QED BY <3>1, <3>3, Zenon
      <4>2. UntrackedPick(step.commit).tracked = FALSE
        BY Kinds
      <4>3. step.tracked = FALSE
        BY <3>3, <4>2
      <4> HIDE DEF new, step, now
      <4> QED BY <4>1, <4>3, Kinds
    <3> QED BY <2>4, <3>2, <3>3
  <2> HIDE DEF now, new, h, d
  <2>7. IsStep(now) /\ now # NoStep
    BY <2>5, <2>6, Kinds DEF IsStep
  <2>8. n # t
    <3>1. step # Reference("workspace")
      BY <1>4, Kinds
    <3> QED BY <2>3, <3>1 DEF Steps
  <2>9. SameChanges(h)
    BY <1>1, <2>5, MappingKeepsChanges DEF h
  <2>10. CASE n = 1
    <3>1. step = Pick(TargetCommit) /\ ontos = <<>>
      BY <1>1, <2>3, <2>10, TargetHasNoParents DEF Steps
    <3>2. TargetCommit.parents = <<>> /\ step.commit = TargetCommit
      <4>1. step.commit = TargetCommit
        BY <3>1, Kinds, ZenonT(40)
      <4>2. TargetCommit.parents = <<>>
        BY DEF TargetCommit, NewCommit
      <4> QED BY <4>1, <4>2
    <3>3. new = step.commit
      BY <3>1, <3>2 DEF new, CherryPick
    <3>4. now = step
      BY <3>1, <3>3 DEF now, Pick
    <3>5. s.graph = [step |-> s.graph.step, parents |-> s.graph.parents]
      BY <1>1 DEF Workspace
    <3>6. [s.graph.step EXCEPT ![n] = now] = s.graph.step
      <4>1. s.graph.step \in Seq(ToSet(s.graph.step))
        BY <2>3 DEF Steps
      <4>2. s.graph.step[n] = now
        BY <3>4 DEF step
      <4> QED BY <2>3, <4>1, <4>2
    <3>7. d = s.graph
      BY <3>5, <3>6 DEF d, Replace
    <3> QED BY <1>1, <2>1, <2>2, <2>9, <3>7 DEF Editing
  <2>11. CASE n # 1
    <3>1. MayReplace(s.graph, w, t, n, now)
      BY <1>4, <2>3, <2>5, <2>6, <2>7, <2>8, <2>11 DEF MayReplace
    <3>2. /\ Workspace(d, w, t, {})
          /\ d.step[n] = now /\ \A m \in DOMAIN s.graph.parents \ {n} : d.step[m] = s.graph.step[m]
          /\ d.parents = s.graph.parents /\ DOMAIN d.step = DOMAIN s.graph.step
      <4>1. (IF now = NoStep THEN {} \ {n} ELSE {}) = {}
        OBVIOUS
      <4>2. Workspace(d, w, t, IF now = NoStep THEN {} \ {n} ELSE {})
        BY <1>1, <3>1, ReplacedStays DEF d
      <4>3. /\ d.step[n] = now /\ \A m \in DOMAIN s.graph.parents \ {n} : d.step[m] = s.graph.step[m]
            /\ d.parents = s.graph.parents /\ DOMAIN d.step = DOMAIN s.graph.step
        BY <1>1, <3>1, ReplacedSteps DEF d
      <4> QED BY <4>1, <4>2, <4>3
    <3>3. Alike(g, d)
      BY <1>1, <1>4, <2>3, <2>5, <2>6, <3>2 DEF Alike
    <3> QED BY <2>1, <2>2, <2>9, <3>2, <3>3 DEF Editing
  <2> QED BY <2>10, <2>11
<1> QED BY <1>2, <1>3, <1>4

\* The walk of PickAll.
IsPickAll(s, order, walk) ==
  /\ walk[0] = s
  /\ \A k \in 1 .. Len(order) : walk[k] = PickStep(walk[k - 1], order[k])
  /\ PickAll(s, order) = walk[Len(order)]

\* The walk of PickAll exists.
LEMMA PickAllIs ==
  ASSUME NEW s, NEW order, Len(order) \in Nat
  PROVE  \E walk : IsPickAll(s, order, walk)
<1> DEFINE N == Len(order)
           Fits(f, n) == f = [k \in 0 .. n |-> IF k = 0 THEN s ELSE PickStep(f[k - 1], order[k])]
           S == {n \in Nat : \E f : Fits(f, n)}
           walk == CHOOSE walk : walk = [k \in 0 .. Len(order) |->
                      IF k = 0 THEN s ELSE PickStep(walk[k - 1], order[k])]
<1>1. 0 \in S
  <2> DEFINE f == [k \in 0 .. 0 |-> s]
  <2>1. Fits(f, 0)
    OBVIOUS
  <2> HIDE DEF f, Fits
  <2> QED BY <2>1
<1>2. ASSUME NEW n \in Nat, n \in S PROVE n + 1 \in S
  <2>1. PICK f : Fits(f, n)
    BY <1>2
  <2> DEFINE f2 == [k \in 0 .. n + 1 |-> IF k = 0 THEN s ELSE PickStep(f[k - 1], order[k])]
  <2>2. \A k \in 0 .. n : f2[k] = f[k]
    <3>1. \A k \in 0 .. n : k \in 0 .. n + 1
      OBVIOUS
    <3> QED BY <2>1, <3>1
  <2>3. \A k \in 0 .. n + 1 : k # 0 => k - 1 \in 0 .. n
    OBVIOUS
  <2>4. f2 = [k \in 0 .. n + 1 |-> IF k = 0 THEN s ELSE PickStep(f2[k - 1], order[k])]
    <3> DEFINE f3 == [k \in 0 .. n + 1 |-> IF k = 0 THEN s ELSE PickStep(f2[k - 1], order[k])]
    <3>1. \A k \in 0 .. n + 1 : f3[k] = f2[k]
      <4> SUFFICES ASSUME NEW k \in 0 .. n + 1 PROVE f3[k] = f2[k]
        OBVIOUS
      <4>1. f3[k] = IF k = 0 THEN s ELSE PickStep(f2[k - 1], order[k])
        OBVIOUS
      <4>2. f2[k] = IF k = 0 THEN s ELSE PickStep(f[k - 1], order[k])
        OBVIOUS
      <4> HIDE DEF f2, f3
      <4> QED BY <2>2, <2>3, <4>1, <4>2
    <3>2. f3 = [k \in 0 .. n + 1 |-> f3[k]] /\ f2 = [k \in 0 .. n + 1 |-> f2[k]]
      OBVIOUS
    <3>3. f3 = f2
      <4> HIDE DEF f2, f3
      <4> QED BY <3>1, <3>2
    <3> QED BY <3>3
  <2>5. Fits(f2, n + 1)
    BY <2>4
  <2> HIDE DEF f2, Fits
  <2> QED BY <2>5
<1>3. N \in S
  <2> HIDE DEF S
  <2>1. Nat \subseteq S
    BY <1>1, <1>2, SetInduction
  <2> QED BY <2>1
<1>4. PICK f : Fits(f, N)
  BY <1>3
<1>5. walk = [k \in 0 .. Len(order) |-> IF k = 0 THEN s ELSE PickStep(walk[k - 1], order[k])]
  BY <1>4, Zenon
<1>6. PickAll(s, order) = walk[Len(order)]
  BY DEF PickAll
<1> HIDE DEF walk
<1>7. walk[0] = s
  BY <1>5
<1>8. ASSUME NEW k \in 1 .. N PROVE walk[k] = PickStep(walk[k - 1], order[k])
  <2>1. k \in 0 .. N /\ k # 0
    OBVIOUS
  <2> QED BY <1>5, <2>1
<1> QED BY <1>6, <1>7, <1>8 DEF IsPickAll

\* A session in which nothing was picked yet.
LEMMA SessionIs ==
  ASSUME NEW g, NEW w, NEW t, Workspace(g, w, t, {}), NEW h, SameChanges(h)
  PROVE  Editing(Session(g, h), g, w, t)
  BY DEF Editing, Session, Alike

\* A rebase leaves all of the graph but the commits: the nodes, the edges, and of every commit
\* its change.
LEMMA RebaseIs ==
  ASSUME NEW s, NEW g, NEW w, NEW t, Editing(s, g, w, t)
  PROVE  Editing(Rebase(s), g, w, t)
<1> DEFINE ps == s.graph.parents
           N == Len(ps)
           order == PickingOrder(ps)
<1>1. N \in Nat /\ ps \in Parents(N) /\ DOMAIN ps = 1 .. N /\ g.parents = ps
  BY WorkspaceIs DEF Editing, Alike
<1>2. order \in Seq(1 .. N) /\ Len(order) \in Nat
  BY <1>1, OrderIs DEF InOrder
<1>3. PICK walk : IsPickAll(s, order, walk)
  BY <1>2, PickAllIs
<1> HIDE DEF order
<1>4. 0 .. Len(order) \subseteq {k \in 0 .. Len(order) : Editing(walk[k], g, w, t)}
  <2> DEFINE S == {k \in 0 .. Len(order) : Editing(walk[k], g, w, t)}
  <2>1. 0 \in S
    BY <1>2, <1>3 DEF IsPickAll
  <2>2. ASSUME NEW i \in 1 .. Len(order), i - 1 \in S PROVE i \in S
    <3>1. order[i] \in DOMAIN g.parents
      BY <1>1, <1>2
    <3>2. walk[i] = PickStep(walk[i - 1], order[i])
      BY <1>3 DEF IsPickAll
    <3>3. Editing(walk[i - 1], g, w, t)
      BY <2>2
    <3>4. Editing(walk[i], g, w, t)
      BY <3>1, <3>2, <3>3, PickStepIs
    <3> QED BY <3>4
  <2> HIDE DEF S
  <2>3. 0 .. Len(order) \subseteq S
    BY <1>2, <2>1, <2>2, BoundedInduction
  <2> QED BY <2>3 DEF S
<1>5. Editing(walk[Len(order)], g, w, t)
  BY <1>2, <1>4
<1>6. PickAll(s, order) = walk[Len(order)]
  BY <1>3 DEF IsPickAll
<1> QED BY <1>5, <1>6 DEF Rebase, order

-----------------------------------------------------------------------------
(* Moving and discarding any number of commits.                            *)

\* The walk of MoveAll.
IsMoveAll(g, sequence, anchor, side, walk) ==
  /\ walk[0] = g
  /\ \A k \in 1 .. Len(sequence) : walk[k] = MoveOne(walk[k - 1], sequence[k], anchor, side)
  /\ MoveAll(g, sequence, anchor, side) = walk[Len(sequence)]

\* It exists: a walk of n steps goes on to one of n + 1 steps.
LEMMA MoveAllIs ==
  ASSUME NEW g, NEW sequence, NEW anchor, NEW side, Len(sequence) \in Nat
  PROVE  \E walk : IsMoveAll(g, sequence, anchor, side, walk)
<1> DEFINE N == Len(sequence)
           Fits(f, n) == f = [k \in 0 .. n |-> IF k = 0 THEN g ELSE MoveOne(f[k - 1], sequence[k], anchor, side)]
           S == {n \in Nat : \E f : Fits(f, n)}
           walk == CHOOSE walk : walk = [k \in 0 .. Len(sequence) |->
                      IF k = 0 THEN g ELSE MoveOne(walk[k - 1], sequence[k], anchor, side)]
<1>1. 0 \in S
  <2> DEFINE f == [k \in 0 .. 0 |-> g]
  <2>1. Fits(f, 0)
    OBVIOUS
  <2> HIDE DEF f, Fits
  <2> QED BY <2>1
<1>2. ASSUME NEW n \in Nat, n \in S PROVE n + 1 \in S
  <2>1. PICK f : Fits(f, n)
    BY <1>2
  <2> DEFINE f2 == [k \in 0 .. n + 1 |-> IF k = 0 THEN g ELSE MoveOne(f[k - 1], sequence[k], anchor, side)]
             f3 == [k \in 0 .. n + 1 |-> IF k = 0 THEN g ELSE MoveOne(f2[k - 1], sequence[k], anchor, side)]
  <2>2. \A k \in 0 .. n : f2[k] = f[k]
    <3>1. \A k \in 0 .. n : k \in 0 .. n + 1
      OBVIOUS
    <3> QED BY <2>1, <3>1
  <2>3. \A k \in 0 .. n + 1 : k # 0 => k - 1 \in 0 .. n
    OBVIOUS
  <2>4. \A k \in 0 .. n + 1 : f3[k] = f2[k]
    <3> SUFFICES ASSUME NEW k \in 0 .. n + 1 PROVE f3[k] = f2[k]
      OBVIOUS
    <3>1. f3[k] = IF k = 0 THEN g ELSE MoveOne(f2[k - 1], sequence[k], anchor, side)
      OBVIOUS
    <3>2. f2[k] = IF k = 0 THEN g ELSE MoveOne(f[k - 1], sequence[k], anchor, side)
      OBVIOUS
    <3> HIDE DEF f2, f3
    <3> QED BY <2>2, <2>3, <3>1, <3>2
  <2>5. f3 = [k \in 0 .. n + 1 |-> f3[k]] /\ f2 = [k \in 0 .. n + 1 |-> f2[k]]
    OBVIOUS
  <2>6. f3 = f2
    <3> HIDE DEF f2, f3
    <3> QED BY <2>4, <2>5
  <2>7. Fits(f2, n + 1)
    BY <2>6
  <2> HIDE DEF f2, Fits
  <2> QED BY <2>7
<1>3. N \in S
  <2> HIDE DEF S
  <2>1. Nat \subseteq S
    BY <1>1, <1>2, SetInduction
  <2> QED BY <2>1
<1>4. PICK f : Fits(f, N)
  BY <1>3
<1>5. walk = [k \in 0 .. Len(sequence) |-> IF k = 0 THEN g ELSE MoveOne(walk[k - 1], sequence[k], anchor, side)]
  BY <1>4, Zenon
<1>6. MoveAll(g, sequence, anchor, side) = walk[Len(sequence)]
  BY DEF MoveAll
<1> HIDE DEF walk
<1>7. walk[0] = g
  BY <1>5
<1>8. ASSUME NEW k \in 1 .. N PROVE walk[k] = MoveOne(walk[k - 1], sequence[k], anchor, side)
  <2>1. k \in 0 .. N /\ k # 0
    OBVIOUS
  <2> QED BY <1>5, <2>1
<1> QED BY <1>6, <1>7, <1>8 DEF IsMoveAll

\* The walk of DiscardAll.
IsDiscardAll(g, nodes, walk) ==
  /\ walk[0] = g
  /\ \A k \in 1 .. Len(g.step) : walk[k] = (IF k \in nodes THEN DiscardOne(walk[k - 1], k) ELSE walk[k - 1])
  /\ DiscardAll(g, nodes) = walk[Len(g.step)]

\* It exists: a walk of n steps goes on to one of n + 1 steps.
LEMMA DiscardAllIs ==
  ASSUME NEW g, NEW nodes, Len(g.step) \in Nat
  PROVE  \E walk : IsDiscardAll(g, nodes, walk)
<1> DEFINE N == Len(g.step)
           Fits(f, n) == f = [k \in 0 .. n |-> IF k = 0 THEN g ELSE IF k \in nodes THEN DiscardOne(f[k - 1], k) ELSE f[k - 1]]
           S == {n \in Nat : \E f : Fits(f, n)}
           walk == CHOOSE walk : walk = [k \in 0 .. Len(g.step) |->
                      IF k = 0 THEN g ELSE IF k \in nodes THEN DiscardOne(walk[k - 1], k) ELSE walk[k - 1]]
<1>1. 0 \in S
  <2> DEFINE f == [k \in 0 .. 0 |-> g]
  <2>1. Fits(f, 0)
    OBVIOUS
  <2> HIDE DEF f, Fits
  <2> QED BY <2>1
<1>2. ASSUME NEW n \in Nat, n \in S PROVE n + 1 \in S
  <2>1. PICK f : Fits(f, n)
    BY <1>2
  <2> DEFINE f2 == [k \in 0 .. n + 1 |-> IF k = 0 THEN g ELSE IF k \in nodes THEN DiscardOne(f[k - 1], k) ELSE f[k - 1]]
             f3 == [k \in 0 .. n + 1 |-> IF k = 0 THEN g ELSE IF k \in nodes THEN DiscardOne(f2[k - 1], k) ELSE f2[k - 1]]
  <2>2. \A k \in 0 .. n : f2[k] = f[k]
    <3>1. \A k \in 0 .. n : k \in 0 .. n + 1
      OBVIOUS
    <3> QED BY <2>1, <3>1
  <2>3. \A k \in 0 .. n + 1 : k # 0 => k - 1 \in 0 .. n
    OBVIOUS
  <2>4. \A k \in 0 .. n + 1 : f3[k] = f2[k]
    <3> SUFFICES ASSUME NEW k \in 0 .. n + 1 PROVE f3[k] = f2[k]
      OBVIOUS
    <3>1. f3[k] = IF k = 0 THEN g ELSE IF k \in nodes THEN DiscardOne(f2[k - 1], k) ELSE f2[k - 1]
      OBVIOUS
    <3>2. f2[k] = IF k = 0 THEN g ELSE IF k \in nodes THEN DiscardOne(f[k - 1], k) ELSE f[k - 1]
      OBVIOUS
    <3> HIDE DEF f2, f3
    <3> QED BY <2>2, <2>3, <3>1, <3>2
  <2>5. f3 = [k \in 0 .. n + 1 |-> f3[k]] /\ f2 = [k \in 0 .. n + 1 |-> f2[k]]
    OBVIOUS
  <2>6. f3 = f2
    <3> HIDE DEF f2, f3
    <3> QED BY <2>4, <2>5
  <2>7. Fits(f2, n + 1)
    BY <2>6
  <2> HIDE DEF f2, Fits
  <2> QED BY <2>7
<1>3. N \in S
  <2> HIDE DEF S
  <2>1. Nat \subseteq S
    BY <1>1, <1>2, SetInduction
  <2> QED BY <2>1
<1>4. PICK f : Fits(f, N)
  BY <1>3
<1>5. walk = [k \in 0 .. Len(g.step) |-> IF k = 0 THEN g ELSE IF k \in nodes THEN DiscardOne(walk[k - 1], k) ELSE walk[k - 1]]
  BY <1>4, Zenon
<1>6. DiscardAll(g, nodes) = walk[Len(g.step)]
  BY DEF DiscardAll
<1> HIDE DEF walk
<1>7. walk[0] = g
  BY <1>5
<1>8. ASSUME NEW k \in 1 .. N PROVE walk[k] = (IF k \in nodes THEN DiscardOne(walk[k - 1], k) ELSE walk[k - 1])
  <2>1. k \in 0 .. N /\ k # 0
    OBVIOUS
  <2> QED BY <1>5, <2>1
<1> QED BY <1>6, <1>7, <1>8 DEF IsDiscardAll

\* An anchor next to which nodes may be put.
IsAnchor(g, w, t, anchor, side) ==
  /\ anchor \in DOMAIN g.parents \ {1, w, t} /\ g.step[anchor] # NoStep
  /\ side \in Sides
  /\ side = "Above" => anchor \notin ToSet(g.parents[w])

\* Moving one commit leaves a workspace, with the steps it had and the same tops of stacks.
LEMMA MoveOneIs ==
  ASSUME NEW g, NEW w, NEW t, Workspace(g, w, t, {}), NEW n, Free(g, w, n),
         NEW anchor, NEW side, IsAnchor(g, w, t, anchor, side), anchor # n
  PROVE  /\ Workspace(MoveOne(g, n, anchor, side), w, t, {})
         /\ MoveOne(g, n, anchor, side).step = g.step
         /\ Len(MoveOne(g, n, anchor, side).parents) = Len(g.parents)
         /\ MoveOne(g, n, anchor, side).parents[w] = g.parents[w]
<1> DEFINE d == Disconnect(g, n)
<1>1. /\ d.step = g.step /\ Workspace(d, w, t, {n}) /\ Len(d.parents) = Len(g.parents)
      /\ d.parents[n] = <<>> /\ d.parents[w] = g.parents[w]
  BY DisconnectIs
<1> HIDE DEF d
<1>2. DOMAIN g.parents = 1 .. Len(g.parents) /\ DOMAIN d.parents = 1 .. Len(g.parents)
  BY <1>1, WorkspaceIs
<1>3. MayInsert(d, w, t, n, anchor, side)
  <2>1. n \in DOMAIN d.parents \ {1, w, t}
    BY <1>2, FreeIs
  <2> QED BY <1>1, <1>2, <2>1 DEF IsAnchor, MayInsert
<1>4. /\ Insert(d, n, anchor, side).step = d.step
      /\ Workspace(Insert(d, n, anchor, side), w, t, {})
      /\ Len(Insert(d, n, anchor, side).parents) = Len(d.parents)
      /\ Insert(d, n, anchor, side).parents[w] = d.parents[w]
  BY <1>1, <1>3, InsertIs
<1> QED BY <1>1, <1>4 DEF MoveOne, d

\* Moving any commits, one by one, next to one that is not among them leaves a workspace with
\* the steps it had.
LEMMA MovedIs ==
  ASSUME NEW g, NEW w, NEW t, Workspace(g, w, t, {}),
         NEW anchor, NEW side, IsAnchor(g, w, t, anchor, side),
         NEW sequence, sequence \in Seq(ToSet(sequence)),
         \A n \in ToSet(sequence) : Free(g, w, n) /\ n # anchor
  PROVE  /\ Workspace(MoveAll(g, sequence, anchor, side), w, t, {})
         /\ MoveAll(g, sequence, anchor, side).step = g.step
<1>1. Len(sequence) \in Nat /\ \A k \in 1 .. Len(sequence) : sequence[k] \in ToSet(sequence)
  BY SeqFacts
<1>2. PICK walk : IsMoveAll(g, sequence, anchor, side, walk)
  BY <1>1, MoveAllIs
<1> DEFINE Fine(d) == /\ Workspace(d, w, t, {}) /\ d.step = g.step
                      /\ Len(d.parents) = Len(g.parents) /\ d.parents[w] = g.parents[w]
           S == {k \in 0 .. Len(sequence) : Fine(walk[k])}
<1>3. 0 \in S
  BY <1>1, <1>2 DEF IsMoveAll
<1>4. ASSUME NEW i \in 1 .. Len(sequence), i - 1 \in S PROVE i \in S
  <2> DEFINE d == walk[i - 1]
             n == sequence[i]
  <2>1. Fine(d) /\ n \in ToSet(sequence)
    BY <1>1, <1>4
  <2>2. walk[i] = MoveOne(d, n, anchor, side)
    BY <1>2 DEF IsMoveAll
  <2> HIDE DEF d, n
  <2>3. DOMAIN d.parents = DOMAIN g.parents
    <3>1. DOMAIN d.parents = 1 .. Len(d.parents) /\ DOMAIN g.parents = 1 .. Len(g.parents)
      BY <2>1, WorkspaceIs
    <3> QED BY <2>1, <3>1
  <2>4. Free(d, w, n) /\ n # anchor
    BY <2>1, <2>3 DEF Free
  <2>5. IsAnchor(d, w, t, anchor, side)
    BY <2>1, <2>3 DEF IsAnchor
  <2>6. Fine(MoveOne(d, n, anchor, side))
    BY <2>1, <2>4, <2>5, MoveOneIs
  <2> QED BY <2>2, <2>6
<1> HIDE DEF S
<1>5. 0 .. Len(sequence) \subseteq S
  BY <1>1, <1>3, <1>4, BoundedInduction
<1>6. Fine(walk[Len(sequence)])
  BY <1>1, <1>5 DEF S
<1> QED BY <1>2, <1>6 DEF IsMoveAll

\* Discarding a commit leaves a workspace without it.
LEMMA DiscardOneIs ==
  ASSUME NEW g, NEW w, NEW t, Workspace(g, w, t, {}), NEW n, Free(g, w, n)
  PROVE  /\ Workspace(DiscardOne(g, n), w, t, {})
         /\ DiscardOne(g, n).step[n] = NoStep
         /\ \A m \in DOMAIN g.parents \ {n} : DiscardOne(g, n).step[m] = g.step[m]
         /\ DOMAIN DiscardOne(g, n).parents = DOMAIN g.parents
         /\ DOMAIN DiscardOne(g, n).step = DOMAIN g.step
         /\ DiscardOne(g, n).parents = Unlinked(g.parents, n)
<1> DEFINE d == Disconnect(g, n)
<1>1. /\ d.step = g.step /\ d.parents = Unlinked(g.parents, n)
      /\ Workspace(d, w, t, {n}) /\ Len(d.parents) = Len(g.parents)
  BY DisconnectIs
<1>2. d.step = g.step /\ d.parents = Unlinked(g.parents, n)
  BY <1>1
<1> HIDE DEF d
<1>3. DOMAIN g.parents = 1 .. Len(g.parents) /\ DOMAIN d.parents = 1 .. Len(g.parents)
  BY <1>1, WorkspaceIs
<1>4. MayReplace(d, w, t, n, NoStep)
  <2>1. n \in DOMAIN d.parents \ {1, w, t}
    BY <1>3, FreeIs
  <2> QED BY <2>1 DEF MayReplace, IsStep
<1>5. /\ Replace(d, n, NoStep).step[n] = NoStep
      /\ \A m \in DOMAIN d.parents \ {n} : Replace(d, n, NoStep).step[m] = d.step[m]
      /\ Replace(d, n, NoStep).parents = d.parents
      /\ DOMAIN Replace(d, n, NoStep).step = DOMAIN d.step
  BY <1>1, <1>4, ReplacedSteps
<1>6. Workspace(Replace(d, n, NoStep), w, t, {})
  <2>1. Workspace(Replace(d, n, NoStep), w, t, IF NoStep = NoStep THEN {n} \ {n} ELSE {n})
    BY <1>1, <1>4, ReplacedStays
  <2>2. (IF NoStep = NoStep THEN {n} \ {n} ELSE {n}) = {}
    OBVIOUS
  <2> QED BY <2>1, <2>2
<1> QED BY <1>2, <1>3, <1>5, <1>6 DEF DiscardOne, d

\* What is left of a graph of which commits were taken out.
Without(g, nodes, d) ==
  /\ DOMAIN d.parents = DOMAIN g.parents /\ DOMAIN d.step = DOMAIN g.step
  /\ \A m \in DOMAIN g.parents : d.step[m] = IF m \in nodes THEN NoStep ELSE g.step[m]

\* Discarding any commits leaves a workspace without them, and with all others.
LEMMA DiscardedIs ==
  ASSUME NEW g, NEW w, NEW t, Workspace(g, w, t, {}),
         NEW nodes, \A n \in nodes : Free(g, w, n)
  PROVE  Workspace(DiscardAll(g, nodes), w, t, {}) /\ Without(g, nodes, DiscardAll(g, nodes))
<1> DEFINE N == Len(g.step)
<1>1. N \in Nat /\ DOMAIN g.parents = 1 .. N /\ DOMAIN g.step = 1 .. N
  BY WorkspaceIs
<1>2. PICK walk : IsDiscardAll(g, nodes, walk)
  BY <1>1, DiscardAllIs
<1> DEFINE Fine(k, d) == Workspace(d, w, t, {}) /\ Without(g, nodes \cap (1 .. k), d)
           S == {k \in 0 .. N : Fine(k, walk[k])}
<1>3. 0 \in S
  <2>1. 1 .. 0 = {} /\ walk[0] = g
    BY <1>2 DEF IsDiscardAll
  <2> QED BY <1>1, <2>1 DEF Without
<1>4. ASSUME NEW i \in 1 .. N, i - 1 \in S PROVE i \in S
  <2> DEFINE d == walk[i - 1]
  <2>1. Fine(i - 1, d)
    BY <1>4
  <2>2. walk[i] = IF i \in nodes THEN DiscardOne(d, i) ELSE d
    BY <1>2 DEF IsDiscardAll
  <2>3. 1 .. i = (1 .. i - 1) \cup {i} /\ i \notin 1 .. i - 1 /\ i \in 0 .. N
    OBVIOUS
  <2> HIDE DEF d
  <2>4. CASE i \notin nodes
    <3>1. nodes \cap (1 .. i) = nodes \cap (1 .. i - 1)
      BY <2>3, <2>4
    <3> QED BY <2>1, <2>2, <2>3, <2>4, <3>1
  <2>5. CASE i \in nodes
    <3>1. Free(d, w, i)
      <4>1. Free(g, w, i)
        BY <2>5
      <4>2. d.step[i] = g.step[i] /\ DOMAIN d.parents = DOMAIN g.parents
        BY <1>1, <2>1, <2>3 DEF Without
      <4> QED BY <4>1, <4>2 DEF Free
    <3> DEFINE e == DiscardOne(d, i)
    <3>2. /\ Workspace(e, w, t, {}) /\ e.step[i] = NoStep
          /\ \A m \in DOMAIN d.parents \ {i} : e.step[m] = d.step[m]
          /\ DOMAIN e.parents = DOMAIN d.parents /\ DOMAIN e.step = DOMAIN d.step
      BY <2>1, <3>1, DiscardOneIs
    <3> HIDE DEF e
    <3>3. Without(g, nodes \cap (1 .. i), e)
      BY <2>1, <2>3, <2>5, <3>2 DEF Without
    <3> QED BY <2>2, <2>3, <2>5, <3>2, <3>3 DEF e
  <2> QED BY <2>4, <2>5
<1> HIDE DEF S
<1>5. 0 .. N \subseteq S
  BY <1>1, <1>3, <1>4, BoundedInduction
<1>6. Fine(N, walk[N])
  <2>1. N \in S
    BY <1>1, <1>5
  <2> QED BY <2>1 DEF S
<1>7. Without(g, nodes, walk[N])
  BY <1>1, <1>6 DEF Without
<1> QED BY <1>2, <1>6, <1>7 DEF IsDiscardAll

\* A node that is added next to an anchor.
LEMMA AddedIs ==
  ASSUME NEW g, NEW w, NEW t, Workspace(g, w, t, {}), NEW s, MayAdd(g, s),
         NEW anchor, NEW side, IsAnchor(g, w, t, anchor, side)
  PROVE  LET n == Len(g.step) + 1
             d == Insert(AddStep(g, s, <<>>), n, anchor, side)
         IN /\ Workspace(d, w, t, {})
            /\ DOMAIN d.step = DOMAIN g.step \cup {n} /\ n \notin DOMAIN g.step
            /\ d.step[n] = s /\ \A m \in DOMAIN g.step : d.step[m] = g.step[m]
            /\ d.parents[w] = g.parents[w]
<1> DEFINE N == Len(g.step)
           n == N + 1
           a == AddStep(g, s, <<>>)
           d == Insert(a, n, anchor, side)
<1>1. /\ N \in Nat /\ Len(g.parents) = N /\ DOMAIN g.parents = 1 .. N /\ DOMAIN g.step = 1 .. N
      /\ w \in 1 .. N /\ t \in 1 .. N
  BY WorkspaceIs
<1>2. /\ Workspace(a, w, t, {n})
      /\ Len(a.parents) = n /\ n \in DOMAIN a.parents \ {1, w, t}
      /\ a.parents[n] = <<>> /\ a.step[n] = s
      /\ \A m \in DOMAIN g.parents : a.parents[m] = g.parents[m] /\ a.step[m] = g.step[m]
  <2>1. n = Len(g.parents) + 1
    BY <1>1
  <2> HIDE <1>1
  <2> HIDE DEF n, N, d
  <2>2. Workspace(a, w, t, {Len(g.parents) + 1})
    BY AddStepIs
  <2>3. Len(a.parents) = Len(g.parents) + 1 /\ Len(g.parents) + 1 \in DOMAIN a.parents \ {1, w, t}
    BY AddStepIs
  <2>4. a.parents[Len(g.parents) + 1] = <<>> /\ a.step[Len(g.parents) + 1] = s
    BY AddStepIs, ZenonT(40)
  <2>5. \A m \in DOMAIN g.parents : a.parents[m] = g.parents[m] /\ a.step[m] = g.step[m]
    <3>1. g.parents \in Seq(Seq(1 .. Len(g.parents))) /\ DOMAIN g.parents = 1 .. Len(g.parents)
      BY WorkspaceIs, ParentsAre
    <3>2. g.step \in Seq(ToSet(g.step)) /\ DOMAIN g.step = 1 .. Len(g.parents)
      BY WorkspaceIs
    <3>3. a.parents = Append(g.parents, <<>>) /\ a.step = Append(g.step, s)
      BY DEF AddStep
    <3> HIDE DEF a
    <3> QED BY <3>1, <3>2, <3>3
  <2> HIDE DEF a
  <2> QED BY <2>1, <2>2, <2>3, <2>4, <2>5
<1> HIDE DEF a
<1>3. DOMAIN a.parents = 1 .. n /\ DOMAIN a.step = 1 .. n
  BY <1>2, WorkspaceIs
<1>4. 1 .. n = (1 .. N) \cup {n} /\ n \notin 1 .. N
  BY <1>1
<1>5. /\ anchor \in DOMAIN a.parents \ {1, w, t, n} /\ a.step[anchor] # NoStep /\ side \in Sides
      /\ side = "Above" => anchor \notin ToSet(a.parents[w])
  BY <1>1, <1>2, <1>3, <1>4 DEF IsAnchor
<1>6. d.step = a.step /\ Workspace(d, w, t, {}) /\ d.parents[w] = a.parents[w]
  <2> HIDE DEF n
  <2>1. MayInsert(a, w, t, n, anchor, side)
    BY <1>2, <1>5 DEF MayInsert
  <2> QED BY <1>2, <2>1, InsertIs
<1> HIDE DEF d
<1> QED BY <1>1, <1>2, <1>3, <1>4, <1>6 DEF d, a

\* The walk of AddItems.
IsAddItems(start, stack, walk) ==
  /\ walk[0] = start
  /\ \A k \in 1 .. Len(stack) : walk[k] = AddItem(walk[k - 1], stack[k])
  /\ AddItems(start, stack) = walk[Len(stack)]

\* It exists: a walk of n steps goes on to one of n + 1 steps.
LEMMA AddItemsIs ==
  ASSUME NEW start, NEW stack, Len(stack) \in Nat
  PROVE  \E walk : IsAddItems(start, stack, walk)
<1> DEFINE N == Len(stack)
           Fits(f, n) == f = [k \in 0 .. n |-> IF k = 0 THEN start ELSE AddItem(f[k - 1], stack[k])]
           S == {n \in Nat : \E f : Fits(f, n)}
           walk == CHOOSE walk : walk = [k \in 0 .. Len(stack) |->
                      IF k = 0 THEN start ELSE AddItem(walk[k - 1], stack[k])]
<1>1. 0 \in S
  <2> DEFINE f == [k \in 0 .. 0 |-> start]
  <2>1. Fits(f, 0)
    OBVIOUS
  <2> HIDE DEF f, Fits
  <2> QED BY <2>1
<1>2. ASSUME NEW n \in Nat, n \in S PROVE n + 1 \in S
  <2>1. PICK f : Fits(f, n)
    BY <1>2
  <2> DEFINE f2 == [k \in 0 .. n + 1 |-> IF k = 0 THEN start ELSE AddItem(f[k - 1], stack[k])]
             f3 == [k \in 0 .. n + 1 |-> IF k = 0 THEN start ELSE AddItem(f2[k - 1], stack[k])]
  <2>2. \A k \in 0 .. n : f2[k] = f[k]
    <3>1. \A k \in 0 .. n : k \in 0 .. n + 1
      OBVIOUS
    <3> QED BY <2>1, <3>1
  <2>3. \A k \in 0 .. n + 1 : k # 0 => k - 1 \in 0 .. n
    OBVIOUS
  <2>4. \A k \in 0 .. n + 1 : f3[k] = f2[k]
    <3> SUFFICES ASSUME NEW k \in 0 .. n + 1 PROVE f3[k] = f2[k]
      OBVIOUS
    <3>1. f3[k] = IF k = 0 THEN start ELSE AddItem(f2[k - 1], stack[k])
      OBVIOUS
    <3>2. f2[k] = IF k = 0 THEN start ELSE AddItem(f[k - 1], stack[k])
      OBVIOUS
    <3> HIDE DEF f2, f3
    <3> QED BY <2>2, <2>3, <3>1, <3>2
  <2>5. f3 = [k \in 0 .. n + 1 |-> f3[k]] /\ f2 = [k \in 0 .. n + 1 |-> f2[k]]
    OBVIOUS
  <2>6. f3 = f2
    <3> HIDE DEF f2, f3
    <3> QED BY <2>4, <2>5
  <2>7. Fits(f2, n + 1)
    BY <2>6
  <2> HIDE DEF f2, Fits
  <2> QED BY <2>7
<1>3. N \in S
  <2> HIDE DEF S
  <2>1. Nat \subseteq S
    BY <1>1, <1>2, SetInduction
  <2> QED BY <2>1
<1>4. PICK f : Fits(f, N)
  BY <1>3
<1>5. walk = [k \in 0 .. Len(stack) |-> IF k = 0 THEN start ELSE AddItem(walk[k - 1], stack[k])]
  BY <1>4, Zenon
<1>6. AddItems(start, stack) = walk[Len(stack)]
  BY DEF AddItems
<1> HIDE DEF walk
<1>7. walk[0] = start
  BY <1>5
<1>8. ASSUME NEW k \in 1 .. N PROVE walk[k] = AddItem(walk[k - 1], stack[k])
  <2>1. k \in 0 .. N /\ k # 0
    OBVIOUS
  <2> QED BY <1>5, <2>1
<1> QED BY <1>6, <1>7, <1>8 DEF IsAddItems

\* The walk of AddStacks.
IsAddStacks(start, layout, walk) ==
  /\ walk[0] = start
  /\ \A k \in 1 .. Len(layout) : walk[k] = AddStack(walk[k - 1], layout[k])
  /\ AddStacks(start, layout) = walk[Len(layout)]

\* It exists: a walk of n steps goes on to one of n + 1 steps.
LEMMA AddStacksIs ==
  ASSUME NEW start, NEW layout, Len(layout) \in Nat
  PROVE  \E walk : IsAddStacks(start, layout, walk)
<1> DEFINE N == Len(layout)
           Fits(f, n) == f = [k \in 0 .. n |-> IF k = 0 THEN start ELSE AddStack(f[k - 1], layout[k])]
           S == {n \in Nat : \E f : Fits(f, n)}
           walk == CHOOSE walk : walk = [k \in 0 .. Len(layout) |->
                      IF k = 0 THEN start ELSE AddStack(walk[k - 1], layout[k])]
<1>1. 0 \in S
  <2> DEFINE f == [k \in 0 .. 0 |-> start]
  <2>1. Fits(f, 0)
    OBVIOUS
  <2> HIDE DEF f, Fits
  <2> QED BY <2>1
<1>2. ASSUME NEW n \in Nat, n \in S PROVE n + 1 \in S
  <2>1. PICK f : Fits(f, n)
    BY <1>2
  <2> DEFINE f2 == [k \in 0 .. n + 1 |-> IF k = 0 THEN start ELSE AddStack(f[k - 1], layout[k])]
             f3 == [k \in 0 .. n + 1 |-> IF k = 0 THEN start ELSE AddStack(f2[k - 1], layout[k])]
  <2>2. \A k \in 0 .. n : f2[k] = f[k]
    <3>1. \A k \in 0 .. n : k \in 0 .. n + 1
      OBVIOUS
    <3> QED BY <2>1, <3>1
  <2>3. \A k \in 0 .. n + 1 : k # 0 => k - 1 \in 0 .. n
    OBVIOUS
  <2>4. \A k \in 0 .. n + 1 : f3[k] = f2[k]
    <3> SUFFICES ASSUME NEW k \in 0 .. n + 1 PROVE f3[k] = f2[k]
      OBVIOUS
    <3>1. f3[k] = IF k = 0 THEN start ELSE AddStack(f2[k - 1], layout[k])
      OBVIOUS
    <3>2. f2[k] = IF k = 0 THEN start ELSE AddStack(f[k - 1], layout[k])
      OBVIOUS
    <3> HIDE DEF f2, f3
    <3> QED BY <2>2, <2>3, <3>1, <3>2
  <2>5. f3 = [k \in 0 .. n + 1 |-> f3[k]] /\ f2 = [k \in 0 .. n + 1 |-> f2[k]]
    OBVIOUS
  <2>6. f3 = f2
    <3> HIDE DEF f2, f3
    <3> QED BY <2>4, <2>5
  <2>7. Fits(f2, n + 1)
    BY <2>6
  <2> HIDE DEF f2, Fits
  <2> QED BY <2>7
<1>3. N \in S
  <2> HIDE DEF S
  <2>1. Nat \subseteq S
    BY <1>1, <1>2, SetInduction
  <2> QED BY <2>1
<1>4. PICK f : Fits(f, N)
  BY <1>3
<1>5. walk = [k \in 0 .. Len(layout) |-> IF k = 0 THEN start ELSE AddStack(walk[k - 1], layout[k])]
  BY <1>4, Zenon
<1>6. AddStacks(start, layout) = walk[Len(layout)]
  BY DEF AddStacks
<1> HIDE DEF walk
<1>7. walk[0] = start
  BY <1>5
<1>8. ASSUME NEW k \in 1 .. N PROVE walk[k] = AddStack(walk[k - 1], layout[k])
  <2>1. k \in 0 .. N /\ k # 0
    OBVIOUS
  <2> QED BY <1>5, <2>1
<1> QED BY <1>6, <1>7, <1>8 DEF IsAddStacks

-----------------------------------------------------------------------------
(* The graph to begin with *)

\* What the assumption says of a layout, for citing.
LEMMA LayoutIs ==
  ASSUME NEW layout \in Layouts
  PROVE  /\ Len(layout) \in Nat \ {0} /\ DOMAIN layout = 1 .. Len(layout)
         /\ \A i \in 1 .. Len(layout) :
              /\ Len(layout[i]) \in Nat \ {0} /\ DOMAIN layout[i] = 1 .. Len(layout[i])
              /\ layout[i][Len(layout[i])].kind = "reference"
              /\ \A k \in 1 .. Len(layout[i]) :
                   /\ layout[i][k].kind \in {"commit", "reference"}
                   /\ layout[i][k].id \notin {"target", "workspace", BlankCommit, CreatedCommit, NewReference}
<1>1. layout \in Seq(Seq(Items) \ {<<>>}) /\ layout # <<>>
  BY LayoutsAssumption
<1>2. Len(layout) \in Nat \ {0} /\ DOMAIN layout = 1 .. Len(layout)
  BY <1>1, SeqFacts
<1>3. ASSUME NEW i \in 1 .. Len(layout)
      PROVE  /\ Len(layout[i]) \in Nat \ {0} /\ DOMAIN layout[i] = 1 .. Len(layout[i])
             /\ layout[i][Len(layout[i])].kind = "reference"
             /\ \A k \in 1 .. Len(layout[i]) :
                   /\ layout[i][k].kind \in {"commit", "reference"}
                   /\ layout[i][k].id \notin {"target", "workspace", BlankCommit, CreatedCommit, NewReference}
  <2>1. layout[i] \in Seq(Items) /\ layout[i] # <<>>
    BY <1>1, <1>2
  <2>2. Len(layout[i]) \in Nat \ {0} /\ DOMAIN layout[i] = 1 .. Len(layout[i])
    BY <2>1, SeqFacts
  <2>3. \A k \in 1 .. Len(layout[i]) : layout[i][k] \in Items
    BY <2>1
  <2>4. layout[i][Len(layout[i])].kind = "reference"
    <3>1. Last(layout[i]).kind = "reference"
      BY <1>2, LayoutsAssumption
    <3> QED BY <3>1 DEF Last
  <2> HIDE DEF Items
  <2>5. \A k \in 1 .. Len(layout[i]) :
           /\ layout[i][k].kind \in {"commit", "reference"}
           /\ layout[i][k].id \notin {"target", "workspace", BlankCommit, CreatedCommit, NewReference}
    BY <2>3, LayoutsAssumption
  <2> QED BY <2>2, <2>4, <2>5
<1> QED BY <1>2, <1>3

\* The items of a layout have ids of their own, and two stacks write to no common file.
LEMMA LayoutApart ==
  ASSUME NEW layout \in Layouts, NEW i \in 1 .. Len(layout), NEW j \in 1 .. Len(layout),
         NEW k \in 1 .. Len(layout[i]), NEW l \in 1 .. Len(layout[j])
  PROVE  /\ layout[i][k].id = layout[j][l].id => i = j /\ k = l
         /\ i # j /\ layout[i][k].kind = "commit" /\ layout[j][l].kind = "commit" =>
              layout[i][k].writes \cap layout[j][l].writes = {}
<1>1. i \in DOMAIN layout /\ j \in DOMAIN layout /\ k \in DOMAIN layout[i] /\ l \in DOMAIN layout[j]
  BY LayoutIs
<1> QED BY <1>1, LayoutsAssumption

\* A graph of N nodes, apart from what they are.
IsGraph(g, N) ==
  /\ g = [step |-> g.step, parents |-> g.parents]
  /\ N \in Nat /\ g.parents \in Parents(N) /\ Len(g.parents) = N
  /\ g.step \in Seq(ToSet(g.step)) /\ Len(g.step) = N

\* AddStep makes a graph of one node more.
LEMMA StepAdded ==
  ASSUME NEW g, NEW N, IsGraph(g, N), NEW s, NEW p \in Seq(1 .. N)
  PROVE  /\ IsGraph(AddStep(g, s, p), N + 1)
         /\ AddStep(g, s, p).step[N + 1] = s /\ AddStep(g, s, p).parents[N + 1] = p
<1> DEFINE M == N + 1
           h == AddStep(g, s, p)
           qs == Append(g.parents, p)
           st == Append(g.step, s)
<1>1. /\ N \in Nat /\ g.parents \in Seq(Seq(1 .. N)) /\ Len(g.parents) = N
      /\ g.step \in Seq(ToSet(g.step)) /\ Len(g.step) = N
  BY ParentsAre DEF IsGraph
<1>2. M \in Nat /\ 1 .. M = (1 .. N) \cup {M} /\ 1 .. N \subseteq 1 .. M /\ M = N + 1
  BY <1>1
<1>3. qs \in Seq(Seq(1 .. M)) /\ Len(qs) = M /\ (\A n \in 1 .. N : qs[n] = g.parents[n]) /\ qs[M] = p
  <2>1. Seq(1 .. N) \subseteq Seq(1 .. M)
    BY <1>2, SeqMonotonic
  <2>2. g.parents \in Seq(Seq(1 .. M)) /\ p \in Seq(1 .. M)
    BY <1>1, <2>1, SeqMonotonic
  <2> HIDE DEF M
  <2>3. /\ qs \in Seq(Seq(1 .. M)) /\ Len(qs) = N + 1
        /\ (\A n \in 1 .. N : qs[n] = g.parents[n]) /\ qs[N + 1] = p
    BY <1>1, <2>2, AppendProperties
  <2> QED BY <1>2, <2>3
<1>4. st \in Seq(ToSet(st)) /\ Len(st) = M /\ st[M] = s /\ \A n \in 1 .. N : st[n] = g.step[n]
  <2> DEFINE T == ToSet(g.step) \cup {s}
  <2>1. g.step \in Seq(T) /\ s \in T
    BY <1>1, SeqMonotonic
  <2>2. st \in Seq(T) /\ Len(st) = M /\ st[M] = s /\ \A n \in 1 .. N : st[n] = g.step[n]
    <3> HIDE DEF T
    <3> QED BY <1>1, <2>1, AppendProperties
  <2> HIDE DEF st, T
  <2>3. st \in Seq(ToSet(st))
    <3>1. DOMAIN st = 1 .. M /\ st \in [1 .. M -> T]
      BY <2>2, LenProperties
    <3>2. \A n \in 1 .. M : st[n] \in ToSet(st)
      BY <3>1 DEF ToSet
    <3>3. st \in [1 .. M -> ToSet(st)]
      BY <3>1, <3>2
    <3> QED BY <1>2, <3>3
  <2> QED BY <2>2, <2>3
<1>5. h = [step |-> st, parents |-> qs]
  BY DEF AddStep
<1> HIDE DEF h, qs, st, M
<1>6. qs \in Parents(M)
  <2>1. DOMAIN qs = 1 .. M /\ qs \in [1 .. M -> Seq(1 .. M)]
    BY <1>3, LenProperties
  <2> QED BY <2>1 DEF Parents
<1>7. h.step = st /\ h.parents = qs
  BY <1>5
<1>8. IsGraph(h, M)
  BY <1>2, <1>3, <1>4, <1>5, <1>6, <1>7 DEF IsGraph
<1>9. M = N + 1
  BY DEF M
<1> QED BY <1>3, <1>4, <1>7, <1>8, <1>9 DEF h

\* AddStep leaves the nodes there are.
LEMMA StepKept ==
  ASSUME NEW g, NEW N, IsGraph(g, N), NEW s, NEW p \in Seq(1 .. N), NEW n \in 1 .. N
  PROVE  AddStep(g, s, p).step[n] = g.step[n] /\ AddStep(g, s, p).parents[n] = g.parents[n]
<1>1. /\ N \in Nat /\ g.parents \in Seq(Seq(1 .. N)) /\ Len(g.parents) = N
      /\ g.step \in Seq(ToSet(g.step)) /\ Len(g.step) = N
  BY ParentsAre DEF IsGraph
<1>2. AddStep(g, s, p).step = Append(g.step, s) /\ AddStep(g, s, p).parents = Append(g.parents, p)
  BY DEF AddStep
<1> QED BY <1>1, <1>2

\* A commit whose files are the target's but for those its stack writes, and whose ancestors
\* are those of the target and of its stack.
Wrote(c, stack) ==
  /\ c.sides = <<>> /\ c.tree = [f \in File |-> c.tree[f]]
  /\ \A f \in File : c.tree[f] # Original =>
       \E k \in DOMAIN stack : stack[k].kind = "commit" /\ f \in stack[k].writes
  /\ TargetCommit \in History(c)
  /\ \A d \in History(c) : d = TargetCommit \/ \E k \in DOMAIN stack : d.change = stack[k].id

\* The step of an item of a stack.
IsItem(s, item, stack) ==
  \/ /\ item.kind = "commit" /\ s = Pick(s.commit) /\ IsCommit(s.commit)
     /\ s.commit.change = item.id /\ Wrote(s.commit, stack)
  \/ item.kind = "reference" /\ s = Reference(item.id)

\* The graph of the first stacks: every node but the target is of a stack, its lane, and of an
\* item of it, its spot.
Sprout(g, layout, i, lane, spot) ==
  /\ IsGraph(g, Len(g.parents)) /\ Len(g.parents) # 0
  /\ g.step[1] = Pick(TargetCommit) /\ g.parents[1] = <<>>
  /\ lane \in [1 .. Len(g.parents) -> Nat] /\ spot \in [1 .. Len(g.parents) -> Nat]
  /\ \A n \in 2 .. Len(g.parents) :
       /\ lane[n] \in 1 .. i /\ spot[n] \in 1 .. Len(layout[lane[n]])
       /\ IsItem(g.step[n], layout[lane[n]][spot[n]], layout[lane[n]])
       /\ Len(g.parents[n]) = 1 /\ g.parents[n][1] \in 1 .. n - 1
       /\ g.parents[n][1] = 1 \/ lane[g.parents[n][1]] = lane[n]
  /\ \A m, n \in 2 .. Len(g.parents) : lane[m] = lane[n] /\ spot[m] = spot[n] => m = n

\* A function on the nodes, with one for the next node.
Extended(f, n, x) == [m \in 1 .. n |-> IF m = n THEN x ELSE f[m]]

\* What may be added to the stack i for its item k, on the node below.
MaySprout(g, layout, i, lane, spot, k, s, below) ==
  /\ i \in Nat \ {0} /\ Len(layout[i]) \in Nat /\ k \in 1 .. Len(layout[i])
  /\ \A n \in 2 .. Len(g.parents) : lane[n] = i => spot[n] # k
  /\ IsItem(s, layout[i][k], layout[i])
  /\ below \in Seq(1 .. Len(g.parents)) /\ Len(below) = 1
  /\ below[1] = 1 \/ lane[below[1]] = i

\* The next item of a stack keeps the stacks what they are to be.
LEMMA SproutGrows ==
  ASSUME NEW g, NEW layout, NEW i, NEW lane, NEW spot, Sprout(g, layout, i, lane, spot),
         NEW k, NEW s, NEW below, MaySprout(g, layout, i, lane, spot, k, s, below)
  PROVE  Sprout(AddStep(g, s, below), layout, i,
                Extended(lane, Len(g.parents) + 1, i), Extended(spot, Len(g.parents) + 1, k))
<1> DEFINE M == Len(g.parents) + 1
           h == AddStep(g, s, below)
<1> DEFINE N == Len(g.parents)
           lane2 == Extended(lane, M, i)
           spot2 == Extended(spot, M, k)
<1>1. /\ IsGraph(g, N) /\ N \in Nat \ {0} /\ Len(g.step) = N
      /\ g.step[1] = Pick(TargetCommit) /\ g.parents[1] = <<>>
      /\ lane \in [1 .. N -> Nat] /\ spot \in [1 .. N -> Nat]
  BY DEF Sprout, IsGraph
<1>0. /\ i \in Nat \ {0} /\ Len(layout[i]) \in Nat /\ k \in 1 .. Len(layout[i])
      /\ \A n \in 2 .. N : lane[n] = i => spot[n] # k
      /\ IsItem(s, layout[i][k], layout[i])
      /\ below \in Seq(1 .. N) /\ Len(below) = 1
      /\ below[1] = 1 \/ lane[below[1]] = i
  BY DEF MaySprout
<1>2. M \in Nat \ {0} /\ 1 .. M = (1 .. N) \cup {M} /\ M \notin 1 .. N /\ 2 .. M = (2 .. N) \cup {M} /\ M # 1
      /\ 1 \in 1 .. N /\ M - 1 = N /\ (\A n \in 2 .. N : n \in 1 .. N) /\ M = N + 1
  <2>1. N \in Nat \ {0} /\ M = N + 1
    BY <1>1
  <2> HIDE DEF N, M, h
  <2> QED BY <2>1
<1>3. below \in Seq(1 .. N)
  BY <1>0
<1>4. /\ IsGraph(h, M) /\ h.step[M] = s /\ h.parents[M] = below
      /\ \A n \in 1 .. N : h.step[n] = g.step[n]
      /\ \A n \in 1 .. N : h.parents[n] = g.parents[n]
  <2> DEFINE a == AddStep(g, s, below)
  <2> HIDE DEF N
  <2>1. IsGraph(a, N + 1)
    BY <1>1, <1>3, StepAdded
  <2>2. a.step[N + 1] = s /\ a.parents[N + 1] = below
    BY <1>1, <1>3, StepAdded, SMTT(40)
  <2>3. ASSUME NEW n \in 1 .. N PROVE a.step[n] = g.step[n] /\ a.parents[n] = g.parents[n]
    BY <1>1, <1>3, StepKept
  <2> HIDE DEF a
  <2> QED BY <1>2, <2>1, <2>2, <2>3 DEF a
<1>5. Len(h.parents) = M /\ Len(h.step) = M
  BY <1>4 DEF IsGraph
<1> HIDE DEF h
<1>6. /\ lane2 \in [1 .. M -> Nat] /\ spot2 \in [1 .. M -> Nat]
      /\ lane2[M] = i /\ spot2[M] = k
      /\ \A n \in 1 .. N : lane2[n] = lane[n] /\ spot2[n] = spot[n]
  BY <1>0, <1>1, <1>2 DEF Extended
<1> HIDE DEF lane2, spot2, N, M
<1>7. ASSUME NEW n \in 2 .. M
      PROVE  /\ lane2[n] \in 1 .. i /\ spot2[n] \in 1 .. Len(layout[lane2[n]])
             /\ IsItem(h.step[n], layout[lane2[n]][spot2[n]], layout[lane2[n]])
             /\ Len(h.parents[n]) = 1 /\ h.parents[n][1] \in 1 .. n - 1
             /\ h.parents[n][1] = 1 \/ lane2[h.parents[n][1]] = lane2[n]
  <2>1. CASE n = M
    <3>1. i \in 1 .. i
      BY <1>0
    <3>2. below[1] \in 1 .. N /\ h.parents[n] = below
      <4>1. below \in Seq(1 .. N) /\ Len(below) = 1 /\ 1 \in 1 .. 1
        BY <1>0
      <4>2. below[1] \in 1 .. N
        BY <4>1, ElementOfSeq
      <4> QED BY <1>4, <2>1, <4>2
    <3> QED BY <1>0, <1>2, <1>4, <1>6, <2>1, <3>1, <3>2
  <2>2. CASE n # M
    <3>1. n \in 2 .. N /\ n \in 1 .. N
      BY <1>2, <2>2
    <3>2. /\ lane[n] \in 1 .. i /\ spot[n] \in 1 .. Len(layout[lane[n]])
          /\ IsItem(g.step[n], layout[lane[n]][spot[n]], layout[lane[n]])
      BY <3>1 DEF Sprout, N
    <3>3. /\ Len(g.parents[n]) = 1 /\ g.parents[n][1] \in 1 .. n - 1
          /\ g.parents[n][1] = 1 \/ lane[g.parents[n][1]] = lane[n]
      BY <3>1 DEF Sprout, N
    <3>4. g.parents[n][1] \in 1 .. N
      BY <1>1, <3>1, <3>3
    <3> QED BY <1>4, <1>6, <3>1, <3>2, <3>3, <3>4, SMTT(40)
  <2> QED BY <2>1, <2>2
<1>8. ASSUME NEW m \in 2 .. M, NEW n \in 2 .. M, lane2[m] = lane2[n], spot2[m] = spot2[n]
      PROVE  m = n
  <2>1. \A a, b \in 2 .. N : lane[a] = lane[b] /\ spot[a] = spot[b] => a = b
    BY DEF Sprout, N
  <2>2. \A a \in 2 .. N : lane[a] = i => spot[a] # k
    BY <1>0 DEF N
  <2>3. CASE m = M /\ n \in 2 .. N
    BY <1>2, <1>6, <1>8, <2>2, <2>3
  <2>4. CASE n = M /\ m \in 2 .. N
    BY <1>2, <1>6, <1>8, <2>2, <2>4
  <2>5. CASE n \in 2 .. N /\ m \in 2 .. N
    BY <1>2, <1>6, <1>8, <2>1, <2>5
  <2> QED BY <1>2, <2>3, <2>4, <2>5
<1>9. Sprout(h, layout, i, lane2, spot2)
  <2>1. h.step[1] = Pick(TargetCommit) /\ h.parents[1] = <<>> /\ M # 0
    BY <1>1, <1>2, <1>4
  <2> QED BY <1>4, <1>5, <1>6, <1>7, <1>8, <2>1 DEF Sprout
<1> QED BY <1>9 DEF h, lane2, spot2, M, N

\* The tops of the first stacks.
AreTops(tops, N, layout, i, lane, spot) ==
  /\ tops \in Seq(2 .. N) /\ Len(tops) = i
  /\ \A j \in 1 .. i : lane[tops[j]] = j /\ spot[tops[j]] = Len(layout[j])

\* The commit that is at a node, or first on the way down from it, is base of it, and commits
\* have for a parent the one below.
Rooted(g, base) ==
  /\ base \in [1 .. Len(g.parents) -> 1 .. Len(g.parents)] /\ base[1] = 1
  /\ \A n \in 2 .. Len(g.parents) :
       /\ g.step[n].kind = "pick" =>
            base[n] = n /\ g.step[n].commit.parents = <<g.step[base[g.parents[n][1]]].commit>>
       /\ g.step[n].kind # "pick" => base[n] = base[g.parents[n][1]]

\* A stack of which k items have been added.
Growing(s, layout, i, k, tops, lane, spot) ==
  /\ s = [graph |-> s.graph, top |-> s.top, commit |-> s.commit]
  /\ Sprout(s.graph, layout, i, lane, spot)
  /\ AreTops(tops, Len(s.graph.parents), layout, i - 1, lane, spot)
  /\ \A n \in 2 .. Len(s.graph.parents) : lane[n] = i => spot[n] <= k
  /\ s.top \in 1 .. Len(s.graph.parents) /\ (s.top = 1 \/ lane[s.top] = i)
  /\ s.commit \in 1 .. Len(s.graph.parents) /\ (s.commit = 1 \/ lane[s.commit] = i)
  /\ s.graph.step[s.commit].kind = "pick"
  /\ k # 0 => s.top # 1 /\ spot[s.top] = k
  /\ \E base : Rooted(s.graph, base) /\ base[s.top] = s.commit

\* The next node is on top of another one.
NextBase(base, N, st, below) ==
  [m \in 1 .. N + 1 |-> IF m # N + 1 THEN base[m] ELSE IF st.kind = "pick" THEN N + 1 ELSE base[below]]

\* A step on top of another one, a commit on the commit that is there.
MayRoot(g, N, base, st, below) ==
  /\ IsGraph(g, N) /\ N # 0 /\ Rooted(g, base)
  /\ \A n \in 2 .. N : g.parents[n][1] \in 1 .. n - 1
  /\ below \in 1 .. N
  /\ st.kind = "pick" => st.commit.parents = <<g.step[base[below]].commit>>

\* It is on top of the commit below.
LEMMA RootedGrows ==
  ASSUME NEW g, NEW N, NEW base, NEW st, NEW below, MayRoot(g, N, base, st, below)
  PROVE  /\ Rooted(AddStep(g, st, <<below>>), NextBase(base, N, st, below))
         /\ NextBase(base, N, st, below)[N + 1] = IF st.kind = "pick" THEN N + 1 ELSE base[below]
<1> DEFINE p == <<below>>
           h == AddStep(g, st, p)
           b == NextBase(base, N, st, below)
<1>0. /\ IsGraph(g, N) /\ N # 0 /\ Rooted(g, base)
      /\ \A n \in 2 .. N : g.parents[n][1] \in 1 .. n - 1
      /\ below \in 1 .. N
      /\ st.kind = "pick" => st.commit.parents = <<g.step[base[below]].commit>>
  BY DEF MayRoot
<1>1. p \in Seq(1 .. N) /\ p[1] = below
  BY <1>0
<1> HIDE DEF p
<1>2. IsGraph(h, N + 1) /\ h.step[N + 1] = st /\ h.parents[N + 1] = p
  BY <1>0, <1>1, StepAdded
<1>3. \A n \in 1 .. N : h.step[n] = g.step[n] /\ h.parents[n] = g.parents[n]
  BY <1>0, <1>1, StepKept
<1>4. N \in Nat \ {0} /\ Len(g.parents) = N /\ Len(h.parents) = N + 1
  BY <1>0, <1>2 DEF IsGraph
<1> HIDE DEF h
<1>5. base \in [1 .. N -> 1 .. N] /\ base[1] = 1
  BY <1>0, <1>4 DEF Rooted
<1>6. /\ \A m \in 1 .. N : b[m] = base[m] /\ m \in 1 .. N + 1
      /\ b[N + 1] = IF st.kind = "pick" THEN N + 1 ELSE base[below]
  BY <1>0, <1>4 DEF NextBase
<1>7. b \in [1 .. N + 1 -> 1 .. N + 1] /\ b[1] = 1
  <2>1. \A m \in 1 .. N : base[m] \in 1 .. N + 1
    BY <1>4, <1>5
  <2>2. b[N + 1] \in 1 .. N + 1 /\ N + 1 \in 1 .. N + 1
    <3>1. base[below] \in 1 .. N + 1
      BY <1>0, <2>1
    <3> QED BY <1>4, <1>6, <3>1
  <2>3. \A m \in 1 .. N + 1 : m = N + 1 \/ m \in 1 .. N
    BY <1>4
  <2>4. b = [m \in 1 .. N + 1 |-> b[m]]
    BY DEF NextBase
  <2> HIDE DEF b
  <2>5. \A m \in 1 .. N + 1 : b[m] \in 1 .. N + 1
    BY <1>6, <2>1, <2>2, <2>3
  <2>6. b[1] = 1
    <3>1. 1 \in 1 .. N
      BY <1>4, SMTT(40)
    <3> QED BY <1>5, <1>6, <3>1
  <2> QED BY <2>4, <2>5, <2>6
<1> HIDE DEF b
<1>8. ASSUME NEW n \in 2 .. N + 1
      PROVE  /\ h.step[n].kind = "pick" =>
                  b[n] = n /\ h.step[n].commit.parents = <<h.step[b[h.parents[n][1]]].commit>>
             /\ h.step[n].kind # "pick" => b[n] = b[h.parents[n][1]]
  <2>1. CASE n = N + 1
    <3>1. h.parents[n][1] = below /\ h.step[n] = st
      BY <1>1, <1>2, <2>1
    <3>2. b[below] = base[below] /\ base[below] \in 1 .. N /\ h.step[base[below]] = g.step[base[below]]
      BY <1>0, <1>3, <1>5, <1>6
    <3> QED BY <1>0, <1>6, <2>1, <3>1, <3>2
  <2>2. CASE n # N + 1
    <3>1. n \in 2 .. N /\ n \in 1 .. N
      BY <1>4, <2>2
    <3> DEFINE q == g.parents[n][1]
    <3>2. q \in 1 .. N
      <4>1. q \in 1 .. n - 1
        BY <1>0, <3>1
      <4> HIDE DEF q
      <4> QED BY <1>4, <3>1, <4>1
    <3>3. h.step[n] = g.step[n] /\ h.parents[n][1] = q
      BY <1>3, <3>1
    <3>4. b[n] = base[n] /\ b[q] = base[q] /\ base[q] \in 1 .. N
      BY <1>5, <1>6, <3>1, <3>2
    <3>5. h.step[base[q]] = g.step[base[q]]
      BY <1>3, <3>4, SMTT(40)
    <3>6. /\ g.step[n].kind = "pick" => base[n] = n /\ g.step[n].commit.parents = <<g.step[base[q]].commit>>
          /\ g.step[n].kind # "pick" => base[n] = base[q]
      BY <1>0, <1>4, <3>1 DEF Rooted
    <3> HIDE DEF q
    <3> QED BY <3>3, <3>4, <3>5, <3>6
  <2> QED BY <2>1, <2>2
<1>9. Rooted(h, b)
  BY <1>4, <1>7, <1>8 DEF Rooted
<1> QED BY <1>6, <1>9 DEF h, b, p

\* new_commit_untracked makes a commit, with the fields it is given.
LEMMA NewCommitIs ==
  ASSUME NEW a, NEW m, NEW p, NEW x
  PROVE  /\ IsCommit(NewCommit(a, m, p, x)) /\ NewCommit(a, m, p, x).change = a
         /\ NewCommit(a, m, p, x).tree = x /\ NewCommit(a, m, p, x).sides = <<>>
         /\ NewCommit(a, m, p, x).parents = p
  BY DEF IsCommit, NewCommit

\* The target has no parents, and the original content of every file.
LEMMA TargetCommitIs ==
  /\ IsCommit(TargetCommit) /\ TargetCommit.change = "target" /\ TargetCommit.parents = <<>>
  /\ TargetCommit.sides = <<>> /\ TargetCommit.tree = [f \in File |-> Original]
<1> QED BY NewCommitIs DEF TargetCommit

\* The history of a commit without parents, and of one with one parent.
LEMMA HistoryOf ==
  ASSUME NEW c, IsCommit(c)
  PROVE  /\ c.parents = <<>> => History(c) = {c}
         /\ \A p : c.parents = <<p>> => History(c) = {c} \cup History(p)
<1>1. c.past = Past(c.parents)
  BY DEF IsCommit
<1>2. CASE c.parents = <<>>
  <2>1. ToSet(c.parents) = {}
    BY <1>2 DEF ToSet
  <2>2. Past(c.parents) = {}
    BY <2>1 DEF Past
  <2>3. ASSUME NEW p PROVE c.parents # <<p>>
    BY <1>2, OneElement
  <2> QED BY <1>1, <1>2, <2>2, <2>3 DEF History
<1>3. ASSUME NEW p, c.parents = <<p>> PROVE History(c) = {c} \cup History(p) /\ c.parents # <<>>
  <2>1. ToSet(<<p>>) = {p} /\ <<p>> # <<>>
    BY OneElement
  <2>2. Past(<<p>>) = History(p)
    BY <2>1 DEF Past
  <2> QED BY <1>1, <1>3, <2>1, <2>2 DEF History
<1> QED BY <1>2, <1>3

\* The target has no history but itself.
LEMMA TargetHistory == History(TargetCommit) = {TargetCommit}
  BY TargetCommitIs, HistoryOf

\* An item is added to its stack on top of the one before it.
LEMMA AddItemIs ==
  ASSUME NEW layout \in Layouts, NEW i \in 1 .. Len(layout), NEW k \in 1 .. Len(layout[i]),
         NEW s, NEW tops, NEW lane, NEW spot, Growing(s, layout, i, k - 1, tops, lane, spot)
  PROVE  \E lane2, spot2 : Growing(AddItem(s, layout[i][k]), layout, i, k, tops, lane2, spot2)
<1> DEFINE g == s.graph
           N == Len(g.parents)
           M == N + 1
           item == layout[i][k]
           lane2 == Extended(lane, M, i)
           spot2 == Extended(spot, M, k)
           r == AddItem(s, item)
           parent == g.step[s.commit].commit
           written == [f \in File |-> IF f \in item.writes THEN item.id ELSE parent.tree[f]]
           commit == NewCommit(item.id, <<item.id>>, <<parent>>, written)
           st == IF item.kind = "commit" THEN Pick(commit) ELSE Reference(item.id)
           h == AddStep(g, st, <<s.top>>)
<1>1. /\ i \in Nat \ {0} /\ k \in Nat \ {0} /\ Len(layout[i]) \in Nat /\ DOMAIN layout[i] = 1 .. Len(layout[i])
      /\ item.kind \in {"commit", "reference"}
  BY LayoutIs, SMTT(40)
<1>2. /\ s = [graph |-> g, top |-> s.top, commit |-> s.commit]
      /\ Sprout(g, layout, i, lane, spot) /\ N \in Nat \ {0} /\ Len(g.step) = N
      /\ AreTops(tops, N, layout, i - 1, lane, spot)
      /\ \A n \in 2 .. N : lane[n] = i => spot[n] <= k - 1
      /\ s.top \in 1 .. N /\ (s.top = 1 \/ lane[s.top] = i)
      /\ s.commit \in 1 .. N /\ (s.commit = 1 \/ lane[s.commit] = i)
      /\ g.step[s.commit].kind = "pick"
      /\ spot \in [1 .. N -> Nat] /\ lane \in [1 .. N -> Nat] /\ g.step[1] = Pick(TargetCommit)
  BY DEF Growing, Sprout, IsGraph
<1> HIDE DEF g
<1>3. Wrote(parent, layout[i])
  <2>1. CASE s.commit = 1
    <3>1. parent = TargetCommit
      <4>1. Pick(TargetCommit).commit = TargetCommit
        BY Kinds
      <4> QED BY <1>2, <2>1, <4>1
    <3> HIDE DEF parent
    <3> QED BY <3>1, TargetCommitIs, TargetHistory DEF Wrote
  <2>2. CASE s.commit # 1
    <3>1. s.commit \in 2 .. N /\ lane[s.commit] = i
      BY <1>2, <2>2
    <3>2. IsItem(g.step[s.commit], layout[i][spot[s.commit]], layout[i])
      BY <1>2, <3>1 DEF Sprout
    <3>3. g.step[s.commit] # Reference(layout[i][spot[s.commit]].id)
      BY <1>2, Kinds
    <3> QED BY <3>2, <3>3 DEF IsItem
  <2> QED BY <2>1, <2>2
<1> HIDE DEF parent
<1>4. IsItem(st, item, layout[i])
  <2>1. CASE item.kind = "commit"
    <3>1. written = [f \in File |-> written[f]]
      OBVIOUS
    <3>2. \A f \in File : written[f] # Original =>
             \E l \in DOMAIN layout[i] : layout[i][l].kind = "commit" /\ f \in layout[i][l].writes
      BY <1>1, <1>3, <2>1 DEF Wrote
    <3>6. k \in DOMAIN layout[i] /\ item = layout[i][k]
      BY <1>1
    <3> HIDE DEF written, item
    <3>3. IsCommit(commit) /\ commit.change = item.id /\ commit.tree = written /\ commit.sides = <<>>
          /\ commit.parents = <<parent>>
      BY NewCommitIs
    <3> HIDE DEF commit
    <3>7. History(commit) = {commit} \cup History(parent)
      BY <3>3, HistoryOf
    <3>8. /\ TargetCommit \in History(commit)
          /\ \A d \in History(commit) : d = TargetCommit \/ \E l \in DOMAIN layout[i] : d.change = layout[i][l].id
      BY <1>3, <3>3, <3>6, <3>7 DEF Wrote
    <3>4. Wrote(commit, layout[i])
      BY <3>1, <3>2, <3>3, <3>8 DEF Wrote
    <3>5. st = Pick(commit) /\ Pick(commit).commit = commit
      BY <2>1, Kinds
    <3> QED BY <2>1, <3>3, <3>4, <3>5 DEF IsItem
  <2>2. CASE item.kind = "reference"
    <3>1. st = Reference(item.id)
      BY <2>2
    <3> QED BY <2>2, <3>1 DEF IsItem
  <2> QED BY <1>1, <2>1, <2>2
<1>14. /\ item.kind = "commit" => st.kind = "pick" /\ st.commit.parents = <<parent>>
       /\ item.kind # "commit" => st.kind # "pick"
  <2>1. CASE item.kind = "commit"
    <3>1. st = Pick(commit)
      BY <2>1
    <3> HIDE DEF st, written, item
    <3>3. commit.parents = <<parent>>
      BY NewCommitIs
    <3> HIDE DEF commit
    <3>2. Pick(commit).kind = "pick" /\ Pick(commit).commit = commit
      BY Kinds
    <3> QED BY <2>1, <3>1, <3>2, <3>3
  <2>2. CASE item.kind # "commit"
    <3> DEFINE id == item.id
    <3>1. st = Reference(id)
      BY <2>2
    <3> HIDE DEF item, st, id
    <3>2. Reference(id).kind = "reference"
      BY Kinds
    <3> QED BY <2>2, <3>1, <3>2
  <2> QED BY <2>1, <2>2, Zenon
<1>5. /\ r = [graph |-> h, top |-> M, commit |-> IF item.kind = "commit" THEN M ELSE s.commit]
  <2>1. CASE item.kind = "commit"
    BY <1>2, <2>1 DEF AddItem, parent, g
  <2>2. CASE item.kind # "commit"
    <3>1. r = [s EXCEPT !.graph = AddStep(s.graph, Reference(item.id), <<s.top>>), !.top = M]
      BY <1>2, <2>2 DEF AddItem, g
    <3>2. s \in [graph : {g}, top : {s.top}, commit : {s.commit}]
      BY <1>2
    <3>3. h = AddStep(s.graph, Reference(item.id), <<s.top>>)
      BY <2>2 DEF g
    <3> HIDE DEF h, M, g, r
    <3>4. r \in [graph : {h}, top : {M}, commit : {s.commit}]
      BY <3>1, <3>2, <3>3
    <3> QED BY <2>2, <3>4
  <2> QED BY <2>1, <2>2
<1> HIDE DEF r, st, item
<1>6. /\ Sprout(h, layout, i, lane2, spot2)
      /\ Len(h.parents) = M /\ Len(h.step) = M /\ h.step[M] = st
      /\ \A n \in 1 .. N : h.step[n] = g.step[n]
  <2>1. \A n \in 2 .. N : lane[n] = i => spot[n] # k
    <3> SUFFICES ASSUME NEW n \in 2 .. N, lane[n] = i PROVE spot[n] # k
      OBVIOUS
    <3>1. spot[n] \in Nat /\ spot[n] <= k - 1
      BY <1>2, SMTT(40)
    <3> QED BY <1>1, <3>1
  <2>2. IsItem(st, layout[i][k], layout[i])
    BY <1>4 DEF item
  <2> DEFINE below == <<s.top>>
  <2>3. below \in Seq(1 .. N) /\ Len(below) = 1 /\ below[1] = s.top
    BY <1>2
  <2> HIDE DEF below
  <2>4. MaySprout(g, layout, i, lane, spot, k, st, below)
    BY <1>1, <1>2, <2>1, <2>2, <2>3 DEF MaySprout
  <2>5. IsGraph(g, N)
    BY <1>2 DEF Sprout
  <2>6. h = AddStep(g, st, below) /\ M = N + 1
    BY DEF below
  <2> HIDE DEF h, M
  <2>7. Sprout(h, layout, i, Extended(lane, M, i), Extended(spot, M, k))
    <3>1. Sprout(AddStep(g, st, below), layout, i,
                 Extended(lane, Len(g.parents) + 1, i), Extended(spot, Len(g.parents) + 1, k))
      BY <1>2, <2>4, SproutGrows
    <3> QED BY <2>6, <3>1
  <2> HIDE DEF N
  <2>8. IsGraph(h, M) /\ h.step[M] = st
    <3>1. IsGraph(AddStep(g, st, below), N + 1)
      BY <2>3, <2>5, StepAdded
    <3>2. AddStep(g, st, below).step[N + 1] = st
      BY <2>3, <2>5, StepAdded
    <3> QED BY <2>6, <3>1, <3>2
  <2>9. ASSUME NEW n \in 1 .. N PROVE h.step[n] = g.step[n]
    BY <2>3, <2>5, <2>6, StepKept
  <2>10. Len(h.parents) = M /\ Len(h.step) = M
    BY <2>8 DEF IsGraph
  <2> QED BY <2>7, <2>8, <2>9, <2>10
<1>15. \E base2 : Rooted(h, base2) /\ base2[M] = IF item.kind = "commit" THEN M ELSE s.commit
  <2>1. PICK base : Rooted(g, base) /\ base[s.top] = s.commit
    BY DEF Growing, g
  <2>2. IsGraph(g, N) /\ \A n \in 2 .. N : g.parents[n][1] \in 1 .. n - 1
    BY <1>2 DEF Sprout
  <2>3. st.kind = "pick" => st.commit.parents = <<g.step[base[s.top]].commit>>
    BY <1>14, <2>1 DEF parent
  <2> DEFINE b == NextBase(base, N, st, s.top)
  <2>4. Rooted(h, b) /\ b[N + 1] = IF st.kind = "pick" THEN N + 1 ELSE base[s.top]
    <3> DEFINE below == s.top
               com == s.commit
    <3>1. N # 0 /\ below \in 1 .. N /\ base[below] = com
      BY <1>2, <2>1
    <3>2. st.kind = "pick" => st.commit.parents = <<g.step[base[below]].commit>>
      BY <2>3
    <3>3. h = AddStep(g, st, <<below>>) /\ b = NextBase(base, N, st, below)
      OBVIOUS
    <3> HIDE DEF N, h, b, below, com, st
    <3>6. MayRoot(g, N, base, st, below)
      BY <2>1, <2>2, <3>1, <3>2 DEF MayRoot
    <3>4. /\ Rooted(AddStep(g, st, <<below>>), NextBase(base, N, st, below))
          /\ NextBase(base, N, st, below)[N + 1] = IF st.kind = "pick" THEN N + 1 ELSE base[below]
      BY <3>6, RootedGrows
    <3>5. /\ Rooted(h, b)
          /\ b[N + 1] = IF st.kind = "pick" THEN N + 1 ELSE base[below]
      BY <3>3, <3>4
    <3> QED BY <3>5 DEF below
  <2> HIDE DEF b, h
  <2> QED BY <1>14, <2>1, <2>4
<1> HIDE DEF h
<1>7. /\ M \in 1 .. M /\ M # 1 /\ M \notin 1 .. N /\ M \in Nat /\ M = N + 1
      /\ \A n \in 1 .. N : n \in 1 .. M /\ n # M
      /\ \A n \in 2 .. N : n \in 1 .. N /\ n \in 2 .. M
      /\ \A n \in 2 .. M : n = M \/ n \in 2 .. N
  <2>1. N \in Nat \ {0} /\ M = N + 1
    BY <1>2
  <2> HIDE DEF N, M
  <2> QED BY <2>1
<1>8. /\ lane2[M] = i /\ spot2[M] = k /\ \A n \in 1 .. N : lane2[n] = lane[n] /\ spot2[n] = spot[n]
  <2> HIDE DEF N, M
  <2> QED BY <1>7 DEF Extended
<1> HIDE DEF lane2, spot2, g, N, M
<1>9. AreTops(tops, M, layout, i - 1, lane2, spot2)
  <2>1. tops \in Seq(2 .. M)
    <3>1. 2 .. N \subseteq 2 .. M
      BY <1>7
    <3>2. tops \in Seq(2 .. N)
      BY <1>2 DEF AreTops
    <3> QED BY <3>1, <3>2, SeqMonotonic
  <2>2. \A j \in 1 .. i - 1 : tops[j] \in 1 .. N
    <3>1. tops \in Seq(2 .. N) /\ Len(tops) = i - 1
      BY <1>2 DEF AreTops
    <3>2. \A j \in 1 .. i - 1 : tops[j] \in 2 .. N
      <4> DEFINE K == 2 .. N
      <4> HIDE DEF K
      <4>1. tops \in Seq(K) /\ Len(tops) = i - 1
        BY <3>1 DEF K
      <4>2. \A j \in 1 .. i - 1 : tops[j] \in K
        BY <4>1
      <4> QED BY <4>2 DEF K
    <3> QED BY <1>7, <3>2
  <2> QED BY <1>2, <1>8, <2>1, <2>2 DEF AreTops
<1>10. \A n \in 2 .. M : lane2[n] = i => spot2[n] <= k
  <2> SUFFICES ASSUME NEW n \in 2 .. M, lane2[n] = i PROVE spot2[n] <= k
    OBVIOUS
  <2>1. CASE n = M
    BY <1>1, <1>8, <2>1
  <2>2. CASE n # M
    <3>1. n \in 2 .. N /\ n \in 1 .. N
      BY <1>7, <2>2
    <3>2. spot[n] \in Nat /\ spot[n] <= k - 1
      BY <1>2, <1>8, <3>1
    <3> QED BY <1>1, <1>8, <3>1, <3>2
  <2> QED BY <2>1, <2>2
<1>11. /\ r.graph = h /\ r.top = M /\ r.commit = IF item.kind = "commit" THEN M ELSE s.commit
       /\ r = [graph |-> r.graph, top |-> r.top, commit |-> r.commit]
  BY <1>5
<1>12. /\ r.commit \in 1 .. M /\ (r.commit = 1 \/ lane2[r.commit] = i)
       /\ h.step[r.commit].kind = "pick"
  <2>1. CASE item.kind = "commit"
    <3>1. st.kind = "pick"
      BY <2>1, Kinds DEF st
    <3> QED BY <1>6, <1>7, <1>8, <1>11, <2>1, <3>1
  <2>2. CASE item.kind # "commit"
    <3>1. r.commit = s.commit /\ s.commit \in 1 .. N
      BY <1>2, <1>11, <2>2
    <3>2. r.commit \in 1 .. M /\ lane2[r.commit] = lane[s.commit] /\ h.step[r.commit] = g.step[s.commit]
      BY <1>6, <1>7, <1>8, <3>1
    <3> QED BY <1>2, <3>1, <3>2
  <2> QED BY <2>1, <2>2
<1>13. Growing(r, layout, i, k, tops, lane2, spot2)
  <2>1. \E base : Rooted(r.graph, base) /\ base[r.top] = r.commit
    BY <1>11, <1>15
  <2> QED BY <1>6, <1>7, <1>8, <1>9, <1>10, <1>11, <1>12, <2>1 DEF Growing
<1> QED BY <1>13 DEF r, item

\* Stacks of which the first i have been added.
Building(ws, layout, i, lane, spot) ==
  /\ Sprout(ws.graph, layout, i, lane, spot)
  /\ AreTops(ws.tops, Len(ws.graph.parents), layout, i, lane, spot)
  /\ \E base : Rooted(ws.graph, base)
  /\ \E T : ws.tips \in Seq(T) /\ Len(ws.tips) = i

\* Before its first item a stack begins at the target.
LEMMA StackBegun ==
  ASSUME NEW i \in Nat \ {0}, NEW layout, NEW g, NEW lane, NEW spot, NEW tops,
         Sprout(g, layout, i - 1, lane, spot),
         AreTops(tops, Len(g.parents), layout, i - 1, lane, spot),
         \E base : Rooted(g, base),
         NEW s, s = [graph |-> g, top |-> 1, commit |-> 1]
  PROVE  Growing(s, layout, i, 0, tops, lane, spot)
<1>1. s.graph = g /\ s.top = 1 /\ s.commit = 1
  OBVIOUS
<1>2. /\ IsGraph(g, Len(g.parents)) /\ Len(g.parents) # 0
      /\ g.step[1] = Pick(TargetCommit) /\ g.parents[1] = <<>>
      /\ lane \in [1 .. Len(g.parents) -> Nat] /\ spot \in [1 .. Len(g.parents) -> Nat]
      /\ \A n \in 2 .. Len(g.parents) :
           /\ lane[n] \in 1 .. i - 1 /\ spot[n] \in 1 .. Len(layout[lane[n]])
           /\ IsItem(g.step[n], layout[lane[n]][spot[n]], layout[lane[n]])
           /\ Len(g.parents[n]) = 1 /\ g.parents[n][1] \in 1 .. n - 1
           /\ g.parents[n][1] = 1 \/ lane[g.parents[n][1]] = lane[n]
      /\ \A m, n \in 2 .. Len(g.parents) : lane[m] = lane[n] /\ spot[m] = spot[n] => m = n
  BY DEF Sprout
<1>3. \A l \in 1 .. i - 1 : l \in 1 .. i /\ l # i
  OBVIOUS
<1>4. Sprout(g, layout, i, lane, spot)
  <2>1. \A n \in 2 .. Len(g.parents) : lane[n] \in 1 .. i
    BY <1>2, <1>3
  <2> QED BY <1>2, <2>1 DEF Sprout
<1>5. \A n \in 2 .. Len(g.parents) : lane[n] # i
  BY <1>2, <1>3
<1>6. 1 \in 1 .. Len(g.parents) /\ g.step[1].kind = "pick"
  <2>1. Len(g.parents) \in Nat \ {0}
    BY <1>2 DEF IsGraph
  <2>2. Pick(TargetCommit).kind = "pick"
    BY Kinds
  <2>3. 1 \in 1 .. Len(g.parents)
    BY <2>1
  <2> QED BY <1>2, <2>2, <2>3
<1>7. \E base : Rooted(s.graph, base) /\ base[s.top] = s.commit
  BY <1>1 DEF Rooted
<1> QED BY <1>1, <1>4, <1>5, <1>6, <1>7 DEF Growing

\* All items of a stack are added to it.
LEMMA ItemsAdded ==
  ASSUME NEW layout \in Layouts, NEW i \in 1 .. Len(layout), NEW tops, NEW s, NEW lane, NEW spot,
         Growing(s, layout, i, 0, tops, lane, spot)
  PROVE  \E lane2, spot2 :
           Growing(AddItems(s, layout[i]), layout, i, Len(layout[i]), tops, lane2, spot2)
<1> DEFINE K == Len(layout[i])
<1>1. K \in Nat
  BY LayoutIs
<1>2. PICK walk : IsAddItems(s, layout[i], walk)
  BY <1>1, AddItemsIs
<1> DEFINE Fine(k) == \E lane2, spot2 : Growing(walk[k], layout, i, k, tops, lane2, spot2)
           S == {k \in 0 .. K : Fine(k)}
<1>3. 0 \in S
  BY <1>1, <1>2 DEF IsAddItems
<1>4. ASSUME NEW k \in 1 .. K, k - 1 \in S PROVE k \in S
  <2>1. PICK lane2, spot2 : Growing(walk[k - 1], layout, i, k - 1, tops, lane2, spot2)
    BY <1>4
  <2>2. walk[k] = AddItem(walk[k - 1], layout[i][k])
    BY <1>2 DEF IsAddItems
  <2>3. \E lane3, spot3 : Growing(AddItem(walk[k - 1], layout[i][k]), layout, i, k, tops, lane3, spot3)
    BY <2>1, AddItemIs
  <2>4. k \in 0 .. K
    OBVIOUS
  <2> QED BY <2>2, <2>3, <2>4
<1> HIDE DEF S
<1>5. 0 .. K \subseteq S
  BY <1>1, <1>3, <1>4, BoundedInduction
<1>6. Fine(K)
  <2>1. K \in S
    BY <1>1, <1>5
  <2> QED BY <2>1 DEF S
<1> QED BY <1>2, <1>6 DEF IsAddItems

\* A stack is added beside those before it.
LEMMA StackAdded ==
  ASSUME NEW layout \in Layouts, NEW i \in 1 .. Len(layout), NEW ws, NEW lane, NEW spot,
         Building(ws, layout, i - 1, lane, spot)
  PROVE  \E lane2, spot2 : Building(AddStack(ws, layout[i]), layout, i, lane2, spot2)
<1> DEFINE s == [graph |-> ws.graph, top |-> 1, commit |-> 1]
           added == AddItems(s, layout[i])
           K == Len(layout[i])
           r == AddStack(ws, layout[i])
<1>1. i \in Nat \ {0} /\ K \in Nat \ {0}
  BY LayoutIs
<1>2. Growing(s, layout, i, 0, ws.tops, lane, spot)
  BY <1>1, StackBegun DEF Building
<1>3. PICK lane2, spot2 : Growing(added, layout, i, K, ws.tops, lane2, spot2)
  <2> HIDE DEF s
  <2> QED BY <1>2, ItemsAdded, SMTT(40)
<1>4. r.graph = added.graph /\ r.tops = Append(ws.tops, added.top)
  BY DEF AddStack
<1> HIDE DEF added, r, K
<1> DEFINE N == Len(added.graph.parents)
<1>5. /\ Sprout(added.graph, layout, i, lane2, spot2)
      /\ AreTops(ws.tops, N, layout, i - 1, lane2, spot2)
      /\ added.top \in 1 .. N /\ added.top # 1 /\ lane2[added.top] = i /\ spot2[added.top] = K
      /\ N \in Nat
  BY <1>1, <1>3 DEF Growing, Sprout, IsGraph
<1>6. AreTops(r.tops, N, layout, i, lane2, spot2)
  <2> DEFINE T == 2 .. N
  <2>1. ws.tops \in Seq(T) /\ Len(ws.tops) = i - 1 /\ added.top \in T
    BY <1>5 DEF AreTops
  <2>2. \A j \in 1 .. i - 1 : lane2[ws.tops[j]] = j /\ spot2[ws.tops[j]] = Len(layout[j])
    BY <1>5 DEF AreTops
  <2> HIDE DEF T
  <2>3. /\ r.tops \in Seq(T) /\ Len(r.tops) = (i - 1) + 1 /\ r.tops[(i - 1) + 1] = added.top
        /\ \A j \in 1 .. i - 1 : r.tops[j] = ws.tops[j]
    BY <1>4, <2>1, AppendProperties
  <2>4. \A j \in 1 .. i : j = i \/ j \in 1 .. i - 1
    BY <1>1
  <2>5. (i - 1) + 1 = i
    BY <1>1
  <2>6. ASSUME NEW j \in 1 .. i PROVE lane2[r.tops[j]] = j /\ spot2[r.tops[j]] = Len(layout[j])
    <3>1. CASE j = i
      BY <1>5, <2>3, <2>5, <3>1 DEF K
    <3>2. CASE j \in 1 .. i - 1
      BY <2>2, <2>3, <3>2
    <3> QED BY <2>4, <3>1, <3>2
  <2> QED BY <2>3, <2>5, <2>6 DEF AreTops, T
<1>7. \E base : Rooted(added.graph, base)
  BY <1>3 DEF Growing
<1>8. \E T : r.tips \in Seq(T) /\ Len(r.tips) = i
  <2>1. PICK T : ws.tips \in Seq(T) /\ Len(ws.tips) = i - 1
    BY DEF Building
  <2> DEFINE tip == added.graph.step[added.commit].commit
             U == T \cup {tip}
  <2>2. r.tips = Append(ws.tips, tip)
    BY DEF AddStack, r, added
  <2>3. T \subseteq U /\ tip \in U
    OBVIOUS
  <2> HIDE DEF tip, U
  <2>4. ws.tips \in Seq(U)
    BY <2>1, <2>3, SeqMonotonic
  <2>5. r.tips \in Seq(U) /\ Len(r.tips) = (i - 1) + 1
    BY <2>1, <2>2, <2>3, <2>4, AppendProperties
  <2> QED BY <1>1, <2>5
<1>9. Building(r, layout, i, lane2, spot2)
  BY <1>4, <1>5, <1>6, <1>7, <1>8 DEF Building
<1> QED BY <1>9 DEF r

\* All stacks of a layout are added.
LEMMA StacksAdded ==
  ASSUME NEW layout \in Layouts, NEW ws,
         ws = [graph |-> [step |-> <<Pick(TargetCommit)>>, parents |-> << <<>> >>],
               tops |-> <<>>, tips |-> <<>>]
  PROVE  \E lane, spot : Building(AddStacks(ws, layout), layout, Len(layout), lane, spot)
<1> DEFINE L == Len(layout)
           none == [n \in 1 .. 1 |-> 0]
<1>1. L \in Nat
  BY LayoutIs
<1>2. PICK walk : IsAddStacks(ws, layout, walk)
  BY <1>1, AddStacksIs
<1> DEFINE Fine(k) == \E lane, spot : Building(walk[k], layout, k, lane, spot)
           S == {k \in 0 .. L : Fine(k)}
<1>3. Building(ws, layout, 0, none, none)
  <2> DEFINE st == <<Pick(TargetCommit)>>
             ps == << <<>> >>
  <2>1. ws.graph = [step |-> st, parents |-> ps] /\ ws.tops = <<>>
    OBVIOUS
  <2>2. ws.graph.step = st /\ ws.graph.parents = ps
    BY <2>1
  <2>3. /\ st \in Seq(ToSet(st)) /\ Len(st) = 1 /\ st[1] = Pick(TargetCommit)
        /\ ps \in Parents(1) /\ Len(ps) = 1 /\ ps[1] = <<>>
    <3>1. st[1] = Pick(TargetCommit) /\ Len(st) = 1
      OBVIOUS
    <3>2. st \in Seq(ToSet(st))
      <4>1. st \in Seq({Pick(TargetCommit)})
        OBVIOUS
      <4>2. ToSet(st) = {Pick(TargetCommit)}
        BY OneElement
      <4> QED BY <4>1, <4>2
    <3>3. ps \in [1 .. 1 -> Seq(1 .. 1)] /\ Len(ps) = 1 /\ ps[1] = <<>>
      <4>1. Len(ps) = 1 /\ ps[1] = <<>> /\ ps \in Seq({<<>>})
        OBVIOUS
      <4>2. <<>> \in Seq(1 .. 1)
        OBVIOUS
      <4>3. ps \in [1 .. 1 -> {<<>>}]
        <5> HIDE DEF ps
        <5> QED BY <4>1, LenProperties
      <4> HIDE DEF ps
      <4> QED BY <4>1, <4>2, <4>3
    <3> QED BY <3>1, <3>2, <3>3 DEF Parents
  <2> HIDE DEF st, ps
  <2>4. IsGraph(ws.graph, 1)
    BY <2>1, <2>2, <2>3 DEF IsGraph
  <2>5. none \in [1 .. 1 -> Nat] /\ 2 .. 1 = {}
    OBVIOUS
  <2> HIDE DEF none
  <2>6. Sprout(ws.graph, layout, 0, none, none)
    <3>1. Len(ws.graph.parents) = 1 /\ ws.graph.step[1] = Pick(TargetCommit) /\ ws.graph.parents[1] = <<>>
      BY <2>2, <2>3
    <3>2. \A n \in 2 .. 1 : FALSE
      OBVIOUS
    <3> HIDE DEF none
    <3>3. \A n \in 2 .. Len(ws.graph.parents) : FALSE
      BY <3>1, <3>2
    <3>4. none \in [1 .. Len(ws.graph.parents) -> Nat]
      BY <2>5, <3>1
    <3>5. IsGraph(ws.graph, Len(ws.graph.parents)) /\ Len(ws.graph.parents) # 0
      <4>1. Len(ws.graph.parents) # 0
        BY <3>1
      <4> QED BY <2>4, <3>1, <4>1, Zenon
    <3> QED BY <3>1, <3>3, <3>4, <3>5, Zenon DEF Sprout
  <2>7. AreTops(ws.tops, 1, layout, 0, none, none)
    <3>1. <<>> \in Seq(2 .. 1) /\ Len(<<>>) = 0 /\ 1 .. 0 = {}
      OBVIOUS
    <3> QED BY <2>1, <3>1 DEF AreTops
  <2>8. Rooted(ws.graph, [n \in 1 .. 1 |-> 1])
    <3>1. \A n \in 2 .. 1 : FALSE
      OBVIOUS
    <3> DEFINE one == [n \in 1 .. 1 |-> 1]
               M == Len(ws.graph.parents)
    <3>2. M = 1
      BY <2>2, <2>3
    <3>3. one \in [1 .. 1 -> 1 .. 1] /\ one[1] = 1
      OBVIOUS
    <3> HIDE DEF one, M
    <3>4. one \in [1 .. M -> 1 .. M] /\ \A n \in 2 .. M : FALSE
      BY <3>1, <3>2, <3>3
    <3> QED BY <3>3, <3>4, Zenon DEF Rooted, M, one
  <2>9. ws.tips \in Seq({}) /\ Len(ws.tips) = 0
    OBVIOUS
  <2> QED BY <2>2, <2>3, <2>6, <2>7, <2>8, <2>9 DEF Building
<1> HIDE DEF none
<1>4. 0 \in S
  BY <1>1, <1>2, <1>3 DEF IsAddStacks
<1>5. ASSUME NEW k \in 1 .. L, k - 1 \in S PROVE k \in S
  <2>1. PICK lane, spot : Building(walk[k - 1], layout, k - 1, lane, spot)
    BY <1>5
  <2>2. walk[k] = AddStack(walk[k - 1], layout[k])
    BY <1>2 DEF IsAddStacks
  <2>3. \E lane2, spot2 : Building(AddStack(walk[k - 1], layout[k]), layout, k, lane2, spot2)
    BY <2>1, StackAdded
  <2>4. k \in 0 .. L
    OBVIOUS
  <2> QED BY <2>2, <2>3, <2>4
<1> HIDE DEF S
<1>6. 0 .. L \subseteq S
  BY <1>1, <1>4, <1>5, BoundedInduction
<1>7. Fine(L)
  <2>1. L \in S
    BY <1>1, <1>6
  <2> QED BY <2>1 DEF S
<1> QED BY <1>2, <1>7 DEF IsAddStacks

\* The graph d is that of stacks, a, with the workspace commit c on their tops and its reference.
Crowned(d, a, N, c, tops) ==
  /\ IsGraph(d, N + 2)
  /\ \A n \in 1 .. N : d.step[n] = a.step[n] /\ d.parents[n] = a.parents[n]
  /\ d.step[N + 1] = Pick(c) /\ d.parents[N + 1] = tops
  /\ d.step[N + 2] = Reference("workspace")
  /\ d.parents[N + 2] \in Seq({N + 1}) /\ Len(d.parents[N + 2]) = 1 /\ d.parents[N + 2][1] = N + 1

\* The workspace commit and its reference come on top of the stacks.
LEMMA CrownedIs ==
  ASSUME NEW a, NEW N, IsGraph(a, N), NEW c, NEW tops \in Seq(1 .. N)
  PROVE  LET m == AddStep(a, Pick(c), tops)
         IN Crowned(AddStep(m, Reference("workspace"), <<Len(m.step)>>), a, N, c, tops)
<1> DEFINE s == Pick(c)
           m == AddStep(a, s, tops)
           r == Reference("workspace")
           top == <<Len(m.step)>>
           d == AddStep(m, r, top)
           M == N + 1
<1>1. N \in Nat /\ M \in Nat /\ M = N + 1
  BY DEF IsGraph
<1>2. IsGraph(m, M) /\ m.step[M] = s /\ m.parents[M] = tops
  <2> HIDE DEF s
  <2>1. IsGraph(m, N + 1) /\ m.step[N + 1] = s /\ m.parents[N + 1] = tops
    BY StepAdded
  <2> HIDE DEF m
  <2> QED BY <1>1, <2>1
<1>3. \A n \in 1 .. N : m.step[n] = a.step[n] /\ m.parents[n] = a.parents[n]
  <2> HIDE DEF s
  <2> QED BY StepKept
<1>4. Len(m.step) = M
  BY <1>2 DEF IsGraph
<1> HIDE DEF m, M
<1>5. top \in Seq(1 .. M) /\ top \in Seq({M}) /\ Len(top) = 1 /\ top[1] = M
  BY <1>1, <1>4
<1> HIDE DEF top, r
<1>6. IsGraph(d, M + 1) /\ d.step[M + 1] = r /\ d.parents[M + 1] = top
  BY <1>2, <1>5, StepAdded
<1>7. \A n \in 1 .. M : d.step[n] = m.step[n] /\ d.parents[n] = m.parents[n]
  BY <1>2, <1>5, StepKept
<1> HIDE DEF d
<1>8. M + 1 = N + 2 /\ M \in 1 .. M /\ \A n \in 1 .. N : n \in 1 .. M
  BY <1>1
<1>9. Crowned(d, a, N, c, tops)
  <2>1. \A n \in 1 .. N : d.step[n] = a.step[n] /\ d.parents[n] = a.parents[n]
    BY <1>3, <1>7, <1>8
  <2>2. d.step[M] = s /\ d.parents[M] = tops
    BY <1>2, <1>7, <1>8
  <2> QED BY <1>1, <1>5, <1>6, <1>8, <2>1, <2>2 DEF Crowned, r
<1> QED BY <1>9 DEF d, m, r, top

\* Such a graph has the edges of a workspace: nodes are their own ranks, and a stack is a line.
LEMMA CrownedEdges ==
  ASSUME NEW d, NEW a, NEW N, NEW c, NEW tops, Crowned(d, a, N, c, tops),
         NEW layout, NEW lane, NEW spot, Sprout(a, layout, Len(layout), lane, spot),
         N = Len(a.parents), AreTops(tops, N, layout, Len(layout), lane, spot),
         Len(layout) \in Nat \ {0}
  PROVE  /\ Edges(N + 2, d.parents, N + 1, N + 2)
         /\ Ranked(N + 2, d.parents, [n \in 1 .. N + 2 |-> n])
         /\ Lanes(N + 2, d.parents, N + 1, [n \in 1 .. N + 2 |-> IF n \in 1 .. N THEN lane[n] ELSE 0])
<1> DEFINE ps == d.parents
           w == N + 1
           t == N + 2
           rank == [n \in 1 .. N + 2 |-> n]
           lane2 == [n \in 1 .. N + 2 |-> IF n \in 1 .. N THEN lane[n] ELSE 0]
<1>1. /\ N \in Nat \ {0} /\ ps \in Parents(N + 2) /\ a.parents \in Parents(N) /\ a.parents[1] = <<>>
      /\ lane \in [1 .. N -> Nat]
  BY DEF Sprout, Crowned, IsGraph
<1>2. /\ ps[1] = <<>> /\ ps[w] = tops
      /\ ps[t] \in Seq({w}) /\ Len(ps[t]) = 1 /\ ps[t][1] = w
      /\ \A n \in 2 .. N : ps[n] = a.parents[n]
  BY <1>1 DEF Crowned
<1>3. \A n \in 2 .. N : /\ Len(a.parents[n]) = 1 /\ a.parents[n][1] \in 1 .. n - 1
                        /\ a.parents[n][1] = 1 \/ lane[a.parents[n][1]] = lane[n]
  BY DEF Sprout
<1>4. \A n \in 2 .. N : n \in 1 .. N
  OBVIOUS
<1>5. \A n \in 2 .. N : a.parents[n] \in Seq(1 .. N)
  BY <1>1, <1>4 DEF Parents
<1>6. \A n \in 2 .. N : ps[n] # <<>> /\ ToSet(ps[n]) = {a.parents[n][1]} /\ Len(ps[n]) = 1
  <2> SUFFICES ASSUME NEW n \in 2 .. N
               PROVE  ps[n] # <<>> /\ ToSet(ps[n]) = {a.parents[n][1]} /\ Len(ps[n]) = 1
    OBVIOUS
  <2>1. ps[n] = a.parents[n] /\ Len(ps[n]) = 1 /\ ps[n] \in Seq(1 .. N)
    BY <1>2, <1>3, <1>5
  <2>2. DOMAIN ps[n] = 1 .. 1
    BY <2>1, LenProperties
  <2>3. ToSet(ps[n]) = {ps[n][i] : i \in 1 .. Len(ps[n])} /\ ps[n] # <<>>
    <3> DEFINE x == ps[n]
               K == 1 .. N
    <3>1. x \in Seq(K) /\ Len(x) = 1
      BY <2>1
    <3> HIDE DEF x, K
    <3>2. ToSet(x) = {x[i] : i \in 1 .. Len(x)} /\ (Len(x) = 0 <=> x = <<>>)
      BY <3>1, SeqFacts
    <3>3. x # <<>>
      BY <3>1, <3>2
    <3> QED BY <3>2, <3>3 DEF x
  <2>4. ToSet(ps[n]) = {ps[n][1]}
    BY <2>1, <2>3
  <2> QED BY <2>1, <2>3, <2>4
<1>7. ToSet(ps[t]) = {w} /\ ps[t] = <<w>> /\ ps[t] # <<>>
  <2>1. DOMAIN ps[t] = 1 .. 1
    BY <1>2, LenProperties
  <2>2. ToSet(ps[t]) = {ps[t][i] : i \in 1 .. 1} /\ ps[t] # <<>>
    BY <1>2, SeqFacts
  <2>3. ps[t] = <<w>>
    BY <1>2
  <2> QED BY <1>2, <2>2, <2>3
<1>8. /\ tops \in Seq(2 .. N) /\ Len(tops) = Len(layout) /\ tops # <<>>
      /\ DOMAIN tops = 1 .. Len(layout)
      /\ ToSet(tops) \subseteq 2 .. N
      /\ \A j \in 1 .. Len(layout) : lane[tops[j]] = j /\ tops[j] \in 2 .. N
  <2> DEFINE T == 2 .. N
  <2>1. tops \in Seq(T) /\ Len(tops) = Len(layout) /\ \A j \in 1 .. Len(layout) : lane[tops[j]] = j
    BY DEF AreTops
  <2> HIDE DEF T
  <2>2. ToSet(tops) \subseteq T /\ tops # <<>> /\ DOMAIN tops = 1 .. Len(layout)
    BY <2>1, SeqFacts
  <2>3. \A j \in 1 .. Len(layout) : tops[j] \in T
    BY <2>1, ElementOfSeq
  <2> QED BY <2>1, <2>2, <2>3 DEF T
<1>9. \A m \in 1 .. N + 2 : m = 1 \/ m \in 2 .. N \/ m = w \/ m = t
  BY <1>1
<1>10. ToSet(ps[1]) = {}
  BY <1>2 DEF ToSet
<1>11. \A n \in 2 .. N : n \in 1 .. N + 2 /\ n # w /\ n # t /\ n # 1
  OBVIOUS
<1> HIDE DEF ps
<1>12. ASSUME NEW m \in 1 .. N + 2, NEW p \in ToSet(ps[m])
       PROVE  /\ (p = 1 \/ ps[p] # <<>>) /\ p # t /\ (p = w => m = t)
              /\ p < m
              /\ p \in 1 .. N + 2
              /\ m # w /\ p # 1 => lane2[p] = lane2[m]
  <2>1. CASE m = 1
    BY <1>10, <1>12, <2>1
  <2>2. CASE m \in 2 .. N
    <3>1. p = a.parents[m][1]
      BY <1>6, <1>12, <2>2
    <3>2. p \in 1 .. m - 1 /\ (p = 1 \/ lane[p] = lane[m])
      BY <1>3, <2>2, <3>1
    <3>3. p = 1 \/ p \in 2 .. N
      BY <2>2, <3>2
    <3>4. p < m /\ p # t /\ p # w /\ p \in 1 .. N + 2 /\ p \in 1 .. N /\ m \in 1 .. N
      BY <1>1, <2>2, <3>2
    <3>5. lane2[p] = lane[p] /\ lane2[m] = lane[m]
      BY <3>4
    <3> QED BY <1>6, <3>2, <3>3, <3>4, <3>5
  <2>3. CASE m = w
    <3>1. p \in 2 .. N
      BY <1>2, <1>8, <1>12, <2>3
    <3> QED BY <1>1, <1>6, <2>3, <3>1
  <2>4. CASE m = t
    <3>1. p = w
      BY <1>7, <1>12, <2>4
    <3>2. ps[w] # <<>>
      BY <1>2, <1>8
    <3>3. lane2[w] = 0 /\ lane2[t] = 0 /\ w # t /\ w < t /\ w \in 1 .. N + 2
      BY <1>1
    <3> QED BY <2>4, <3>1, <3>2, <3>3
  <2> QED BY <1>9, <2>1, <2>2, <2>3, <2>4
<1>13. Edges(N + 2, ps, w, t)
  <2>1. ASSUME NEW m \in (1 .. N + 2) \ {w} PROVE Len(ps[m]) <= 1
    <3>1. Len(ps[1]) = 0
      BY <1>2
    <3>2. m = 1 \/ m \in 2 .. N \/ m = t
      BY <1>9
    <3>3. ps[m] = ps[1] \/ Len(ps[m]) = 1
      BY <1>2, <1>6, <3>2, Zenon
    <3>4. 0 <= 1 /\ 1 <= 1
      OBVIOUS
    <3> QED BY <3>1, <3>3, <3>4, Zenon
  <2>2. 1 \notin ToSet(ps[w]) /\ ps[w] # <<>>
    BY <1>2, <1>8
  <2>3. N + 2 \in Nat /\ w \in 2 .. N + 2 /\ t \in 2 .. N + 2 /\ w # t
    BY <1>1
  <2> QED BY <1>1, <1>2, <1>7, <1>12, <2>1, <2>2, <2>3, ZenonT(40) DEF Edges
<1>14. Ranked(N + 2, ps, rank)
  <2>1. rank \in [1 .. N + 2 -> Nat]
    OBVIOUS
  <2> QED BY <1>12, <2>1 DEF Ranked
<1>15. Lanes(N + 2, ps, w, lane2)
  <2>1. lane2 \in [1 .. N + 2 -> Nat]
    BY <1>1
  <2>2. ASSUME NEW i \in DOMAIN ps[w], NEW j \in DOMAIN ps[w], lane2[ps[w][i]] = lane2[ps[w][j]]
        PROVE  i = j
    <3>1. i \in 1 .. Len(layout) /\ j \in 1 .. Len(layout)
      BY <1>2, <1>8
    <3>2. \A n \in 2 .. N : lane2[n] = lane[n]
      BY <1>4, <1>11
    <3>3. lane2[ps[w][i]] = i /\ lane2[ps[w][j]] = j
      BY <1>2, <1>8, <3>1, <3>2
    <3> QED BY <2>2, <3>3
  <2>3. \A m \in (1 .. N + 2) \ {w} : \A p \in ToSet(ps[m]) \ {1} : lane2[p] = lane2[m]
    BY <1>12
  <2> HIDE DEF lane2
  <2> QED BY <2>1, <2>2, <2>3 DEF Lanes
<1> QED BY <1>13, <1>14, <1>15 DEF ps

\* The step of an item is a commit of its own id, or a reference.
LEMMA ItemStep ==
  ASSUME NEW s, NEW item, NEW stack, IsItem(s, item, stack),
         item.kind \in {"commit", "reference"}, item.id # "workspace"
  PROVE  /\ IsStep(s) /\ s # Reference("workspace")
         /\ s.kind = "pick" => item.kind = "commit" /\ s.commit.change = item.id
         /\ item.kind = "reference" => s.kind # "pick"
         /\ s # NoStep
<1>1. CASE item.kind = "commit" /\ s = Pick(s.commit) /\ IsCommit(s.commit) /\ s.commit.change = item.id
  <2>1. Pick(s.commit).kind = "pick" /\ Reference("workspace").kind = "reference" /\ NoStep.kind = "none"
    BY Kinds
  <2> QED BY <1>1, <2>1 DEF IsStep
<1>2. CASE item.kind = "reference" /\ s = Reference(item.id)
  <2>1. s.kind = "reference" /\ s.name = item.id /\ Reference("workspace").name = "workspace" /\ NoStep.kind = "none"
    BY <1>2, Kinds
  <2> QED BY <1>2, <2>1 DEF IsStep
<1> QED BY <1>1, <1>2 DEF IsItem

\* Such a graph has the steps of a workspace.
LEMMA CrownedSteps ==
  ASSUME NEW d, NEW a, NEW N, NEW c, NEW tops, Crowned(d, a, N, c, tops),
         NEW layout \in Layouts, NEW lane, NEW spot, Sprout(a, layout, Len(layout), lane, spot),
         N = Len(a.parents), AreTops(tops, N, layout, Len(layout), lane, spot),
         IsCommit(c), c.change = "workspace"
  PROVE  /\ Steps(N + 2, d.step, N + 1, N + 2)
         /\ \A n \in ToSet(tops) : d.step[n].kind # "pick"
         /\ \A n \in 1 .. N + 2 : d.step[n] # NoStep
<1> DEFINE st == d.step
           w == N + 1
           t == N + 2
           item(n) == layout[lane[n]][spot[n]]
<1>1. N \in Nat \ {0} /\ st \in Seq(ToSet(st)) /\ Len(st) = N + 2
  BY DEF Sprout, Crowned, IsGraph
<1>2. /\ st[1] = Pick(TargetCommit) /\ st[w] = Pick(c) /\ st[t] = Reference("workspace")
      /\ \A n \in 2 .. N : st[n] = a.step[n]
  <2>1. \A n \in 1 .. N : st[n] = a.step[n]
    BY DEF Crowned
  <2>2. 1 \in 1 .. N /\ \A n \in 2 .. N : n \in 1 .. N
    BY <1>1
  <2>3. a.step[1] = Pick(TargetCommit)
    BY DEF Sprout
  <2>4. st[w] = Pick(c) /\ st[t] = Reference("workspace")
    BY DEF Crowned
  <2> QED BY <2>1, <2>2, <2>3, <2>4
<1>3. \A n \in 2 .. N : /\ lane[n] \in 1 .. Len(layout) /\ spot[n] \in 1 .. Len(layout[lane[n]])
                        /\ IsItem(a.step[n], item(n), layout[lane[n]])
  BY DEF Sprout
<1>4. \A n \in 2 .. N : /\ item(n).kind \in {"commit", "reference"}
                        /\ item(n).id \notin {"target", "workspace"}
  BY <1>3, LayoutIs
<1>5. \A m \in 1 .. N + 2 : m = 1 \/ m \in 2 .. N \/ m = w \/ m = t
  BY <1>1
<1> HIDE DEF st
<1>6. ASSUME NEW n \in 2 .. N
      PROVE  /\ IsStep(st[n]) /\ st[n] # Reference("workspace") /\ st[n] # NoStep
             /\ st[n].kind = "pick" => item(n).kind = "commit" /\ st[n].commit.change = item(n).id
             /\ item(n).kind = "reference" => st[n].kind # "pick"
  <2> DEFINE x == item(n)
             stack == layout[lane[n]]
  <2>1. IsItem(st[n], x, stack) /\ x.kind \in {"commit", "reference"} /\ x.id # "workspace"
    BY <1>2, <1>3, <1>4
  <2> HIDE DEF x, stack
  <2>2. /\ IsStep(st[n]) /\ st[n] # Reference("workspace") /\ st[n] # NoStep
        /\ st[n].kind = "pick" => x.kind = "commit" /\ st[n].commit.change = x.id
        /\ x.kind = "reference" => st[n].kind # "pick"
    BY <2>1, ItemStep
  <2> QED BY <2>2 DEF x
<1>7. /\ st[1].kind = "pick" /\ st[1].commit.change = "target"
      /\ st[w].kind = "pick" /\ st[w].commit.change = "workspace"
      /\ st[t].kind = "reference" /\ st[t].kind # "pick"
      /\ Reference("workspace").kind = "reference" /\ NoStep.kind = "none"
  <2>1. Pick(TargetCommit).kind = "pick" /\ Pick(TargetCommit).commit = TargetCommit
    BY Kinds
  <2>2. Pick(c).kind = "pick" /\ Pick(c).commit = c
    BY Kinds
  <2>3. Reference("workspace").kind = "reference" /\ NoStep.kind = "none"
    BY Kinds
  <2> QED BY <1>2, <2>1, <2>2, <2>3, TargetCommitIs
<1>8. ASSUME NEW n \in 1 .. N + 2
      PROVE  IsStep(st[n]) /\ (st[n] = Reference("workspace") <=> n = t) /\ st[n] # NoStep
  <2>1. CASE n = 1
    <3>1. IsStep(st[1])
      <4>1. Pick(TargetCommit).commit = TargetCommit
        BY Kinds
      <4> QED BY <1>2, <4>1, TargetCommitIs DEF IsStep
    <3>2. 1 # t
      BY <1>1
    <3> QED BY <1>7, <2>1, <3>1, <3>2
  <2>2. CASE n \in 2 .. N
    <3>1. n # t
      BY <1>1, <2>2
    <3> QED BY <1>6, <2>2, <3>1
  <2>3. CASE n = w
    <3>1. IsStep(st[w])
      <4>1. Pick(c).commit = c
        BY Kinds
      <4> QED BY <1>2, <4>1 DEF IsStep
    <3>2. w # t
      BY <1>1
    <3> QED BY <1>7, <2>3, <3>1, <3>2
  <2>4. CASE n = t
    <3>1. IsStep(st[t])
      <4>1. Reference("workspace").name = "workspace"
        BY Kinds
      <4> QED BY <1>2, <4>1 DEF IsStep
    <3> QED BY <1>2, <1>7, <2>4, <3>1
  <2> QED BY <1>5, <2>1, <2>2, <2>3, <2>4
<1>9. ASSUME NEW m \in 2 .. N, NEW n \in 2 .. N, item(m).id = item(n).id PROVE m = n
  <2> DEFINE i == lane[m]
             j == lane[n]
             k == spot[m]
             l == spot[n]
  <2>1. /\ i \in 1 .. Len(layout) /\ j \in 1 .. Len(layout)
        /\ k \in 1 .. Len(layout[i]) /\ l \in 1 .. Len(layout[j])
        /\ layout[i][k].id = layout[j][l].id
    BY <1>3, <1>9
  <2> HIDE DEF i, j, k, l
  <2>2. i = j /\ k = l
    BY <2>1, LayoutApart, SMTT(30)
  <2>3. \A a1, a2 \in 2 .. N : lane[a1] = lane[a2] /\ spot[a1] = spot[a2] => a1 = a2
    BY DEF Sprout
  <2> QED BY <2>2, <2>3 DEF i, j, k, l
<1>10. ASSUME NEW m \in 1 .. N + 2, NEW n \in 1 .. N + 2,
              st[m].kind = "pick", st[n].kind = "pick", st[m].commit.change = st[n].commit.change
       PROVE  m = n
  <2>1. (m = 1 \/ m \in 2 .. N \/ m = w) /\ (n = 1 \/ n \in 2 .. N \/ n = w)
    BY <1>5, <1>7, <1>10
  <2>2. \A x \in 2 .. N : st[x].kind = "pick" =>
             st[x].commit.change = item(x).id /\ item(x).id \notin {"target", "workspace"}
    BY <1>4, <1>6
  <2>3. CASE m \in 2 .. N /\ n \in 2 .. N
    BY <1>9, <1>10, <2>2, <2>3
  <2>4. CASE m \in 2 .. N /\ n \notin 2 .. N
    <3>1. st[n].commit.change \in {"target", "workspace"}
      BY <1>7, <2>1, <2>4
    <3> QED BY <1>10, <2>2, <2>4, <3>1
  <2>5. CASE m \notin 2 .. N /\ n \in 2 .. N
    <3>1. st[m].commit.change \in {"target", "workspace"}
      BY <1>7, <2>1, <2>5
    <3> QED BY <1>10, <2>2, <2>5, <3>1
  <2>6. CASE m \notin 2 .. N /\ n \notin 2 .. N
    <3>1. (m = 1 \/ m = w) /\ (n = 1 \/ n = w)
      BY <2>1, <2>6
    <3>2. st[1].commit.change # st[w].commit.change
      BY <1>7
    <3>3. CASE m = 1
      BY <1>10, <3>1, <3>2, <3>3, Zenon
    <3>4. CASE m = w
      BY <1>10, <3>1, <3>2, <3>4, Zenon
    <3> QED BY <3>1, <3>3, <3>4
  <2> QED BY <2>3, <2>4, <2>5, <2>6
<1>11. Steps(N + 2, st, w, t)
  BY <1>1, <1>2, <1>7, <1>8, <1>10, Zenon DEF Steps
<1>12. \A n \in ToSet(tops) : st[n].kind # "pick"
  <2> DEFINE T == 2 .. N
  <2>1. tops \in Seq(T) /\ Len(tops) = Len(layout)
        /\ \A j \in 1 .. Len(layout) : lane[tops[j]] = j /\ spot[tops[j]] = Len(layout[j])
    BY DEF AreTops
  <2> HIDE DEF T
  <2>2. ToSet(tops) = {tops[j] : j \in 1 .. Len(layout)} /\ ToSet(tops) \subseteq T
    BY <2>1, SeqFacts
  <2>3. ASSUME NEW j \in 1 .. Len(layout) PROVE st[tops[j]].kind # "pick"
    <3>1. tops[j] \in T
      BY <2>2
    <3>2. item(tops[j]) = layout[j][Len(layout[j])]
      BY <2>1
    <3>3. layout[j][Len(layout[j])].kind = "reference"
      BY LayoutIs, SMTT(40)
    <3> QED BY <1>6, <3>1, <3>2, <3>3 DEF T
  <2> QED BY <2>2, <2>3
<1> QED BY <1>8, <1>11, <1>12 DEF st

\* A node of a stack to begin with: base as in Rooted, and a commit as its stack wrote it.
IsLaid(g, n, layout, base, lane) ==
  /\ lane[n] \in 1 .. Len(layout)
  /\ g.step[n].kind = "pick" =>
       /\ base[n] = n /\ g.step[n].commit.parents = <<g.step[base[g.parents[n][1]]].commit>>
       /\ g.step[n] = Pick(g.step[n].commit) /\ Wrote(g.step[n].commit, layout[lane[n]])
  /\ g.step[n].kind # "pick" => base[n] = base[g.parents[n][1]]

\* The graph to begin with.
Laid(g, w, t, layout) ==
  /\ \E tips : tips # <<>> /\ g.step[w] = Pick(NewCommit("workspace", <<>>, tips, MergedTree(tips).tree))
  /\ \E base, lane : /\ Lanes(Len(g.parents), g.parents, w, lane) /\ base[1] = 1
                     /\ \A n \in (1 .. Len(g.parents)) \ {1, w, t} : IsLaid(g, n, layout, base, lane)

\* Every node of its stacks is as its stack wrote it.
LEMMA CrownedLaid ==
  ASSUME NEW d, NEW a, NEW N, NEW c, NEW tops, Crowned(d, a, N, c, tops),
         NEW layout \in Layouts, NEW lane, NEW spot, Sprout(a, layout, Len(layout), lane, spot),
         N = Len(a.parents), NEW base, Rooted(a, base), NEW lane2,
         lane2 = [n \in 1 .. N + 2 |-> IF n \in 1 .. N THEN lane[n] ELSE 0]
  PROVE  \A n \in (1 .. N + 2) \ {1, N + 1, N + 2} : IsLaid(d, n, layout, base, lane2)
<1> SUFFICES ASSUME NEW n \in (1 .. N + 2) \ {1, N + 1, N + 2} PROVE IsLaid(d, n, layout, base, lane2)
  OBVIOUS
<1>1. N \in Nat \ {0}
  BY DEF Sprout, IsGraph
<1>2. n \in 2 .. N /\ n \in 1 .. N
  BY <1>1
<1>3. d.step[n] = a.step[n] /\ d.parents[n] = a.parents[n] /\ lane2[n] = lane[n]
  BY <1>2 DEF Crowned
<1> DEFINE q == a.parents[n][1]
           st == a.step[n]
           stack == layout[lane[n]]
           item == stack[spot[n]]
<1>4. q \in 1 .. N
  <2>1. q \in 1 .. n - 1
    BY <1>2 DEF Sprout
  <2> HIDE DEF q
  <2> QED BY <1>1, <1>2, <2>1
<1>5. base[q] \in 1 .. N
  <2> HIDE DEF q
  <2> QED BY <1>4 DEF Rooted
<1>6. d.step[base[q]] = a.step[base[q]]
  BY <1>5, SMTT(40) DEF Crowned
<1>7. /\ st.kind = "pick" => base[n] = n /\ st.commit.parents = <<a.step[base[q]].commit>>
      /\ st.kind # "pick" => base[n] = base[q]
  BY <1>2 DEF Rooted
<1>8. lane[n] \in 1 .. Len(layout) /\ IsItem(st, item, stack)
  BY <1>2 DEF Sprout
<1>9. Reference(item.id).kind = "reference"
  BY Kinds
<1> HIDE DEF q, st, item, stack
<1>10. st.kind = "pick" => st = Pick(st.commit) /\ Wrote(st.commit, stack)
  BY <1>8, <1>9 DEF IsItem
<1> QED BY <1>3, <1>6, <1>7, <1>8, <1>10 DEF IsLaid, q, st, stack

\* What a transaction begins with is a workspace, whatever its stacks are.
LEMMA WorkspaceGraphIs ==
  ASSUME NEW layout \in Layouts
  PROVE  \E w, t : Workspace(WorkspaceGraph(layout), w, t, {}) /\ Laid(WorkspaceGraph(layout), w, t, layout)
<1> DEFINE target == [step |-> <<Pick(TargetCommit)>>, parents |-> << <<>> >>]
           ws == [graph |-> target, tops |-> <<>>, tips |-> <<>>]
           all == AddStacks(ws, layout)
           commit == NewCommit("workspace", <<>>, all.tips, MergedTree(all.tips).tree)
           merged == AddStep(all.graph, Pick(commit), all.tops)
           d == AddStep(merged, Reference("workspace"), <<Len(merged.step)>>)
           a == all.graph
           tops == all.tops
           N == Len(a.parents)
<1>1. WorkspaceGraph(layout) = d
  BY DEF WorkspaceGraph
<1>2. PICK lane, spot : Building(all, layout, Len(layout), lane, spot)
  <2> HIDE DEF all
  <2>1. \E lane, spot : Building(AddStacks(ws, layout), layout, Len(layout), lane, spot)
    BY StacksAdded
  <2> HIDE DEF ws
  <2> QED BY <2>1 DEF all
<1>16. all.tips # <<>>
  <2> HIDE DEF all
  <2>1. PICK T : all.tips \in Seq(T) /\ Len(all.tips) = Len(layout)
    BY <1>2 DEF Building
  <2>2. Len(layout) \in Nat \ {0}
    BY LayoutIs
  <2> QED BY <2>1, <2>2
<1>3. IsCommit(commit) /\ commit.change = "workspace"
  <2> HIDE DEF all
  <2> QED BY NewCommitIs
<1> HIDE DEF all
<1> DEFINE theirs == all.tips
<1>17. commit = NewCommit("workspace", <<>>, theirs, MergedTree(theirs).tree) /\ theirs # <<>>
  BY <1>16
<1> HIDE DEF commit, theirs
<1>18. PICK base : Rooted(all.graph, base)
  BY <1>2 DEF Building
<1>4. Sprout(a, layout, Len(layout), lane, spot) /\ AreTops(tops, N, layout, Len(layout), lane, spot)
  BY <1>2 DEF Building
<1>5. IsGraph(a, N) /\ N \in Nat /\ tops \in Seq(2 .. N)
  BY <1>4 DEF Sprout, AreTops, IsGraph
<1>6. tops \in Seq(1 .. N)
  <2> DEFINE T == 2 .. N
             U == 1 .. N
  <2>1. T \subseteq U /\ tops \in Seq(T)
    BY <1>5
  <2> HIDE DEF T, U
  <2>2. tops \in Seq(U)
    BY <2>1, SeqMonotonic
  <2> QED BY <2>2 DEF U
<1> HIDE DEF a, tops, N
<1>7. Crowned(d, a, N, commit, tops)
  BY <1>5, <1>6, CrownedIs DEF a, tops
<1>19. Rooted(a, base)
  BY <1>18 DEF a
<1> HIDE DEF d
<1>8. Len(layout) \in Nat \ {0} /\ N = Len(a.parents)
  BY LayoutIs DEF N
<1>9. /\ Edges(N + 2, d.parents, N + 1, N + 2)
      /\ \E rank : Ranked(N + 2, d.parents, rank)
      /\ \E lane2 : Lanes(N + 2, d.parents, N + 1, lane2)
  BY <1>4, <1>7, <1>8, CrownedEdges
<1>10. /\ Steps(N + 2, d.step, N + 1, N + 2)
       /\ \A n \in ToSet(tops) : d.step[n].kind # "pick"
       /\ \A n \in 1 .. N + 2 : d.step[n] # NoStep
  BY <1>3, <1>4, <1>7, <1>8, CrownedSteps
<1>11. /\ d = [step |-> d.step, parents |-> d.parents] /\ Len(d.parents) = N + 2
       /\ d.parents[N + 1] = tops /\ DOMAIN d.parents = 1 .. N + 2
  BY <1>7 DEF Crowned, IsGraph, Parents
<1>12. \A n \in (1 .. N + 2) \ {1} : d.parents[n] # <<>>
  <2>1. \A n \in 2 .. N : d.parents[n] = a.parents[n] /\ Len(a.parents[n]) = 1
    <3>1. \A n \in 2 .. N : n \in 1 .. N
      OBVIOUS
    <3> QED BY <1>4, <1>7, <1>8, <3>1 DEF Crowned, Sprout
  <2>2. d.parents[N + 1] # <<>>
    BY <1>9 DEF Edges
  <2>3. Len(d.parents[N + 2]) = 1
    BY <1>7 DEF Crowned
  <2>4. Len(<<>>) = 0 /\ \A n \in (1 .. N + 2) \ {1} : n \in 2 .. N \/ n = N + 1 \/ n = N + 2
    BY <1>5
  <2>7. ASSUME NEW x, Len(x) = 1 PROVE x # <<>>
    BY <2>7
  <2>5. ASSUME NEW n \in (1 .. N + 2) \ {1} PROVE d.parents[n] # <<>>
    <3>1. CASE n \in 2 .. N
      <4>1. Len(d.parents[n]) = 1
        BY <2>1, <3>1
      <4> QED BY <2>7, <4>1, Zenon
    <3>2. CASE n = N + 1
      BY <2>2, <3>2
    <3>3. CASE n = N + 2
      BY <2>3, <2>7, <3>3, Zenon
    <3> QED BY <2>4, <3>1, <3>2, <3>3
  <2> QED BY <2>5
<1>13. \A n \in (1 .. N + 2) \ ({1} \cup {}) : d.step[n] = NoStep \/ d.parents[n] # <<>>
  BY <1>12
<1>14. Shape(Len(d.parents), d.parents, N + 1, N + 2)
  BY <1>9, <1>11 DEF Shape
<1>15. Workspace(d, N + 1, N + 2, {})
  BY <1>10, <1>11, <1>12, <1>14 DEF Workspace
<1>20. Laid(d, N + 1, N + 2, layout)
  <2> DEFINE lane2 == [n \in 1 .. N + 2 |-> IF n \in 1 .. N THEN lane[n] ELSE 0]
  <2>1. Lanes(N + 2, d.parents, N + 1, lane2)
    <3>1. /\ Edges(N + 2, d.parents, N + 1, N + 2)
          /\ Ranked(N + 2, d.parents, [n \in 1 .. N + 2 |-> n])
          /\ Lanes(N + 2, d.parents, N + 1, [n \in 1 .. N + 2 |-> IF n \in 1 .. N THEN lane[n] ELSE 0])
      BY <1>4, <1>7, <1>8, CrownedEdges
    <3> QED BY <3>1, Zenon
  <2>2. base[1] = 1
    BY <1>19 DEF Rooted
  <2>3. d.step[N + 1] = Pick(commit)
    BY <1>7 DEF Crowned
  <2>4. \E x : x = lane2
    OBVIOUS
  <2>5. PICK x : x = lane2
    BY <2>4
  <2>6. x = [n \in 1 .. N + 2 |-> IF n \in 1 .. N THEN lane[n] ELSE 0]
    BY <2>5, Zenon
  <2> HIDE DEF lane2
  <2>7. \A n \in (1 .. N + 2) \ {1, N + 1, N + 2} : IsLaid(d, n, layout, base, x)
    BY <1>4, <1>7, <1>8, <1>19, <2>6, CrownedLaid, SMTT(60)
  <2> QED BY <1>11, <1>17, <2>1, <2>2, <2>3, <2>5, <2>7 DEF Laid
<1> QED BY <1>1, <1>15, <1>20

-----------------------------------------------------------------------------
(* How far down the ordered parents of a node are.                         *)

\* What the walk of Through starts from.
AtParents(ps, n) == [todo |-> ps[n], seen |-> ToSet(ps[n]), out |-> <<>>]

\* The fields of what the walk of Through starts from.
LEMMA AtParentsIs ==
  ASSUME NEW ps, NEW n
  PROVE  /\ AtParents(ps, n).todo = ps[n] /\ AtParents(ps, n).seen = ToSet(ps[n])
         /\ AtParents(ps, n).out = <<>>
  BY DEF AtParents

\* What holds at the start of the walk of Through, and which every step keeps, holds of what it
\* gives.
LEMMA ThroughKeeps ==
  ASSUME NEW N \in Nat, NEW ps \in Parents(N), NEW picks \in SUBSET (1 .. N), NEW n \in 1 .. N,
         NEW Q, AtParents(ps, n) \in Q,
         \A acc \in Trail(N, picks) : acc \in Q => ThroughStep(ps, picks, acc) \in Q
  PROVE  \E acc \in Trail(N, picks) : acc \in Q /\ Through(ps, picks, n) = acc.out
<1> DEFINE V == Trail(N, picks)
<1>1. PICK walk \in [0 .. N -> V] : IsThrough(ps, picks, n, walk)
  BY ThroughIs
<1>2. Len(ps) = N
  BY ParentsAre
<1>3. /\ walk[0] = AtParents(ps, n)
      /\ \A k \in 1 .. N : walk[k] = ThroughStep(ps, picks, walk[k - 1])
      /\ Through(ps, picks, n) = walk[N].out
  BY <1>1, <1>2 DEF IsThrough, AtParents
<1> DEFINE S == {k \in 0 .. N : walk[k] \in Q}
<1>4. 0 \in S
  BY <1>3
<1>5. ASSUME NEW k \in 1 .. N, k - 1 \in S PROVE k \in S
  <2>1. walk[k - 1] \in V /\ walk[k - 1] \in Q /\ k \in 0 .. N
    BY <1>1, <1>5
  <2> QED BY <1>3, <2>1
<1> HIDE DEF S
<1>6. 0 .. N \subseteq S
  BY <1>4, <1>5, BoundedInduction
<1>7. walk[N] \in Q /\ walk[N] \in V
  BY <1>1, <1>6 DEF S
<1> QED BY <1>3, <1>7

\* What a step of Through does to what is still to be done, h first of all.
Passes(ps, picks, acc, r, h) ==
  \/ /\ h \in picks /\ r.todo = Tail(acc.todo) /\ r.seen = acc.seen /\ r.out = Append(acc.out, h)
  \/ /\ h \notin picks /\ ToSet(ps[h]) \subseteq acc.seen
     /\ r.todo = Tail(acc.todo) /\ r.seen = acc.seen /\ r.out = acc.out
  \/ /\ h \notin picks /\ ~(ToSet(ps[h]) \subseteq acc.seen)
     /\ r.todo = ps[h] \o Tail(acc.todo) /\ r.seen = acc.seen \cup ToSet(ps[h]) /\ r.out = acc.out

\* A step of Through either gives a commit, or drops a node whose parents were seen, or goes on
\* to them.
LEMMA ThroughCases ==
  ASSUME NEW N, NEW ps, NEW picks, NEW acc \in Trail(N, picks), acc.todo # <<>>
  PROVE  Passes(ps, picks, acc, ThroughStep(ps, picks, acc), Head(acc.todo))
<1> DEFINE r == ThroughStep(ps, picks, acc)
           h == Head(acc.todo)
<1>1. acc = [todo |-> acc.todo, seen |-> acc.seen, out |-> acc.out]
  BY DEF Trail
<1>2. CASE h \in picks
  <2>1. r = [acc EXCEPT !.todo = Tail(acc.todo), !.out = Append(acc.out, h)]
    BY <1>2 DEF ThroughStep
  <2> QED BY <1>1, <1>2, <2>1 DEF Passes
<1>3. CASE h \notin picks /\ ToSet(ps[h]) \subseteq acc.seen
  <2>1. r = [acc EXCEPT !.todo = Tail(acc.todo)]
    BY <1>3 DEF ThroughStep
  <2> QED BY <1>1, <1>3, <2>1 DEF Passes
<1>4. CASE h \notin picks /\ ~(ToSet(ps[h]) \subseteq acc.seen)
  <2>1. r = [acc EXCEPT !.todo = ps[h] \o Tail(acc.todo), !.seen = acc.seen \cup ToSet(ps[h])]
    BY <1>4 DEF ThroughStep
  <2> QED BY <1>1, <1>4, <2>1 DEF Passes
<1> QED BY <1>2, <1>3, <1>4

\* With nothing left to be done the walk of Through stays as it is.
LEMMA StillThere ==
  ASSUME NEW ps, NEW picks, NEW acc, acc.todo = <<>>
  PROVE  ThroughStep(ps, picks, acc) = acc
  BY DEF ThroughStep

\* The elements of the parts of a sequence, and of two put together.
LEMMA SetsOfSeqs ==
  ASSUME NEW S, NEW s \in Seq(S), NEW u \in Seq(S), NEW x \in S
  PROVE  /\ s # <<>> => Head(s) \in ToSet(s) /\ ToSet(Tail(s)) \subseteq ToSet(s) /\ Tail(s) \in Seq(S)
         /\ ToSet(Append(s, x)) = ToSet(s) \cup {x}
         /\ ToSet(s \o u) = ToSet(s) \cup ToSet(u)
<1>1. s # <<>> => Head(s) \in ToSet(s) /\ ToSet(Tail(s)) \subseteq ToSet(s) /\ Tail(s) \in Seq(S)
  <2> SUFFICES ASSUME s # <<>>
               PROVE  Head(s) \in ToSet(s) /\ ToSet(Tail(s)) \subseteq ToSet(s) /\ Tail(s) \in Seq(S)
    OBVIOUS
  <2>1. Len(s) \in Nat \ {0} /\ Head(s) = s[1] /\ DOMAIN s = 1 .. Len(s)
    BY EmptySeq, LenProperties
  <2>2. Tail(s) \in Seq(S) /\ Len(Tail(s)) = Len(s) - 1 /\ \A i \in 1 .. Len(Tail(s)) : Tail(s)[i] = s[i + 1]
    BY HeadTailProperties
  <2>3. DOMAIN Tail(s) = 1 .. Len(Tail(s))
    BY <2>2, LenProperties
  <2>4. \A i \in 1 .. Len(Tail(s)) : i + 1 \in 1 .. Len(s)
    BY <2>1, <2>2
  <2>5. ToSet(Tail(s)) \subseteq ToSet(s)
    BY <2>1, <2>2, <2>3, <2>4 DEF ToSet
  <2> QED BY <2>1, <2>2, <2>5 DEF ToSet
<1>2. ToSet(Append(s, x)) = ToSet(s) \cup {x}
  <2>1. /\ Append(s, x) \in Seq(S) /\ Len(Append(s, x)) = Len(s) + 1 /\ Append(s, x)[Len(s) + 1] = x
        /\ \A i \in 1 .. Len(s) : Append(s, x)[i] = s[i]
    BY AppendProperties
  <2>2. Len(s) \in Nat /\ DOMAIN s = 1 .. Len(s) /\ DOMAIN Append(s, x) = 1 .. Len(s) + 1
    BY <2>1, LenProperties
  <2>3. 1 .. Len(s) + 1 = (1 .. Len(s)) \cup {Len(s) + 1}
    BY <2>2
  <2> HIDE DEF ToSet
  <2> QED BY <2>1, <2>2, <2>3 DEF ToSet
<1>3. ToSet(s \o u) = ToSet(s) \cup ToSet(u)
  <2> DEFINE c == s \o u
             L == Len(s)
             K == Len(u)
  <2>1. /\ c \in Seq(S) /\ Len(c) = L + K
        /\ \A i \in 1 .. L + K : c[i] = IF i <= L THEN s[i] ELSE u[i - L]
    BY ConcatProperties
  <2>2. L \in Nat /\ K \in Nat /\ DOMAIN s = 1 .. L /\ DOMAIN u = 1 .. K /\ DOMAIN c = 1 .. L + K
    BY <2>1, LenProperties
  <2> HIDE DEF c, L, K
  <2>3. \A i \in 1 .. L : i \in 1 .. L + K /\ i <= L
    BY <2>2
  <2>4. \A i \in 1 .. K : L + i \in 1 .. L + K /\ ~(L + i <= L) /\ (L + i) - L = i
    BY <2>2
  <2>5. \A i \in 1 .. L + K : i \in 1 .. L \/ (i - L \in 1 .. K /\ ~(i <= L))
    BY <2>2
  <2>6. ASSUME NEW e \in ToSet(c) PROVE e \in ToSet(s) \cup ToSet(u)
    <3>1. PICK i \in 1 .. L + K : e = c[i]
      BY <2>2 DEF ToSet
    <3> QED BY <2>1, <2>2, <2>3, <2>5, <3>1 DEF ToSet
  <2>7. ASSUME NEW e \in ToSet(s) PROVE e \in ToSet(c)
    BY <2>1, <2>2, <2>3 DEF ToSet
  <2>8. ASSUME NEW e \in ToSet(u) PROVE e \in ToSet(c)
    <3>1. PICK i \in 1 .. K : e = u[i]
      BY <2>2 DEF ToSet
    <3>2. c[L + i] = u[i] /\ L + i \in DOMAIN c
      BY <2>1, <2>2, <2>4
    <3> QED BY <3>1, <3>2 DEF ToSet
  <2> QED BY <2>6, <2>7, <2>8 DEF c
<1> QED BY <1>1, <1>2, <1>3

\* A sequence is one over any set that has its elements.
LEMMA SeqOfThose ==
  ASSUME NEW S, NEW s \in Seq(S), NEW T, ToSet(s) \subseteq T
  PROVE  s \in Seq(T)
<1>1. DOMAIN s = 1 .. Len(s) /\ Len(s) \in Nat
  BY LenProperties
<1>2. s \in [1 .. Len(s) -> T]
  <2>1. \A i \in 1 .. Len(s) : s[i] \in T
    BY <1>1 DEF ToSet
  <2>2. s \in [1 .. Len(s) -> S]
    BY LenProperties
  <2> QED BY <2>1, <2>2
<1> QED BY <1>1, <1>2

\* What is found is in any set that has the parents and is closed under parents of nodes that
\* are no commits.
LEMMA ThroughStays ==
  ASSUME NEW N \in Nat, NEW ps \in Parents(N), NEW picks \in SUBSET (1 .. N), NEW n \in 1 .. N,
         NEW T, ToSet(ps[n]) \subseteq T,
         \A m \in T \ picks : m \in 1 .. N /\ ToSet(ps[m]) \subseteq T
  PROVE  ToSet(Through(ps, picks, n)) \subseteq T \cap picks
<1> DEFINE Q == {acc \in Trail(N, picks) : acc.todo \in Seq(T) /\ acc.out \in Seq(T)}
<1>1. AtParents(ps, n) \in Q
  <2>1. AtParents(ps, n) \in Trail(N, picks)
    BY ParentsAre, ToSetOf DEF AtParents, Trail
  <2>2. ps[n] \in Seq(1 .. N)
    BY ParentsAre
  <2>3. ps[n] \in Seq(T)
    BY <2>2, SeqOfThose
  <2>4. <<>> \in Seq(T)
    OBVIOUS
  <2> QED BY <2>1, <2>3, <2>4, AtParentsIs
<1>2. ASSUME NEW acc \in Trail(N, picks), acc \in Q PROVE ThroughStep(ps, picks, acc) \in Q
  <2> DEFINE r == ThroughStep(ps, picks, acc)
             h == Head(acc.todo)
             rest == Tail(acc.todo)
  <2>1. CASE acc.todo = <<>>
    BY <1>2, <2>1, StillThere
  <2>2. CASE acc.todo # <<>>
    <3>1. r \in Trail(N, picks)
      BY ThroughStepTyped
    <3>2. acc.todo \in Seq(T) /\ acc.out \in Seq(T)
      BY <1>2
    <3>3. h \in T /\ rest \in Seq(T)
      BY <2>2, <3>2, HeadTailProperties
    <3> HIDE DEF h, rest
    <3>4. Append(acc.out, h) \in Seq(T)
      BY <3>2, <3>3, AppendProperties
    <3>5. ASSUME h \notin picks PROVE ps[h] \o rest \in Seq(T)
      <4>1. h \in 1 .. N /\ ToSet(ps[h]) \subseteq T
        BY <3>3, <3>5
      <4>2. ps[h] \in Seq(1 .. N)
        BY <4>1, ParentsAre
      <4>3. ps[h] \in Seq(T)
        BY <4>1, <4>2, SeqOfThose, SMTT(40)
      <4> QED BY <3>3, <4>3, ConcatProperties
    <3>6. \/ r.todo = rest /\ r.out = Append(acc.out, h)
          \/ r.todo = rest /\ r.out = acc.out
          \/ h \notin picks /\ r.todo = ps[h] \o rest /\ r.out = acc.out
      <4>1. Passes(ps, picks, acc, r, Head(acc.todo))
        BY <2>2, ThroughCases
      <4>2. h = Head(acc.todo) /\ rest = Tail(acc.todo)
        BY DEF h, rest
      <4> HIDE DEF r
      <4> QED BY <4>1, <4>2 DEF Passes
    <3> HIDE DEF r
    <3>7. r.todo \in Seq(T) /\ r.out \in Seq(T)
      BY <3>2, <3>3, <3>4, <3>5, <3>6
    <3>8. r \in Q
      BY <3>1, <3>7
    <3> QED BY <3>8 DEF r
  <2> QED BY <2>1, <2>2
<1>3. PICK acc \in Trail(N, picks) : acc \in Q /\ Through(ps, picks, n) = acc.out
  <2> HIDE DEF Q
  <2> QED BY <1>1, <1>2, ThroughKeeps
<1>4. acc.out \in Seq(picks) /\ acc.out \in Seq(T)
  BY <1>3 DEF Trail
<1>5. ToSet(acc.out) \subseteq picks /\ ToSet(acc.out) \subseteq T
  BY <1>4, ToSetOf
<1> QED BY <1>3, <1>5

\* The commits that are found rank below the node they are the parents of.
LEMMA ThroughBelow ==
  ASSUME NEW N \in Nat, NEW ps \in Parents(N), NEW picks \in SUBSET (1 .. N), NEW n \in 1 .. N,
         NEW rank, Ranked(N, ps, rank)
  PROVE  \A p \in ToSet(Through(ps, picks, n)) : p \in picks /\ rank[p] < rank[n]
<1> DEFINE T == {p \in 1 .. N : rank[p] < rank[n]}
<1>1. /\ rank \in [1 .. N -> Nat]
      /\ \A m \in 1 .. N : \A p \in ToSet(ps[m]) : p \in 1 .. N /\ rank[p] < rank[m]
  BY ParentsAre, ToSetOf DEF Ranked
<1>2. ToSet(ps[n]) \subseteq T
  BY <1>1
<1>3. \A m \in T \ picks : m \in 1 .. N /\ ToSet(ps[m]) \subseteq T
  BY <1>1
<1>4. ToSet(Through(ps, picks, n)) \subseteq T \cap picks
  <2> HIDE DEF T
  <2> QED BY <1>2, <1>3, ThroughStays
<1> QED BY <1>4

\* A node that is of no stack's way up: what is above the stacks.
Below(N, w, t) == (1 .. N) \ {w, t}

\* Parents are below, and, other than the target, on the line of their child.
LEMMA BelowIs ==
  ASSUME NEW N, NEW ps, NEW w, NEW t, Edges(N, ps, w, t), NEW lane, Lanes(N, ps, w, lane),
         NEW m \in 1 .. N, m # t, NEW p \in ToSet(ps[m])
  PROVE  /\ p \in Below(N, w, t) /\ m # 1
         /\ m # w => p = 1 \/ lane[p] = lane[m]
         /\ m = w => p # 1
<1>1. p \in 1 .. N /\ ps[1] = <<>> /\ N \in Nat
  BY EdgesAre DEF Edges
<1>2. p # t /\ (p = w => m = t) /\ 1 \notin ToSet(ps[w])
  BY DEF Edges
<1>3. ToSet(<<>>) = {}
  BY DEF ToSet
<1>4. m # w => p = 1 \/ lane[p] = lane[m]
  BY DEF Lanes
<1> QED BY <1>1, <1>2, <1>3, <1>4 DEF Below

\* The ordered parents of a node of a stack are the target or on its own line.
LEMMA ThroughLane ==
  ASSUME NEW N, NEW ps, NEW w, NEW t, Edges(N, ps, w, t), NEW lane, Lanes(N, ps, w, lane),
         NEW picks \in SUBSET (1 .. N), NEW n \in Below(N, w, t)
  PROVE  \A p \in ToSet(Through(ps, picks, n)) : p \in Below(N, w, t) /\ (p = 1 \/ lane[p] = lane[n])
<1> DEFINE T == {p \in Below(N, w, t) : p = 1 \/ lane[p] = lane[n]}
<1>1. N \in Nat /\ ps \in Parents(N) /\ n \in 1 .. N /\ n # t /\ n # w
  BY EdgesAre DEF Below
<1>2. ToSet(ps[n]) \subseteq T
  BY <1>1, BelowIs
<1>3. ASSUME NEW m \in T PROVE m \in 1 .. N /\ ToSet(ps[m]) \subseteq T
  <2>1. m \in 1 .. N /\ m # w /\ m # t
    BY DEF Below
  <2>2. \A p \in ToSet(ps[m]) : p \in Below(N, w, t) /\ m # 1 /\ (p = 1 \/ lane[p] = lane[m])
    BY <2>1, BelowIs
  <2> QED BY <2>1, <2>2
<1>4. ToSet(Through(ps, picks, n)) \subseteq T \cap picks
  <2> HIDE DEF T
  <2> QED BY <1>1, <1>2, <1>3, ThroughStays
<1> QED BY <1>4

\* The workspace commit and its reference are nobody's ordered parents, but for the former of
\* the latter.
LEMMA ThroughWorkspace ==
  ASSUME NEW N, NEW ps, NEW w, NEW t, Edges(N, ps, w, t), NEW lane, Lanes(N, ps, w, lane),
         NEW picks \in SUBSET (1 .. N), NEW n \in (1 .. N) \ {t}
  PROVE  ToSet(Through(ps, picks, n)) \subseteq Below(N, w, t) \cap picks
<1> DEFINE T == Below(N, w, t)
<1>1. N \in Nat /\ ps \in Parents(N) /\ n \in 1 .. N /\ n # t
  BY EdgesAre
<1>2. ToSet(ps[n]) \subseteq T
  BY <1>1, BelowIs
<1>3. ASSUME NEW m \in T PROVE m \in 1 .. N /\ ToSet(ps[m]) \subseteq T
  <2>1. m \in 1 .. N /\ m # w /\ m # t
    BY DEF Below
  <2> QED BY <2>1, BelowIs
<1> HIDE DEF T
<1>4. ToSet(Through(ps, picks, n)) \subseteq T \cap picks
  BY <1>1, <1>2, <1>3, ThroughStays
<1> QED BY <1>4 DEF T

\* Of a walk through the graph: what it still has to do goes down from n, and has not been come
\* by another way.
Descends(ps, w, t, lane, rank, todo, seen) ==
  /\ todo # <<>>
  /\ 1 \in seen => todo[1] = 1
  /\ todo[1] # 1 => /\ ps[todo[1]] # <<>>
                    /\ \A s \in seen : s # 1 /\ lane[s] = lane[todo[1]] => rank[todo[1]] <= rank[s]

\* The walk of Through starts by going down.
LEMMA DescentStarts ==
  ASSUME NEW N, NEW ps, NEW w, NEW t, Edges(N, ps, w, t), NEW lane, Lanes(N, ps, w, lane),
         NEW rank, Ranked(N, ps, rank), NEW n \in (1 .. N) \ {1, t}, ps[n] # <<>>
  PROVE  /\ Descends(ps, w, t, lane, rank, ps[n], ToSet(ps[n]))
         /\ ps[n][1] \in Below(N, w, t) /\ rank[ps[n][1]] < rank[n]
<1>1. N \in Nat /\ ps[n] \in Seq(1 .. N) /\ n \in 1 .. N
  BY EdgesAre
<1> DEFINE s == ps[n]
           p == ps[n][1]
<1>2. Len(s) \in Nat \ {0} /\ DOMAIN s = 1 .. Len(s) /\ p \in ToSet(s)
  BY <1>1, EmptySeq, LenProperties DEF ToSet
<1>3. p \in Below(N, w, t) /\ (n = w => p # 1)
  BY <1>1, <1>2, BelowIs
<1>4. rank[p] < rank[n] /\ rank[p] \in Nat
  BY <1>1, <1>2, <1>3 DEF Ranked, Below
<1>5. p # 1 => ps[p] # <<>>
  BY <1>1, <1>2 DEF Edges
<1>6. CASE n = w
  <2>1. 1 \notin ToSet(s)
    BY <1>6 DEF Edges
  <2>2. \A q \in ToSet(s) : lane[q] = lane[p] => q = p
    BY <1>2, <1>6, SMTT(40) DEF Lanes, ToSet
  <2>3. \A q \in ToSet(s) : lane[q] = lane[p] => rank[p] <= rank[q]
    BY <1>4, <2>2
  <2> QED BY <1>3, <1>4, <1>5, <2>1, <2>3 DEF Descends
<1>7. CASE n # w
  <2>1. s = <<p>>
    <3> HIDE DEF p
    <3> QED BY <1>2, <1>7, OnlyParent
  <2>2. ToSet(s) = {p}
    BY <2>1, <1>2 DEF ToSet
  <2>3. \A q \in ToSet(s) : rank[p] <= rank[q]
    BY <1>4, <2>2
  <2>4. 1 \in ToSet(s) => p = 1
    BY <2>2
  <2> QED BY <1>3, <1>4, <1>5, <2>3, <2>4 DEF Descends
<1> QED BY <1>6, <1>7

\* As long as it has found no commit it goes on down.
LEMMA DescentGoesOn ==
  ASSUME NEW N, NEW ps, NEW w, NEW t, Edges(N, ps, w, t), NEW lane, Lanes(N, ps, w, lane),
         NEW rank, Ranked(N, ps, rank),
         NEW picks \in SUBSET (1 .. N), 1 \in picks,
         NEW acc \in Trail(N, picks), Descends(ps, w, t, lane, rank, acc.todo, acc.seen),
         acc.todo[1] \in Below(N, w, t), acc.todo[1] \notin picks,
         NEW r, r = ThroughStep(ps, picks, acc)
  PROVE  /\ Descends(ps, w, t, lane, rank, r.todo, r.seen)
         /\ r.todo[1] \in Below(N, w, t) /\ rank[r.todo[1]] < rank[acc.todo[1]]
<1> DEFINE h == acc.todo[1]
           p == ps[h][1]
<1>1. /\ N \in Nat /\ ps \in Parents(N) /\ h \in 1 .. N /\ h # 1 /\ h # w /\ h # t
      /\ acc.todo \in Seq(1 .. N) /\ acc.todo # <<>> /\ Head(acc.todo) = h
  BY EdgesAre DEF Below, Trail, Descends
<1>2. ps[h] # <<>> /\ ps[h] \in Seq(1 .. N) /\ 1 \notin acc.seen
      /\ \A s \in acc.seen : s # 1 /\ lane[s] = lane[h] => rank[h] <= rank[s]
  BY <1>1, EdgesAre, SMTT(40) DEF Descends
<1>3. p \in ToSet(ps[h])
  <2>1. Len(ps[h]) \in Nat \ {0} /\ DOMAIN ps[h] = 1 .. Len(ps[h])
    BY <1>2, EmptySeq, LenProperties
  <2> QED BY <2>1 DEF ToSet
<1>4. Len(ps[h]) <= 1
  BY <1>1 DEF Edges
<1>5. Len(ps[h]) = 1 /\ ToSet(ps[h]) = {p}
  <2> DEFINE x == ps[h]
             K == 1 .. N
  <2>1. x \in Seq(K) /\ x # <<>> /\ Len(x) <= 1
    BY <1>2, <1>4
  <2> HIDE DEF x, K
  <2>2. Len(x) = 1 /\ DOMAIN x = 1 .. 1
    <3>1. Len(x) \in Nat /\ DOMAIN x = 1 .. Len(x) /\ (Len(x) = 0 <=> x = <<>>)
      BY <2>1, SeqFacts
    <3>2. Len(x) = 1
      BY <2>1, <3>1
    <3> QED BY <3>1, <3>2
  <2>3. ToSet(x) = {x[1]}
    BY <2>2 DEF ToSet
  <2> QED BY <2>2, <2>3 DEF x
<1>6. p \in Below(N, w, t) /\ (p = 1 \/ lane[p] = lane[h]) /\ p \in 1 .. N
  BY <1>1, <1>3, BelowIs DEF Below
<1>7. rank[p] < rank[h] /\ rank[p] \in Nat /\ rank[h] \in Nat /\ \A s \in 1 .. N : rank[s] \in Nat
  BY <1>1, <1>3, <1>6 DEF Ranked
<1>8. p \notin acc.seen
  <2>1. acc.seen \subseteq 1 .. N
    BY SMTT(40) DEF Trail
  <2> QED BY <1>2, <1>6, <1>7, <2>1, SMTT(40)
<1>9. r.todo = ps[h] \o Tail(acc.todo) /\ r.seen = acc.seen \cup {p}
  <2>1. Passes(ps, picks, acc, r, Head(acc.todo))
    BY <1>1, ThroughCases
  <2>2. ~(ToSet(ps[h]) \subseteq acc.seen)
    BY <1>5, <1>8
  <2> HIDE DEF p
  <2> QED BY <1>1, <1>5, <2>1, <2>2, Zenon DEF Passes
<1>10. r.todo # <<>> /\ r.todo[1] = p
  <2> DEFINE K == 1 .. N
             a == ps[h]
             b == Tail(acc.todo)
  <2>1. a \in Seq(K) /\ b \in Seq(K) /\ Len(a) = 1 /\ a[1] = p
    BY <1>1, <1>2, <1>5, HeadTailProperties
  <2> HIDE DEF K, a, b
  <2>2. /\ a \o b \in Seq(K) /\ Len(a \o b) = Len(a) + Len(b) /\ Len(b) \in Nat
        /\ \A i \in 1 .. Len(a) + Len(b) : (a \o b)[i] = IF i <= Len(a) THEN a[i] ELSE b[i - Len(a)]
    BY <2>1, ConcatProperties, LenProperties, ZenonT(40)
  <2>3. (a \o b)[1] = p
    BY <2>1, <2>2
  <2>4. a \o b # <<>>
    BY <2>1, <2>2
  <2> QED BY <1>9, <2>3, <2>4 DEF a, b
<1>11. p # 1 => ps[p] # <<>>
  BY <1>1, <1>3 DEF Edges
<1>12. Descends(ps, w, t, lane, rank, r.todo, r.seen)
  <2>1. 1 \in r.seen => p = 1
    BY <1>2, <1>9
  <2>2. ASSUME p # 1, NEW s \in r.seen, s # 1, lane[s] = lane[p] PROVE rank[p] <= rank[s]
    <3>1. CASE s = p
      BY <1>7, <3>1
    <3>2. CASE s \in acc.seen
      <4>1. rank[h] <= rank[s]
        BY <1>2, <1>6, <2>2, <3>2
      <4>2. s \in 1 .. N
        BY <3>2 DEF Trail
      <4> QED BY <1>7, <4>1, <4>2
    <3> QED BY <1>9, <2>2, <3>1, <3>2
  <2> QED BY <1>10, <1>11, <2>1, <2>2 DEF Descends
<1> QED BY <1>6, <1>7, <1>10, <1>12

\* So that it finds one, the target at last.
LEMMA ThroughSome ==
  ASSUME NEW N, NEW ps, NEW w, NEW t, Edges(N, ps, w, t), NEW lane, Lanes(N, ps, w, lane),
         NEW rank, Ranked(N, ps, rank), \A m \in 1 .. N : rank[m] <= N,
         NEW picks \in SUBSET (1 .. N), 1 \in picks,
         NEW n \in (1 .. N) \ {1, t}, ps[n] # <<>>
  PROVE  Through(ps, picks, n) # <<>>
<1>1. N \in Nat /\ ps \in Parents(N) /\ n \in 1 .. N /\ Len(ps) = N
  BY EdgesAre
<1> DEFINE V == Trail(N, picks)
<1>2. PICK walk \in [0 .. N -> V] : IsThrough(ps, picks, n, walk)
  BY <1>1, ThroughIs
<1>3. /\ walk[0].todo = ps[n] /\ walk[0].seen = ToSet(ps[n])
      /\ \A k \in 1 .. N : walk[k] = ThroughStep(ps, picks, walk[k - 1])
      /\ Through(ps, picks, n) = walk[N].out
  BY <1>1, <1>2 DEF IsThrough
<1>4. rank[n] \in Nat /\ rank[n] <= N /\ \A m \in 1 .. N : rank[m] \in Nat
  BY <1>1 DEF Ranked
<1> DEFINE Going(k) == /\ Descends(ps, w, t, lane, rank, walk[k].todo, walk[k].seen)
                       /\ walk[k].todo[1] \in Below(N, w, t)
                       /\ rank[walk[k].todo[1]] + k < rank[n]
           S == {k \in 0 .. N : walk[k].out # <<>> \/ Going(k)}
<1>5. 0 \in S
  <2>1. Descends(ps, w, t, lane, rank, ps[n], ToSet(ps[n])) /\ ps[n][1] \in Below(N, w, t)
        /\ rank[ps[n][1]] < rank[n]
    BY DescentStarts
  <2>2. rank[ps[n][1]] + 0 < rank[n]
    BY <1>4, <2>1 DEF Below
  <2> QED BY <1>1, <1>3, <2>1, <2>2
<1>6. ASSUME NEW k \in 1 .. N, k - 1 \in S PROVE k \in S
  <2> DEFINE acc == walk[k - 1]
             r == walk[k]
             h == acc.todo[1]
  <2>1. k \in 0 .. N /\ k - 1 \in 0 .. N
    BY <1>1
  <2>2. r = ThroughStep(ps, picks, acc) /\ acc \in V
    BY <1>2, <1>3, <2>1
  <2>3. acc.out # <<>> \/ Going(k - 1)
    BY <1>6
  <2>4. acc.out \in Seq(picks) /\ acc.todo \in Seq(1 .. N)
    BY <2>2 DEF Trail
  <2> HIDE DEF acc, r, V
  <2>5. ASSUME NEW x \in picks PROVE Append(acc.out, x) # <<>>
    BY <2>4, AppendProperties
  <2>6. CASE acc.todo = <<>>
    <3>1. acc.out # <<>>
      BY <2>3, <2>6 DEF acc, Descends
    <3>2. r = acc
      BY <2>2, <2>6, StillThere
    <3> QED BY <2>1, <3>1, <3>2 DEF r
  <2>7. CASE acc.todo # <<>>
    <3>1. Passes(ps, picks, acc, r, Head(acc.todo))
      BY <2>2, <2>7, ThroughCases DEF V
    <3>2. CASE acc.out # <<>>
      <4>1. r.out # <<>>
        BY <2>5, <3>1, <3>2 DEF Passes
      <4> QED BY <2>1, <4>1, SMTT(40) DEF r
    <3>3. CASE acc.out = <<>>
      <4>1. /\ Descends(ps, w, t, lane, rank, acc.todo, acc.seen)
            /\ h \in Below(N, w, t) /\ rank[h] + (k - 1) < rank[n]
        BY <2>3, <3>3 DEF acc
      <4>2. Head(acc.todo) = h
        BY <2>4, <2>7, SMTT(40)
      <4>3. CASE h \in picks
        <5>1. r.out # <<>>
          BY <2>5, <3>1, <4>2, <4>3 DEF Passes
        <5> QED BY <2>1, <5>1 DEF r
      <4>4. CASE h \notin picks
        <5>1. /\ Descends(ps, w, t, lane, rank, r.todo, r.seen)
              /\ r.todo[1] \in Below(N, w, t) /\ rank[r.todo[1]] < rank[h]
          BY <2>2, <4>1, <4>4, DescentGoesOn DEF V
        <5>2. rank[r.todo[1]] \in Nat /\ rank[h] \in Nat
          BY <1>4, <4>1, <5>1 DEF Below
        <5>3. rank[r.todo[1]] + k < rank[n]
          BY <1>4, <4>1, <5>1, <5>2
        <5> QED BY <2>1, <5>1, <5>3 DEF r
      <4> QED BY <4>3, <4>4
    <3> QED BY <3>2, <3>3
  <2> QED BY <2>6, <2>7
<1> HIDE DEF S
<1>7. 0 .. N \subseteq S
  BY <1>1, <1>5, <1>6, BoundedInduction
<1>8. walk[N].out # <<>> \/ Going(N)
  BY <1>1, <1>7 DEF S
<1>9. ~Going(N)
  <2> SUFFICES ASSUME Going(N) PROVE FALSE
    OBVIOUS
  <2>1. rank[walk[N].todo[1]] \in Nat /\ rank[walk[N].todo[1]] + N < rank[n]
    BY <1>4 DEF Below
  <2> QED BY <1>1, <1>4, <2>1
<1> QED BY <1>3, <1>8, <1>9

-----------------------------------------------------------------------------
(* What a rebase makes of the commits.                                     *)

\* What a step of the rebase that goes well does to a commit.
Picked(s, r, n) ==
  LET c == s.graph.step[n].commit
      ontos == ParentCommits(s.graph, n)
  IN /\ s.graph.step[n].kind = "pick" /\ r.graph.step[n].kind = "pick"
     /\ r.graph.step[n].commit = CherryPick(c, ontos)
     /\ r.graph.step[n].tracked = s.graph.step[n].tracked
     /\ ontos # c.parents => MergedTree(ontos).clean
     /\ r.graph.parents = s.graph.parents /\ DOMAIN r.graph.step = DOMAIN s.graph.step
     /\ \A m \in DOMAIN s.graph.step \ {n} : r.graph.step[m] = s.graph.step[m]
     /\ r.history = IF s.graph.step[n].tracked
                    THEN UpdateMapping(s.history, c, CherryPick(c, ontos)) ELSE s.history

\* The fields of a session that was changed, and of one that has failed.
LEMMA SessionNow ==
  ASSUME NEW s, s = [graph |-> s.graph, history |-> s.history, ok |-> s.ok], NEW d, NEW h
  PROVE  /\ [s EXCEPT !.graph = d, !.history = h].graph = d
         /\ [s EXCEPT !.graph = d, !.history = h].history = h
         /\ [s EXCEPT !.graph = d, !.history = h].ok = s.ok
         /\ Failed(s).ok = FALSE /\ Failed(s).graph = s.graph /\ Failed(s).history = s.history
  BY DEF Failed

\* A step of the rebase that goes well picks the commit of the node, or leaves a node that has
\* none.
LEMMA PickCases ==
  ASSUME NEW s, NEW g, NEW w, NEW t, Editing(s, g, w, t), NEW n \in DOMAIN g.parents,
         PickStep(s, n).ok
  PROVE  /\ s.ok
         /\ Picked(s, PickStep(s, n), n) \/ (s.graph.step[n].kind # "pick" /\ PickStep(s, n) = s)
<1> DEFINE step == s.graph.step[n]
           ontos == ParentCommits(s.graph, n)
           new == CherryPick(step.commit, ontos)
           now == [step EXCEPT !.commit = new]
           d == Replace(s.graph, n, now)
           h == IF step.tracked THEN UpdateMapping(s.history, step.commit, new) ELSE s.history
           r == PickStep(s, n)
<1>1. /\ s = [graph |-> s.graph, history |-> s.history, ok |-> s.ok]
      /\ Workspace(s.graph, w, t, {}) /\ Alike(g, s.graph)
  BY DEF Editing
<1>2. CASE ~s.ok \/ step.kind # "pick"
  <2>1. r = s
    BY <1>2 DEF PickStep
  <2> QED BY <1>2, <2>1
<1>3. CASE s.ok /\ step.kind = "pick" /\ ontos # step.commit.parents /\ ~MergedTree(ontos).clean
  <2>1. r = Failed(s)
    BY <1>3 DEF PickStep
  <2> HIDE DEF r
  <2>2. r.ok = FALSE
    BY <1>1, <2>1, SessionNow, Zenon
  <2> QED BY <2>2 DEF r
<1>4. CASE s.ok /\ step.kind = "pick" /\ ~(ontos # step.commit.parents /\ ~MergedTree(ontos).clean)
  <2>1. r = [s EXCEPT !.graph = d, !.history = h]
    BY <1>4 DEF PickStep
  <2>2. r.graph = d /\ r.history = h
    <3> HIDE DEF r, d, h
    <3> QED BY <1>1, <2>1, SessionNow, Zenon
  <2>3. /\ n \in DOMAIN s.graph.step /\ IsStep(step)
        /\ s.graph = [step |-> s.graph.step, parents |-> s.graph.parents]
        /\ s.graph.step \in Seq(ToSet(s.graph.step))
    <3>1. s.graph = [step |-> s.graph.step, parents |-> s.graph.parents]
      BY <1>1 DEF Workspace
    <3>2. /\ DOMAIN s.graph.parents = 1 .. Len(s.graph.parents)
          /\ DOMAIN s.graph.step = 1 .. Len(s.graph.parents)
          /\ \A m \in 1 .. Len(s.graph.parents) : IsStep(s.graph.step[m])
          /\ s.graph.step \in Seq(ToSet(s.graph.step))
      BY <1>1, WorkspaceIs
    <3> QED BY <1>1, <3>1, <3>2 DEF Alike
  <2>4. step \in {Pick(step.commit), UntrackedPick(step.commit)}
    BY <1>4, <2>3, KindOf
  <2>5. now.commit = new /\ now.kind = "pick" /\ now.tracked = step.tracked
    <3> DEFINE c == step.commit
    <3>1. step = [kind |-> "pick", commit |-> c, tracked |-> step.tracked]
      <4> HIDE DEF c
      <4> QED BY <2>4 DEF Pick, UntrackedPick, c
    <3> HIDE DEF new, step, c
    <3> QED BY <3>1
  <2>6. /\ d.parents = s.graph.parents /\ DOMAIN d.step = DOMAIN s.graph.step
        /\ d.step[n] = now
        /\ \A m \in DOMAIN s.graph.step \ {n} : d.step[m] = s.graph.step[m]
    <3> HIDE DEF now
    <3> QED BY <2>3 DEF Replace
  <2> HIDE DEF now, d, r
  <2>7. Picked(s, r, n)
    <3> HIDE DEF new
    <3>1. r.graph.step[n].commit = CherryPick(step.commit, ontos)
      BY <2>2, <2>5, <2>6 DEF new
    <3>2. r.history = IF step.tracked THEN UpdateMapping(s.history, step.commit, CherryPick(step.commit, ontos))
                      ELSE s.history
      BY <2>2 DEF new
    <3> QED BY <1>4, <2>2, <2>5, <2>6, <3>1, <3>2 DEF Picked
  <2> QED BY <1>4, <2>7 DEF r
<1> QED BY <1>2, <1>3, <1>4

\* Where the rebase comes to a node.
Position(N, ps, order, pos) ==
  /\ order \in Seq(1 .. N) /\ Len(order) \in Nat
  /\ Ranked(N, ps, pos)
  /\ \A n \in 1 .. N : pos[n] \in 1 .. Len(order) /\ order[pos[n]] = n /\ pos[n] <= N
  /\ \A i \in 1 .. Len(order) : pos[order[i]] = i

\* Every node has its position in the picking order.
LEMMA PositionIs ==
  ASSUME NEW N \in Nat, NEW ps \in Parents(N), \E rank : Ranked(N, ps, rank)
  PROVE  \E pos : Position(N, ps, PickingOrder(ps), pos)
<1> DEFINE order == PickingOrder(ps)
           L == Len(order)
           pos == [n \in 1 .. N |-> CHOOSE i \in 1 .. L : order[i] = n]
<1>1. InOrder(N, ps, order) /\ ToSet(order) = 1 .. N
  BY OrderIs
<1> HIDE DEF order
<1>2. order \in Seq(1 .. N) /\ L \in Nat /\ DOMAIN order = 1 .. L
  BY <1>1, LenProperties DEF InOrder
<1>3. \A i, j \in 1 .. L : order[i] = order[j] => i = j
  BY <1>1 DEF InOrder
<1>4. L <= N
  <2> DEFINE K == 1 .. L
             T == 1 .. N
  <2>1. SUFFICES ASSUME N < L PROVE FALSE
    BY <1>2
  <2>2. IsFiniteSet(K) /\ Cardinality(K) = L /\ IsFiniteSet(T) /\ Cardinality(T) = N
    <3>1. \A M \in Nat : IsFiniteSet(1 .. M) /\ Cardinality(1 .. M) = M
      <4> SUFFICES ASSUME NEW M \in Nat PROVE IsFiniteSet(1 .. M) /\ Cardinality(1 .. M) = M
        OBVIOUS
      <4> QED BY FS_Interval
    <3> QED BY <1>2, <3>1
  <2>3. order \in [K -> T]
    BY <1>2, LenProperties
  <2>4. Cardinality(T) < Cardinality(K)
    BY <2>1, <2>2
  <2>5. \E i, j \in K : i # j /\ order[i] = order[j]
    <3> HIDE DEF K, T
    <3> QED BY <2>2, <2>3, <2>4, FS_PigeonHole
  <2> QED BY <1>3, <2>5
<1>5. ASSUME NEW n \in 1 .. N PROVE pos[n] \in 1 .. L /\ order[pos[n]] = n
  <2>1. \E i \in 1 .. L : order[i] = n
    BY <1>1, <1>2 DEF ToSet
  <2> QED BY <2>1
<1> HIDE DEF pos
<1>6. \A i \in 1 .. L : order[i] \in 1 .. N
  BY <1>2, ElementOfSeq
<1>7. \A i \in 1 .. L : pos[order[i]] = i
  BY <1>3, <1>5, <1>6
<1>8. Ranked(N, ps, pos)
  <2>1. pos \in [1 .. N -> Nat]
    <3>1. DOMAIN pos = 1 .. N /\ pos = [n \in 1 .. N |-> pos[n]]
      BY DEF pos
    <3>2. \A n \in 1 .. N : pos[n] \in Nat
      BY <1>5
    <3> QED BY <3>1, <3>2
  <2>2. ASSUME NEW n \in 1 .. N, NEW p \in ToSet(ps[n]) PROVE pos[p] < pos[n]
    <3>1. pos[n] \in 1 .. L /\ order[pos[n]] = n
      BY <1>5
    <3>2. \E j \in 1 .. pos[n] - 1 : order[j] = p
      BY <1>1, <2>2, <3>1 DEF InOrder
    <3>3. PICK j \in 1 .. pos[n] - 1 : order[j] = p
      BY <3>2
    <3>4. j \in 1 .. L /\ j < pos[n]
      BY <1>2, <3>1
    <3> QED BY <1>7, <3>3, <3>4
  <2> QED BY <2>1, <2>2 DEF Ranked
<1>9. \A n \in 1 .. N : pos[n] <= N
  BY <1>2, <1>4, <1>5
<1> QED BY <1>2, <1>5, <1>7, <1>8, <1>9 DEF Position, order

\* Every commit has for parents those the graph gives it.
Grown(g) == \A n \in Picks(g) : g.step[n].commit.parents = ParentCommits(g, n)

\* Graphs of the same edges and kinds of steps have the same ordered parents.
LEMMA OrderedAlike ==
  ASSUME NEW g, NEW h, h.parents = g.parents, DOMAIN h.step = DOMAIN g.step,
         \A n \in DOMAIN g.step : h.step[n].kind = g.step[n].kind
  PROVE  Picks(h) = Picks(g) /\ \A n : OrderedParents(h, n) = OrderedParents(g, n)
<1>1. Picks(h) = Picks(g)
  BY DEF Picks, IsPick
<1> QED BY <1>1 DEF OrderedParents

\* And the same commits there, if those are the same.
LEMMA ParentCommitsSame ==
  ASSUME NEW g, NEW h, NEW n, OrderedParents(h, n) = OrderedParents(g, n),
         \A p \in ToSet(OrderedParents(g, n)) : h.step[p].commit = g.step[p].commit
  PROVE  ParentCommits(h, n) = ParentCommits(g, n)
<1> DEFINE ordered == OrderedParents(g, n)
<1>1. \A i \in DOMAIN ordered : h.step[ordered[i]].commit = g.step[ordered[i]].commit
  BY DEF ToSet
<1>2. ParentCommits(g, n) = [i \in DOMAIN ordered |-> g.step[ordered[i]].commit]
  BY DEF ParentCommits
<1>3. ParentCommits(h, n) = [i \in DOMAIN ordered |-> h.step[ordered[i]].commit]
  BY DEF ParentCommits
<1> HIDE DEF ordered
<1> QED BY <1>1, <1>2, <1>3

\* The ordered parents of a node come before it.
LEMMA ParentsBefore ==
  ASSUME NEW g, NEW w, NEW t, NEW loose, Workspace(g, w, t, loose), NEW n \in DOMAIN g.parents,
         NEW rank, Ranked(Len(g.parents), g.parents, rank)
  PROVE  \A p \in ToSet(OrderedParents(g, n)) : p \in Picks(g) /\ p \in DOMAIN g.parents /\ rank[p] < rank[n]
<1> DEFINE N == Len(g.parents)
           picks == Picks(g)
<1>1. N \in Nat /\ g.parents \in Parents(N) /\ DOMAIN g.parents = 1 .. N /\ DOMAIN g.step = 1 .. N
  BY WorkspaceIs
<1>2. picks \in SUBSET (1 .. N)
  BY <1>1 DEF Picks
<1> HIDE DEF N, picks
<1>3. Ranked(N, g.parents, rank)
  BY DEF N
<1>4. \A p \in ToSet(Through(g.parents, picks, n)) : p \in picks /\ rank[p] < rank[n]
  BY <1>1, <1>2, <1>3, ThroughBelow
<1> QED BY <1>1, <1>2, <1>4 DEF OrderedParents, picks

\* The walk of a rebase: after every step it is a session like the first.
IsRebase(s, g, w, t, order, walk) ==
  /\ walk[0] = s
  /\ \A k \in 1 .. Len(order) : walk[k] = PickStep(walk[k - 1], order[k])
  /\ \A k \in 0 .. Len(order) : Editing(walk[k], g, w, t)
  /\ Rebase(s) = IF s.ok THEN walk[Len(order)] ELSE s

\* The walk of a rebase, with the position of every node in it.
LEMMA RebaseWalks ==
  ASSUME NEW s, NEW g, NEW w, NEW t, Editing(s, g, w, t)
  PROVE  \E pos, walk : /\ Position(Len(g.parents), g.parents, PickingOrder(g.parents), pos)
                        /\ IsRebase(s, g, w, t, PickingOrder(g.parents), walk)
<1> DEFINE ps == g.parents
           N == Len(ps)
           order == PickingOrder(ps)
<1>1. N \in Nat /\ ps \in Parents(N) /\ DOMAIN ps = 1 .. N /\ s.graph.parents = ps
      /\ \E rank : Ranked(N, ps, rank)
  <2>1. Workspace(s.graph, w, t, {}) /\ s.graph.parents = ps
    BY DEF Editing, Alike
  <2>2. \E rank : Ranked(N, ps, rank)
    BY <2>1 DEF Workspace, Shape
  <2> QED BY <2>1, <2>2, WorkspaceIs
<1>2. PICK pos : Position(N, ps, order, pos)
  BY <1>1, PositionIs
<1>3. order \in Seq(1 .. N) /\ Len(order) \in Nat
  BY <1>2 DEF Position
<1>4. PICK walk : IsPickAll(s, order, walk)
  BY <1>3, PickAllIs
<1>5. Rebase(s) = IF s.ok THEN PickAll(s, order) ELSE s
  BY <1>1 DEF Rebase
<1> HIDE DEF order
<1> DEFINE S == {k \in 0 .. Len(order) : Editing(walk[k], g, w, t)}
<1>6. 0 \in S
  BY <1>3, <1>4 DEF IsPickAll
<1>7. ASSUME NEW i \in 1 .. Len(order), i - 1 \in S PROVE i \in S
  <2>1. order[i] \in DOMAIN g.parents
    BY <1>1, <1>3, ElementOfSeq
  <2>2. walk[i] = PickStep(walk[i - 1], order[i])
    BY <1>4 DEF IsPickAll
  <2>3. Editing(walk[i - 1], g, w, t)
    BY <1>7
  <2>4. Editing(walk[i], g, w, t)
    BY <2>1, <2>2, <2>3, PickStepIs
  <2> QED BY <2>4
<1> HIDE DEF S
<1>8. 0 .. Len(order) \subseteq S
  BY <1>3, <1>6, <1>7, BoundedInduction
<1>9. IsRebase(s, g, w, t, order, walk)
  BY <1>4, <1>5, <1>8 DEF IsRebase, IsPickAll, S
<1> QED BY <1>2, <1>9 DEF order

\* After a rebase every commit is on the parents the graph gives it.
LEMMA RebaseGrows ==
  ASSUME NEW s, NEW g, NEW w, NEW t, Editing(s, g, w, t), Rebase(s).ok
  PROVE  Grown(Rebase(s).graph)
<1> DEFINE N == Len(g.parents)
           order == PickingOrder(g.parents)
           L == Len(order)
<1>1. PICK pos, walk : Position(N, g.parents, order, pos) /\ IsRebase(s, g, w, t, order, walk)
  BY RebaseWalks
<1> HIDE DEF order
<1>2. /\ N \in Nat /\ DOMAIN g.parents = 1 .. N /\ DOMAIN g.step = 1 .. N
  BY WorkspaceIs DEF Editing, Alike
<1>3. /\ L \in Nat /\ \A i \in 1 .. L : order[i] \in 1 .. N /\ pos[order[i]] = i
      /\ \A n \in 1 .. N : pos[n] \in 1 .. L /\ order[pos[n]] = n
  BY <1>1, ElementOfSeq DEF Position
<1> DEFINE Fine(r, m) == r.graph.step[m].kind = "pick" =>
                            r.graph.step[m].commit.parents = ParentCommits(r.graph, m)
           S == {k \in 0 .. L : walk[k].ok => \A i \in 1 .. k : Fine(walk[k], order[i])}
<1>4. 0 \in S
  BY <1>3
<1>5. ASSUME NEW k \in 1 .. L, k - 1 \in S PROVE k \in S
  <2> DEFINE a == walk[k - 1]
             r == walk[k]
             n == order[k]
  <2>1. /\ k \in 0 .. L /\ k - 1 \in 0 .. L /\ n \in DOMAIN g.parents
        /\ r = PickStep(a, n) /\ Editing(a, g, w, t)
    BY <1>1, <1>2, <1>3 DEF IsRebase
  <2>2. SUFFICES ASSUME r.ok PROVE \A i \in 1 .. k : Fine(r, order[i])
    BY <2>1
  <2>3. a.ok /\ (Picked(a, r, n) \/ (a.graph.step[n].kind # "pick" /\ r = a))
    BY <2>1, <2>2, PickCases, SMTT(40)
  <2>4. \A i \in 1 .. k - 1 : Fine(a, order[i])
    BY <1>5, <2>3, SMTT(40)
  <2>5. CASE a.graph.step[n].kind # "pick" /\ r = a
    <3>1. \A i \in 1 .. k : i = k \/ i \in 1 .. k - 1
      OBVIOUS
    <3> QED BY <2>4, <2>5, <3>1
  <2>6. CASE Picked(a, r, n)
    <3>1. Workspace(a.graph, w, t, {}) /\ Alike(g, a.graph) /\ DOMAIN a.graph.step = 1 .. N
          /\ DOMAIN a.graph.parents = 1 .. N
      BY <1>2, <2>1 DEF Editing, Alike
    <3>2. \A m : OrderedParents(r.graph, m) = OrderedParents(a.graph, m)
      <4>1. /\ r.graph.parents = a.graph.parents /\ DOMAIN r.graph.step = DOMAIN a.graph.step
            /\ \A m \in DOMAIN a.graph.step : r.graph.step[m].kind = a.graph.step[m].kind
        BY <2>6, Zenon DEF Picked
      <4> HIDE DEF a, r
      <4> QED BY <4>1, OrderedAlike, SMTT(40)
    <3>3. ASSUME NEW i \in 1 .. k PROVE ParentCommits(r.graph, order[i]) = ParentCommits(a.graph, order[i])
      <4> DEFINE m == order[i]
      <4>1. i \in 1 .. L /\ m \in 1 .. N /\ pos[m] = i
        BY <1>3
      <4>2. Ranked(Len(a.graph.parents), a.graph.parents, pos)
        BY <1>1, <3>1 DEF Position, Alike
      <4>3. \A p \in ToSet(OrderedParents(a.graph, m)) : p \in 1 .. N /\ pos[p] < pos[m]
        <5> HIDE DEF a, m
        <5> QED BY <3>1, <4>1, <4>2, ParentsBefore
      <4>4. \A p \in ToSet(OrderedParents(a.graph, m)) : p # n /\ p \in 1 .. N
        BY <1>3, <4>1, <4>3
      <4>5. \A p \in ToSet(OrderedParents(a.graph, m)) : r.graph.step[p].commit = a.graph.step[p].commit
        <5> HIDE DEF a, r, m, n
        <5> QED BY <2>6, <3>1, <4>4 DEF Picked
      <4> HIDE DEF a, r, m
      <4>6. ParentCommits(r.graph, m) = ParentCommits(a.graph, m)
        BY <3>2, <4>5, ParentCommitsSame
      <4> QED BY <4>6 DEF m
    <3>4. ASSUME NEW i \in 1 .. k PROVE Fine(r, order[i])
      <4>1. CASE i = k
        <5>1. IsCommit(a.graph.step[n].commit)
          <6>1. IsStep(a.graph.step[n]) /\ a.graph.step[n].kind = "pick"
            <7>1. n \in 1 .. Len(a.graph.parents) /\ a.graph.step[n].kind = "pick"
              BY <1>2, <2>1, <2>6, <3>1, Zenon DEF Picked, Alike
            <7>2. \A m \in 1 .. Len(a.graph.parents) : IsStep(a.graph.step[m])
              BY <3>1, WorkspaceIs, SMTT(40)
            <7> QED BY <7>1, <7>2, SMTT(40)
          <6> HIDE DEF a, n
          <6> QED BY <6>1, KindOf
        <5>2. CherryPick(a.graph.step[n].commit, ParentCommits(a.graph, n)).parents = ParentCommits(a.graph, n)
          <6> HIDE DEF a, n
          <6> QED BY <5>1, CherryPickIs
        <5>3. r.graph.step[n].commit.parents = ParentCommits(a.graph, n)
          BY <2>6, <5>2 DEF Picked
        <5> QED BY <3>3, <4>1, <5>3
      <4>2. CASE i # k
        <5>1. i \in 1 .. k - 1 /\ i \in 1 .. L /\ order[i] # n /\ order[i] \in 1 .. N
          <6>1. i \in 1 .. k - 1 /\ i \in 1 .. L
            BY <4>2
          <6>2. pos[order[i]] = i /\ pos[n] = k /\ order[i] \in 1 .. N
            BY <1>3, <6>1, SMTT(40)
          <6> QED BY <4>2, <6>1, <6>2
        <5>2. r.graph.step[order[i]] = a.graph.step[order[i]]
          BY <2>6, <3>1, <5>1 DEF Picked
        <5> HIDE DEF a, r
        <5> QED BY <2>4, <3>3, <5>1, <5>2
      <4> QED BY <4>1, <4>2
    <3> QED BY <3>4, SMTT(40)
  <2> QED BY <2>3, <2>5, <2>6, Zenon
<1> HIDE DEF S
<1>6. 0 .. L \subseteq S
  BY <1>3, <1>4, <1>5, BoundedInduction
<1>7. s.ok /\ Rebase(s) = walk[L]
  BY <1>1 DEF IsRebase
<1>8. \A i \in 1 .. L : Fine(walk[L], order[i])
  BY <1>3, <1>6, <1>7 DEF S
<1>9. Editing(walk[L], g, w, t)
  BY <1>1, <1>3 DEF IsRebase
<1>10. DOMAIN walk[L].graph.step = 1 .. N
  BY <1>2, <1>9 DEF Editing, Alike
<1>11. \A n \in 1 .. N : Fine(walk[L], n)
  BY <1>3, <1>8, SMTT(40)
<1> QED BY <1>7, <1>10, <1>11 DEF Grown, Picks, IsPick

\* What the workspace commit always is: the merge of its parents and nothing else.
IsMerged(c) ==
  /\ c.sides = <<>> /\ c.parents # <<>> /\ MergedTree(c.parents).clean
  /\ \A f \in File : c.tree[f] = MergedTree(c.parents).tree[f]

\* It has nothing of its own, though its parents may not fit together.
OnlyMerges(c) ==
  /\ c.sides = <<>> /\ c.parents # <<>>
  /\ \A f \in File : c.tree[f] = MergedTree(c.parents).tree[f]

\* A commit that has nothing of its own is, picked onto parents that fit together, the merge of
\* them.
LEMMA CherryPickJoins ==
  ASSUME NEW c, IsCommit(c), OnlyMerges(c), NEW ontos, ontos # <<>>, MergedTree(ontos).clean
  PROVE  IsMerged(CherryPick(c, ontos))
<1>1. CASE ontos = c.parents
  BY <1>1 DEF CherryPick, OnlyMerges, IsMerged
<1>2. CASE ontos # c.parents
  <2> DEFINE base == BaseTree(c)
             onto == MergedTree(ontos).tree
             theirs == TheirTree(c)
             tree == Merge(base, onto, theirs)
             sides == IF Clashes(base, onto, theirs) = {} THEN <<>> ELSE <<base, theirs>>
             d == [OnParents(c, ontos) EXCEPT !.tree = tree, !.sides = sides]
  <2>1. CherryPick(c, ontos) = d
    BY <1>2 DEF CherryPick
  <2>2. c.sides = <<>> /\ ~IsConflicted(c) /\ c.parents # <<>>
    BY DEF OnlyMerges, IsConflicted
  <2>3. base = MergedTree(c.parents).tree /\ theirs = c.tree
    BY <2>2 DEF BaseTree, TheirTree
  <2>4. \A f \in File : base[f] = theirs[f]
    BY <2>3, Zenon DEF OnlyMerges
  <2> HIDE DEF base, theirs, onto
  <2>5. Touched(base, theirs) = {}
    BY <2>4 DEF Touched
  <2>6. sides = <<>>
    BY <2>5 DEF Clashes
  <2>7. \A f \in File : tree[f] = onto[f]
    BY <2>5 DEF Merge
  <2> HIDE DEF tree, sides
  <2>8. d = [change |-> c.change, message |-> c.message, parents |-> ontos,
            past |-> Past(ontos), tree |-> tree, sides |-> sides]
    BY OnParentsIs, Zenon
  <2> HIDE DEF d
  <2>9. d.parents = ontos /\ d.tree = tree /\ d.sides = sides
    BY <2>8, CommitIs
  <2>10. IsMerged(d)
    BY <1>2, <2>6, <2>7, <2>9 DEF IsMerged, onto
  <2> QED BY <2>1, <2>10
<1> QED BY <1>1, <1>2

\* The workspace commit, picked onto other parents, is the merge of these.
LEMMA CherryPickMerges ==
  ASSUME NEW c, IsCommit(c), IsMerged(c), NEW ontos, ontos # <<>>,
         ontos # c.parents => MergedTree(ontos).clean
  PROVE  IsMerged(CherryPick(c, ontos))
<1>1. OnlyMerges(c) /\ MergedTree(ontos).clean
  BY DEF IsMerged, OnlyMerges
<1> QED BY <1>1, CherryPickJoins

\* All commits but the target have a commit for a parent.
LEMMA HasParents ==
  ASSUME NEW g, NEW w, NEW t, Workspace(g, w, t, {}),
         NEW n \in DOMAIN g.parents \ {1, t}, g.parents[n] # <<>>
  PROVE  OrderedParents(g, n) # <<>> /\ ParentCommits(g, n) # <<>>
<1> DEFINE N == Len(g.parents)
           ps == g.parents
           picks == Picks(g)
<1>1. /\ N \in Nat /\ ps \in Parents(N) /\ DOMAIN ps = 1 .. N /\ DOMAIN g.step = 1 .. N
      /\ Edges(N, ps, w, t) /\ Steps(N, g.step, w, t) /\ 1 \in 1 .. N
  BY WorkspaceIs
<1>2. (\E rank : Ranked(N, ps, rank)) /\ \E lane : Lanes(N, ps, w, lane)
  BY DEF Workspace, Shape
<1>3. PICK lane : Lanes(N, ps, w, lane)
  BY <1>2
<1>4. PICK pos : Position(N, ps, PickingOrder(ps), pos)
  BY <1>1, <1>2, PositionIs
<1>5. Ranked(N, ps, pos) /\ \A m \in 1 .. N : pos[m] <= N
  BY <1>4 DEF Position
<1>6. picks \in SUBSET (1 .. N) /\ 1 \in picks
  <2>1. g.step[1] = Pick(TargetCommit) /\ Pick(TargetCommit).kind = "pick"
    BY <1>1, Kinds DEF Steps
  <2> QED BY <1>1, <2>1 DEF Picks, IsPick
<1>7. OrderedParents(g, n) = Through(ps, picks, n)
  BY DEF OrderedParents
<1>8. n \in (1 .. N) \ {1, t}
  BY <1>1
<1> HIDE DEF N, picks
<1>9. Through(ps, picks, n) # <<>>
  BY <1>1, <1>3, <1>5, <1>6, <1>8, ThroughSome
<1>10. OrderedParents(g, n) \in Seq(Picks(g))
  BY OrderedParentsTyped
<1>11. ParentCommits(g, n) # <<>>
  <2> DEFINE o == OrderedParents(g, n)
  <2>1. Len(o) \in Nat \ {0} /\ DOMAIN o = 1 .. Len(o)
    BY <1>7, <1>9, <1>10, EmptySeq, LenProperties
  <2>2. ParentCommits(g, n) = [i \in 1 .. Len(o) |-> g.step[o[i]].commit]
    BY <2>1 DEF ParentCommits
  <2> HIDE DEF o
  <2>3. DOMAIN ParentCommits(g, n) # {}
    BY <2>1, <2>2
  <2>4. DOMAIN <<>> = {}
    OBVIOUS
  <2> QED BY <2>3, <2>4
<1> QED BY <1>7, <1>9, <1>11

\* Picking a commit leaves the workspace commit a mere merge.
LEMMA PickMerges ==
  ASSUME NEW s, NEW g, NEW w, NEW t, Editing(s, g, w, t), NEW n \in DOMAIN g.parents,
         PickStep(s, n).ok, IsMerged(s.graph.step[w].commit)
  PROVE  IsMerged(PickStep(s, n).graph.step[w].commit)
<1> DEFINE r == PickStep(s, n)
<1>1. Picked(s, r, n) \/ r = s
  BY PickCases
<1>2. CASE Picked(s, r, n)
  <2>1. Workspace(s.graph, w, t, {}) /\ Alike(g, s.graph)
    BY DEF Editing
  <2>2. /\ w \in DOMAIN s.graph.parents \ {1, t} /\ s.graph.parents[w] # <<>> /\ w \in DOMAIN s.graph.step
        /\ IsStep(s.graph.step[w]) /\ s.graph.step[w].kind = "pick"
    <3>1. Edges(Len(s.graph.parents), s.graph.parents, w, t)
          /\ DOMAIN s.graph.parents = 1 .. Len(s.graph.parents)
          /\ DOMAIN s.graph.step = 1 .. Len(s.graph.parents)
          /\ Steps(Len(s.graph.parents), s.graph.step, w, t) /\ w \in 1 .. Len(s.graph.parents)
      BY <2>1, WorkspaceIs
    <3>2. w # 1
      BY <3>1 DEF Edges
    <3> QED BY <3>1, <3>2 DEF Edges, Steps
  <2>3. IsCommit(s.graph.step[w].commit)
    BY <2>2, KindOf
  <2>4. ParentCommits(s.graph, w) # <<>>
    BY <2>1, <2>2, HasParents
  <2>5. CASE n = w
    <3>1. /\ r.graph.step[w].commit = CherryPick(s.graph.step[w].commit, ParentCommits(s.graph, w))
          /\ ParentCommits(s.graph, w) # s.graph.step[w].commit.parents =>
               MergedTree(ParentCommits(s.graph, w)).clean
      BY <1>2, <2>5 DEF Picked
    <3> HIDE DEF r
    <3>2. IsMerged(r.graph.step[w].commit)
      BY <2>3, <2>4, <3>1, CherryPickMerges
    <3> QED BY <3>2 DEF r
  <2>6. CASE n # w
    <3>1. r.graph.step[w] = s.graph.step[w]
      BY <1>2, <2>2, <2>6 DEF Picked
    <3> QED BY <3>1
  <2> QED BY <2>5, <2>6
<1>3. CASE r = s
  BY <1>3
<1> QED BY <1>1, <1>2, <1>3

\* A rebase leaves the workspace commit the merge of its parents.
LEMMA RebaseMerges ==
  ASSUME NEW s, NEW g, NEW w, NEW t, Editing(s, g, w, t), Rebase(s).ok,
         IsMerged(s.graph.step[w].commit)
  PROVE  IsMerged(Rebase(s).graph.step[w].commit)
<1> DEFINE N == Len(g.parents)
           order == PickingOrder(g.parents)
           L == Len(order)
<1>1. PICK pos, walk : Position(N, g.parents, order, pos) /\ IsRebase(s, g, w, t, order, walk)
  BY RebaseWalks
<1> HIDE DEF order
<1>2. DOMAIN g.parents = 1 .. N
  BY WorkspaceIs DEF Editing, Alike
<1>3. L \in Nat /\ \A i \in 1 .. L : order[i] \in 1 .. N
  BY <1>1, ElementOfSeq DEF Position
<1> DEFINE S == {k \in 0 .. L : walk[k].ok => IsMerged(walk[k].graph.step[w].commit)}
<1>4. 0 \in S
  BY <1>1, <1>3 DEF IsRebase
<1>5. ASSUME NEW k \in 1 .. L, k - 1 \in S PROVE k \in S
  <2>1. /\ k \in 0 .. L /\ k - 1 \in 0 .. L /\ order[k] \in DOMAIN g.parents
        /\ walk[k] = PickStep(walk[k - 1], order[k]) /\ Editing(walk[k - 1], g, w, t)
    BY <1>1, <1>2, <1>3 DEF IsRebase
  <2>2. ASSUME walk[k].ok PROVE IsMerged(walk[k].graph.step[w].commit)
    <3>1. walk[k - 1].ok
      BY <2>1, <2>2, PickCases
    <3>2. IsMerged(walk[k - 1].graph.step[w].commit)
      BY <1>5, <3>1
    <3> QED BY <2>1, <2>2, <3>2, PickMerges
  <2> QED BY <2>1, <2>2
<1> HIDE DEF S
<1>6. 0 .. L \subseteq S
  BY <1>3, <1>4, <1>5, BoundedInduction
<1>7. Rebase(s) = walk[L]
  BY <1>1 DEF IsRebase
<1>8. IsMerged(walk[L].graph.step[w].commit)
  BY <1>3, <1>6, <1>7 DEF S
<1> QED BY <1>7, <1>8

-----------------------------------------------------------------------------
(* Where the ids of the client lead to.                                    *)

\* From the id o the history leads to the commit of the change, and nowhere else.
Leads(g, h, change, o) ==
  /\ o.change = change
  /\ \A d, e \in DOMAIN h : h[d] = o /\ h[e] = o => d = e
  /\ \A n \in DOMAIN g.step :
       g.step[n].kind = "pick" /\ g.step[n].commit.change = change =>
         /\ g.step[n].tracked = TRUE
         /\ g.step[n].commit \in DOMAIN h /\ h[g.step[n].commit] = o

\* The two graphs differ in the commit of one node, and not in its change.
Rewrites(g, d, n) ==
  /\ DOMAIN d.step = DOMAIN g.step /\ n \in DOMAIN g.step
  /\ g.step[n].kind = "pick" /\ d.step[n].kind = "pick"
  /\ d.step[n].commit.change = g.step[n].commit.change
  /\ d.step[n].tracked = g.step[n].tracked \/ d.step[n].tracked = TRUE
  /\ \A m \in DOMAIN g.step \ {n} :
       /\ d.step[m] = g.step[m]
       /\ g.step[m].kind = "pick" => g.step[m].commit.change # g.step[n].commit.change

\* When a commit becomes another and update_mapping is told, the ids lead where they led.
LEMMA RewrittenLeads ==
  ASSUME NEW g, NEW d, NEW n, Rewrites(g, d, n), NEW h, SameChanges(h),
         NEW change, NEW o, Leads(g, h, change, o)
  PROVE  Leads(d, UpdateMapping(h, g.step[n].commit, d.step[n].commit), change, o)
<1> DEFINE c == g.step[n].commit
           e == d.step[n].commit
           new == UpdateMapping(h, c, e)
           old == IF c \in DOMAIN h THEN h[c] ELSE c
<1>1. /\ DOMAIN new = (DOMAIN h \ {c}) \cup {e} /\ new[e] = old
      /\ \A x \in DOMAIN h \ {c, e} : new[x] = h[x]
  <2> HIDE DEF c, e
  <2>1. DOMAIN UpdateMapping(h, c, e) = (DOMAIN h \ {c}) \cup {e}
    BY DEF UpdateMapping
  <2>2. UpdateMapping(h, c, e)[e] = IF c \in DOMAIN h THEN h[c] ELSE c
    BY DEF UpdateMapping
  <2>3. \A x \in DOMAIN h \ {c, e} : UpdateMapping(h, c, e)[x] = h[x]
    BY DEF UpdateMapping
  <2> QED BY <2>1, <2>2, <2>3
<1>2. /\ e.change = c.change /\ o.change = change
      /\ \A x, y \in DOMAIN h : h[x] = o /\ h[y] = o => x = y
      /\ \A x \in DOMAIN h : h[x].change = x.change
      /\ old.change = c.change
  <2>1. /\ e.change = c.change /\ o.change = change
        /\ \A x, y \in DOMAIN h : h[x] = o /\ h[y] = o => x = y
        /\ \A x \in DOMAIN h : h[x].change = x.change
    BY DEF Rewrites, Leads, SameChanges
  <2> HIDE DEF c, e
  <2> QED BY <2>1
<1>3. /\ g.step[n].kind = "pick" /\ n \in DOMAIN g.step /\ DOMAIN d.step = DOMAIN g.step
      /\ \A m \in DOMAIN g.step \ {n} : d.step[m] = g.step[m]
      /\ \A m \in DOMAIN g.step \ {n} : g.step[m].kind = "pick" => g.step[m].commit.change # c.change
      /\ d.step[n].tracked = g.step[n].tracked \/ d.step[n].tracked = TRUE
  BY DEF Rewrites
<1>4. \A m \in DOMAIN g.step :
        g.step[m].kind = "pick" /\ g.step[m].commit.change = change =>
          g.step[m].tracked = TRUE /\ g.step[m].commit \in DOMAIN h /\ h[g.step[m].commit] = o
  BY DEF Leads
<1>5. c.change = change => c \in DOMAIN h /\ h[c] = o /\ old = o /\ g.step[n].tracked = TRUE
  BY <1>3, <1>4
<1>6. ASSUME NEW x \in DOMAIN new, NEW y \in DOMAIN new, new[x] = o, new[y] = o PROVE x = y
  <2> HIDE DEF new, old, c, e
  <2>1. CASE x = e /\ y = e
    BY <2>1
  <2>2. CASE x # e /\ y # e
    <3>1. x \in DOMAIN h /\ y \in DOMAIN h /\ h[x] = o /\ h[y] = o
      BY <1>1, <1>6, <2>2
    <3> QED BY <1>2, <3>1
  <2>3. CASE x = e /\ y # e
    <3>1. old = o /\ c.change = change
      BY <1>1, <1>2, <1>6, <2>3
    <3>2. y \in DOMAIN h /\ h[y] = o /\ y # c
      BY <1>1, <1>6, <2>3
    <3> QED BY <1>2, <1>5, <3>1, <3>2
  <2>4. CASE y = e /\ x # e
    <3>1. old = o /\ c.change = change
      BY <1>1, <1>2, <1>6, <2>4
    <3>2. x \in DOMAIN h /\ h[x] = o /\ x # c
      BY <1>1, <1>6, <2>4
    <3> QED BY <1>2, <1>5, <3>1, <3>2
  <2> QED BY <2>1, <2>2, <2>3, <2>4
<1>7. ASSUME NEW m \in DOMAIN d.step, d.step[m].kind = "pick", d.step[m].commit.change = change
      PROVE  d.step[m].tracked = TRUE /\ d.step[m].commit \in DOMAIN new /\ new[d.step[m].commit] = o
  <2>1. CASE m = n
    <3>1. c.change = change
      BY <1>2, <1>7, <2>1
    <3>2. d.step[n].tracked = TRUE
      BY <1>3, <1>5, <3>1
    <3> HIDE DEF new, old, c
    <3> QED BY <1>1, <1>5, <2>1, <3>1, <3>2
  <2>2. CASE m # n
    <3>1. d.step[m] = g.step[m] /\ m \in DOMAIN g.step \ {n}
      BY <1>3, <2>2
    <3>2. /\ g.step[m].tracked = TRUE /\ g.step[m].commit \in DOMAIN h /\ h[g.step[m].commit] = o
          /\ c.change # change
      BY <1>3, <1>4, <1>7, <3>1
    <3>3. g.step[m].commit # c /\ g.step[m].commit # e
      BY <1>2, <1>7, <3>1, <3>2
    <3> HIDE DEF new, old, c, e
    <3> QED BY <1>1, <3>1, <3>2, <3>3
  <2> QED BY <2>1, <2>2
<1>8. Leads(d, new, change, o)
  <2> HIDE DEF new
  <2> QED BY <1>2, <1>6, <1>7 DEF Leads
<1> QED BY <1>8

\* A step of the rebase rewrites the commit of one node.
LEMMA PickedRewrites ==
  ASSUME NEW s, NEW g, NEW w, NEW t, Editing(s, g, w, t), NEW n \in DOMAIN g.parents,
         NEW r, Picked(s, r, n)
  PROVE  /\ Rewrites(s.graph, r.graph, n) /\ s.graph.step[n].tracked \in BOOLEAN
         /\ IsCommit(s.graph.step[n].commit)
<1>1. Workspace(s.graph, w, t, {}) /\ Alike(g, s.graph)
  BY DEF Editing
<1> DEFINE N == Len(s.graph.parents)
<1>2. /\ DOMAIN s.graph.parents = 1 .. N /\ DOMAIN s.graph.step = 1 .. N
      /\ Steps(N, s.graph.step, w, t) /\ \A m \in 1 .. N : IsStep(s.graph.step[m])
  BY <1>1, WorkspaceIs
<1>3. n \in 1 .. N /\ s.graph.step[n].kind = "pick"
  BY <1>1, <1>2 DEF Alike, Picked
<1> DEFINE c == s.graph.step[n].commit
<1>4. IsCommit(c) /\ s.graph.step[n] \in {Pick(c), UntrackedPick(c)}
  BY <1>2, <1>3, KindOf
<1>5. s.graph.step[n].tracked \in BOOLEAN
  <2>1. Pick(c).tracked = TRUE /\ UntrackedPick(c).tracked = FALSE
    <3> HIDE DEF c
    <3> QED BY Kinds
  <2> QED BY <1>4, <2>1
<1>6. r.graph.step[n].commit.change = c.change
  <2>1. r.graph.step[n].commit = CherryPick(c, ParentCommits(s.graph, n))
    BY SMTT(40) DEF Picked
  <2> HIDE DEF c
  <2> QED BY <1>4, <2>1, CherryPickIs
<1>7. Rewrites(s.graph, r.graph, n)
  <2>1. \A m \in DOMAIN s.graph.step \ {n} :
          s.graph.step[m].kind = "pick" => s.graph.step[m].commit.change # c.change
    BY <1>2, <1>3 DEF Steps
  <2> QED BY <1>2, <1>3, <1>6, <2>1 DEF Rewrites, Picked
<1> QED BY <1>4, <1>5, <1>7

\* Ids lead after a step of the rebase where they led before.
LEMMA PickLeads ==
  ASSUME NEW s, NEW g, NEW w, NEW t, Editing(s, g, w, t), NEW n \in DOMAIN g.parents,
         PickStep(s, n).ok, NEW change, NEW o, Leads(s.graph, s.history, change, o)
  PROVE  Leads(PickStep(s, n).graph, PickStep(s, n).history, change, o)
<1> DEFINE r == PickStep(s, n)
<1>1. Picked(s, r, n) \/ r = s
  BY PickCases
<1> HIDE DEF r
<1>2. CASE Picked(s, r, n)
  <2>1. Rewrites(s.graph, r.graph, n) /\ s.graph.step[n].tracked \in BOOLEAN
    BY <1>2, PickedRewrites
  <2>2. SameChanges(s.history)
    BY DEF Editing
  <2>3. CASE s.graph.step[n].tracked = TRUE
    <3>1. r.history = UpdateMapping(s.history, s.graph.step[n].commit, r.graph.step[n].commit)
      BY <1>2, <2>3 DEF Picked
    <3>2. Leads(r.graph, UpdateMapping(s.history, s.graph.step[n].commit, r.graph.step[n].commit), change, o)
      BY <2>1, <2>2, RewrittenLeads
    <3>3. Leads(r.graph, r.history, change, o)
      BY <3>1, <3>2
    <3> QED BY <3>3 DEF r
  <2>4. CASE s.graph.step[n].tracked = FALSE
    <3>1. r.history = s.history
      BY <1>2, <2>4, SMTT(40) DEF Picked
    <3>2. s.graph.step[n].commit.change # change
      BY <2>1, <2>4 DEF Leads, Rewrites
    <3>3. ASSUME NEW m \in DOMAIN r.graph.step, r.graph.step[m].kind = "pick",
                 r.graph.step[m].commit.change = change
          PROVE  m \in DOMAIN s.graph.step /\ r.graph.step[m] = s.graph.step[m]
      BY <2>1, <3>2, <3>3 DEF Rewrites
    <3>4. Leads(r.graph, r.history, change, o)
      BY <3>1, <3>3 DEF Leads
    <3> QED BY <3>4 DEF r
  <2> QED BY <2>1, <2>3, <2>4
<1>3. CASE r = s
  <2>1. Leads(r.graph, r.history, change, o)
    BY <1>3
  <2> QED BY <2>1 DEF r
<1> QED BY <1>1, <1>2, <1>3

\* Ids lead after a rebase to the commits they led to before.
LEMMA RebaseLeads ==
  ASSUME NEW s, NEW g, NEW w, NEW t, Editing(s, g, w, t), Rebase(s).ok,
         NEW change, NEW o, Leads(s.graph, s.history, change, o)
  PROVE  Leads(Rebase(s).graph, Rebase(s).history, change, o)
<1> DEFINE N == Len(g.parents)
           order == PickingOrder(g.parents)
           L == Len(order)
<1>1. PICK pos, walk : Position(N, g.parents, order, pos) /\ IsRebase(s, g, w, t, order, walk)
  BY RebaseWalks
<1> HIDE DEF order
<1>2. DOMAIN g.parents = 1 .. N
  BY WorkspaceIs DEF Editing, Alike
<1>3. L \in Nat /\ \A i \in 1 .. L : order[i] \in 1 .. N
  BY <1>1, ElementOfSeq DEF Position
<1> DEFINE S == {k \in 0 .. L : walk[k].ok => Leads(walk[k].graph, walk[k].history, change, o)}
<1>4. 0 \in S
  BY <1>1, <1>3 DEF IsRebase
<1>5. ASSUME NEW k \in 1 .. L, k - 1 \in S PROVE k \in S
  <2>1. /\ k \in 0 .. L /\ k - 1 \in 0 .. L /\ order[k] \in DOMAIN g.parents
        /\ walk[k] = PickStep(walk[k - 1], order[k]) /\ Editing(walk[k - 1], g, w, t)
    BY <1>1, <1>2, <1>3 DEF IsRebase
  <2>2. ASSUME walk[k].ok PROVE Leads(walk[k].graph, walk[k].history, change, o)
    <3>1. walk[k - 1].ok
      BY <2>1, <2>2, PickCases
    <3>2. Leads(walk[k - 1].graph, walk[k - 1].history, change, o)
      BY <1>5, <3>1
    <3> QED BY <2>1, <2>2, <3>2, PickLeads
  <2> QED BY <2>1, <2>2
<1> HIDE DEF S
<1>6. 0 .. L \subseteq S
  BY <1>3, <1>4, <1>5, BoundedInduction
<1>7. Rebase(s) = walk[L]
  BY <1>1 DEF IsRebase
<1>8. Leads(walk[L].graph, walk[L].history, change, o)
  BY <1>3, <1>6, <1>7 DEF S
<1> QED BY <1>7, <1>8

\* What the commits of a graph are known by.
Named(g, ids) == \A n \in Picks(g) : g.step[n].commit.change \in ids \cup {"target", "workspace"}

\* Of a graph g with its history h and the session s it became: the ids, but for some, lead to the
\* commits they led to, and the workspace commit is a mere merge if it was.
Carries(g, h, s, w, but) ==
  /\ IsMerged(g.step[w].commit) => IsMerged(s.graph.step[w].commit)
  /\ \A id, o : id \notin but /\ Leads(g, h, id, o) => Leads(s.graph, s.history, id, o)

\* A session in which g was edited, and not yet rebased.
Prepares(g, h, s, w, t, ids, but) ==
  /\ Editing(s, s.graph, w, t)
  /\ Named(s.graph, ids)
  /\ Carries(g, h, s, w, but)

\* The same of a session that was rebased.
Follows(g, h, r, w, t, ids, but) ==
  /\ Workspace(r.graph, w, t, {}) /\ SameChanges(r.history) /\ Grown(r.graph)
  /\ Named(r.graph, ids)
  /\ Carries(g, h, r, w, but)

\* What two edits one after the other leave, by what each does.
LEMMA CarriesOn ==
  ASSUME NEW g, NEW h, NEW s, NEW r, NEW w, NEW b, NEW c,
         Carries(g, h, s, w, b), Carries(s.graph, s.history, r, w, c)
  PROVE  Carries(g, h, r, w, b \cup c)
  BY DEF Carries

\* Graphs that are alike have commits of the same changes.
LEMMA AlikeNamed ==
  ASSUME NEW g, NEW d, Alike(g, d), NEW ids, Named(g, ids)
  PROVE  Named(d, ids)
  BY DEF Alike, Named, Picks, IsPick

\* An edit, once rebased, leaves the commits on their parents, the ids leading where they led,
\* and the workspace commit a merge.
LEMMA Rebased ==
  ASSUME NEW g, NEW h, NEW s, NEW w, NEW t, NEW ids, NEW but, Prepares(g, h, s, w, t, ids, but),
         Rebase(s).ok
  PROVE  /\ Follows(g, h, Rebase(s), w, t, ids, but)
         /\ Alike(s.graph, Rebase(s).graph)
<1> DEFINE r == Rebase(s)
<1>1. Editing(s, s.graph, w, t) /\ Named(s.graph, ids)
  BY DEF Prepares
<1>2. Editing(r, s.graph, w, t)
  BY <1>1, RebaseIs
<1>3. Grown(r.graph)
  BY <1>1, RebaseGrows
<1>4. Workspace(r.graph, w, t, {}) /\ SameChanges(r.history) /\ Alike(s.graph, r.graph)
  BY <1>2 DEF Editing
<1>5. Named(r.graph, ids)
  BY <1>1, <1>4, AlikeNamed
<1>6. IsMerged(g.step[w].commit) => IsMerged(r.graph.step[w].commit)
  BY <1>1, RebaseMerges DEF Prepares, Carries
<1>7. ASSUME NEW id, NEW o, id \notin but, Leads(g, h, id, o) PROVE Leads(r.graph, r.history, id, o)
  <2>1. Leads(s.graph, s.history, id, o)
    BY <1>7 DEF Prepares, Carries
  <2> QED BY <1>1, <2>1, RebaseLeads
<1> HIDE DEF r
<1>8. Follows(g, h, r, w, t, ids, but)
  BY <1>3, <1>4, <1>5, <1>6, <1>7 DEF Follows, Carries
<1> QED BY <1>4, <1>8 DEF r

-----------------------------------------------------------------------------
\* What is known of the commits, and that the nodes the client names are theirs.
Standing(w, t) ==
  /\ Workspace(graph, w, t, {}) /\ SameChanges(history)
  /\ \A id \in DOMAIN known : known[id].change = id /\ id \notin {"target", "workspace"}
  /\ Named(graph, DOMAIN known)

\* The id a client's one is mapped to is of the same change.
LEMMA MappedIs ==
  ASSUME SameChanges(history), NEW id
  PROVE  Mapped(id).change = id.change
<1>1. CASE MappedTo(history, id) = {}
  BY <1>1 DEF Mapped
<1>2. CASE MappedTo(history, id) # {}
  <2>1. Mapped(id) \in MappedTo(history, id)
    BY <1>2 DEF Mapped
  <2> QED BY <2>1 DEF MappedTo, SameChanges
<1> QED BY <1>1, <1>2

\* The node of a commit.
CommitNode(w, n, id) ==
  /\ Free(graph, w, n) /\ n \in DOMAIN graph.step
  /\ IsCommit(graph.step[n].commit) /\ graph.step[n].commit.change = id

\* A node found by the id of a commit has that commit, and is of a stack.
LEMMA CommitNodesAre ==
  ASSUME NEW w, NEW t, Standing(w, t), NEW id \in DOMAIN known, NEW n \in CommitNodes(id)
  PROVE  CommitNode(w, n, id)
<1>1. graph.step[n].commit.change = id /\ id \notin {"target", "workspace"}
  <2>1. graph.step[n].commit = Mapped(known[id])
    BY DEF CommitNodes
  <2>2. Mapped(known[id]).change = known[id].change
    BY MappedIs DEF Standing
  <2> QED BY <2>1, <2>2 DEF Standing
<1> DEFINE N == Len(graph.parents)
<1>2. /\ DOMAIN graph.parents = 1 .. N /\ DOMAIN graph.step = 1 .. N /\ Steps(N, graph.step, w, t)
      /\ \A m \in 1 .. N : IsStep(graph.step[m])
  BY WorkspaceIs DEF Standing
<1>3. n \in 1 .. N /\ graph.step[n].kind = "pick"
  BY <1>2 DEF CommitNodes, Picks, IsPick
<1>4. graph.step[1].commit.change = "target" /\ graph.step[w].commit.change = "workspace"
  <2>1. Pick(TargetCommit).commit = TargetCommit
    BY Kinds
  <2> QED BY <1>2, <2>1, TargetCommitIs DEF Steps
<1>5. n # 1 /\ n # w
  BY <1>1, <1>4
<1>6. IsCommit(graph.step[n].commit)
  BY <1>2, <1>3, KindOf
<1> QED BY <1>1, <1>2, <1>3, <1>5, <1>6 DEF CommitNode, Free

\* The node an operation works on is that of the commit it was asked for.
LEMMA NodeIs ==
  ASSUME NEW w, NEW t, Standing(w, t), NEW id \in DOMAIN known, NodesOf(id) # {}
  PROVE  CommitNode(w, Node(id), id)
<1>1. Node(id) \in CommitNodes(id)
  BY DEF Node, NodesOf
<1> QED BY <1>1, CommitNodesAre

\* The node of an anchor is one next to which nodes may be put.
LEMMA AnchorIs ==
  ASSUME NEW w, NEW t, Standing(w, t), NEW anchor \in DOMAIN known \cup Names(graph),
         NodesOf(anchor) # {}, NEW side \in Sides, ~AboveTop(anchor, side)
  PROVE  IsAnchor(graph, w, t, Node(anchor), side)
<1> DEFINE N == Len(graph.parents)
           n == Node(anchor)
<1>1. Workspace(graph, w, t, {})
  BY DEF Standing
<1>2. /\ DOMAIN graph.parents = 1 .. N /\ DOMAIN graph.step = 1 .. N /\ Steps(N, graph.step, w, t)
      /\ graph.parents \in Parents(N) /\ w \in 1 .. N
  BY <1>1, WorkspaceIs
<1>3. CASE anchor \in DOMAIN known
  <2>1. Free(graph, w, n)
    BY <1>3, NodeIs DEF CommitNode
  <2>2. n \in (1 .. N) \ {1, w, t} /\ n \notin ToSet(graph.parents[w]) /\ graph.step[n] # NoStep
    BY <1>1, <2>1, FreeIs
  <2> QED BY <1>2, <2>2 DEF IsAnchor
<1>4. CASE anchor \notin DOMAIN known
  <2>1. n \in ReferenceNodes(anchor)
    BY <1>4 DEF Node, NodesOf
  <2>2. n \in 1 .. N /\ graph.step[n] = Reference(anchor)
    BY <1>2, <2>1 DEF ReferenceNodes
  <2>3. graph.step[n].kind = "reference" /\ graph.step[n].name = anchor
    <3>1. Reference(anchor).kind = "reference" /\ Reference(anchor).name = anchor
      BY Kinds
    <3> QED BY <2>2, <3>1
  <2>4. anchor # "workspace"
    BY <1>4 DEF Names
  <2>5. n # t
    <3>1. Reference("workspace").name = "workspace"
      BY Kinds
    <3>2. graph.step[t] = Reference("workspace")
      BY <1>1, <1>2, WorkspaceIs DEF Steps
    <3> QED BY <2>3, <2>4, <3>1, <3>2
  <2>6. n # 1 /\ n # w
    <3>1. Pick(TargetCommit).kind = "pick"
      BY Kinds
    <3> QED BY <1>2, <2>3, <3>1 DEF Steps
  <2>7. graph.step[n] # NoStep
    BY <2>3, Kinds
  <2>8. side = "Above" => n \notin ToSet(graph.parents[w])
    <3>1. WorkspaceNode(graph) = w
      BY <1>1, TopIs
    <3>2. graph.parents[w] \in Seq(1 .. N)
      BY <1>1, WorkspaceIs DEF Parents
    <3>3. side = "Above" => ~Contains(graph.parents[w], n)
      BY <2>1, <3>1 DEF AboveTop
    <3> QED BY <3>2, <3>3, SeqFacts
  <2> QED BY <1>2, <2>2, <2>5, <2>6, <2>7, <2>8 DEF IsAnchor
<1> QED BY <1>3, <1>4

\* Different commits, and a commit and an anchor, are different nodes.
LEMMA NodesDiffer ==
  ASSUME NEW w, NEW t, Standing(w, t), NEW id \in DOMAIN known, NodesOf(id) # {},
         NEW anchor \in (DOMAIN known \cup Names(graph)) \ {id}, NodesOf(anchor) # {}
  PROVE  Node(id) # Node(anchor)
<1>1. CommitNode(w, Node(id), id)
  BY NodeIs
<1>2. CASE anchor \in DOMAIN known
  <2>1. CommitNode(w, Node(anchor), anchor)
    BY <1>2, NodeIs
  <2> QED BY <1>1, <2>1 DEF CommitNode
<1>3. CASE anchor \notin DOMAIN known
  <2>1. graph.step[Node(anchor)] = Reference(anchor)
    BY <1>3 DEF Node, NodesOf, ReferenceNodes
  <2>2. graph.step[Node(anchor)].kind = "reference"
    <3>1. Reference(anchor).kind = "reference"
      BY Kinds
    <3> QED BY <2>1, <3>1
  <2> QED BY <1>1, <2>2 DEF CommitNode, Free
<1> QED BY <1>2, <1>3

-----------------------------------------------------------------------------
(* What an operation may prepare for the rebase.                           *)

\* Of the commits of d: they are those of g, and added ones.
Keeps(g, d, added) ==
  \A n \in Picks(d) : \/ n \in Picks(g) /\ d.step[n] = g.step[n]
                      \/ d.step[n].commit.change \in added

\* The fields of a session.
LEMMA SessionFields ==
  ASSUME NEW d, NEW h
  PROVE  Session(d, h).graph = d /\ Session(d, h).history = h /\ Session(d, h).ok = TRUE
  BY DEF Session

\* An edit that leaves the commits, takes some out, or adds new ones, may be rebased.
LEMMA KeptPrepares ==
  ASSUME NEW g, NEW h, NEW w, NEW t, SameChanges(h), NEW ids, Named(g, ids),
         NEW d, Workspace(d, w, t, {}), d.step[w] = g.step[w], NEW added, Keeps(g, d, added)
  PROVE  Prepares(g, h, Session(d, h), w, t, ids \cup added, added)
<1>1. Editing(Session(d, h), d, w, t)
  BY SessionIs
<1>2. Named(d, ids \cup added)
  BY DEF Named, Keeps
<1>3. ASSUME NEW id, NEW o, id \notin added, Leads(g, h, id, o) PROVE Leads(d, h, id, o)
  <2>1. ASSUME NEW n \in DOMAIN d.step, d.step[n].kind = "pick", d.step[n].commit.change = id
        PROVE  n \in DOMAIN g.step /\ d.step[n] = g.step[n]
    BY <1>3, <2>1 DEF Keeps, Picks, IsPick
  <2> QED BY <1>3, <2>1 DEF Leads
<1> DEFINE s == Session(d, h)
<1>4. s.graph = d /\ s.history = h
  BY DEF Session
<1> HIDE DEF s
<1>5. Carries(g, h, s, w, added)
  BY <1>3, <1>4 DEF Carries
<1>6. Prepares(g, h, s, w, t, ids \cup added, added)
  BY <1>1, <1>2, <1>4, <1>5 DEF Prepares, s
<1> QED BY <1>6 DEF s

\* A commit instead of one of the same change.
MayRewrite(g, w, n, c) ==
  /\ Free(g, w, n) /\ IsCommit(c) /\ c.change = g.step[n].commit.change

\* A commit replaced by one of the same change leaves a workspace.
LEMMA RewrittenIs ==
  ASSUME NEW g, NEW w, NEW t, Workspace(g, w, t, {}), NEW n, NEW c, MayRewrite(g, w, n, c)
  PROVE  /\ Workspace(Replace(g, n, Pick(c)), w, t, {})
         /\ Replace(g, n, Pick(c)).step[n].commit = c
         /\ Replace(g, n, Pick(c)).step[w] = g.step[w]
         /\ Rewrites(g, Replace(g, n, Pick(c)), n)
         /\ Replace(g, n, Pick(c)).parents = g.parents
         /\ DOMAIN Replace(g, n, Pick(c)).step = DOMAIN g.step
<1> DEFINE N == Len(g.parents)
           p == Pick(c)
           d == Replace(g, n, p)
<1>1. p.kind = "pick" /\ p.commit = c /\ p.tracked = TRUE /\ p # NoStep
  BY Kinds
<1>2. n \in (1 .. N) \ {1, w, t} /\ DOMAIN g.parents = 1 .. N /\ DOMAIN g.step = 1 .. N /\ w \in 1 .. N
  BY FreeIs, WorkspaceIs DEF MayRewrite
<1>3. IsStep(p)
  <2> HIDE DEF p
  <2>1. p.commit = c
    BY <1>1
  <2>2. p = Pick(p.commit)
    BY <2>1 DEF p
  <2> QED BY <2>1, <2>2 DEF IsStep, MayRewrite
<1> HIDE DEF p
<1>4. MayReplace(g, w, t, n, p)
  BY <1>1, <1>2, <1>3 DEF MayReplace, MayRewrite, Free
<1>5. /\ d.step[n] = p /\ d.parents = g.parents /\ DOMAIN d.step = DOMAIN g.step
      /\ \A m \in DOMAIN g.parents \ {n} : d.step[m] = g.step[m]
  BY <1>4, ReplacedSteps
<1>6. Workspace(d, w, t, {})
  <2>1. Workspace(d, w, t, IF p = NoStep THEN {} \ {n} ELSE {})
    BY <1>4, ReplacedStays
  <2> QED BY <1>1, <2>1
<1> HIDE DEF d
<1>7. d.step[w] = g.step[w]
  BY <1>2, <1>5
<1>8. \A m \in DOMAIN g.step \ {n} : g.step[m].kind = "pick" => g.step[m].commit.change # g.step[n].commit.change
  BY <1>2, WorkspaceIs DEF Steps, MayRewrite, Free
<1>9. Rewrites(g, d, n)
  BY <1>1, <1>2, <1>5, <1>8 DEF Rewrites, MayRewrite, Free
<1>10. d.step[n].commit = c
  BY <1>1, <1>5
<1> QED BY <1>5, <1>6, <1>7, <1>9, <1>10 DEF d, p

\* And the names the commits have.
LEMMA RewrittenNamed ==
  ASSUME NEW g, NEW d, NEW n, Rewrites(g, d, n), NEW ids, Named(g, ids)
  PROVE  Named(d, ids)
<1>1. ASSUME NEW m \in Picks(d) PROVE d.step[m].commit.change \in ids \cup {"target", "workspace"}
  <2>1. CASE m = n
    BY <2>1 DEF Rewrites, Named, Picks, IsPick
  <2>2. CASE m # n
    BY <2>2 DEF Rewrites, Named, Picks, IsPick
  <2> QED BY <2>1, <2>2
<1> QED BY <1>1 DEF Named

\* The commit is what the mapping calls it.
LEMMA RewrittenPrepares ==
  ASSUME NEW g, NEW h, NEW w, NEW t, Workspace(g, w, t, {}), SameChanges(h), NEW ids, Named(g, ids),
         NEW n, NEW c, MayRewrite(g, w, n, c)
  PROVE  Prepares(g, h, Session(Replace(g, n, Pick(c)), UpdateMapping(h, g.step[n].commit, c)), w, t, ids, {})
<1> DEFINE d == Replace(g, n, Pick(c))
           k == UpdateMapping(h, g.step[n].commit, c)
           s == Session(d, k)
<1>1. Workspace(d, w, t, {}) /\ d.step[n].commit = c /\ d.step[w] = g.step[w] /\ Rewrites(g, d, n)
  BY RewrittenIs
<1>2. SameChanges(k)
  BY MappingKeepsChanges DEF MayRewrite
<1>3. s.graph = d /\ s.history = k
  <2> HIDE DEF d, k
  <2> QED BY DEF Session
<1> HIDE DEF d
<1>4. ASSUME NEW id, NEW o, Leads(g, h, id, o) PROVE Leads(d, k, id, o)
  <2>1. Leads(d, UpdateMapping(h, g.step[n].commit, d.step[n].commit), id, o)
    BY <1>1, <1>4, RewrittenLeads
  <2> QED BY <1>1, <2>1
<1> HIDE DEF k
<1>5. Editing(s, d, w, t)
  BY <1>1, <1>2, SessionIs
<1>6. Named(d, ids)
  BY <1>1, RewrittenNamed
<1> HIDE DEF s
<1>7. Prepares(g, h, s, w, t, ids, {})
  BY <1>1, <1>3, <1>4, <1>5, <1>6 DEF Prepares, Carries
<1> QED BY <1>7 DEF s, k, d

\* And if the mapping does not say so, its id is one of those that lead nowhere.
LEMMA ReplacedPrepares ==
  ASSUME NEW g, NEW h, NEW w, NEW t, Workspace(g, w, t, {}), SameChanges(h), NEW ids, Named(g, ids),
         NEW n, NEW c, MayRewrite(g, w, n, c)
  PROVE  Prepares(g, h, Session(Replace(g, n, Pick(c)), h), w, t, ids, {c.change})
<1> DEFINE d == Replace(g, n, Pick(c))
           s == Session(d, h)
<1>1. Workspace(d, w, t, {}) /\ d.step[n].commit = c /\ d.step[w] = g.step[w] /\ Rewrites(g, d, n)
  BY RewrittenIs
<1>3. s.graph = d /\ s.history = h
  <2> HIDE DEF d
  <2> QED BY DEF Session
<1> HIDE DEF d
<1>4. ASSUME NEW id, NEW o, id \notin {c.change}, Leads(g, h, id, o) PROVE Leads(d, h, id, o)
  <2>1. ASSUME NEW m \in DOMAIN d.step, d.step[m].kind = "pick", d.step[m].commit.change = id
        PROVE  m \in DOMAIN g.step /\ d.step[m] = g.step[m]
    BY <1>1, <1>4, <2>1 DEF Rewrites
  <2> QED BY <1>4, <2>1 DEF Leads
<1>5. Editing(s, d, w, t)
  BY <1>1, SessionIs
<1>6. Named(d, ids)
  BY <1>1, RewrittenNamed
<1> HIDE DEF s
<1>7. Prepares(g, h, s, w, t, ids, {c.change})
  BY <1>1, <1>3, <1>4, <1>5, <1>6 DEF Prepares, Carries
<1> QED BY <1>7 DEF s, d

\* A commit with another tree.
LEMMA TreeOf ==
  ASSUME NEW c, IsCommit(c), NEW tree
  PROVE  IsCommit([c EXCEPT !.tree = tree]) /\ [c EXCEPT !.tree = tree].change = c.change
         /\ [c EXCEPT !.tree = tree].parents = c.parents
<1> DEFINE d == [c EXCEPT !.tree = tree]
<1>1. PICK a, m, p, x, y : c = [change |-> a, message |-> m, parents |-> p, past |-> Past(p), tree |-> x, sides |-> y]
  BY DEF IsCommit
<1>2. c \in [change : {a}, message : {m}, parents : {p}, past : {Past(p)}, tree : {x}, sides : {y}]
  BY <1>1
<1>3. d \in [change : {a}, message : {m}, parents : {p}, past : {Past(p)}, tree : {tree}, sides : {y}]
  BY <1>2
<1>4. c.change = a /\ c.parents = p
  BY <1>1
<1> HIDE <1>1
<1> HIDE DEF d
<1>5. d = [change |-> a, message |-> m, parents |-> p, past |-> Past(p), tree |-> tree, sides |-> y]
  BY <1>3
<1>6. IsCommit(d) /\ d.change = a /\ d.parents = p
  BY <1>5, CommitIs
<1> QED BY <1>4, <1>6 DEF d

\* A commit with another message.
LEMMA MessageOf ==
  ASSUME NEW c, IsCommit(c), NEW message
  PROVE  IsCommit([c EXCEPT !.message = message]) /\ [c EXCEPT !.message = message].change = c.change
<1> DEFINE d == [c EXCEPT !.message = message]
<1>1. PICK a, m, p, x, y : c = [change |-> a, message |-> m, parents |-> p, past |-> Past(p), tree |-> x, sides |-> y]
  BY DEF IsCommit
<1>2. c \in [change : {a}, message : {m}, parents : {p}, past : {Past(p)}, tree : {x}, sides : {y}]
  BY <1>1
<1>3. d \in [change : {a}, message : {message}, parents : {p}, past : {Past(p)}, tree : {x}, sides : {y}]
  BY <1>2
<1>4. c.change = a
  BY <1>1
<1> HIDE <1>1
<1> HIDE DEF d
<1>5. d = [change |-> a, message |-> message, parents |-> p, past |-> Past(p), tree |-> x, sides |-> y]
  BY <1>3
<1>6. IsCommit(d) /\ d.change = a
  BY <1>5, CommitIs
<1> QED BY <1>4, <1>6 DEF d

-----------------------------------------------------------------------------
\* What an operation does: the transaction is over and its session as it was, or the session is
\* rebased.
Advances(w, t, added, but) ==
  /\ operations' = operations + 1
  /\ \/ phase' = "over" /\ created' = {} /\ UNCHANGED sessionVars
     \/ /\ phase' = phase
        /\ \E r : /\ graph' = r.graph /\ history' = r.history
                  /\ Follows(graph, history, r, w, t, DOMAIN known \cup added, but)

\* An operation that was attempted has advanced the transaction, or ended it.
LEMMA Attempted ==
  ASSUME NEW w, NEW t, NEW s, NEW added, NEW but, NEW found, NEW op,
         found => Prepares(graph, history, s, w, t, DOMAIN known \cup added, but),
         Attempt(op, found, Rebase(s))
  PROVE  Advances(w, t, added, but)
<1> DEFINE r == Rebase(s)
<1>1. operations' = operations + 1
  BY DEF Attempt
<1>2. CASE found /\ r.ok
  <2>1. Follows(graph, history, r, w, t, DOMAIN known \cup added, but)
    BY <1>2, Rebased
  <2>2. CASE /\ graph' = r.graph /\ history' = r.history
             /\ phase' = phase
    <3> HIDE DEF r
    <3> QED BY <1>1, <2>1, <2>2 DEF Advances
  <2> HIDE DEF r
  <2> QED BY <1>1, <1>2, <2>2 DEF Attempt, r
<1>3. CASE ~(found /\ r.ok)
  <2>1. Refused
    BY <1>3 DEF Attempt
  <2> QED BY <1>1, <2>1 DEF Refused, RolledBack, Advances
<1> QED BY <1>2, <1>3

\* The same of one that may fail on the way.
LEMMA MayFail ==
  ASSUME NEW w, NEW t, NEW s, NEW added, NEW but, NEW found, NEW op, NEW fits, NEW f,
         found /\ ~fits => f.ok = FALSE,
         found /\ fits => Prepares(graph, history, s, w, t, DOMAIN known \cup added, but),
         Attempt(op, found, IF fits THEN Rebase(s) ELSE f)
  PROVE  Advances(w, t, added, but)
<1>1. CASE fits
  <2>1. Attempt(op, found, Rebase(s))
    BY <1>1
  <2> QED BY <1>1, <2>1, Attempted
<1>2. CASE ~fits
  <2>1. operations' = operations + 1 /\ Refused
    BY <1>2 DEF Attempt
  <2> QED BY <2>1 DEF Refused, RolledBack, Advances
<1> QED BY <1>1, <1>2

\* reword advances the transaction.
LEMMA RewordAdvances ==
  ASSUME NEW w, NEW t, Standing(w, t), NEW change \in DOMAIN known, RewordCommit(change)
  PROVE  Advances(w, t, {}, {})
<1> DEFINE n == Node(change)
           c == [CommitAt(change) EXCEPT !.message = <<NewMessage>>]
           s == Session(Replace(graph, n, Pick(c)), UpdateMapping(history, CommitAt(change), c))
           found == Found({change})
<1>1. ASSUME found PROVE Prepares(graph, history, s, w, t, DOMAIN known \cup {}, {})
  <2>1. CommitNode(w, n, change)
    BY <1>1, NodeIs DEF Found
  <2>2. IsCommit(c) /\ c.change = CommitAt(change).change
    BY <2>1, MessageOf DEF CommitNode, CommitAt
  <2> HIDE DEF c
  <2>3. MayRewrite(graph, w, n, c)
    BY <2>1, <2>2 DEF MayRewrite, CommitNode, CommitAt
  <2>4. Workspace(graph, w, t, {}) /\ SameChanges(history) /\ Named(graph, DOMAIN known)
    BY DEF Standing
  <2>5. Prepares(graph, history, s, w, t, DOMAIN known, {})
    BY <2>3, <2>4, RewrittenPrepares DEF CommitAt
  <2>6. DOMAIN known \cup {} = DOMAIN known
    OBVIOUS
  <2> HIDE DEF s
  <2> QED BY <2>5, <2>6
<1> HIDE DEF s, found
<1>2. PICK op : Attempt(op, found, Rebase(s))
  BY DEF RewordCommit, s, found
<1> QED BY <1>1, <1>2, Attempted

\* A graph with no commits but those of the present one may be rebased.
LEMMA KeptAdvances ==
  ASSUME NEW w, NEW t, Standing(w, t), NEW d, NEW found, NEW op,
         found => Workspace(d, w, t, {}) /\ d.step[w] = graph.step[w] /\ Keeps(graph, d, {}),
         Attempt(op, found, Edited(d))
  PROVE  Advances(w, t, {}, {})
<1> DEFINE s == Session(d, history)
<1>1. ASSUME found PROVE Prepares(graph, history, s, w, t, DOMAIN known \cup {}, {})
  BY <1>1, KeptPrepares DEF Standing
<1>2. Attempt(op, found, Rebase(s))
  BY DEF Edited
<1> HIDE DEF s
<1> QED BY <1>1, <1>2, Attempted

\* So does a rebase with nothing edited, after a rejected change.
LEMMA RejectedAdvances ==
  ASSUME NEW w, NEW t, Standing(w, t), NEW found, ReportRejected(found)
  PROVE  Advances(w, t, {}, {})
<1>1. Workspace(graph, w, t, {}) /\ Keeps(graph, graph, {})
  BY DEF Standing, Keeps
<1>2. PICK op : Attempt(op, found, Edited(graph))
  BY DEF ReportRejected
<1> QED BY <1>1, <1>2, KeptAdvances

\* A sequence reversed is one over the same set.
LEMMA ReverseIs ==
  ASSUME NEW S, NEW s \in Seq(S)
  PROVE  Reverse(s) \in Seq(S)
  BY DEF Reverse

\* move_commits advances the transaction.
LEMMA MoveAdvances ==
  ASSUME NEW w, NEW t, Standing(w, t), NEW changes \in SUBSET DOMAIN known,
         NEW anchor \in Anchors(changes), NEW side \in Sides, MoveCommits(changes, anchor, side)
  PROVE  Advances(w, t, {}, {})
<1> DEFINE nodes == {Node(c) : c \in changes}
           ordered == PostOrder(graph, Top(graph), nodes)
           sequence == IF side = "Above" THEN Reverse(ordered) ELSE ordered
           d == MoveAll(graph, sequence, Node(anchor), side)
           found == Found(changes \cup {anchor})
<1>1. ASSUME found
      PROVE  Workspace(d, w, t, {}) /\ d.step[w] = graph.step[w] /\ Keeps(graph, d, {})
  <2>1. Workspace(graph, w, t, {})
    BY DEF Standing
  <2>2. /\ NodesOf(anchor) # {} /\ \A c \in changes : NodesOf(c) # {}
        /\ anchor \in (DOMAIN known \cup Names(graph)) \ changes
    BY <1>1 DEF Found, Anchors
  <2>3. IsAnchor(graph, w, t, Node(anchor), side)
    BY <2>2, AnchorIs DEF MoveCommits
  <2>4. ASSUME NEW c \in changes PROVE Free(graph, w, Node(c)) /\ Node(c) # Node(anchor)
    BY <2>2, NodeIs, NodesDiffer DEF CommitNode
  <2>5. nodes \in SUBSET DOMAIN graph.parents /\ t \in DOMAIN graph.parents
    BY <2>1, <2>4, WorkspaceIs DEF Free
  <2>6. ordered \in Seq(nodes)
    <3> HIDE DEF nodes
    <3> QED BY <2>1, <2>5, PostOrderTyped, TopIs
  <2>7. \A n \in nodes : Free(graph, w, n) /\ n # Node(anchor)
    BY <2>4
  <2> HIDE DEF nodes, ordered
  <2>8. sequence \in Seq(nodes)
    BY <2>6, ReverseIs
  <2> HIDE DEF sequence
  <2>9. sequence \in Seq(ToSet(sequence)) /\ ToSet(sequence) \subseteq nodes
    BY <2>8, SeqFacts, SeqOfThose
  <2>10. Workspace(d, w, t, {}) /\ d.step = graph.step
    BY <2>1, <2>3, <2>7, <2>9, MovedIs
  <2> HIDE DEF d
  <2> QED BY <2>10 DEF Keeps, Picks, IsPick
<1>2. PICK op : Attempt(op, found, Edited(d))
  BY DEF MoveCommits
<1> HIDE DEF d, found
<1> QED BY <1>1, <1>2, KeptAdvances

\* discard_commits advances the transaction.
LEMMA DiscardAdvances ==
  ASSUME NEW w, NEW t, Standing(w, t), NEW changes \in SUBSET DOMAIN known, DiscardCommits(changes)
  PROVE  Advances(w, t, {}, {})
<1> DEFINE nodes == {Node(c) : c \in changes}
           d == DiscardAll(graph, nodes)
           found == Found(changes)
<1>1. ASSUME found
      PROVE  Workspace(d, w, t, {}) /\ d.step[w] = graph.step[w] /\ Keeps(graph, d, {})
  <2>1. Workspace(graph, w, t, {}) /\ w \in DOMAIN graph.parents /\ DOMAIN graph.step = DOMAIN graph.parents
    BY WorkspaceIs DEF Standing
  <2>2. ASSUME NEW c \in changes PROVE Free(graph, w, Node(c))
    BY <1>1, NodeIs DEF CommitNode, Found
  <2>3. \A n \in nodes : Free(graph, w, n)
    BY <2>2
  <2> HIDE DEF nodes
  <2>4. Workspace(d, w, t, {}) /\ Without(graph, nodes, d)
    BY <2>1, <2>3, DiscardedIs
  <2>5. w \notin nodes
    BY <2>3 DEF Free
  <2>6. NoStep.kind = "none"
    BY Kinds
  <2> HIDE DEF d
  <2>7. Keeps(graph, d, {})
    BY <2>1, <2>4, <2>6 DEF Without, Keeps, Picks, IsPick
  <2> QED BY <2>1, <2>4, <2>5, <2>7 DEF Without
<1>2. PICK op : Attempt(op, found, Edited(d))
  BY DEF DiscardCommits
<1> HIDE DEF d, found
<1> QED BY <1>1, <1>2, KeptAdvances

\* remove_reference advances the transaction.
LEMMA RemoveAdvances ==
  ASSUME NEW w, NEW t, Standing(w, t), NEW name \in Names(graph), RemoveReference(name)
  PROVE  Advances(w, t, {}, {})
<1> DEFINE n == Node(name)
           d == Replace(graph, n, NoStep)
           found == Found({name})
<1>1. ASSUME found
      PROVE  Workspace(d, w, t, {}) /\ d.step[w] = graph.step[w] /\ Keeps(graph, d, {})
  <2>1. Workspace(graph, w, t, {}) /\ w \in DOMAIN graph.parents /\ DOMAIN graph.step = DOMAIN graph.parents
    BY WorkspaceIs DEF Standing
  <2>2. IsAnchor(graph, w, t, n, "Below")
    BY <1>1, AnchorIs DEF Found, Sides, AboveTop
  <2>3. NoStep.kind = "none"
    BY Kinds
  <2>4. MayReplace(graph, w, t, n, NoStep)
    BY <2>2 DEF MayReplace, IsAnchor, IsStep
  <2> HIDE DEF n
  <2>5. /\ d.step[n] = NoStep /\ DOMAIN d.step = DOMAIN graph.step
        /\ \A m \in DOMAIN graph.parents \ {n} : d.step[m] = graph.step[m]
    BY <2>1, <2>4, ReplacedSteps
  <2>6. Workspace(d, w, t, {})
    <3>1. Workspace(d, w, t, IF NoStep = NoStep THEN {} \ {n} ELSE {})
      BY <2>1, <2>4, ReplacedStays
    <3>2. (IF NoStep = NoStep THEN {} \ {n} ELSE {}) = {}
      OBVIOUS
    <3> QED BY <3>1, <3>2
  <2> HIDE DEF d
  <2>7. Keeps(graph, d, {})
    BY <2>1, <2>3, <2>5 DEF Keeps, Picks, IsPick
  <2> QED BY <2>1, <2>2, <2>5, <2>6, <2>7 DEF IsAnchor
<1>2. PICK op : Attempt(op, found, Edited(d))
  BY DEF RemoveReference
<1> HIDE DEF d, found
<1> QED BY <1>1, <1>2, KeptAdvances

\* An attempt that leaves the transaction open has succeeded.
LEMMA Succeeded ==
  ASSUME NEW op, NEW found, NEW e, Attempt(op, found, e), phase' = "open"
  PROVE  found /\ e.ok /\ graph' = e.graph /\ history' = e.history /\ phase = "open"
  BY DEF Attempt, Refused, RolledBack

\* Two edits one after the other, the first of them rebased, are one.
LEMMA PreparesOn ==
  ASSUME NEW g, NEW h, NEW s, NEW r, NEW w, NEW t, NEW ids, NEW but,
         Carries(g, h, s, w, {}), Prepares(s.graph, s.history, r, w, t, ids, but)
  PROVE  Prepares(g, h, r, w, t, ids, but)
<1>1. {} \cup but = but
  OBVIOUS
<1> QED BY <1>1, CarriesOn DEF Prepares

\* A commit squashed into c, and a commit of another tree.
Squashed(c, parents, message, tree) == [OnParents(c, parents) EXCEPT !.message = message, !.tree = tree]
WithTree(c, tree) == [c EXCEPT !.tree = tree]

\* A commit that another one was squashed into is one of its own change.
LEMMA SquashedIs ==
  ASSUME NEW c, IsCommit(c), NEW parents, NEW message, NEW tree
  PROVE  IsCommit(Squashed(c, parents, message, tree)) /\ Squashed(c, parents, message, tree).change = c.change
<1> DEFINE d == Squashed(c, parents, message, tree)
<1>1. PICK a, m, p, q, x, y : c = [change |-> a, message |-> m, parents |-> p, past |-> q, tree |-> x, sides |-> y]
  BY DEF IsCommit
<1>2. c \in [change : {a}, message : {m}, parents : {p}, past : {q}, tree : {x}, sides : {y}]
  BY <1>1
<1>3. OnParents(c, parents) \in
        [change : {a}, message : {m}, parents : {parents}, past : {Past(parents)}, tree : {x}, sides : {y}]
  BY <1>2 DEF OnParents
<1>4. d \in [change : {a}, message : {message}, parents : {parents}, past : {Past(parents)}, tree : {tree}, sides : {y}]
  BY <1>3 DEF Squashed
<1>5. c.change = a
  BY <1>1
<1> HIDE <1>1
<1> HIDE DEF d
<1>6. d = [change |-> a, message |-> message, parents |-> parents, past |-> Past(parents), tree |-> tree, sides |-> y]
  BY <1>4
<1>7. IsCommit(d) /\ d.change = a
  BY ONLY <1>6, CommitIs
<1> QED BY <1>5, <1>7 DEF d

\* A commit with another tree, of its own change and on its own parents.
LEMMA WithTreeIs ==
  ASSUME NEW c, IsCommit(c), NEW tree
  PROVE  IsCommit(WithTree(c, tree)) /\ WithTree(c, tree).change = c.change /\ WithTree(c, tree).parents = c.parents
  BY TreeOf DEF WithTree

\* squash_commits advances the transaction.
LEMMA SquashAdvances ==
  ASSUME NEW w, NEW t, Standing(w, t), NEW subject \in DOMAIN known, NEW target \in DOMAIN known,
         subject # target, SquashCommits(subject, target)
  PROVE  Advances(w, t, {}, {})
<1> DEFINE s == Node(subject)
           n == Node(target)
           from == CommitAt(subject)
           into == CommitAt(target)
           base == BaseTree(from)
           pruned == s \in Ancestors(graph, n)
           tree == IF pruned THEN into.tree ELSE Merge(base, into.tree, from.tree)
           without == DiscardOne(graph, s)
           parents == without.parents[n]
           parent(i) == IF IsPick(without, parents[i]) THEN without.step[parents[i]].commit
                        ELSE Target(without, parents[i])
           squashed == [OnParents(into, [i \in DOMAIN parents |-> parent(i)])
                          EXCEPT !.message = @ \o from.message, !.tree = tree]
           session == Session(Replace(without, n, Pick(squashed)), UpdateMapping(history, into, squashed))
           fits == /\ pruned \/ Clashes(base, into.tree, from.tree) = {}
                   /\ \A p \in ToSet(parents) : without.step[p] # NoStep
           found == Found({subject, target})
<1>1. PICK op : Attempt(op, found, IF fits THEN Rebase(session) ELSE Failed(session))
  BY Zenon DEF SquashCommits
<1>2. Failed(session).ok = FALSE
  BY DEF Failed, Session
<1>3. ASSUME found PROVE Prepares(graph, history, session, w, t, DOMAIN known \cup {}, {})
  <2>1. /\ Workspace(graph, w, t, {}) /\ w \in DOMAIN graph.parents /\ DOMAIN graph.step = DOMAIN graph.parents
        /\ SameChanges(history) /\ Named(graph, DOMAIN known)
    BY WorkspaceIs DEF Standing
  <2>2. CommitNode(w, s, subject) /\ CommitNode(w, n, target) /\ s # n
    BY <1>3, NodeIs DEF Found, CommitNode
  <2>3. IsCommit(squashed) /\ squashed.change = into.change
    <3>1. IsCommit(into)
      BY <2>2 DEF CommitNode, CommitAt
    <3> DEFINE ps == [i \in DOMAIN parents |-> parent(i)]
               message == OnParents(into, ps).message \o from.message
    <3>2. squashed = Squashed(into, ps, message, tree)
      BY DEF Squashed
    <3> HIDE DEF squashed, ps, message, tree, into
    <3> QED BY <3>1, <3>2, SquashedIs
  <2> HIDE DEF squashed
  <2>4. Free(graph, w, s)
    BY <2>2 DEF CommitNode
  <2>5. /\ Workspace(without, w, t, {})
        /\ without.step[s] = NoStep
        /\ \A m \in DOMAIN graph.parents \ {s} : without.step[m] = graph.step[m]
        /\ DOMAIN without.parents = DOMAIN graph.parents
        /\ DOMAIN without.step = DOMAIN graph.step
    BY <2>1, <2>4, DiscardOneIs
  <2>6. NoStep.kind = "none"
    BY Kinds
  <2> HIDE DEF without, n, s
  <2>7. without.step[n] = graph.step[n] /\ without.step[w] = graph.step[w] /\ Keeps(graph, without, {})
    BY <2>1, <2>2, <2>5, <2>6 DEF CommitNode, Free, Keeps, Picks, IsPick
  <2>8. Prepares(graph, history, Session(without, history), w, t, DOMAIN known \cup {}, {})
    BY <2>1, <2>5, <2>7, KeptPrepares
  <2>9. Carries(graph, history, Session(without, history), w, {}) /\ Named(without, DOMAIN known)
    <3>1. Session(without, history).graph = without /\ DOMAIN known \cup {} = DOMAIN known
      BY DEF Session
    <3> QED BY <2>8, <3>1 DEF Prepares
  <2>10. into = without.step[n].commit
    BY <2>7 DEF CommitAt, n
  <2>11. MayRewrite(without, w, n, squashed)
    BY <2>2, <2>3, <2>5, <2>7, <2>10 DEF MayRewrite, CommitNode, Free
  <2> HIDE DEF into
  <2>12. Prepares(without, history, session, w, t, DOMAIN known, {})
    BY <2>1, <2>5, <2>9, <2>10, <2>11, RewrittenPrepares
  <2> DEFINE first == Session(without, history)
  <2>13. first.graph = without /\ first.history = history
    BY DEF Session
  <2> HIDE DEF session, first
  <2>14. Prepares(graph, history, session, w, t, DOMAIN known, {})
    <3>1. Prepares(first.graph, first.history, session, w, t, DOMAIN known, {})
      BY <2>12, <2>13
    <3>2. Carries(graph, history, first, w, {})
      BY <2>9 DEF first
    <3> QED BY <3>1, <3>2, PreparesOn
  <2>15. DOMAIN known \cup {} = DOMAIN known
    OBVIOUS
  <2> QED BY <2>14, <2>15
<1> HIDE DEF session, found, fits
<1> QED BY <1>1, <1>2, <1>3, MayFail, Zenon

\* Amending a commit rewrites it without telling the history: all ids but its own lead where
\* they led.
LEMMA AmendPrepares ==
  ASSUME NEW w, NEW t, Standing(w, t), NEW change \in DOMAIN known, NodesOf(change) # {}, NEW tree,
         NEW c, c = WithTree(CommitAt(change), tree)
  PROVE  /\ MayRewrite(graph, w, Node(change), c)
         /\ c.change = change
         /\ Prepares(graph, history, Session(Replace(graph, Node(change), Pick(c)), history),
                     w, t, DOMAIN known, {change})
<1> DEFINE n == Node(change)
           s == Session(Replace(graph, n, Pick(c)), history)
<1>1. CommitNode(w, n, change)
  BY NodeIs
<1>2. IsCommit(c) /\ c.change = CommitAt(change).change
  BY <1>1, WithTreeIs DEF CommitNode, CommitAt
<1>3. MayRewrite(graph, w, n, c) /\ c.change = change
  BY <1>1, <1>2 DEF MayRewrite, CommitNode, CommitAt
<1>4. Workspace(graph, w, t, {}) /\ SameChanges(history) /\ Named(graph, DOMAIN known)
  BY DEF Standing
<1>5. Prepares(graph, history, s, w, t, DOMAIN known, {c.change})
  BY <1>3, <1>4, ReplacedPrepares
<1> HIDE DEF s
<1>6. Prepares(graph, history, s, w, t, DOMAIN known, {change})
  BY <1>3, <1>5
<1> QED BY <1>3, <1>6 DEF s

\* A commit of the session r that followed the graph g is the client's to rewrite.
LEMMA FollowedNode ==
  ASSUME NEW g, NEW r, NEW w, NEW t, Workspace(r.graph, w, t, {}), Alike(g, r.graph),
         NEW n, Free(g, w, n)
  PROVE  Free(r.graph, w, n) /\ IsCommit(r.graph.step[n].commit)
<1>1. /\ r.graph.parents = g.parents /\ DOMAIN r.graph.step = DOMAIN g.step
      /\ \A m \in DOMAIN g.step : r.graph.step[m].kind = g.step[m].kind
  BY DEF Alike
<1>2. /\ DOMAIN r.graph.parents = DOMAIN r.graph.step
      /\ \A m \in DOMAIN r.graph.parents : IsStep(r.graph.step[m])
  BY WorkspaceIs
<1>3. n \in DOMAIN r.graph.parents \ {1, w} /\ r.graph.step[n].kind = "pick"
  BY <1>1, <1>2 DEF Free
<1> QED BY <1>2, <1>3, KindOf DEF Free

\* move_changes_between_commits, with its two rebases, advances the transaction.
LEMMA MoveChangesAdvances ==
  ASSUME NEW w, NEW t, Standing(w, t), NEW source \in DOMAIN known, NEW target \in DOMAIN known,
         source # target, NEW file \in File, MoveChanges(source, target, file)
  PROVE  Advances(w, t, {}, {})
<1> DEFINE from == CommitAt(source)
           before == Head(from.parents).tree
           without == [from EXCEPT !.tree[file] = before[file]]
           m == Node(source)
           n == Node(target)
           first == Session(Replace(graph, m, Pick(without)), UpdateMapping(history, from, without))
           taken == Rebase(first)
           into == taken.graph.step[n].commit
           with == [into EXCEPT !.tree = Merge(without.tree, from.tree, @)]
           session == [taken EXCEPT !.graph = Replace(@, n, Pick(with)),
                                    !.history = UpdateMapping(@, into, with)]
           fits == /\ ~IsConflicted(from) /\ taken.ok /\ ~IsConflicted(into)
                   /\ Clashes(without.tree, from.tree, into.tree) = {}
           found == Found({source, target})
<1>1. PICK op : Attempt(op, found, IF fits THEN Rebase(session) ELSE Failed(session))
  BY ZenonT(40) DEF MoveChanges
<1>2. ASSUME found
      PROVE  /\ Failed(session).ok = FALSE
             /\ fits => Prepares(graph, history, session, w, t, DOMAIN known \cup {}, {})
  <2>1. Workspace(graph, w, t, {}) /\ SameChanges(history) /\ Named(graph, DOMAIN known)
    BY DEF Standing
  <2>2. CommitNode(w, m, source) /\ CommitNode(w, n, target) /\ m # n
    BY <1>2, NodeIs DEF Found, CommitNode
  <2>3. IsCommit(without) /\ without.change = from.change
    <3>1. without = WithTree(from, [from.tree EXCEPT ![file] = before[file]])
      BY DEF WithTree
    <3>2. IsCommit(from)
      BY <2>2 DEF CommitNode, CommitAt
    <3> HIDE DEF without
    <3> QED BY <3>1, <3>2, WithTreeIs
  <2> HIDE DEF without
  <2>4. MayRewrite(graph, w, m, without)
    BY <2>2, <2>3 DEF MayRewrite, CommitNode, CommitAt
  <2>5. Prepares(graph, history, first, w, t, DOMAIN known, {})
    BY <2>1, <2>4, RewrittenPrepares DEF CommitAt
  <2>6. Editing(first, first.graph, w, t)
    BY <2>5 DEF Prepares
  <2>7. first.graph = Replace(graph, m, Pick(without))
    BY DEF Session
  <2>8. first.graph.parents = graph.parents /\ Rewrites(graph, first.graph, m)
    BY <2>1, <2>4, <2>7, RewrittenIs
  <2> HIDE DEF first
  <2>9. Free(first.graph, w, n)
    BY <2>2, <2>8 DEF CommitNode, Free, Rewrites
  <2>10. Editing(taken, first.graph, w, t)
    BY <2>6, RebaseIs
  <2> HIDE DEF taken
  <2> DEFINE d == Replace(taken.graph, n, Pick(with))
             k == UpdateMapping(taken.history, into, with)
  <2>11. /\ session = [graph |-> d, history |-> k, ok |-> taken.ok]
         /\ Failed(session).ok = FALSE
    <3> HIDE DEF with, into
    <3>1. taken = [graph |-> taken.graph, history |-> taken.history, ok |-> taken.ok]
      BY <2>10 DEF Editing
    <3>2. session = [taken EXCEPT !.graph = d, !.history = k]
      OBVIOUS
    <3> HIDE DEF d, k
    <3>3. session = [graph |-> d, history |-> k, ok |-> taken.ok]
      BY <3>1, <3>2, SessionWith, Zenon
    <3> HIDE DEF session
    <3>4. session = [graph |-> session.graph, history |-> session.history, ok |-> session.ok]
      BY <3>3
    <3>5. Failed(session).ok = FALSE
      BY <3>4, SessionWith, Zenon DEF Failed
    <3> QED BY <3>3, <3>5
  <2>12. ASSUME fits PROVE Prepares(graph, history, session, w, t, DOMAIN known \cup {}, {})
    <3>1. taken.ok = TRUE
      <4>1. taken.ok \in BOOLEAN /\ taken.ok
        <5>1. taken.ok
          BY <2>12
        <5> QED BY <5>1
      <4> QED BY <4>1
    <3>2. Follows(graph, history, taken, w, t, DOMAIN known, {}) /\ Alike(first.graph, taken.graph)
      BY <2>5, <3>1, Rebased DEF taken
    <3>3. Workspace(taken.graph, w, t, {}) /\ SameChanges(taken.history) /\ Named(taken.graph, DOMAIN known)
          /\ Carries(graph, history, taken, w, {})
      BY <3>2 DEF Follows
    <3>4. Free(taken.graph, w, n) /\ IsCommit(into)
      BY <2>9, <3>2, <3>3, FollowedNode
    <3>5. IsCommit(with) /\ with.change = into.change
      <4>1. with = WithTree(into, Merge(without.tree, from.tree, into.tree))
        BY DEF WithTree
      <4> HIDE DEF with, into
      <4> QED BY <3>4, <4>1, WithTreeIs
    <3> HIDE DEF with
    <3>6. MayRewrite(taken.graph, w, n, with)
      BY <3>4, <3>5 DEF MayRewrite
    <3> DEFINE last == Session(d, k)
    <3>7. Prepares(taken.graph, taken.history, last, w, t, DOMAIN known, {})
      BY <3>3, <3>6, RewrittenPrepares
    <3>8. session = last
      <4> HIDE DEF d, k, session
      <4> QED BY <2>11, <3>1 DEF Session
    <3> HIDE DEF session, last
    <3>9. Prepares(graph, history, session, w, t, DOMAIN known, {})
      BY <3>3, <3>7, <3>8, PreparesOn
    <3>10. DOMAIN known \cup {} = DOMAIN known
      OBVIOUS
    <3> QED BY <3>9, <3>10
  <2> QED BY <2>11, <2>12
<1> HIDE DEF session, found, fits
<1> QED BY <1>1, <1>2, MayFail, ZenonT(40)

-----------------------------------------------------------------------------
\* What may be inserted, with the id that the client learns.
LEMMA AddAdvances ==
  ASSUME NEW w, NEW t, Standing(w, t), NEW s, MayAdd(graph, s),
         NEW added, s.kind = "pick" => s.commit.change \in added,
         NEW anchor \in DOMAIN known \cup Names(graph), NEW side \in Sides,
         ~AboveTop(anchor, side), NEW op, NEW n, n = Len(graph.step) + 1,
         Attempt(op, Found({anchor}), Edited(Insert(AddStep(graph, s, <<>>), n, Node(anchor), side)))
  PROVE  /\ Advances(w, t, added, added)
         /\ phase' = "open" /\ s.kind = "pick" => graph'.step[n].commit.change = s.commit.change
<1> DEFINE d == Insert(AddStep(graph, s, <<>>), n, Node(anchor), side)
           k == Session(d, history)
           found == Found({anchor})
<1>1. ASSUME found
      PROVE  /\ Workspace(d, w, t, {}) /\ d.step[w] = graph.step[w] /\ Keeps(graph, d, added)
             /\ n \in DOMAIN d.step /\ d.step[n] = s
  <2>1. Workspace(graph, w, t, {}) /\ w \in DOMAIN graph.step
    BY WorkspaceIs DEF Standing
  <2>2. IsAnchor(graph, w, t, Node(anchor), side)
    BY <1>1, AnchorIs DEF Found
  <2>3. /\ Workspace(d, w, t, {}) /\ DOMAIN d.step = DOMAIN graph.step \cup {n}
        /\ d.step[n] = s /\ \A m \in DOMAIN graph.step : d.step[m] = graph.step[m]
    BY <2>1, <2>2, AddedIs
  <2> HIDE DEF d
  <2>4. Keeps(graph, d, added)
    BY <2>3 DEF Keeps, Picks, IsPick
  <2> QED BY <2>1, <2>3, <2>4
<1> HIDE DEF d
<1>2. ASSUME found PROVE Prepares(graph, history, k, w, t, DOMAIN known \cup added, added)
  BY <1>1, <1>2, KeptPrepares DEF Standing
<1>3. Attempt(op, found, Rebase(k))
  BY DEF Edited, d
<1>4. k.graph = d
  BY DEF Session
<1> HIDE DEF k, found
<1>5. Advances(w, t, added, added)
  BY <1>2, <1>3, Attempted
<1>6. ASSUME phase' = "open", s.kind = "pick" PROVE graph'.step[n].commit.change = s.commit.change
  <2>1. found /\ Rebase(k).ok /\ graph' = Rebase(k).graph
    BY <1>3, <1>6, Succeeded
  <2>2. Alike(d, Rebase(k).graph)
    BY <1>2, <1>4, <2>1, Rebased
  <2>3. n \in DOMAIN d.step /\ d.step[n] = s
    BY <1>1, <2>1
  <2> QED BY <1>6, <2>1, <2>2, <2>3 DEF Alike
<1> QED BY <1>5, <1>6

\* A commit of a new id may be added, untracked.
LEMMA MayAddCommit ==
  ASSUME NEW w, NEW t, Standing(w, t), NEW id \in {BlankCommit, CreatedCommit} \ DOMAIN known,
         NEW c, IsCommit(c), c.change = id
  PROVE  /\ MayAdd(graph, UntrackedPick(c))
         /\ UntrackedPick(c).kind = "pick" /\ UntrackedPick(c).commit = c
<1> DEFINE s == UntrackedPick(c)
<1>1. s.kind = "pick" /\ s.commit = c
  BY Kinds
<1>2. s = UntrackedPick(s.commit)
  <2>1. s.commit = c
    BY <1>1
  <2> QED BY <2>1
<1> HIDE DEF s
<1>3. IsStep(s)
  BY <1>1, <1>2 DEF IsStep
<1>4. NoStep.kind = "none"
  BY Kinds
<1>5. Reference("workspace").kind = "reference"
  BY Kinds
<1>6. \A n \in DOMAIN graph.step : graph.step[n].kind = "pick" => graph.step[n].commit.change # c.change
  BY AddedAssumption DEF Standing, Named, Picks, IsPick
<1>7. MayAdd(graph, s)
  BY <1>1, <1>3, <1>4, <1>5, <1>6 DEF MayAdd
<1> QED BY <1>1, <1>7 DEF s

\* A new reference may be added.
LEMMA MayAddReference ==
  ASSUME NEW g
  PROVE  MayAdd(g, Reference(NewReference)) /\ Reference(NewReference).kind # "pick"
<1> DEFINE s == Reference(NewReference)
<1>1. s.kind = "reference" /\ s.name = NewReference
  BY Kinds
<1>2. s = Reference(s.name)
  <2>1. s.name = NewReference
    BY <1>1
  <2> QED BY <2>1
<1> HIDE DEF s
<1>3. NoStep.kind = "none"
  BY Kinds
<1>4. Reference("workspace").name = "workspace"
  BY Kinds
<1>5. MayAdd(g, s) /\ s.kind # "pick"
  BY <1>1, <1>2, <1>3, <1>4, AddedAssumption DEF MayAdd, IsStep
<1> QED BY <1>5 DEF s

\* insert_blank_commit advances the transaction by the blank commit.
LEMMA InsertBlankAdvances ==
  ASSUME NEW w, NEW t, Standing(w, t), BlankCommit \notin DOMAIN known,
         NEW anchor \in Anchors({}), NEW side \in Sides, InsertBlankCommit(anchor, side)
  PROVE  /\ Advances(w, t, {BlankCommit}, {BlankCommit})
         /\ phase' = "open" => graph'.step[Len(graph.step) + 1].commit.change = BlankCommit
<1> DEFINE c == NewCommit(BlankCommit, <<>>, <<>>, EmptyTree)
           s == UntrackedPick(c)
           n == Len(graph.step) + 1
<1>1. IsCommit(c) /\ c.change = BlankCommit
  BY NewCommitIs
<1> HIDE DEF c
<1>2. MayAdd(graph, s) /\ s.kind = "pick" /\ s.commit.change = BlankCommit
  BY <1>1, MayAddCommit
<1>3. PICK op : Attempt(op, Found({anchor}), Edited(Insert(AddStep(graph, s, <<>>), n, Node(anchor), side)))
  BY DEF InsertBlankCommit, c
<1>4. anchor \in DOMAIN known \cup Names(graph) /\ ~AboveTop(anchor, side)
  BY DEF Anchors, InsertBlankCommit
<1> HIDE DEF s
<1> QED BY <1>2, <1>3, <1>4, AddAdvances

\* commit_create advances the transaction by the commit it makes, or, the change rejected, by
\* none.
LEMMA CreateAdvances ==
  ASSUME NEW w, NEW t, Standing(w, t), CreatedCommit \notin DOMAIN known,
         NEW anchor \in Anchors({}), NEW side \in Sides, NEW file \in File,
         CreateCommit(anchor, side, file)
  PROVE  \/ /\ Advances(w, t, {CreatedCommit}, {CreatedCommit})
            /\ phase' = "open" =>
                 /\ known' = With(known, CreatedCommit, graph'.step[Len(graph.step) + 1].commit)
                 /\ graph'.step[Len(graph.step) + 1].commit.change = CreatedCommit
                 /\ UNCHANGED <<refs, created>>
         \/ Advances(w, t, {}, {}) /\ Unaffected
<1> DEFINE at == Node(anchor)
           parent == CASE ~IsPick(graph, at) -> Target(graph, at)
                       [] IsPick(graph, at) /\ side = "Above" -> CommitAt(anchor)
                       [] OTHER -> Head(CommitAt(anchor).parents)
           c == NewCommit(CreatedCommit, <<CreatedCommit>>, <<parent>>, WithChange(parent.tree, file))
           s == UntrackedPick(c)
           n == Len(graph.step) + 1
           found == Found({anchor})
<1>1. IsCommit(c) /\ c.change = CreatedCommit
  BY NewCommitIs
<1>2. ~AboveTop(anchor, side) /\ anchor \in DOMAIN known \cup Names(graph)
  BY DEF CreateCommit, Anchors
<1>3. CASE ReportRejected(found)
  BY <1>3, RejectedAdvances DEF ReportRejected
<1>4. CASE ~ReportRejected(found)
  <2>1. /\ \E op : Attempt(op, found, Edited(Insert(AddStep(graph, s, <<>>), n, Node(anchor), side)))
        /\ phase' = "open" => /\ known' = With(known, CreatedCommit, graph'.step[n].commit)
                              /\ UNCHANGED <<refs, created>>
    BY <1>4 DEF CreateCommit
  <2> HIDE DEF c
  <2>2. MayAdd(graph, s) /\ s.kind = "pick" /\ s.commit.change = CreatedCommit
    BY <1>1, MayAddCommit
  <2> HIDE DEF s
  <2>3. /\ Advances(w, t, {CreatedCommit}, {CreatedCommit})
        /\ phase' = "open" => graph'.step[n].commit.change = CreatedCommit
    BY <1>2, <2>1, <2>2, AddAdvances
  <2> QED BY <2>1, <2>3
<1> QED BY <1>3, <1>4

\* create_reference advances the transaction.
LEMMA CreateReferenceAdvances ==
  ASSUME NEW w, NEW t, Standing(w, t), NEW anchor \in Names(graph), NEW side \in Sides,
         ~AboveTop(anchor, side), CreateReference(anchor, side)
  PROVE  Advances(w, t, {}, {})
<1> DEFINE s == Reference(NewReference)
           n == Len(graph.step) + 1
<1>1. MayAdd(graph, s) /\ s.kind # "pick"
  BY MayAddReference
<1>2. PICK op : Attempt(op, Found({anchor}), Edited(Insert(AddStep(graph, s, <<>>), n, Node(anchor), side)))
  BY DEF CreateReference
<1> HIDE DEF s
<1> QED BY <1>1, <1>2, AddAdvances

\* What is told the client leaves it a name for every commit.
Tells(added) ==
  /\ DOMAIN known' = DOMAIN known \cup added
  /\ \A id \in DOMAIN known' : known'[id].change = id /\ id \notin {"target", "workspace"}

\* A transaction that has advanced, the client told of it, stands as before.
LEMMA StandingOn ==
  ASSUME NEW w, NEW t, Standing(w, t), phase = "open", NEW added, NEW but, Advances(w, t, added, but),
         phase' = "open" => Tells(added)
  PROVE  /\ Standing(w, t)'
         /\ Grown(graph) => Grown(graph)'
<1>1. CASE UNCHANGED sessionVars
  BY <1>1 DEF sessionVars, Standing
<1>2. CASE phase' = "open" /\ ~UNCHANGED sessionVars
  <2>1. PICK r : /\ graph' = r.graph /\ history' = r.history
                 /\ Follows(graph, history, r, w, t, DOMAIN known \cup added, but)
    BY <1>2 DEF Advances
  <2>2. /\ Workspace(graph', w, t, {}) /\ SameChanges(history') /\ Grown(graph')
        /\ Named(graph', DOMAIN known \cup added)
    BY <2>1 DEF Follows
  <2> QED BY <1>2, <2>2 DEF Tells, Standing
<1> QED BY <1>1, <1>2 DEF Advances

\* The client need not be told anything if no commit was added.
LEMMA TellsOfNone ==
  ASSUME NEW w, NEW t, Standing(w, t), known' = known
  PROVE  Tells({})
  BY DEF Tells, Standing

\* It is told of an added commit by its id.
LEMMA TellsOfOne ==
  ASSUME NEW w, NEW t, Standing(w, t), NEW id, id \notin {"target", "workspace"},
         NEW c, c.change = id, known' = With(known, id, c)
  PROVE  Tells({id})
  BY DEF Tells, Standing, With

\* It is told of a new id of a commit.
LEMMA TellsAnother ==
  ASSUME NEW w, NEW t, Standing(w, t), NEW id, NEW c, c.change = id, known' = [known EXCEPT ![id] = c]
  PROVE  Tells({})
  BY DEF Tells, Standing

-----------------------------------------------------------------------------
(* What the client is told, and the types.                                 *)

\* What an operation tells the client: nothing of commits, or the id of one that it made, ...
TellsNothing(w, t) == Advances(w, t, {}, {}) /\ (phase' = "open" => known' = known)
TellsNew(w, t, id) ==
  /\ Advances(w, t, {id}, {id})
  /\ phase' = "open" => \E c : c.change = id /\ known' = With(known, id, c)
\* ... or the one an amended commit has got.
TellsAmended(w, t, change) ==
  /\ Advances(w, t, {}, {change})
  /\ phase' = "open" => /\ known' = [known EXCEPT ![change] = graph'.step[Node(change)].commit]
                        /\ graph'.step[Node(change)].commit.change = change

\* commit_amend tells the new id, unless the change was rejected.
LEMMA AmendTells ==
  ASSUME NEW w, NEW t, Standing(w, t), NEW change \in DOMAIN known, NEW file \in File,
         AmendCommit(change, file)
  PROVE  TellsNothing(w, t) \/ TellsAmended(w, t, change)
<1> DEFINE e == [CommitAt(change) EXCEPT !.tree = WithChange(@, file)]
           c == WithTree(CommitAt(change), WithChange(CommitAt(change).tree, file))
           s == Session(Replace(graph, Node(change), Pick(c)), history)
           found == Found({change})
           fits == ~IsConflicted(CommitAt(change))
<1>1. CASE ReportRejected(found)
  BY <1>1, RejectedAdvances DEF ReportRejected, Unaffected, TellsNothing
<1>2. CASE ~ReportRejected(found)
  <2>1. /\ \E op : Attempt(op, found, IF fits THEN Rebase(s) ELSE Failed(s))
        /\ phase' = "open" => known' = [known EXCEPT ![change] = graph'.step[Node(change)].commit]
    <3>1. e = c
      BY DEF WithTree
    <3> HIDE DEF c
    <3>2. /\ \E op : Attempt(op, found, IF IsConflicted(CommitAt(change))
                                       THEN Failed(Session(Replace(graph, Node(change), Pick(e)), history))
                                       ELSE Rebase(Session(Replace(graph, Node(change), Pick(e)), history)))
          /\ phase' = "open" => known' = [known EXCEPT ![change] = graph'.step[Node(change)].commit]
      BY <1>2 DEF AmendCommit
    <3> HIDE DEF e
    <3> QED BY <3>1, <3>2
  <2>2. Failed(s).ok = FALSE
    BY DEF Failed, Session
  <2> HIDE DEF c
  <2>3. ASSUME found
        PROVE  /\ Prepares(graph, history, s, w, t, DOMAIN known \cup {}, {change})
               /\ s.graph.step[Node(change)].kind = "pick" /\ s.graph.step[Node(change)].commit.change = change
               /\ Node(change) \in DOMAIN s.graph.step
    <3>1. NodesOf(change) # {}
      BY <2>3 DEF Found
    <3>2. DOMAIN known \cup {} = DOMAIN known
      OBVIOUS
    <3>3. /\ Prepares(graph, history, s, w, t, DOMAIN known, {change})
          /\ MayRewrite(graph, w, Node(change), c) /\ c.change = change
      BY <3>1, AmendPrepares DEF c
    <3>4. Rewrites(graph, s.graph, Node(change)) /\ s.graph.step[Node(change)].commit = c
      <4>1. s.graph = Replace(graph, Node(change), Pick(c))
        BY DEF Session
      <4> HIDE DEF s
      <4> QED BY <3>3, <4>1, RewrittenIs DEF Standing
    <3> HIDE DEF s
    <3> QED BY <3>2, <3>3, <3>4 DEF Rewrites
  <2> HIDE DEF s, found
  <2>4. Advances(w, t, {}, {change})
    <3> HIDE DEF fits
    <3> QED BY <2>1, <2>2, <2>3, MayFail
  <2>5. ASSUME phase' = "open" PROVE graph'.step[Node(change)].commit.change = change
    <3>1. PICK op : Attempt(op, found, IF fits THEN Rebase(s) ELSE Failed(s))
      BY <2>1
    <3>2. found /\ graph' = Rebase(s).graph /\ Rebase(s).ok
      <4> HIDE DEF fits
      <4> QED BY <2>2, <2>5, <3>1, Succeeded
    <3>3. Alike(s.graph, Rebase(s).graph)
      BY <2>3, <3>2, Rebased
    <3> QED BY <2>3, <3>2, <3>3 DEF Alike
  <2> QED BY <2>1, <2>4, <2>5 DEF TellsAmended
<1> QED BY <1>1, <1>2

\* Whatever an operation is, it tells the client nothing, of a new commit, or of the new id of
\* an amended one.
LEMMA OperationTells ==
  ASSUME NEW w, NEW t, Standing(w, t), Operation
  PROVE  \/ TellsNothing(w, t)
         \/ \E id \in {BlankCommit, CreatedCommit} \ DOMAIN known : TellsNew(w, t, id)
         \/ \E change \in DOMAIN known, file \in File :
              AmendCommit(change, file) /\ TellsAmended(w, t, change)
<1>1. ASSUME NEW changes \in SUBSET DOMAIN known, NEW side \in Sides, NEW anchor \in Anchors(changes),
             MoveCommits(changes, anchor, side)
      PROVE  TellsNothing(w, t)
  BY <1>1, MoveAdvances DEF MoveCommits, Unaffected, TellsNothing
<1>2. ASSUME NEW changes \in SUBSET DOMAIN known, DiscardCommits(changes)
      PROVE  TellsNothing(w, t)
  BY <1>2, DiscardAdvances, SMTT(40) DEF DiscardCommits, Unaffected, TellsNothing
<1>3. ASSUME NEW subject \in DOMAIN known, NEW target \in DOMAIN known, subject # target,
             SquashCommits(subject, target)
      PROVE  TellsNothing(w, t)
  BY <1>3, SquashAdvances, Zenon DEF SquashCommits, Unaffected, TellsNothing
<1>4. ASSUME NEW change \in DOMAIN known, RewordCommit(change)
      PROVE  TellsNothing(w, t)
  BY <1>4, RewordAdvances DEF RewordCommit, Unaffected, TellsNothing
<1>5. ASSUME NEW change \in DOMAIN known, NEW file \in File, AmendCommit(change, file)
      PROVE  TellsNothing(w, t) \/ TellsAmended(w, t, change)
  BY <1>5, AmendTells, SMTT(40)
<1>6. ASSUME NEW source \in DOMAIN known, NEW target \in DOMAIN known, NEW file \in File,
             source # target, MoveChanges(source, target, file)
      PROVE  TellsNothing(w, t)
  BY <1>6, MoveChangesAdvances, Zenon DEF MoveChanges, Unaffected, TellsNothing
<1>7. ASSUME CreatedCommit \notin DOMAIN known, NEW anchor \in Anchors({}), NEW side \in Sides,
             NEW file \in File, CreateCommit(anchor, side, file)
      PROVE  TellsNothing(w, t) \/ TellsNew(w, t, CreatedCommit)
  BY <1>7, CreateAdvances DEF Unaffected, TellsNothing, TellsNew
<1>8. ASSUME BlankCommit \notin DOMAIN known, NEW anchor \in Anchors({}), NEW side \in Sides,
             InsertBlankCommit(anchor, side)
      PROVE  TellsNew(w, t, BlankCommit)
  <2>1. phase' = "open" => known' = With(known, BlankCommit, graph'.step[Len(graph.step) + 1].commit)
    BY <1>8 DEF InsertBlankCommit
  <2> QED BY <1>8, <2>1, InsertBlankAdvances DEF TellsNew
<1>9. ASSUME NEW anchor \in Names(graph), NEW side \in Sides,
             ~AboveTop(anchor, side), CreateReference(anchor, side)
      PROVE  TellsNothing(w, t)
  BY <1>9, CreateReferenceAdvances DEF CreateReference, TellsNothing
<1>10. ASSUME NEW name \in Names(graph), RemoveReference(name)
       PROVE  TellsNothing(w, t)
  BY <1>10, RemoveAdvances DEF RemoveReference, TellsNothing
<1> QED BY <1>1, <1>2, <1>3, <1>4, <1>5, <1>6, <1>7, <1>8, <1>9, <1>10 DEF Operation

\* The references that are created ahead.
CreatedOK == created \subseteq {NewReference} \cap DOMAIN refs

\* Only what is in the repository counts as created ahead.
LEMMA OperationCreates ==
  ASSUME CreatedOK, phase = "open", phase' = "open", Operation
  PROVE  CreatedOK'
<1>1. ASSUME UNCHANGED <<refs, created>> PROVE CreatedOK'
  BY <1>1 DEF CreatedOK
<1>2. ASSUME Unaffected PROVE CreatedOK'
  BY <1>1, <1>2 DEF Unaffected
<1>3. ASSUME NEW anchor, NEW side, CreateReference(anchor, side) PROVE CreatedOK'
  BY <1>3 DEF CreateReference, With, CreatedOK
<1>4. ASSUME NEW name, RemoveReference(name) PROVE CreatedOK'
  BY <1>4 DEF RemoveReference, CreatedOK
<1>5. ASSUME NEW change, NEW file, AmendCommit(change, file) PROVE CreatedOK'
  BY <1>1, <1>2, <1>5 DEF AmendCommit, ReportRejected
<1>6. ASSUME NEW anchor, NEW side, NEW file, CreateCommit(anchor, side, file) PROVE CreatedOK'
  BY <1>1, <1>2, <1>6 DEF CreateCommit, ReportRejected
<1>7. ASSUME NEW anchor, NEW side, InsertBlankCommit(anchor, side) PROVE CreatedOK'
  BY <1>1, <1>7 DEF InsertBlankCommit
<1>8. ASSUME NEW changes, NEW anchor, NEW side, MoveCommits(changes, anchor, side) PROVE CreatedOK'
  BY <1>2, <1>8 DEF MoveCommits
<1>9. ASSUME NEW changes, DiscardCommits(changes) PROVE CreatedOK'
  BY <1>2, <1>9, SMTT(40) DEF DiscardCommits
<1>10. ASSUME NEW subject, NEW target, SquashCommits(subject, target) PROVE CreatedOK'
  BY <1>2, <1>10, Zenon DEF SquashCommits
<1>11. ASSUME NEW change, RewordCommit(change) PROVE CreatedOK'
  BY <1>2, <1>11, SMTT(40) DEF RewordCommit
<1>12. ASSUME NEW source, NEW target, NEW file, MoveChanges(source, target, file) PROVE CreatedOK'
  BY <1>2, <1>12, Zenon DEF MoveChanges
<1> QED BY <1>3, <1>4, <1>5, <1>6, <1>7, <1>8, <1>9, <1>10, <1>11, <1>12 DEF Operation

\* The invariant of the type: the graph is a workspace and its commits are known.
TypeInv ==
  /\ \E w, t : Standing(w, t)
  /\ CreatedOK
  /\ phase \in {"open", "over"}
  /\ operations \in 0 .. MaxOperations

\* To begin with nothing is mapped.
LEMMA NothingMapped == SameChanges(<<>>) /\ DOMAIN <<>> = {}
<1>1. DOMAIN <<>> = {}
  OBVIOUS
<1> QED BY <1>1 DEF SameChanges

\* A transaction stands after the rebase it begins with.
LEMMA InitStands ==
  ASSUME Init
  PROVE  \E w, t : Standing(w, t)
<1>1. PICK layout \in Layouts :
        /\ graph = Rebase(Session(WorkspaceGraph(layout), <<>>)).graph
        /\ history = Rebase(Session(WorkspaceGraph(layout), <<>>)).history
        /\ known = [c \in Changes(graph) |-> CHOOSE id \in CommitOf(graph, c) : TRUE]
  BY DEF Init
<1> DEFINE g == WorkspaceGraph(layout)
           s == Session(g, <<>>)
           r == Rebase(s)
<1>2. PICK w, t : Workspace(g, w, t, {})
  BY WorkspaceGraphIs
<1>3. Editing(s, g, w, t)
  BY <1>2, NothingMapped, SessionIs
<1> HIDE DEF s
<1>4. Editing(r, g, w, t)
  BY <1>3, RebaseIs
<1>5. r.graph = graph /\ r.history = history
  BY <1>1 DEF s
<1> HIDE DEF r
<1>6. Workspace(graph, w, t, {}) /\ SameChanges(history)
  BY <1>4, <1>5 DEF Editing
<1>7. ASSUME NEW id \in DOMAIN known PROVE known[id].change = id /\ id \notin {"target", "workspace"}
  <2>1. id \in Changes(graph) /\ known[id] = CHOOSE c \in CommitOf(graph, id) : TRUE
    BY <1>1, <1>7
  <2>2. \E n \in Picks(graph) : graph.step[n].commit.change = id
    BY <2>1 DEF Changes
  <2>3. CommitOf(graph, id) # {} /\ \A c \in CommitOf(graph, id) : c.change = id
    BY <2>2 DEF CommitOf
  <2>4. known[id] \in CommitOf(graph, id)
    BY <2>1, <2>3
  <2> QED BY <2>1, <2>3, <2>4 DEF Changes
<1>8. Named(graph, DOMAIN known)
  <2>1. DOMAIN known = Changes(graph)
    BY <1>1
  <2> QED BY <2>1 DEF Named, Changes
<1> QED BY <1>6, <1>7, <1>8 DEF Standing

\* An operation leaves the transaction standing, or ends it.
LEMMA StandingStep ==
  ASSUME NEW w, NEW t, Standing(w, t), phase = "open", Operation
  PROVE  /\ Standing(w, t)' /\ (Grown(graph) => Grown(graph)')
         /\ operations' = operations + 1
         /\ phase' = phase \/ (phase' = "over" /\ created' = {})
<1>1. CASE TellsNothing(w, t)
  <2>1. Advances(w, t, {}, {}) /\ (phase' = "open" => Tells({}))
    BY <1>1, TellsOfNone DEF TellsNothing
  <2> QED BY <2>1, StandingOn DEF Advances
<1>2. ASSUME NEW id \in {BlankCommit, CreatedCommit} \ DOMAIN known, TellsNew(w, t, id)
      PROVE  /\ Standing(w, t)' /\ (Grown(graph) => Grown(graph)')
             /\ operations' = operations + 1
             /\ phase' = phase \/ (phase' = "over" /\ created' = {})
  <2>1. id \notin {"target", "workspace"}
    BY AddedAssumption
  <2>2. Advances(w, t, {id}, {id}) /\ (phase' = "open" => Tells({id}))
    BY <1>2, <2>1, TellsOfOne DEF TellsNew
  <2> QED BY <2>2, StandingOn DEF Advances
<1>3. ASSUME NEW change \in DOMAIN known, TellsAmended(w, t, change)
      PROVE  /\ Standing(w, t)' /\ (Grown(graph) => Grown(graph)')
             /\ operations' = operations + 1
             /\ phase' = phase \/ (phase' = "over" /\ created' = {})
  <2>1. Advances(w, t, {}, {change}) /\ (phase' = "open" => Tells({}))
    BY <1>3, TellsAnother DEF TellsAmended
  <2> QED BY <2>1, StandingOn DEF Advances
<1> QED BY <1>1, <1>2, <1>3, OperationTells

\* Every step keeps the invariant of the type.
LEMMA TypeInvStep ==
  ASSUME TypeInv, [Next]_vars
  PROVE  TypeInv'
<1>1. PICK w, t : Standing(w, t)
  BY DEF TypeInv
<1>2. CASE phase = "open" /\ operations < MaxOperations /\ Operation
  <2>1. /\ Standing(w, t)' /\ operations' = operations + 1
        /\ phase' = phase \/ (phase' = "over" /\ created' = {})
    BY <1>1, <1>2, StandingStep
  <2>2. CreatedOK'
    <3>1. CASE phase' = "open"
      BY <1>2, <3>1, OperationCreates DEF TypeInv
    <3>2. CASE created' = {}
      BY <3>2 DEF CreatedOK
    <3> QED BY <1>2, <2>1, <3>1, <3>2
  <2>3. operations' \in 0 .. MaxOperations
    BY <1>2, <2>1, AddedAssumption DEF TypeInv
  <2>4. (\E x, y : Standing(x, y))'
    BY <2>1
  <2> QED BY <1>2, <2>1, <2>2, <2>3, <2>4 DEF TypeInv
<1>3. CASE UNCHANGED sessionVars /\ UNCHANGED operations /\ phase' = "over" /\ created' = {}
  <2>1. Standing(w, t)'
    BY <1>1, <1>3 DEF sessionVars, Standing
  <2>2. (\E x, y : Standing(x, y))'
    BY <2>1
  <2> QED BY <1>3, <2>2 DEF TypeInv, CreatedOK
<1>4. CASE UNCHANGED vars
  <2>1. Standing(w, t)'
    BY <1>1, <1>4 DEF vars, sessionVars, Standing
  <2>2. (\E x, y : Standing(x, y))'
    BY <2>1
  <2> QED BY <1>4, <2>2 DEF TypeInv, CreatedOK, vars
<1>5. CASE Commit \/ Rollback
  BY <1>3, <1>5 DEF Commit, Rollback, Refused, RolledBack
<1> QED BY <1>2, <1>4, <1>5 DEF Next

\* The invariant implies TypeOK.
LEMMA TypeInvTypes ==
  ASSUME TypeInv
  PROVE  TypeOK
<1>1. PICK w, t : Standing(w, t)
  BY DEF TypeInv
<1> DEFINE N == Len(graph.parents)
<1>2. Workspace(graph, w, t, {})
  BY <1>1 DEF Standing
<1>3. /\ DOMAIN graph.parents = 1 .. N /\ DOMAIN graph.step = 1 .. N
      /\ Edges(N, graph.parents, w, t)
  BY <1>2, WorkspaceIs
<1>4. WorkspaceNode(graph) = w
  BY <1>2, TopIs
<1>5. \A n \in 1 .. N : ToSet(graph.parents[n]) \subseteq 1 .. N /\ (n # w => Len(graph.parents[n]) <= 1)
  BY <1>3, EdgesAre, ZenonT(40) DEF Edges
<1>6. ~\E n \in ToSet(graph.parents[w]) : IsPick(graph, n)
  BY <1>2 DEF Workspace, IsPick
<1> QED BY <1>3, <1>4, <1>5, <1>6 DEF TypeInv, CreatedOK, TypeOK

\* TypeOK holds in every state, whatever the stacks are and however many operations there may
\* be: the operations of but-workspace leave a graph in which only the workspace commit has
\* several parents, each the top reference of a stack, and what was created ahead is in the
\* repository.
THEOREM TransactionTyped == Spec => []TypeOK
<1>1. Init => TypeInv
  <2>1. ASSUME Init PROVE TypeInv
    BY <2>1, InitStands, AddedAssumption DEF Init, TypeInv, CreatedOK
  <2> QED BY <2>1
<1>2. TypeInv /\ [Next]_vars => TypeInv'
  BY TypeInvStep
<1>3. TypeInv => TypeOK
  BY TypeInvTypes
<1> QED BY <1>1, <1>2, <1>3, PTL DEF Spec

-----------------------------------------------------------------------------
(* Commits that a rebase leaves as they are.                               *)

\* Commits that are on their parents already, and their parents as well.
Steady(g, K) ==
  /\ K \subseteq Picks(g)
  /\ \A m \in K : /\ g.step[m].commit.parents = ParentCommits(g, m)
                  /\ ToSet(OrderedParents(g, m)) \subseteq K

\* The rebase has left them what they were.
Left(s, g, K) == \A m \in K : s.graph.step[m].commit = g.step[m].commit

\* A commit that is on its parents stays itself when it is picked, as long as they have.
LEMMA PickLeaves ==
  ASSUME NEW s, NEW g, NEW w, NEW t, Editing(s, g, w, t), NEW K, Steady(g, K), Left(s, g, K),
         NEW n \in DOMAIN g.parents, PickStep(s, n).ok
  PROVE  /\ Left(PickStep(s, n), g, K)
         /\ n \in K => PickStep(s, n).history =
                         IF g.step[n].tracked
                         THEN UpdateMapping(s.history, g.step[n].commit, g.step[n].commit) ELSE s.history
<1> DEFINE r == PickStep(s, n)
           c == g.step[n].commit
           N == Len(g.parents)
<1>1. Picked(s, r, n) \/ (s.graph.step[n].kind # "pick" /\ r = s)
  BY PickCases
<1>2. Workspace(s.graph, w, t, {}) /\ Alike(g, s.graph)
  BY DEF Editing
<1>3. DOMAIN g.step = DOMAIN g.parents /\ DOMAIN s.graph.step = DOMAIN g.step
      /\ Picks(s.graph) = Picks(g) /\ \A m : OrderedParents(s.graph, m) = OrderedParents(g, m)
  <2>1. s.graph.parents = g.parents /\ DOMAIN s.graph.step = DOMAIN g.step
        /\ \A m \in DOMAIN g.step : s.graph.step[m].kind = g.step[m].kind
    BY <1>2 DEF Alike
  <2>2. DOMAIN s.graph.parents = DOMAIN s.graph.step
    BY <1>2, WorkspaceIs
  <2> QED BY <2>1, <2>2, OrderedAlike
<1> HIDE DEF r
<1>4. CASE n \notin K
  <2>1. \A m \in K : m \in DOMAIN s.graph.step \ {n}
    BY <1>3, <1>4 DEF Steady, Picks
  <2>2. Left(r, g, K)
    <3>1. CASE Picked(s, r, n)
      BY <2>1, <3>1 DEF Left, Picked
    <3>2. CASE r = s
      BY <3>2
    <3> QED BY <1>1, <3>1, <3>2
  <2> QED BY <1>4, <2>2 DEF r
<1>5. CASE n \in K
  <2>1. n \in Picks(g) /\ c.parents = ParentCommits(g, n) /\ ToSet(OrderedParents(g, n)) \subseteq K
    BY <1>5 DEF Steady
  <2>2. s.graph.step[n].commit = c /\ s.graph.step[n].tracked = g.step[n].tracked
        /\ s.graph.step[n].kind = "pick"
    BY <1>2, <1>5, <2>1 DEF Left, Alike, Picks, IsPick
  <2>3. ParentCommits(s.graph, n) = c.parents
    <3>1. \A p \in ToSet(OrderedParents(g, n)) : s.graph.step[p].commit = g.step[p].commit
      BY <2>1 DEF Left
    <3>2. ParentCommits(s.graph, n) = ParentCommits(g, n)
      BY <1>3, <3>1, ParentCommitsSame
    <3> QED BY <2>1, <3>2
  <2> HIDE DEF c
  <2>4. CherryPick(c, c.parents) = c
    BY DEF CherryPick
  <2>5. Picked(s, r, n)
    BY <1>1, <2>2
  <2>6. /\ r.graph.step[n].commit = c
        /\ r.history = (IF g.step[n].tracked THEN UpdateMapping(s.history, c, c) ELSE s.history)
        /\ \A m \in DOMAIN s.graph.step \ {n} : r.graph.step[m] = s.graph.step[m]
    BY <2>2, <2>3, <2>4, <2>5 DEF Picked
  <2>7. Left(r, g, K)
    <3>1. ASSUME NEW m \in K PROVE r.graph.step[m].commit = g.step[m].commit
      <4>1. CASE m = n
        BY <2>6, <4>1 DEF c
      <4>2. CASE m # n
        <5>1. m \in DOMAIN s.graph.step \ {n}
          BY <1>3, <3>1, <4>2 DEF Steady, Picks
        <5> QED BY <2>6, <3>1, <5>1 DEF Left
      <4> QED BY <4>1, <4>2
    <3> QED BY <3>1 DEF Left
  <2> QED BY <2>6, <2>7 DEF r, c
<1> QED BY <1>4, <1>5

\* A commit the mapping does not know yet, neither as one that became nor as one that was.
IsNew(h, c) == c \notin DOMAIN h /\ \A d \in DOMAIN h : h[d] # c

\* A new commit stays new when another one is mapped to itself.
LEMMA MappingStaysNew ==
  ASSUME NEW h, NEW a, IsNew(h, a), NEW c, c # a
  PROVE  IsNew(UpdateMapping(h, c, c), a)
  BY DEF IsNew, UpdateMapping

\* A new commit that is mapped to itself is the only one that is mapped to it.
LEMMA NewMapsToItself ==
  ASSUME NEW h, NEW a, IsNew(h, a)
  PROVE  /\ a \in DOMAIN UpdateMapping(h, a, a)
         /\ \A d \in DOMAIN UpdateMapping(h, a, a) : UpdateMapping(h, a, a)[d] = a <=> d = a
  BY DEF IsNew, UpdateMapping

\* Once one of a grown graph has been amended, the commits that the rebase comes to before it.
Earlier(g, pos, n) == {m \in Picks(g) : pos[m] <= pos[n]}

\* In a graph that was rebased, one commit of which was amended since, it and those before it
\* are on their parents.
LEMMA EarlierSteady ==
  ASSUME NEW g, NEW w, NEW t, Workspace(g, w, t, {}), Grown(g), NEW n, NEW a, MayRewrite(g, w, n, a),
         a.parents = g.step[n].commit.parents,
         NEW pos, Ranked(Len(g.parents), g.parents, pos)
  PROVE  Steady(Replace(g, n, Pick(a)), Earlier(Replace(g, n, Pick(a)), pos, n))
<1> DEFINE d == Replace(g, n, Pick(a))
           N == Len(g.parents)
           K == Earlier(d, pos, n)
<1>1. /\ Workspace(d, w, t, {}) /\ d.step[n].commit = a /\ Rewrites(g, d, n)
      /\ d.parents = g.parents /\ DOMAIN d.step = DOMAIN g.step
  BY RewrittenIs
<1>2. /\ DOMAIN g.step = 1 .. N /\ DOMAIN g.parents = 1 .. N /\ N \in Nat /\ n \in 1 .. N
      /\ pos \in [1 .. N -> Nat]
  BY WorkspaceIs DEF MayRewrite, Free, Ranked
<1> HIDE DEF d
<1>3. Picks(d) = Picks(g) /\ \A m : OrderedParents(d, m) = OrderedParents(g, m)
  <2>1. \A m \in DOMAIN g.step : d.step[m].kind = g.step[m].kind
    BY <1>1 DEF Rewrites
  <2> QED BY <1>1, <2>1, OrderedAlike
<1>4. ASSUME NEW m \in K PROVE d.step[m].commit.parents = ParentCommits(d, m) /\ ToSet(OrderedParents(d, m)) \subseteq K
  <2>1. m \in Picks(g) /\ m \in 1 .. N /\ pos[m] <= pos[n]
    BY <1>2, <1>3, <1>4 DEF Earlier, Picks
  <2>2. \A p \in ToSet(OrderedParents(g, m)) : p \in Picks(g) /\ p \in 1 .. N /\ pos[p] < pos[m]
    BY <1>2, <2>1, ParentsBefore
  <2>3. \A p \in ToSet(OrderedParents(g, m)) : p # n /\ p \in K
    <3>1. ASSUME NEW p \in ToSet(OrderedParents(g, m)) PROVE p # n /\ p \in K
      <4>1. p \in Picks(d) /\ pos[p] \in Nat /\ pos[m] \in Nat /\ pos[n] \in Nat /\ pos[p] < pos[m]
        BY <1>2, <1>3, <2>1, <2>2
      <4>2. pos[p] < pos[n]
        BY <2>1, <4>1
      <4> QED BY <4>1, <4>2 DEF Earlier
    <3> QED BY <3>1
  <2>4. \A p \in ToSet(OrderedParents(g, m)) : d.step[p].commit = g.step[p].commit
    BY <1>1, <1>2, <2>2, <2>3 DEF Rewrites
  <2>5. ParentCommits(d, m) = ParentCommits(g, m)
    BY <1>3, <2>4, ParentCommitsSame
  <2>6. g.step[m].commit.parents = ParentCommits(g, m)
    BY <2>1 DEF Grown
  <2>7. d.step[m].commit.parents = g.step[m].commit.parents
    <3>1. CASE m = n
      BY <1>1, <3>1
    <3>2. CASE m # n
      BY <1>1, <1>2, <2>1, <3>2 DEF Rewrites
    <3> QED BY <3>1, <3>2
  <2> QED BY <1>3, <2>3, <2>5, <2>6, <2>7
<1>5. K \subseteq Picks(d)
  BY DEF Earlier
<1> HIDE DEF K
<1>6. Steady(d, K)
  BY <1>4, <1>5 DEF Steady
<1> QED BY <1>6 DEF d, K

\* The rebase leaves an amended commit what it is, and maps it to itself.
LEMMA AmendLeads ==
  ASSUME NEW g, NEW w, NEW t, Workspace(g, w, t, {}), Grown(g), NEW n, NEW a, MayRewrite(g, w, n, a),
         a.parents = g.step[n].commit.parents, NEW h, SameChanges(h), IsNew(h, a),
         NEW s, s = Session(Replace(g, n, Pick(a)), h), Rebase(s).ok
  PROVE  Leads(Rebase(s).graph, Rebase(s).history, a.change, a)
<1> DEFINE d == Replace(g, n, Pick(a))
           N == Len(d.parents)
           order == PickingOrder(d.parents)
           L == Len(order)
<1>1. /\ Workspace(d, w, t, {}) /\ d.step[n].commit = a /\ Rewrites(g, d, n)
      /\ d.parents = g.parents /\ DOMAIN d.step = DOMAIN g.step
  BY RewrittenIs
<1>2. d.step[n].tracked = TRUE
  <2>1. Pick(a).tracked = TRUE
    BY Kinds
  <2>2. d.step[n] = Pick(a)
    <3>1. n \in DOMAIN g.step
      BY WorkspaceIs DEF MayRewrite, Free
    <3>2. g = [step |-> g.step, parents |-> g.parents]
      BY DEF Workspace
    <3> QED BY <3>1, <3>2 DEF Replace
  <2> QED BY <2>1, <2>2
<1>3. s.graph = d /\ s.history = h
  BY DEF Session
<1>4. Editing(s, d, w, t)
  BY <1>1, SessionIs
<1> HIDE DEF d
<1>5. PICK pos, walk : Position(N, d.parents, order, pos) /\ IsRebase(s, d, w, t, order, walk)
  BY <1>4, RebaseWalks
<1> HIDE DEF order
<1> DEFINE K == Earlier(d, pos, n)
<1>6. /\ N \in Nat /\ DOMAIN d.parents = 1 .. N /\ DOMAIN d.step = 1 .. N /\ n \in 1 .. N
      /\ Steps(N, d.step, w, t) /\ d.step[n].kind = "pick"
  BY <1>1, WorkspaceIs DEF MayRewrite, Free, Rewrites
<1>7. /\ L \in Nat /\ \A i \in 1 .. L : order[i] \in 1 .. N /\ pos[order[i]] = i
      /\ \A m \in 1 .. N : pos[m] \in 1 .. L /\ order[pos[m]] = m
      /\ Ranked(N, d.parents, pos)
  BY <1>5, ElementOfSeq DEF Position
<1>8. Steady(d, K) /\ n \in K /\ \A m \in 1 .. N : d.step[m].kind = "pick" /\ pos[m] <= pos[n] => m \in K
  <2>1. Steady(d, K)
    BY <1>1, <1>7, EarlierSteady DEF d
  <2>2. n \in 1 .. N /\ pos[n] <= pos[n]
    BY <1>6, <1>7
  <2> QED BY <1>6, <2>1, <2>2 DEF Earlier, Picks, IsPick
<1> HIDE DEF K
<1> DEFINE S == {k \in 0 .. L : walk[k].ok =>
                   /\ Left(walk[k], d, K)
                   /\ k < pos[n] => IsNew(walk[k].history, a)
                   /\ k >= pos[n] => Leads(walk[k].graph, walk[k].history, a.change, a)}
<1>9. 0 \in S
  BY <1>3, <1>5, <1>6, <1>7 DEF IsRebase, Left
<1>10. ASSUME NEW k \in 1 .. L, k - 1 \in S PROVE k \in S
  <2> DEFINE b == walk[k - 1]
             r == walk[k]
             m == order[k]
             c == d.step[m].commit
  <2>1. /\ k \in 0 .. L /\ k - 1 \in 0 .. L /\ m \in 1 .. N /\ pos[m] = k
        /\ r = PickStep(b, m) /\ Editing(b, d, w, t)
    BY <1>5, <1>7 DEF IsRebase
  <2>2. SUFFICES ASSUME r.ok
                 PROVE  /\ Left(r, d, K)
                        /\ k < pos[n] => IsNew(r.history, a)
                        /\ k >= pos[n] => Leads(r.graph, r.history, a.change, a)
    BY <2>1
  <2>3. m \in DOMAIN d.parents /\ PickStep(b, m).ok /\ b.ok
    BY <1>6, <2>1, <2>2, PickCases
  <2>4. /\ Left(b, d, K)
        /\ k - 1 < pos[n] => IsNew(b.history, a)
        /\ k - 1 >= pos[n] => Leads(b.graph, b.history, a.change, a)
    BY <1>10, <2>3
  <2>5. pos[n] \in Nat /\ pos[n] \in 1 .. L
    BY <1>6, <1>7
  <2> HIDE DEF b, r, m
  <2>6. /\ Left(r, d, K)
        /\ m \in K => r.history = IF d.step[m].tracked THEN UpdateMapping(b.history, c, c) ELSE b.history
    BY <1>8, <2>1, <2>3, <2>4, PickLeaves
  <2>7. b.graph.step[m].kind = "pick" <=> d.step[m].kind = "pick"
    BY <1>6, <2>1 DEF Editing, Alike
  <2>8. CASE k < pos[n]
    <3>1. IsNew(b.history, a) /\ m # n
      BY <2>1, <2>4, <2>5, <2>8
    <3>2. CASE d.step[m].kind = "pick"
      <4>1. m \in K
        BY <1>8, <2>1, <2>5, <2>8, <3>2
      <4>2. c # a
        BY <1>1, <1>6, <2>1, <3>1, <3>2 DEF Steps
      <4>3. r.history = (IF d.step[m].tracked THEN UpdateMapping(b.history, c, c) ELSE b.history)
        BY <2>6, <4>1
      <4> HIDE DEF c
      <4>4. IsNew(UpdateMapping(b.history, c, c), a)
        BY <3>1, <4>2, MappingStaysNew
      <4>5. IsNew(r.history, a)
        BY <3>1, <4>3, <4>4
      <4> QED BY <2>5, <2>6, <2>8, <4>5
    <3>3. CASE d.step[m].kind # "pick"
      <4>1. r = b
        BY <1>6, <2>1, <2>3, <2>7, <3>3, PickCases DEF Picked
      <4> QED BY <2>5, <2>6, <2>8, <3>1, <4>1
    <3> QED BY <3>2, <3>3
  <2>9. CASE k = pos[n]
    <3>1. m = n /\ IsNew(b.history, a)
      BY <1>6, <1>7, <2>4, <2>5, <2>9 DEF m
    <3>2. r.history = UpdateMapping(b.history, a, a)
      BY <1>1, <1>2, <1>8, <2>6, <3>1
    <3>3. Editing(r, d, w, t)
      BY <1>6, <2>1, <2>3, PickStepIs
    <3>4. ASSUME NEW x \in DOMAIN r.graph.step, r.graph.step[x].kind = "pick",
                 r.graph.step[x].commit.change = a.change
          PROVE  r.graph.step[x].tracked = TRUE /\ r.graph.step[x].commit = a
      <4>1. x \in 1 .. N /\ d.step[x].kind = "pick" /\ d.step[x].commit.change = a.change
            /\ r.graph.step[x].tracked = d.step[x].tracked
        BY <1>6, <3>3, <3>4 DEF Editing, Alike
      <4>2. x = n
        BY <1>1, <1>6, <4>1 DEF Steps
      <4> QED BY <1>1, <1>2, <1>8, <2>6, <4>1, <4>2, SMTT(40) DEF Left
    <3>5. Leads(r.graph, r.history, a.change, a)
      <4>1. a \in DOMAIN r.history /\ \A x \in DOMAIN r.history : r.history[x] = a <=> x = a
        BY <3>1, <3>2, NewMapsToItself
      <4>2. \A x, y \in DOMAIN r.history : r.history[x] = a /\ r.history[y] = a => x = y
        BY <4>1
      <4>3. r.history[a] = a
        BY <4>1
      <4> QED BY <3>4, <4>1, <4>2, <4>3 DEF Leads
    <3> QED BY <2>5, <2>6, <2>9, <3>5
  <2>10. CASE k > pos[n]
    <3>1. Leads(b.graph, b.history, a.change, a)
      BY <2>4, <2>5, <2>10
    <3>2. Leads(r.graph, r.history, a.change, a)
      BY <2>1, <2>3, <3>1, PickLeads
    <3> QED BY <2>5, <2>6, <2>10, <3>2
  <2> QED BY <2>5, <2>8, <2>9, <2>10
<1> HIDE DEF S
<1>11. 0 .. L \subseteq S
  BY <1>7, <1>9, <1>10, BoundedInduction
<1>12. Rebase(s) = walk[L]
  BY <1>5 DEF IsRebase
<1>13. pos[n] \in 1 .. L
  BY <1>6, <1>7
<1>14. Leads(walk[L].graph, walk[L].history, a.change, a)
  BY <1>7, <1>11, <1>12, <1>13 DEF S
<1> QED BY <1>12, <1>14

-----------------------------------------------------------------------------
(* The stacks have but the target in common.                               *)

\* A sequence of one element.
LEMMA OfOne ==
  ASSUME NEW S, NEW s \in Seq(S), Len(s) = 1
  PROVE  /\ s[1] \in S /\ s # <<>> /\ Head(s) = s[1] /\ Tail(s) = <<>> /\ s = <<s[1]>>
         /\ ToSet(s) = {s[1]}
<1>1. DOMAIN s = 1 .. 1 /\ s[1] \in S /\ s # <<>>
  BY LenProperties, EmptySeq
<1>2. Head(s) = s[1]
  BY <1>1, HeadTailProperties
<1>3. Tail(s) = <<>>
  <2>1. Tail(s) \in Seq(S) /\ Len(Tail(s)) = 0
    BY <1>1, HeadTailProperties
  <2> QED BY <2>1, EmptySeq
<1>4. ToSet(s) = {s[1]}
  BY <1>1 DEF ToSet
<1>5. s = <<s[1]>>
  BY <1>1
<1> QED BY <1>1, <1>2, <1>3, <1>4, <1>5

\* Nothing is added.
LEMMA AndNothing ==
  ASSUME NEW S, NEW s \in Seq(S)
  PROVE  s \o <<>> = s
  OBVIOUS

\* Where the way down from a node ends.
IsRoot(ps, w, t, picks, root, m) ==
  /\ m \in picks => root[m] = m
  /\ m \notin picks => root[m] = root[ps[m][1]]

\* In a stack there is one way down, and it ends at the first commit.
LEMMA ThroughRoot ==
  ASSUME NEW N, NEW ps, NEW w, NEW t, Edges(N, ps, w, t), NEW lane, Lanes(N, ps, w, lane),
         NEW rank, Ranked(N, ps, rank), \A m \in 1 .. N : rank[m] <= N,
         NEW picks \in SUBSET (1 .. N), 1 \in picks,
         NEW root, \A m \in Below(N, w, t) : IsRoot(ps, w, t, picks, root, m),
         NEW n \in Below(N, w, t) \ {1}, ps[n] # <<>>
  PROVE  Through(ps, picks, n) = <<root[ps[n][1]]>>
<1> DEFINE K == 1 .. N
           r == root[ps[n][1]]
           V == Trail(N, picks)
           B == Below(N, w, t)
           Going(acc) == acc.out = <<>> /\ Len(acc.todo) = 1 /\ acc.todo[1] \in B /\ root[acc.todo[1]] = r
           Q == {acc \in V : \/ acc.todo = <<>> /\ acc.out = <<>>
                             \/ acc.todo = <<>> /\ Len(acc.out) = 1 /\ acc.out[1] = r
                             \/ Going(acc)}
<1>1. N \in Nat /\ ps \in Parents(N) /\ n \in K /\ n # w /\ n # t /\ n # 1
  BY EdgesAre DEF Below
<1>2. \A m \in B : m \in K /\ m # w /\ m # t
  BY DEF Below
<1>3. ASSUME NEW m \in B, ps[m] # <<>>
      PROVE  ps[m] \in Seq(K) /\ Len(ps[m]) = 1 /\ ps[m][1] \in B
  <2>1. ps[m] \in Seq(K) /\ Len(ps[m]) <= 1
    BY <1>1, <1>2, EdgesAre DEF Edges
  <2>2. Len(ps[m]) = 1
    <3> DEFINE x == ps[m]
    <3> HIDE DEF x, K
    <3>1. x \in Seq(K) /\ x # <<>> /\ Len(x) <= 1
      BY <1>3, <2>1 DEF x
    <3>2. Len(x) \in Nat /\ Len(x) # 0
      BY <3>1, SeqFacts
    <3> DEFINE l == Len(x)
    <3>4. l \in Nat /\ l # 0 /\ l <= 1
      BY <3>1, <3>2
    <3> HIDE DEF l
    <3>5. l = 1
      BY <3>4
    <3>3. Len(x) = 1
      BY <3>5 DEF l
    <3> QED BY <3>3 DEF x
  <2>3. ps[m][1] \in ToSet(ps[m])
    BY <2>1, <2>2, OfOne
  <2>4. ps[m][1] \in B
    BY <1>2, <2>3, BelowIs
  <2> QED BY <2>1, <2>2, <2>4
<1>4. AtParents(ps, n) \in Q
  <2>1. AtParents(ps, n) \in V
    BY <1>1, ParentsAre, ToSetOf, SMTT(40) DEF AtParents, Trail
  <2>2. Len(ps[n]) = 1 /\ ps[n][1] \in B
    BY <1>3
  <2> QED BY <2>1, <2>2, AtParentsIs
<1>5. ASSUME NEW acc \in V, acc \in Q PROVE ThroughStep(ps, picks, acc) \in Q
  <2> DEFINE s == ThroughStep(ps, picks, acc)
             h == Head(acc.todo)
             todo == acc.todo
  <2>1. s \in V
    BY <1>1, ThroughStepTyped
  <2>2. CASE todo = <<>>
    <3>1. s = acc
      BY <2>2, StillThere
    <3> QED BY <1>5, <3>1
  <2>3. CASE todo # <<>>
    <3>1. acc.out = <<>> /\ Len(todo) = 1 /\ todo[1] \in B /\ root[todo[1]] = r
      BY <1>5, <2>3
    <3>2. todo \in Seq(K)
      BY DEF Trail
    <3> HIDE DEF todo, B
    <3>3. h = todo[1] /\ Tail(todo) = <<>>
      BY <3>1, <3>2, OfOne DEF todo
    <3>4. Passes(ps, picks, acc, s, h)
      BY <2>3, ThroughCases DEF todo
    <3>5. IsRoot(ps, w, t, picks, root, h)
      BY <3>1, <3>3 DEF B
    <3> HIDE DEF h, s
    <3>6. CASE h \in picks
      <4>1. s.todo = <<>> /\ s.out = Append(<<>>, h)
        BY <3>1, <3>3, <3>4, <3>6 DEF Passes, todo
      <4>2. Append(<<>>, h) = <<h>> /\ Len(<<h>>) = 1 /\ <<h>>[1] = h
        OBVIOUS
      <4>3. h = r
        BY <3>1, <3>3, <3>5, <3>6 DEF IsRoot
      <4> QED BY <2>1, <4>1, <4>2, <4>3 DEF s
    <3>7. CASE h \notin picks /\ ToSet(ps[h]) \subseteq acc.seen
      <4>1. s.todo = <<>> /\ s.out = <<>>
        BY <3>1, <3>3, <3>4, <3>7 DEF Passes, todo
      <4> QED BY <2>1, <4>1, SMTT(40) DEF s
    <3>8. CASE h \notin picks /\ ~(ToSet(ps[h]) \subseteq acc.seen)
      <4>1. s.todo = ps[h] \o <<>> /\ s.out = <<>>
        BY <3>1, <3>3, <3>4, <3>8 DEF Passes, todo
      <4>2. ps[h] # <<>>
        BY <3>8 DEF ToSet
      <4>3. ps[h] \in Seq(K) /\ Len(ps[h]) = 1 /\ ps[h][1] \in B
        BY <1>3, <3>1, <3>3, <4>2
      <4>4. s.todo = ps[h]
        BY <4>1, <4>3, AndNothing
      <4>5. root[ps[h][1]] = r
        BY <3>1, <3>3, <3>5, <3>8 DEF IsRoot
      <4> QED BY <2>1, <4>1, <4>3, <4>4, <4>5 DEF s
    <3> QED BY <3>6, <3>7, <3>8 DEF s
  <2> QED BY <2>2, <2>3
<1>6. PICK acc \in V : acc \in Q /\ Through(ps, picks, n) = acc.out
  <2>1. AtParents(ps, n) \in Q /\ n \in 1 .. N
    BY <1>1, <1>4
  <2>2. \A a \in Trail(N, picks) : a \in Q => ThroughStep(ps, picks, a) \in Q
    BY <1>5
  <2> HIDE DEF Q
  <2>3. \E a \in Trail(N, picks) : a \in Q /\ Through(ps, picks, n) = a.out
    BY <1>1, <2>1, <2>2, ThroughKeeps
  <2> QED BY <2>3
<1>7. Through(ps, picks, n) # <<>>
  BY <1>1, ThroughSome
<1>8. Len(acc.out) = 1 /\ acc.out[1] = r /\ acc.out \in Seq(picks)
  BY <1>6, <1>7 DEF Trail
<1> HIDE DEF r
<1>9. acc.out = <<r>>
  BY <1>8, OfOne
<1> QED BY <1>6, <1>9 DEF r

\* Nodes of different stacks, or one of them is the target.
Strange(lane, x, y) == x = 1 \/ y = 1 \/ lane[x] # lane[y]
Apart(lane, s) == \A i, j \in DOMAIN s : i # j => Strange(lane, s[i], s[j])

\* What is left of a sequence of nodes of different stacks, without the first one.
LEMMA ApartTail ==
  ASSUME NEW lane, NEW S, NEW s \in Seq(S), s # <<>>, Apart(lane, s)
  PROVE  Apart(lane, Tail(s)) /\ \A y \in ToSet(Tail(s)) : Strange(lane, Head(s), y)
<1> DEFINE r == Tail(s)
<1>1. /\ Len(s) \in Nat \ {0} /\ DOMAIN s = 1 .. Len(s) /\ Head(s) = s[1]
      /\ r \in Seq(S) /\ Len(r) = Len(s) - 1 /\ \A i \in 1 .. Len(r) : r[i] = s[i + 1]
  BY EmptySeq, LenProperties, HeadTailProperties
<1>2. DOMAIN r = 1 .. Len(r) /\ ToSet(r) = {r[i] : i \in 1 .. Len(r)}
  BY <1>1, SeqFacts
<1>3. \A i \in 1 .. Len(r) : i + 1 \in 1 .. Len(s) /\ i + 1 # 1
  BY <1>1
<1>4. 1 \in 1 .. Len(s)
  BY <1>1
<1> HIDE DEF r
<1>5. ASSUME NEW i \in DOMAIN r, NEW j \in DOMAIN r, i # j PROVE Strange(lane, r[i], r[j])
  <2>1. i + 1 # j + 1
    BY <1>1, <1>2, <1>5
  <2> QED BY <1>1, <1>2, <1>3, <2>1 DEF Apart
<1>6. ASSUME NEW y \in ToSet(r) PROVE Strange(lane, Head(s), y)
  <2>1. PICK i \in 1 .. Len(r) : y = r[i]
    BY <1>2
  <2> QED BY <1>1, <1>3, <1>4, <2>1 DEF Apart
<1> QED BY <1>5, <1>6 DEF Apart, r

\* Such a sequence with a node of yet another stack.
LEMMA ApartAppend ==
  ASSUME NEW lane, NEW S, NEW s \in Seq(S), NEW e \in S, Apart(lane, s),
         \A x \in ToSet(s) : Strange(lane, x, e)
  PROVE  Apart(lane, Append(s, e))
<1> DEFINE r == Append(s, e)
           L == Len(s)
<1>1. /\ r \in Seq(S) /\ Len(r) = L + 1 /\ r[L + 1] = e /\ \A i \in 1 .. L : r[i] = s[i]
      /\ L \in Nat /\ DOMAIN s = 1 .. L
  BY AppendProperties, LenProperties
<1>2. DOMAIN r = 1 .. L + 1
  BY <1>1, LenProperties
<1> HIDE DEF r, L
<1>3. \A i \in 1 .. L + 1 : i = L + 1 \/ i \in 1 .. L
  BY <1>1
<1>4. \A i \in 1 .. L : s[i] \in ToSet(s)
  BY <1>1 DEF ToSet
<1>5. \A x, y : Strange(lane, x, y) => Strange(lane, y, x)
  BY DEF Strange
<1>6. ASSUME NEW i \in 1 .. L + 1, NEW j \in 1 .. L + 1, i # j PROVE Strange(lane, r[i], r[j])
  <2>1. CASE i \in 1 .. L /\ j \in 1 .. L
    BY <1>1, <1>6, <2>1 DEF Apart
  <2>2. CASE i \in 1 .. L /\ j = L + 1
    BY <1>1, <1>4, <2>2
  <2>3. CASE i = L + 1 /\ j \in 1 .. L
    BY <1>1, <1>4, <1>5, <2>3
  <2> QED BY <1>3, <1>6, <2>1, <2>2, <2>3
<1> QED BY <1>2, <1>6 DEF Apart, r

\* The same, with the node in front.
LEMMA ApartOn ==
  ASSUME NEW lane, NEW S, NEW a \in Seq(S), Len(a) = 1, NEW s \in Seq(S), Apart(lane, s),
         \A y \in ToSet(s) : Strange(lane, a[1], y)
  PROVE  Apart(lane, a \o s)
<1> DEFINE r == a \o s
           L == Len(s)
<1>1. /\ r \in Seq(S) /\ Len(r) = 1 + L
      /\ \A i \in 1 .. 1 + L : r[i] = IF i <= 1 THEN a[i] ELSE s[i - 1]
      /\ L \in Nat /\ DOMAIN s = 1 .. L
  <2>1. /\ r \in Seq(S) /\ Len(r) = Len(a) + Len(s)
        /\ \A i \in 1 .. Len(a) + Len(s) : r[i] = IF i <= Len(a) THEN a[i] ELSE s[i - Len(a)]
    BY ConcatProperties
  <2>2. L \in Nat /\ DOMAIN s = 1 .. L
    BY LenProperties
  <2> HIDE DEF r
  <2> QED BY <2>1, <2>2
<1>2. DOMAIN r = 1 .. 1 + L
  BY <1>1, LenProperties
<1> HIDE DEF r, L
<1>3. \A i \in 1 .. 1 + L : i = 1 \/ (i - 1 \in 1 .. L /\ ~(i <= 1))
  BY <1>1
<1>4. \A i \in 1 .. L : s[i] \in ToSet(s)
  BY <1>1 DEF ToSet
<1>5. \A x, y : Strange(lane, x, y) => Strange(lane, y, x)
  BY DEF Strange
<1>6. ASSUME NEW i \in 1 .. 1 + L, NEW j \in 1 .. 1 + L, i # j PROVE Strange(lane, r[i], r[j])
  <2>1. CASE i # 1 /\ j # 1
    <3>1. i - 1 \in 1 .. L /\ j - 1 \in 1 .. L /\ i - 1 # j - 1 /\ r[i] = s[i - 1] /\ r[j] = s[j - 1]
      BY <1>1, <1>3, <1>6, <2>1
    <3> QED BY <1>1, <3>1 DEF Apart
  <2>2. CASE i # 1 /\ j = 1
    <3>1. i - 1 \in 1 .. L /\ r[i] = s[i - 1] /\ r[j] = a[1]
      BY <1>1, <1>3, <2>2
    <3> QED BY <1>4, <1>5, <3>1
  <2>3. CASE i = 1 /\ j # 1
    <3>1. j - 1 \in 1 .. L /\ r[j] = s[j - 1] /\ r[i] = a[1]
      BY <1>1, <1>3, <2>3
    <3> QED BY <1>4, <3>1
  <2> QED BY <1>6, <2>1, <2>2, <2>3
<1> QED BY <1>2, <1>6 DEF Apart, r

\* The parents the workspace commit has are of different stacks.
LEMMA ThroughApart ==
  ASSUME NEW N, NEW ps, NEW w, NEW t, Edges(N, ps, w, t), NEW lane, Lanes(N, ps, w, lane),
         NEW picks \in SUBSET (1 .. N)
  PROVE  Apart(lane, Through(ps, picks, w))
<1> DEFINE V == Trail(N, picks)
           B == Below(N, w, t)
           K == 1 .. N
           Fine(acc) == /\ acc.todo \in Seq(B) /\ Apart(lane, acc.out) /\ Apart(lane, acc.todo)
                        /\ \A x \in ToSet(acc.out), y \in ToSet(acc.todo) : Strange(lane, x, y)
           Q == {acc \in V : Fine(acc)}
<1>1. N \in Nat /\ ps \in Parents(N) /\ w \in K /\ ps[w] \in Seq(K) /\ w # t
  BY EdgesAre DEF Edges
<1>2. \A m \in B : m \in K /\ m # w /\ m # t
  BY DEF Below
<1>3. AtParents(ps, w) \in Q
  <2>1. AtParents(ps, w) \in V
    BY <1>1, ParentsAre, ToSetOf DEF AtParents, Trail
  <2>2. ToSet(ps[w]) \subseteq B
    BY <1>1, BelowIs
  <2> HIDE DEF B
  <2>3. ps[w] \in Seq(B)
    BY <1>1, <2>2, SeqOfThose
  <2>4. Apart(lane, ps[w])
    BY DEF Lanes, Apart, Strange
  <2>5. Apart(lane, <<>>) /\ ToSet(<<>>) = {}
    BY DEF Apart, ToSet
  <2>6. AtParents(ps, w).todo = ps[w] /\ AtParents(ps, w).out = <<>>
    BY AtParentsIs
  <2>7. Fine(AtParents(ps, w))
    BY <2>3, <2>4, <2>5, <2>6
  <2> QED BY <2>1, <2>7
<1>4. ASSUME NEW acc \in V, acc \in Q PROVE ThroughStep(ps, picks, acc) \in Q
  <2> DEFINE s == ThroughStep(ps, picks, acc)
             h == Head(acc.todo)
             todo == acc.todo
             out == acc.out
             rest == Tail(acc.todo)
  <2>1. s \in V
    BY <1>1, ThroughStepTyped
  <2>2. CASE todo = <<>>
    <3>1. s = acc
      BY <2>2, StillThere, SMTT(40)
    <3> QED BY <1>4, <3>1
  <2>3. CASE todo # <<>>
    <3>1. /\ todo \in Seq(B) /\ Apart(lane, out) /\ Apart(lane, todo) /\ out \in Seq(picks)
          /\ \A x \in ToSet(out), y \in ToSet(todo) : Strange(lane, x, y)
      BY <1>4 DEF Trail
    <3>2. Passes(ps, picks, acc, s, h)
      BY <2>3, ThroughCases, SMTT(40)
    <3>3. s.todo = rest \/ s.todo = ps[h] \o rest
      BY <3>2, Zenon DEF Passes
    <3> HIDE DEF B, s
    <3>4. h \in B /\ h \in ToSet(todo) /\ rest \in Seq(B) /\ ToSet(rest) \subseteq ToSet(todo)
      <4> HIDE DEF todo
      <4>1. h = Head(todo) /\ rest = Tail(todo)
        BY DEF todo
      <4> HIDE DEF h, rest
      <4> QED BY <2>3, <3>1, <4>1, SetsOfSeqs, HeadTailProperties
    <3>5. Apart(lane, rest) /\ \A y \in ToSet(rest) : Strange(lane, h, y)
      <4> HIDE DEF todo
      <4>1. h = Head(todo) /\ rest = Tail(todo)
        BY DEF todo
      <4> HIDE DEF h, rest
      <4> QED BY <2>3, <3>1, <4>1, ApartTail
    <3> HIDE DEF todo, out, rest, h
    <3>6. CASE h \in picks /\ s.todo = rest /\ s.out = Append(out, h)
      <4>1. Apart(lane, s.out)
        BY <3>1, <3>4, <3>6, ApartAppend
      <4>2. ToSet(s.out) = ToSet(out) \cup {h}
        BY <3>1, <3>6, SetsOfSeqs
      <4>3. Fine(s)
        BY <3>1, <3>4, <3>5, <3>6, <4>1, <4>2
      <4> QED BY <2>1, <4>3 DEF s
    <3>7. CASE s.todo = rest /\ s.out = out
      <4>1. Fine(s)
        BY <3>1, <3>4, <3>5, <3>7
      <4> QED BY <2>1, <4>1 DEF s
    <3>8. CASE ps[h] # <<>> /\ s.todo = ps[h] \o rest /\ s.out = out
      <4> DEFINE a == ps[h]
                 p == a[1]
      <4>1. h \in K /\ h # w /\ h # t /\ a \in Seq(K) /\ Len(a) <= 1
        BY <1>1, <1>2, <3>4, EdgesAre DEF Edges, B
      <4>2. a # <<>>
        BY <3>8
      <4> HIDE DEF a, K
      <4>3. Len(a) = 1
        <5> DEFINE l == Len(a)
        <5>1. l \in Nat /\ l # 0 /\ l <= 1
          BY <4>1, <4>2, SeqFacts
        <5> HIDE DEF l
        <5>2. l = 1
          BY <5>1
        <5> QED BY <5>2 DEF l
      <4>4. ToSet(a) = {p}
        BY <4>1, <4>3, OfOne
      <4>5. p \in B /\ h # 1 /\ (p = 1 \/ lane[p] = lane[h])
        <5>1. p \in ToSet(ps[h]) /\ h \in 1 .. N
          BY <4>1, <4>4 DEF a, K
        <5> HIDE DEF p
        <5> QED BY <4>1, <5>1, BelowIs DEF B
      <4> HIDE DEF p
      <4>6. \A y : Strange(lane, h, y) => Strange(lane, p, y)
        BY <4>5 DEF Strange
      <4>7. \A x : Strange(lane, x, h) => Strange(lane, x, p)
        BY <4>5 DEF Strange
      <4>8. a \in Seq(B)
        BY <4>1, <4>4, <4>5, SeqOfThose
      <4>9. \A y \in ToSet(rest) : Strange(lane, a[1], y)
        BY <3>5, <4>6 DEF p
      <4>10. Apart(lane, a \o rest)
        BY <3>4, <3>5, <4>3, <4>8, <4>9, ApartOn
      <4>11. ToSet(a \o rest) = {p} \cup ToSet(rest) /\ a \o rest \in Seq(B)
        BY <3>4, <4>4, <4>5, <4>8, SetsOfSeqs, ConcatProperties
      <4>12. s.todo = a \o rest /\ s.out = out
        BY <3>8 DEF a
      <4>13. \A x \in ToSet(out), y \in ToSet(a \o rest) : Strange(lane, x, y)
        BY <3>1, <3>4, <4>7, <4>11
      <4>14. Fine(s)
        BY <3>1, <4>10, <4>11, <4>12, <4>13
      <4> QED BY <2>1, <4>14 DEF s
    <3>9. ToSet(<<>>) = {}
      BY DEF ToSet
    <3> QED BY <3>2, <3>6, <3>7, <3>8, <3>9 DEF Passes, s, h, out, rest
  <2> QED BY <2>2, <2>3
<1>5. PICK acc \in V : acc \in Q /\ Through(ps, picks, w) = acc.out
  <2>1. AtParents(ps, w) \in Q /\ w \in 1 .. N
    BY <1>1, <1>3
  <2>2. \A a \in Trail(N, picks) : a \in Q => ThroughStep(ps, picks, a) \in Q
    BY <1>4
  <2> HIDE DEF Q
  <2>3. \E a \in Trail(N, picks) : a \in Q /\ Through(ps, picks, w) = a.out
    BY <1>1, <2>1, <2>2, ThroughKeeps
  <2> QED BY <2>3
<1> QED BY <1>5

\* What MergedTree starts from.
Unmerged(commits) == [base |-> commits[1], tree |-> commits[1].tree, clean |-> TRUE]

\* The walk of MergedTree.
IsMergedTree(commits, walk) ==
  /\ walk[0] = Unmerged(commits)
  /\ \A k \in 1 .. Len(commits) - 1 : walk[k] = Absorb(walk[k - 1], commits[k + 1])
  /\ MergedTree(commits) = walk[Len(commits) - 1]

\* It exists: a walk of n steps goes on to one of n + 1 steps.
LEMMA MergedTreeIs ==
  ASSUME NEW commits, Len(commits) - 1 \in Nat
  PROVE  \E walk : IsMergedTree(commits, walk)
<1> DEFINE N == Len(commits) - 1
           Fits(f, n) == f = [k \in 0 .. n |-> IF k = 0 THEN Unmerged(commits) ELSE Absorb(f[k - 1], commits[k + 1])]
           S == {n \in Nat : \E f : Fits(f, n)}
           walk == CHOOSE walk : walk = [k \in 0 .. Len(commits) - 1 |->
                      IF k = 0 THEN Unmerged(commits) ELSE Absorb(walk[k - 1], commits[k + 1])]
<1>1. 0 \in S
  <2> DEFINE f == [k \in 0 .. 0 |-> Unmerged(commits)]
  <2>1. Fits(f, 0)
    OBVIOUS
  <2> HIDE DEF f, Fits
  <2> QED BY <2>1
<1>2. ASSUME NEW n \in Nat, n \in S PROVE n + 1 \in S
  <2>1. PICK f : Fits(f, n)
    BY <1>2
  <2> DEFINE f2 == [k \in 0 .. n + 1 |-> IF k = 0 THEN Unmerged(commits) ELSE Absorb(f[k - 1], commits[k + 1])]
             f3 == [k \in 0 .. n + 1 |-> IF k = 0 THEN Unmerged(commits) ELSE Absorb(f2[k - 1], commits[k + 1])]
  <2>2. \A k \in 0 .. n : f2[k] = f[k]
    <3>1. \A k \in 0 .. n : k \in 0 .. n + 1
      OBVIOUS
    <3> QED BY <2>1, <3>1
  <2>3. \A k \in 0 .. n + 1 : k # 0 => k - 1 \in 0 .. n
    OBVIOUS
  <2>4. \A k \in 0 .. n + 1 : f3[k] = f2[k]
    <3> SUFFICES ASSUME NEW k \in 0 .. n + 1 PROVE f3[k] = f2[k]
      OBVIOUS
    <3>1. f3[k] = IF k = 0 THEN Unmerged(commits) ELSE Absorb(f2[k - 1], commits[k + 1])
      OBVIOUS
    <3>2. f2[k] = IF k = 0 THEN Unmerged(commits) ELSE Absorb(f[k - 1], commits[k + 1])
      OBVIOUS
    <3> HIDE DEF f2, f3
    <3> QED BY <2>2, <2>3, <3>1, <3>2
  <2>5. f3 = [k \in 0 .. n + 1 |-> f3[k]] /\ f2 = [k \in 0 .. n + 1 |-> f2[k]]
    OBVIOUS
  <2>6. f3 = f2
    <3> HIDE DEF f2, f3
    <3> QED BY <2>4, <2>5
  <2>7. Fits(f2, n + 1)
    BY <2>6
  <2> HIDE DEF f2, Fits
  <2> QED BY <2>7
<1>3. N \in S
  <2> HIDE DEF S
  <2>1. Nat \subseteq S
    BY <1>1, <1>2, SetInduction
  <2> QED BY <2>1
<1>4. PICK f : Fits(f, N)
  BY <1>3
<1>5. walk = [k \in 0 .. Len(commits) - 1 |-> IF k = 0 THEN Unmerged(commits) ELSE Absorb(walk[k - 1], commits[k + 1])]
  BY <1>4, Zenon
<1>6. MergedTree(commits) = walk[Len(commits) - 1]
  BY DEF MergedTree, Unmerged
<1> HIDE DEF walk
<1>7. walk[0] = Unmerged(commits)
  BY <1>5
<1>8. ASSUME NEW k \in 1 .. N PROVE walk[k] = Absorb(walk[k - 1], commits[k + 1])
  <2>1. k \in 0 .. N /\ k # 0
    OBVIOUS
  <2> QED BY <1>5, <2>1
<1> QED BY <1>6, <1>7, <1>8 DEF IsMergedTree

\* Commits of which any two have in common that they come from the target, and nothing else.
Related(c) == TargetCommit \in History(c)
Unrelated(c, d) == History(c) \cap History(d) \subseteq {TargetCommit}
FromTarget(commits) ==
  /\ Len(commits) \in Nat \ {0}
  /\ \A i \in 1 .. Len(commits) : Related(commits[i])
  /\ \A i, j \in 1 .. Len(commits) : i # j => Unrelated(commits[i], commits[j])

\* Then the target is what they are merged from.
LEMMA MergeBaseIs ==
  ASSUME NEW c, NEW d, Related(c), Related(d), Unrelated(c, d)
  PROVE  MergeBase(c, d) = TargetCommit
<1> DEFINE common == History(c) \cap History(d)
<1>1. common = {TargetCommit}
  BY DEF Related, Unrelated
<1>2. common \subseteq History(TargetCommit)
  BY <1>1, TargetHistory
<1> HIDE DEF common
<1>3. (CHOOSE b \in common : common \subseteq History(b)) = TargetCommit
  BY <1>1, <1>2
<1> QED BY <1>3 DEF MergeBase, common

\* Each file is the target's, or as one of the commits merged so far has it; and as long as all
\* went well as each has it that changed it.
Sums(commits, k, sum) ==
  /\ Related(sum.base)
  /\ \A j \in 1 .. Len(commits) : j > k => Unrelated(sum.base, commits[j])
  /\ \A f \in File : sum.tree[f] = Original \/ \E i \in 1 .. k : sum.tree[f] = commits[i].tree[f]
  /\ sum.clean => \A i \in 1 .. k, f \in File :
       commits[i].tree[f] # Original => sum.tree[f] = commits[i].tree[f]

\* Merging in a commit of a further stack keeps the sum what it is to be.
LEMMA AbsorbSums ==
  ASSUME NEW commits, FromTarget(commits), NEW k \in 1 .. Len(commits) - 1, NEW sum, Sums(commits, k, sum)
  PROVE  Sums(commits, k + 1, Absorb(sum, commits[k + 1]))
<1> DEFINE c == commits[k + 1]
           L == Len(commits)
           base == MergeBase(sum.base, c)
           r == Absorb(sum, c)
<1>1. L \in Nat \ {0} /\ k \in Nat /\ k + 1 \in 1 .. L /\ k + 1 > k
  BY DEF FromTarget
<1>2. base = TargetCommit
  <2>1. Related(c) /\ Unrelated(sum.base, c)
    BY <1>1 DEF FromTarget, Sums
  <2> HIDE DEF c
  <2> QED BY <2>1, MergeBaseIs DEF Sums
<1>3. \A f \in File : base.tree[f] = Original
  BY <1>2, TargetCommitIs, Zenon
<1>4. r = [base |-> base, tree |-> Merge(base.tree, sum.tree, c.tree),
           clean |-> sum.clean /\ Clashes(base.tree, sum.tree, c.tree) = {}]
  BY DEF Absorb
<1> HIDE DEF base, c, L
<1>5. /\ r.base = TargetCommit /\ r.tree = Merge(base.tree, sum.tree, c.tree)
      /\ r.clean = (sum.clean /\ Clashes(base.tree, sum.tree, c.tree) = {})
  BY <1>2, <1>4
<1> HIDE DEF r
<1>6. \A f \in File : r.tree[f] = IF c.tree[f] # Original /\ sum.tree[f] = Original
                                  THEN c.tree[f] ELSE sum.tree[f]
  <2> SUFFICES ASSUME NEW f \in File
               PROVE  r.tree[f] = IF c.tree[f] # Original /\ sum.tree[f] = Original
                                  THEN c.tree[f] ELSE sum.tree[f]
    BY Zenon
  <2>1. base.tree[f] = Original
    BY <1>3
  <2> QED BY <1>5, <2>1 DEF Merge, Touched
<1>7. r.clean => /\ sum.clean
                 /\ \A f \in File : c.tree[f] # Original => sum.tree[f] = Original \/ sum.tree[f] = c.tree[f]
  <2> SUFFICES ASSUME r.clean, NEW f \in File, c.tree[f] # Original
               PROVE  sum.tree[f] = Original \/ sum.tree[f] = c.tree[f]
    BY <1>5
  <2>1. Clashes(base.tree, sum.tree, c.tree) = {}
    BY <1>5
  <2>2. base.tree[f] = Original
    BY <1>3
  <2> QED BY <2>1, <2>2 DEF Clashes, Touched
<1>8. \A i \in 1 .. k + 1 : i = k + 1 \/ i \in 1 .. k
  BY <1>1
<1>9. \A i \in 1 .. k : i \in 1 .. k + 1
  BY <1>1
<1>10. k + 1 \in 1 .. k + 1 /\ c = commits[k + 1]
  BY <1>1 DEF c
<1>11. \A f \in File : r.tree[f] = Original \/ \E i \in 1 .. k + 1 : r.tree[f] = commits[i].tree[f]
  <2> SUFFICES ASSUME NEW f \in File
               PROVE  r.tree[f] = Original \/ \E i \in 1 .. k + 1 : r.tree[f] = commits[i].tree[f]
    BY Zenon
  <2>1. sum.tree[f] = Original \/ \E i \in 1 .. k : sum.tree[f] = commits[i].tree[f]
    BY DEF Sums
  <2>2. r.tree[f] = c.tree[f] \/ r.tree[f] = sum.tree[f]
    BY <1>6
  <2> QED BY <1>9, <1>10, <2>1, <2>2
<1>12. ASSUME r.clean, NEW i \in 1 .. k + 1, NEW f \in File, commits[i].tree[f] # Original
       PROVE  r.tree[f] = commits[i].tree[f]
  <2>1. CASE i = k + 1
    BY <1>6, <1>7, <1>10, <1>12, <2>1
  <2>2. CASE i \in 1 .. k
    <3>1. sum.tree[f] = commits[i].tree[f]
      BY <1>7, <1>12, <2>2 DEF Sums
    <3> QED BY <1>6, <1>12, <3>1
  <2> QED BY <1>8, <2>1, <2>2
<1>13. Related(r.base) /\ \A j \in 1 .. Len(commits) : j > k + 1 => Unrelated(r.base, commits[j])
  BY <1>5, TargetHistory DEF Related, Unrelated
<1>14. Sums(commits, k + 1, r)
  BY <1>11, <1>12, <1>13 DEF Sums
<1> QED BY <1>14 DEF r, c

\* The sum of all.
LEMMA MergedApart ==
  ASSUME NEW commits, FromTarget(commits)
  PROVE  Sums(commits, Len(commits), MergedTree(commits))
<1> DEFINE M == Len(commits) - 1
<1>1. M \in Nat /\ Len(commits) = M + 1 /\ 1 \in 1 .. Len(commits)
  BY DEF FromTarget
<1>2. PICK walk : IsMergedTree(commits, walk)
  BY <1>1, MergedTreeIs
<1> DEFINE S == {k \in 0 .. M : Sums(commits, k + 1, walk[k])}
<1>3. 0 \in S
  <2>1. walk[0] = Unmerged(commits)
    BY <1>2 DEF IsMergedTree
  <2>2. walk[0].base = commits[1] /\ walk[0].tree = commits[1].tree
    BY <2>1 DEF Unmerged
  <2>3. Related(walk[0].base) /\ \A j \in 1 .. Len(commits) : j > 1 => Unrelated(walk[0].base, commits[j])
    <3>1. \A j \in 1 .. Len(commits) : j > 1 => 1 # j
      OBVIOUS
    <3> QED BY <1>1, <2>2, <3>1 DEF FromTarget
  <2>4. 1 \in 1 .. 1 /\ \A i \in 1 .. 1 : i = 1
    OBVIOUS
  <2>5. Sums(commits, 1, walk[0])
    BY <2>2, <2>3, <2>4 DEF Sums
  <2> QED BY <1>1, <2>5
<1>4. ASSUME NEW k \in 1 .. M, k - 1 \in S PROVE k \in S
  <2>1. k \in 0 .. M /\ (k - 1) + 1 = k /\ k \in 1 .. Len(commits) - 1
    BY <1>1
  <2>2. walk[k] = Absorb(walk[k - 1], commits[k + 1])
    BY <1>2 DEF IsMergedTree
  <2>3. Sums(commits, k, walk[k - 1])
    BY <1>4, <2>1
  <2>4. Sums(commits, k + 1, Absorb(walk[k - 1], commits[k + 1]))
    BY <2>1, <2>3, AbsorbSums
  <2> QED BY <2>1, <2>2, <2>4
<1> HIDE DEF S
<1>5. 0 .. M \subseteq S
  BY <1>1, <1>3, <1>4, BoundedInduction
<1>6. Sums(commits, M + 1, walk[M])
  BY <1>1, <1>5 DEF S
<1>7. MergedTree(commits) = walk[M]
  BY <1>2 DEF IsMergedTree
<1> QED BY <1>1, <1>6, <1>7

\* All goes well if no two of them have changed the same file.
LEMMA MergedClean ==
  ASSUME NEW commits, FromTarget(commits),
         \A i, j \in 1 .. Len(commits) : i # j =>
           \A f \in File : commits[i].tree[f] = Original \/ commits[j].tree[f] = Original
  PROVE  MergedTree(commits).clean
<1> DEFINE M == Len(commits) - 1
<1>1. M \in Nat /\ Len(commits) = M + 1 /\ 1 \in 1 .. Len(commits)
  BY DEF FromTarget
<1>2. PICK walk : IsMergedTree(commits, walk)
  BY <1>1, MergedTreeIs
<1> DEFINE S == {k \in 0 .. M : Sums(commits, k + 1, walk[k]) /\ walk[k].clean}
<1>3. 0 \in S
  <2>1. walk[0] = Unmerged(commits)
    BY <1>2 DEF IsMergedTree
  <2>2. walk[0].base = commits[1] /\ walk[0].tree = commits[1].tree /\ walk[0].clean
    BY <2>1 DEF Unmerged
  <2>3. Related(walk[0].base) /\ \A j \in 1 .. Len(commits) : j > 1 => Unrelated(walk[0].base, commits[j])
    <3>1. \A j \in 1 .. Len(commits) : j > 1 => 1 # j
      OBVIOUS
    <3> QED BY <1>1, <2>2, <3>1 DEF FromTarget
  <2>4. 1 \in 1 .. 1 /\ \A i \in 1 .. 1 : i = 1
    OBVIOUS
  <2>5. Sums(commits, 1, walk[0])
    BY <2>2, <2>3, <2>4 DEF Sums
  <2> QED BY <1>1, <2>2, <2>5
<1>4. ASSUME NEW k \in 1 .. M, k - 1 \in S PROVE k \in S
  <2> DEFINE sum == walk[k - 1]
             c == commits[k + 1]
             base == MergeBase(sum.base, c)
  <2>1. k \in 0 .. M /\ (k - 1) + 1 = k /\ k \in 1 .. Len(commits) - 1 /\ k + 1 \in 1 .. Len(commits) /\ k + 1 > k
        /\ \A i \in 1 .. k : i \in 1 .. Len(commits) /\ i # k + 1
    BY <1>1
  <2>2. walk[k] = Absorb(sum, c)
    BY <1>2 DEF IsMergedTree
  <2>3. Sums(commits, k, sum) /\ sum.clean
    BY <1>4, <2>1
  <2> HIDE DEF sum, c
  <2>4. Sums(commits, k + 1, Absorb(sum, c))
    BY <2>1, <2>3, AbsorbSums DEF c
  <2>5. base = TargetCommit
    <3>1. Related(c) /\ Unrelated(sum.base, c)
      BY <2>1, <2>3 DEF FromTarget, Sums, c
    <3> QED BY <2>3, <3>1, MergeBaseIs DEF Sums
  <2>6. \A f \in File : base.tree[f] = Original
    BY <2>5, TargetCommitIs, Zenon
  <2>7. ASSUME NEW f \in Clashes(base.tree, sum.tree, c.tree) PROVE FALSE
    <3>1. f \in File /\ c.tree[f] # Original /\ sum.tree[f] # Original
      <4>1. f \in File /\ base.tree[f] # c.tree[f] /\ sum.tree[f] # base.tree[f]
        BY <2>7 DEF Clashes, Touched
      <4> QED BY <2>6, <4>1
    <3>2. PICK i \in 1 .. k : sum.tree[f] = commits[i].tree[f]
      BY <2>3, <3>1 DEF Sums
    <3> QED BY <2>1, <3>1, <3>2 DEF c
  <2>8. Absorb(sum, c).clean
    <3>1. Clashes(base.tree, sum.tree, c.tree) = {}
      BY <2>7
    <3>2. Absorb(sum, c) = [base |-> base, tree |-> Merge(base.tree, sum.tree, c.tree),
                clean |-> sum.clean /\ Clashes(base.tree, sum.tree, c.tree) = {}]
      BY DEF Absorb
    <3> HIDE DEF base
    <3>3. Absorb(sum, c).clean = (sum.clean /\ Clashes(base.tree, sum.tree, c.tree) = {})
      BY <3>2
    <3> QED BY <2>3, <3>1, <3>3
  <2> QED BY <2>1, <2>2, <2>4, <2>8
<1> HIDE DEF S
<1>5. 0 .. M \subseteq S
  BY <1>1, <1>3, <1>4, BoundedInduction
<1>6. walk[M].clean
  BY <1>1, <1>5 DEF S
<1>7. MergedTree(commits) = walk[M]
  BY <1>2 DEF IsMergedTree
<1> QED BY <1>6, <1>7

\* The picks of the stacks.
StackPicks(g, w) == Picks(g) \ {1, w}

\* The ancestors of a stack's commit are the target and commits of the same stack.
OwnHistory(g, w, lane, n) ==
  LET c == g.step[n].commit
  IN /\ Related(c)
     /\ \A d \in History(c) : d = TargetCommit
                              \/ \E m \in StackPicks(g, w) : lane[m] = lane[n] /\ d = g.step[m].commit

\* The parent commits of a node are those of its ordered parents.
LEMMA ParentCommitsAre ==
  ASSUME NEW g, NEW w, NEW t, NEW loose, Workspace(g, w, t, loose), NEW n \in DOMAIN g.parents
  PROVE  /\ Len(ParentCommits(g, n)) = Len(OrderedParents(g, n)) /\ Len(OrderedParents(g, n)) \in Nat
         /\ \A i \in 1 .. Len(OrderedParents(g, n)) :
              /\ OrderedParents(g, n)[i] \in Picks(g) /\ OrderedParents(g, n)[i] \in ToSet(OrderedParents(g, n))
              /\ ParentCommits(g, n)[i] = g.step[OrderedParents(g, n)[i]].commit
         /\ ToSet(ParentCommits(g, n)) = {g.step[p].commit : p \in ToSet(OrderedParents(g, n))}
<1> DEFINE o == OrderedParents(g, n)
<1>1. o \in Seq(Picks(g))
  BY OrderedParentsTyped
<1>2. ParentCommits(g, n) = [i \in DOMAIN o |-> g.step[o[i]].commit]
  BY DEF ParentCommits
<1> HIDE DEF o
<1>3. Len(o) \in Nat /\ DOMAIN o = 1 .. Len(o) /\ ToSet(o) = {o[i] : i \in 1 .. Len(o)}
  BY <1>1, SeqFacts
<1>4. \A i \in 1 .. Len(o) : o[i] \in Picks(g)
  BY <1>1, ElementOfSeq
<1>5. Len(ParentCommits(g, n)) = Len(o) /\ DOMAIN ParentCommits(g, n) = 1 .. Len(o)
  BY <1>2, <1>3
<1>6. \A i \in 1 .. Len(o) : ParentCommits(g, n)[i] = g.step[o[i]].commit
  BY <1>2, <1>3
<1>7. ToSet(ParentCommits(g, n)) = {ParentCommits(g, n)[i] : i \in 1 .. Len(o)}
  BY <1>5 DEF ToSet
<1>8. ToSet(ParentCommits(g, n)) = {g.step[p].commit : p \in ToSet(o)}
  BY <1>3, <1>6, <1>7
<1> QED BY <1>3, <1>4, <1>5, <1>6, <1>8 DEF o

\* A commit of the graph is on a parent, unless it is the target.
LEMMA StackPickIs ==
  ASSUME NEW g, NEW w, NEW t, Workspace(g, w, t, {}), NEW n \in Picks(g)
  PROVE  n \in DOMAIN g.parents \ {t} /\ (n # 1 => g.parents[n] # <<>>) /\ (n # w => n \in Below(Len(g.parents), w, t))
         /\ IsCommit(g.step[n].commit)
<1> DEFINE N == Len(g.parents)
<1>1. /\ DOMAIN g.parents = 1 .. N /\ DOMAIN g.step = 1 .. N /\ Steps(N, g.step, w, t) /\ t \in 1 .. N
      /\ \A m \in 1 .. N : IsStep(g.step[m])
  BY WorkspaceIs
<1>2. n \in 1 .. N /\ g.step[n].kind = "pick"
  BY <1>1 DEF Picks, IsPick
<1>3. n # t
  <2>1. g.step[t] = Reference("workspace")
    BY <1>1 DEF Steps
  <2>2. Reference("workspace").kind = "reference"
    BY Kinds
  <2> QED BY <1>2, <2>1, <2>2
<1>4. g.step[n] # NoStep
  BY <1>2, Kinds
<1>5. n # 1 => g.parents[n] # <<>>
  BY <1>1, <1>2, <1>4 DEF Workspace
<1>6. IsCommit(g.step[n].commit)
  BY <1>1, <1>2, KindOf
<1> QED BY <1>1, <1>2, <1>3, <1>5, <1>6 DEF Below

\* Commits that are on their parents have the history of their stack.
LEMMA HistoryStays ==
  ASSUME NEW g, NEW w, NEW t, Workspace(g, w, t, {}), Steady(g, Picks(g) \ {w}),
         NEW lane, Lanes(Len(g.parents), g.parents, w, lane), NEW n \in Picks(g) \ {w}
  PROVE  OwnHistory(g, w, lane, n)
<1> DEFINE N == Len(g.parents)
           K == Picks(g) \ {w}
<1>1. /\ N \in Nat /\ g.parents \in Parents(N) /\ DOMAIN g.parents = 1 .. N /\ DOMAIN g.step = 1 .. N
      /\ Edges(N, g.parents, w, t) /\ Steps(N, g.step, w, t)
  BY WorkspaceIs
<1>2. PICK pos : Position(N, g.parents, PickingOrder(g.parents), pos)
  <2>1. \E rank : Ranked(N, g.parents, rank)
    BY DEF Workspace, Shape
  <2> QED BY <1>1, <2>1, PositionIs
<1>3. Ranked(N, g.parents, pos) /\ \A m \in 1 .. N : pos[m] \in 1 .. N
  <2>1. Ranked(N, g.parents, pos) /\ Len(PickingOrder(g.parents)) \in Nat
        /\ \A m \in 1 .. N : pos[m] \in 1 .. Len(PickingOrder(g.parents)) /\ pos[m] <= N
    BY <1>2 DEF Position
  <2> HIDE DEF N
  <2> QED BY <1>1, <2>1
<1>4. K \subseteq 1 .. N
  BY <1>1 DEF Picks
<1> DEFINE S == {k \in 0 .. N : \A m \in K : pos[m] <= k => OwnHistory(g, w, lane, m)}
<1>5. 0 \in S
  BY <1>1, <1>3, <1>4
<1>6. ASSUME NEW k \in 1 .. N, k - 1 \in S PROVE k \in S
  <2>1. SUFFICES ASSUME NEW m \in K, pos[m] <= k PROVE OwnHistory(g, w, lane, m)
    BY <1>1
  <2>2. ASSUME NEW p \in K, pos[p] < pos[m] PROVE OwnHistory(g, w, lane, p)
    <3>1. pos[p] \in 1 .. N /\ pos[m] \in 1 .. N
      BY <1>3, <1>4
    <3>2. pos[p] <= k - 1
      BY <1>1, <2>1, <2>2, <3>1
    <3> QED BY <1>6, <3>2
  <2> HIDE DEF S
  <2> DEFINE c == g.step[m].commit
  <2>3. CASE m = 1
    <3>1. c = TargetCommit
      <4>1. g.step[1] = Pick(TargetCommit)
        BY <1>1 DEF Steps
      <4> QED BY <2>3, <4>1, Kinds, ZenonT(40)
    <3> QED BY <3>1, TargetHistory DEF OwnHistory, Related
  <2>4. CASE m # 1
    <3>1. /\ m \in DOMAIN g.parents \ {1, t} /\ g.parents[m] # <<>> /\ m \in Below(N, w, t) /\ IsCommit(c)
          /\ m \in Picks(g)
      BY <2>4, StackPickIs
    <3>2. c.parents = ParentCommits(g, m) /\ ToSet(OrderedParents(g, m)) \subseteq K
      BY DEF Steady
    <3>3. OrderedParents(g, m) # <<>>
      BY <3>1, HasParents
    <3>4. ToSet(c.parents) = {g.step[p].commit : p \in ToSet(OrderedParents(g, m))}
      BY <3>1, <3>2, ParentCommitsAre
    <3>5. \A p \in ToSet(OrderedParents(g, m)) : pos[p] < pos[m]
      BY <1>3, <3>1, ParentsBefore
    <3>6. \A p \in ToSet(OrderedParents(g, m)) : OwnHistory(g, w, lane, p)
      BY <2>2, <3>2, <3>5
    <3>7. \A p \in ToSet(OrderedParents(g, m)) : p = 1 \/ lane[p] = lane[m]
      <4>1. Picks(g) \in SUBSET (1 .. N)
        BY <1>1 DEF Picks
      <4>2. OrderedParents(g, m) = Through(g.parents, Picks(g), m)
        BY DEF OrderedParents
      <4> HIDE DEF N
      <4> QED BY <1>1, <3>1, <4>1, <4>2, ThroughLane DEF N
    <3>8. PICK q \in ToSet(OrderedParents(g, m)) : TRUE
      <4>1. OrderedParents(g, m) \in Seq(Picks(g))
        BY <3>1, OrderedParentsTyped
      <4> DEFINE o == OrderedParents(g, m)
      <4> HIDE DEF o
      <4>2. \E e \in Picks(g) : e \in ToSet(o)
        BY <3>3, <4>1, SeqFacts DEF o
      <4> QED BY <4>2 DEF o
    <3>9. c.past = UNION {History(e) : e \in ToSet(c.parents)}
      BY <3>1 DEF IsCommit, Past
    <3> HIDE DEF c
    <3>10. History(c) = {c} \cup c.past
      BY DEF History
    <3>11. Related(c)
      <4>1. TargetCommit \in History(g.step[q].commit)
        BY <3>6, <3>8 DEF OwnHistory, Related
      <4> QED BY <3>4, <3>8, <3>9, <3>10, <4>1 DEF Related
    <3>12. ASSUME NEW d \in History(c), d # TargetCommit
           PROVE  \E x \in StackPicks(g, w) : lane[x] = lane[m] /\ d = g.step[x].commit
      <4>1. CASE d = c
        BY <2>4, <3>1, <4>1 DEF StackPicks, c
      <4>2. CASE d # c
        <5>1. PICK p \in ToSet(OrderedParents(g, m)) : d \in History(g.step[p].commit)
          BY <3>4, <3>9, <3>10, <3>12, <4>2
        <5>2. PICK x \in StackPicks(g, w) : lane[x] = lane[p] /\ d = g.step[x].commit
          BY <3>6, <3>12, <5>1 DEF OwnHistory
        <5>3. p # 1
          <6>1. ASSUME p = 1 PROVE FALSE
            <7>1. g.step[p].commit = TargetCommit
              <8>1. g.step[1] = Pick(TargetCommit)
                BY <1>1 DEF Steps
              <8> QED BY <6>1, <8>1, Kinds, ZenonT(40)
            <7> QED BY <3>12, <5>1, <7>1, TargetHistory
          <6> QED BY <6>1
        <5> QED BY <3>7, <5>2, <5>3
      <4> QED BY <4>1, <4>2
    <3> QED BY <3>11, <3>12 DEF OwnHistory, c
  <2> QED BY <2>3, <2>4
<1> HIDE DEF S
<1>7. 0 .. N \subseteq S
  BY <1>1, <1>5, <1>6, BoundedInduction
<1>8. N \in S /\ pos[n] <= N
  BY <1>1, <1>3, <1>4, <1>7
<1> QED BY <1>8 DEF S

\* What the workspace commit is put on: commits that have grown apart from the target.
LEMMA ParentsFromTarget ==
  ASSUME NEW g, NEW w, NEW t, Workspace(g, w, t, {}), Steady(g, Picks(g) \ {w})
  PROVE  FromTarget(ParentCommits(g, w))
<1> DEFINE N == Len(g.parents)
           o == OrderedParents(g, w)
           K == Picks(g) \ {w}
<1>1. /\ N \in Nat /\ g.parents \in Parents(N) /\ DOMAIN g.parents = 1 .. N /\ DOMAIN g.step = 1 .. N
      /\ Edges(N, g.parents, w, t) /\ Steps(N, g.step, w, t) /\ w \in 1 .. N
  BY WorkspaceIs
<1>2. PICK lane : Lanes(N, g.parents, w, lane)
  BY DEF Workspace, Shape
<1>3. w # 1 /\ w # t /\ g.parents[w] # <<>>
  BY <1>1 DEF Edges
<1>4. o # <<>>
  BY <1>1, <1>3, HasParents
<1>5. /\ Len(ParentCommits(g, w)) = Len(o) /\ Len(o) \in Nat
      /\ \A i \in 1 .. Len(o) : o[i] \in Picks(g) /\ o[i] \in ToSet(o) /\ ParentCommits(g, w)[i] = g.step[o[i]].commit
  BY <1>1, ParentCommitsAre, SMTT(40)
<1>6. Picks(g) \in SUBSET (1 .. N)
  BY <1>1 DEF Picks
<1>7. o = Through(g.parents, Picks(g), w)
  BY DEF OrderedParents
<1> HIDE DEF N
<1>8. ToSet(o) \subseteq Below(N, w, t)
  BY <1>1, <1>2, <1>3, <1>6, <1>7, ThroughWorkspace
<1>9. Apart(lane, o)
  BY <1>1, <1>2, <1>6, <1>7, ThroughApart
<1>10. o \in Seq(Picks(g))
  BY <1>1, OrderedParentsTyped DEF N
<1> HIDE DEF o
<1>11. Len(o) \in Nat \ {0} /\ DOMAIN o = 1 .. Len(o)
  BY <1>4, <1>10, SeqFacts
<1>12. \A i \in 1 .. Len(o) : o[i] \in K /\ OwnHistory(g, w, lane, o[i])
  <2>1. \A i \in 1 .. Len(o) : o[i] \in K
    BY <1>5, <1>8 DEF Below
  <2> QED BY <1>2, <2>1, HistoryStays DEF N
<1>13. g.step[1].commit = TargetCommit
  <2>1. g.step[1] = Pick(TargetCommit)
    BY <1>1 DEF Steps
  <2> QED BY <2>1, Kinds, ZenonT(40)
<1>14. ASSUME NEW i \in 1 .. Len(o), NEW j \in 1 .. Len(o), i # j
       PROVE  Unrelated(ParentCommits(g, w)[i], ParentCommits(g, w)[j])
  <2>1. Strange(lane, o[i], o[j])
    BY <1>9, <1>11, <1>14 DEF Apart
  <2> DEFINE x == o[i]
             y == o[j]
  <2>2. /\ x \in K /\ y \in K /\ OwnHistory(g, w, lane, x) /\ OwnHistory(g, w, lane, y)
        /\ ParentCommits(g, w)[i] = g.step[x].commit /\ ParentCommits(g, w)[j] = g.step[y].commit
    BY <1>5, <1>12
  <2> HIDE DEF x, y
  <2>3. ASSUME NEW d \in History(g.step[x].commit), d \in History(g.step[y].commit), d # TargetCommit PROVE FALSE
    <3>1. PICK m \in StackPicks(g, w) : lane[m] = lane[x] /\ d = g.step[m].commit
      BY <2>2, <2>3 DEF OwnHistory
    <3>2. PICK k \in StackPicks(g, w) : lane[k] = lane[y] /\ d = g.step[k].commit
      BY <2>2, <2>3 DEF OwnHistory
    <3>3. m \in 1 .. N /\ k \in 1 .. N /\ g.step[m].kind = "pick" /\ g.step[k].kind = "pick"
      BY <1>1, <3>1, <3>2 DEF StackPicks, Picks, IsPick
    <3>4. m = k
      BY <1>1, <3>1, <3>2, <3>3 DEF Steps
    <3>5. x # 1 /\ y # 1
      BY <1>13, <2>3, TargetHistory
    <3> QED BY <2>1, <3>1, <3>2, <3>4, <3>5 DEF Strange, x, y
  <2> QED BY <2>2, <2>3 DEF Unrelated
<1>15. \A i \in 1 .. Len(o) : Related(ParentCommits(g, w)[i])
  BY <1>5, <1>12 DEF OwnHistory
<1> QED BY <1>5, <1>11, <1>14, <1>15 DEF FromTarget

\* The workspace commit is no commit's parent.
LEMMA ParentsInStacks ==
  ASSUME NEW g, NEW w, NEW t, Workspace(g, w, t, {}), NEW m \in Picks(g)
  PROVE  ToSet(OrderedParents(g, m)) \subseteq Picks(g) \ {w}
<1> DEFINE N == Len(g.parents)
<1>1. /\ N \in Nat /\ g.parents \in Parents(N) /\ DOMAIN g.parents = 1 .. N /\ DOMAIN g.step = 1 .. N
      /\ Edges(N, g.parents, w, t)
  BY WorkspaceIs
<1>2. PICK lane : Lanes(N, g.parents, w, lane)
  BY DEF Workspace, Shape
<1>3. Picks(g) \in SUBSET (1 .. N)
  BY <1>1 DEF Picks
<1>4. m \in (1 .. N) \ {t}
  BY <1>1, StackPickIs
<1>5. OrderedParents(g, m) = Through(g.parents, Picks(g), m)
  BY DEF OrderedParents
<1> HIDE DEF N
<1>6. ToSet(OrderedParents(g, m)) \subseteq Below(N, w, t) \cap Picks(g)
  BY <1>1, <1>2, <1>3, <1>4, <1>5, ThroughWorkspace
<1> QED BY <1>6 DEF Below

\* In a graph that was rebased all commits are on their parents.
LEMMA GrownSteady ==
  ASSUME NEW g, NEW w, NEW t, Workspace(g, w, t, {}), Grown(g)
  PROVE  Steady(g, Picks(g) \ {w})
  BY ParentsInStacks, SMTT(40) DEF Steady, Grown

\* What the stacks have is in the workspace commit, and nothing else.
LEMMA StacksMerged ==
  ASSUME NEW w, NEW t, Standing(w, t), Grown(graph), IsMerged(graph.step[w].commit)
  PROVE  WorkspaceIsItsStacks
<1> DEFINE c == graph.step[w].commit
           o == OrderedParents(graph, w)
           ontos == ParentCommits(graph, w)
<1>1. Workspace(graph, w, t, {})
  BY DEF Standing
<1>2. WorkspaceNode(graph) = w
  BY <1>1, TopIs
<1>3. /\ w \in DOMAIN graph.parents /\ w \in Picks(graph)
  <2>1. /\ DOMAIN graph.parents = 1 .. Len(graph.parents) /\ DOMAIN graph.step = 1 .. Len(graph.parents)
        /\ Steps(Len(graph.parents), graph.step, w, t) /\ w \in 1 .. Len(graph.parents)
    BY <1>1, WorkspaceIs
  <2> QED BY <2>1 DEF Steps, Picks, IsPick
<1>4. c.parents = ontos
  BY <1>3 DEF Grown
<1>5. FromTarget(ontos)
  BY <1>1, GrownSteady, ParentsFromTarget
<1>6. Sums(ontos, Len(ontos), MergedTree(ontos))
  BY <1>5, MergedApart
<1>7. MergedTree(ontos).clean /\ \A f \in File : c.tree[f] = MergedTree(ontos).tree[f]
  BY <1>4 DEF IsMerged
<1>8. /\ Len(ontos) = Len(o) /\ Len(o) \in Nat
      /\ \A i \in 1 .. Len(o) : o[i] \in ToSet(o) /\ ontos[i] = graph.step[o[i]].commit
  BY <1>1, <1>3, ParentCommitsAre
<1>9. ToSet(o) = {o[i] : i \in 1 .. Len(o)}
  <2>1. o \in Seq(Picks(graph))
    BY <1>1, <1>3, OrderedParentsTyped
  <2> HIDE DEF o
  <2> QED BY <2>1, SeqFacts
<1> HIDE DEF c, o, ontos
<1>10. ASSUME NEW f \in File
       PROVE  c.tree[f] \in {Original} \cup {graph.step[n].commit.tree[f] : n \in ToSet(o)}
  <2>1. c.tree[f] = Original \/ \E i \in 1 .. Len(ontos) : c.tree[f] = ontos[i].tree[f]
    BY <1>6, <1>7 DEF Sums
  <2> QED BY <1>8, <2>1
<1>11. ASSUME NEW n \in ToSet(o), NEW f \in File, graph.step[n].commit.tree[f] # Original
       PROVE  c.tree[f] = graph.step[n].commit.tree[f]
  <2>1. PICK i \in 1 .. Len(ontos) : n = o[i] /\ ontos[i] = graph.step[n].commit
    BY <1>8, <1>9, <1>11, SMTT(40)
  <2> QED BY <1>6, <1>7, <1>11, <2>1 DEF Sums
<1> QED BY <1>2, <1>4, <1>10, <1>11, Zenon DEF WorkspaceIsItsStacks, c, o, ontos

-----------------------------------------------------------------------------
(* The rebase a transaction begins with.                                   *)

\* In the graph to begin with the commits of the stacks are on their parents.
LEMMA LaidSteady ==
  ASSUME NEW layout, NEW g, NEW w, NEW t, Workspace(g, w, t, {}), Laid(g, w, t, layout)
  PROVE  /\ Steady(g, Picks(g) \ {w})
         /\ \A n \in Picks(g) : g.step[n].tracked = TRUE
<1> DEFINE N == Len(g.parents)
           ps == g.parents
           K == Picks(g) \ {w}
<1>1. /\ N \in Nat /\ ps \in Parents(N) /\ DOMAIN ps = 1 .. N /\ DOMAIN g.step = 1 .. N
      /\ Edges(N, ps, w, t) /\ Steps(N, g.step, w, t) /\ 1 \in 1 .. N
  BY WorkspaceIs
<1>2. PICK base, lane : /\ Lanes(N, ps, w, lane) /\ base[1] = 1
                        /\ \A n \in (1 .. N) \ {1, w, t} : IsLaid(g, n, layout, base, lane)
  BY DEF Laid
<1>3. PICK pos : Position(N, ps, PickingOrder(ps), pos)
  <2>1. \E rank : Ranked(N, ps, rank)
    BY DEF Workspace, Shape
  <2> QED BY <1>1, <2>1, PositionIs
<1>4. Ranked(N, ps, pos) /\ \A m \in 1 .. N : pos[m] <= N
  BY <1>3 DEF Position
<1>5. g.step[1] = Pick(TargetCommit) /\ g.step[1].kind = "pick" /\ g.step[1].commit = TargetCommit
      /\ g.step[1].tracked = TRUE
  <2>1. g.step[1] = Pick(TargetCommit)
    BY <1>1 DEF Steps
  <2>2. Pick(TargetCommit).kind = "pick" /\ Pick(TargetCommit).commit = TargetCommit /\ Pick(TargetCommit).tracked = TRUE
    BY Kinds
  <2> QED BY <2>1, <2>2
<1>6. Picks(g) \in SUBSET (1 .. N) /\ 1 \in Picks(g)
  BY <1>1, <1>5 DEF Picks, IsPick
<1>7. \A m \in Below(N, w, t) : IsRoot(ps, w, t, Picks(g), base, m)
  <2> SUFFICES ASSUME NEW m \in Below(N, w, t) PROVE IsRoot(ps, w, t, Picks(g), base, m)
    OBVIOUS
  <2>1. CASE m = 1
    BY <1>2, <1>6, <2>1 DEF IsRoot
  <2>2. CASE m # 1
    <3>1. IsLaid(g, m, layout, base, lane) /\ m \in DOMAIN g.step
      BY <1>1, <1>2, <2>2 DEF Below
    <3> QED BY <3>1 DEF IsLaid, IsRoot, Picks, IsPick
  <2> QED BY <2>1, <2>2
<1>8. ASSUME NEW n \in K PROVE g.step[n].commit.parents = ParentCommits(g, n) /\ g.step[n].tracked = TRUE
  <2>1. CASE n = 1
    BY <1>5, <2>1, TargetHasNoParents, TargetCommitIs
  <2>2. CASE n # 1
    <3>1. n \in Below(N, w, t) \ {1} /\ ps[n] # <<>> /\ n \in DOMAIN ps
      BY <2>2, StackPickIs
    <3>2. IsLaid(g, n, layout, base, lane) /\ g.step[n].kind = "pick"
      BY <1>2, <3>1, SMTT(40) DEF Below, Picks, IsPick
    <3> DEFINE r == base[ps[n][1]]
    <3>3. g.step[n].commit.parents = <<g.step[r].commit>> /\ g.step[n] = Pick(g.step[n].commit)
      BY <3>2 DEF IsLaid
    <3>4. OrderedParents(g, n) = <<r>>
      <4> HIDE DEF N, ps
      <4>1. Through(ps, Picks(g), n) = <<r>>
        BY <1>1, <1>2, <1>4, <1>6, <1>7, <3>1, ThroughRoot
      <4> QED BY <4>1 DEF OrderedParents, ps
    <3> HIDE DEF r
    <3>5. ParentCommits(g, n) = <<g.step[r].commit>>
      <4>1. DOMAIN <<r>> = 1 .. 1 /\ \A i \in 1 .. 1 : i = 1
        OBVIOUS
      <4>2. ParentCommits(g, n) = [i \in 1 .. 1 |-> g.step[<<r>>[i]].commit]
        BY <3>4, <4>1 DEF ParentCommits
      <4>3. \A i \in 1 .. 1 : <<r>>[i] = r
        OBVIOUS
      <4>4. ParentCommits(g, n) = [i \in 1 .. 1 |-> g.step[r].commit]
        BY <4>2, <4>3
      <4> QED BY <4>4
    <3>6. g.step[n].tracked = TRUE
      <4> DEFINE c == g.step[n].commit
      <4>1. g.step[n] = Pick(c)
        BY <3>3
      <4> HIDE DEF c
      <4>2. Pick(c).tracked = TRUE
        BY Kinds
      <4> QED BY <4>1, <4>2
    <3> QED BY <3>3, <3>5, <3>6
  <2> QED BY <2>1, <2>2
<1>9. g.step[w].tracked = TRUE
  <2>1. PICK tips : g.step[w] = Pick(NewCommit("workspace", <<>>, tips, MergedTree(tips).tree))
    BY DEF Laid
  <2> DEFINE c == NewCommit("workspace", <<>>, tips, MergedTree(tips).tree)
  <2>2. g.step[w] = Pick(c)
    BY <2>1
  <2> HIDE DEF c
  <2>3. Pick(c).tracked = TRUE
    BY Kinds
  <2> QED BY <2>2, <2>3
<1>10. \A n \in K : ToSet(OrderedParents(g, n)) \subseteq K
  BY ParentsInStacks
<1> QED BY <1>8, <1>9, <1>10 DEF Steady

\* Their trees fit together, as no two stacks write to one file.
LEMMA LaidClean ==
  ASSUME NEW layout \in Layouts, NEW g, NEW w, NEW t, Workspace(g, w, t, {}), Laid(g, w, t, layout)
  PROVE  MergedTree(ParentCommits(g, w)).clean
<1> DEFINE N == Len(g.parents)
           o == OrderedParents(g, w)
           ontos == ParentCommits(g, w)
<1>1. /\ N \in Nat /\ g.parents \in Parents(N) /\ DOMAIN g.parents = 1 .. N /\ DOMAIN g.step = 1 .. N
      /\ Edges(N, g.parents, w, t) /\ Steps(N, g.step, w, t) /\ w \in 1 .. N
  BY WorkspaceIs
<1>2. PICK base, lane : /\ Lanes(N, g.parents, w, lane) /\ base[1] = 1
                        /\ \A n \in (1 .. N) \ {1, w, t} : IsLaid(g, n, layout, base, lane)
  BY DEF Laid
<1>3. w \in Picks(g)
  BY <1>1 DEF Steps, Picks, IsPick
<1>4. ToSet(o) \subseteq Picks(g) \ {w}
  BY <1>3, ParentsInStacks
<1>5. /\ Len(ontos) = Len(o) /\ Len(o) \in Nat
      /\ \A i \in 1 .. Len(o) : o[i] \in ToSet(o) /\ ontos[i] = g.step[o[i]].commit
  BY <1>1, ParentCommitsAre
<1>6. Apart(lane, o)
  <2>1. Picks(g) \in SUBSET (1 .. N)
    BY <1>1 DEF Picks
  <2> HIDE DEF N
  <2> QED BY <1>1, <1>2, <2>1, ThroughApart DEF OrderedParents
<1>7. DOMAIN o = 1 .. Len(o)
  <2>1. o \in Seq(Picks(g))
    BY <1>1, OrderedParentsTyped
  <2> HIDE DEF o
  <2> QED BY <2>1, SeqFacts
<1>8. FromTarget(ontos)
  BY LaidSteady, ParentsFromTarget
<1>9. g.step[1].commit = TargetCommit
  <2>1. g.step[1] = Pick(TargetCommit)
    BY <1>1 DEF Steps
  <2> QED BY <2>1, Kinds, ZenonT(40)
<1>10. \A f \in File : TargetCommit.tree[f] = Original
  BY TargetCommitIs, Zenon
<1>11. ASSUME NEW n \in Picks(g) \ {1, w}
       PROVE  /\ lane[n] \in 1 .. Len(layout)
              /\ \A f \in File : g.step[n].commit.tree[f] # Original =>
                   \E k \in 1 .. Len(layout[lane[n]]) :
                     layout[lane[n]][k].kind = "commit" /\ f \in layout[lane[n]][k].writes
  <2>1. n \in Below(N, w, t) /\ g.step[n].kind = "pick"
    BY StackPickIs DEF Picks, IsPick
  <2>2. IsLaid(g, n, layout, base, lane)
    BY <1>2, <2>1 DEF Below
  <2>3. lane[n] \in 1 .. Len(layout) /\ Wrote(g.step[n].commit, layout[lane[n]])
    BY <2>1, <2>2 DEF IsLaid
  <2>4. DOMAIN layout[lane[n]] = 1 .. Len(layout[lane[n]])
    BY <2>3, LayoutIs
  <2> QED BY <2>3, <2>4 DEF Wrote
<1> HIDE DEF o, ontos
<1>12. ASSUME NEW i \in 1 .. Len(o), NEW j \in 1 .. Len(o), i # j, NEW f \in File,
              ontos[i].tree[f] # Original, ontos[j].tree[f] # Original
       PROVE  FALSE
  <2> DEFINE x == o[i]
             y == o[j]
  <2>1. Strange(lane, x, y)
    BY <1>6, <1>7, <1>12 DEF Apart
  <2>2. x \in Picks(g) \ {w} /\ y \in Picks(g) \ {w} /\ ontos[i] = g.step[x].commit /\ ontos[j] = g.step[y].commit
    BY <1>4, <1>5
  <2> HIDE DEF x, y
  <2>3. x # 1 /\ y # 1
    BY <1>9, <1>10, <1>12, <2>2
  <2>4. lane[x] # lane[y] /\ x \in Picks(g) \ {1, w} /\ y \in Picks(g) \ {1, w}
    BY <2>1, <2>2, <2>3, SMTT(40) DEF Strange
  <2>5. /\ lane[x] \in 1 .. Len(layout) /\ lane[y] \in 1 .. Len(layout)
        /\ \E k \in 1 .. Len(layout[lane[x]]) :
              layout[lane[x]][k].kind = "commit" /\ f \in layout[lane[x]][k].writes
        /\ \E k \in 1 .. Len(layout[lane[y]]) :
              layout[lane[y]][k].kind = "commit" /\ f \in layout[lane[y]][k].writes
    BY <1>11, <1>12, <2>2, <2>4
  <2> QED BY <2>4, <2>5, LayoutApart
<1>13. \A i, j \in 1 .. Len(ontos) : i # j =>
         \A f \in File : ontos[i].tree[f] = Original \/ ontos[j].tree[f] = Original
  BY <1>5, <1>12
<1>14. MergedTree(ontos).clean
  BY <1>8, <1>13, MergedClean
<1> QED BY <1>14 DEF ontos

\* A step of the rebase goes well if the parents' trees can be merged.
LEMMA PickFits ==
  ASSUME NEW s, NEW g, NEW w, NEW t, Editing(s, g, w, t), s.ok, NEW n,
         s.graph.step[n].kind = "pick" =>
           \/ ParentCommits(s.graph, n) = s.graph.step[n].commit.parents
           \/ MergedTree(ParentCommits(s.graph, n)).clean
  PROVE  PickStep(s, n).ok
<1> DEFINE step == s.graph.step[n]
           ontos == ParentCommits(s.graph, n)
           new == CherryPick(step.commit, ontos)
           d == Replace(s.graph, n, [step EXCEPT !.commit = new])
           h == IF step.tracked THEN UpdateMapping(s.history, step.commit, new) ELSE s.history
           r == PickStep(s, n)
<1>1. s = [graph |-> s.graph, history |-> s.history, ok |-> s.ok]
  BY DEF Editing
<1>2. CASE step.kind # "pick"
  <2>1. r = s
    BY <1>2 DEF PickStep
  <2> QED BY <2>1
<1>3. CASE step.kind = "pick"
  <2>1. ontos = step.commit.parents \/ MergedTree(ontos).clean
    BY <1>3
  <2>2. r = [s EXCEPT !.graph = d, !.history = h]
    BY <1>3, <2>1 DEF PickStep
  <2> HIDE DEF r, d, h
  <2>3. r.ok = s.ok
    BY <1>1, <2>2, SessionNow, Zenon
  <2> QED BY <2>3 DEF r
<1> QED BY <1>2, <1>3

\* The mapping has come to no other commits yet but of the workspace.
SelfMapped(h) == \A d \in DOMAIN h : d.change # "workspace" => h[d] = d

\* The rebase before the first operation, which changes no commit but the workspace's.
Begun(s, g, w) == s.ok /\ Left(s, g, Picks(g) \ {w}) /\ SelfMapped(s.history)

\* What there has to be in the graph for that.
Ripe(g, w, t) ==
  /\ Workspace(g, w, t, {}) /\ Steady(g, Picks(g) \ {w})
  /\ \A n \in Picks(g) : g.step[n].tracked = TRUE
  /\ MergedTree(ParentCommits(g, w)).clean

\* Mapping a commit to itself, or the workspace commit, keeps every other commit mapped to
\* itself.
LEMMA SelfMappedOn ==
  ASSUME NEW h, SelfMapped(h), NEW from, NEW to, NEW change, from.change = change, to.change = change,
         from = to \/ change = "workspace"
  PROVE  /\ SelfMapped(UpdateMapping(h, from, to))
         /\ \A d \in DOMAIN h : d.change # "workspace" => d \in DOMAIN UpdateMapping(h, from, to)
         /\ to \in DOMAIN UpdateMapping(h, from, to)
<1> DEFINE u == UpdateMapping(h, from, to)
<1>1. /\ DOMAIN u = (DOMAIN h \ {from}) \cup {to}
      /\ u[to] = IF from \in DOMAIN h THEN h[from] ELSE from
      /\ \A d \in DOMAIN h \ {from, to} : u[d] = h[d]
  BY DEF UpdateMapping
<1> HIDE DEF u
<1>2. \A d \in DOMAIN h : d.change # "workspace" => d \in DOMAIN u
  BY <1>1
<1>3. ASSUME NEW d \in DOMAIN u, d.change # "workspace" PROVE u[d] = d
  <2>1. CASE d = to
    <3>1. from = to
      BY <1>3, <2>1
    <3> QED BY <1>1, <1>3, <2>1, <3>1 DEF SelfMapped
  <2>2. CASE d # to
    BY <1>1, <1>3, <2>2 DEF SelfMapped
  <2> QED BY <2>1, <2>2
<1> QED BY <1>1, <1>2, <1>3 DEF SelfMapped, u

\* Each of its steps.
LEMMA PickBegins ==
  ASSUME NEW g, NEW w, NEW t, Ripe(g, w, t), NEW s, Editing(s, g, w, t), Begun(s, g, w),
         NEW n \in DOMAIN g.parents
  PROVE  /\ Begun(PickStep(s, n), g, w)
         /\ \A d \in DOMAIN s.history : d.change # "workspace" => d \in DOMAIN PickStep(s, n).history
         /\ n \in Picks(g) \ {w} => g.step[n].commit \in DOMAIN PickStep(s, n).history
         /\ n # w => PickStep(s, n).graph.step[w] = s.graph.step[w]
         /\ n = w /\ OnlyMerges(s.graph.step[w].commit) => IsMerged(PickStep(s, n).graph.step[w].commit)
<1> DEFINE r == PickStep(s, n)
           K == Picks(g) \ {w}
           c == s.graph.step[n].commit
           ontos == ParentCommits(s.graph, n)
<1>1. /\ Workspace(s.graph, w, t, {}) /\ Alike(g, s.graph) /\ Workspace(g, w, t, {}) /\ s.ok
      /\ Steady(g, K) /\ Left(s, g, K) /\ SelfMapped(s.history)
  BY DEF Editing, Ripe, Begun
<1>2. /\ DOMAIN g.step = DOMAIN g.parents /\ DOMAIN s.graph.step = DOMAIN g.step /\ DOMAIN s.graph.parents = DOMAIN g.step
      /\ Picks(s.graph) = Picks(g) /\ \A m : OrderedParents(s.graph, m) = OrderedParents(g, m)
  <2>1. s.graph.parents = g.parents /\ DOMAIN s.graph.step = DOMAIN g.step
        /\ \A m \in DOMAIN g.step : s.graph.step[m].kind = g.step[m].kind
    BY <1>1 DEF Alike
  <2>2. DOMAIN s.graph.parents = DOMAIN s.graph.step
    BY <1>1, WorkspaceIs
  <2> QED BY <2>1, <2>2, OrderedAlike
<1>3. w \in Picks(g) /\ w \in DOMAIN g.parents /\ g.step[w].commit.change = "workspace"
  <2>1. /\ DOMAIN g.parents = 1 .. Len(g.parents) /\ DOMAIN g.step = 1 .. Len(g.parents)
        /\ Steps(Len(g.parents), g.step, w, t) /\ w \in 1 .. Len(g.parents)
    BY <1>1, WorkspaceIs
  <2> QED BY <2>1 DEF Steps, Picks, IsPick
<1>4. ASSUME NEW m \in Picks(g) PROVE ParentCommits(s.graph, m) = ParentCommits(g, m)
  <2>1. ToSet(OrderedParents(g, m)) \subseteq K
    BY <1>1, ParentsInStacks
  <2>2. \A p \in ToSet(OrderedParents(g, m)) : s.graph.step[p].commit = g.step[p].commit
    BY <1>1, <2>1 DEF Left
  <2> QED BY <1>2, <2>2, ParentCommitsSame
<1>5. ASSUME n \in K PROVE c = g.step[n].commit /\ c.parents = ontos
  BY <1>1, <1>4, <1>5 DEF Left, Steady
<1>6. n \in Picks(g) <=> s.graph.step[n].kind = "pick"
  BY <1>2 DEF Picks, IsPick
<1>7. r.ok
  <2>1. ASSUME s.graph.step[n].kind = "pick" PROVE ontos = c.parents \/ MergedTree(ontos).clean
    <3>1. CASE n = w
      BY <1>3, <1>4, <3>1 DEF Ripe
    <3>2. CASE n # w
      BY <1>5, <1>6, <2>1, <3>2
    <3> QED BY <3>1, <3>2
  <2> HIDE DEF ontos, c
  <2> QED BY <1>1, <2>1, PickFits DEF ontos, c
<1>8. Picked(s, r, n) \/ (s.graph.step[n].kind # "pick" /\ r = s)
  BY <1>7, PickCases
<1>9. Left(r, g, K)
  BY <1>1, <1>7, PickLeaves
<1>10. Editing(r, g, w, t)
  BY PickStepIs
<1> HIDE DEF r
<1>11. CASE s.graph.step[n].kind # "pick" /\ r = s
  <2>1. n \notin Picks(g) /\ n # w
    BY <1>3, <1>6, <1>11
  <2> QED BY <1>1, <1>11, <2>1 DEF Begun, r
<1>12. CASE Picked(s, r, n)
  <2> DEFINE new == CherryPick(c, ontos)
  <2>1. /\ n \in Picks(g) /\ r.graph.step[n].commit = new
        /\ r.history = IF s.graph.step[n].tracked THEN UpdateMapping(s.history, c, new) ELSE s.history
        /\ \A m \in DOMAIN s.graph.step \ {n} : r.graph.step[m] = s.graph.step[m]
    BY <1>6, <1>12 DEF Picked
  <2>2. s.graph.step[n].tracked = TRUE
    <3>1. n \in DOMAIN g.step /\ g.step[n].kind = "pick" /\ g.step[n].tracked = TRUE
      BY <2>1 DEF Ripe, Picks, IsPick
    <3> QED BY <1>1, <3>1 DEF Alike
  <2>3. r.history = UpdateMapping(s.history, c, new)
    BY <2>1, <2>2
  <2>4. new.change = c.change /\ c.change = g.step[n].commit.change
    <3>1. n \in DOMAIN g.step /\ g.step[n].kind = "pick"
      BY <2>1 DEF Picks, IsPick
    <3>2. c.change = g.step[n].commit.change
      BY <1>1, <3>1 DEF Alike
    <3>3. r.graph.step[n].commit.change = g.step[n].commit.change
      BY <1>10, <3>1 DEF Editing, Alike
    <3> QED BY <2>1, <3>2, <3>3
  <2>5. n \in K => new = c
    BY <1>5 DEF CherryPick
  <2>6. n = w => c.change = "workspace"
    BY <1>3, <2>4
  <2>7. c = new \/ c.change = "workspace"
    BY <2>1, <2>5, <2>6
  <2> HIDE DEF new, c, ontos
  <2>8. /\ SelfMapped(r.history) /\ new \in DOMAIN r.history
        /\ \A d \in DOMAIN s.history : d.change # "workspace" => d \in DOMAIN r.history
    BY <1>1, <2>3, <2>4, <2>7, SelfMappedOn
  <2>9. n \in K => g.step[n].commit \in DOMAIN r.history
    BY <1>5, <2>5, <2>8
  <2>10. n # w => r.graph.step[w] = s.graph.step[w]
    BY <1>2, <1>3, <2>1
  <2>11. ASSUME n = w, OnlyMerges(s.graph.step[w].commit) PROVE IsMerged(r.graph.step[w].commit)
    <3>1. MergedTree(ontos).clean
      BY <1>3, <1>4, <2>11 DEF Ripe, ontos
    <3>2. ontos # <<>>
      <4>1. w \in DOMAIN s.graph.parents \ {1, t} /\ s.graph.parents[w] # <<>>
        <5>1. Edges(Len(s.graph.parents), s.graph.parents, w, t)
          BY <1>1, WorkspaceIs
        <5>2. w # 1 /\ w # t /\ s.graph.parents[w] # <<>>
          BY <5>1 DEF Edges
        <5> QED BY <1>2, <1>3, <5>2
      <4>2. ParentCommits(s.graph, w) # <<>>
        BY <1>1, <4>1, HasParents
      <4> QED BY <2>11, <4>2 DEF ontos
    <3>3. IsCommit(c)
      <4>1. w \in Picks(s.graph)
        BY <1>2, <1>3
      <4> QED BY <1>1, <2>11, <4>1, StackPickIs DEF c
    <3>4. OnlyMerges(c)
      BY <2>11 DEF c
    <3>5. IsMerged(new)
      BY <3>1, <3>2, <3>3, <3>4, CherryPickJoins DEF new
    <3> QED BY <2>1, <2>11, <3>5
  <2> QED BY <1>7, <1>9, <2>8, <2>9, <2>10, <2>11 DEF Begun, r
<1> QED BY <1>8, <1>11, <1>12

\* The rebase before the first operation goes well.
LEMMA RebaseBegins ==
  ASSUME NEW g, NEW w, NEW t, Ripe(g, w, t), OnlyMerges(g.step[w].commit),
         NEW s, s = Session(g, <<>>)
  PROVE  /\ Rebase(s).ok /\ Begun(Rebase(s), g, w)
         /\ IsMerged(Rebase(s).graph.step[w].commit)
         /\ \A n \in Picks(g) \ {w} : g.step[n].commit \in DOMAIN Rebase(s).history
<1> DEFINE N == Len(g.parents)
           K == Picks(g) \ {w}
           order == PickingOrder(g.parents)
           L == Len(order)
<1>1. Workspace(g, w, t, {})
  BY DEF Ripe
<1>2. s.graph = g /\ s.history = <<>> /\ s.ok /\ Editing(s, g, w, t)
  BY <1>1, NothingMapped, SessionIs DEF Session
<1>3. PICK pos, walk : Position(N, g.parents, order, pos) /\ IsRebase(s, g, w, t, order, walk)
  BY <1>2, RebaseWalks
<1> HIDE DEF order
<1>4. /\ N \in Nat /\ DOMAIN g.parents = 1 .. N /\ DOMAIN g.step = 1 .. N /\ w \in 1 .. N
      /\ Steps(N, g.step, w, t)
  BY <1>1, WorkspaceIs
<1>5. /\ L \in Nat /\ \A i \in 1 .. L : order[i] \in 1 .. N /\ pos[order[i]] = i
      /\ \A n \in 1 .. N : pos[n] \in 1 .. L /\ order[pos[n]] = n
  BY <1>3, ElementOfSeq DEF Position
<1>6. \A n \in K : n \in 1 .. N /\ g.step[n].commit.change # "workspace"
  <2> SUFFICES ASSUME NEW n \in K PROVE n \in 1 .. N /\ g.step[n].commit.change # "workspace"
    OBVIOUS
  <2>1. n \in 1 .. N /\ g.step[n].kind = "pick" /\ n # w
    BY <1>4 DEF Picks, IsPick
  <2> QED BY <1>4, <2>1 DEF Steps
<1> DEFINE Noted(r, k) == \A i \in 1 .. k : order[i] \in K => g.step[order[i]].commit \in DOMAIN r.history
           Joined(r, k) == /\ pos[w] <= k => IsMerged(r.graph.step[w].commit)
                           /\ pos[w] > k => OnlyMerges(r.graph.step[w].commit)
           S == {k \in 0 .. L : Begun(walk[k], g, w) /\ Noted(walk[k], k) /\ Joined(walk[k], k)}
<1>7. 0 \in S
  <2>1. walk[0] = s
    BY <1>3 DEF IsRebase
  <2>2. Begun(s, g, w)
    BY <1>2, NothingMapped DEF Begun, Left, SelfMapped
  <2>3. pos[w] \in 1 .. L
    BY <1>4, <1>5
  <2>4. ~(pos[w] <= 0)
    BY <1>5, <2>3
  <2>5. Joined(s, 0)
    BY <1>2, <2>4
  <2>6. 0 \in 0 .. L
    BY <1>5
  <2> QED BY <2>1, <2>2, <2>5, <2>6
<1>8. ASSUME NEW k \in 1 .. L, k - 1 \in S PROVE k \in S
  <2> DEFINE a == walk[k - 1]
             n == order[k]
             r == PickStep(a, n)
  <2>1. /\ k \in 0 .. L /\ k - 1 \in 0 .. L /\ n \in DOMAIN g.parents /\ pos[n] = k /\ n \in 1 .. N
        /\ walk[k] = r /\ Editing(a, g, w, t)
    BY <1>3, <1>4, <1>5 DEF IsRebase
  <2>2. Begun(a, g, w) /\ Noted(a, k - 1) /\ Joined(a, k - 1)
    BY <1>8
  <2> HIDE DEF a, n, r, S
  <2>3. /\ Begun(r, g, w)
        /\ \A d \in DOMAIN a.history : d.change # "workspace" => d \in DOMAIN r.history
        /\ n \in K => g.step[n].commit \in DOMAIN r.history
        /\ n # w => r.graph.step[w] = a.graph.step[w]
        /\ n = w /\ OnlyMerges(a.graph.step[w].commit) => IsMerged(r.graph.step[w].commit)
    BY <2>1, <2>2, PickBegins DEF r
  <2>4. Noted(r, k)
    <3> SUFFICES ASSUME NEW i \in 1 .. k, order[i] \in K PROVE g.step[order[i]].commit \in DOMAIN r.history
      OBVIOUS
    <3>1. CASE i = k
      BY <2>3, <3>1 DEF n
    <3>2. CASE i # k
      <4>1. i \in 1 .. k - 1
        BY <3>2
      <4>2. g.step[order[i]].commit \in DOMAIN a.history
        BY <2>2, <4>1
      <4> QED BY <1>6, <2>3, <4>2
    <3> QED BY <3>1, <3>2
  <2>5. Joined(r, k)
    <3> DEFINE p == pos[w]
    <3>1. p \in Nat
      BY <1>4, <1>5
    <3>2. CASE n = w
      <4>1. p = k
        BY <2>1, <3>2
      <4>2. p > k - 1 /\ ~(p > k)
        BY <4>1
      <4> QED BY <2>2, <2>3, <3>2, <4>2
    <3>3. CASE n # w
      <4>1. p # k
        BY <1>4, <1>5, <3>3 DEF n
      <4> HIDE DEF p
      <4>2. (p <= k => p <= k - 1) /\ (p > k => p > k - 1)
        BY <3>1, <4>1
      <4> QED BY <2>2, <2>3, <3>3, <4>2 DEF p
    <3> QED BY <3>2, <3>3
  <2> QED BY <2>1, <2>3, <2>4, <2>5 DEF S
<1> HIDE DEF S
<1>9. 0 .. L \subseteq S
  BY <1>5, <1>7, <1>8, BoundedInduction
<1>10. Begun(walk[L], g, w) /\ Noted(walk[L], L) /\ Joined(walk[L], L)
  <2>1. L \in S
    BY <1>5, <1>9
  <2> QED BY <2>1 DEF S
<1>11. Rebase(s) = walk[L]
  BY <1>2, <1>3 DEF IsRebase
<1>12. \A n \in K : g.step[n].commit \in DOMAIN walk[L].history
  BY <1>5, <1>6, <1>10
<1>13. pos[w] <= L
  BY <1>4, <1>5
<1> QED BY <1>10, <1>11, <1>12, <1>13 DEF Begun

\* The workspace commit to begin with.
LEMMA LaidMerges ==
  ASSUME NEW layout, NEW g, NEW w, NEW t, Laid(g, w, t, layout)
  PROVE  OnlyMerges(g.step[w].commit)
<1>1. PICK tips : tips # <<>> /\ g.step[w] = Pick(NewCommit("workspace", <<>>, tips, MergedTree(tips).tree))
  BY DEF Laid
<1> DEFINE x == MergedTree(tips).tree
           c == NewCommit("workspace", <<>>, tips, x)
<1>2. g.step[w] = Pick(c)
  BY <1>1
<1> HIDE DEF x
<1>3. c.tree = x /\ c.sides = <<>> /\ c.parents = tips
  BY NewCommitIs
<1> HIDE DEF c
<1>4. Pick(c).commit = c
  BY Kinds
<1>5. g.step[w].commit = c
  BY <1>2, <1>4
<1> QED BY <1>1, <1>3, <1>5 DEF OnlyMerges, x

-----------------------------------------------------------------------------
(* A commit that was amended.                                              *)

\* A rebase leaves what is on its parents what it is.
LEMMA RebaseLeaves ==
  ASSUME NEW s, NEW g, NEW w, NEW t, Editing(s, g, w, t), NEW K, Steady(g, K), Left(s, g, K), Rebase(s).ok
  PROVE  Left(Rebase(s), g, K)
<1> DEFINE N == Len(g.parents)
           order == PickingOrder(g.parents)
           L == Len(order)
<1>1. PICK pos, walk : Position(N, g.parents, order, pos) /\ IsRebase(s, g, w, t, order, walk)
  BY RebaseWalks
<1> HIDE DEF order
<1>2. DOMAIN g.parents = 1 .. N
  BY WorkspaceIs DEF Editing, Alike
<1>3. L \in Nat /\ \A i \in 1 .. L : order[i] \in 1 .. N
  BY <1>1, ElementOfSeq DEF Position
<1> DEFINE S == {k \in 0 .. L : walk[k].ok => Left(walk[k], g, K)}
<1>4. 0 \in S
  BY <1>1, <1>3 DEF IsRebase
<1>5. ASSUME NEW k \in 1 .. L, k - 1 \in S PROVE k \in S
  <2>1. /\ k \in 0 .. L /\ k - 1 \in 0 .. L /\ order[k] \in DOMAIN g.parents
        /\ walk[k] = PickStep(walk[k - 1], order[k]) /\ Editing(walk[k - 1], g, w, t)
    BY <1>1, <1>2, <1>3 DEF IsRebase
  <2>2. ASSUME walk[k].ok PROVE Left(walk[k], g, K)
    <3>1. walk[k - 1].ok
      BY <2>1, <2>2, PickCases
    <3>2. Left(walk[k - 1], g, K)
      BY <1>5, <3>1
    <3> QED BY <2>1, <2>2, <3>2, PickLeaves
  <2> QED BY <2>1, <2>2
<1> HIDE DEF S
<1>6. 0 .. L \subseteq S
  BY <1>3, <1>4, <1>5, BoundedInduction
<1>7. Rebase(s) = walk[L]
  BY <1>1 DEF IsRebase
<1>8. Left(walk[L], g, K)
  BY <1>3, <1>6, <1>7 DEF S
<1> QED BY <1>7, <1>8

\* So it does an amended commit.
LEMMA AmendStays ==
  ASSUME NEW g, NEW w, NEW t, Workspace(g, w, t, {}), Grown(g), NEW n, NEW a, MayRewrite(g, w, n, a),
         a.parents = g.step[n].commit.parents, NEW h, SameChanges(h),
         NEW s, s = Session(Replace(g, n, Pick(a)), h), Rebase(s).ok
  PROVE  Rebase(s).graph.step[n].commit = a
<1> DEFINE d == Replace(g, n, Pick(a))
           N == Len(d.parents)
<1>1. /\ Workspace(d, w, t, {}) /\ d.step[n].commit = a /\ Rewrites(g, d, n)
      /\ d.parents = g.parents /\ DOMAIN d.step = DOMAIN g.step
  BY RewrittenIs
<1>2. s.graph = d /\ Editing(s, d, w, t)
  BY <1>1, SessionIs DEF Session
<1>3. PICK pos : Ranked(N, d.parents, pos)
  BY <1>1 DEF Workspace, Shape
<1> DEFINE K == Earlier(d, pos, n)
<1>4. Steady(d, K)
  BY <1>1, <1>3, EarlierSteady
<1>5. n \in K
  <2> HIDE DEF d
  <2>1. n \in DOMAIN d.step /\ d.step[n].kind = "pick" /\ DOMAIN d.step = 1 .. N
    BY <1>1, WorkspaceIs DEF Rewrites
  <2>2. pos[n] \in Nat
    BY <2>1, <1>3 DEF Ranked
  <2>3. pos[n] <= pos[n]
    BY <2>2
  <2> QED BY <2>1, <2>3 DEF Earlier, Picks, IsPick
<1> HIDE DEF d, K
<1>6. Left(s, d, K)
  BY <1>2 DEF Left
<1>7. Left(Rebase(s), d, K)
  BY <1>2, <1>4, <1>6, RebaseLeaves
<1> QED BY <1>1, <1>5, <1>7 DEF Left

(***************************************************************************)
(* The premise of IdsKeepTheirMeaning: the client is told of an amended    *)
(* commit by an id that the transaction has never seen.  Were it one that  *)
(* had been rewritten before, the history would lead on from it to what    *)
(* became of that one.  A commit of the repository holds the time it was   *)
(* made, which a commit of the model does not, so that amending one,       *)
(* moving the change out of it, discarding that and amending again could   *)
(* make an equal one here.                                                 *)
(***************************************************************************)
AmendIsNew ==
  asked'.op = "amend" => known'[asked'.what] \notin DOMAIN history \cup Range(history)
AmendsAreNew == [][AmendIsNew]_vars

\* The id the client is told of an amended commit leads to that commit, as the transaction has
\* never seen it before.
LEMMA AmendMeans ==
  ASSUME NEW w, NEW t, Standing(w, t), Grown(graph), NEW change \in DOMAIN known, NEW file \in File,
         AmendCommit(change, file), phase' = "open", AmendIsNew
  PROVE  TellsNothing(w, t) \/ (TellsAmended(w, t, change) /\ Leads(graph', history', change, known'[change]))
<1> DEFINE e == [CommitAt(change) EXCEPT !.tree = WithChange(@, file)]
           c == WithTree(CommitAt(change), WithChange(CommitAt(change).tree, file))
           s == Session(Replace(graph, Node(change), Pick(c)), history)
           found == Found({change})
           fits == ~IsConflicted(CommitAt(change))
           op == [op |-> "amend", what |-> change, patch |-> ChangeOf(file)]
<1>1. CASE ReportRejected(found)
  BY <1>1, RejectedAdvances DEF ReportRejected, Unaffected, TellsNothing
<1>2. CASE TellsNothing(w, t)
  BY <1>2
<1>3. CASE ~ReportRejected(found) /\ ~TellsNothing(w, t)
  <2>1. /\ Attempt(op, found, IF fits THEN Rebase(s) ELSE Failed(s))
        /\ known' = [known EXCEPT ![change] = graph'.step[Node(change)].commit]
    <3>1. e = c
      BY DEF WithTree
    <3> HIDE DEF c
    <3>2. /\ Attempt(op, found, IF IsConflicted(CommitAt(change))
                                THEN Failed(Session(Replace(graph, Node(change), Pick(e)), history))
                                ELSE Rebase(Session(Replace(graph, Node(change), Pick(e)), history)))
          /\ known' = [known EXCEPT ![change] = graph'.step[Node(change)].commit]
      BY <1>3 DEF AmendCommit
    <3> HIDE DEF e, op
    <3> QED BY <3>1, <3>2
  <2>2. TellsAmended(w, t, change)
    BY <1>3, AmendTells
  <2>3. Failed(s).ok = FALSE
    BY DEF Failed, Session
  <2>4. asked' = op
    <3> HIDE DEF op, s, fits, found
    <3> QED BY <2>1 DEF Attempt, Refused, RolledBack
  <2>5. asked'.op = "amend" /\ asked'.what = change
    BY <2>4
  <2>6. found /\ fits /\ graph' = Rebase(s).graph /\ history' = Rebase(s).history /\ Rebase(s).ok
    <3> HIDE DEF fits, op, found, s
    <3> QED BY <2>1, <2>3, Succeeded
  <2>7. MayRewrite(graph, w, Node(change), c) /\ c.change = change
    <3>1. NodesOf(change) # {}
      BY <2>6 DEF Found
    <3> QED BY <3>1, AmendPrepares
  <2>8. c.parents = graph.step[Node(change)].commit.parents
    <3>1. NodesOf(change) # {}
      BY <2>6 DEF Found
    <3>2. IsCommit(CommitAt(change))
      BY <3>1, NodeIs DEF CommitNode, CommitAt
    <3> QED BY <3>2, WithTreeIs DEF CommitAt
  <2>9. Workspace(graph, w, t, {}) /\ SameChanges(history)
    BY DEF Standing
  <2> HIDE DEF c
  <2>10. Rebase(s).graph.step[Node(change)].commit = c
    BY <2>6, <2>7, <2>8, <2>9, AmendStays
  <2>11. known'[change] = c
    BY <2>1, <2>6, <2>10
  <2>12. IsNew(history, c)
    <3>1. c \notin DOMAIN history /\ c \notin Range(history)
      BY <2>5, <2>11 DEF AmendIsNew
    <3> QED BY <3>1 DEF IsNew, Range
  <2>13. Leads(Rebase(s).graph, Rebase(s).history, c.change, c)
    BY <2>6, <2>7, <2>8, <2>9, <2>12, AmendLeads
  <2> QED BY <2>2, <2>6, <2>7, <2>11, <2>13
<1> QED BY <1>1, <1>2, <1>3

-----------------------------------------------------------------------------
(* The workspace is its stacks, and ids mean their commits.                *)

\* The workspace commit is on top of the stacks and merges them, and every commit is on its parents.
Joined(w, t) == Standing(w, t) /\ Grown(graph) /\ IsMerged(graph.step[w].commit)
StacksInv == \E w, t : Joined(w, t)

\* From the id the client knows the history leads to the commit; picks of commits that were created
\* are not tracked.
Meant == \A id \in DOMAIN known \ {BlankCommit, CreatedCommit} : Leads(graph, history, id, known[id])

\* After the rebase it begins with, the stacks are merged and the ids lead to their commits.
LEMMA InitJoins ==
  ASSUME Init
  PROVE  StacksInv /\ Meant
<1>1. PICK layout \in Layouts :
        /\ graph = Rebase(Session(WorkspaceGraph(layout), <<>>)).graph
        /\ history = Rebase(Session(WorkspaceGraph(layout), <<>>)).history
        /\ known = [c \in Changes(graph) |-> CHOOSE id \in CommitOf(graph, c) : TRUE]
  BY DEF Init
<1> DEFINE g == WorkspaceGraph(layout)
           s == Session(g, <<>>)
           r == Rebase(s)
<1>2. PICK w, t : Workspace(g, w, t, {}) /\ Laid(g, w, t, layout)
  BY WorkspaceGraphIs
<1> HIDE DEF g
<1>3. Ripe(g, w, t) /\ OnlyMerges(g.step[w].commit)
  BY <1>2, LaidSteady, LaidClean, LaidMerges DEF Ripe
<1>4. /\ r.ok /\ Begun(r, g, w) /\ IsMerged(r.graph.step[w].commit)
      /\ \A n \in Picks(g) \ {w} : g.step[n].commit \in DOMAIN r.history
  BY <1>3, RebaseBegins
<1>5. Editing(s, g, w, t)
  BY <1>2, NothingMapped, SessionIs
<1>6. Editing(r, g, w, t) /\ Grown(r.graph)
  BY <1>4, <1>5, RebaseIs, RebaseGrows
<1>7. r.graph = graph /\ r.history = history
  BY <1>1 DEF g
<1> HIDE DEF r, s
<1>8. Workspace(graph, w, t, {}) /\ Alike(g, graph)
  BY <1>6, <1>7 DEF Editing
<1>9. PICK x, y : Standing(x, y)
  BY InitStands
<1>10. x = w /\ y = t
  <2>1. Workspace(graph, x, y, {})
    BY <1>9 DEF Standing
  <2>2. Top(graph) = y /\ WorkspaceNode(graph) = x
    BY <2>1, TopIs
  <2>3. Top(graph) = t /\ WorkspaceNode(graph) = w
    BY <1>8, TopIs
  <2> QED BY <2>2, <2>3
<1>11. StacksInv
  BY <1>4, <1>6, <1>7, <1>9, <1>10 DEF StacksInv, Joined
<1>12. ASSUME NEW id \in DOMAIN known PROVE Leads(graph, history, id, known[id])
  <2> DEFINE o == known[id]
             N == Len(graph.parents)
  <2>1. id \in Changes(graph) /\ o = CHOOSE c \in CommitOf(graph, id) : TRUE
    BY <1>1, <1>12
  <2>2. o.change = id /\ id # "workspace"
    BY <1>9, <1>12 DEF Standing
  <2>3. /\ DOMAIN graph.parents = 1 .. N /\ DOMAIN graph.step = 1 .. N /\ Steps(N, graph.step, w, t)
        /\ DOMAIN g.step = DOMAIN graph.step
    BY <1>8, WorkspaceIs DEF Alike
  <2>4. \E n \in Picks(graph) : graph.step[n].commit.change = id
    BY <2>1 DEF Changes
  <2>5. o \in CommitOf(graph, id)
    <3>1. CommitOf(graph, id) # {}
      BY <2>4 DEF CommitOf
    <3> QED BY <2>1, <3>1
  <2>6. PICK m \in Picks(graph) : graph.step[m].commit.change = id /\ graph.step[m].commit = o
    BY <2>5 DEF CommitOf
  <2> HIDE DEF o, N
  <2>7. ASSUME NEW n \in DOMAIN graph.step, graph.step[n].kind = "pick", graph.step[n].commit.change = id
        PROVE  graph.step[n].tracked = TRUE /\ graph.step[n].commit \in DOMAIN history
    <3>1. n # w
      <4>1. graph.step[w].commit.change = "workspace"
        BY <2>3 DEF Steps
      <4> QED BY <2>2, <2>7, <4>1
    <3>2. n \in Picks(g) \ {w}
      BY <1>8, <2>3, <2>7, <3>1 DEF Alike, Picks, IsPick
    <3>3. graph.step[n].commit = g.step[n].commit
      BY <1>4, <1>7, <3>2 DEF Begun, Left
    <3>4. g.step[n].tracked = TRUE
      BY <1>3, <3>2 DEF Ripe
    <3>5. graph.step[n].tracked = g.step[n].tracked
      <4>1. n \in DOMAIN g.step /\ g.step[n].kind = "pick"
        BY <3>2 DEF Picks, IsPick
      <4> QED BY <1>8, <4>1 DEF Alike
    <3> QED BY <1>4, <1>7, <3>2, <3>3, <3>4, <3>5
  <2>8. ASSUME NEW d \in DOMAIN history, history[d] = o PROVE d = o
    <3>1. history[d].change = d.change
      BY <1>9 DEF Standing, SameChanges
    <3>2. d.change # "workspace"
      BY <2>2, <2>8, <3>1
    <3> QED BY <1>4, <1>7, <2>8, <3>2 DEF Begun, SelfMapped
  <2>9. ASSUME NEW n \in DOMAIN graph.step, graph.step[n].kind = "pick", graph.step[n].commit.change = id
        PROVE  history[graph.step[n].commit] = o
    <3>1. m \in DOMAIN graph.step /\ graph.step[m].kind = "pick"
      BY <2>6 DEF Picks, IsPick
    <3>2. n = m
      BY <2>3, <2>6, <2>9, <3>1 DEF Steps
    <3>3. o \in DOMAIN history
      BY <2>6, <2>7, <2>9, <3>2
    <3>4. history[o] = o
      BY <1>4, <1>7, <2>2, <3>3 DEF Begun, SelfMapped
    <3> QED BY <2>6, <3>2, <3>4
  <2> QED BY <2>2, <2>7, <2>8, <2>9 DEF Leads, o
<1> QED BY <1>11, <1>12 DEF Meant

\* Whatever an operation does, the workspace commit stays merged.
LEMMA AdvancesMerges ==
  ASSUME NEW w, NEW t, NEW added, NEW but, Advances(w, t, added, but), IsMerged(graph.step[w].commit)
  PROVE  IsMerged(graph.step[w].commit)'
<1>1. CASE UNCHANGED sessionVars
  BY <1>1 DEF sessionVars
<1>2. ASSUME NEW r, graph' = r.graph, Follows(graph, history, r, w, t, DOMAIN known \cup added, but)
      PROVE  IsMerged(graph.step[w].commit)'
  <2>1. IsMerged(r.graph.step[w].commit)
    BY <1>2 DEF Follows, Carries
  <2> QED BY <1>2, <2>1
<1> QED BY <1>1, <1>2 DEF Advances

\* An operation leaves the commits on their parents and the workspace commit a merge.
LEMMA OperationJoins ==
  ASSUME NEW w, NEW t, Joined(w, t), phase = "open", Operation
  PROVE  Joined(w, t)'
<1>1. Standing(w, t)' /\ Grown(graph)'
  BY StandingStep DEF Joined
<1>2. \E added, but : Advances(w, t, added, but)
  BY OperationTells DEF Joined, TellsNothing, TellsNew, TellsAmended
<1>3. IsMerged(graph.step[w].commit)'
  BY <1>2, AdvancesMerges DEF Joined
<1> QED BY <1>1, <1>3 DEF Joined

\* Every step does.
LEMMA StacksInvStep ==
  ASSUME StacksInv, [Next]_vars
  PROVE  StacksInv'
<1>1. PICK w, t : Joined(w, t)
  BY DEF StacksInv
<1>2. CASE phase = "open" /\ Operation
  <2>1. Joined(w, t)'
    BY <1>1, <1>2, OperationJoins
  <2> QED BY <2>1 DEF StacksInv
<1>3. CASE UNCHANGED sessionVars
  <2>1. Joined(w, t)'
    BY <1>1, <1>3 DEF sessionVars, Joined, Standing
  <2> QED BY <2>1 DEF StacksInv
<1> QED BY <1>2, <1>3 DEF Next, Commit, Rollback, Refused, RolledBack, vars

\* WorkspaceIsItsStacks holds in every state, whatever the stacks are and however many
\* operations there may be. Editor::rebase picks the workspace commit onto the new tops of the
\* stacks; as it is a mere merge, picking makes it the merge of those
\* (merged_tree_from_commits), and as the histories of two stacks have but the target in
\* common, the base of every merge is the target and no stack's file is lost.
THEOREM WorkspaceStaysItsStacks == Spec => []WorkspaceIsItsStacks
<1>1. Init => StacksInv
  BY InitJoins
<1>2. StacksInv /\ [Next]_vars => StacksInv'
  BY StacksInvStep
<1>3. StacksInv => WorkspaceIsItsStacks
  BY StacksMerged DEF StacksInv, Joined
<1> QED BY <1>1, <1>2, <1>3, PTL DEF Spec

\* An id that an operation does not touch leads where it led.
LEMMA AdvancesMean ==
  ASSUME NEW w, NEW t, NEW added, NEW but, Advances(w, t, added, but), NEW id, id \notin but,
         NEW o, Leads(graph, history, id, o)
  PROVE  Leads(graph', history', id, o)
<1>1. CASE UNCHANGED sessionVars
  BY <1>1 DEF sessionVars
<1>2. ASSUME NEW r, graph' = r.graph, history' = r.history,
             Follows(graph, history, r, w, t, DOMAIN known \cup added, but)
      PROVE  Leads(graph', history', id, o)
  <2>1. Leads(r.graph, r.history, id, o)
    BY <1>2 DEF Follows, Carries
  <2> QED BY <1>2, <2>1
<1> QED BY <1>1, <1>2 DEF Advances

\* Whatever an operation is, the ids the client has lead to their commits, if an amended commit
\* is new.
LEMMA OperationMeans ==
  ASSUME NEW w, NEW t, Joined(w, t), Meant, phase = "open", Operation, AmendIsNew
  PROVE  Meant'
<1>1. Standing(w, t) /\ Grown(graph)
  BY DEF Joined
<1>2. CASE phase' # "open"
  <2>1. \E added, but : Advances(w, t, added, but)
    BY <1>1, OperationTells DEF TellsNothing, TellsNew, TellsAmended
  <2>2. UNCHANGED sessionVars
    BY <1>2, <2>1 DEF Advances
  <2> QED BY <2>2 DEF Meant, sessionVars
<1>3. ASSUME phase' = "open", TellsNothing(w, t) PROVE Meant'
  <2>1. known' = known /\ Advances(w, t, {}, {})
    BY <1>3 DEF TellsNothing
  <2>2. ASSUME NEW id \in DOMAIN known \ {BlankCommit, CreatedCommit}
        PROVE  Leads(graph', history', id, known[id])
    BY <2>1, AdvancesMean DEF Meant
  <2> QED BY <2>1, <2>2 DEF Meant
<1>4. ASSUME phase' = "open", NEW new \in {BlankCommit, CreatedCommit} \ DOMAIN known, TellsNew(w, t, new)
      PROVE  Meant'
  <2>1. PICK c : known' = With(known, new, c) /\ Advances(w, t, {new}, {new})
    BY <1>4 DEF TellsNew
  <2>2. ASSUME NEW id \in DOMAIN known \ {BlankCommit, CreatedCommit}
        PROVE  Leads(graph', history', id, known[id])
    <3>1. id \notin {new} /\ Leads(graph, history, id, known[id])
      BY DEF Meant
    <3> QED BY <2>1, <3>1, AdvancesMean
  <2>3. /\ DOMAIN known' = DOMAIN known \cup {new}
        /\ \A id \in DOMAIN known \ {new} : known'[id] = known[id]
    BY <2>1 DEF With
  <2> QED BY <2>2, <2>3 DEF Meant
<1>5. ASSUME phase' = "open", NEW change \in DOMAIN known, TellsAmended(w, t, change),
             Leads(graph', history', change, known'[change])
      PROVE  Meant'
  <2>1. /\ known' = [known EXCEPT ![change] = graph'.step[Node(change)].commit]
        /\ Advances(w, t, {}, {change})
    BY <1>5 DEF TellsAmended
  <2>2. ASSUME NEW id \in DOMAIN known \ {BlankCommit, CreatedCommit}, id # change
        PROVE  Leads(graph', history', id, known[id])
    <3>1. id \notin {change} /\ Leads(graph, history, id, known[id])
      BY <2>2 DEF Meant
    <3> QED BY <2>1, <3>1, AdvancesMean
  <2>3. DOMAIN known' = DOMAIN known /\ \A id \in DOMAIN known \ {change} : known'[id] = known[id]
    BY <2>1
  <2> QED BY <1>5, <2>2, <2>3 DEF Meant
<1>6. ASSUME phase' = "open", NEW change \in DOMAIN known, NEW file \in File, AmendCommit(change, file)
      PROVE  Meant'
  BY <1>1, <1>3, <1>5, <1>6, AmendMeans
<1> QED BY <1>1, <1>2, <1>3, <1>4, <1>6, OperationTells

\* So does every step.
LEMMA MeantStep ==
  ASSUME StacksInv, Meant, [Next]_vars, [AmendIsNew]_vars
  PROVE  Meant'
<1>1. PICK w, t : Joined(w, t)
  BY DEF StacksInv
<1>2. CASE UNCHANGED sessionVars
  BY <1>2 DEF sessionVars, Meant
<1>3. CASE phase = "open" /\ operations < MaxOperations /\ Operation
  <2>1. CASE UNCHANGED vars
    BY <1>2, <2>1 DEF vars
  <2>2. CASE AmendIsNew
    BY <1>1, <1>3, <2>2, OperationMeans
  <2> QED BY <2>1, <2>2
<1> QED BY <1>2, <1>3 DEF Next, Commit, Rollback, Refused, RolledBack, vars

\* A commit the client has an id for is found by it, and so is no other.
LEMMA MeaningIs ==
  ASSUME NEW w, NEW t, Joined(w, t), Meant
  PROVE  IdsMeanTheirCommit
<1> SUFFICES ASSUME NEW id \in DOMAIN known
             PROVE  LET nodes == {n \in Picks(graph) : graph.step[n].commit.change = id}
                    IN /\ CommitNodes(id) \subseteq nodes
                       /\ id \notin {BlankCommit, CreatedCommit} =>
                            CommitNodes(id) = nodes /\ Cardinality(MappedTo(history, known[id])) <= 1
  BY DEF IdsMeanTheirCommit
<1> DEFINE nodes == {n \in Picks(graph) : graph.step[n].commit.change = id}
           o == known[id]
           M == MappedTo(history, o)
<1>1. Standing(w, t)
  BY DEF Joined
<1>2. ASSUME NEW n \in CommitNodes(id) PROVE n \in nodes
  <2>1. CommitNode(w, n, id)
    BY <1>1, <1>2, CommitNodesAre
  <2>2. n \in Picks(graph)
    BY <1>2 DEF CommitNodes
  <2> QED BY <2>1, <2>2 DEF CommitNode
<1>3. ASSUME id \notin {BlankCommit, CreatedCommit}
      PROVE  CommitNodes(id) = nodes /\ Cardinality(M) <= 1
  <2>1. /\ \A d, e \in DOMAIN history : history[d] = o /\ history[e] = o => d = e
        /\ \A n \in nodes : graph.step[n].commit \in DOMAIN history /\ history[graph.step[n].commit] = o
    BY <1>3 DEF Meant, Leads, Picks, IsPick
  <2>2. M \subseteq DOMAIN history /\ \A d \in M : history[d] = o /\ d # o
    BY DEF MappedTo
  <2>3. \A d \in DOMAIN history : history[d] = o /\ d # o => d \in M
    BY DEF MappedTo
  <2>4. Mapped(o) = IF M = {} THEN o ELSE CHOOSE d \in M : TRUE
    BY DEF Mapped
  <2> HIDE DEF M
  <2>5. Cardinality(M) <= 1
    <3>1. CASE M = {}
      <4>1. Cardinality({}) = 0
        BY FS_EmptySet
      <4> QED BY <3>1, <4>1
    <3>2. CASE M # {}
      <4>1. PICK d : d \in M
        BY <3>2
      <4>2. M = {d}
        BY <2>1, <2>2, <4>1
      <4>3. Cardinality({d}) = 1
        BY FS_Singleton
      <4> QED BY <4>2, <4>3
    <3> QED BY <3>1, <3>2
  <2>6. ASSUME NEW n \in nodes PROVE n \in CommitNodes(id)
    <3> DEFINE c == graph.step[n].commit
    <3>1. c \in DOMAIN history /\ history[c] = o
      BY <2>1
    <3> HIDE DEF c
    <3>2. Mapped(o) = c
      <4>1. CASE c = o
        <5>1. M = {}
          BY <2>1, <2>2, <3>1, <4>1
        <5> QED BY <2>4, <4>1, <5>1, SMTT(40)
      <4>2. CASE c # o
        <5>1. c \in M
          BY <2>3, <3>1, <4>2
        <5>2. M = {c}
          BY <2>1, <2>2, <3>1, <5>1
        <5> QED BY <2>4, <5>2
      <4> QED BY <4>1, <4>2
    <3> QED BY <3>2 DEF CommitNodes, c
  <2>7. CommitNodes(id) \subseteq nodes
    BY <1>2
  <2> QED BY <2>5, <2>6, <2>7
<1> QED BY <1>2, <1>3

\* IdsMeanTheirCommit holds in every state, whatever the stacks are and however many operations
\* there may be, if amended commits are new: CommitMappings::map sends every id the client was
\* told to the commit with that change and to no other, as update_mapping follows every rewrite
\* of Editor::rebase and the operations.
THEOREM IdsKeepTheirMeaning == Spec /\ AmendsAreNew => []IdsMeanTheirCommit
<1>1. Init => StacksInv /\ Meant
  BY InitJoins
<1>2. StacksInv /\ Meant /\ [Next]_vars /\ [AmendIsNew]_vars => (StacksInv /\ Meant)'
  BY StacksInvStep, MeantStep
<1>3. StacksInv /\ Meant => IdsMeanTheirCommit
  BY MeaningIs DEF StacksInv
<1> QED BY <1>1, <1>2, <1>3, PTL DEF Spec, AmendsAreNew
==============================================================================
