----------------------------- MODULE RebaseGraph -----------------------------
(***************************************************************************)
(* The rebase engine, crates/but-rebase/src/graph_rebase: a graph of steps *)
(* that operations rearrange, and a rebase that picks every commit in it   *)
(* onto its present parents.                                               *)
(*                                                                         *)
(* A commit is its own id: what it is made of, its parents included; past  *)
(* are its ancestors, which are found by way of the parents.  The graph    *)
(* gives every node a step and the sequence of its parents, in the order   *)
(* of the edges.  Nodes keep their number over a rebase, so that a         *)
(* selector never needs to be normalised.  Only the workspace commit has   *)
(* several parents.                                                        *)
(***************************************************************************)
EXTENDS TreeMerge, RevisionHistory, Naturals, FiniteSets, SequencesExt

CONSTANT Absent       \* the content of every file of the empty tree

EmptyTree == [f \in File |-> Absent]

\* A commit and its ancestors.
History(c) == {c} \cup c.past
Past(parents) == UNION {History(p) : p \in ToSet(parents)}

\* sides is <<>> but for a conflicted commit, which keeps the trees it was merged from.
NewCommit(change, message, parents, tree) ==
  [change |-> change, message |-> message, parents |-> parents, past |-> Past(parents),
   tree |-> tree, sides |-> <<>>]
OnParents(c, parents) == [c EXCEPT !.parents = parents, !.past = Past(parents)]

IsConflicted(c) == c.sides # <<>>
TheirTree(c) == IF IsConflicted(c) THEN c.sides[2] ELSE c.tree

Pick(c) == [kind |-> "pick", commit |-> c, tracked |-> TRUE]
UntrackedPick(c) == [kind |-> "pick", commit |-> c, tracked |-> FALSE]
Reference(name) == [kind |-> "reference", name |-> name]
NoStep == [kind |-> "none"]

-----------------------------------------------------------------------------
(* The graph and its mutations, mutate.rs and util.rs.                       *)

IsPick(g, n) == g.step[n].kind = "pick"
Picks(g) == {n \in DOMAIN g.step : IsPick(g, n)}

AddStep(g, step, parents) ==
  [step |-> Append(g.step, step), parents |-> Append(g.parents, parents)]
Replace(g, n, step) == [g EXCEPT !.step[n] = step]

\* Mutant: the children keep the edge to the node.
DisconnectFromParents(g, n) ==
  [g EXCEPT !.parents =
     [m \in DOMAIN g.parents |->
        CASE m = n -> <<>>
          [] m # n /\ Contains(g.parents[m], n) -> g.parents[m] \o g.parents[n]
          [] OTHER -> g.parents[m]]]

\* disconnect_segment_from, for a commit of a stack: its child gets its parent.  The child
\* is never the workspace commit, since a stack's top is a reference or was one.
Disconnect(g, n) ==
  [g EXCEPT !.parents =
     [m \in DOMAIN g.parents |->
        CASE m = n -> <<>>
          [] m # n /\ Contains(g.parents[m], n) -> g.parents[n]
          [] OTHER -> g.parents[m]]]

\* insert and insert_segment, for a node without neighbours.  Above an anchor it takes
\* over the anchor's children, below it the anchor's parents.
Insert(g, n, anchor, side) ==
  [g EXCEPT !.parents =
     [m \in DOMAIN g.parents |->
        IF side = "Above"
        THEN IF m = n THEN <<anchor>> ELSE ReplaceAll(g.parents[m], anchor, n)
        ELSE CASE m = n -> g.parents[anchor]
               [] m = anchor -> <<n>>
               [] OTHER -> g.parents[m]]]

\* collect_ordered_parents: the commits found first on every way down, depth first.  The
\* loop visits no node twice.  A step that is no commit has one parent at most.
ThroughStep(parents, picks, acc) ==
  LET n == Head(acc.todo)
      rest == Tail(acc.todo)
  IN CASE acc.todo = <<>> -> acc
       [] acc.todo # <<>> /\ n \in picks -> [acc EXCEPT !.todo = rest, !.out = Append(@, n)]
       [] acc.todo # <<>> /\ n \notin picks /\ ToSet(parents[n]) \subseteq acc.seen ->
            [acc EXCEPT !.todo = rest]
       [] OTHER -> [acc EXCEPT !.todo = parents[n] \o rest, !.seen = @ \cup ToSet(parents[n])]
Through(parents, picks, n) ==
  LET walk[k \in 0 .. Len(parents)] ==
        IF k = 0 THEN [todo |-> parents[n], seen |-> ToSet(parents[n]), out |-> <<>>]
        ELSE ThroughStep(parents, picks, walk[k - 1])
  IN walk[Len(parents)].out

OrderedParents(g, n) == Through(g.parents, Picks(g), n)
ParentCommits(g, n) ==
  LET parents == OrderedParents(g, n)
  IN [i \in DOMAIN parents |-> g.step[parents[i]].commit]

\* find_reference_target, and where a rebase puts a reference.
Target(g, n) == Head(ParentCommits(g, n))

\* order_commit_selectors_by_parentage: those of the nodes that are reached, parents before
\* children, the last parent's line first.  A node is put on the stack once for every edge
\* to it and once more when its parents have been.
PostOrderStep(g, nodes, acc) ==
  LET top == Last(acc.stack)
      rest == Front(acc.stack)
      parents == OrderedParents(g, top.node)
  IN CASE acc.stack = <<>> -> acc
       [] acc.stack # <<>> /\ top.expanded ->
            [acc EXCEPT !.stack = rest, !.out = IF top.node \in nodes THEN Append(@, top.node) ELSE @]
       [] acc.stack # <<>> /\ ~top.expanded /\ top.node \in acc.seen -> [acc EXCEPT !.stack = rest]
       [] OTHER ->
            [acc EXCEPT !.stack = Append(rest, [node |-> top.node, expanded |-> TRUE])
                                    \o [i \in DOMAIN parents |-> [node |-> parents[i], expanded |-> FALSE]],
                        !.seen = @ \cup {top.node}]
PostOrder(g, n, nodes) ==
  LET steps == 3 * Len(g.step) + 1
      walk[k \in 0 .. steps] ==
        IF k = 0 THEN [stack |-> <<[node |-> n, expanded |-> FALSE]>>, seen |-> {}, out |-> <<>>]
        ELSE PostOrderStep(g, nodes, walk[k - 1])
  IN walk[steps].out

Ancestors(g, n) ==
  LET found[k \in 0 .. Len(g.step)] ==
        IF k = 0 THEN ToSet(OrderedParents(g, n))
        ELSE found[k - 1] \cup UNION {ToSet(OrderedParents(g, p)) : p \in found[k - 1]}
  IN found[Len(g.step)]

-----------------------------------------------------------------------------
(* Picking a commit, cherry_pick.rs.                                         *)

MergeBase(c, d) ==
  LET common == History(c) \cap History(d)
  IN CHOOSE b \in common : common \subseteq History(b)

\* merged_tree_from_commits: each further commit is merged from the base of all so far.
Absorb(sum, c) ==
  LET base == MergeBase(sum.base, c)
  IN [base |-> base,
      tree |-> Merge(base.tree, sum.tree, c.tree),
      clean |-> sum.clean /\ Clashes(base.tree, sum.tree, c.tree) = {}]
MergedTree(commits) ==
  LET sum[k \in 0 .. Len(commits) - 1] ==
        IF k = 0 THEN [base |-> commits[1], tree |-> commits[1].tree, clean |-> TRUE]
        ELSE Absorb(sum[k - 1], commits[k + 1])
  IN sum[Len(commits) - 1]

\* Mutant: a conflicted commit is taken for what it was resolved to.
BaseTreeOfParents(c) == IF c.parents = <<>> THEN EmptyTree ELSE MergedTree(c.parents).tree

\* Mutant: of several parents the first is what a commit changed.
BaseTreeOfFirst(c) ==
  CASE IsConflicted(c) -> c.sides[1]
    [] ~IsConflicted(c) /\ c.parents = <<>> -> EmptyTree
    [] OTHER -> Head(c.parents).tree

\* find_base_tree.
BaseTree(c) ==
  CASE IsConflicted(c) -> c.sides[1]
    [] ~IsConflicted(c) /\ c.parents = <<>> -> EmptyTree
    [] OTHER -> MergedTree(c.parents).tree

\* cherry_pick.  A commit whose parents are the ones it has stays itself, and so may
\* become unconflicted only on other parents.
CherryPick(c, ontos) ==
  LET base == BaseTree(c)
      onto == MergedTree(ontos).tree
  IN IF ontos = c.parents THEN c
     ELSE [OnParents(c, ontos) EXCEPT !.tree = Merge(base, onto, TheirTree(c)),
                                      !.sides = IF Clashes(base, onto, TheirTree(c)) = {}
                                                THEN <<>> ELSE <<base, TheirTree(c)>>]

-----------------------------------------------------------------------------
(* The rebase, rebase.rs.                                                    *)

\* order_steps_picking: a step comes when all its parents have.  Which of several such
\* steps goes first makes no difference.
Ready(parents, done) ==
  {n \in DOMAIN parents \ ToSet(done) : ToSet(parents[n]) \subseteq ToSet(done)}
PickingOrder(parents) ==
  LET done[k \in 0 .. Len(parents)] ==
        IF k = 0 THEN <<>>
        ELSE LET ready == Ready(parents, done[k - 1])
             IN IF ready = {} THEN done[k - 1] ELSE Append(done[k - 1], Min(ready))
  IN done[Len(parents)]

\* A session under edit: its graph, its history, and whether it has failed.
Session(g, history) == [graph |-> g, history |-> history, ok |-> TRUE]
Failed(session) == [session EXCEPT !.ok = FALSE]

\* One commit.  The parents' trees must merge; the workspace commit, which alone has
\* several, has nothing of its own that could clash.
PickStep(session, n) ==
  LET step == session.graph.step[n]
      ontos == ParentCommits(session.graph, n)
      new == CherryPick(step.commit, ontos)
  IN IF ~session.ok \/ step.kind # "pick" THEN session
     ELSE IF ontos # step.commit.parents /\ ~MergedTree(ontos).clean THEN Failed(session)
     ELSE [session EXCEPT !.graph = Replace(@, n, [step EXCEPT !.commit = new]),
                          !.history = IF step.tracked
                                      THEN UpdateMapping(@, step.commit, new) ELSE @]

PickAll(session, order) ==
  LET walk[k \in 0 .. Len(order)] == IF k = 0 THEN session ELSE PickStep(walk[k - 1], order[k])
  IN walk[Len(order)]

Rebase(session) ==
  IF session.ok THEN PickAll(session, PickingOrder(session.graph.parents)) ELSE session

\* The references a materialized rebase leaves: those in the graph, where it puts them.
ReferencesOf(g) ==
  LET nodes == {n \in DOMAIN g.step : g.step[n].kind = "reference"}
      node(name) == CHOOSE n \in nodes : g.step[n].name = name
  IN [name \in {g.step[n].name : n \in nodes} |-> Target(g, node(name))]
==============================================================================
