----------------------------- MODULE Transaction -----------------------------
(***************************************************************************)
(* A transaction over the workspace, crates/but-transaction: operations of *)
(* crates/but-workspace one after the other, each rearranging the graph    *)
(* the rebase before it left and rebasing it again, and in the end all of  *)
(* them or none.  Nothing reaches the repository before, but references    *)
(* that are created.                                                       *)
(*                                                                         *)
(* The client names commits by the ids it knows; an id from before the     *)
(* transaction is mapped to the commit it has become.                      *)
(***************************************************************************)
EXTENDS RebaseGraph

CONSTANTS Layouts,      \* the stacks to begin with, see below
          Original,     \* the content of the files of the target
          Uncommitted,  \* what each of them holds in the worktree, if it is to be committed
          BlankCommit, CreatedCommit, NewReference,  \* what a transaction may add
          NewMessage,
          MaxOperations  \* bound on the operations of a transaction

\* What the stacks to begin with are made of.
Items == UNION {UNION {ToSet(stack) : stack \in ToSet(layout)} : layout \in Layouts}

\* A stack ends in a branch; commits and branches are told apart by their ids; and no two
\* stacks write to one file, or the workspace would not have been merged.
ASSUME LayoutsAssumption ==
  /\ Layouts \subseteq Seq(Seq(Items) \ {<<>>}) \ {<<>>}
  /\ \A item \in Items :
       /\ item.kind \in {"commit", "reference"}
       /\ item.id \notin {"target", "workspace", BlankCommit, CreatedCommit, NewReference}
  /\ \A layout \in Layouts : \A i, j \in DOMAIN layout :
       /\ Last(layout[i]).kind = "reference"
       /\ \A k \in DOMAIN layout[i], l \in DOMAIN layout[j] :
            /\ layout[i][k].id = layout[j][l].id => i = j /\ k = l
            /\ i # j /\ layout[i][k].kind = "commit" /\ layout[j][l].kind = "commit" =>
                 layout[i][k].writes \cap layout[j][l].writes = {}
ASSUME AddedAssumption ==
  /\ BlankCommit # CreatedCommit
  /\ {"target", "workspace"} \cap {BlankCommit, CreatedCommit, NewReference} = {}
  /\ MaxOperations \in Nat

VARIABLES graph, history,
          known,    \* the id by which the client knows a commit
          refs,     \* the references in the repository
          created,  \* those of them created ahead of the end
          phase,    \* is the transaction open?
          asked,    \* the last operation, "fail" if it was refused
          operations

sessionVars == <<graph, history, known>>
vars == <<sessionVars, refs, created, phase, asked, operations>>

-----------------------------------------------------------------------------
(* The graph to begin with, creation.rs.  A layout is the sequence of the    *)
(* stacks, each from the bottom up; an item is a reference, or a commit with *)
(* the files it writes.                                                      *)

TargetCommit == NewCommit("target", <<>>, <<>>, [f \in File |-> Original])

AddItem(stack, item) ==
  LET parent == stack.graph.step[stack.commit].commit
      written == [f \in File |-> IF f \in item.writes THEN item.id ELSE parent.tree[f]]
      commit == NewCommit(item.id, <<item.id>>, <<parent>>, written)
      next == Len(stack.graph.step) + 1
  IN IF item.kind = "commit"
     THEN [graph |-> AddStep(stack.graph, Pick(commit), <<stack.top>>), top |-> next, commit |-> next]
     ELSE [stack EXCEPT !.graph = AddStep(@, Reference(item.id), <<stack.top>>), !.top = next]

AddItems(start, stack) ==
  LET walk[k \in 0 .. Len(stack)] == IF k = 0 THEN start ELSE AddItem(walk[k - 1], stack[k])
  IN walk[Len(stack)]

AddStack(workspace, stack) ==
  LET added == AddItems([graph |-> workspace.graph, top |-> 1, commit |-> 1], stack)
  IN [graph |-> added.graph, tops |-> Append(workspace.tops, added.top),
      tips |-> Append(workspace.tips, added.graph.step[added.commit].commit)]
AddStacks(start, layout) ==
  LET walk[k \in 0 .. Len(layout)] == IF k = 0 THEN start ELSE AddStack(walk[k - 1], layout[k])
  IN walk[Len(layout)]

WorkspaceGraph(layout) ==
  LET target == [step |-> <<Pick(TargetCommit)>>, parents |-> << <<>> >>]
      all == AddStacks([graph |-> target, tops |-> <<>>, tips |-> <<>>], layout)
      commit == NewCommit("workspace", <<>>, all.tips, MergedTree(all.tips).tree)
      merged == AddStep(all.graph, Pick(commit), all.tops)
  IN AddStep(merged, Reference("workspace"), <<Len(merged.step)>>)

\* The only step nothing points to, other than those that were removed.
Top(g) == CHOOSE n \in DOMAIN g.step : g.step[n] = Reference("workspace")
WorkspaceNode(g) == g.parents[Top(g)][1]

CommitOf(g, change) == {g.step[n].commit : n \in {m \in Picks(g) : g.step[m].commit.change = change}}
Changes(g) == {g.step[n].commit.change : n \in Picks(g)} \ {"target", "workspace"}
Names(g) == DOMAIN ReferencesOf(g) \ {"workspace"}

\* with_transaction rebases once before the first operation.
Init ==
  \E layout \in Layouts :
    LET begun == Rebase(Session(WorkspaceGraph(layout), <<>>))
    IN /\ graph = begun.graph /\ history = begun.history
       /\ known = [c \in Changes(graph) |-> CHOOSE id \in CommitOf(graph, c) : TRUE]
       /\ refs = ReferencesOf(graph)
       /\ created = {} /\ phase = "open"
       /\ asked = [op |-> "none"] /\ operations = 0

-----------------------------------------------------------------------------
(* Selecting what the client names.                                          *)

\* CommitMappings::map.
Mapped(id) ==
  LET mapped == MappedTo(history, id)
  IN IF mapped = {} THEN id ELSE CHOOSE now \in mapped : TRUE

\* The nodes of a commit: none if the id is not of the graph any more.
CommitNodes(change) ==
  LET commit == Mapped(known[change])
  IN {n \in Picks(graph) : graph.step[n].commit = commit}
ReferenceNodes(name) == {n \in DOMAIN graph.step : graph.step[n] = Reference(name)}
NodesOf(id) == IF id \in DOMAIN known THEN CommitNodes(id) ELSE ReferenceNodes(id)
Found(ids) == \A id \in ids : NodesOf(id) # {}
Node(id) == CHOOSE n \in NodesOf(id) : TRUE
CommitAt(id) == graph.step[Node(id)].commit

\* What an anchor may be: any commit, and a reference, but nothing goes above the top
\* reference of a stack.  Callers ask for none that they move.
Anchors(without) ==
  (DOMAIN known \cup Names(graph)) \ without
AboveTop(anchor, side) ==
  side = "Above" /\ \E n \in ReferenceNodes(anchor) : Contains(graph.parents[WorkspaceNode(graph)], n)

-----------------------------------------------------------------------------
(* An operation: Transaction::rebase around it.                              *)

\* The references created ahead are deleted again, in a rollback.
WithoutCreated == [name \in DOMAIN refs \ created |-> refs[name]]

RolledBack ==
  /\ phase' = "over"
  /\ refs' = WithoutCreated /\ created' = {}
  /\ UNCHANGED sessionVars

Refused == asked' = [op |-> "fail"] /\ RolledBack

\* The session after the operation and its rebase becomes the transaction's; an error is
\* passed on by the callback and ends it.
Attempt(op, found, edited) ==
  /\ operations' = operations + 1
  /\ \/ /\ found /\ edited.ok
        /\ asked' = op
        /\ graph' = edited.graph /\ history' = edited.history
        /\ phase' = phase
     \/ /\ ~(found /\ edited.ok)
        /\ Refused

With(f, x, y) == [z \in DOMAIN f \cup {x} |-> IF z = x THEN y ELSE f[z]]

Unaffected == phase' = "open" => UNCHANGED <<known, refs, created>>
Edited(g) == Rebase(Session(g, history))

-----------------------------------------------------------------------------
(* The operations of but-workspace.                                          *)

\* move_commits: in the order of parentage, each right above or below the anchor, so that
\* above it the topmost commit goes first.
MoveOne(g, n, anchor, side) == Insert(Disconnect(g, n), n, anchor, side)
MoveAll(g, sequence, anchor, side) ==
  LET walk[k \in 0 .. Len(sequence)] ==
        IF k = 0 THEN g ELSE MoveOne(walk[k - 1], sequence[k], anchor, side)
  IN walk[Len(sequence)]

MoveCommits(changes, anchor, side) ==
  LET ordered == PostOrder(graph, Top(graph), {Node(c) : c \in changes})
      sequence == IF side = "Above" THEN Reverse(ordered) ELSE ordered
  IN /\ ~AboveTop(anchor, side)
     /\ Attempt([op |-> "move", what |-> changes, anchor |-> anchor, side |-> side],
                Found(changes \cup {anchor}), Edited(MoveAll(graph, sequence, Node(anchor), side)))
     /\ Unaffected

\* discard_commits.  The order makes no difference.
DiscardOne(g, n) == Replace(Disconnect(g, n), n, NoStep)
DiscardAll(g, nodes) ==
  LET walk[k \in 0 .. Len(g.step)] ==
        IF k = 0 THEN g ELSE IF k \in nodes THEN DiscardOne(walk[k - 1], k) ELSE walk[k - 1]
  IN walk[Len(g.step)]

DiscardCommits(changes) ==
  /\ Attempt([op |-> "discard", what |-> changes], Found(changes),
             Edited(DiscardAll(graph, {Node(c) : c \in changes})))
  /\ Unaffected

\* squash_commits of one subject, keeping both messages.  merge_commit_changes_to_tree
\* leaves a subject out that the target has in its history.  The parents the new commit
\* gets are those of the target once the subject is gone, not yet rebased; a removed
\* reference among them is an error.
SquashCommits(subject, target) ==
  LET s == Node(subject)
      t == Node(target)
      from == CommitAt(subject)
      into == CommitAt(target)
      base == BaseTree(from)
      pruned == s \in Ancestors(graph, t)
      tree == IF pruned THEN into.tree ELSE Merge(base, into.tree, from.tree)
      without == DiscardOne(graph, s)
      parents == without.parents[t]
      parent(i) == IF IsPick(without, parents[i]) THEN without.step[parents[i]].commit
                   ELSE Target(without, parents[i])
      squashed == [OnParents(into, [i \in DOMAIN parents |-> parent(i)])
                     EXCEPT !.message = @ \o from.message, !.tree = tree]
      session == Session(Replace(without, t, Pick(squashed)), UpdateMapping(history, into, squashed))
      fits == /\ pruned \/ Clashes(base, into.tree, from.tree) = {}
              /\ \A p \in ToSet(parents) : without.step[p] # NoStep
  IN /\ Found({subject, target}) => ~IsConflicted(from) /\ ~IsConflicted(into)
     /\ Attempt([op |-> "squash", subject |-> subject, target |-> target],
                Found({subject, target}), IF fits THEN Rebase(session) ELSE Failed(session))
     /\ Unaffected

\* reword.
RewordCommit(change) ==
  LET commit == CommitAt(change)
      reworded == [commit EXCEPT !.message = <<NewMessage>>]
  IN /\ Attempt([op |-> "reword", what |-> change, message |-> <<NewMessage>>], Found({change}),
                Rebase(Session(Replace(graph, Node(change), Pick(reworded)),
                               UpdateMapping(history, commit, reworded))))
     /\ Unaffected

\* A file of the worktree whose change is to be committed: the change is one of HEAD, which
\* the operations before have not moved, and is merged into a commit's tree.  Each file's is
\* committed once.
Worktree(file) == [refs["workspace"].tree EXCEPT ![file] = Uncommitted]
ChangeOf(file) == file :> <<refs["workspace"].tree[file], Uncommitted>>
Rejected(tree, file) == Clashes(refs["workspace"].tree, tree, Worktree(file)) # {}
WithChange(tree, file) == Merge(refs["workspace"].tree, tree, Worktree(file))
IsUncommitted(file) ==
  \A c \in {graph.step[n].commit : n \in Picks(graph)} :
     \A tree \in {c.tree} \cup ToSet(c.sides) : tree[file] # Uncommitted

\* A rejected change is reported, and the graph rebased as it is.
ReportRejected(found) ==
  /\ Attempt([op |-> "rejected"], found, Edited(graph))
  /\ Unaffected

\* commit_amend.  The new id is not noted in the history: the client has to go on with the
\* one it is told.
AmendCommit(change, file) ==
  LET commit == CommitAt(change)
      found == Found({change})
      amended == [commit EXCEPT !.tree = WithChange(@, file)]
      session == Session(Replace(graph, Node(change), Pick(amended)), history)
  IN /\ IsUncommitted(file)
     /\ \/ /\ found => IsConflicted(commit) \/ ~Rejected(commit.tree, file)
           /\ Attempt([op |-> "amend", what |-> change, patch |-> ChangeOf(file)], found,
                      IF IsConflicted(commit) THEN Failed(session) ELSE Rebase(session))
           /\ phase' = "open" =>
                /\ known' = [known EXCEPT ![change] = graph'.step[Node(change)].commit]
                /\ UNCHANGED <<refs, created>>
        \/ /\ found /\ ~IsConflicted(commit) /\ Rejected(commit.tree, file)
           /\ ReportRejected(found)

\* commit_create, on the commit it is to come right after.
CreateCommit(anchor, side, file) ==
  LET at == Node(anchor)
      parent == CASE ~IsPick(graph, at) -> Target(graph, at)
                  [] IsPick(graph, at) /\ side = "Above" -> CommitAt(anchor)
                  [] OTHER -> Head(CommitAt(anchor).parents)
      commit == NewCommit(CreatedCommit, <<CreatedCommit>>, <<parent>>, WithChange(parent.tree, file))
      new == Len(graph.step) + 1
      item == [kind |-> "commit", id |-> CreatedCommit, message |-> <<CreatedCommit>>,
               patch |-> ChangeOf(file)]
      found == Found({anchor})
  IN /\ IsUncommitted(file) /\ ~AboveTop(anchor, side)
     /\ \/ /\ found => ~Rejected(parent.tree, file)
           /\ Attempt([op |-> "create", item |-> item, anchor |-> anchor, side |-> side], found,
                      Edited(Insert(AddStep(graph, UntrackedPick(commit), <<>>), new, at, side)))
           /\ phase' = "open" =>
                /\ known' = With(known, CreatedCommit, graph'.step[new].commit)
                /\ UNCHANGED <<refs, created>>
        \/ /\ found /\ Rejected(parent.tree, file)
           /\ ReportRejected(found)

\* move_changes_between_commits: all the source does to a file.  Taken out of the source,
\* rebased, and merged into what the target is then.
MoveChanges(source, target, file) ==
  LET from == CommitAt(source)
      before == Head(from.parents).tree
      without == [from EXCEPT !.tree[file] = before[file]]
      taken == Rebase(Session(Replace(graph, Node(source), Pick(without)),
                              UpdateMapping(history, from, without)))
      into == taken.graph.step[Node(target)].commit
      with == [into EXCEPT !.tree = Merge(without.tree, from.tree, @)]
      session == [taken EXCEPT !.graph = Replace(@, Node(target), Pick(with)),
                               !.history = UpdateMapping(@, into, with)]
      fits == /\ ~IsConflicted(from) /\ taken.ok /\ ~IsConflicted(into)
              /\ Clashes(without.tree, from.tree, into.tree) = {}
  IN /\ Found({source, target}) => IsConflicted(from) \/ from.tree[file] # before[file]
     /\ Attempt([op |-> "move change", from |-> source, to |-> target, file |-> file],
                Found({source, target}), IF fits THEN Rebase(session) ELSE Failed(session))
     /\ Unaffected

\* insert_blank_commit: an empty commit of the empty tree, picked where it is inserted.
\* It is not tracked.
InsertBlankCommit(anchor, side) ==
  LET new == Len(graph.step) + 1
      blank == NewCommit(BlankCommit, <<>>, <<>>, EmptyTree)
      item == [kind |-> "commit", id |-> BlankCommit, message |-> <<>>, patch |-> <<>>]
  IN /\ ~AboveTop(anchor, side)
     /\ Attempt([op |-> "create", item |-> item, anchor |-> anchor, side |-> side], Found({anchor}),
                Edited(Insert(AddStep(graph, UntrackedPick(blank), <<>>), new, Node(anchor), side)))
     /\ phase' = "open" =>
          /\ known' = With(known, BlankCommit, graph'.step[new].commit)
          /\ UNCHANGED <<refs, created>>

\* create_reference next to another one.  It is in the repository from now on, though the
\* commit it is on may not be.
CreateReference(anchor, side) ==
  LET new == Len(graph.step) + 1
      item == [kind |-> "reference", id |-> NewReference]
  IN /\ Attempt([op |-> "create", item |-> item, anchor |-> anchor, side |-> side], Found({anchor}),
                Edited(Insert(AddStep(graph, Reference(NewReference), <<>>), new, Node(anchor), side)))
     /\ phase' = "open" =>
          /\ refs' = With(refs, NewReference, Target(graph, Node(anchor)))
          /\ created' = created \cup {NewReference}
          /\ UNCHANGED known

\* remove_reference.  One that was created ahead is deleted at once.
RemoveReference(name) ==
  /\ Attempt([op |-> "remove", what |-> name], Found({name}),
             Edited(Replace(graph, Node(name), NoStep)))
  /\ phase' = "open" =>
       /\ refs' = [r \in DOMAIN refs \ (created \cap {name}) |-> refs[r]]
       /\ created' = created \ {name}
       /\ UNCHANGED known

-----------------------------------------------------------------------------
(* The end.                                                                  *)

\* materialize: the checkout comes first and refuses to overwrite uncommitted changes;
\* then all references are written at once.
Commit ==
  /\ phase = "open"
  /\ \/ /\ asked' = [op |-> "commit"]
        /\ refs' = ReferencesOf(graph)
        /\ phase' = "over" /\ created' = {}
        /\ UNCHANGED sessionVars
     \/ Refused
  /\ UNCHANGED operations

\* The client rolls back, or it was a dry run.
Rollback ==
  /\ phase = "open"
  /\ asked' = [op |-> "rollback"]
  /\ RolledBack
  /\ UNCHANGED operations

Sides == {"Above", "Below"}

Operation ==
  \/ \E changes \in SUBSET DOMAIN known \ {{}}, side \in Sides :
       /\ Cardinality(changes) <= 2
       /\ \E anchor \in Anchors(changes) : MoveCommits(changes, anchor, side)
  \/ \E changes \in SUBSET DOMAIN known \ {{}} : DiscardCommits(changes)
  \/ \E subject, target \in DOMAIN known : subject # target /\ SquashCommits(subject, target)
  \/ \E change \in DOMAIN known : RewordCommit(change)
  \/ \E change \in DOMAIN known, file \in File : AmendCommit(change, file)
  \/ \E source, target \in DOMAIN known, file \in File :
       source # target /\ MoveChanges(source, target, file)
  \/ CreatedCommit \notin DOMAIN known
     /\ \E anchor \in Anchors({}), side \in Sides, file \in File : CreateCommit(anchor, side, file)
  \/ BlankCommit \notin DOMAIN known
     /\ \E anchor \in Anchors({}), side \in Sides : InsertBlankCommit(anchor, side)
  \/ NewReference \notin DOMAIN refs
     /\ \E anchor \in Names(graph), side \in Sides :
          ~AboveTop(anchor, side) /\ CreateReference(anchor, side)
  \/ \E name \in Names(graph) : RemoveReference(name)

Next ==
  \/ phase = "open" /\ operations < MaxOperations /\ Operation
  \/ Commit
  \/ Rollback

Spec == Init /\ [][Next]_vars

-----------------------------------------------------------------------------
(* Correctness.                                                              *)

(***************************************************************************)
(* A client that goes on with the id it was told of a commit means that    *)
(* commit, however often it was rewritten since, and never another one;    *)
(* one that the transaction created may get lost, as its picks are not     *)
(* tracked.                                                                *)
(* (CommitMappings, RevisionHistory::update_mapping.)                      *)
(***************************************************************************)
IdsMeanTheirCommit ==
  \A id \in DOMAIN known :
    LET nodes == {n \in Picks(graph) : graph.step[n].commit.change = id}
    IN /\ CommitNodes(id) \subseteq nodes
       /\ id \notin {BlankCommit, CreatedCommit} =>
            CommitNodes(id) = nodes /\ Cardinality(MappedTo(history, known[id])) <= 1

(***************************************************************************)
(* The tree that is checked out is that of the stacks together: after each *)
(* operation the workspace commit has for parents the commits on top of    *)
(* the stacks, and it brings in nothing that is not theirs and loses       *)
(* nothing, though it is never made anew but picked like any other commit. *)
(* (Editor::rebase, merged_tree_from_commits.)                             *)
(***************************************************************************)
WorkspaceIsItsStacks ==
  LET node == WorkspaceNode(graph)
      commit == graph.step[node].commit
  IN /\ commit.parents = ParentCommits(graph, node)
     /\ \A f \in File :
          commit.tree[f] \in
            {Original} \cup {graph.step[n].commit.tree[f] : n \in ToSet(OrderedParents(graph, node))}
     /\ \A n \in ToSet(OrderedParents(graph, node)) : \A f \in File :
          graph.step[n].commit.tree[f] # Original => commit.tree[f] = graph.step[n].commit.tree[f]

\* Nothing but the workspace commit has several parents, and no commit is among them when
\* the stacks end in references; what was created ahead is in the repository.
TypeOK ==
  /\ DOMAIN graph.step = DOMAIN graph.parents
  /\ \A n \in DOMAIN graph.parents :
       /\ ToSet(graph.parents[n]) \subseteq DOMAIN graph.step
       /\ n # WorkspaceNode(graph) => Len(graph.parents[n]) <= 1
  /\ ~\E n \in ToSet(graph.parents[WorkspaceNode(graph)]) : IsPick(graph, n)
  /\ created \subseteq {NewReference} \cap DOMAIN refs
  /\ phase \in {"open", "over"}
  /\ operations \in 0..MaxOperations
==============================================================================
