-------------------------- MODULE TransactionStacks --------------------------
(***************************************************************************)
(* That a transaction edits stacks: what of them the graph holds, and what *)
(* the repository, and the refinement of StackEdits.                       *)
(***************************************************************************)
EXTENDS Transaction

\* A stack read off the graph: its nodes from the bottom up, without the removed ones.
RECURSIVE Line(_, _)
Line(g, n) == IF g.parents[n] = <<>> THEN <<>> ELSE Append(Line(g, g.parents[n][1]), n)

PatchOf(c) ==
  IF IsConflicted(c) THEN Patch(c.sides[1], c.sides[2]) ELSE Patch(BaseTree(c), c.tree)
CommitItem(c) ==
  [kind |-> "commit", id |-> c.change, message |-> c.message, patch |-> PatchOf(c)]
ItemAt(g, n) ==
  IF IsPick(g, n) THEN CommitItem(g.step[n].commit)
  ELSE [kind |-> "reference", id |-> g.step[n].name]

StackAt(top) ==
  LET nodes == SelectSeq(Line(graph, top), LAMBDA n : graph.step[n] # NoStep)
  IN [i \in DOMAIN nodes |-> ItemAt(graph, nodes[i])]
Stacks ==
  LET tops == graph.parents[WorkspaceNode(graph)]
  IN [i \in DOMAIN tops |-> StackAt(tops[i])]

\* The same read off the repository, of which the client counts nothing as saved that was
\* created ahead.
RECURSIVE Chain(_)
Chain(c) == IF c.parents = <<>> THEN <<>> ELSE Append(Chain(c.parents[1]), CommitItem(c))

Saved ==
  LET tips == refs["workspace"].parents
  IN [commits |-> SelectSeq([i \in DOMAIN tips |-> Chain(tips[i])], LAMBDA chain : chain # <<>>),
      heads |-> [name \in DOMAIN refs \ (created \cup {"workspace"}) |->
                   IF refs[name] \in History(refs["workspace"]) THEN refs[name].change ELSE "stray"]]

Abstract == INSTANCE StackEdits WITH stacks <- Stacks, saved <- Saved

(***************************************************************************)
(* Rearranging the graph and picking every commit again is the edit of the *)
(* stacks that was asked for: each commit keeps its patch and its message  *)
(* through conflicts and out of them, the commits that were not named keep *)
(* their order and every reference its place; and the repository holds the *)
(* stacks from before the transaction, or those it ended with.  Of a       *)
(* squash from far below, what SquashHasBoth says of the patch is left     *)
(* out, since that is not so; the rest of it is claimed.                   *)
(* (with_transaction_with_perm, Editor::rebase, cherry_pick.)              *)
(***************************************************************************)
SquashesButForPatch ==
  /\ Abstract!FromFarBelow
  /\ \E id \in {asked'.target} : Abstract!SquashInto(Abstract!Item(id).patch')
IsStackEdit ==
  Abstract!Init /\ [][Abstract!Next \/ SquashesButForPatch]_<<Stacks, Saved>>

(***************************************************************************)
(* A squashed commit has "the tree produced from the target commit's full  *)
(* tree plus the subject commits' own change ranges": all the target had   *)
(* and all that the subject changed.  When the subject is an ancestor that *)
(* is not the parent, its changes are lost.                                *)
(* (squash_commits, construct_new_squashed_commit.)                        *)
(***************************************************************************)
SquashHasBoth == [][asked'.op = "squash" => Abstract!Squash]_vars
==============================================================================
