----------------------------- MODULE StackEdits ------------------------------
(***************************************************************************)
(* What a transaction over the workspace promises: its stacks are lists,   *)
(* and every operation is the edit of a list a user has in mind.  A stack  *)
(* goes from the bottom up; its items are references and commits, and a    *)
(* commit is its message and its patch, which moving it never changes.     *)
(* Nothing is saved before the transaction is committed, and then all is.  *)
(***************************************************************************)
EXTENDS TreeMerge, Naturals, FiniteSets, SequencesExt

VARIABLES stacks,  \* in the transaction
          saved,   \* in the repository
          asked    \* the operation of the last step

vars == <<stacks, saved, asked>>

AllItems == FlattenSeq(Reverse(stacks))
Item(id) == CHOOSE item \in ToSet(AllItems) : item.id = id
Stack(id) == CHOOSE i \in DOMAIN stacks : \E item \in ToSet(stacks[i]) : item.id = id
IsCommit(item) == item.kind = "commit"

Each(Do(_)) == LET now == stacks IN [i \in DOMAIN now |-> Do(now[i])]

Without(stack, ids) == SelectSeq(stack, LAMBDA item : item.id \notin ids)

\* The stack with items right above or below an anchor, if it is the anchor's.
Placed(stack, items, anchor, side) ==
  LET at == SelectInSeq(stack, LAMBDA item : item.id = anchor)
      below == IF side = "Above" THEN at ELSE at - 1
  IN IF at = 0 THEN stack
     ELSE SubSeq(stack, 1, below) \o items \o SubSeq(stack, below + 1, Len(stack))

Changed(item) ==
  LET Change(stack) == [k \in DOMAIN stack |-> IF stack[k].id = item.id THEN item ELSE stack[k]]
  IN Each(Change)

Edit(op) == asked'.op = op /\ UNCHANGED saved

\* Commits keep their order; those of a later stack come below.
Move ==
  /\ Edit("move")
  /\ LET moved == SelectSeq(AllItems, LAMBDA item : item.id \in asked'.what)
         Change(stack) == Placed(Without(stack, asked'.what), moved, asked'.anchor, asked'.side)
     IN stacks' = Each(Change)

Discard ==
  /\ Edit("discard")
  /\ stacks' = Each(LAMBDA stack : Without(stack, asked'.what))

\* The commits of a stack below one of them, nearest last.
Below(id) ==
  LET stack == SelectSeq(stacks[Stack(id)], IsCommit)
  IN SubSeq(stack, 1, SelectInSeq(stack, LAMBDA item : item.id = id) - 1)

\* A commit of this patch, with both messages, in the place of the target, and the subject gone.
SquashInto(patch) ==
  LET subject == Item(asked'.subject)
      changed == Changed([Item(asked'.target) EXCEPT !.message = @ \o subject.message,
                                                     !.patch = patch])
  IN /\ Edit("squash")
     /\ stacks' = [i \in DOMAIN changed |-> Without(changed[i], {subject.id})]

\* The target keeps all it has, and gets the changes of the subject: what a subject below it
\* did comes first, wherever below.
Squash ==
  LET subject == Item(asked'.subject)
      target == Item(asked'.target)
  IN SquashInto(IF Contains(Below(target.id), subject) THEN Composed(subject.patch, target.patch)
                ELSE Composed(target.patch, subject.patch))

\* Is the subject of a squash below the target, with commits in between?
FromFarBelow ==
  /\ asked'.op = "squash"
  /\ \E k \in DOMAIN Below(asked'.target) :
       k < Len(Below(asked'.target)) /\ Below(asked'.target)[k].id = asked'.subject

Reword ==
  /\ Edit("reword")
  /\ stacks' = Changed([Item(asked'.what) EXCEPT !.message = asked'.message])

Amend ==
  /\ Edit("amend")
  /\ stacks' = Changed([Item(asked'.what) EXCEPT !.patch = Composed(@, asked'.patch)])

\* What one commit does to a file becomes part of what another does.
MoveChange ==
  /\ Edit("move change")
  /\ LET from == Item(asked'.from)
         to == Item(asked'.to)
         change == asked'.file :> from.patch[asked'.file]
         rest == [f \in DOMAIN from.patch \ {asked'.file} |-> from.patch[f]]
         Change(stack) == [k \in DOMAIN stack |->
                             CASE stack[k] = from -> [from EXCEPT !.patch = rest]
                               [] stack[k] = to -> [to EXCEPT !.patch = Composed(@, change)]
                               [] OTHER -> stack[k]]
     IN stacks' = Each(Change)

\* A blank commit, one of uncommitted changes, or a reference.
Create ==
  /\ Edit("create")
  /\ stacks' = Each(LAMBDA stack : Placed(stack, <<asked'.item>>, asked'.anchor, asked'.side))

RemoveReference ==
  /\ Edit("remove")
  /\ stacks' = Each(LAMBDA stack : Without(stack, {asked'.what}))

\* What of the stacks a repository holds: their commits, and for every reference the
\* commit it is on, which is the target when there is none below.
Heads ==
  LET refs == {item \in ToSet(AllItems) : ~IsCommit(item)}
      on(ref) == LET stack == stacks[Stack(ref.id)]
                     below == SelectSeq(SubSeq(stack, 1, SelectInSeq(stack, LAMBDA item : item = ref)),
                                        IsCommit)
                 IN IF below = <<>> THEN "target" ELSE Last(below).id
  IN [name \in {ref.id : ref \in refs} |-> on(CHOOSE ref \in refs : ref.id = name)]

Repository ==
  [commits |-> SelectSeq([i \in DOMAIN stacks |-> SelectSeq(stacks[i], IsCommit)],
                         LAMBDA stack : stack # <<>>),
   heads |-> Heads]

Commit ==
  /\ asked'.op = "commit"
  /\ saved' = Repository
  /\ UNCHANGED stacks

Init == saved = Repository /\ asked = [op |-> "none"]

Next == Move \/ Discard \/ Squash \/ Reword \/ Amend \/ MoveChange \/ Create \/ RemoveReference \/ Commit

\* Anything else, a refused operation among it, changes neither the stacks nor the repository.
Spec == Init /\ [][Next]_<<stacks, saved>>
==============================================================================
