------------------------------ MODULE TreeMerge ------------------------------
(***************************************************************************)
(* The three-way merge of trees that picking a commit onto another parent  *)
(* is made of.  A tree says for every file what it holds; files are merged *)
(* whole, so that two sides that change one file differently clash.        *)
(***************************************************************************)
CONSTANTS File, Content

Tree == [File -> Content]

Touched(base, theirs) == {f \in File : base[f] # theirs[f]}

\* The files both sides change, and not into the same.
Clashes(base, ours, theirs) ==
  {f \in Touched(base, theirs) : ours[f] \notin {base[f], theirs[f]}}

\* merge_options_force_ours: a file that clashes stays as it is in ours.
Merge(base, ours, theirs) ==
  [f \in File |->
     IF f \in Touched(base, theirs) /\ ours[f] = base[f] THEN theirs[f] ELSE ours[f]]

\* What a commit does to its parent: for every file it touches, from what into what.
Patch(base, theirs) == [f \in Touched(base, theirs) |-> <<base[f], theirs[f]>>]

\* Two patches as one, the second on top of the first.
Composed(p, q) ==
  LET from(f) == IF f \in DOMAIN p THEN p[f][1] ELSE q[f][1]
      to(f)   == IF f \in DOMAIN q THEN q[f][2] ELSE p[f][2]
  IN [f \in {g \in DOMAIN p \cup DOMAIN q : from(g) # to(g)} |-> <<from(f), to(f)>>]
==============================================================================
