--------------------------- MODULE RevisionHistory ---------------------------
(***************************************************************************)
(* The commit mappings of a rebase session, RevisionHistory of             *)
(* crates/but-rebase/src/graph_rebase/mod.rs: a function from what commits *)
(* have become to what they were when the session began.                   *)
(***************************************************************************)

\* Mutant: a commit that was rewritten before counts as the original.
UpdateMappingUnchained(history, from, to) ==
  [c \in DOMAIN history \cup {to} |-> IF c = to THEN from ELSE history[c]]

UpdateMapping(history, from, to) ==
  LET rest == [c \in DOMAIN history \ {from} |-> history[c]]
      old == IF from \in DOMAIN history THEN history[from] ELSE from
  IN [c \in DOMAIN rest \cup {to} |-> IF c = to THEN old ELSE rest[c]]

\* commit_mappings, the other way round.
MappedTo(history, c) == {d \in DOMAIN history : history[d] = c /\ d # c}
==============================================================================
