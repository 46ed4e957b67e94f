----------------------------- MODULE UndoHistory -----------------------------
(***************************************************************************)
(* What undo and redo promise, as the two stacks every editor has.         *)
(* `now` is the state of the repository; `past` holds the states that undo *)
(* walks back through, `future` those that redo walks forward through;     *)
(* `mark` is the state an operation in progress saw when it started.       *)
(* The log of the code is append-only and keeps none of these stacks: that *)
(* its two walks behave like them is what UndoRedo is shown to implement.  *)
(***************************************************************************)
EXTENDS SequencesExt

CONSTANTS State, NoMark
\* NoMark is no State.

VARIABLES now, past, future, mark
vars == <<now, past, future, mark>>

Init == now \in State /\ past = <<>> /\ future = <<>> /\ mark = NoMark

\* The user, another tool or an operation that leaves no snapshot changes the files.
Drift == now' \in State /\ UNCHANGED <<past, future, mark>>

Start == mark = NoMark /\ mark' \in {now, NoMark} /\ UNCHANGED <<now, past, future>>

\* A finished operation is one more step to undo, and there is nothing to redo.
Operate(before) ==
  /\ past' = Append(past, before)
  /\ future' = <<>>

Finish == mark # NoMark /\ Operate(mark) /\ now' \in State /\ mark' = NoMark

Record == mark = NoMark /\ Operate(now) /\ UNCHANGED <<now, mark>>

Cancel == mark' = NoMark /\ UNCHANGED <<now, past, future>>

Restore == mark = NoMark /\ Operate(now) /\ now' \in State /\ UNCHANGED mark

Undo ==
  /\ mark = NoMark /\ past # <<>>
  /\ now' = Last(past)
  /\ past' = Front(past)
  /\ future' = Append(future, now)
  /\ UNCHANGED mark

Redo ==
  /\ mark = NoMark /\ future # <<>>
  /\ now' = Last(future)
  /\ future' = Front(future)
  /\ past' = Append(past, now)
  /\ UNCHANGED mark

Next == Drift \/ Start \/ Finish \/ Record \/ Cancel \/ Restore \/ Undo \/ Redo

Spec == Init /\ [][Next]_vars
==============================================================================
