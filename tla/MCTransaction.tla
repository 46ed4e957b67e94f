---------------------------- MODULE MCTransaction ----------------------------
(* Transaction over two stacks with three commits of two files, and of three    *)
(* branches; and over one stack of three commits.                               *)
EXTENDS TransactionStacks

File_1 == {"f", "g"}
Content_1 == {"original", "uncommitted", "absent", "c1", "c2", "c3"}

C(id, writes) == [kind |-> "commit", id |-> id, writes |-> writes]
R(id) == [kind |-> "reference", id |-> id]

Layouts_1 ==
  { << <<C("c1", {"f"}), R("A1"), C("c2", {"f", "g"}), R("A2")>>, <<R("B")>> >>,
    << <<C("c1", {"f"}), C("c2", {"f"}), R("A")>>, <<C("c3", {"g"}), R("B")>> >>,
    << <<C("c1", {"f"}), C("c2", {"g"}), R("A1"), C("c3", {"f"}), R("A2")>> >> }

\* The topmost commit does not touch what the lowest wrote.
Layouts_2 == { << <<C("c1", {"f"}), C("c2", {"g"}), C("c3", {"g"}), R("A")>> >> }
==============================================================================
