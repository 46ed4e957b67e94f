-------------------------- MODULE HunkRanges_proofs --------------------------
(***************************************************************************)
(* That the ranges of a stack name the lines its commits wrote and the     *)
(* places where they removed lines, for any number of stacks, commits,     *)
(* hunks and lines: the runs of HunkRanges see small files only.           *)
(*                                                                         *)
(* From the inside out: what `receive` leaves of one range, what one hunk  *)
(* does to a sequence of ranges, what an edit does to the file, and both   *)
(* together for the hunks of a diff, by induction (AddOK).  Says is what   *)
(* ranges name and FileSays what the file is; the inductive invariant of   *)
(* the specification (StackOK) is that they agree, place by place, for     *)
(* every commit.  The shifts follow the same way (ShiftsOK): what counts   *)
(* above a line of the merge base is how far the line has moved.  Where a  *)
(* line of the merge base still is no range names it (Free), so a hunk     *)
(* never divides the shift of a range across it.                           *)
(*                                                                         *)
(* Last come the stacks together: combining them takes every range once    *)
(* (CombineOK), and the lookup is right where the ranges are the blame.    *)
(* That combined ranges in order are the workspace's is argued in the      *)
(* merge base, to which a range is taken back by the shifts before it      *)
(* (BaseTop, BaseBottom): there independent stacks lie on either side of   *)
(* each other (Apart), and what comes out in order has been moved by just  *)
(* what the other stacks have above it (Placed, ChainOK, WorkspaceIs).     *)
(*                                                                         *)
(* The theorems on behaviours assume GixHeaders = FALSE, the headers as    *)
(* this crate's comments and tests have them.  With the others they are    *)
(* false: HunkRangesHeaders is the counterexample.  Where no span is empty *)
(* (HeadersAgree) the headers are the same; SubstitutionsLocked is about   *)
(* that.                                                                   *)
(***************************************************************************)
EXTENDS HunkRanges, SequenceTheorems, Induction

\* A span whose coordinates make sense: the lines of a file count from one.
SpanOK(start, lines) == lines > 0 => start > 0

RangeTop(r) == Top(r.start, r.lines)
RangeBottom(r) == Bottom(r.start, r.lines)

HunkTop(h) == Top(h.oldStart, h.oldLines)
HunkBottom(h) == Bottom(h.oldStart, h.oldLines)

\* A range of lines in the file.
GoodRange == {r \in HunkRange : SpanOK(r.start, r.lines)}
GoodHunk == {h \in Hunk : SpanOK(h.oldStart, h.oldLines) /\ SpanOK(h.newStart, h.newLines)}

\* What a range names: its lines, or the gap after line n when it has none.
Owns(r, gap, n) ==
  IF gap THEN RangeTop(r) = RangeBottom(r) /\ n = RangeTop(r)
  ELSE RangeTop(r) < n /\ n <= RangeBottom(r)

\* The places above the lines a hunk replaces; those below its bottom are n > bottom.
Above(top, gap, n) == IF gap THEN n < top ELSE n <= top

ShiftOf(rest) == IF rest = <<>> THEN 0 ELSE rest[1].shift

-----------------------------------------------------------------------------
(* HunkRange::receive *)

\* Top and Bottom are naturals for such a span.
LEMMA SpanTop ==
    ASSUME NEW start \in Nat, NEW lines \in Nat, SpanOK(start, lines)
    PROVE  /\ Top(start, lines) \in Nat
           /\ Bottom(start, lines) \in Nat
           /\ Bottom(start, lines) = Top(start, lines) + lines
BY DEF SpanOK, Top, Bottom

\* Top and Bottom of a range.
LEMMA RangeSpan ==
    ASSUME NEW r \in GoodRange
    PROVE  /\ RangeTop(r) \in Nat /\ RangeBottom(r) \in Nat /\ r.lines \in Nat
           /\ RangeBottom(r) = RangeTop(r) + r.lines
<1>1. r.start \in Nat /\ r.lines \in Nat /\ SpanOK(r.start, r.lines)
  BY DEF GoodRange, HunkRange
<1> QED BY <1>1, SpanTop DEF RangeTop, RangeBottom

\* The share of a split is an integer, though it is rounded.
LEMMA ShareAboveInt ==
    ASSUME NEW net \in Int, NEW above \in Nat, NEW below \in Nat
    PROVE  ShareAbove(net, above, below) \in Int
<1>1. ASSUME NEW a \in Int, NEW b \in Nat, b > 0
      PROVE  Quotient(a, b) \in Int
  BY <1>1 DEF Quotient
<1>2. CASE above + below = 0
  BY <1>1, <1>2 DEF ShareAbove
<1>3. CASE above + below # 0
  <2>1. net * above \in Int /\ above + below \in Nat /\ above + below > 0
    BY <1>3
  <2> QED
    BY <1>1, <1>3, <2>1 DEF ShareAbove
<1> QED
  BY <1>2, <1>3

\* Trimming a range to [top, bottom) yields a range with these lines, and the
\* u32 conversions of set_top_bottom do not fail.
LEMMA Trimmed ==
    ASSUME NEW r \in HunkRange, NEW top \in Nat, NEW bottom \in Nat, top < bottom
    PROVE  LET t == SetTopBottom(r, top, bottom)
           IN  /\ t \in GoodRange /\ t.commit = r.commit
               /\ RangeTop(t) = top /\ RangeBottom(t) = bottom
<1>1. bottom - top \in Nat /\ bottom - top > 0 /\ top + 1 \in Nat
  OBVIOUS
<1>2. StartOf(top, bottom - top) = top + 1
  BY <1>1 DEF StartOf
<1>3. r = [kind |-> r.kind, commit |-> r.commit, start |-> r.start, lines |-> r.lines,
           shift |-> r.shift]
  BY DEF HunkRange
<1>4. SetTopBottom(r, top, bottom) =
          [kind |-> r.kind, commit |-> r.commit, start |-> top + 1, lines |-> bottom - top,
           shift |-> r.shift]
  <2>1. SetTopBottom(r, top, bottom) = [r EXCEPT !.lines = bottom - top, !.start = top + 1]
    BY <1>2 DEF SetTopBottom
  <2> QED BY <1>3, <2>1
<1> DEFINE t == SetTopBottom(r, top, bottom)
<1>5. /\ t \in HunkRange
      /\ t.start = top + 1 /\ t.lines = bottom - top /\ t.commit = r.commit
  BY <1>1, <1>4 DEF HunkRange
<1> HIDE DEF t
<1>6. t \in GoodRange
  BY <1>1, <1>5 DEF GoodRange, SpanOK
<1>7. RangeTop(t) = top /\ RangeBottom(t) = bottom
  BY <1>1, <1>5 DEF RangeTop, RangeBottom, Top, Bottom
<1> QED
  BY <1>5, <1>6, <1>7 DEF t

\* What a range leaves above the line `top`, and below the line `bottom`.
IsAbove(rest, r, top) ==
  \/ rest = <<>> /\ top <= RangeTop(r)
  \/ \E a \in GoodRange :
       /\ rest = <<a>> /\ a.commit = r.commit
       /\ RangeTop(r) < top /\ RangeTop(a) = RangeTop(r)
       /\ RangeBottom(a) = IF top < RangeBottom(r) THEN top ELSE RangeBottom(r)

IsBelow(rest, r, bottom) ==
  \/ rest = <<>> /\ RangeBottom(r) <= bottom
  \/ \E b \in GoodRange :
       /\ rest = <<b>> /\ b.commit = r.commit
       /\ bottom < RangeBottom(r) /\ RangeBottom(b) = RangeBottom(r)
       /\ RangeTop(b) = IF bottom > RangeTop(r) THEN bottom ELSE RangeTop(r)

\* What `receive` leaves, before the shifts are divided.
LEMMA Pieces ==
    ASSUME NEW r \in GoodRange, NEW h \in GoodHunk
    PROVE  /\ IsAbove(LeftAbove(r, h), r, Top(h.oldStart, h.oldLines))
           /\ IsBelow(LeftBelow(r, h), r, Bottom(h.oldStart, h.oldLines))
<1> DEFINE it == Top(h.oldStart, h.oldLines)
           ib == Bottom(h.oldStart, h.oldLines)
           st == RangeTop(r)
           sb == RangeBottom(r)
<1>1. /\ it \in Nat /\ ib \in Nat /\ st \in Nat /\ sb \in Nat /\ r.lines \in Nat
      /\ sb = st + r.lines /\ sb - r.lines = st /\ r \in HunkRange
  BY SpanTop, RangeSpan DEF GoodRange, GoodHunk, Hunk
<1>2. LeftAbove(r, h) = IF it <= st THEN <<>>
                        ELSE IF it < sb THEN <<SetTopBottom(r, st, it)>> ELSE <<r>>
  BY <1>1 DEF LeftAbove, RangeTop
<1>3. LeftBelow(r, h) = IF ib >= sb THEN <<>>
                        ELSE IF ib > st THEN <<SetTopBottom(r, ib, sb)>> ELSE <<r>>
  BY <1>1 DEF LeftBelow, RangeBottom
<1>4. IsAbove(LeftAbove(r, h), r, it)
  <2> HIDE DEF it, ib
  <2>1. CASE it <= st
    BY <1>2, <2>1 DEF IsAbove
  <2>2. CASE it > st /\ it < sb
    <3>1. LeftAbove(r, h) = <<SetTopBottom(r, st, it)>>
      BY <1>1, <1>2, <2>2
    <3> QED BY <1>1, <2>2, <3>1, Trimmed DEF IsAbove
  <2>3. CASE it > st /\ it >= sb
    BY <1>1, <1>2, <2>3 DEF IsAbove
  <2> QED BY <1>1, <2>1, <2>2, <2>3
<1>5. IsBelow(LeftBelow(r, h), r, ib)
  <2> HIDE DEF it, ib
  <2>1. CASE ib >= sb
    BY <1>3, <2>1 DEF IsBelow
  <2>2. CASE ib < sb /\ ib > st
    <3>1. LeftBelow(r, h) = <<SetTopBottom(r, ib, sb)>>
      BY <1>1, <1>3, <2>2
    <3> QED BY <1>1, <2>2, <3>1, Trimmed DEF IsBelow
  <2>3. CASE ib < sb /\ ib <= st
    BY <1>1, <1>3, <2>3 DEF IsBelow
  <2> QED BY <1>1, <2>1, <2>2, <2>3
<1> QED BY <1>4, <1>5

\* A piece is nothing or one range, and keeps its place when it is given its shift.
LEMMA ShiftGiven ==
    ASSUME NEW a \in GoodRange, NEW shift \in Int
    PROVE  \E b \in GoodRange : /\ WithShift(<<a>>, shift) = <<b>>
                                /\ b.shift = shift /\ b.commit = a.commit
                                /\ RangeTop(b) = RangeTop(a) /\ RangeBottom(b) = RangeBottom(a)
<1> DEFINE b == [a EXCEPT !.shift = shift]
<1>1. <<a>> # <<>> /\ <<a>>[1] = a
  OBVIOUS
<1>2. WithShift(<<a>>, shift) = <<b>>
  BY <1>1 DEF WithShift
<1>3. a \in HunkRange /\ SpanOK(a.start, a.lines)
  BY DEF GoodRange
<1>4. /\ b \in HunkRange
      /\ b.shift = shift /\ b.start = a.start /\ b.lines = a.lines /\ b.commit = a.commit
  BY <1>3 DEF HunkRange
<1> HIDE DEF b
<1> QED BY <1>2, <1>3, <1>4 DEF GoodRange, RangeTop, RangeBottom

\* Top and Bottom of the lines a hunk replaces.
LEMMA HunkSpan ==
  ASSUME NEW h \in GoodHunk
  PROVE  HunkTop(h) \in Nat /\ HunkBottom(h) \in Nat /\ HunkTop(h) <= HunkBottom(h)
<1>1. h.oldStart \in Nat /\ h.oldLines \in Nat /\ SpanOK(h.oldStart, h.oldLines)
  BY DEF GoodHunk, Hunk
<1> QED BY <1>1, SpanTop DEF HunkTop, HunkBottom

\* What `receive` returns: the pieces, and shifts that add up.
LEMMA Received ==
    ASSUME NEW r \in GoodRange, NEW h \in GoodHunk
    PROVE  LET got == Receive(r, h)
           IN  /\ IsAbove(got.above, r, HunkTop(h))
               /\ IsBelow(got.below, r, HunkBottom(h))
               /\ got.change \in Int
               /\ ShiftOf(got.above) + ShiftOf(got.below) + got.change = r.shift
<1> DEFINE above == LeftAbove(r, h)
           below == LeftBelow(r, h)
           deduct == r.lines - (LinesLeft(above) + LinesLeft(below))
           net == r.shift - deduct
           share == IF below = <<>> THEN net
                    ELSE ShareAbove(net, LinesLeft(above), LinesLeft(below))
           rest == ShiftBelow(net, above, share)
           got == Receive(r, h)
           it == HunkTop(h)
           ib == HunkBottom(h)
<1>1. /\ got.above = WithShift(above, share)
      /\ got.below = WithShift(below, rest)
      /\ got.change = IF above = <<>> /\ below = <<>> THEN r.shift ELSE deduct
  BY DEF Receive, DivideShift
<1>2. IsAbove(above, r, it) /\ IsBelow(below, r, ib)
  BY Pieces DEF HunkTop, HunkBottom
<1> HIDE DEF above, below, got, it, ib
<1>3. LinesLeft(above) \in Nat /\ LinesLeft(below) \in Nat
  <2>1. above = <<>> \/ \E a \in GoodRange : above = <<a>>
    BY <1>2 DEF IsAbove
  <2>2. below = <<>> \/ \E b \in GoodRange : below = <<b>>
    BY <1>2 DEF IsBelow
  <2> QED BY <2>1, <2>2 DEF LinesLeft, GoodRange, HunkRange
<1>4. deduct \in Int /\ net \in Int /\ r.shift \in Int /\ net + deduct = r.shift
  <2>1. r.lines \in Nat /\ r.shift \in Int
    BY DEF GoodRange, HunkRange
  <2> QED BY <1>3, <2>1
<1> HIDE DEF deduct, net
<1>5. share \in Int
  BY <1>3, <1>4, ShareAboveInt
<1> HIDE DEF share
<1>6. rest \in Int
  BY <1>4, <1>5 DEF ShiftBelow
<1> HIDE DEF rest
<1>7. IsAbove(got.above, r, it) /\ ShiftOf(got.above) = IF above = <<>> THEN 0 ELSE share
  <2>1. CASE above = <<>>
    BY <1>1, <1>2, <2>1 DEF WithShift, ShiftOf
  <2>2. CASE above # <<>>
    <3>1. PICK a \in GoodRange :
            /\ above = <<a>> /\ a.commit = r.commit
            /\ RangeTop(r) < it /\ RangeTop(a) = RangeTop(r)
            /\ RangeBottom(a) = IF it < RangeBottom(r) THEN it ELSE RangeBottom(r)
      BY <1>2, <2>2 DEF IsAbove
    <3>2. PICK b \in GoodRange : /\ WithShift(<<a>>, share) = <<b>>
                                 /\ b.shift = share /\ b.commit = a.commit
                                 /\ RangeTop(b) = RangeTop(a) /\ RangeBottom(b) = RangeBottom(a)
      BY <1>5, ShiftGiven
    <3>3. got.above = <<b>> /\ <<b>> # <<>> /\ <<b>>[1] = b
      BY <1>1, <3>1, <3>2
    <3> QED BY <2>2, <3>1, <3>2, <3>3 DEF IsAbove, ShiftOf
  <2> QED BY <2>1, <2>2
<1>8. IsBelow(got.below, r, ib) /\ ShiftOf(got.below) = IF below = <<>> THEN 0 ELSE rest
  <2>1. CASE below = <<>>
    BY <1>1, <1>2, <2>1 DEF WithShift, ShiftOf
  <2>2. CASE below # <<>>
    <3>1. PICK a \in GoodRange :
            /\ below = <<a>> /\ a.commit = r.commit
            /\ ib < RangeBottom(r) /\ RangeBottom(a) = RangeBottom(r)
            /\ RangeTop(a) = IF ib > RangeTop(r) THEN ib ELSE RangeTop(r)
      BY <1>2, <2>2 DEF IsBelow
    <3>2. PICK b \in GoodRange : /\ WithShift(<<a>>, rest) = <<b>>
                                 /\ b.shift = rest /\ b.commit = a.commit
                                 /\ RangeTop(b) = RangeTop(a) /\ RangeBottom(b) = RangeBottom(a)
      BY <1>6, ShiftGiven
    <3>3. got.below = <<b>> /\ <<b>> # <<>> /\ <<b>>[1] = b
      BY <1>1, <3>1, <3>2
    <3> QED BY <2>2, <3>1, <3>2, <3>3 DEF IsBelow, ShiftOf
  <2> QED BY <2>1, <2>2
<1>9. got.change \in Int /\ ShiftOf(got.above) + ShiftOf(got.below) + got.change = r.shift
  <2>1. CASE above = <<>> /\ below = <<>>
    BY <1>1, <1>4, <1>7, <1>8, <2>1
  <2>2. CASE above # <<>> /\ below = <<>>
    <3>1. share = net
      BY <2>2 DEF share
    <3> QED BY <1>1, <1>4, <1>7, <1>8, <2>2, <3>1
  <2>3. CASE above = <<>> /\ below # <<>>
    <3>1. rest = net
      BY <2>3 DEF rest, ShiftBelow
    <3> QED BY <1>1, <1>4, <1>7, <1>8, <2>3, <3>1
  <2>4. CASE above # <<>> /\ below # <<>>
    <3>1. rest = net - share
      BY <2>4 DEF rest, ShiftBelow
    <3> QED BY <1>1, <1>4, <1>5, <1>7, <1>8, <2>4, <3>1
  <2> QED BY <2>1, <2>2, <2>3, <2>4
<1> QED BY <1>7, <1>8, <1>9 DEF got, it, ib

\* No line of the file is counted twice or lost: the shift a range had is what
\* its pieces keep and the incoming hunk takes over (HunkRange::receive), also
\* when the rounded share of a split is negative.
THEOREM ReceiveConservesShift ==
    ASSUME NEW r \in GoodRange, NEW h \in GoodHunk
    PROVE  ShiftOf(Receive(r, h).above) + ShiftOf(Receive(r, h).below) + Receive(r, h).change
               = r.shift
BY Received

\* Whether a piece names a place.
Says(rs, gap, n, c) == \E i \in DOMAIN rs : Owns(rs[i], gap, n) /\ rs[i].commit = c

\* Every line of a range, and the gap of one without lines, is above the hunk,
\* below it or replaced by it, and the pieces have exactly the first two
\* (HunkRange::receive): no place changes its owner but those of the hunk, and
\* none gets two.
THEOREM ReceiveTiles ==
    ASSUME NEW r \in GoodRange, NEW h \in GoodHunk, NEW gap \in BOOLEAN, NEW n \in Int, NEW c
    PROVE  /\ Says(Receive(r, h).above, gap, n, c)
                <=> Owns(r, gap, n) /\ r.commit = c /\ Above(HunkTop(h), gap, n)
           /\ Says(Receive(r, h).below, gap, n, c)
                <=> Owns(r, gap, n) /\ r.commit = c /\ n > HunkBottom(h)
<1> DEFINE it == HunkTop(h)
           ib == HunkBottom(h)
           above == Receive(r, h).above
           below == Receive(r, h).below
<1>1. /\ RangeTop(r) \in Nat /\ RangeBottom(r) \in Nat /\ RangeTop(r) <= RangeBottom(r)
      /\ it \in Nat /\ ib \in Nat
  BY HunkSpan, RangeSpan
<1>2. IsAbove(above, r, it) /\ IsBelow(below, r, ib)
  BY Received
<1> HIDE DEF it, ib, above, below
<1>3. ASSUME NEW b PROVE Says(<<b>>, gap, n, c) <=> Owns(b, gap, n) /\ b.commit = c
  BY DEF Says
<1>4. ~Says(<<>>, gap, n, c)
  BY DEF Says
<1>5. Says(above, gap, n, c) <=> Owns(r, gap, n) /\ r.commit = c /\ Above(it, gap, n)
  <2>1. CASE above = <<>> /\ it <= RangeTop(r)
    BY <1>1, <1>4, <2>1 DEF Owns, Above
  <2>2. ASSUME NEW a \in GoodRange, above = <<a>>, a.commit = r.commit,
               RangeTop(r) < it, RangeTop(a) = RangeTop(r),
               RangeBottom(a) = IF it < RangeBottom(r) THEN it ELSE RangeBottom(r)
        PROVE  Says(above, gap, n, c) <=> Owns(r, gap, n) /\ r.commit = c /\ Above(it, gap, n)
    <3>1. Says(above, gap, n, c) <=> Owns(a, gap, n) /\ a.commit = c
      BY <1>3, <2>2
    <3>2. Owns(a, gap, n) <=> Owns(r, gap, n) /\ Above(it, gap, n)
      BY <1>1, <2>2 DEF Owns, Above
    <3> QED BY <2>2, <3>1, <3>2
  <2> QED BY <1>2, <2>1, <2>2 DEF IsAbove
<1>6. Says(below, gap, n, c) <=> Owns(r, gap, n) /\ r.commit = c /\ n > ib
  <2>1. CASE below = <<>> /\ RangeBottom(r) <= ib
    BY <1>1, <1>4, <2>1 DEF Owns
  <2>2. ASSUME NEW a \in GoodRange, below = <<a>>, a.commit = r.commit,
               ib < RangeBottom(r), RangeBottom(a) = RangeBottom(r),
               RangeTop(a) = IF ib > RangeTop(r) THEN ib ELSE RangeTop(r)
        PROVE  Says(below, gap, n, c) <=> Owns(r, gap, n) /\ r.commit = c /\ n > ib
    <3>1. Says(below, gap, n, c) <=> Owns(a, gap, n) /\ a.commit = c
      BY <1>3, <2>2
    <3>2. Owns(a, gap, n) <=> Owns(r, gap, n) /\ n > ib
      BY <1>1, <2>2 DEF Owns
    <3> QED BY <2>2, <3>1, <3>2
  <2> QED BY <1>2, <2>1, <2>2 DEF IsBelow
<1> QED BY <1>5, <1>6 DEF it, ib, above, below

-----------------------------------------------------------------------------
(* Sequences of ranges *)

\* In order, and disjoint.
RangesOK(rs) ==
  /\ rs \in Seq(GoodRange)
  /\ \A i, j \in DOMAIN rs : i < j => RangeBottom(rs[i]) <= RangeTop(rs[j])

UpTo(rs, x) == \A i \in DOMAIN rs : RangeBottom(rs[i]) <= x
From(rs, x) == \A i \in DOMAIN rs : x <= RangeTop(rs[i])

\* A range without lines is past x only if it is not at x either.
Past(rs, x) == \A i \in DOMAIN rs : x <= RangeTop(rs[i]) /\ x < RangeBottom(rs[i])

\* The empty sequence names nothing.
LEMMA NoRanges ==
  /\ RangesOK(<<>>)
  /\ \A x : UpTo(<<>>, x) /\ From(<<>>, x) /\ Past(<<>>, x)
  /\ \A gap, n, c : ~Says(<<>>, gap, n, c)
<1>1. DOMAIN <<>> = {} /\ <<>> \in Seq(GoodRange)
  OBVIOUS
<1> QED BY <1>1 DEF RangesOK, UpTo, From, Past, Says

\* What one range names.
LEMMA OneRange ==
  ASSUME NEW r \in GoodRange
  PROVE  /\ RangesOK(<<r>>)
         /\ \A x : /\ UpTo(<<r>>, x) <=> RangeBottom(r) <= x
                   /\ From(<<r>>, x) <=> x <= RangeTop(r)
                   /\ Past(<<r>>, x) <=> x <= RangeTop(r) /\ x < RangeBottom(r)
         /\ \A gap, n, c : Says(<<r>>, gap, n, c) <=> Owns(r, gap, n) /\ r.commit = c
<1>1. DOMAIN <<r>> = {1} /\ <<r>>[1] = r /\ <<r>> \in Seq(GoodRange)
  OBVIOUS
<1> QED BY <1>1 DEF RangesOK, UpTo, From, Past, Says

\* Ranges up to x, and then ranges from x on.
LEMMA Joined ==
  ASSUME NEW a, NEW b, RangesOK(a), RangesOK(b),
         NEW x \in Int, UpTo(a, x), From(b, x)
  PROVE  /\ RangesOK(a \o b)
         /\ \A y : /\ UpTo(a, y) /\ UpTo(b, y) => UpTo(a \o b, y)
                   /\ From(a, y) /\ From(b, y) => From(a \o b, y)
                   /\ Past(a, y) /\ Past(b, y) => Past(a \o b, y)
         /\ \A gap, n, c : Says(a \o b, gap, n, c) <=> Says(a, gap, n, c) \/ Says(b, gap, n, c)
<1> DEFINE m == Len(a)
           ab == a \o b
<1>1. /\ a \in Seq(GoodRange) /\ b \in Seq(GoodRange)
      /\ \A i, j \in DOMAIN a : i < j => RangeBottom(a[i]) <= RangeTop(a[j])
      /\ \A i, j \in DOMAIN b : i < j => RangeBottom(b[i]) <= RangeTop(b[j])
  BY DEF RangesOK
<1>2. m \in Nat /\ Len(b) \in Nat /\ DOMAIN a = 1 .. m /\ DOMAIN b = 1 .. Len(b)
  BY <1>1
<1>3. /\ ab \in Seq(GoodRange) /\ Len(ab) = m + Len(b) /\ DOMAIN ab = 1 .. m + Len(b)
      /\ \A i \in 1 .. m + Len(b) : ab[i] = IF i <= m THEN a[i] ELSE b[i - m]
  BY <1>1, <1>2, ConcatProperties
<1> HIDE DEF ab, m
<1>4. /\ \A i \in DOMAIN ab : \/ i \in DOMAIN a /\ i <= m /\ ab[i] = a[i]
                              \/ i - m \in DOMAIN b /\ i > m /\ ab[i] = b[i - m]
      /\ \A i \in DOMAIN a : i \in DOMAIN ab /\ ab[i] = a[i]
      /\ \A i \in DOMAIN b : m + i \in DOMAIN ab /\ ab[m + i] = b[i]
  BY <1>2, <1>3
<1>5. RangesOK(ab)
  <2>1. SUFFICES ASSUME NEW i \in DOMAIN ab, NEW j \in DOMAIN ab, i < j
                 PROVE  RangeBottom(ab[i]) <= RangeTop(ab[j])
    BY <1>3 DEF RangesOK
  <2>2. i \in Int /\ j \in Int /\ m \in Int
    BY <1>2, <1>3
  <2>3. CASE i <= m /\ j <= m
    BY <1>1, <1>4, <2>1, <2>2, <2>3
  <2>4. CASE i > m /\ j > m
    <3>1. i - m \in DOMAIN b /\ j - m \in DOMAIN b /\ i - m < j - m
      BY <1>4, <2>1, <2>2, <2>4
    <3> QED BY <1>1, <1>4, <2>2, <2>4, <3>1
  <2>5. CASE i <= m /\ j > m
    <3>1. i \in DOMAIN a /\ j - m \in DOMAIN b /\ ab[i] = a[i] /\ ab[j] = b[j - m]
      BY <1>4, <2>2, <2>5
    <3>2. RangeBottom(a[i]) <= x /\ x <= RangeTop(b[j - m])
      BY <3>1 DEF UpTo, From
    <3>3. RangeBottom(a[i]) \in Int /\ RangeTop(b[j - m]) \in Int
      BY <1>1, <1>2, <3>1, RangeSpan
    <3> QED BY <3>1, <3>2, <3>3
  <2> QED BY <2>1, <2>2, <2>3, <2>4, <2>5
<1>6. \A y : /\ UpTo(a, y) /\ UpTo(b, y) => UpTo(ab, y)
             /\ From(a, y) /\ From(b, y) => From(ab, y)
             /\ Past(a, y) /\ Past(b, y) => Past(ab, y)
  BY <1>4, Zenon DEF UpTo, From, Past
<1>7. ASSUME NEW gap, NEW n, NEW c
      PROVE  Says(ab, gap, n, c) <=> Says(a, gap, n, c) \/ Says(b, gap, n, c)
  <2>1. ASSUME Says(ab, gap, n, c) PROVE Says(a, gap, n, c) \/ Says(b, gap, n, c)
    <3>1. PICK i \in DOMAIN ab : Owns(ab[i], gap, n) /\ ab[i].commit = c
      BY <2>1 DEF Says
    <3>2. \/ i \in DOMAIN a /\ ab[i] = a[i]
          \/ i - m \in DOMAIN b /\ ab[i] = b[i - m]
      BY <1>4
    <3> QED BY <3>1, <3>2 DEF Says
  <2>2. ASSUME Says(a, gap, n, c) PROVE Says(ab, gap, n, c)
    <3>1. PICK i \in DOMAIN a : Owns(a[i], gap, n) /\ a[i].commit = c
      BY <2>2 DEF Says
    <3>2. i \in DOMAIN ab /\ ab[i] = a[i]
      BY <1>4
    <3> QED BY <3>1, <3>2 DEF Says
  <2>3. ASSUME Says(b, gap, n, c) PROVE Says(ab, gap, n, c)
    <3>1. PICK i \in DOMAIN b : Owns(b[i], gap, n) /\ b[i].commit = c
      BY <2>3 DEF Says
    <3>2. m + i \in DOMAIN ab /\ ab[m + i] = b[i]
      BY <1>4
    <3> QED BY <3>1, <3>2 DEF Says
  <2> QED BY <2>1, <2>2, <2>3
<1> QED BY <1>5, <1>6, <1>7 DEF ab

\* Ranges past x, moved together.
LEMMA MovedRanges ==
  ASSUME NEW rs, RangesOK(rs), NEW x \in Int, Past(rs, x),
         NEW shift \in Int, x + shift >= 0 \/ shift = 0
  PROVE  /\ RangesOK(Moved(rs, shift))
         /\ Past(Moved(rs, shift), x + shift)
         /\ \A y \in Int : UpTo(rs, y) => UpTo(Moved(rs, shift), y + shift)
         /\ \A i \in DOMAIN rs : /\ RangeBottom(Moved(rs, shift)[i]) = RangeBottom(rs[i]) + shift
                                 /\ Moved(rs, shift)[i].shift = rs[i].shift
         /\ \A gap, c : \A n \in Int : Says(Moved(rs, shift), gap, n, c) <=> Says(rs, gap, n - shift, c)
<1> DEFINE ms == Moved(rs, shift)
<1>1. /\ rs \in Seq(GoodRange) /\ Len(rs) \in Nat /\ DOMAIN rs = 1 .. Len(rs)
      /\ \A i, j \in DOMAIN rs : i < j => RangeBottom(rs[i]) <= RangeTop(rs[j])
  BY DEF RangesOK
<1>2. ASSUME NEW i \in DOMAIN rs
      PROVE  /\ ms[i] \in GoodRange /\ ms[i].commit = rs[i].commit
             /\ RangeTop(ms[i]) = RangeTop(rs[i]) + shift
             /\ RangeBottom(ms[i]) = RangeBottom(rs[i]) + shift
             /\ RangeTop(rs[i]) \in Nat /\ RangeBottom(rs[i]) \in Nat
             /\ ms[i].shift = rs[i].shift
  <2> DEFINE r == rs[i]
             t == MoveBy(r, shift)
  <2>1. r \in GoodRange
    BY <1>1
  <2>2. /\ RangeTop(r) \in Nat /\ RangeBottom(r) \in Nat /\ RangeBottom(r) = RangeTop(r) + r.lines
        /\ x <= RangeTop(r) /\ x < RangeBottom(r)
    BY <2>1, RangeSpan DEF Past
  <2>3. ms[i] = t
    BY DEF Moved
  <2> HIDE DEF r, ms
  <2>4. r \in HunkRange /\ SpanOK(r.start, r.lines) /\ r.start \in Nat /\ r.lines \in Nat
    BY <2>1 DEF GoodRange, HunkRange
  <2>5. t = [kind |-> r.kind, commit |-> r.commit, start |-> r.start + shift, lines |-> r.lines,
             shift |-> r.shift]
    BY <2>4 DEF MoveBy, HunkRange
  <2> HIDE DEF t
  <2>6. t.start = r.start + shift /\ t.lines = r.lines /\ t.commit = r.commit /\ t.shift = r.shift
    BY <2>5
  <2>7. RangeTop(t) = RangeTop(r) + shift /\ RangeBottom(t) = RangeBottom(r) + shift
    BY <2>4, <2>6 DEF RangeTop, RangeBottom, Top, Bottom
  <2>8. r.start + shift \in Nat /\ SpanOK(r.start + shift, r.lines)
    <3>1. CASE r.lines = 0
      <4>1. r.start = RangeBottom(r)
        BY <2>4, <3>1 DEF RangeBottom, Bottom, Top
      <4> QED BY <2>2, <2>4, <3>1, <4>1 DEF SpanOK
    <3>2. CASE r.lines # 0
      <4>1. r.start = RangeTop(r) + 1
        BY <2>4, <3>2 DEF RangeTop, Top
      <4> QED BY <2>2, <2>4, <3>2, <4>1 DEF SpanOK
    <3> QED BY <3>1, <3>2
  <2>9. t \in GoodRange
    BY <2>4, <2>5, <2>6, <2>8 DEF GoodRange, HunkRange
  <2> QED BY <2>2, <2>3, <2>6, <2>7, <2>9 DEF r
<1>3. DOMAIN ms = DOMAIN rs
  BY DEF Moved
<1>4. ms \in Seq(GoodRange)
  <2>1. ms = [i \in 1 .. Len(rs) |-> ms[i]]
    BY <1>1 DEF Moved
  <2>2. \A i \in 1 .. Len(rs) : ms[i] \in GoodRange
    BY <1>1, <1>2
  <2> HIDE DEF ms
  <2> QED BY <1>1, <2>1, <2>2
<1> HIDE DEF ms
<1>5. RangesOK(ms)
  BY <1>1, <1>2, <1>3, <1>4 DEF RangesOK
<1>6. Past(ms, x + shift)
  BY <1>2, <1>3 DEF Past
<1>7. \A y \in Int : UpTo(rs, y) => UpTo(ms, y + shift)
  BY <1>2, <1>3 DEF UpTo
<1>8. ASSUME NEW gap, NEW c, NEW n \in Int
      PROVE  Says(ms, gap, n, c) <=> Says(rs, gap, n - shift, c)
  <2>1. ASSUME NEW i \in DOMAIN rs
        PROVE  Owns(ms[i], gap, n) <=> Owns(rs[i], gap, n - shift)
    BY <1>2 DEF Owns
  <2> QED BY <1>2, <1>3, <2>1 DEF Says
<1>9. \A i \in DOMAIN rs : RangeBottom(ms[i]) = RangeBottom(rs[i]) + shift /\ ms[i].shift = rs[i].shift
  BY <1>2
<1> QED BY <1>5, <1>6, <1>7, <1>8, <1>9 DEF ms

-----------------------------------------------------------------------------
(* PathRanges::add, one hunk *)

NothingReceived == [above |-> <<>>, change |-> 0]

\* The recursive function ReceiveWalk is what its definition says.
LEMMA ReceiveWalkUnfolds ==
  ASSUME NEW rs \in Seq(GoodRange), NEW h \in GoodHunk
  PROVE  /\ ReceiveWalk(rs, h)[0] = NothingReceived
         /\ \A i \in 1 .. Len(rs) : ReceiveWalk(rs, h)[i] = ReceiveStep(rs[i], h, ReceiveWalk(rs, h)[i - 1])
<1> DEFINE N == Len(rs)
           V == [above : Seq(GoodRange), change : Int]
           step == [i \in 1 .. N |-> [w \in V |-> ReceiveStep(rs[i], h, w)]]
<1>1. N \in Nat
  OBVIOUS
<1>2. ASSUME NEW i \in 1 .. N, NEW w \in V PROVE ReceiveStep(rs[i], h, w) \in V
  <2> DEFINE got == Receive(rs[i], h)
  <2>1. IsAbove(got.above, rs[i], HunkTop(h)) /\ got.change \in Int
    BY Received
  <2>2. ReceiveStep(rs[i], h, w) = [above |-> w.above \o got.above, change |-> w.change + got.change]
    BY DEF ReceiveStep
  <2> HIDE DEF got
  <2>3. got.above \in Seq(GoodRange)
    <3>1. \A a \in GoodRange : <<a>> \in Seq(GoodRange)
      OBVIOUS
    <3> QED BY <2>1, <3>1, EmptySeq, Zenon DEF IsAbove
  <2>4. w.above \o got.above \in Seq(GoodRange)
    BY <2>3, ConcatProperties
  <2> QED BY <2>1, <2>2, <2>4
<1>3. step \in [1 .. N -> [V -> V]] /\ NothingReceived \in V
  BY <1>2 DEF NothingReceived
<1>4. PICK g \in [0 .. N -> V] : IsRecursion(g, N, NothingReceived, step)
  <2> HIDE DEF V, step, N
  <2> QED BY <1>1, <1>3, RecursionExists
<1>5. \A i \in 1 .. N : i - 1 \in 0 .. N /\ i \in 0 .. N /\ i # 0
  BY <1>1
<1>6. g = [i \in 0 .. N |-> IF i = 0 THEN NothingReceived ELSE ReceiveStep(rs[i], h, g[i - 1])]
  <2>1. ASSUME NEW i \in 1 .. N PROVE g[i] = ReceiveStep(rs[i], h, g[i - 1])
    BY <1>4, <1>5 DEF IsRecursion
  <2>2. \A i \in 0 .. N : i = 0 \/ i \in 1 .. N
    BY <1>1
  <2> QED BY <1>4, <2>1, <2>2 DEF IsRecursion
<1>7. ReceiveWalk(rs, h) = [i \in 0 .. N |-> IF i = 0 THEN NothingReceived
                                             ELSE ReceiveStep(rs[i], h, ReceiveWalk(rs, h)[i - 1])]
  BY <1>6, Zenon DEF ReceiveWalk, NothingReceived
<1> HIDE DEF N
<1>8. ReceiveWalk(rs, h)[0] = NothingReceived
  BY <1>1, <1>7
<1>9. \A i \in 1 .. N : ReceiveWalk(rs, h)[i] = ReceiveStep(rs[i], h, ReceiveWalk(rs, h)[i - 1])
  BY <1>5, <1>7
<1> QED BY <1>8, <1>9 DEF N

\* The parts above the hunk of the first i ranges.
WalkOK(rs, h, i, got) ==
  /\ RangesOK(got.above) /\ got.change \in Int
  /\ UpTo(got.above, HunkTop(h))
  /\ \A x \in Int : (\A j \in 1 .. i : RangeBottom(rs[j]) <= x) => UpTo(got.above, x)
  /\ \A x \in Int : Past(rs, x) /\ x < HunkTop(h) => Past(got.above, x)
  /\ \A gap \in BOOLEAN, n \in Int : \A c :
        Says(got.above, gap, n, c)
          <=> \E j \in 1 .. i : Owns(rs[j], gap, n) /\ rs[j].commit = c /\ Above(HunkTop(h), gap, n)

\* One more range is passed.
LEMMA WalkStep ==
  ASSUME NEW rs, RangesOK(rs), NEW h \in GoodHunk, NEW i \in 1 .. Len(rs), NEW w, WalkOK(rs, h, i - 1, w)
  PROVE  WalkOK(rs, h, i, ReceiveStep(rs[i], h, w))
<1> DEFINE r == rs[i]
           got == Receive(r, h)
           it == HunkTop(h)
           both == w.above \o got.above
<1>1. /\ rs \in Seq(GoodRange) /\ Len(rs) \in Nat /\ DOMAIN rs = 1 .. Len(rs) /\ r \in GoodRange
      /\ \A k, j \in DOMAIN rs : k < j => RangeBottom(rs[k]) <= RangeTop(rs[j])
  BY DEF RangesOK
<1>2. /\ RangeTop(r) \in Nat /\ RangeBottom(r) \in Nat /\ RangeTop(r) <= RangeBottom(r)
      /\ it \in Nat
  <2>1. RangeTop(r) \in Nat /\ RangeBottom(r) \in Nat /\ RangeTop(r) <= RangeBottom(r)
    BY <1>1, RangeSpan
  <2>2. it \in Nat
    BY HunkSpan
  <2> QED BY <2>1, <2>2
<1>3. IsAbove(got.above, r, it) /\ got.change \in Int
  BY <1>1, Received
<1>4. ReceiveStep(rs[i], h, w) = [above |-> both, change |-> w.change + got.change]
  BY DEF ReceiveStep
<1>5. ASSUME NEW gap \in BOOLEAN, NEW n \in Int, NEW c
      PROVE  Says(got.above, gap, n, c) <=> Owns(r, gap, n) /\ r.commit = c /\ Above(it, gap, n)
  BY <1>1, ReceiveTiles
<1> HIDE DEF r, got, it
<1>6. /\ RangesOK(got.above) /\ UpTo(got.above, it) /\ From(got.above, RangeTop(r))
      /\ \A x \in Int : RangeBottom(r) <= x => UpTo(got.above, x)
      /\ \A x \in Int : x <= RangeTop(r) /\ x < RangeBottom(r) /\ x < it => Past(got.above, x)
  <2>1. CASE got.above = <<>>
    BY <2>1, NoRanges
  <2>2. CASE got.above # <<>>
    <3>1. PICK a \in GoodRange :
             /\ got.above = <<a>> /\ RangeTop(r) < it /\ RangeTop(a) = RangeTop(r)
             /\ RangeBottom(a) = IF it < RangeBottom(r) THEN it ELSE RangeBottom(r)
      BY <1>3, <2>2 DEF IsAbove
    <3>2. RangeBottom(a) <= it /\ RangeBottom(a) <= RangeBottom(r)
      BY <1>2, <3>1
    <3>3. \A x \in Int : RangeBottom(r) <= x => RangeBottom(a) <= x
      BY <1>2, <3>1
    <3>4. \A x \in Int : x <= RangeTop(r) /\ x < RangeBottom(r) /\ x < it
                           => x <= RangeTop(a) /\ x < RangeBottom(a)
      BY <1>2, <3>1
    <3>5. RangeTop(r) <= RangeTop(a)
      BY <1>2, <3>1
    <3> QED BY <3>1, <3>2, <3>3, <3>4, <3>5, OneRange
  <2> QED BY <2>1, <2>2
<1>7. /\ RangesOK(w.above) /\ w.change \in Int
      /\ UpTo(w.above, it) /\ UpTo(w.above, RangeTop(r))
  <2>1. \A j \in 1 .. i - 1 : RangeBottom(rs[j]) <= RangeTop(r)
    BY <1>1 DEF r
  <2> QED BY <1>2, <2>1 DEF WalkOK, it
<1>8. /\ RangesOK(both)
      /\ \A y : /\ UpTo(w.above, y) /\ UpTo(got.above, y) => UpTo(both, y)
                /\ Past(w.above, y) /\ Past(got.above, y) => Past(both, y)
      /\ \A gap, n, c : Says(both, gap, n, c) <=> Says(w.above, gap, n, c) \/ Says(got.above, gap, n, c)
  BY <1>2, <1>6, <1>7, Joined
<1> DEFINE now == ReceiveStep(rs[i], h, w)
<1> HIDE DEF both
<1>9. now.above = both /\ now.change = w.change + got.change
  BY <1>4
<1> HIDE DEF now
<1>10. RangesOK(now.above) /\ now.change \in Int /\ UpTo(now.above, it)
  BY <1>3, <1>6, <1>7, <1>8, <1>9
<1>11. ASSUME NEW x \in Int, \A j \in 1 .. i : RangeBottom(rs[j]) <= x
       PROVE  UpTo(now.above, x)
  <2>1. UpTo(w.above, x)
    BY <1>11 DEF WalkOK
  <2>2. RangeBottom(r) <= x
    BY <1>11 DEF r
  <2> QED BY <1>6, <1>8, <1>9, <2>1, <2>2
<1>12. ASSUME NEW x \in Int, Past(rs, x), x < it
       PROVE  Past(now.above, x)
  <2>1. Past(w.above, x)
    BY <1>12 DEF WalkOK, it
  <2>2. x <= RangeTop(r) /\ x < RangeBottom(r)
    BY <1>1, <1>12 DEF r, Past
  <2> QED BY <1>6, <1>8, <1>9, <1>12, <2>1, <2>2
<1>13. ASSUME NEW gap \in BOOLEAN, NEW n \in Int, NEW c
       PROVE  Says(now.above, gap, n, c)
                <=> \E j \in 1 .. i : Owns(rs[j], gap, n) /\ rs[j].commit = c /\ Above(it, gap, n)
  <2>1. Says(w.above, gap, n, c)
           <=> \E j \in 1 .. i - 1 : Owns(rs[j], gap, n) /\ rs[j].commit = c /\ Above(it, gap, n)
    BY DEF WalkOK, it
  <2>2. Says(got.above, gap, n, c) <=> Owns(rs[i], gap, n) /\ rs[i].commit = c /\ Above(it, gap, n)
    BY <1>5 DEF r
  <2>3. /\ \A j \in 1 .. i - 1 : j \in 1 .. i
        /\ \A j \in 1 .. i : j = i \/ j \in 1 .. i - 1
        /\ i \in 1 .. i
    BY <1>1
  <2> QED BY <1>8, <1>9, <2>1, <2>2, <2>3
<1> QED BY <1>10, <1>11, <1>12, <1>13 DEF WalkOK, now, it

\* By induction over the ranges that are passed.
LEMMA ReceiveWalkIs ==
  ASSUME NEW rs, RangesOK(rs), NEW h \in GoodHunk, NEW i \in 0 .. Len(rs)
  PROVE  WalkOK(rs, h, i, ReceiveWalk(rs, h)[i])
<1> DEFINE S == {k \in 0 .. Len(rs) : WalkOK(rs, h, k, ReceiveWalk(rs, h)[k])}
<1>1. rs \in Seq(GoodRange) /\ Len(rs) \in Nat
  BY DEF RangesOK
<1>2. 0 \in S
  <2>1. ReceiveWalk(rs, h)[0].above = <<>> /\ ReceiveWalk(rs, h)[0].change = 0
    BY <1>1, ReceiveWalkUnfolds DEF NothingReceived
  <2>2. 0 \in 0 .. Len(rs) /\ 1 .. 0 = {}
    BY <1>1
  <2>3. WalkOK(rs, h, 0, ReceiveWalk(rs, h)[0])
    BY <2>1, <2>2, NoRanges DEF WalkOK
  <2> QED BY <2>2, <2>3
<1>3. ASSUME NEW k \in 1 .. Len(rs), k - 1 \in S PROVE k \in S
  <2>1. ReceiveWalk(rs, h)[k] = ReceiveStep(rs[k], h, ReceiveWalk(rs, h)[k - 1])
    BY <1>1, ReceiveWalkUnfolds
  <2>2. WalkOK(rs, h, k, ReceiveWalk(rs, h)[k])
    BY <1>3, <2>1, WalkStep
  <2> QED BY <1>1, <2>2
<1> HIDE DEF S
<1>4. 0 .. Len(rs) \subseteq S
  BY <1>1, <1>2, <1>3, BoundedInduction
<1> QED BY <1>4 DEF S

\* What the iterator still holds after the hunk.
RestAfter(rs, h) ==
  LET last == Passed(rs, h)
  IN  (IF last = 0 THEN <<>> ELSE Receive(rs[last], h).below) \o SubSeq(rs, last + 1, Len(rs))

\* The ranges passed before the last end above the hunk's bottom, and the last, unless
\* there are no others, below it.
LEMMA PassedIs ==
  ASSUME NEW rs, RangesOK(rs), NEW h \in GoodHunk
  PROVE  /\ Passed(rs, h) \in 0 .. Len(rs)
         /\ \A j \in 1 .. Len(rs) : j < Passed(rs, h) => RangeBottom(rs[j]) <= HunkBottom(h)
         /\ Passed(rs, h) < Len(rs) => /\ Passed(rs, h) > 0
                                       /\ HunkBottom(h) < RangeBottom(rs[Passed(rs, h)])
<1> DEFINE reaching == {i \in DOMAIN rs : Receive(rs[i], h).below # <<>>}
           last == Passed(rs, h)
<1>1. rs \in Seq(GoodRange) /\ Len(rs) \in Nat /\ DOMAIN rs = 1 .. Len(rs)
  BY DEF RangesOK
<1>2. ASSUME NEW i \in DOMAIN rs
      PROVE  i \in reaching <=> HunkBottom(h) < RangeBottom(rs[i])
  <2>1. rs[i] \in GoodRange
    BY <1>1
  <2>2. IsBelow(Receive(rs[i], h).below, rs[i], HunkBottom(h))
    BY <2>1, Received
  <2>3. RangeBottom(rs[i]) \in Nat /\ HunkBottom(h) \in Nat
    BY <2>1, RangeSpan, HunkSpan
  <2> DEFINE below == Receive(rs[i], h).below
  <2>4. i \in reaching <=> below # <<>>
    OBVIOUS
  <2> HIDE DEF below, reaching
  <2>5. CASE below = <<>>
    <3>1. \A b : <<b>> # <<>>
      OBVIOUS
    <3>2. RangeBottom(rs[i]) <= HunkBottom(h)
      BY <2>2, <2>5, <3>1 DEF IsBelow, below
    <3> QED BY <2>3, <2>4, <2>5, <3>2
  <2>6. CASE below # <<>>
    BY <2>2, <2>4, <2>6 DEF IsBelow, below
  <2> QED BY <2>5, <2>6
<1>3. last = IF reaching = {} THEN Len(rs) ELSE Min(reaching)
  BY DEF Passed
<1>4. ASSUME NEW j \in 1 .. Len(rs) PROVE RangeBottom(rs[j]) \in Nat /\ HunkBottom(h) \in Nat
  BY <1>1, RangeSpan, HunkSpan
<1>5. reaching \subseteq 1 .. Len(rs)
  BY <1>1
<1> HIDE DEF reaching, last
<1>6. CASE reaching = {}
  BY <1>1, <1>2, <1>3, <1>4, <1>6 DEF last
<1>7. CASE reaching # {}
  <2>1. \E x \in reaching : \A y \in reaching : x <= y
    <3>1. reaching \subseteq Nat
      BY <1>1, <1>5
    <3> QED BY <1>7, <3>1, LeastNatural
  <2>2. last \in reaching /\ \A y \in reaching : last <= y
    BY <1>3, <1>7, <2>1 DEF Min
  <2>3. ASSUME NEW j \in 1 .. Len(rs), j < last PROVE RangeBottom(rs[j]) <= HunkBottom(h)
    <3>1. j \notin reaching
      BY <1>5, <2>2, <2>3
    <3> QED BY <1>1, <1>2, <1>4, <3>1
  <2>4. last \in 1 .. Len(rs) /\ HunkBottom(h) < RangeBottom(rs[last])
    BY <1>1, <1>2, <1>5, <2>2
  <2>5. last \in 0 .. Len(rs) /\ last > 0
    BY <1>1, <2>4
  <2> QED BY <2>3, <2>4, <2>5 DEF last
<1> QED BY <1>6, <1>7

\* The ranges that are passed give all there is above the hunk.
LEMMA PassedSay ==
  ASSUME NEW rs, RangesOK(rs), NEW h \in GoodHunk,
         NEW gap \in BOOLEAN, NEW n \in Int, NEW c
  PROVE  Says(ReceiveWalk(rs, h)[Passed(rs, h)].above, gap, n, c)
            <=> Says(rs, gap, n, c) /\ Above(HunkTop(h), gap, n)
<1> DEFINE last == Passed(rs, h)
<1>1. /\ rs \in Seq(GoodRange) /\ Len(rs) \in Nat /\ DOMAIN rs = 1 .. Len(rs)
      /\ \A k, j \in DOMAIN rs : k < j => RangeBottom(rs[k]) <= RangeTop(rs[j])
  BY DEF RangesOK
<1>2. /\ last \in 0 .. Len(rs)
      /\ last < Len(rs) => last > 0 /\ HunkBottom(h) < RangeBottom(rs[last])
  BY PassedIs
<1> HIDE DEF last
<1>3. Says(ReceiveWalk(rs, h)[last].above, gap, n, c)
        <=> \E j \in 1 .. last : Owns(rs[j], gap, n) /\ rs[j].commit = c /\ Above(HunkTop(h), gap, n)
  <2>1. WalkOK(rs, h, last, ReceiveWalk(rs, h)[last])
    BY <1>2, ReceiveWalkIs
  <2> QED BY <2>1 DEF WalkOK
<1>4. ASSUME NEW j \in DOMAIN rs, last < j, Owns(rs[j], gap, n) PROVE ~Above(HunkTop(h), gap, n)
  <2>1. /\ last \in DOMAIN rs /\ HunkBottom(h) < RangeBottom(rs[last])
        /\ RangeBottom(rs[last]) <= RangeTop(rs[j])
    BY <1>1, <1>2, <1>4
  <2>2. /\ RangeBottom(rs[last]) \in Nat /\ RangeTop(rs[j]) \in Nat
        /\ HunkTop(h) \in Nat /\ HunkBottom(h) \in Nat /\ HunkTop(h) <= HunkBottom(h)
    BY <1>1, <2>1, RangeSpan, HunkSpan
  <2> QED BY <1>4, <2>1, <2>2 DEF Owns, Above
<1>5. /\ \A j \in 1 .. last : j \in DOMAIN rs
      /\ \A j \in DOMAIN rs : j \in 1 .. last \/ last < j
  BY <1>1, <1>2
<1> QED BY <1>3, <1>4, <1>5 DEF Says, last

\* What is left is what is below the hunk.
LEMMA RestIs ==
  ASSUME NEW rs, RangesOK(rs), NEW h \in GoodHunk
  PROVE  /\ RangesOK(RestAfter(rs, h))
         /\ Past(RestAfter(rs, h), HunkBottom(h))
         /\ \A gap \in BOOLEAN, n \in Int : \A c :
              Says(RestAfter(rs, h), gap, n, c) <=> Says(rs, gap, n, c) /\ n > HunkBottom(h)
<1> DEFINE last == Passed(rs, h)
           ib == HunkBottom(h)
           tail == SubSeq(rs, last + 1, Len(rs))
           below == IF last = 0 THEN <<>> ELSE Receive(rs[last], h).below
<1>1. /\ rs \in Seq(GoodRange) /\ Len(rs) \in Nat /\ DOMAIN rs = 1 .. Len(rs)
      /\ \A k, j \in DOMAIN rs : k < j => RangeBottom(rs[k]) <= RangeTop(rs[j])
  BY DEF RangesOK
<1>2. /\ last \in 0 .. Len(rs)
      /\ \A j \in 1 .. Len(rs) : j < last => RangeBottom(rs[j]) <= ib
      /\ last < Len(rs) => last > 0 /\ ib < RangeBottom(rs[last])
  BY PassedIs
<1>3. RestAfter(rs, h) = below \o tail
  BY DEF RestAfter
<1>4. ASSUME NEW j \in DOMAIN rs
      PROVE  /\ rs[j] \in GoodRange /\ ib \in Nat
             /\ RangeTop(rs[j]) \in Nat /\ RangeBottom(rs[j]) \in Nat
             /\ RangeTop(rs[j]) <= RangeBottom(rs[j])
  BY <1>1, RangeSpan, HunkSpan
<1>5. last # 0 => /\ IsBelow(Receive(rs[last], h).below, rs[last], ib)
                  /\ \A gap \in BOOLEAN, n \in Int : \A c :
                       Says(Receive(rs[last], h).below, gap, n, c)
                          <=> Owns(rs[last], gap, n) /\ rs[last].commit = c /\ n > ib
  <2>1. last # 0 => last \in DOMAIN rs
    BY <1>1, <1>2
  <2> SUFFICES ASSUME last # 0 PROVE <1>5!2
    OBVIOUS
  <2>2. IsBelow(Receive(rs[last], h).below, rs[last], ib)
    BY <1>4, <2>1, Received
  <2>3. ASSUME NEW gap \in BOOLEAN, NEW n \in Int, NEW c
        PROVE  Says(Receive(rs[last], h).below, gap, n, c)
                 <=> Owns(rs[last], gap, n) /\ rs[last].commit = c /\ n > ib
    <3> DEFINE r == rs[last]
    <3>1. r \in GoodRange
      BY <1>4, <2>1
    <3> HIDE DEF r, last
    <3> QED BY <3>1, ReceiveTiles DEF r
  <2> QED BY <2>2, <2>3
<1>6. /\ tail \in Seq(GoodRange) /\ DOMAIN tail = 1 .. Len(rs) - last
      /\ \A i \in DOMAIN tail : last + i \in DOMAIN rs /\ tail[i] = rs[last + i]
      /\ \A j \in DOMAIN rs : j > last => j - last \in DOMAIN tail /\ tail[j - last] = rs[j]
  <2>1. \A i \in last + 1 .. Len(rs) : rs[i] \in GoodRange
    BY <1>1, <1>2
  <2>2. /\ tail \in Seq(GoodRange)
        /\ Len(tail) = IF last + 1 <= Len(rs) THEN Len(rs) - (last + 1) + 1 ELSE 0
        /\ \A i \in 1 .. Len(rs) - (last + 1) + 1 : tail[i] = rs[last + 1 + i - 1]
    BY <1>1, <1>2, <2>1, SubSeqProperties, SMTT(30)
  <2> HIDE DEF tail, last
  <2> DEFINE N == Len(rs)
  <2>9. N \in Nat /\ last \in Nat /\ last <= N /\ DOMAIN rs = 1 .. N
    BY <1>1, <1>2
  <2>3. Len(tail) = Len(rs) - last /\ DOMAIN tail = 1 .. Len(rs) - last
    <3>1. Len(tail) = IF last + 1 <= N THEN N - (last + 1) + 1 ELSE 0
      BY <2>2
    <3>2. DOMAIN tail = 1 .. Len(tail)
      BY <2>2
    <3>3. Len(tail) = N - last
      <4> HIDE DEF N
      <4> QED BY <2>9, <3>1
    <3> QED BY <3>2, <3>3
  <2>4. \A i \in DOMAIN tail : last + i \in DOMAIN rs /\ tail[i] = rs[last + i]
    <3>1. \A i \in 1 .. N - last : /\ i \in 1 .. N - (last + 1) + 1 /\ last + 1 + i - 1 = last + i
                                  /\ last + i \in 1 .. N
      <4> HIDE DEF N
      <4> QED BY <2>9
    <3> QED BY <2>9, <2>2, <2>3, <3>1
  <2>5. \A j \in DOMAIN rs : j > last => j - last \in DOMAIN tail /\ last + (j - last) = j
    BY <1>1, <1>2, <2>3
  <2> QED BY <2>2, <2>3, <2>4, <2>5
<1> HIDE DEF last, tail, below, ib
<1>7. RangesOK(tail)
  <2>1. SUFFICES ASSUME NEW i \in DOMAIN tail, NEW j \in DOMAIN tail, i < j
                 PROVE  RangeBottom(tail[i]) <= RangeTop(tail[j])
    BY <1>6 DEF RangesOK
  <2>2. last + i < last + j
    BY <1>2, <1>6, <2>1
  <2> QED BY <1>1, <1>6, <2>2
<1>8. ASSUME NEW i \in DOMAIN tail
      PROVE  /\ last \in DOMAIN rs /\ ib < RangeBottom(rs[last])
             /\ RangeBottom(rs[last]) <= RangeTop(tail[i])
  <2>1. last < Len(rs) /\ last \in DOMAIN rs /\ last + i \in DOMAIN rs /\ last < last + i
    BY <1>1, <1>2, <1>6
  <2> QED BY <1>1, <1>2, <1>6, <2>1
<1>9. Past(tail, ib)
  BY <1>4, <1>6, <1>8 DEF Past
<1>10. /\ RangesOK(below) /\ Past(below, ib)
       /\ last # 0 => UpTo(below, RangeBottom(rs[last]))
  <2>1. CASE below = <<>>
    BY <2>1, NoRanges
  <2>2. CASE below # <<>>
    <3>1. last # 0 /\ last \in DOMAIN rs /\ below = Receive(rs[last], h).below
      BY <1>1, <1>2, <2>2 DEF below
    <3>2. PICK b \in GoodRange :
             /\ below = <<b>> /\ ib < RangeBottom(rs[last]) /\ RangeBottom(b) = RangeBottom(rs[last])
             /\ RangeTop(b) = IF ib > RangeTop(rs[last]) THEN ib ELSE RangeTop(rs[last])
      BY <1>5, <2>2, <3>1 DEF IsBelow
    <3>3. ib <= RangeTop(b) /\ ib < RangeBottom(b) /\ RangeBottom(b) <= RangeBottom(rs[last])
      BY <1>4, <3>1, <3>2
    <3> QED BY <3>2, <3>3, OneRange
  <2> QED BY <2>1, <2>2
<1>11. /\ RangesOK(below \o tail)
       /\ Past(below, ib) /\ Past(tail, ib) => Past(below \o tail, ib)
       /\ \A gap, n, c : Says(below \o tail, gap, n, c) <=> Says(below, gap, n, c) \/ Says(tail, gap, n, c)
  <2>1. CASE tail = <<>>
    <3>1. below \in Seq(GoodRange)
      BY <1>10 DEF RangesOK
    <3>2. below \o tail = below
      BY <2>1, <3>1, ConcatEmptySeq
    <3> QED BY <1>10, <2>1, <3>2, NoRanges
  <2>2. CASE tail # <<>>
    <3>1. PICK k \in DOMAIN tail : TRUE
      <4>1. Len(tail) \in Nat \ {0}
        BY <1>6, <2>2, EmptySeq
      <4>2. 1 \in DOMAIN tail
        <5>1. DOMAIN tail = 1 .. Len(tail)
          BY <1>6
        <5> QED BY <4>1, <5>1
      <4> QED BY <4>2
    <3>2. last \in DOMAIN rs /\ last # 0
      BY <1>1, <1>8, <3>1
    <3>3. UpTo(below, RangeBottom(rs[last])) /\ From(tail, RangeBottom(rs[last]))
      BY <1>8, <1>10, <3>2 DEF From
    <3>4. RangeBottom(rs[last]) \in Int
      BY <1>4, <3>2
    <3> QED BY <1>7, <1>10, <3>3, <3>4, Joined
  <2> QED BY <2>1, <2>2
<1>12. ASSUME NEW gap \in BOOLEAN, NEW n \in Int, NEW c
       PROVE  Says(below \o tail, gap, n, c) <=> Says(rs, gap, n, c) /\ n > ib
  <2>1. ASSUME NEW i \in DOMAIN tail, Owns(tail[i], gap, n) PROVE n > ib
    <3>1. /\ RangeTop(tail[i]) \in Nat /\ RangeBottom(tail[i]) \in Nat /\ ib \in Nat
          /\ RangeBottom(rs[last]) \in Nat
      BY <1>4, <1>6, <1>8
    <3> QED BY <1>8, <2>1, <3>1 DEF Owns
  <2>2. ASSUME NEW j \in DOMAIN rs, j < last, Owns(rs[j], gap, n) PROVE ~(n > ib)
    <3>1. RangeBottom(rs[j]) <= ib
      BY <1>1, <1>2, <2>2
    <3> QED BY <1>4, <2>2, <3>1 DEF Owns
  <2>3. Says(below, gap, n, c)
           <=> last # 0 /\ Owns(rs[last], gap, n) /\ rs[last].commit = c /\ n > ib
    <3>1. ~Says(<<>>, gap, n, c)
      BY NoRanges
    <3> QED BY <1>5, <3>1 DEF below
  <2>4. Says(tail, gap, n, c) <=> \E j \in DOMAIN rs : j > last /\ Owns(rs[j], gap, n) /\ rs[j].commit = c
    <3>1. \A i \in DOMAIN tail : last + i > last
      BY <1>2, <1>6
    <3> QED BY <1>6, <3>1 DEF Says
  <2>5. /\ \A j \in DOMAIN rs : j < last \/ j = last \/ j > last
        /\ last # 0 => last \in DOMAIN rs
        /\ \A j \in DOMAIN rs : j # 0
    BY <1>1, <1>2
  <2>6. Says(tail, gap, n, c) => Says(rs, gap, n, c) /\ n > ib
    <3>1. Says(tail, gap, n, c) => n > ib
      BY <2>1 DEF Says
    <3> QED BY <2>4, <3>1 DEF Says
  <2>7. Says(below, gap, n, c) => Says(rs, gap, n, c) /\ n > ib
    BY <2>3, <2>5 DEF Says
  <2>8. Says(rs, gap, n, c) /\ n > ib => Says(below, gap, n, c) \/ Says(tail, gap, n, c)
    BY <2>2, <2>3, <2>4, <2>5 DEF Says
  <2> QED BY <1>11, <2>6, <2>7, <2>8
<1> QED BY <1>3, <1>9, <1>10, <1>11, <1>12 DEF ib

\* What the ranges pushed say after a hunk: what they said, what the iterator
\* held above the hunk, and the hunk's own lines.
IsAdded(now, out, rest, shift, top, lines, c) ==
  \A gap \in BOOLEAN, n \in Int : \A d :
    Says(now, gap, n, d)
      <=> \/ Says(out, gap, n, d)
          \/ Says(rest, gap, n - shift, d) /\ Above(top, gap, n)
          \/ d = c /\ IF gap THEN lines = 0 /\ n = top ELSE top < n /\ n <= top + lines

\* One turn of the outer loop: the ranges pushed so far end at b + shift, in
\* the new line numbers, and those of the iterator are past b, in the old.
LEMMA HunkAdded ==
  ASSUME NEW acc, RangesOK(acc.out), RangesOK(acc.rest), acc.shift \in Int,
         NEW b \in Int, b + acc.shift >= 0 \/ acc.shift = 0,
         UpTo(acc.out, b + acc.shift), Past(acc.rest, b),
         NEW h \in GoodHunk, b < HunkTop(h), Top(h.newStart, h.newLines) = HunkTop(h) + acc.shift,
         NEW kind \in ChangeKind, NEW c \in Commit
  PROVE  LET now == AddHunk(acc, h, kind, c)
             top == HunkTop(h) + acc.shift
         IN  /\ RangesOK(now.out) /\ UpTo(now.out, top + h.newLines)
             /\ now.rest = RestAfter(acc.rest, h)
             /\ now.shift = acc.shift + NetLines(h)
             /\ IsAdded(now.out, acc.out, acc.rest, acc.shift, top, h.newLines, c)
<1> DEFINE got == ReceiveWalk(acc.rest, h)[Passed(acc.rest, h)]
           moved == Moved(got.above, acc.shift)
           own == [kind |-> kind, commit |-> c, start |-> h.newStart, lines |-> h.newLines,
                   shift |-> NetLines(h) + got.change]
           now == AddHunk(acc, h, kind, c)
           top == HunkTop(h) + acc.shift
           s == acc.shift
<1>1. /\ now.out = Append(acc.out \o moved, own)
      /\ now.rest = RestAfter(acc.rest, h)
      /\ now.shift = s + NetLines(h)
  BY DEF AddHunk, RestAfter
<1>2. WalkOK(acc.rest, h, Passed(acc.rest, h), got)
  BY PassedIs, ReceiveWalkIs
<1>3. \A gap \in BOOLEAN, n \in Int : \A d :
         Says(got.above, gap, n, d) <=> Says(acc.rest, gap, n, d) /\ Above(HunkTop(h), gap, n)
  BY PassedSay
<1>4. HunkTop(h) \in Nat /\ s \in Int /\ top \in Int
  BY HunkSpan
<1> HIDE DEF got, now, s
<1>5. /\ RangesOK(got.above) /\ got.change \in Int /\ UpTo(got.above, HunkTop(h))
      /\ Past(got.above, b)
  BY <1>2 DEF WalkOK
<1>6. /\ RangesOK(moved) /\ Past(moved, b + s) /\ UpTo(moved, top)
      /\ \A gap, d : \A n \in Int : Says(moved, gap, n, d) <=> Says(got.above, gap, n - s, d)
  BY <1>4, <1>5, MovedRanges DEF s
<1> HIDE DEF moved
<1>7. From(moved, b + s) /\ b + s <= top /\ b + s \in Int
  <2>1. top = HunkTop(h) + s
    BY DEF s
  <2>2. From(moved, b + s)
    BY <1>6 DEF Past, From
  <2> HIDE DEF top
  <2> QED BY <1>4, <2>1, <2>2
<1> DEFINE before == acc.out \o moved
<1>8. /\ RangesOK(before)
      /\ \A y : UpTo(acc.out, y) /\ UpTo(moved, y) => UpTo(before, y)
      /\ \A gap, n, d : Says(before, gap, n, d) <=> Says(acc.out, gap, n, d) \/ Says(moved, gap, n, d)
  BY <1>6, <1>7, Joined DEF s
<1>9. UpTo(acc.out, top)
  <2>1. \A i \in DOMAIN acc.out : RangeBottom(acc.out[i]) \in Int
    BY RangeSpan DEF RangesOK
  <2> QED BY <1>4, <1>7, <2>1 DEF UpTo, s
<1>10. /\ own \in GoodRange /\ own.commit = c
       /\ RangeTop(own) = top /\ RangeBottom(own) = top + h.newLines
       /\ h.newLines \in Nat
  <2>1. /\ h.newStart \in Nat /\ h.newLines \in Nat /\ h.oldLines \in Nat
        /\ SpanOK(h.newStart, h.newLines)
    BY DEF GoodHunk, Hunk
  <2>2. own \in GoodRange
    BY <1>5, <2>1 DEF GoodRange, HunkRange, NetLines
  <2>3. own.start = h.newStart /\ own.lines = h.newLines /\ own.commit = c
    OBVIOUS
  <2> HIDE DEF own
  <2> QED BY <2>1, <2>2, <2>3, SpanTop DEF RangeTop, RangeBottom, s
<1> HIDE DEF before, own, top
<1>11. now.out = before \o <<own>>
  BY <1>1, <1>8, <1>10, AppendIsConcat DEF RangesOK, before
<1>12. /\ RangesOK(<<own>>) /\ From(<<own>>, top) /\ UpTo(<<own>>, top + h.newLines)
       /\ \A gap, n, d : Says(<<own>>, gap, n, d) <=> Owns(own, gap, n) /\ own.commit = d
  BY <1>4, <1>10, OneRange
<1>13. UpTo(before, top) /\ UpTo(before, top + h.newLines)
  <2>1. UpTo(before, top)
    BY <1>6, <1>8, <1>9
  <2>2. \A i \in DOMAIN before : RangeBottom(before[i]) \in Int
    BY <1>8, RangeSpan DEF RangesOK
  <2> QED BY <1>4, <1>10, <2>1, <2>2 DEF UpTo
<1>14. /\ RangesOK(now.out) /\ UpTo(now.out, top + h.newLines)
       /\ \A gap, n, d : Says(now.out, gap, n, d)
                            <=> Says(before, gap, n, d) \/ Says(<<own>>, gap, n, d)
  BY <1>4, <1>8, <1>11, <1>12, <1>13, Joined
<1>15. ASSUME NEW gap \in BOOLEAN, NEW n \in Int, NEW d
       PROVE  Says(now.out, gap, n, d)
                    <=> \/ Says(acc.out, gap, n, d)
                        \/ Says(acc.rest, gap, n - s, d) /\ Above(top, gap, n)
                        \/ /\ d = c
                           /\ IF gap THEN h.newLines = 0 /\ n = top
                              ELSE top < n /\ n <= top + h.newLines
  <2>1. Says(moved, gap, n, d) <=> Says(acc.rest, gap, n - s, d) /\ Above(HunkTop(h), gap, n - s)
    <3>1. n - s \in Int
      BY <1>4
    <3> QED BY <1>3, <1>6, <3>1
  <2>2. Above(HunkTop(h), gap, n - s) <=> Above(top, gap, n)
    BY <1>4 DEF Above, top, s
  <2>3. Owns(own, gap, n) <=> IF gap THEN h.newLines = 0 /\ n = top
                              ELSE top < n /\ n <= top + h.newLines
    BY <1>4, <1>10 DEF Owns
  <2> QED BY <1>8, <1>10, <1>12, <1>14, <2>1, <2>2, <2>3
<1>16. IsAdded(now.out, acc.out, acc.rest, s, top, h.newLines, c)
  BY <1>15 DEF IsAdded
<1> QED BY <1>1, <1>14, <1>16 DEF now, top, s

-----------------------------------------------------------------------------
(* The file *)

Edits == [top : Nat, old : Nat, new : Nat]

CommitAt(places, gap, n) == IF gap THEN GapAfter(places, n).commit ELSE LineAt(places, n).commit

\* Commit c wrote line n of a file with `count` lines, or removed the lines after line n.
FileSays(places, count, gap, n, c) ==
  /\ (IF gap THEN 0 ELSE 1) <= n /\ n <= count
  /\ CommitAt(places, gap, n) = c

\* A line of the merge base is no commit's.
GoodPlace == {p \in Place : p.base # 0 => p.commit = Base}

\* A file of `count` lines.
FileOf(places, count) == count \in Nat /\ places \in Seq(GoodPlace) /\ Len(places) = 2 * count + 1

\* The number of lines of a file.
LEMMA CountOf ==
  ASSUME NEW places, NEW count, FileOf(places, count)
  PROVE  LineCount(places) = count
<1>1. count \in Nat /\ Len(places) = 2 * count + 1
  BY DEF FileOf
<1>2. (2 * count + 1) \div 2 = count
  BY <1>1
<1> QED BY <1>1, <1>2 DEF LineCount

\* What an edit brings is the commit's, place by place.
LEMMA BroughtIs ==
  ASSUME NEW new \in Nat, NEW c \in Commit
  PROVE  /\ Brought(new, c) \in Seq(GoodPlace)
         /\ Len(Brought(new, c)) = 2 * new + 1
         /\ \A i \in 0 .. new : /\ Brought(new, c)[2 * i + 1].commit = IF new = 0 THEN c ELSE Base
                               /\ Brought(new, c)[2 * i + 1].base = 0
         /\ \A i \in 1 .. new : Brought(new, c)[2 * i] = Written(c)
<1>1. /\ Gap(c) \in GoodPlace /\ Gap(Base) \in GoodPlace /\ Written(c) \in GoodPlace
      /\ Gap(c).commit = c /\ Gap(Base).commit = Base /\ Gap(c).base = 0 /\ Gap(Base).base = 0
  BY HunkRangesAssumption DEF Gap, Written, GoodPlace, Place, Base
<1> DEFINE b == Brought(new, c)
<1>2. CASE new = 0
  <2>1. b = <<Gap(c)>>
    BY <1>2 DEF Brought
  <2>2. b \in Seq(GoodPlace) /\ Len(b) = 1 /\ b[1] = Gap(c)
    BY <1>1, <2>1
  <2>3. \A i \in 0 .. new : 2 * i + 1 = 1
    BY <1>2
  <2> HIDE DEF b
  <2> QED BY <1>1, <1>2, <2>2, <2>3 DEF b
<1>3. CASE new # 0
  <2> DEFINE at(i) == IF i % 2 = 1 THEN Gap(Base) ELSE Written(c)
             N == 2 * new + 1
  <2>1. b = [i \in 1 .. N |-> at(i)]
    BY <1>3 DEF Brought
  <2>2. \A i \in 1 .. N : at(i) \in GoodPlace
    BY <1>1
  <2>3. N \in Nat
    OBVIOUS
  <2>4. b \in Seq(GoodPlace) /\ Len(b) = N
    <3> HIDE DEF at, N
    <3> QED BY <2>1, <2>2, <2>3
  <2>5. ASSUME NEW i \in 0 .. new PROVE b[2 * i + 1].commit = Base /\ b[2 * i + 1].base = 0
    <3>1. 2 * i + 1 \in 1 .. N /\ (2 * i + 1) % 2 = 1
      OBVIOUS
    <3> QED BY <1>1, <2>1, <3>1
  <2>6. ASSUME NEW i \in 1 .. new PROVE b[2 * i] = Written(c)
    <3>1. 2 * i \in 1 .. N /\ (2 * i) % 2 = 0
      OBVIOUS
    <3> QED BY <1>1, <2>1, <3>1
  <2> HIDE DEF b
  <2> QED BY <1>3, <2>4, <2>5, <2>6 DEF b
<1> QED BY <1>2, <1>3

\* The first a elements of a sequence, others, and what follows the first b.
Splice(s, a, mid, b) == SubSeq(s, 1, a) \o mid \o SubSeq(s, b + 1, Len(s))

IsSplice(p, s, a, mid, b) ==
  /\ Len(p) = a + Len(mid) + (Len(s) - b)
  /\ \A i \in 1 .. a + Len(mid) + (Len(s) - b) :
       /\ i <= a => p[i] = s[i]
       /\ a < i /\ i <= a + Len(mid) => p[i] = mid[i - a]
       /\ a + Len(mid) < i => p[i] = s[i - a - Len(mid) + b]

\* What a splice is, element by element.
LEMMA SpliceIs ==
  ASSUME NEW S, NEW s \in Seq(S), NEW mid \in Seq(S), NEW a \in Nat, NEW b \in Nat, a <= b, b <= Len(s)
  PROVE  Splice(s, a, mid, b) \in Seq(S) /\ IsSplice(Splice(s, a, mid, b), s, a, mid, b)
<1> DEFINE p1 == SubSeq(s, 1, a)
           p3 == SubSeq(s, b + 1, Len(s))
           q == p1 \o mid
           p == Splice(s, a, mid, b)
           N == Len(s)
           M == Len(mid)
<1>1. N \in Nat /\ M \in Nat /\ \A i \in 1 .. N : s[i] \in S
  OBVIOUS
<1>2. /\ p1 \in Seq(S) /\ Len(p1) = a
      /\ \A i \in 1 .. a : p1[i] = s[i]
  <2>1. \A i \in 1 .. a : s[i] \in S
    OBVIOUS
  <2>2. /\ p1 \in Seq(S)
        /\ Len(p1) = IF 1 <= a THEN a - 1 + 1 ELSE 0
        /\ \A i \in 1 .. a - 1 + 1 : p1[i] = s[1 + i - 1]
    BY <2>1, SubSeqProperties
  <2> HIDE DEF p1
  <2>3. Len(p1) = a /\ a - 1 + 1 = a /\ \A i \in 1 .. a : 1 + i - 1 = i
    BY <2>2
  <2> QED BY <2>2, <2>3
<1>3. /\ p3 \in Seq(S) /\ Len(p3) = N - b
      /\ \A i \in 1 .. N - b : p3[i] = s[b + i]
  <2>1. \A i \in b + 1 .. Len(s) : s[i] \in S
    BY <1>1
  <2>2. b + 1 \in Int /\ Len(s) \in Int
    BY <1>1
  <2>3. /\ p3 \in Seq(S)
        /\ Len(p3) = IF b + 1 <= Len(s) THEN Len(s) - (b + 1) + 1 ELSE 0
        /\ \A i \in 1 .. Len(s) - (b + 1) + 1 : p3[i] = s[b + 1 + i - 1]
    BY <2>1, <2>2, SubSeqProperties
  <2> HIDE DEF p3
  <2>4. /\ Len(p3) = N - b /\ Len(s) - (b + 1) + 1 = N - b
        /\ \A i \in 1 .. N - b : b + 1 + i - 1 = b + i
    BY <1>1, <2>3
  <2> QED BY <2>3, <2>4
<1> HIDE DEF p1, p3
<1>4. /\ q \in Seq(S) /\ Len(q) = a + M
      /\ \A i \in 1 .. a + M : q[i] = IF i <= a THEN p1[i] ELSE mid[i - a]
  BY <1>2, ConcatProperties
<1> HIDE DEF q
<1>5. /\ p \in Seq(S) /\ Len(p) = a + M + (N - b)
      /\ \A i \in 1 .. a + M + (N - b) : p[i] = IF i <= a + M THEN q[i] ELSE p3[i - (a + M)]
  <2>1. p = q \o p3
    BY DEF q, p1, p3, Splice
  <2>2. q \in Seq(S) /\ p3 \in Seq(S)
    BY <1>3, <1>4
  <2>3. /\ q \o p3 \in Seq(S) /\ Len(q \o p3) = Len(q) + Len(p3)
        /\ \A i \in 1 .. Len(q) + Len(p3) : (q \o p3)[i] = IF i <= Len(q) THEN q[i] ELSE p3[i - Len(q)]
    BY <2>2, ConcatProperties
  <2> QED BY <1>3, <1>4, <2>1, <2>3
<1> HIDE DEF p, N, M
<1>6. ASSUME NEW i \in 1 .. a + M + (N - b)
      PROVE  /\ i <= a => p[i] = s[i]
             /\ a < i /\ i <= a + M => p[i] = mid[i - a]
             /\ a + M < i => p[i] = s[i - a - M + b]
  <2>1. i \in Nat /\ a + M \in Nat /\ i >= 1
    BY <1>1
  <2>2. ASSUME i <= a PROVE p[i] = s[i]
    <3>1. i \in 1 .. a /\ i \in 1 .. a + M /\ i <= a + M
      BY <1>1, <2>1, <2>2
    <3> QED BY <1>2, <1>4, <1>5, <2>2, <3>1
  <2>3. ASSUME a < i, i <= a + M PROVE p[i] = mid[i - a]
    <3>1. i \in 1 .. a + M /\ ~(i <= a)
      BY <1>1, <2>1, <2>3
    <3> QED BY <1>4, <1>5, <2>3, <3>1
  <2>4. ASSUME a + M < i PROVE p[i] = s[i - a - M + b]
    <3>1. /\ i - (a + M) \in 1 .. N - b /\ ~(i <= a + M)
          /\ b + (i - (a + M)) = i - a - M + b
      BY <1>1, <2>1, <2>4
    <3> QED BY <1>3, <1>5, <3>1
  <2> QED BY <2>2, <2>3, <2>4
<1> QED BY <1>5, <1>6 DEF p, N, M, IsSplice

\* An edit place by place: what is above stays, what is below moves, and the
\* new lines, or the gap where nothing was put, are the commit's.
PlacesPatched(next, places, m, top, old, new, c) ==
  /\ \A n \in 0 .. m - old + new :
       /\ n < top => GapAfter(next, n) = GapAfter(places, n)
       /\ top <= n /\ n <= top + new => /\ GapAfter(next, n).commit = IF new = 0 THEN c ELSE Base
                                        /\ GapAfter(next, n).base = 0
       /\ n > top + new => GapAfter(next, n) = GapAfter(places, n - new + old)
  /\ \A n \in 1 .. m - old + new :
       /\ n <= top => LineAt(next, n) = LineAt(places, n)
       /\ top < n /\ n <= top + new => LineAt(next, n) = Written(c)
       /\ n > top + new => LineAt(next, n) = LineAt(places, n - new + old)

\* What an edit does to a file.
LEMMA PatchedPlaces ==
  ASSUME NEW places, NEW m, FileOf(places, m),
         NEW e \in Edits, e.top + e.old <= m, NEW c \in Commit
  PROVE  /\ FileOf(Patched(places, e, c), m - e.old + e.new)
         /\ PlacesPatched(Patched(places, e, c), places, m, e.top, e.old, e.new, c)
<1> DEFINE top == e.top
           old == e.old
           new == e.new
           brought == Brought(new, c)
           p == Patched(places, e, c)
           mm == m - old + new
           a == 2 * top
           b == 2 * (top + old) + 1
<1>1. /\ top \in Nat /\ old \in Nat /\ new \in Nat /\ top + old <= m
      /\ m \in Nat /\ places \in Seq(GoodPlace) /\ Len(places) = 2 * m + 1
  BY DEF Edits, FileOf
<1>2. p = Splice(places, a, brought, b)
  <2>1. 2 * (top + old) + 2 = b + 1
    <3> HIDE DEF top, old
    <3> QED BY <1>1
  <2> HIDE DEF b
  <2> QED BY <2>1 DEF Patched, Splice
<1> HIDE DEF top, old, new, p
<1>3. mm \in Nat /\ a \in Nat /\ b \in Nat /\ a <= b /\ b <= Len(places)
  BY <1>1
<1>4. /\ brought \in Seq(GoodPlace) /\ Len(brought) = 2 * new + 1
      /\ \A i \in 0 .. new : /\ brought[2 * i + 1].commit = IF new = 0 THEN c ELSE Base
                            /\ brought[2 * i + 1].base = 0
      /\ \A i \in 1 .. new : brought[2 * i] = Written(c)
  BY <1>1, BroughtIs
<1> HIDE DEF brought, a, b
<1>5. a + (2 * new + 1) + (Len(places) - b) = 2 * mm + 1
  BY <1>1 DEF a, b
<1>6. /\ p \in Seq(GoodPlace) /\ Len(p) = 2 * mm + 1
      /\ \A i \in 1 .. 2 * mm + 1 :
           /\ i <= a => p[i] = places[i]
           /\ a < i /\ i <= a + (2 * new + 1) => p[i] = brought[i - a]
           /\ a + (2 * new + 1) < i => p[i] = places[i - a - (2 * new + 1) + b]
  <2> DEFINE M == Len(brought)
             n == a + M + (Len(places) - b)
  <2>1. /\ p \in Seq(GoodPlace) /\ Len(p) = n
        /\ \A i \in 1 .. n : /\ i <= a => p[i] = places[i]
                             /\ a < i /\ i <= a + M => p[i] = brought[i - a]
                             /\ a + M < i => p[i] = places[i - a - M + b]
    <3>1. brought \in Seq(GoodPlace)
      BY <1>4
    <3> HIDE DEF M, mm
    <3>2. places \in Seq(GoodPlace) /\ a \in Nat /\ b \in Nat /\ a <= b /\ b <= Len(places)
      BY <1>1, <1>3
    <3> HIDE DEF n
    <3>3. n = a + Len(brought) + (Len(places) - b) /\ M = Len(brought)
      BY DEF n, M
    <3>4. p \in Seq(GoodPlace) /\ IsSplice(p, places, a, brought, b)
      BY <1>2, <3>1, <3>2, SpliceIs
    <3> QED BY <3>3, <3>4 DEF IsSplice
  <2>2. M = 2 * new + 1 /\ n = 2 * mm + 1
    BY <1>4, <1>5
  <2> HIDE DEF M, n, mm
  <2> QED BY <2>1, <2>2
<1> HIDE DEF mm
<1>7. mm = m - old + new
  BY DEF mm
<1>8. /\ p \in Seq(GoodPlace) /\ Len(p) = 2 * mm + 1 /\ mm \in Nat
  BY <1>3, <1>6
<1>9. FileOf(p, mm)
  BY <1>8 DEF FileOf
<1>10. mm = m - old + new
  BY <1>7
<1>11. ASSUME NEW n \in Int, 0 <= n, n <= mm
       PROVE  /\ n < top => GapAfter(p, n) = GapAfter(places, n)
              /\ top <= n /\ n <= top + new => /\ GapAfter(p, n).commit = IF new = 0 THEN c ELSE Base
                                               /\ GapAfter(p, n).base = 0
              /\ n > top + new => GapAfter(p, n) = GapAfter(places, n - new + old)
  <2> DEFINE i == 2 * n + 1
  <2>1. GapAfter(p, n) = p[i] /\ i \in 1 .. 2 * mm + 1
    BY <1>3, <1>11, <1>8 DEF GapAfter
  <2>2. ASSUME n < top PROVE GapAfter(p, n) = GapAfter(places, n)
    <3>1. i <= a
      BY <1>1, <2>2 DEF a
    <3> QED BY <1>6, <2>1, <3>1 DEF GapAfter
  <2>3. ASSUME top <= n, n <= top + new
        PROVE  GapAfter(p, n).commit = (IF new = 0 THEN c ELSE Base) /\ GapAfter(p, n).base = 0
    <3>1. a < i /\ i <= a + (2 * new + 1) /\ i - a = 2 * (n - top) + 1 /\ n - top \in 0 .. new
      BY <1>1, <2>3 DEF a
    <3> HIDE DEF i
    <3>2. p[i] = brought[2 * (n - top) + 1]
      BY <1>6, <2>1, <3>1
    <3> QED BY <1>4, <2>1, <3>1, <3>2
  <2>4. ASSUME n > top + new PROVE GapAfter(p, n) = GapAfter(places, n - new + old)
    <3>1. a + (2 * new + 1) < i /\ i - a - (2 * new + 1) + b = 2 * (n - new + old) + 1
      BY <1>1, <2>4 DEF a, b
    <3> HIDE DEF i
    <3>2. p[i] = places[2 * (n - new + old) + 1]
      BY <1>6, <2>1, <3>1
    <3> QED BY <2>1, <3>2 DEF GapAfter
  <2> QED BY <2>2, <2>3, <2>4
<1>12. ASSUME NEW n \in Int, 1 <= n, n <= mm
       PROVE  /\ n <= top => LineAt(p, n) = LineAt(places, n)
              /\ top < n /\ n <= top + new => LineAt(p, n) = Written(c)
              /\ n > top + new => LineAt(p, n) = LineAt(places, n - new + old)
  <2> DEFINE i == 2 * n
  <2>1. LineAt(p, n) = p[i] /\ i \in 1 .. 2 * mm + 1
    BY <1>3, <1>12, <1>8 DEF LineAt
  <2>2. ASSUME n <= top PROVE LineAt(p, n) = LineAt(places, n)
    <3>1. i <= a
      BY <1>1, <2>2 DEF a
    <3> QED BY <1>6, <2>1, <3>1 DEF LineAt
  <2>3. ASSUME top < n, n <= top + new PROVE LineAt(p, n) = Written(c)
    <3>1. a < i /\ i <= a + (2 * new + 1) /\ i - a = 2 * (n - top) /\ n - top \in 1 .. new
      BY <1>1, <2>3 DEF a
    <3> HIDE DEF i
    <3>2. p[i] = brought[2 * (n - top)]
      BY <1>6, <2>1, <3>1
    <3> QED BY <1>4, <2>1, <3>1, <3>2
  <2>4. ASSUME n > top + new PROVE LineAt(p, n) = LineAt(places, n - new + old)
    <3>1. a + (2 * new + 1) < i /\ i - a - (2 * new + 1) + b = 2 * (n - new + old)
      BY <1>1, <2>4 DEF a, b
    <3> HIDE DEF i
    <3>2. p[i] = places[2 * (n - new + old)]
      BY <1>6, <2>1, <3>1
    <3> QED BY <2>1, <3>2 DEF LineAt
  <2> QED BY <2>2, <2>3, <2>4
<1>13. PlacesPatched(p, places, m, top, old, new, c)
  <2>1. \A n \in 0 .. mm : n \in Int /\ 0 <= n /\ n <= mm
    BY <1>8
  <2>2. \A n \in 1 .. mm : n \in Int /\ 1 <= n /\ n <= mm
    BY <1>8
  <2> QED BY <1>7, <1>11, <1>12, <2>1, <2>2 DEF PlacesPatched
<1> QED BY <1>9, <1>13 DEF p, mm, top, old, new

\* What an edit leaves to whom.
IsPatched(next, places, m, top, old, new, c) ==
  \A gap \in BOOLEAN, n \in Int : \A d \in Commit :
    FileSays(next, m - old + new, gap, n, d)
      <=> \/ FileSays(places, m, gap, n, d) /\ Above(top, gap, n)
          \/ FileSays(places, m, gap, n - new + old, d) /\ n > top + new
          \/ d = c /\ IF gap THEN new = 0 /\ n = top ELSE top < n /\ n <= top + new

\* The same, by who owns which place.
LEMMA PatchedIs ==
  ASSUME NEW places, NEW m, FileOf(places, m),
         NEW e \in Edits, e.top + e.old <= m, NEW c \in Commit
  PROVE  /\ FileOf(Patched(places, e, c), m - e.old + e.new)
         /\ IsPatched(Patched(places, e, c), places, m, e.top, e.old, e.new, c)
<1> DEFINE top == e.top
           old == e.old
           new == e.new
           p == Patched(places, e, c)
           mm == m - old + new
<1>1. /\ top \in Nat /\ old \in Nat /\ new \in Nat /\ top + old <= m
      /\ m \in Nat
  BY DEF Edits, FileOf
<1>9. FileOf(p, mm) /\ PlacesPatched(p, places, m, top, old, new, c)
  BY PatchedPlaces
<1> HIDE DEF top, old, new, p
<1>10. mm = m - old + new /\ mm \in Nat
  BY <1>1
<1> HIDE DEF mm
<1>2. Written(c).commit = c
  BY DEF Written
<1>11. ASSUME NEW n \in Int, 0 <= n, n <= mm
       PROVE  /\ n < top => CommitAt(p, TRUE, n) = CommitAt(places, TRUE, n)
              /\ top <= n /\ n <= top + new => CommitAt(p, TRUE, n) = IF new = 0 THEN c ELSE Base
              /\ n > top + new => CommitAt(p, TRUE, n) = CommitAt(places, TRUE, n - new + old)
  <2>1. n \in 0 .. m - old + new
    BY <1>10, <1>11
  <2> QED BY <1>9, <2>1 DEF PlacesPatched, CommitAt
<1>12. ASSUME NEW n \in Int, 1 <= n, n <= mm
       PROVE  /\ n <= top => CommitAt(p, FALSE, n) = CommitAt(places, FALSE, n)
              /\ top < n /\ n <= top + new => CommitAt(p, FALSE, n) = c
              /\ n > top + new => CommitAt(p, FALSE, n) = CommitAt(places, FALSE, n - new + old)
  <2>1. n \in 1 .. m - old + new
    BY <1>10, <1>12
  <2> QED BY <1>2, <1>9, <2>1 DEF PlacesPatched, CommitAt
<1>13. ASSUME NEW gap \in BOOLEAN, NEW n \in Int, NEW d \in Commit
       PROVE  FileSays(p, mm, gap, n, d)
                <=> \/ FileSays(places, m, gap, n, d) /\ Above(top, gap, n)
                    \/ FileSays(places, m, gap, n - new + old, d) /\ n > top + new
                    \/ d = c /\ IF gap THEN new = 0 /\ n = top ELSE top < n /\ n <= top + new
  <2>1. d # Base
    BY DEF Commit, Base
  <2>2. CASE gap = TRUE
    <3>1. FileSays(p, mm, gap, n, d) <=> 0 <= n /\ n <= mm /\ CommitAt(p, TRUE, n) = d
      BY <2>2 DEF FileSays
    <3>2. \A k : FileSays(places, m, gap, k, d) <=> 0 <= k /\ k <= m /\ CommitAt(places, TRUE, k) = d
      BY <2>2 DEF FileSays
    <3>3. CASE n < top
      <4>1. n <= m /\ n <= mm /\ ~(n > top + new) /\ n # top
        BY <1>1, <1>10, <3>3
      <4> QED BY <1>11, <2>2, <3>1, <3>2, <3>3, <4>1 DEF Above
    <3>4. CASE top <= n /\ n <= top + new
      <4>1. /\ 0 <= n /\ n <= mm /\ ~(n > top + new) /\ ~(n < top)
            /\ new = 0 => n = top
        BY <1>1, <1>10, <3>4
      <4> QED BY <1>11, <2>1, <2>2, <3>1, <3>2, <3>4, <4>1 DEF Above
    <3>5. CASE n > top + new
      <4>1. /\ 0 <= n /\ 0 <= n - new + old /\ ~(n <= top + new) /\ ~(n < top) /\ n # top
            /\ n <= mm <=> n - new + old <= m
        BY <1>1, <1>10, <3>5
      <4> QED BY <1>11, <2>2, <3>1, <3>2, <3>5, <4>1 DEF Above
    <3> QED BY <1>1, <3>3, <3>4, <3>5
  <2>3. CASE gap = FALSE
    <3>1. FileSays(p, mm, gap, n, d) <=> 1 <= n /\ n <= mm /\ CommitAt(p, FALSE, n) = d
      BY <2>3 DEF FileSays
    <3>2. \A k : FileSays(places, m, gap, k, d) <=> 1 <= k /\ k <= m /\ CommitAt(places, FALSE, k) = d
      BY <2>3 DEF FileSays
    <3>3. CASE n <= top
      <4>1. n <= m /\ n <= mm /\ ~(n > top + new) /\ ~(top < n)
        BY <1>1, <1>10, <3>3
      <4> QED BY <1>12, <2>3, <3>1, <3>2, <3>3, <4>1 DEF Above
    <3>4. CASE top < n /\ n <= top + new
      <4>1. 1 <= n /\ n <= mm /\ ~(n > top + new) /\ ~(n <= top)
        BY <1>1, <1>10, <3>4
      <4> QED BY <1>12, <2>3, <3>1, <3>2, <3>4, <4>1 DEF Above
    <3>5. CASE n > top + new
      <4>1. /\ 1 <= n /\ 1 <= n - new + old /\ ~(n <= top + new) /\ ~(n <= top) /\ top < n
            /\ n <= mm <=> n - new + old <= m
        BY <1>1, <1>10, <3>5
      <4> QED BY <1>12, <2>3, <3>1, <3>2, <3>5, <4>1 DEF Above
    <3> QED BY <1>1, <3>3, <3>4, <3>5
  <2> QED BY <2>2, <2>3
<1> QED BY <1>9, <1>13 DEF IsPatched, p, mm, top, old, new

\* PatchedIs for an edit given by its parts.
LEMMA PatchedParts ==
  ASSUME NEW places, NEW m, FileOf(places, m), NEW here \in Edits, NEW c \in Commit,
         NEW top \in Nat, NEW old \in Nat, NEW new \in Nat, top + old <= m,
         here.top = top, here.old = old, here.new = new
  PROVE  /\ FileOf(Patched(places, here, c), m - old + new)
         /\ IsPatched(Patched(places, here, c), places, m, top, old, new, c)
         /\ PlacesPatched(Patched(places, here, c), places, m, top, old, new, c)
BY PatchedIs, PatchedPlaces

\* What is below an edit only moves.
MovesBelow(next, places, m, top, old, new) ==
  \A gap \in BOOLEAN, n \in Int : \A d \in Commit :
    n > top + new =>
      (FileSays(next, m - old + new, gap, n, d) <=> FileSays(places, m, gap, n - new + old, d))

\* That is what an edit does.
LEMMA PatchedBelow ==
  ASSUME NEW next, NEW places, NEW m \in Int, NEW top \in Int, NEW old \in Nat, NEW new \in Nat, NEW c,
         IsPatched(next, places, m, top, old, new, c)
  PROVE  MovesBelow(next, places, m, top, old, new)
<1> SUFFICES ASSUME NEW gap \in BOOLEAN, NEW n \in Int, NEW d \in Commit, n > top + new
             PROVE  FileSays(next, m - old + new, gap, n, d) <=> FileSays(places, m, gap, n - new + old, d)
  BY DEF MovesBelow
<1>1. /\ ~Above(top, gap, n)
      /\ ~(IF gap THEN new = 0 /\ n = top ELSE top < n /\ n <= top + new)
  BY DEF Above
<1>2. FileSays(next, m - old + new, gap, n, d)
         <=> \/ FileSays(places, m, gap, n, d) /\ Above(top, gap, n)
             \/ FileSays(places, m, gap, n - new + old, d) /\ n > top + new
             \/ d = c /\ IF gap THEN new = 0 /\ n = top ELSE top < n /\ n <= top + new
  BY DEF IsPatched
<1> QED BY <1>1, <1>2

-----------------------------------------------------------------------------
(* A whole diff *)

\* The last old line the first k edits reach.
Reached(edits, k) == IF k = 0 THEN -1 ELSE edits[k].top + edits[k].old

\* The edits of a diff to a file of m lines: in order, with a line between two of them.
EditsOK(edits, m) ==
  /\ edits \in Seq(Edits)
  /\ \A k \in 1 .. Len(edits) : /\ Reached(edits, k - 1) < edits[k].top
                                /\ Reached(edits, k) <= m

\* Types of the edits of a diff.
LEMMA ReachedIs ==
  ASSUME NEW edits, NEW m \in Nat, EditsOK(edits, m)
  PROVE  /\ Len(edits) \in Nat
         /\ \A k \in 0 .. Len(edits) : Reached(edits, k) \in Int /\ -1 <= Reached(edits, k) /\ Reached(edits, k) <= m
         /\ \A k \in 1 .. Len(edits) : /\ edits[k] \in Edits
                                       /\ edits[k].top \in Nat /\ edits[k].old \in Nat /\ edits[k].new \in Nat
                                       /\ Reached(edits, k) = edits[k].top + edits[k].old
<1>1. edits \in Seq(Edits) /\ Len(edits) \in Nat
  BY DEF EditsOK
<1>2. ASSUME NEW k \in 1 .. Len(edits)
      PROVE  /\ edits[k] \in Edits
             /\ edits[k].top \in Nat /\ edits[k].old \in Nat /\ edits[k].new \in Nat
             /\ Reached(edits, k) = edits[k].top + edits[k].old
             /\ Reached(edits, k) <= m
  <2>1. edits[k] \in Edits
    BY <1>1
  <2>2. edits[k].top \in Nat /\ edits[k].old \in Nat /\ edits[k].new \in Nat
    BY <2>1 DEF Edits
  <2>3. Reached(edits, k) = edits[k].top + edits[k].old
    BY <1>1 DEF Reached
  <2>4. Reached(edits, k) <= m
    BY DEF EditsOK
  <2> QED BY <2>1, <2>2, <2>3, <2>4
<1>3. Reached(edits, 0) = -1
  BY DEF Reached
<1>4. ASSUME NEW k \in 0 .. Len(edits)
      PROVE  Reached(edits, k) \in Int /\ -1 <= Reached(edits, k) /\ Reached(edits, k) <= m
  <2>1. k = 0 \/ k \in 1 .. Len(edits)
    BY <1>1
  <2>2. CASE k = 0
    BY <1>3, <2>2
  <2>3. CASE k \in 1 .. Len(edits)
    BY <1>2, <2>3
  <2> QED BY <2>1, <2>2, <2>3
<1> QED BY <1>1, <1>2, <1>4

\* The recursive function Shifts is what its definition says.
LEMMA ShiftsUnfold ==
  ASSUME NEW edits \in Seq(Edits)
  PROVE  /\ Shifts(edits)[0] = 0
         /\ \A k \in 1 .. Len(edits) : Shifts(edits)[k] = Shifts(edits)[k - 1] + edits[k].new - edits[k].old
         /\ \A k \in 0 .. Len(edits) : Shifts(edits)[k] \in Int
<1> DEFINE N == Len(edits)
           step == [k \in 1 .. N |-> [v \in Int |-> v + edits[k].new - edits[k].old]]
<1>1. N \in Nat
  OBVIOUS
<1>2. ASSUME NEW k \in 1 .. N PROVE edits[k].new \in Int /\ edits[k].old \in Int
  <2>1. edits[k] \in Edits
    OBVIOUS
  <2> QED BY <2>1 DEF Edits
<1>3. step \in [1 .. N -> [Int -> Int]] /\ 0 \in Int
  BY <1>2
<1>4. PICK g \in [0 .. N -> Int] : IsRecursion(g, N, 0, step)
  <2> HIDE DEF step, N
  <2> QED BY <1>1, <1>3, RecursionExists
<1>5. \A i \in 1 .. N : i - 1 \in 0 .. N /\ i \in 0 .. N /\ i # 0
  BY <1>1
<1>6. g = [k \in 0 .. N |-> IF k = 0 THEN 0 ELSE g[k - 1] + edits[k].new - edits[k].old]
  <2>1. ASSUME NEW i \in 1 .. N PROVE g[i] = g[i - 1] + edits[i].new - edits[i].old
    BY <1>4, <1>5 DEF IsRecursion
  <2>2. \A i \in 0 .. N : i = 0 \/ i \in 1 .. N
    BY <1>1
  <2> QED BY <1>4, <2>1, <2>2 DEF IsRecursion
<1>7. Shifts(edits) = [k \in 0 .. N |-> IF k = 0 THEN 0 ELSE Shifts(edits)[k - 1] + edits[k].new - edits[k].old]
  BY <1>6, Zenon DEF Shifts
<1> HIDE DEF N
<1>8. Shifts(edits)[0] = 0
  BY <1>1, <1>7
<1>9. \A i \in 1 .. N : Shifts(edits)[i] = Shifts(edits)[i - 1] + edits[i].new - edits[i].old
  BY <1>5, <1>7
<1>10. 0 .. N \subseteq {k \in 0 .. N : Shifts(edits)[k] \in Int}
  <2> DEFINE S == {k \in 0 .. N : Shifts(edits)[k] \in Int}
  <2>1. 0 \in S
    BY <1>1, <1>8
  <2>2. ASSUME NEW i \in 1 .. N, i - 1 \in S PROVE i \in S
    <3>1. Shifts(edits)[i - 1] \in Int /\ edits[i].new \in Int /\ edits[i].old \in Int
      BY <1>2, <2>2
    <3>2. Shifts(edits)[i] \in Int
      BY <1>9, <3>1
    <3> QED BY <1>5, <3>2
  <2> HIDE DEF S
  <2>3. 0 .. N \subseteq S
    BY <1>1, <2>1, <2>2, BoundedInduction
  <2> QED BY <2>3 DEF S
<1> QED BY <1>8, <1>9, <1>10 DEF N

\* What is past x has only moved.
HasMoved(now, places, m, shift, x) ==
  \A gap \in BOOLEAN, n \in Int : \A d \in Commit :
    n > x => (FileSays(now, m + shift, gap, n + shift, d) <=> FileSays(places, m, gap, n, d))

\* The file after k edits: what is past the last of them has only moved.
PatchOK(places, m, edits, k, now) ==
  LET shift == Shifts(edits)[k]
      reached == Reached(edits, k)
  IN  /\ FileOf(now, m + shift)
      /\ reached + shift >= 0 \/ shift = 0
      /\ HasMoved(now, places, m, shift, reached)

\* Edit k, in the line numbers of the file after the edits before it.
Here(edits, k) == [edits[k] EXCEPT !.top = @ + Shifts(edits)[k - 1]]

PatchStep(now, edits, k, c) == Patched(now, Here(edits, k), c)

\* An edit in the line numbers it is made at.
LEMMA EditHere ==
  ASSUME NEW places, NEW m, FileOf(places, m), NEW edits, EditsOK(edits, m), NEW k \in 1 .. Len(edits),
         NEW now, PatchOK(places, m, edits, k - 1, now)
  PROVE  /\ m \in Nat /\ Shifts(edits)[k - 1] \in Int
         /\ Shifts(edits)[k] = Shifts(edits)[k - 1] + edits[k].new - edits[k].old
         /\ edits[k].top \in Nat /\ edits[k].old \in Nat /\ edits[k].new \in Nat
         /\ edits[k].top + Shifts(edits)[k - 1] \in Nat
         /\ edits[k].top + edits[k].old <= m
         /\ Reached(edits, k) = edits[k].top + edits[k].old
         /\ Reached(edits, k - 1) \in Int /\ Reached(edits, k - 1) < edits[k].top
         /\ Here(edits, k) \in Edits
         /\ Here(edits, k).top = edits[k].top + Shifts(edits)[k - 1]
         /\ Here(edits, k).old = edits[k].old /\ Here(edits, k).new = edits[k].new
<1> DEFINE e == edits[k]
           s == Shifts(edits)[k - 1]
           here == Here(edits, k)
<1>1. m \in Nat /\ edits \in Seq(Edits)
  BY DEF FileOf, EditsOK
<1>2. /\ e \in Edits /\ e.top \in Nat /\ e.old \in Nat /\ e.new \in Nat
      /\ Reached(edits, k) = e.top + e.old
      /\ k - 1 \in 0 .. Len(edits) /\ k \in 0 .. Len(edits)
  BY <1>1, ReachedIs
<1>3. /\ Reached(edits, k - 1) \in Int /\ -1 <= Reached(edits, k - 1)
      /\ Reached(edits, k - 1) < e.top /\ Reached(edits, k) <= m
  BY <1>1, <1>2, ReachedIs DEF EditsOK
<1>4. s \in Int /\ Shifts(edits)[k] = s + e.new - e.old
  BY <1>1, <1>2, ShiftsUnfold
<1>5. Reached(edits, k - 1) + s >= 0 \/ s = 0
  BY DEF PatchOK
<1>6. here = [e EXCEPT !.top = @ + s]
  BY DEF Here
<1> HIDE DEF e, s, here
<1>7. e.top + s \in Nat
  BY <1>2, <1>3, <1>4, <1>5
<1>8. e = [top |-> e.top, old |-> e.old, new |-> e.new]
  BY <1>2 DEF Edits
<1>9. here = [top |-> e.top + s, old |-> e.old, new |-> e.new]
  BY <1>6, <1>8
<1>10. here \in Edits /\ here.top = e.top + s /\ here.old = e.old /\ here.new = e.new
  BY <1>2, <1>7, <1>9 DEF Edits
<1>11. e.top + e.old <= m
  BY <1>2, <1>3
<1> QED BY <1>1, <1>2, <1>3, <1>4, <1>7, <1>10, <1>11 DEF e, s, here

\* One more edit.
LEMMA PatchStepOK ==
  ASSUME NEW places, NEW m, FileOf(places, m), NEW edits, EditsOK(edits, m), NEW k \in 1 .. Len(edits),
         NEW now, PatchOK(places, m, edits, k - 1, now), NEW c \in Commit
  PROVE  PatchOK(places, m, edits, k, PatchStep(now, edits, k, c))
<1> DEFINE top == edits[k].top
           old == edits[k].old
           new == edits[k].new
           s == Shifts(edits)[k - 1]
           s2 == Shifts(edits)[k]
           here == Here(edits, k)
           next == PatchStep(now, edits, k, c)
           r == Reached(edits, k)
           r0 == Reached(edits, k - 1)
<1>1. /\ m \in Nat /\ s \in Int /\ s2 = s + new - old
      /\ top \in Nat /\ old \in Nat /\ new \in Nat /\ top + s \in Nat /\ top + old <= m
      /\ r = top + old /\ r0 \in Int /\ r0 < top
  BY EditHere, SMTT(60)
<1>2. here \in Edits /\ here.top = top + s /\ here.old = old /\ here.new = new
  BY EditHere
<1>3. next = Patched(now, here, c)
  BY DEF PatchStep
<1>4. /\ FileOf(now, m + s)
      /\ \A gap \in BOOLEAN, n \in Int : \A d \in Commit :
           n > r0 => (FileSays(now, m + s, gap, n + s, d) <=> FileSays(places, m, gap, n, d))
  BY DEF PatchOK, HasMoved
<1> HIDE DEF top, old, new, s, s2, here, next, r, r0
<1>5. (top + s) + old <= m + s
  BY <1>1
<1> DEFINE ms == m + s
           ts == top + s
<1>0. ms \in Int /\ ts \in Nat /\ FileOf(now, ms) /\ ts + old <= ms
  BY <1>1, <1>4, <1>5
<1> HIDE DEF ms, ts
<1>6. FileOf(next, ms - old + new) /\ IsPatched(next, now, ms, ts, old, new, c)
  <2>1. here.top = ts
    BY <1>2 DEF ts
  <2> DEFINE q == Patched(now, here, c)
  <2>2. FileOf(q, ms - old + new) /\ IsPatched(q, now, ms, ts, old, new, c)
    BY <1>0, <1>1, <1>2, <2>1, PatchedParts
  <2> HIDE DEF q
  <2>3. q = next
    BY <1>3 DEF q
  <2> QED BY <2>2, <2>3
<1>7. ms - old + new = m + s2
  BY <1>1 DEF ms
<1>8. r + s2 >= 0
  BY <1>1
<1>9. ASSUME NEW gap \in BOOLEAN, NEW n \in Int, NEW d \in Commit, n > r
      PROVE  FileSays(next, m + s2, gap, n + s2, d) <=> FileSays(places, m, gap, n, d)
  <2> DEFINE n2 == n + s2
  <2>1. n2 \in Int /\ n2 > ts + new /\ n2 - new + old = n + s /\ n > r0
    BY <1>1, <1>9 DEF ts
  <2> HIDE DEF n2
  <2>2. FileSays(next, ms - old + new, gap, n2, d) <=> FileSays(now, ms, gap, n2 - new + old, d)
    <3>1. MovesBelow(next, now, ms, ts, old, new)
      BY <1>0, <1>1, <1>6, PatchedBelow
    <3> QED BY <2>1, <3>1, Zenon DEF MovesBelow
  <2>3. FileSays(now, m + s, gap, n + s, d) <=> FileSays(places, m, gap, n, d)
    BY <1>4, <2>1
  <2> QED BY <1>7, <2>1, <2>2, <2>3 DEF n2, ms
<1>10. FileOf(next, m + s2)
  BY <1>6, <1>7
<1> QED BY <1>8, <1>9, <1>10 DEF PatchOK, HasMoved, s2, next, r

\* The recursive function PatchWalk is what its definition says, and by induction over the
\* edits the file after each of them is as PatchOK has it.
LEMMA PatchWalkIs ==
  ASSUME NEW places, NEW m, FileOf(places, m), NEW edits, EditsOK(edits, m), NEW c \in Commit
  PROVE  /\ PatchWalk(places, edits, c)[0] = places
         /\ \A k \in 1 .. Len(edits) :
              PatchWalk(places, edits, c)[k] = PatchStep(PatchWalk(places, edits, c)[k - 1], edits, k, c)
         /\ \A k \in 0 .. Len(edits) : PatchOK(places, m, edits, k, PatchWalk(places, edits, c)[k])
<1> DEFINE N == Len(edits)
           V == Seq(GoodPlace)
           good == [k \in 0 .. N |-> {now \in V : PatchOK(places, m, edits, k, now)}]
           step == [k \in 1 .. N |-> [now \in V |-> PatchStep(now, edits, k, c)]]
           walk == PatchWalk(places, edits, c)
<1>1. N \in Nat /\ places \in V /\ m \in Nat /\ edits \in Seq(Edits)
  BY DEF EditsOK, FileOf
<1>2. PatchOK(places, m, edits, 0, places)
  <2>1. Shifts(edits)[0] = 0 /\ Reached(edits, 0) = -1 /\ m + 0 = m
    BY <1>1, ShiftsUnfold DEF Reached
  <2>2. \A n \in Int : n + 0 = n
    OBVIOUS
  <2> QED BY <2>1, <2>2 DEF PatchOK, HasMoved
<1>3. ASSUME NEW k \in 1 .. N, NEW now, PatchOK(places, m, edits, k - 1, now)
      PROVE  /\ PatchOK(places, m, edits, k, PatchStep(now, edits, k, c))
             /\ PatchStep(now, edits, k, c) \in V
  <2>1. PatchOK(places, m, edits, k, PatchStep(now, edits, k, c))
    BY <1>3, PatchStepOK
  <2> QED BY <2>1 DEF PatchOK, FileOf
<1>4. \A i \in 1 .. N : i - 1 \in 0 .. N /\ i \in 0 .. N /\ i # 0
  BY <1>1
<1>5. good \in [0 .. N -> SUBSET V] /\ places \in good[0]
  BY <1>1, <1>2
<1>6. \A i \in 1 .. N : \A v \in good[i - 1] : step[i][v] \in good[i]
  BY <1>3, <1>4
<1>7. PICK g \in [0 .. N -> V] : /\ IsRecursion(g, N, places, step)
                                 /\ \A i \in 0 .. N : g[i] \in good[i]
  <2> HIDE DEF good, step, V, N
  <2> QED BY <1>1, <1>5, <1>6, InvariantRecursion
<1>8. g = [k \in 0 .. N |-> IF k = 0 THEN places ELSE PatchStep(g[k - 1], edits, k, c)]
  <2>1. ASSUME NEW i \in 1 .. N PROVE g[i] = PatchStep(g[i - 1], edits, i, c)
    BY <1>4, <1>7 DEF IsRecursion
  <2>2. \A i \in 0 .. N : i = 0 \/ i \in 1 .. N
    BY <1>1
  <2> QED BY <1>7, <2>1, <2>2 DEF IsRecursion
<1>9. walk = [k \in 0 .. N |-> IF k = 0 THEN places ELSE PatchStep(walk[k - 1], edits, k, c)]
  BY <1>8, Zenon DEF PatchWalk, PatchStep, Here
<1> HIDE DEF N, walk
<1>10. walk[0] = places
  BY <1>1, <1>9
<1>11. \A k \in 1 .. N : walk[k] = PatchStep(walk[k - 1], edits, k, c)
  BY <1>4, <1>9
<1>12. 0 .. N \subseteq {k \in 0 .. N : PatchOK(places, m, edits, k, walk[k])}
  <2> DEFINE S == {k \in 0 .. N : PatchOK(places, m, edits, k, walk[k])}
  <2>1. 0 \in S
    BY <1>1, <1>2, <1>10
  <2>2. \A i \in 1 .. N : i - 1 \in S => i \in S
    BY <1>3, <1>4, <1>11
  <2> HIDE DEF S
  <2>3. 0 .. N \subseteq S
    BY <1>1, <2>1, <2>2, BoundedInduction
  <2> QED BY <2>3 DEF S
<1> QED BY <1>10, <1>11, <1>12 DEF walk, N

-----------------------------------------------------------------------------
(* PathRanges::add, a whole diff *)

\* A span of a header as this crate reads it.
LEMMA HeaderIs ==
  ASSUME NEW top \in Nat, NEW lines \in Nat, GixHeaders = FALSE \/ lines # 0
  PROVE  /\ HeaderStart(top, lines) \in Nat /\ SpanOK(HeaderStart(top, lines), lines)
         /\ Top(HeaderStart(top, lines), lines) = top
         /\ Bottom(HeaderStart(top, lines), lines) = top + lines
BY DEF HeaderStart, StartOf, SpanOK, Top, Bottom

\* Both conventions give a span the same start unless it is empty.
HeadersAgree(edits) ==
  GixHeaders = FALSE \/ \A k \in DOMAIN edits : edits[k].old # 0 /\ edits[k].new # 0

\* The hunk of an edit.
LEMMA DiffIs ==
  ASSUME NEW edits \in Seq(Edits), HeadersAgree(edits), NEW k \in 1 .. Len(edits),
         edits[k].top + Shifts(edits)[k - 1] \in Nat
  PROVE  /\ Diff(edits)[k] \in GoodHunk
         /\ HunkTop(Diff(edits)[k]) = edits[k].top
         /\ HunkBottom(Diff(edits)[k]) = edits[k].top + edits[k].old
         /\ Top(Diff(edits)[k].newStart, Diff(edits)[k].newLines) = edits[k].top + Shifts(edits)[k - 1]
         /\ Diff(edits)[k].newLines = edits[k].new
         /\ NetLines(Diff(edits)[k]) = edits[k].new - edits[k].old
<1> DEFINE e == edits[k]
           here == e.top + Shifts(edits)[k - 1]
           h == Diff(edits)[k]
<1>0. GixHeaders = FALSE \/ (e.old # 0 /\ e.new # 0)
  BY DEF HeadersAgree
<1>1. h = [oldStart |-> HeaderStart(e.top, e.old), oldLines |-> e.old,
           newStart |-> HeaderStart(here, e.new), newLines |-> e.new]
  <2>1. k \in DOMAIN edits
    OBVIOUS
  <2> QED BY <2>1 DEF Diff
<1>2. e.top \in Nat /\ e.old \in Nat /\ e.new \in Nat /\ here \in Nat
  <2>1. e \in Edits
    OBVIOUS
  <2> QED BY <2>1 DEF Edits
<1> HIDE DEF e, here, h
<1>3. /\ HeaderStart(e.top, e.old) \in Nat /\ SpanOK(HeaderStart(e.top, e.old), e.old)
      /\ Top(HeaderStart(e.top, e.old), e.old) = e.top
      /\ Bottom(HeaderStart(e.top, e.old), e.old) = e.top + e.old
  BY <1>0, <1>2, HeaderIs
<1>4. /\ HeaderStart(here, e.new) \in Nat /\ SpanOK(HeaderStart(here, e.new), e.new)
      /\ Top(HeaderStart(here, e.new), e.new) = here
  BY <1>0, <1>2, HeaderIs
<1>5. /\ h.oldStart = HeaderStart(e.top, e.old) /\ h.oldLines = e.old
      /\ h.newStart = HeaderStart(here, e.new) /\ h.newLines = e.new
  BY <1>1
<1>6. h \in GoodHunk
  <2>1. h \in Hunk
    BY <1>1, <1>2, <1>3, <1>4 DEF Hunk
  <2> QED BY <1>3, <1>4, <1>5, <2>1 DEF GoodHunk
<1>7. HunkTop(h) = e.top /\ HunkBottom(h) = e.top + e.old
  BY <1>3, <1>5 DEF HunkTop, HunkBottom
<1>8. Top(h.newStart, h.newLines) = here /\ NetLines(h) = e.new - e.old
  BY <1>4, <1>5 DEF NetLines
<1> QED BY <1>5, <1>6, <1>7, <1>8 DEF e, here, h

\* Ranges that name a file's places as far as x, and past x.
SaysUpTo(rs, places, m, x) ==
  \A gap \in BOOLEAN, n \in Int : \A d \in Commit :
    Says(rs, gap, n, d) <=> n <= x /\ FileSays(places, m, gap, n, d)

SaysPast(rs, places, m, x) ==
  \A gap \in BOOLEAN, n \in Int : \A d \in Commit :
    Says(rs, gap, n, d) <=> n > x /\ FileSays(places, m, gap, n, d)

\* After k hunks the ranges pushed name the places of the file after k edits as
\* far as the last of them reaches, in the new line numbers, and those left the
\* places past it, in the old.
AddOK(places, m, edits, k, now, acc) ==
  LET shift == Shifts(edits)[k]
      reached == Reached(edits, k)
  IN  /\ acc.shift = shift
      /\ RangesOK(acc.out) /\ RangesOK(acc.rest)
      /\ UpTo(acc.out, reached + shift) /\ Past(acc.rest, reached)
      /\ SaysUpTo(acc.out, now, m + shift, reached + shift)
      /\ SaysPast(acc.rest, places, m, reached)

\* One more hunk.
LEMMA AddStepOK ==
  ASSUME NEW places, NEW m, FileOf(places, m), NEW edits, EditsOK(edits, m), HeadersAgree(edits),
         NEW k \in 1 .. Len(edits), NEW now, PatchOK(places, m, edits, k - 1, now),
         NEW acc, AddOK(places, m, edits, k - 1, now, acc), NEW kind \in ChangeKind, NEW c \in Commit
  PROVE  AddOK(places, m, edits, k, PatchStep(now, edits, k, c), AddHunk(acc, Diff(edits)[k], kind, c))
<1> DEFINE top == edits[k].top
           old == edits[k].old
           new == edits[k].new
           s == Shifts(edits)[k - 1]
           s2 == Shifts(edits)[k]
           here == Here(edits, k)
           next == PatchStep(now, edits, k, c)
           r == Reached(edits, k)
           r0 == Reached(edits, k - 1)
           h == Diff(edits)[k]
           added == AddHunk(acc, h, kind, c)
<1>1. /\ m \in Nat /\ s \in Int /\ s2 = s + new - old
      /\ top \in Nat /\ old \in Nat /\ new \in Nat /\ top + s \in Nat /\ top + old <= m
      /\ r = top + old /\ r0 \in Int /\ r0 < top
  BY EditHere, SMTT(60)
<1>2. here \in Edits /\ here.top = top + s /\ here.old = old /\ here.new = new
  BY EditHere
<1>3. next = Patched(now, here, c)
  BY DEF PatchStep
<1>4. /\ h \in GoodHunk /\ HunkTop(h) = top /\ HunkBottom(h) = top + old
      /\ Top(h.newStart, h.newLines) = top + s /\ h.newLines = new /\ NetLines(h) = new - old
  BY <1>1, DiffIs DEF EditsOK
<1>5. /\ FileOf(now, m + s)
      /\ r0 + s >= 0 \/ s = 0
      /\ HasMoved(now, places, m, s, r0)
  BY DEF PatchOK
<1>6. /\ acc.shift = s
      /\ RangesOK(acc.out) /\ RangesOK(acc.rest)
      /\ UpTo(acc.out, r0 + s) /\ Past(acc.rest, r0)
      /\ SaysUpTo(acc.out, now, m + s, r0 + s)
      /\ SaysPast(acc.rest, places, m, r0)
  BY DEF AddOK
<1> HIDE DEF top, old, new, s, s2, here, next, r, r0, h, added
<1>7. /\ RangesOK(added.out) /\ UpTo(added.out, top + s + new)
      /\ added.rest = RestAfter(acc.rest, h)
      /\ added.shift = s + (new - old)
      /\ IsAdded(added.out, acc.out, acc.rest, s, top + s, new, c)
  BY <1>1, <1>4, <1>5, <1>6, HunkAdded DEF added
<1>8. IsPatched(next, now, m + s, top + s, old, new, c)
  <2> DEFINE ms == m + s
             ts == top + s
             q == Patched(now, here, c)
  <2>1. ms \in Int /\ ts \in Nat /\ FileOf(now, ms) /\ ts + old <= ms /\ here.top = ts
    BY <1>1, <1>2, <1>5
  <2> HIDE DEF ms, ts
  <2>2. FileOf(q, ms - old + new) /\ IsPatched(q, now, ms, ts, old, new, c)
    BY <1>1, <1>2, <2>1, PatchedParts
  <2> HIDE DEF q
  <2>3. q = next
    BY <1>3 DEF q
  <2> QED BY <2>2, <2>3 DEF ms, ts
<1>9. m + s - old + new = m + s2 /\ top + s + new = r + s2 /\ s + (new - old) = s2
  BY <1>1
<1>10. SaysUpTo(added.out, next, m + s2, r + s2)
  <2> DEFINE ms == m + s
             ts == top + s
  <2>0. ms = m + s /\ ts = top + s
    OBVIOUS
  <2> HIDE DEF ms, ts
  <2>1. ASSUME NEW gap \in BOOLEAN, NEW n \in Int, NEW d \in Commit
        PROVE  Says(added.out, gap, n, d) <=> n <= ts + new /\ FileSays(next, ms - old + new, gap, n, d)
    <3> DEFINE own == d = c /\ IF gap THEN new = 0 /\ n = ts ELSE ts < n /\ n <= ts + new
    <3>1. Says(added.out, gap, n, d)
             <=> \/ Says(acc.out, gap, n, d)
                 \/ Says(acc.rest, gap, n - s, d) /\ Above(ts, gap, n)
                 \/ own
      BY <1>7, <2>0 DEF IsAdded
    <3>2. FileSays(next, ms - old + new, gap, n, d)
             <=> \/ FileSays(now, ms, gap, n, d) /\ Above(ts, gap, n)
                 \/ FileSays(now, ms, gap, n - new + old, d) /\ n > ts + new
                 \/ own
      BY <1>8, <2>0 DEF IsPatched
    <3>3. /\ own => n <= ts + new
          /\ Above(ts, gap, n) => n <= ts + new
          /\ n <= r0 + s => Above(ts, gap, n)
          /\ n > ts + new <=> ~(n <= ts + new)
      BY <1>1, <2>0 DEF Above
    <3>4. Says(acc.out, gap, n, d) <=> n <= r0 + s /\ FileSays(now, ms, gap, n, d)
      BY <1>6, <2>0 DEF SaysUpTo
    <3>5. Says(acc.rest, gap, n - s, d) <=> ~(n <= r0 + s) /\ FileSays(now, ms, gap, n, d)
      <4> DEFINE i == n - s
      <4>1. i \in Int /\ (i > r0 <=> ~(n <= r0 + s)) /\ i + s = n
        BY <1>1
      <4> HIDE DEF i
      <4>2. Says(acc.rest, gap, i, d) <=> i > r0 /\ FileSays(places, m, gap, i, d)
        BY <1>6, <4>1 DEF SaysPast
      <4>3. i > r0 => (FileSays(now, ms, gap, i + s, d) <=> FileSays(places, m, gap, i, d))
        BY <1>5, <2>0, <4>1 DEF HasMoved
      <4> QED BY <4>1, <4>2, <4>3 DEF i
    <3> HIDE DEF own
    <3> QED BY <3>1, <3>2, <3>3, <3>4, <3>5
  <2>2. SaysUpTo(added.out, next, ms - old + new, ts + new)
    BY <2>1 DEF SaysUpTo
  <2>3. ms - old + new = m + s2 /\ ts + new = r + s2
    BY <1>1, <2>0
  <2> QED BY <2>2, <2>3, Zenon
<1>11. RangesOK(added.rest) /\ Past(added.rest, r)
  BY <1>1, <1>4, <1>6, <1>7, RestIs
<1>12. SaysPast(added.rest, places, m, r)
  <2>1. SUFFICES ASSUME NEW gap \in BOOLEAN, NEW n \in Int, NEW d \in Commit
                 PROVE  Says(added.rest, gap, n, d) <=> n > r /\ FileSays(places, m, gap, n, d)
    BY DEF SaysPast
  <2>2. Says(added.rest, gap, n, d) <=> Says(acc.rest, gap, n, d) /\ n > r
    <3>1. h \in GoodHunk /\ HunkBottom(h) = r
      BY <1>1, <1>4
    <3>2. Says(RestAfter(acc.rest, h), gap, n, d) <=> Says(acc.rest, gap, n, d) /\ n > HunkBottom(h)
      BY <1>6, <3>1, RestIs
    <3> QED BY <1>7, <3>1, <3>2
  <2>3. Says(acc.rest, gap, n, d) <=> n > r0 /\ FileSays(places, m, gap, n, d)
    BY <1>6 DEF SaysPast
  <2>4. n > r => n > r0
    BY <1>1
  <2> QED BY <2>2, <2>3, <2>4
<1> QED BY <1>6, <1>7, <1>9, <1>10, <1>11, <1>12 DEF AddOK, s2, r, next, h, added

\* The file a diff is taken of, as its ranges name it.
Matches(rs, places, m) ==
  \A gap \in BOOLEAN, n \in Int : \A d \in Commit :
    Says(rs, gap, n, d) <=> FileSays(places, m, gap, n, d)

Start(rs) == [out |-> <<>>, rest |-> rs, shift |-> 0]

\* Before the first hunk.
LEMMA AddStarts ==
  ASSUME NEW places, NEW m, FileOf(places, m), NEW edits, EditsOK(edits, m),
         NEW rs, RangesOK(rs), Matches(rs, places, m)
  PROVE  AddOK(places, m, edits, 0, places, Start(rs))
<1>1. Shifts(edits)[0] = 0 /\ Reached(edits, 0) = -1
  BY ShiftsUnfold DEF Reached, EditsOK
<1>2. Start(rs).out = <<>> /\ Start(rs).rest = rs /\ Start(rs).shift = 0
  BY DEF Start
<1>3. UpTo(<<>>, -1 + 0) /\ RangesOK(<<>>)
  BY NoRanges
<1>4. Past(rs, -1)
  <2>1. ASSUME NEW i \in DOMAIN rs PROVE -1 <= RangeTop(rs[i]) /\ -1 < RangeBottom(rs[i])
    <3>1. rs[i] \in GoodRange
      BY DEF RangesOK
    <3> QED BY <3>1, RangeSpan
  <2> QED BY <2>1 DEF Past
<1>5. SaysUpTo(<<>>, places, m + 0, -1 + 0)
  <2>1. ASSUME NEW gap \in BOOLEAN, NEW n \in Int, NEW d \in Commit, n <= -1 + 0
        PROVE  ~FileSays(places, m + 0, gap, n, d)
    BY <2>1 DEF FileSays
  <2> QED BY <2>1, NoRanges DEF SaysUpTo
<1>6. SaysPast(rs, places, m, -1)
  <2>1. ASSUME NEW gap \in BOOLEAN, NEW n \in Int, NEW d \in Commit, FileSays(places, m, gap, n, d)
        PROVE  n > -1
    BY <2>1 DEF FileSays
  <2> QED BY <2>1 DEF SaysPast, Matches
<1> QED BY <1>1, <1>2, <1>3, <1>4, <1>5, <1>6 DEF AddOK

\* By induction over the hunks of a diff.
LEMMA AddWalkIs ==
  ASSUME NEW places, NEW m, FileOf(places, m), NEW edits, EditsOK(edits, m), HeadersAgree(edits),
         NEW rs, RangesOK(rs), Matches(rs, places, m), NEW kind \in ChangeKind, NEW c \in Commit
  PROVE  LET walk == AddWalk(rs, kind, c, Diff(edits))
         IN  /\ walk[0] = Start(rs)
             /\ \A k \in 1 .. Len(edits) : walk[k] = AddHunk(walk[k - 1], Diff(edits)[k], kind, c)
             /\ \A k \in 0 .. Len(edits) : AddOK(places, m, edits, k, PatchWalk(places, edits, c)[k], walk[k])
<1> DEFINE N == Len(edits)
           diff == Diff(edits)
           V == [out : Seq(GoodRange), rest : Seq(GoodRange), shift : Int]
           now == PatchWalk(places, edits, c)
           walk == AddWalk(rs, kind, c, diff)
           good == [i \in 0 .. N |-> {acc \in V : AddOK(places, m, edits, i, now[i], acc)}]
           first == Start(rs)
           step == [i \in 1 .. N |-> [acc \in V |-> AddHunk(acc, diff[i], kind, c)]]
<1>1. N \in Nat /\ edits \in Seq(Edits) /\ Len(diff) = N
  <2>1. edits \in Seq(Edits) /\ DOMAIN edits = 1 .. Len(edits) /\ Len(edits) \in Nat
    BY DEF EditsOK
  <2>2. DOMAIN diff = 1 .. Len(edits)
    BY <2>1 DEF Diff
  <2> QED BY <2>1, <2>2
<1>2. AddOK(places, m, edits, 0, now[0], first) /\ first \in V
  <2>1. now[0] = places
    BY PatchWalkIs
  <2>2. first \in V
    BY DEF Start, RangesOK
  <2> QED BY <2>1, <2>2, AddStarts
<1>3. ASSUME NEW i \in 1 .. N, NEW acc, AddOK(places, m, edits, i - 1, now[i - 1], acc)
      PROVE  /\ AddOK(places, m, edits, i, now[i], AddHunk(acc, diff[i], kind, c))
             /\ AddHunk(acc, diff[i], kind, c) \in V
  <2>1. i - 1 \in 0 .. N /\ i \in 0 .. N
    BY <1>1
  <2>2. PatchOK(places, m, edits, i - 1, now[i - 1]) /\ now[i] = PatchStep(now[i - 1], edits, i, c)
    BY <2>1, PatchWalkIs
  <2> HIDE DEF diff, now
  <2>3. AddOK(places, m, edits, i, now[i], AddHunk(acc, diff[i], kind, c))
    BY <1>3, <2>2, AddStepOK DEF diff
  <2>4. Shifts(edits)[i] \in Int
    BY <1>1, <2>1, ShiftsUnfold
  <2> DEFINE a == AddHunk(acc, diff[i], kind, c)
  <2>5. a = [out |-> a.out, rest |-> a.rest, shift |-> a.shift]
    BY DEF AddHunk
  <2> HIDE DEF a
  <2>6. a \in V
    BY <2>3, <2>4, <2>5 DEF AddOK, RangesOK, a
  <2> QED BY <2>3, <2>6 DEF a
<1>4. \A i \in 1 .. N : i - 1 \in 0 .. N /\ i \in 0 .. N /\ i # 0
  BY <1>1
<1>5. good \in [0 .. N -> SUBSET V] /\ first \in good[0]
  <2> HIDE DEF V, now
  <2> QED BY <1>1, <1>2
<1>6. \A i \in 1 .. N : \A v \in good[i - 1] : step[i][v] \in good[i]
  <2> HIDE DEF V, now, diff
  <2> QED BY <1>3, <1>4
<1>7. PICK g \in [0 .. N -> V] : /\ IsRecursion(g, N, first, step)
                                 /\ \A i \in 0 .. N : g[i] \in good[i]
  <2>1. N \in Nat
    BY <1>1
  <2> HIDE DEF good, step, V, N, first
  <2>2. good \in [0 .. N -> SUBSET V]
    BY <1>5
  <2>3. first \in good[0]
    BY <1>5
  <2> QED BY <2>1, <2>2, <2>3, <1>6, InvariantRecursion, Zenon
<1>8. g = [i \in 0 .. N |-> IF i = 0 THEN first ELSE AddHunk(g[i - 1], diff[i], kind, c)]
  <2> HIDE DEF V, diff
  <2>1. ASSUME NEW i \in 1 .. N PROVE g[i] = AddHunk(g[i - 1], diff[i], kind, c)
    BY <1>4, <1>7 DEF IsRecursion
  <2>2. \A i \in 0 .. N : i = 0 \/ i \in 1 .. N
    BY <1>1
  <2> QED BY <1>7, <2>1, <2>2 DEF IsRecursion
<1> HIDE DEF N, diff, V, good, step
<1>9. walk = [i \in 0 .. N |-> IF i = 0 THEN first ELSE AddHunk(walk[i - 1], diff[i], kind, c)]
  BY <1>1, <1>8, Zenon DEF AddWalk, Start, first
<1> HIDE DEF walk, now, first
<1>10. walk[0] = first
  BY <1>1, <1>9
<1>11. \A i \in 1 .. N : walk[i] = AddHunk(walk[i - 1], diff[i], kind, c)
  BY <1>4, <1>9
<1>12. 0 .. N \subseteq {i \in 0 .. N : AddOK(places, m, edits, i, now[i], walk[i])}
  <2> DEFINE S == {i \in 0 .. N : AddOK(places, m, edits, i, now[i], walk[i])}
  <2>1. 0 \in S
    BY <1>1, <1>2, <1>10
  <2>2. \A i \in 1 .. N : i - 1 \in S => i \in S
    BY <1>3, <1>4, <1>11
  <2> HIDE DEF S
  <2>3. 0 .. N \subseteq S
    BY <1>1, <2>1, <2>2, BoundedInduction
  <2> QED BY <2>3 DEF S
<1> QED BY <1>10, <1>11, <1>12 DEF walk, now, diff, N, first

\* Adding the diff of a commit to ranges that name the places of a file as it
\* was gives ranges, in order and disjoint, that name its places as the commit
\* left it (PathRanges::add): for any number of hunks and of ranges.
THEOREM AddIsBlame ==
  ASSUME NEW places, NEW m, FileOf(places, m), NEW edits, EditsOK(edits, m), HeadersAgree(edits),
         NEW rs, RangesOK(rs), Matches(rs, places, m), NEW kind \in ChangeKind, NEW c \in Commit
  PROVE  LET next == PatchWalk(places, edits, c)[Len(edits)]
             count == m + Shifts(edits)[Len(edits)]
         IN  /\ FileOf(next, count)
             /\ RangesOK(Add(rs, kind, c, Diff(edits)))
             /\ Matches(Add(rs, kind, c, Diff(edits)), next, count)
<1> DEFINE N == Len(edits)
           next == PatchWalk(places, edits, c)[N]
           s == Shifts(edits)[N]
           r == Reached(edits, N)
           end == AddWalk(rs, kind, c, Diff(edits))[N]
           moved == Moved(end.rest, end.shift)
           all == Add(rs, kind, c, Diff(edits))
<1>1. N \in Nat /\ edits \in Seq(Edits) /\ N \in 0 .. N /\ m \in Nat /\ Len(Diff(edits)) = N
  <2>1. edits \in Seq(Edits) /\ DOMAIN edits = 1 .. Len(edits) /\ Len(edits) \in Nat
    BY DEF EditsOK
  <2>2. DOMAIN Diff(edits) = 1 .. Len(edits)
    BY <2>1 DEF Diff
  <2>3. Len(Diff(edits)) = N
    BY <2>1, <2>2
  <2> QED BY <2>1, <2>3 DEF FileOf
<1>2. all = end.out \o moved
  BY <1>1 DEF Add
<1>3. r \in Int /\ s \in Int
  BY <1>1, ReachedIs, ShiftsUnfold
<1>4. PatchOK(places, m, edits, N, next)
  BY <1>1, PatchWalkIs
<1>5. AddOK(places, m, edits, N, next, end)
  BY <1>1, AddWalkIs
<1>6. FileOf(next, m + s) /\ (r + s >= 0 \/ s = 0) /\ HasMoved(next, places, m, s, r)
  BY <1>4 DEF PatchOK
<1>7. /\ end.shift = s
      /\ RangesOK(end.out) /\ RangesOK(end.rest)
      /\ UpTo(end.out, r + s) /\ Past(end.rest, r)
      /\ SaysUpTo(end.out, next, m + s, r + s)
      /\ SaysPast(end.rest, places, m, r)
  BY <1>5 DEF AddOK
<1> HIDE DEF N, next, s, r, end, all
<1>8. /\ RangesOK(moved) /\ Past(moved, r + s)
      /\ \A gap, d : \A n \in Int : Says(moved, gap, n, d) <=> Says(end.rest, gap, n - s, d)
  BY <1>3, <1>6, <1>7, MovedRanges
<1> HIDE DEF moved
<1>9. From(moved, r + s)
  BY <1>8 DEF Past, From
<1>10. /\ RangesOK(all)
       /\ \A gap, n, d : Says(all, gap, n, d) <=> Says(end.out, gap, n, d) \/ Says(moved, gap, n, d)
  <2>1. r + s \in Int
    BY <1>3
  <2> QED BY <1>2, <1>7, <1>8, <1>9, <2>1, Joined
<1>11. ASSUME NEW gap \in BOOLEAN, NEW n \in Int, NEW d \in Commit
       PROVE  Says(all, gap, n, d) <=> FileSays(next, m + s, gap, n, d)
  <2> DEFINE i == n - s
  <2>1. i \in Int /\ (i > r <=> ~(n <= r + s)) /\ i + s = n
    BY <1>3
  <2>2. Says(moved, gap, n, d) <=> Says(end.rest, gap, i, d)
    BY <1>8
  <2> HIDE DEF i
  <2>3. Says(end.out, gap, n, d) <=> n <= r + s /\ FileSays(next, m + s, gap, n, d)
    BY <1>7 DEF SaysUpTo
  <2>4. Says(end.rest, gap, i, d) <=> i > r /\ FileSays(places, m, gap, i, d)
    BY <1>7, <2>1 DEF SaysPast
  <2>5. i > r => (FileSays(next, m + s, gap, i + s, d) <=> FileSays(places, m, gap, i, d))
    BY <1>6, <2>1 DEF HasMoved
  <2> QED BY <1>10, <2>1, <2>2, <2>3, <2>4, <2>5
<1> QED BY <1>6, <1>10, <1>11 DEF Matches, N, next, s, all

-----------------------------------------------------------------------------
(* Sums of shifts *)

\* The recursive function Sums is what its definition says.
LEMMA SumsAre ==
  ASSUME NEW a \in Seq(Int)
  PROVE  /\ Sums(a)[0] = 0
         /\ \A i \in 1 .. Len(a) : Sums(a)[i] = Sums(a)[i - 1] + a[i]
         /\ \A i \in 0 .. Len(a) : Sums(a)[i] \in Int
<1> DEFINE N == Len(a)
           step == [i \in 1 .. N |-> [v \in Int |-> v + a[i]]]
<1>1. N \in Nat /\ \A i \in 1 .. N : a[i] \in Int
  OBVIOUS
<1>2. step \in [1 .. N -> [Int -> Int]] /\ 0 \in Int
  BY <1>1
<1>3. PICK g \in [0 .. N -> Int] : IsRecursion(g, N, 0, step)
  <2> HIDE DEF step, N
  <2> QED BY <1>1, <1>2, RecursionExists
<1>4. \A i \in 1 .. N : i - 1 \in 0 .. N /\ i \in 0 .. N /\ i # 0
  BY <1>1
<1>5. g = [i \in 0 .. N |-> IF i = 0 THEN 0 ELSE g[i - 1] + a[i]]
  <2>1. ASSUME NEW i \in 1 .. N PROVE g[i] = g[i - 1] + a[i]
    BY <1>3, <1>4 DEF IsRecursion
  <2>2. \A i \in 0 .. N : i = 0 \/ i \in 1 .. N
    BY <1>1
  <2> QED BY <1>3, <2>1, <2>2 DEF IsRecursion
<1>6. Sums(a) = [i \in 0 .. N |-> IF i = 0 THEN 0 ELSE Sums(a)[i - 1] + a[i]]
  BY <1>5, Zenon DEF Sums
<1> HIDE DEF N
<1>7. Sums(a)[0] = 0
  BY <1>1, <1>6
<1>8. \A i \in 1 .. N : Sums(a)[i] = Sums(a)[i - 1] + a[i]
  BY <1>4, <1>6
<1>9. 0 .. N \subseteq {i \in 0 .. N : Sums(a)[i] \in Int}
  <2> DEFINE S == {i \in 0 .. N : Sums(a)[i] \in Int}
  <2>1. 0 \in S
    BY <1>1, <1>7
  <2>2. ASSUME NEW i \in 1 .. N, i - 1 \in S PROVE i \in S
    <3>1. Sums(a)[i - 1] \in Int /\ a[i] \in Int
      BY <1>1, <2>2
    <3>2. Sums(a)[i] \in Int
      BY <1>8, <3>1
    <3> QED BY <1>4, <3>2
  <2> HIDE DEF S
  <2>3. 0 .. N \subseteq S
    BY <1>1, <2>1, <2>2, BoundedInduction
  <2> QED BY <2>3 DEF S
<1> QED BY <1>7, <1>8, <1>9 DEF N

\* Sums of no number and of one.
LEMMA SumOfOne ==
  /\ SumOf(<<>>) = 0
  /\ \A x \in Int : SumOf(<<x>>) = x
<1>1. <<>> \in Seq(Int) /\ Len(<<>>) = 0
  OBVIOUS
<1>2. SumOf(<<>>) = 0
  BY <1>1, SumsAre DEF SumOf
<1>3. ASSUME NEW x \in Int PROVE SumOf(<<x>>) = x
  <2> DEFINE a == <<x>>
  <2>1. a \in Seq(Int) /\ Len(a) = 1 /\ a[1] = x /\ 1 \in 1 .. 1
    OBVIOUS
  <2> HIDE DEF a
  <2>2. Sums(a)[0] = 0 /\ \A i \in 1 .. Len(a) : Sums(a)[i] = Sums(a)[i - 1] + a[i]
    BY <2>1, SumsAre
  <2>3. Sums(a)[1] = Sums(a)[1 - 1] + a[1]
    BY <2>1, <2>2
  <2> QED BY <2>1, <2>2, <2>3 DEF SumOf, a
<1> QED BY <1>2, <1>3

\* Sums of two sequences that agree as far as i.
LEMMA SumsAgree ==
  ASSUME NEW a \in Seq(Int), NEW b \in Seq(Int), NEW k \in Nat, k <= Len(a), k <= Len(b),
         \A i \in 1 .. k : a[i] = b[i]
  PROVE  Sums(a)[k] = Sums(b)[k]
<1> DEFINE S == {i \in 0 .. k : Sums(a)[i] = Sums(b)[i]}
<1>1. 0 \in S
  BY SumsAre
<1>2. ASSUME NEW i \in 1 .. k, i - 1 \in S PROVE i \in S
  <2>1. i \in 1 .. Len(a) /\ i \in 1 .. Len(b) /\ i \in 0 .. k
    OBVIOUS
  <2>2. Sums(a)[i] = Sums(a)[i - 1] + a[i] /\ Sums(b)[i] = Sums(b)[i - 1] + b[i]
    BY <2>1, SumsAre
  <2>3. a[i] = b[i] /\ Sums(a)[i - 1] = Sums(b)[i - 1]
    BY <1>2
  <2> QED BY <2>1, <2>2, <2>3
<1> HIDE DEF S
<1>3. 0 .. k \subseteq S
  BY <1>1, <1>2, BoundedInduction
<1> QED BY <1>3 DEF S

\* Nothing counts.
LEMMA SumOfZeros ==
  ASSUME NEW a \in Seq(Int), \A i \in 1 .. Len(a) : a[i] = 0
  PROVE  SumOf(a) = 0 /\ \A k \in 0 .. Len(a) : Sums(a)[k] = 0
<1> DEFINE N == Len(a)
           S == {i \in 0 .. N : Sums(a)[i] = 0}
<1>0. N \in Nat
  OBVIOUS
<1>1. 0 \in S
  BY SumsAre
<1>2. ASSUME NEW i \in 1 .. N, i - 1 \in S PROVE i \in S
  <2>1. Sums(a)[i] = Sums(a)[i - 1] + a[i] /\ a[i] = 0
    BY SumsAre
  <2> QED BY <1>2, <2>1
<1> HIDE DEF S, N
<1>3. 0 .. N \subseteq S
  BY <1>0, <1>1, <1>2, BoundedInduction
<1> QED BY <1>0, <1>3 DEF S, N, SumOf

\* The sum of two sequences, one after the other.
LEMMA SumOfBoth ==
  ASSUME NEW a \in Seq(Int), NEW b \in Seq(Int)
  PROVE  SumOf(a \o b) = SumOf(a) + SumOf(b) /\ SumOf(a) \in Int
<1> DEFINE ab == a \o b
           m == Len(a)
           N == Len(b)
<1>1. m \in Nat /\ N \in Nat
  OBVIOUS
<1>2. /\ ab \in Seq(Int) /\ Len(ab) = m + N
      /\ \A i \in 1 .. m + N : ab[i] = IF i <= m THEN a[i] ELSE b[i - m]
  BY ConcatProperties
<1> HIDE DEF ab
<1>3. Sums(ab)[m] = Sums(a)[m]
  <2>1. \A i \in 1 .. m : ab[i] = a[i]
    <3>1. \A i \in 1 .. m : i \in 1 .. m + N /\ i <= m
      BY <1>1
    <3> QED BY <1>2, <3>1
  <2>2. m <= Len(ab) /\ m <= Len(a)
    BY <1>1, <1>2
  <2> HIDE DEF m
  <2> QED BY <1>1, <1>2, <2>1, <2>2, SumsAgree
<1>4. Sums(a)[m] \in Int
  BY <1>1, SumsAre
<1> DEFINE S == {i \in 0 .. N : Sums(ab)[m + i] = Sums(a)[m] + Sums(b)[i]}
<1>5. 0 \in S
  <2>1. m + 0 = m /\ Sums(b)[0] = 0 /\ 0 \in 0 .. N
    BY <1>1, SumsAre
  <2> HIDE DEF m, N
  <2> QED BY <1>3, <1>4, <2>1
<1>6. ASSUME NEW i \in 1 .. N, i - 1 \in S PROVE i \in S
  <2>1. /\ m + i \in 1 .. Len(ab) /\ ~(m + i <= m) /\ (m + i) - m = i /\ (m + i) - 1 = m + (i - 1)
        /\ i \in 0 .. N
    BY <1>1, <1>2
  <2>2. Sums(ab)[m + i] = Sums(ab)[m + (i - 1)] + b[i]
    <3>1. Sums(ab)[m + i] = Sums(ab)[(m + i) - 1] + ab[m + i]
      BY <1>2, <2>1, SumsAre
    <3>2. ab[m + i] = b[i]
      BY <1>2, <2>1
    <3> QED BY <2>1, <3>1, <3>2
  <2>3. Sums(b)[i] = Sums(b)[i - 1] + b[i] /\ Sums(b)[i - 1] \in Int /\ b[i] \in Int
    <3>1. i - 1 \in 0 .. N
      BY <1>1
    <3> QED BY <3>1, SumsAre
  <2>4. Sums(ab)[m + (i - 1)] = Sums(a)[m] + Sums(b)[i - 1]
    BY <1>6
  <2> HIDE DEF m
  <2> QED BY <1>4, <2>1, <2>2, <2>3, <2>4
<1> HIDE DEF S, m, N
<1>7. 0 .. N \subseteq S
  BY <1>1, <1>5, <1>6, BoundedInduction
<1>8. N \in 0 .. N /\ Len(ab) = m + N
  BY <1>1, <1>2
<1>9. Sums(ab)[m + N] = Sums(a)[m] + Sums(b)[N]
  BY <1>7, <1>8 DEF S
<1> QED BY <1>4, <1>8, <1>9 DEF SumOf, ab, m, N

\* The shifts of the ranges that end above line n, and those of all.
Counted(rs, n) == [i \in DOMAIN rs |-> IF RangeBottom(rs[i]) < n THEN rs[i].shift ELSE 0]
AllShifts(rs) == [i \in DOMAIN rs |-> rs[i].shift]
ShiftAbove(rs, n) == SumOf(Counted(rs, n))
Total(rs) == SumOf(AllShifts(rs))

\* They are sequences of numbers.
LEMMA CountedIs ==
  ASSUME NEW rs \in Seq(GoodRange), NEW n \in Int
  PROVE  /\ Counted(rs, n) \in Seq(Int) /\ Len(Counted(rs, n)) = Len(rs)
         /\ AllShifts(rs) \in Seq(Int) /\ Len(AllShifts(rs)) = Len(rs)
         /\ \A i \in 1 .. Len(rs) : /\ Counted(rs, n)[i] = IF RangeBottom(rs[i]) < n THEN rs[i].shift ELSE 0
                                    /\ AllShifts(rs)[i] = rs[i].shift
                                    /\ rs[i].shift \in Int
<1> DEFINE N == Len(rs)
           c == Counted(rs, n)
           a == AllShifts(rs)
<1>1. N \in Nat /\ DOMAIN rs = 1 .. N
  OBVIOUS
<1>2. ASSUME NEW i \in 1 .. N PROVE rs[i].shift \in Int
  <2>1. rs[i] \in GoodRange
    OBVIOUS
  <2> QED BY <2>1 DEF GoodRange, HunkRange
<1>3. c = [i \in 1 .. N |-> c[i]] /\ a = [i \in 1 .. N |-> a[i]]
  BY <1>1 DEF Counted, AllShifts
<1>4. \A i \in 1 .. N : /\ c[i] = IF RangeBottom(rs[i]) < n THEN rs[i].shift ELSE 0
                        /\ a[i] = rs[i].shift
  BY <1>1 DEF Counted, AllShifts
<1> HIDE DEF c, a, N
<1>5. \A i \in 1 .. N : c[i] \in Int /\ a[i] \in Int
  BY <1>2, <1>4
<1>6. c \in Seq(Int) /\ Len(c) = N /\ a \in Seq(Int) /\ Len(a) = N
  <2>1. c \in [1 .. N -> Int] /\ a \in [1 .. N -> Int]
    BY <1>3, <1>5, Zenon
  <2> QED BY <1>1, <2>1
<1> QED BY <1>2, <1>4, <1>6 DEF c, a, N

\* What counts in no range and in one.
LEMMA ShiftAboveOne ==
  ASSUME NEW n \in Int
  PROVE  /\ ShiftAbove(<<>>, n) = 0 /\ Total(<<>>) = 0
         /\ \A r \in GoodRange : /\ ShiftAbove(<<r>>, n) = IF RangeBottom(r) < n THEN r.shift ELSE 0
                                 /\ Total(<<r>>) = r.shift
<1>1. Counted(<<>>, n) = <<>> /\ AllShifts(<<>>) = <<>>
  BY DEF Counted, AllShifts
<1>2. ASSUME NEW r \in GoodRange
      PROVE  /\ ShiftAbove(<<r>>, n) = IF RangeBottom(r) < n THEN r.shift ELSE 0
             /\ Total(<<r>>) = r.shift
  <2> DEFINE x == IF RangeBottom(r) < n THEN r.shift ELSE 0
  <2>1. DOMAIN <<r>> = {1} /\ <<r>>[1] = r
    OBVIOUS
  <2>2. Counted(<<r>>, n) = <<x>> /\ AllShifts(<<r>>) = <<r.shift>>
    BY <2>1 DEF Counted, AllShifts
  <2>3. r.shift \in Int /\ x \in Int
    BY DEF GoodRange, HunkRange
  <2> HIDE DEF x
  <2> QED BY <2>2, <2>3, SumOfOne DEF ShiftAbove, Total, x
<1> QED BY <1>1, <1>2, SumOfOne DEF ShiftAbove, Total

\* What counts in two sequences of ranges, one after the other.
LEMMA ShiftAboveJoined ==
  ASSUME NEW a \in Seq(GoodRange), NEW b \in Seq(GoodRange), NEW n \in Int
  PROVE  /\ ShiftAbove(a, n) \in Int /\ Total(a) \in Int
         /\ ShiftAbove(a \o b, n) = ShiftAbove(a, n) + ShiftAbove(b, n)
         /\ Total(a \o b) = Total(a) + Total(b)
<1> DEFINE ab == a \o b
           ca == Counted(a, n)
           cb == Counted(b, n)
           sa == AllShifts(a)
           sb == AllShifts(b)
           cab == Counted(ab, n)
           sab == AllShifts(ab)
<1>1. ab \in Seq(GoodRange) /\ Len(ab) = Len(a) + Len(b) /\ Len(a) \in Nat /\ Len(b) \in Nat
  BY ConcatProperties
<1>2. \A i \in 1 .. Len(a) + Len(b) : ab[i] = IF i <= Len(a) THEN a[i] ELSE b[i - Len(a)]
  BY ConcatProperties
<1> HIDE DEF ab, ca, cb, sa, sb, cab, sab
<1>3. /\ ca \in Seq(Int) /\ Len(ca) = Len(a) /\ sa \in Seq(Int) /\ Len(sa) = Len(a)
      /\ \A i \in 1 .. Len(a) : ca[i] = (IF RangeBottom(a[i]) < n THEN a[i].shift ELSE 0) /\ sa[i] = a[i].shift
  BY CountedIs DEF ca, sa
<1>4. /\ cb \in Seq(Int) /\ Len(cb) = Len(b) /\ sb \in Seq(Int) /\ Len(sb) = Len(b)
      /\ \A i \in 1 .. Len(b) : cb[i] = (IF RangeBottom(b[i]) < n THEN b[i].shift ELSE 0) /\ sb[i] = b[i].shift
  BY CountedIs DEF cb, sb
<1>5. /\ cab \in Seq(Int) /\ Len(cab) = Len(ab) /\ sab \in Seq(Int) /\ Len(sab) = Len(ab)
      /\ \A i \in 1 .. Len(ab) : cab[i] = (IF RangeBottom(ab[i]) < n THEN ab[i].shift ELSE 0) /\ sab[i] = ab[i].shift
  BY <1>1, CountedIs DEF cab, sab
<1>6. /\ ca \o cb \in Seq(Int) /\ Len(ca \o cb) = Len(ab)
      /\ sa \o sb \in Seq(Int) /\ Len(sa \o sb) = Len(ab)
      /\ \A i \in 1 .. Len(ab) : /\ (ca \o cb)[i] = IF i <= Len(a) THEN ca[i] ELSE cb[i - Len(a)]
                                 /\ (sa \o sb)[i] = IF i <= Len(a) THEN sa[i] ELSE sb[i - Len(a)]
  <2>1. ca \in Seq(Int) /\ cb \in Seq(Int) /\ sa \in Seq(Int) /\ sb \in Seq(Int)
    BY <1>3, <1>4
  <2>2. /\ ca \o cb \in Seq(Int) /\ Len(ca \o cb) = Len(ca) + Len(cb)
        /\ \A i \in 1 .. Len(ca) + Len(cb) : (ca \o cb)[i] = IF i <= Len(ca) THEN ca[i] ELSE cb[i - Len(ca)]
    BY <2>1, ConcatProperties
  <2>3. /\ sa \o sb \in Seq(Int) /\ Len(sa \o sb) = Len(sa) + Len(sb)
        /\ \A i \in 1 .. Len(sa) + Len(sb) : (sa \o sb)[i] = IF i <= Len(sa) THEN sa[i] ELSE sb[i - Len(sa)]
    BY <2>1, ConcatProperties
  <2> QED BY <1>1, <1>3, <1>4, <2>2, <2>3, Zenon
<1>7. \A i \in 1 .. Len(ab) : cab[i] = (ca \o cb)[i] /\ sab[i] = (sa \o sb)[i]
  <2> SUFFICES ASSUME NEW i \in 1 .. Len(ab) PROVE cab[i] = (ca \o cb)[i] /\ sab[i] = (sa \o sb)[i]
    OBVIOUS
  <2>1. CASE i <= Len(a)
    <3>1. i \in 1 .. Len(a) /\ i \in 1 .. Len(a) + Len(b)
      BY <1>1, <2>1
    <3> QED BY <1>2, <1>3, <1>5, <1>6, <2>1, <3>1
  <2>2. CASE ~(i <= Len(a))
    <3>1. i - Len(a) \in 1 .. Len(b) /\ i \in 1 .. Len(a) + Len(b)
      BY <1>1, <2>2
    <3> QED BY <1>2, <1>4, <1>5, <1>6, <2>2, <3>1
  <2> QED BY <2>1, <2>2
<1>8. cab = ca \o cb /\ sab = sa \o sb
  BY <1>5, <1>6, <1>7, SeqEqual
<1>9. /\ SumOf(cab) = SumOf(ca) + SumOf(cb) /\ SumOf(ca) \in Int
      /\ SumOf(sab) = SumOf(sa) + SumOf(sb) /\ SumOf(sa) \in Int
  BY <1>3, <1>4, <1>8, SumOfBoth
<1> QED BY <1>9 DEF ShiftAbove, Total, ca, cb, sa, sb, cab, sab, ab

\* All ranges end above the line, or none does.
LEMMA ShiftAboveAll ==
  ASSUME NEW rs \in Seq(GoodRange), NEW n \in Int
  PROVE  /\ (\A i \in DOMAIN rs : RangeBottom(rs[i]) < n) => ShiftAbove(rs, n) = Total(rs)
         /\ (\A i \in DOMAIN rs : n <= RangeBottom(rs[i])) => ShiftAbove(rs, n) = 0
<1>1. DOMAIN rs = 1 .. Len(rs) /\ Len(rs) \in Nat
  OBVIOUS
<1>2. ASSUME \A i \in DOMAIN rs : RangeBottom(rs[i]) < n PROVE ShiftAbove(rs, n) = Total(rs)
  <2>1. Counted(rs, n) = AllShifts(rs)
    BY <1>2 DEF Counted, AllShifts
  <2> QED BY <2>1 DEF ShiftAbove, Total
<1>3. ASSUME \A i \in DOMAIN rs : n <= RangeBottom(rs[i]) PROVE ShiftAbove(rs, n) = 0
  <2>1. ASSUME NEW i \in 1 .. Len(rs) PROVE ~(RangeBottom(rs[i]) < n)
    <3>1. rs[i] \in GoodRange /\ i \in DOMAIN rs
      BY <1>1
    <3>2. RangeBottom(rs[i]) \in Nat
      BY <3>1, RangeSpan
    <3> QED BY <1>3, <3>1, <3>2
  <2>2. \A i \in 1 .. Len(Counted(rs, n)) : Counted(rs, n)[i] = 0
    BY <2>1, CountedIs
  <2> QED BY <2>2, CountedIs, SumOfZeros DEF ShiftAbove
<1> QED BY <1>2, <1>3

\* Ranges that have moved count as they did.
LEMMA ShiftAboveMoved ==
  ASSUME NEW rs, RangesOK(rs), NEW x \in Int, Past(rs, x),
         NEW shift \in Int, x + shift >= 0 \/ shift = 0, NEW n \in Int
  PROVE  /\ ShiftAbove(Moved(rs, shift), n) = ShiftAbove(rs, n - shift)
         /\ Total(Moved(rs, shift)) = Total(rs)
<1>1. \A i \in DOMAIN rs : /\ RangeBottom(Moved(rs, shift)[i]) = RangeBottom(rs[i]) + shift
                           /\ Moved(rs, shift)[i].shift = rs[i].shift
  BY MovedRanges
<1>2. DOMAIN Moved(rs, shift) = DOMAIN rs
  BY DEF Moved
<1>3. ASSUME NEW i \in DOMAIN rs
      PROVE  RangeBottom(Moved(rs, shift)[i]) < n <=> RangeBottom(rs[i]) < n - shift
  <2>1. rs[i] \in GoodRange
    BY DEF RangesOK
  <2>2. RangeBottom(rs[i]) \in Nat
    BY <2>1, RangeSpan
  <2> QED BY <1>1, <2>2
<1>4. Counted(Moved(rs, shift), n) = Counted(rs, n - shift) /\ AllShifts(Moved(rs, shift)) = AllShifts(rs)
  BY <1>1, <1>2, <1>3, Zenon DEF Counted, AllShifts
<1> QED BY <1>4 DEF ShiftAbove, Total

\* The pieces are sequences of ranges, and their shifts those of their range.
LEMMA PieceTypes ==
  ASSUME NEW r \in GoodRange, NEW h \in GoodHunk
  PROVE  /\ Receive(r, h).above \in Seq(GoodRange) /\ Receive(r, h).below \in Seq(GoodRange)
         /\ Total(Receive(r, h).above) = ShiftOf(Receive(r, h).above)
         /\ Total(Receive(r, h).below) = ShiftOf(Receive(r, h).below)
<1> DEFINE above == Receive(r, h).above
           below == Receive(r, h).below
<1>1. \A rest : (rest = <<>> \/ \E a \in GoodRange : rest = <<a>>)
                  => rest \in Seq(GoodRange) /\ Total(rest) = ShiftOf(rest)
  <2> SUFFICES ASSUME NEW rest, rest = <<>> \/ \E a \in GoodRange : rest = <<a>>
               PROVE  rest \in Seq(GoodRange) /\ Total(rest) = ShiftOf(rest)
    OBVIOUS
  <2>1. CASE rest = <<>>
    BY <2>1, ShiftAboveOne DEF ShiftOf
  <2>2. CASE \E a \in GoodRange : rest = <<a>>
    <3>1. PICK a \in GoodRange : rest = <<a>>
      BY <2>2
    <3>2. <<a>> # <<>> /\ <<a>>[1] = a /\ <<a>> \in Seq(GoodRange)
      OBVIOUS
    <3>3. Total(<<a>>) = a.shift
      BY ShiftAboveOne
    <3> QED BY <3>1, <3>2, <3>3 DEF ShiftOf
  <2> QED BY <2>1, <2>2
<1>2. above = <<>> \/ \E a \in GoodRange : above = <<a>>
  BY Received DEF IsAbove
<1>3. below = <<>> \/ \E a \in GoodRange : below = <<a>>
  BY Received DEF IsBelow
<1> HIDE DEF above, below
<1> QED BY <1>1, <1>2, <1>3 DEF above, below

\* A range that lies wholly above or below a hunk keeps its shift.
LEMMA ReceiveWhole ==
  ASSUME NEW r \in GoodRange, NEW h \in GoodHunk
  PROVE  /\ RangeBottom(r) <= HunkTop(h) /\ RangeTop(r) < HunkTop(h) => ShiftOf(Receive(r, h).above) = r.shift
         /\ HunkBottom(h) < RangeTop(r) => Receive(r, h).above = <<>> /\ Receive(r, h).change = 0
<1> DEFINE it == HunkTop(h)
           ib == HunkBottom(h)
           st == RangeTop(r)
           sb == RangeBottom(r)
           above == LeftAbove(r, h)
           below == LeftBelow(r, h)
<1>1. /\ it \in Nat /\ ib \in Nat /\ st \in Nat /\ sb \in Nat /\ r.lines \in Nat /\ r.shift \in Int
      /\ sb = st + r.lines /\ sb - r.lines = st /\ it <= ib
  <2>1. r.shift \in Int
    BY DEF GoodRange, HunkRange
  <2> QED BY <2>1, HunkSpan, RangeSpan
<1>2. above = IF it <= st THEN <<>>
              ELSE IF it < sb THEN <<SetTopBottom(r, st, it)>> ELSE <<r>>
  BY <1>1 DEF LeftAbove, RangeTop, HunkTop
<1>3. below = IF ib >= sb THEN <<>>
              ELSE IF ib > st THEN <<SetTopBottom(r, ib, sb)>> ELSE <<r>>
  BY <1>1 DEF LeftBelow, RangeBottom, HunkBottom
<1>4. Receive(r, h) = DivideShift(r, above, below)
  BY DEF Receive
<1> HIDE DEF it, ib, st, sb, above, below
<1>5. <<r>> # <<>> /\ <<r>>[1] = r
  OBVIOUS
<1>6. ASSUME sb <= it, st < it PROVE ShiftOf(Receive(r, h).above) = r.shift
  <2>1. above = <<r>> /\ below = <<>>
    BY <1>1, <1>2, <1>3, <1>6
  <2>2. LinesLeft(above) = r.lines /\ LinesLeft(below) = 0
    BY <1>5, <2>1 DEF LinesLeft
  <2>3. r.shift - (r.lines - (r.lines + 0)) = r.shift
    BY <1>1
  <2>4. Receive(r, h).above = WithShift(<<r>>, r.shift)
    BY <1>4, <2>1, <2>2, <2>3 DEF DivideShift
  <2>5. PICK b \in GoodRange : WithShift(<<r>>, r.shift) = <<b>> /\ b.shift = r.shift
    BY <1>1, ShiftGiven
  <2>6. <<b>> # <<>> /\ <<b>>[1] = b
    OBVIOUS
  <2> QED BY <2>4, <2>5, <2>6 DEF ShiftOf
<1>7. ASSUME ib < st PROVE Receive(r, h).above = <<>> /\ Receive(r, h).change = 0
  <2>1. above = <<>> /\ below = <<r>>
    BY <1>1, <1>2, <1>3, <1>7
  <2>2. LinesLeft(above) = 0 /\ LinesLeft(below) = r.lines
    BY <1>5, <2>1 DEF LinesLeft
  <2>3. r.lines - (0 + r.lines) = 0
    BY <1>1
  <2> QED BY <1>4, <1>5, <2>1, <2>2, <2>3 DEF DivideShift, WithShift
<1> QED BY <1>6, <1>7 DEF it, ib, st, sb

\* What counts above a line that is no range's: of the pieces above the hunk,
\* if the line is, and of all pieces and the hunk, if it is below.
LEMMA RangeShifts ==
  ASSUME NEW r \in GoodRange, NEW h \in GoodHunk, NEW n \in Int, ~Owns(r, FALSE, n)
  PROVE  LET counts == IF RangeBottom(r) < n THEN r.shift ELSE 0
             got == Receive(r, h)
         IN  /\ n <= HunkTop(h) => ShiftAbove(got.above, n) = counts
             /\ n > HunkBottom(h) => Total(got.above) + got.change + ShiftAbove(got.below, n) = counts
<1> DEFINE counts == IF RangeBottom(r) < n THEN r.shift ELSE 0
           got == Receive(r, h)
           it == HunkTop(h)
           ib == HunkBottom(h)
<1>1. /\ it \in Nat /\ ib \in Nat /\ it <= ib
      /\ RangeTop(r) \in Nat /\ RangeBottom(r) \in Nat /\ RangeTop(r) <= RangeBottom(r)
      /\ RangeBottom(r) < n \/ n <= RangeTop(r)
  BY HunkSpan, RangeSpan DEF Owns
<1>2. r.shift \in Int
  BY DEF GoodRange, HunkRange
<1>3. /\ IsAbove(got.above, r, it) /\ IsBelow(got.below, r, ib) /\ got.change \in Int
      /\ ShiftOf(got.above) + ShiftOf(got.below) + got.change = r.shift
  BY Received
<1>4. /\ RangeBottom(r) <= it /\ RangeTop(r) < it => ShiftOf(got.above) = r.shift
      /\ ib < RangeTop(r) => got.above = <<>> /\ got.change = 0
  BY ReceiveWhole
<1>5. /\ got.above \in Seq(GoodRange) /\ got.below \in Seq(GoodRange)
      /\ Total(got.above) = ShiftOf(got.above) /\ Total(got.below) = ShiftOf(got.below)
  BY PieceTypes
<1>6. /\ ShiftAbove(<<>>, n) = 0 /\ Total(<<>>) = 0
      /\ \A a \in GoodRange : /\ ShiftAbove(<<a>>, n) = IF RangeBottom(a) < n THEN a.shift ELSE 0
                              /\ Total(<<a>>) = a.shift
  BY ShiftAboveOne
<1>7. Total(got.above) \in Int /\ Total(got.below) \in Int
  BY <1>5, ShiftAboveJoined
<1> HIDE DEF got, it, ib
<1>8. ASSUME n <= it PROVE ShiftAbove(got.above, n) = counts
  <2>1. CASE RangeBottom(r) < n
    <3>1. RangeBottom(r) <= it /\ RangeTop(r) < it
      BY <1>1, <1>8, <2>1
    <3>2. PICK a \in GoodRange : got.above = <<a>> /\ RangeBottom(a) = RangeBottom(r)
      BY <1>1, <1>3, <3>1 DEF IsAbove
    <3>3. a.shift = r.shift
      BY <1>4, <1>5, <1>6, <3>1, <3>2
    <3> QED BY <1>6, <2>1, <3>2, <3>3
  <2>2. CASE n <= RangeTop(r)
    <3>1. ~(RangeBottom(r) < n)
      BY <1>1, <2>2
    <3>2. CASE got.above = <<>>
      BY <1>6, <3>1, <3>2
    <3>3. ASSUME NEW a \in GoodRange, got.above = <<a>>, RangeTop(a) = RangeTop(r)
          PROVE  ShiftAbove(got.above, n) = counts
      <4>1. ~(RangeBottom(a) < n)
        BY <1>1, <2>2, <3>3, RangeSpan
      <4> QED BY <1>6, <3>1, <3>3, <4>1
    <3> QED BY <1>3, <3>2, <3>3 DEF IsAbove
  <2> QED BY <1>1, <2>1, <2>2
<1>9. ASSUME n > ib PROVE Total(got.above) + got.change + ShiftAbove(got.below, n) = counts
  <2>1. CASE RangeBottom(r) < n
    <3>1. ShiftAbove(got.below, n) = Total(got.below)
      <4>1. CASE got.below = <<>>
        BY <1>6, <4>1
      <4>2. ASSUME NEW b \in GoodRange, got.below = <<b>>, RangeBottom(b) = RangeBottom(r)
            PROVE  ShiftAbove(got.below, n) = Total(got.below)
        BY <1>6, <2>1, <4>2
      <4> QED BY <1>3, <4>1, <4>2 DEF IsBelow
    <3> HIDE DEF counts
    <3>2. counts = r.shift
      BY <2>1 DEF counts
    <3> QED BY <1>3, <1>5, <1>7, <3>1, <3>2
  <2>2. CASE n <= RangeTop(r)
    <3>1. ~(RangeBottom(r) < n) /\ ib < RangeTop(r) /\ ib < RangeBottom(r)
      BY <1>1, <1>9, <2>2
    <3>2. Total(got.above) = 0 /\ got.change = 0
      BY <1>4, <1>6, <3>1
    <3>3. ShiftAbove(got.below, n) = 0
      <4>1. PICK b \in GoodRange : got.below = <<b>> /\ RangeBottom(b) = RangeBottom(r)
        BY <1>1, <1>3, <3>1 DEF IsBelow
      <4> QED BY <1>6, <3>1, <4>1
    <3> QED BY <3>1, <3>2, <3>3
  <2> QED BY <1>1, <2>1, <2>2
<1> QED BY <1>8, <1>9 DEF got, it, ib

\* The shifts counted as far as range k, and those of the ranges after it.
LEMMA ShiftAboveSplit ==
  ASSUME NEW rs \in Seq(GoodRange), NEW k \in 0 .. Len(rs), NEW n \in Int
  PROVE  LET tail == SubSeq(rs, k + 1, Len(rs))
         IN  /\ tail \in Seq(GoodRange) /\ Sums(Counted(rs, n))[k] \in Int
             /\ ShiftAbove(rs, n) = Sums(Counted(rs, n))[k] + ShiftAbove(tail, n)
<1> DEFINE N == Len(rs)
           head == SubSeq(rs, 1, k)
           tail == SubSeq(rs, k + 1, N)
<1>1. N \in Nat /\ k \in Nat /\ k <= N /\ \A i \in 1 .. N : rs[i] \in GoodRange
  OBVIOUS
<1>2. /\ head \in Seq(GoodRange) /\ Len(head) = k
      /\ \A i \in 1 .. k : head[i] = rs[i]
  <2>1. \A i \in 1 .. k : rs[i] \in GoodRange
    BY <1>1
  <2>2. /\ head \in Seq(GoodRange)
        /\ Len(head) = IF 1 <= k THEN k - 1 + 1 ELSE 0
        /\ \A i \in 1 .. k - 1 + 1 : head[i] = rs[1 + i - 1]
    BY <1>1, <2>1, SubSeqProperties
  <2> HIDE DEF head, N
  <2>3. Len(head) = k /\ k - 1 + 1 = k /\ \A i \in 1 .. k : 1 + i - 1 = i
    BY <1>1, <2>2
  <2> QED BY <2>2, <2>3
<1>3. tail \in Seq(GoodRange)
  <2>1. ASSUME NEW i \in k + 1 .. N PROVE rs[i] \in GoodRange
    <3>1. i \in 1 .. N
      BY <1>1
    <3> QED BY <1>1, <3>1
  <2> QED BY <1>1, <2>1, SubSeqProperties
<1>4. head \o tail = rs
  <2>1. 1 \in 1 .. Len(rs) + 1 /\ k \in 1 - 1 .. Len(rs) /\ N \in k .. Len(rs)
    BY <1>1
  <2>2. head \o tail = SubSeq(rs, 1, N)
    BY <2>1, ConcatAdjacentSubSeq
  <2>3. SubSeq(rs, 1, N) = rs
    BY SubSeqFull
  <2> QED BY <2>2, <2>3, Zenon
<1> HIDE DEF head, tail
<1>5. ShiftAbove(rs, n) = ShiftAbove(head, n) + ShiftAbove(tail, n)
  <2>1. head \in Seq(GoodRange)
    BY <1>2
  <2>2. ShiftAbove(head \o tail, n) = ShiftAbove(head, n) + ShiftAbove(tail, n)
    BY <1>3, <2>1, ShiftAboveJoined
  <2> QED BY <1>4, <2>2
<1> DEFINE a == Counted(rs, n)
           b == Counted(head, n)
<1>6. /\ a \in Seq(Int) /\ Len(a) = N
      /\ \A i \in 1 .. N : a[i] = IF RangeBottom(rs[i]) < n THEN rs[i].shift ELSE 0
  BY CountedIs
<1>7. /\ b \in Seq(Int) /\ Len(b) = k
      /\ \A i \in 1 .. k : b[i] = IF RangeBottom(head[i]) < n THEN head[i].shift ELSE 0
  BY <1>2, CountedIs
<1> HIDE DEF a, b
<1>8. Sums(a)[k] = Sums(b)[k]
  <2>1. \A i \in 1 .. k : i \in 1 .. N
    BY <1>1
  <2>2. \A i \in 1 .. k : a[i] = b[i]
    BY <1>2, <1>6, <1>7, <2>1
  <2> HIDE DEF N
  <2> QED BY <1>1, <1>6, <1>7, <2>2, SumsAgree
<1>9. Sums(a)[k] \in Int
  BY <1>1, <1>6, SumsAre
<1>10. Sums(a)[k] = ShiftAbove(head, n)
  BY <1>7, <1>8 DEF ShiftAbove, SumOf, b
<1> QED BY <1>3, <1>5, <1>9, <1>10 DEF a, tail

\* A line that no range of a sequence names.
Free(rs, n) == \A i \in DOMAIN rs : ~Owns(rs[i], FALSE, n)

\* What counts above such a line after i ranges are passed.
WalkShifts(rs, h, n, i) ==
  LET got == ReceiveWalk(rs, h)[i]
      counts == Sums(Counted(rs, n))[i]
  IN  /\ n <= HunkTop(h) => ShiftAbove(got.above, n) = counts
      /\ n > HunkBottom(h) =>
           Total(got.above) + got.change
             + (IF i = 0 THEN 0 ELSE ShiftAbove(Receive(rs[i], h).below, n)) = counts

\* By induction over the ranges that are passed.
LEMMA WalkShiftsIs ==
  ASSUME NEW rs, RangesOK(rs), NEW h \in GoodHunk, NEW n \in Int, Free(rs, n)
  PROVE  \A i \in 0 .. Passed(rs, h) : WalkShifts(rs, h, n, i)
<1> DEFINE last == Passed(rs, h)
           N == Len(rs)
           a == Counted(rs, n)
           W(i) == ReceiveWalk(rs, h)[i]
           S == {i \in 0 .. last : WalkShifts(rs, h, n, i)}
<1>1. rs \in Seq(GoodRange) /\ N \in Nat /\ DOMAIN rs = 1 .. N
  BY DEF RangesOK
<1>2. last \in 0 .. N /\ \A j \in 1 .. N : j < last => RangeBottom(rs[j]) <= HunkBottom(h)
  BY PassedIs
<1>3. /\ Sums(a)[0] = 0
      /\ \A i \in 1 .. N : Sums(a)[i] = Sums(a)[i - 1] + a[i]
      /\ \A i \in 0 .. N : Sums(a)[i] \in Int
      /\ \A i \in 1 .. N : a[i] = IF RangeBottom(rs[i]) < n THEN rs[i].shift ELSE 0
  <2>1. /\ a \in Seq(Int) /\ Len(a) = N
        /\ \A i \in 1 .. N : a[i] = IF RangeBottom(rs[i]) < n THEN rs[i].shift ELSE 0
    BY <1>1, CountedIs
  <2> HIDE DEF a
  <2> QED BY <2>1, SumsAre
<1>4. W(0) = NothingReceived /\ \A i \in 1 .. N : W(i) = ReceiveStep(rs[i], h, W(i - 1))
  BY <1>1, ReceiveWalkUnfolds
<1> HIDE DEF last, N, a, W
<1>5. WalkShifts(rs, h, n, 0)
  <2>1. W(0).above = <<>> /\ W(0).change = 0
    BY <1>4 DEF NothingReceived
  <2>2. ShiftAbove(<<>>, n) = 0 /\ Total(<<>>) = 0
    BY ShiftAboveOne
  <2>3. W(0) = ReceiveWalk(rs, h)[0] /\ Sums(Counted(rs, n))[0] = 0
    BY <1>3 DEF W, a
  <2>4. /\ ShiftAbove(ReceiveWalk(rs, h)[0].above, n) = 0
        /\ Total(ReceiveWalk(rs, h)[0].above) = 0 /\ ReceiveWalk(rs, h)[0].change = 0
    BY <2>1, <2>2, <2>3
  <2> QED BY <2>3, <2>4 DEF WalkShifts
<1>6. ASSUME NEW i \in 1 .. last, WalkShifts(rs, h, n, i - 1) PROVE WalkShifts(rs, h, n, i)
  <2> DEFINE r == rs[i]
             got == Receive(r, h)
             w == W(i - 1)
             now == W(i)
             before == IF i - 1 = 0 THEN 0 ELSE ShiftAbove(Receive(rs[i - 1], h).below, n)
             it == HunkTop(h)
             ib == HunkBottom(h)
             counts == IF RangeBottom(r) < n THEN r.shift ELSE 0
  <2>1. /\ i \in 1 .. N /\ i \in DOMAIN rs /\ i # 0 /\ i - 1 \in 0 .. N
        /\ i - 1 # 0 => i - 1 \in 1 .. N /\ i - 1 < last
    BY <1>1, <1>2
  <2>2. r \in GoodRange /\ ~Owns(r, FALSE, n)
    <3>1. r \in GoodRange
      BY <1>1, <2>1
    <3>2. ~Owns(r, FALSE, n)
      BY <2>1 DEF Free
    <3> QED BY <3>1, <3>2
  <2>3. now.above = w.above \o got.above /\ now.change = w.change + got.change
    <3>1. now = ReceiveStep(rs[i], h, w)
      BY <1>4, <2>1
    <3> HIDE DEF now, w
    <3> QED BY <3>1 DEF ReceiveStep
  <2>4. w.above \in Seq(GoodRange) /\ w.change \in Int
    <3>1. WalkOK(rs, h, i - 1, W(i - 1))
      <4>1. i - 1 \in 0 .. Len(rs)
        BY <2>1 DEF N
      <4> QED BY <4>1, ReceiveWalkIs DEF W
    <3> QED BY <3>1 DEF WalkOK, RangesOK
  <2>5. got.above \in Seq(GoodRange) /\ got.below \in Seq(GoodRange) /\ got.change \in Int
    <3>1. got.above \in Seq(GoodRange) /\ got.below \in Seq(GoodRange)
      BY <2>2, PieceTypes
    <3>2. got.change \in Int
      BY <2>2, Received
    <3> QED BY <3>1, <3>2
  <2>6. before = 0
    <3>1. CASE i - 1 = 0
      BY <3>1
    <3>2. CASE i - 1 # 0
      <4> DEFINE p == rs[i - 1]
                 below == Receive(p, h).below
      <4>1. p \in GoodRange /\ RangeBottom(p) <= ib
        BY <1>1, <1>2, <2>1, <3>2
      <4>2. RangeBottom(p) \in Nat /\ ib \in Nat
        BY <4>1, RangeSpan, HunkSpan
      <4> HIDE DEF p
      <4>3. IsBelow(below, p, ib)
        BY <4>1, Received
      <4> HIDE DEF below
      <4>4. ~(ib < RangeBottom(p))
        <5> HIDE DEF ib
        <5> QED BY <4>1, <4>2
      <4>5. below = <<>>
        BY <4>3, <4>4 DEF IsBelow
      <4>6. ShiftAbove(below, n) = 0
        BY <4>5, ShiftAboveOne
      <4> QED BY <3>2, <4>6 DEF below, p
    <3> QED BY <3>1, <3>2
  <2>7. /\ n <= it => ShiftAbove(got.above, n) = counts
        /\ n > ib => Total(got.above) + got.change + ShiftAbove(got.below, n) = counts
    BY <2>2, RangeShifts
  <2>8. /\ n <= it => ShiftAbove(w.above, n) = Sums(a)[i - 1]
        /\ n > ib => Total(w.above) + w.change + before = Sums(a)[i - 1]
    BY <1>6 DEF WalkShifts, W, a
  <2>9. Sums(a)[i] = Sums(a)[i - 1] + counts /\ Sums(a)[i - 1] \in Int
    BY <1>3, <2>1
  <2> HIDE DEF r, got, w, now, before, it, ib, counts
  <2>10. /\ ShiftAbove(now.above, n) = ShiftAbove(w.above, n) + ShiftAbove(got.above, n)
         /\ Total(now.above) = Total(w.above) + Total(got.above)
         /\ ShiftAbove(w.above, n) \in Int /\ ShiftAbove(got.above, n) \in Int
         /\ Total(w.above) \in Int /\ Total(got.above) \in Int
         /\ ShiftAbove(got.below, n) \in Int
    <3> DEFINE x == w.above
               y == got.above
    <3>1. x \in Seq(GoodRange) /\ y \in Seq(GoodRange)
      BY <2>4, <2>5
    <3> HIDE DEF x, y
    <3>2. /\ ShiftAbove(x \o y, n) = ShiftAbove(x, n) + ShiftAbove(y, n)
          /\ Total(x \o y) = Total(x) + Total(y)
      BY <3>1, ShiftAboveJoined
    <3>3. /\ ShiftAbove(x, n) \in Int /\ ShiftAbove(y, n) \in Int
          /\ Total(x) \in Int /\ Total(y) \in Int
      BY <3>1, ShiftAboveJoined
    <3>4. ShiftAbove(got.below, n) \in Int
      BY <2>5, ShiftAboveJoined
    <3> QED BY <2>3, <3>2, <3>3, <3>4 DEF x, y
  <2>11. n <= it => ShiftAbove(now.above, n) = Sums(a)[i]
    BY <2>7, <2>8, <2>9, <2>10
  <2>12. ASSUME n > ib PROVE Total(now.above) + now.change + ShiftAbove(got.below, n) = Sums(a)[i]
    <3>1. /\ Total(got.above) + got.change + ShiftAbove(got.below, n) = counts
          /\ Total(w.above) + w.change = Sums(a)[i - 1]
      BY <2>4, <2>6, <2>7, <2>8, <2>10, <2>12
    <3>2. /\ Total(now.above) = Total(w.above) + Total(got.above)
          /\ now.change = w.change + got.change
          /\ Sums(a)[i] = Sums(a)[i - 1] + counts
      BY <2>3, <2>9, <2>10
    <3>3. \A p, q, u, v, x, x0, s0 \in Int :
             q + v + x = x0 /\ p + u = s0 => (p + q) + (u + v) + x = s0 + x0
      OBVIOUS
    <3>6. counts \in Int
      BY <2>5, <2>10, <3>1
    <3>4. /\ Total(w.above) \in Int /\ Total(got.above) \in Int /\ w.change \in Int /\ got.change \in Int
          /\ ShiftAbove(got.below, n) \in Int /\ counts \in Int /\ Sums(a)[i - 1] \in Int
      BY <2>4, <2>5, <2>9, <2>10, <3>6
    <3>5. (Total(w.above) + Total(got.above)) + (w.change + got.change) + ShiftAbove(got.below, n)
             = Sums(a)[i - 1] + counts
      BY <3>1, <3>3, <3>4
    <3> QED BY <3>2, <3>5
  <2> QED BY <2>1, <2>11, <2>12 DEF WalkShifts, W, a, r, got, now, it, ib
<1>7. 0 \in S /\ last \in Nat
  BY <1>2, <1>5 DEF N
<1>8. \A i \in 1 .. last : i - 1 \in S => i \in S
  BY <1>2, <1>6 DEF N
<1> HIDE DEF S
<1>9. 0 .. last \subseteq S
  BY <1>7, <1>8, BoundedInduction
<1> QED BY <1>9 DEF S, last

\* What counts above a line that no range names is the same after a hunk passed
\* above it, or is among what the hunk left above itself.
LEMMA HunkShifts ==
  ASSUME NEW rs, RangesOK(rs), NEW h \in GoodHunk, NEW n \in Int, Free(rs, n)
  PROVE  LET got == ReceiveWalk(rs, h)[Passed(rs, h)]
         IN  /\ n <= HunkTop(h) => ShiftAbove(got.above, n) = ShiftAbove(rs, n)
             /\ n > HunkBottom(h) =>
                  Total(got.above) + got.change + ShiftAbove(RestAfter(rs, h), n) = ShiftAbove(rs, n)
<1> DEFINE last == Passed(rs, h)
           got == ReceiveWalk(rs, h)[last]
           tail == SubSeq(rs, last + 1, Len(rs))
           below == IF last = 0 THEN <<>> ELSE Receive(rs[last], h).below
           counts == Sums(Counted(rs, n))[last]
           it == HunkTop(h)
           ib == HunkBottom(h)
<1>1. /\ rs \in Seq(GoodRange) /\ Len(rs) \in Nat /\ DOMAIN rs = 1 .. Len(rs)
      /\ \A k, j \in DOMAIN rs : k < j => RangeBottom(rs[k]) <= RangeTop(rs[j])
  BY DEF RangesOK
<1>2. /\ last \in 0 .. Len(rs)
      /\ last < Len(rs) => last > 0 /\ ib < RangeBottom(rs[last])
  BY PassedIs
<1>3. WalkShifts(rs, h, n, last)
  <2>1. last \in 0 .. Passed(rs, h)
    BY <1>2
  <2> QED BY <2>1, WalkShiftsIs
<1>4. /\ tail \in Seq(GoodRange) /\ counts \in Int
      /\ ShiftAbove(rs, n) = counts + ShiftAbove(tail, n)
  BY <1>1, <1>2, ShiftAboveSplit
<1>5. got.above \in Seq(GoodRange) /\ got.change \in Int
  <2>1. WalkOK(rs, h, last, got)
    BY <1>2, ReceiveWalkIs
  <2> QED BY <2>1 DEF WalkOK, RangesOK
<1>6. below \in Seq(GoodRange)
  <2>1. CASE last = 0
    BY <2>1
  <2>2. CASE last # 0
    <3>1. rs[last] \in GoodRange
      BY <1>1, <1>2, <2>2
    <3> QED BY <2>2, <3>1, PieceTypes
  <2> QED BY <2>1, <2>2
<1>7. RestAfter(rs, h) = below \o tail
  BY DEF RestAfter
<1>8. /\ n <= it => ShiftAbove(got.above, n) = counts
      /\ n > ib => Total(got.above) + got.change + ShiftAbove(below, n) = counts
  <2>1. ShiftAbove(<<>>, n) = 0
    BY ShiftAboveOne
  <2>2. ShiftAbove(below, n) = IF last = 0 THEN 0 ELSE ShiftAbove(Receive(rs[last], h).below, n)
    BY <2>1
  <2> QED BY <1>3, <2>2 DEF WalkShifts
<1> HIDE DEF last, got, below, counts
<1>9. ASSUME n <= it PROVE ShiftAbove(tail, n) = 0
  <2>1. \A i \in last + 1 .. Len(rs) : n <= RangeBottom(rs[i])
    <3> SUFFICES ASSUME NEW i \in last + 1 .. Len(rs) PROVE n <= RangeBottom(rs[i])
      OBVIOUS
    <3>1. last < Len(rs) /\ last \in DOMAIN rs /\ i \in DOMAIN rs /\ last < i
      BY <1>1, <1>2
    <3>2. ib < RangeBottom(rs[last]) /\ RangeBottom(rs[last]) <= RangeTop(rs[i])
      BY <1>1, <1>2, <3>1
    <3>3. /\ RangeBottom(rs[last]) \in Nat /\ RangeTop(rs[i]) \in Nat /\ RangeBottom(rs[i]) \in Nat
          /\ RangeTop(rs[i]) <= RangeBottom(rs[i]) /\ it \in Nat /\ ib \in Nat /\ it <= ib
      <4>1. rs[last] \in GoodRange /\ rs[i] \in GoodRange
        BY <1>1, <3>1
      <4> QED BY <4>1, RangeSpan, HunkSpan
    <3> HIDE DEF it, ib
    <3> QED BY <1>9, <3>2, <3>3
  <2>2. /\ Len(tail) = IF last + 1 <= Len(rs) THEN Len(rs) - (last + 1) + 1 ELSE 0
        /\ \A i \in 1 .. Len(rs) - (last + 1) + 1 : tail[i] = rs[last + 1 + i - 1]
    <3>1. \A i \in last + 1 .. Len(rs) : rs[i] \in GoodRange
      BY <1>1, <1>2
    <3> QED BY <1>1, <1>2, <3>1, SubSeqProperties
  <2> DEFINE N == Len(rs)
  <2>3. N \in Nat /\ last \in Nat /\ last <= N
    BY <1>1, <1>2
  <2>4. DOMAIN tail = 1 .. Len(tail)
    BY <1>4
  <2>5. \A i \in DOMAIN tail : n <= RangeBottom(tail[i])
    <3> SUFFICES ASSUME NEW i \in DOMAIN tail PROVE n <= RangeBottom(tail[i])
      OBVIOUS
    <3> HIDE DEF tail
    <3>1. i \in 1 .. N - (last + 1) + 1 /\ last + 1 + i - 1 \in last + 1 .. N
      <4>1. Len(tail) = IF last + 1 <= N THEN N - (last + 1) + 1 ELSE 0
        BY <2>2
      <4> HIDE DEF N
      <4> QED BY <2>3, <2>4, <4>1
    <3> QED BY <2>1, <2>2, <3>1
  <2> HIDE DEF tail, it
  <2> QED BY <1>4, <2>5, ShiftAboveAll
<1>10. /\ ShiftAbove(below \o tail, n) = ShiftAbove(below, n) + ShiftAbove(tail, n)
       /\ ShiftAbove(below, n) \in Int /\ ShiftAbove(tail, n) \in Int
       /\ Total(got.above) \in Int
  BY <1>4, <1>5, <1>6, ShiftAboveJoined
<1>11. n > ib => Total(got.above) + got.change + ShiftAbove(RestAfter(rs, h), n) = ShiftAbove(rs, n)
  <2> HIDE DEF tail, ib
  <2> QED BY <1>4, <1>5, <1>7, <1>8, <1>10
<1>12. n <= it => ShiftAbove(got.above, n) = ShiftAbove(rs, n)
  <2> HIDE DEF tail, it
  <2> QED BY <1>4, <1>8, <1>9
<1> QED BY <1>11, <1>12 DEF got, last, it, ib

-----------------------------------------------------------------------------
(* Where the lines of the merge base are *)

\* The number in the merge base of line n, zero if a commit wrote it.  What
\* follows the last line is taken for the line after the merge base's last.
Origin(places, m, n) ==
  IF n = m + 1 THEN BaseLines + 1
  ELSE IF 1 <= n /\ n <= m THEN LineAt(places, n).base
  ELSE 0

\* Numbers, and lines that are no commit's.
LEMMA OriginIs ==
  ASSUME NEW places, NEW m, FileOf(places, m), NEW n \in Int
  PROVE  /\ Origin(places, m, n) \in Int
         /\ Origin(places, m, n) # 0 => \A d \in Commit : ~FileSays(places, m, FALSE, n, d)
<1>1. m \in Nat /\ BaseLines \in Nat /\ places \in Seq(GoodPlace) /\ Len(places) = 2 * m + 1
  BY HunkRangesAssumption DEF FileOf
<1>2. CASE n = m + 1
  <2>1. ~(n <= m)
    BY <1>1, <1>2
  <2>2. Origin(places, m, n) = BaseLines + 1 /\ BaseLines + 1 \in Int
    BY <1>1, <1>2 DEF Origin
  <2>3. \A d : ~FileSays(places, m, FALSE, n, d)
    BY <2>1 DEF FileSays
  <2> QED BY <2>2, <2>3, Zenon
<1>3. CASE 1 <= n /\ n <= m
  <2> DEFINE p == LineAt(places, n)
  <2>1. 2 * n \in 1 .. Len(places) /\ n # m + 1
    BY <1>1, <1>3
  <2>2. p \in GoodPlace
    BY <1>1, <2>1, ElementOfSeq DEF LineAt
  <2> HIDE DEF p
  <2>3. p.base \in Int /\ (p.base # 0 => p.commit = Base)
    BY <1>1, <2>2 DEF GoodPlace, Place
  <2>4. Origin(places, m, n) = p.base
    BY <1>3, <2>1 DEF Origin, p
  <2>5. \A d \in Commit : d # Base
    BY DEF Commit, Base
  <2>6. \A d : FileSays(places, m, FALSE, n, d) => p.commit = d
    BY DEF FileSays, CommitAt, p
  <2>7. p.base # 0 => \A d \in Commit : ~FileSays(places, m, FALSE, n, d)
    BY <2>3, <2>5, <2>6
  <2> QED BY <2>3, <2>4, <2>7, Zenon
<1>4. CASE n # m + 1 /\ ~(1 <= n /\ n <= m)
  <2>1. Origin(places, m, n) = 0
    BY <1>4 DEF Origin
  <2> QED BY <2>1
<1> QED BY <1>2, <1>3, <1>4

\* An edit moves the lines below it, and brings none of the merge base.
OriginsPatched(next, places, m, top, old, new) ==
  \A n \in Int :
    Origin(next, m - old + new, n)
      = IF n <= top THEN Origin(places, m, n)
        ELSE IF n <= top + new THEN 0
        ELSE Origin(places, m, n - new + old)

\* That is what PlacesPatched says of lines.
LEMMA OriginsPatchedIs ==
  ASSUME NEW next, NEW places, NEW m \in Nat, NEW top \in Nat, NEW old \in Nat, NEW new \in Nat, NEW c,
         top + old <= m, PlacesPatched(next, places, m, top, old, new, c)
  PROVE  OriginsPatched(next, places, m, top, old, new)
<1> DEFINE mm == m - old + new
<1>1. mm \in Nat /\ mm = m - old + new /\ top + new <= mm
  OBVIOUS
<1> HIDE DEF mm
<1>2. \A n \in 1 .. mm : /\ n <= top => LineAt(next, n) = LineAt(places, n)
                         /\ top < n /\ n <= top + new => LineAt(next, n) = Written(c)
                         /\ n > top + new => LineAt(next, n) = LineAt(places, n - new + old)
  BY <1>1 DEF PlacesPatched
<1>3. Written(c).base = 0
  BY DEF Written
<1> SUFFICES ASSUME NEW n \in Int
             PROVE  Origin(next, mm, n)
                      = IF n <= top THEN Origin(places, m, n)
                        ELSE IF n <= top + new THEN 0
                        ELSE Origin(places, m, n - new + old)
  BY <1>1 DEF OriginsPatched
<1>4. CASE n <= top
  <2>1. n # mm + 1 /\ n # m + 1 /\ n <= m /\ n <= mm
    BY <1>1, <1>4
  <2>2. CASE 1 <= n
    <3>1. n \in 1 .. mm
      BY <1>1, <2>1, <2>2
    <3>2. LineAt(next, n) = LineAt(places, n)
      BY <1>2, <1>4, <3>1
    <3> QED BY <1>4, <2>1, <2>2, <3>2 DEF Origin
  <2>3. CASE ~(1 <= n)
    BY <1>4, <2>1, <2>3 DEF Origin
  <2> QED BY <2>2, <2>3
<1>5. CASE ~(n <= top) /\ n <= top + new
  <2>1. n \in 1 .. mm /\ 1 <= n /\ n <= mm /\ n # mm + 1 /\ top < n
    BY <1>1, <1>5
  <2>2. LineAt(next, n) = Written(c)
    BY <1>2, <1>5, <2>1
  <2> QED BY <1>3, <1>5, <2>1, <2>2 DEF Origin
<1>6. CASE ~(n <= top) /\ ~(n <= top + new)
  <2> DEFINE i == n - new + old
  <2>1. /\ 1 <= n /\ 1 <= i /\ n > top + new /\ i \in Int
        /\ n = mm + 1 <=> i = m + 1
        /\ n <= mm <=> i <= m
    BY <1>1, <1>6
  <2>2. n <= mm => LineAt(next, n) = LineAt(places, i)
    <3>1. n <= mm => n \in 1 .. mm
      BY <1>1, <2>1
    <3> QED BY <1>2, <2>1, <3>1
  <2> HIDE DEF i
  <2>3. Origin(next, mm, n) = Origin(places, m, i)
    BY <2>1, <2>2 DEF Origin
  <2> QED BY <1>6, <2>3 DEF i
<1> QED BY <1>4, <1>5, <1>6

-----------------------------------------------------------------------------
(* Shifts, one hunk *)

\* What a hunk between old lines top and bottom does to what counts above a line, if
\* the ranges left before it were past line b.
ShiftsAdded(now, acc, b, top, bottom, net) ==
  \A n \in Int :
    /\ n <= b + acc.shift => ShiftAbove(now.out, n) = ShiftAbove(acc.out, n)
    /\ n > b /\ n <= top /\ Free(acc.rest, n) =>
         ShiftAbove(now.out, n + acc.shift) = Total(acc.out) + ShiftAbove(acc.rest, n)
    /\ n > bottom /\ Free(acc.rest, n) =>
         Total(now.out) + ShiftAbove(now.rest, n) = Total(acc.out) + ShiftAbove(acc.rest, n) + net

\* One turn of the outer loop, with the same hypotheses as HunkAdded.
LEMMA HunkShiftsAdded ==
  ASSUME NEW acc, RangesOK(acc.out), RangesOK(acc.rest), acc.shift \in Int,
         NEW b \in Int, b + acc.shift >= 0 \/ acc.shift = 0,
         UpTo(acc.out, b + acc.shift), Past(acc.rest, b),
         NEW h \in GoodHunk, b < HunkTop(h), Top(h.newStart, h.newLines) = HunkTop(h) + acc.shift,
         NEW kind \in ChangeKind, NEW c \in Commit
  PROVE  ShiftsAdded(AddHunk(acc, h, kind, c), acc, b, HunkTop(h), HunkBottom(h), NetLines(h))
<1> DEFINE got == ReceiveWalk(acc.rest, h)[Passed(acc.rest, h)]
           moved == Moved(got.above, acc.shift)
           own == [kind |-> kind, commit |-> c, start |-> h.newStart, lines |-> h.newLines,
                   shift |-> NetLines(h) + got.change]
           now == AddHunk(acc, h, kind, c)
           s == acc.shift
           it == HunkTop(h)
           ib == HunkBottom(h)
           net == NetLines(h)
<1>1. /\ now.out = Append(acc.out \o moved, own)
      /\ now.rest = RestAfter(acc.rest, h)
  BY DEF AddHunk, RestAfter
<1>2. WalkOK(acc.rest, h, Passed(acc.rest, h), got)
  BY PassedIs, ReceiveWalkIs
<1>3. \A n \in Int : Free(acc.rest, n) =>
        /\ n <= it => ShiftAbove(got.above, n) = ShiftAbove(acc.rest, n)
        /\ n > ib => Total(got.above) + got.change + ShiftAbove(RestAfter(acc.rest, h), n) = ShiftAbove(acc.rest, n)
  BY HunkShifts
<1>4. it \in Nat /\ ib \in Nat /\ it <= ib /\ s \in Int /\ net \in Int /\ b < it
  <2>1. it \in Nat /\ ib \in Nat /\ it <= ib
    BY HunkSpan
  <2>2. net \in Int
    BY DEF GoodHunk, Hunk, NetLines
  <2> QED BY <2>1, <2>2
<1> HIDE DEF got, now, it, ib, net
<1>5. /\ RangesOK(got.above) /\ got.change \in Int /\ UpTo(got.above, it)
      /\ Past(got.above, b)
  BY <1>2, <1>4 DEF WalkOK, it
<1>6. /\ RangesOK(moved) /\ Past(moved, b + s)
      /\ Total(moved) = Total(got.above)
  BY <1>5, MovedRanges, ShiftAboveMoved
<1>7. \A n \in Int : ShiftAbove(moved, n) = ShiftAbove(got.above, n - s)
  BY <1>5, ShiftAboveMoved
<1> HIDE DEF moved
<1>8. own \in GoodRange /\ own.shift = net + got.change /\ RangeBottom(own) >= it + s
  <2>1. /\ h.newStart \in Nat /\ h.newLines \in Nat /\ h.oldLines \in Nat
        /\ SpanOK(h.newStart, h.newLines)
    BY DEF GoodHunk, Hunk
  <2>2. own \in GoodRange
    BY <1>4, <1>5, <2>1 DEF GoodRange, HunkRange, net
  <2>3. own.start = h.newStart /\ own.lines = h.newLines /\ own.shift = net + got.change
    BY DEF net
  <2> HIDE DEF own
  <2>4. RangeTop(own) = it + s /\ RangeBottom(own) = RangeTop(own) + own.lines /\ own.lines \in Nat
    BY <2>2, <2>3, RangeSpan DEF RangeTop, it
  <2> QED BY <1>4, <2>2, <2>3, <2>4
<1> HIDE DEF own, s
<1> DEFINE before == acc.out \o moved
<1>9. /\ acc.out \in Seq(GoodRange) /\ moved \in Seq(GoodRange) /\ <<own>> \in Seq(GoodRange)
      /\ before \in Seq(GoodRange) /\ got.above \in Seq(GoodRange) /\ RestAfter(acc.rest, h) \in Seq(GoodRange)
  <2>1. acc.out \in Seq(GoodRange) /\ moved \in Seq(GoodRange) /\ got.above \in Seq(GoodRange)
    BY <1>5, <1>6 DEF RangesOK
  <2>2. <<own>> \in Seq(GoodRange)
    BY <1>8
  <2>3. RestAfter(acc.rest, h) \in Seq(GoodRange)
    BY RestIs DEF RangesOK
  <2>4. before \in Seq(GoodRange)
    BY <2>1, ConcatProperties
  <2> QED BY <2>1, <2>2, <2>3, <2>4
<1>10. now.out = before \o <<own>>
  BY <1>1, <1>8, <1>9, AppendIsConcat DEF before
<1>11. \A n \in Int : /\ ShiftAbove(before, n) = ShiftAbove(acc.out, n) + ShiftAbove(moved, n)
                      /\ ShiftAbove(acc.out, n) \in Int /\ ShiftAbove(moved, n) \in Int
                      /\ Total(before) = Total(acc.out) + Total(moved)
                      /\ Total(acc.out) \in Int /\ Total(moved) \in Int
  <2> SUFFICES ASSUME NEW n \in Int
               PROVE  /\ ShiftAbove(before, n) = ShiftAbove(acc.out, n) + ShiftAbove(moved, n)
                      /\ ShiftAbove(acc.out, n) \in Int /\ ShiftAbove(moved, n) \in Int
                      /\ Total(before) = Total(acc.out) + Total(moved)
                      /\ Total(acc.out) \in Int /\ Total(moved) \in Int
    BY Zenon
  <2> DEFINE x == acc.out
  <2>1. x \in Seq(GoodRange) /\ moved \in Seq(GoodRange)
    BY <1>9
  <2> HIDE DEF x
  <2>2. /\ ShiftAbove(x \o moved, n) = ShiftAbove(x, n) + ShiftAbove(moved, n)
        /\ ShiftAbove(x, n) \in Int /\ Total(x) \in Int
        /\ Total(x \o moved) = Total(x) + Total(moved)
    BY <2>1, ShiftAboveJoined
  <2>3. ShiftAbove(moved, n) \in Int /\ Total(moved) \in Int
    BY <2>1, ShiftAboveJoined
  <2> QED BY <2>2, <2>3 DEF x, before
<1> HIDE DEF before
<1>12. \A n \in Int : /\ ShiftAbove(now.out, n) = ShiftAbove(before, n) + ShiftAbove(<<own>>, n)
                      /\ Total(now.out) = Total(before) + Total(<<own>>)
  <2> DEFINE x == <<own>>
  <2>1. x \in Seq(GoodRange)
    BY <1>9
  <2> HIDE DEF x
  <2>2. \A n \in Int : /\ ShiftAbove(before \o x, n) = ShiftAbove(before, n) + ShiftAbove(x, n)
                       /\ Total(before \o x) = Total(before) + Total(x)
    BY <1>9, <2>1, ShiftAboveJoined
  <2> QED BY <1>10, <2>2, Zenon DEF x
<1>13. /\ \A n \in Int : ShiftAbove(<<own>>, n) = IF RangeBottom(own) < n THEN own.shift ELSE 0
       /\ Total(<<own>>) = net + got.change
  BY <1>8, ShiftAboveOne
<1>14. RangeBottom(own) \in Int
  BY <1>8, RangeSpan
<1>15. ASSUME NEW n \in Int, n <= it + s
       PROVE  ShiftAbove(now.out, n) = ShiftAbove(acc.out, n) + ShiftAbove(got.above, n - s)
  <2>1. ShiftAbove(<<own>>, n) = 0
    <3>1. ~(RangeBottom(own) < n)
      BY <1>4, <1>8, <1>14, <1>15 DEF s
    <3> QED BY <1>13, <3>1
  <2>2. ShiftAbove(moved, n) = ShiftAbove(got.above, n - s)
    BY <1>7
  <2> QED BY <1>11, <1>12, <2>1, <2>2
<1>16. ASSUME NEW n \in Int, n <= b + s PROVE ShiftAbove(now.out, n) = ShiftAbove(acc.out, n)
  <2>1. n <= it + s /\ n - s \in Int
    BY <1>4, <1>16
  <2>2. ShiftAbove(moved, n) = 0
    <3>1. ASSUME NEW i \in DOMAIN moved PROVE n <= RangeBottom(moved[i])
      <4>1. b + s < RangeBottom(moved[i])
        BY <1>6 DEF Past
      <4>2. moved[i] \in GoodRange
        BY <1>9
      <4>3. RangeBottom(moved[i]) \in Int
        BY <4>2, RangeSpan
      <4> QED BY <1>4, <1>16, <4>1, <4>3
    <3> QED BY <1>9, <3>1, ShiftAboveAll
  <2>3. ShiftAbove(got.above, n - s) = 0
    BY <1>7, <2>2
  <2> QED BY <1>11, <1>15, <2>1, <2>3
<1>17. ASSUME NEW n \in Int, n > b, n <= it, Free(acc.rest, n)
       PROVE  ShiftAbove(now.out, n + s) = Total(acc.out) + ShiftAbove(acc.rest, n)
  <2> DEFINE i == n + s
  <2>1. i \in Int /\ i <= it + s /\ i - s = n /\ b + s < i
    BY <1>4, <1>17
  <2> HIDE DEF i
  <2>2. ShiftAbove(acc.out, i) = Total(acc.out)
    <3>1. ASSUME NEW j \in DOMAIN acc.out PROVE RangeBottom(acc.out[j]) < i
      <4>1. RangeBottom(acc.out[j]) <= b + s
        BY DEF UpTo, s
      <4>2. acc.out[j] \in GoodRange
        BY <1>9
      <4>3. RangeBottom(acc.out[j]) \in Int
        BY <4>2, RangeSpan
      <4> QED BY <1>4, <2>1, <4>1, <4>3
    <3> QED BY <1>9, <2>1, <3>1, ShiftAboveAll
  <2>3. ShiftAbove(got.above, n) = ShiftAbove(acc.rest, n)
    BY <1>3, <1>17
  <2>4. ShiftAbove(now.out, i) = ShiftAbove(acc.out, i) + ShiftAbove(got.above, i - s)
    BY <1>15, <2>1
  <2> QED BY <2>1, <2>2, <2>3, <2>4 DEF i
<1>18. ASSUME NEW n \in Int, n > ib, Free(acc.rest, n)
       PROVE  Total(now.out) + ShiftAbove(now.rest, n) = Total(acc.out) + ShiftAbove(acc.rest, n) + net
  <2> DEFINE x == ShiftAbove(now.rest, n)
  <2>1. Total(now.out) = Total(acc.out) + Total(got.above) + (net + got.change)
    BY <1>6, <1>11, <1>12, <1>13
  <2>2. Total(got.above) + got.change + x = ShiftAbove(acc.rest, n)
    BY <1>1, <1>3, <1>18
  <2>3. x \in Int /\ Total(got.above) \in Int /\ Total(acc.out) \in Int
    BY <1>1, <1>9, ShiftAboveJoined
  <2>4. got.change \in Int /\ net \in Int
    BY <1>4, <1>5
  <2> HIDE DEF x
  <2> QED BY <2>1, <2>2, <2>3, <2>4 DEF x
<1> QED BY <1>16, <1>17, <1>18 DEF ShiftsAdded, now, it, ib, net, s

-----------------------------------------------------------------------------
(* Shifts, a whole diff *)

\* What counts above a line of the merge base is how far that line has moved.
ShiftsMatch(rs, places, m) ==
  \A n \in Int : Origin(places, m, n) # 0 => ShiftAbove(rs, n) = n - Origin(places, m, n)

\* What is past x has only moved.
OriginsMoved(now, places, m, shift, x) ==
  \A n \in Int : n > x => Origin(now, m + shift, n + shift) = Origin(places, m, n)

\* ShiftsMatch as far as x, for the ranges pushed, and past x, for all of them.
PushedMatch(out, now, m, x) ==
  \A n \in Int : n <= x /\ Origin(now, m, n) # 0 => ShiftAbove(out, n) = n - Origin(now, m, n)

RestMatches(acc, places, m, x, shift) ==
  \A n \in Int : n > x /\ Origin(places, m, n) # 0 =>
    Total(acc.out) + ShiftAbove(acc.rest, n) = n + shift - Origin(places, m, n)

\* After k hunks, beside AddOK.
ShiftsOK(places, m, edits, k, now, acc) ==
  LET shift == Shifts(edits)[k]
      reached == Reached(edits, k)
  IN  /\ OriginsMoved(now, places, m, shift, reached)
      /\ PushedMatch(acc.out, now, m + shift, reached + shift)
      /\ RestMatches(acc, places, m, reached, shift)

\* No range names a line of the merge base.
LEMMA OriginFree ==
  ASSUME NEW places, NEW m, FileOf(places, m), NEW rs, RangesOK(rs), NEW n \in Int,
         Origin(places, m, n) # 0,
         \A d \in Commit : Says(rs, FALSE, n, d) => FileSays(places, m, FALSE, n, d)
  PROVE  Free(rs, n)
<1> SUFFICES ASSUME NEW i \in DOMAIN rs, Owns(rs[i], FALSE, n) PROVE FALSE
  BY DEF Free
<1>1. rs[i] \in GoodRange
  BY DEF RangesOK
<1>2. rs[i].commit \in Commit
  BY <1>1 DEF GoodRange, HunkRange
<1>3. FileSays(places, m, FALSE, n, rs[i].commit)
  BY <1>2 DEF Says
<1> QED BY <1>2, <1>3, OriginIs

\* Before the first hunk.
LEMMA ShiftsStart ==
  ASSUME NEW places, NEW m, FileOf(places, m), NEW edits, EditsOK(edits, m),
         NEW rs, RangesOK(rs), ShiftsMatch(rs, places, m)
  PROVE  ShiftsOK(places, m, edits, 0, places, Start(rs))
<1>1. Shifts(edits)[0] = 0 /\ Reached(edits, 0) = -1
  BY ShiftsUnfold DEF Reached, EditsOK
<1>2. Start(rs).out = <<>> /\ Start(rs).rest = rs
  BY DEF Start
<1>3. m \in Nat /\ m + 0 = m /\ -1 + 0 = -1 /\ \A n \in Int : n + 0 = n
  BY DEF FileOf
<1>4. OriginsMoved(places, places, m, 0, -1)
  BY <1>3 DEF OriginsMoved
<1>5. PushedMatch(<<>>, places, m, -1)
  <2>1. ASSUME NEW n \in Int, n <= -1 PROVE Origin(places, m, n) = 0
    BY <1>3, <2>1 DEF Origin
  <2> QED BY <2>1 DEF PushedMatch
<1>6. RestMatches(Start(rs), places, m, -1, 0)
  <2> SUFFICES ASSUME NEW n \in Int, Origin(places, m, n) # 0
               PROVE  Total(<<>>) + ShiftAbove(rs, n) = n + 0 - Origin(places, m, n)
    BY <1>2 DEF RestMatches
  <2>1. ShiftAbove(rs, n) = n - Origin(places, m, n) /\ Origin(places, m, n) \in Int
    BY OriginIs DEF ShiftsMatch
  <2>2. Total(<<>>) = 0
    BY ShiftAboveOne
  <2> QED BY <2>1, <2>2
<1> QED BY <1>1, <1>2, <1>3, <1>4, <1>5, <1>6 DEF ShiftsOK

\* One more hunk.
LEMMA ShiftsStepOK ==
  ASSUME NEW places, NEW m, FileOf(places, m), NEW edits, EditsOK(edits, m), HeadersAgree(edits),
         NEW k \in 1 .. Len(edits), NEW now, PatchOK(places, m, edits, k - 1, now),
         NEW acc, AddOK(places, m, edits, k - 1, now, acc), ShiftsOK(places, m, edits, k - 1, now, acc),
         NEW kind \in ChangeKind, NEW c \in Commit
  PROVE  ShiftsOK(places, m, edits, k, PatchStep(now, edits, k, c), AddHunk(acc, Diff(edits)[k], kind, c))
<1> DEFINE top == edits[k].top
           old == edits[k].old
           new == edits[k].new
           s == Shifts(edits)[k - 1]
           s2 == Shifts(edits)[k]
           here == Here(edits, k)
           next == PatchStep(now, edits, k, c)
           r == Reached(edits, k)
           r0 == Reached(edits, k - 1)
           h == Diff(edits)[k]
           added == AddHunk(acc, h, kind, c)
<1>1. /\ m \in Nat /\ s \in Int /\ s2 = s + new - old
      /\ top \in Nat /\ old \in Nat /\ new \in Nat /\ top + s \in Nat /\ top + old <= m
      /\ r = top + old /\ r0 \in Int /\ r0 < top
  BY EditHere, SMTT(60)
<1>2. here \in Edits /\ here.top = top + s /\ here.old = old /\ here.new = new
  BY EditHere
<1>3. next = Patched(now, here, c)
  BY DEF PatchStep
<1>4. /\ h \in GoodHunk /\ HunkTop(h) = top /\ HunkBottom(h) = top + old
      /\ Top(h.newStart, h.newLines) = top + s /\ h.newLines = new /\ NetLines(h) = new - old
  BY <1>1, DiffIs DEF EditsOK
<1>5. /\ FileOf(now, m + s)
      /\ r0 + s >= 0 \/ s = 0
  BY DEF PatchOK
<1>6. /\ acc.shift = s
      /\ RangesOK(acc.out) /\ RangesOK(acc.rest)
      /\ UpTo(acc.out, r0 + s) /\ Past(acc.rest, r0)
      /\ SaysPast(acc.rest, places, m, r0)
  BY DEF AddOK
<1>7. /\ OriginsMoved(now, places, m, s, r0)
      /\ PushedMatch(acc.out, now, m + s, r0 + s)
      /\ RestMatches(acc, places, m, r0, s)
  BY DEF ShiftsOK
<1> HIDE DEF top, old, new, s, s2, here, next, r, r0, h, added
<1>8. ShiftsAdded(added, acc, r0, top, top + old, new - old)
  BY <1>1, <1>4, <1>5, <1>6, HunkShiftsAdded DEF added
<1> DEFINE ms == m + s
           ts == top + s
           mm == m + s2
<1>9. /\ ms \in Nat /\ ts \in Nat /\ ts + old <= ms /\ mm = ms - old + new
      /\ r + s2 = ts + new
  BY <1>1, <1>5 DEF FileOf
<1>10. FileOf(now, ms) /\ here.top = ts
  BY <1>2, <1>5
<1> HIDE DEF ms, ts, mm
<1>11. OriginsPatched(next, now, ms, ts, old, new)
  <2> DEFINE q == Patched(now, here, c)
  <2>1. PlacesPatched(q, now, ms, ts, old, new, c)
    BY <1>1, <1>2, <1>9, <1>10, PatchedParts
  <2> HIDE DEF q
  <2>2. q = next
    BY <1>3 DEF q
  <2>3. PlacesPatched(next, now, ms, ts, old, new, c)
    BY <2>1, <2>2
  <2> QED BY <1>1, <1>9, <2>3, OriginsPatchedIs
<1>12. \A n \in Int : Origin(next, mm, n) = IF n <= ts THEN Origin(now, ms, n)
                                            ELSE IF n <= ts + new THEN 0
                                            ELSE Origin(now, ms, n - new + old)
  BY <1>9, <1>11 DEF OriginsPatched
<1>13. \A n \in Int : n > r0 => Origin(now, ms, n + s) = Origin(places, m, n)
  BY <1>7 DEF OriginsMoved, ms
<1>14. \A n \in Int : n > r0 /\ Origin(places, m, n) # 0 => Free(acc.rest, n)
  <2> SUFFICES ASSUME NEW n \in Int, n > r0, Origin(places, m, n) # 0 PROVE Free(acc.rest, n)
    OBVIOUS
  <2>1. \A d \in Commit : Says(acc.rest, FALSE, n, d) => FileSays(places, m, FALSE, n, d)
    BY <1>6 DEF SaysPast
  <2> DEFINE rest == acc.rest
  <2>2. RangesOK(rest) /\ \A d \in Commit : Says(rest, FALSE, n, d) => FileSays(places, m, FALSE, n, d)
    BY <1>6, <2>1
  <2> HIDE DEF rest
  <2>3. Free(rest, n)
    BY <2>2, OriginFree
  <2> QED BY <2>3 DEF rest
<1>15. \A n \in Int :
         /\ n <= r0 + s => ShiftAbove(added.out, n) = ShiftAbove(acc.out, n)
         /\ n > r0 /\ n <= top /\ Free(acc.rest, n) =>
              ShiftAbove(added.out, n + s) = Total(acc.out) + ShiftAbove(acc.rest, n)
         /\ n > top + old /\ Free(acc.rest, n) =>
              Total(added.out) + ShiftAbove(added.rest, n) = Total(acc.out) + ShiftAbove(acc.rest, n) + (new - old)
  BY <1>6, <1>8 DEF ShiftsAdded
<1>16. \A n \in Int : n > r0 /\ Origin(places, m, n) # 0 =>
         Total(acc.out) + ShiftAbove(acc.rest, n) = n + s - Origin(places, m, n)
  BY <1>7 DEF RestMatches
<1>17. \A n \in Int : Origin(places, m, n) \in Int
  BY OriginIs
<1>18. OriginsMoved(next, places, m, s2, r)
  <2> SUFFICES ASSUME NEW n \in Int, n > r
               PROVE  Origin(next, mm, n + s2) = Origin(places, m, n)
    BY DEF OriginsMoved, mm
  <2> DEFINE i == n + s2
  <2>1. i \in Int /\ ~(i <= ts) /\ ~(i <= ts + new) /\ i - new + old = n + s /\ n > r0
    BY <1>1 DEF ts
  <2> HIDE DEF i
  <2>2. Origin(next, mm, i) = Origin(now, ms, n + s)
    BY <1>12, <2>1
  <2> QED BY <1>13, <2>1, <2>2 DEF i
<1>19. PushedMatch(added.out, next, mm, ts + new)
  <2> SUFFICES ASSUME NEW n \in Int, n <= ts + new, Origin(next, mm, n) # 0
               PROVE  ShiftAbove(added.out, n) = n - Origin(next, mm, n)
    BY DEF PushedMatch
  <2>1. n <= ts /\ Origin(next, mm, n) = Origin(now, ms, n)
    BY <1>12
  <2>2. CASE n <= r0 + s
    <3>1. ShiftAbove(acc.out, n) = n - Origin(now, ms, n)
      BY <1>7, <2>1, <2>2 DEF PushedMatch, ms
    <3> QED BY <1>15, <2>1, <2>2, <3>1
  <2>3. CASE ~(n <= r0 + s)
    <3> DEFINE i == n - s
    <3>1. i \in Int /\ i > r0 /\ i <= top /\ i + s = n
      BY <1>1, <2>1, <2>3 DEF ts
    <3> HIDE DEF i
    <3>2. Origin(now, ms, n) = Origin(places, m, i)
      BY <1>13, <3>1
    <3>3. Origin(places, m, i) # 0 /\ Free(acc.rest, i)
      BY <1>14, <2>1, <3>1, <3>2
    <3>4. ShiftAbove(added.out, n) = Total(acc.out) + ShiftAbove(acc.rest, i)
      BY <1>15, <3>1, <3>3
    <3>5. Total(acc.out) + ShiftAbove(acc.rest, i) = n - Origin(places, m, i)
      <4>1. Total(acc.out) + ShiftAbove(acc.rest, i) = i + s - Origin(places, m, i)
        BY <1>16, <3>1, <3>3
      <4> DEFINE o == Origin(places, m, i)
      <4>2. o \in Int /\ s \in Int
        BY <1>1, <1>17, <3>1
      <4> HIDE DEF o
      <4>3. i + s - o = n - o
        BY <3>1, <4>2
      <4> QED BY <4>1, <4>3 DEF o
    <3> QED BY <2>1, <3>2, <3>4, <3>5
  <2> QED BY <2>2, <2>3
<1>20. RestMatches(added, places, m, r, s2)
  <2> SUFFICES ASSUME NEW n \in Int, n > r, Origin(places, m, n) # 0
               PROVE  Total(added.out) + ShiftAbove(added.rest, n) = n + s2 - Origin(places, m, n)
    BY DEF RestMatches
  <2>1. n > r0 /\ n > top + old
    BY <1>1
  <2>2. Free(acc.rest, n)
    BY <1>14, <2>1
  <2>3. Total(added.out) + ShiftAbove(added.rest, n) = Total(acc.out) + ShiftAbove(acc.rest, n) + (new - old)
    BY <1>15, <2>1, <2>2
  <2>4. Total(acc.out) + ShiftAbove(acc.rest, n) = n + s - Origin(places, m, n)
    BY <1>16, <2>1
  <2>5. (n + s - Origin(places, m, n)) + (new - old) = n + s2 - Origin(places, m, n)
    <3> DEFINE o == Origin(places, m, n)
    <3>1. o \in Int
      BY <1>17
    <3>2. s2 = s + new - old /\ s \in Int /\ new \in Int /\ old \in Int
      BY <1>1
    <3> HIDE DEF o, s, s2, new, old
    <3>3. (n + s - o) + (new - old) = n + s2 - o
      BY <3>1, <3>2
    <3> QED BY <3>3 DEF o
  <2> QED BY <2>3, <2>4, <2>5
<1> QED BY <1>9, <1>18, <1>19, <1>20 DEF ShiftsOK, s2, r, next, h, added, mm

\* By induction over the hunks of a diff.
LEMMA ShiftsWalk ==
  ASSUME NEW places, NEW m, FileOf(places, m), NEW edits, EditsOK(edits, m), HeadersAgree(edits),
         NEW rs, RangesOK(rs), Matches(rs, places, m), ShiftsMatch(rs, places, m),
         NEW kind \in ChangeKind, NEW c \in Commit
  PROVE  \A k \in 0 .. Len(edits) :
           ShiftsOK(places, m, edits, k, PatchWalk(places, edits, c)[k], AddWalk(rs, kind, c, Diff(edits))[k])
<1> DEFINE N == Len(edits)
           now == PatchWalk(places, edits, c)
           walk == AddWalk(rs, kind, c, Diff(edits))
           S == {k \in 0 .. N : ShiftsOK(places, m, edits, k, now[k], walk[k])}
<1>1. N \in Nat /\ \A i \in 1 .. N : i - 1 \in 0 .. N /\ i \in 0 .. N
  BY DEF EditsOK
<1>2. /\ now[0] = places
      /\ \A i \in 1 .. N : now[i] = PatchStep(now[i - 1], edits, i, c)
      /\ \A i \in 0 .. N : PatchOK(places, m, edits, i, now[i])
  BY PatchWalkIs
<1>3. /\ walk[0] = Start(rs)
      /\ \A i \in 1 .. N : walk[i] = AddHunk(walk[i - 1], Diff(edits)[i], kind, c)
      /\ \A i \in 0 .. N : AddOK(places, m, edits, i, now[i], walk[i])
  BY AddWalkIs
<1> HIDE DEF now, walk
<1>4. 0 \in S
  <2>1. ShiftsOK(places, m, edits, 0, places, Start(rs))
    BY ShiftsStart
  <2> QED BY <1>1, <1>2, <1>3, <2>1
<1>5. ASSUME NEW i \in 1 .. N, i - 1 \in S PROVE i \in S
  <2>1. /\ PatchOK(places, m, edits, i - 1, now[i - 1])
        /\ AddOK(places, m, edits, i - 1, now[i - 1], walk[i - 1])
        /\ ShiftsOK(places, m, edits, i - 1, now[i - 1], walk[i - 1])
    BY <1>1, <1>2, <1>3, <1>5
  <2>2. ShiftsOK(places, m, edits, i, PatchStep(now[i - 1], edits, i, c),
                 AddHunk(walk[i - 1], Diff(edits)[i], kind, c))
    BY <2>1, ShiftsStepOK
  <2>3. ShiftsOK(places, m, edits, i, now[i], walk[i])
    BY <1>2, <1>3, <2>2
  <2> QED BY <1>1, <2>3
<1> HIDE DEF N, S
<1>6. 0 .. N \subseteq S
  BY <1>1, <1>4, <1>5, BoundedInduction
<1> QED BY <1>6 DEF S, N, now, walk

\* Adding a diff keeps the shifts right: however `receive` divides them, what
\* counts above a line of the merge base is how far that line has moved.
THEOREM AddShifts ==
  ASSUME NEW places, NEW m, FileOf(places, m), NEW edits, EditsOK(edits, m), HeadersAgree(edits),
         NEW rs, RangesOK(rs), Matches(rs, places, m), ShiftsMatch(rs, places, m),
         NEW kind \in ChangeKind, NEW c \in Commit
  PROVE  ShiftsMatch(Add(rs, kind, c, Diff(edits)),
                     PatchWalk(places, edits, c)[Len(edits)], m + Shifts(edits)[Len(edits)])
<1> DEFINE N == Len(edits)
           next == PatchWalk(places, edits, c)[N]
           s == Shifts(edits)[N]
           r == Reached(edits, N)
           end == AddWalk(rs, kind, c, Diff(edits))[N]
           moved == Moved(end.rest, end.shift)
           all == Add(rs, kind, c, Diff(edits))
           count == m + s
<1>1. N \in Nat /\ edits \in Seq(Edits) /\ N \in 0 .. N /\ m \in Nat /\ Len(Diff(edits)) = N
  <2>1. edits \in Seq(Edits) /\ DOMAIN edits = 1 .. Len(edits) /\ Len(edits) \in Nat
    BY DEF EditsOK
  <2>2. DOMAIN Diff(edits) = 1 .. Len(edits)
    BY <2>1 DEF Diff
  <2>3. Len(Diff(edits)) = N
    BY <2>1, <2>2
  <2> QED BY <2>1, <2>3 DEF FileOf
<1>2. all = end.out \o moved
  BY <1>1 DEF Add
<1>3. r \in Int /\ s \in Int
  BY <1>1, ReachedIs, ShiftsUnfold
<1>4. FileOf(next, count) /\ (r + s >= 0 \/ s = 0)
  <2>1. PatchOK(places, m, edits, N, next)
    BY <1>1, PatchWalkIs
  <2> QED BY <2>1 DEF PatchOK
<1>5. /\ end.shift = s
      /\ RangesOK(end.out) /\ RangesOK(end.rest)
      /\ UpTo(end.out, r + s) /\ Past(end.rest, r)
  <2>1. AddOK(places, m, edits, N, next, end)
    BY <1>1, AddWalkIs
  <2> QED BY <2>1 DEF AddOK
<1>6. /\ OriginsMoved(next, places, m, s, r)
      /\ PushedMatch(end.out, next, count, r + s)
      /\ RestMatches(end, places, m, r, s)
  <2>1. ShiftsOK(places, m, edits, N, next, end)
    BY <1>1, ShiftsWalk
  <2> QED BY <2>1 DEF ShiftsOK
<1> HIDE DEF N, next, s, r, end, all
<1>7. RangesOK(moved) /\ Past(moved, r + s)
  BY <1>3, <1>4, <1>5, MovedRanges
<1>8. \A n \in Int : ShiftAbove(moved, n) = ShiftAbove(end.rest, n - s)
  BY <1>3, <1>4, <1>5, ShiftAboveMoved
<1> HIDE DEF moved
<1>9. end.out \in Seq(GoodRange) /\ moved \in Seq(GoodRange)
  BY <1>5, <1>7 DEF RangesOK
<1>10. \A n \in Int : /\ ShiftAbove(all, n) = ShiftAbove(end.out, n) + ShiftAbove(moved, n)
                      /\ ShiftAbove(end.out, n) \in Int
  <2> DEFINE x == end.out
  <2>1. x \in Seq(GoodRange)
    BY <1>9
  <2> HIDE DEF x
  <2>2. \A n \in Int : /\ ShiftAbove(x \o moved, n) = ShiftAbove(x, n) + ShiftAbove(moved, n)
                       /\ ShiftAbove(x, n) \in Int
    BY <1>9, <2>1, ShiftAboveJoined
  <2> QED BY <1>2, <2>2, Zenon DEF x
<1> HIDE DEF count
<1>11. ASSUME NEW n \in Int, Origin(next, count, n) # 0
       PROVE  ShiftAbove(all, n) = n - Origin(next, count, n)
  <2>1. CASE n <= r + s
    <3>1. ShiftAbove(end.out, n) = n - Origin(next, count, n)
      BY <1>6, <1>11, <2>1 DEF PushedMatch
    <3>2. ASSUME NEW i \in DOMAIN moved PROVE n <= RangeBottom(moved[i])
      <4>1. r + s < RangeBottom(moved[i])
        BY <1>7 DEF Past
      <4>2. moved[i] \in GoodRange
        BY <1>9
      <4>3. RangeBottom(moved[i]) \in Int
        BY <4>2, RangeSpan
      <4> QED BY <1>3, <2>1, <4>1, <4>3
    <3>3. ShiftAbove(moved, n) = 0
      BY <1>9, <3>2, ShiftAboveAll
    <3> QED BY <1>10, <3>1, <3>3
  <2>2. CASE ~(n <= r + s)
    <3> DEFINE i == n - s
    <3>1. i \in Int /\ i > r /\ i + s = n
      BY <1>3, <2>2
    <3>2. ShiftAbove(moved, n) = ShiftAbove(end.rest, i)
      BY <1>8
    <3> HIDE DEF i
    <3>3. Origin(next, count, n) = Origin(places, m, i)
      <4>1. Origin(next, m + s, i + s) = Origin(places, m, i)
        BY <1>6, <3>1 DEF OriginsMoved
      <4> QED BY <3>1, <4>1 DEF count
    <3>4. ShiftAbove(end.out, n) = Total(end.out)
      <4>1. ASSUME NEW j \in DOMAIN end.out PROVE RangeBottom(end.out[j]) < n
        <5>1. RangeBottom(end.out[j]) <= r + s
          BY <1>5 DEF UpTo
        <5>2. end.out[j] \in GoodRange
          BY <1>9
        <5>3. RangeBottom(end.out[j]) \in Int
          BY <5>2, RangeSpan
        <5> QED BY <1>3, <2>2, <5>1, <5>3
      <4> QED BY <1>9, <4>1, ShiftAboveAll
    <3>5. Total(end.out) + ShiftAbove(end.rest, i) = i + s - Origin(places, m, i)
      BY <1>6, <1>11, <3>1, <3>3 DEF RestMatches
    <3> DEFINE o == Origin(places, m, i)
    <3>6. o \in Int
      BY <3>1, OriginIs
    <3> HIDE DEF o
    <3>7. i + s - o = n - o
      BY <1>3, <3>1, <3>6
    <3>8. ShiftAbove(all, n) = Total(end.out) + ShiftAbove(end.rest, i)
      BY <1>10, <3>2, <3>4
    <3> QED BY <3>3, <3>5, <3>7, <3>8 DEF o
  <2> QED BY <2>1, <2>2
<1> QED BY <1>11 DEF ShiftsMatch, N, next, s, all, count

-----------------------------------------------------------------------------
(* What a range carries: never more lines than it has *)

\* Whole division.
LEMMA DivisionIs ==
  ASSUME NEW a \in Nat, NEW b \in Nat, b > 0
  PROVE  /\ a \div b \in Nat
         /\ (a \div b) * b <= a /\ a < (a \div b) * b + b
OBVIOUS

\* A rounded share of at most as many lines as there are: it fits into the part above, and
\* the rest into the part below.
LEMMA ShareFits ==
  ASSUME NEW net \in Int, NEW above \in Nat, NEW below \in Nat,
         above + below > 0, net <= above + below
  PROVE  /\ ShareAbove(net, above, below) \in Int
         /\ ShareAbove(net, above, below) <= above
         /\ net - ShareAbove(net, above, below) <= below
<1> DEFINE both == above + below
           share == ShareAbove(net, above, below)
<1>1. both \in Nat /\ both > 0 /\ share = Quotient(net * above, both)
  BY DEF ShareAbove
<1>2. both = above + below /\ net <= both
  OBVIOUS
<1> HIDE DEF both, share
<1>3. CASE net >= 0
  <2> DEFINE a == net * above
             q == a \div both
  <2>1. a \in Nat
    BY <1>3
  <2>2. share = q
    <3>1. ~(a < 0)
      BY <2>1
    <3> QED BY <1>1, <3>1 DEF Quotient
  <2> HIDE DEF a
  <2>3. q \in Nat /\ q * both <= a /\ a < q * both + both
    BY <1>1, <2>1, DivisionIs
  <2> HIDE DEF q
  <2>4. q <= above
    <3>1. SUFFICES ASSUME q >= above + 1 PROVE FALSE
      BY <2>3
    <3>2. q * both >= (above + 1) * both
      BY <1>1, <2>3, <3>1
    <3>3. a <= both * above
      BY <1>1, <1>2, <1>3 DEF a
    <3>4. (above + 1) * both = both * above + both
      BY <1>1
    <3>5. both * above \in Int /\ q * both \in Int
      BY <1>1, <2>3
    <3> QED BY <1>1, <2>1, <2>3, <3>2, <3>3, <3>4, <3>5
  <2>5. net - q <= below
    <3>1. SUFFICES ASSUME net - below >= q + 1 PROVE FALSE
      BY <2>3
    <3>2. (net - below) * both >= (q + 1) * both
      BY <1>1, <2>3, <3>1
    <3>3. (q + 1) * both = q * both + both
      BY <1>1, <2>3
    <3>4. (net - below) * both = net * above + net * below - below * both
      BY <1>1, <1>2
    <3>5. net * below <= below * both
      BY <1>1, <1>2
    <3>6. q * both \in Int /\ net * below \in Int /\ below * both \in Int /\ net * above \in Int
      BY <1>1, <2>3
    <3> QED BY <1>1, <2>3, <3>2, <3>3, <3>4, <3>5, <3>6 DEF a
  <2> QED BY <2>2, <2>3, <2>4, <2>5 DEF share
<1>4. CASE net < 0
  <2> DEFINE a == (-net) * above
             q == a \div both
  <2>1. a \in Nat /\ net * above = -a
    BY <1>4
  <2>2. share = -q
    <3>1. CASE a > 0
      <4>1. -a < 0 /\ -(-a) = a
        BY <2>1, <3>1
      <4> QED BY <1>1, <2>1, <4>1 DEF Quotient
    <3>2. CASE a = 0
      <4>1. 0 \div both = 0
        BY <1>1
      <4> HIDE DEF a
      <4> QED BY <1>1, <2>1, <3>2, <4>1 DEF Quotient
    <3> QED BY <2>1, <3>1, <3>2
  <2> HIDE DEF a
  <2>3. q \in Nat /\ q * both <= a /\ a < q * both + both
    BY <1>1, <2>1, DivisionIs
  <2> HIDE DEF q
  <2>4. q <= -net
    <3>1. SUFFICES ASSUME q >= -net + 1 PROVE FALSE
      BY <2>3
    <3>2. q * both >= (-net + 1) * both
      BY <1>1, <2>3, <3>1
    <3>3. (-net + 1) * both = (-net) * both + both
      BY <1>1
    <3>4. (-net) * above <= (-net) * both
      BY <1>1, <1>2, <1>4
    <3>5. q * both \in Int /\ (-net) * both \in Int
      BY <1>1, <2>3
    <3> QED BY <1>1, <2>1, <2>3, <3>2, <3>3, <3>4, <3>5 DEF a
  <2> QED BY <1>4, <2>2, <2>3, <2>4 DEF share
<1> QED BY <1>3, <1>4 DEF share

\* No range has grown the file by more lines than it has.
Slim(rs) == \A i \in DOMAIN rs : rs[i].shift <= rs[i].lines

\* The line x, or the end of the lines a hunk replaces that is nearest to it.
Within(h, x) == IF x < HunkTop(h) THEN HunkTop(h) ELSE IF x > HunkBottom(h) THEN HunkBottom(h) ELSE x

\* Such a line is one the hunk replaces, and they are in order.
LEMMA WithinIs ==
  ASSUME NEW h \in GoodHunk
  PROVE  /\ \A x \in Int : Within(h, x) \in Int /\ HunkTop(h) <= Within(h, x) /\ Within(h, x) <= HunkBottom(h)
         /\ \A x, y \in Int : x <= y => Within(h, x) <= Within(h, y)
<1>1. HunkTop(h) \in Nat /\ HunkBottom(h) \in Nat /\ HunkTop(h) <= HunkBottom(h)
  BY HunkSpan
<1> QED BY <1>1 DEF Within

\* The lines of the parts of a range.
LEMMA PieceLines ==
  ASSUME NEW r \in GoodRange, NEW h \in GoodHunk, NEW above, NEW below,
         IsAbove(above, r, HunkTop(h)), IsBelow(below, r, HunkBottom(h))
  PROVE  /\ LinesLeft(above) \in Nat /\ LinesLeft(below) \in Nat
         /\ above # <<>> /\ below # <<>> => LinesLeft(above) + LinesLeft(below) > 0
         /\ above # <<>> \/ below # <<>> =>
              r.lines - (LinesLeft(above) + LinesLeft(below))
                = Within(h, RangeBottom(r)) - Within(h, RangeTop(r))
         /\ above = <<>> /\ below = <<>> =>
              r.lines = Within(h, RangeBottom(r)) - Within(h, RangeTop(r))
<1> DEFINE it == HunkTop(h)
           ib == HunkBottom(h)
           top == RangeTop(r)
           bottom == RangeBottom(r)
<1>1. it \in Nat /\ ib \in Nat /\ it <= ib
  BY HunkSpan
<1>2. top \in Nat /\ bottom \in Nat /\ r.lines \in Nat /\ bottom = top + r.lines
  BY RangeSpan
<1>3. \/ above = <<>> /\ LinesLeft(above) = 0 /\ it <= top
      \/ /\ above # <<>> /\ top < it
         /\ LinesLeft(above) = (IF it < bottom THEN it ELSE bottom) - top
  <2>1. CASE above = <<>>
    BY <2>1 DEF IsAbove, LinesLeft
  <2>2. CASE above # <<>>
    <3>1. PICK a \in GoodRange : /\ above = <<a>> /\ top < it /\ RangeTop(a) = top
                                 /\ RangeBottom(a) = IF it < bottom THEN it ELSE bottom
      BY <2>2 DEF IsAbove
    <3>2. LinesLeft(above) = a.lines
      BY <3>1 DEF LinesLeft
    <3>3. RangeTop(a) \in Nat /\ RangeBottom(a) \in Nat /\ a.lines \in Nat /\ RangeBottom(a) = RangeTop(a) + a.lines
      BY RangeSpan
    <3> QED BY <1>1, <1>2, <2>2, <3>1, <3>2, <3>3
  <2> QED BY <2>1, <2>2
<1>4. \/ below = <<>> /\ LinesLeft(below) = 0 /\ bottom <= ib
      \/ /\ below # <<>> /\ ib < bottom
         /\ LinesLeft(below) = bottom - (IF ib > top THEN ib ELSE top)
  <2>1. CASE below = <<>>
    BY <2>1 DEF IsBelow, LinesLeft
  <2>2. CASE below # <<>>
    <3>1. PICK b \in GoodRange : /\ below = <<b>> /\ ib < bottom /\ RangeBottom(b) = bottom
                                 /\ RangeTop(b) = IF ib > top THEN ib ELSE top
      BY <2>2 DEF IsBelow
    <3>2. LinesLeft(below) = b.lines
      BY <3>1 DEF LinesLeft
    <3>3. RangeTop(b) \in Nat /\ RangeBottom(b) \in Nat /\ b.lines \in Nat /\ RangeBottom(b) = RangeTop(b) + b.lines
      BY RangeSpan
    <3> QED BY <1>1, <1>2, <2>2, <3>1, <3>2, <3>3
  <2> QED BY <2>1, <2>2
<1>5. /\ Within(h, bottom) = IF bottom < it THEN it ELSE IF bottom > ib THEN ib ELSE bottom
      /\ Within(h, top) = IF top < it THEN it ELSE IF top > ib THEN ib ELSE top
  BY DEF Within
<1> HIDE DEF it, ib, top, bottom
<1>6. LinesLeft(above) \in Nat /\ LinesLeft(below) \in Nat
  BY <1>1, <1>2, <1>3, <1>4
<1>7. above # <<>> /\ below # <<>> => LinesLeft(above) + LinesLeft(below) > 0
  BY <1>1, <1>2, <1>3, <1>4
<1>8. above # <<>> \/ below # <<>> =>
        r.lines - (LinesLeft(above) + LinesLeft(below)) = Within(h, bottom) - Within(h, top)
  <2> DEFINE a == LinesLeft(above)
             b == LinesLeft(below)
  <2>1. a \in Nat /\ b \in Nat
    BY <1>6
  <2> HIDE DEF a, b
  <2>2. CASE above # <<>>
    <3>1. top < it /\ a = (IF it < bottom THEN it ELSE bottom) - top
      BY <1>3, <2>2 DEF a
    <3>2. Within(h, top) = it
      BY <1>5, <3>1
    <3>3. CASE ib < bottom
      <4>1. b = bottom - ib
        BY <1>1, <1>2, <1>4, <3>1, <3>3 DEF b
      <4> QED BY <1>1, <1>2, <1>5, <2>1, <3>1, <3>2, <3>3, <4>1 DEF a, b
    <3>4. CASE ~(ib < bottom)
      <4>1. b = 0
        BY <1>4, <3>4 DEF b
      <4>2. Within(h, bottom) = IF bottom < it THEN it ELSE bottom
        BY <1>5, <3>4
      <4>3. CASE it < bottom
        <5>1. a = it - top /\ Within(h, bottom) = bottom
          BY <1>1, <1>2, <3>1, <4>2, <4>3
        <5>2. r.lines - (a + b) = Within(h, bottom) - Within(h, top)
          BY <1>1, <1>2, <3>2, <4>1, <5>1
        <5> QED BY <5>2 DEF a, b
      <4>4. CASE ~(it < bottom)
        <5>1. a = bottom - top /\ Within(h, bottom) = it
          BY <1>1, <1>2, <3>1, <4>2, <4>4
        <5>2. r.lines - (a + b) = Within(h, bottom) - Within(h, top)
          BY <1>1, <1>2, <3>2, <4>1, <5>1
        <5> QED BY <5>2 DEF a, b
      <4> QED BY <4>3, <4>4
    <3> QED BY <3>3, <3>4
  <2>3. CASE above = <<>> /\ below # <<>>
    <3>1. it <= top /\ a = 0 /\ ib < bottom /\ b = bottom - (IF ib > top THEN ib ELSE top)
      BY <1>3, <1>4, <2>3 DEF a, b
    <3>2. Within(h, bottom) = ib /\ Within(h, top) = IF top > ib THEN ib ELSE top
      BY <1>1, <1>2, <1>5, <3>1
    <3>3. r.lines - (a + b) = Within(h, bottom) - Within(h, top)
      <4>0. a = 0 /\ Within(h, bottom) = ib
        BY <3>1, <3>2
      <4>1. CASE ib > top
        <5>1. b = bottom - ib /\ Within(h, top) = top
          BY <1>1, <1>2, <3>1, <3>2, <4>1
        <5> QED BY <1>1, <1>2, <4>0, <4>1, <5>1
      <4>2. CASE ~(ib > top)
        <5>1. b = bottom - top /\ Within(h, top) = ib
          BY <1>1, <1>2, <3>1, <3>2, <4>2
        <5> QED BY <1>1, <1>2, <4>0, <4>2, <5>1
      <4> QED BY <4>1, <4>2
    <3> QED BY <3>3 DEF a, b
  <2> QED BY <2>2, <2>3
<1>9. above = <<>> /\ below = <<>> => r.lines = Within(h, bottom) - Within(h, top)
  BY <1>1, <1>2, <1>3, <1>4, <1>5
<1> QED BY <1>6, <1>7, <1>8, <1>9 DEF bottom, top

\* A part with a shift that its lines allow.
LEMMA SlimPiece ==
  ASSUME NEW a \in GoodRange, NEW shift \in Int, shift <= a.lines
  PROVE  Slim(WithShift(<<a>>, shift))
<1>1. PICK b \in GoodRange : /\ WithShift(<<a>>, shift) = <<b>>
                             /\ b.shift = shift /\ b.commit = a.commit
                             /\ RangeTop(b) = RangeTop(a) /\ RangeBottom(b) = RangeBottom(a)
  BY ShiftGiven
<1>2. b.lines = a.lines
  BY <1>1, RangeSpan
<1> QED BY <1>1, <1>2 DEF Slim

\* What `receive` leaves of such a range is such ranges, and the hunk takes over no more
\* than it replaces of the range's lines.
LEMMA ReceivedSlim ==
  ASSUME NEW r \in GoodRange, NEW h \in GoodHunk, r.shift <= r.lines
  PROVE  /\ Slim(Receive(r, h).above) /\ Slim(Receive(r, h).below)
         /\ Receive(r, h).change <= Within(h, RangeBottom(r)) - Within(h, RangeTop(r))
<1> DEFINE above == LeftAbove(r, h)
           below == LeftBelow(r, h)
           a == LinesLeft(above)
           b == LinesLeft(below)
           deduct == r.lines - (a + b)
           net == r.shift - deduct
           share == IF below = <<>> THEN net ELSE ShareAbove(net, a, b)
           rest == ShiftBelow(net, above, share)
           got == Receive(r, h)
           taken == Within(h, RangeBottom(r)) - Within(h, RangeTop(r))
<1>1. /\ got.above = WithShift(above, share)
      /\ got.below = WithShift(below, rest)
      /\ got.change = IF above = <<>> /\ below = <<>> THEN r.shift ELSE deduct
  BY DEF Receive, DivideShift
<1>2. IsAbove(above, r, HunkTop(h)) /\ IsBelow(below, r, HunkBottom(h))
  BY Pieces DEF HunkTop, HunkBottom
<1>3. taken \in Int
  BY RangeSpan, WithinIs
<1> HIDE DEF above, below, got, taken
<1>4. /\ a \in Nat /\ b \in Nat
      /\ above # <<>> /\ below # <<>> => a + b > 0
      /\ above # <<>> \/ below # <<>> => deduct = taken
      /\ above = <<>> /\ below = <<>> => r.lines = taken
  BY <1>2, PieceLines DEF taken
<1>5. r.lines \in Nat /\ r.shift \in Int
  BY DEF GoodRange, HunkRange
<1>6. got.change <= taken
  BY <1>1, <1>4, <1>5, <1>3
<1>7. net \in Int /\ net <= a + b
  BY <1>4, <1>5
<1>8. above = <<>> => a = 0
  BY DEF LinesLeft
<1>9. below = <<>> => b = 0
  BY DEF LinesLeft
<1> HIDE DEF a, b, net
<1>10. above # <<>> => share \in Int /\ share <= a
  <2>1. CASE below = <<>>
    BY <1>4, <1>7, <1>9, <2>1
  <2>2. CASE below # <<>> /\ above # <<>>
    BY <1>4, <1>7, <2>2, ShareFits
  <2> QED BY <2>1, <2>2
<1>11. below # <<>> => rest \in Int /\ rest <= b
  <2>1. CASE above = <<>>
    BY <1>4, <1>7, <1>8, <2>1 DEF ShiftBelow
  <2>2. CASE below # <<>> /\ above # <<>>
    <3>1. rest = net - share /\ share = ShareAbove(net, a, b)
      BY <2>2 DEF ShiftBelow
    <3>2. ShareAbove(net, a, b) \in Int /\ net - ShareAbove(net, a, b) <= b
      BY <1>4, <1>7, <2>2, ShareFits
    <3> HIDE DEF share, rest
    <3> QED BY <1>7, <3>1, <3>2
  <2> QED BY <2>1, <2>2
<1> HIDE DEF share, rest
<1>12. Slim(got.above)
  <2>1. CASE above = <<>>
    BY <1>1, <2>1 DEF WithShift, Slim
  <2>2. CASE above # <<>>
    <3>1. PICK x \in GoodRange : above = <<x>>
      BY <1>2, <2>2 DEF IsAbove
    <3>2. a = x.lines
      BY <3>1 DEF a, LinesLeft
    <3> QED BY <1>1, <1>10, <2>2, <3>1, <3>2, SlimPiece
  <2> QED BY <2>1, <2>2
<1>13. Slim(got.below)
  <2>1. CASE below = <<>>
    BY <1>1, <2>1 DEF WithShift, Slim
  <2>2. CASE below # <<>>
    <3>1. PICK x \in GoodRange : below = <<x>>
      BY <1>2, <2>2 DEF IsBelow
    <3>2. b = x.lines
      BY <3>1 DEF b, LinesLeft
    <3> QED BY <1>1, <1>11, <2>2, <3>1, <3>2, SlimPiece
  <2> QED BY <2>1, <2>2
<1> QED BY <1>6, <1>12, <1>13 DEF got, taken

\* Such ranges one after the other, moved, and the last of them.
LEMMA SlimRanges ==
  ASSUME NEW a \in Seq(GoodRange), Slim(a)
  PROVE  /\ \A b \in Seq(GoodRange) : Slim(b) => Slim(a \o b)
         /\ \A shift \in Int : Slim(Moved(a, shift))
         /\ \A k \in 0 .. Len(a) : Slim(SubSeq(a, k + 1, Len(a)))
<1>1. Len(a) \in Nat /\ DOMAIN a = 1 .. Len(a)
  OBVIOUS
<1>2. ASSUME NEW b \in Seq(GoodRange), Slim(b) PROVE Slim(a \o b)
  <2>1. /\ a \o b \in Seq(GoodRange) /\ Len(a \o b) = Len(a) + Len(b) /\ Len(b) \in Nat /\ DOMAIN b = 1 .. Len(b)
        /\ DOMAIN (a \o b) = 1 .. Len(a) + Len(b)
        /\ \A i \in 1 .. Len(a) + Len(b) : (a \o b)[i] = IF i <= Len(a) THEN a[i] ELSE b[i - Len(a)]
    BY ConcatProperties
  <2>2. ASSUME NEW i \in 1 .. Len(a) + Len(b) PROVE (a \o b)[i].shift <= (a \o b)[i].lines
    <3>1. CASE i <= Len(a)
      <4>1. i \in DOMAIN a /\ (a \o b)[i] = a[i]
        BY <1>1, <2>1, <3>1
      <4> QED BY <4>1 DEF Slim
    <3>2. CASE ~(i <= Len(a))
      <4>1. i - Len(a) \in DOMAIN b /\ (a \o b)[i] = b[i - Len(a)]
        BY <1>1, <2>1, <3>2
      <4> QED BY <1>2, <4>1 DEF Slim
    <3> QED BY <3>1, <3>2
  <2> QED BY <2>1, <2>2 DEF Slim
<1>3. ASSUME NEW shift \in Int PROVE Slim(Moved(a, shift))
  <2>1. ASSUME NEW i \in DOMAIN a PROVE Moved(a, shift)[i].shift <= Moved(a, shift)[i].lines
    <3>1. Moved(a, shift)[i] = [a[i] EXCEPT !.start = @ + shift]
      BY DEF Moved, MoveBy
    <3>2. a[i] \in HunkRange
      BY DEF GoodRange
    <3>3. Moved(a, shift)[i].shift = a[i].shift /\ Moved(a, shift)[i].lines = a[i].lines
      BY <3>1, <3>2 DEF HunkRange
    <3> QED BY <3>3 DEF Slim
  <2> QED BY <2>1 DEF Slim, Moved
<1>4. ASSUME NEW k \in 0 .. Len(a) PROVE Slim(SubSeq(a, k + 1, Len(a)))
  <2> DEFINE t == SubSeq(a, k + 1, Len(a))
  <2>1. /\ t \in Seq(GoodRange) /\ Len(t) = Len(a) - k /\ DOMAIN t = 1 .. Len(a) - k
        /\ \A i \in 1 .. Len(a) - k : t[i] = a[i + k]
    BY <1>1
  <2> HIDE DEF t
  <2>2. ASSUME NEW i \in 1 .. Len(a) - k PROVE t[i].shift <= t[i].lines
    <3>1. i + k \in DOMAIN a
      BY <1>1
    <3> QED BY <2>1, <3>1 DEF Slim
  <2> QED BY <2>1, <2>2 DEF Slim, t
<1> QED BY <1>2, <1>3, <1>4

\* What the hunk has taken over of the shifts of the first i ranges: no more than it
\* replaces of their lines.
LEMMA SlimWalk ==
  ASSUME NEW rs, RangesOK(rs), Slim(rs), NEW h \in GoodHunk
  PROVE  \A i \in 0 .. Len(rs) :
            /\ Slim(ReceiveWalk(rs, h)[i].above)
            /\ ReceiveWalk(rs, h)[i].change <= HunkBottom(h) - HunkTop(h)
<1> DEFINE walk == ReceiveWalk(rs, h)
           S == {i \in 0 .. Len(rs) : /\ Slim(walk[i].above)
                                      /\ walk[i].change <= HunkBottom(h) - HunkTop(h)
                                      /\ i = 0 => walk[i].change = 0
                                      /\ i # 0 => walk[i].change <= Within(h, RangeBottom(rs[i])) - HunkTop(h)}
<1>1. /\ rs \in Seq(GoodRange) /\ Len(rs) \in Nat /\ DOMAIN rs = 1 .. Len(rs)
      /\ \A i, j \in DOMAIN rs : i < j => RangeBottom(rs[i]) <= RangeTop(rs[j])
      /\ \A i \in DOMAIN rs : RangeTop(rs[i]) \in Nat /\ RangeBottom(rs[i]) \in Nat
  BY RangeSpan DEF RangesOK
<1>2. HunkTop(h) \in Nat /\ HunkBottom(h) \in Nat /\ HunkTop(h) <= HunkBottom(h)
  BY HunkSpan
<1>3. 0 \in S
  <2>1. walk[0].above = <<>> /\ walk[0].change = 0
    BY <1>1, ReceiveWalkUnfolds DEF NothingReceived
  <2>2. Slim(<<>>)
    BY DEF Slim
  <2> HIDE DEF walk
  <2> QED BY <1>1, <1>2, <2>1, <2>2
<1>4. ASSUME NEW i \in 1 .. Len(rs), i - 1 \in S PROVE i \in S
  <2> DEFINE got == Receive(rs[i], h)
             before == walk[i - 1].change
             from == Within(h, RangeTop(rs[i]))
             to == Within(h, RangeBottom(rs[i]))
  <2>1. /\ walk[i].above = walk[i - 1].above \o got.above
        /\ walk[i].change = before + got.change
    <3>1. walk[i] = ReceiveStep(rs[i], h, walk[i - 1])
      BY <1>1, ReceiveWalkUnfolds
    <3>2. walk[i] = [above |-> walk[i - 1].above \o got.above, change |-> before + got.change]
      BY <3>1 DEF ReceiveStep
    <3> DEFINE w == walk[i]
               above == walk[i - 1].above \o got.above
               change == before + got.change
    <3>3. w = [above |-> above, change |-> change]
      BY <3>2
    <3> HIDE DEF w, above, change
    <3>4. w.above = above /\ w.change = change
      BY <3>3
    <3> QED BY <3>4 DEF w, above, change
  <2>2. WalkOK(rs, h, i - 1, walk[i - 1])
    BY <1>1, ReceiveWalkIs
  <2>3. walk[i - 1].above \in Seq(GoodRange) /\ before \in Int /\ Slim(walk[i - 1].above)
    BY <1>4, <2>2 DEF WalkOK, RangesOK
  <2>4. rs[i] \in GoodRange /\ rs[i].shift <= rs[i].lines
    BY <1>1 DEF Slim
  <2>5. Slim(got.above) /\ got.change <= to - from /\ got.above \in Seq(GoodRange) /\ got.change \in Int
    BY <2>4, ReceivedSlim, PieceTypes, Received
  <2>6. Slim(walk[i].above)
    BY <2>1, <2>3, <2>5, SlimRanges
  <2>7. /\ from \in Int /\ to \in Int /\ HunkTop(h) <= from /\ to <= HunkBottom(h)
    <3>1. RangeTop(rs[i]) \in Int /\ RangeBottom(rs[i]) \in Int
      BY <1>1
    <3>2. \A x \in Int : Within(h, x) \in Int /\ HunkTop(h) <= Within(h, x) /\ Within(h, x) <= HunkBottom(h)
      BY WithinIs
    <3> QED BY <3>1, <3>2
  <2>8. before <= from - HunkTop(h)
    <3>1. CASE i = 1
      <4>1. before = 0
        BY <1>4, <3>1
      <4> HIDE DEF before, from
      <4> QED BY <1>2, <2>7, <4>1
    <3>2. CASE i # 1
      <4>1. i - 1 # 0 /\ i - 1 \in 1 .. Len(rs) /\ i - 1 < i
        BY <1>1, <3>2
      <4> DEFINE last == Within(h, RangeBottom(rs[i - 1]))
      <4>2. before <= last - HunkTop(h)
        BY <1>4, <4>1
      <4>3. last <= from /\ last \in Int
        <5>1. RangeBottom(rs[i - 1]) \in Int /\ RangeTop(rs[i]) \in Int
          BY <1>1, <4>1
        <5>2. RangeBottom(rs[i - 1]) <= RangeTop(rs[i])
          BY <1>1, <4>1
        <5> QED BY <5>1, <5>2, WithinIs
      <4> HIDE DEF last, before, from
      <4> QED BY <1>2, <2>3, <2>7, <4>2, <4>3
    <3> QED BY <3>1, <3>2
  <2> HIDE DEF before, from, to, got, walk
  <2>9. walk[i].change <= to - HunkTop(h) /\ walk[i].change <= HunkBottom(h) - HunkTop(h)
    BY <1>2, <2>1, <2>3, <2>5, <2>7, <2>8, SMTT(30)
  <2> QED BY <2>6, <2>9 DEF to
<1> HIDE DEF S
<1>5. 0 .. Len(rs) \subseteq S
  BY <1>1, <1>3, <1>4, BoundedInduction
<1> QED BY <1>5 DEF S, walk

\* What the iterator still holds.
LEMMA SlimRest ==
  ASSUME NEW rs, RangesOK(rs), Slim(rs), NEW h \in GoodHunk
  PROVE  Slim(RestAfter(rs, h)) /\ RestAfter(rs, h) \in Seq(GoodRange)
<1> DEFINE last == Passed(rs, h)
           tail == SubSeq(rs, last + 1, Len(rs))
           below == IF last = 0 THEN <<>> ELSE Receive(rs[last], h).below
<1>1. rs \in Seq(GoodRange) /\ Len(rs) \in Nat /\ DOMAIN rs = 1 .. Len(rs)
  BY DEF RangesOK
<1>2. last \in 0 .. Len(rs)
  BY PassedIs
<1>3. Slim(tail) /\ tail \in Seq(GoodRange)
  BY <1>1, <1>2, SlimRanges
<1>4. Slim(below) /\ below \in Seq(GoodRange)
  <2>1. CASE last = 0
    BY <2>1 DEF Slim
  <2>2. CASE last # 0
    <3>1. last \in DOMAIN rs /\ rs[last] \in GoodRange /\ below = Receive(rs[last], h).below
      BY <1>1, <1>2, <2>2
    <3>2. rs[last].shift <= rs[last].lines
      BY <3>1 DEF Slim
    <3> HIDE DEF below
    <3> QED BY <3>1, <3>2, ReceivedSlim, PieceTypes
  <2> QED BY <2>1, <2>2
<1>5. RestAfter(rs, h) = below \o tail
  BY DEF RestAfter
<1> HIDE DEF below, tail
<1> QED BY <1>3, <1>4, <1>5, SlimRanges

\* One hunk: what it brings grows the file by its own lines at most.
LEMMA SlimHunk ==
  ASSUME NEW acc, acc.out \in Seq(GoodRange), RangesOK(acc.rest), acc.shift \in Int,
         Slim(acc.out), Slim(acc.rest), NEW b \in Int, b + acc.shift >= 0 \/ acc.shift = 0,
         Past(acc.rest, b), NEW h \in GoodHunk, b < HunkTop(h), NEW kind \in ChangeKind, NEW c \in Commit
  PROVE  Slim(AddHunk(acc, h, kind, c).out) /\ Slim(AddHunk(acc, h, kind, c).rest)
<1> DEFINE got == ReceiveWalk(acc.rest, h)[Passed(acc.rest, h)]
           moved == Moved(got.above, acc.shift)
           own == [kind |-> kind, commit |-> c, start |-> h.newStart, lines |-> h.newLines,
                   shift |-> NetLines(h) + got.change]
           now == AddHunk(acc, h, kind, c)
<1>1. now.out = Append(acc.out \o moved, own) /\ now.rest = RestAfter(acc.rest, h)
  BY DEF AddHunk, RestAfter
<1>2. WalkOK(acc.rest, h, Passed(acc.rest, h), got)
  BY PassedIs, ReceiveWalkIs
<1>3. Passed(acc.rest, h) \in 0 .. Len(acc.rest)
  BY PassedIs
<1>4. Slim(got.above) /\ got.change <= HunkBottom(h) - HunkTop(h)
  BY <1>3, SlimWalk
<1> HIDE DEF got, now
<1>5. RangesOK(got.above) /\ got.change \in Int /\ Past(got.above, b) /\ got.above \in Seq(GoodRange)
  BY <1>2 DEF WalkOK, RangesOK
<1>6. moved \in Seq(GoodRange) /\ Slim(moved)
  BY <1>4, <1>5, MovedRanges, SlimRanges DEF RangesOK
<1>7. acc.out \o moved \in Seq(GoodRange) /\ Slim(acc.out \o moved)
  BY <1>6, SlimRanges
<1>8. own \in GoodRange /\ Slim(<<own>>)
  <2>1. /\ h.newStart \in Nat /\ h.newLines \in Nat /\ h.oldLines \in Nat /\ h.oldStart \in Nat
        /\ SpanOK(h.newStart, h.newLines) /\ SpanOK(h.oldStart, h.oldLines)
    BY DEF GoodHunk, Hunk
  <2>2. own \in GoodRange
    BY <1>5, <2>1 DEF GoodRange, HunkRange, NetLines
  <2>3. HunkBottom(h) = HunkTop(h) + h.oldLines /\ HunkTop(h) \in Nat
    BY <2>1, SpanTop DEF HunkTop, HunkBottom
  <2>4. NetLines(h) = h.newLines - h.oldLines
    BY DEF NetLines
  <2>5. own.shift <= own.lines
    BY <1>4, <1>5, <2>1, <2>3, <2>4
  <2> HIDE DEF own
  <2> QED BY <2>2, <2>5 DEF Slim
<1> HIDE DEF own, moved
<1>9. now.out = (acc.out \o moved) \o <<own>>
  BY <1>1, <1>7, <1>8, AppendIsConcat
<1>10. Slim(now.out)
  <2>1. <<own>> \in Seq(GoodRange)
    BY <1>8
  <2> QED BY <1>7, <1>8, <1>9, <2>1, SlimRanges
<1> QED BY <1>1, <1>10, SlimRest DEF now

\* A diff, by induction over its hunks.
LEMMA SlimAdd ==
  ASSUME NEW places, NEW m, FileOf(places, m), NEW edits, EditsOK(edits, m), HeadersAgree(edits),
         NEW rs, RangesOK(rs), Matches(rs, places, m), Slim(rs), NEW kind \in ChangeKind, NEW c \in Commit
  PROVE  Slim(Add(rs, kind, c, Diff(edits)))
<1> DEFINE N == Len(edits)
           diff == Diff(edits)
           now == PatchWalk(places, edits, c)
           walk == AddWalk(rs, kind, c, diff)
           S == {k \in 0 .. N : Slim(walk[k].out) /\ Slim(walk[k].rest)}
<1>1. N \in Nat /\ edits \in Seq(Edits) /\ Len(diff) = N
  <2>1. edits \in Seq(Edits) /\ DOMAIN edits = 1 .. Len(edits) /\ Len(edits) \in Nat
    BY DEF EditsOK
  <2>2. DOMAIN diff = 1 .. Len(edits)
    BY <2>1 DEF Diff
  <2> QED BY <2>1, <2>2
<1>2. /\ walk[0] = Start(rs)
      /\ \A k \in 1 .. N : walk[k] = AddHunk(walk[k - 1], diff[k], kind, c)
      /\ \A k \in 0 .. N : AddOK(places, m, edits, k, now[k], walk[k])
  BY AddWalkIs
<1>3. \A k \in 0 .. N : PatchOK(places, m, edits, k, now[k])
  BY PatchWalkIs
<1>4. 0 \in S
  <2>1. walk[0].out = <<>> /\ walk[0].rest = rs
    BY <1>2 DEF Start
  <2> HIDE DEF walk
  <2> QED BY <1>1, <2>1 DEF Slim
<1>5. ASSUME NEW k \in 1 .. N, k - 1 \in S PROVE k \in S
  <2> DEFINE h == diff[k]
             acc == walk[k - 1]
             b == Reached(edits, k - 1)
             s == Shifts(edits)[k - 1]
  <2>1. k - 1 \in 0 .. N /\ k \in 0 .. N
    BY <1>1
  <2>2. PatchOK(places, m, edits, k - 1, now[k - 1]) /\ AddOK(places, m, edits, k - 1, now[k - 1], acc)
    BY <1>2, <1>3, <2>1
  <2>3. /\ acc.shift = s /\ RangesOK(acc.out) /\ RangesOK(acc.rest) /\ Past(acc.rest, b)
        /\ b + s >= 0 \/ s = 0
    BY <2>2 DEF AddOK, PatchOK
  <2>4. /\ edits[k].top + s \in Nat /\ s \in Int /\ b \in Int /\ b < edits[k].top
    BY <2>2, EditHere
  <2>5. h \in GoodHunk /\ HunkTop(h) = edits[k].top
    BY <1>1, <2>4, DiffIs
  <2>6. walk[k] = AddHunk(acc, h, kind, c)
    BY <1>2
  <2>7. Slim(acc.out) /\ Slim(acc.rest) /\ acc.out \in Seq(GoodRange)
    BY <1>5, <2>3 DEF RangesOK
  <2> HIDE DEF acc, walk, h, b, s
  <2>8. Slim(walk[k].out) /\ Slim(walk[k].rest)
    BY <2>3, <2>4, <2>5, <2>6, <2>7, SlimHunk
  <2> QED BY <2>1, <2>8
<1> HIDE DEF S
<1>6. 0 .. N \subseteq S
  BY <1>1, <1>4, <1>5, BoundedInduction
<1>7. N \in 0 .. N
  BY <1>1
<1> DEFINE end == walk[N]
           r == Reached(edits, N)
           s == Shifts(edits)[N]
<1>8. Slim(end.out) /\ Slim(end.rest)
  BY <1>6, <1>7 DEF S
<1>9. AddOK(places, m, edits, N, now[N], end) /\ PatchOK(places, m, edits, N, now[N])
  BY <1>2, <1>3, <1>7
<1>10. /\ end.shift = s /\ RangesOK(end.out) /\ RangesOK(end.rest) /\ Past(end.rest, r)
       /\ r + s >= 0 \/ s = 0
  BY <1>9 DEF AddOK, PatchOK
<1>11. r \in Int /\ s \in Int
  BY <1>1, <1>7, ReachedIs, ShiftsUnfold DEF FileOf
<1>12. Add(rs, kind, c, diff) = end.out \o Moved(end.rest, end.shift)
  BY <1>1 DEF Add
<1> HIDE DEF end, walk, diff, r, s
<1>13. Moved(end.rest, s) \in Seq(GoodRange)
  BY <1>10, <1>11, MovedRanges DEF RangesOK
<1>14. Slim(Moved(end.rest, s)) /\ end.out \in Seq(GoodRange)
  BY <1>8, <1>10, <1>11, SlimRanges DEF RangesOK
<1> QED BY <1>8, <1>10, <1>12, <1>13, <1>14, SlimRanges DEF diff

-----------------------------------------------------------------------------
(* The lines of the merge base in a file *)

\* Where no commit changed it a file is as in the merge base: gaps are not its lines, and
\* its lines are in its order.
KeepsOrder(places, m) ==
  /\ \A n \in 0 .. m : GapAfter(places, n).base = 0
  /\ \A i, j \in Int : i < j /\ Origin(places, m, i) # 0 /\ Origin(places, m, j) # 0
                         => Origin(places, m, i) < Origin(places, m, j)

\* An edit keeps that.
LEMMA PatchedKeepsOrder ==
  ASSUME NEW places, NEW m, FileOf(places, m), KeepsOrder(places, m),
         NEW e \in Edits, e.top + e.old <= m, NEW c \in Commit
  PROVE  KeepsOrder(Patched(places, e, c), m - e.old + e.new)
<1> DEFINE top == e.top
           old == e.old
           new == e.new
           next == Patched(places, e, c)
           mm == m - old + new
           was(n) == Origin(places, m, n)
           is(n) == Origin(next, mm, n)
<1>1. m \in Nat /\ top \in Nat /\ old \in Nat /\ new \in Nat /\ top + old <= m
  BY DEF FileOf, Edits
<1>2. PlacesPatched(next, places, m, top, old, new, c)
  BY PatchedPlaces
<1> HIDE DEF top, old, new, next
<1>3. OriginsPatched(next, places, m, top, old, new)
  BY <1>1, <1>2, OriginsPatchedIs
<1>4. ASSUME NEW n \in 0 .. mm PROVE GapAfter(next, n).base = 0
  <2>1. n \in 0 .. m - old + new
    BY <1>1
  <2>2. /\ n < top => GapAfter(next, n) = GapAfter(places, n)
        /\ top <= n /\ n <= top + new => GapAfter(next, n).base = 0
        /\ n > top + new => GapAfter(next, n) = GapAfter(places, n - new + old)
    BY <1>2, <2>1 DEF PlacesPatched
  <2>3. n < top => n \in 0 .. m
    BY <1>1
  <2>4. n > top + new => n - new + old \in 0 .. m
    BY <1>1
  <2>5. n < top \/ (top <= n /\ n <= top + new) \/ n > top + new
    BY <1>1
  <2> QED BY <2>2, <2>3, <2>4, <2>5 DEF KeepsOrder
<1>5. ASSUME NEW n \in Int, is(n) # 0
      PROVE  \/ n <= top /\ is(n) = was(n)
             \/ n > top + new /\ is(n) = was(n - new + old)
  BY <1>1, <1>3, <1>5 DEF OriginsPatched
<1>6. ASSUME NEW i \in Int, NEW j \in Int, i < j, is(i) # 0, is(j) # 0 PROVE is(i) < is(j)
  <2>1. \A x, y \in Int : x < y /\ was(x) # 0 /\ was(y) # 0 => was(x) < was(y)
    BY DEF KeepsOrder
  <2> HIDE DEF is, was
  <2>2. (i <= top /\ is(i) = was(i)) \/ (i > top + new /\ is(i) = was(i - new + old))
    BY <1>5, <1>6
  <2>3. (j <= top /\ is(j) = was(j)) \/ (j > top + new /\ is(j) = was(j - new + old))
    BY <1>5, <1>6
  <2>4. i - new + old \in Int /\ j - new + old \in Int
    BY <1>1
  <2>5. CASE i <= top /\ is(i) = was(i)
    <3>1. CASE j <= top /\ is(j) = was(j)
      BY <1>6, <2>1, <2>5, <3>1
    <3>2. CASE j > top + new /\ is(j) = was(j - new + old)
      <4>1. i < j - new + old
        BY <1>1, <2>5, <3>2
      <4> QED BY <1>6, <2>1, <2>4, <2>5, <3>2, <4>1
    <3> QED BY <2>3, <3>1, <3>2
  <2>6. CASE i > top + new /\ is(i) = was(i - new + old)
    <3>1. j > top + new /\ is(j) = was(j - new + old)
      BY <1>1, <1>6, <2>3, <2>6
    <3>2. i - new + old < j - new + old
      BY <1>1, <1>6
    <3> QED BY <1>6, <2>1, <2>4, <2>6, <3>1, <3>2
  <2> QED BY <2>2, <2>5, <2>6
<1>7. KeepsOrder(next, mm)
  BY <1>4, <1>6 DEF KeepsOrder
<1> QED BY <1>7 DEF next, mm, top, old, new

\* So does a diff, by induction over its hunks.
LEMMA DiffKeepsOrder ==
  ASSUME NEW places, NEW m, FileOf(places, m), KeepsOrder(places, m),
         NEW edits, EditsOK(edits, m), NEW c \in Commit
  PROVE  KeepsOrder(PatchWalk(places, edits, c)[Len(edits)], m + Shifts(edits)[Len(edits)])
<1> DEFINE N == Len(edits)
           now == PatchWalk(places, edits, c)
           count(k) == m + Shifts(edits)[k]
           S == {k \in 0 .. N : KeepsOrder(now[k], count(k))}
<1>1. N \in Nat /\ edits \in Seq(Edits) /\ m \in Nat
  BY DEF EditsOK, FileOf
<1>2. /\ now[0] = places
      /\ \A k \in 1 .. N : now[k] = PatchStep(now[k - 1], edits, k, c)
      /\ \A k \in 0 .. N : PatchOK(places, m, edits, k, now[k])
  BY PatchWalkIs
<1>3. 0 \in S
  <2>1. count(0) = m
    BY <1>1, ShiftsUnfold
  <2> QED BY <1>1, <1>2, <2>1
<1>4. ASSUME NEW k \in 1 .. N, k - 1 \in S PROVE k \in S
  <2> DEFINE here == Here(edits, k)
             was == now[k - 1]
  <2>1. k - 1 \in 0 .. N /\ k \in 0 .. N
    BY <1>1
  <2>2. PatchOK(places, m, edits, k - 1, was)
    BY <1>2, <2>1
  <2>3. FileOf(was, count(k - 1)) /\ KeepsOrder(was, count(k - 1))
    BY <1>4, <2>2 DEF PatchOK
  <2>4. /\ here \in Edits /\ here.top = edits[k].top + Shifts(edits)[k - 1]
        /\ here.old = edits[k].old /\ here.new = edits[k].new
        /\ edits[k].top + edits[k].old <= m /\ Shifts(edits)[k - 1] \in Int
        /\ Shifts(edits)[k] = Shifts(edits)[k - 1] + edits[k].new - edits[k].old
        /\ edits[k].top \in Nat /\ edits[k].old \in Nat /\ edits[k].new \in Nat
    BY <2>2, EditHere
  <2>5. here.top + here.old <= count(k - 1) /\ count(k) = count(k - 1) - here.old + here.new
    BY <1>1, <2>4, SMTT(30)
  <2>6. now[k] = Patched(was, here, c)
    BY <1>2 DEF PatchStep
  <2> HIDE DEF here, was, count, now
  <2>7. KeepsOrder(now[k], count(k))
    BY <2>3, <2>4, <2>5, <2>6, PatchedKeepsOrder
  <2> QED BY <2>1, <2>7
<1> HIDE DEF S
<1>5. 0 .. N \subseteq S
  BY <1>1, <1>3, <1>4, BoundedInduction
<1>6. N \in S
  BY <1>1, <1>5
<1> QED BY <1>6 DEF S

\* The first line of a file that is line k of the merge base or one below it, or the end of
\* the file; the top of the file is line zero of both.
Where(places, m, k) ==
  IF k = 0 THEN 0
  ELSE CHOOSE n \in 1 .. m + 1 : k <= Origin(places, m, n) /\ \A i \in 1 .. n - 1 : Origin(places, m, i) < k

\* Line k of the merge base is still there.
Stays(places, m, k) == Origin(places, m, Where(places, m, k)) = k

\* Numbers of lines of the merge base.
LEMMA OriginRange ==
  ASSUME NEW places, NEW m, FileOf(places, m), NEW n \in Int
  PROVE  /\ Origin(places, m, n) \in 0 .. BaseLines + 1
         /\ n < m + 1 => Origin(places, m, n) \in 0 .. BaseLines
         /\ n <= 0 => Origin(places, m, n) = 0
         /\ Origin(places, m, m + 1) = BaseLines + 1
<1>1. m \in Nat /\ BaseLines \in Nat /\ places \in Seq(GoodPlace) /\ Len(places) = 2 * m + 1
  BY HunkRangesAssumption DEF FileOf
<1>2. Origin(places, m, m + 1) = BaseLines + 1
  BY DEF Origin
<1>3. CASE n = m + 1
  <2>1. ~(n < m + 1) /\ ~(n <= 0)
    BY <1>1, <1>3
  <2> QED BY <1>1, <1>2, <1>3, <2>1
<1>4. CASE 1 <= n /\ n <= m
  <2> DEFINE p == LineAt(places, n)
  <2>1. 2 * n \in 1 .. Len(places) /\ n # m + 1 /\ ~(n <= 0)
    BY <1>1, <1>4
  <2>2. p \in GoodPlace
    BY <1>1, <2>1, ElementOfSeq DEF LineAt
  <2>3. Origin(places, m, n) = p.base
    BY <1>4, <2>1 DEF Origin
  <2>4. p.base \in 0 .. BaseLines
    BY <2>2 DEF GoodPlace, Place
  <2> HIDE DEF p
  <2> QED BY <1>1, <1>2, <2>1, <2>3, <2>4
<1>5. CASE n # m + 1 /\ ~(1 <= n /\ n <= m)
  <2>1. Origin(places, m, n) = 0
    BY <1>5 DEF Origin
  <2> QED BY <1>1, <1>2, <1>5, <2>1
<1> QED BY <1>3, <1>4, <1>5

\* What Where says.
LEMMA WhereIs ==
  ASSUME NEW places, NEW m, FileOf(places, m), NEW k \in 1 .. BaseLines + 1
  PROVE  /\ Where(places, m, k) \in 1 .. m + 1
         /\ k <= Origin(places, m, Where(places, m, k))
         /\ \A i \in Int : i < Where(places, m, k) => Origin(places, m, i) < k
<1> DEFINE o(n) == Origin(places, m, n)
           T == {n \in 1 .. m + 1 : k <= o(n)}
           w == Where(places, m, k)
<1>1. m \in Nat /\ BaseLines \in Nat
  BY HunkRangesAssumption DEF FileOf
<1>2. \A n \in Int : o(n) \in Int /\ (n <= 0 => o(n) = 0)
  BY OriginRange
<1>3. o(m + 1) = BaseLines + 1
  BY <1>1, OriginRange
<1> HIDE DEF o
<1>4. m + 1 \in T /\ T \subseteq Nat
  BY <1>1, <1>3
<1>5. PICK x \in T : \A y \in T : x <= y
  BY <1>4, LeastNatural
<1>6. \A i \in 1 .. x - 1 : o(i) < k
  <2> SUFFICES ASSUME NEW i \in 1 .. x - 1, ~(o(i) < k) PROVE FALSE
    OBVIOUS
  <2>1. i \in 1 .. m + 1 /\ i < x /\ k <= o(i)
    BY <1>1, <1>2, <1>4
  <2>2. i \in T
    BY <2>1
  <2> HIDE DEF T
  <2> QED BY <1>4, <1>5, <2>1, <2>2
<1>7. w \in 1 .. m + 1 /\ k <= o(w) /\ \A i \in 1 .. w - 1 : o(i) < k
  <2>1. \E n \in 1 .. m + 1 : k <= o(n) /\ \A i \in 1 .. n - 1 : o(i) < k
    BY <1>5, <1>6
  <2>2. w = CHOOSE n \in 1 .. m + 1 : k <= o(n) /\ \A i \in 1 .. n - 1 : o(i) < k
    BY DEF Where, o
  <2> HIDE DEF w
  <2> QED BY <2>1, <2>2
<1> HIDE DEF w
<1>8. ASSUME NEW i \in Int, i < w PROVE o(i) < k
  <2>1. CASE i <= 0
    BY <1>2, <2>1
  <2>2. CASE ~(i <= 0)
    <3>1. i \in 1 .. w - 1
      BY <1>7, <1>8, <2>2
    <3> QED BY <1>7, <3>1
  <2> QED BY <2>1, <2>2
<1> QED BY <1>7, <1>8 DEF w, o

\* What lies between a line of the merge base that is still there and the next one.
LEMMA WhereNext ==
  ASSUME NEW places, NEW m, FileOf(places, m), KeepsOrder(places, m), NEW k \in 0 .. BaseLines
  PROVE  /\ Where(places, m, k) \in 0 .. m + 1 /\ Where(places, m, k + 1) \in 1 .. m + 1
         /\ Stays(places, m, k) =>
              /\ Where(places, m, k) < Where(places, m, k + 1)
              /\ \A n \in Int : Where(places, m, k) < n /\ n < Where(places, m, k + 1) => Origin(places, m, n) = 0
         /\ ~Stays(places, m, k) => Where(places, m, k + 1) = Where(places, m, k) /\ k # 0
<1> DEFINE o(n) == Origin(places, m, n)
           w == Where(places, m, k)
           v == Where(places, m, k + 1)
<1>1. m \in Nat /\ BaseLines \in Nat
  BY HunkRangesAssumption DEF FileOf
<1>2. \A n \in Int : o(n) \in Nat /\ (n <= 0 => o(n) = 0)
  BY <1>1, OriginRange
<1>3. \A i, j \in Int : i < j /\ o(i) # 0 /\ o(j) # 0 => o(i) < o(j)
  BY DEF KeepsOrder
<1>4. /\ v \in 1 .. m + 1 /\ k + 1 <= o(v)
      /\ \A i \in Int : i < v => o(i) < k + 1
  BY <1>1, WhereIs
<1>5. /\ k = 0 => w = 0
      /\ k # 0 => /\ w \in 1 .. m + 1 /\ k <= o(w)
                  /\ \A i \in Int : i < w => o(i) < k
  <2>1. k = 0 => w = 0
    BY DEF Where
  <2>2. k # 0 => k \in 1 .. BaseLines + 1
    BY <1>1
  <2> HIDE DEF w
  <2>3. k # 0 => /\ w \in 1 .. m + 1 /\ k <= o(w)
                 /\ \A i \in Int : i < w => o(i) < k
    BY <2>2, WhereIs DEF w
  <2> QED BY <2>1, <2>3
<1>6. Stays(places, m, k) <=> o(w) = k
  BY DEF Stays
<1> HIDE DEF o, w, v
<1>7. w \in 0 .. m + 1
  BY <1>1, <1>5
<1>8. ASSUME o(w) = k
      PROVE  w < v /\ \A n \in Int : w < n /\ n < v => o(n) = 0
  <2>1. w < v
    <3>1. CASE k = 0
      BY <1>1, <1>4, <1>5, <3>1
    <3>2. CASE k # 0
      <4>1. v \in Int /\ w \in Int /\ o(v) # o(w)
        BY <1>1, <1>2, <1>4, <1>7, <1>8
      <4>2. ~(v < w)
        BY <1>3, <1>4, <1>8, <1>2, <3>2, <4>1
      <4>3. v # w
        BY <4>1
      <4> QED BY <4>1, <4>2, <4>3
    <3> QED BY <3>1, <3>2
  <2>2. ASSUME NEW n \in Int, w < n, n < v, o(n) # 0 PROVE FALSE
    <3>1. o(n) < k + 1 /\ o(n) \in Nat
      BY <1>2, <1>4, <2>2
    <3>2. CASE k = 0
      BY <2>2, <3>1, <3>2
    <3>3. CASE k # 0
      <4>1. o(w) < o(n)
        BY <1>3, <1>7, <1>8, <2>2, <3>3
      <4> QED BY <1>8, <3>1, <4>1
    <3> QED BY <3>2, <3>3
  <2> QED BY <2>1, <2>2
<1>9. ASSUME o(w) # k PROVE v = w /\ k # 0
  <2>1. k # 0
    BY <1>2, <1>5, <1>9
  <2>2. w \in 1 .. m + 1 /\ k + 1 <= o(w)
    BY <1>1, <1>2, <1>5, <1>9, <2>1
  <2>3. ~(w < v)
    BY <1>2, <1>4, <2>2
  <2>4. ~(v < w)
    BY <1>2, <1>4, <1>5, <2>1
  <2> QED BY <1>4, <2>1, <2>2, <2>3, <2>4
<1> QED BY <1>4, <1>6, <1>7, <1>8, <1>9 DEF o, w, v

\* A line of the merge base is found where it stays.
LEMMA OriginWhere ==
  ASSUME NEW places, NEW m, FileOf(places, m), KeepsOrder(places, m),
         NEW n \in Int, Origin(places, m, n) # 0
  PROVE  /\ Where(places, m, Origin(places, m, n)) = n
         /\ Stays(places, m, Origin(places, m, n))
<1> DEFINE o(i) == Origin(places, m, i)
           k == o(n)
           w == Where(places, m, k)
<1>1. k \in 1 .. BaseLines + 1 /\ BaseLines \in Nat /\ m \in Nat
  <2>1. k \in 0 .. BaseLines + 1 /\ k # 0
    BY OriginRange
  <2> HIDE DEF k
  <2> QED BY <2>1, HunkRangesAssumption DEF FileOf
<1>2. w \in Int /\ k <= o(w) /\ \A i \in Int : i < w => o(i) < k
  BY <1>1, WhereIs
<1>3. \A i, j \in Int : i < j /\ o(i) # 0 /\ o(j) # 0 => o(i) < o(j)
  BY DEF KeepsOrder
<1>4. o(w) \in Int
  BY <1>2, OriginRange
<1> HIDE DEF w, k, o
<1>5. o(n) = k /\ o(w) # 0
  BY <1>1, <1>2, <1>4 DEF k
<1>6. ~(w < n)
  BY <1>1, <1>2, <1>3, <1>4, <1>5
<1>7. ~(n < w)
  BY <1>1, <1>2, <1>5
<1>8. w = n
  BY <1>2, <1>6, <1>7
<1> QED BY <1>5, <1>8 DEF w, k, o, Stays

\* The lines of the merge base that a file keeps; its top and its end count as such.
LEMMA StaysIs ==
  ASSUME NEW places, NEW m, FileOf(places, m), KeepsOrder(places, m)
  PROVE  /\ Stays(places, m, 0) /\ Where(places, m, 0) = 0
         /\ Stays(places, m, BaseLines + 1) /\ Where(places, m, BaseLines + 1) = m + 1
         /\ \A k \in 1 .. BaseLines : k \in KeptLines(places) <=> Stays(places, m, k)
<1> DEFINE o(n) == Origin(places, m, n)
<1>1. m \in Nat /\ BaseLines \in Nat /\ LineCount(places) = m
  BY CountOf, HunkRangesAssumption DEF FileOf
<1>2. Where(places, m, 0) = 0 /\ Stays(places, m, 0)
  <2>1. Where(places, m, 0) = 0
    BY DEF Where
  <2>2. o(0) = 0
    BY <1>1, OriginRange
  <2> QED BY <2>1, <2>2 DEF Stays
<1>3. Where(places, m, BaseLines + 1) = m + 1 /\ Stays(places, m, BaseLines + 1)
  <2>1. o(m + 1) = BaseLines + 1 /\ o(m + 1) # 0 /\ m + 1 \in Int
    BY <1>1, OriginRange
  <2> QED BY <2>1, OriginWhere
<1>4. ASSUME NEW k \in 1 .. BaseLines PROVE k \in KeptLines(places) <=> Stays(places, m, k)
  <2>1. k # 0 /\ k \in 1 .. BaseLines + 1
    BY <1>1
  <2>2. ASSUME k \in KeptLines(places) PROVE Stays(places, m, k)
    <3>1. PICK n \in 1 .. m : k = LineAt(places, n).base
      BY <1>1, <2>2 DEF KeptLines
    <3>2. n # m + 1 /\ n \in Int /\ o(n) = k
      <4>1. n # m + 1 /\ n \in Int /\ 1 <= n /\ n <= m
        BY <1>1
      <4> QED BY <3>1, <4>1 DEF Origin
    <3> QED BY <2>1, <3>2, OriginWhere
  <2>3. ASSUME Stays(places, m, k) PROVE k \in KeptLines(places)
    <3> DEFINE w == Where(places, m, k)
    <3>1. w \in 1 .. m + 1
      BY <2>1, WhereIs
    <3>2. o(w) = k
      BY <2>3 DEF Stays
    <3>3. o(m + 1) = BaseLines + 1
      BY <1>1, OriginRange
    <3> HIDE DEF w
    <3>4. w # m + 1
      BY <1>1, <3>2, <3>3
    <3>5. w \in 1 .. m /\ 1 <= w /\ w <= m
      BY <1>1, <3>1, <3>4
    <3>6. LineAt(places, w).base = k
      BY <3>2, <3>4, <3>5 DEF Origin
    <3> QED BY <1>1, <2>1, <3>5, <3>6 DEF KeptLines
  <2> QED BY <2>2, <2>3
<1> QED BY <1>2, <1>3, <1>4

\* A place belongs to the merge base only if it is a line.
LEMMA BaseOfPlace ==
  ASSUME NEW places, NEW m, FileOf(places, m), KeepsOrder(places, m),
         NEW i \in 1 .. 2 * m + 1, places[i].base # 0
  PROVE  \E n \in 1 .. m : i = 2 * n /\ places[i].base = Origin(places, m, n)
<1>1. m \in Nat
  BY DEF FileOf
<1>2. \E n \in 0 .. m : i = 2 * n \/ i = 2 * n + 1
  <2>1. i = 2 * (i \div 2) \/ i = 2 * (i \div 2) + 1
    BY <1>1
  <2>2. i \div 2 \in 0 .. m
    BY <1>1
  <2> QED BY <2>1, <2>2
<1>3. PICK n \in 0 .. m : i = 2 * n \/ i = 2 * n + 1
  BY <1>2
<1>4. i # 2 * n + 1
  BY <1>3 DEF KeepsOrder, GapAfter
<1>5. n \in 1 .. m /\ n # m + 1 /\ 1 <= n /\ n <= m
  BY <1>1, <1>3, <1>4
<1>6. Origin(places, m, n) = places[2 * n].base
  BY <1>5 DEF Origin, LineAt
<1> QED BY <1>3, <1>4, <1>5, <1>6

\* What follows a line of the merge base that is there.
LEMMA AfterPlaces ==
  ASSUME NEW places, NEW m, FileOf(places, m), KeepsOrder(places, m),
         NEW k \in 0 .. BaseLines, Stays(places, m, k)
  PROVE  /\ After(places, k) \in Seq(GoodPlace)
         /\ Len(After(places, k)) = 2 * (Where(places, m, k + 1) - Where(places, m, k)) - 1
         /\ \A q \in 1 .. 2 * (Where(places, m, k + 1) - Where(places, m, k)) - 1 :
               After(places, k)[q] = places[2 * Where(places, m, k) + q]
<1> DEFINE w == Where(places, m, k)
           v == Where(places, m, k + 1)
           o(n) == Origin(places, m, n)
           at == IF k = 0 THEN 0 ELSE CHOOSE n \in DOMAIN places : places[n].base = k
           next == {n \in at + 1 .. Len(places) : places[n].base # 0}
           end == IF next = {} THEN Len(places) ELSE Min(next) - 1
<1>1. /\ m \in Nat /\ BaseLines \in Nat /\ places \in Seq(GoodPlace) /\ Len(places) = 2 * m + 1
      /\ DOMAIN places = 1 .. 2 * m + 1
  BY HunkRangesAssumption DEF FileOf
<1>2. /\ w \in 0 .. m + 1 /\ v \in 1 .. m + 1 /\ w < v
      /\ \A n \in Int : w < n /\ n < v => o(n) = 0
  BY WhereNext
<1>3. o(w) = k
  BY DEF Stays
<1>4. v # m + 1 => o(v) # 0
  <2>1. k + 1 \in 1 .. BaseLines + 1
    BY <1>1
  <2>2. k + 1 <= o(v) /\ o(v) \in 0 .. BaseLines + 1
    BY <1>2, <2>1, WhereIs, OriginRange
  <2> HIDE DEF o, v
  <2> QED BY <1>1, <2>2
<1>5. \A n \in Int : o(n) # 0 => Where(places, m, o(n)) = n
  BY OriginWhere
<1>6. \A n \in 1 .. m : o(n) = places[2 * n].base
  <2> SUFFICES ASSUME NEW n \in 1 .. m PROVE o(n) = places[2 * n].base
    OBVIOUS
  <2>1. n # m + 1 /\ 1 <= n /\ n <= m
    BY <1>1
  <2> QED BY <2>1 DEF Origin, LineAt
<1> HIDE DEF v
<1>7. at = 2 * w
  <2>1. CASE k = 0
    <3>1. w = 0
      BY <2>1 DEF Where
    <3> HIDE DEF w
    <3> QED BY <2>1, <3>1
  <2>2. CASE k # 0
    <3>1. w \in 1 .. m /\ 2 * w \in DOMAIN places
      <4>1. w # 0
        <5>1. o(0) = 0
          BY <1>1, OriginRange
        <5> HIDE DEF w
        <5> QED BY <1>3, <2>2, <5>1
      <4> HIDE DEF w
      <4>2. w \in 1 .. m
        BY <1>1, <1>2, <4>1
      <4>3. 2 * w \in 1 .. 2 * m + 1
        BY <1>1, <4>2
      <4> QED BY <1>1, <4>2, <4>3
    <3>2. places[2 * w].base = k
      BY <1>3, <1>6, <3>1
    <3>3. ASSUME NEW n \in DOMAIN places, places[n].base = k PROVE n = 2 * w
      <4>1. PICK i \in 1 .. m : n = 2 * i /\ places[n].base = o(i)
        BY <1>1, <2>2, <3>3, BaseOfPlace
      <4>2. i \in Int /\ o(i) # 0 /\ o(i) = k
        BY <2>2, <3>3, <4>1
      <4>3. i = w
        BY <1>5, <4>2
      <4> QED BY <4>1, <4>3
    <3>4. \E n \in DOMAIN places : places[n].base = k
      BY <3>1, <3>2
    <3>5. at \in DOMAIN places /\ places[at].base = k
      BY <2>2, <3>4
    <3> HIDE DEF at, w
    <3> QED BY <3>3, <3>5
  <2> QED BY <2>1, <2>2
<1> HIDE DEF at
<1>8. end = 2 * v - 1
  <2> HIDE DEF w, o
  <2>1. next \subseteq 1 .. 2 * m + 1
    BY <1>1, <1>2, <1>7
  <2>2. ASSUME NEW n \in next PROVE \E i \in 1 .. m : n = 2 * i /\ v <= i /\ v # m + 1
    <3>1. n \in 1 .. 2 * m + 1 /\ places[n].base # 0 /\ n > 2 * w
      BY <1>1, <1>2, <1>7
    <3>2. PICK i \in 1 .. m : n = 2 * i /\ places[n].base = o(i)
      BY <3>1, BaseOfPlace DEF o
    <3>3. i \in Int /\ w < i
      BY <1>2, <3>1, <3>2
    <3>4. ~(i < v)
      BY <1>2, <3>1, <3>2, <3>3
    <3> QED BY <1>1, <1>2, <3>2, <3>3, <3>4
  <2>3. CASE v = m + 1
    <3>1. next = {}
      BY <2>2, <2>3
    <3> QED BY <1>1, <2>3, <3>1
  <2>4. CASE v # m + 1
    <3>1. v \in 1 .. m /\ o(v) # 0
      BY <1>1, <1>2, <1>4, <2>4
    <3>2. places[2 * v].base # 0
      BY <1>6, <3>1
    <3>3. 2 * v \in at + 1 .. Len(places)
      BY <1>1, <1>2, <1>7, <3>1
    <3>4. 2 * v \in next
      BY <3>2, <3>3
    <3>5. \A n \in next : 2 * v <= n
      BY <1>2, <2>2
    <3> HIDE DEF next
    <3>6. \A x \in next : (\A y \in next : x <= y) => x = 2 * v
      <4> SUFFICES ASSUME NEW x \in next, \A y \in next : x <= y PROVE x = 2 * v
        OBVIOUS
      <4>1. x \in 1 .. 2 * m + 1
        BY <2>1
      <4>2. x <= 2 * v
        BY <3>4
      <4>3. 2 * v <= x
        BY <3>5
      <4> QED BY <1>1, <1>2, <4>1, <4>2, <4>3
    <3>7. Min(next) = 2 * v
      <4>1. \E x \in next : \A y \in next : x <= y
        BY <3>4, <3>5
      <4> DEFINE least == CHOOSE x \in next : \A y \in next : x <= y
      <4>2. least \in next /\ \A y \in next : least <= y
        BY <4>1
      <4>3. Min(next) = least
        BY DEF Min
      <4> HIDE DEF least
      <4> QED BY <3>6, <4>2, <4>3
    <3> QED BY <3>4, <3>7
  <2> QED BY <2>3, <2>4
<1>9. After(places, k) = SubSeq(places, at + 1, end)
  BY DEF After, at
<1> HIDE DEF end, w
<1>10. After(places, k) = SubSeq(places, 2 * w + 1, 2 * v - 1)
  BY <1>7, <1>8, <1>9
<1> DEFINE a == 2 * w + 1
           b == 2 * v - 1
<1>11. a \in 1 .. 2 * m + 1 /\ b \in 1 .. 2 * m + 1 /\ a <= b
  BY <1>1, <1>2
<1>12. a - 1 = 2 * w /\ b - a + 1 = 2 * (v - w) - 1 /\ 2 * (v - w) - 1 \in Nat
  BY <1>1, <1>2
<1> DEFINE N == 2 * (v - w) - 1
<1>13. After(places, k) = SubSeq(places, a, b) /\ b - a + 1 = N /\ N \in Nat
  BY <1>10, <1>12
<1> HIDE DEF a, b, N
<1>14. /\ SubSeq(places, a, b) \in Seq(GoodPlace) /\ Len(SubSeq(places, a, b)) = N
       /\ \A q \in 1 .. N : SubSeq(places, a, b)[q] = places[a + q - 1]
  BY <1>1, <1>11, <1>13
<1>15. \A q \in 1 .. N : a + q - 1 = 2 * w + q
  BY <1>2, <1>13 DEF a
<1> QED BY <1>13, <1>14, <1>15 DEF N, w, v

-----------------------------------------------------------------------------
(* The specification *)

\* A claim about a place.
Claim(gap, n, c) == <<IF gap THEN "after" ELSE "line", n, c>>

\* Claims, in the terms of these proofs.
LEMMA ClaimsAre ==
  ASSUME NEW rs, RangesOK(rs), NEW claim
  PROVE  claim \in Claims(rs)
           <=> \E gap \in BOOLEAN, n \in Int, c \in Commit : claim = Claim(gap, n, c) /\ Says(rs, gap, n, c)
<1>1. rs \in Seq(GoodRange)
  BY DEF RangesOK
<1> DEFINE Of(r) == IF r.lines = 0 THEN {<<"after", r.start, r.commit>>}
                    ELSE {<<"line", n, r.commit>> : n \in r.start .. r.start + r.lines - 1}
<1>2. ASSUME NEW r \in GoodRange
      PROVE  /\ r.commit \in Commit
             /\ claim \in Of(r) <=> \E gap \in BOOLEAN, n \in Int : claim = Claim(gap, n, r.commit) /\ Owns(r, gap, n)
  <2>1. r.start \in Nat /\ r.lines \in Nat /\ r.commit \in Commit
    BY DEF GoodRange, HunkRange
  <2>2. CASE r.lines = 0
    <3>1. RangeTop(r) = r.start /\ RangeBottom(r) = r.start
      BY <2>1, <2>2 DEF RangeTop, RangeBottom, Top, Bottom
    <3>2. \A n \in Int : /\ Owns(r, TRUE, n) <=> n = r.start
                         /\ ~Owns(r, FALSE, n)
      BY <2>1, <3>1 DEF Owns
    <3>3. claim \in Of(r) <=> claim = Claim(TRUE, r.start, r.commit)
      BY <2>2 DEF Claim
    <3>4. \A gap \in BOOLEAN : gap = TRUE \/ gap = FALSE
      OBVIOUS
    <3> HIDE DEF Of
    <3>5. r.start \in Int /\ Owns(r, TRUE, r.start)
      BY <2>1, <3>1 DEF Owns
    <3>6. ASSUME claim \in Of(r) PROVE \E gap \in BOOLEAN, n \in Int : claim = Claim(gap, n, r.commit) /\ Owns(r, gap, n)
      <4>1. claim = Claim(TRUE, r.start, r.commit)
        BY <3>3, <3>6
      <4> QED BY <3>5, <4>1, Zenon
    <3>7. ASSUME NEW gap \in BOOLEAN, NEW n \in Int, claim = Claim(gap, n, r.commit), Owns(r, gap, n)
          PROVE  claim \in Of(r)
      BY <3>2, <3>3, <3>4, <3>7
    <3> QED BY <2>1, <3>6, <3>7
  <2>3. CASE r.lines # 0
    <3>1. RangeTop(r) = r.start - 1 /\ RangeBottom(r) = r.start - 1 + r.lines
      BY <2>1, <2>3 DEF RangeTop, RangeBottom, Top, Bottom
    <3>2. \A n \in Int : /\ Owns(r, FALSE, n) <=> n \in r.start .. r.start + r.lines - 1
                         /\ ~Owns(r, TRUE, n)
      BY <2>1, <2>3, <3>1 DEF Owns
    <3>3. claim \in Of(r) <=> \E n \in r.start .. r.start + r.lines - 1 : claim = Claim(FALSE, n, r.commit)
      BY <2>3 DEF Claim
    <3>4. \A gap \in BOOLEAN : gap = TRUE \/ gap = FALSE
      OBVIOUS
    <3>5. \A n \in r.start .. r.start + r.lines - 1 : n \in Int
      BY <2>1
    <3> HIDE DEF Of
    <3>6. ASSUME claim \in Of(r) PROVE \E gap \in BOOLEAN, n \in Int : claim = Claim(gap, n, r.commit) /\ Owns(r, gap, n)
      <4>1. PICK n \in r.start .. r.start + r.lines - 1 : claim = Claim(FALSE, n, r.commit)
        BY <3>3, <3>6
      <4>2. n \in Int /\ Owns(r, FALSE, n)
        BY <3>2, <3>5
      <4> QED BY <4>1, <4>2, Zenon
    <3>7. ASSUME NEW gap \in BOOLEAN, NEW n \in Int, claim = Claim(gap, n, r.commit), Owns(r, gap, n)
          PROVE  claim \in Of(r)
      BY <3>2, <3>3, <3>4, <3>7
    <3> QED BY <2>1, <3>6, <3>7
  <2> HIDE DEF Of
  <2> QED BY <2>1, <2>2, <2>3
<1>3. claim \in Claims(rs) <=> \E i \in DOMAIN rs : claim \in Of(rs[i])
  <2>1. ToSet(rs) = {rs[i] : i \in DOMAIN rs}
    BY DEF ToSet
  <2>2. Claims(rs) = UNION {Of(r) : r \in ToSet(rs)}
    BY DEF Claims
  <2> HIDE DEF Of
  <2> QED BY <2>1, <2>2
<1> HIDE DEF Of
<1>4. \A i \in DOMAIN rs : rs[i] \in GoodRange
  BY <1>1
<1> QED BY <1>2, <1>3, <1>4 DEF Says

\* Owned and Blame, in the terms of these proofs.
LEMMA BlameIs ==
  ASSUME NEW places, NEW m, FileOf(places, m), NEW claim
  PROVE  claim \in Owned(Blame(places))
           <=> \E gap \in BOOLEAN, n \in Int, c \in Commit : claim = Claim(gap, n, c) /\ FileSays(places, m, gap, n, c)
<1>1. LineCount(places) = m /\ m \in Nat /\ places \in Seq(Place) /\ Len(places) = 2 * m + 1
  <2>1. places \in Seq(GoodPlace) /\ GoodPlace \subseteq Place
    BY DEF FileOf, GoodPlace
  <2>2. places \in Seq(Place)
    BY <2>1, SeqMonotonic
  <2>3. m \in Nat /\ Len(places) = 2 * m + 1
    BY DEF FileOf
  <2> QED BY <2>2, <2>3, CountOf
<1>2. ASSUME NEW n \in 1 .. m PROVE LineAt(places, n).commit \in Commit \cup {Base}
  <2>1. places[2 * n] \in Place
    BY <1>1
  <2> QED BY <2>1 DEF LineAt, Place
<1>3. ASSUME NEW n \in 0 .. m PROVE GapAfter(places, n).commit \in Commit \cup {Base}
  <2>1. places[2 * n + 1] \in Place
    BY <1>1
  <2> QED BY <2>1 DEF GapAfter, Place
<1>4. \A n \in Int : \A c :
         /\ FileSays(places, m, FALSE, n, c) <=> n \in 1 .. m /\ LineAt(places, n).commit = c
         /\ FileSays(places, m, TRUE, n, c) <=> n \in 0 .. m /\ GapAfter(places, n).commit = c
  BY <1>1 DEF FileSays, CommitAt
<1>5. claim \in Blame(places)
        <=> \/ \E n \in 1 .. m : claim = Claim(FALSE, n, LineAt(places, n).commit)
            \/ \E n \in 0 .. m : claim = Claim(TRUE, n, GapAfter(places, n).commit)
  BY <1>1 DEF Blame, Claim
<1>6. claim \in Owned(Blame(places)) <=> claim \in Blame(places) /\ claim[3] # Base
  BY DEF Owned
<1>7. \A gap, n, c : Claim(gap, n, c)[3] = c
  BY DEF Claim
<1>8. \A c \in Commit : c # Base
  BY DEF Commit, Base
<1>9. \A gap \in BOOLEAN : gap = TRUE \/ gap = FALSE
  OBVIOUS
<1>10. /\ \A n \in 1 .. m : n \in Int
       /\ \A n \in 0 .. m : n \in Int
  BY <1>1
<1>11. ASSUME claim \in Owned(Blame(places))
       PROVE  \E gap \in BOOLEAN, n \in Int, c \in Commit : claim = Claim(gap, n, c) /\ FileSays(places, m, gap, n, c)
  <2>1. CASE \E n \in 1 .. m : claim = Claim(FALSE, n, LineAt(places, n).commit)
    <3>1. PICK n \in 1 .. m : claim = Claim(FALSE, n, LineAt(places, n).commit)
      BY <2>1
    <3> DEFINE c == LineAt(places, n).commit
    <3>2. c # Base
      BY <1>6, <1>7, <1>11, <3>1
    <3>3. c \in Commit /\ n \in Int
      BY <1>2, <1>10, <3>2
    <3>4. FileSays(places, m, FALSE, n, c)
      BY <1>4, <3>3
    <3>5. claim = Claim(FALSE, n, c)
      BY <3>1 DEF c
    <3> QED BY <3>3, <3>4, <3>5, Zenon
  <2>2. CASE \E n \in 0 .. m : claim = Claim(TRUE, n, GapAfter(places, n).commit)
    <3>1. PICK n \in 0 .. m : claim = Claim(TRUE, n, GapAfter(places, n).commit)
      BY <2>2
    <3> DEFINE c == GapAfter(places, n).commit
    <3>2. c # Base
      BY <1>6, <1>7, <1>11, <3>1
    <3>3. c \in Commit /\ n \in Int
      BY <1>3, <1>10, <3>2
    <3>4. FileSays(places, m, TRUE, n, c)
      BY <1>4, <3>3
    <3>5. claim = Claim(TRUE, n, c)
      BY <3>1 DEF c
    <3> QED BY <3>3, <3>4, <3>5, Zenon
  <2> QED BY <1>5, <1>6, <1>11, <2>1, <2>2
<1>12. ASSUME NEW gap \in BOOLEAN, NEW n \in Int, NEW c \in Commit,
              claim = Claim(gap, n, c), FileSays(places, m, gap, n, c)
       PROVE  claim \in Owned(Blame(places))
  <2>1. claim[3] # Base
    BY <1>7, <1>8, <1>12
  <2>2. CASE gap = TRUE
    BY <1>4, <1>5, <1>6, <1>12, <2>1, <2>2
  <2>3. CASE gap = FALSE
    BY <1>4, <1>5, <1>6, <1>12, <2>1, <2>3
  <2> QED BY <2>2, <2>3
<1> QED BY <1>11, <1>12

\* The ranges of a stack name the places of its file, are in order, and count
\* how far the lines of the merge base have moved, which are in their order.
StackRanges(rs, places, m) ==
  /\ FileOf(places, m) /\ KeepsOrder(places, m)
  /\ RangesOK(rs) /\ Slim(rs) /\ Matches(rs, places, m) /\ ShiftsMatch(rs, places, m)

StackOK(s) == StackRanges(ranges[s], file[s], LineCount(file[s]))

Inv == TypeOK /\ Independent(file) /\ \A s \in Stack : StackOK(s)

\* The diffs that Modify, Delete and Create make are in order and within the file.
LEMMA OneEdit ==
  ASSUME NEW e \in Edits, NEW m \in Nat, e.top + e.old <= m
  PROVE  EditsOK(<<e>>, m)
<1>1. <<e>> \in Seq(Edits) /\ Len(<<e>>) = 1 /\ <<e>>[1] = e
  OBVIOUS
<1>2. e.top \in Nat /\ e.old \in Nat
  BY DEF Edits
<1>3. Reached(<<e>>, 0) = -1 /\ Reached(<<e>>, 1) = e.top + e.old
  BY <1>1 DEF Reached
<1>4. \A k \in 1 .. 1 : k = 1
  OBVIOUS
<1>5. Reached(<<e>>, 1 - 1) < e.top
  BY <1>2, <1>3
<1> QED BY <1>1, <1>3, <1>4, <1>5 DEF EditsOK

\* Two hunks of a modification.
LEMMA TwoEdits ==
  ASSUME NEW e \in Edits, NEW f \in Edits, NEW m \in Nat,
         e.top + e.old < f.top, f.top + f.old <= m
  PROVE  EditsOK(<<e, f>>, m)
<1> DEFINE ef == <<e, f>>
<1>1. ef \in Seq(Edits) /\ Len(ef) = 2 /\ ef[1] = e /\ ef[2] = f
  OBVIOUS
<1> HIDE DEF ef
<1>2. e.top \in Nat /\ e.old \in Nat /\ f.top \in Nat /\ f.old \in Nat
  BY DEF Edits
<1>3. Reached(ef, 0) = -1 /\ Reached(ef, 1) = e.top + e.old /\ Reached(ef, 2) = f.top + f.old
  BY <1>1 DEF Reached
<1>4. Reached(ef, 1 - 1) < e.top /\ Reached(ef, 2 - 1) < f.top /\ Reached(ef, 1) <= m /\ Reached(ef, 2) <= m
  BY <1>2, <1>3
<1>5. \A k \in 1 .. 2 : k = 1 \/ k = 2
  OBVIOUS
<1> QED BY <1>1, <1>4, <1>5 DEF EditsOK, ef

\* A whole file.
LEMMA WholeEdit ==
  ASSUME NEW old \in Nat, NEW new \in Nat, NEW m \in Nat, old <= m
  PROVE  EditsOK(Whole(old, new), m)
<1>1. CASE old + new = 0
  <2>1. Whole(old, new) = <<>>
    BY <1>1 DEF Whole
  <2>2. <<>> \in Seq(Edits) /\ Len(<<>>) = 0
    OBVIOUS
  <2> QED BY <2>1, <2>2 DEF EditsOK
<1>2. CASE old + new # 0
  <2> DEFINE e == [top |-> 0, old |-> old, new |-> new]
  <2>1. e \in Edits /\ e.top + e.old <= m
    BY DEF Edits
  <2>2. Whole(old, new) = <<e>>
    BY <1>2 DEF Whole
  <2> HIDE DEF e
  <2> QED BY <2>1, <2>2, OneEdit
<1> QED BY <1>1, <1>2

\* A commit keeps the ranges right.
LEMMA CommitKeeps ==
  ASSUME Inv, NEW s \in Stack, NEW kind \in ChangeKind, NEW edits,
         EditsOK(edits, LineCount(file[s])), HeadersAgree(edits), CommitEdits(s, kind, edits)
  PROVE  Inv'
<1> DEFINE m == LineCount(file[s])
           c == commits + 1
           next == PatchWalk(file[s], edits, c)[Len(edits)]
           count == m + Shifts(edits)[Len(edits)]
           rs == Add(ranges[s], kind, c, Diff(edits))
<1>1. TypeOK /\ StackRanges(ranges[s], file[s], m)
  BY DEF Inv, StackOK
<1>2. /\ commits < MaxCommits /\ hunks + Len(edits) <= MaxHunks
      /\ file' = [file EXCEPT ![s] = next]
      /\ ranges' = [ranges EXCEPT ![s] = rs]
      /\ present' = [present EXCEPT ![s] = (kind # "Deletion")]
      /\ commits' = c /\ hunks' = hunks + Len(edits)
      /\ Independent(file')
  BY DEF CommitEdits
<1>3. c \in Commit /\ c \in 0 .. MaxCommits
  BY <1>1, <1>2, HunkRangesAssumption DEF TypeOK, Commit
<1>4. Len(edits) \in Nat
  BY DEF EditsOK
<1>5. StackRanges(rs, next, count)
  <2> DEFINE mm == LineCount(file[s])
  <2>1. /\ FileOf(file[s], mm) /\ KeepsOrder(file[s], mm) /\ RangesOK(ranges[s]) /\ Slim(ranges[s])
        /\ Matches(ranges[s], file[s], mm) /\ ShiftsMatch(ranges[s], file[s], mm)
    BY <1>1 DEF StackRanges
  <2>2. EditsOK(edits, mm)
    OBVIOUS
  <2> HIDE DEF mm, c
  <2>3. LET N == Len(edits)
            w == PatchWalk(file[s], edits, c)[N]
            k == mm + Shifts(edits)[N]
            r == Add(ranges[s], kind, c, Diff(edits))
        IN  FileOf(w, k) /\ RangesOK(r) /\ Matches(r, w, k)
    BY <1>3, <2>1, <2>2, AddIsBlame
  <2>4. ShiftsMatch(Add(ranges[s], kind, c, Diff(edits)),
                    PatchWalk(file[s], edits, c)[Len(edits)], mm + Shifts(edits)[Len(edits)])
    BY <1>3, <2>1, <2>2, AddShifts
  <2>5. KeepsOrder(PatchWalk(file[s], edits, c)[Len(edits)], mm + Shifts(edits)[Len(edits)])
    BY <1>3, <2>1, <2>2, DiffKeepsOrder
  <2>6. Slim(Add(ranges[s], kind, c, Diff(edits)))
    BY <1>3, <2>1, <2>2, SlimAdd
  <2> QED BY <2>3, <2>4, <2>5, <2>6 DEF mm, StackRanges
<1>6. LineCount(next) = count
  BY <1>5, CountOf DEF StackRanges
<1> HIDE DEF m, c, next, count, rs
<1>7. next \in Seq(Place) /\ rs \in Seq(HunkRange)
  <2>1. rs \in Seq(GoodRange) /\ GoodRange \subseteq HunkRange
    BY <1>5 DEF StackRanges, RangesOK, GoodRange
  <2>2. next \in Seq(GoodPlace) /\ GoodPlace \subseteq Place
    BY <1>5 DEF StackRanges, FileOf, GoodPlace
  <2> QED BY <2>1, <2>2
<1>8. TypeOK'
  <2>1. file' \in [Stack -> Seq(Place)] /\ ranges' \in [Stack -> Seq(HunkRange)]
    BY <1>1, <1>2, <1>7 DEF TypeOK
  <2>2. present' \in [Stack -> BOOLEAN]
    BY <1>1, <1>2 DEF TypeOK
  <2>3. commits' \in 0 .. MaxCommits /\ hunks' \in 0 .. MaxHunks
    BY <1>1, <1>2, <1>3, <1>4, HunkRangesAssumption DEF TypeOK
  <2> QED BY <2>1, <2>2, <2>3 DEF TypeOK
<1>9. ASSUME NEW t \in Stack PROVE StackOK(t)'
  <2>1. CASE t = s
    <3>1. file'[t] = next /\ ranges'[t] = rs
      BY <1>1, <1>2, <2>1 DEF TypeOK
    <3> QED BY <1>5, <1>6, <3>1 DEF StackOK
  <2>2. CASE t # s
    <3>1. file'[t] = file[t] /\ ranges'[t] = ranges[t]
      BY <1>1, <1>2, <2>2 DEF TypeOK
    <3> QED BY <3>1 DEF StackOK, Inv
  <2> QED BY <2>1, <2>2
<1> QED BY <1>2, <1>8, <1>9 DEF Inv

\* The file of the merge base is nobody's.
LEMMA InitOK == Init => Inv
<1> SUFFICES ASSUME Init PROVE Inv
  OBVIOUS
<1> DEFINE N == 2 * BaseLines + 1
           places == [i \in 1 .. N |-> IF i % 2 = 1 THEN Gap(Base) ELSE FromBase(i \div 2)]
<1>1. /\ file = [s \in Stack |-> places] /\ ranges = [s \in Stack |-> <<>>]
      /\ present = [s \in Stack |-> TRUE] /\ commits = 0 /\ hunks = 0
  BY DEF Init
<1>2. N \in Nat /\ BaseLines \in Nat
  BY HunkRangesAssumption
<1>3. ASSUME NEW i \in 1 .. N PROVE places[i] \in GoodPlace /\ places[i].commit = Base
  <2>1. i \div 2 \in 0 .. BaseLines
    BY <1>2
  <2>2. Gap(Base) \in GoodPlace /\ Gap(Base).commit = Base
    BY <1>2 DEF Gap, Place, GoodPlace
  <2>3. FromBase(i \div 2) \in GoodPlace /\ FromBase(i \div 2).commit = Base
    BY <2>1 DEF FromBase, Place, GoodPlace
  <2>4. places[i] = IF i % 2 = 1 THEN Gap(Base) ELSE FromBase(i \div 2)
    OBVIOUS
  <2> HIDE DEF places
  <2> QED BY <2>2, <2>3, <2>4
<1>4. places \in Seq(GoodPlace) /\ Len(places) = N
  <2>1. places = [i \in 1 .. N |-> places[i]]
    OBVIOUS
  <2> HIDE DEF places, N
  <2> QED BY <1>2, <1>3, <2>1
<1> HIDE DEF places
<1>5. FileOf(places, BaseLines) /\ LineCount(places) = BaseLines
  <2>1. FileOf(places, BaseLines)
    BY <1>2, <1>4 DEF FileOf
  <2> QED BY <2>1, CountOf
<1>6. Matches(<<>>, places, BaseLines)
  <2>1. SUFFICES ASSUME NEW gap \in BOOLEAN, NEW n \in Int, NEW d \in Commit, FileSays(places, BaseLines, gap, n, d)
                 PROVE  FALSE
    BY NoRanges DEF Matches
  <2>2. d # Base
    BY DEF Commit, Base
  <2>3. CASE gap = TRUE
    <3>1. 2 * n + 1 \in 1 .. N /\ places[2 * n + 1].commit = d
      BY <1>2, <2>1, <2>3 DEF FileSays, CommitAt, GapAfter
    <3> QED BY <1>3, <2>2, <3>1
  <2>4. CASE gap = FALSE
    <3>1. 2 * n \in 1 .. N /\ places[2 * n].commit = d
      BY <1>2, <2>1, <2>4 DEF FileSays, CommitAt, LineAt
    <3> QED BY <1>3, <2>2, <3>1
  <2> QED BY <2>3, <2>4
<1>7. TypeOK
  <2>1. <<>> \in Seq(HunkRange)
    OBVIOUS
  <2>2. places \in Seq(Place)
    BY <1>4 DEF GoodPlace
  <2> QED BY <1>1, <2>1, <2>2, HunkRangesAssumption DEF TypeOK
<1>8. ASSUME NEW n \in 1 .. BaseLines PROVE 2 * n \in 1 .. N /\ places[2 * n] = FromBase(n)
  <2>1. 2 * n \in 1 .. N /\ (2 * n) % 2 # 1 /\ (2 * n) \div 2 = n
    BY <1>2
  <2> QED BY <2>1 DEF places
<1>9. ASSUME NEW n \in 0 .. BaseLines PROVE 2 * n + 1 \in 1 .. N /\ places[2 * n + 1] = Gap(Base)
  <2>1. 2 * n + 1 \in 1 .. N /\ (2 * n + 1) % 2 = 1
    BY <1>2
  <2> QED BY <2>1 DEF places
<1>10. ASSUME NEW n \in Int PROVE Origin(places, BaseLines, n) = IF n \in 1 .. BaseLines + 1 THEN n ELSE 0
  <2>1. CASE n = BaseLines + 1
    BY <1>2, <2>1 DEF Origin
  <2>2. CASE n # BaseLines + 1 /\ 1 <= n /\ n <= BaseLines
    <3>1. n \in 1 .. BaseLines /\ n \in 1 .. BaseLines + 1
      BY <1>2, <2>2
    <3>2. Origin(places, BaseLines, n) = places[2 * n].base
      BY <2>2 DEF Origin, LineAt
    <3>3. places[2 * n].base = n
      <4>1. places[2 * n] = FromBase(n)
        BY <1>8, <3>1
      <4>2. FromBase(n).base = n
        BY DEF FromBase
      <4> QED BY <4>1, <4>2
    <3> QED BY <3>1, <3>2, <3>3
  <2>3. CASE n # BaseLines + 1 /\ ~(1 <= n /\ n <= BaseLines)
    <3>1. n \notin 1 .. BaseLines + 1
      BY <1>2, <2>3
    <3> QED BY <2>3, <3>1 DEF Origin
  <2> QED BY <2>1, <2>2, <2>3
<1>11. ShiftsMatch(<<>>, places, BaseLines)
  <2> SUFFICES ASSUME NEW n \in Int, Origin(places, BaseLines, n) # 0
               PROVE  ShiftAbove(<<>>, n) = n - Origin(places, BaseLines, n)
    BY DEF ShiftsMatch
  <2>1. Origin(places, BaseLines, n) = n
    BY <1>10
  <2> QED BY <2>1, ShiftAboveOne
<1>12. KeepsOrder(places, BaseLines)
  <2>1. \A n \in 0 .. BaseLines : GapAfter(places, n).base = 0
    BY <1>9 DEF GapAfter, Gap
  <2>2. ASSUME NEW i \in Int, NEW j \in Int, i < j,
               Origin(places, BaseLines, i) # 0, Origin(places, BaseLines, j) # 0
        PROVE  Origin(places, BaseLines, i) < Origin(places, BaseLines, j)
    BY <1>10, <2>2
  <2> QED BY <2>1, <2>2 DEF KeepsOrder
<1>13. Changed(places) = {}
  <2>1. ASSUME NEW k \in 0 .. BaseLines + 1
        PROVE  Stays(places, BaseLines, k) /\ Where(places, BaseLines, k) = k
    <3>1. CASE k = 0
      BY <1>5, <1>12, <3>1, StaysIs
    <3>2. CASE k # 0
      <4>1. k \in Int /\ Origin(places, BaseLines, k) = k
        BY <1>2, <1>10, <3>2
      <4> QED BY <1>5, <1>12, <3>2, <4>1, OriginWhere
    <3> QED BY <3>1, <3>2
  <2>2. ASSUME NEW k \in 1 .. BaseLines PROVE k \in KeptLines(places)
    <3>1. k \in 0 .. BaseLines + 1
      BY <1>2
    <3> QED BY <1>5, <1>12, <2>1, <3>1, StaysIs
  <2>3. ASSUME NEW k \in 0 .. BaseLines PROVE After(places, k) = <<Gap(Base)>>
    <3> DEFINE w == Where(places, BaseLines, k)
               v == Where(places, BaseLines, k + 1)
               part == After(places, k)
    <3>1. k \in 0 .. BaseLines + 1 /\ k + 1 \in 0 .. BaseLines + 1 /\ 2 * ((k + 1) - k) - 1 = 1
      BY <1>2
    <3>2. w = k /\ v = k + 1 /\ Stays(places, BaseLines, k)
      BY <2>1, <3>1
    <3>3. /\ part \in Seq(GoodPlace)
          /\ Len(part) = 2 * (v - w) - 1
          /\ \A q \in 1 .. 2 * (v - w) - 1 : part[q] = places[2 * w + q]
      <4>1. FileOf(places, BaseLines) /\ KeepsOrder(places, BaseLines) /\ Stays(places, BaseLines, k)
        BY <1>5, <1>12, <3>2
      <4> QED BY <4>1, AfterPlaces
    <3> HIDE DEF w, v, part
    <3>4. 2 * (v - w) - 1 = 1
      BY <3>1, <3>2
    <3>5. Len(part) = 1 /\ part[1] = places[2 * k + 1]
      BY <3>2, <3>3, <3>4
    <3>6. part = <<part[1]>>
      <4>1. \A seq \in Seq(GoodPlace) : Len(seq) = 1 => seq = <<seq[1]>>
        OBVIOUS
      <4> QED BY <3>3, <3>5, <4>1
    <3> QED BY <1>9, <3>5, <3>6 DEF part
  <2>4. ASSUME NEW k \in 0 .. BaseLines PROVE k \notin Changed(places)
    <3>1. k > 0 => k \in 1 .. BaseLines
      BY <1>2
    <3>2. k < BaseLines => k + 1 \in 1 .. BaseLines
      BY <1>2
    <3> QED BY <2>2, <2>3, <3>1, <3>2 DEF Changed
  <2> QED BY <2>4 DEF Changed
<1>14. Independent(file)
  BY <1>1, <1>13 DEF Independent
<1>15. RangesOK(<<>>) /\ Slim(<<>>)
  BY NoRanges DEF Slim
<1>16. \A s \in Stack : StackOK(s)
  BY <1>1, <1>5, <1>6, <1>11, <1>12, <1>15 DEF StackOK, StackRanges
<1> QED BY <1>7, <1>14, <1>16 DEF Inv

\* Commits that only put lines in the place of others, and leave the file there.
Substituting == 0 \notin OldLines \cup NewLines
AllPresent == \A s \in Stack : present[s]

\* Every step is a commit, or nothing.
LEMMA NextOK ==
  ASSUME GixHeaders = FALSE \/ (Substituting /\ AllPresent /\ AllPresent'), Inv, [Next]_vars
  PROVE  Inv'
<1>1. CASE UNCHANGED vars
  BY <1>1 DEF Inv, TypeOK, StackOK, StackRanges, vars
<1>2. ASSUME NEW s \in Stack PROVE LineCount(file[s]) \in Nat
  BY DEF Inv, StackOK, StackRanges, FileOf
<1>3. ASSUME NEW s \in Stack, NEW e \in Edit(LineCount(file[s]))
      PROVE  e \in Edits /\ e.top + e.old <= LineCount(file[s])
  <2> DEFINE m == LineCount(file[s])
  <2>1. m \in Nat
    BY <1>2
  <2> HIDE DEF m
  <2>2. /\ e \in [top : 0 .. m, old : OldLines, new : NewLines]
        /\ e.top + e.old <= m
    BY DEF Edit, m
  <2>3. e.top \in 0 .. m /\ e.old \in OldLines /\ e.new \in NewLines
    BY <2>2
  <2>4. OldLines \subseteq Nat /\ NewLines \subseteq Nat /\ 0 .. m \subseteq Nat
    BY <2>1, HunkRangesAssumption
  <2>5. e = [top |-> e.top, old |-> e.old, new |-> e.new]
    BY <2>2
  <2>6. e.top \in Nat /\ e.old \in Nat /\ e.new \in Nat
    BY <2>3, <2>4
  <2> QED BY <2>2, <2>5, <2>6 DEF Edits, m
<1>4. ASSUME NEW s \in Stack, NEW e \in Edit(LineCount(file[s]))
      PROVE  GixHeaders = FALSE \/ (e.old # 0 /\ e.new # 0)
  <2>1. e.old \in OldLines /\ e.new \in NewLines
    BY DEF Edit
  <2> QED BY <2>1 DEF Substituting
<1>5. ASSUME NEW s \in Stack, Modify(s) PROVE Inv'
  <2>1. "Modification" \in ChangeKind
    BY DEF ChangeKind
  <2>2. CASE \E e \in Edit(LineCount(file[s])) : CommitEdits(s, "Modification", <<e>>)
    <3>1. PICK e \in Edit(LineCount(file[s])) : CommitEdits(s, "Modification", <<e>>)
      BY <2>2
    <3>2. HeadersAgree(<<e>>)
      <4>1. GixHeaders = FALSE \/ (e.old # 0 /\ e.new # 0)
        BY <1>4
      <4>2. DOMAIN <<e>> = {1} /\ <<e>>[1] = e
        OBVIOUS
      <4> QED BY <4>1, <4>2 DEF HeadersAgree
    <3>3. EditsOK(<<e>>, LineCount(file[s]))
      BY <1>2, <1>3, OneEdit
    <3> QED BY <2>1, <3>1, <3>2, <3>3, CommitKeeps
  <2>3. CASE \E e, f \in Edit(LineCount(file[s])) :
               e.top + e.old < f.top /\ CommitEdits(s, "Modification", <<e, f>>)
    <3>1. PICK e, f \in Edit(LineCount(file[s])) :
            e.top + e.old < f.top /\ CommitEdits(s, "Modification", <<e, f>>)
      BY <2>3
    <3>2. HeadersAgree(<<e, f>>)
      <4>1. /\ GixHeaders = FALSE \/ (e.old # 0 /\ e.new # 0)
            /\ GixHeaders = FALSE \/ (f.old # 0 /\ f.new # 0)
        BY <1>4
      <4>2. DOMAIN <<e, f>> = {1, 2} /\ <<e, f>>[1] = e /\ <<e, f>>[2] = f
        OBVIOUS
      <4> QED BY <4>1, <4>2 DEF HeadersAgree
    <3>3. EditsOK(<<e, f>>, LineCount(file[s]))
      BY <1>2, <1>3, <3>1, TwoEdits
    <3> QED BY <2>1, <3>1, <3>2, <3>3, CommitKeeps
  <2> QED BY <1>5, <2>2, <2>3 DEF Modify
<1>6. ASSUME NEW s \in Stack, Delete(s) PROVE Inv'
  <2>1. CommitEdits(s, "Deletion", Whole(LineCount(file[s]), 0)) /\ "Deletion" \in ChangeKind
    BY <1>6 DEF Delete, ChangeKind
  <2>2. EditsOK(Whole(LineCount(file[s]), 0), LineCount(file[s]))
    BY <1>2, WholeEdit
  <2>3. ~AllPresent'
    <3>1. present' = [present EXCEPT ![s] = FALSE] /\ present \in [Stack -> BOOLEAN]
      BY <2>1 DEF CommitEdits, Inv, TypeOK
    <3> QED BY <3>1 DEF AllPresent
  <2>4. HeadersAgree(Whole(LineCount(file[s]), 0))
    BY <2>3 DEF HeadersAgree
  <2> QED BY <2>1, <2>2, <2>4, CommitKeeps
<1>7. ASSUME NEW s \in Stack, Create(s) PROVE Inv'
  <2>1. PICK n \in NewLines : CommitEdits(s, "Addition", Whole(0, n))
    BY <1>7 DEF Create
  <2>2. EditsOK(Whole(0, n), LineCount(file[s])) /\ "Addition" \in ChangeKind
    BY <1>2, HunkRangesAssumption, WholeEdit DEF ChangeKind
  <2>3. HeadersAgree(Whole(0, n))
    BY <1>7 DEF Create, AllPresent, HeadersAgree
  <2> QED BY <2>1, <2>2, <2>3, CommitKeeps
<1> QED BY <1>1, <1>5, <1>6, <1>7 DEF Next

\* The ranges of every stack are right at any time, with headers as this crate documents
\* them.
LEMMA Invariance == ASSUME GixHeaders = FALSE PROVE Spec => []Inv
<1>1. Inv /\ [Next]_vars => Inv'
  BY NextOK
<1> QED BY <1>1, InitOK, PTL DEF Spec

\* And with any headers, where commits substitute lines.
LEMMA SubstitutionInvariance ==
  ASSUME Substituting PROVE Spec /\ []AllPresent => []Inv
<1>1. Inv /\ AllPresent /\ AllPresent' /\ [Next]_vars => Inv'
  BY NextOK
<1> QED BY <1>1, InitOK, PTL DEF Spec

\* The types, for any number of stacks, commits, hunks and lines: no subtraction
\* or conversion to u32 in `add` and `receive` fails, so that no commit is
\* reported as a CalculationError.
THEOREM RangesTyped == ASSUME GixHeaders = FALSE PROVE Spec => []TypeOK
<1>1. Inv => TypeOK
  BY DEF Inv
<1> QED BY <1>1, Invariance, PTL

\* Ranges that name the places of a file claim what its commits own.
LEMMA MatchingClaims ==
  ASSUME NEW places, NEW m, FileOf(places, m), NEW rs, RangesOK(rs), Matches(rs, places, m)
  PROVE  Claims(rs) = Owned(Blame(places))
<1>1. ASSUME NEW claim PROVE claim \in Claims(rs) <=> claim \in Owned(Blame(places))
  <2>1. claim \in Claims(rs)
          <=> \E gap \in BOOLEAN, n \in Int, c \in Commit : claim = Claim(gap, n, c) /\ Says(rs, gap, n, c)
    BY ClaimsAre
  <2>2. claim \in Owned(Blame(places))
          <=> \E gap \in BOOLEAN, n \in Int, c \in Commit :
                claim = Claim(gap, n, c) /\ FileSays(places, m, gap, n, c)
    BY BlameIs
  <2> QED BY <2>1, <2>2 DEF Matches
<1> QED BY <1>1

\* The invariant says what the ranges claim.
LEMMA InvBlames == ASSUME Inv PROVE RangesAreBlame
<1> SUFFICES ASSUME NEW s \in Stack PROVE Claims(ranges[s]) = Owned(Blame(file[s]))
  BY DEF RangesAreBlame
<1>1. /\ FileOf(file[s], LineCount(file[s])) /\ RangesOK(ranges[s])
      /\ Matches(ranges[s], file[s], LineCount(file[s]))
  BY DEF Inv, StackOK, StackRanges
<1> QED BY <1>1, MatchingClaims

\* The ranges of a stack name exactly the lines its commits wrote and the
\* places where they removed lines, however later commits trimmed, split and
\* moved them, for any number of stacks, commits, hunks and lines.
THEOREM RangesBlame == ASSUME GixHeaders = FALSE PROVE Spec => []RangesAreBlame
BY InvBlames, Invariance, PTL

\* The ranges of a stack are in order.
LEMMA InOrder == ASSUME Inv, NEW s \in Stack PROVE Ordered(ranges[s])
<1> DEFINE rs == ranges[s]
<1>1. RangesOK(rs)
  BY DEF Inv, StackOK, StackRanges
<1> HIDE DEF rs
<1>2. rs \in Seq(GoodRange) /\ Len(rs) \in Nat /\ DOMAIN rs = 1 .. Len(rs)
  BY <1>1 DEF RangesOK
<1>3. ASSUME NEW i \in 1 .. Len(rs) - 1 PROVE RangeBottom(rs[i]) <= RangeTop(rs[i + 1])
  <2>1. i \in DOMAIN rs /\ i + 1 \in DOMAIN rs /\ i < i + 1
    BY <1>2
  <2> QED BY <1>1, <2>1 DEF RangesOK
<1> QED BY <1>3 DEF Ordered, RangeTop, RangeBottom, rs

\* They are in order and do not overlap: what combining the stacks relies on.
THEOREM RangesInOrder ==
  ASSUME GixHeaders = FALSE PROVE Spec => [](\A s \in Stack : Ordered(ranges[s]))
<1>1. Inv => \A s \in Stack : Ordered(ranges[s])
  BY InOrder
<1> QED BY <1>1, Invariance, PTL

\* A range ends within the file, and begins above a line that is no commit's
\* when it ends above it.
LEMMA RangesWithin ==
  ASSUME NEW places, NEW m, FileOf(places, m), NEW rs, RangesOK(rs), Matches(rs, places, m),
         NEW i \in DOMAIN rs
  PROVE  /\ rs[i].start <= m /\ RangeBottom(rs[i]) <= m /\ rs[i].start \in Nat /\ RangeBottom(rs[i]) \in Nat
         /\ \A n \in Int : Free(rs, n) => (rs[i].start < n <=> RangeBottom(rs[i]) < n)
<1> DEFINE r == rs[i]
           bottom == RangeBottom(r)
<1>1. r \in GoodRange
  BY DEF RangesOK
<1>2. r.start \in Nat /\ r.lines \in Nat /\ r.commit \in Commit
  BY <1>1 DEF GoodRange, HunkRange
<1>3. /\ RangeTop(r) = IF r.lines = 0 THEN r.start ELSE r.start - 1
      /\ bottom = RangeTop(r) + r.lines /\ bottom \in Nat /\ r.start <= bottom
  BY <1>2 DEF RangeTop, RangeBottom, Top, Bottom
<1>4. m \in Nat
  BY DEF FileOf
<1>5. Owns(r, r.lines = 0, bottom)
  BY <1>2, <1>3 DEF Owns
<1>6. Says(rs, r.lines = 0, bottom, r.commit)
  BY <1>5 DEF Says
<1> DEFINE gap == r.lines = 0
<1>7. FileSays(places, m, gap, bottom, r.commit)
  <2>1. gap \in BOOLEAN /\ bottom \in Int
    BY <1>3
  <2> QED BY <1>2, <1>6, <2>1 DEF Matches
<1>8. bottom <= m
  BY <1>7 DEF FileSays
<1>9. ASSUME NEW n \in Int, Free(rs, n) PROVE r.start < n <=> bottom < n
  <2>1. ~Owns(r, FALSE, n)
    BY <1>9 DEF Free
  <2> HIDE DEF r, bottom
  <2>2. ~(RangeTop(r) < n /\ n <= bottom)
    BY <2>1 DEF Owns, bottom
  <2> QED BY <1>2, <1>3, <2>2
<1> HIDE DEF r, bottom
<1>10. r.start <= m
  BY <1>2, <1>3, <1>4, <1>8
<1> QED BY <1>2, <1>3, <1>8, <1>9, <1>10 DEF r, bottom

\* The shifts, for any number of stacks, commits, hunks and lines: however
\* `receive` divides them, those of the ranges above a line of the merge base
\* add up to how far that line has moved, and all of them to how much the file
\* has grown.
THEOREM ShiftsAddUpHolds == ASSUME GixHeaders = FALSE PROVE Spec => []ShiftsAddUp
<1>1. Inv => ShiftsAddUp
  <2> SUFFICES ASSUME Inv, NEW s \in Stack
               PROVE  LET rs == ranges[s]
                          places == file[s]
                          Before(n) == SumOf([i \in DOMAIN rs |-> IF rs[i].start < n THEN rs[i].shift ELSE 0])
                          m == LineCount(places)
                      IN  /\ Ordered(rs)
                          /\ Before(m + 2) = m - BaseLines
                          /\ \A n \in 1 .. m : LineAt(places, n).base # 0 => Before(n) = n - LineAt(places, n).base
    BY DEF ShiftsAddUp
  <2> DEFINE rs == ranges[s]
             places == file[s]
             m == LineCount(places)
             Starts(n) == [i \in DOMAIN rs |-> IF rs[i].start < n THEN rs[i].shift ELSE 0]
  <2>1. Ordered(rs)
    BY InOrder
  <2>2. FileOf(places, m) /\ RangesOK(rs) /\ Matches(rs, places, m) /\ ShiftsMatch(rs, places, m)
    BY DEF Inv, StackOK, StackRanges
  <2>3. m \in Nat /\ BaseLines \in Nat
    BY <2>2, HunkRangesAssumption DEF FileOf
  <2> HIDE DEF rs, places, m
  <2>4. ASSUME NEW i \in DOMAIN rs
        PROVE  /\ rs[i].start < m + 2 /\ RangeBottom(rs[i]) < m + 1
               /\ \A n \in Int : Free(rs, n) => (rs[i].start < n <=> RangeBottom(rs[i]) < n)
    <3>1. /\ rs[i].start <= m /\ RangeBottom(rs[i]) <= m /\ rs[i].start \in Nat /\ RangeBottom(rs[i]) \in Nat
          /\ \A n \in Int : Free(rs, n) => (rs[i].start < n <=> RangeBottom(rs[i]) < n)
      BY <2>2, RangesWithin
    <3> QED BY <2>3, <3>1
  <2>5. SumOf(Starts(m + 2)) = m - BaseLines
    <3>1. Starts(m + 2) = Counted(rs, m + 1)
      BY <2>4, Zenon DEF Counted
    <3>2. Origin(places, m, m + 1) = BaseLines + 1 /\ m + 1 \in Int
      BY <2>3 DEF Origin
    <3>3. Origin(places, m, m + 1) # 0
      BY <2>3, <3>2
    <3>4. ShiftAbove(rs, m + 1) = (m + 1) - (BaseLines + 1)
      BY <2>2, <3>2, <3>3 DEF ShiftsMatch
    <3>5. (m + 1) - (BaseLines + 1) = m - BaseLines
      BY <2>3
    <3> QED BY <3>1, <3>4, <3>5 DEF ShiftAbove
  <2>6. ASSUME NEW n \in 1 .. m, LineAt(places, n).base # 0
        PROVE  SumOf(Starts(n)) = n - LineAt(places, n).base
    <3>1. Origin(places, m, n) = LineAt(places, n).base /\ n \in Int
      BY <2>3 DEF Origin
    <3>2. Origin(places, m, n) # 0
      BY <2>6, <3>1
    <3>3. \A d \in Commit : Says(rs, FALSE, n, d) => FileSays(places, m, FALSE, n, d)
      BY <2>2, <3>1 DEF Matches
    <3>4. Free(rs, n)
      BY <2>2, <3>1, <3>2, <3>3, OriginFree
    <3>5. Starts(n) = Counted(rs, n)
      BY <2>4, <3>1, <3>4, Zenon DEF Counted
    <3>6. ShiftAbove(rs, n) = n - Origin(places, m, n)
      BY <2>2, <3>1, <3>2 DEF ShiftsMatch
    <3> QED BY <3>1, <3>5, <3>6 DEF ShiftAbove
  <2> QED BY <2>1, <2>5, <2>6 DEF rs, places, m
<1> QED BY <1>1, Invariance, PTL

-----------------------------------------------------------------------------
(* combine_path_ranges and the lookup *)

\* One more number.
LEMMA SumsNext ==
  ASSUME NEW a \in Seq(Int), NEW i \in 1 .. Len(a)
  PROVE  Sums(a)[i] = Sums(a)[i - 1] + a[i] /\ Sums(a)[i - 1] \in Int /\ Sums(a)[i] \in Int /\ a[i] \in Int
<1>1. i - 1 \in 0 .. Len(a) /\ i \in 0 .. Len(a) /\ a[i] \in Int
  OBVIOUS
<1> QED BY <1>1, SumsAre

\* A sum with one number changed.
LEMMA SumOfChanged ==
  ASSUME NEW a \in Seq(Int), NEW b \in Seq(Int), Len(a) = Len(b),
         NEW s \in 1 .. Len(a), NEW d \in Int, b[s] = a[s] + d,
         \A i \in 1 .. Len(a) : i # s => b[i] = a[i]
  PROVE  SumOf(b) = SumOf(a) + d
<1> DEFINE N == Len(a)
           S == {i \in 0 .. N : /\ i < s => Sums(b)[i] = Sums(a)[i]
                                /\ s <= i => Sums(b)[i] = Sums(a)[i] + d}
<1>1. N \in Nat /\ s \in 1 .. N
  OBVIOUS
<1>2. 0 \in S
  <2>1. Sums(a)[0] = 0 /\ Sums(b)[0] = 0 /\ 0 \in 0 .. N /\ 0 < s
    BY <1>1, SumsAre
  <2> HIDE DEF N
  <2> QED BY <2>1
<1>3. ASSUME NEW i \in 1 .. N, i - 1 \in S PROVE i \in S
  <2>1. /\ Sums(a)[i] = Sums(a)[i - 1] + a[i] /\ Sums(b)[i] = Sums(b)[i - 1] + b[i]
        /\ Sums(a)[i - 1] \in Int /\ Sums(b)[i - 1] \in Int /\ a[i] \in Int /\ b[i] \in Int
    <3>1. i \in 1 .. Len(a) /\ i \in 1 .. Len(b)
      OBVIOUS
    <3> QED BY <3>1, SumsNext
  <2>2. /\ i - 1 < s => Sums(b)[i - 1] = Sums(a)[i - 1]
        /\ s <= i - 1 => Sums(b)[i - 1] = Sums(a)[i - 1] + d
    BY <1>3
  <2>3. (i = s => b[i] = a[i] + d) /\ (i # s => b[i] = a[i])
    OBVIOUS
  <2>4. /\ i \in 0 .. N
        /\ \/ i < s /\ i - 1 < s /\ i # s /\ ~(s <= i)
           \/ i = s /\ i - 1 < s /\ ~(i < s)
           \/ i # s /\ s <= i - 1 /\ ~(i < s)
    BY <1>1
  <2> HIDE DEF N
  <2>5. \A x, n \in Int : (x + d) + n = (x + n) + d /\ x + (n + d) = (x + n) + d
    OBVIOUS
  <2>6. /\ i < s => Sums(b)[i] = Sums(a)[i]
        /\ s <= i => Sums(b)[i] = Sums(a)[i] + d
    BY <2>1, <2>2, <2>3, <2>4, <2>5, ZenonT(60)
  <2> QED BY <2>4, <2>6
<1> HIDE DEF S, N
<1>4. 0 .. N \subseteq S
  BY <1>1, <1>2, <1>3, BoundedInduction
<1>5. N \in S /\ s <= N
  BY <1>1, <1>4
<1>6. Sums(b)[N] = Sums(a)[N] + d
  BY <1>5 DEF S
<1> QED BY <1>6 DEF SumOf, N

\* A sum of naturals.
LEMMA SumOfNaturals ==
  ASSUME NEW a \in Seq(Int), \A i \in 1 .. Len(a) : a[i] >= 0
  PROVE  SumOf(a) \in Nat
<1> DEFINE N == Len(a)
           S == {i \in 0 .. N : Sums(a)[i] \in Nat}
<1>1. N \in Nat
  OBVIOUS
<1>2. 0 \in S
  <2>1. Sums(a)[0] = 0
    BY SumsAre
  <2> QED BY <1>1, <2>1
<1>3. ASSUME NEW i \in 1 .. N, i - 1 \in S PROVE i \in S
  <2>1. Sums(a)[i] = Sums(a)[i - 1] + a[i] /\ a[i] \in Int /\ a[i] >= 0
    BY SumsNext
  <2>2. Sums(a)[i - 1] \in Nat /\ i \in 0 .. N
    BY <1>1, <1>3
  <2> QED BY <2>1, <2>2
<1> HIDE DEF S, N
<1>4. 0 .. N \subseteq S
  BY <1>1, <1>2, <1>3, BoundedInduction
<1>5. N \in S
  BY <1>1, <1>4
<1> QED BY <1>5 DEF S, N, SumOf

\* Numbers none of which is greater have the same sum only if they are the same.
LEMMA SumOfSmaller ==
  ASSUME NEW a \in Seq(Int), NEW b \in Seq(Int), Len(a) = Len(b),
         \A i \in 1 .. Len(a) : a[i] <= b[i], SumOf(a) = SumOf(b)
  PROVE  \A i \in 1 .. Len(a) : a[i] = b[i]
<1> SUFFICES ASSUME NEW s \in 1 .. Len(a), a[s] # b[s] PROVE FALSE
  OBVIOUS
<1> DEFINE N == Len(a)
           S == {i \in 0 .. N : /\ Sums(a)[i] <= Sums(b)[i]
                                /\ s <= i => Sums(a)[i] < Sums(b)[i]}
<1>1. N \in Nat /\ s \in 1 .. N
  OBVIOUS
<1>2. 0 \in S
  <2>1. Sums(a)[0] = 0 /\ Sums(b)[0] = 0 /\ 0 \in 0 .. N /\ 0 < s
    BY <1>1, SumsAre
  <2> HIDE DEF N
  <2> QED BY <2>1
<1>3. ASSUME NEW i \in 1 .. N, i - 1 \in S PROVE i \in S
  <2>1. /\ Sums(a)[i] = Sums(a)[i - 1] + a[i] /\ Sums(b)[i] = Sums(b)[i - 1] + b[i]
        /\ Sums(a)[i - 1] \in Int /\ Sums(b)[i - 1] \in Int /\ a[i] \in Int /\ b[i] \in Int
    <3>1. i \in 1 .. Len(a) /\ i \in 1 .. Len(b)
      OBVIOUS
    <3> QED BY <3>1, SumsNext
  <2>2. /\ Sums(a)[i - 1] <= Sums(b)[i - 1]
        /\ s <= i - 1 => Sums(a)[i - 1] < Sums(b)[i - 1]
    BY <1>3
  <2>3. a[i] <= b[i] /\ (i = s => a[i] < b[i])
    BY <2>1
  <2>4. i \in 0 .. N /\ (s <= i => i = s \/ s <= i - 1)
    BY <1>1
  <2> HIDE DEF N
  <2>5. \A x, y, n, o \in Int :
          x <= y /\ n <= o => x + n <= y + o /\ (x < y \/ n < o => x + n < y + o)
    OBVIOUS
  <2>6. Sums(a)[i] <= Sums(b)[i] /\ (s <= i => Sums(a)[i] < Sums(b)[i])
    BY <2>1, <2>2, <2>3, <2>4, <2>5, ZenonT(60)
  <2> QED BY <2>4, <2>6
<1> HIDE DEF S, N
<1>4. 0 .. N \subseteq S
  BY <1>1, <1>2, <1>3, BoundedInduction
<1>5. N \in S /\ s <= N
  BY <1>1, <1>4
<1>6. Sums(a)[N] < Sums(b)[N]
  BY <1>5 DEF S
<1>7. Sums(a)[N] \in Int /\ Sums(a)[N] = Sums(b)[N]
  <2>1. N \in 0 .. Len(a) /\ N = Len(a) /\ N = Len(b)
    BY <1>1 DEF N
  <2> QED BY <2>1, SumsAre DEF SumOf
<1> QED BY <1>6, <1>7

\* The stack that is next is one that has a range left.
LEMMA NextStackIs ==
  ASSUME NEW byStack \in [Stack -> Seq(HunkRange)], NEW next \in [Stack -> Nat],
         \A s \in Stack : next[s] >= 1,
         \E s \in Stack : next[s] <= Len(byStack[s])
  PROVE  LET s == NextStack(next, byStack)
         IN  s \in Stack /\ next[s] \in 1 .. Len(byStack[s])
<1> DEFINE open == {s \in DOMAIN byStack : next[s] <= Len(byStack[s])}
           key == [s \in open |-> byStack[s][next[s]].start + byStack[s][next[s]].start]
           keys == {key[s] : s \in open}
           least == {s \in open : \A t \in open : key[s] <= key[t]}
<1>1. DOMAIN byStack = Stack /\ Stack \subseteq Nat
  BY DEF Stack
<1>2. ASSUME NEW s \in open PROVE s \in Stack /\ next[s] \in 1 .. Len(byStack[s]) /\ key[s] \in Nat
  <2>1. s \in Stack /\ next[s] <= Len(byStack[s]) /\ next[s] >= 1 /\ next[s] \in Nat
    BY <1>1
  <2>2. byStack[s] \in Seq(HunkRange) /\ next[s] \in 1 .. Len(byStack[s])
    BY <2>1
  <2>3. byStack[s][next[s]] \in HunkRange
    BY <2>2
  <2>4. byStack[s][next[s]].start \in Nat
    BY <2>3 DEF HunkRange
  <2> QED BY <2>1, <2>2, <2>4
<1>3. open # {}
  BY <1>1
<1> HIDE DEF open, key
<1>4. least # {}
  <2>1. keys # {} /\ keys \subseteq Nat
    BY <1>2, <1>3
  <2>2. PICK x \in keys : \A y \in keys : x <= y
    BY <2>1, LeastNatural
  <2> QED BY <2>2
<1>5. least \subseteq Nat
  BY <1>1, <1>2
<1>6. Min(least) \in least
  <2>1. \E x \in least : \A y \in least : x <= y
    BY <1>4, <1>5, LeastNatural
  <2> QED BY <2>1 DEF Min
<1>7. NextStack(next, byStack) = Min(least)
  BY DEF NextStack, open, key
<1>8. NextStack(next, byStack) \in open
  BY <1>6, <1>7
<1> QED BY <1>2, <1>8

\* How many ranges are taken of each stack, and by how much those of the other
\* stacks move stack t.
Taken(next) == [s \in Stack |-> next[s] - 1]
Others(byStack, next, t) ==
  [s \in Stack |-> IF s = t THEN 0 ELSE Sums(AllShifts(byStack[s]))[next[s] - 1]]

\* A range of stack s, moved by the shifts of the first ranges of each other
\* stack, as many of each as were taken before it.
IsMoved(byStack, s, q, r) ==
  \E next \in [Stack -> Nat] :
    /\ \A t \in Stack : next[t] \in 1 .. Len(byStack[t]) + 1
    /\ q = [r EXCEPT !.start = Max({0, @ + SumOf(Others(byStack, next, s))})]

\* After k ranges: k are taken, those that are taken and no others are in the
\* combined sequence, and each stack is to move by the shifts of the others'.
CombineOK(byStack, k, acc) ==
  /\ acc.out \in Seq(HunkRange) /\ Len(acc.out) = k
  /\ acc.next \in [Stack -> Nat] /\ \A s \in Stack : acc.next[s] \in 1 .. Len(byStack[s]) + 1
  /\ SumOf(Taken(acc.next)) = k
  /\ acc.moved \in [Stack -> Int]
  /\ \A t \in Stack : acc.moved[t] = SumOf(Others(byStack, acc.next, t))
  /\ \A s \in Stack : \A j \in 1 .. acc.next[s] - 1 : \E i \in 1 .. k : IsMoved(byStack, s, acc.out[i], byStack[s][j])
  /\ \A i \in 1 .. k : \E s \in Stack : \E j \in 1 .. Len(byStack[s]) : IsMoved(byStack, s, acc.out[i], byStack[s][j])

\* Before the first turn of the loop.
NothingTaken == [out |-> <<>>, next |-> [s \in Stack |-> 1], moved |-> [s \in Stack |-> 0]]

\* The shifts of ranges are numbers.
LEMMA AllShiftsAre ==
  ASSUME NEW rs \in Seq(GoodRange)
  PROVE  /\ AllShifts(rs) \in Seq(Int) /\ Len(AllShifts(rs)) = Len(rs)
         /\ \A i \in 1 .. Len(rs) : AllShifts(rs)[i] = rs[i].shift
<1>1. 0 \in Int
  OBVIOUS
<1> QED BY <1>1, CountedIs

\* They are numbers, one for each stack.
LEMMA StackNumbers ==
  ASSUME NEW f \in [Stack -> Int]
  PROVE  f \in Seq(Int) /\ Len(f) = Stacks /\ 1 .. Len(f) = Stack
<1>1. Stacks \in Nat /\ Stack = 1 .. Stacks
  BY HunkRangesAssumption DEF Stack
<1> QED BY <1>1

\* What is taken, and the shifts of it.
LEMMA TakenIs ==
  ASSUME NEW byStack \in [Stack -> Seq(GoodRange)], NEW next \in [Stack -> Nat],
         \A s \in Stack : next[s] \in 1 .. Len(byStack[s]) + 1
  PROVE  /\ Taken(next) \in [Stack -> Int]
         /\ [s \in Stack |-> Len(byStack[s])] \in [Stack -> Int]
         /\ \A t \in Stack : Others(byStack, next, t) \in [Stack -> Int]
<1>1. ASSUME NEW s \in Stack
      PROVE  next[s] - 1 \in Int /\ Len(byStack[s]) \in Int /\ Sums(AllShifts(byStack[s]))[next[s] - 1] \in Int
  <2>1. byStack[s] \in Seq(GoodRange) /\ Len(byStack[s]) \in Nat /\ next[s] - 1 \in 0 .. Len(byStack[s])
    OBVIOUS
  <2>2. AllShifts(byStack[s]) \in Seq(Int) /\ Len(AllShifts(byStack[s])) = Len(byStack[s])
    BY <2>1, AllShiftsAre
  <2>3. Sums(AllShifts(byStack[s]))[next[s] - 1] \in Int
    BY <2>1, <2>2, SumsAre
  <2> QED BY <2>1, <2>3
<1> QED BY <1>1 DEF Taken, Others

\* While fewer ranges are taken than there are, a stack has one left.
LEMMA RangesLeft ==
  ASSUME NEW byStack \in [Stack -> Seq(GoodRange)]
  PROVE  /\ RangeCount(byStack) \in Nat
         /\ \A k \in 1 .. RangeCount(byStack) : \A next \in [Stack -> Nat] :
              SumOf(Taken(next)) = k - 1 /\ (\A t \in Stack : next[t] \in 1 .. Len(byStack[t]) + 1) =>
                \E t \in Stack : next[t] <= Len(byStack[t])
<1> DEFINE lens == [t \in Stack |-> Len(byStack[t])]
<1>1. lens \in [Stack -> Int] /\ \A t \in Stack : lens[t] = Len(byStack[t]) /\ lens[t] >= 0
  OBVIOUS
<1>2. RangeCount(byStack) = SumOf(lens)
  BY DEF RangeCount
<1> HIDE DEF lens
<1>3. lens \in Seq(Int) /\ 1 .. Len(lens) = Stack
  BY <1>1, StackNumbers
<1>4. RangeCount(byStack) \in Nat
  BY <1>1, <1>2, <1>3, SumOfNaturals
<1>5. ASSUME NEW k \in 1 .. RangeCount(byStack), NEW next \in [Stack -> Nat],
             \A t \in Stack : next[t] \in 1 .. Len(byStack[t]) + 1,
             \A t \in Stack : ~(next[t] <= Len(byStack[t]))
      PROVE  SumOf(Taken(next)) # k - 1
  <2>1. \A t \in Stack : next[t] - 1 = lens[t]
    BY <1>1, <1>5
  <2>2. Taken(next) = lens
    BY <1>1, <2>1 DEF Taken
  <2> QED BY <1>2, <1>4, <2>2
<1> QED BY <1>4, <1>5

\* When all of them are taken, each stack's are.
LEMMA NoneLeft ==
  ASSUME NEW byStack \in [Stack -> Seq(GoodRange)], NEW next \in [Stack -> Nat],
         \A t \in Stack : next[t] \in 1 .. Len(byStack[t]) + 1, SumOf(Taken(next)) = RangeCount(byStack)
  PROVE  \A s \in Stack : next[s] - 1 = Len(byStack[s])
<1> DEFINE lens == [s \in Stack |-> Len(byStack[s])]
           a == Taken(next)
<1>1. a \in [Stack -> Int] /\ lens \in [Stack -> Int]
  BY TakenIs
<1>2. \A t \in Stack : a[t] = next[t] - 1 /\ lens[t] = Len(byStack[t]) /\ a[t] <= lens[t]
  BY DEF Taken
<1>3. SumOf(a) = SumOf(lens)
  BY DEF RangeCount
<1> HIDE DEF a, lens
<1>4. /\ a \in Seq(Int) /\ lens \in Seq(Int) /\ Len(a) = Len(lens) /\ 1 .. Len(a) = Stack
  BY <1>1, StackNumbers
<1>5. \A t \in 1 .. Len(a) : a[t] = lens[t]
  BY <1>2, <1>3, <1>4, SumOfSmaller
<1> QED BY <1>2, <1>4, <1>5

\* One more range.
LEMMA CombineStepOK ==
  ASSUME NEW byStack \in [Stack -> Seq(GoodRange)], NEW k \in 1 .. RangeCount(byStack),
         NEW acc, CombineOK(byStack, k - 1, acc)
  PROVE  CombineOK(byStack, k, CombineNext(acc, byStack))
<1> DEFINE next == acc.next
           s == NextStack(next, byStack)
           j == next[s]
           r == byStack[s][j]
           d == acc.moved[s]
           q == [r EXCEPT !.start = Max({0, @ + d})]
           out2 == Append(acc.out, q)
           next2 == [next EXCEPT ![s] = @ + 1]
           moved2 == [t \in DOMAIN byStack |-> acc.moved[t] + (IF t = s THEN 0 ELSE r.shift)]
           now == CombineNext(acc, byStack)
<1>1. /\ acc.out \in Seq(HunkRange) /\ Len(acc.out) = k - 1
      /\ next \in [Stack -> Nat] /\ \A t \in Stack : next[t] \in 1 .. Len(byStack[t]) + 1
      /\ SumOf(Taken(next)) = k - 1
      /\ acc.moved \in [Stack -> Int]
      /\ \A t \in Stack : acc.moved[t] = SumOf(Others(byStack, next, t))
      /\ \A t \in Stack : \A i \in 1 .. next[t] - 1 : \E h \in 1 .. k - 1 : IsMoved(byStack, t, acc.out[h], byStack[t][i])
      /\ \A h \in 1 .. k - 1 : \E t \in Stack : \E i \in 1 .. Len(byStack[t]) : IsMoved(byStack, t, acc.out[h], byStack[t][i])
  BY DEF CombineOK
<1>2. now.out = out2 /\ now.next = next2 /\ now.moved = moved2
  BY DEF CombineNext
<1>3. DOMAIN byStack = Stack /\ \A t \in Stack : byStack[t] \in Seq(GoodRange) /\ Len(byStack[t]) \in Nat
  OBVIOUS
<1>4. k \in Nat /\ RangeCount(byStack) \in Nat
  BY RangesLeft
<1> HIDE DEF next, now
<1>5. \E t \in Stack : next[t] <= Len(byStack[t])
  BY <1>1, RangesLeft
<1>6. s \in Stack /\ j \in 1 .. Len(byStack[s]) /\ j \in Nat
  <2>1. byStack \in [Stack -> Seq(HunkRange)]
    <3>1. GoodRange \subseteq HunkRange
      BY DEF GoodRange
    <3> QED BY <1>3, <3>1
  <2>2. \A t \in Stack : next[t] >= 1
    BY <1>1, <1>3
  <2> QED BY <1>1, <1>5, <2>1, <2>2, NextStackIs
<1> HIDE DEF s
<1>7. r \in GoodRange /\ r \in HunkRange /\ r.shift \in Int
  <2>1. r \in GoodRange
    BY <1>3, <1>6
  <2> HIDE DEF r
  <2> QED BY <2>1 DEF GoodRange, HunkRange
<1>8. d \in Int
  BY <1>1, <1>6
<1> HIDE DEF d
<1>9. q \in HunkRange
  <2> DEFINE x == Max({0, r.start + d})
  <2>1. r.start \in Nat /\ r.start + d \in Int
    BY <1>7, <1>8 DEF HunkRange
  <2>2. \E y \in {0, r.start + d} : \A z \in {0, r.start + d} : y >= z
    BY <2>1
  <2>3. x \in {0, r.start + d} /\ x >= 0
    BY <2>2 DEF Max
  <2>4. x \in Nat
    BY <2>1, <2>3
  <2> HIDE DEF x, r
  <2>5. [r EXCEPT !.start = x] \in HunkRange
    BY <1>7, <2>4 DEF HunkRange
  <2> QED BY <2>5 DEF x
<1>10. IsMoved(byStack, s, q, r)
  <2>1. q = [r EXCEPT !.start = Max({0, @ + SumOf(Others(byStack, next, s))})]
    BY <1>1, <1>6 DEF d, q
  <2> QED BY <1>1, <2>1 DEF IsMoved
<1> HIDE DEF q, r
<1>11. /\ next2 \in [Stack -> Nat]
       /\ next2[s] = j + 1 /\ \A t \in Stack : t # s => next2[t] = next[t]
       /\ \A t \in Stack : next2[t] \in 1 .. Len(byStack[t]) + 1
  BY <1>1, <1>3, <1>6
<1> HIDE DEF next2
<1>12. SumOf(Taken(next2)) = k
  <2> DEFINE a == Taken(next)
             b == Taken(next2)
  <2>1. a \in [Stack -> Int] /\ b \in [Stack -> Int]
    BY <1>1, <1>11, TakenIs
  <2>2. b[s] = a[s] + 1 /\ \A t \in Stack : t # s => b[t] = a[t]
    <3>1. b[s] = (j + 1) - 1 /\ a[s] = j - 1
      BY <1>6, <1>11 DEF Taken
    <3>2. \A t \in Stack : t # s => b[t] = a[t]
      BY <1>11 DEF Taken
    <3> HIDE DEF a, b, j
    <3>3. b[s] = a[s] + 1
      BY <1>6, <3>1
    <3> QED BY <3>2, <3>3
  <2> HIDE DEF a, b
  <2>3. /\ a \in Seq(Int) /\ b \in Seq(Int) /\ Len(a) = Len(b) /\ 1 .. Len(a) = Stack
    BY <2>1, StackNumbers
  <2>4. SumOf(b) = SumOf(a) + 1
    <3>1. s \in 1 .. Len(a) /\ \A i \in 1 .. Len(a) : i # s => b[i] = a[i]
      <4> HIDE DEF j
      <4> QED BY <1>6, <2>2, <2>3
    <3>2. 1 \in Int
      OBVIOUS
    <3> QED BY <2>2, <2>3, <3>1, <3>2, SumOfChanged
  <2>5. SumOf(a) = k - 1
    BY <1>1 DEF a
  <2> QED BY <1>4, <2>4, <2>5 DEF b
<1>13. moved2 \in [Stack -> Int] /\ \A t \in Stack : moved2[t] = acc.moved[t] + (IF t = s THEN 0 ELSE r.shift)
  BY <1>1, <1>3, <1>7
<1> HIDE DEF moved2
<1>14. ASSUME NEW t \in Stack PROVE moved2[t] = SumOf(Others(byStack, next2, t))
  <2> DEFINE a == Others(byStack, next, t)
             b == Others(byStack, next2, t)
  <2>1. a \in [Stack -> Int] /\ b \in [Stack -> Int]
    BY <1>1, <1>11, TakenIs
  <2>2. \A u \in Stack : u # s => b[u] = a[u]
    BY <1>11 DEF Others
  <2>3. acc.moved[t] = SumOf(a) /\ acc.moved[t] \in Int
    BY <1>1
  <2>4. CASE t = s
    <3>1. b[s] = a[s]
      BY <1>6, <2>4 DEF Others
    <3>2. b = a
      <4> HIDE DEF a, b
      <4> QED BY <2>1, <2>2, <3>1
    <3>3. moved2[t] = acc.moved[t] + 0
      BY <1>13, <2>4
    <3> QED BY <2>3, <3>2, <3>3
  <2>5. CASE t # s
    <3> DEFINE shifts == AllShifts(byStack[s])
    <3>1. shifts \in Seq(Int) /\ Len(shifts) = Len(byStack[s]) /\ shifts[j] = r.shift
      BY <1>3, <1>6, AllShiftsAre DEF r
    <3>2. Sums(shifts)[j] = Sums(shifts)[j - 1] + r.shift
      <4> HIDE DEF shifts
      <4> QED BY <1>6, <3>1, SumsNext
    <3>3. b[s] = Sums(shifts)[(j + 1) - 1] /\ a[s] = Sums(shifts)[j - 1]
      BY <1>6, <1>11, <2>5 DEF Others
    <3>4. (j + 1) - 1 = j
      BY <1>6
    <3>5. b[s] = a[s] + r.shift
      BY <3>2, <3>3, <3>4
    <3> HIDE DEF a, b
    <3>6. /\ a \in Seq(Int) /\ b \in Seq(Int) /\ Len(a) = Len(b) /\ 1 .. Len(a) = Stack
      BY <2>1, StackNumbers
    <3>7. SumOf(b) = SumOf(a) + r.shift
      <4>1. s \in 1 .. Len(a) /\ \A i \in 1 .. Len(a) : i # s => b[i] = a[i]
        BY <1>6, <2>2, <3>6
      <4> QED BY <1>7, <3>5, <3>6, <4>1, SumOfChanged
    <3>8. moved2[t] = acc.moved[t] + r.shift
      BY <1>13, <2>5
    <3> QED BY <2>3, <3>7, <3>8 DEF b
  <2> QED BY <2>4, <2>5
<1>15. /\ out2 \in Seq(HunkRange) /\ Len(out2) = k /\ out2[k] = q
       /\ \A h \in 1 .. k - 1 : out2[h] = acc.out[h]
  <2> DEFINE o == acc.out
  <2>1. o \in Seq(HunkRange) /\ Len(o) = k - 1
    BY <1>1
  <2> HIDE DEF o
  <2>2. /\ Append(o, q) \in Seq(HunkRange) /\ Len(Append(o, q)) = Len(o) + 1
        /\ \A h \in 1 .. Len(o) : Append(o, q)[h] = o[h]
        /\ Append(o, q)[Len(o) + 1] = q
    BY <1>9, <2>1, AppendProperties
  <2>3. (k - 1) + 1 = k
    BY <1>4
  <2> QED BY <2>1, <2>2, <2>3 DEF o
<1> HIDE DEF out2
<1>16. k \in 1 .. k /\ \A h \in 1 .. k - 1 : h \in 1 .. k
  BY <1>4
<1>17. \A h \in 1 .. k : h = k \/ h \in 1 .. k - 1
  BY <1>4
<1>18. ASSUME NEW t \in Stack, NEW i \in 1 .. next2[t] - 1
       PROVE  \E h \in 1 .. k : IsMoved(byStack, t, out2[h], byStack[t][i])
  <2>1. CASE i \in 1 .. next[t] - 1
    <3>1. PICK h \in 1 .. k - 1 : IsMoved(byStack, t, acc.out[h], byStack[t][i])
      BY <1>1, <2>1
    <3> QED BY <1>15, <1>16, <3>1
  <2>2. CASE ~(i \in 1 .. next[t] - 1)
    <3>1. t = s
      BY <1>11, <2>2
    <3>2. i \in 1 .. (j + 1) - 1 /\ ~(i \in 1 .. j - 1)
      BY <1>11, <2>2, <3>1
    <3>3. i = j
      <4> HIDE DEF j
      <4> QED BY <1>6, <3>2
    <3> QED BY <1>10, <1>15, <1>16, <3>1, <3>3 DEF r
  <2> QED BY <2>1, <2>2
<1>19. ASSUME NEW h \in 1 .. k
       PROVE  \E t \in Stack : \E i \in 1 .. Len(byStack[t]) : IsMoved(byStack, t, out2[h], byStack[t][i])
  <2>1. CASE h = k
    BY <1>6, <1>10, <1>15, <2>1 DEF r
  <2>2. CASE h \in 1 .. k - 1
    BY <1>1, <1>15, <2>2
  <2> QED BY <1>17, <2>1, <2>2
<1>20. CombineOK(byStack, k, now)
  BY <1>2, <1>11, <1>12, <1>13, <1>14, <1>15, <1>18, <1>19 DEF CombineOK
<1> QED BY <1>20 DEF now

\* The recursive function CombineWalk is what its definition says, and by induction over the
\* turns of the loop as CombineOK has it.
LEMMA CombineWalkIs ==
  ASSUME NEW byStack \in [Stack -> Seq(GoodRange)]
  PROVE  /\ RangeCount(byStack) \in Nat
         /\ \A k \in 0 .. RangeCount(byStack) : CombineOK(byStack, k, CombineWalk(byStack)[k])
         /\ CombineWalk(byStack)[0] = NothingTaken
         /\ \A k \in 1 .. RangeCount(byStack) :
              CombineWalk(byStack)[k] = CombineNext(CombineWalk(byStack)[k - 1], byStack)
<1> DEFINE N == RangeCount(byStack)
           V == [out : Seq(HunkRange), next : [Stack -> Nat], moved : [Stack -> Int]]
           first == [out |-> <<>>, next |-> [s \in Stack |-> 1], moved |-> [s \in Stack |-> 0]]
           walk == CombineWalk(byStack)
           good == [i \in 0 .. N |-> {acc \in V : CombineOK(byStack, i, acc)}]
           step == [i \in 1 .. N |-> [acc \in V |-> CombineNext(acc, byStack)]]
<1>1. N \in Nat
  BY RangesLeft
<1>2. CombineOK(byStack, 0, first) /\ first \in V
  <2>1. /\ first.out \in Seq(HunkRange) /\ Len(first.out) = 0
        /\ first.next \in [Stack -> Nat] /\ first.moved \in [Stack -> Int]
        /\ \A s \in Stack : first.next[s] = 1 /\ first.moved[s] = 0
    OBVIOUS
  <2>2. first \in V
    OBVIOUS
  <2> HIDE DEF first, V
  <2>3. \A s \in Stack : first.next[s] \in 1 .. Len(byStack[s]) + 1
    BY <2>1
  <2>4. SumOf(Taken(first.next)) = 0
    <3> DEFINE a == Taken(first.next)
    <3>1. a \in [Stack -> Int] /\ \A s \in Stack : a[s] = 0
      BY <2>1 DEF Taken
    <3> HIDE DEF a
    <3>2. a \in Seq(Int) /\ 1 .. Len(a) = Stack
      BY <3>1, StackNumbers
    <3> QED BY <3>1, <3>2, SumOfZeros DEF a
  <2>5. ASSUME NEW t \in Stack PROVE SumOf(Others(byStack, first.next, t)) = 0
    <3> DEFINE a == Others(byStack, first.next, t)
    <3>1. ASSUME NEW s \in Stack PROVE a[s] = 0
      <4>1. AllShifts(byStack[s]) \in Seq(Int)
        BY AllShiftsAre
      <4>2. Sums(AllShifts(byStack[s]))[0] = 0
        BY <4>1, SumsAre
      <4>3. first.next[s] - 1 = 0
        BY <2>1
      <4> QED BY <4>2, <4>3 DEF Others
    <3>2. a \in [Stack -> Int]
      BY <2>1, <2>3, TakenIs
    <3> HIDE DEF a
    <3>3. a \in Seq(Int) /\ 1 .. Len(a) = Stack
      BY <3>2, StackNumbers
    <3> QED BY <3>1, <3>3, SumOfZeros DEF a
  <2>6. \A s \in Stack : first.next[s] - 1 = 0
    BY <2>1
  <2>7. \A i \in 1 .. 0 : FALSE
    OBVIOUS
  <2>8. \A s \in Stack : \A i \in 1 .. first.next[s] - 1 : FALSE
    BY <2>6
  <2> QED BY <2>1, <2>2, <2>3, <2>4, <2>5, <2>7, <2>8 DEF CombineOK
<1>3. ASSUME NEW i \in 1 .. N, NEW acc, CombineOK(byStack, i - 1, acc)
      PROVE  CombineOK(byStack, i, CombineNext(acc, byStack)) /\ CombineNext(acc, byStack) \in V
  <2> DEFINE a == CombineNext(acc, byStack)
  <2>1. CombineOK(byStack, i, a)
    BY <1>3, CombineStepOK
  <2>2. a = [out |-> a.out, next |-> a.next, moved |-> a.moved]
    BY DEF CombineNext
  <2> HIDE DEF a
  <2>3. a \in V
    BY <2>1, <2>2 DEF CombineOK
  <2> QED BY <2>1, <2>3 DEF a
<1>4. \A i \in 1 .. N : i - 1 \in 0 .. N /\ i \in 0 .. N /\ i # 0
  BY <1>1
<1>5. good \in [0 .. N -> SUBSET V] /\ first \in good[0]
  <2> HIDE DEF V, first, N
  <2> QED BY <1>1, <1>2
<1>6. \A i \in 1 .. N : \A v \in good[i - 1] : step[i][v] \in good[i]
  <2> HIDE DEF V, N
  <2> QED BY <1>3, <1>4
<1>7. PICK g \in [0 .. N -> V] : /\ IsRecursion(g, N, first, step)
                                 /\ \A i \in 0 .. N : g[i] \in good[i]
  <2> HIDE DEF good, step, V, N, first
  <2> QED BY <1>1, <1>5, <1>6, InvariantRecursion, Zenon
<1>8. g = [i \in 0 .. N |-> IF i = 0 THEN first ELSE CombineNext(g[i - 1], byStack)]
  <2> HIDE DEF V, N, first
  <2>1. ASSUME NEW i \in 1 .. N PROVE g[i] = CombineNext(g[i - 1], byStack)
    BY <1>4, <1>7 DEF IsRecursion
  <2>2. \A i \in 0 .. N : i = 0 \/ i \in 1 .. N
    BY <1>1
  <2> QED BY <1>7, <2>1, <2>2 DEF IsRecursion
<1> HIDE DEF V, good, step
<1>9. walk = [i \in 0 .. N |-> IF i = 0 THEN first ELSE CombineNext(walk[i - 1], byStack)]
  BY <1>8, Zenon DEF CombineWalk
<1> HIDE DEF walk, first, N
<1>10. walk[0] = first /\ \A i \in 1 .. N : walk[i] = CombineNext(walk[i - 1], byStack)
  BY <1>1, <1>4, <1>9
<1> DEFINE S == {i \in 0 .. N : CombineOK(byStack, i, walk[i])}
<1>11. 0 \in S
  BY <1>1, <1>2, <1>10
<1>12. ASSUME NEW i \in 1 .. N, i - 1 \in S PROVE i \in S
  <2>1. CombineOK(byStack, i - 1, walk[i - 1])
    BY <1>12
  <2>2. CombineOK(byStack, i, CombineNext(walk[i - 1], byStack))
    BY <1>3, <2>1
  <2> QED BY <1>4, <1>10, <2>2
<1> HIDE DEF S
<1>13. 0 .. N \subseteq S
  BY <1>1, <1>11, <1>12, BoundedInduction
<1> QED BY <1>1, <1>10, <1>13 DEF S, N, walk, first, NothingTaken

\* Combining loses no range of any stack and makes none up: each is there with
\* its kind, commit, number of lines and shift, and no index runs past the end
\* of a stack's ranges.  At the end each stack would move by all shifts of the
\* others (combine_path_ranges).
THEOREM CombineTakesAll ==
  ASSUME NEW byStack \in [Stack -> Seq(GoodRange)]
  PROVE  LET end == CombineWalk(byStack)[RangeCount(byStack)]
         IN  /\ Combine(byStack) \in Seq(HunkRange) /\ Len(Combine(byStack)) = RangeCount(byStack)
             /\ \A s \in Stack : \A r \in ToSet(byStack[s]) : \E q \in ToSet(Combine(byStack)) : IsMoved(byStack, s, q, r)
             /\ \A q \in ToSet(Combine(byStack)) : \E s \in Stack : \E r \in ToSet(byStack[s]) : IsMoved(byStack, s, q, r)
             /\ \A t \in Stack :
                  end.moved[t] = SumOf([s \in Stack |-> IF s = t THEN 0 ELSE Total(byStack[s])])
<1> DEFINE N == RangeCount(byStack)
           end == CombineWalk(byStack)[N]
           all == Combine(byStack)
           a == Taken(end.next)
<1>1. all = end.out
  BY DEF Combine
<1>2. CombineOK(byStack, N, end) /\ N \in Nat
  BY CombineWalkIs
<1> HIDE DEF end, all
<1>3. /\ all \in Seq(HunkRange) /\ Len(all) = N
      /\ end.next \in [Stack -> Nat] /\ \A s \in Stack : end.next[s] \in 1 .. Len(byStack[s]) + 1
      /\ SumOf(a) = N
      /\ \A t \in Stack : end.moved[t] = SumOf(Others(byStack, end.next, t))
      /\ \A s \in Stack : \A j \in 1 .. end.next[s] - 1 : \E i \in 1 .. N : IsMoved(byStack, s, all[i], byStack[s][j])
      /\ \A i \in 1 .. N : \E s \in Stack : \E j \in 1 .. Len(byStack[s]) : IsMoved(byStack, s, all[i], byStack[s][j])
  BY <1>1, <1>2 DEF CombineOK
<1>4. \A s \in Stack : byStack[s] \in Seq(GoodRange) /\ Len(byStack[s]) \in Nat
  OBVIOUS
<1>5. ASSUME NEW s \in Stack PROVE end.next[s] - 1 = Len(byStack[s])
  BY <1>3, NoneLeft
<1>6. \A s \in Stack : ToSet(byStack[s]) = {byStack[s][j] : j \in 1 .. Len(byStack[s])}
  BY <1>4 DEF ToSet
<1>7. ToSet(all) = {all[i] : i \in 1 .. N}
  <2>1. DOMAIN all = 1 .. N
    <3> HIDE DEF N
    <3> QED BY <1>3
  <2> QED BY <2>1 DEF ToSet
<1>8. ASSUME NEW s \in Stack, NEW r \in ToSet(byStack[s])
      PROVE  \E q \in ToSet(all) : IsMoved(byStack, s, q, r)
  <2>1. PICK j \in 1 .. Len(byStack[s]) : r = byStack[s][j]
    BY <1>6
  <2>2. PICK i \in 1 .. N : IsMoved(byStack, s, all[i], byStack[s][j])
    BY <1>3, <1>5
  <2> QED BY <1>7, <2>1, <2>2
<1>9. ASSUME NEW q \in ToSet(all)
      PROVE  \E s \in Stack : \E r \in ToSet(byStack[s]) : IsMoved(byStack, s, q, r)
  <2>1. PICK i \in 1 .. N : q = all[i]
    BY <1>7
  <2>2. PICK s \in Stack : \E j \in 1 .. Len(byStack[s]) : IsMoved(byStack, s, all[i], byStack[s][j])
    BY <1>3
  <2> QED BY <1>6, <2>1, <2>2
<1>10. ASSUME NEW t \in Stack
       PROVE  end.moved[t] = SumOf([s \in Stack |-> IF s = t THEN 0 ELSE Total(byStack[s])])
  <2>1. \A s \in Stack : Len(AllShifts(byStack[s])) = Len(byStack[s])
    BY <1>4, AllShiftsAre
  <2>2. \A s \in Stack : Sums(AllShifts(byStack[s]))[end.next[s] - 1] = Total(byStack[s])
    BY <1>5, <2>1, Zenon DEF Total, SumOf
  <2>3. Others(byStack, end.next, t) = [s \in Stack |-> IF s = t THEN 0 ELSE Total(byStack[s])]
    BY <2>2, Zenon DEF Others
  <2> QED BY <1>3, <2>3
<1> QED BY <1>3, <1>8, <1>9, <1>10 DEF end, all, N

\* A lookup in ranges that name the lines of a file finds the commit that wrote
\* a line the hunk replaces, and one that removed lines where it inserts
\* (HunkRange::intersects and intersects_or_adjacent).
LEMMA LookupFinds ==
  ASSUME NEW rs \in Seq(HunkRange), NEW c \in Commit
  PROVE  /\ \A start, n \in Nat : \A end \in Nat :
              1 <= start /\ start <= n /\ n <= end /\ <<"line", n, c>> \in Claims(rs)
                => c \in Locks(rs, start, end + 1 - start, FALSE)
         /\ \A n \in Nat : <<"after", n, c>> \in Claims(rs) => c \in Locks(rs, n, 0, FALSE)
<1>1. ASSUME NEW r \in ToSet(rs)
      PROVE  r \in HunkRange /\ r.start \in Nat /\ r.lines \in Nat /\ r.shift \in Int
  <2>1. r \in HunkRange
    BY DEF ToSet
  <2> QED BY <2>1 DEF HunkRange
<1>2. ASSUME NEW start \in Nat, NEW n \in Nat, NEW end \in Nat,
             1 <= start, start <= n, n <= end, <<"line", n, c>> \in Claims(rs)
      PROVE  c \in Locks(rs, start, end + 1 - start, FALSE)
  <2> DEFINE lines == end + 1 - start
  <2>1. PICK r \in ToSet(rs) : r.lines # 0 /\ n \in r.start .. r.start + r.lines - 1 /\ r.commit = c
    <3>1. PICK r \in ToSet(rs) :
            <<"line", n, c>> \in IF r.lines = 0 THEN {<<"after", r.start, r.commit>>}
                                ELSE {<<"line", i, r.commit>> : i \in r.start .. r.start + r.lines - 1}
      BY <1>2 DEF Claims
    <3>2. r.lines # 0
      BY <3>1
    <3>3. PICK i \in r.start .. r.start + r.lines - 1 : <<"line", n, c>> = <<"line", i, r.commit>>
      BY <3>1, <3>2
    <3> QED BY <3>2, <3>3
  <2>2. r.start \in Nat /\ r.lines \in Nat /\ r.lines > 0
    BY <1>1, <2>1
  <2>3. /\ lines > 0 /\ lines # 0 /\ start # 0 /\ lines \in Nat
        /\ r.start + r.lines > 0 /\ r.start <= start + lines - 1 /\ start <= r.start + r.lines - 1
    BY <1>2, <2>1, <2>2
  <2> HIDE DEF lines
  <2>4. Intersects(r, start, lines)
    BY <2>2, <2>3 DEF Intersects
  <2>5. c \in Locks(rs, start, lines, FALSE)
    BY <2>1, <2>4 DEF Locks
  <2> QED BY <2>5 DEF lines
<1>3. ASSUME NEW n \in Nat, <<"after", n, c>> \in Claims(rs) PROVE c \in Locks(rs, n, 0, FALSE)
  <2>1. PICK r \in ToSet(rs) : r.lines = 0 /\ r.start = n /\ r.commit = c
    <3>1. PICK r \in ToSet(rs) :
            <<"after", n, c>> \in IF r.lines = 0 THEN {<<"after", r.start, r.commit>>}
                                 ELSE {<<"line", i, r.commit>> : i \in r.start .. r.start + r.lines - 1}
      BY <1>3 DEF Claims
    <3>2. r.lines = 0
      BY <3>1
    <3> QED BY <3>1, <3>2
  <2>2. IntersectsOrAdjacent(r, n, 0)
    BY <2>1 DEF IntersectsOrAdjacent
  <2> QED BY <2>1, <2>2 DEF Locks
<1> QED BY <1>2, <1>3

\* The ranges of all stacks are what the combination may be given.
LEMMA RangesGood == ASSUME Inv PROVE ranges \in [Stack -> Seq(GoodRange)]
<1>1. ranges = [s \in Stack |-> ranges[s]]
  BY DEF Inv, TypeOK
<1>2. \A s \in Stack : ranges[s] \in Seq(GoodRange)
  BY DEF Inv, StackOK, StackRanges, RangesOK
<1> QED BY <1>1, <1>2

\* A commit that added or deleted the file locks every hunk of it, wherever the
\* combination has put the commit's ranges.
THEOREM WholeFileLocks ==
  ASSUME GixHeaders = FALSE
  PROVE  Spec => [](\A s \in Stack : \A r \in ToSet(ranges[s]) :
                      r.kind # "Modification" =>
                        \A start, lines : \A reorders \in BOOLEAN :
                          r.commit \in Locks(Combine(ranges), start, lines, reorders))
<1>1. ASSUME Inv, NEW s \in Stack, NEW r \in ToSet(ranges[s]), r.kind # "Modification",
             NEW start, NEW lines, NEW reorders \in BOOLEAN
      PROVE  r.commit \in Locks(Combine(ranges), start, lines, reorders)
  <2>1. PICK q \in ToSet(Combine(ranges)) : IsMoved(ranges, s, q, r)
    BY <1>1, RangesGood, CombineTakesAll
  <2>2. ranges[s] \in Seq(GoodRange)
    BY <1>1, RangesGood
  <2>3. r \in HunkRange
    BY <2>2 DEF ToSet, GoodRange
  <2>4. q.kind = r.kind /\ q.commit = r.commit
    BY <2>1, <2>3 DEF IsMoved, HunkRange
  <2> QED BY <1>1, <2>4 DEF Locks
<1>2. Inv => \A s \in Stack : \A r \in ToSet(ranges[s]) :
               r.kind # "Modification" =>
                 \A start, lines : \A reorders \in BOOLEAN :
                   r.commit \in Locks(Combine(ranges), start, lines, reorders)
  BY <1>1
<1> QED BY <1>2, Invariance, PTL

\* Besides, a worktree hunk that inserts where a commit removed lines is locked to that
\* commit: the places of hunks and ranges are both in headers as this crate documents them.
LocksRight(places, rs) ==
  /\ LinesLocked(places, rs)
  /\ \A n \in 0 .. LineCount(places) :
       GapAfter(places, n).commit # Base => GapAfter(places, n).commit \in Locks(rs, n, 0, FALSE)

\* Where ranges name the lines of a file, worktree hunks are locked to the
\* commits that they must not be separated from (WorkspaceRanges::intersection).
THEOREM LocksFollowBlame ==
  ASSUME NEW places \in Seq(Place), NEW rs \in Seq(HunkRange), Claims(rs) = Owned(Blame(places))
  PROVE  LocksRight(places, rs)
<1> DEFINE m == LineCount(places)
<1>1. m \in Nat
  <2>1. Len(places) \in Nat
    OBVIOUS
  <2> QED BY <2>1 DEF LineCount
<1>2. ASSUME NEW r \in ToSet(rs) PROVE r.commit \in Commit
  <2>1. r \in HunkRange
    BY DEF ToSet
  <2> QED BY <2>1 DEF HunkRange
<1>3. \A claim \in Claims(rs) : claim[3] \in Commit
  BY <1>2 DEF Claims
<1> HIDE DEF m
<1>4. ASSUME NEW start \in 1 .. m, NEW end \in 1 .. m, start <= end, NEW n \in start .. end,
             LineAt(places, n).commit # Base
      PROVE  LineAt(places, n).commit \in Locks(rs, start, end + 1 - start, FALSE)
  <2> DEFINE c == LineAt(places, n).commit
  <2>1. n \in 1 .. m /\ n \in Nat /\ start \in Nat /\ end \in Nat /\ 1 <= start /\ start <= n /\ n <= end
    BY <1>1, <1>4
  <2>2. <<"line", n, c>> \in Claims(rs)
    <3>1. <<"line", n, c>> \in Blame(places)
      BY <2>1 DEF Blame, m
    <3> QED BY <1>4, <3>1 DEF Owned
  <2> HIDE DEF c
  <2>3. c \in Commit
    BY <1>3, <2>2
  <2>4. c \in Locks(rs, start, end + 1 - start, FALSE)
    BY <2>1, <2>2, <2>3, LookupFinds
  <2> QED BY <2>4 DEF c
<1>5. ASSUME NEW n \in 0 .. m, GapAfter(places, n).commit # Base
      PROVE  GapAfter(places, n).commit \in Locks(rs, n, 0, FALSE)
  <2> DEFINE c == GapAfter(places, n).commit
  <2>1. <<"after", n, c>> \in Claims(rs)
    <3>1. <<"after", n, c>> \in Blame(places)
      BY DEF Blame, m
    <3> QED BY <1>5, <3>1 DEF Owned
  <2> HIDE DEF c
  <2>2. c \in Commit /\ n \in Nat
    BY <1>1, <1>3, <2>1
  <2>3. c \in Locks(rs, n, 0, FALSE)
    BY <2>1, <2>2, LookupFinds
  <2> QED BY <2>3 DEF c
<1> QED BY <1>4, <1>5 DEF LocksRight, LinesLocked, m

\* So the ranges of a stack alone always lock a hunk to the right commits.
THEOREM StackLocksRight ==
  ASSUME GixHeaders = FALSE
  PROVE  Spec => [](\A s \in Stack : LocksRight(file[s], ranges[s]))
<1>1. ASSUME TypeOK, RangesAreBlame, NEW s \in Stack PROVE LocksRight(file[s], ranges[s])
  <2>1. file[s] \in Seq(Place) /\ ranges[s] \in Seq(HunkRange)
    BY <1>1 DEF TypeOK
  <2>2. Claims(ranges[s]) = Owned(Blame(file[s]))
    BY <1>1 DEF RangesAreBlame
  <2> QED BY <2>1, <2>2, LocksFollowBlame
<1>2. TypeOK /\ RangesAreBlame => \A s \in Stack : LocksRight(file[s], ranges[s])
  BY <1>1
<1> QED BY <1>2, RangesTyped, RangesBlame, PTL

\* No range of a stack moves: the ranges of the other stacks have no shift, or
\* there are none, as when one stack alone changes the file.
NothingMoves(byStack) ==
  \A s, t \in Stack : s # t /\ byStack[s] # <<>> =>
    \A i \in 1 .. Len(byStack[t]) : byStack[t][i].shift = 0

\* Then what is taken of the others moves nothing, at any time.
LEMMA StaysPut ==
  ASSUME NEW byStack \in [Stack -> Seq(GoodRange)], NothingMoves(byStack),
         NEW s \in Stack, NEW r \in ToSet(byStack[s]), NEW q, IsMoved(byStack, s, q, r)
  PROVE  q = r
<1>1. PICK next \in [Stack -> Nat] :
        /\ \A t \in Stack : next[t] \in 1 .. Len(byStack[t]) + 1
        /\ q = [r EXCEPT !.start = Max({0, @ + SumOf(Others(byStack, next, s))})]
  BY DEF IsMoved
<1> DEFINE a == Others(byStack, next, s)
<1>2. a \in [Stack -> Int]
  BY <1>1, TakenIs
<1>3. byStack[s] \in Seq(GoodRange) /\ byStack[s] # <<>> /\ r \in GoodRange
  BY DEF ToSet
<1>4. ASSUME NEW t \in Stack PROVE a[t] = 0
  <2>1. CASE t = s
    BY <2>1 DEF Others
  <2>2. CASE t # s
    <3> DEFINE shifts == AllShifts(byStack[t])
               k == next[t] - 1
    <3>1. byStack[t] \in Seq(GoodRange) /\ Len(byStack[t]) \in Nat
      OBVIOUS
    <3>2. /\ shifts \in Seq(Int) /\ Len(shifts) = Len(byStack[t])
          /\ \A i \in 1 .. Len(byStack[t]) : shifts[i] = byStack[t][i].shift
      BY <3>1, AllShiftsAre
    <3>3. \A i \in 1 .. Len(shifts) : shifts[i] = 0
      BY <1>3, <2>2, <3>2 DEF NothingMoves
    <3>4. k \in 0 .. Len(shifts)
      BY <1>1, <3>1, <3>2
    <3>5. a[t] = Sums(shifts)[k]
      BY <2>2 DEF Others
    <3> HIDE DEF shifts, k, a
    <3>6. Sums(shifts)[k] = 0
      BY <3>2, <3>3, <3>4, SumOfZeros
    <3> QED BY <3>5, <3>6
  <2> QED BY <2>1, <2>2
<1>5. SumOf(a) = 0
  <2> HIDE DEF a
  <2>1. a \in Seq(Int) /\ 1 .. Len(a) = Stack
    BY <1>2, StackNumbers
  <2> QED BY <1>4, <2>1, SumOfZeros
<1>6. r \in HunkRange /\ r.start \in Nat
  BY <1>3 DEF GoodRange, HunkRange
<1>7. Max({0, r.start + 0}) = r.start
  <2>1. \E y \in {0, r.start + 0} : \A z \in {0, r.start + 0} : y >= z
    BY <1>6
  <2>2. /\ Max({0, r.start + 0}) \in {0, r.start + 0}
        /\ \A z \in {0, r.start + 0} : Max({0, r.start + 0}) >= z
    BY <2>1 DEF Max
  <2> QED BY <1>6, <2>2
<1>8. q = [r EXCEPT !.start = r.start]
  BY <1>1, <1>5, <1>7
<1> QED BY <1>6, <1>8 DEF HunkRange

\* The combined ranges are then those of the stacks, where they were.
LEMMA CombinesAsTheyAre ==
  ASSUME NEW byStack \in [Stack -> Seq(GoodRange)], NothingMoves(byStack)
  PROVE  ToSet(Combine(byStack)) = UNION {ToSet(byStack[s]) : s \in Stack}
<1>1. ASSUME NEW s \in Stack, NEW r \in ToSet(byStack[s]) PROVE r \in ToSet(Combine(byStack))
  <2>1. PICK q \in ToSet(Combine(byStack)) : IsMoved(byStack, s, q, r)
    BY CombineTakesAll
  <2> QED BY <2>1, StaysPut
<1>2. ASSUME NEW q \in ToSet(Combine(byStack)) PROVE \E s \in Stack : q \in ToSet(byStack[s])
  <2>1. PICK s \in Stack : \E r \in ToSet(byStack[s]) : IsMoved(byStack, s, q, r)
    BY CombineTakesAll
  <2> QED BY <2>1, StaysPut
<1> QED BY <1>1, <1>2

\* Where one stack alone changes a file, which is the common case, the
\* combined ranges are its own, and worktree hunks are locked to the commits they
\* must not be separated from.
THEOREM LoneStackLocksRight ==
  ASSUME GixHeaders = FALSE
  PROVE  Spec => [](\A s \in Stack :
                      (\A t \in Stack : t # s => ranges[t] = <<>>) =>
                        /\ Claims(Combine(ranges)) = Owned(Blame(file[s]))
                        /\ LocksRight(file[s], Combine(ranges)))
<1>1. ASSUME TypeOK, Inv, RangesAreBlame, NEW s \in Stack, \A t \in Stack : t # s => ranges[t] = <<>>
      PROVE  /\ Claims(Combine(ranges)) = Owned(Blame(file[s]))
             /\ LocksRight(file[s], Combine(ranges))
  <2>1. ranges \in [Stack -> Seq(GoodRange)]
    BY <1>1, RangesGood
  <2>2. NothingMoves(ranges)
    BY <1>1 DEF NothingMoves
  <2>3. \A t \in Stack : t # s => ToSet(ranges[t]) = {}
    BY <1>1 DEF ToSet
  <2>4. Claims(Combine(ranges)) = Claims(ranges[s])
    <3>1. ToSet(Combine(ranges)) = UNION {ToSet(ranges[t]) : t \in Stack}
      BY <2>1, <2>2, CombinesAsTheyAre
    <3>2. ToSet(Combine(ranges)) = ToSet(ranges[s])
      BY <2>3, <3>1
    <3> QED BY <3>2 DEF Claims
  <2>5. file[s] \in Seq(Place) /\ Claims(ranges[s]) = Owned(Blame(file[s]))
    BY <1>1 DEF TypeOK, RangesAreBlame
  <2>6. Combine(ranges) \in Seq(HunkRange)
    BY <2>1, CombineTakesAll
  <2> QED BY <2>4, <2>5, <2>6, LocksFollowBlame
<1>2. TypeOK /\ Inv /\ RangesAreBlame =>
        \A s \in Stack : (\A t \in Stack : t # s => ranges[t] = <<>>) =>
           /\ Claims(Combine(ranges)) = Owned(Blame(file[s]))
           /\ LocksRight(file[s], Combine(ranges))
  BY <1>1
<1> QED BY <1>2, RangesTyped, RangesBlame, Invariance, PTL

-----------------------------------------------------------------------------
(* What of the merge base a stack has changed, and the ranges about it *)

\* A gap that is as in the merge base: the lines around it are next to each other.
LEMMA Unchanged ==
  ASSUME NEW places, NEW m, FileOf(places, m), KeepsOrder(places, m),
         NEW k \in 0 .. BaseLines, k \notin Changed(places)
  PROVE  /\ Stays(places, m, k)
         /\ Where(places, m, k + 1) = Where(places, m, k) + 1
<1>1. BaseLines \in Nat
  BY HunkRangesAssumption
<1>2. /\ k = 0 \/ k \in KeptLines(places)
      /\ After(places, k) = <<Gap(Base)>>
  BY <1>1 DEF Changed
<1>3. Stays(places, m, k)
  <2>1. CASE k = 0
    BY <2>1, StaysIs
  <2>2. CASE k # 0
    <3>1. k \in 1 .. BaseLines
      BY <1>1, <2>2
    <3> QED BY <1>2, <2>2, <3>1, StaysIs
  <2> QED BY <2>1, <2>2
<1>4. Where(places, m, k) \in Int /\ Where(places, m, k + 1) \in Int
  BY WhereNext DEF FileOf
<1>5. Len(After(places, k)) = 2 * (Where(places, m, k + 1) - Where(places, m, k)) - 1
  BY <1>3, AfterPlaces
<1>6. Len(After(places, k)) = 1
  BY <1>2
<1>7. Where(places, m, k + 1) = Where(places, m, k) + 1
  <2>1. \A v, w \in Int : 1 = 2 * (v - w) - 1 => v = w + 1
    OBVIOUS
  <2>2. 1 = 2 * (Where(places, m, k + 1) - Where(places, m, k)) - 1
    BY <1>5, <1>6
  <2> QED BY <1>4, <2>1, <2>2
<1> QED BY <1>3, <1>7

\* The gaps about a line that is gone have changed.
LEMMA GoneIsChanged ==
  ASSUME NEW places, NEW m, FileOf(places, m), KeepsOrder(places, m),
         NEW k \in 0 .. BaseLines, ~Stays(places, m, k)
  PROVE  k \in Changed(places)
BY Unchanged

\* The gap of the merge base that places between two of its lines belong to, and those of
\* the lines that are gone from there, have changed if a commit has such a place.
LEMMA BlockChanged ==
  ASSUME NEW places, NEW m, FileOf(places, m), KeepsOrder(places, m),
         NEW k \in 0 .. BaseLines, Stays(places, m, k),
         NEW q \in 2 * Where(places, m, k) + 1 .. 2 * Where(places, m, k + 1) - 1,
         places[q].commit # Base
  PROVE  k .. Origin(places, m, Where(places, m, k + 1)) - 1 \subseteq Changed(places)
<1> DEFINE w == Where(places, m, k)
           v == Where(places, m, k + 1)
           o(n) == Origin(places, m, n)
           k2 == o(v)
<1>1. BaseLines \in Nat /\ m \in Nat
  BY HunkRangesAssumption DEF FileOf
<1>2. /\ w \in 0 .. m + 1 /\ v \in 1 .. m + 1 /\ w < v
      /\ \A n \in Int : w < n /\ n < v => o(n) = 0
  BY WhereNext
<1>3. o(w) = k
  BY DEF Stays
<1>4. \A n \in Int : o(n) \in 0 .. BaseLines + 1 /\ (n <= 0 => o(n) = 0)
  BY OriginRange
<1>5. k2 \in 0 .. BaseLines + 1 /\ k + 1 <= k2
  <2>1. k + 1 \in 1 .. BaseLines + 1
    BY <1>1
  <2>2. k + 1 <= o(v)
    BY <2>1, WhereIs
  <2> QED BY <1>2, <1>4, <2>2
<1>6. \A i, j \in Int : i < j /\ o(i) # 0 /\ o(j) # 0 => o(i) < o(j)
  BY DEF KeepsOrder
<1>7. k \in Changed(places)
  <2> SUFFICES ASSUME k \notin Changed(places) PROVE FALSE
    OBVIOUS
  <2>1. After(places, k) = <<Gap(Base)>> /\ v = w + 1
    <3>1. v = w + 1
      BY Unchanged
    <3>2. k = 0 \/ k \in KeptLines(places)
      BY <1>1 DEF Changed
    <3> QED BY <1>1, <3>1, <3>2 DEF Changed
  <2>2. q = 2 * w + 1
    <3> HIDE DEF w, v
    <3>1. q \in 2 * w + 1 .. 2 * v - 1
      BY DEF w, v
    <3> QED BY <1>2, <2>1, <3>1
  <2>3. \A d \in 1 .. 2 * (v - w) - 1 : After(places, k)[d] = places[2 * w + d]
    BY AfterPlaces
  <2> HIDE DEF w, v
  <2>4. 1 \in 1 .. 2 * (v - w) - 1
    BY <1>2, <2>1
  <2>5. After(places, k)[1] = places[q]
    BY <2>2, <2>3, <2>4
  <2>6. places[q] = Gap(Base)
    BY <2>1, <2>5
  <2> QED BY <2>6 DEF Gap
<1>8. ASSUME NEW x \in k + 1 .. k2 - 1 PROVE x \in Changed(places)
  <2>0. x \in 1 .. BaseLines /\ x \in 0 .. BaseLines /\ x > k /\ x < k2 /\ x # 0 /\ k \in Int
    <3> HIDE DEF k2
    <3> QED BY <1>1, <1>5, <1>8
  <2> SUFFICES ASSUME Stays(places, m, x) PROVE FALSE
    BY <2>0, GoneIsChanged
  <2> DEFINE n == Where(places, m, x)
  <2>1. o(n) = x
    BY DEF Stays
  <2>2. n \in Int
    BY <1>1, <2>0, WhereNext
  <2> HIDE DEF w, v, o, n
  <2>3. ~(w < n /\ n < v)
    BY <1>2, <2>0, <2>1, <2>2
  <2>4. n > 0
    BY <1>4, <2>0, <2>1, <2>2
  <2>5. ~(n <= w)
    <3>1. CASE k = 0
      <4>1. n # w
        BY <1>3, <2>0, <2>1, <3>1
      <4>2. w # 0 => FALSE
        <5>1. k = 0 => w = 0
          BY DEF w, Where
        <5> QED BY <3>1, <5>1
      <4> QED BY <1>2, <2>2, <2>4, <4>2
    <3>2. CASE k # 0
      <4>1. n # w
        BY <1>3, <2>0, <2>1
      <4>2. ~(n < w)
        <5>1. n < w /\ o(n) # 0 /\ o(w) # 0 => o(n) < o(w)
          BY <1>2, <1>6, <2>2
        <5> QED BY <1>3, <2>0, <2>1, <3>2, <5>1
      <4> QED BY <1>2, <2>2, <4>1, <4>2
    <3> QED BY <3>1, <3>2
  <2>6. ~(n >= v)
    <3>1. n # v
      BY <2>0, <2>1
    <3>2. v < n /\ o(n) # 0 /\ o(v) # 0 => o(v) < o(n)
      BY <1>2, <1>6, <2>2
    <3>3. ~(v < n)
      BY <1>5, <2>0, <2>1, <3>2
    <3> QED BY <1>2, <2>2, <3>1, <3>3
  <2> QED BY <1>2, <2>2, <2>3, <2>5, <2>6
<1>9. \A x \in k .. k2 - 1 : x = k \/ x \in k + 1 .. k2 - 1
  <2> HIDE DEF k2
  <2> QED BY <1>1, <1>5
<1> QED BY <1>7, <1>8, <1>9

\* Every line is between two lines of the merge base.
LEMMA BlockOf ==
  ASSUME NEW places, NEW m, FileOf(places, m), KeepsOrder(places, m), NEW x \in 0 .. m
  PROVE  \E k \in 0 .. BaseLines : /\ Stays(places, m, k)
                                   /\ Where(places, m, k) <= x /\ x < Where(places, m, k + 1)
<1> DEFINE o(n) == Origin(places, m, n)
           T == {d \in Nat : d <= x /\ (d = x \/ o(x - d) # 0)}
<1>1. BaseLines \in Nat /\ m \in Nat
  BY HunkRangesAssumption DEF FileOf
<1>2. \A n \in Int : o(n) \in 0 .. BaseLines + 1 /\ (n <= 0 => o(n) = 0) /\ (n < m + 1 => o(n) \in 0 .. BaseLines)
  BY OriginRange
<1>3. x \in T
  BY <1>1
<1>4. PICK d \in T : \A y \in T : d <= y
  <2> HIDE DEF T
  <2>1. T \subseteq Nat
    BY DEF T
  <2> QED BY <1>3, <2>1, LeastNatural
<1> DEFINE n == x - d
           k == o(n)
<1>5. d \in Nat /\ d <= x /\ n \in 0 .. x /\ (n = 0 \/ o(n) # 0)
  BY <1>1
<1>6. k \in 0 .. BaseLines
  BY <1>1, <1>2, <1>5
<1>7. Where(places, m, k) = n /\ Stays(places, m, k)
  <2>1. CASE n = 0
    <3>1. k = 0
      BY <1>2, <2>1
    <3> HIDE DEF k, n
    <3> QED BY <2>1, <3>1, StaysIs
  <2>2. CASE o(n) # 0
    <3> HIDE DEF n
    <3> QED BY <1>5, <2>2, OriginWhere
  <2> QED BY <1>5, <2>1, <2>2
<1>8. x < Where(places, m, k + 1)
  <2> DEFINE v == Where(places, m, k + 1)
  <2>1. v \in 1 .. m + 1 /\ n < v /\ k + 1 <= o(v)
    <3> HIDE DEF k, n
    <3>1. k + 1 \in 1 .. BaseLines + 1
      BY <1>1, <1>6
    <3> QED BY <1>6, <1>7, <3>1, WhereNext, WhereIs DEF k
  <2>2. o(v) # 0
    BY <1>2, <1>6, <2>1
  <2> HIDE DEF v
  <2>3. ASSUME v <= x PROVE FALSE
    <3>1. x - v \in Nat /\ x - v <= x /\ x - (x - v) = v /\ x - v < d
      BY <1>1, <1>5, <2>1, <2>3
    <3>2. x - v \in T
      BY <2>2, <3>1
    <3> HIDE DEF T
    <3> QED BY <1>4, <1>5, <3>1, <3>2
  <2> QED BY <1>1, <2>1, <2>3 DEF v
<1>9. n <= x
  BY <1>5
<1> QED BY <1>6, <1>7, <1>8, <1>9

\* The shifts of the first j ranges, and where the merge base has what range j stands for: by
\* what the ranges before it have moved it.
Carried(rs, j) == Sums(AllShifts(rs))[j]
BaseTop(rs, j) == RangeTop(rs[j]) - Carried(rs, j - 1)
BaseBottom(rs, j) == RangeBottom(rs[j]) - Carried(rs, j)

\* They are numbers.
LEMMA CarriedIs ==
  ASSUME NEW rs \in Seq(GoodRange)
  PROVE  /\ Carried(rs, 0) = 0
         /\ \A j \in 0 .. Len(rs) : Carried(rs, j) \in Int
         /\ \A j \in 1 .. Len(rs) :
              /\ rs[j] \in GoodRange /\ rs[j].shift \in Int
              /\ Carried(rs, j) = Carried(rs, j - 1) + rs[j].shift
              /\ Carried(rs, j) \in Int /\ Carried(rs, j - 1) \in Int
              /\ BaseTop(rs, j) \in Int /\ BaseBottom(rs, j) \in Int
              /\ RangeTop(rs[j]) \in Nat /\ RangeBottom(rs[j]) \in Nat
              /\ RangeTop(rs[j]) <= RangeBottom(rs[j])
              /\ RangeBottom(rs[j]) = RangeTop(rs[j]) + rs[j].lines /\ rs[j].lines \in Nat
<1>1. /\ AllShifts(rs) \in Seq(Int) /\ Len(AllShifts(rs)) = Len(rs)
      /\ \A i \in 1 .. Len(rs) : AllShifts(rs)[i] = rs[i].shift
  BY AllShiftsAre
<1>2. Carried(rs, 0) = 0 /\ \A j \in 0 .. Len(rs) : Carried(rs, j) \in Int
  BY <1>1, SumsAre DEF Carried
<1>3. ASSUME NEW j \in 1 .. Len(rs)
      PROVE  /\ rs[j] \in GoodRange /\ rs[j].shift \in Int
             /\ Carried(rs, j) = Carried(rs, j - 1) + rs[j].shift
             /\ Carried(rs, j) \in Int /\ Carried(rs, j - 1) \in Int
             /\ BaseTop(rs, j) \in Int /\ BaseBottom(rs, j) \in Int
             /\ RangeTop(rs[j]) \in Nat /\ RangeBottom(rs[j]) \in Nat
             /\ RangeTop(rs[j]) <= RangeBottom(rs[j])
             /\ RangeBottom(rs[j]) = RangeTop(rs[j]) + rs[j].lines /\ rs[j].lines \in Nat
  <2>1. rs[j] \in GoodRange
    OBVIOUS
  <2>2. rs[j].shift \in Int
    BY <2>1 DEF GoodRange, HunkRange
  <2>3. /\ RangeTop(rs[j]) \in Nat /\ RangeBottom(rs[j]) \in Nat /\ rs[j].lines \in Nat
        /\ RangeBottom(rs[j]) = RangeTop(rs[j]) + rs[j].lines
    BY <2>1, RangeSpan
  <2>4. Carried(rs, j) = Carried(rs, j - 1) + rs[j].shift
    BY <1>1, SumsAre DEF Carried
  <2>5. Carried(rs, j) \in Int /\ Carried(rs, j - 1) \in Int
    BY <1>2
  <2>6. BaseTop(rs, j) \in Int /\ BaseBottom(rs, j) \in Int
    BY <2>3, <2>5 DEF BaseTop, BaseBottom
  <2>7. RangeTop(rs[j]) <= RangeBottom(rs[j])
    BY <2>3
  <2> QED BY <2>1, <2>2, <2>3, <2>4, <2>5, <2>6, <2>7
<1> QED BY <1>2, <1>3

\* There too the ranges are in order.
LEMMA BaseOrder ==
  ASSUME NEW rs, RangesOK(rs), Slim(rs)
  PROVE  /\ \A j \in 1 .. Len(rs) : BaseTop(rs, j) <= BaseBottom(rs, j)
         /\ \A i, j \in 1 .. Len(rs) : i < j => BaseBottom(rs, i) <= BaseTop(rs, j)
<1> DEFINE N == Len(rs)
           top(j) == BaseTop(rs, j)
           bottom(j) == BaseBottom(rs, j)
           S == {j \in 0 .. N : \A i \in 1 .. N : i < j => bottom(i) <= top(j)}
<1>1. rs \in Seq(GoodRange) /\ N \in Nat /\ DOMAIN rs = 1 .. N
  BY DEF RangesOK
<1>2. \A j \in 1 .. N : top(j) \in Int /\ bottom(j) \in Int
  BY <1>1, CarriedIs
<1> HIDE DEF N
<1>3. ASSUME NEW j \in 1 .. N PROVE top(j) <= bottom(j)
  <2>1. rs[j].shift <= rs[j].lines
    BY <1>1 DEF Slim
  <2>2. /\ Carried(rs, j) = Carried(rs, j - 1) + rs[j].shift /\ Carried(rs, j - 1) \in Int
        /\ rs[j].shift \in Int /\ rs[j].lines \in Nat /\ RangeTop(rs[j]) \in Nat
        /\ RangeBottom(rs[j]) = RangeTop(rs[j]) + rs[j].lines
    BY <1>1, CarriedIs DEF N
  <2> QED BY <2>1, <2>2 DEF BaseTop, BaseBottom
<1>4. ASSUME NEW j \in 1 .. N, j # 1 PROVE j - 1 \in 1 .. N /\ bottom(j - 1) <= top(j)
  <2>1. j - 1 \in 1 .. N /\ j - 1 < j
    BY <1>1, <1>4
  <2>2. RangeBottom(rs[j - 1]) <= RangeTop(rs[j])
    BY <1>1, <2>1 DEF RangesOK
  <2>3. /\ Carried(rs, j - 1) \in Int /\ RangeTop(rs[j]) \in Nat /\ RangeBottom(rs[j - 1]) \in Nat
    BY <1>1, <2>1, CarriedIs DEF N
  <2> QED BY <2>1, <2>2, <2>3 DEF BaseTop, BaseBottom
<1> HIDE DEF top, bottom
<1>5. 0 \in S
  BY <1>1
<1>6. ASSUME NEW j \in 1 .. N, j - 1 \in S PROVE j \in S
  <2>1. ASSUME NEW i \in 1 .. N, i < j PROVE bottom(i) <= top(j)
    <3>1. j # 1 /\ j \in Nat /\ i \in Nat
      BY <1>1, <2>1
    <3>2. j - 1 \in 1 .. N /\ bottom(j - 1) <= top(j) /\ top(j - 1) <= bottom(j - 1)
      BY <1>3, <1>4, <3>1
    <3>3. CASE i = j - 1
      BY <3>2, <3>3
    <3>4. CASE i # j - 1
      <4>1. i < j - 1
        BY <2>1, <3>1, <3>4
      <4>2. bottom(i) <= top(j - 1)
        BY <1>6, <4>1
      <4> QED BY <1>2, <3>2, <4>2
    <3> QED BY <3>3, <3>4
  <2> QED BY <1>1, <2>1
<1> HIDE DEF S
<1>7. 0 .. N \subseteq S
  BY <1>1, <1>5, <1>6, BoundedInduction
<1>8. ASSUME NEW i \in 1 .. N, NEW j \in 1 .. N, i < j PROVE bottom(i) <= top(j)
  <2>1. j \in S
    BY <1>1, <1>7
  <2> QED BY <1>8, <2>1 DEF S
<1> QED BY <1>3, <1>8 DEF top, bottom, N

\* The elements after the first a.
LEMMA TailIs ==
  ASSUME NEW S, NEW s \in Seq(S), NEW a \in 0 .. Len(s)
  PROVE  /\ DOMAIN SubSeq(s, a + 1, Len(s)) = 1 .. Len(s) - a
         /\ \A i \in 1 .. Len(s) - a : SubSeq(s, a + 1, Len(s))[i] = s[a + i]
OBVIOUS

\* Those that end above a line are the first so many of them.
LEMMA CountAbove ==
  ASSUME NEW rs, RangesOK(rs), NEW n \in Int
  PROVE  \E a \in 0 .. Len(rs) : /\ \A j \in 1 .. Len(rs) : j <= a <=> RangeBottom(rs[j]) < n
                                 /\ ShiftAbove(rs, n) = Carried(rs, a)
<1> DEFINE N == Len(rs)
           T == {a \in Nat : a = N \/ (a < N /\ n <= RangeBottom(rs[a + 1]))}
<1>1. rs \in Seq(GoodRange) /\ N \in Nat /\ DOMAIN rs = 1 .. N
  BY DEF RangesOK
<1>2. \A j \in 1 .. N : RangeBottom(rs[j]) \in Nat /\ RangeTop(rs[j]) \in Nat /\ RangeTop(rs[j]) <= RangeBottom(rs[j])
  BY <1>1, CarriedIs
<1>3. N \in T
  BY <1>1
<1>4. PICK a \in T : \A y \in T : a <= y
  <2>1. T \subseteq Nat
    OBVIOUS
  <2> HIDE DEF T
  <2> QED BY <1>3, <2>1, LeastNatural
<1>5. a \in 0 .. N /\ (a = N \/ (a < N /\ n <= RangeBottom(rs[a + 1]))) /\ a \in Nat
  <2> HIDE DEF N
  <2>1. a \in Nat /\ (a = N \/ (a < N /\ n <= RangeBottom(rs[a + 1])))
    OBVIOUS
  <2>2. a <= N
    BY <1>1, <2>1
  <2> QED BY <1>1, <2>1, <2>2
<1> HIDE DEF N
<1>6. ASSUME NEW j \in 1 .. N PROVE j <= a <=> RangeBottom(rs[j]) < n
  <2>1. CASE j <= a
    <3>0. a <= N /\ j \in Nat /\ j >= 1
      BY <1>1, <1>5
    <3>1. j - 1 \in Nat /\ j - 1 < a /\ (j - 1) + 1 = j /\ j - 1 < N
      BY <1>1, <1>5, <2>1, <3>0
    <3>2. j - 1 \notin T
      <4> HIDE DEF T
      <4> QED BY <1>4, <1>5, <3>1
    <3>3. ~(n <= RangeBottom(rs[j]))
      BY <3>1, <3>2
    <3> QED BY <1>2, <2>1, <3>3
  <2>2. CASE ~(j <= a)
    <3>0. a < j /\ j <= N /\ j \in Nat
      BY <1>1, <1>5, <2>2
    <3>1. a + 1 \in 1 .. N /\ a + 1 <= j /\ n <= RangeBottom(rs[a + 1])
      BY <1>1, <1>5, <3>0
    <3>2. n <= RangeBottom(rs[j])
      <4>1. CASE a + 1 = j
        BY <3>1, <4>1
      <4>2. CASE a + 1 # j
        <5>1. a + 1 < j
          BY <1>5, <3>0, <3>1, <4>2
        <5>2. RangeBottom(rs[a + 1]) <= RangeTop(rs[j])
          BY <1>1, <3>1, <5>1 DEF RangesOK
        <5> QED BY <1>2, <3>1, <5>2
      <4> QED BY <4>1, <4>2
    <3> QED BY <1>2, <2>2, <3>2
  <2> QED BY <2>1, <2>2
<1> HIDE DEF T
<1>7. ShiftAbove(rs, n) = Carried(rs, a)
  <2> DEFINE tail == SubSeq(rs, a + 1, Len(rs))
             counted == Counted(rs, n)
             all == AllShifts(rs)
  <2>1. tail \in Seq(GoodRange) /\ Sums(counted)[a] \in Int
        /\ ShiftAbove(rs, n) = Sums(counted)[a] + ShiftAbove(tail, n)
    BY <1>1, <1>5, ShiftAboveSplit DEF N
  <2>2. ASSUME NEW i \in DOMAIN tail PROVE n <= RangeBottom(tail[i])
    <3>0. /\ DOMAIN tail = 1 .. N - a
          /\ \A x \in 1 .. N - a : tail[x] = rs[a + x]
      BY <1>1, <1>5, TailIs DEF N
    <3>1. i \in 1 .. N - a /\ a + i \in 1 .. N /\ ~(a + i <= a) /\ tail[i] = rs[a + i]
      <4>1. i \in 1 .. N - a /\ tail[i] = rs[a + i]
        BY <3>0
      <4> QED BY <1>1, <1>5, <4>1
    <3>2. ~(RangeBottom(rs[a + i]) < n)
      BY <1>6, <3>1
    <3>3. RangeBottom(rs[a + i]) \in Nat
      BY <1>2, <3>1
    <3> HIDE DEF tail
    <3> QED BY <3>1, <3>2, <3>3, SMTT(30)
  <2> HIDE DEF tail
  <2>3. ShiftAbove(tail, n) = 0
    BY <2>1, <2>2, ShiftAboveAll
  <2>4. /\ counted \in Seq(Int) /\ Len(counted) = N /\ all \in Seq(Int) /\ Len(all) = N
        /\ \A i \in 1 .. N : /\ counted[i] = IF RangeBottom(rs[i]) < n THEN rs[i].shift ELSE 0
                             /\ all[i] = rs[i].shift
    BY <1>1, CountedIs DEF N
  <2> HIDE DEF counted, all
  <2>5. \A i \in 1 .. a : counted[i] = all[i]
    <3> SUFFICES ASSUME NEW i \in 1 .. a PROVE counted[i] = all[i]
      OBVIOUS
    <3>1. i \in 1 .. N /\ i <= a
      BY <1>1, <1>5
    <3>2. RangeBottom(rs[i]) < n
      BY <1>6, <3>1
    <3> QED BY <2>4, <3>1, <3>2
  <2>6. Sums(counted)[a] = Sums(all)[a]
    <3>1. a \in Nat /\ a <= Len(counted) /\ a <= Len(all)
      BY <1>1, <1>5, <2>4
    <3> QED BY <2>4, <2>5, <3>1, SumsAgree
  <2>7. Sums(all)[a] = Carried(rs, a)
    BY DEF Carried, all
  <2>8. ShiftAbove(rs, n) = Sums(all)[a] + 0
    BY <2>1, <2>3, <2>6, Zenon
  <2>9. Sums(all)[a] \in Int
    BY <2>1, <2>6
  <2>10. Sums(all)[a] + 0 = Sums(all)[a]
    BY <2>9
  <2> QED BY <2>7, <2>8, <2>10
<1> QED BY <1>5, <1>6, <1>7 DEF N

\* A line of the merge base that is there divides the ranges, in the file and in the
\* merge base, and what the ranges above it carry is how far it has moved.
Divides(rs, w, k, a) ==
  /\ Carried(rs, a) = w - k
  /\ \A j \in 1 .. Len(rs) :
       IF j <= a THEN RangeBottom(rs[j]) < w /\ BaseBottom(rs, j) < k
       ELSE w <= RangeTop(rs[j]) /\ k <= BaseTop(rs, j)

\* So does the top of the file, and its end.
LEMMA RangesAbove ==
  ASSUME NEW rs, NEW places, NEW m, StackRanges(rs, places, m),
         NEW k \in 0 .. BaseLines + 1, Stays(places, m, k)
  PROVE  \E a \in 0 .. Len(rs) : Divides(rs, Where(places, m, k), k, a)
<1> DEFINE w == Where(places, m, k)
           N == Len(rs)
           top(j) == RangeTop(rs[j])
           bottom(j) == RangeBottom(rs[j])
           btop(j) == BaseTop(rs, j)
           bbottom(j) == BaseBottom(rs, j)
<1>1. /\ FileOf(places, m) /\ KeepsOrder(places, m) /\ RangesOK(rs) /\ Slim(rs)
      /\ Matches(rs, places, m) /\ ShiftsMatch(rs, places, m)
  BY DEF StackRanges
<1>2. rs \in Seq(GoodRange) /\ N \in Nat /\ DOMAIN rs = 1 .. N /\ BaseLines \in Nat
  BY <1>1, HunkRangesAssumption DEF RangesOK
<1>3. \A j \in 1 .. N : /\ bottom(j) \in Nat /\ top(j) \in Nat /\ top(j) <= bottom(j)
                        /\ btop(j) \in Int /\ bbottom(j) \in Int
                        /\ Carried(rs, j) \in Int /\ Carried(rs, j - 1) \in Int
                        /\ btop(j) = top(j) - Carried(rs, j - 1)
                        /\ bbottom(j) = bottom(j) - Carried(rs, j)
  <2> SUFFICES ASSUME NEW j \in 1 .. N
               PROVE  /\ bottom(j) \in Nat /\ top(j) \in Nat /\ top(j) <= bottom(j)
                      /\ btop(j) \in Int /\ bbottom(j) \in Int
                      /\ Carried(rs, j) \in Int /\ Carried(rs, j - 1) \in Int
                      /\ btop(j) = top(j) - Carried(rs, j - 1)
                      /\ bbottom(j) = bottom(j) - Carried(rs, j)
    OBVIOUS
  <2>1. /\ BaseTop(rs, j) \in Int /\ BaseBottom(rs, j) \in Int
        /\ Carried(rs, j) \in Int /\ Carried(rs, j - 1) \in Int
        /\ RangeTop(rs[j]) \in Nat /\ RangeBottom(rs[j]) \in Nat
        /\ RangeTop(rs[j]) <= RangeBottom(rs[j])
    BY <1>2, CarriedIs
  <2> QED BY <2>1 DEF BaseTop, BaseBottom
<1> HIDE DEF N
<1>4. /\ \A j \in 1 .. N : btop(j) <= bbottom(j)
      /\ \A i, j \in 1 .. N : i < j => bbottom(i) <= btop(j)
  BY <1>1, BaseOrder DEF N
<1>5. ASSUME NEW i \in 1 .. N, NEW j \in 1 .. N, i <= j
      PROVE  btop(i) <= btop(j) /\ bbottom(i) <= bbottom(j)
  <2> HIDE DEF btop, bbottom
  <2>1. CASE i = j
    BY <1>3, <2>1
  <2>2. CASE i # j
    <3>1. bbottom(i) <= btop(j)
      BY <1>2, <1>4, <1>5, <2>2
    <3>2. btop(i) <= bbottom(i) /\ btop(j) <= bbottom(j)
      BY <1>4
    <3>3. btop(i) \in Int /\ bbottom(i) \in Int /\ btop(j) \in Int /\ bbottom(j) \in Int
      BY <1>3
    <3> QED BY <3>1, <3>2, <3>3
  <2> QED BY <2>1, <2>2
<1>6. CASE k = 0
  <2>1. w = 0
    BY <1>6 DEF Where
  <2>2. Carried(rs, 0) = 0
    BY <1>2, CarriedIs
  <2> HIDE DEF w, top, bottom, btop, bbottom
  <2>3. ASSUME NEW j \in 1 .. N PROVE w <= top(j) /\ k <= btop(j) /\ ~(j <= 0)
    <3>1. 1 \in 1 .. N /\ 1 <= j /\ 1 - 1 = 0
      BY <1>2
    <3>2. btop(1) = top(1)
      BY <1>3, <2>2, <3>1
    <3>3. btop(1) <= btop(j)
      BY <1>5, <3>1
    <3>4. top(1) \in Nat /\ top(j) \in Nat /\ btop(1) \in Int /\ btop(j) \in Int /\ j \in Nat /\ j > 0
      <4>1. top(1) \in Nat /\ btop(1) \in Int
        BY <1>3, <3>1
      <4>2. top(j) \in Nat /\ btop(j) \in Int
        BY <1>3
      <4> QED BY <1>2, <4>1, <4>2
    <3> QED BY <1>6, <2>1, <3>2, <3>3, <3>4
  <2>4. Divides(rs, w, k, 0)
    BY <1>6, <2>1, <2>2, <2>3 DEF Divides, top, btop, N
  <2> QED BY <1>2, <2>4 DEF w, N
<1>7. CASE k # 0
  <2>1. w \in Int
    <3>1. k \in 1 .. BaseLines + 1
      BY <1>2, <1>7
    <3> QED BY <1>1, <3>1, WhereIs
  <2>2. Origin(places, m, w) = k
    BY DEF Stays
  <2> HIDE DEF w
  <2>3. ShiftAbove(rs, w) = w - k
    BY <1>1, <1>7, <2>1, <2>2 DEF ShiftsMatch
  <2>4. Free(rs, w)
    <3>1. \A d \in Commit : Says(rs, FALSE, w, d) => FileSays(places, m, FALSE, w, d)
      BY <1>1, <2>1 DEF Matches
    <3>2. Origin(places, m, w) # 0
      BY <1>7, <2>2
    <3> QED BY <1>1, <2>1, <3>1, <3>2, OriginFree
  <2>5. PICK a \in 0 .. N : /\ \A j \in 1 .. N : j <= a <=> bottom(j) < w
                            /\ ShiftAbove(rs, w) = Carried(rs, a)
    BY <1>1, <2>1, CountAbove DEF N
  <2>6. Carried(rs, a) = w - k
    BY <2>3, <2>5
  <2>7. ASSUME NEW j \in 1 .. N PROVE ~(top(j) < w /\ w <= bottom(j))
    BY <1>2, <2>4 DEF Free, Owns
  <2> HIDE DEF top, bottom, btop, bbottom
  <2>8. ASSUME NEW j \in 1 .. N, j <= a PROVE bottom(j) < w /\ bbottom(j) < k
    <3>1. a \in 1 .. N /\ a <= a
      BY <1>2, <2>8
    <3>2. bottom(a) < w /\ bottom(j) < w
      BY <2>5, <2>8, <3>1
    <3>3. bbottom(a) = bottom(a) - (w - k)
      BY <1>3, <2>6, <3>1
    <3>4. bbottom(a) < k
      BY <1>2, <1>3, <2>1, <3>1, <3>2, <3>3
    <3>5. bbottom(j) <= bbottom(a)
      BY <1>5, <2>8, <3>1
    <3>6. bbottom(j) \in Int /\ bbottom(a) \in Int /\ k \in Int
      BY <1>2, <1>3, <3>1
    <3> QED BY <3>2, <3>4, <3>5, <3>6
  <2>9. ASSUME NEW j \in 1 .. N, ~(j <= a) PROVE w <= top(j) /\ k <= btop(j)
    <3>1. a + 1 \in 1 .. N /\ a + 1 <= j /\ ~(a + 1 <= a) /\ (a + 1) - 1 = a
      BY <1>2, <2>9
    <3>2. ~(bottom(j) < w) /\ ~(bottom(a + 1) < w)
      BY <2>5, <2>9, <3>1
    <3>3. w <= top(j) /\ w <= top(a + 1)
      <4>1. top(j) \in Nat /\ bottom(j) \in Nat /\ top(a + 1) \in Nat /\ bottom(a + 1) \in Nat
        BY <1>3, <3>1
      <4>2. ~(top(j) < w /\ w <= bottom(j)) /\ ~(top(a + 1) < w /\ w <= bottom(a + 1))
        BY <2>7, <3>1
      <4> QED BY <2>1, <3>2, <4>1, <4>2
    <3>4. btop(a + 1) = top(a + 1) - (w - k)
      BY <1>3, <2>6, <3>1
    <3>5. k <= btop(a + 1)
      BY <1>2, <1>3, <2>1, <3>1, <3>3, <3>4
    <3>6. btop(a + 1) <= btop(j)
      BY <1>5, <3>1
    <3>7. btop(j) \in Int /\ btop(a + 1) \in Int /\ k \in Int
      BY <1>2, <1>3, <3>1
    <3> QED BY <3>3, <3>5, <3>6, <3>7
  <2>10. Divides(rs, w, k, a)
    BY <2>6, <2>8, <2>9 DEF Divides, top, bottom, btop, bbottom, N
  <2> QED BY <2>10 DEF w, N
<1> QED BY <1>6, <1>7

\* Between line k of the merge base and the next one that is still there.
InBlock(r, places, m, k) ==
  /\ k \in 0 .. BaseLines /\ Stays(places, m, k)
  /\ Where(places, m, k) <= RangeTop(r) /\ RangeTop(r) < Where(places, m, k + 1)

\* Every range is there, for some k.
LEMMA RangeBlock ==
  ASSUME NEW rs, NEW places, NEW m, StackRanges(rs, places, m), NEW j \in 1 .. Len(rs)
  PROVE  \E k \in 0 .. BaseLines : InBlock(rs[j], places, m, k)
<1>1. FileOf(places, m) /\ KeepsOrder(places, m) /\ RangesOK(rs) /\ Matches(rs, places, m) /\ m \in Nat
  BY DEF StackRanges, FileOf
<1>2. rs \in Seq(GoodRange) /\ j \in DOMAIN rs
  BY <1>1 DEF RangesOK
<1>3. RangeBottom(rs[j]) <= m /\ RangeBottom(rs[j]) \in Nat
  BY <1>1, <1>2, RangesWithin
<1>4. RangeTop(rs[j]) \in Nat /\ RangeTop(rs[j]) <= RangeBottom(rs[j])
  BY <1>2, CarriedIs
<1>5. RangeTop(rs[j]) \in 0 .. m
  BY <1>1, <1>3, <1>4
<1>6. PICK k \in 0 .. BaseLines : /\ Stays(places, m, k)
                                  /\ Where(places, m, k) <= RangeTop(rs[j])
                                  /\ RangeTop(rs[j]) < Where(places, m, k + 1)
  BY <1>1, <1>5, BlockOf
<1> QED BY <1>6 DEF InBlock

\* It ends there too, and in the merge base it is among lines that have changed.
LEMMA BlockIs ==
  ASSUME NEW rs, NEW places, NEW m, StackRanges(rs, places, m), NEW j \in 1 .. Len(rs),
         NEW k \in 0 .. BaseLines, InBlock(rs[j], places, m, k)
  PROVE  /\ RangeBottom(rs[j]) < Where(places, m, k + 1)
         /\ \E k2 \in k + 1 .. BaseLines + 1 :
              /\ k <= BaseTop(rs, j) /\ BaseTop(rs, j) <= BaseBottom(rs, j) /\ BaseBottom(rs, j) < k2
              /\ k .. k2 - 1 \subseteq Changed(places)
<1> DEFINE w == Where(places, m, k)
           v == Where(places, m, k + 1)
           k2 == Origin(places, m, v)
           r == rs[j]
           top == RangeTop(r)
           bottom == RangeBottom(r)
<1>1. FileOf(places, m) /\ KeepsOrder(places, m) /\ RangesOK(rs) /\ Slim(rs) /\ Matches(rs, places, m) /\ m \in Nat
  BY DEF StackRanges, FileOf
<1>2. Stays(places, m, k) /\ w <= top /\ top < v
  BY DEF InBlock
<1>3. /\ BaseLines \in Nat /\ rs \in Seq(GoodRange) /\ Len(rs) \in Nat
      /\ r \in GoodRange /\ top \in Nat /\ bottom \in Nat /\ top <= bottom /\ bottom = top + r.lines /\ r.lines \in Nat
  BY <1>1, CarriedIs, HunkRangesAssumption DEF RangesOK
<1>4. w \in 0 .. m + 1 /\ v \in 1 .. m + 1
  BY <1>1, WhereNext
<1>5. k2 \in k + 1 .. BaseLines + 1 /\ k2 # 0 /\ k2 \in 0 .. BaseLines + 1
  <2>1. k + 1 \in 1 .. BaseLines + 1
    BY <1>3
  <2>2. k + 1 <= k2 /\ k2 \in 0 .. BaseLines + 1
    BY <1>1, <1>4, <2>1, WhereIs, OriginRange
  <2> HIDE DEF k2
  <2> QED BY <1>3, <2>2
<1>6. Where(places, m, k2) = v /\ Stays(places, m, k2)
  <2>1. v \in Int
    BY <1>1, <1>4
  <2> QED BY <1>1, <1>5, <2>1, OriginWhere
<1>7. PICK a \in 0 .. Len(rs) : Divides(rs, w, k, a)
  <2>1. k \in 0 .. BaseLines + 1
    BY <1>3
  <2> QED BY <1>2, <2>1, RangesAbove
<1>8. PICK b \in 0 .. Len(rs) : Divides(rs, v, k2, b)
  BY <1>5, <1>6, RangesAbove
<1>9. k <= BaseTop(rs, j)
  <2>1. j <= a => bottom < w
    BY <1>7 DEF Divides
  <2>2. ~(j <= a) => k <= BaseTop(rs, j)
    BY <1>7 DEF Divides
  <2> HIDE DEF w, v, top, bottom
  <2>3. ~(bottom < w)
    BY <1>1, <1>2, <1>3, <1>4
  <2> QED BY <2>1, <2>2, <2>3
<1>10. bottom < v /\ BaseBottom(rs, j) < k2
  <2>1. j <= b => bottom < v /\ BaseBottom(rs, j) < k2
    BY <1>8 DEF Divides
  <2>2. ~(j <= b) => v <= top
    BY <1>8 DEF Divides
  <2> HIDE DEF w, v, top, bottom
  <2>3. ~(v <= top)
    BY <1>1, <1>2, <1>3, <1>4
  <2> QED BY <2>1, <2>2, <2>3
<1>11. BaseTop(rs, j) <= BaseBottom(rs, j)
  BY <1>1, BaseOrder
<1>12. \E q \in 2 * w + 1 .. 2 * v - 1 : places[q].commit # Base
  <2> HIDE DEF w, v, top, bottom, r
  <2>1. r.commit \in Commit /\ r.commit # Base
    BY <1>3 DEF GoodRange, HunkRange, Commit, Base
  <2>2. j \in DOMAIN rs
    BY <1>3
  <2>3. CASE r.lines = 0
    <3>1. Owns(r, TRUE, top)
      BY <1>3, <2>3 DEF Owns, top, bottom
    <3>2. Says(rs, TRUE, top, r.commit)
      BY <2>2, <3>1 DEF Says, r
    <3>3. FileSays(places, m, TRUE, top, r.commit)
      <4>1. TRUE \in BOOLEAN /\ top \in Int
        BY <1>3
      <4> QED BY <1>1, <2>1, <3>2, <4>1 DEF Matches
    <3>4. places[2 * top + 1].commit = r.commit
      BY <3>3 DEF FileSays, CommitAt, GapAfter
    <3>5. 2 * top + 1 \in 2 * w + 1 .. 2 * v - 1
      BY <1>1, <1>2, <1>3, <1>4
    <3> QED BY <2>1, <3>4, <3>5
  <2>4. CASE r.lines # 0
    <3>1. Owns(r, FALSE, bottom)
      <4>1. top < bottom
        BY <1>3, <2>4
      <4> QED BY <1>3, <4>1 DEF Owns, top, bottom
    <3>2. Says(rs, FALSE, bottom, r.commit)
      BY <2>2, <3>1 DEF Says, r
    <3>3. FileSays(places, m, FALSE, bottom, r.commit)
      <4>1. FALSE \in BOOLEAN /\ bottom \in Int
        BY <1>3
      <4> QED BY <1>1, <2>1, <3>2, <4>1 DEF Matches
    <3>4. places[2 * bottom].commit = r.commit
      BY <3>3 DEF FileSays, CommitAt, LineAt
    <3>5. w < bottom /\ bottom < v
      BY <1>1, <1>2, <1>3, <1>4, <1>10, <2>4
    <3>6. 2 * bottom \in 2 * w + 1 .. 2 * v - 1
      <4>1. w \in Int /\ v \in Int /\ bottom \in Int
        BY <1>1, <1>3, <1>4
      <4>2. \A x, y, z \in Int : x < y /\ y < z => 2 * y \in 2 * x + 1 .. 2 * z - 1
        OBVIOUS
      <4> QED BY <3>5, <4>1, <4>2
    <3> QED BY <2>1, <3>4, <3>6
  <2> QED BY <2>3, <2>4
<1>13. k .. k2 - 1 \subseteq Changed(places)
  BY <1>1, <1>2, <1>12, BlockChanged
<1> HIDE DEF k2
<1> QED BY <1>5, <1>9, <1>10, <1>11, <1>13

\* So its part of the merge base is nobody else's.
LEMMA Touched ==
  ASSUME NEW rs, NEW places, NEW m, StackRanges(rs, places, m), NEW j \in 1 .. Len(rs)
  PROVE  /\ BaseTop(rs, j) \in Nat /\ BaseBottom(rs, j) \in Nat /\ BaseTop(rs, j) <= BaseBottom(rs, j)
         /\ BaseTop(rs, j) .. BaseBottom(rs, j) \subseteq Changed(places)
<1>1. rs \in Seq(GoodRange)
  BY DEF StackRanges, RangesOK
<1>2. BaseTop(rs, j) \in Int /\ BaseBottom(rs, j) \in Int
  BY <1>1, CarriedIs
<1>3. PICK k \in 0 .. BaseLines : InBlock(rs[j], places, m, k)
  BY RangeBlock
<1>4. PICK k2 \in k + 1 .. BaseLines + 1 :
        /\ k <= BaseTop(rs, j) /\ BaseTop(rs, j) <= BaseBottom(rs, j) /\ BaseBottom(rs, j) < k2
        /\ k .. k2 - 1 \subseteq Changed(places)
  BY <1>3, BlockIs
<1>5. BaseLines \in Nat
  BY HunkRangesAssumption
<1>6. BaseTop(rs, j) \in Nat /\ BaseBottom(rs, j) \in Nat
  BY <1>2, <1>4, <1>5
<1>7. ASSUME NEW x \in BaseTop(rs, j) .. BaseBottom(rs, j) PROVE x \in k .. k2 - 1
  BY <1>2, <1>4, <1>5
<1> QED BY <1>4, <1>6, <1>7

\* The ranges of all stacks and their files.
AllRanges(byStack, files) ==
  /\ byStack \in [Stack -> Seq(GoodRange)]
  /\ \A s \in Stack : StackRanges(byStack[s], files[s], LineCount(files[s]))
  /\ Independent(files)

At(files, s, k) == Where(files[s], LineCount(files[s]), k)
Keeps(files, s, k) == Stays(files[s], LineCount(files[s]), k)
Block(byStack, files, s, j, k) == InBlock(byStack[s][j], files[s], LineCount(files[s]), k)

\* A line of the merge base about which stack s has changed something, all others keep.
LEMMA OthersKeep ==
  ASSUME NEW files, Independent(files),
         \A s \in Stack : FileOf(files[s], LineCount(files[s])) /\ KeepsOrder(files[s], LineCount(files[s])),
         NEW s \in Stack, NEW t \in Stack, t # s, NEW k \in 0 .. BaseLines, k \in Changed(files[s])
  PROVE  Keeps(files, t, k) /\ At(files, t, k + 1) = At(files, t, k) + 1
<1>1. k \notin Changed(files[t])
  BY DEF Independent
<1> QED BY <1>1, Unchanged DEF Keeps, At

\* The ranges of another stack are on either side of a range, in the merge base, and those
\* on the upper side carry as much as the lines below them have moved.
LEMMA Apart ==
  ASSUME NEW byStack, NEW files, AllRanges(byStack, files),
         NEW s \in Stack, NEW j \in 1 .. Len(byStack[s]),
         NEW k \in 0 .. BaseLines, Block(byStack, files, s, j, k),
         NEW t \in Stack, t # s
  PROVE  \E a \in 0 .. Len(byStack[t]) :
           /\ Carried(byStack[t], a) = At(files, t, k) - k
           /\ \A i \in 1 .. Len(byStack[t]) :
                IF i <= a THEN BaseBottom(byStack[t], i) < BaseTop(byStack[s], j)
                ELSE BaseBottom(byStack[s], j) < BaseTop(byStack[t], i)
<1> DEFINE rs == byStack[s]
           ro == byStack[t]
<1>1. /\ StackRanges(rs, files[s], LineCount(files[s])) /\ StackRanges(ro, files[t], LineCount(files[t]))
      /\ Independent(files)
      /\ \A u \in Stack : FileOf(files[u], LineCount(files[u])) /\ KeepsOrder(files[u], LineCount(files[u]))
      /\ rs \in Seq(GoodRange) /\ ro \in Seq(GoodRange) /\ BaseLines \in Nat
  BY HunkRangesAssumption DEF AllRanges, StackRanges
<1>2. PICK k2 \in k + 1 .. BaseLines + 1 :
        /\ k <= BaseTop(rs, j) /\ BaseTop(rs, j) <= BaseBottom(rs, j) /\ BaseBottom(rs, j) < k2
        /\ k .. k2 - 1 \subseteq Changed(files[s])
  BY <1>1, BlockIs DEF Block
<1>3. k \in Changed(files[s])
  BY <1>1, <1>2
<1>4. Keeps(files, t, k)
  BY <1>1, <1>3, OthersKeep
<1>5. PICK a \in 0 .. Len(ro) : Divides(ro, At(files, t, k), k, a)
  <2>1. k \in 0 .. BaseLines + 1
    BY <1>1
  <2> QED BY <1>1, <1>4, <2>1, RangesAbove DEF Keeps, At
<1>6. Carried(ro, a) = At(files, t, k) - k
  BY <1>5 DEF Divides
<1>7. BaseTop(rs, j) \in Int /\ BaseBottom(rs, j) \in Int
  BY <1>1, CarriedIs
<1>8. ASSUME NEW i \in 1 .. Len(ro), i <= a PROVE BaseBottom(ro, i) < BaseTop(rs, j)
  <2>1. BaseBottom(ro, i) < k
    BY <1>5, <1>8 DEF Divides
  <2>2. BaseBottom(ro, i) \in Int
    BY <1>1, CarriedIs
  <2> QED BY <1>1, <1>2, <1>7, <2>1, <2>2
<1>9. ASSUME NEW i \in 1 .. Len(ro), ~(i <= a) PROVE BaseBottom(rs, j) < BaseTop(ro, i)
  <2> DEFINE x == BaseTop(ro, i)
  <2>1. k <= x
    BY <1>5, <1>9 DEF Divides
  <2>2. /\ x \in Nat /\ BaseBottom(ro, i) \in Nat /\ x <= BaseBottom(ro, i)
        /\ x .. BaseBottom(ro, i) \subseteq Changed(files[t])
    BY <1>1, Touched
  <2> HIDE DEF x
  <2>3. x \in Changed(files[t])
    BY <2>2
  <2>4. x \notin Changed(files[s])
    BY <1>1, <2>3 DEF Independent
  <2>5. ~(x \in k .. k2 - 1)
    BY <1>2, <2>4
  <2> QED BY <1>1, <1>2, <1>7, <2>1, <2>2, <2>5 DEF x
<1> QED BY <1>6, <1>8, <1>9

-----------------------------------------------------------------------------
(* combine_path_ranges: what is put out in order is where it belongs *)

\* What one turn of the loop takes.
Takes(byStack, acc, now, s, j) ==
  /\ j = acc.next[s] /\ j \in 1 .. Len(byStack[s])
  /\ now.out = Append(acc.out, [byStack[s][j] EXCEPT !.start = Max({0, @ + SumOf(Others(byStack, acc.next, s))})])
  /\ now.next[s] = j + 1 /\ \A t \in Stack : t # s => now.next[t] = acc.next[t]

\* There is a range left to take.
LEMMA CombineTakes ==
  ASSUME NEW byStack \in [Stack -> Seq(GoodRange)], NEW k \in 1 .. RangeCount(byStack),
         NEW acc, CombineOK(byStack, k - 1, acc)
  PROVE  \E s \in Stack : Takes(byStack, acc, CombineNext(acc, byStack), s, acc.next[s])
<1> DEFINE next == acc.next
           s == NextStack(next, byStack)
           now == CombineNext(acc, byStack)
           r == byStack[s][next[s]]
           q(d) == [r EXCEPT !.start = Max({0, @ + d})]
           next2 == [next EXCEPT ![s] = @ + 1]
<1>1. /\ next \in [Stack -> Nat] /\ \A t \in Stack : next[t] \in 1 .. Len(byStack[t]) + 1
      /\ SumOf(Taken(next)) = k - 1
      /\ acc.moved \in [Stack -> Int]
      /\ \A t \in Stack : acc.moved[t] = SumOf(Others(byStack, next, t))
  BY DEF CombineOK
<1>2. now.out = Append(acc.out, q(acc.moved[s])) /\ now.next = next2
  BY DEF CombineNext
<1>3. \A t \in Stack : byStack[t] \in Seq(GoodRange) /\ Len(byStack[t]) \in Nat
  OBVIOUS
<1>4. k \in Nat /\ RangeCount(byStack) \in Nat
  BY RangesLeft
<1> HIDE DEF next, now
<1>5. \E t \in Stack : next[t] <= Len(byStack[t])
  BY <1>1, RangesLeft
<1>6. s \in Stack /\ next[s] \in 1 .. Len(byStack[s])
  <2>1. byStack \in [Stack -> Seq(HunkRange)]
    <3>1. GoodRange \subseteq HunkRange
      BY DEF GoodRange
    <3> QED BY <1>3, <3>1
  <2>2. \A t \in Stack : next[t] >= 1
    BY <1>1, <1>3
  <2> QED BY <1>1, <1>5, <2>1, <2>2, NextStackIs
<1> HIDE DEF s, r, q
<1>7. now.out = Append(acc.out, q(SumOf(Others(byStack, next, s))))
  BY <1>1, <1>2, <1>6
<1>8. next2[s] = next[s] + 1 /\ \A t \in Stack : t # s => next2[t] = next[t]
  BY <1>1, <1>6
<1> HIDE DEF next2
<1>9. Takes(byStack, acc, now, s, next[s])
  BY <1>2, <1>6, <1>7, <1>8 DEF Takes, q, r, next
<1> QED BY <1>6, <1>9 DEF now, next

\* A range that is moved, and one that would be moved above the top of the file.
LEMMA MovedRange ==
  ASSUME NEW r \in GoodRange, NEW d \in Int,
         NEW q, q = [r EXCEPT !.start = Max({0, @ + d})]
  PROVE  /\ RangeTop(r) + d >= 0 =>
              /\ q = MoveBy(r, d) /\ q \in GoodRange
              /\ RangeTop(q) = RangeTop(r) + d /\ RangeBottom(q) = RangeBottom(r) + d
         /\ RangeTop(r) + d < 0 =>
              (r.lines = 0 /\ RangeTop(q) = 0) \/ (r.lines # 0 /\ RangeTop(q) = -1)
<1> DEFINE x == Max({0, r.start + d})
<1>1. r \in HunkRange /\ r.start \in Nat /\ r.lines \in Nat /\ SpanOK(r.start, r.lines)
  BY DEF GoodRange, HunkRange
<1>2. r.start + d \in Int
  BY <1>1
<1>3. \E y \in {0, r.start + d} : \A z \in {0, r.start + d} : y >= z
  BY <1>2
<1>4. x \in {0, r.start + d} /\ x >= 0 /\ x >= r.start + d
  BY <1>3 DEF Max
<1>5. q = [r EXCEPT !.start = x]
  OBVIOUS
<1> HIDE DEF x
<1>6. q \in HunkRange /\ q.start = x /\ q.lines = r.lines
  <2>1. x \in Nat
    BY <1>2, <1>4
  <2> QED BY <1>1, <1>5, <2>1 DEF HunkRange
<1>7. RangeTop(r) \in Int
  BY RangeSpan
<1>8. CASE RangeTop(r) + d >= 0
  <2>1. x = r.start + d /\ SpanOK(x, r.lines)
    <3>1. CASE r.lines = 0
      <4>1. r.start + d >= 0
        BY <1>1, <1>8, <3>1 DEF RangeTop, Top
      <4>2. x = r.start + d
        BY <1>2, <1>4, <4>1
      <4> QED BY <3>1, <4>2 DEF SpanOK
    <3>2. CASE r.lines # 0
      <4>1. r.start + d >= 1
        BY <1>1, <1>8, <3>2 DEF RangeTop, Top
      <4>2. x = r.start + d
        BY <1>2, <1>4, <4>1
      <4> QED BY <1>2, <4>1, <4>2 DEF SpanOK
    <3> QED BY <3>1, <3>2
  <2>2. q = MoveBy(r, d)
    BY <1>5, <2>1 DEF MoveBy
  <2>3. q \in GoodRange
    BY <1>6, <2>1 DEF GoodRange
  <2>4. RangeTop(q) = RangeTop(r) + d
    <3>1. CASE r.lines = 0
      BY <1>1, <1>6, <2>1, <3>1 DEF RangeTop, Top
    <3>2. CASE r.lines # 0
      BY <1>1, <1>6, <2>1, <3>2 DEF RangeTop, Top
    <3> QED BY <3>1, <3>2
  <2>5. /\ RangeBottom(q) = RangeTop(q) + q.lines /\ RangeBottom(r) = RangeTop(r) + r.lines
        /\ RangeTop(r) \in Nat
    BY <2>3, RangeSpan
  <2>6. RangeBottom(q) = RangeBottom(r) + d
    BY <1>1, <1>6, <2>4, <2>5
  <2> QED BY <1>8, <1>7, <2>2, <2>3, <2>4, <2>6
<1>9. CASE RangeTop(r) + d < 0
  <2>1. CASE r.lines = 0
    <3>1. r.start + d < 0
      BY <1>1, <1>9, <2>1 DEF RangeTop, Top
    <3>2. x = 0
      BY <1>2, <1>4, <3>1
    <3>3. RangeTop(q) = 0
      BY <1>6, <2>1, <3>2 DEF RangeTop, Top
    <3> QED BY <1>9, <1>7, <2>1, <3>3
  <2>2. CASE r.lines # 0
    <3>1. r.start + d <= 0
      BY <1>1, <1>9, <2>2 DEF RangeTop, Top
    <3>2. x = 0
      BY <1>2, <1>4, <3>1
    <3>3. RangeTop(q) = -1
      BY <1>6, <2>2, <3>2 DEF RangeTop, Top
    <3> QED BY <1>9, <1>7, <2>2, <3>3
  <2> QED BY <2>1, <2>2
<1> QED BY <1>8, <1>9, <1>7

\* What all the ranges taken carry.
AllTaken(byStack, next) == SumOf([s \in Stack |-> Carried(byStack[s], next[s] - 1)])

\* It is what the others carry, and what the stack's own do.
LEMMA AllTakenIs ==
  ASSUME NEW byStack \in [Stack -> Seq(GoodRange)], NEW next \in [Stack -> Nat],
         \A s \in Stack : next[s] \in 1 .. Len(byStack[s]) + 1,
         NEW s \in Stack
  PROVE  /\ AllTaken(byStack, next) \in Int /\ SumOf(Others(byStack, next, s)) \in Int
         /\ AllTaken(byStack, next) = SumOf(Others(byStack, next, s)) + Carried(byStack[s], next[s] - 1)
<1> DEFINE a == Others(byStack, next, s)
           b == [t \in Stack |-> Carried(byStack[t], next[t] - 1)]
           d == Carried(byStack[s], next[s] - 1)
<1>1. \A t \in Stack : Carried(byStack[t], next[t] - 1) \in Int
  <2> SUFFICES ASSUME NEW t \in Stack PROVE Carried(byStack[t], next[t] - 1) \in Int
    OBVIOUS
  <2>1. byStack[t] \in Seq(GoodRange) /\ next[t] - 1 \in 0 .. Len(byStack[t])
    OBVIOUS
  <2> QED BY <2>1, CarriedIs
<1>2. a \in [Stack -> Int] /\ b \in [Stack -> Int]
  <2>1. b \in [Stack -> Int]
    BY <1>1
  <2> HIDE DEF b
  <2> QED BY <2>1, TakenIs
<1>3. a[s] = 0 /\ b[s] = d /\ d \in Int /\ \A t \in Stack : t # s => b[t] = a[t]
  BY <1>1 DEF Others, Carried
<1> HIDE DEF a, b, d
<1>4. /\ a \in Seq(Int) /\ b \in Seq(Int) /\ Len(a) = Len(b) /\ 1 .. Len(a) = Stack
  BY <1>2, StackNumbers
<1>5. b[s] = a[s] + d
  BY <1>3
<1>6. s \in 1 .. Len(a) /\ \A i \in 1 .. Len(a) : i # s => b[i] = a[i]
  BY <1>3, <1>4
<1>7. SumOf(b) = SumOf(a) + d
  BY <1>3, <1>4, <1>5, <1>6, SumOfChanged
<1>8. SumOf(a) \in Int
  <2>1. Len(a) \in 0 .. Len(a)
    BY <1>4
  <2> QED BY <1>4, <2>1, SumsAre DEF SumOf
<1> QED BY <1>3, <1>7, <1>8 DEF AllTaken, a, b, d

\* Taking one more adds its shift.
LEMMA OneMoreTaken ==
  ASSUME NEW byStack \in [Stack -> Seq(GoodRange)], NEW next \in [Stack -> Nat], NEW after \in [Stack -> Nat],
         \A s \in Stack : next[s] \in 1 .. Len(byStack[s]) + 1,
         NEW s \in Stack, next[s] \in 1 .. Len(byStack[s]), after[s] = next[s] + 1,
         \A t \in Stack : t # s => after[t] = next[t]
  PROVE  AllTaken(byStack, after) = AllTaken(byStack, next) + byStack[s][next[s]].shift
<1> DEFINE a == Others(byStack, next, s)
           b == Others(byStack, after, s)
           j == next[s]
<1>1. \A t \in Stack : after[t] \in 1 .. Len(byStack[t]) + 1
  <2> SUFFICES ASSUME NEW t \in Stack PROVE after[t] \in 1 .. Len(byStack[t]) + 1
    OBVIOUS
  <2>1. Len(byStack[s]) \in Nat
    OBVIOUS
  <2>2. CASE t = s
    BY <2>1, <2>2
  <2>3. CASE t # s
    BY <2>3
  <2> QED BY <2>2, <2>3
<1>2. a = b
  BY DEF Others
<1>3. /\ AllTaken(byStack, next) = SumOf(a) + Carried(byStack[s], next[s] - 1) /\ SumOf(a) \in Int
      /\ AllTaken(byStack, after) = SumOf(b) + Carried(byStack[s], after[s] - 1)
  BY <1>1, AllTakenIs
<1>4. byStack[s] \in Seq(GoodRange) /\ j \in 1 .. Len(byStack[s]) /\ after[s] - 1 = j
  OBVIOUS
<1>5. /\ Carried(byStack[s], j) = Carried(byStack[s], j - 1) + byStack[s][j].shift
      /\ Carried(byStack[s], j - 1) \in Int /\ byStack[s][j].shift \in Int
  BY <1>4, CarriedIs
<1> HIDE DEF a, b
<1> QED BY <1>2, <1>3, <1>4, <1>5

\* Range j of stack s, moved by what was taken of the other stacks before it: of the ranges
\* that are taken, those that end above it in the merge base.
Placed(byStack, s, j, q, next) ==
  \E seen \in [Stack -> Nat] :
    /\ \A t \in Stack : seen[t] \in 1 .. next[t]
    /\ q = MoveBy(byStack[s][j], SumOf(Others(byStack, seen, s)))
    /\ \A t \in Stack : t # s =>
         \A i \in 1 .. next[t] - 1 :
           IF i < seen[t] THEN BaseBottom(byStack[t], i) <= BaseTop(byStack[s], j)
           ELSE BaseBottom(byStack[s], j) <= BaseTop(byStack[t], i)

\* What was taken as far as line b of the merge base, when no two of the ranges that were
\* put out are out of order.
ChainOK(byStack, files, k, out, next, b) ==
  LET all == AllTaken(byStack, next)
  IN  /\ b + all \in Nat
      /\ RangesOK(out) /\ UpTo(out, b + all)
      /\ k = 0 => b = 0 /\ all = 0
      /\ k > 0 => RangeBottom(out[k]) = b + all
      /\ k > 0 /\ b + all = 0 =>
           \E s \in Stack : /\ 0 .. b \subseteq Changed(files[s])
                            /\ next[s] > 1 /\ BaseBottom(byStack[s], next[s] - 1) = b
      /\ \A s \in Stack : \A j \in 1 .. next[s] - 1 :
           /\ BaseBottom(byStack[s], j) <= b
           /\ \E i \in 1 .. k : Placed(byStack, s, j, out[i], next)
      /\ \A i \in 1 .. k : \E s \in Stack : \E j \in 1 .. next[s] - 1 : Placed(byStack, s, j, out[i], next)

\* A range moved, and not above the top of the file.
Lifted(r, d) == [r EXCEPT !.start = Max({0, @ + d})]

\* What ChainPlace says of the next range to be put out, and when.
Lands(byStack, next, b, s, q) ==
  /\ b <= BaseTop(byStack[s], next[s])
  /\ q = MoveBy(byStack[s][next[s]], SumOf(Others(byStack, next, s))) /\ q \in GoodRange
  /\ RangeTop(q) = BaseTop(byStack[s], next[s]) + AllTaken(byStack, next)
  /\ RangeBottom(q) = BaseBottom(byStack[s], next[s]) + AllTaken(byStack, next) + byStack[s][next[s]].shift
IsNext(byStack, files, k, out, next, b, s, q) ==
  /\ AllRanges(byStack, files) /\ k \in Nat /\ b \in Nat /\ s \in Stack
  /\ next \in [Stack -> Nat] /\ \A t \in Stack : next[t] \in 1 .. Len(byStack[t]) + 1
  /\ ChainOK(byStack, files, k, out, next, b)
  /\ next[s] \in 1 .. Len(byStack[s])
  /\ q = Lifted(byStack[s][next[s]], SumOf(Others(byStack, next, s)))
  /\ k > 0 => RangeBottom(out[k]) <= RangeTop(q)

\* Where the next range goes: in order, or it would be above the top of the file.
LEMMA ChainPlace ==
  ASSUME NEW byStack, NEW files, NEW k, NEW out, NEW next, NEW b, NEW s, NEW q,
         IsNext(byStack, files, k, out, next, b, s, q)
  PROVE  Lands(byStack, next, b, s, q)
<1>0. /\ AllRanges(byStack, files) /\ k \in Nat /\ b \in Nat /\ s \in Stack
      /\ next \in [Stack -> Nat] /\ \A t \in Stack : next[t] \in 1 .. Len(byStack[t]) + 1
      /\ ChainOK(byStack, files, k, out, next, b)
      /\ next[s] \in 1 .. Len(byStack[s])
      /\ q = Lifted(byStack[s][next[s]], SumOf(Others(byStack, next, s)))
      /\ k > 0 => RangeBottom(out[k]) <= RangeTop(q)
  BY DEF IsNext
<1> DEFINE rs == byStack[s]
           j == next[s]
           r == rs[j]
           all == AllTaken(byStack, next)
           d == SumOf(Others(byStack, next, s))
           top == BaseTop(rs, j)
           bottom == BaseBottom(rs, j)
<1>1. /\ byStack \in [Stack -> Seq(GoodRange)] /\ rs \in Seq(GoodRange)
      /\ StackRanges(rs, files[s], LineCount(files[s])) /\ Independent(files)
  BY <1>0 DEF AllRanges
<1>2. all \in Int /\ d \in Int /\ all = d + Carried(rs, j - 1)
  BY <1>0, <1>1, AllTakenIs
<1>3. /\ r \in GoodRange /\ RangeTop(r) \in Nat /\ RangeBottom(r) \in Nat
      /\ Carried(rs, j - 1) \in Int /\ Carried(rs, j) = Carried(rs, j - 1) + r.shift /\ r.shift \in Int
  BY <1>0, <1>1, CarriedIs
<1>4. top = RangeTop(r) - Carried(rs, j - 1) /\ bottom = RangeBottom(r) - Carried(rs, j)
  BY DEF BaseTop, BaseBottom
<1>5. top \in Nat /\ bottom \in Nat /\ top <= bottom /\ top .. bottom \subseteq Changed(files[s])
  BY <1>0, <1>1, Touched
<1>6. /\ RangeTop(r) + d >= 0 =>
           /\ q = MoveBy(r, d) /\ q \in GoodRange
           /\ RangeTop(q) = RangeTop(r) + d /\ RangeBottom(q) = RangeBottom(r) + d
      /\ RangeTop(r) + d < 0 =>
           (r.lines = 0 /\ RangeTop(q) = 0) \/ (r.lines # 0 /\ RangeTop(q) = -1)
  <2>1. q = [r EXCEPT !.start = Max({0, @ + d})]
    BY <1>0 DEF Lifted
  <2> HIDE DEF r, d
  <2> QED BY <1>2, <1>3, <2>1, MovedRange
<1>7. /\ b + all \in Nat
      /\ k = 0 => b = 0 /\ all = 0
      /\ k > 0 => RangeBottom(out[k]) = b + all
      /\ k > 0 /\ b + all = 0 =>
           \E t \in Stack : /\ 0 .. b \subseteq Changed(files[t])
                            /\ next[t] > 1 /\ BaseBottom(byStack[t], next[t] - 1) = b
  BY <1>0 DEF ChainOK
<1>8. j > 1 => BaseBottom(rs, j - 1) <= top
  <2>1. RangesOK(rs) /\ Slim(rs)
    BY <1>1 DEF StackRanges
  <2>2. j > 1 => j - 1 \in 1 .. Len(rs) /\ j - 1 < j
    <3> HIDE DEF rs
    <3>1. j \in 1 .. Len(rs) /\ Len(rs) \in Nat
      BY <1>0, <1>1 DEF rs
    <3> HIDE DEF j
    <3> QED BY <3>1
  <2> QED BY <1>0, <1>1, <2>1, <2>2, BaseOrder
<1> HIDE DEF r, all, d, top, bottom, j, rs
<1>9. RangeTop(r) + d = top + all /\ RangeBottom(r) + d = bottom + all + r.shift
  <2>1. RangeTop(r) + d = top + all
    BY <1>2, <1>3, <1>4
  <2>2. Carried(rs, j) = Carried(rs, j - 1) + r.shift
    BY <1>3
  <2>3. bottom = RangeBottom(r) - (Carried(rs, j - 1) + r.shift)
    BY <1>4, <2>2
  <2>4. RangeBottom(r) + d = bottom + all + r.shift
    <3> DEFINE x == Carried(rs, j - 1)
               y == r.shift
               z == RangeBottom(r)
    <3>1. x \in Int /\ y \in Int /\ z \in Int /\ bottom = z - (x + y) /\ all = d + x /\ d \in Int
      BY <1>2, <1>3, <2>3
    <3> HIDE DEF x, y, z
    <3>2. z + d = bottom + all + y
      BY <3>1
    <3> QED BY <3>2 DEF y, z
  <2> QED BY <2>1, <2>4
<1>10. ASSUME top + all < 0 PROVE FALSE
  <2>1. k # 0
    BY <1>0, <1>5, <1>7, <1>10
  <2>2. b + all <= RangeTop(q)
    BY <1>0, <1>7, <2>1
  <2>3. RangeTop(q) = 0 \/ RangeTop(q) = -1
    BY <1>6, <1>9, <1>10
  <2>4. b + all = 0
    BY <1>0, <1>2, <1>7, <2>2, <2>3
  <2>5. PICK t \in Stack : /\ 0 .. b \subseteq Changed(files[t])
                           /\ next[t] > 1 /\ BaseBottom(byStack[t], next[t] - 1) = b
    BY <1>0, <1>7, <2>1, <2>4
  <2>6. top < b /\ top \in 0 .. b /\ top \in top .. bottom
    BY <1>0, <1>2, <1>5, <1>10, <2>4
  <2>7. t = s
    BY <1>0, <1>1, <1>5, <2>5, <2>6 DEF Independent
  <2>8. b <= top
    BY <1>8, <2>5, <2>7 DEF j, rs
  <2>9. b \in Nat /\ top \in Nat
    BY <1>0, <1>5
  <2>10. top < b
    BY <2>6
  <2> QED BY <2>8, <2>9, <2>10
<1>11. RangeTop(q) = top + all /\ RangeBottom(q) = bottom + all + r.shift /\ q = MoveBy(r, d) /\ q \in GoodRange
  <2>1. RangeTop(r) + d >= 0
    BY <1>2, <1>5, <1>9, <1>10
  <2> QED BY <1>6, <1>9, <2>1
<1>12. b <= top
  <2>1. CASE k = 0
    BY <1>0, <1>5, <1>7, <2>1
  <2>2. CASE k # 0
    <3>1. b + all <= top + all
      BY <1>0, <1>7, <1>11, <2>2
    <3> QED BY <1>0, <1>2, <1>5, <3>1
  <2> QED BY <2>1, <2>2
<1> QED BY <1>11, <1>12 DEF r, all, d, top, bottom, j, rs, Lands

\* A range that is placed stays so when a range below it is taken.
LEMMA PlacedMore ==
  ASSUME NEW byStack, NEW files, AllRanges(byStack, files),
         NEW next \in [Stack -> Nat], NEW after \in [Stack -> Nat],
         NEW u \in Stack, next[u] \in 1 .. Len(byStack[u]), after[u] = next[u] + 1,
         \A t \in Stack : t # u => after[t] = next[t],
         NEW s \in Stack, NEW j \in 1 .. Len(byStack[s]), NEW q, Placed(byStack, s, j, q, next),
         BaseBottom(byStack[s], j) <= BaseTop(byStack[u], next[u])
  PROVE  Placed(byStack, s, j, q, after)
<1>1. PICK seen \in [Stack -> Nat] :
        /\ \A t \in Stack : seen[t] \in 1 .. next[t]
        /\ q = MoveBy(byStack[s][j], SumOf(Others(byStack, seen, s)))
        /\ \A t \in Stack : t # s =>
             \A i \in 1 .. next[t] - 1 :
               IF i < seen[t] THEN BaseBottom(byStack[t], i) <= BaseTop(byStack[s], j)
               ELSE BaseBottom(byStack[s], j) <= BaseTop(byStack[t], i)
  BY DEF Placed
<1>2. \A t \in Stack : seen[t] \in 1 .. after[t]
  <2> SUFFICES ASSUME NEW t \in Stack PROVE seen[t] \in 1 .. after[t]
    OBVIOUS
  <2>1. seen[t] \in 1 .. next[t] /\ next[t] \in Nat
    BY <1>1
  <2>2. after[t] = next[t] \/ after[t] = next[t] + 1
    OBVIOUS
  <2> QED BY <2>1, <2>2
<1>3. ASSUME NEW t \in Stack, t # s, NEW i \in 1 .. after[t] - 1
      PROVE  IF i < seen[t] THEN BaseBottom(byStack[t], i) <= BaseTop(byStack[s], j)
             ELSE BaseBottom(byStack[s], j) <= BaseTop(byStack[t], i)
  <2>1. CASE i \in 1 .. next[t] - 1
    BY <1>1, <1>3, <2>1
  <2>2. CASE ~(i \in 1 .. next[t] - 1)
    <3>1. t = u
      BY <1>3, <2>2
    <3>2. next[t] \in Nat /\ seen[t] \in 1 .. next[t] /\ i \in 1 .. (next[t] + 1) - 1
      BY <1>1, <1>3, <3>1
    <3>3. i = next[t] /\ ~(i < seen[t])
      BY <2>2, <3>2
    <3> QED BY <3>1, <3>3
  <2> QED BY <2>1, <2>2
<1> QED BY <1>1, <1>2, <1>3 DEF Placed

\* One more range, if it comes out in order.
LEMMA ChainStep ==
  ASSUME NEW byStack, NEW files, AllRanges(byStack, files), NEW k \in 1 .. RangeCount(byStack),
         NEW acc, CombineOK(byStack, k - 1, acc),
         NEW b \in Nat, ChainOK(byStack, files, k - 1, acc.out, acc.next, b),
         NEW now, now = CombineNext(acc, byStack),
         k > 1 => RangeBottom(now.out[k - 1]) <= RangeTop(now.out[k])
  PROVE  \E b2 \in Nat : ChainOK(byStack, files, k, now.out, now.next, b2)
<1> DEFINE out == acc.out
           next == acc.next
           after == now.next
           all == AllTaken(byStack, next)
           all2 == AllTaken(byStack, after)
<1>1. byStack \in [Stack -> Seq(GoodRange)] /\ RangeCount(byStack) \in Nat /\ k \in Nat /\ k - 1 \in Nat
  <2>1. byStack \in [Stack -> Seq(GoodRange)]
    BY DEF AllRanges
  <2>2. RangeCount(byStack) \in Nat
    BY <2>1, CombineWalkIs
  <2> QED BY <2>1, <2>2
<1>2. /\ out \in Seq(HunkRange) /\ Len(out) = k - 1
      /\ next \in [Stack -> Nat] /\ \A t \in Stack : next[t] \in 1 .. Len(byStack[t]) + 1
  BY DEF CombineOK
<1>3. /\ after \in [Stack -> Nat] /\ \A t \in Stack : after[t] \in 1 .. Len(byStack[t]) + 1
  <2>1. CombineOK(byStack, k, now)
    BY <1>1, CombineStepOK
  <2> QED BY <2>1 DEF CombineOK
<1>4. PICK s \in Stack : Takes(byStack, acc, now, s, next[s])
  BY <1>1, CombineTakes
<1> DEFINE j == next[s]
           rs == byStack[s]
           r == rs[j]
           d == SumOf(Others(byStack, next, s))
           q == [r EXCEPT !.start = Max({0, @ + d})]
           top == BaseTop(rs, j)
           bottom == BaseBottom(rs, j)
<1>5. /\ j \in 1 .. Len(rs) /\ now.out = Append(out, q)
      /\ after[s] = j + 1 /\ \A t \in Stack : t # s => after[t] = next[t]
  BY <1>4 DEF Takes
<1>6. /\ Len(now.out) = k /\ now.out[k] = q /\ now.out = out \o <<q>>
      /\ \A h \in 1 .. k - 1 : now.out[h] = out[h]
  <2> HIDE DEF out, q
  <2>1. out \in Seq(HunkRange) /\ Len(out) = k - 1
    BY <1>2
  <2>2. /\ Len(Append(out, q)) = Len(out) + 1 /\ Append(out, q)[Len(out) + 1] = q /\ Append(out, q) = out \o <<q>>
        /\ \A h \in 1 .. Len(out) : Append(out, q)[h] = out[h]
    BY <2>1
  <2> QED BY <1>1, <1>5, <2>1, <2>2
<1> HIDE DEF out, next, after
<1>7. k - 1 > 0 => RangeBottom(out[k - 1]) <= RangeTop(q)
  <2> HIDE DEF q
  <2>1. k - 1 > 0 => k > 1 /\ k - 1 \in 1 .. k - 1
    BY <1>1
  <2> QED BY <1>6, <2>1
<1>8. ChainOK(byStack, files, k - 1, out, next, b)
  BY DEF out, next
<1>9. /\ b <= top /\ q = MoveBy(r, d) /\ q \in GoodRange
      /\ RangeTop(q) = top + all
      /\ RangeBottom(q) = bottom + all + r.shift
  <2>1. /\ next \in [Stack -> Nat] /\ \A t \in Stack : next[t] \in 1 .. Len(byStack[t]) + 1
        /\ next[s] \in 1 .. Len(byStack[s])
    BY <1>2, <1>5
  <2>2. q = Lifted(byStack[s][next[s]], SumOf(Others(byStack, next, s)))
    BY DEF Lifted
  <2> HIDE DEF q
  <2>3. IsNext(byStack, files, k - 1, out, next, b, s, q)
    <3> HIDE DEF j, rs, r, d, all, top, bottom
    <3> QED BY <1>1, <1>7, <1>8, <2>1, <2>2 DEF IsNext
  <2>4. Lands(byStack, next, b, s, q)
    BY <2>3, ChainPlace
  <2> QED BY <2>4 DEF Lands
<1>10. all2 = all + r.shift
  BY <1>1, <1>2, <1>3, <1>5, OneMoreTaken
<1>11. /\ StackRanges(rs, files[s], LineCount(files[s])) /\ Independent(files) /\ rs \in Seq(GoodRange)
  BY <1>1 DEF AllRanges
<1>12. top \in Nat /\ bottom \in Nat /\ top <= bottom /\ top .. bottom \subseteq Changed(files[s])
  BY <1>5, <1>11, Touched
<1>13. r.shift \in Int /\ all \in Int /\ j \in Nat
  BY <1>1, <1>2, <1>5, <1>11, CarriedIs, AllTakenIs
<1>14. /\ b + all \in Nat
       /\ RangesOK(out) /\ UpTo(out, b + all)
       /\ k - 1 = 0 => b = 0 /\ all = 0
       /\ k - 1 > 0 /\ b + all = 0 =>
            \E t \in Stack : /\ 0 .. b \subseteq Changed(files[t])
                             /\ next[t] > 1 /\ BaseBottom(byStack[t], next[t] - 1) = b
       /\ \A t \in Stack : \A i \in 1 .. next[t] - 1 :
            /\ BaseBottom(byStack[t], i) <= b
            /\ \E h \in 1 .. k - 1 : Placed(byStack, t, i, out[h], next)
       /\ \A h \in 1 .. k - 1 : \E t \in Stack : \E i \in 1 .. next[t] - 1 : Placed(byStack, t, i, out[h], next)
  BY <1>8 DEF ChainOK
<1> HIDE DEF all, all2, d, q, top, bottom, r
<1>15. RangeBottom(q) = bottom + all2 /\ bottom + all2 \in Nat /\ b + all <= RangeTop(q) /\ RangeTop(q) <= RangeBottom(q)
  <2>1. RangeTop(q) \in Nat /\ RangeBottom(q) \in Nat /\ RangeTop(q) <= RangeBottom(q)
    BY <1>9, RangeSpan
  <2>2. RangeBottom(q) = bottom + all2
    BY <1>9, <1>10, <1>12, <1>13
  <2>3. b + all <= RangeTop(q)
    BY <1>9, <1>12, <1>13
  <2> QED BY <2>1, <2>2, <2>3
<1>16. RangesOK(now.out) /\ UpTo(now.out, bottom + all2)
  <2>1. RangesOK(<<q>>) /\ From(<<q>>, b + all) /\ UpTo(<<q>>, bottom + all2)
    <3>1. RangeBottom(q) <= bottom + all2
      BY <1>15
    <3> QED BY <1>9, <1>15, <3>1, OneRange
  <2>2. b + all \in Int
    BY <1>14
  <2>3. /\ RangesOK(out \o <<q>>)
        /\ UpTo(out, bottom + all2) /\ UpTo(<<q>>, bottom + all2) => UpTo(out \o <<q>>, bottom + all2)
    BY <1>14, <2>1, <2>2, Joined
  <2>4. UpTo(out, bottom + all2)
    <3>1. \A i \in DOMAIN out : RangeBottom(out[i]) <= b + all /\ RangeBottom(out[i]) \in Nat
      <4> SUFFICES ASSUME NEW i \in DOMAIN out PROVE RangeBottom(out[i]) <= b + all /\ RangeBottom(out[i]) \in Nat
        OBVIOUS
      <4>1. out[i] \in GoodRange
        BY <1>14 DEF RangesOK
      <4> QED BY <1>14, <4>1, RangeSpan DEF UpTo
    <3>2. b + all <= bottom + all2
      <4>1. RangeTop(q) \in Int
        BY <1>9, <1>12, <1>13
      <4> QED BY <1>14, <1>15, <4>1
    <3>3. ASSUME NEW i \in DOMAIN out PROVE RangeBottom(out[i]) <= bottom + all2
      BY <1>14, <1>15, <3>1, <3>2
    <3> QED BY <3>3 DEF UpTo
  <2> QED BY <1>6, <2>1, <2>3, <2>4
<1>17. ASSUME bottom + all2 = 0
       PROVE  /\ 0 .. bottom \subseteq Changed(files[s])
              /\ after[s] > 1 /\ BaseBottom(byStack[s], after[s] - 1) = bottom
  <2>1. b + all = 0 /\ b = top
    BY <1>9, <1>12, <1>13, <1>14, <1>15, <1>17
  <2>2. ASSUME NEW x \in 0 .. bottom PROVE x \in Changed(files[s])
    <3>1. CASE x >= top
      BY <1>12, <2>2, <3>1
    <3>2. CASE ~(x >= top)
      <4>1. k - 1 > 0
        BY <1>1, <1>14, <2>1, <2>2, <3>2
      <4>2. PICK t \in Stack : 0 .. b \subseteq Changed(files[t])
        BY <1>14, <2>1, <4>1
      <4>3. top \in 0 .. b /\ top \in top .. bottom /\ x \in 0 .. b
        BY <1>12, <2>1, <2>2, <3>2
      <4>4. t = s
        BY <1>11, <1>12, <4>2, <4>3 DEF Independent
      <4> QED BY <4>2, <4>3, <4>4
    <3> QED BY <3>1, <3>2
  <2>3. after[s] > 1 /\ after[s] - 1 = j
    <3> HIDE DEF j
    <3> QED BY <1>5, <1>13
  <2> QED BY <2>2, <2>3 DEF bottom, rs
<1>18. ASSUME NEW t \in Stack, NEW i \in 1 .. after[t] - 1
       PROVE  i \in 1 .. Len(byStack[t]) /\ (i \in 1 .. next[t] - 1 \/ (t = s /\ i = j))
  <2>1. after[t] \in 1 .. Len(byStack[t]) + 1 /\ next[t] \in Nat /\ Len(byStack[t]) \in Nat
    BY <1>1, <1>2, <1>3
  <2>2. i \in 1 .. Len(byStack[t])
    BY <1>18, <2>1
  <2>3. after[t] = next[t] \/ (t = s /\ after[t] = j + 1 /\ next[t] = j)
    BY <1>5
  <2> HIDE DEF j
  <2> QED BY <1>13, <1>18, <2>1, <2>2, <2>3
<1>19. \A t \in Stack : \A i \in 1 .. after[t] - 1 : BaseBottom(byStack[t], i) \in Int
  BY <1>1, <1>18, CarriedIs
<1>20. Placed(byStack, s, j, q, after)
  <2>1. \A t \in Stack : next[t] \in 1 .. after[t]
    <3> SUFFICES ASSUME NEW t \in Stack PROVE next[t] \in 1 .. after[t]
      OBVIOUS
    <3>1. next[t] \in Nat /\ next[t] >= 1
      <4>1. next[t] \in 1 .. Len(byStack[t]) + 1
        BY <1>2
      <4> QED BY <4>1
    <3>2. after[t] = next[t] \/ after[t] = next[t] + 1
      BY <1>5
    <3> QED BY <3>1, <3>2
  <2>2. ASSUME NEW t \in Stack, t # s, NEW i \in 1 .. after[t] - 1
        PROVE  IF i < next[t] THEN BaseBottom(byStack[t], i) <= BaseTop(byStack[s], j)
               ELSE BaseBottom(byStack[s], j) <= BaseTop(byStack[t], i)
    <3>1. i \in 1 .. next[t] - 1 /\ next[t] \in Nat
      BY <1>2, <1>18, <2>2
    <3>2. i < next[t]
      BY <3>1
    <3>3. BaseBottom(byStack[t], i) <= b /\ BaseBottom(byStack[t], i) \in Int
      BY <1>14, <1>19, <2>2, <3>1
    <3>4. BaseBottom(byStack[t], i) <= top
      BY <1>9, <1>12, <3>3
    <3> QED BY <3>2, <3>4 DEF top, rs
  <2>3. q = MoveBy(byStack[s][j], SumOf(Others(byStack, next, s)))
    BY <1>9 DEF r, rs, d
  <2> QED BY <1>2, <2>1, <2>2, <2>3 DEF Placed
<1>21. ASSUME NEW t \in Stack, NEW i \in 1 .. Len(byStack[t]), NEW p, Placed(byStack, t, i, p, next),
              i \in 1 .. next[t] - 1
       PROVE  Placed(byStack, t, i, p, after)
  <2>1. BaseBottom(byStack[t], i) <= b /\ BaseBottom(byStack[t], i) \in Int
    BY <1>1, <1>14, <1>21, CarriedIs
  <2>2. BaseBottom(byStack[t], i) <= BaseTop(byStack[s], next[s])
    <3>1. BaseBottom(byStack[t], i) <= top
      BY <1>9, <1>12, <2>1
    <3> QED BY <3>1 DEF top, rs
  <2> QED BY <1>2, <1>3, <1>5, <1>21, <2>2, PlacedMore
<1>22. k \in 1 .. k /\ \A h \in 1 .. k - 1 : h \in 1 .. k
  BY <1>1
<1>23. ASSUME NEW t \in Stack, NEW i \in 1 .. after[t] - 1
       PROVE  /\ BaseBottom(byStack[t], i) <= bottom
              /\ \E h \in 1 .. k : Placed(byStack, t, i, now.out[h], after)
  <2>1. CASE i \in 1 .. next[t] - 1
    <3>1. BaseBottom(byStack[t], i) <= bottom
      <4>1. BaseBottom(byStack[t], i) <= b /\ BaseBottom(byStack[t], i) \in Int
        BY <1>14, <1>19, <1>23, <2>1
      <4> QED BY <1>9, <1>12, <4>1
    <3>2. PICK h \in 1 .. k - 1 : Placed(byStack, t, i, out[h], next)
      BY <1>14, <2>1
    <3>3. Placed(byStack, t, i, out[h], after)
      BY <1>18, <1>21, <1>23, <2>1, <3>2
    <3>4. now.out[h] = out[h] /\ h \in 1 .. k
      BY <1>6, <1>22
    <3> QED BY <3>1, <3>3, <3>4
  <2>2. CASE t = s /\ i = j
    <3>1. BaseBottom(byStack[t], i) <= bottom
      <4>1. BaseBottom(byStack[t], i) = bottom
        BY <2>2 DEF bottom, rs
      <4> QED BY <1>12, <4>1
    <3>2. Placed(byStack, t, i, now.out[k], after)
      BY <1>6, <1>20, <2>2
    <3> QED BY <1>22, <3>1, <3>2
  <2> QED BY <1>18, <1>23, <2>1, <2>2
<1>24. ASSUME NEW h \in 1 .. k
       PROVE  \E t \in Stack : \E i \in 1 .. after[t] - 1 : Placed(byStack, t, i, now.out[h], after)
  <2>1. CASE h = k
    <3>1. j \in 1 .. after[s] - 1
      <4>1. j \in Nat /\ j >= 1
        <5>1. j \in 1 .. Len(rs)
          BY <1>5
        <5> HIDE DEF j, rs
        <5> QED BY <5>1
      <4> HIDE DEF j
      <4> QED BY <1>5, <4>1
    <3> QED BY <1>6, <1>20, <2>1, <3>1
  <2>2. CASE h # k
    <3>1. h \in 1 .. k - 1
      BY <1>1, <2>2
    <3>2. PICK t \in Stack : \E i \in 1 .. next[t] - 1 : Placed(byStack, t, i, out[h], next)
      BY <1>14, <3>1
    <3>3. PICK i \in 1 .. next[t] - 1 : Placed(byStack, t, i, out[h], next)
      BY <3>2
    <3>4. i \in 1 .. after[t] - 1
      <4>1. next[t] \in Nat /\ (after[t] = next[t] \/ after[t] = next[t] + 1)
        BY <1>2, <1>5
      <4> QED BY <3>3, <4>1
    <3>5. Placed(byStack, t, i, out[h], after)
      BY <1>18, <1>21, <3>3, <3>4
    <3> QED BY <1>6, <3>1, <3>4, <3>5
  <2> QED BY <2>1, <2>2
<1>25. ChainOK(byStack, files, k, now.out, after, bottom)
  <2>1. k # 0 /\ RangeBottom(now.out[k]) = bottom + all2
    BY <1>1, <1>6, <1>15
  <2>2. bottom + all2 = 0 =>
          \E t \in Stack : /\ 0 .. bottom \subseteq Changed(files[t])
                           /\ after[t] > 1 /\ BaseBottom(byStack[t], after[t] - 1) = bottom
    BY <1>17
  <2> QED BY <1>15, <1>16, <1>23, <1>24, <2>1, <2>2 DEF ChainOK, all2
<1> QED BY <1>12, <1>25 DEF after

\* What was put out stays as it is.
LEMMA OutStays ==
  ASSUME NEW byStack \in [Stack -> Seq(GoodRange)],
         NEW g \in 0 .. RangeCount(byStack), NEW h \in 1 .. g
  PROVE  CombineWalk(byStack)[RangeCount(byStack)].out[h] = CombineWalk(byStack)[g].out[h]
<1> DEFINE N == RangeCount(byStack)
           W == CombineWalk(byStack)
           S == {k \in 0 .. N : \A i \in 0 .. k : \A j \in 1 .. i : W[k].out[j] = W[i].out[j]}
<1>1. /\ N \in Nat /\ \A k \in 0 .. N : CombineOK(byStack, k, W[k])
      /\ \A k \in 1 .. N : W[k] = CombineNext(W[k - 1], byStack)
  BY CombineWalkIs
<1> HIDE DEF N, W
<1>2. 0 \in S
  BY <1>1
<1>3. ASSUME NEW k \in 1 .. N, k - 1 \in S PROVE k \in S
  <2>1. k - 1 \in 0 .. N /\ k \in 0 .. N /\ k \in Nat
    BY <1>1
  <2>2. CombineOK(byStack, k - 1, W[k - 1])
    BY <1>1, <2>1
  <2>3. PICK s \in Stack : Takes(byStack, W[k - 1], W[k], s, W[k - 1].next[s])
    BY <1>1, <2>2, CombineTakes DEF N
  <2>4. W[k].out = Append(W[k - 1].out, [byStack[s][W[k - 1].next[s]] EXCEPT !.start = Max({0, @ + SumOf(Others(byStack, W[k - 1].next, s))})])
    BY <2>3 DEF Takes
  <2>5. W[k - 1].out \in Seq(HunkRange) /\ Len(W[k - 1].out) = k - 1
    BY <2>2 DEF CombineOK
  <2>6. \A j \in 1 .. k - 1 : W[k].out[j] = W[k - 1].out[j]
    <3> DEFINE o == W[k - 1].out
               q == [byStack[s][W[k - 1].next[s]] EXCEPT !.start = Max({0, @ + SumOf(Others(byStack, W[k - 1].next, s))})]
    <3> HIDE DEF o, q
    <3>1. W[k].out = Append(o, q) /\ o \in Seq(HunkRange) /\ Len(o) = k - 1
      BY <2>4, <2>5 DEF o, q
    <3>2. \A j \in 1 .. Len(o) : Append(o, q)[j] = o[j]
      BY <3>1
    <3> QED BY <3>1, <3>2 DEF o
  <2>7. ASSUME NEW i \in 0 .. k, NEW j \in 1 .. i PROVE W[k].out[j] = W[i].out[j]
    <3>1. CASE i = k
      BY <3>1
    <3>2. CASE i # k
      <4>1. i \in 0 .. k - 1 /\ j \in 1 .. k - 1
        BY <2>1, <2>7, <3>2
      <4> QED BY <1>3, <2>6, <4>1
    <3> QED BY <3>1, <3>2
  <2> QED BY <2>1, <2>7
<1> HIDE DEF S
<1>4. 0 .. N \subseteq S
  BY <1>1, <1>2, <1>3, BoundedInduction
<1>5. N \in S
  BY <1>1, <1>4
<1> QED BY <1>5 DEF S, N, W

\* Before the first range.
LEMMA ChainStarts ==
  ASSUME NEW byStack, NEW files, AllRanges(byStack, files)
  PROVE  ChainOK(byStack, files, 0, NothingTaken.out, NothingTaken.next, 0)
<1> DEFINE next == NothingTaken.next
           a == [s \in Stack |-> Carried(byStack[s], next[s] - 1)]
<1>1. byStack \in [Stack -> Seq(GoodRange)]
  BY DEF AllRanges
<1>2. NothingTaken.out = <<>> /\ next = [s \in Stack |-> 1]
  BY DEF NothingTaken
<1>3. \A s \in Stack : next[s] - 1 = 0 /\ ~(next[s] > 1) /\ 1 .. next[s] - 1 = {}
  BY <1>2
<1>4. a \in [Stack -> Int] /\ \A s \in Stack : a[s] = 0
  <2>1. ASSUME NEW s \in Stack PROVE a[s] = 0
    <3>1. Carried(byStack[s], 0) = 0
      BY <1>1, CarriedIs
    <3> QED BY <1>3, <3>1
  <2>2. a = [s \in Stack |-> a[s]]
    OBVIOUS
  <2> HIDE DEF a
  <2> QED BY <2>1, <2>2
<1> HIDE DEF a, next
<1>5. SumOf(a) = 0
  <2>1. a \in Seq(Int) /\ 1 .. Len(a) = Stack
    BY <1>4, StackNumbers
  <2> QED BY <1>4, <2>1, SumOfZeros
<1>6. AllTaken(byStack, next) = 0
  BY <1>5 DEF AllTaken, a
<1>7. 0 + AllTaken(byStack, next) = 0 /\ ~(0 > 0)
  BY <1>6
<1>8. \A i \in 1 .. 0 : FALSE
  OBVIOUS
<1>9. ChainOK(byStack, files, 0, NothingTaken.out, next, 0)
  BY <1>2, <1>3, <1>6, <1>7, <1>8, NoRanges DEF ChainOK
<1> QED BY <1>9 DEF next

\* So for ranges that come out in order, to the end.
LEMMA ChainEnds ==
  ASSUME NEW byStack, NEW files, AllRanges(byStack, files), Ordered(Combine(byStack))
  PROVE  LET N == RangeCount(byStack)
             end == CombineWalk(byStack)[N]
         IN  \E b \in Nat : ChainOK(byStack, files, N, end.out, end.next, b)
<1> DEFINE N == RangeCount(byStack)
           W == CombineWalk(byStack)
           S == {k \in 0 .. N : \E b \in Nat : ChainOK(byStack, files, k, W[k].out, W[k].next, b)}
<1>1. byStack \in [Stack -> Seq(GoodRange)]
  BY DEF AllRanges
<1>2. /\ N \in Nat /\ \A k \in 0 .. N : CombineOK(byStack, k, W[k])
      /\ W[0] = NothingTaken
      /\ \A k \in 1 .. N : W[k] = CombineNext(W[k - 1], byStack)
  BY <1>1, CombineWalkIs
<1>3. \A g \in 0 .. N : \A h \in 1 .. g : W[N].out[h] = W[g].out[h]
  BY <1>1, OutStays
<1>4. Combine(byStack) = W[N].out
  BY DEF Combine
<1> HIDE DEF N, W
<1>5. Len(W[N].out) = N
  BY <1>2 DEF CombineOK
<1>6. \A i \in 1 .. N - 1 : RangeBottom(W[N].out[i]) <= RangeTop(W[N].out[i + 1])
  BY <1>4, <1>5 DEF Ordered, RangeBottom, RangeTop
<1>7. 0 \in S
  <2>1. ChainOK(byStack, files, 0, W[0].out, W[0].next, 0)
    BY <1>2, ChainStarts
  <2> QED BY <1>2, <2>1
<1>8. ASSUME NEW k \in 1 .. N, k - 1 \in S PROVE k \in S
  <2>1. k - 1 \in 0 .. N /\ k \in 0 .. N /\ k \in Nat
    BY <1>2
  <2>2. PICK b \in Nat : ChainOK(byStack, files, k - 1, W[k - 1].out, W[k - 1].next, b)
    BY <1>8
  <2>3. k > 1 => RangeBottom(W[k].out[k - 1]) <= RangeTop(W[k].out[k])
    <3> SUFFICES ASSUME k > 1 PROVE RangeBottom(W[k].out[k - 1]) <= RangeTop(W[k].out[k])
      OBVIOUS
    <3>1. k - 1 \in 1 .. N - 1 /\ (k - 1) + 1 = k /\ k - 1 \in 1 .. k /\ k \in 1 .. k
      BY <1>2, <2>1
    <3>2. RangeBottom(W[N].out[k - 1]) <= RangeTop(W[N].out[k])
      BY <1>6, <3>1
    <3>3. W[N].out[k - 1] = W[k].out[k - 1] /\ W[N].out[k] = W[k].out[k]
      BY <1>3, <2>1, <3>1
    <3> QED BY <3>2, <3>3
  <2>4. CombineOK(byStack, k - 1, W[k - 1]) /\ W[k] = CombineNext(W[k - 1], byStack)
    BY <1>2, <2>1
  <2>5. \E b2 \in Nat : ChainOK(byStack, files, k, W[k].out, W[k].next, b2)
    <3> DEFINE acc == W[k - 1]
               now == W[k]
    <3>1. /\ CombineOK(byStack, k - 1, acc) /\ now = CombineNext(acc, byStack)
          /\ ChainOK(byStack, files, k - 1, acc.out, acc.next, b)
          /\ k > 1 => RangeBottom(now.out[k - 1]) <= RangeTop(now.out[k])
          /\ k \in 1 .. RangeCount(byStack)
      BY <2>2, <2>3, <2>4 DEF N
    <3> HIDE DEF acc, now
    <3>2. \E b2 \in Nat : ChainOK(byStack, files, k, now.out, now.next, b2)
      BY <3>1, ChainStep
    <3> QED BY <3>2 DEF now
  <2> QED BY <2>1, <2>5
<1> HIDE DEF S
<1>9. 0 .. N \subseteq S
  BY <1>2, <1>7, <1>8, BoundedInduction
<1>10. N \in S
  BY <1>2, <1>9
<1> QED BY <1>10 DEF S, N, W

\* By how much the other stacks move what stack s has below line k of the merge base.
Offset(files, s, k) == SumOf([t \in Stack |-> IF t = s THEN 0 ELSE At(files, t, k) - k])

\* A range that is placed where all the others are taken is moved by as much as that.
LEMMA PlacedIs ==
  ASSUME NEW byStack, NEW files, AllRanges(byStack, files),
         NEW next \in [Stack -> Nat], \A t \in Stack : next[t] - 1 = Len(byStack[t]),
         NEW s \in Stack, NEW j \in 1 .. Len(byStack[s]), NEW q, Placed(byStack, s, j, q, next),
         NEW k \in 0 .. BaseLines, Block(byStack, files, s, j, k)
  PROVE  q = MoveBy(byStack[s][j], Offset(files, s, k))
<1>1. PICK seen \in [Stack -> Nat] :
        /\ \A t \in Stack : seen[t] \in 1 .. next[t]
        /\ q = MoveBy(byStack[s][j], SumOf(Others(byStack, seen, s)))
        /\ \A t \in Stack : t # s =>
             \A i \in 1 .. next[t] - 1 :
               IF i < seen[t] THEN BaseBottom(byStack[t], i) <= BaseTop(byStack[s], j)
               ELSE BaseBottom(byStack[s], j) <= BaseTop(byStack[t], i)
  BY DEF Placed
<1>2. byStack \in [Stack -> Seq(GoodRange)] /\ \A t \in Stack : StackRanges(byStack[t], files[t], LineCount(files[t]))
  BY DEF AllRanges
<1> DEFINE top == BaseTop(byStack[s], j)
           bottom == BaseBottom(byStack[s], j)
<1>3. top \in Nat /\ bottom \in Nat /\ top <= bottom
  BY <1>2, Touched
<1>4. ASSUME NEW t \in Stack, t # s
      PROVE  Sums(AllShifts(byStack[t]))[seen[t] - 1] = At(files, t, k) - k
  <2> DEFINE rs == byStack[t]
             m == seen[t] - 1
  <2>1. PICK a \in 0 .. Len(rs) :
          /\ Carried(rs, a) = At(files, t, k) - k
          /\ \A i \in 1 .. Len(rs) :
               IF i <= a THEN BaseBottom(rs, i) < top ELSE bottom < BaseTop(rs, i)
    BY <1>4, Apart
  <2>2. StackRanges(rs, files[t], LineCount(files[t])) /\ Len(rs) \in Nat /\ next[t] - 1 = Len(rs)
    BY <1>2
  <2>3. m \in 0 .. Len(rs) /\ seen[t] = m + 1
    <3>1. seen[t] \in 1 .. next[t] /\ next[t] \in Nat
      BY <1>1
    <3> QED BY <2>2, <3>1
  <2>4. \A i \in 1 .. Len(rs) :
          IF i < seen[t] THEN BaseBottom(rs, i) <= top ELSE bottom <= BaseTop(rs, i)
    BY <1>1, <1>4, <2>2
  <2>5. ASSUME NEW i \in 1 .. Len(rs)
        PROVE BaseTop(rs, i) \in Nat /\ BaseBottom(rs, i) \in Nat /\ BaseTop(rs, i) <= BaseBottom(rs, i)
    BY <2>2, <2>5, Touched
  <2> HIDE DEF rs, m, top, bottom
  <2>6. ASSUME m < a PROVE FALSE
    <3>1. a \in 1 .. Len(rs) /\ a <= a /\ ~(a < seen[t])
      BY <2>1, <2>2, <2>3, <2>6
    <3>2. BaseBottom(rs, a) < top /\ bottom <= BaseTop(rs, a)
      BY <2>1, <2>4, <3>1
    <3> QED BY <1>3, <2>5, <3>1, <3>2
  <2>7. ASSUME a < m PROVE FALSE
    <3>1. m \in 1 .. Len(rs) /\ ~(m <= a) /\ m < seen[t]
      BY <2>1, <2>2, <2>3, <2>7
    <3>2. bottom < BaseTop(rs, m) /\ BaseBottom(rs, m) <= top
      BY <2>1, <2>4, <3>1
    <3> QED BY <1>3, <2>5, <3>1, <3>2
  <2>8. m = a
    <3>1. m \in Int /\ a \in Int
      BY <2>2, <2>3
    <3> QED BY <2>6, <2>7, <3>1
  <2> QED BY <2>1, <2>8 DEF Carried, rs, m
<1>5. Others(byStack, seen, s) = [t \in Stack |-> IF t = s THEN 0 ELSE At(files, t, k) - k]
  BY <1>4 DEF Others
<1>6. SumOf(Others(byStack, seen, s)) = Offset(files, s, k)
  BY <1>5 DEF Offset
<1> QED BY <1>1, <1>6

\* Combined ranges that are in order are those of the stacks, each moved by as much as
\* the others move the place it is at.
LEMMA CombinedIs ==
  ASSUME NEW byStack, NEW files, AllRanges(byStack, files), Ordered(Combine(byStack))
  PROVE  /\ \A s \in Stack : \A j \in 1 .. Len(byStack[s]) : \A k \in 0 .. BaseLines :
              Block(byStack, files, s, j, k) =>
                \E i \in DOMAIN Combine(byStack) : Combine(byStack)[i] = MoveBy(byStack[s][j], Offset(files, s, k))
         /\ \A i \in DOMAIN Combine(byStack) :
              \E s \in Stack : \E j \in 1 .. Len(byStack[s]) : \E k \in 0 .. BaseLines :
                Block(byStack, files, s, j, k) /\ Combine(byStack)[i] = MoveBy(byStack[s][j], Offset(files, s, k))
<1> DEFINE N == RangeCount(byStack)
           end == CombineWalk(byStack)[N]
           a == Taken(end.next)
           out == Combine(byStack)
           next == end.next
<1>1. byStack \in [Stack -> Seq(GoodRange)] /\ \A t \in Stack : StackRanges(byStack[t], files[t], LineCount(files[t]))
  BY DEF AllRanges
<1>2. out = end.out
  BY DEF Combine
<1>3. CombineOK(byStack, N, end) /\ N \in Nat
  BY <1>1, CombineWalkIs
<1>4. PICK b \in Nat : ChainOK(byStack, files, N, end.out, end.next, b)
  BY ChainEnds
<1> HIDE DEF end, out
<1>5. /\ next \in [Stack -> Nat] /\ \A s \in Stack : next[s] \in 1 .. Len(byStack[s]) + 1
      /\ SumOf(a) = N /\ Len(out) = N /\ out \in Seq(HunkRange)
  BY <1>2, <1>3 DEF CombineOK
<1>6. \A s \in Stack : byStack[s] \in Seq(GoodRange) /\ Len(byStack[s]) \in Nat
  BY <1>1
<1>7. ASSUME NEW s \in Stack PROVE next[s] - 1 = Len(byStack[s])
  <2>1. SumOf(Taken(next)) = RangeCount(byStack)
    BY <1>5
  <2> HIDE DEF N, next, a
  <2> QED BY <1>1, <1>5, <2>1, NoneLeft
<1> HIDE DEF N, next, a
<1>8. DOMAIN out = 1 .. N
  BY <1>3, <1>5
<1>9. /\ \A s \in Stack : \A j \in 1 .. next[s] - 1 : \E i \in 1 .. N : Placed(byStack, s, j, out[i], next)
      /\ \A i \in 1 .. N : \E s \in Stack : \E j \in 1 .. next[s] - 1 : Placed(byStack, s, j, out[i], next)
  BY <1>2, <1>4 DEF ChainOK, next
<1>10. ASSUME NEW s \in Stack, NEW j \in 1 .. Len(byStack[s]), NEW k \in 0 .. BaseLines, Block(byStack, files, s, j, k)
       PROVE  \E i \in DOMAIN out : out[i] = MoveBy(byStack[s][j], Offset(files, s, k))
  <2>1. PICK i \in 1 .. N : Placed(byStack, s, j, out[i], next)
    BY <1>7, <1>9
  <2>2. out[i] = MoveBy(byStack[s][j], Offset(files, s, k))
    BY <1>5, <1>7, <1>10, <2>1, PlacedIs
  <2> QED BY <1>8, <2>2
<1>11. ASSUME NEW i \in DOMAIN out
       PROVE  \E s \in Stack : \E j \in 1 .. Len(byStack[s]) : \E k \in 0 .. BaseLines :
                Block(byStack, files, s, j, k) /\ out[i] = MoveBy(byStack[s][j], Offset(files, s, k))
  <2>1. PICK s \in Stack : \E j \in 1 .. next[s] - 1 : Placed(byStack, s, j, out[i], next)
    BY <1>8, <1>9
  <2>2. PICK j \in 1 .. Len(byStack[s]) : Placed(byStack, s, j, out[i], next)
    BY <1>7, <2>1
  <2>3. PICK k \in 0 .. BaseLines : Block(byStack, files, s, j, k)
    BY <1>1, RangeBlock DEF Block
  <2>4. out[i] = MoveBy(byStack[s][j], Offset(files, s, k))
    BY <1>5, <1>7, <2>2, <2>3, PlacedIs
  <2> QED BY <2>3, <2>4
<1> QED BY <1>10, <1>11 DEF out

-----------------------------------------------------------------------------
(* The file of the workspace commit *)

\* The recursive function in FlattenSeq is what its definition says.
LEMMA FlattenSteps ==
  ASSUME NEW T, NEW seqs \in Seq(Seq(T)), Len(seqs) # 0
  PROVE  \E f : /\ FlattenSeq(seqs) = f[Len(seqs)] /\ f[1] = seqs[1]
                /\ \A i \in 1 .. Len(seqs) : i # 1 => f[i] = f[i - 1] \o seqs[i]
<1> DEFINE N == Len(seqs)
           V == Seq(T)
           step == [i \in 1 .. N - 1 |-> [v \in V |-> v \o seqs[i + 1]]]
           flatten == CHOOSE f : f = [i \in 1 .. N |-> IF i = 1 THEN seqs[i] ELSE f[i - 1] \o seqs[i]]
<1>1. N \in Nat /\ \A i \in 1 .. N : seqs[i] \in V
  OBVIOUS
<1>2. N - 1 \in Nat /\ 1 \in 1 .. N /\ N \in 1 .. N
  BY <1>1
<1>3. \A i \in 1 .. N - 1 : i + 1 \in 1 .. N
  BY <1>1
<1>4. step \in [1 .. N - 1 -> [V -> V]]
  <2>1. ASSUME NEW i \in 1 .. N - 1, NEW v \in V PROVE v \o seqs[i + 1] \in V
    <3>1. seqs[i + 1] \in V
      BY <1>1, <1>3
    <3> QED BY <3>1
  <2> HIDE DEF V, N
  <2> QED BY <2>1
<1>5. PICK g \in [0 .. N - 1 -> V] : IsRecursion(g, N - 1, seqs[1], step)
  <2> HIDE DEF step, N, V
  <2> QED BY <1>1, <1>2, <1>4, RecursionExists
<1> DEFINE f == [i \in 1 .. N |-> g[i - 1]]
<1>6. \A i \in 1 .. N : i - 1 \in 0 .. N - 1 /\ (i # 1 => i - 1 \in 1 .. N - 1 /\ i - 1 \in 1 .. N /\ (i - 1) + 1 = i)
  BY <1>1
<1> HIDE DEF N, V
<1>7. f[1] = seqs[1] /\ \A i \in 1 .. N : f[i] \in V
  <2>1. 1 - 1 = 0
    OBVIOUS
  <2> QED BY <1>2, <1>5, <1>6, <2>1 DEF IsRecursion
<1>8. ASSUME NEW i \in 1 .. N, i # 1 PROVE f[i] = f[i - 1] \o seqs[i]
  <2>1. g[i - 1] = step[i - 1][g[(i - 1) - 1]]
    BY <1>5, <1>6, <1>8 DEF IsRecursion
  <2>2. f[i - 1] = g[(i - 1) - 1] /\ f[i - 1] \in V /\ f[i] = g[i - 1]
    BY <1>6, <1>7, <1>8
  <2>3. step[i - 1][f[i - 1]] = f[i - 1] \o seqs[(i - 1) + 1]
    BY <1>6, <1>8, <2>2
  <2> QED BY <1>6, <1>8, <2>1, <2>2, <2>3
<1>9. f = [i \in 1 .. N |-> IF i = 1 THEN seqs[i] ELSE f[i - 1] \o seqs[i]]
  <2> HIDE DEF f
  <2>1. f = [i \in 1 .. N |-> f[i]]
    BY DEF f
  <2> QED BY <1>7, <1>8, <2>1
<1> HIDE DEF f
<1>10. flatten = [i \in 1 .. N |-> IF i = 1 THEN seqs[i] ELSE flatten[i - 1] \o seqs[i]]
  BY <1>9, Zenon DEF flatten
<1> HIDE DEF flatten
<1>11. flatten[1] = seqs[1] /\ \A i \in 1 .. N : i # 1 => flatten[i] = flatten[i - 1] \o seqs[i]
  BY <1>2, <1>10
<1>12. FlattenSeq(seqs) = flatten[N]
  BY Zenon DEF FlattenSeq, flatten, N
<1> QED BY <1>11, <1>12 DEF N

\* Where sequences end that are one after the other in f.
EndsOK(seqs, ends) ==
  /\ ends \in [0 .. Len(seqs) -> Int] /\ ends[0] = 0
  /\ \A i \in 1 .. Len(seqs) : ends[i] = ends[i - 1] + Len(seqs[i])
LaidOut(f, seqs, ends) ==
  /\ Len(f) = ends[Len(seqs)]
  /\ \A i \in 1 .. Len(seqs) : \A q \in 1 .. Len(seqs[i]) :
       ends[i - 1] + q \in 1 .. ends[Len(seqs)] /\ f[ends[i - 1] + q] = seqs[i][q]
  /\ \A p \in 1 .. ends[Len(seqs)] : \E i \in 1 .. Len(seqs) : \E q \in 1 .. Len(seqs[i]) : p = ends[i - 1] + q

\* The i-th is after ends[i - 1] elements.
LEMMA FlattenPlaces ==
  ASSUME NEW T, NEW seqs \in Seq(Seq(T)), Len(seqs) # 0, NEW ends, EndsOK(seqs, ends)
  PROVE  FlattenSeq(seqs) \in Seq(T) /\ LaidOut(FlattenSeq(seqs), seqs, ends)
<1> DEFINE N == Len(seqs)
<1>0. N \in Nat /\ N # 0 /\ ends \in [0 .. N -> Int] /\ ends[0] = 0
      /\ \A i \in 1 .. N : ends[i] = ends[i - 1] + Len(seqs[i])
  BY DEF EndsOK
<1> DEFINE Flat(f, n) ==
             /\ f \in Seq(T) /\ Len(f) = ends[n]
             /\ \A i \in 1 .. n : \A q \in 1 .. Len(seqs[i]) : ends[i - 1] + q \in 1 .. ends[n] /\ f[ends[i - 1] + q] = seqs[i][q]
             /\ \A p \in 1 .. ends[n] : \E i \in 1 .. n : \E q \in 1 .. Len(seqs[i]) : p = ends[i - 1] + q
<1>1. PICK f : /\ FlattenSeq(seqs) = f[N] /\ f[1] = seqs[1]
               /\ \A i \in 1 .. N : i # 1 => f[i] = f[i - 1] \o seqs[i]
  BY FlattenSteps
<1>2. \A i \in 1 .. N : /\ seqs[i] \in Seq(T) /\ Len(seqs[i]) \in Nat
                        /\ i - 1 \in 0 .. N /\ i \in 0 .. N /\ i \in Nat /\ 1 \in 1 .. N /\ N \in 1 .. N
  OBVIOUS
<1>3. ends[1] = Len(seqs[1]) /\ \A q \in 1 .. ends[1] : q = ends[1 - 1] + q
  <2>1. ends[1] = ends[1 - 1] + Len(seqs[1]) /\ ends[1 - 1] = 0 /\ Len(seqs[1]) \in Nat
    BY <1>0, <1>2
  <2> QED BY <2>1
<1>4. Flat(f[1], 1)
  <2>1. \A i \in 1 .. 1 : i = 1
    OBVIOUS
  <2>2. 1 \in 1 .. 1 /\ f[1] \in Seq(T)
    BY <1>1, <1>2
  <2> QED BY <1>1, <1>2, <1>3, <2>1, <2>2
<1>5. ASSUME NEW n \in 1 .. N, n # 1, Flat(f[n - 1], n - 1) PROVE Flat(f[n], n)
  <2> DEFINE a == f[n - 1]
             b == seqs[n]
             c == a \o b
             x == ends[n - 1]
             y == Len(b)
  <2>1. a \in Seq(T) /\ Len(a) = x /\ b \in Seq(T) /\ x \in Nat /\ y \in Nat /\ ends[n] = x + y
    <3>1. a \in Seq(T) /\ Len(a) = x /\ b \in Seq(T)
      BY <1>2, <1>5
    <3>2. ends[n] = x + y
      BY <1>0, <1>5
    <3> HIDE DEF a, b, x
    <3> QED BY <3>1, <3>2
  <2>2. f[n] = c
    BY <1>1, <1>5
  <2> HIDE DEF a, b
  <2>3. /\ c \in Seq(T) /\ Len(c) = x + y
        /\ \A p \in 1 .. x : c[p] = a[p]
        /\ \A q \in 1 .. y : x + q \in 1 .. x + y /\ c[x + q] = b[q]
    <3> HIDE DEF x
    <3>1. x = Len(a) /\ a \in Seq(T) /\ b \in Seq(T)
      BY <2>1
    <3>2. /\ c \in Seq(T) /\ Len(c) = Len(a) + Len(b)
          /\ \A p \in 1 .. Len(a) : c[p] = a[p]
          /\ \A q \in 1 .. Len(b) : Len(a) + q \in 1 .. Len(a) + Len(b) /\ c[Len(a) + q] = b[q]
      BY <3>1
    <3> QED BY <3>1, <3>2
  <2> HIDE DEF c, x, y
  <2>4. n \in Nat /\ n - 1 \in Nat /\ \A i \in 1 .. n : i = n \/ i \in 1 .. n - 1
    BY <1>2
  <2>5. ASSUME NEW i \in 1 .. n, NEW q \in 1 .. Len(seqs[i])
        PROVE  ends[i - 1] + q \in 1 .. ends[n] /\ c[ends[i - 1] + q] = seqs[i][q]
    <3>1. CASE i = n
      BY <2>1, <2>3, <3>1 DEF x, y, b
    <3>2. CASE i \in 1 .. n - 1
      <4>1. ends[i - 1] + q \in 1 .. x /\ a[ends[i - 1] + q] = seqs[i][q]
        BY <1>5, <2>5, <3>2 DEF x, a
      <4>2. ends[i - 1] + q \in 1 .. ends[n]
        BY <2>1, <4>1
      <4> QED BY <2>3, <4>1, <4>2
    <3> QED BY <2>4, <3>1, <3>2
  <2>6. ASSUME NEW p \in 1 .. ends[n] PROVE \E i \in 1 .. n : \E q \in 1 .. Len(seqs[i]) : p = ends[i - 1] + q
    <3>1. CASE p <= x
      <4>1. p \in 1 .. x
        BY <2>1, <3>1
      <4>2. PICK i \in 1 .. n - 1 : \E q \in 1 .. Len(seqs[i]) : p = ends[i - 1] + q
        BY <1>5, <4>1 DEF x
      <4>3. i \in 1 .. n
        BY <2>4
      <4> QED BY <4>2, <4>3
    <3>2. CASE ~(p <= x)
      <4>1. p - x \in 1 .. y /\ p = x + (p - x)
        BY <2>1, <3>2
      <4>2. n \in 1 .. n
        BY <1>2
      <4> QED BY <4>1, <4>2 DEF x, y, b
    <3> QED BY <3>1, <3>2
  <2> QED BY <2>1, <2>2, <2>3, <2>5, <2>6
<1> HIDE DEF Flat, N
<1> DEFINE S == {n \in 0 .. N : n = 0 \/ Flat(f[n], n)}
<1>6. 0 \in S
  BY <1>0
<1>7. ASSUME NEW i \in 1 .. N, i - 1 \in S PROVE i \in S
  <2>1. i - 1 = 0 => i = 1
    BY <1>2
  <2> QED BY <1>2, <1>4, <1>5, <1>7, <2>1
<1> HIDE DEF S
<1>8. 0 .. N \subseteq S
  BY <1>0, <1>6, <1>7, BoundedInduction
<1>9. Flat(f[N], N)
  <2>1. N \in 1 .. N /\ N \in 0 .. N
    BY <1>0
  <2> QED BY <1>0, <1>8, <2>1 DEF S
<1> QED BY <1>1, <1>9 DEF Flat, LaidOut, N

\* The files of stacks that are independent.
Aligned(files) ==
  /\ \A s \in Stack : FileOf(files[s], LineCount(files[s])) /\ KeepsOrder(files[s], LineCount(files[s]))
  /\ Independent(files)

\* The stack that says what follows a line of the merge base, as in Workspace.
ChangedBy(files, k) == {s \in Stack : k \in Changed(files[s])}
Writer(files, k) == IF ChangedBy(files, k) = {} THEN 1 ELSE CHOOSE s \in ChangedBy(files, k) : TRUE

\* Where line k of the merge base is in the workspace commit.
WorkspaceAt(files, k) == k + SumOf([t \in Stack |-> At(files, t, k) - k])

\* No other stack has changed anything there.
LEMMA WriterIs ==
  ASSUME NEW files, Aligned(files), Stacks # 0, NEW k \in 0 .. BaseLines
  PROVE  /\ Writer(files, k) \in Stack
         /\ \A u \in Stack : k \in Changed(files[u]) => u = Writer(files, k)
         /\ \A t \in Stack : t # Writer(files, k) => Keeps(files, t, k) /\ At(files, t, k + 1) = At(files, t, k) + 1
<1>1. 1 \in Stack
  BY HunkRangesAssumption DEF Stack
<1>2. Writer(files, k) \in Stack
  BY <1>1 DEF Writer, ChangedBy
<1>3. ASSUME NEW u \in Stack, k \in Changed(files[u]) PROVE u = Writer(files, k)
  <2>1. ChangedBy(files, k) # {}
    BY <1>3 DEF ChangedBy
  <2>2. Writer(files, k) \in ChangedBy(files, k)
    BY <2>1 DEF Writer
  <2> QED BY <1>3, <2>2 DEF ChangedBy, Aligned, Independent
<1>4. ASSUME NEW t \in Stack, t # Writer(files, k)
      PROVE  Keeps(files, t, k) /\ At(files, t, k + 1) = At(files, t, k) + 1
  <2>1. k \notin Changed(files[t])
    BY <1>3, <1>4
  <2> QED BY <2>1, Unchanged DEF Aligned, Keeps, At
<1> QED BY <1>2, <1>3, <1>4

\* Line k of the merge base is where a stack has it, moved by what the others bring.
LEMMA WorkspaceAtIs ==
  ASSUME NEW files, Aligned(files), NEW k \in 0 .. BaseLines + 1, NEW u \in Stack
  PROVE  /\ At(files, u, k) \in Int /\ Offset(files, u, k) \in Int /\ WorkspaceAt(files, k) \in Int
         /\ WorkspaceAt(files, k) = At(files, u, k) + Offset(files, u, k)
<1> DEFINE a == [t \in Stack |-> IF t = u THEN 0 ELSE At(files, t, k) - k]
           b == [t \in Stack |-> At(files, t, k) - k]
           d == At(files, u, k) - k
<1>1. BaseLines \in Nat /\ k \in Int
  BY HunkRangesAssumption
<1>2. ASSUME NEW t \in Stack PROVE At(files, t, k) \in Int
  <2>1. FileOf(files[t], LineCount(files[t])) /\ KeepsOrder(files[t], LineCount(files[t])) /\ LineCount(files[t]) \in Nat
    BY DEF Aligned, FileOf
  <2>2. CASE k \in 0 .. BaseLines
    <3>1. At(files, t, k) \in 0 .. LineCount(files[t]) + 1
      BY <2>1, <2>2, WhereNext DEF At
    <3> QED BY <2>1, <3>1
  <2>3. CASE k = BaseLines + 1
    <3>1. At(files, t, k) = LineCount(files[t]) + 1
      BY <2>1, <2>3, StaysIs DEF At
    <3> QED BY <2>1, <3>1
  <2> QED BY <1>1, <2>2, <2>3
<1>3. a \in [Stack -> Int] /\ b \in [Stack -> Int]
  BY <1>1, <1>2
<1>4. a[u] = 0 /\ b[u] = d /\ d \in Int /\ \A t \in Stack : t # u => b[t] = a[t]
  BY <1>1, <1>2
<1> HIDE DEF a, b, d
<1>5. a \in Seq(Int) /\ b \in Seq(Int) /\ Len(a) = Len(b) /\ 1 .. Len(a) = Stack
  BY <1>3, StackNumbers
<1>6. SumOf(b) = SumOf(a) + d
  <2>1. u \in 1 .. Len(a) /\ \A i \in 1 .. Len(a) : i # u => b[i] = a[i]
    BY <1>4, <1>5
  <2>2. b[u] = a[u] + d
    BY <1>4
  <2> QED BY <1>4, <1>5, <2>1, <2>2, SumOfChanged
<1>7. SumOf(a) \in Int
  <2>1. Len(a) \in 0 .. Len(a)
    BY <1>5
  <2> QED BY <1>5, <2>1, SumsAre DEF SumOf
<1>8. WorkspaceAt(files, k) = k + (SumOf(a) + d) /\ Offset(files, u, k) = SumOf(a)
  BY <1>6 DEF WorkspaceAt, Offset, a, b
<1> QED BY <1>1, <1>2, <1>7, <1>8 DEF d

\* What follows it is as long as in the file of the stack that says what it is.
LEMMA WorkspaceNext ==
  ASSUME NEW files, Aligned(files), Stacks # 0, NEW k \in 0 .. BaseLines, NEW u, u = Writer(files, k)
  PROVE  /\ u \in Stack
         /\ WorkspaceAt(files, k) \in Int /\ WorkspaceAt(files, k + 1) \in Int
         /\ At(files, u, k) \in Int /\ At(files, u, k + 1) \in Int
         /\ WorkspaceAt(files, k + 1) - WorkspaceAt(files, k) = At(files, u, k + 1) - At(files, u, k)
         /\ IF Keeps(files, u, k) THEN At(files, u, k) < At(files, u, k + 1)
            ELSE At(files, u, k + 1) = At(files, u, k) /\ k # 0
<1>1. u \in Stack /\ BaseLines \in Nat
  BY WriterIs, HunkRangesAssumption
<1>2. k \in 0 .. BaseLines + 1 /\ k + 1 \in 0 .. BaseLines + 1 /\ k \in Int
  BY <1>1
<1>3. /\ At(files, u, k) \in Int /\ Offset(files, u, k) \in Int /\ WorkspaceAt(files, k) \in Int
      /\ WorkspaceAt(files, k) = At(files, u, k) + Offset(files, u, k)
      /\ \A t \in Stack : At(files, t, k) \in Int
  BY <1>1, <1>2, WorkspaceAtIs
<1>4. /\ At(files, u, k + 1) \in Int /\ WorkspaceAt(files, k + 1) \in Int
      /\ WorkspaceAt(files, k + 1) = At(files, u, k + 1) + Offset(files, u, k + 1)
  BY <1>1, <1>2, WorkspaceAtIs
<1>5. Offset(files, u, k + 1) = Offset(files, u, k)
  <2>1. ASSUME NEW t \in Stack, t # u PROVE At(files, t, k + 1) - (k + 1) = At(files, t, k) - k
    <3>1. At(files, t, k + 1) = At(files, t, k) + 1
      BY <2>1, WriterIs
    <3> QED BY <1>2, <1>3, <3>1
  <2>2. [t \in Stack |-> IF t = u THEN 0 ELSE At(files, t, k + 1) - (k + 1)]
          = [t \in Stack |-> IF t = u THEN 0 ELSE At(files, t, k) - k]
    BY <2>1
  <2> QED BY <2>2 DEF Offset
<1>6. FileOf(files[u], LineCount(files[u])) /\ KeepsOrder(files[u], LineCount(files[u]))
  BY <1>1 DEF Aligned
<1>7. IF Keeps(files, u, k) THEN At(files, u, k) < At(files, u, k + 1)
      ELSE At(files, u, k + 1) = At(files, u, k) /\ k # 0
  BY <1>6, WhereNext DEF Keeps, At
<1>8. WorkspaceAt(files, k + 1) - WorkspaceAt(files, k) = At(files, u, k + 1) - At(files, u, k)
  BY <1>3, <1>4, <1>5
<1> QED BY <1>1, <1>3, <1>4, <1>7, <1>8

\* One for the line of the merge base itself, of which there is none at the top of the file.
Lead(k) == IF k = 0 THEN 0 ELSE 1

\* What the workspace commit has from line k of the merge base to the next one.
WorkspacePart(files, k) ==
  IF k = 0 THEN After(files[Writer(files, 0)], 0)
  ELSE IF \A s \in Stack : k \in KeptLines(files[s]) THEN <<FromBase(k)>> \o After(files[Writer(files, k)], k)
  ELSE <<>>

\* The line, if no stack has removed it, and the places that follow it where a stack
\* has changed them.
LEMMA PartIs ==
  ASSUME NEW files, Aligned(files), Stacks # 0, NEW k \in 0 .. BaseLines,
         NEW u, u = Writer(files, k), NEW n, n = At(files, u, k + 1) - At(files, u, k),
         NEW part, part = WorkspacePart(files, k)
  PROVE  /\ n \in Nat /\ (n # 0 <=> Keeps(files, u, k))
         /\ part \in Seq(GoodPlace) /\ Len(part) = 2 * n - 1 + Lead(k)
         /\ \A q \in 1 .. 2 * n - 1 : part[Lead(k) + q] = files[u][2 * At(files, u, k) + q]
         /\ k # 0 /\ n # 0 => part[1] = FromBase(k)
<1>1. /\ u \in Stack /\ At(files, u, k) \in Int /\ At(files, u, k + 1) \in Int
      /\ IF Keeps(files, u, k) THEN At(files, u, k) < At(files, u, k + 1)
         ELSE At(files, u, k + 1) = At(files, u, k) /\ k # 0
  BY WorkspaceNext
<1>2. n \in Nat /\ (n # 0 <=> Keeps(files, u, k))
  BY <1>1
<1>3. \A s \in Stack : FileOf(files[s], LineCount(files[s])) /\ KeepsOrder(files[s], LineCount(files[s]))
  BY DEF Aligned
<1>4. BaseLines \in Nat
  BY HunkRangesAssumption
<1> DEFINE after == After(files[u], k)
<1>5. ASSUME n # 0
      PROVE  /\ after \in Seq(GoodPlace) /\ Len(after) = 2 * n - 1
             /\ \A q \in 1 .. 2 * n - 1 : after[q] = files[u][2 * At(files, u, k) + q]
  <2>1. Stays(files[u], LineCount(files[u]), k)
    BY <1>2, <1>5 DEF Keeps
  <2>2. /\ after \in Seq(GoodPlace)
        /\ Len(after) = 2 * (At(files, u, k + 1) - At(files, u, k)) - 1
        /\ \A q \in 1 .. 2 * (At(files, u, k + 1) - At(files, u, k)) - 1 :
             after[q] = files[u][2 * At(files, u, k) + q]
    <3> DEFINE places == files[u]
               m == LineCount(places)
    <3>1. FileOf(places, m) /\ KeepsOrder(places, m) /\ Stays(places, m, k)
      BY <1>1, <1>3, <2>1
    <3>2. At(files, u, k) = Where(places, m, k) /\ At(files, u, k + 1) = Where(places, m, k + 1)
      BY DEF At
    <3>3. after = After(places, k)
      OBVIOUS
    <3> HIDE DEF places, m, after
    <3>4. /\ After(places, k) \in Seq(GoodPlace)
          /\ Len(After(places, k)) = 2 * (Where(places, m, k + 1) - Where(places, m, k)) - 1
          /\ \A q \in 1 .. 2 * (Where(places, m, k + 1) - Where(places, m, k)) - 1 :
               After(places, k)[q] = places[2 * Where(places, m, k) + q]
      BY <3>1, AfterPlaces
    <3> QED BY <3>2, <3>3, <3>4 DEF places
  <2> QED BY <2>2
<1>6. k # 0 => ((\A s \in Stack : k \in KeptLines(files[s])) <=> Keeps(files, u, k))
  <2> SUFFICES ASSUME k # 0 PROVE (\A s \in Stack : k \in KeptLines(files[s])) <=> Keeps(files, u, k)
    OBVIOUS
  <2>1. k \in 1 .. BaseLines
    BY <1>4
  <2>2. \A s \in Stack : k \in KeptLines(files[s]) <=> Keeps(files, s, k)
    BY <1>3, <2>1, StaysIs DEF Keeps
  <2>3. \A t \in Stack : t # u => Keeps(files, t, k)
    BY WriterIs
  <2> QED BY <1>1, <2>2, <2>3
<1>7. CASE k = 0
  <2>1. n # 0
    BY <1>1, <1>2, <1>7
  <2>2. part = after
    BY <1>7 DEF WorkspacePart
  <2> HIDE DEF after
  <2>3. Lead(k) = 0 /\ 2 * n - 1 + 0 = 2 * n - 1 /\ \A q \in Int : 0 + q = q
    BY <1>2, <1>7 DEF Lead
  <2>4. \A q \in 1 .. 2 * n - 1 : q \in Int
    OBVIOUS
  <2> QED BY <1>2, <1>5, <1>7, <2>1, <2>2, <2>3, <2>4
<1>8. CASE k # 0 /\ n # 0
  <2>1. part = <<FromBase(k)>> \o after
    BY <1>2, <1>6, <1>8 DEF WorkspacePart
  <2>2. FromBase(k) \in GoodPlace
    BY <1>4 DEF FromBase, GoodPlace, Place
  <2> DEFINE p == FromBase(k)
  <2> HIDE DEF after, p
  <2>3. after \in Seq(GoodPlace) /\ Len(after) = 2 * n - 1 /\ p \in GoodPlace /\ part = <<p>> \o after
    BY <1>5, <1>8, <2>1, <2>2 DEF p
  <2>4. /\ part \in Seq(GoodPlace) /\ Len(part) = 1 + Len(after) /\ part[1] = p
        /\ \A q \in 1 .. Len(after) : part[1 + q] = after[q]
    BY <2>3
  <2>5. Lead(k) = 1 /\ 2 * n - 1 + 1 = 1 + (2 * n - 1)
    BY <1>2, <1>8 DEF Lead
  <2> QED BY <1>2, <1>5, <1>8, <2>3, <2>4, <2>5 DEF p
<1>9. CASE k # 0 /\ n = 0
  <2>1. part = <<>>
    BY <1>2, <1>6, <1>9 DEF WorkspacePart
  <2>2. Lead(k) = 1 /\ 2 * n - 1 + 1 = 0 /\ \A q \in 1 .. 2 * n - 1 : FALSE
    BY <1>9 DEF Lead
  <2> QED BY <1>2, <1>9, <2>1, <2>2
<1> QED BY <1>7, <1>8, <1>9

\* The line above the first one is at the top of every file.
LEMMA WorkspaceStarts ==
  ASSUME NEW files, Aligned(files)
  PROVE  WorkspaceAt(files, 0) = 0
<1> DEFINE a == [t \in Stack |-> At(files, t, 0) - 0]
<1>1. a \in [Stack -> Int] /\ \A t \in Stack : a[t] = 0
  <2>1. \A t \in Stack : At(files, t, 0) = 0
    BY StaysIs DEF Aligned, At
  <2> QED BY <2>1
<1> HIDE DEF a
<1>2. a \in Seq(Int) /\ 1 .. Len(a) = Stack
  BY <1>1, StackNumbers
<1>3. SumOf(a) = 0
  BY <1>1, <1>2, SumOfZeros
<1>4. WorkspaceAt(files, 0) = 0 + SumOf(a)
  BY DEF WorkspaceAt, a
<1> QED BY <1>3, <1>4

\* The file of the workspace commit, place by place.
LEMMA WorkspaceIs ==
  ASSUME NEW files, Aligned(files), Stacks # 0,
         NEW all, all = Workspace(files), NEW m, m = WorkspaceAt(files, BaseLines + 1) - 1
  PROVE  /\ FileOf(all, m)
         /\ \A k \in 0 .. BaseLines : \A u \in Stack : u = Writer(files, k) =>
              \A q \in 1 .. 2 * (At(files, u, k + 1) - At(files, u, k)) - 1 :
                /\ 2 * WorkspaceAt(files, k) + q \in 1 .. 2 * m + 1
                /\ all[2 * WorkspaceAt(files, k) + q] = files[u][2 * At(files, u, k) + q]
         /\ \A i \in 1 .. 2 * m + 1 : \E k \in 0 .. BaseLines : \E u \in Stack : u = Writer(files, k) /\ Keeps(files, u, k) /\
              \/ all[i].commit = Base
              \/ \E q \in 1 .. 2 * (At(files, u, k + 1) - At(files, u, k)) - 1 : i = 2 * WorkspaceAt(files, k) + q
<1> DEFINE N == BaseLines + 1
           part(k) == WorkspacePart(files, k)
           parts == [i \in 1 .. N |-> part(i - 1)]
           ends == [i \in 0 .. N |-> 2 * WorkspaceAt(files, i) - Lead(i)]
           u(k) == Writer(files, k)
           n(k) == At(files, u(k), k + 1) - At(files, u(k), k)
<1>1. BaseLines \in Nat /\ N \in Nat /\ N # 0 /\ \A k \in 0 .. BaseLines : k + 1 \in 1 .. N /\ (k + 1) - 1 = k /\ k \in 0 .. N
  BY HunkRangesAssumption
<1>2. \A i \in 1 .. N : i - 1 \in 0 .. BaseLines /\ (i - 1) + 1 = i /\ i \in 0 .. N /\ i - 1 \in 0 .. N /\ i # 0
  BY <1>1
<1>3. ASSUME NEW k \in 0 .. BaseLines
      PROVE  /\ u(k) \in Stack /\ n(k) \in Nat /\ (n(k) # 0 <=> Keeps(files, u(k), k))
             /\ part(k) \in Seq(GoodPlace) /\ Len(part(k)) = 2 * n(k) - 1 + Lead(k)
             /\ \A q \in 1 .. 2 * n(k) - 1 : part(k)[Lead(k) + q] = files[u(k)][2 * At(files, u(k), k) + q]
             /\ k # 0 /\ n(k) # 0 => part(k)[1] = FromBase(k)
             /\ WorkspaceAt(files, k) \in Int /\ WorkspaceAt(files, k + 1) \in Int
             /\ WorkspaceAt(files, k + 1) - WorkspaceAt(files, k) = n(k)
  <2>1. u(k) \in Stack
    BY WorkspaceNext
  <2> HIDE DEF u, n, part
  <2>2. u(k) = Writer(files, k) /\ n(k) = At(files, u(k), k + 1) - At(files, u(k), k) /\ part(k) = WorkspacePart(files, k)
    BY DEF u, n, part
  <2>3. /\ n(k) \in Nat /\ (n(k) # 0 <=> Keeps(files, u(k), k))
        /\ part(k) \in Seq(GoodPlace) /\ Len(part(k)) = 2 * n(k) - 1 + Lead(k)
        /\ \A q \in 1 .. 2 * n(k) - 1 : part(k)[Lead(k) + q] = files[u(k)][2 * At(files, u(k), k) + q]
        /\ k # 0 /\ n(k) # 0 => part(k)[1] = FromBase(k)
    BY <2>2, PartIs
  <2>4. /\ WorkspaceAt(files, k) \in Int /\ WorkspaceAt(files, k + 1) \in Int
        /\ WorkspaceAt(files, k + 1) - WorkspaceAt(files, k) = At(files, u(k), k + 1) - At(files, u(k), k)
    BY <2>2, WorkspaceNext
  <2> QED BY <2>1, <2>2, <2>3, <2>4
<1>4. \A k \in 0 .. N : WorkspaceAt(files, k) \in Int /\ Lead(k) \in {0, 1}
  <2>1. \A k \in 0 .. N : k \in 0 .. BaseLines \/ (k \in 1 .. N /\ k - 1 \in 0 .. BaseLines /\ (k - 1) + 1 = k)
    BY <1>1
  <2> QED BY <1>3, <2>1 DEF Lead
<1>5. Workspace(files) = FlattenSeq(parts)
  <2>1. parts = [i \in 1 .. N |-> IF i = 1 THEN After(files[Writer(files, 0)], 0)
                                  ELSE IF \A s \in Stack : i - 1 \in KeptLines(files[s])
                                       THEN <<FromBase(i - 1)>> \o After(files[Writer(files, i - 1)], i - 1)
                                       ELSE <<>>]
    <3>1. \A i \in 1 .. N : i - 1 = 0 <=> i = 1
      BY <1>1
    <3> QED BY <3>1 DEF WorkspacePart
  <2> HIDE DEF parts
  <2> QED BY <2>1, Zenon DEF Workspace, Writer, ChangedBy, N
<1> HIDE DEF N, part, u, n
<1>6. parts \in Seq(Seq(GoodPlace)) /\ Len(parts) = N /\ \A i \in 1 .. N : parts[i] = part(i - 1)
  <2>1. \A i \in 1 .. N : part(i - 1) \in Seq(GoodPlace)
    BY <1>2, <1>3
  <2> QED BY <1>1, <2>1
<1>7. ends \in [0 .. N -> Int] /\ \A i \in 0 .. N : ends[i] = 2 * WorkspaceAt(files, i) - Lead(i)
  BY <1>4
<1> HIDE DEF parts, ends
<1>8. ends[0] = 0
  <2>1. 0 \in 0 .. N
    BY <1>1
  <2> QED BY <1>7, <2>1, WorkspaceStarts DEF Lead
<1>9. ASSUME NEW i \in 1 .. N PROVE ends[i] = ends[i - 1] + Len(parts[i])
  <2> DEFINE k == i - 1
             x == WorkspaceAt(files, k)
             y == WorkspaceAt(files, i)
             d == n(k)
             l == Lead(k)
  <2>1. x \in Int /\ y \in Int /\ y - x = d /\ d \in Nat /\ Len(parts[i]) = 2 * d - 1 + l
    BY <1>2, <1>3, <1>6
  <2>2. ends[i] = 2 * y - 1 /\ ends[k] = 2 * x - l /\ l \in {0, 1}
    BY <1>2, <1>4, <1>7 DEF Lead
  <2> HIDE DEF x, y, d, l
  <2>3. 2 * y - 1 = (2 * x - l) + (2 * d - 1 + l)
    BY <2>1, <2>2
  <2> QED BY <2>1, <2>2, <2>3
<1>10. /\ all \in Seq(GoodPlace) /\ Len(all) = ends[N]
       /\ \A i \in 1 .. N : \A q \in 1 .. Len(parts[i]) :
            ends[i - 1] + q \in 1 .. ends[N] /\ all[ends[i - 1] + q] = parts[i][q]
       /\ \A p \in 1 .. ends[N] : \E i \in 1 .. N : \E q \in 1 .. Len(parts[i]) : p = ends[i - 1] + q
  <2>1. all = FlattenSeq(parts)
    BY <1>5
  <2>2. Len(parts) # 0 /\ parts \in Seq(Seq(GoodPlace)) /\ EndsOK(parts, ends)
    BY <1>1, <1>6, <1>7, <1>8, <1>9 DEF EndsOK
  <2>3. all \in Seq(GoodPlace) /\ LaidOut(all, parts, ends)
    BY <2>1, <2>2, FlattenPlaces
  <2> QED BY <1>6, <2>3 DEF LaidOut
<1>11. m \in Int /\ ends[N] = 2 * m + 1
  <2>1. N \in 0 .. N /\ Lead(N) = 1 /\ m = WorkspaceAt(files, N) - 1
    BY <1>1 DEF Lead, N
  <2>2. WorkspaceAt(files, N) \in Int /\ ends[N] = 2 * WorkspaceAt(files, N) - 1
    BY <1>4, <1>7, <2>1
  <2> QED BY <2>1, <2>2
<1>12. FileOf(all, m)
  <2>1. Len(all) \in Nat
    BY <1>10
  <2>2. m \in Nat
    BY <1>10, <1>11, <2>1
  <2> QED BY <1>10, <1>11, <2>2 DEF FileOf
<1>13. ASSUME NEW k \in 0 .. BaseLines, NEW q \in 1 .. 2 * n(k) - 1
       PROVE  /\ 2 * WorkspaceAt(files, k) + q \in 1 .. 2 * m + 1
              /\ all[2 * WorkspaceAt(files, k) + q] = files[u(k)][2 * At(files, u(k), k) + q]
  <2> DEFINE i == k + 1
             d == n(k)
             l == Lead(k)
             x == WorkspaceAt(files, k)
  <2>1. i \in 1 .. N /\ i - 1 = k /\ k \in 0 .. N
    BY <1>1
  <2>2. parts[i] = part(k) /\ ends[i - 1] = 2 * x - l /\ l \in {0, 1} /\ x \in Int /\ d \in Nat
        /\ Len(parts[i]) = 2 * d - 1 + l
    BY <1>3, <1>4, <1>6, <1>7, <2>1
  <2>3. part(k)[l + q] = files[u(k)][2 * At(files, u(k), k) + q]
    BY <1>3
  <2>4. q \in 1 .. 2 * d - 1
    OBVIOUS
  <2> HIDE DEF d, l, x, i
  <2>5. l + q \in 1 .. Len(parts[i]) /\ (2 * x - l) + (l + q) = 2 * x + q
    BY <2>2, <2>4
  <2>6. ends[i - 1] + (l + q) \in 1 .. ends[N] /\ all[ends[i - 1] + (l + q)] = parts[i][l + q]
    BY <1>10, <2>1, <2>5
  <2>7. 2 * x + q \in 1 .. 2 * m + 1 /\ all[2 * x + q] = files[u(k)][2 * At(files, u(k), k) + q]
    BY <1>11, <2>2, <2>3, <2>5, <2>6
  <2> QED BY <2>7 DEF x
<1>14. ASSUME NEW p \in 1 .. 2 * m + 1
       PROVE  \E k \in 0 .. BaseLines : Keeps(files, u(k), k) /\
                (all[p].commit = Base \/ \E q \in 1 .. 2 * n(k) - 1 : p = 2 * WorkspaceAt(files, k) + q)
  <2>0. p \in 1 .. ends[N]
    BY <1>11
  <2>1. PICK i \in 1 .. N : \E q \in 1 .. Len(parts[i]) : p = ends[i - 1] + q
    BY <1>10, <2>0
  <2>2. PICK q \in 1 .. Len(parts[i]) : p = ends[i - 1] + q
    BY <2>1
  <2> DEFINE k == i - 1
             d == n(k)
             l == Lead(k)
             x == WorkspaceAt(files, k)
  <2>3. k \in 0 .. BaseLines /\ k \in 0 .. N /\ parts[i] = part(k)
    BY <1>2, <1>6
  <2>4. /\ ends[i - 1] = 2 * x - l /\ l \in {0, 1} /\ (l = 0 <=> k = 0) /\ x \in Int /\ d \in Nat
        /\ Len(parts[i]) = 2 * d - 1 + l
    BY <1>3, <1>4, <1>7, <2>3 DEF Lead
  <2>5. k # 0 /\ d # 0 => parts[i][1] = FromBase(k)
    BY <1>3, <2>3
  <2>6. d # 0 => Keeps(files, u(k), k)
    BY <1>3, <2>3
  <2>7. all[ends[i - 1] + q] = parts[i][q]
    BY <1>10
  <2> HIDE DEF k, d, l, x
  <2>8. d # 0
    <3> SUFFICES ASSUME d = 0 PROVE FALSE
      OBVIOUS
    <3>1. q \in 1 .. 2 * 0 - 1 + l
      BY <2>4
    <3> QED BY <2>4, <3>1
  <2>9. CASE q = 1 /\ l = 1
    <3>1. all[p] = FromBase(k)
      BY <2>2, <2>4, <2>5, <2>7, <2>8, <2>9
    <3> QED BY <2>3, <2>6, <2>8, <3>1 DEF FromBase, k
  <2>10. CASE ~(q = 1 /\ l = 1)
    <3>1. q - l \in 1 .. 2 * d - 1 /\ p = 2 * x + (q - l)
      <4>1. q \in Int /\ q >= 1 /\ q <= 2 * d - 1 + l
        BY <2>4
      <4>2. q - l >= 1
        BY <2>4, <2>10, <4>1
      <4>3. p = (2 * x - l) + q
        BY <2>2, <2>4
      <4> QED BY <2>4, <4>1, <4>2, <4>3
    <3> QED BY <2>3, <2>6, <2>8, <3>1 DEF d, x
  <2> QED BY <2>9, <2>10
<1>15. \A k \in 0 .. BaseLines : u(k) \in Stack
  BY <1>3
<1>16. \A k \in 0 .. BaseLines : \A s \in Stack : s = Writer(files, k) =>
         s = u(k) /\ 2 * (At(files, s, k + 1) - At(files, s, k)) - 1 = 2 * n(k) - 1
  BY DEF n, u
<1>17. ASSUME NEW k \in 0 .. BaseLines, NEW s \in Stack, s = Writer(files, k),
              NEW q \in 1 .. 2 * (At(files, s, k + 1) - At(files, s, k)) - 1
       PROVE  /\ 2 * WorkspaceAt(files, k) + q \in 1 .. 2 * m + 1
              /\ all[2 * WorkspaceAt(files, k) + q] = files[s][2 * At(files, s, k) + q]
  BY <1>13, <1>16, <1>17
<1>18. ASSUME NEW i \in 1 .. 2 * m + 1
       PROVE  \E k \in 0 .. BaseLines : \E s \in Stack : s = Writer(files, k) /\ Keeps(files, s, k) /\
              \/ all[i].commit = Base
              \/ \E q \in 1 .. 2 * (At(files, s, k + 1) - At(files, s, k)) - 1 : i = 2 * WorkspaceAt(files, k) + q
  <2>1. PICK k \in 0 .. BaseLines : Keeps(files, u(k), k) /\
                (all[i].commit = Base \/ \E q \in 1 .. 2 * n(k) - 1 : i = 2 * WorkspaceAt(files, k) + q)
    BY <1>14
  <2>2. u(k) \in Stack /\ u(k) = Writer(files, k)
    BY <1>15 DEF u
  <2>3. 2 * (At(files, u(k), k + 1) - At(files, u(k), k)) - 1 = 2 * n(k) - 1
    BY DEF n
  <2> QED BY <2>1, <2>2, <2>3
<1> QED BY <1>12, <1>17, <1>18

-----------------------------------------------------------------------------
(* Combined ranges in order name its lines *)

\* A line or a gap is one of the places.
PlaceOf(gap, n) == 2 * n + IF gap THEN 1 ELSE 0

LEMMA SaysPlace ==
  ASSUME NEW places, NEW m \in Int, NEW gap \in BOOLEAN, NEW n \in Int, NEW c
  PROVE  /\ PlaceOf(gap, n) \in Int /\ (PlaceOf(gap, n) = 2 * n \/ PlaceOf(gap, n) = 2 * n + 1)
         /\ FileSays(places, m, gap, n, c)
              <=> PlaceOf(gap, n) \in 1 .. 2 * m + 1 /\ places[PlaceOf(gap, n)].commit = c
<1> DEFINE i == PlaceOf(gap, n)
<1>1. CASE gap
  <2>1. i = 2 * n + 1 /\ (0 <= n /\ n <= m <=> 2 * n + 1 \in 1 .. 2 * m + 1)
    BY <1>1 DEF PlaceOf
  <2>2. FileSays(places, m, gap, n, c) <=> 0 <= n /\ n <= m /\ places[2 * n + 1].commit = c
    BY <1>1 DEF FileSays, CommitAt, GapAfter
  <2> QED BY <2>1, <2>2
<1>2. CASE ~gap
  <2>1. i = 2 * n + 0 /\ 2 * n + 0 = 2 * n
    BY <1>2 DEF PlaceOf
  <2>2. 1 <= n /\ n <= m <=> 2 * n \in 1 .. 2 * m + 1
    OBVIOUS
  <2>3. FileSays(places, m, gap, n, c) <=> 1 <= n /\ n <= m /\ places[2 * n].commit = c
    BY <1>2 DEF FileSays, CommitAt, LineAt
  <2> QED BY <2>1, <2>2, <2>3
<1> QED BY <1>1, <1>2

\* A line between line k of the merge base and the next one that is there.
Between(files, u, k, n) == Keeps(files, u, k) /\ At(files, u, k) <= n /\ n < At(files, u, k + 1)

\* Only one line of the merge base is the last above it.
LEMMA BetweenOne ==
  ASSUME NEW files, Aligned(files), NEW u \in Stack, NEW n \in Int,
         NEW j \in 0 .. BaseLines, NEW k \in 0 .. BaseLines, Between(files, u, j, n), Between(files, u, k, n)
  PROVE  j = k
<1> DEFINE places == files[u]
           m == LineCount(places)
           o(i) == Origin(places, m, i)
           w(i) == Where(places, m, i)
<1>1. FileOf(places, m) /\ KeepsOrder(places, m) /\ m \in Nat /\ BaseLines \in Nat
  BY HunkRangesAssumption DEF Aligned, FileOf
<1> HIDE DEF m, places
<1>2. ASSUME NEW a \in 0 .. BaseLines, NEW b \in 0 .. BaseLines, a < b,
             Stays(places, m, a), Stays(places, m, b), w(a) <= n, n < w(a + 1), w(b) <= n
      PROVE  FALSE
  <2>1. w(a) \in 0 .. m + 1 /\ w(b) \in 0 .. m + 1 /\ w(a + 1) \in 1 .. m + 1
    BY <1>1, WhereNext
  <2>2. \A i \in Int : w(a) < i /\ i < w(a + 1) => o(i) = 0
    BY <1>1, <1>2, WhereNext
  <2>3. o(w(b)) = b /\ o(w(a)) = a /\ b # 0
    BY <1>1, <1>2 DEF Stays
  <2>4. w(b) \in 1 .. m + 1
    <3>1. b \in 1 .. BaseLines + 1
      BY <1>1, <1>2
    <3> QED BY <1>1, <3>1, WhereIs
  <2>5. w(a) < w(b)
    <3>1. CASE a = 0
      <4>1. w(a) = 0
        BY <1>1, <3>1, StaysIs
      <4> HIDE DEF w
      <4> QED BY <1>1, <2>4, <4>1
    <3>2. CASE a # 0
      <4>1. o(w(b)) # 0 /\ o(w(a)) # 0 /\ ~(o(w(b)) < o(w(a))) /\ w(a) # w(b)
        BY <1>1, <1>2, <2>3, <3>2
      <4>2. ~(w(b) < w(a))
        BY <1>1, <2>1, <4>1 DEF KeepsOrder
      <4> HIDE DEF w, o
      <4> QED BY <1>1, <2>1, <4>1, <4>2
    <3> QED BY <3>1, <3>2
  <2> HIDE DEF w, o
  <2>6. w(b) \in Int /\ w(b) < w(a + 1)
    BY <1>1, <1>2, <2>1
  <2> QED BY <2>2, <2>3, <2>5, <2>6
<1>3. /\ Stays(places, m, j) /\ w(j) <= n /\ n < w(j + 1)
      /\ Stays(places, m, k) /\ w(k) <= n /\ n < w(k + 1)
  BY DEF Between, Keeps, At, m, places
<1>4. ~(j < k) /\ ~(k < j)
  BY <1>2, <1>3
<1> QED BY <1>1, <1>4

\* Where a file has something of a commit's, the workspace commit has it from there.
LEMMA CommitPlace ==
  ASSUME NEW files, Aligned(files), NEW u \in Stack, NEW k \in 0 .. BaseLines,
         NEW n \in Int, Between(files, u, k, n), NEW gap \in BOOLEAN, NEW c \in Commit,
         FileSays(files[u], LineCount(files[u]), gap, n, c),
         NEW i, i = PlaceOf(gap, n)
  PROVE  /\ i \in 2 * At(files, u, k) + 1 .. 2 * At(files, u, k + 1) - 1
         /\ k \in Changed(files[u])
<1> DEFINE places == files[u]
           m == LineCount(places)
           w == At(files, u, k)
           v == At(files, u, k + 1)
           o(x) == Origin(places, m, x)
<1>1. FileOf(places, m) /\ KeepsOrder(places, m) /\ m \in Nat /\ BaseLines \in Nat
  BY HunkRangesAssumption DEF Aligned, FileOf
<1>2. w \in 0 .. m + 1 /\ v \in 1 .. m + 1
  BY <1>1, WhereNext DEF At
<1>3. Stays(places, m, k) /\ w <= n /\ n < v
  BY DEF Between, Keeps
<1>4. i \in Int /\ i \in 1 .. 2 * m + 1 /\ places[i].commit = c /\ c # Base
  <2>1. c # Base
    BY DEF Commit, Base
  <2> QED BY <1>1, <2>1, SaysPlace
<1>5. i # 2 * w
  <2> SUFFICES ASSUME i = 2 * w PROVE FALSE
    OBVIOUS
  <2>1. w \in 1 .. m
    <3> HIDE DEF w, m
    <3> QED BY <1>1, <1>2, <1>4
  <2>2. k # 0
    <3>1. k = 0 => w = 0
      BY DEF At, Where
    <3> QED BY <2>1, <3>1
  <2>3. o(w) = k
    BY <1>3 DEF Stays, At
  <2>4. o(w) = places[2 * w].base
    <3>1. w # m + 1 /\ 1 <= w /\ w <= m
      BY <1>1, <2>1
    <3> QED BY <3>1 DEF Origin, LineAt
  <2>5. places[i] \in GoodPlace
    <3>1. places \in Seq(GoodPlace) /\ i \in 1 .. Len(places)
      BY <1>1, <1>4 DEF FileOf
    <3> QED BY <3>1
  <2>6. places[i].base # 0
    <3> HIDE DEF w, o, m, places
    <3> QED BY <2>2, <2>3, <2>4
  <2> QED BY <1>4, <2>5, <2>6 DEF GoodPlace
<1>6. i \in 2 * w + 1 .. 2 * v - 1
  <2> HIDE DEF w, v, m, places
  <2>1. i = 2 * n \/ i = 2 * n + 1
    BY <1>1, SaysPlace
  <2>2. 2 * w <= 2 * n /\ 2 * n + 1 <= 2 * v - 1
    BY <1>1, <1>2, <1>3
  <2> QED BY <1>1, <1>2, <1>4, <1>5, <2>1, <2>2
<1>7. k \in Changed(places)
  <2>1. k .. o(v) - 1 \subseteq Changed(places)
    BY <1>1, <1>3, <1>4, <1>6, BlockChanged DEF At
  <2>2. k + 1 <= o(v) /\ o(v) \in Int
    <3>1. k + 1 \in 1 .. BaseLines + 1 /\ v \in Int
      BY <1>1, <1>2
    <3>2. k + 1 <= Origin(places, m, Where(places, m, k + 1))
      BY <1>1, <3>1, WhereIs
    <3>3. o(v) \in 0 .. BaseLines + 1
      BY <1>1, <3>1, OriginRange
    <3> QED BY <1>1, <3>2, <3>3 DEF At
  <2> HIDE DEF o, v
  <2>3. k \in k .. o(v) - 1
    BY <2>2
  <2> QED BY <2>1, <2>3
<1> QED BY <1>6, <1>7

\* What a stack says of a line or a gap the workspace commit says of it, where it is there.
LEMMA WorkspaceSaysOf ==
  ASSUME NEW files, Aligned(files), Stacks # 0,
         NEW all, all = Workspace(files), NEW m, m = WorkspaceAt(files, BaseLines + 1) - 1,
         NEW u \in Stack, NEW k \in 0 .. BaseLines, NEW gap \in BOOLEAN, NEW n \in Int, NEW c \in Commit,
         NEW d, d = Offset(files, u, k), Between(files, u, k, n - d),
         FileSays(files[u], LineCount(files[u]), gap, n - d, c)
  PROVE  FileSays(all, m, gap, n, c)
<1> DEFINE w == At(files, u, k)
           v == At(files, u, k + 1)
           x == WorkspaceAt(files, k)
           i == PlaceOf(gap, n - d)
           q == i - 2 * w
<1>1. BaseLines \in Nat /\ k \in 0 .. BaseLines + 1 /\ k + 1 \in 0 .. BaseLines + 1 /\ BaseLines + 1 \in 0 .. BaseLines + 1
  BY HunkRangesAssumption
<1>2. w \in Int /\ v \in Int /\ d \in Int /\ x \in Int /\ x = w + d /\ m \in Int
  BY <1>1, WorkspaceAtIs
<1>3. n - d \in Int
  BY <1>2
<1>4. i \in 2 * w + 1 .. 2 * v - 1 /\ k \in Changed(files[u])
  BY <1>3, CommitPlace
<1>5. i \in Int /\ files[u][i].commit = c
  <2>1. LineCount(files[u]) \in Int
    BY DEF Aligned, FileOf
  <2> QED BY <1>3, <2>1, SaysPlace
<1>6. u = Writer(files, k)
  BY <1>4, WriterIs
<1>7. PlaceOf(gap, n) \in Int /\ PlaceOf(gap, n) = i + 2 * d
  <2>1. CASE gap
    BY <1>2, <2>1 DEF PlaceOf
  <2>2. CASE ~gap
    BY <1>2, <2>2 DEF PlaceOf
  <2> QED BY <2>1, <2>2
<1> HIDE DEF i, w, v, x
<1>8. q \in 1 .. 2 * (v - w) - 1 /\ 2 * w + q = i /\ 2 * x + q = PlaceOf(gap, n)
  BY <1>2, <1>4, <1>5, <1>7
<1>9. \A y \in 1 .. 2 * (v - w) - 1 :
        2 * x + y \in 1 .. 2 * m + 1 /\ all[2 * x + y] = files[u][2 * w + y]
  BY <1>6, WorkspaceIs DEF w, v, x
<1> HIDE DEF q
<1>10. PlaceOf(gap, n) \in 1 .. 2 * m + 1 /\ all[PlaceOf(gap, n)].commit = c
  BY <1>5, <1>8, <1>9
<1> QED BY <1>2, <1>10, SaysPlace

\* And it says nothing else of a commit.
LEMMA WorkspaceSays ==
  ASSUME NEW files, Aligned(files), Stacks # 0,
         NEW all, all = Workspace(files), NEW m, m = WorkspaceAt(files, BaseLines + 1) - 1,
         NEW gap \in BOOLEAN, NEW n \in Int, NEW c \in Commit, FileSays(all, m, gap, n, c)
  PROVE  \E u \in Stack : \E k \in 0 .. BaseLines :
           /\ Between(files, u, k, n - Offset(files, u, k))
           /\ FileSays(files[u], LineCount(files[u]), gap, n - Offset(files, u, k), c)
<1> DEFINE i == PlaceOf(gap, n)
<1>1. BaseLines \in Nat /\ c # Base /\ BaseLines + 1 \in 0 .. BaseLines + 1
  BY HunkRangesAssumption DEF Commit, Base
<1>2. FileOf(all, m) /\ m \in Nat
  BY WorkspaceIs DEF FileOf
<1>3. i \in Int /\ i \in 1 .. 2 * m + 1 /\ all[i].commit = c
  BY <1>2, SaysPlace
<1>4. PICK k \in 0 .. BaseLines : \E u \in Stack : u = Writer(files, k) /\ Keeps(files, u, k) /\
        \/ all[i].commit = Base
        \/ \E q \in 1 .. 2 * (At(files, u, k + 1) - At(files, u, k)) - 1 : i = 2 * WorkspaceAt(files, k) + q
  <2> HIDE DEF i
  <2> QED BY <1>3, WorkspaceIs
<1>5. PICK u \in Stack : u = Writer(files, k) /\ Keeps(files, u, k) /\
        \E q \in 1 .. 2 * (At(files, u, k + 1) - At(files, u, k)) - 1 : i = 2 * WorkspaceAt(files, k) + q
  BY <1>1, <1>3, <1>4
<1> DEFINE w == At(files, u, k)
           v == At(files, u, k + 1)
           x == WorkspaceAt(files, k)
           d == Offset(files, u, k)
           mu == LineCount(files[u])
<1>6. PICK q \in 1 .. 2 * (v - w) - 1 : i = 2 * x + q
  BY <1>5
<1>7. FileOf(files[u], mu) /\ KeepsOrder(files[u], mu) /\ mu \in Nat
  BY DEF Aligned, FileOf
<1>8. w \in 0 .. mu + 1 /\ v \in 1 .. mu + 1
  BY <1>7, WhereNext DEF At
<1>9. d \in Int /\ x \in Int /\ x = w + d
  <2>1. k \in 0 .. BaseLines + 1
    BY <1>1
  <2> QED BY <2>1, WorkspaceAtIs
<1>10. files[u][2 * w + q].commit = c
  <2> HIDE DEF w, v, x, i
  <2>1. all[2 * x + q] = files[u][2 * w + q]
    BY <1>5, WorkspaceIs DEF w, v, x
  <2> QED BY <1>3, <1>6, <2>1
<1>11. n - d \in Int /\ PlaceOf(gap, n - d) = i - 2 * d
  <2>1. CASE gap
    BY <1>9, <2>1 DEF PlaceOf
  <2>2. CASE ~gap
    BY <1>9, <2>2 DEF PlaceOf
  <2> QED BY <1>9, <2>1, <2>2
<1>12. PlaceOf(gap, n - d) = 2 * (n - d) \/ PlaceOf(gap, n - d) = 2 * (n - d) + 1
  BY <1>7, <1>11, SaysPlace
<1> HIDE DEF w, v, x, i, d, mu
<1>13. PlaceOf(gap, n - d) = 2 * w + q /\ q \in Int
  BY <1>3, <1>6, <1>8, <1>9, <1>11
<1>14. 2 * w + q \in 1 .. 2 * mu + 1 /\ 2 * w < 2 * w + q /\ 2 * w + q < 2 * v
  BY <1>7, <1>8, <1>13
<1>15. w <= n - d /\ n - d < v
  <2> DEFINE y == n - d
             z == 2 * w + q
  <2>1. y \in Int /\ z \in Int /\ (z = 2 * y \/ z = 2 * y + 1) /\ 2 * w < z /\ z < 2 * v /\ w \in Int /\ v \in Int
    BY <1>7, <1>8, <1>11, <1>12, <1>13, <1>14
  <2> HIDE DEF y, z
  <2>2. w <= y /\ y < v
    BY <2>1
  <2> QED BY <2>2 DEF y
<1>16. FileSays(files[u], mu, gap, n - d, c)
  <2> DEFINE y == n - d
  <2>1. y \in Int /\ mu \in Int /\ PlaceOf(gap, y) \in 1 .. 2 * mu + 1 /\ files[u][PlaceOf(gap, y)].commit = c
    BY <1>7, <1>10, <1>11, <1>13, <1>14
  <2> HIDE DEF y
  <2>2. FileSays(files[u], mu, gap, y, c)
    BY <2>1, SaysPlace
  <2> QED BY <2>2 DEF y
<1> QED BY <1>5, <1>15, <1>16 DEF Between, w, v, d, mu

\* A range that is moved owns what it did, moved as much.
LEMMA MovedOwns ==
  ASSUME NEW r \in GoodRange, NEW d \in Int, NEW gap \in BOOLEAN, NEW n \in Int
  PROVE  /\ MoveBy(r, d).commit = r.commit
         /\ Owns(MoveBy(r, d), gap, n) <=> Owns(r, gap, n - d)
<1> DEFINE q == MoveBy(r, d)
<1>1. r \in HunkRange /\ r.start \in Nat /\ r.lines \in Nat
  BY DEF GoodRange, HunkRange
<1>2. q.start = r.start + d /\ q.lines = r.lines /\ q.commit = r.commit
  BY <1>1 DEF MoveBy, HunkRange
<1>3. RangeTop(r) \in Int /\ RangeBottom(r) \in Int
  BY RangeSpan
<1> HIDE DEF q
<1>4. RangeTop(q) = RangeTop(r) + d /\ RangeBottom(q) = RangeBottom(r) + d
  <2>1. CASE r.lines = 0
    BY <1>1, <1>2, <2>1 DEF RangeTop, RangeBottom, Top, Bottom
  <2>2. CASE r.lines # 0
    BY <1>1, <1>2, <2>2 DEF RangeTop, RangeBottom, Top, Bottom
  <2> QED BY <2>1, <2>2
<1>5. Owns(q, gap, n) <=> Owns(r, gap, n - d)
  <2>1. CASE gap
    <3>1. RangeTop(q) = RangeBottom(q) /\ n = RangeTop(q) <=> RangeTop(r) = RangeBottom(r) /\ n - d = RangeTop(r)
      BY <1>3, <1>4
    <3> QED BY <2>1, <3>1 DEF Owns
  <2>2. CASE ~gap
    <3>1. RangeTop(q) < n /\ n <= RangeBottom(q) <=> RangeTop(r) < n - d /\ n - d <= RangeBottom(r)
      BY <1>3, <1>4
    <3> QED BY <2>2, <3>1 DEF Owns
  <2> QED BY <2>1, <2>2
<1> QED BY <1>2, <1>5 DEF q

\* Combined ranges in order name the lines of the workspace commit.
LEMMA CombinedMatches ==
  ASSUME NEW byStack, NEW files, AllRanges(byStack, files), Stacks # 0, Ordered(Combine(byStack)),
         NEW all, all = Workspace(files), NEW m, m = WorkspaceAt(files, BaseLines + 1) - 1
  PROVE  FileOf(all, m) /\ RangesOK(Combine(byStack)) /\ Matches(Combine(byStack), all, m)
<1> DEFINE out == Combine(byStack)
<1>1. /\ byStack \in [Stack -> Seq(GoodRange)] /\ Aligned(files) /\ BaseLines \in Nat
      /\ \A s \in Stack : StackRanges(byStack[s], files[s], LineCount(files[s]))
  BY HunkRangesAssumption DEF AllRanges, Aligned, StackRanges
<1>2. FileOf(all, m)
  BY <1>1, WorkspaceIs
<1>3. RangesOK(out)
  <2> DEFINE N == RangeCount(byStack)
             end == CombineWalk(byStack)[N]
  <2>1. PICK b \in Nat : ChainOK(byStack, files, N, end.out, end.next, b)
    BY ChainEnds
  <2>2. out = end.out
    BY DEF Combine
  <2> QED BY <2>1, <2>2 DEF ChainOK
<1>4. \A u \in Stack : \A k \in 0 .. BaseLines : Offset(files, u, k) \in Int
  <2>1. \A k \in 0 .. BaseLines : k \in 0 .. BaseLines + 1
    BY <1>1
  <2> QED BY <1>1, <2>1, WorkspaceAtIs
<1>5. /\ \A s \in Stack : \A j \in 1 .. Len(byStack[s]) : \A k \in 0 .. BaseLines :
           Block(byStack, files, s, j, k) => \E i \in DOMAIN out : out[i] = MoveBy(byStack[s][j], Offset(files, s, k))
      /\ \A i \in DOMAIN out :
           \E s \in Stack : \E j \in 1 .. Len(byStack[s]) : \E k \in 0 .. BaseLines :
             Block(byStack, files, s, j, k) /\ out[i] = MoveBy(byStack[s][j], Offset(files, s, k))
  BY CombinedIs
<1> HIDE DEF out
<1>6. ASSUME NEW s \in Stack, NEW j \in 1 .. Len(byStack[s]), NEW k \in 0 .. BaseLines, Block(byStack, files, s, j, k),
             NEW gap \in BOOLEAN, NEW n \in Int, Owns(byStack[s][j], gap, n)
      PROVE  Between(files, s, k, n)
  <2> DEFINE r == byStack[s][j]
             w == At(files, s, k)
             v == At(files, s, k + 1)
  <2>1. Keeps(files, s, k) /\ w <= RangeTop(r) /\ RangeTop(r) < v /\ RangeBottom(r) < v
    BY <1>1, <1>6, BlockIs DEF Block, InBlock, Keeps, At
  <2>2. r \in GoodRange
    BY <1>1
  <2>3. RangeTop(r) \in Nat /\ RangeBottom(r) \in Nat /\ RangeTop(r) <= RangeBottom(r)
    BY <2>2, RangeSpan
  <2>4. w \in Int /\ v \in Int
    <3>1. k \in 0 .. BaseLines + 1 /\ k + 1 \in 0 .. BaseLines + 1
      BY <1>1
    <3> QED BY <1>1, <3>1, WorkspaceAtIs
  <2>5. RangeTop(r) <= n /\ n <= RangeBottom(r)
    BY <1>6, <2>3 DEF Owns
  <2> HIDE DEF r, w, v
  <2>6. w <= n /\ n < v
    BY <2>1, <2>3, <2>4, <2>5
  <2> QED BY <2>1, <2>6 DEF Between, w, v
<1>7. ASSUME NEW gap \in BOOLEAN, NEW n \in Int, NEW c \in Commit, Says(out, gap, n, c)
      PROVE  FileSays(all, m, gap, n, c)
  <2>1. PICK i \in DOMAIN out : Owns(out[i], gap, n) /\ out[i].commit = c
    BY <1>7 DEF Says
  <2>2. PICK s \in Stack : \E j \in 1 .. Len(byStack[s]) : \E k \in 0 .. BaseLines :
          Block(byStack, files, s, j, k) /\ out[i] = MoveBy(byStack[s][j], Offset(files, s, k))
    BY <1>5
  <2>3. PICK j \in 1 .. Len(byStack[s]) : \E k \in 0 .. BaseLines :
          Block(byStack, files, s, j, k) /\ out[i] = MoveBy(byStack[s][j], Offset(files, s, k))
    BY <2>2
  <2>4. PICK k \in 0 .. BaseLines : Block(byStack, files, s, j, k) /\ out[i] = MoveBy(byStack[s][j], Offset(files, s, k))
    BY <2>3
  <2> DEFINE r == byStack[s][j]
             d == Offset(files, s, k)
  <2>5. r \in GoodRange /\ d \in Int /\ n - d \in Int /\ j \in DOMAIN byStack[s]
    BY <1>1, <1>4
  <2>6. Owns(r, gap, n - d) /\ r.commit = c
    <3> HIDE DEF r, d
    <3>1. out[i] = MoveBy(r, d)
      BY <2>4 DEF r, d
    <3> QED BY <2>1, <2>5, <3>1, MovedOwns
  <2>7. Between(files, s, k, n - d)
    BY <1>6, <2>4, <2>5, <2>6
  <2>8. Says(byStack[s], gap, n - d, c)
    BY <2>5, <2>6 DEF Says
  <2>9. FileSays(files[s], LineCount(files[s]), gap, n - d, c)
    BY <1>1, <2>5, <2>8 DEF StackRanges, Matches
  <2> QED BY <1>1, <2>7, <2>9, WorkspaceSaysOf
<1>8. ASSUME NEW gap \in BOOLEAN, NEW n \in Int, NEW c \in Commit, FileSays(all, m, gap, n, c)
      PROVE  Says(out, gap, n, c)
  <2>1. PICK u \in Stack : \E k \in 0 .. BaseLines :
           /\ Between(files, u, k, n - Offset(files, u, k))
           /\ FileSays(files[u], LineCount(files[u]), gap, n - Offset(files, u, k), c)
    BY <1>1, <1>8, WorkspaceSays
  <2>2. PICK k \in 0 .. BaseLines :
           /\ Between(files, u, k, n - Offset(files, u, k))
           /\ FileSays(files[u], LineCount(files[u]), gap, n - Offset(files, u, k), c)
    BY <2>1
  <2> DEFINE d == Offset(files, u, k)
  <2>3. d \in Int /\ n - d \in Int
    BY <1>4
  <2>4. Says(byStack[u], gap, n - d, c)
    BY <1>1, <2>2, <2>3 DEF StackRanges, Matches
  <2>5. PICK j \in 1 .. Len(byStack[u]) : Owns(byStack[u][j], gap, n - d) /\ byStack[u][j].commit = c
    <3>1. DOMAIN byStack[u] = 1 .. Len(byStack[u])
      BY <1>1
    <3> QED BY <2>4, <3>1 DEF Says
  <2>6. PICK b \in 0 .. BaseLines : Block(byStack, files, u, j, b)
    BY <1>1, RangeBlock DEF Block
  <2>7. Between(files, u, b, n - d)
    BY <1>6, <2>3, <2>5, <2>6
  <2>8. b = k
    BY <1>1, <2>2, <2>3, <2>7, BetweenOne
  <2>9. PICK i \in DOMAIN out : out[i] = MoveBy(byStack[u][j], d)
    BY <1>5, <2>6, <2>8
  <2>10. byStack[u][j] \in GoodRange
    BY <1>1
  <2>11. Owns(out[i], gap, n) /\ out[i].commit = c
    <3> DEFINE r == byStack[u][j]
    <3> HIDE DEF r, d
    <3>1. r \in GoodRange /\ d \in Int /\ Owns(r, gap, n - d) /\ r.commit = c /\ out[i] = MoveBy(r, d)
      BY <2>3, <2>5, <2>9, <2>10 DEF r, d
    <3> QED BY <3>1, MovedOwns
  <2> QED BY <2>11 DEF Says
<1> QED BY <1>2, <1>3, <1>7, <1>8 DEF Matches, out

\* The inductive invariant is what the combination relies on.
LEMMA InvRanges == ASSUME Inv PROVE AllRanges(ranges, file)
BY RangesGood DEF Inv, StackOK, AllRanges

\* Then combined ranges that are in order are right.
LEMMA CombinedRight == ASSUME Inv, Stacks # 0 PROVE OrderedMeansRight
<1> SUFFICES ASSUME Ordered(Combine(ranges))
             PROVE  Claims(Combine(ranges)) = Owned(Blame(Workspace(file)))
  BY DEF OrderedMeansRight, WorkspaceRangesAreBlame
<1> DEFINE rs == Combine(ranges)
           places == Workspace(file)
           m == WorkspaceAt(file, BaseLines + 1) - 1
<1>1. FileOf(places, m) /\ RangesOK(rs) /\ Matches(rs, places, m)
  BY InvRanges, CombinedMatches
<1> HIDE DEF rs, places, m
<1>2. Claims(rs) = Owned(Blame(places))
  BY <1>1, MatchingClaims
<1> QED BY <1>2 DEF rs, places

\* What the runs find no counterexample to, for any number of stacks, commits, hunks and
\* lines: taking the ranges of the stacks in the wrong order leaves two of them out of
\* order, so that combined ranges in order name exactly the lines of the workspace commit
\* that commits wrote and the places where they removed lines (combine_path_ranges).
THEOREM OrderIsRight ==
  ASSUME GixHeaders = FALSE, Stacks # 0 PROVE Spec => []OrderedMeansRight
BY CombinedRight, Invariance, PTL

\* So no worktree hunk that removes a line of a commit is missed.
LEMMA CombinedLocks == ASSUME Inv, Stacks # 0 PROVE LinesAreLocked
<1> SUFFICES ASSUME Ordered(Combine(ranges))
             PROVE  LinesLocked(Workspace(file), Combine(ranges))
  BY DEF LinesAreLocked
<1>1. Claims(Combine(ranges)) = Owned(Blame(Workspace(file)))
  BY CombinedRight DEF OrderedMeansRight, WorkspaceRangesAreBlame
<1>2. Combine(ranges) \in Seq(HunkRange)
  BY RangesGood, CombineTakesAll
<1>3. Workspace(file) \in Seq(Place)
  <2> DEFINE places == Workspace(file)
             m == WorkspaceAt(file, BaseLines + 1) - 1
  <2>1. FileOf(places, m)
    BY InvRanges, CombinedMatches
  <2> HIDE DEF places, m
  <2>2. places \in Seq(GoodPlace) /\ GoodPlace \subseteq Place
    BY <2>1 DEF FileOf, GoodPlace
  <2> QED BY <2>2 DEF places
<1>4. LocksRight(Workspace(file), Combine(ranges))
  BY <1>1, <1>2, <1>3, LocksFollowBlame
<1> QED BY <1>4 DEF LocksRight

\* With the headers the program passes, or any others, where commits put lines in the place
\* of lines and the file stays: the ranges of a stack are its blame, combined ranges in
\* order are the workspace's, and a worktree hunk that removes a line is then locked to the
\* commit that wrote it (PathRanges::add, combine_path_ranges, WorkspaceRanges::intersection).
\* Not so for insertions: HunkRangesHeaders is the counterexample.
THEOREM SubstitutionsLocked ==
  ASSUME 0 \notin OldLines \cup NewLines, Stacks # 0
  PROVE  Spec /\ [](\A s \in Stack : present[s]) =>
           [](RangesAreBlame /\ OrderedMeansRight /\ LinesAreLocked)
<1>1. Inv => RangesAreBlame /\ OrderedMeansRight /\ LinesAreLocked
  BY InvBlames, CombinedRight, CombinedLocks
<1>2. Spec /\ []AllPresent => []Inv
  BY SubstitutionInvariance DEF Substituting
<1> QED BY <1>1, <1>2, PTL DEF AllPresent

=============================================================================
