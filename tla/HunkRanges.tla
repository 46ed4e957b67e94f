----------------------------- MODULE HunkRanges -----------------------------
(***************************************************************************)
(* Which commits of the applied stacks own the lines of one file           *)
(* (but-hunk-dependency).  Per stack, the zero-context diff of each commit *)
(* is added to a sequence of ranges, the earlier ranges being trimmed,     *)
(* split and moved (PathRanges::add, HunkRange::receive); the sequences    *)
(* are then combined into one, in the line numbers of the workspace commit *)
(* (combine_path_ranges), and a worktree hunk is locked to the commits     *)
(* whose ranges it intersects (WorkspaceRanges::intersection).             *)
(*                                                                         *)
(* The reference is the file itself.  `file[s]` alternates gaps and lines, *)
(* and starts and ends with a gap; a line remembers the commit that wrote  *)
(* it or its number in the merge base, a gap the commit that removed lines *)
(* there.  Each commit changes the file and adds its diff to the ranges.   *)
(*                                                                         *)
(* u32 and i32 are Int here: starts are far from their limits, and TypeOK  *)
(* says that nothing goes below zero (the checked_ operations never fail). *)
(***************************************************************************)
EXTENDS Integers, Sequences, SequencesExt, FiniteSetsExt

CONSTANTS
    Stacks,      \* the number of stacks; a stack is its place in the workspace
    BaseLines,   \* lines of the file at the merge base
    MaxCommits,  \* bound on the commits, over all stacks
    MaxHunks,    \* bound on the hunks of all these commits
    OldLines,    \* the numbers of lines a hunk of a modification may replace
    NewLines,    \* the numbers of lines a hunk may bring
    GixHeaders   \* TRUE: hunk headers as but-core's diff makes them,
                 \* FALSE: as the comments and unit tests of this crate have them

ASSUME HunkRangesAssumption ==
    /\ Stacks \in Nat /\ BaseLines \in Nat
    /\ MaxCommits \in Nat /\ MaxHunks \in Nat
    /\ OldLines \subseteq Nat /\ NewLines \subseteq Nat
    /\ GixHeaders \in BOOLEAN

Stack == 1 .. Stacks
Base == 0                       \* "no commit": the line, or the gap, is the merge base's
Commit == 1 .. MaxCommits
ChangeKind == {"Addition", "Deletion", "Modification"}

VARIABLES
    file,      \* the places of the file at the tip of each stack
    present,   \* whether the file exists there
    ranges,    \* PathRanges::hunk_ranges of each stack
    commits,   \* how many commits were made
    hunks      \* how many hunks they had

vars == <<file, present, ranges, commits, hunks>>

-----------------------------------------------------------------------------
(* Hunks and ranges: unified diff coordinates, where `start` of an empty   *)
(* span is the line before it.                                             *)

\* get_top_bottom, and its inverse.
Top(start, lines) == IF lines = 0 THEN start ELSE start - 1
Bottom(start, lines) == Top(start, lines) + lines
StartOf(top, lines) == IF lines = 0 THEN top ELSE top + 1

Hunk == [oldStart : Nat, oldLines : Nat, newStart : Nat, newLines : Nat]
NetLines(h) == h.newLines - h.oldLines

HunkRange == [kind : ChangeKind, commit : Commit, start : Nat, lines : Nat, shift : Int]

\* set_top_bottom
SetTopBottom(r, top, bottom) ==
    [r EXCEPT !.lines = bottom - top, !.start = StartOf(top, bottom - top)]

\* i32 division rounds toward zero; b is positive.
Quotient(a, b) == IF a < 0 THEN -((-a) \div b) ELSE a \div b

\* A plausible slip: a range that begins below the hunk's top is trimmed too.
LeftAboveUnguarded(r, h) ==
    LET top == Top(r.start, r.lines)
        incomingTop == Top(h.oldStart, h.oldLines)
    IN  IF incomingTop < top + r.lines THEN <<SetTopBottom(r, top, incomingTop)>> ELSE <<r>>

\* What is left of `r` above and below the lines hunk `h` replaces, each a
\* sequence of at most one range with r's shift as it was.
LeftAbove(r, h) ==
    LET incomingTop == Top(h.oldStart, h.oldLines)
        top == Top(r.start, r.lines)
    IN  IF incomingTop <= top THEN <<>>
        ELSE IF incomingTop < top + r.lines THEN <<SetTopBottom(r, top, incomingTop)>>
        ELSE <<r>>

\* A plausible slip: a range the hunk falls into is only trimmed, not split.
LeftBelowUnsplit(r, h) ==
    LET incomingBottom == Bottom(h.oldStart, h.oldLines)
        bottom == Bottom(r.start, r.lines)
    IN  IF incomingBottom >= bottom \/ LeftAbove(r, h) # <<>> THEN <<>>
        ELSE IF incomingBottom > bottom - r.lines THEN <<SetTopBottom(r, incomingBottom, bottom)>>
        ELSE <<r>>

LeftBelow(r, h) ==
    LET incomingBottom == Bottom(h.oldStart, h.oldLines)
        bottom == Bottom(r.start, r.lines)
    IN  IF incomingBottom >= bottom THEN <<>>
        ELSE IF incomingBottom > bottom - r.lines THEN <<SetTopBottom(r, incomingBottom, bottom)>>
        ELSE <<r>>

LinesLeft(rest) == IF rest = <<>> THEN 0 ELSE rest[1].lines

WithShift(rest, shift) == IF rest = <<>> THEN <<>> ELSE <<[rest[1] EXCEPT !.shift = shift]>>

\* The part of the shift `net` of a split range that stays above.
ShareAbove(net, above, below) ==
    IF above + below = 0 THEN Quotient(net, 2) ELSE Quotient(net * above, above + below)

\* A plausible slip: the part below takes the whole shift as well.
ShiftBelowWhole(net, above, shareAbove) == net

ShiftBelow(net, above, shareAbove) == IF above = <<>> THEN net ELSE net - shareAbove

\* The shift of `r` divided among what is left of it above and below the
\* incoming hunk, and that hunk (`change`).
DivideShift(r, above, below) ==
    LET deduct == r.lines - (LinesLeft(above) + LinesLeft(below))
        net == r.shift - deduct
        shareAbove == IF below = <<>> THEN net
                      ELSE ShareAbove(net, LinesLeft(above), LinesLeft(below))
    IN  [above  |-> WithShift(above, shareAbove),
         below  |-> WithShift(below, ShiftBelow(net, above, shareAbove)),
         change |-> IF above = <<>> /\ below = <<>> THEN r.shift ELSE deduct]

\* HunkRange::receive
Receive(r, h) == DivideShift(r, LeftAbove(r, h), LeftBelow(r, h))

-----------------------------------------------------------------------------
(* PathRanges::add *)

MoveBy(r, shift) == [r EXCEPT !.start = @ + shift]
Moved(rs, shift) == [i \in DOMAIN rs |-> MoveBy(rs[i], shift)]

\* What a range and those before it give to hunk h: their parts above it, and
\* what it takes over of their shifts.
ReceiveStep(r, h, before) ==
    LET got == Receive(r, h)
    IN  [above |-> before.above \o got.above, change |-> before.change + got.change]

ReceiveWalk(rs, h) ==
    LET walk[i \in 0 .. Len(rs)] ==
            IF i = 0 THEN [above |-> <<>>, change |-> 0] ELSE ReceiveStep(rs[i], h, walk[i - 1])
    IN  walk

\* Ranges are passed until one has a part below the hunk, which is put back.
Passed(rs, h) ==
    LET reaching == {i \in DOMAIN rs : Receive(rs[i], h).below # <<>>}
    IN  IF reaching = {} THEN Len(rs) ELSE Min(reaching)

\* One incoming hunk.  `acc.rest` is the iterator over the ranges not passed
\* yet, `acc.out` the ranges pushed, `acc.shift` the net lines of the hunks before.
AddHunk(acc, h, kind, c) ==
    LET last == Passed(acc.rest, h)
        got == ReceiveWalk(acc.rest, h)[last]
        own == [kind |-> kind, commit |-> c, start |-> h.newStart, lines |-> h.newLines,
                shift |-> NetLines(h) + got.change]
    IN  [out   |-> Append(acc.out \o Moved(got.above, acc.shift), own),
         rest  |-> (IF last = 0 THEN <<>> ELSE Receive(acc.rest[last], h).below)
                       \o SubSeq(acc.rest, last + 1, Len(acc.rest)),
         shift |-> acc.shift + NetLines(h)]

AddWalk(rs, kind, c, diff) ==
    LET walk[k \in 0 .. Len(diff)] ==
            IF k = 0 THEN [out |-> <<>>, rest |-> rs, shift |-> 0]
            ELSE AddHunk(walk[k - 1], diff[k], kind, c)
    IN  walk

\* The ranges after the last hunk move by all of the commit's net lines.
Add(rs, kind, c, diff) ==
    LET end == AddWalk(rs, kind, c, diff)[Len(diff)]
    IN  end.out \o Moved(end.rest, end.shift)

-----------------------------------------------------------------------------
(* combine_path_ranges *)

\* The sums of the first numbers of a sequence.
Sums(numbers) ==
    LET sum[i \in 0 .. Len(numbers)] == IF i = 0 THEN 0 ELSE sum[i - 1] + numbers[i]
    IN  sum

SumOf(numbers) == Sums(numbers)[Len(numbers)]

\* The stack whose next range has the least start in the stack's own line
\* numbers (the code compares twice the start), the first of equals.
NextStack(next, byStack) ==
    LET open == {s \in DOMAIN byStack : next[s] <= Len(byStack[s])}
        key == [s \in open |-> byStack[s][next[s]].start + byStack[s][next[s]].start]
    IN  Min({s \in open : \A t \in open : key[s] <= key[t]})

\* A plausible slip: the shift goes to the range's own stack too.
CombineMovingOwn(acc, byStack) ==
    LET s == NextStack(acc.next, byStack)
        r == byStack[s][acc.next[s]]
    IN  [out   |-> Append(acc.out, [r EXCEPT !.start = Max({0, @ + acc.moved[s]})]),
         next  |-> [acc.next EXCEPT ![s] = @ + 1],
         moved |-> [t \in DOMAIN byStack |-> acc.moved[t] + r.shift]]

\* One turn of the loop.  `acc.next` and `acc.moved` are hunk_indexes and
\* line_shifts; the shift of the range taken is added to all stacks but its own.
CombineNext(acc, byStack) ==
    LET s == NextStack(acc.next, byStack)
        r == byStack[s][acc.next[s]]
    IN  [out   |-> Append(acc.out, [r EXCEPT !.start = Max({0, @ + acc.moved[s]})]),
         next  |-> [acc.next EXCEPT ![s] = @ + 1],
         moved |-> [t \in DOMAIN byStack |-> acc.moved[t] + (IF t = s THEN 0 ELSE r.shift)]]

RangeCount(byStack) == SumOf([s \in Stack |-> Len(byStack[s])])

CombineWalk(byStack) ==
    LET walk[k \in 0 .. RangeCount(byStack)] ==
            IF k = 0 THEN [out |-> <<>>, next |-> [s \in Stack |-> 1], moved |-> [s \in Stack |-> 0]]
            ELSE CombineNext(walk[k - 1], byStack)
    IN  walk

Combine(byStack) == CombineWalk(byStack)[RangeCount(byStack)].out

-----------------------------------------------------------------------------
(* WorkspaceRanges::intersection *)

\* A plausible slip: ranges that only share their last line are taken to be apart.
IntersectsShort(r, start, lines) ==
    \/ r.kind = "Deletion"
    \/ lines = 0 /\ r.start <= start /\ start < r.start + r.lines
    \/ lines > 0 /\ r.start < start + lines - 1 /\ start < r.start + r.lines - 1

\* HunkRange::intersects, as its callers use it: the subtraction that fails (a
\* point at the top of the file, whose start + lines is zero) counts as FALSE.
Intersects(r, start, lines) ==
    IF r.kind = "Deletion" THEN TRUE
    ELSE IF start = 0 /\ lines = 0 THEN FALSE
    ELSE IF lines = 0 THEN r.start <= start /\ start < r.start + r.lines
    ELSE /\ r.start + r.lines > 0
         /\ r.start <= start + lines - 1
         /\ start <= IF r.lines > 0 THEN r.start + r.lines - 1
                     ELSE IF r.shift < 0 THEN r.start - r.shift - 1
                     ELSE r.start

\* HunkRange::intersects_or_adjacent
IntersectsOrAdjacent(r, start, lines) ==
    \/ r.kind = "Deletion"
    \/ LET first == start
           last == IF lines = 0 THEN start ELSE start + lines - 1
           end == IF r.lines > 0 THEN r.start + r.lines - 1
                  ELSE IF r.shift < 0 /\ lines > 0 THEN r.start - r.shift - 1
                  ELSE r.start
       IN  r.start <= last + 1 /\ first <= end + 1

\* The commits a worktree hunk that replaces `lines` lines at `start` is locked
\* to.  `reorders` stands for hunk_suggests_boundary_insertion, which reads the
\* text of the hunk.
Locks(rs, start, lines, reorders) ==
    {r.commit : r \in {r \in ToSet(rs) :
        \/ r.kind # "Modification"
        \/ Intersects(r, start, lines)
        \/ /\ IntersectsOrAdjacent(r, start, lines)
           /\ (lines = 0 /\ r.lines = 0) \/ (lines > 0 /\ reorders)}}

-----------------------------------------------------------------------------
(* The file *)

Place == [line : BOOLEAN, commit : Commit \cup {Base}, base : 0 .. BaseLines]

Gap(c) == [line |-> FALSE, commit |-> c, base |-> 0]
Written(c) == [line |-> TRUE, commit |-> c, base |-> 0]
FromBase(k) == [line |-> TRUE, commit |-> Base, base |-> k]

LineCount(places) == Len(places) \div 2
LineAt(places, n) == places[2 * n]
GapAfter(places, n) == places[2 * n + 1]

\* `n` lines of commit c and the gaps around them; no lines leave a gap of c's.
Brought(n, c) ==
    IF n = 0 THEN <<Gap(c)>>
    ELSE [i \in 1 .. 2 * n + 1 |-> IF i % 2 = 1 THEN Gap(Base) ELSE Written(c)]

\* An edit replaces `old` lines after line `top` by `new` others.
Edit(count) ==
    {e \in [top : 0 .. count, old : OldLines, new : NewLines] :
        e.top + e.old <= count /\ e.old + e.new > 0}

Patched(places, e, c) ==
    SubSeq(places, 1, 2 * e.top) \o Brought(e.new, c)
        \o SubSeq(places, 2 * (e.top + e.old) + 2, Len(places))

\* The start a header gives to a span: gix counts from one whether or not the
\* span is empty ("@@ -6,0 +6,1 @@" inserts after line 5).
HeaderStart(top, lines) == IF GixHeaders THEN top + 1 ELSE StartOf(top, lines)

\* How far the first k edits move the lines after them.
Shifts(edits) ==
    LET walk[k \in 0 .. Len(edits)] ==
            IF k = 0 THEN 0 ELSE walk[k - 1] + edits[k].new - edits[k].old
    IN  walk

\* The diff: each hunk's new lines are moved by the net lines of those before.
Diff(edits) ==
    [k \in DOMAIN edits |->
        LET e == edits[k]
        IN  [oldStart |-> HeaderStart(e.top, e.old), oldLines |-> e.old,
             newStart |-> HeaderStart(e.top + Shifts(edits)[k - 1], e.new), newLines |-> e.new]]

\* The file after the first k edits.
PatchWalk(places, edits, c) ==
    LET walk[k \in 0 .. Len(edits)] ==
            IF k = 0 THEN places
            ELSE Patched(walk[k - 1], [edits[k] EXCEPT !.top = @ + Shifts(edits)[k - 1]], c)
    IN  walk

\* The lines of the merge base a file still has.
KeptLines(places) == {LineAt(places, n).base : n \in 1 .. LineCount(places)} \ {0}

\* The places between base line k, or the top of the file, and the next base line.
After(places, k) ==
    LET at == IF k = 0 THEN 0 ELSE CHOOSE n \in DOMAIN places : places[n].base = k
        next == {n \in at + 1 .. Len(places) : places[n].base # 0}
    IN  SubSeq(places, at + 1, IF next = {} THEN Len(places) ELSE Min(next) - 1)

\* The gaps of the merge base at which a file is no longer as it was.
Changed(places) ==
    LET kept == KeptLines(places)
    IN  {k \in 0 .. BaseLines : \/ k > 0 /\ k \notin kept
                                \/ k < BaseLines /\ k + 1 \notin kept
                                \/ k \in kept \cup {0} /\ After(places, k) # <<Gap(Base)>>}

\* "These per branch changes are assumed and required to be independent without
\* overlap": a line that no stack changed is between the changes of two stacks.
Independent(files) ==
    \A s, t \in Stack : s # t => Changed(files[s]) \cap Changed(files[t]) = {}

\* The file in the workspace commit, the merge of independent stacks: what
\* follows a base line that all keep is what the stack that changed it says.
Workspace(files) ==
    LET Kept(k) == \A s \in Stack : k \in KeptLines(files[s])
        By(k) == {s \in Stack : k \in Changed(files[s])}
        Part(k) == LET s == IF By(k) = {} THEN 1 ELSE CHOOSE s \in By(k) : TRUE
                   IN  After(files[s], k)
    IN  FlattenSeq([i \in 1 .. BaseLines + 1 |->
            IF i = 1 THEN Part(0)
            ELSE IF Kept(i - 1) THEN <<FromBase(i - 1)>> \o Part(i - 1)
            ELSE <<>>])

-----------------------------------------------------------------------------

Init ==
    /\ file = [s \in Stack |-> [i \in 1 .. 2 * BaseLines + 1 |->
                   IF i % 2 = 1 THEN Gap(Base) ELSE FromBase(i \div 2)]]
    /\ present = [s \in Stack |-> TRUE]
    /\ ranges = [s \in Stack |-> <<>>]
    /\ commits = 0
    /\ hunks = 0

\* A commit on stack s that makes these changes to the file, and its part of
\* WorkspaceRanges::try_from_stacks.
CommitEdits(s, kind, edits) ==
    LET c == commits + 1
        changed == [file EXCEPT ![s] = PatchWalk(@, edits, c)[Len(edits)]]
    IN  /\ commits < MaxCommits
        /\ hunks + Len(edits) <= MaxHunks
        /\ Independent(changed)
        /\ file' = changed
        /\ ranges' = [ranges EXCEPT ![s] = Add(@, kind, c, Diff(edits))]
        /\ present' = [present EXCEPT ![s] = (kind # "Deletion")]
        /\ commits' = c
        /\ hunks' = hunks + Len(edits)

\* A modification, in one hunk or two: the diff has no context, so two hunks
\* have an unchanged line between them.
Modify(s) ==
    /\ present[s] /\ commits < MaxCommits
    /\ LET edits == Edit(LineCount(file[s]))
       IN  \/ \E e \in edits : CommitEdits(s, "Modification", <<e>>)
           \/ /\ hunks + 2 <= MaxHunks
              /\ \E e, f \in edits :
                     e.top + e.old < f.top /\ CommitEdits(s, "Modification", <<e, f>>)

\* The diff of an empty file has no hunk.
Whole(old, new) == IF old + new = 0 THEN <<>> ELSE <<[top |-> 0, old |-> old, new |-> new]>>

Delete(s) ==
    /\ present[s]
    /\ CommitEdits(s, "Deletion", Whole(LineCount(file[s]), 0))

Create(s) ==
    /\ ~present[s]
    /\ \E n \in NewLines : CommitEdits(s, "Addition", Whole(0, n))

Next == \E s \in Stack : Modify(s) \/ Delete(s) \/ Create(s)

Spec == Init /\ [][Next]_vars

-----------------------------------------------------------------------------
(* What should hold *)

\* Types: in particular no checked subtraction or addition of `add` and
\* `receive` fails, so no commit is reported as a CalculationError.
TypeOK ==
    /\ file \in [Stack -> Seq(Place)]
    /\ present \in [Stack -> BOOLEAN]
    /\ ranges \in [Stack -> Seq(HunkRange)]
    /\ commits \in 0 .. MaxCommits
    /\ hunks \in 0 .. MaxHunks

\* What a sequence of ranges says, and what the file says: which commit wrote
\* line n, and which removed the lines after line n.
Claims(rs) ==
    UNION {IF r.lines = 0 THEN {<<"after", r.start, r.commit>>}
           ELSE {<<"line", n, r.commit>> : n \in r.start .. r.start + r.lines - 1}
           : r \in ToSet(rs)}

Blame(places) ==
    {<<"line", n, LineAt(places, n).commit>> : n \in 1 .. LineCount(places)}
        \cup {<<"after", n, GapAfter(places, n).commit>> : n \in 0 .. LineCount(places)}

Owned(claims) == {claim \in claims : claim[3] # Base}

\* The ranges of a stack name exactly the lines its commits wrote, and the
\* places where they removed lines, in the line numbers of the stack's tip
\* ("blame-like functionality for looking up what commit(s) have touched a
\* specific line"), however the later hunks trimmed, split and moved them.
RangesAreBlame == \A s \in Stack : Claims(ranges[s]) = Owned(Blame(file[s]))

\* In order, and disjoint.
Ordered(rs) ==
    \A i \in 1 .. Len(rs) - 1 : Bottom(rs[i].start, rs[i].lines) <= Top(rs[i + 1].start, rs[i + 1].lines)

\* However `receive` divides them, the shifts of the ranges above a line of the
\* merge base add up to how far that line has moved, and all of them to how
\* much the file has grown: this is what combine_path_ranges moves the ranges
\* of the other stacks by.
ShiftsAddUp ==
    \A s \in Stack :
        LET rs == ranges[s]
            places == file[s]
            Above(n) == SumOf([i \in DOMAIN rs |-> IF rs[i].start < n THEN rs[i].shift ELSE 0])
            count == LineCount(places)
        IN  /\ Ordered(rs)
            /\ Above(count + 2) = count - BaseLines
            /\ \A n \in 1 .. count : LineAt(places, n).base # 0 => Above(n) = n - LineAt(places, n).base

\* The same for all stacks: the combined ranges name the lines of the workspace
\* commit ("line numbers that should match the workspace commit").
WorkspaceRangesAreBlame == Claims(Combine(ranges)) = Owned(Blame(Workspace(file)))

\* The lines alone, whatever is said of the places where lines were removed.
WorkspaceLinesAreBlame ==
    LET Lines(claims) == {claim \in claims : claim[1] = "line"}
    IN  Lines(Claims(Combine(ranges))) = Lines(Owned(Blame(Workspace(file))))

\* Combined ranges that come out in order are right: taking the stacks' ranges
\* in the wrong order always leaves two of them overlapping or out of order.
OrderedMeansRight == Ordered(Combine(ranges)) => WorkspaceRangesAreBlame

\* A worktree hunk that removes a line is locked to the commit that wrote it.
LinesLocked(places, rs) ==
    \A start, end \in 1 .. LineCount(places) : start <= end =>
        \A n \in start .. end :
            LineAt(places, n).commit # Base =>
                LineAt(places, n).commit \in Locks(rs, start, end + 1 - start, FALSE)

\* "A hunk is locked when it depends on changes in commits that are in your
\* workspace": unless combining took ranges in the wrong order, no worktree hunk
\* that removes a line of a commit is missed, however the ranges were trimmed,
\* split, moved and combined on the way (WorkspaceRanges::intersection).  It holds
\* with the headers the crate documents; with those the program passes, it holds
\* where commits substitute lines and fails where they insert some.
LinesAreLocked == Ordered(Combine(ranges)) => LinesLocked(Workspace(file), Combine(ranges))

=============================================================================
