------------------------------ MODULE CueRepair ------------------------------
(***************************************************************************)
(* How a downloaded subtitle is repaired without being written anew        *)
(* (internal/subtitleorder/order.go, internal/pack/repair.go): the parsed  *)
(* cues are given edits, then the raw records of the file are moved,       *)
(* retimed or dropped.  The file's lines are kinds, not characters: a      *)
(* timing line with its start, a number, a line of text, a blank line; an  *)
(* ASS event is a timing line that holds its text.                         *)
(* Two inputs are enumerated: the text of a file, for the moving of its    *)
(* records, and the times of its cues, for the plan.                       *)
(*                                                                         *)
(* Unclosed italics, byte order marks, line endings and the writing of a   *)
(* time into a record are not modelled.                                    *)
(***************************************************************************)
EXTENDS Integers, Sequences, FiniteSets, SequencesExt

CONSTANTS Files,      \* the subtitle files tried: format and lines
          CueLists,   \* the lists of cues tried
          ReadingTime \* text -> half seconds (readingTime)

VARIABLES file, output, cues, plan

cueVars == <<file, output, cues, plan>>

Blank(l) == l.k = "blank"
Timing(l) == l.k = "time"                                \* isTimingLine
TimingLines(lines) == SetToSortSeq({i \in DOMAIN lines : Timing(lines[i])}, <)

-----------------------------------------------------------------------------
(* What astisub reads, external: the cues with their text.                  *)

Shown(format, lines, from, to, last) ==
    {i \in (from + 1)..to :
        /\ ~Blank(lines[i])
        /\ IF format = "vtt" THEN \A j \in (from + 1)..i : ~Blank(lines[j])
           ELSE last \/ i # to}

Parsed(format, lines) ==
    LET ts == TimingLines(lines)
    IN  [c \in DOMAIN ts |->
           LET last == c = Len(ts)
               shown == Shown(format, lines, ts[c], IF last THEN Len(lines) ELSE ts[c + 1] - 1, last)
           IN  [start |-> lines[ts[c]].start,
                text |-> IF format = "ass" THEN SelectSeq(<<lines[ts[c]].says>>, LAMBDA x : x # 0)
                         ELSE [n \in 1..Cardinality(shown) |-> lines[SetToSortSeq(shown, <)[n]]]]]

-----------------------------------------------------------------------------
(* subtitleorder.Repair.                                                    *)

Separated(lines, i) == i = 1 \/ Blank(lines[i - 1])

\* The first line of each cue: an SRT timing line's non-blank neighbour is its
\* index, a WebVTT one's an identifier when a blank line comes before it.
BlockStart(format, lines, ts, c) ==
    LET previous == IF c = 1 THEN 0 ELSE ts[c - 1]
        i == ts[c] - 1
    IN  IF i > previous /\ ~Blank(lines[i])
             /\ (format = "srt" \/ (i - 1 > previous /\ Separated(lines, i)))
        THEN i ELSE ts[c]

\* Mutant: every index line is believed.
NeverAmbiguous(format, lines, ts) == FALSE

\* An SRT index line that is surely text.
AmbiguousIndex(format, lines, ts) ==
    /\ format = "srt"
    /\ \E c \in DOMAIN ts :
         LET i == ts[c] - 1 IN
         /\ BlockStart(format, lines, ts, c) = i /\ ~Separated(lines, i)
         /\ lines[i].k # "num" \/ Timing(lines[i - 1])

\* cueBlocks: where each cue starts, and ends.  A blank line ends a WebVTT cue.
CueBlocks(format, lines) ==
    LET ts == TimingLines(lines)
        Limit(c) == IF c = Len(ts) THEN Len(lines) + 1 ELSE BlockStart(format, lines, ts, c + 1)
        Text(c) == {i \in (ts[c] + 1)..(Limit(c) - 1) :
                      ~Blank(lines[i]) /\ (format = "vtt" => \A j \in (ts[c] + 1)..i : ~Blank(lines[j]))}
        End(c) == IF Text(c) = {} THEN ts[c] ELSE CHOOSE i \in Text(c) : \A j \in Text(c) : j <= i
    IN  [c \in DOMAIN ts |-> [start |-> BlockStart(format, lines, ts, c), timing |-> ts[c], end |-> End(c)]]

\* Mutant: cues that start together may change places.
LastInFileFirst(cs) ==
    SetToSortSeq({i \in DOMAIN cs : ~cs[i].drop},
                 LAMBDA i, j : cs[i].start < cs[j].start \/ (cs[i].start = cs[j].start /\ i > j))

\* keptInStartOrder.
KeptInStartOrder(cs) ==
    SetToSortSeq({i \in DOMAIN cs : ~cs[i].drop},
                 LAMBDA i, j : cs[i].start < cs[j].start \/ (cs[i].start = cs[j].start /\ i < j))

\* cueLines, with a new number in the place of an SRT index.
CueLines(format, lines, b) ==
    LET record == SelectSeq(SubSeq(lines, b.start, b.end), LAMBDA l : ~Blank(l))
    IN  IF format = "srt" /\ b.start < b.timing THEN [record EXCEPT ![1] = [k |-> "num"]] ELSE record

\* The records in start order, each in the place of one; what lies between two
\* cues stays, and a blank line is put where there is none.
Rewritten(format, lines, order) ==
    LET blocks == CueBlocks(format, lines)
        Gap(i) == SubSeq(lines, blocks[i - 1].end + 1, blocks[i].start - 1)
        Place(i) == (IF i = 1 THEN SubSeq(lines, 1, blocks[1].start - 1)
                     ELSE IF Gap(i) = <<>> THEN <<[k |-> "blank"]>> ELSE Gap(i))
                    \o CueLines(format, lines, blocks[order[i]])
    IN  IF order = <<>> THEN SubSeq(lines, 1, blocks[1].start - 1)
        ELSE FlattenSeq([i \in DOMAIN order |-> Place(i)])
             \o SubSeq(lines, blocks[Len(blocks)].end + 1, Len(lines))

\* repairDialogue: in ASS and SSA every event is one line; those that are not
\* Dialogue stay where they are.
RewrittenDialogue(lines, order) ==
    LET ts == TimingLines(lines)
        Moved(i) == CHOOSE c \in DOMAIN ts : ts[c] = i
        keep == {i \in DOMAIN lines : Timing(lines[i]) => Moved(i) <= Len(order)}
        kept == SetToSortSeq(keep, <)
    IN  [n \in DOMAIN kept |->
           IF Timing(lines[kept[n]]) THEN lines[ts[order[Moved(kept[n])]]] ELSE lines[kept[n]]]

Unsafe == <<[k |-> "unsafe"]>>

\* repair.  Cues without text are dropped; a file in order is left alone.
Repair(format, lines) ==
    LET parsed == Parsed(format, lines)
        cs == [c \in DOMAIN parsed |->
                 [start |-> parsed[c].start, drop |-> parsed[c].text = <<>>]]
        sorted == \A c \in 1..(Len(cs) - 1) : cs[c].start <= cs[c + 1].start
    IN  IF sorted /\ \A c \in DOMAIN cs : ~cs[c].drop THEN lines
        ELSE IF format = "ass" THEN RewrittenDialogue(lines, KeptInStartOrder(cs))
        ELSE IF AmbiguousIndex(format, lines, TimingLines(lines)) THEN Unsafe
        ELSE Rewritten(format, lines, KeptInStartOrder(cs))

-----------------------------------------------------------------------------
(* planRepairs, for SRT and WebVTT.  Times are half seconds.                *)

TypoDisorder == 20
MistypedEnd == 30
Larger(a, b) == IF a > b THEN a ELSE b

\* Cues without text and repeats of an earlier cue go.
Dropped(cs, i) ==
    \/ cs[i].text = ""
    \/ \E j \in 1..(i - 1) : cs[j].start = cs[i].start /\ cs[j].end = cs[i].end /\ cs[j].text = cs[i].text

\* Mutant: any cue whose end continues the sequence has a mistyped start.
TypoWhateverItsLength(c, latest, end) ==
    /\ c.start < latest - TypoDisorder
    /\ latest <= c.end /\ c.end <= latest + TypoDisorder

\* A start well before the furthest one, although the end goes on from there.
MistypedStart(c, latest, end) ==
    /\ c.start < latest - TypoDisorder
    /\ latest <= c.end /\ c.end <= latest + TypoDisorder
    /\ end < c.end /\ c.end - end >= ReadingTime[c.text]

\* One cue of the first pass: p has the starts of the cues before it, and the
\* cue with the furthest start so far.
WithStart(cs, p, i) ==
    LET c == cs[i]
        typo == p.leader > 0 /\ MistypedStart(c, p.start[p.leader], cs[p.leader].end)
        start == IF typo THEN cs[p.leader].end ELSE c.start
    IN  IF Dropped(cs, i) THEN [start |-> Append(p.start, c.start), leader |-> p.leader]
        ELSE [start |-> Append(p.start, start),
              leader |-> IF p.leader = 0 \/ start >= p.start[p.leader] THEN i ELSE p.leader]

Starts(cs) ==
    LET pass[i \in 0..Len(cs)] ==
          IF i = 0 THEN [start |-> <<>>, leader |-> 0] ELSE WithStart(cs, pass[i - 1], i)
    IN  pass[Len(cs)].start

\* The second pass: an end before the start, or far past the next cue.
RepairedEnd(c, start, later) ==
    LET next == CHOOSE t \in later : \A u \in later : t <= u
        reading == ReadingTime[c.text]
    IN  IF c.end < start
          THEN IF later # {} /\ next < start + reading THEN Larger(next, start + 1) ELSE start + reading
        ELSE IF /\ later # {} /\ c.end > next + TypoDisorder
                /\ c.end - start > 3 * reading /\ c.end - start > MistypedEnd
                /\ ~c.held
          THEN Larger(next, start + reading)
        ELSE c.end

\* overlapShare > maximumMergedOverlap: two subtitles in one file.
Merged(cs) ==
    LET kept == {i \in DOMAIN cs : ~cs[i].drop}
        Span(i) == cs[i].start..(cs[i].end - 1)
        covered == UNION {Span(i) : i \in kept}
        twice == {t \in covered : \E i, j \in kept : i # j /\ t \in Span(i) /\ t \in Span(j)}
    IN  4 * Cardinality(twice) > Cardinality(covered)

Planned(cs) ==
    LET starts == Starts(cs)
        kept == {i \in DOMAIN cs : ~Dropped(cs, i)}
        Later(i) == {starts[j] : j \in {k \in kept : starts[k] > starts[i]}}
    IN  [i \in DOMAIN cs |->
           [start |-> starts[i],
            end |-> IF i \in kept THEN RepairedEnd(cs[i], starts[i], Later(i)) ELSE cs[i].end,
            drop |-> i \notin kept]]

PlanRepairs(cs) == IF Merged(Planned(cs)) THEN <<>> ELSE Planned(cs)

-----------------------------------------------------------------------------
NoFile == [format |-> "none", lines |-> <<>>]

Init ==
    /\ \/ file \in Files /\ cues = <<>>
       \/ file = NoFile /\ cues \in CueLists
    /\ output = <<>> /\ plan = <<>>

Rewrite ==
    /\ output = <<>> /\ file.lines # <<>>
    /\ output' = Repair(file.format, file.lines)
    /\ UNCHANGED <<file, cues, plan>>

Plan ==
    /\ plan = <<>> /\ cues # <<>>
    /\ PlanRepairs(cues) # <<>>
    /\ plan' = PlanRepairs(cues)
    /\ UNCHANGED <<file, output, cues>>

Next == Rewrite \/ Plan

-----------------------------------------------------------------------------
\* A file that was rewritten shows what it showed before: every cue with text,
\* its own text under its own time, in start order and, for equal starts, in
\* the file's order (Repair's promise; blank lines inside a cue, missing
\* indexes and missing blank lines included).
SameCues ==
    output \notin {<<>>, Unsafe} =>
        LET parsed == Parsed(file.format, file.lines)
            Before(i, j) == parsed[i].start < parsed[j].start
                             \/ (parsed[i].start = parsed[j].start /\ i < j)
            order == SetToSortSeq({i \in DOMAIN parsed : parsed[i].text # <<>>}, Before)
        IN  Parsed(file.format, output) = [n \in DOMAIN order |-> parsed[order[n]]]

\* No line of an SRT file that is surely text is lost in the rewriting, taken
\* for an index: one that is not a number and follows another line (ambiguous).
NoTextLost ==
    output \notin {<<>>, Unsafe} /\ file.format = "srt" =>
        \A i \in DOMAIN file.lines :
            file.lines[i].k = "text" /\ ~Separated(file.lines, i)
              => \E j \in DOMAIN output : output[j] = file.lines[i]

\* After the plan no cue ends before it starts; a cue that was given a new
\* start lasts at least its reading time, and, in a file where no cue ends
\* before it starts, did not move back (planRepairs).
PlanSane ==
    \A i \in DOMAIN plan : ~plan[i].drop =>
        /\ plan[i].start <= plan[i].end
        /\ plan[i].start # cues[i].start =>
             /\ plan[i].end - plan[i].start >= ReadingTime[cues[i].text]
             /\ (\A j \in DOMAIN cues : cues[j].start <= cues[j].end) => plan[i].start > cues[i].start

\* A repaired subtitle says what it said, at times that make sense
\* (subtitleorder.Repair, planRepairs).
RepairSafe == SameCues /\ NoTextLost /\ PlanSane
=============================================================================
