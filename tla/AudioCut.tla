--------------------------------- MODULE AudioCut ---------------------------------
(***************************************************************************)
(* What is cut out of the audio before it is transcribed                   *)
(* (detect_vocalizations, preprocess_audio): long silences, noises a model *)
(* has found twice not to be speech, and what a voice detector leaves out; *)
(* and the timeline that leads from the shortened audio back.              *)
(*                                                                         *)
(* Time is counted in units of the original audio.  The detectors are      *)
(* external: whatever they may report is an input.                         *)
(***************************************************************************)
EXTENDS Timing, SequencesExt

CONSTANTS
    Length,         \* of the audio
    Silent,         \* minimum: the silences worth cutting
    Padding,        \* of a silence that stays at either end
    Edge,           \* guard of a noise that stays at either end
    Guard,          \* kept around speech
    Shortest,       \* noises worth cutting
    Longest,
    MaxFindings     \* bound: events, silences and stretches without a voice in all

\* A video has a duration (probe); a silence worth cutting is longer than its ends.
ASSUME AudioScale ==
    /\ {Length, Shortest} \subseteq Nat \ {0}
    /\ {Silent, Padding, Edge, Guard, Longest, MaxFindings} \subseteq Nat
    /\ Silent > 2 * Padding

VARIABLES
    cutting,    \* stage: "detect", "confirm", "cut" or "done"
    speech,     \* intervals reported as speech, uncertain or not certain
    noises,     \* intervals reported as certain breath or grunt
    confirmed,  \* noises, less their edges, confirmed as safe to remove
    protected,  \* what speaks against a removal
    silences,   \* what silencedetect reports
    quiet,      \* stretches without a voice
    filter,     \* audio_filter is not off
    voice,      \* vad_mode is not off
    kept,       \* the intervals that are kept, in order
    spans       \* the timeline

cutVars == <<cutting, speech, noises, confirmed, protected, silences, quiet, filter, voice, kept, spans>>

-------------------------------------------------------------------------------
Interval == {i \in (0 .. Length) \X (0 .. Length) : i[1] < i[2]}

\* The sets of at most n intervals.
UpTo(n) == UNION {{ToSet(f) : f \in [1 .. k -> Interval]} : k \in 0 .. n}

Overlap(i, k) == i[1] < k[2] /\ k[1] < i[2]
Meet(i, k) == <<UpperOf(i[1], k[1]), LowerOf(i[2], k[2])>>
Widened(i, g) == <<UpperOf(0, i[1] - g), LowerOf(Length, i[2] + g)>>
Narrowed(i, g) == <<i[1] + g, i[2] - g>>

\* What is left of the audio between the cuts; each step leaves one out.
LeaveOut(acc, c) ==
    [left |-> IF c[1] > acc.at THEN Append(acc.left, <<acc.at, c[1]>>) ELSE acc.left,
     at |-> UpperOf(acc.at, c[2])]

Between(cuts) ==
    LET upTo[k \in 0 .. Len(cuts)] == IF k = 0 THEN [left |-> <<>>, at |-> 0] ELSE LeaveOut(upTo[k - 1], cuts[k])
        all == upTo[Len(cuts)]
    IN  IF all.at < Length THEN Append(all.left, <<all.at, Length>>) ELSE all.left

\* kept_intervals and retained_intervals: a long enough stretch is cut, less its
\* ends.  (What is left lies further apart than the gap the latter would close.)
WithoutLong(S, minimum) == Between(InOrder({Narrowed(s, Padding) : s \in {s \in S : s[2] - s[1] >= minimum}}))

\* Intervals that touch become one.
Join(acc, i) ==
    IF acc # <<>> /\ i[1] <= Last(acc)[2] THEN [acc EXCEPT ![Len(acc)] = <<@[1], UpperOf(@[2], i[2])>>]
    ELSE Append(acc, i)

Merged(seq) ==
    LET upTo[k \in 0 .. Len(seq)] == IF k = 0 THEN <<>> ELSE Join(upTo[k - 1], seq[k])
    IN  upTo[Len(seq)]

Protect(intervals, S) == Merged(InOrder(ToSet(intervals) \cup {Widened(p, Guard) : p \in S}))

\* One that meets what is protected is withdrawn as a whole.
Exclude(S, P) == {r \in S : ~\E p \in ToSet(Protect(<<>>, P)) : Overlap(r, p)}

\* subtract_intervals: all cuts are in the clock of the original.
CutFrom(i, acc, c) ==
    IF c[2] <= acc.at \/ c[1] >= i[2] THEN acc
    ELSE [left |-> IF c[1] > acc.at THEN Append(acc.left, <<acc.at, LowerOf(c[1], i[2])>>) ELSE acc.left,
          at |-> LowerOf(i[2], UpperOf(acc.at, c[2]))]

Pieces(i, cuts) ==
    LET upTo[k \in 0 .. Len(cuts)] == IF k = 0 THEN [left |-> <<>>, at |-> i[1]] ELSE CutFrom(i, upTo[k - 1], cuts[k])
        all == upTo[Len(cuts)]
    IN  IF all.at < i[2] THEN Append(all.left, <<all.at, i[2]>>) ELSE all.left

Subtract(intervals, S) ==
    LET upTo[k \in 0 .. Len(intervals)] ==
            IF k = 0 THEN <<>> ELSE upTo[k - 1] \o Pieces(intervals[k], InOrder(S))
    IN  upTo[Len(intervals)]

\* With the voice detector, what both keep.
Common(intervals, voiced) ==
    InOrder({Meet(p[1], p[2]) : p \in {p \in ToSet(intervals) \X ToSet(voiced) : Overlap(p[1], p[2])}})

\* build_timeline_from_kept_intervals: from .. to of the shortened audio is
\* start .. end of the original.
Timeline(intervals) ==
    LET cursor[k \in 0 .. Len(intervals)] ==
            IF k = 0 THEN 0 ELSE cursor[k - 1] + intervals[k][2] - intervals[k][1]
    IN  [k \in DOMAIN intervals |-> [from |-> cursor[k - 1], to |-> cursor[k],
                                     start |-> intervals[k][1], end |-> intervals[k][2]]]

-------------------------------------------------------------------------------
(***************************************************************************)
(* The stages                                                              *)
(***************************************************************************)
\* A noise near speech is no candidate; the others lose their edges.
Candidates ==
    {Narrowed(n, Edge) : n \in {n \in noises :
        /\ \A s \in speech : ~Overlap(n, <<s[1] - Edge, s[2] + Edge>>)
        /\ n[2] - n[1] - 2 * Edge \in Shortest .. Longest}}

DetectVocalizations ==
    /\ cutting = "detect" /\ cutting' = "confirm"
    /\ \E E \in UpTo(MaxFindings) : \E S \in SUBSET E :
          speech' = S /\ noises' = E \ S
    /\ UNCHANGED <<confirmed, protected, silences, quiet, filter, voice, kept, spans>>

\* Seeded defect: a removal the second look turns down is only forgotten.
ConfirmForgetting ==
    /\ cutting = "confirm" /\ cutting' = "cut"
    /\ \E A \in SUBSET Candidates : confirmed' = A
    /\ protected' = speech
    /\ UNCHANGED <<speech, noises, silences, quiet, filter, voice, kept, spans>>

\* A second look at every candidate; what it does not confirm is protected.
Confirm ==
    /\ cutting = "confirm" /\ cutting' = "cut"
    /\ \E A \in SUBSET Candidates : confirmed' = A /\ protected' = speech \cup (Candidates \ A)
    /\ UNCHANGED <<speech, noises, silences, quiet, filter, voice, kept, spans>>

\* Sets of at most n disjoint stretches that do not touch.
Stretches(n) == {S \in UpTo(n) : \A i, k \in S : i = k \/ i[2] < k[1] \/ k[2] < i[1]}

Filtered(S) == Subtract(Protect(WithoutLong(S, Silent), protected), Exclude(confirmed, protected))

Cut ==
    /\ cutting = "cut" /\ cutting' = "done"
    /\ \E n \in {MaxFindings - Cardinality(speech \cup noises)} :
       \E S \in Stretches(n) : \E Q \in Stretches(n - Cardinality(S)), f, v \in BOOLEAN :
          /\ f \/ S \cup speech \cup noises = {}
          /\ v \/ Q = {}
          /\ silences' = S /\ quiet' = Q /\ filter' = f /\ voice' = v
          /\ LET heard == IF f THEN Filtered(S) ELSE <<<<0, Length>>>>
             IN  kept' = IF v THEN Common(heard, WithoutLong(Q, Silent)) ELSE heard
    /\ spans' = Timeline(kept')
    /\ UNCHANGED <<speech, noises, confirmed, protected>>

CutInit ==
    /\ cutting = "detect"
    /\ speech = {} /\ noises = {} /\ confirmed = {} /\ protected = {}
    /\ silences = {} /\ quiet = {} /\ filter = TRUE /\ voice = FALSE
    /\ kept = <<>> /\ spans = <<>>

CutNext == DetectVocalizations \/ Confirm \/ Cut

CutSpec == CutInit /\ [][CutNext]_cutVars

-------------------------------------------------------------------------------
(***************************************************************************)
(* Properties                                                              *)
(***************************************************************************)
Units(i) == i[1] .. i[2] - 1
Remaining == UNION {Units(kept[k]) : k \in DOMAIN kept}

\* docs/vocalization-filter.md: what has been found to be speech, or was not
\* confirmed to be none, is kept with a margin, whatever the silence detector
\* and the other findings say.  (The voice detector may cut speech.)
SpeechKept ==
    cutting = "done" /\ ~voice =>
       \A p \in speech \cup (Candidates \ confirmed) : Units(Widened(p, Guard)) \subseteq Remaining

\* A unit is cut only inside a long silence or stretch without voice, away from
\* its ends, or inside a noise confirmed twice, away from its edges and from all
\* speech.
CutForCause ==
    cutting = "done" =>
       \A u \in (0 .. Length - 1) \ Remaining :
          \/ filter /\ \E s \in silences : s[2] - s[1] >= Silent /\ u \in Units(Narrowed(s, Padding))
          \/ voice /\ \E q \in quiet : q[2] - q[1] >= Silent /\ u \in Units(Narrowed(q, Padding))
          \/ filter /\ \E n \in noises : /\ u \in Units(Narrowed(n, Edge)) /\ Narrowed(n, Edge) \in confirmed
                                         /\ \A s \in speech : u \notin Units(Widened(s, Guard))

\* Everything that is confirmed and near no speech is cut.
NoiseCut ==
    cutting = "done" /\ filter =>
       \A r \in confirmed :
          (\A p \in protected : ~Overlap(r, Widened(p, Guard))) => Units(r) \cap Remaining = {}

\* The spans of the timeline are the kept intervals in order, and tile the
\* shortened audio: every unit of it is one unit of the original.
ClocksAgree ==
    cutting = "done" =>
       /\ \A k \in DOMAIN spans :
             /\ <<spans[k].start, spans[k].end>> = kept[k]
             /\ spans[k].to - spans[k].from = spans[k].end - spans[k].start
             /\ spans[k].from = (IF k = 1 THEN 0 ELSE spans[k - 1].to)
             /\ k > 1 => spans[k - 1].end <= spans[k].start
       /\ (IF spans = <<>> THEN 0 ELSE Last(spans).to) = Cardinality(Remaining)

\* The cut is sound: it takes what may be cut, all of it, and says where.
CutSound == SpeechKept /\ CutForCause /\ NoiseCut /\ ClocksAgree
===============================================================================
