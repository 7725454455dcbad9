------------------------------ MODULE SubtitleLayout ------------------------------
(***************************************************************************)
(* How a transcript becomes subtitles (segment_subtitles): where           *)
(* utterances overlap, a subtitle shows them together; what needs more     *)
(* lines than a subtitle may have is turned over page by page, each page   *)
(* for its share of the time.  What is to be reviewed, the subtitles laid  *)
(* out or those a user selected, is validated, wrapped and laid out again  *)
(* when it is saved (write_draft).                                         *)
(*                                                                         *)
(* Times are counted in half milliseconds; those that are laid out are     *)
(* whole milliseconds.  A text is given by its lines after wrapping, a     *)
(* line by its length and the lengths it is broken into for a draft: the   *)
(* worker and the draft choose their widths by different rules.            *)
(***************************************************************************)
EXTENDS Timing, SequencesExt

CONSTANTS
    Languages,      \* tags: dense says that ko, ja, zh or auto is its language, region that more follows
    Duration,       \* of the video, in half milliseconds
    Leeway,         \* half milliseconds a subtitle may end after the video
    MaxLines,       \* of a subtitle
    Wordings,       \* of an utterance: sequences of lines
    MaxUtterances   \* bound

ASSUME LayoutScale ==
    /\ Languages \subseteq [dense : BOOLEAN, region : BOOLEAN]
    /\ Duration \in Nat /\ Leeway \in Nat \ {0} /\ MaxLines \in Nat \ {0} /\ MaxUtterances \in Nat
    /\ Wordings \subseteq Seq([length : Nat \ {0}, breaks : Seq(Nat \ {0}) \ {<<>>}]) \ {<<>>}

VARIABLES
    language,   \* of the speech
    cues,       \* the transcript
    laying,     \* stage: "speech", "transcript", "laid", "selected", "saved", "refused" or "invalid"
    blocks,     \* its subtitles, or those selected instead
    laid        \* the draft that is saved for review

layoutVars == <<language, cues, laying, blocks, laid>>

-------------------------------------------------------------------------------
From(cue) == Ms(cue.start)
To(cue) == Ms(cue.end)

Block(from, to, lines) == [start |-> 2 * from, end |-> 2 * to, lines |-> lines]

\* The times at which something begins or ends.
Points(seq) == {From(seq[k]) : k \in DOMAIN seq} \cup {To(seq[k]) : k \in DOMAIN seq}

Active(cue, s) == From(cue) <= s[1] /\ s[2] <= To(cue)

\* Between neighbouring points, while somebody speaks.
Slots(seq) ==
    {s \in Points(seq) \X Points(seq) :
        /\ s[1] < s[2] /\ ~\E p \in Points(seq) : s[1] < p /\ p < s[2]
        /\ \E k \in DOMAIN seq : Active(seq[k], s)}

\* Seeded defect: what is being said is shown until the next utterance begins.
LinesOnward(seq, s) ==
    FlattenSeq([k \in DOMAIN seq |-> IF From(seq[k]) <= s[1] /\ s[1] <= To(seq[k]) THEN seq[k].lines ELSE <<>>])

LinesAt(seq, s) == FlattenSeq([k \in DOMAIN seq |-> IF Active(seq[k], s) THEN seq[k].lines ELSE <<>>])

Sweep(seq) ==
    LET slots == InOrder(Slots(seq))
    IN  [n \in DOMAIN slots |-> Block(slots[n][1], slots[n][2], LinesAt(seq, slots[n]))]

PageCount(b) == (Len(b.lines) + MaxLines - 1) \div MaxLines
PageLines(b, n) == SubSeq(b.lines, (n - 1) * MaxLines + 1, LowerOf(n * MaxLines, Len(b.lines)))
Weight(lines) ==
    LET upTo[k \in 0 .. Len(lines)] == IF k = 0 THEN 0 ELSE upTo[k - 1] + lines[k].length
    IN  upTo[Len(lines)]

\* Where page n ends, if it begins at the cursor.
Turn(b, n, cursor) ==
    IF n = PageCount(b) THEN To(b)
    ELSE LowerOf(To(b) - (PageCount(b) - n),
                 UpperOf(cursor + 1, From(b) + RoundDiv((To(b) - From(b)) * Weight(SubSeq(b.lines, 1, n * MaxLines)),
                                                        Weight(b.lines))))

Pages(b) ==
    LET cursor[n \in 0 .. PageCount(b)] == IF n = 0 THEN From(b) ELSE Turn(b, n, cursor[n - 1])
    IN  [n \in 1 .. PageCount(b) |-> Block(cursor[n - 1], cursor[n], PageLines(b, n))]

Room(b) == To(b) - From(b) >= PageCount(b)

\* segment_subtitles, and the reasons it gives up for.
CanLayOut(seq) ==
    /\ \A k \in DOMAIN seq : From(seq[k]) < To(seq[k])
    /\ \A k \in DOMAIN Sweep(ByStart(seq)) : Room(Sweep(ByStart(seq))[k])
LayOut(seq) ==
    LET sweep == Sweep(ByStart(seq))
    IN  FlattenSeq([k \in DOMAIN sweep |-> Pages(sweep[k])])

\* validate_tracks: an overlap of less than a millisecond is let pass; whether one of
\* a millisecond is depends on how the times are rounded (slack 1 or 2).
Reviewable(seq, slack) ==
    /\ seq # <<>>
    /\ \A k \in DOMAIN seq : /\ seq[k].start < seq[k].end /\ From(seq[k]) < To(seq[k])
                           /\ seq[k].end <= Duration + Leeway /\ Len(seq[k].lines) <= MaxLines
    /\ \A k \in DOMAIN seq : k > 1 => seq[k].start >= seq[k - 1].end - slack

\* textwrap at the width of the draft, and of all its subtitles.
Wrap(line) ==
    IF Len(line.breaks) = 1 THEN <<line>>
    ELSE [n \in DOMAIN line.breaks |->
            [cue |-> line.cue, line |-> line.line, part |-> n,
             length |-> line.breaks[n], breaks |-> <<line.breaks[n]>>]]
Wrapped(seq) ==
    [k \in DOMAIN seq |->
       [seq[k] EXCEPT !.lines = FlattenSeq([n \in DOMAIN seq[k].lines |-> Wrap(seq[k].lines[n])])]]

\* The widths: the worker compares the whole tag, the draft its language.
LaidNarrowly == language.dense /\ ~language.region
DraftedNarrowly == language.dense

Fits(line) == Len(line.breaks) = 1

-------------------------------------------------------------------------------
Lines(i, text) ==
    [k \in DOMAIN text |->
       [cue |-> i, line |-> k, part |-> 0, length |-> text[k].length, breaks |-> text[k].breaks]]

Utterances(times, texts) ==
    [i \in DOMAIN times |-> [start |-> times[i][1], end |-> times[i][2], lines |-> Lines(i, texts[i])]]

Times(n, last) == [1 .. n -> {t \in (0 .. last) \X (0 .. last) : t[1] < t[2]}]

\* The transcript: utterances of any length, in any order, that may overlap, or
\* silence.  Lines of the greater width may be too long for the lesser one.
Transcribe ==
    /\ laying = "speech"
    /\ laying' = "transcript"
    /\ \E n \in 0 .. MaxUtterances : \E times \in Times(n, Duration), texts \in [1 .. n -> Wordings] :
          /\ LaidNarrowly \/ ~DraftedNarrowly => \A i \in 1 .. n : \A k \in DOMAIN texts[i] : Fits(texts[i][k])
          /\ cues' = Utterances(times, texts)
    /\ UNCHANGED <<language, blocks, laid>>

\* Subtitles that a user uploaded and selected instead (validate_cues): in order, of
\* any layout, up to twice the leeway after the video.
Select ==
    /\ laying = "speech"
    /\ laying' = "selected"
    /\ \E n \in 1 .. MaxUtterances : \E times \in Times(n, Duration + 2 * Leeway), texts \in [1 .. n -> Wordings] :
          /\ \A i \in 2 .. n : times[i - 1][1] <= times[i][1]
          /\ blocks' = Utterances(times, texts)
    /\ UNCHANGED <<language, cues, laid>>

Lay ==
    /\ laying = "transcript"
    /\ IF CanLayOut(cues) THEN laying' = "laid" /\ blocks' = LayOut(cues)
       ELSE laying' = "refused" /\ UNCHANGED blocks
    /\ UNCHANGED <<language, cues, laid>>

SaveDraft ==
    /\ laying \in {"laid", "selected"}
    /\ \E slack \in {1, 2} :
          IF Reviewable(blocks, slack) /\ CanLayOut(Wrapped(blocks)) /\ Reviewable(LayOut(Wrapped(blocks)), slack)
          THEN laying' = "saved" /\ laid' = LayOut(Wrapped(blocks))
          ELSE laying' = "invalid" /\ UNCHANGED laid
    /\ UNCHANGED <<language, cues, blocks>>

LayoutInit ==
    language \in Languages /\ laying = "speech" /\ cues = <<>> /\ blocks = <<>> /\ laid = <<>>

LayoutNext == Transcribe \/ Select \/ Lay \/ SaveDraft

LayoutSpec == LayoutInit /\ [][LayoutNext]_layoutVars

-------------------------------------------------------------------------------
(***************************************************************************)
(* Properties                                                              *)
(***************************************************************************)
\* Whether subtitles follow one another: each is shown for at least a millisecond,
\* with as many lines as fit, before the next one begins.
Follow(seq) ==
    \A k \in DOMAIN seq :
       /\ From(seq[k]) < To(seq[k]) /\ Len(seq[k].lines) \in 1 .. MaxLines
       /\ k > 1 => To(seq[k - 1]) <= From(seq[k])

FollowOneAnother == (laying = "laid" => Follow(blocks)) /\ (laying = "saved" => Follow(laid))

\* Whether subtitles show a line only in the time of an utterance that has it, and
\* each line of an utterance, and again while another one overlaps it.
Keeps(seq, shown) ==
    /\ \A b \in ToSet(shown) : \A x \in ToSet(b.lines) :
          \E i \in DOMAIN seq : x \in ToSet(seq[i].lines) /\ From(seq[i]) <= From(b) /\ To(b) <= To(seq[i])
    /\ \A i, j \in DOMAIN seq :
          LET first == UpperOf(From(seq[i]), From(seq[j]))
              last == LowerOf(To(seq[i]), To(seq[j]))
          IN  first < last => \A x \in ToSet(seq[i].lines) :
                                \E b \in ToSet(shown) : x \in ToSet(b.lines) /\ first <= From(b) /\ To(b) <= last

\* docs/transcription-overlaps.md: no dialogue is discarded, neither when a
\* transcript is laid out nor, however its lines are broken, when a draft is saved.
DialogueKept ==
    /\ laying = "laid" => Keeps(cues, blocks)
    /\ laying = "saved" => Keeps(Wrapped(blocks), laid)

\* What was laid out to the width of the draft is accepted for review as it is, if
\* anything was said; and the draft that a review gets can be saved again and stays
\* what it is (docs/api.md:52), whatever it was made of.
SavedAsLaid ==
    /\ cues # <<>> /\ (LaidNarrowly <=> DraftedNarrowly) => laying # "invalid" /\ (laying = "saved" => laid = blocks)
    /\ laying = "saved" => /\ Reviewable(laid, 1) /\ CanLayOut(Wrapped(laid))
                           /\ LayOut(Wrapped(laid)) = laid

\* docs/development-status.md:80: lines of 24 characters for Korean, Chinese and
\* Japanese.
\* The code does not keep this for a tag with a region (README.md, Divergences).
WidthOfLanguage ==
    laying = "laid" /\ DraftedNarrowly => \A b \in ToSet(blocks) : \A x \in ToSet(b.lines) : Fits(x)

\* docs/parallel-transcription.md:30: empty speech is a valid success.
\* The code does not keep this in a review (README.md, Divergences).
SilenceReviewed == laying = "invalid" => blocks # <<>>

\* docs/transcription-overlaps.md: nested and chained overlaps are supported.
\* Utterances that could each be laid out alone can be laid out together.
\* The code does not keep this (README.md, Divergences).
OverlapsSupported ==
    laying = "refused" => \E i \in DOMAIN cues : ~CanLayOut(<<cues[i]>>)

\* What is laid out shows everything in its time and can be reviewed.
LayoutSound == FollowOneAnother /\ DialogueKept /\ SavedAsLaid
===============================================================================
