----------------------------- MODULE TranscriptTracks -----------------------------
(***************************************************************************)
(* From the sentences a model hears in the windows of the shortened audio  *)
(* to the transcript in the clock of the video and its translation         *)
(* (transcribe, restore_segments, filter_transcript_segments, translate):  *)
(* a sentence is split at what was cut out, equal neighbours are           *)
(* translated once, in batches whose answers are matched by id, and        *)
(* refused windows and batches become placeholders.                        *)
(*                                                                         *)
(* Time is counted in half milliseconds.  That the requests are made,      *)
(* repeated and answered in any order is SegmentQueue's subject.           *)
(***************************************************************************)
EXTENDS Timing, SequencesExt

CONSTANTS
    Timelines,  \* what AudioCut may leave: sequences of spans
    Window,     \* of audio in a request
    Slack,      \* by which a sentence may end too late
    Texts,      \* what may be heard
    Labels,     \* of them those that only name a sound
    Blocked,    \* the placeholder
    Near,       \* gap and
    Long,       \* length within which equal sentences are one
    Batch,      \* translations in a request
    MaxCues     \* bound: sentences heard

ASSUME TracksScale == {Window, Batch} \subseteq Nat \ {0} /\ {Slack, Near, Long, MaxCues} \subseteq Nat
ASSUME TracksNames == Labels \subseteq Texts /\ Blocked \notin Texts \cup Nat

\* The spans of a timeline tile the shortened audio, and follow one another in
\* the video (AudioCut!ClocksAgree).
Tiles(seq) ==
    /\ seq \in Seq([from : Nat, to : Nat, start : Nat, end : Nat])
    /\ \A k \in DOMAIN seq :
          /\ seq[k].from < seq[k].to /\ seq[k].end - seq[k].start = seq[k].to - seq[k].from
          /\ seq[k].from = IF k = 1 THEN 0 ELSE seq[k - 1].to
          /\ k > 1 => seq[k - 1].end <= seq[k].start

ASSUME TracksClock == \A seq \in Timelines : Tiles(seq)

VARIABLES
    timeline,   \* from .. to of the shortened audio is start .. end
    filtered,   \* audio_filter is not off
    telling,    \* stage: "transcribe", "translate", "done" or "failed"
    sentences,  \* [window -> what is heard in it], of those that are answered
    segments,   \* the transcript, in the clock of the video
    groups,     \* segments of the transcript that share a translation
    answers,    \* [batch -> translations], of those that are answered
    refused,    \* ghost: batches that became placeholders
    translations,
    partial     \* what the subtitles of a failed job show

trackVars == <<timeline, filtered, telling, sentences, segments, groups, answers, refused, translations, partial>>

-------------------------------------------------------------------------------
\* The elements of a sequence that are in S.
Those(seq, S) == FlattenSeq([k \in DOMAIN seq |-> IF seq[k] \in S THEN <<seq[k]>> ELSE <<>>])

Total == IF timeline = <<>> THEN 0 ELSE Last(timeline).to
Windows == {w \in 0 .. Total : w * Window < Total}
Size(w) == LowerOf(Window, Total - w * Window)

\* Of windows or batches: those before the first that has no result.
Prefix(results, all) == {k \in DOMAIN results : \A j \in all : j < k => j \in DOMAIN results}

-------------------------------------------------------------------------------
(***************************************************************************)
(* Transcription                                                           *)
(***************************************************************************)
Cue(w, k) == [start |-> w * Window + sentences[w][k].start,
              end |-> LowerOf(w * Window + sentences[w][k].end, Total),
              text |-> sentences[w][k].text, id |-> <<w, k>>]

\* The sentences of windows W in order, in the clock of the shortened audio.
Cues(W) ==
    FlattenSeq([n \in 1 .. Total |-> IF n - 1 \in W THEN [k \in DOMAIN sentences[n - 1] |-> Cue(n - 1, k)] ELSE <<>>])

Count == Len(Cues(DOMAIN sentences))

Valid(w, item) == item.start < item.end /\ item.end <= Size(w) + Slack /\ item.start < Size(w)

\* validate_sentences: sentences may overlap, and are put in order.
HearWindow(w) ==
    /\ telling = "transcribe" /\ w \notin DOMAIN sentences
    /\ \E n \in 0 .. MaxCues - Count :
       \E items \in [1 .. n -> [start : 0 .. Size(w) - 1, end : 1 .. Size(w) + Slack, text : Texts]] :
          /\ \A k \in 1 .. n : Valid(w, items[k])
          /\ LET clipped == [k \in 1 .. n |-> [items[k] EXCEPT !.end = LowerOf(@, Size(w))]]
             IN  sentences' = [v \in DOMAIN sentences \cup {w} |-> IF v = w THEN ByStart(clipped) ELSE sentences[v]]
    /\ UNCHANGED <<timeline, filtered, telling, segments, groups, answers, refused, translations, partial>>

HearNothing(w) ==
    /\ telling = "transcribe" /\ w \notin DOMAIN sentences /\ Count < MaxCues
    /\ LET placeholder == <<[start |-> 0, end |-> Size(w), text |-> Blocked]>>
       IN  sentences' = [v \in DOMAIN sentences \cup {w} |-> IF v = w THEN placeholder ELSE sentences[v]]
    /\ UNCHANGED <<timeline, filtered, telling, segments, groups, answers, refused, translations, partial>>

\* project_segment_to_original: the next piece of a sentence, where it is in span s.
Onto(cue, acc, s) ==
    LET left == UpperOf(cue.start, s.from)
        right == LowerOf(cue.end, s.to)
        a == s.start + left - s.from
        b == s.start + right - s.from
    IN  IF right <= left THEN acc
        ELSE IF acc # <<>> /\ Last(acc)[2] = a THEN [acc EXCEPT ![Len(acc)] = <<@[1], b>>]
        ELSE Append(acc, <<a, b>>)

Project(cue) ==
    LET upTo[n \in 0 .. Len(timeline)] == IF n = 0 THEN <<>> ELSE Onto(cue, upTo[n - 1], timeline[n])
    IN  upTo[Len(timeline)]

\* A sentence is repeated on each piece that lasts.
Repeated(cue) ==
    LET pieces == Those(Project(cue), {p \in ToSet(Project(cue)) : Ms(p[1]) < Ms(p[2])})
    IN  [n \in DOMAIN pieces |-> [start |-> pieces[n][1], end |-> pieces[n][2], text |-> cue.text, id |-> cue.id]]

RestoreSegments(cues) == FlattenSeq([k \in DOMAIN cues |-> Repeated(cues[k])])

FilterSegments(segs) == Those(segs, {s \in ToSet(segs) : filtered => s.text \notin Labels})

Transcript(W) == FilterSegments(RestoreSegments(Cues(W)))

\* Some window has failed for good.
FailTranscript ==
    /\ telling = "transcribe" /\ DOMAIN sentences # Windows
    /\ telling' = "failed"
    /\ partial' = Transcript(Prefix(sentences, Windows))
    /\ UNCHANGED <<timeline, filtered, sentences, segments, groups, answers, refused, translations>>

-------------------------------------------------------------------------------
(***************************************************************************)
(* Translation                                                             *)
(***************************************************************************)
\* Sentences of cross-boundary.json: those that were split, before short pieces are dropped.
Crossings == {c \in ToSet(Cues(Windows)) : Len(Project(c)) > 1}
Sources(s) == {c \in Crossings : c.text = s.text /\ <<s.start, s.end>> \in ToSet(Project(c))}

Targets(segs) == Those(segs, {s \in ToSet(segs) : s.text # Blocked})

\* A segment shares the translation of its neighbour.
Shared(group, s) ==
    /\ s.text = Last(group).text
    /\ \/ Sources(Last(group)) \cap Sources(s) # {}
       \/ Last(group).end <= s.start /\ s.start - Last(group).end <= Near /\ s.end - Head(group).start <= Long

Share(acc, s) ==
    IF acc # <<>> /\ Shared(Last(acc), s) THEN [acc EXCEPT ![Len(acc)] = Append(@, s)] ELSE Append(acc, <<s>>)

Groups(targets) ==
    LET upTo[n \in 0 .. Len(targets)] == IF n = 0 THEN <<>> ELSE Share(upTo[n - 1], targets[n])
    IN  upTo[Len(targets)]

\* The transcript is complete; neighbours are grouped for its translation.
FinishTranscript ==
    /\ telling = "transcribe" /\ DOMAIN sentences = Windows
    /\ telling' = "translate"
    /\ segments' = Transcript(Windows)
    /\ groups' = Groups(Targets(segments'))
    /\ UNCHANGED <<timeline, filtered, sentences, answers, refused, translations, partial>>

\* A target's id is the number of its group.
Ids(b) == b * Batch + 1 .. LowerOf((b + 1) * Batch, Len(groups))
Batches == {b \in 0 .. Len(groups) : Ids(b) # {}}

\* Seeded defect: answers are taken in the order in which they come.
AlignByPlace(reply, ids) == [k \in ids |-> reply[k + 1 - CHOOSE i \in ids : \A j \in ids : i <= j]]

\* align_result: every id once.
Aligned(reply, ids) == Len(reply) = Cardinality(ids) /\ ToSet(reply) = ids
Align(reply, ids) == [k \in ids |-> reply[CHOOSE n \in DOMAIN reply : reply[n] = k]]

Record(b, texts) == answers' = [c \in DOMAIN answers \cup {b} |-> IF c = b THEN texts ELSE answers[c]]

\* What a model says of a target is named by the id under which it says it.
AnswerBatch(b) ==
    /\ telling = "translate" /\ b \notin DOMAIN answers
    /\ \E reply \in [1 .. Cardinality(Ids(b)) -> Ids(b)] :
          Aligned(reply, Ids(b)) /\ Record(b, Align(reply, Ids(b)))
    /\ UNCHANGED <<timeline, filtered, telling, sentences, segments, groups, refused, translations, partial>>

RefuseBatch(b) ==
    /\ telling = "translate" /\ b \notin DOMAIN answers
    /\ Record(b, [k \in Ids(b) |-> Blocked])
    /\ refused' = refused \cup {b}
    /\ UNCHANGED <<timeline, filtered, telling, sentences, segments, groups, translations, partial>>

\* Every translation goes to all segments of its group.
Merge(B) ==
    FlattenSeq([g \in DOMAIN groups |->
        IF (g - 1) \div Batch \in B
        THEN [k \in DOMAIN groups[g] |-> [groups[g][k] EXCEPT !.text = answers[(g - 1) \div Batch][g]]]
        ELSE <<>>])

Placeholders == Those(segments, {s \in ToSet(segments) : s.text = Blocked})

FinishTranslation ==
    /\ telling = "translate" /\ DOMAIN answers = Batches
    /\ telling' = "done"
    /\ translations' = IF Targets(segments) = <<>> THEN segments
                       ELSE IF Placeholders = <<>> THEN Merge(Batches)
                       ELSE ByStart(Merge(Batches) \o Placeholders)
    /\ UNCHANGED <<timeline, filtered, sentences, segments, groups, answers, refused, partial>>

FailTranslation ==
    /\ telling = "translate" /\ DOMAIN answers # Batches
    /\ telling' = "failed"
    /\ partial' = Merge(Prefix(answers, Batches))
    /\ UNCHANGED <<timeline, filtered, sentences, segments, groups, answers, refused, translations>>

-------------------------------------------------------------------------------
TracksInit ==
    /\ timeline \in Timelines /\ filtered \in BOOLEAN
    /\ telling = "transcribe"
    /\ sentences = <<>> /\ segments = <<>> /\ groups = <<>> /\ answers = <<>> /\ refused = {}
    /\ translations = <<>> /\ partial = <<>>

TracksNext ==
    \/ \E w \in Windows : HearWindow(w) \/ HearNothing(w)
    \/ FinishTranscript \/ FailTranscript
    \/ telling = "translate" /\ \E b \in Batches : AnswerBatch(b) \/ RefuseBatch(b)
    \/ FinishTranslation \/ FailTranslation

TracksSpec == TracksInit /\ [][TracksNext]_trackVars

-------------------------------------------------------------------------------
(***************************************************************************)
(* Properties                                                              *)
(***************************************************************************)
Moments(a, b) == a .. b - 1

\* The unit of the video that a unit of the shortened audio is.
Original(u) == LET s == CHOOSE s \in ToSet(timeline) : s.from <= u /\ u < s.to IN s.start + u - s.from

\* docs/translation-input-deduplication.md: no subtitle is stretched across what
\* was cut out.  The pieces of a sentence are where it is heard in the video, and
\* only some of a millisecond or less are left out.
NotStretched ==
    telling \in {"translate", "done"} =>
       \A cue \in ToSet(Cues(Windows)) :
          LET image == {Original(u) : u \in Moments(cue.start, cue.end)}
              shown == UNION {Moments(s.start, s.end) : s \in {t \in ToSet(segments) : t.id = cue.id}}
          IN  /\ shown \subseteq image
              /\ ~(filtered /\ cue.text \in Labels) =>
                    \A u \in image : ~({u, u + 1, u + 2} \subseteq image \ shown)

\* Every segment is translated once, keeps its time, and gets what the model
\* said of its own text, whatever else was batched, shared, refused or answered
\* in another order.
EachGetsItsOwn ==
    telling = "done" =>
       /\ Len(translations) = Len(segments)
       /\ \A s \in ToSet(segments) : \E t \in ToSet(translations) :
             /\ <<t.id, t.start, t.end>> = <<s.id, s.start, s.end>>
             /\ IF t.text = Blocked
                THEN s.text = Blocked \/ \E g \in DOMAIN groups : s \in ToSet(groups[g]) /\ (g - 1) \div Batch \in refused
                ELSE s.text = groups[t.text][1].text

\* The pieces of one sentence are translated alike.
SentenceWhole ==
    telling = "done" => \A s, t \in ToSet(translations) : s.id = t.id => s.text = t.text

\* What a failed job shows leaves nothing out before its end: no sentence of a
\* later window, or of a later segment of those that were to be translated.
PartialHonest ==
    telling = "failed" =>
       LET goal == IF DOMAIN sentences = Windows THEN Targets(segments) ELSE Transcript(DOMAIN sentences)
       IN  /\ Len(partial) <= Len(goal)
           /\ \A k \in DOMAIN partial :
                 <<partial[k].id, partial[k].start, partial[k].end>> = <<goal[k].id, goal[k].start, goal[k].end>>
           /\ \A k \in DOMAIN partial : \A w \in Windows \ DOMAIN sentences : partial[k].id[1] < w

\* docs/parallel-translation.md: the partial subtitles of a failed translation
\* are a contiguous prefix of the segments.
\* The code does not keep this (README.md, Divergences).
PartialContiguous ==
    telling = "failed" /\ DOMAIN sentences = Windows =>
       LET shown(s) == \E t \in ToSet(partial) : <<t.id, t.start>> = <<s.id, s.start>>
       IN  \A k \in DOMAIN segments : shown(segments[k]) => \A j \in 1 .. k : shown(segments[j])

\* What is shown was said there, and means what was said there.
TracksSound == NotStretched /\ EachGetsItsOwn /\ SentenceWhole /\ PartialHonest
===============================================================================
