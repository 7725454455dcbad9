------------------------------ MODULE MCSubtitles ------------------------------
(***************************************************************************)
(* What becomes of speech, on small instances: what is cut out of the      *)
(* audio, the transcript and its translation, the layout, the results that *)
(* attempts leave for one another, and the review of the draft.  Each      *)
(* begins from any result of the one before it and shares no state with    *)
(* it; one of them, chosen in the beginning, is at work, and the others    *)
(* stay as they are.                                                       *)
(***************************************************************************)
EXTENDS SubtitleRevisions, StageResults, AudioCut, SubtitleLayout, TranscriptTracks

CONSTANTS x, y, z

VARIABLE part

Span(from, to, start, end) == [from |-> from, to |-> to, start |-> start, end |-> end]

\* Nothing cut; a cut on a half millisecond; spans that touch; a cut between two
\* slivers of a millisecond and less.  Up to three sentences in two windows,
\* translated two by two.
Shortened == { <<Span(0, 4, 0, 4)>>,
               <<Span(0, 3, 0, 3), Span(3, 6, 5, 8)>>,
               <<Span(0, 2, 1, 3), Span(2, 5, 3, 6), Span(5, 6, 10, 11)>> }
Sayings == {x, y, z}
Noises == {z}

\* A short line; three uneven ones; a line that is broken in two; one that is broken
\* in three, a blank of it lost, beside a short one.
Line(length) == [length |-> length, breaks |-> <<length>>]
Wide(length, breaks) == [length |-> length, breaks |-> breaks]
Spoken == { <<Line(2)>>, <<Line(1), Line(5), Line(2)>>,
            <<Wide(5, <<3, 2>>)>>, <<Line(1), Wide(7, <<3, 1, 2>>)>> }

\* ko and ko-KR; any other tag has one width as well as ko.
Tongues == {[dense |-> TRUE, region |-> FALSE], [dense |-> TRUE, region |-> TRUE]}

-------------------------------------------------------------------------------
all == <<part, vars, cutVars, trackVars, stageVars, layoutVars>>

SubtitlesInit ==
    /\ part \in {"cut", "tracks", "stages", "layout", "review"}
    /\ Init /\ CutInit /\ TracksInit /\ StagesInit /\ LayoutInit
    /\ part # "tracks" => Len(timeline) = 1 /\ filtered
    /\ part # "layout" => ~language.region

SubtitlesNext ==
    \/ part = "cut" /\ CutNext /\ UNCHANGED <<part, vars, trackVars, stageVars, layoutVars>>
    \/ part = "tracks" /\ TracksNext /\ UNCHANGED <<part, vars, cutVars, stageVars, layoutVars>>
    \/ part = "stages" /\ StagesNext /\ UNCHANGED <<part, vars, cutVars, trackVars, layoutVars>>
    \/ part = "layout" /\ LayoutNext /\ UNCHANGED <<part, vars, cutVars, trackVars, stageVars>>
    \/ part = "review" /\ Next /\ UNCHANGED <<part, cutVars, trackVars, stageVars, layoutVars>>

SubtitlesSpec == SubtitlesInit /\ [][SubtitlesNext]_all
===============================================================================
