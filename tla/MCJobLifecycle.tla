----------------------------- MODULE MCJobLifecycle -----------------------------
(***************************************************************************)
(* JobLifecycle on small instances.                                        *)
(***************************************************************************)
EXTENDS JobInvariant, TLC

CONSTANTS w1, w2, j1, j2, c1, c2, b1

\* A full job on an own upload that stops for subtitle review; on a registered
\* video the translation of a handed in subtitle, and the job with the shortest
\* run: ANALYZING, EXTRACTING_AUDIO, COMPLETED; and a transcription of its audio.
Reviewed == [template |-> "full", subtitle |-> FALSE, audio |-> FALSE, review |-> TRUE]
Translate == [template |-> "translate", subtitle |-> TRUE, audio |-> FALSE, review |-> FALSE]
Extract == [template |-> "extract_audio", subtitle |-> FALSE, audio |-> FALSE, review |-> FALSE]
Transcribe == [template |-> "transcribe", subtitle |-> FALSE, audio |-> FALSE, review |-> FALSE]

UploadRequest == [j \in Jobs |-> Reviewed]
TranslateRequest == [j \in Jobs |-> Translate]
ExtractRequest == [j \in Jobs |-> Extract]
TranscribeRequest == [j \in Jobs |-> Transcribe]

Interchangeable == Permutations(Workers) \cup Permutations(Clients)
InterchangeableJobs == Interchangeable \cup Permutations(Jobs)
===============================================================================
