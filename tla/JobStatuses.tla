------------------------------ MODULE JobStatuses ------------------------------
(***************************************************************************)
(* The status vocabulary of a job record (models.JobStatus) and the order  *)
(* in which one run of the media worker writes those statuses.             *)
(***************************************************************************)
EXTENDS Sequences

Terminal == {"COMPLETED", "FAILED", "CANCELLED"}

\* The statuses a run passes through while it holds the job.  CLEANING is
\* declared by the enumeration but no code writes it.
Processing == {"ANALYZING", "EXTRACTING_AUDIO", "PREPROCESSING_AUDIO", "TRANSCRIBING",
               "FILTERING_TRANSCRIPT", "TRANSLATING", "GENERATING_SUBTITLE", "ENCODING", "VALIDATING"}

Status == {"UPLOADING", "READY", "QUEUED", "AWAITING_REVIEW"} \cup Processing \cup Terminal

Template == {"extract_audio", "transcribe", "transcribe_translate", "translate", "encode", "full"}

\* What a job is asked to do: the template, whether a subtitle version or an
\* extracted audio file was handed in, and options.review_subtitles.
Request == [template : Template, subtitle : BOOLEAN, audio : BOOLEAN, review : BOOLEAN]

NeedsTranscription(q) ==
    q.template \in {"transcribe", "transcribe_translate", "full"} /\ ~q.subtitle

\* The requests workflow_plan accepts.
ValidRequest(q) ==
    /\ q.subtitle => q.template \in {"translate", "encode", "full"}
    /\ q.template = "translate" => q.subtitle
    /\ q.audio => NeedsTranscription(q)

Translates(q) == q.template \in {"translate", "transcribe_translate", "full"}
Encodes(q) == q.template \in {"encode", "full"}

-------------------------------------------------------------------------------
(***************************************************************************)
(* process() writes its statuses along one of these sequences.  Which one  *)
(* it takes depends on the request, on review_ready (a reviewed draft is   *)
(* rendered without transcribing again), on whether a completed transcript *)
(* can be reused and on whether a blocked passage forces a review; the     *)
(* last two are known only to the run and are left open here.              *)
(***************************************************************************)
Transcribing(q) ==
    LET recognise == <<"PREPROCESSING_AUDIO", "PREPROCESSING_AUDIO", "TRANSCRIBING", "FILTERING_TRANSCRIPT">>
    IN  IF ~NeedsTranscription(q) THEN {<< >>}
        ELSE {<<"FILTERING_TRANSCRIPT">>,
              IF q.audio THEN recognise ELSE <<"EXTRACTING_AUDIO">> \o recognise}

Translating(q) == IF Translates(q) THEN <<"TRANSLATING">> ELSE << >>

Rendering == <<"ENCODING", "ENCODING", "VALIDATING", "COMPLETED">>

Endings(q, reviewed) ==
    CASE ~Encodes(q)                          -> {<<"COMPLETED">>}
      [] reviewed \/ q.template = "encode"    -> {Rendering}
      [] q.review                             -> {<<"AWAITING_REVIEW">>}
      [] OTHER                                -> {Rendering, <<"AWAITING_REVIEW">>}

\* A reviewed draft, and a subtitle to be burnt in as it is, need no text stage.
TextStages(q, reviewed) ==
    IF reviewed \/ q.template = "encode" THEN {<< >>} ELSE {t \o Translating(q) : t \in Transcribing(q)}

SubtitlePlans(q, reviewed) ==
    {<<"ANALYZING">> \o t \o <<"GENERATING_SUBTITLE">> \o e : t \in TextStages(q, reviewed), e \in Endings(q, reviewed)}

Plans(q, reviewed) ==
    IF q.template = "extract_audio" /\ ~reviewed
    THEN {<<"ANALYZING", "EXTRACTING_AUDIO", "COMPLETED">>}
    ELSE SubtitlePlans(q, reviewed)
===============================================================================
