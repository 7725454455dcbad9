------------------------------- MODULE StageResults -------------------------------
(***************************************************************************)
(* What the attempts of a job find of one another: the checkpoints of its  *)
(* stages (Checkpoints.run), the receipts of the request queues, and the   *)
(* completed transcript that survives a change of models.  An attempt may  *)
(* end anywhere, by a failure or a crash, and the next one may run with    *)
(* other models.  Source and options of a job never change.                *)
(*                                                                         *)
(* A file is what it holds and the attempt that wrote it, which is what    *)
(* its modification time tells; an attempt writes each at most once.       *)
(***************************************************************************)
EXTENDS Naturals, Sequences

CONSTANTS
    Stt, Tr,        \* transcription and translation models
    Cuts,           \* what may be cut out of the audio
    Parts,          \* requests of a transcription
    Unknown,        \* none of them
    MaxAttempts     \* bound

\* What a file holds that is being written, or that is not there.
Broken == "broken"

ASSUME AttemptBounds == MaxAttempts \in Nat
ASSUME CutNames == Cuts \cap {Unknown, Broken} = {}

VARIABLES
    models,         \* ghost for the settings: <<stt, tr>> of every attempt
    at,             \* where the attempt is, or "idle"
    audio,          \* [stamp, holds] of audio.wav and
    processed,      \*   processed-audio.wav; with stamp 0 there is none
    saved,          \* checkpoints: [models and name -> result and stamps of its files]
    heard,          \* answers kept by the queue of a transcription: [key -> [window -> attempt]]
    translated,     \* and of a translation: [key -> attempt]
    completed,      \* completed-transcript.json; without heard there is none
    listed,         \* transcript.json is there
    crossing,       \* the transcript that cross-boundary.json is about
    now,            \* what the attempt holds in memory
    answered        \* ghost: every answer that was paid for

stageVars == <<models, at, audio, processed, saved, heard, translated, completed, listed, crossing, now, answered>>

Attempt == Len(models)
stt == models[Attempt][1]
tr == models[Attempt][2]

-------------------------------------------------------------------------------
Extend(f, k, v) == [i \in DOMAIN f \cup {k} |-> IF i = k THEN v ELSE f[i]]

Empty == [cut |-> Unknown, spans |-> Unknown, heard |-> Unknown, text |-> <<>>]

Key(name) == <<models[Attempt], name>>

\* Seeded defect: what became of the files is not looked at.
ReusableAnyway(name, stamps) == Key(name) \in DOMAIN saved

\* A checkpoint is good while its files are the ones that it left.
Reusable(name, stamps) ==
    /\ Key(name) \in DOMAIN saved
    /\ saved[Key(name)].stamps = stamps

Save(name, result, stamps) ==
    saved' = Extend(saved, Key(name), [result |-> result, stamps |-> stamps])

\* The queues name what they keep by the model and what it was given.
AudioKey == <<stt, processed.stamp>>
TextKey == <<tr, now.text>>
Heard == IF AudioKey \in DOMAIN heard THEN heard[AudioKey] ELSE <<>>

-------------------------------------------------------------------------------
(***************************************************************************)
(* The stages of an attempt                                                *)
(***************************************************************************)
\* Created, or retried, with the settings of the day.
BeginAttempt ==
    /\ at = "idle" /\ Attempt < MaxAttempts
    /\ \E m \in Stt \X Tr : models' = Append(models, m)
    /\ at' = "load" /\ now' = Empty
    /\ UNCHANGED <<audio, processed, saved, heard, translated, completed, listed, crossing, answered>>

\* load_completed_transcript
LoadCompleted ==
    /\ at = "load"
    /\ \/ /\ completed.heard = Unknown /\ listed
          /\ at' = "refused" /\ UNCHANGED <<now, listed>>
       \/ /\ completed.heard = Unknown /\ ~listed
          /\ at' = "extract" /\ UNCHANGED <<now, listed>>
       \/ /\ completed.heard # Unknown
          /\ now' = [now EXCEPT !.text = completed.text] /\ listed' = TRUE
          /\ at' = "translate"
    /\ UNCHANGED <<models, audio, processed, saved, heard, translated, completed, crossing, answered>>

Extract ==
    /\ at = "extract"
    /\ \/ /\ Reusable("extract", <<audio.stamp>>)
          /\ at' = "detect" /\ UNCHANGED audio
       \/ /\ ~Reusable("extract", <<audio.stamp>>)
          /\ at' = "extracting" /\ audio' = [stamp |-> Attempt, holds |-> Broken]
    /\ UNCHANGED <<models, processed, saved, heard, translated, completed, listed, crossing, now, answered>>

Extracted ==
    /\ at = "extracting"
    /\ audio' = [audio EXCEPT !.holds = "audio"]
    /\ Save("extract", Unknown, <<audio.stamp>>)
    /\ at' = "detect"
    /\ UNCHANGED <<models, processed, heard, translated, completed, listed, crossing, now, answered>>

\* detect_vocalizations asks a model, which need not say the same twice.
Detect ==
    /\ at = "detect"
    /\ \/ /\ Reusable("vocalizations", <<>>)
          /\ now' = [now EXCEPT !.cut = saved[Key("vocalizations")].result]
          /\ UNCHANGED saved
       \/ /\ ~Reusable("vocalizations", <<>>)
          /\ \E c \in Cuts : now' = [now EXCEPT !.cut = c] /\ Save("vocalizations", c, <<>>)
    /\ at' = "preprocess"
    /\ UNCHANGED <<models, audio, processed, heard, translated, completed, listed, crossing, answered>>

Preprocess ==
    /\ at = "preprocess"
    /\ \/ /\ Reusable("preprocess", <<processed.stamp>>)
          /\ now' = [now EXCEPT !.spans = saved[Key("preprocess")].result]
          /\ at' = "transcribe" /\ UNCHANGED processed
       \/ /\ ~Reusable("preprocess", <<processed.stamp>>)
          /\ at' = "preprocessing" /\ processed' = [stamp |-> Attempt, holds |-> Broken]
          /\ UNCHANGED now
    /\ UNCHANGED <<models, audio, saved, heard, translated, completed, listed, crossing, answered>>

Preprocessed ==
    /\ at = "preprocessing"
    /\ processed' = [processed EXCEPT !.holds = IF audio.holds = Broken THEN Broken ELSE now.cut]
    /\ now' = [now EXCEPT !.spans = now.cut]
    /\ Save("preprocess", now.cut, <<processed.stamp>>)
    /\ at' = "transcribe"
    /\ UNCHANGED <<models, audio, heard, translated, completed, listed, crossing, answered>>

\* Of a window that has no answer yet in this or an earlier attempt.
Hear(w) ==
    /\ at = "transcribe" /\ ~Reusable("transcribe", <<>>)
    /\ w \notin DOMAIN Heard
    /\ heard' = Extend(heard, AudioKey, Extend(Heard, w, Attempt))
    /\ answered' = answered \cup {[attempt |-> Attempt, stt |-> stt, audio |-> processed.holds, window |-> w]}
    /\ UNCHANGED <<models, at, audio, processed, saved, translated, completed, listed, crossing, now>>

\* All windows have been answered, or were before the last attempt ended.
Transcribed ==
    /\ at = "transcribe"
    /\ \/ /\ Reusable("transcribe", <<>>)
          /\ now' = [now EXCEPT !.heard = saved[Key("transcribe")].result.heard, !.text = saved[Key("transcribe")].result.text]
          /\ UNCHANGED saved
       \/ /\ ~Reusable("transcribe", <<>>) /\ DOMAIN Heard = Parts
          /\ now' = [now EXCEPT !.heard = processed.holds, !.text = Heard]
          /\ Save("transcribe", [heard |-> now'.heard, text |-> now'.text], <<>>)
    /\ at' = "restore"
    /\ UNCHANGED <<models, audio, processed, heard, translated, completed, listed, crossing, answered>>

\* restore_segments leaves which sentences were split.
Restore ==
    /\ at = "restore"
    /\ crossing' = now.text
    /\ at' = "complete"
    /\ UNCHANGED <<models, audio, processed, saved, heard, translated, completed, listed, now, answered>>

\* save_completed_transcript, then transcript.json
Complete ==
    /\ at \in {"complete", "list"}
    /\ \/ /\ at = "complete"
          /\ completed' = [text |-> now.text, heard |-> now.heard, spans |-> now.spans]
          /\ at' = "list" /\ UNCHANGED listed
       \/ /\ at = "list" /\ listed' = TRUE
          /\ at' = "translate" /\ UNCHANGED completed
    /\ UNCHANGED <<models, audio, processed, saved, heard, translated, crossing, now, answered>>

\* The translation of the whole text stands for its batches.
Ask ==
    /\ at = "translate" /\ ~Reusable("translate", <<>>)
    /\ TextKey \notin DOMAIN translated
    /\ translated' = Extend(translated, TextKey, Attempt)
    /\ UNCHANGED <<models, at, audio, processed, saved, heard, completed, listed, crossing, now, answered>>

Translated ==
    /\ at = "translate"
    /\ \/ Reusable("translate", <<>>) /\ UNCHANGED saved
       \/ /\ ~Reusable("translate", <<>>) /\ TextKey \in DOMAIN translated
          /\ Save("translate", TextKey, <<>>)
    /\ at' = "translated"
    /\ UNCHANGED <<models, audio, processed, heard, translated, completed, listed, crossing, now, answered>>

\* A failure, a cancellation or a crash; what was published stays.
End ==
    /\ at \notin {"idle", "refused"}
    /\ at' = "idle" /\ now' = Empty
    /\ UNCHANGED <<models, audio, processed, saved, heard, translated, completed, listed, crossing, answered>>

-------------------------------------------------------------------------------
StagesInit ==
    /\ models = <<>> /\ at = "idle" /\ now = Empty
    /\ audio = [stamp |-> 0, holds |-> Broken] /\ processed = audio
    /\ saved = <<>> /\ heard = <<>> /\ translated = <<>>
    /\ completed = [text |-> <<>>, heard |-> Unknown, spans |-> Unknown] /\ listed = FALSE /\ crossing = <<>>
    /\ answered = {}

StagesNext ==
    \/ BeginAttempt \/ LoadCompleted \/ Extract \/ Extracted \/ Detect \/ Preprocess \/ Preprocessed
    \/ \E w \in Parts : Hear(w)
    \/ Transcribed \/ Restore \/ Complete \/ Ask \/ Translated \/ End

StagesSpec == StagesInit /\ [][StagesNext]_stageVars

-------------------------------------------------------------------------------
(***************************************************************************)
(* Properties                                                              *)
(***************************************************************************)
\* A transcript is put into the clock of the video by the timeline of the audio
\* that was listened to, whichever attempts, with whichever models, wrote the
\* audio, the timeline and the answers; and never was a half-written file heard.
ClockRight ==
    at \in {"restore", "complete", "list"} =>
       /\ now.heard = now.spans /\ now.heard \in Cuts
       /\ DOMAIN now.text = Parts

\* "Refusing paid re-transcription" is for jobs of older versions: no attempt
\* leaves a transcript that the next one refuses.
NeverRefused == at # "refused"

\* The provenance by which sentences are grouped for translation is that of the
\* transcript in use, though it is left in a file of its own.
CrossingFits == at = "translate" => crossing = now.text

\* docs/completed-transcript-resume.md: switching the translation model starts a
\* new translation.  What is shown is the translation of the transcript in use
\* by the model of the attempt.
TranslationFits == at = "translated" => saved[Key("translate")].result = TextKey

\* docs/parallel-transcription.md: a retry skips every window that was answered,
\* as long as no attempt with other models came between.
PaidOnce ==
    \A a, b \in answered :
       a.window = b.window /\ a.attempt < b.attempt => \E n \in a.attempt .. b.attempt : models[n] # models[b.attempt]

\* The parts of the inductive invariant.  What is where, and of which kind.
Places == {"idle", "load", "refused", "extract", "extracting", "detect", "preprocess", "preprocessing", "transcribe",
           "restore", "complete", "list", "translate", "translated"}
Checkpoints == {"extract", "vocalizations", "preprocess", "transcribe", "translate"}
StageTypes ==
    /\ models \in Seq(Stt \X Tr) /\ at \in Places /\ (at # "idle" => Attempt > 0)
    /\ audio \in [stamp : 0 .. Attempt, holds : {Broken, "audio"}]
    /\ processed \in [stamp : 0 .. Attempt, holds : Cuts \cup {Broken}]
    /\ DOMAIN saved \subseteq (Stt \X Tr) \X Checkpoints
    /\ now = [cut |-> now.cut, spans |-> now.spans, heard |-> now.heard, text |-> now.text]
    /\ listed \in BOOLEAN
    /\ answered \subseteq [attempt : 1 .. Attempt, stt : Stt, audio : Cuts, window : Parts]

\* Where an attempt has not yet got to the file of a checkpoint.
Unextracted == {"load", "extract", "extracting"}
Unprocessed == Unextracted \cup {"detect", "preprocess", "preprocessing"}

\* A stamp of a file names one content.
ExtractGood(m) ==
    <<m, "extract">> \in DOMAIN saved =>
       \E s \in 1 .. Attempt :
          /\ saved[<<m, "extract">>].stamps = <<s>>
          /\ s = audio.stamp => audio.holds = "audio"
          /\ at \in Unextracted => s < Attempt

CutGood(m) ==
    <<m, "vocalizations">> \in DOMAIN saved =>
       saved[<<m, "vocalizations">>].result \in Cuts /\ saved[<<m, "vocalizations">>].stamps = <<>>

\* All checkpoints of the same models are about the cut that these were told first.
PreprocessGood(m) ==
    <<m, "preprocess">> \in DOMAIN saved =>
       /\ <<m, "vocalizations">> \in DOMAIN saved
       /\ saved[<<m, "preprocess">>].result = saved[<<m, "vocalizations">>].result
       /\ \E s \in 1 .. Attempt :
             /\ saved[<<m, "preprocess">>].stamps = <<s>>
             /\ s = processed.stamp => processed.holds = saved[<<m, "preprocess">>].result
             /\ at \in Unprocessed => s < Attempt

TranscriptGood(m) ==
    <<m, "transcribe">> \in DOMAIN saved =>
       /\ <<m, "vocalizations">> \in DOMAIN saved
       /\ saved[<<m, "transcribe">>].result.heard = saved[<<m, "vocalizations">>].result
       /\ DOMAIN saved[<<m, "transcribe">>].result.text = Parts

TranslationGood(m) ==
    <<m, "translate">> \in DOMAIN saved =>
       completed.heard # Unknown /\ saved[<<m, "translate">>].result = <<m[2], completed.text>>

CheckpointInv ==
    \A m \in Stt \X Tr : ExtractGood(m) /\ CutGood(m) /\ PreprocessGood(m) /\ TranscriptGood(m) /\ TranslationGood(m)

\* What the attempt holds belongs to its models and to the files that are there.
HoldingInv ==
    /\ at = "extracting" => audio.stamp = Attempt
    /\ at \in {"detect", "preprocess", "preprocessing"} => audio.holds = "audio"
    /\ at \in {"preprocess", "preprocessing", "transcribe"} =>
          Key("vocalizations") \in DOMAIN saved /\ now.cut = saved[Key("vocalizations")].result
    /\ at = "preprocessing" => processed.stamp = Attempt
    /\ at = "transcribe" => Reusable("preprocess", <<processed.stamp>>) /\ now.spans = now.cut
    /\ at \in {"complete", "list"} => crossing = now.text
    /\ at = "translated" => Key("translate") \in DOMAIN saved

\* The first transcript that is completed is the only one.
CompletedInv ==
    /\ at \in {"list", "translate", "translated"} => completed.heard # Unknown /\ completed.text = now.text
    /\ completed.heard # Unknown =>
          crossing = completed.text /\ at \in {"idle", "load", "list", "translate", "translated"}
    /\ listed => completed.heard # Unknown

\* As long as the models stay, the audio that an answer is about is not made again.
AnswersInv ==
    \A a \in answered :
       (\A n \in a.attempt .. Attempt : models[n] = models[Attempt]) =>
          /\ at # "preprocessing"
          /\ Reusable("preprocess", <<processed.stamp>>)
          /\ AudioKey \in DOMAIN heard /\ a.window \in DOMAIN heard[AudioKey]

ResultsInv == StageTypes /\ CheckpointInv /\ HoldingInv /\ CompletedInv /\ AnswersInv

\* docs/development-preservation.md: transcribed windows are told apart by the
\* content of the audio and the model.
\* The code does not keep this (README.md, Divergences).
SegmentsCached ==
    \A a, b \in answered :
       a.attempt # b.attempt => <<a.stt, a.audio, a.window>> # <<b.stt, b.audio, b.window>>

\* What an attempt takes over from earlier ones is right for it, and paid for once.
ResultsSound == ResultsInv /\ ClockRight /\ NeverRefused /\ CrossingFits /\ TranslationFits /\ PaidOnce
===============================================================================
