----------------------------- MODULE SubtitleRevisions -----------------------------
(***************************************************************************)
(* The subtitles of one job with review: the worker writes a draft, people *)
(* edit it in several windows until somebody approves it, the worker puts  *)
(* the approved draft into the video, and the finished subtitles may be    *)
(* edited again.  Every save names the revision it was based on.           *)
(*                                                                         *)
(* A content is known by an identity; which run, or the finished job, it   *)
(* belongs to is a ghost.  Every step that writes holds the job's locks.   *)
(***************************************************************************)
EXTENDS Naturals, FiniteSets

CONSTANTS
    Editors,      \* open windows
    MaxContents,  \* bound: contents ever written
    MaxRuns,      \* bound: runs of the worker
    None

ASSUME Bounds == MaxContents \in Nat /\ MaxRuns \in Nat

\* age: the run that wrote the draft, or 0 for the subtitles of the finished job.
Contents == [id : 1..MaxContents, rev : Nat, age : 0..MaxRuns]

ASSUME NoContent == None \notin Contents \cup Editors

VARIABLES
    status,    \* status of the job
    approved,  \* review_ready
    draft,     \* work/subtitle-draft.json
    final,     \* the revision the record points to
    files,     \* identities of revisions whose directory is complete
    outdated,  \* video_subtitles_outdated
    video,     \* identity of the subtitles in the video
    copy,      \* [Editors -> what the window has loaded or saved last]
    saving,    \* the save under way
    import,    \* a subtitle input of the video, made from this job
    accepted,  \* ghost: identity of the draft that was approved
    contents, runs

job == <<status, approved, draft, final, files, outdated, video>>
vars == <<job, copy, saving, import, accepted, contents, runs>>

\* read_final_draft: without a revision it is what was approved.
Finished == IF final # None THEN final ELSE [id |-> draft.id, rev |-> 0, age |-> 0]

\* What GET and PUT of the job's subtitles are about.
Shown == CASE status = "COMPLETED"       -> Finished
           [] status = "AWAITING_REVIEW" -> draft
           [] OTHER                      -> None

-------------------------------------------------------------------------------
(***************************************************************************)
(* The worker and the job's life                                           *)
(***************************************************************************)
BeginRun ==
    /\ status = "QUEUED" /\ saving = None
    /\ runs < MaxRuns
    /\ runs' = runs + 1
    /\ status' = "RUNNING"
    /\ UNCHANGED <<approved, draft, final, files, outdated, video, copy, saving, import, accepted, contents>>

\* write_draft with revision 1, unless a draft was approved.
Prepare ==
    /\ status = "RUNNING" /\ ~approved
    /\ draft # None => draft.age < runs
    /\ contents < MaxContents
    /\ contents' = contents + 1
    /\ draft' = [id |-> contents', rev |-> 1, age |-> runs]
    /\ UNCHANGED <<status, approved, final, files, outdated, video, copy, saving, import, accepted, runs>>

AwaitReview ==
    /\ status = "RUNNING" /\ ~approved
    /\ draft # None /\ draft.age = runs
    /\ status' = "AWAITING_REVIEW"
    /\ UNCHANGED <<approved, draft, final, files, outdated, video, copy, saving, import, accepted, contents, runs>>

\* The approved draft is put into the video.
Encode ==
    /\ status = "RUNNING" /\ approved
    /\ video' = draft.id
    /\ status' = "COMPLETED"
    /\ UNCHANGED <<approved, draft, final, files, outdated, copy, saving, import, accepted, contents, runs>>

\* The run fails or is cancelled; a waiting job is cancelled.
Halt ==
    /\ status \in {"QUEUED", "RUNNING", "AWAITING_REVIEW"} /\ saving = None
    /\ status' = "CANCELLED"
    /\ UNCHANGED <<approved, draft, final, files, outdated, video, copy, saving, import, accepted, contents, runs>>

\* retry_job: the draft and its approval stay.
Retry ==
    /\ status = "CANCELLED"
    /\ status' = "QUEUED"
    /\ UNCHANGED <<approved, draft, final, files, outdated, video, copy, saving, import, accepted, contents, runs>>

-------------------------------------------------------------------------------
(***************************************************************************)
(* Windows                                                                 *)
(***************************************************************************)
\* SubtitleEditor loads the subtitles when it is opened.
Load(e) ==
    /\ Shown # None /\ saving = None
    /\ copy' = [copy EXCEPT ![e] = Shown]
    /\ UNCHANGED <<job, saving, import, accepted, contents, runs>>

Begin(e, render) ==
    /\ saving = None
    /\ contents < MaxContents
    /\ contents' = contents + 1
    /\ saving' = [by |-> e, on |-> copy[e], render |-> render, id |-> contents', at |-> "write"]
    /\ UNCHANGED <<job, copy, import, accepted, runs>>

\* Seeded defect: the revision is not compared.
BeginSaveUnchecked(e, render) ==
    /\ copy[e] # None /\ Shown # None
    /\ status = "COMPLETED" => ~render
    /\ Begin(e, render)

\* Seeded defect: a window that has not loaded anything saves.
BeginSaveBlind(e, render) ==
    /\ Shown # None
    /\ copy[e] # None => copy[e].rev = Shown.rev
    /\ status = "COMPLETED" => ~render
    /\ Begin(e, render)

\* update_subtitle_draft up to its first write: the revision that the window names
\* is the current one.
BeginSave(e, render) ==
    /\ copy[e] # None /\ Shown # None
    /\ copy[e].rev = Shown.rev
    /\ status = "COMPLETED" => ~render
    /\ Begin(e, render)

\* The answer reaches the window or is lost.
Answer(content) == copy' \in {copy, [copy EXCEPT ![saving.by] = content]}

New == [id |-> saving.id, rev |-> Shown.rev + 1, age |-> Shown.age]

\* write_draft with the next revision replaces the draft at once.
WriteDraft ==
    /\ saving # None /\ saving.at = "write" /\ status = "AWAITING_REVIEW"
    /\ draft' = New
    /\ IF saving.render THEN saving' = [saving EXCEPT !.at = "approve"] /\ UNCHANGED copy
                        ELSE saving' = None /\ Answer(New)
    /\ UNCHANGED <<status, approved, final, files, outdated, video, import, accepted, contents, runs>>

Approve ==
    /\ saving # None /\ saving.at = "approve"
    /\ status' = "QUEUED" /\ approved' = TRUE
    /\ accepted' = saving.id
    /\ saving' = None
    /\ Answer(draft)
    /\ UNCHANGED <<draft, final, files, outdated, video, import, contents, runs>>

\* save_final_draft: a directory of its own, then the record points to it.
WriteFiles ==
    /\ saving # None /\ saving.at = "write" /\ status = "COMPLETED"
    /\ files' = files \cup {saving.id}
    /\ saving' = [saving EXCEPT !.at = "publish"]
    /\ UNCHANGED <<status, approved, draft, final, outdated, video, copy, import, accepted, contents, runs>>

Publish ==
    /\ saving # None /\ saving.at = "publish"
    /\ final' = New
    /\ outdated' = TRUE
    /\ saving' = None
    /\ Answer(New)
    /\ UNCHANGED <<status, approved, draft, files, video, import, accepted, contents, runs>>

\* A write fails or the API dies: what is written stays.
Fail ==
    /\ saving # None
    /\ saving' = None
    /\ UNCHANGED <<job, copy, import, accepted, contents, runs>>

\* import_job_subtitle: the revision somebody has selected becomes an input.
Import(e) ==
    /\ status = "COMPLETED" /\ saving = None
    /\ copy[e] # None /\ copy[e].age = 0
    /\ copy[e].rev = Finished.rev
    /\ import' = [id |-> Finished.id, selected |-> copy[e].id]
    /\ UNCHANGED <<job, copy, saving, accepted, contents, runs>>

-------------------------------------------------------------------------------
Init ==
    /\ status = "QUEUED" /\ approved = FALSE /\ outdated = FALSE
    /\ draft = None /\ final = None /\ video = None
    /\ files = {}
    /\ copy = [e \in Editors |-> None]
    /\ saving = None /\ import = None /\ accepted = None
    /\ contents = 0 /\ runs = 0

Next ==
    \/ BeginRun \/ Prepare \/ AwaitReview \/ Encode \/ Halt \/ Retry
    \/ \E e \in Editors : Load(e) \/ Import(e) \/ \E render \in BOOLEAN : BeginSave(e, render)
    \/ WriteDraft \/ Approve \/ WriteFiles \/ Publish \/ Fail

Spec == Init /\ [][Next]_vars

-------------------------------------------------------------------------------
(***************************************************************************)
(* Properties                                                              *)
(***************************************************************************)
\* Every variable has its type.
TypeOK ==
    /\ status \in {"QUEUED", "RUNNING", "AWAITING_REVIEW", "CANCELLED", "COMPLETED"}
    /\ approved \in BOOLEAN /\ outdated \in BOOLEAN
    /\ draft \in Contents \cup {None} /\ final \in Contents \cup {None}
    /\ video \in 1..MaxContents \cup {None} /\ accepted \in 1..MaxContents \cup {None}
    /\ files \subseteq 1..MaxContents
    /\ copy \in [Editors -> Contents \cup {None}]
    /\ saving \in [by : Editors, on : Contents, render : BOOLEAN, id : 1..MaxContents,
                   at : {"write", "approve", "publish"}] \cup {None}
    /\ import \in [id : 1..MaxContents, selected : 1..MaxContents] \cup {None}
    /\ contents \in 0..MaxContents /\ runs \in 0..MaxRuns

\* An approval is of the draft there is, and what waits for review is the draft of
\* the last run.
ApprovalInv ==
    /\ draft # None => 1 <= draft.age /\ draft.age <= runs
    /\ approved => draft # None /\ accepted = draft.id /\ status # "AWAITING_REVIEW"
    /\ status = "AWAITING_REVIEW" => draft # None /\ draft.age = runs
    /\ status = "RUNNING" => runs >= 1
    /\ status = "COMPLETED" => approved /\ video = draft.id
    /\ final # None => final.age = 0 /\ final.id \in files /\ outdated

\* Content c is not ahead of what is shown now, and is it if it has its revision.
Behind(c) == Shown # None /\ c.age = Shown.age => c.rev <= Shown.rev /\ (c.rev = Shown.rev => c = Shown)

WindowInv ==
    \A e \in Editors : copy[e] # None =>
        /\ copy[e].age <= runs
        /\ status = "RUNNING" => copy[e].age < runs
        /\ copy[e].age = 0 => status = "COMPLETED"
        /\ Behind(copy[e])

SavingInv ==
    saving # None =>
        /\ status \in {"AWAITING_REVIEW", "COMPLETED"}
        /\ saving.at = "approve" => status = "AWAITING_REVIEW" /\ draft.id = saving.id
        /\ saving.at = "publish" => status = "COMPLETED" /\ saving.id \in files
        /\ saving.at \in {"write", "publish"} => saving.on.rev = Shown.rev /\ Behind(saving.on)

RevisionInv == TypeOK /\ ApprovalInv /\ WindowInv /\ SavingInv

\* A window that loaded the draft of this run, or the finished subtitles, replaces
\* nothing it has not seen: of two saves based on one revision the second is
\* refused, also after a save whose answer was lost (routes.py:271, 292).
SavesBuildOn ==
    [][saving # None /\ Shown' # Shown /\ Shown' # None /\ saving.on.age = Shown.age => saving.on = Shown]_vars

\* docs/subtitle-review-verification.md:13: a save never overwrites what another
\* window has changed.
NothingOverwritten ==
    [][saving # None /\ Shown' # Shown /\ Shown' # None => saving.on = Shown]_vars

\* The revision that downloads resolve has all its files, whatever fails while it
\* is written (final_subtitles.py:67).
RevisionWhole == final # None => final.id \in files

\* The video has the draft that somebody approved, however often the job was
\* cancelled and retried in between, and says so when its subtitles were edited
\* (worker.py:182, final_subtitles.py:68).
VideoHonest == status = "COMPLETED" => video = accepted /\ (Finished.id # video => outdated)

\* A subtitle input is what was shown when its revision was selected
\* (asset_routes.py:130).
ImportedAsSelected == import # None => import.id = import.selected

\* Drafts, revisions and their editors, with what their readers rely on.
ReviewSound == RevisionInv /\ RevisionWhole /\ VideoHonest /\ ImportedAsSelected
===============================================================================
