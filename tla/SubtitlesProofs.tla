---------------------------- MODULE SubtitlesProofs ----------------------------
(***************************************************************************)
(* Theorems about the subtitles of a job: about their review               *)
(* (SubtitleRevisions), about what the attempts of the job leave for one   *)
(* another (StageResults), and about how a transcript and its translation  *)
(* come about (TranscriptTracks).                                          *)
(*                                                                         *)
(* RevisionInv is inductive.  A content a window holds is never ahead of   *)
(* what the job shows of the same age, because ages only grow: each run    *)
(* writes a draft of its own age, and age 0 appears only when the job is   *)
(* completed, which it then stays.                                         *)
(*                                                                         *)
(* TracksInv is inductive: it says what every window and batch answered so *)
(* far holds, and that what the stages have made of them is the transcript *)
(* of all windows, its groups, and the translations of all batches.  The   *)
(* properties are about what these operators compute.                      *)
(***************************************************************************)
EXTENDS SubtitleRevisions, StageResults, TranscriptTracks, TimingProofs

Savings == [by : Editors, on : Contents, render : BOOLEAN, id : 1..MaxContents,
            at : {"write", "approve", "publish"}]

\* What is shown by a job of each status.
LEMMA ShownFacts ==
    ASSUME TypeOK, ApprovalInv
    PROVE  /\ status = "COMPLETED" => Shown = Finished /\ Shown \in Contents /\ Shown.age = 0
           /\ status = "AWAITING_REVIEW" => Shown = draft /\ Shown \in Contents /\ Shown.age = runs /\ runs >= 1
           /\ status \notin {"COMPLETED", "AWAITING_REVIEW"} => Shown = None
           /\ status \in {"COMPLETED", "AWAITING_REVIEW"} <=> Shown # None
  <1>1. Shown = IF status = "COMPLETED" THEN Finished ELSE IF status = "AWAITING_REVIEW" THEN draft ELSE None
    BY DEF Shown
  <1>2. CASE status = "COMPLETED"
    <2>1. draft \in Contents
      BY <1>2 DEF TypeOK, ApprovalInv
    <2>2. CASE final # None
      <3>1. Finished = final /\ final \in Contents /\ final.age = 0
        BY <2>2 DEF Finished, TypeOK, ApprovalInv
      <3> QED
        BY <1>1, <1>2, <3>1, NoContent
    <2>3. CASE final = None
      <3>1. Finished = [id |-> draft.id, rev |-> 0, age |-> 0]
        BY <2>3 DEF Finished
      <3>2. Finished \in Contents
        BY <2>1, <3>1, Bounds DEF Contents
      <3> QED
        BY <1>1, <1>2, <3>1, <3>2, NoContent
    <2> QED
      BY <2>2, <2>3
  <1>3. CASE status = "AWAITING_REVIEW"
    <2>1. draft \in Contents /\ draft.age = runs /\ 1 <= draft.age
      BY <1>3 DEF TypeOK, ApprovalInv
    <2> QED
      BY <1>1, <1>3, <2>1, NoContent
  <1> QED
    BY <1>1, <1>2, <1>3

\* What is shown depends on three variables only.
LEMMA ShownKept ==
    ASSUME UNCHANGED <<status, draft, final>>
    PROVE  Shown' = Shown /\ Finished' = Finished
  BY DEF Shown, Finished

LEMMA RevisionInit == Init => RevisionInv
  <1> SUFFICES ASSUME Init PROVE RevisionInv
    OBVIOUS
  <1>1. TypeOK
    <2>1. approved \in BOOLEAN /\ outdated \in BOOLEAN
      BY DEF Init
    <2>2. copy \in [Editors -> Contents \cup {None}]
      BY DEF Init
    <2>3. /\ status = "QUEUED" /\ draft = None /\ final = None /\ video = None /\ accepted = None
          /\ files = {} /\ saving = None /\ import = None /\ contents = 0 /\ runs = 0
      BY DEF Init
    <2> QED
      BY <2>1, <2>2, <2>3, Bounds DEF TypeOK
  <1>2. ApprovalInv /\ WindowInv /\ SavingInv
    BY DEF Init, ApprovalInv, WindowInv, SavingInv
  <1> QED
    BY <1>1, <1>2 DEF RevisionInv

\* A save begins with what its window has, which is still current.
LEMMA SaveBegins ==
    ASSUME RevisionInv, NEW e \in Editors, NEW render \in BOOLEAN, BeginSave(e, render)
    PROVE  /\ copy[e] \in Contents /\ saving' \in Savings
           /\ saving' = [by |-> e, on |-> copy[e], render |-> render, id |-> contents + 1, at |-> "write"]
           /\ contents + 1 \in 1..MaxContents
           /\ Shown # None /\ copy[e].rev = Shown.rev /\ Behind(copy[e])
           /\ UNCHANGED <<job, copy, import, accepted, runs>> /\ contents' = contents + 1
  <1>1. copy[e] \in Contents
    BY DEF RevisionInv, TypeOK, BeginSave
  <1>2. contents + 1 \in 1..MaxContents
    BY Bounds DEF RevisionInv, TypeOK, BeginSave, Begin
  <1>3. saving' = [by |-> e, on |-> copy[e], render |-> render, id |-> contents + 1, at |-> "write"]
    BY DEF BeginSave, Begin
  <1>4. saving' \in Savings
    BY <1>1, <1>2, <1>3 DEF Savings
  <1>5. Behind(copy[e])
    BY DEF RevisionInv, WindowInv, BeginSave
  <1> QED
    BY <1>1, <1>2, <1>3, <1>4, <1>5 DEF BeginSave, Begin

\* The revision a save writes is the next one of the same age.
LEMMA NewFacts ==
    ASSUME RevisionInv, saving # None
    PROVE  /\ New \in Contents /\ New # None /\ New.age = Shown.age /\ New.rev = Shown.rev + 1 /\ New.id = saving.id
           /\ Shown \in Contents /\ saving \in Savings
  <1>1. status \in {"AWAITING_REVIEW", "COMPLETED"} /\ saving \in Savings
    BY DEF RevisionInv, SavingInv, TypeOK, Savings
  <1>2. Shown \in Contents
    BY <1>1, ShownFacts DEF RevisionInv
  <1>3. New \in Contents
    BY <1>1, <1>2 DEF New, Contents, Savings
  <1> QED
    BY <1>1, <1>2, <1>3, NoContent DEF New

\* What the answer of a save leaves in the windows.
LEMMA AnswerFacts ==
    ASSUME RevisionInv, saving # None, NEW content \in Contents, Answer(content)
    PROVE  /\ copy' \in [Editors -> Contents \cup {None}]
           /\ \A e \in Editors : copy'[e] \in {copy[e], content}
  <1>1. saving.by \in Editors /\ copy \in [Editors -> Contents \cup {None}]
    BY NewFacts DEF Savings, RevisionInv, TypeOK
  <1> QED
    BY <1>1 DEF Answer

LEMMA TypeStep == ASSUME RevisionInv, Next PROVE TypeOK'
  <1> USE DEF RevisionInv, TypeOK
  <1>1. CASE BeginRun
    BY <1>1, Bounds DEF BeginRun
  <1>2. CASE Prepare
    <2>1. contents' \in 1..MaxContents /\ runs \in 0..MaxRuns
      BY <1>2, Bounds DEF Prepare
    <2>2. draft' \in Contents
      BY <1>2, <2>1 DEF Prepare, Contents
    <2> QED
      BY <1>2, <2>1, <2>2 DEF Prepare
  <1>3. CASE AwaitReview
    BY <1>3 DEF AwaitReview
  <1>4. CASE Encode
    <2>1. draft \in Contents
      BY <1>4 DEF Encode, ApprovalInv
    <2> QED
      BY <1>4, <2>1 DEF Encode, Contents
  <1>5. CASE Halt \/ Retry \/ Fail
    BY <1>5 DEF Halt, Retry, Fail, job
  <1>6. ASSUME NEW e \in Editors, Load(e) PROVE TypeOK'
    <2>1. Shown \in Contents
      BY <1>6, ShownFacts DEF Load
    <2> QED
      BY <1>6, <2>1 DEF Load, job
  <1>7. ASSUME NEW e \in Editors, Import(e) PROVE TypeOK'
    <2>1. copy[e] \in Contents /\ Finished \in Contents
      BY <1>7, ShownFacts DEF Import
    <2> QED
      BY <1>7, <2>1 DEF Import, job, Contents
  <1>8. ASSUME NEW e \in Editors, NEW render \in BOOLEAN, BeginSave(e, render) PROVE TypeOK'
    <2>1. saving' \in Savings /\ contents' \in 1..MaxContents
      BY <1>8, SaveBegins
    <2>2. UNCHANGED <<status, approved, draft, final, files, outdated, video, copy, import, accepted, runs>>
      BY <1>8, SaveBegins DEF job
    <2>3. contents' \in 0..MaxContents
      BY <2>1
    <2> QED
      BY <2>1, <2>2, <2>3 DEF Savings
  <1>9. CASE WriteDraft
    <2>1. New \in Contents /\ saving \in Savings
      BY <1>9, NewFacts DEF WriteDraft
    <2>2. saving' \in Savings \cup {None}
      BY <1>9, <2>1 DEF WriteDraft, Savings
    <2>3. copy' \in [Editors -> Contents \cup {None}]
      BY <1>9, <2>1, AnswerFacts DEF WriteDraft
    <2> QED
      BY <1>9, <2>1, <2>2, <2>3 DEF WriteDraft, Savings
  <1>10. CASE Approve
    <2>1. draft \in Contents /\ saving \in Savings
      BY <1>10, NewFacts DEF Approve, SavingInv, ApprovalInv
    <2>2. copy' \in [Editors -> Contents \cup {None}]
      BY <1>10, <2>1, AnswerFacts DEF Approve
    <2> QED
      BY <1>10, <2>1, <2>2 DEF Approve, Savings
  <1>11. CASE WriteFiles
    <2>1. saving \in Savings
      BY <1>11, NewFacts DEF WriteFiles
    <2>2. saving' \in Savings
      BY <1>11, <2>1 DEF WriteFiles, Savings
    <2> QED
      BY <1>11, <2>1, <2>2 DEF WriteFiles, Savings
  <1>12. CASE Publish
    <2>1. New \in Contents
      BY <1>12, NewFacts DEF Publish
    <2>2. copy' \in [Editors -> Contents \cup {None}]
      BY <1>12, <2>1, AnswerFacts DEF Publish
    <2> QED
      BY <1>12, <2>1, <2>2 DEF Publish
  <1> QED
    BY <1>1, <1>2, <1>3, <1>4, <1>5, <1>6, <1>7, <1>8, <1>9, <1>10, <1>11, <1>12 DEF Next

LEMMA ApprovalStep == ASSUME RevisionInv, Next PROVE ApprovalInv'
  <1> USE DEF RevisionInv, ApprovalInv
  <1>0. runs \in Nat /\ (draft # None => draft \in Contents /\ draft.age \in Nat) /\ files \subseteq 1..MaxContents
    BY DEF TypeOK, Contents
  <1>1. CASE BeginRun
    BY <1>0, <1>1 DEF BeginRun
  <1>2. CASE Prepare
    BY <1>0, <1>2 DEF Prepare
  <1>3. CASE AwaitReview
    BY <1>3 DEF AwaitReview
  <1>4. CASE Encode
    BY <1>4 DEF Encode
  <1>5. CASE Halt \/ Retry
    BY <1>5 DEF Halt, Retry
  <1>6. CASE Fail \/ \E e \in Editors : Load(e) \/ Import(e) \/ \E render \in BOOLEAN : BeginSave(e, render)
    BY <1>6 DEF Fail, Load, Import, BeginSave, Begin, job
  <1>7. CASE WriteDraft
    <2>1. New # None /\ New.age = draft.age
      BY <1>7, NewFacts, ShownFacts DEF WriteDraft
    <2> QED
      BY <1>7, <2>1 DEF WriteDraft
  <1>8. CASE Approve
    BY <1>8 DEF Approve, SavingInv
  <1>9. CASE WriteFiles
    BY <1>9 DEF WriteFiles
  <1>10. CASE Publish
    <2>1. New.age = 0 /\ New.id \in files /\ status = "COMPLETED"
      BY <1>10, NewFacts, ShownFacts DEF Publish, SavingInv
    <2> QED
      BY <1>10, <2>1 DEF Publish
  <1> QED
    BY <1>1, <1>2, <1>3, <1>4, <1>5, <1>6, <1>7, <1>8, <1>9, <1>10 DEF Next

\* A content that was not ahead of what is shown is not ahead of the next revision.
LEMMA BehindNew ==
    ASSUME RevisionInv, saving # None, NEW c \in Contents, Behind(c) \/ c = New, Shown' = New
    PROVE  Behind(c)'
  <1>1. /\ New \in Contents /\ New.age = Shown.age /\ New.rev = Shown.rev + 1 /\ Shown \in Contents /\ Shown # None
    BY NewFacts, NoContent
  <1>2. c.rev \in Nat /\ Shown.rev \in Nat
    BY <1>1 DEF Contents
  <1>3. CASE c = New
    BY <1>1, <1>2, <1>3 DEF Behind
  <1>4. CASE Behind(c)
    BY <1>1, <1>2, <1>4 DEF Behind
  <1> QED
    BY <1>3, <1>4

LEMMA WindowStep == ASSUME RevisionInv, Next PROVE WindowInv'
  <1> SUFFICES ASSUME NEW e \in Editors, copy'[e] # None
               PROVE  /\ copy'[e].age <= runs'
                      /\ status' = "RUNNING" => copy'[e].age < runs'
                      /\ copy'[e].age = 0 => status' = "COMPLETED"
                      /\ Behind(copy[e])'
    BY DEF WindowInv
  <1>0. /\ runs \in Nat
        /\ copy[e] # None => /\ copy[e] \in Contents /\ copy[e].age \in Nat /\ copy[e].age <= runs
                             /\ status = "RUNNING" => copy[e].age < runs
                             /\ copy[e].age = 0 => status = "COMPLETED"
                             /\ Behind(copy[e])
    BY DEF RevisionInv, WindowInv, TypeOK, Contents
  <1>1. CASE BeginRun \/ Prepare \/ Halt \/ Retry
    <2>1. Shown' = None
      BY <1>1 DEF BeginRun, Prepare, Halt, Retry, Shown
    <2> QED
      BY <1>0, <1>1, <2>1 DEF BeginRun, Prepare, Halt, Retry, Behind
  <1>2. CASE AwaitReview
    <2>1. Shown' = draft /\ draft.age = runs
      BY <1>2 DEF AwaitReview, Shown
    <2> QED
      BY <1>0, <1>2, <2>1 DEF AwaitReview, Behind
  <1>3. CASE Encode
    <2>1. Shown'.age = 0
      BY <1>3 DEF Encode, Shown, Finished, RevisionInv, ApprovalInv
    <2> QED
      BY <1>0, <1>3, <2>1 DEF Encode, Behind
  <1>4. ASSUME NEW f \in Editors, Load(f) PROVE WindowInv'
    <2>1. Shown' = Shown
      BY <1>4, ShownKept DEF Load, job
    <2>2. Shown \in Contents /\ status # "RUNNING" /\ Shown.age <= runs /\ (Shown.age = 0 => status = "COMPLETED")
      BY <1>0, <1>4, ShownFacts DEF Load, RevisionInv
    <2>3. Shown.rev \in Nat
      BY <2>2 DEF Contents
    <2>4. copy \in [Editors -> Contents \cup {None}] /\ copy' = [copy EXCEPT ![f] = Shown] /\ UNCHANGED <<status, runs>>
      BY <1>4 DEF Load, job, RevisionInv, TypeOK
    <2> SUFFICES ASSUME NEW g \in Editors, copy'[g] # None
                 PROVE  /\ copy'[g].age <= runs'
                        /\ status' = "RUNNING" => copy'[g].age < runs'
                        /\ copy'[g].age = 0 => status' = "COMPLETED"
                        /\ Behind(copy[g])'
      BY DEF WindowInv
    <2>5. CASE g = f
      BY <2>1, <2>2, <2>3, <2>4, <2>5 DEF Behind
    <2>6. CASE g # f
      BY <2>1, <2>4, <2>6 DEF Behind, RevisionInv, WindowInv
    <2> QED
      BY <2>5, <2>6
  <1>5. CASE Fail \/ WriteFiles \/ \E f \in Editors : Import(f) \/ \E render \in BOOLEAN : BeginSave(f, render)
    <2>1. UNCHANGED <<status, draft, final, copy, runs>>
      BY <1>5 DEF Fail, WriteFiles, Import, BeginSave, Begin, job
    <2>2. Shown' = Shown
      BY <2>1, ShownKept
    <2> QED
      BY <1>0, <2>1, <2>2 DEF Behind
  <1>6. CASE WriteDraft
    <2>1. New \in Contents /\ New.age = runs /\ runs >= 1
      BY <1>6, NewFacts, ShownFacts DEF WriteDraft, RevisionInv
    <2>2. Shown' = New /\ status' = status /\ runs' = runs /\ status = "AWAITING_REVIEW" /\ saving # None
      BY <1>6 DEF WriteDraft, Shown
    <2>3. copy'[e] \in {copy[e], New}
      BY <1>6, <2>1, AnswerFacts DEF WriteDraft
    <2>4. Behind(copy'[e]) \/ copy'[e] = New
      BY <1>0, <2>3
    <2>5. copy'[e] \in Contents
      BY <1>0, <2>1, <2>3
    <2>6. Behind(copy[e])'
      BY <2>1, <2>2, <2>4, <2>5, BehindNew DEF Behind
    <2> QED
      BY <1>0, <2>1, <2>2, <2>3, <2>6
  <1>7. CASE Approve
    <2>1. draft \in Contents /\ draft.age = runs /\ runs >= 1
      BY <1>7, ShownFacts DEF Approve, RevisionInv, SavingInv
    <2>2. Shown' = None /\ status' = "QUEUED" /\ runs' = runs /\ status = "AWAITING_REVIEW"
      BY <1>7 DEF Approve, Shown, RevisionInv, SavingInv
    <2>3. copy'[e] \in {copy[e], draft}
      BY <1>7, <2>1, AnswerFacts DEF Approve
    <2> QED
      BY <1>0, <2>1, <2>2, <2>3 DEF Behind
  <1>8. CASE Publish
    <2>1. New \in Contents /\ New.age = 0 /\ New # None
      BY <1>8, NewFacts, ShownFacts DEF Publish, RevisionInv, SavingInv
    <2>2. Shown' = New /\ status' = status /\ runs' = runs /\ status = "COMPLETED" /\ saving # None
      BY <1>8, <2>1 DEF Publish, Shown, Finished, RevisionInv, SavingInv
    <2>3. copy'[e] \in {copy[e], New}
      BY <1>8, <2>1, AnswerFacts DEF Publish
    <2>4. Behind(copy'[e]) \/ copy'[e] = New
      BY <1>0, <2>3
    <2>5. copy'[e] \in Contents
      BY <1>0, <2>1, <2>3
    <2>6. Behind(copy[e])'
      BY <2>1, <2>2, <2>4, <2>5, BehindNew DEF Behind
    <2> QED
      BY <1>0, <2>1, <2>2, <2>3, <2>6
  <1> QED
    BY <1>1, <1>2, <1>3, <1>4, <1>5, <1>6, <1>7, <1>8 DEF Next, WindowInv

LEMMA SavingStep == ASSUME RevisionInv, Next PROVE SavingInv'
  <1> USE DEF RevisionInv
  <1>1. CASE saving = None /\ ~ \E e \in Editors, render \in BOOLEAN : BeginSave(e, render)
    <2>1. saving' = None
      BY <1>1 DEF Next, BeginRun, Prepare, AwaitReview, Encode, Halt, Retry, Load, Import, WriteDraft, Approve,
                  WriteFiles, Publish, Fail
    <2> QED
      BY <2>1 DEF SavingInv
  <1>2. ASSUME NEW e \in Editors, NEW render \in BOOLEAN, BeginSave(e, render) PROVE SavingInv'
    <2>1. Shown' = Shown
      BY <1>2, ShownKept, SaveBegins DEF job
    <2> QED
      BY <1>2, <2>1, SaveBegins, ShownFacts DEF SavingInv, Behind, job
  <1>3. CASE saving # None /\ \E e \in Editors : Load(e) \/ Import(e)
    BY <1>3 DEF Load, Import
  <1>4. CASE saving # None /\ (BeginRun \/ Prepare \/ AwaitReview \/ Encode \/ Halt \/ Retry)
    BY <1>4 DEF SavingInv, BeginRun, Prepare, AwaitReview, Encode, Halt, Retry
  <1>5. CASE Fail \/ Approve \/ Publish
    BY <1>5 DEF Fail, Approve, Publish, SavingInv
  <1>6. CASE WriteDraft
    <2>1. saving \in Savings /\ New.id = saving.id
      BY <1>6, NewFacts DEF WriteDraft
    <2> QED
      BY <1>6, <2>1 DEF WriteDraft, SavingInv, Savings
  <1>7. CASE WriteFiles
    <2>1. saving \in Savings /\ Shown' = Shown
      BY <1>7, NewFacts, ShownKept DEF WriteFiles
    <2>2. saving' = [saving EXCEPT !.at = "publish"] /\ saving'.on = saving.on /\ saving'.id = saving.id /\ saving'.at = "publish"
      BY <1>7, <2>1 DEF WriteFiles, Savings
    <2> QED
      BY <1>7, <2>1, <2>2 DEF WriteFiles, SavingInv, Behind
  <1> QED
    BY <1>1, <1>2, <1>3, <1>4, <1>5, <1>6, <1>7 DEF Next, BeginSave, Begin

\* RevisionInv holds in every reachable state.
THEOREM RevisionInvariance == Spec => []RevisionInv
  <1>1. RevisionInv /\ [Next]_vars => RevisionInv'
    <2> SUFFICES ASSUME RevisionInv, [Next]_vars PROVE RevisionInv'
      OBVIOUS
    <2>1. CASE Next
      BY <2>1, TypeStep, ApprovalStep, WindowStep, SavingStep DEF RevisionInv
    <2>2. CASE UNCHANGED vars
      <3>1. UNCHANGED <<status, approved, draft, final, files, outdated, video, copy, saving, import, accepted, contents, runs>>
        BY <2>2 DEF vars, job
      <3>2. Shown' = Shown
        BY <3>1, ShownKept
      <3> QED
        BY <3>1, <3>2 DEF RevisionInv, TypeOK, ApprovalInv, WindowInv, SavingInv, Behind
    <2> QED
      BY <2>1, <2>2
  <1> QED
    BY <1>1, RevisionInit, PTL DEF Spec

\* The revision the record points to is complete (final_subtitles.py:67).
THEOREM PublishedWhole == Spec => []RevisionWhole
  <1>1. RevisionInv => RevisionWhole
    BY DEF RevisionInv, ApprovalInv, RevisionWhole
  <1> QED
    BY <1>1, RevisionInvariance, PTL

\* The video carries the approved draft, or says that it is outdated (worker.py:182).
THEOREM VideosHonest == Spec => []VideoHonest
  <1>1. RevisionInv => VideoHonest
    <2> SUFFICES ASSUME RevisionInv, status = "COMPLETED" PROVE video = accepted /\ (Finished.id # video => outdated)
      BY DEF VideoHonest
    <2>1. video = draft.id /\ accepted = draft.id /\ (final # None => outdated)
      BY DEF RevisionInv, ApprovalInv
    <2> QED
      BY <2>1 DEF Finished
  <1> QED
    BY <1>1, RevisionInvariance, PTL

\* Whatever becomes a subtitle input is what was selected (asset_routes.py:130).
THEOREM Selected == Spec => []ImportedAsSelected
  <1>1. Init => ImportedAsSelected
    BY DEF Init, ImportedAsSelected
  <1>2. RevisionInv /\ ImportedAsSelected /\ [Next]_vars => ImportedAsSelected'
    <2> SUFFICES ASSUME RevisionInv, ImportedAsSelected, [Next]_vars PROVE ImportedAsSelected'
      OBVIOUS
    <2>1. ASSUME NEW e \in Editors, Import(e) PROVE ImportedAsSelected'
      <3>1. copy[e] # None /\ copy[e].age = 0 /\ copy[e].rev = Finished.rev /\ status = "COMPLETED"
        BY <2>1 DEF Import
      <3>2. Shown = Finished /\ Shown # None
        BY <3>1, ShownFacts DEF RevisionInv
      <3>3. Shown.age = 0
        BY <3>1, ShownFacts DEF RevisionInv
      <3>4. copy[e] = Finished
        BY <3>1, <3>2, <3>3 DEF RevisionInv, WindowInv, Behind
      <3>5. import' = [id |-> Finished.id, selected |-> copy[e].id]
        BY <2>1 DEF Import
      <3> QED
        BY <3>4, <3>5 DEF ImportedAsSelected
    <2>2. UNCHANGED import => ImportedAsSelected'
      BY DEF ImportedAsSelected
    <2> QED
      BY <2>1, <2>2 DEF Next, vars, BeginRun, Prepare, AwaitReview, Encode, Halt, Retry, Load, BeginSave, Begin, WriteDraft,
                        Approve, WriteFiles, Publish, Fail
  <1> QED
    BY <1>1, <1>2, RevisionInvariance, PTL DEF Spec

\* Drafts, revisions, the video and what is made of them are sound throughout
\* (final_subtitles.py:67).
THEOREM ReviewsSound == Spec => []ReviewSound
  <1>1. RevisionInv /\ RevisionWhole /\ VideoHonest /\ ImportedAsSelected => ReviewSound
    BY DEF ReviewSound
  <1> QED
    BY <1>1, RevisionInvariance, PublishedWhole, VideosHonest, Selected, PTL

\* Of the edits of one draft, or of the finished subtitles, none replaces another
\* it has not seen (routes.py:271, 292).
THEOREM SavesBuild == Spec => SavesBuildOn
  <1>1. RevisionInv /\ [Next]_vars =>
          [saving # None /\ Shown' # Shown /\ Shown' # None /\ saving.on.age = Shown.age => saving.on = Shown]_vars
    <2> SUFFICES ASSUME RevisionInv, Next, saving # None, Shown' # Shown, Shown' # None, saving.on.age = Shown.age
                 PROVE  saving.on = Shown
      BY DEF vars
    <2>1. status \in {"AWAITING_REVIEW", "COMPLETED"} /\ Shown # None
      BY ShownFacts DEF RevisionInv, SavingInv
    <2>2. saving.at \in {"write", "publish"}
      <3>1. saving \in Savings
        BY NewFacts
      <3>2. CASE saving.at = "approve"
        <4>1. status = "AWAITING_REVIEW"
          BY <3>2 DEF RevisionInv, SavingInv
        <4>2. Shown' = Shown \/ Shown' = None
          <5>1. CASE Approve
            BY <5>1 DEF Approve, Shown
          <5>2. CASE ~Approve
            <6>1. UNCHANGED <<status, draft, final>> \/ Halt
              BY <3>2, <4>1, <5>2 DEF Next, BeginRun, Prepare, AwaitReview, Encode, Halt, Retry, Load, Import, BeginSave, Begin,
                                      WriteDraft, WriteFiles, Publish, Fail, job
            <6> QED
              BY <6>1, ShownKept DEF Halt, Shown
          <5> QED
            BY <5>1, <5>2
        <4> QED
          BY <4>2
      <3> QED
        BY <3>1, <3>2 DEF Savings
    <2>3. saving.on.rev = Shown.rev /\ Behind(saving.on)
      BY <2>2 DEF RevisionInv, SavingInv
    <2> QED
      BY <2>1, <2>3 DEF Behind
  <1> QED
    BY <1>1, RevisionInvariance, PTL DEF Spec, SavesBuildOn

-------------------------------------------------------------------------------
(***************************************************************************)
(* What the attempts leave for one another.  A checkpoint is looked at     *)
(* with the models that wrote it, and for these a cut is chosen only once; *)
(* a stamp names one content, because an attempt has not yet written the   *)
(* file when it looks.  So one step preserves ResultsInv.                  *)
(***************************************************************************)
\* The models of the attempt.
LEMMA CurrentModels ==
    ASSUME StageTypes, at # "idle"
    PROVE  models[Attempt] \in Stt \X Tr /\ stt \in Stt /\ Attempt \in Nat /\ Attempt > 0
  BY DEF StageTypes, Attempt, stt

LEMMA StagesBegin == StagesInit => ResultsSound
  <1> SUFFICES ASSUME StagesInit PROVE ResultsSound
    OBVIOUS
  <1>1. StageTypes
    <2>1. models \in Seq(Stt \X Tr) /\ Attempt = 0
      BY DEF StagesInit, Attempt
    <2>2. saved = <<>> /\ DOMAIN saved = {}
      BY DEF StagesInit
    <2>3. audio \in [stamp : 0 .. Attempt, holds : {Broken, "audio"}]
      BY <2>1 DEF StagesInit
    <2>4. processed \in [stamp : 0 .. Attempt, holds : Cuts \cup {Broken}]
      BY <2>1 DEF StagesInit
    <2>5. now = [cut |-> now.cut, spans |-> now.spans, heard |-> now.heard, text |-> now.text]
      BY DEF StagesInit, Empty
    <2> QED
      BY <2>1, <2>2, <2>3, <2>4, <2>5 DEF StagesInit, StageTypes, Places
  <1>2. DOMAIN saved = {} /\ at = "idle" /\ answered = {} /\ listed = FALSE /\ completed.heard = Unknown
    BY DEF StagesInit
  <1>3. CheckpointInv
    BY <1>2 DEF CheckpointInv, ExtractGood, CutGood, PreprocessGood, TranscriptGood, TranslationGood
  <1>4. HoldingInv /\ CompletedInv /\ AnswersInv
    BY <1>2 DEF HoldingInv, CompletedInv, AnswersInv
  <1> QED
    BY <1>1, <1>2, <1>3, <1>4 DEF ResultsSound, ResultsInv, ClockRight, NeverRefused, CrossingFits, TranslationFits, PaidOnce

-------------------------------------------------------------------------------
\* What a step does to the types.
LEMMA TypesStep ==
    ASSUME ResultsSound, StagesNext
    PROVE  StageTypes'
  <1> USE DEF ResultsSound, ResultsInv
  <1>0. StageTypes
    OBVIOUS
  <1>K. ASSUME NEW name \in Checkpoints, NEW result, NEW stamps, Save(name, result, stamps), at # "idle"
        PROVE  DOMAIN saved' \subseteq (Stt \X Tr) \X Checkpoints
    <2>1. DOMAIN saved' = DOMAIN saved \cup {Key(name)}
      BY <1>K DEF Save, Extend
    <2>2. Key(name) \in (Stt \X Tr) \X Checkpoints
      BY <1>K, <1>0, CurrentModels DEF Key
    <2>3. DOMAIN saved \subseteq (Stt \X Tr) \X Checkpoints
      BY <1>0 DEF StageTypes
    <2> QED
      BY <2>1, <2>2, <2>3
  <1>1. CASE BeginAttempt
    <2>1. PICK m \in Stt \X Tr : models' = Append(models, m)
      BY <1>1 DEF BeginAttempt
    <2>2. models' \in Seq(Stt \X Tr) /\ Attempt' = Attempt + 1 /\ Attempt \in Nat
      BY <2>1, <1>0 DEF StageTypes, Attempt
    <2>3. 0 .. Attempt \subseteq 0 .. Attempt' /\ 1 .. Attempt \subseteq 1 .. Attempt'
      BY <2>2
    <2>4. audio' \in [stamp : 0 .. Attempt', holds : {Broken, "audio"}]
      BY <1>1, <1>0, <2>3 DEF BeginAttempt, StageTypes
    <2>5. processed' \in [stamp : 0 .. Attempt', holds : Cuts \cup {Broken}]
      BY <1>1, <1>0, <2>3 DEF BeginAttempt, StageTypes
    <2>6. answered' \subseteq [attempt : 1 .. Attempt', stt : Stt, audio : Cuts, window : Parts]
      BY <1>1, <1>0, <2>3 DEF BeginAttempt, StageTypes
    <2>7. now' = [cut |-> now'.cut, spans |-> now'.spans, heard |-> now'.heard, text |-> now'.text]
      BY <1>1 DEF BeginAttempt, Empty
    <2> QED
      BY <1>1, <1>0, <2>2, <2>4, <2>5, <2>6, <2>7 DEF BeginAttempt, StageTypes, Places
  <1>2. CASE LoadCompleted
    BY <1>2, <1>0 DEF LoadCompleted, StageTypes, Places, Attempt
  <1>3. CASE Extract
    <2>1. audio' \in [stamp : 0 .. Attempt, holds : {Broken, "audio"}]
      BY <1>3, <1>0, CurrentModels DEF Extract, StageTypes
    <2> QED
      BY <1>3, <1>0, <2>1 DEF Extract, StageTypes, Places, Attempt
  <1>4. CASE Extracted
    <2>1. audio' \in [stamp : 0 .. Attempt, holds : {Broken, "audio"}]
      BY <1>4, <1>0 DEF Extracted, StageTypes
    <2>2. DOMAIN saved' \subseteq (Stt \X Tr) \X Checkpoints
      BY <1>4, <1>K DEF Extracted, Checkpoints
    <2> QED
      BY <1>4, <1>0, <2>1, <2>2 DEF Extracted, StageTypes, Places, Attempt
  <1>5. CASE Detect
    <2>1. DOMAIN saved' \subseteq (Stt \X Tr) \X Checkpoints
      <3>1. CASE UNCHANGED saved
        BY <3>1, <1>0 DEF StageTypes
      <3>2. CASE \E c \in Cuts : Save("vocalizations", c, <<>>)
        BY <3>2, <1>5, <1>K DEF Detect, Checkpoints
      <3> QED
        BY <1>5, <3>1, <3>2 DEF Detect
    <2>2. \E c : now' = [now EXCEPT !.cut = c]
      BY <1>5 DEF Detect
    <2> QED
      BY <1>5, <1>0, <2>1, <2>2 DEF Detect, StageTypes, Places, Attempt
  <1>6. CASE Preprocess
    <2>1. processed' \in [stamp : 0 .. Attempt, holds : Cuts \cup {Broken}]
      BY <1>6, <1>0, CurrentModels DEF Preprocess, StageTypes
    <2>2. now' = [cut |-> now'.cut, spans |-> now'.spans, heard |-> now'.heard, text |-> now'.text]
      BY <1>6, <1>0 DEF Preprocess, StageTypes
    <2> QED
      BY <1>6, <1>0, <2>1, <2>2 DEF Preprocess, StageTypes, Places, Attempt
  <1>7. CASE Preprocessed
    <2>1. now.cut \in Cuts
      BY <1>7, <1>0, CurrentModels DEF Preprocessed, HoldingInv, CheckpointInv, CutGood, Key
    <2>2. processed' \in [stamp : 0 .. Attempt, holds : Cuts \cup {Broken}]
      BY <1>7, <1>0, <2>1 DEF Preprocessed, StageTypes
    <2>3. DOMAIN saved' \subseteq (Stt \X Tr) \X Checkpoints
      BY <1>7, <1>K DEF Preprocessed, Checkpoints
    <2>4. now' = [cut |-> now'.cut, spans |-> now'.spans, heard |-> now'.heard, text |-> now'.text]
      BY <1>7, <1>0 DEF Preprocessed, StageTypes
    <2> QED
      BY <1>7, <1>0, <2>2, <2>3, <2>4 DEF Preprocessed, StageTypes, Places, Attempt
  <1>8. ASSUME NEW w \in Parts, Hear(w)
        PROVE  StageTypes'
    <2>1. processed.holds \in Cuts
      BY <1>8, <1>0, CurrentModels DEF Hear, HoldingInv, CheckpointInv, CutGood, PreprocessGood, Key, Reusable
    <2>2. [attempt |-> Attempt, stt |-> stt, audio |-> processed.holds, window |-> w]
             \in [attempt : 1 .. Attempt, stt : Stt, audio : Cuts, window : Parts]
      BY <1>8, <1>0, <2>1, CurrentModels DEF Hear
    <2>3. answered' \subseteq [attempt : 1 .. Attempt, stt : Stt, audio : Cuts, window : Parts]
      BY <1>8, <1>0, <2>2 DEF Hear, StageTypes
    <2> QED
      BY <1>8, <1>0, <2>3 DEF Hear, StageTypes, Places, Attempt
  <1>9. CASE Transcribed
    <2>1. DOMAIN saved' \subseteq (Stt \X Tr) \X Checkpoints
      <3>1. CASE UNCHANGED saved
        BY <3>1, <1>0 DEF StageTypes
      <3>2. CASE Save("transcribe", [heard |-> now'.heard, text |-> now'.text], <<>>)
        BY <3>2, <1>9, <1>K DEF Transcribed, Checkpoints
      <3> QED
        BY <1>9, <3>1, <3>2 DEF Transcribed
    <2>2. \E h, t : now' = [now EXCEPT !.heard = h, !.text = t]
      BY <1>9 DEF Transcribed
    <2>3. now' = [cut |-> now'.cut, spans |-> now'.spans, heard |-> now'.heard, text |-> now'.text]
      BY <1>0, <2>2 DEF StageTypes
    <2> QED
      BY <1>9, <1>0, <2>1, <2>3 DEF Transcribed, StageTypes, Places, Attempt
  <1>10. CASE Restore
    BY <1>10, <1>0 DEF Restore, StageTypes, Places, Attempt
  <1>11. CASE Complete
    BY <1>11, <1>0 DEF Complete, StageTypes, Places, Attempt
  <1>12. CASE Ask
    BY <1>12, <1>0 DEF Ask, StageTypes, Places, Attempt
  <1>13. CASE Translated
    <2>1. DOMAIN saved' \subseteq (Stt \X Tr) \X Checkpoints
      <3>1. CASE UNCHANGED saved
        BY <3>1, <1>0 DEF StageTypes
      <3>2. CASE Save("translate", TextKey, <<>>)
        BY <3>2, <1>13, <1>K DEF Translated, Checkpoints
      <3> QED
        BY <1>13, <3>1, <3>2 DEF Translated
    <2> QED
      BY <1>13, <1>0, <2>1 DEF Translated, StageTypes, Places, Attempt
  <1>14. CASE End
    <2>1. now' = [cut |-> now'.cut, spans |-> now'.spans, heard |-> now'.heard, text |-> now'.text]
      BY <1>14 DEF End, Empty
    <2> QED
      BY <1>14, <1>0, <2>1 DEF End, StageTypes, Places, Attempt
  <1> QED
    BY <1>1, <1>2, <1>3, <1>4, <1>5, <1>6, <1>7, <1>8, <1>9, <1>10, <1>11, <1>12, <1>13, <1>14 DEF StagesNext

-------------------------------------------------------------------------------
\* A step that touches no file of a checkpoint, and gets no nearer to one.
LEMMA CheckpointFrame ==
    ASSUME StageTypes, CheckpointInv, UNCHANGED <<models, audio, processed, saved, completed>>,
           at' \in Unextracted => at \in Unextracted,
           at' \in Unprocessed => at \in Unprocessed
    PROVE  CheckpointInv'
  <1> SUFFICES ASSUME NEW m \in Stt \X Tr
               PROVE  (ExtractGood(m) /\ CutGood(m) /\ PreprocessGood(m) /\ TranscriptGood(m) /\ TranslationGood(m))'
    BY DEF CheckpointInv
  <1>1. ExtractGood(m) /\ CutGood(m) /\ PreprocessGood(m) /\ TranscriptGood(m) /\ TranslationGood(m)
    BY DEF CheckpointInv
  <1>2. ExtractGood(m)'
    BY <1>1 DEF ExtractGood, Attempt
  <1>3. CutGood(m)'
    BY <1>1 DEF CutGood
  <1>4. PreprocessGood(m)'
    BY <1>1 DEF PreprocessGood, Attempt
  <1>5. TranscriptGood(m)' /\ TranslationGood(m)'
    BY <1>1 DEF TranscriptGood, TranslationGood
  <1> QED
    BY <1>2, <1>3, <1>4, <1>5

\* The places before a file, spelled out.
LEMMA Places0 ==
    /\ Unextracted = {"load", "extract", "extracting"}
    /\ Unprocessed = {"load", "extract", "extracting", "detect", "preprocess", "preprocessing"}
  BY DEF Unextracted, Unprocessed

LEMMA CheckpointStep ==
    ASSUME ResultsSound, StagesNext
    PROVE  CheckpointInv'
  <1>0. StageTypes /\ CheckpointInv /\ HoldingInv /\ CompletedInv /\ ClockRight
    BY DEF ResultsSound, ResultsInv
  <1>G. \A m \in Stt \X Tr : ExtractGood(m) /\ CutGood(m) /\ PreprocessGood(m) /\ TranscriptGood(m) /\ TranslationGood(m)
    BY <1>0 DEF CheckpointInv
  <1>C. at # "idle" => models[Attempt] \in Stt \X Tr /\ Attempt \in Nat /\ Attempt > 0
    BY <1>0, CurrentModels
  <1>N. Attempt \in Nat
    BY <1>0 DEF StageTypes, Attempt
  <1>1. CASE BeginAttempt
    <2>1. PICK n \in Stt \X Tr : models' = Append(models, n)
      BY <1>1 DEF BeginAttempt
    <2>2. Attempt' = Attempt + 1 /\ UNCHANGED <<audio, processed, saved, completed>>
      BY <2>1, <1>0, <1>1 DEF StageTypes, Attempt, BeginAttempt
    <2> SUFFICES ASSUME NEW m \in Stt \X Tr
                 PROVE  (ExtractGood(m) /\ CutGood(m) /\ PreprocessGood(m) /\ TranscriptGood(m) /\ TranslationGood(m))'
      BY DEF CheckpointInv
    <2>3. \A s \in 1 .. Attempt : s \in 1 .. Attempt' /\ s < Attempt'
      BY <2>2, <1>N
    <2>4. ExtractGood(m)'
      BY <1>G, <2>2, <2>3 DEF ExtractGood
    <2>5. PreprocessGood(m)'
      BY <1>G, <2>2, <2>3 DEF PreprocessGood
    <2>6. CutGood(m)' /\ TranscriptGood(m)' /\ TranslationGood(m)'
      BY <1>G, <2>2 DEF CutGood, TranscriptGood, TranslationGood
    <2> QED
      BY <2>4, <2>5, <2>6
  <1>2. CASE LoadCompleted
    BY <1>2, <1>0, CheckpointFrame, Places0 DEF LoadCompleted
  <1>3. CASE Extract
    <2>1. CASE UNCHANGED audio
      BY <2>1, <1>3, <1>0, CheckpointFrame, Places0 DEF Extract
    <2>2. CASE at' = "extracting" /\ audio' = [stamp |-> Attempt, holds |-> Broken]
      <3> SUFFICES ASSUME NEW m \in Stt \X Tr
                   PROVE  (ExtractGood(m) /\ CutGood(m) /\ PreprocessGood(m) /\ TranscriptGood(m) /\ TranslationGood(m))'
        BY DEF CheckpointInv
      <3>1. UNCHANGED <<models, processed, saved, completed>> /\ Attempt' = Attempt /\ at = "extract"
        BY <1>3 DEF Extract, Attempt
      <3>2. ExtractGood(m)'
        <4>1. at \in Unextracted /\ audio'.stamp = Attempt
          BY <3>1, <2>2, Places0
        <4>2. \A s \in 1 .. Attempt : s < Attempt => s # audio'.stamp
          BY <4>1, <1>N
        <4> QED
          BY <1>G, <3>1, <4>1, <4>2 DEF ExtractGood
      <3>3. PreprocessGood(m)'
        BY <1>G, <3>1, <2>2, Places0 DEF PreprocessGood
      <3>4. CutGood(m)' /\ TranscriptGood(m)' /\ TranslationGood(m)'
        BY <1>G, <3>1 DEF CutGood, TranscriptGood, TranslationGood
      <3> QED
        BY <3>2, <3>3, <3>4
    <2> QED
      BY <1>3, <2>1, <2>2 DEF Extract
  <1>4. CASE Extracted
    <2> SUFFICES ASSUME NEW m \in Stt \X Tr
                 PROVE  (ExtractGood(m) /\ CutGood(m) /\ PreprocessGood(m) /\ TranscriptGood(m) /\ TranslationGood(m))'
      BY DEF CheckpointInv
    <2>1. UNCHANGED <<models, processed, completed>> /\ Attempt' = Attempt /\ at = "extracting" /\ at' = "detect"
      BY <1>4 DEF Extracted, Attempt
    <2>2. /\ DOMAIN saved' = DOMAIN saved \cup {Key("extract")}
          /\ saved'[Key("extract")] = [result |-> Unknown, stamps |-> <<audio.stamp>>]
          /\ \A k \in DOMAIN saved : k # Key("extract") => saved'[k] = saved[k]
      BY <1>4 DEF Extracted, Save, Extend
    <2>3. audio' = [stamp |-> Attempt, holds |-> "audio"] /\ audio.stamp = Attempt
      BY <1>4, <1>0 DEF Extracted, StageTypes, HoldingInv
    <2>4. at' \notin Unextracted /\ (at \in Unprocessed) /\ Attempt \in 1 .. Attempt
      BY <2>1, <1>C, Places0
    <2>5. ExtractGood(m)'
      <3>1. CASE <<m, "extract">> = Key("extract")
        BY <3>1, <2>1, <2>2, <2>3, <2>4 DEF ExtractGood
      <3>2. CASE <<m, "extract">> # Key("extract")
        BY <3>2, <1>G, <2>1, <2>2, <2>3, <2>4 DEF ExtractGood
      <3> QED
        BY <3>1, <3>2
    <2>6. \A name \in {"vocalizations", "preprocess", "transcribe", "translate"} :
             /\ <<m, name>> \in DOMAIN saved' <=> <<m, name>> \in DOMAIN saved
             /\ <<m, name>> \in DOMAIN saved => saved'[<<m, name>>] = saved[<<m, name>>]
      BY <2>2 DEF Key
    <2>7. CutGood(m)' /\ TranscriptGood(m)' /\ TranslationGood(m)'
      BY <1>G, <2>1, <2>6 DEF CutGood, TranscriptGood, TranslationGood
    <2>8. PreprocessGood(m)'
      BY <1>G, <2>1, <2>4, <2>6 DEF PreprocessGood
    <2> QED
      BY <2>5, <2>7, <2>8
  <1>5. CASE Detect
    <2>1. CASE UNCHANGED saved
      BY <2>1, <1>5, <1>0, CheckpointFrame, Places0 DEF Detect
    <2>2. CASE ~Reusable("vocalizations", <<>>) /\ \E c \in Cuts : Save("vocalizations", c, <<>>)
      <3> SUFFICES ASSUME NEW m \in Stt \X Tr
                   PROVE  (ExtractGood(m) /\ CutGood(m) /\ PreprocessGood(m) /\ TranscriptGood(m) /\ TranslationGood(m))'
        BY DEF CheckpointInv
      <3>0. PICK c \in Cuts : Save("vocalizations", c, <<>>)
        BY <2>2
      <3>1. /\ UNCHANGED <<models, audio, processed, completed>> /\ Attempt' = Attempt
            /\ at = "detect" /\ at' = "preprocess" /\ at \in Unprocessed /\ at' \notin Unextracted
        BY <1>5, Places0 DEF Detect, Attempt
      <3>2. /\ DOMAIN saved' = DOMAIN saved \cup {Key("vocalizations")}
            /\ saved'[Key("vocalizations")] = [result |-> c, stamps |-> <<>>]
            /\ \A k \in DOMAIN saved : k # Key("vocalizations") => saved'[k] = saved[k]
        BY <3>0 DEF Save, Extend
      <3>3. Key("vocalizations") \notin DOMAIN saved
        BY <2>2, <1>G, <1>C, <3>1 DEF Reusable, CutGood, Key
      <3>4. \A k \in DOMAIN saved : k \in DOMAIN saved' /\ saved'[k] = saved[k]
        BY <3>2, <3>3
      <3>5. \A name \in {"extract", "preprocess", "transcribe", "translate"} :
               <<m, name>> \in DOMAIN saved' => <<m, name>> \in DOMAIN saved
        BY <3>2 DEF Key
      <3>6. ExtractGood(m)'
        BY <1>G, <3>1, <3>4, <3>5 DEF ExtractGood
      <3>7. CutGood(m)'
        <4>1. CASE <<m, "vocalizations">> \in DOMAIN saved
          BY <4>1, <1>G, <3>4 DEF CutGood
        <4>2. CASE <<m, "vocalizations">> \notin DOMAIN saved
          BY <4>2, <3>2 DEF CutGood
        <4> QED
          BY <4>1, <4>2
      <3>8. PreprocessGood(m)'
        BY <1>G, <3>1, <3>4, <3>5 DEF PreprocessGood
      <3>9. TranscriptGood(m)' /\ TranslationGood(m)'
        BY <1>G, <3>1, <3>4, <3>5 DEF TranscriptGood, TranslationGood
      <3> QED
        BY <3>6, <3>7, <3>8, <3>9
    <2> QED
      BY <1>5, <2>1, <2>2 DEF Detect
  <1>6. CASE Preprocess
    <2>1. CASE UNCHANGED processed
      BY <2>1, <1>6, <1>0, CheckpointFrame, Places0 DEF Preprocess
    <2>2. CASE at' = "preprocessing" /\ processed' = [stamp |-> Attempt, holds |-> Broken]
      <3> SUFFICES ASSUME NEW m \in Stt \X Tr
                   PROVE  (ExtractGood(m) /\ CutGood(m) /\ PreprocessGood(m) /\ TranscriptGood(m) /\ TranslationGood(m))'
        BY DEF CheckpointInv
      <3>1. UNCHANGED <<models, audio, saved, completed>> /\ Attempt' = Attempt /\ at = "preprocess"
        BY <1>6 DEF Preprocess, Attempt
      <3>2. PreprocessGood(m)'
        <4>1. at \in Unprocessed /\ processed'.stamp = Attempt
          BY <3>1, <2>2, Places0
        <4>2. \A s \in 1 .. Attempt : s < Attempt => s # processed'.stamp
          BY <4>1, <1>N
        <4> QED
          BY <1>G, <3>1, <4>1, <4>2 DEF PreprocessGood
      <3>3. ExtractGood(m)'
        BY <1>G, <3>1, <2>2, Places0 DEF ExtractGood
      <3>4. CutGood(m)' /\ TranscriptGood(m)' /\ TranslationGood(m)'
        BY <1>G, <3>1 DEF CutGood, TranscriptGood, TranslationGood
      <3> QED
        BY <3>2, <3>3, <3>4
    <2> QED
      BY <1>6, <2>1, <2>2 DEF Preprocess
  <1>7. CASE Preprocessed
    <2> SUFFICES ASSUME NEW m \in Stt \X Tr
                 PROVE  (ExtractGood(m) /\ CutGood(m) /\ PreprocessGood(m) /\ TranscriptGood(m) /\ TranslationGood(m))'
      BY DEF CheckpointInv
    <2>1. /\ UNCHANGED <<models, audio, completed>> /\ Attempt' = Attempt /\ at = "preprocessing" /\ at' = "transcribe"
          /\ at' \notin Unextracted /\ at' \notin Unprocessed /\ at \in Unprocessed /\ Attempt \in 1 .. Attempt
      BY <1>7, <1>C, Places0 DEF Preprocessed, Attempt
    <2>2. /\ DOMAIN saved' = DOMAIN saved \cup {Key("preprocess")}
          /\ saved'[Key("preprocess")] = [result |-> now.cut, stamps |-> <<processed.stamp>>]
          /\ \A k \in DOMAIN saved : k # Key("preprocess") => saved'[k] = saved[k]
      BY <1>7 DEF Preprocessed, Save, Extend
    <2>3. processed' = [stamp |-> Attempt, holds |-> now.cut] /\ processed.stamp = Attempt
      BY <1>7, <1>0 DEF Preprocessed, StageTypes, HoldingInv, Broken
    <2>4. \A name \in {"extract", "vocalizations", "transcribe", "translate"} :
             /\ <<m, name>> \in DOMAIN saved' <=> <<m, name>> \in DOMAIN saved
             /\ <<m, name>> \in DOMAIN saved => saved'[<<m, name>>] = saved[<<m, name>>]
      BY <2>2 DEF Key
    <2>5. PreprocessGood(m)'
      <3>1. CASE <<m, "preprocess">> = Key("preprocess")
        <4>1. m = models[Attempt]
          BY <3>1 DEF Key
        <4>2. <<m, "vocalizations">> \in DOMAIN saved /\ now.cut = saved[<<m, "vocalizations">>].result
          BY <4>1, <1>0, <2>1 DEF HoldingInv, Key
        <4> QED
          BY <3>1, <4>2, <2>1, <2>2, <2>3, <2>4 DEF PreprocessGood
      <3>2. CASE <<m, "preprocess">> # Key("preprocess")
        <4>1. \A s \in 1 .. Attempt : s < Attempt => s # processed'.stamp
          BY <2>3, <1>N
        <4> QED
          BY <3>2, <4>1, <1>G, <2>1, <2>2, <2>4 DEF PreprocessGood
      <3> QED
        BY <3>1, <3>2
    <2>6. ExtractGood(m)'
      BY <1>G, <2>1, <2>4 DEF ExtractGood
    <2>7. CutGood(m)' /\ TranscriptGood(m)' /\ TranslationGood(m)'
      BY <1>G, <2>1, <2>4 DEF CutGood, TranscriptGood, TranslationGood
    <2> QED
      BY <2>5, <2>6, <2>7
  <1>8. ASSUME NEW w \in Parts, Hear(w)
        PROVE  CheckpointInv'
    BY <1>8, <1>0, CheckpointFrame DEF Hear
  <1>9. CASE Transcribed
    <2>1. CASE UNCHANGED saved
      BY <2>1, <1>9, <1>0, CheckpointFrame, Places0 DEF Transcribed
    <2>2. CASE Save("transcribe", [heard |-> now'.heard, text |-> now'.text], <<>>) /\ DOMAIN Heard = Parts
               /\ now' = [now EXCEPT !.heard = processed.holds, !.text = Heard]
      <3> SUFFICES ASSUME NEW m \in Stt \X Tr
                   PROVE  (ExtractGood(m) /\ CutGood(m) /\ PreprocessGood(m) /\ TranscriptGood(m) /\ TranslationGood(m))'
        BY DEF CheckpointInv
      <3>1. /\ UNCHANGED <<models, audio, processed, completed>> /\ Attempt' = Attempt /\ at = "transcribe" /\ at' = "restore"
            /\ at' \notin Unextracted /\ at' \notin Unprocessed
        BY <1>9, Places0 DEF Transcribed, Attempt
      <3>2. /\ DOMAIN saved' = DOMAIN saved \cup {Key("transcribe")}
            /\ saved'[Key("transcribe")] = [result |-> [heard |-> now'.heard, text |-> now'.text], stamps |-> <<>>]
            /\ \A k \in DOMAIN saved : k # Key("transcribe") => saved'[k] = saved[k]
        BY <2>2 DEF Save, Extend
      <3>3. now'.heard = processed.holds /\ now'.text = Heard
        BY <2>2, <1>0 DEF StageTypes
      <3>4. \A name \in {"extract", "vocalizations", "preprocess", "translate"} :
               /\ <<m, name>> \in DOMAIN saved' <=> <<m, name>> \in DOMAIN saved
               /\ <<m, name>> \in DOMAIN saved => saved'[<<m, name>>] = saved[<<m, name>>]
        BY <3>2 DEF Key
      <3>5. TranscriptGood(m)'
        <4>1. CASE <<m, "transcribe">> = Key("transcribe")
          <5>1. m = models[Attempt]
            BY <4>1 DEF Key
          <5>2. <<m, "preprocess">> \in DOMAIN saved /\ saved[<<m, "preprocess">>].stamps = <<processed.stamp>>
            BY <5>1, <1>0, <3>1 DEF HoldingInv, Key, Reusable
          <5>3. <<m, "vocalizations">> \in DOMAIN saved /\ processed.holds = saved[<<m, "vocalizations">>].result
            BY <5>2, <1>G DEF PreprocessGood
          <5> QED
            BY <4>1, <5>3, <2>2, <3>2, <3>3, <3>4 DEF TranscriptGood
        <4>2. CASE <<m, "transcribe">> # Key("transcribe")
          BY <4>2, <1>G, <3>1, <3>2, <3>4 DEF TranscriptGood
        <4> QED
          BY <4>1, <4>2
      <3>6. ExtractGood(m)'
        BY <1>G, <3>1, <3>4 DEF ExtractGood
      <3>7. PreprocessGood(m)'
        BY <1>G, <3>1, <3>4 DEF PreprocessGood
      <3>8. CutGood(m)' /\ TranslationGood(m)'
        BY <1>G, <3>1, <3>4 DEF CutGood, TranslationGood
      <3> QED
        BY <3>5, <3>6, <3>7, <3>8
    <2> QED
      BY <1>9, <2>1, <2>2 DEF Transcribed
  <1>10. CASE Restore
    BY <1>10, <1>0, CheckpointFrame, Places0 DEF Restore
  <1>11. CASE Complete
    <2> SUFFICES ASSUME NEW m \in Stt \X Tr
                 PROVE  (ExtractGood(m) /\ CutGood(m) /\ PreprocessGood(m) /\ TranscriptGood(m) /\ TranslationGood(m))'
      BY DEF CheckpointInv
    <2>1. /\ UNCHANGED <<models, audio, processed, saved>> /\ Attempt' = Attempt
          /\ at' \notin Unextracted /\ at' \notin Unprocessed
      BY <1>11, Places0 DEF Complete, Attempt
    <2>2. TranslationGood(m)'
      BY <1>11, <1>0, <1>G DEF TranslationGood, CompletedInv, Complete
    <2>3. ExtractGood(m)'
      BY <1>G, <2>1 DEF ExtractGood
    <2>4. PreprocessGood(m)'
      BY <1>G, <2>1 DEF PreprocessGood
    <2>5. CutGood(m)' /\ TranscriptGood(m)'
      BY <1>G, <2>1 DEF CutGood, TranscriptGood
    <2> QED
      BY <2>2, <2>3, <2>4, <2>5
  <1>12. CASE Ask
    BY <1>12, <1>0, CheckpointFrame DEF Ask
  <1>13. CASE Translated
    <2>1. CASE UNCHANGED saved
      BY <2>1, <1>13, <1>0, CheckpointFrame, Places0 DEF Translated
    <2>2. CASE Save("translate", TextKey, <<>>)
      <3> SUFFICES ASSUME NEW m \in Stt \X Tr
                   PROVE  (ExtractGood(m) /\ CutGood(m) /\ PreprocessGood(m) /\ TranscriptGood(m) /\ TranslationGood(m))'
        BY DEF CheckpointInv
      <3>1. /\ UNCHANGED <<models, audio, processed, completed>> /\ Attempt' = Attempt /\ at = "translate"
            /\ at' \notin Unextracted /\ at' \notin Unprocessed
        BY <1>13, Places0 DEF Translated, Attempt
      <3>2. /\ DOMAIN saved' = DOMAIN saved \cup {Key("translate")}
            /\ saved'[Key("translate")] = [result |-> TextKey, stamps |-> <<>>]
            /\ \A k \in DOMAIN saved : k # Key("translate") => saved'[k] = saved[k]
        BY <2>2 DEF Save, Extend
      <3>4. \A name \in {"extract", "vocalizations", "preprocess", "transcribe"} :
               /\ <<m, name>> \in DOMAIN saved' <=> <<m, name>> \in DOMAIN saved
               /\ <<m, name>> \in DOMAIN saved => saved'[<<m, name>>] = saved[<<m, name>>]
        BY <3>2 DEF Key
      <3>5. TranslationGood(m)'
        <4>1. CASE <<m, "translate">> = Key("translate")
          <5>1. m = models[Attempt]
            BY <4>1 DEF Key
          <5>2. TextKey = <<m[2], completed.text>> /\ completed.heard # Unknown
            BY <5>1, <1>0, <3>1 DEF CompletedInv, TextKey, tr
          <5> QED
            BY <4>1, <5>2, <3>1, <3>2 DEF TranslationGood
        <4>2. CASE <<m, "translate">> # Key("translate")
          BY <4>2, <1>G, <3>1, <3>2 DEF TranslationGood
        <4> QED
          BY <4>1, <4>2
      <3>6. ExtractGood(m)'
        BY <1>G, <3>1, <3>4 DEF ExtractGood
      <3>7. PreprocessGood(m)'
        BY <1>G, <3>1, <3>4 DEF PreprocessGood
      <3>8. CutGood(m)' /\ TranscriptGood(m)'
        BY <1>G, <3>1, <3>4 DEF CutGood, TranscriptGood
      <3> QED
        BY <3>5, <3>6, <3>7, <3>8
    <2> QED
      BY <1>13, <2>1, <2>2 DEF Translated
  <1>14. CASE End
    BY <1>14, <1>0, CheckpointFrame, Places0 DEF End
  <1> QED
    BY <1>1, <1>2, <1>3, <1>4, <1>5, <1>6, <1>7, <1>8, <1>9, <1>10, <1>11, <1>12, <1>13, <1>14 DEF StagesNext

-------------------------------------------------------------------------------
\* What the attempt holds, and what it makes of it.
LEMMA HoldingStep ==
    ASSUME ResultsSound, StagesNext
    PROVE  HoldingInv' /\ ClockRight' /\ NeverRefused'
  <1>0. StageTypes /\ CheckpointInv /\ HoldingInv /\ CompletedInv /\ ClockRight /\ NeverRefused
    BY DEF ResultsSound, ResultsInv
  <1>C. at # "idle" => /\ models[Attempt] \in Stt \X Tr /\ Attempt \in Nat /\ Attempt > 0
                       /\ ExtractGood(models[Attempt]) /\ CutGood(models[Attempt]) /\ PreprocessGood(models[Attempt])
                       /\ TranscriptGood(models[Attempt])
    BY <1>0, CurrentModels DEF CheckpointInv
  <1>1. CASE BeginAttempt
    BY <1>1 DEF BeginAttempt, HoldingInv, ClockRight, NeverRefused
  <1>2. CASE LoadCompleted
    BY <1>2, <1>0 DEF LoadCompleted, CompletedInv, HoldingInv, ClockRight, NeverRefused
  <1>3. CASE Extract
    <2>1. CASE Reusable("extract", <<audio.stamp>>) /\ at' = "detect" /\ UNCHANGED audio
      <3>1. audio.holds = "audio"
        BY <2>1, <1>3, <1>C DEF Extract, Reusable, Key, ExtractGood
      <3> QED
        BY <3>1, <2>1 DEF HoldingInv, ClockRight, NeverRefused
    <2>2. CASE at' = "extracting" /\ audio' = [stamp |-> Attempt, holds |-> Broken]
      BY <2>2, <1>3 DEF Extract, HoldingInv, ClockRight, NeverRefused, Attempt
    <2> QED
      BY <2>1, <2>2, <1>3 DEF Extract
  <1>4. CASE Extracted
    <2>1. audio' = [stamp |-> audio.stamp, holds |-> "audio"] /\ at' = "detect"
      BY <1>4, <1>0 DEF Extracted, StageTypes
    <2> QED
      BY <2>1 DEF HoldingInv, ClockRight, NeverRefused
  <1>5. CASE Detect
    <2>1. at' = "preprocess" /\ audio'.holds = "audio" /\ Key("vocalizations")' = Key("vocalizations")
      BY <1>5, <1>0 DEF Detect, HoldingInv, Key, Attempt
    <2>2. Key("vocalizations") \in DOMAIN saved' /\ now'.cut = saved'[Key("vocalizations")].result
      <3>1. CASE Reusable("vocalizations", <<>>) /\ now' = [now EXCEPT !.cut = saved[Key("vocalizations")].result]
                 /\ UNCHANGED saved
        BY <3>1, <1>0 DEF StageTypes, Reusable
      <3>2. CASE \E c \in Cuts : now' = [now EXCEPT !.cut = c] /\ Save("vocalizations", c, <<>>)
        BY <3>2, <1>0 DEF StageTypes, Save, Extend
      <3> QED
        BY <3>1, <3>2, <1>5 DEF Detect
    <2> QED
      BY <2>1, <2>2 DEF HoldingInv, ClockRight, NeverRefused
  <1>6. CASE Preprocess
    <2>0. /\ UNCHANGED <<models, audio, saved>> /\ at = "preprocess" /\ audio.holds = "audio"
          /\ Key("vocalizations") \in DOMAIN saved /\ now.cut = saved[Key("vocalizations")].result
          /\ \A name : Key(name)' = Key(name)
      BY <1>6, <1>0 DEF Preprocess, HoldingInv, Key, Attempt
    <2>1. CASE Reusable("preprocess", <<processed.stamp>>) /\ now' = [now EXCEPT !.spans = saved[Key("preprocess")].result]
               /\ at' = "transcribe" /\ UNCHANGED processed
      <3>1. now'.spans = saved[Key("preprocess")].result /\ now'.cut = now.cut
        BY <2>1, <1>0 DEF StageTypes
      <3>2. saved[Key("preprocess")].result = saved[Key("vocalizations")].result
        BY <2>0, <2>1, <1>C DEF PreprocessGood, Reusable, Key
      <3>3. Reusable("preprocess", <<processed.stamp>>)'
        BY <2>0, <2>1 DEF Reusable
      <3> QED
        BY <2>0, <2>1, <3>1, <3>2, <3>3 DEF HoldingInv, ClockRight, NeverRefused
    <2>2. CASE at' = "preprocessing" /\ processed' = [stamp |-> Attempt, holds |-> Broken] /\ UNCHANGED now
      BY <2>0, <2>2 DEF HoldingInv, ClockRight, NeverRefused, Attempt
    <2> QED
      BY <2>1, <2>2, <1>6 DEF Preprocess
  <1>7. CASE Preprocessed
    <2>0. /\ at' = "transcribe" /\ Key("vocalizations") \in DOMAIN saved /\ now.cut = saved[Key("vocalizations")].result
          /\ \A name : Key(name)' = Key(name)
      BY <1>7, <1>0 DEF Preprocessed, HoldingInv, Key, Attempt
    <2>1. now'.spans = now.cut /\ now'.cut = now.cut /\ processed'.stamp = processed.stamp
      BY <1>7, <1>0 DEF Preprocessed, StageTypes
    <2>2. /\ DOMAIN saved' = DOMAIN saved \cup {Key("preprocess")}
          /\ saved'[Key("preprocess")] = [result |-> now.cut, stamps |-> <<processed.stamp>>]
          /\ \A k \in DOMAIN saved : k # Key("preprocess") => saved'[k] = saved[k]
      BY <1>7 DEF Preprocessed, Save, Extend
    <2>3. Reusable("preprocess", <<processed.stamp>>)'
      BY <2>0, <2>1, <2>2 DEF Reusable
    <2>4. saved'[Key("vocalizations")] = saved[Key("vocalizations")]
      BY <2>0, <2>2 DEF Key
    <2> QED
      BY <2>0, <2>1, <2>2, <2>3, <2>4 DEF HoldingInv, ClockRight, NeverRefused
  <1>8. ASSUME NEW w \in Parts, Hear(w)
        PROVE  HoldingInv' /\ ClockRight' /\ NeverRefused'
    <2>1. UNCHANGED <<models, at, audio, processed, saved, crossing, now>> /\ at = "transcribe"
      BY <1>8 DEF Hear
    <2>2. (\A name : Key(name)' = Key(name)) /\ Reusable("preprocess", <<processed.stamp>>)' = Reusable("preprocess", <<processed.stamp>>)
      BY <2>1 DEF Key, Reusable, Attempt
    <2> QED
      BY <2>1, <2>2, <1>0 DEF HoldingInv, ClockRight, NeverRefused
  <1>9. CASE Transcribed
    <2>0. /\ at' = "restore" /\ now.spans = now.cut /\ now.cut = saved[Key("vocalizations")].result
          /\ Key("vocalizations") \in DOMAIN saved /\ Reusable("preprocess", <<processed.stamp>>)
      BY <1>9, <1>0 DEF Transcribed, HoldingInv
    <2>1. now.spans \in Cuts
      BY <2>0, <1>9, <1>C DEF CutGood, Transcribed, Key
    <2>2. now'.heard = now.spans /\ now'.spans = now.spans /\ DOMAIN now'.text = Parts
      <3>1. CASE /\ Reusable("transcribe", <<>>)
                 /\ now' = [now EXCEPT !.heard = saved[Key("transcribe")].result.heard, !.text = saved[Key("transcribe")].result.text]
        <4>1. saved[Key("transcribe")].result.heard = now.spans /\ DOMAIN saved[Key("transcribe")].result.text = Parts
          BY <3>1, <2>0, <1>9, <1>C DEF TranscriptGood, Transcribed, Reusable, Key
        <4> QED
          BY <3>1, <4>1, <1>0 DEF StageTypes
      <3>2. CASE DOMAIN Heard = Parts /\ now' = [now EXCEPT !.heard = processed.holds, !.text = Heard]
        <4>1. processed.holds = saved[Key("preprocess")].result
          BY <2>0, <1>9, <1>C DEF PreprocessGood, Transcribed, Reusable, Key
        <4>2. saved[Key("preprocess")].result = saved[Key("vocalizations")].result
          BY <2>0, <1>9, <1>C DEF PreprocessGood, Transcribed, Reusable, Key
        <4> QED
          BY <3>2, <4>1, <4>2, <2>0, <1>0 DEF StageTypes
      <3> QED
        BY <3>1, <3>2, <1>9 DEF Transcribed
    <2> QED
      BY <2>0, <2>1, <2>2 DEF HoldingInv, ClockRight, NeverRefused
  <1>10. CASE Restore
    BY <1>10, <1>0 DEF Restore, HoldingInv, ClockRight, NeverRefused
  <1>11. CASE Complete
    BY <1>11, <1>0 DEF Complete, HoldingInv, ClockRight, NeverRefused
  <1>12. CASE Ask
    BY <1>12 DEF Ask, HoldingInv, ClockRight, NeverRefused
  <1>13. CASE Translated
    <2>1. Key("translate")' = Key("translate") /\ at' = "translated"
      BY <1>13 DEF Translated, Key, Attempt
    <2>2. Key("translate") \in DOMAIN saved'
      BY <1>13 DEF Translated, Reusable, Save, Extend
    <2> QED
      BY <2>1, <2>2 DEF HoldingInv, ClockRight, NeverRefused
  <1>14. CASE End
    BY <1>14 DEF End, HoldingInv, ClockRight, NeverRefused
  <1> QED
    BY <1>1, <1>2, <1>3, <1>4, <1>5, <1>6, <1>7, <1>8, <1>9, <1>10, <1>11, <1>12, <1>13, <1>14 DEF StagesNext

\* The transcript that was completed first stays, and is what everyone translates.
LEMMA CompletedStep ==
    ASSUME ResultsSound, StagesNext
    PROVE  CompletedInv'
  <1>0. StageTypes /\ HoldingInv /\ CompletedInv /\ ClockRight
    BY DEF ResultsSound, ResultsInv
  <1>1. CASE BeginAttempt
    BY <1>1, <1>0 DEF BeginAttempt, CompletedInv
  <1>2. CASE LoadCompleted
    <2>1. now' = [now EXCEPT !.text = completed.text] => now'.text = completed.text
      BY <1>0 DEF StageTypes
    <2> QED
      BY <1>2, <1>0, <2>1 DEF LoadCompleted, CompletedInv
  <1>3. CASE Extract \/ Extracted \/ Detect \/ Preprocess \/ Preprocessed \/ Transcribed
    BY <1>3, <1>0 DEF Extract, Extracted, Detect, Preprocess, Preprocessed, Transcribed, CompletedInv
  <1>4. ASSUME NEW w \in Parts, Hear(w)
        PROVE  CompletedInv'
    BY <1>4, <1>0 DEF Hear, CompletedInv
  <1>5. CASE Restore
    BY <1>5, <1>0 DEF Restore, CompletedInv
  <1>6. CASE Complete
    <2>1. CASE at = "complete"
      <3>1. crossing = now.text /\ now.heard # Unknown
        BY <2>1, <1>0, CutNames DEF HoldingInv, ClockRight
      <3>2. completed'.heard = now.heard /\ completed'.text = now.text /\ at' = "list" /\ UNCHANGED <<crossing, now, listed>>
        BY <2>1, <1>6 DEF Complete
      <3> QED
        BY <3>1, <3>2 DEF CompletedInv
    <2>2. CASE at = "list"
      BY <2>2, <1>6, <1>0 DEF Complete, CompletedInv
    <2> QED
      BY <2>1, <2>2, <1>6 DEF Complete
  <1>7. CASE Ask \/ Translated
    BY <1>7, <1>0 DEF Ask, Translated, CompletedInv
  <1>8. CASE End
    BY <1>8, <1>0 DEF End, CompletedInv
  <1> QED
    BY <1>1, <1>2, <1>3, <1>4, <1>5, <1>6, <1>7, <1>8 DEF StagesNext

-------------------------------------------------------------------------------
\* A step that leaves the processed audio, its checkpoint and the answers alone.
LEMMA AnswersFrame ==
    ASSUME StageTypes, AnswersInv, UNCHANGED <<models, processed, heard, answered>>, at' # "preprocessing",
           UNCHANGED saved \/ \E name, result, stamps : name # "preprocess" /\ Save(name, result, stamps)
    PROVE  AnswersInv'
  <1>1. Attempt' = Attempt /\ AudioKey' = AudioKey /\ Key("preprocess")' = Key("preprocess")
    BY DEF Attempt, AudioKey, Key, stt
  <1>2. Key("preprocess") \in DOMAIN saved =>
           Key("preprocess") \in DOMAIN saved' /\ saved'[Key("preprocess")] = saved[Key("preprocess")]
    <2>1. ASSUME NEW name, NEW result, NEW stamps, name # "preprocess", Save(name, result, stamps)
          PROVE  Key("preprocess") \in DOMAIN saved =>
                    Key("preprocess") \in DOMAIN saved' /\ saved'[Key("preprocess")] = saved[Key("preprocess")]
      BY <2>1 DEF Save, Extend, Key
    <2> QED
      BY <2>1
  <1>3. Reusable("preprocess", <<processed.stamp>>) => Reusable("preprocess", <<processed.stamp>>)'
    BY <1>1, <1>2 DEF Reusable
  <1> QED
    BY <1>1, <1>3 DEF AnswersInv

LEMMA AnswersStep ==
    ASSUME ResultsSound, StagesNext
    PROVE  AnswersInv' /\ PaidOnce'
  <1>0. StageTypes /\ CheckpointInv /\ HoldingInv /\ AnswersInv /\ PaidOnce
    BY DEF ResultsSound, ResultsInv
  <1>N. Attempt \in Nat /\ \A a \in answered : a.attempt \in 1 .. Attempt
    BY <1>0 DEF StageTypes, Attempt
  <1>K. ASSUME UNCHANGED <<models, answered>>
        PROVE  PaidOnce'
    BY <1>K, <1>0 DEF PaidOnce
  <1>1. CASE BeginAttempt
    <2>1. PICK m \in Stt \X Tr : models' = Append(models, m)
      BY <1>1 DEF BeginAttempt
    <2>2. /\ Attempt' = Attempt + 1 /\ models'[Attempt'] = m /\ (\A n \in 1 .. Attempt : models'[n] = models[n])
          /\ UNCHANGED <<processed, saved, heard, answered>> /\ at' = "load"
      <3>1. UNCHANGED <<processed, saved, heard, answered>> /\ at' = "load"
        BY <1>1 DEF BeginAttempt
      <3>2. models \in Seq(Stt \X Tr) /\ Len(models) \in Nat
        BY <1>0 DEF StageTypes
      <3>3. Len(models') = Len(models) + 1 /\ models'[Len(models) + 1] = m /\ \A n \in 1 .. Len(models) : models'[n] = models[n]
        BY <2>1, <3>2
      <3> QED
        BY <3>1, <3>3 DEF Attempt
    <2>3. PaidOnce'
      <3> SUFFICES ASSUME NEW a \in answered, NEW b \in answered, a.window = b.window, a.attempt < b.attempt
                   PROVE  \E n \in a.attempt .. b.attempt : models'[n] # models'[b.attempt]
        BY <2>2 DEF PaidOnce
      <3>1. PICK n \in a.attempt .. b.attempt : models[n] # models[b.attempt]
        BY <1>0 DEF PaidOnce
      <3>2. n \in 1 .. Attempt /\ b.attempt \in 1 .. Attempt
        BY <1>N
      <3> QED
        BY <2>2, <3>1, <3>2
    <2>4. AnswersInv'
      <3> SUFFICES ASSUME NEW a \in answered, \A n \in a.attempt .. Attempt' : models'[n] = models'[Attempt']
                   PROVE  /\ at' # "preprocessing"
                          /\ Reusable("preprocess", <<processed.stamp>>)'
                          /\ AudioKey' \in DOMAIN heard' /\ a.window \in DOMAIN heard'[AudioKey']
        BY <2>2 DEF AnswersInv
      <3>1. a.attempt \in 1 .. Attempt
        BY <1>N
      <3>2. Attempt \in a.attempt .. Attempt' /\ a.attempt .. Attempt \subseteq a.attempt .. Attempt'
        BY <3>1, <2>2, <1>N
      <3>3. models[Attempt] = models'[Attempt']
        BY <3>1, <3>2, <2>2, <1>N
      <3>4. \A n \in a.attempt .. Attempt : models[n] = models[Attempt]
        <4> TAKE n \in a.attempt .. Attempt
        <4>1. n \in 1 .. Attempt /\ n \in a.attempt .. Attempt'
          BY <3>1, <3>2, <1>N
        <4> QED
          BY <4>1, <3>3, <2>2
      <3>5. Reusable("preprocess", <<processed.stamp>>) /\ AudioKey \in DOMAIN heard /\ a.window \in DOMAIN heard[AudioKey]
        BY <3>4, <1>0 DEF AnswersInv
      <3>6. Key("preprocess")' = Key("preprocess") /\ AudioKey' = AudioKey
        BY <3>3, <2>2 DEF Key, AudioKey, stt
      <3> QED
        BY <3>5, <3>6, <2>2 DEF Reusable
    <2> QED
      BY <2>3, <2>4
  <1>2. CASE LoadCompleted \/ Extract \/ Restore \/ Complete \/ Ask \/ End
    BY <1>2, <1>0, <1>K, AnswersFrame DEF LoadCompleted, Extract, Restore, Complete, Ask, End
  <1>3. CASE Extracted
    <2>1. \E name, result, stamps : name # "preprocess" /\ Save(name, result, stamps)
      BY <1>3 DEF Extracted
    <2> QED
      BY <2>1, <1>3, <1>0, <1>K, AnswersFrame DEF Extracted
  <1>4. CASE Detect
    <2>1. UNCHANGED saved \/ \E name, result, stamps : name # "preprocess" /\ Save(name, result, stamps)
      BY <1>4 DEF Detect
    <2> QED
      BY <2>1, <1>4, <1>0, <1>K, AnswersFrame DEF Detect
  <1>5. CASE Preprocess
    <2>1. CASE UNCHANGED processed /\ at' = "transcribe"
      BY <2>1, <1>5, <1>0, <1>K, AnswersFrame DEF Preprocess
    <2>2. CASE ~Reusable("preprocess", <<processed.stamp>>)
      <3>1. \A a \in answered : \E n \in a.attempt .. Attempt : models[n] # models[Attempt]
        BY <2>2, <1>0 DEF AnswersInv
      <3>2. UNCHANGED <<models, answered>> /\ Attempt' = Attempt
        BY <1>5 DEF Preprocess, Attempt
      <3>3. AnswersInv'
        BY <3>1, <3>2 DEF AnswersInv
      <3> QED
        BY <3>2, <3>3, <1>K
    <2> QED
      BY <2>1, <2>2, <1>5 DEF Preprocess
  <1>6. CASE Preprocessed
    <2>1. \A a \in answered : \E n \in a.attempt .. Attempt : models[n] # models[Attempt]
      BY <1>6, <1>0 DEF AnswersInv, Preprocessed
    <2>2. UNCHANGED <<models, answered>> /\ Attempt' = Attempt
      BY <1>6 DEF Preprocessed, Attempt
    <2>3. AnswersInv'
      BY <2>1, <2>2 DEF AnswersInv
    <2> QED
      BY <2>2, <2>3, <1>K
  <1>7. ASSUME NEW w \in Parts, Hear(w)
        PROVE  AnswersInv' /\ PaidOnce'
    <2> DEFINE b == [attempt |-> Attempt, stt |-> stt, audio |-> processed.holds, window |-> w]
    <2>1. /\ UNCHANGED <<models, at, processed, saved>> /\ at = "transcribe" /\ w \notin DOMAIN Heard
          /\ heard' = Extend(heard, AudioKey, Extend(Heard, w, Attempt)) /\ answered' = answered \cup {b}
      BY <1>7 DEF Hear
    <2>2. Attempt' = Attempt /\ AudioKey' = AudioKey /\ Key("preprocess")' = Key("preprocess")
      BY <2>1 DEF Attempt, AudioKey, Key, stt
    <2>3. /\ AudioKey \in DOMAIN heard' /\ w \in DOMAIN heard'[AudioKey]
          /\ \A v : AudioKey \in DOMAIN heard /\ v \in DOMAIN heard[AudioKey] => v \in DOMAIN heard'[AudioKey]
      BY <2>1 DEF Extend, Heard
    <2>4. Reusable("preprocess", <<processed.stamp>>) /\ Reusable("preprocess", <<processed.stamp>>)'
      BY <2>1, <2>2, <1>0 DEF HoldingInv, Reusable
    <2>5. AnswersInv'
      <3> SUFFICES ASSUME NEW a \in answered', \A n \in a.attempt .. Attempt : models[n] = models[Attempt]
                   PROVE  a.window \in DOMAIN heard'[AudioKey]
        BY <2>1, <2>2, <2>3, <2>4 DEF AnswersInv
      <3>1. CASE a \in answered
        BY <3>1, <2>3, <1>0 DEF AnswersInv
      <3>2. CASE a = b
        BY <3>2, <2>3
      <3> QED
        BY <3>1, <3>2, <2>1
    <2>6. PaidOnce'
      <3> SUFFICES ASSUME NEW a \in answered', NEW c \in answered', a.window = c.window, a.attempt < c.attempt
                   PROVE  \E n \in a.attempt .. c.attempt : models[n] # models[c.attempt]
        BY <2>1 DEF PaidOnce
      <3>1. b.attempt = Attempt /\ b.window = w
        OBVIOUS
      <3>2. a \in answered
        BY <3>1, <2>1, <1>N
      <3>3. CASE c \in answered
        BY <3>2, <3>3, <1>0 DEF PaidOnce
      <3>4. CASE c = b
        <4>1. ~(AudioKey \in DOMAIN heard /\ w \in DOMAIN heard[AudioKey])
          BY <2>1 DEF Heard
        <4>2. \E n \in a.attempt .. Attempt : models[n] # models[Attempt]
          BY <3>1, <3>2, <3>4, <4>1, <1>0 DEF AnswersInv
        <4> QED
          BY <3>1, <3>4, <4>2
      <3> QED
        BY <3>3, <3>4, <2>1
    <2> QED
      BY <2>5, <2>6
  <1>8. CASE Transcribed
    <2>1. UNCHANGED saved \/ \E name, result, stamps : name # "preprocess" /\ Save(name, result, stamps)
      BY <1>8 DEF Transcribed
    <2> QED
      BY <2>1, <1>8, <1>0, <1>K, AnswersFrame DEF Transcribed
  <1>9. CASE Translated
    <2>1. UNCHANGED saved \/ \E name, result, stamps : name # "preprocess" /\ Save(name, result, stamps)
      BY <1>9 DEF Translated
    <2> QED
      BY <2>1, <1>9, <1>0, <1>K, AnswersFrame DEF Translated
  <1> QED
    BY <1>1, <1>2, <1>3, <1>4, <1>5, <1>6, <1>7, <1>8, <1>9 DEF StagesNext

-------------------------------------------------------------------------------
\* What is translated, and what is shown of it, follow.
LEMMA TranslationsFit ==
    ASSUME ResultsInv
    PROVE  CrossingFits /\ TranslationFits
  <1>1. CrossingFits
    BY DEF ResultsInv, CompletedInv, CrossingFits
  <1>2. ASSUME at = "translated"
        PROVE  saved[Key("translate")].result = TextKey
    <2>1. models[Attempt] \in Stt \X Tr /\ Key("translate") \in DOMAIN saved /\ completed.text = now.text
      BY <1>2, CurrentModels DEF ResultsInv, HoldingInv, CompletedInv
    <2>2. saved[Key("translate")].result = <<models[Attempt][2], completed.text>>
      BY <2>1 DEF ResultsInv, CheckpointInv, TranslationGood, Key
    <2> QED
      BY <2>1, <2>2 DEF TextKey, tr
  <1> QED
    BY <1>1, <1>2 DEF TranslationFits

\* StageResults: what an attempt takes over from earlier ones, with whichever
\* models and wherever they ended, is right for it, and paid for once.
THEOREM ResultsAreSound == StagesSpec => []ResultsSound
  <1>1. StagesInit => ResultsSound
    BY StagesBegin
  <1>2. ResultsSound /\ [StagesNext]_stageVars => ResultsSound'
    <2> SUFFICES ASSUME ResultsSound, [StagesNext]_stageVars PROVE ResultsSound'
      OBVIOUS
    <2>1. CASE StagesNext
      <3>1. ResultsInv' /\ ClockRight' /\ NeverRefused' /\ PaidOnce'
        BY <2>1, TypesStep, CheckpointStep, HoldingStep, CompletedStep, AnswersStep DEF ResultsInv
      <3>2. CrossingFits' /\ TranslationFits'
        BY <3>1, TranslationsFit, PTL
      <3> QED
        BY <3>1, <3>2 DEF ResultsSound
    <2>2. CASE UNCHANGED stageVars
      <3>1. StageTypes' /\ HoldingInv' /\ CompletedInv'
        BY <2>2 DEF stageVars, ResultsSound, ResultsInv, StageTypes, HoldingInv, CompletedInv, Reusable, Key, Attempt
      <3>2. CheckpointInv'
        BY <2>2, CheckpointFrame DEF stageVars, ResultsSound, ResultsInv
      <3>3. AnswersInv'
        BY <2>2 DEF stageVars, ResultsSound, ResultsInv, AnswersInv, Reusable, Key, AudioKey, stt, Attempt
      <3>4. ClockRight' /\ NeverRefused' /\ PaidOnce'
        BY <2>2 DEF stageVars, ResultsSound, ClockRight, NeverRefused, PaidOnce
      <3>5. CrossingFits' /\ TranslationFits'
        BY <3>1, <3>2, <3>3, TranslationsFit, PTL DEF ResultsInv
      <3> QED
        BY <3>1, <3>2, <3>3, <3>4, <3>5 DEF ResultsSound, ResultsInv
    <2> QED
      BY <2>1, <2>2
  <1> QED
    BY <1>1, <1>2, PTL DEF StagesSpec

-------------------------------------------------------------------------------
(***************************************************************************)
(* Sequences that correspond to one another.                               *)
(***************************************************************************)
\* Sequences whose elements correspond, all of them or as far as the first goes.
Alike(R, s, t) == Len(s) = Len(t) /\ \A k \in DOMAIN s : <<s[k], t[k]>> \in R
Leads(R, s, t) == Len(s) <= Len(t) /\ \A k \in DOMAIN s : <<s[k], t[k]>> \in R

\* Corresponding sequences, joined in pairs.
LEMMA AlikeJoined ==
    ASSUME NEW T, NEW U, NEW R, NEW s \in Seq(T), NEW p \in Seq(T), NEW t \in Seq(U), NEW q \in Seq(U),
           Alike(R, s, t), Alike(R, p, q)
    PROVE  Alike(R, s \o p, t \o q)
  <1> DEFINE m == Len(s)
             n == Len(p)
             c == s \o p
             d == t \o q
  <1>1. /\ m \in Nat /\ n \in Nat /\ Len(t) = m /\ Len(q) = n
        /\ DOMAIN s = 1..m /\ DOMAIN p = 1..n
        /\ \A k \in 1..m : <<s[k], t[k]>> \in R
        /\ \A k \in 1..n : <<p[k], q[k]>> \in R
    <2>1. m \in Nat /\ n \in Nat /\ DOMAIN s = 1..m /\ DOMAIN p = 1..n
      OBVIOUS
    <2>2. Len(t) = m /\ Len(q) = n
      BY DEF Alike
    <2>3. (\A k \in DOMAIN s : <<s[k], t[k]>> \in R) /\ (\A k \in DOMAIN p : <<p[k], q[k]>> \in R)
      BY DEF Alike
    <2> HIDE DEF m, n
    <2> QED
      BY <2>1, <2>2, <2>3
  <1>2. Len(c) = m + n /\ DOMAIN c = 1..(m + n) /\ \A k \in 1..(m + n) : c[k] = IF k <= m THEN s[k] ELSE p[k - m]
    BY ConcatProperties
  <1>3. Len(d) = m + n /\ \A k \in 1..(m + n) : d[k] = IF k <= m THEN t[k] ELSE q[k - m]
    <2>1. /\ Len(d) = Len(t) + Len(q)
          /\ \A k \in 1..(Len(t) + Len(q)) : d[k] = IF k <= Len(t) THEN t[k] ELSE q[k - Len(t)]
      BY ConcatProperties
    <2>2. Len(t) = m /\ Len(q) = n
      BY <1>1
    <2> HIDE DEF m, n, d
    <2> QED
      BY <2>1, <2>2
  <1> HIDE DEF m, n, c, d
  <1>4. ASSUME NEW k \in 1..(m + n) PROVE <<c[k], d[k]>> \in R
    <2>1. CASE k <= m
      <3>1. k \in 1..m
        BY <2>1
      <3> QED
        BY <3>1, <2>1, <1>1, <1>2, <1>3
    <2>2. CASE ~(k <= m)
      <3>1. k - m \in 1..n
        BY <2>2, <1>1
      <3> QED
        BY <3>1, <2>2, <1>1, <1>2, <1>3
    <2> QED
      BY <2>1, <2>2
  <1>5. Alike(R, c, d)
    BY <1>2, <1>3, <1>4 DEF Alike
  <1> QED
    BY <1>5 DEF c, d

\* More behind the longer sequence.
LEMMA LeadsJoined ==
    ASSUME NEW T, NEW U, NEW R, NEW s \in Seq(T), NEW t \in Seq(U), NEW q \in Seq(U), Leads(R, s, t)
    PROVE  Leads(R, s, t \o q)
  <1> DEFINE m == Len(s)
             n == Len(t)
             l == Len(q)
             d == t \o q
  <1>1. m \in Nat /\ n \in Nat /\ l \in Nat /\ m <= n /\ DOMAIN s = 1..m /\ \A k \in 1..m : <<s[k], t[k]>> \in R
    BY DEF Leads
  <1>2. Len(d) = n + l /\ \A k \in 1..(n + l) : d[k] = IF k <= n THEN t[k] ELSE q[k - n]
    BY ConcatProperties
  <1> HIDE DEF m, n, l, d
  <1>3. ASSUME NEW k \in 1..m PROVE <<s[k], d[k]>> \in R
    <2>1. k <= n /\ k \in 1..(n + l)
      BY <1>1
    <2> QED
      BY <2>1, <1>1, <1>2
  <1>4. m <= n + l
    BY <1>1
  <1>5. Leads(R, s, d)
    BY <1>1, <1>2, <1>3, <1>4 DEF Leads, m
  <1> QED
    BY <1>5 DEF d

\* Sequences that correspond to their ends do so as far as the first goes.
LEMMA AlikeLeads ==
    ASSUME NEW T, NEW R, NEW s \in Seq(T), NEW t, Alike(R, s, t)
    PROVE  Leads(R, s, t)
  <1>1. Len(s) \in Nat
    OBVIOUS
  <1> QED
    BY <1>1 DEF Alike, Leads

\* What is put together from parts that correspond, up to where there are only
\* empty ones, corresponds.
LEMMA FlattenLeads ==
    ASSUME NEW T, NEW U, NEW R, NEW a \in Seq(Seq(T)), NEW b \in Seq(Seq(U)), Len(a) <= Len(b),
           \A k \in DOMAIN a : Alike(R, a[k], b[k]) \/ \A j \in DOMAIN a : k <= j => a[j] = <<>>
    PROVE  Leads(R, FlattenSeq(a), FlattenSeq(b))
  <1> DEFINE m == Len(a)
             n == Len(b)
  <1>1. m \in Nat /\ n \in Nat /\ m <= n /\ DOMAIN a = 1..m /\ DOMAIN b = 1..n
    OBVIOUS
  <1>2. (\A k \in 1..m : a[k] \in Seq(T)) /\ (\A k \in 1..n : b[k] \in Seq(U))
    OBVIOUS
  <1>3. PICK f : /\ f[0] = <<>> /\ \A k \in 0..m : f[k] \in Seq(T)
                 /\ \A k \in 1..m : f[k] = f[k - 1] \o a[k]
                 /\ FlattenSeq(a) = f[m]
    BY FlattenComputed
  <1>4. PICK g : /\ g[0] = <<>> /\ \A k \in 0..n : g[k] \in Seq(U)
                 /\ \A k \in 1..n : g[k] = g[k - 1] \o b[k]
                 /\ FlattenSeq(b) = g[n]
    BY FlattenComputed
  <1>5. \A k \in 1..m : Alike(R, a[k], b[k]) \/ \A j \in 1..m : k <= j => a[j] = <<>>
    BY <1>1
  <1>6. \A s \in Seq(T) : s \o <<>> = s
    OBVIOUS
  <1> HIDE DEF m, n
  <1> DEFINE S == {k \in 0..m : \/ Alike(R, f[k], g[k])
                                \/ Leads(R, f[k], g[k]) /\ \A j \in 1..m : k < j => a[j] = <<>>}
  <1>7. 0 \in S
    <2>1. Alike(R, <<>>, <<>>)
      BY DEF Alike
    <2> QED
      BY <2>1, <1>1, <1>3, <1>4
  <1>8. \A k \in 1..m : k - 1 \in S => k \in S
    <2> SUFFICES ASSUME NEW k \in 1..m, k - 1 \in S PROVE k \in S
      OBVIOUS
    <2>1. k \in 0..m /\ k \in 1..n /\ k - 1 \in 0..m /\ k - 1 \in 0..n
      BY <1>1
    <2>2. f[k - 1] \in Seq(T) /\ a[k] \in Seq(T) /\ f[k] = f[k - 1] \o a[k]
      BY <2>1, <1>2, <1>3
    <2>3. g[k - 1] \in Seq(U) /\ b[k] \in Seq(U) /\ g[k] = g[k - 1] \o b[k]
      BY <2>1, <1>2, <1>4
    <2>4. \/ Alike(R, f[k - 1], g[k - 1])
          \/ Leads(R, f[k - 1], g[k - 1]) /\ \A j \in 1..m : k - 1 < j => a[j] = <<>>
      OBVIOUS
    <2>5. CASE Alike(R, f[k - 1], g[k - 1]) /\ Alike(R, a[k], b[k])
      <3>1. Alike(R, f[k], g[k])
        BY <2>2, <2>3, <2>5, AlikeJoined
      <3> QED
        BY <2>1, <3>1
    <2>6. CASE Leads(R, f[k - 1], g[k - 1]) /\ \A j \in 1..m : k <= j => a[j] = <<>>
      <3>1. a[k] = <<>>
        BY <2>6, <2>1
      <3>2. f[k] = f[k - 1]
        BY <2>2, <3>1, <1>6
      <3>3. Leads(R, f[k - 1], g[k - 1] \o b[k])
        BY <2>2, <2>3, <2>6, LeadsJoined
      <3>4. Leads(R, f[k], g[k])
        BY <2>3, <3>2, <3>3, Zenon
      <3>5. \A j \in 1..m : k < j => a[j] = <<>>
        BY <2>6
      <3> QED
        BY <2>1, <3>4, <3>5
    <2>7. Alike(R, f[k - 1], g[k - 1]) => Leads(R, f[k - 1], g[k - 1])
      BY <2>2, AlikeLeads
    <2>8. (\A j \in 1..m : k - 1 < j => a[j] = <<>>) => \A j \in 1..m : k <= j => a[j] = <<>>
      <3> SUFFICES ASSUME \A j \in 1..m : k - 1 < j => a[j] = <<>>, NEW j \in 1..m, k <= j PROVE a[j] = <<>>
        OBVIOUS
      <3>1. k - 1 < j
        OBVIOUS
      <3> QED
        BY <3>1
    <2> HIDE DEF S
    <2> QED
      BY <2>4, <2>5, <2>6, <2>7, <2>8, <1>5, Zenon
  <1>9. Leads(R, f[m], g[m])
    <2> HIDE DEF S
    <2>1. \A k \in 0..m : k \in S
      BY <1>1, <1>7, <1>8, Steps
    <2>2. m \in 0..m /\ f[m] \in Seq(T)
      BY <1>1, <1>3
    <2> QED
      BY <2>1, <2>2, AlikeLeads DEF S
  <1> DEFINE Z == {k \in 0..n : m <= k => Leads(R, f[m], g[k])}
  <1>10. 0 \in Z
    <2>1. m <= 0 => m = 0
      BY <1>1
    <2> QED
      BY <2>1, <1>1, <1>9
  <1>11. \A k \in 1..n : k - 1 \in Z => k \in Z
    <2> SUFFICES ASSUME NEW k \in 1..n, k - 1 \in Z, m <= k PROVE Leads(R, f[m], g[k])
      BY <1>1
    <2>1. CASE m = k
      BY <2>1, <1>9
    <2>2. CASE m <= k - 1
      <3>1. Leads(R, f[m], g[k - 1]) /\ f[m] \in Seq(T) /\ g[k - 1] \in Seq(U) /\ b[k] \in Seq(U)
        BY <2>2, <1>1, <1>2, <1>3, <1>4
      <3>2. g[k] = g[k - 1] \o b[k]
        BY <1>4
      <3>3. Leads(R, f[m], g[k - 1] \o b[k])
        BY <3>1, LeadsJoined
      <3> QED
        BY <3>2, <3>3, Zenon
    <2> QED
      BY <2>1, <2>2, <1>1
  <1>12. Leads(R, f[m], g[n])
    <2> HIDE DEF Z
    <2>1. \A k \in 0..n : k \in Z
      BY <1>1, <1>10, <1>11, Steps
    <2>2. n \in 0..n
      BY <1>1
    <2> QED
      BY <2>1, <2>2, <1>1 DEF Z
  <1> QED
    BY <1>3, <1>4, <1>12

\* Corresponding sequences of sequences, flattened.
LEMMA FlattenAlike ==
    ASSUME NEW T, NEW U, NEW R, NEW a \in Seq(Seq(T)), NEW b \in Seq(Seq(U)), Len(a) = Len(b),
           \A k \in DOMAIN a : Alike(R, a[k], b[k])
    PROVE  Alike(R, FlattenSeq(a), FlattenSeq(b))
  <1> DEFINE m == Len(a)
  <1>1. m \in Nat /\ Len(b) = m /\ DOMAIN a = 1..m /\ DOMAIN b = 1..m
    OBVIOUS
  <1>2. (\A k \in 1..m : a[k] \in Seq(T)) /\ (\A k \in 1..m : b[k] \in Seq(U))
    OBVIOUS
  <1>3. PICK f : /\ f[0] = <<>> /\ \A k \in 0..m : f[k] \in Seq(T)
                 /\ \A k \in 1..m : f[k] = f[k - 1] \o a[k]
                 /\ FlattenSeq(a) = f[m]
    BY FlattenComputed
  <1>4. PICK g : /\ g[0] = <<>> /\ \A k \in 0..m : g[k] \in Seq(U)
                 /\ \A k \in 1..m : g[k] = g[k - 1] \o b[k]
                 /\ FlattenSeq(b) = g[m]
    <2>1. PICK g : /\ g[0] = <<>> /\ \A k \in 0..Len(b) : g[k] \in Seq(U)
                   /\ \A k \in 1..Len(b) : g[k] = g[k - 1] \o b[k]
                   /\ FlattenSeq(b) = g[Len(b)]
      BY FlattenComputed
    <2> QED
      BY <2>1, <1>1, Zenon
  <1> HIDE DEF m
  <1> DEFINE S == {k \in 0..m : Alike(R, f[k], g[k])}
  <1>5. 0 \in S
    <2>1. Alike(R, <<>>, <<>>)
      BY DEF Alike
    <2> QED
      BY <2>1, <1>1, <1>3, <1>4
  <1>6. \A k \in 1..m : k - 1 \in S => k \in S
    <2> SUFFICES ASSUME NEW k \in 1..m, k - 1 \in S PROVE k \in S
      OBVIOUS
    <2>1. k \in 0..m /\ k - 1 \in 0..m
      BY <1>1
    <2>2. f[k - 1] \in Seq(T) /\ a[k] \in Seq(T) /\ f[k] = f[k - 1] \o a[k]
      BY <2>1, <1>2, <1>3
    <2>3. g[k - 1] \in Seq(U) /\ b[k] \in Seq(U) /\ g[k] = g[k - 1] \o b[k]
      BY <2>1, <1>2, <1>4
    <2>4. Alike(R, f[k - 1], g[k - 1]) /\ Alike(R, a[k], b[k])
      BY <1>1
    <2>5. Alike(R, f[k], g[k])
      BY <2>2, <2>3, <2>4, AlikeJoined
    <2> QED
      BY <2>1, <2>5
  <1>7. m \in S
    <2> HIDE DEF S
    <2>1. \A k \in 0..m : k \in S
      BY <1>1, <1>5, <1>6, Steps
    <2> QED
      BY <2>1, <1>1
  <1> QED
    BY <1>3, <1>4, <1>7

\* Each with itself.
Same(T) == {<<x, x>> : x \in T}

\* Sequences of one element or none.
LEMMA OneOrNone ==
    /\ ToSet(<<>>) = {} /\ \A x : ToSet(<<x>>) = {x}
    /\ \A R : Related(R, <<>>) /\ \A x : Related(R, <<x>>)
    /\ \A T : <<>> \in Seq(T) /\ \A x \in T : <<x>> \in Seq(T)
    /\ \A R : Alike(R, <<>>, <<>>) /\ \A x, y : <<x, y>> \in R => Alike(R, <<x>>, <<y>>)
  <1>1. ToSet(<<>>) = {} /\ \A x : ToSet(<<x>>) = {x}
    BY DEF ToSet
  <1>2. \A R : Related(R, <<>>) /\ \A x : Related(R, <<x>>)
    BY DEF Related
  <1>3. \A T : <<>> \in Seq(T) /\ \A x \in T : <<x>> \in Seq(T)
    OBVIOUS
  <1>4. \A R : Alike(R, <<>>, <<>>) /\ \A x, y : <<x, y>> \in R => Alike(R, <<x>>, <<y>>)
    BY DEF Alike
  <1> QED
    BY <1>1, <1>2, <1>3, <1>4

\* The parts a selection is put together from.
Chosen(T, seq, S) ==
    {parts \in Seq(Seq(T)) :
        /\ Those(seq, S) = FlattenSeq(parts) /\ Len(parts) = Len(seq) /\ DOMAIN parts = 1..Len(seq)
        /\ \A k \in 1..Len(seq) : parts[k] = IF seq[k] \in S THEN <<seq[k]>> ELSE <<>>}

\* The elements that are chosen, as parts of one element or none.
LEMMA ThoseParts ==
    ASSUME NEW T, NEW seq \in Seq(T), NEW S
    PROVE  Chosen(T, seq, S) # {}
  <1> DEFINE n == Len(seq)
             parts == [k \in DOMAIN seq |-> IF seq[k] \in S THEN <<seq[k]>> ELSE <<>>]
  <1>1. n \in Nat /\ DOMAIN seq = 1..n /\ \A k \in 1..n : seq[k] \in T
    OBVIOUS
  <1>2. Those(seq, S) = FlattenSeq(parts)
    BY DEF Those
  <1>3. DOMAIN parts = 1..n /\ parts = [k \in 1..n |-> parts[k]]
    BY <1>1
  <1>4. \A k \in 1..n : parts[k] = IF seq[k] \in S THEN <<seq[k]>> ELSE <<>>
    BY <1>1
  <1>5. \A k \in 1..n : <<seq[k]>> \in Seq(T)
    BY <1>1
  <1> HIDE DEF parts, n
  <1>6. <<>> \in Seq(T)
    OBVIOUS
  <1>7. \A k \in 1..n : parts[k] \in Seq(T)
    BY <1>4, <1>5, <1>6, Zenon
  <1>8. parts \in Seq(Seq(T)) /\ Len(parts) = n
    <2>1. parts \in [1..n -> Seq(T)]
      BY <1>3, <1>7
    <2> QED
      BY <1>1, <1>3, <2>1
  <1>9. parts \in Chosen(T, seq, S)
    BY <1>2, <1>3, <1>4, <1>8 DEF n, Chosen
  <1> QED
    BY <1>9

\* Those in S, in the order they had.
LEMMA ThoseKept ==
    ASSUME NEW T, NEW seq \in Seq(T), NEW S
    PROVE  /\ Those(seq, S) \in Seq(T) /\ ToSet(Those(seq, S)) = ToSet(seq) \cap S
           /\ \A R : Related(R, seq) => Related(R, Those(seq, S))
  <1> DEFINE n == Len(seq)
  <1>1. n \in Nat /\ DOMAIN seq = 1..n
    OBVIOUS
  <1>2. PICK parts \in Seq(Seq(T)) :
           /\ Those(seq, S) = FlattenSeq(parts) /\ Len(parts) = n /\ DOMAIN parts = 1..n
           /\ \A k \in 1..n : parts[k] = IF seq[k] \in S THEN <<seq[k]>> ELSE <<>>
    <2>1. PICK parts \in Chosen(T, seq, S) : TRUE
      BY ThoseParts
    <2> QED
      BY <2>1 DEF Chosen
  <1> HIDE DEF n
  <1>3. /\ Those(seq, S) \in Seq(T)
        /\ ToSet(Those(seq, S)) = UNION {ToSet(parts[k]) : k \in 1..n}
        /\ \A R : /\ \A k \in 1..n : Related(R, parts[k])
                  /\ \A j, k \in 1..n : j < k => ToSet(parts[j]) \X ToSet(parts[k]) \subseteq R
                  => Related(R, Those(seq, S))
    <2>1. /\ FlattenSeq(parts) \in Seq(T)
          /\ ToSet(FlattenSeq(parts)) = UNION {ToSet(parts[k]) : k \in DOMAIN parts}
          /\ \A R : /\ \A k \in DOMAIN parts : Related(R, parts[k])
                    /\ \A j, k \in DOMAIN parts : j < k => ToSet(parts[j]) \X ToSet(parts[k]) \subseteq R
                    => Related(R, FlattenSeq(parts))
      BY Flattened
    <2> QED
      BY <2>1, <1>2, Zenon
  <1>4. \A k \in 1..n : ToSet(parts[k]) = {seq[k]} \cap S
    <2> SUFFICES ASSUME NEW k \in 1..n PROVE ToSet(parts[k]) = {seq[k]} \cap S
      OBVIOUS
    <2>1. CASE seq[k] \in S
      <3>1. parts[k] = <<seq[k]>>
        BY <2>1, <1>2
      <3>2. ToSet(parts[k]) = {seq[k]}
        BY <3>1, OneOrNone, Zenon
      <3> QED
        BY <2>1, <3>2
    <2>2. CASE seq[k] \notin S
      <3>1. parts[k] = <<>>
        BY <2>2, <1>2
      <3>2. ToSet(parts[k]) = {}
        BY <3>1, OneOrNone, Zenon
      <3> QED
        BY <2>2, <3>2
    <2> QED
      BY <2>1, <2>2
  <1>5. ToSet(Those(seq, S)) = ToSet(seq) \cap S
    <2>1. \A x : x \in ToSet(seq) <=> \E k \in 1..n : x = seq[k]
      BY <1>1 DEF ToSet
    <2> QED
      BY <2>1, <1>3, <1>4
  <1>6. ASSUME NEW R, Related(R, seq) PROVE Related(R, Those(seq, S))
    <2>1. \A k \in 1..n : Related(R, parts[k])
      <3>1. Related(R, <<>>) /\ \A x : Related(R, <<x>>)
        BY OneOrNone, Zenon
      <3>2. \A k \in 1..n : parts[k] = <<seq[k]>> \/ parts[k] = <<>>
        BY <1>2, Zenon
      <3> QED
        BY <3>1, <3>2, Zenon
    <2>2. ASSUME NEW j \in 1..n, NEW k \in 1..n, j < k PROVE ToSet(parts[j]) \X ToSet(parts[k]) \subseteq R
      <3>1. <<seq[j], seq[k]>> \in R
        BY <2>2, <1>1, <1>6 DEF Related
      <3>2. ToSet(parts[j]) = {seq[j]} \cap S /\ ToSet(parts[k]) = {seq[k]} \cap S
        BY <1>4
      <3> SUFFICES ASSUME NEW x \in ToSet(parts[j]), NEW y \in ToSet(parts[k]) PROVE <<x, y>> \in R
        OBVIOUS
      <3>3. x = seq[j] /\ y = seq[k]
        BY <3>2
      <3> QED
        BY <3>1, <3>3
    <2> QED
      BY <2>1, <2>2, <1>3
  <1> QED
    BY <1>3, <1>5, <1>6

\* What is selected and what is not are together as many as there were.
LEMMA ThoseCounted ==
    ASSUME NEW T, NEW seq \in Seq(T), NEW S, NEW U, \A x \in ToSet(seq) : x \in S <=> x \notin U
    PROVE  Len(Those(seq, S)) + Len(Those(seq, U)) = Len(seq)
  <1> DEFINE n == Len(seq)
  <1>1. n \in Nat /\ DOMAIN seq = 1..n
    OBVIOUS
  <1>2. PICK a \in Seq(Seq(T)) :
           /\ Those(seq, S) = FlattenSeq(a) /\ Len(a) = n /\ DOMAIN a = 1..n
           /\ \A k \in 1..n : a[k] = IF seq[k] \in S THEN <<seq[k]>> ELSE <<>>
    <2>1. PICK a \in Chosen(T, seq, S) : TRUE
      BY ThoseParts
    <2> QED
      BY <2>1 DEF Chosen
  <1>3. PICK b \in Seq(Seq(T)) :
           /\ Those(seq, U) = FlattenSeq(b) /\ Len(b) = n /\ DOMAIN b = 1..n
           /\ \A k \in 1..n : b[k] = IF seq[k] \in U THEN <<seq[k]>> ELSE <<>>
    <2>1. PICK b \in Chosen(T, seq, U) : TRUE
      BY ThoseParts
    <2> QED
      BY <2>1 DEF Chosen
  <1>4. \A k \in 1..n : a[k] \in Seq(T) /\ b[k] \in Seq(T)
    <2> HIDE DEF n
    <2> QED
      BY <1>2, <1>3
  <1> HIDE DEF n
  <1>5. PICK f : /\ f[0] = <<>> /\ \A k \in 0..n : f[k] \in Seq(T)
                 /\ \A k \in 1..n : f[k] = f[k - 1] \o a[k]
                 /\ FlattenSeq(a) = f[n]
    <2>1. PICK f : /\ f[0] = <<>> /\ \A k \in 0..Len(a) : f[k] \in Seq(T)
                   /\ \A k \in 1..Len(a) : f[k] = f[k - 1] \o a[k]
                   /\ FlattenSeq(a) = f[Len(a)]
      BY FlattenComputed
    <2> QED
      BY <2>1, <1>2, Zenon
  <1>6. PICK g : /\ g[0] = <<>> /\ \A k \in 0..n : g[k] \in Seq(T)
                 /\ \A k \in 1..n : g[k] = g[k - 1] \o b[k]
                 /\ FlattenSeq(b) = g[n]
    <2>1. PICK g : /\ g[0] = <<>> /\ \A k \in 0..Len(b) : g[k] \in Seq(T)
                   /\ \A k \in 1..Len(b) : g[k] = g[k - 1] \o b[k]
                   /\ FlattenSeq(b) = g[Len(b)]
      BY FlattenComputed
    <2> QED
      BY <2>1, <1>3, Zenon
  <1> DEFINE l == [k \in 0..n |-> Len(f[k])]
             r == [k \in 0..n |-> Len(g[k])]
             Z == {k \in 0..n : l[k] + r[k] = k}
  <1>7. l[0] = 0 /\ r[0] = 0
    <2>1. 0 \in 0..n /\ Len(<<>>) = 0
      BY <1>1
    <2> QED
      BY <2>1, <1>5, <1>6
  <1>8. ASSUME NEW k \in 1..n
        PROVE  l[k - 1] \in Nat /\ r[k - 1] \in Nat /\ l[k] + r[k] = l[k - 1] + r[k - 1] + 1
    <2>1. k \in 0..n /\ k - 1 \in 0..n
      BY <1>1
    <2>2. f[k - 1] \in Seq(T) /\ g[k - 1] \in Seq(T) /\ a[k] \in Seq(T) /\ b[k] \in Seq(T)
      BY <2>1, <1>4, <1>5, <1>6, Zenon
    <2>3. f[k] = f[k - 1] \o a[k] /\ g[k] = g[k - 1] \o b[k]
      BY <1>5, <1>6, Zenon
    <2>4. Len(f[k - 1] \o a[k]) = Len(f[k - 1]) + Len(a[k]) /\ Len(g[k - 1] \o b[k]) = Len(g[k - 1]) + Len(b[k])
      BY <2>2, Joined
    <2>5. (Len(a[k]) = 1 /\ Len(b[k]) = 0) \/ (Len(a[k]) = 0 /\ Len(b[k]) = 1)
      <3>1. seq[k] \in ToSet(seq)
        BY <1>1 DEF ToSet
      <3>2. seq[k] \in S <=> seq[k] \notin U
        BY <3>1
      <3>3. Len(<<seq[k]>>) = 1 /\ Len(<<>>) = 0
        OBVIOUS
      <3>4. (a[k] = <<seq[k]>> /\ b[k] = <<>>) \/ (a[k] = <<>> /\ b[k] = <<seq[k]>>)
        BY <3>2, <1>2, <1>3, Zenon
      <3> QED
        BY <3>3, <3>4
    <2>6. Len(f[k - 1]) \in Nat /\ Len(g[k - 1]) \in Nat
      BY <2>2
    <2>7. l[k - 1] = Len(f[k - 1]) /\ r[k - 1] = Len(g[k - 1]) /\ l[k] = Len(f[k]) /\ r[k] = Len(g[k])
      BY <2>1
    <2> HIDE DEF l, r
    <2>8. l[k] = l[k - 1] + Len(a[k]) /\ r[k] = r[k - 1] + Len(b[k])
      BY <2>3, <2>4, <2>7, Zenon
    <2>9. l[k - 1] \in Nat /\ r[k - 1] \in Nat
      BY <2>6, <2>7, Zenon
    <2>10. (l[k] = l[k - 1] + 1 /\ r[k] = r[k - 1] + 0) \/ (l[k] = l[k - 1] + 0 /\ r[k] = r[k - 1] + 1)
      BY <2>5, <2>8, Zenon
    <2> HIDE DEF Z
    <2> QED
      BY <2>9, <2>10
  <1>9. l[n] = Len(f[n]) /\ r[n] = Len(g[n])
    BY <1>1
  <1>10. n \in Z
    <2> HIDE DEF l, r
    <2>1. 0 \in Z
      BY <1>1, <1>7
    <2>2. \A k \in 1..n : k - 1 \in Z => k \in Z
      <3> SUFFICES ASSUME NEW k \in 1..n, k - 1 \in Z PROVE k \in Z
        OBVIOUS
      <3>1. l[k - 1] + r[k - 1] = k - 1 /\ k \in 0..n
        BY <1>1
      <3> QED
        BY <3>1, <1>8
    <2> HIDE DEF Z
    <2>3. \A k \in 0..n : k \in Z
      BY <1>1, <2>1, <2>2, Steps
    <2> QED
      BY <2>3, <1>1
  <1>11. l[n] + r[n] = n
    <2> HIDE DEF l, r
    <2> QED
      BY <1>10
  <1> HIDE DEF l, r
  <1> QED
    BY <1>2, <1>3, <1>5, <1>6, <1>9, <1>11 DEF n

\* The beginning of a sequence gives the beginning of what is chosen.
LEMMA ThoseLeads ==
    ASSUME NEW T, NEW s \in Seq(T), NEW t \in Seq(T), Leads(Same(T), s, t), NEW S, NEW U,
           \A x \in ToSet(s) : x \in S <=> x \in U
    PROVE  Leads(Same(T), Those(s, S), Those(t, U))
  <1> DEFINE m == Len(s)
             n == Len(t)
  <1>1. m \in Nat /\ n \in Nat /\ m <= n /\ DOMAIN s = 1..m /\ \A k \in 1..m : s[k] \in T /\ <<s[k], t[k]>> \in Same(T)
    BY DEF Leads
  <1>2. \A k \in 1..m : t[k] = s[k] /\ (s[k] \in S <=> t[k] \in U)
    BY <1>1 DEF ToSet, Same
  <1>3. PICK a \in Seq(Seq(T)) :
           /\ Those(s, S) = FlattenSeq(a) /\ Len(a) = m /\ DOMAIN a = 1..m
           /\ \A k \in 1..m : a[k] = IF s[k] \in S THEN <<s[k]>> ELSE <<>>
    <2>1. PICK a \in Chosen(T, s, S) : TRUE
      BY ThoseParts
    <2> QED
      BY <2>1 DEF Chosen
  <1>4. PICK b \in Seq(Seq(T)) :
           /\ Those(t, U) = FlattenSeq(b) /\ Len(b) = n /\ DOMAIN b = 1..n
           /\ \A k \in 1..n : b[k] = IF t[k] \in U THEN <<t[k]>> ELSE <<>>
    <2>1. PICK b \in Chosen(T, t, U) : TRUE
      BY ThoseParts
    <2> QED
      BY <2>1 DEF Chosen
  <1> HIDE DEF m, n
  <1>5. \A k \in 1..m : Alike(Same(T), a[k], b[k])
    <2> SUFFICES ASSUME NEW k \in 1..m PROVE Alike(Same(T), a[k], b[k])
      OBVIOUS
    <2>1. k \in 1..n
      BY <1>1
    <2>2. a[k] = b[k]
      BY <2>1, <1>2, <1>3, <1>4, Zenon
    <2>3. a[k] = <<>> \/ a[k] = <<s[k]>>
      BY <1>3, Zenon
    <2>4. <<s[k], s[k]>> \in Same(T)
      BY <1>1 DEF Same
    <2>5. Alike(Same(T), <<>>, <<>>) /\ Alike(Same(T), <<s[k]>>, <<s[k]>>)
      BY <2>4, OneOrNone, Zenon
    <2> QED
      BY <2>2, <2>3, <2>5, Zenon
  <1>6. Leads(Same(T), FlattenSeq(a), FlattenSeq(b))
    <2>1. Len(a) <= Len(b) /\ \A k \in DOMAIN a : Alike(Same(T), a[k], b[k])
      BY <1>1, <1>3, <1>4, <1>5
    <2> QED
      BY <2>1, FlattenLeads
  <1> QED
    BY <1>3, <1>4, <1>6

-------------------------------------------------------------------------------
(***************************************************************************)
(* Where a sentence is heard in the video.                                 *)
(***************************************************************************)

\* A sequence with one element more.
LEMMA Appended ==
    ASSUME NEW T, NEW acc \in Seq(T), NEW x \in T
    PROVE  /\ Append(acc, x) \in Seq(T) /\ Append(acc, x) # <<>>
           /\ Len(Append(acc, x)) = Len(acc) + 1 /\ Len(acc) \in Nat
           /\ DOMAIN Append(acc, x) = 1..(Len(acc) + 1) /\ DOMAIN acc = 1..Len(acc)
           /\ \A k \in 1..Len(acc) : Append(acc, x)[k] = acc[k]
           /\ Append(acc, x)[Len(acc) + 1] = x /\ Last(Append(acc, x)) = x
  <1>1. /\ Append(acc, x) \in Seq(T) /\ Append(acc, x) # <<>>
        /\ Len(Append(acc, x)) = Len(acc) + 1 /\ Len(acc) \in Nat
        /\ DOMAIN Append(acc, x) = 1..(Len(acc) + 1) /\ DOMAIN acc = 1..Len(acc)
        /\ \A k \in 1..Len(acc) : Append(acc, x)[k] = acc[k]
        /\ Append(acc, x)[Len(acc) + 1] = x
    OBVIOUS
  <1>2. Last(Append(acc, x)) = x
    BY <1>1 DEF Last
  <1> QED
    BY <1>1, <1>2

\* A sequence with another last element.
LEMMA Replaced ==
    ASSUME NEW T, NEW acc \in Seq(T), acc # <<>>, NEW x \in T
    PROVE  /\ [acc EXCEPT ![Len(acc)] = x] \in Seq(T) /\ [acc EXCEPT ![Len(acc)] = x] # <<>>
           /\ Len([acc EXCEPT ![Len(acc)] = x]) = Len(acc) /\ Len(acc) \in Nat \ {0}
           /\ DOMAIN [acc EXCEPT ![Len(acc)] = x] = 1..Len(acc) /\ DOMAIN acc = 1..Len(acc)
           /\ \A k \in 1..Len(acc) : [acc EXCEPT ![Len(acc)] = x][k] = IF k = Len(acc) THEN x ELSE acc[k]
           /\ Last(acc) = acc[Len(acc)] /\ Last(acc) \in T /\ Last([acc EXCEPT ![Len(acc)] = x]) = x
  <1> DEFINE n == Len(acc)
             s == [acc EXCEPT ![n] = x]
  <1>1. n \in Nat \ {0} /\ DOMAIN acc = 1..n
    BY EmptySeq, LenProperties
  <1>2. s \in Seq(T) /\ Len(s) = n /\ \A k \in 1..n : s[k] = IF k = n THEN x ELSE acc[k]
    BY <1>1, ExceptSeq
  <1>3. DOMAIN s = 1..n
    BY <1>1
  <1>4. acc[n] \in T
    BY <1>1
  <1> HIDE DEF s
  <1>5. s # <<>> /\ s[n] = x
    <2>0. n \in 1..n
      BY <1>1
    <2>1. Len(s) # 0
      BY <1>1, <1>2
    <2>2. s # <<>>
      BY <2>1
    <2> QED
      BY <2>0, <2>2, <1>2
  <1>6. Last(acc) = acc[n] /\ Last(s) = x
    BY <1>2, <1>5 DEF Last
  <1> QED
    BY <1>1, <1>2, <1>3, <1>4, <1>5, <1>6 DEF s

\* What a sentence and a segment are, and the pieces of a sentence.
SegmentSet == [start : Nat, end : Nat, text : Texts \cup {Blocked}, id : Nat \X Nat]
\* Spans of a timeline, pieces of a sentence, and pieces in order, with a cut between any two.
SpanSet == {s \in [from : Nat, to : Nat, start : Nat, end : Nat] : s.from < s.to /\ s.end - s.start = s.to - s.from}
PieceSet == {p \in Nat \X Nat : p[1] < p[2]}
Apart(acc) == acc \in Seq(PieceSet) /\ \A j, k \in DOMAIN acc : j < k => acc[j][2] < acc[k][1]

\* The ends of a piece.
LEMMA PieceFacts ==
    /\ \A p \in PieceSet : p[1] \in Nat /\ p[2] \in Nat /\ p[1] < p[2]
    /\ \A a, b \in Nat : a < b => <<a, b>> \in PieceSet /\ <<a, b>>[1] = a /\ <<a, b>>[2] = b
  <1>1. \A a, b \in Nat : <<a, b>> \in Nat \X Nat /\ <<a, b>>[1] = a /\ <<a, b>>[2] = b
    OBVIOUS
  <1> QED
    BY <1>1 DEF PieceSet

\* The part of span s in which the sentence is heard.
HeardAt(cue, s, x) == s.start <= x /\ x < s.end /\ cue.start <= s.from + x - s.start /\ s.from + x - s.start < cue.end

\* One span more: the pieces stay apart, and cover what is heard in the span as well.
LEMMA OntoStep ==
    ASSUME NEW cue \in SegmentSet, NEW s \in SpanSet, NEW acc, Apart(acc), \A k \in DOMAIN acc : acc[k][2] <= s.start
    PROVE  /\ Apart(Onto(cue, acc, s)) /\ \A k \in DOMAIN Onto(cue, acc, s) : Onto(cue, acc, s)[k][2] <= s.end
           /\ \A x \in Nat : Covers(Onto(cue, acc, s), x) <=> Covers(acc, x) \/ HeardAt(cue, s, x)
  <1> DEFINE left == UpperOf(cue.start, s.from)
             right == LowerOf(cue.end, s.to)
             a == s.start + left - s.from
             b == s.start + right - s.from
             n == Len(acc)
             new == Onto(cue, acc, s)
  <1>1. /\ cue.start \in Nat /\ cue.end \in Nat
        /\ s.from \in Nat /\ s.to \in Nat /\ s.start \in Nat /\ s.end \in Nat
        /\ s.from < s.to /\ s.end - s.start = s.to - s.from
    BY DEF SegmentSet, SpanSet
  <1>2. acc \in Seq(PieceSet) /\ n \in Nat /\ DOMAIN acc = 1..n
    BY DEF Apart
  <1>3. \A k \in 1..n : acc[k][1] \in Nat /\ acc[k][2] \in Nat /\ acc[k][1] < acc[k][2] /\ acc[k][2] <= s.start
    BY <1>2, PieceFacts
  <1>4. left \in Nat /\ right \in Nat /\ s.from <= left /\ right <= s.to /\ a \in Int /\ b \in Int /\ s.start <= a /\ b <= s.end
    BY <1>1 DEF UpperOf, LowerOf
  <1>5. \A x \in Nat : HeardAt(cue, s, x) <=> a <= x /\ x < b
    BY <1>1 DEF HeardAt, UpperOf, LowerOf
  <1>6. new = IF right <= left THEN acc
              ELSE IF acc # <<>> /\ Last(acc)[2] = a THEN [acc EXCEPT ![Len(acc)] = <<Last(acc)[1], b>>]
              ELSE Append(acc, <<a, b>>)
    <2>1. acc # <<>> => Last(acc) = acc[Len(acc)]
      BY DEF Last
    <2> QED
      BY <2>1, <1>2 DEF Onto
  <1>7. right <= left <=> b <= a
    BY <1>1, <1>4
  <1> HIDE DEF left, right, a, b, n, new
  <1>8. CASE b <= a
    <2>1. new = acc
      BY <1>6, <1>7, <1>8
    <2>2. \A x \in Nat : ~HeardAt(cue, s, x)
      BY <1>4, <1>5, <1>8
    <2>3. \A k \in DOMAIN acc : acc[k][2] <= s.end
      BY <1>1, <1>2, <1>3
    <2> QED
      BY <2>1, <2>2, <2>3 DEF new
  <1>9. CASE ~(b <= a)
    <2>1. a \in Nat /\ b \in Nat /\ a < b
      BY <1>1, <1>4, <1>9
    <2>2. CASE acc # <<>> /\ Last(acc)[2] = a
      <3> DEFINE p == <<Last(acc)[1], b>>
      <3>1. n \in 1..n /\ Last(acc) = acc[n]
        <4>1. n # 0
          BY <2>2, <1>2, EmptySeq DEF n
        <4> QED
          BY <4>1, <1>2 DEF Last, n
      <3>2. acc[n][1] \in Nat /\ acc[n][2] = a /\ acc[n][1] < a
        BY <2>2, <3>1, <1>3
      <3>3. p \in PieceSet /\ p[1] = acc[n][1] /\ p[2] = b
        BY <3>1, <3>2, <2>1, PieceFacts
      <3> HIDE DEF p
      <3>4. new = [acc EXCEPT ![Len(acc)] = p]
        BY <1>6, <1>7, <1>9, <2>2 DEF p
      <3>5. new \in Seq(PieceSet) /\ DOMAIN new = 1..n /\ \A k \in 1..n : new[k] = IF k = n THEN p ELSE acc[k]
        BY <2>2, <3>3, <3>4, <1>2, Replaced DEF n
      <3>6. \A j, k \in 1..n : j < k => new[j][2] < new[k][1]
        <4> SUFFICES ASSUME NEW j \in 1..n, NEW k \in 1..n, j < k PROVE new[j][2] < new[k][1]
          OBVIOUS
        <4>1. acc[j][2] < acc[k][1]
          BY <1>2 DEF Apart
        <4>2. j # n
          BY <1>2
        <4>3. new[j] = acc[j]
          BY <3>5, <4>2
        <4>4. new[k][1] = acc[k][1]
          BY <3>3, <3>5
        <4> QED
          BY <4>1, <4>3, <4>4
      <3>7. \A k \in 1..n : new[k][2] <= s.end
        <4> SUFFICES ASSUME NEW k \in 1..n PROVE new[k][2] <= s.end
          OBVIOUS
        <4>1. CASE k = n
          BY <4>1, <3>3, <3>5, <1>4
        <4>2. CASE k # n
          BY <4>2, <3>5, <1>1, <1>3
        <4> QED
          BY <4>1, <4>2
      <3>8. ASSUME NEW x \in Nat PROVE Covers(new, x) <=> Covers(acc, x) \/ HeardAt(cue, s, x)
        <4>1. ASSUME NEW k \in 1..n, new[k][1] <= x, x < new[k][2] PROVE Covers(acc, x) \/ HeardAt(cue, s, x)
          <5>1. CASE k = n
            <6>1. acc[n][1] <= x /\ x < b
              BY <4>1, <5>1, <3>3, <3>5
            <6>2. CASE x < a
              BY <6>1, <6>2, <3>1, <3>2, <1>2 DEF Covers
            <6>3. CASE ~(x < a)
              BY <6>1, <6>3, <2>1, <1>5
            <6> QED
              BY <6>2, <6>3
          <5>2. CASE k # n
            BY <4>1, <5>2, <3>5, <1>2 DEF Covers
          <5> QED
            BY <5>1, <5>2
        <4>2. ASSUME Covers(acc, x) PROVE Covers(new, x)
          <5>1. PICK k \in 1..n : acc[k][1] <= x /\ x < acc[k][2]
            BY <4>2, <1>2 DEF Covers
          <5>2. new[k][1] <= x /\ x < new[k][2]
            <6>1. CASE k = n
              BY <5>1, <6>1, <3>2, <3>3, <3>5, <2>1
            <6>2. CASE k # n
              BY <5>1, <6>2, <3>5
            <6> QED
              BY <6>1, <6>2
          <5> QED
            BY <5>2, <3>5 DEF Covers
        <4>3. ASSUME HeardAt(cue, s, x) PROVE Covers(new, x)
          <5>1. a <= x /\ x < b
            BY <4>3, <1>5
          <5>2. new[n][1] <= x /\ x < new[n][2]
            BY <5>1, <3>1, <3>2, <3>3, <3>5, <2>1
          <5> QED
            BY <5>2, <3>1, <3>5 DEF Covers
        <4> QED
          BY <4>1, <4>2, <4>3, <3>5 DEF Covers
      <3> QED
        BY <3>5, <3>6, <3>7, <3>8 DEF Apart, new
    <2>3. CASE ~(acc # <<>> /\ Last(acc)[2] = a)
      <3> DEFINE p == <<a, b>>
      <3>1. p \in PieceSet /\ p[1] = a /\ p[2] = b
        BY <2>1, PieceFacts
      <3>2. new = Append(acc, p)
        BY <1>6, <1>7, <1>9, <2>3
      <3> HIDE DEF p
      <3>3. /\ new \in Seq(PieceSet) /\ DOMAIN new = 1..(n + 1) /\ new[n + 1] = p
            /\ \A k \in 1..n : new[k] = acc[k]
        BY <3>1, <3>2, <1>2, Appended DEF n
      <3>4. \A k \in 1..n : acc[k][2] < a
        <4> SUFFICES ASSUME NEW k \in 1..n PROVE acc[k][2] < a
          OBVIOUS
        <4>1. n \in 1..n /\ Last(acc) = acc[n] /\ acc # <<>>
          BY <1>2 DEF Last, n
        <4>2. acc[n][2] # a /\ acc[n][2] <= s.start /\ acc[n][2] \in Nat /\ acc[n][1] \in Nat /\ acc[n][1] < acc[n][2]
          BY <2>3, <4>1, <1>3
        <4>3. acc[n][2] < a
          BY <4>2, <1>1, <1>4
        <4>4. CASE k = n
          BY <4>3, <4>4
        <4>5. CASE k # n
          <5>0. k < n
            BY <4>5, <1>2
          <5>1. acc[k][2] < acc[n][1]
            BY <5>0, <4>1, <1>2 DEF Apart
          <5>2. acc[k][2] \in Nat
            BY <1>3
          <5> QED
            BY <5>1, <5>2, <4>2, <4>3, <2>1
        <4> QED
          BY <4>4, <4>5
      <3>5. \A k \in 1..(n + 1) : k \in 1..n \/ k = n + 1
        BY <1>2
      <3>6. \A j, k \in 1..(n + 1) : j < k => new[j][2] < new[k][1]
        <4> SUFFICES ASSUME NEW j \in 1..(n + 1), NEW k \in 1..(n + 1), j < k PROVE new[j][2] < new[k][1]
          OBVIOUS
        <4>1. j \in 1..n
          BY <1>2
        <4>2. CASE k \in 1..n
          <5>1. acc[j][2] < acc[k][1]
            BY <4>1, <4>2, <1>2 DEF Apart
          <5> QED
            BY <5>1, <4>1, <4>2, <3>3
        <4>3. CASE k = n + 1
          BY <4>1, <4>3, <3>1, <3>3, <3>4
        <4> QED
          BY <4>2, <4>3, <3>5
      <3>7. \A k \in 1..(n + 1) : new[k][2] <= s.end
        <4> SUFFICES ASSUME NEW k \in 1..(n + 1) PROVE new[k][2] <= s.end
          OBVIOUS
        <4>1. CASE k \in 1..n
          BY <4>1, <3>3, <1>1, <1>3
        <4>2. CASE k = n + 1
          BY <4>2, <3>1, <3>3, <1>4
        <4> QED
          BY <4>1, <4>2, <3>5
      <3>8. ASSUME NEW x \in Nat PROVE Covers(new, x) <=> Covers(acc, x) \/ HeardAt(cue, s, x)
        <4>1. n + 1 \in 1..(n + 1) /\ \A k \in 1..n : k \in 1..(n + 1)
          BY <1>2
        <4>2. Covers(new, x) <=> (\E k \in 1..n : acc[k][1] <= x /\ x < acc[k][2]) \/ (p[1] <= x /\ x < p[2])
          BY <3>3, <3>5, <4>1 DEF Covers
        <4> QED
          BY <4>2, <3>1, <1>2, <1>5 DEF Covers
      <3> QED
        BY <3>3, <3>6, <3>7, <3>8 DEF Apart, new
    <2> QED
      BY <2>2, <2>3
  <1> QED
    BY <1>8, <1>9

\* The spans of a timeline follow one another in both clocks, and no unit of the
\* shortened audio is outside of them.
LEMMA TileFacts ==
    ASSUME Tiles(timeline)
    PROVE  /\ timeline \in Seq(SpanSet) /\ Len(timeline) \in Nat /\ DOMAIN timeline = 1..Len(timeline)
           /\ \A k \in DOMAIN timeline : timeline[k] \in SpanSet
           /\ \A j, k \in DOMAIN timeline : j < k => timeline[j].to <= timeline[k].from /\ timeline[j].end <= timeline[k].start
           /\ Total \in Nat /\ \A k \in DOMAIN timeline : timeline[k].to <= Total
           /\ \A u \in Nat : u < Total => \E k \in DOMAIN timeline : timeline[k].from <= u /\ u < timeline[k].to
  <1> DEFINE n == Len(timeline)
             K == [from : Nat, to : Nat, start : Nat, end : Nat]
  <1>1. /\ timeline \in Seq(K)
        /\ \A k \in DOMAIN timeline :
             /\ timeline[k].from < timeline[k].to
             /\ timeline[k].end - timeline[k].start = timeline[k].to - timeline[k].from
             /\ timeline[k].from = IF k = 1 THEN 0 ELSE timeline[k - 1].to
             /\ k > 1 => timeline[k - 1].end <= timeline[k].start
    BY DEF Tiles
  <1>2. n \in Nat /\ DOMAIN timeline = 1..n /\ timeline = [k \in 1..n |-> timeline[k]] /\ \A k \in 1..n : timeline[k] \in K
    <2> HIDE DEF K
    <2>1. timeline \in Seq(K)
      BY <1>1
    <2> QED
      BY <2>1
  <1>3. \A k \in 1..n : timeline[k] \in SpanSet
    BY <1>1, <1>2 DEF SpanSet
  <1>4. timeline \in Seq(SpanSet)
    <2> HIDE DEF n
    <2> QED
      BY <1>2, <1>3
  <1>5. \A k \in 1..n : /\ timeline[k].from \in Nat /\ timeline[k].to \in Nat /\ timeline[k].start \in Nat /\ timeline[k].end \in Nat
                        /\ timeline[k].from < timeline[k].to /\ timeline[k].start < timeline[k].end
    <2> SUFFICES ASSUME NEW k \in 1..n PROVE /\ timeline[k].from \in Nat /\ timeline[k].to \in Nat /\ timeline[k].start \in Nat /\ timeline[k].end \in Nat
                        /\ timeline[k].from < timeline[k].to /\ timeline[k].start < timeline[k].end
      OBVIOUS
    <2>1. /\ timeline[k].from \in Nat /\ timeline[k].to \in Nat /\ timeline[k].start \in Nat /\ timeline[k].end \in Nat
          /\ timeline[k].from < timeline[k].to /\ timeline[k].end - timeline[k].start = timeline[k].to - timeline[k].from
      BY <1>3 DEF SpanSet
    <2> QED
      BY <2>1
  <1>6. \A k \in 1..n : k > 1 => /\ k - 1 \in 1..n /\ timeline[k].from = timeline[k - 1].to
                                 /\ timeline[k - 1].end <= timeline[k].start
    <2> SUFFICES ASSUME NEW k \in 1..n, k > 1
                 PROVE  /\ k - 1 \in 1..n /\ timeline[k].from = timeline[k - 1].to
                        /\ timeline[k - 1].end <= timeline[k].start
      OBVIOUS
    <2>1. k \in DOMAIN timeline /\ k # 1
      BY <1>2
    <2>2. timeline[k].from = timeline[k - 1].to /\ timeline[k - 1].end <= timeline[k].start
      BY <1>1, <2>1
    <2>3. k - 1 \in 1..n
      BY <1>2
    <2> QED
      BY <2>2, <2>3
  <1>7. n > 0 => 1 \in 1..n /\ timeline[1].from = 0
    <2> SUFFICES ASSUME n > 0 PROVE 1 \in 1..n /\ timeline[1].from = 0
      OBVIOUS
    <2>1. 1 \in 1..n
      BY <1>2
    <2> QED
      BY <2>1, <1>1, <1>2
  <1> HIDE DEF n, K
  <1>8. \A k \in 1..n : \A j \in 1..n : j < k => timeline[j].to <= timeline[k].from /\ timeline[j].end <= timeline[k].start
    <2> DEFINE S == {k \in 0..n : \A j \in 1..n : k \in 1..n /\ j < k => timeline[j].to <= timeline[k].from /\ timeline[j].end <= timeline[k].start}
    <2>1. 0 \in S
      BY <1>2
    <2>2. \A k \in 1..n : k - 1 \in S => k \in S
      <3> SUFFICES ASSUME NEW k \in 1..n, k - 1 \in S, NEW j \in 1..n, j < k
                   PROVE timeline[j].to <= timeline[k].from /\ timeline[j].end <= timeline[k].start
        BY <1>2
      <3>1. k > 1 /\ k - 1 \in 1..n
        BY <1>2
      <3>2. CASE j = k - 1
        BY <3>2, <1>5, <1>6, <3>1
      <3>3. CASE j # k - 1
        <4>1. j < k - 1
          BY <3>3, <1>2
        <4>2. timeline[j].to <= timeline[k - 1].from /\ timeline[j].end <= timeline[k - 1].start
          BY <3>1, <4>1
        <4> QED
          BY <4>2, <1>5, <1>6, <3>1
      <3> QED
        BY <3>2, <3>3
    <2> HIDE DEF S
    <2>3. \A k \in 0..n : k \in S
      BY <1>2, <2>1, <2>2, Steps
    <2>4. \A k \in 1..n : k \in S
      BY <2>3, <1>2
    <2> QED
      BY <2>4 DEF S
  <1>9. (n = 0 => Total = 0) /\ (n > 0 => n \in 1..n /\ Total = timeline[n].to)
    <2>1. n = 0 <=> timeline = <<>>
      BY <1>1 DEF n
    <2>2. n > 0 => n \in 1..n /\ Last(timeline) = timeline[n]
      BY <1>2 DEF Last, n
    <2> QED
      BY <2>1, <2>2, <1>2 DEF Total
  <1>10. Total \in Nat
    BY <1>2, <1>5, <1>9
  <1>11. \A k \in 1..n : timeline[k].to <= Total
    <2> SUFFICES ASSUME NEW k \in 1..n PROVE timeline[k].to <= Total
      OBVIOUS
    <2>1. n > 0 /\ n \in 1..n /\ Total = timeline[n].to
      BY <1>2, <1>9
    <2>2. CASE k = n
      BY <2>1, <2>2, <1>5
    <2>3. CASE k # n
      <3>1. k < n
        BY <2>3, <1>2
      <3>2. timeline[k].to <= timeline[n].from
        BY <3>1, <2>1, <1>8
      <3> QED
        BY <3>2, <2>1, <1>5
    <2> QED
      BY <2>2, <2>3
  <1>12. ASSUME NEW u \in Nat, u < Total PROVE \E k \in 1..n : timeline[k].from <= u /\ u < timeline[k].to
    <2> DEFINE S == {k \in 0..n : (k \in 1..n /\ u < timeline[k].to) => \E j \in 1..n : timeline[j].from <= u /\ u < timeline[j].to}
    <2>1. 0 \in S
      BY <1>2
    <2>2. \A k \in 1..n : k - 1 \in S => k \in S
      <3> SUFFICES ASSUME NEW k \in 1..n, k - 1 \in S, u < timeline[k].to
                   PROVE \E j \in 1..n : timeline[j].from <= u /\ u < timeline[j].to
        <4>1. \A k \in 1..n : k \in 0..n
          BY <1>2
        <4> QED
          BY <4>1
      <3>1. CASE timeline[k].from <= u
        BY <3>1
      <3>2. CASE ~(timeline[k].from <= u)
        <4>1. k > 1
          BY <3>2, <1>2, <1>7
        <4>2. u < timeline[k - 1].to /\ k - 1 \in 1..n
          BY <3>2, <4>1, <1>5, <1>6
        <4> QED
          BY <4>2
      <3> QED
        BY <3>1, <3>2
    <2> HIDE DEF S
    <2>3. \A k \in 0..n : k \in S
      BY <1>2, <2>1, <2>2, Steps
    <2>4. n > 0 /\ n \in 0..n /\ n \in 1..n /\ u < timeline[n].to
      BY <1>2, <1>9, <1>12
    <2>5. n \in S
      BY <2>3, <2>4
    <2> QED
      BY <2>4, <2>5 DEF S
  <1> QED
    BY <1>2, <1>3, <1>4, <1>8, <1>10, <1>11, <1>12 DEF n

\* Where a unit of the shortened audio is in the video.
LEMMA OriginalIs ==
    ASSUME Tiles(timeline), NEW k \in DOMAIN timeline, NEW u \in Nat, timeline[k].from <= u, u < timeline[k].to
    PROVE  Original(u) = timeline[k].start + u - timeline[k].from
  <1> DEFINE n == Len(timeline)
             s == CHOOSE t \in ToSet(timeline) : t.from <= u /\ u < t.to
  <1>1. n \in Nat /\ DOMAIN timeline = 1..n /\ \A j \in 1..n : timeline[j] \in SpanSet
    BY TileFacts
  <1>2. \A i, j \in 1..n : i < j => timeline[i].to <= timeline[j].from
    BY <1>1, TileFacts
  <1>3. \A j \in 1..n : timeline[j].from \in Nat /\ timeline[j].to \in Nat /\ timeline[j].from < timeline[j].to
    BY <1>1 DEF SpanSet
  <1>4. timeline[k] \in ToSet(timeline)
    BY DEF ToSet
  <1>5. s \in ToSet(timeline) /\ s.from <= u /\ u < s.to
    <2> DEFINE G == {t \in ToSet(timeline) : t.from <= u /\ u < t.to}
    <2>1. timeline[k] \in G
      BY <1>4
    <2>2. s = CHOOSE t \in G : TRUE
      OBVIOUS
    <2> HIDE DEF G, s
    <2>3. s \in G
      BY <2>1, <2>2
    <2> QED
      BY <2>3 DEF G
  <1> HIDE DEF s
  <1>6. PICK j \in 1..n : s = timeline[j]
    BY <1>1, <1>5 DEF ToSet
  <1>7. timeline[j].from <= u /\ u < timeline[j].to
    BY <1>5, <1>6
  <1>8. k \in 1..n
    BY <1>1
  <1> HIDE DEF n
  <1>9. ~(j < k) /\ ~(k < j)
    BY <1>2, <1>3, <1>7, <1>8
  <1>10. j = k
    BY <1>1, <1>8, <1>9
  <1> QED
    BY <1>6, <1>10 DEF Original, s

\* The loop over the spans.
LEMMA ProjectComputed ==
    ASSUME Tiles(timeline), NEW cue \in SegmentSet
    PROVE  \E f : /\ f[0] = <<>>
                  /\ \A n \in 1..Len(timeline) : f[n] = Onto(cue, f[n - 1], timeline[n])
                  /\ Project(cue) = f[Len(timeline)]
  <1> DEFINE N == Len(timeline)
             T == Seq(Int \X Int)
             step == [p \in (1..N) \X T |-> Onto(cue, p[2], timeline[p[1]])]
  <1>1. N \in Nat /\ DOMAIN timeline = 1..N /\ \A n \in 1..N : timeline[n] \in SpanSet
    BY TileFacts
  <1>2. <<>> \in T
    OBVIOUS
  <1>3. step \in [(1..N) \X T -> T]
    <2> SUFFICES ASSUME NEW n \in 1..N, NEW acc \in T PROVE Onto(cue, acc, timeline[n]) \in T
      OBVIOUS
    <2> DEFINE s == timeline[n]
               left == UpperOf(cue.start, s.from)
               right == LowerOf(cue.end, s.to)
               a == s.start + left - s.from
               b == s.start + right - s.from
    <2>1. /\ cue.start \in Nat /\ cue.end \in Nat
          /\ s.from \in Nat /\ s.to \in Nat /\ s.start \in Nat /\ s.end \in Nat
      BY <1>1 DEF SegmentSet, SpanSet
    <2>0. left \in Int /\ right \in Int
      BY <2>1 DEF UpperOf, LowerOf
    <2>2. left \in Int /\ right \in Int /\ a \in Int /\ b \in Int
      <3> HIDE DEF left, right
      <3> QED
        BY <2>0, <2>1
    <2>3. Append(acc, <<a, b>>) \in T
      BY <2>2
    <2>4. ASSUME acc # <<>> PROVE [acc EXCEPT ![Len(acc)] = <<acc[Len(acc)][1], b>>] \in T
      <3> DEFINE P == Int \X Int
                 q == <<acc[Len(acc)][1], b>>
      <3>1. Len(acc) \in 1..Len(acc) /\ acc[Len(acc)] \in P
        BY <2>4
      <3>2. q \in P
        BY <3>1, <2>2
      <3> HIDE DEF P, q
      <3>3. acc \in Seq(P)
        BY DEF P
      <3>4. [acc EXCEPT ![Len(acc)] = q] \in Seq(P)
        BY <2>4, <3>2, <3>3, Replaced
      <3> QED
        BY <3>4 DEF P, q
    <2>5. Onto(cue, acc, s) = IF right <= left THEN acc
              ELSE IF acc # <<>> /\ Last(acc)[2] = a THEN [acc EXCEPT ![Len(acc)] = <<acc[Len(acc)][1], b>>]
              ELSE Append(acc, <<a, b>>)
      BY DEF Onto
    <2> HIDE DEF T, s, left, right, a, b
    <2> QED
      BY <2>3, <2>4, <2>5 DEF s
  <1>4. PICK f \in [0..N -> T] : f[0] = <<>> /\ \A k \in 1..N : f[k] = step[<<k, f[k - 1]>>]
    <2> HIDE DEF T, N, step
    <2>2. Runs(T, <<>>, N, step) # {}
      BY <1>1, <1>2, <1>3, Computed, Zenon
    <2> QED
      BY <2>2 DEF Runs
  <1>5. \A k \in 1..N : f[k] = Onto(cue, f[k - 1], timeline[k])
    <2> SUFFICES ASSUME NEW k \in 1..N PROVE f[k] = Onto(cue, f[k - 1], timeline[k])
      OBVIOUS
    <2>1. f[k - 1] \in T
      <3> HIDE DEF T
      <3> QED
        BY <1>1
    <2> HIDE DEF T
    <2> QED
      BY <1>4, <2>1
  <1> DEFINE F(g) == [k \in 0..N |-> IF k = 0 THEN <<>> ELSE Onto(cue, g[k - 1], timeline[k])]
             upTo == CHOOSE g : g = F(g)
  <1>6. f = F(f)
    <2> HIDE DEF T, N
    <2> QED
      BY <1>1, <1>4, <1>5
  <1>7. upTo = F(upTo)
    <2> HIDE DEF F
    <2> QED
      BY <1>6
  <1>8. upTo[0] = <<>> /\ \A k \in 1..N : upTo[k] = Onto(cue, upTo[k - 1], timeline[k])
    <2> HIDE DEF upTo, N
    <2>1. \A k \in 0..N : F(upTo)[k] = IF k = 0 THEN <<>> ELSE Onto(cue, upTo[k - 1], timeline[k])
      OBVIOUS
    <2> HIDE DEF F
    <2>2. \A k \in 0..N : upTo[k] = IF k = 0 THEN <<>> ELSE Onto(cue, upTo[k - 1], timeline[k])
      BY <1>7, <2>1, Zenon
    <2>3. 0 \in 0..N /\ \A k \in 1..N : k \in 0..N /\ k # 0
      BY <1>1
    <2> HIDE DEF F
    <2> QED
      BY <2>2, <2>3, Zenon
  <1>9. Project(cue) = upTo[N]
    BY DEF Project
  <1> QED
    <2> HIDE DEF upTo
    <2> QED
      BY <1>8, <1>9

\* The pieces of a sentence are apart, and are where it is heard.
LEMMA Projected ==
    ASSUME Tiles(timeline), NEW cue \in SegmentSet
    PROVE  /\ Apart(Project(cue))
           /\ \A x \in Nat : Covers(Project(cue), x) <=> \E k \in DOMAIN timeline : HeardAt(cue, timeline[k], x)
  <1> DEFINE N == Len(timeline)
  <1>1. /\ N \in Nat /\ DOMAIN timeline = 1..N /\ \A n \in 1..N : timeline[n] \in SpanSet
        /\ \A j, k \in 1..N : j < k => timeline[j].end <= timeline[k].start
    BY TileFacts
  <1>2. PICK f : /\ f[0] = <<>>
                 /\ \A n \in 1..N : f[n] = Onto(cue, f[n - 1], timeline[n])
                 /\ Project(cue) = f[N]
    BY ProjectComputed
  <1> HIDE DEF N
  <1> DEFINE S == {n \in 0..N : /\ Apart(f[n])
                                /\ \A k \in DOMAIN f[n] : n > 0 => f[n][k][2] <= timeline[n].end
                                /\ \A x \in Nat : Covers(f[n], x) <=> \E k \in 1..n : HeardAt(cue, timeline[k], x)}
  <1>3. 0 \in S
    <2>1. Apart(<<>>) /\ DOMAIN <<>> = {} /\ \A x \in Nat : ~Covers(<<>>, x)
      BY DEF Apart, Covers
    <2>2. 1..0 = {}
      OBVIOUS
    <2> QED
      BY <2>1, <2>2, <1>1, <1>2
  <1>4. \A n \in 1..N : n - 1 \in S => n \in S
    <2> SUFFICES ASSUME NEW n \in 1..N, n - 1 \in S PROVE n \in S
      OBVIOUS
    <2> DEFINE acc == f[n - 1]
               s == timeline[n]
    <2>1. n - 1 \in 0..N /\ n \in 0..N /\ n > 0 /\ s \in SpanSet
      BY <1>1
    <2>2. Apart(acc) /\ (\A k \in DOMAIN acc : n - 1 > 0 => acc[k][2] <= timeline[n - 1].end)
          /\ \A x \in Nat : Covers(acc, x) <=> \E k \in 1..(n - 1) : HeardAt(cue, timeline[k], x)
      OBVIOUS
    <2>3. \A k \in DOMAIN acc : acc[k][2] <= s.start
      <3>1. CASE n = 1
        <4>1. DOMAIN acc = {}
          BY <3>1, <1>2
        <4> QED
          BY <4>1
      <3>2. CASE n # 1
        <4>1. n - 1 \in 1..N /\ n - 1 > 0 /\ n - 1 < n
          BY <3>2, <1>1
        <4>2. timeline[n - 1].end <= s.start /\ timeline[n - 1].end \in Nat /\ s.start \in Nat
          BY <4>1, <1>1 DEF SpanSet
        <4> SUFFICES ASSUME NEW k \in DOMAIN acc PROVE acc[k][2] <= s.start
          OBVIOUS
        <4>3. acc[k][2] <= timeline[n - 1].end
          BY <2>2, <4>1
        <4>4. acc[k][2] \in Nat
          BY <2>2, PieceFacts DEF Apart
        <4> QED
          BY <4>2, <4>3, <4>4
      <3> QED
        BY <3>1, <3>2
    <2>4. f[n] = Onto(cue, acc, s)
      BY <1>2
    <2> HIDE DEF S, s, acc
    <2>5. /\ Apart(f[n])
          /\ \A k \in DOMAIN f[n] : f[n][k][2] <= s.end
          /\ \A x \in Nat : Covers(f[n], x) <=> Covers(acc, x) \/ HeardAt(cue, s, x)
      BY <2>1, <2>2, <2>3, <2>4, OntoStep
    <2>6. \A k \in 1..n : k \in 1..(n - 1) \/ k = n
      BY <2>1
    <2>7. n \in 1..n /\ \A k \in 1..(n - 1) : k \in 1..n
      BY <2>1
    <2>8. ASSUME NEW x \in Nat PROVE Covers(f[n], x) <=> \E k \in 1..n : HeardAt(cue, timeline[k], x)
      BY <2>2, <2>5, <2>6, <2>7 DEF s
    <2> QED
      BY <2>1, <2>5, <2>8 DEF S, s
  <1> HIDE DEF S
  <1>5. \A k \in 0..N : k \in S
    BY <1>1, <1>3, <1>4, Steps
  <1>6. N \in S
    BY <1>1, <1>5
  <1> QED
    BY <1>1, <1>2, <1>6 DEF S

-------------------------------------------------------------------------------
(***************************************************************************)
(* Sentences and cues.                                                     *)
(***************************************************************************)
\* What may have been heard in a window, and in all windows that are answered.
ToldSet == [start : Nat, end : Nat, text : Texts \cup {Blocked}]
\* What a window may have been answered with, and all answers so far.
Said(w, seq) == seq \in Seq(ToldSet) /\ \A k \in DOMAIN seq : seq[k].start < seq[k].end /\ seq[k].end <= Size(w)
Answered == DOMAIN sentences \subseteq Windows /\ \A w \in DOMAIN sentences : Said(w, sentences[w])

\* Cues are in the order of their ids.
CueOrder == {r \in SegmentSet \X SegmentSet : Before(r[1].id, r[2].id) /\ r[1].id # r[2].id}

\* The constants.
LEMMA Scales ==
    /\ Window \in Nat \ {0} /\ Batch \in Nat \ {0} /\ Slack \in Nat /\ Near \in Nat /\ Long \in Nat /\ MaxCues \in Nat
    /\ Labels \subseteq Texts /\ Blocked \notin Texts /\ Blocked \notin Nat
  BY TracksScale, TracksNames

\* A window lies within the audio.
LEMMA WindowFacts ==
    ASSUME Tiles(timeline), NEW w \in Windows
    PROVE  /\ w \in Nat /\ w * Window \in Nat /\ w * Window < Total /\ w \in 0..Total /\ w + 1 \in 1..Total
           /\ Size(w) \in Nat \ {0} /\ w * Window + Size(w) <= Total
  <1>1. Total \in Nat /\ Window \in Nat \ {0}
    BY TileFacts, Scales
  <1>2. w \in 0..Total /\ w * Window < Total
    BY DEF Windows
  <1>3. w \in Nat /\ w * Window \in Nat /\ w <= w * Window
    <2>1. w \in Nat
      BY <1>1, <1>2
    <2>2. \A v, d \in Nat : d # 0 => v * d \in Nat /\ v <= v * d
      OBVIOUS
    <2> QED
      BY <2>1, <2>2, <1>1
  <1> DEFINE offset == w * Window
  <1> HIDE DEF offset
  <1>4. Size(w) = LowerOf(Window, Total - offset)
    BY DEF Size, offset
  <1>5. offset \in Nat /\ offset < Total /\ w <= offset
    BY <1>2, <1>3 DEF offset
  <1>6. Size(w) \in Nat \ {0} /\ offset + Size(w) <= Total /\ w + 1 \in 1..Total
    BY <1>1, <1>3, <1>4, <1>5 DEF LowerOf
  <1> QED
    BY <1>2, <1>3, <1>6 DEF offset

\* A window before one that there is, is there too.
LEMMA WindowBelow ==
    ASSUME Tiles(timeline), NEW w \in Windows, NEW v \in Nat, v < w
    PROVE  v \in Windows
  <1>1. Total \in Nat /\ Window \in Nat \ {0}
    BY TileFacts, Scales
  <1>2. w \in Nat /\ w * Window < Total /\ w \in 0..Total
    BY WindowFacts
  <1>3. \A i, j, d \in Nat : d # 0 /\ i < j => i * d < j * d /\ i * d \in Nat /\ j * d \in Nat
    OBVIOUS
  <1>4. v * Window < w * Window /\ v * Window \in Nat /\ w * Window \in Nat
    BY <1>1, <1>2, <1>3
  <1>5. v * Window < Total
    BY <1>1, <1>2, <1>4
  <1>6. v \in 0..Total
    BY <1>1, <1>2
  <1> QED
    BY <1>5, <1>6 DEF Windows

\* A sentence in the clock of the shortened audio.
LEMMA CueFacts ==
    ASSUME Tiles(timeline), Answered, NEW w \in DOMAIN sentences, NEW k \in DOMAIN sentences[w]
    PROVE  /\ Cue(w, k) \in SegmentSet /\ Cue(w, k).id = <<w, k>> /\ Cue(w, k).text = sentences[w][k].text
           /\ Cue(w, k).start < Cue(w, k).end /\ Cue(w, k).end <= Total
           /\ w \in Nat /\ k \in Nat
  <1>1. w \in Windows /\ Said(w, sentences[w])
    BY DEF Answered
  <1> DEFINE s == sentences[w][k]
             offset == w * Window
             c == Cue(w, k)
  <1>2. /\ w \in Nat /\ offset \in Nat /\ offset < Total /\ Size(w) \in Nat /\ offset + Size(w) <= Total
    BY <1>1, WindowFacts
  <1>3. /\ s \in ToldSet /\ s.start < s.end /\ s.end <= Size(w) /\ k \in Nat
    BY <1>1 DEF Said
  <1>4. s.start \in Nat /\ s.end \in Nat /\ s.text \in Texts \cup {Blocked}
    BY <1>3 DEF ToldSet
  <1>5. Total \in Nat
    BY TileFacts
  <1> DEFINE a == offset + s.start
             b == LowerOf(offset + s.end, Total)
  <1>6. c = [start |-> a, end |-> b, text |-> s.text, id |-> <<w, k>>]
    BY DEF Cue
  <1> HIDE DEF c, offset, s
  <1>7. a \in Nat /\ b \in Nat /\ a < b /\ b <= Total
    BY <1>2, <1>3, <1>4, <1>5 DEF LowerOf
  <1>8. <<w, k>> \in Nat \X Nat
    BY <1>2, <1>3
  <1> HIDE DEF a, b
  <1>9. c \in SegmentSet /\ c.id = <<w, k>> /\ c.text = s.text /\ c.start = a /\ c.end = b
    BY <1>4, <1>6, <1>7, <1>8 DEF SegmentSet
  <1> QED
    BY <1>2, <1>3, <1>7, <1>9 DEF c, s

\* What is heard window by window.
Lots(W) == [n \in 1..Total |-> IF n - 1 \in W THEN [k \in DOMAIN sentences[n - 1] |-> Cue(n - 1, k)] ELSE <<>>]

\* The cues of every window.
LEMMA LotsFacts ==
    ASSUME Tiles(timeline), Answered, NEW W \in SUBSET DOMAIN sentences
    PROVE  /\ Lots(W) \in Seq(Seq(SegmentSet)) /\ DOMAIN Lots(W) = 1..Total /\ Len(Lots(W)) = Total
           /\ Cues(W) = FlattenSeq(Lots(W))
           /\ \A n \in 1..Total : n - 1 \in W => Lots(W)[n] = [k \in DOMAIN sentences[n - 1] |-> Cue(n - 1, k)]
           /\ \A n \in 1..Total : n - 1 \notin W => Lots(W)[n] = <<>>
           /\ \A n \in 1..Total : Related(CueOrder, Lots(W)[n])
           /\ \A w \in W : w \in Nat /\ w + 1 \in 1..Total
  <1> DEFINE N == Total
             parts == Lots(W)
  <1>1. N \in Nat
    BY TileFacts
  <1>2. \A w \in W : w \in DOMAIN sentences /\ w \in Windows /\ w + 1 \in 1..N /\ w \in Nat
    BY WindowFacts DEF Answered
  <1>3. ASSUME NEW w \in W
        PROVE  /\ [k \in DOMAIN sentences[w] |-> Cue(w, k)] \in Seq(SegmentSet)
               /\ Related(CueOrder, [k \in DOMAIN sentences[w] |-> Cue(w, k)])
    <2> DEFINE seq == [k \in DOMAIN sentences[w] |-> Cue(w, k)]
               n == Len(sentences[w])
    <2>1. n \in Nat /\ DOMAIN sentences[w] = 1..n
      BY <1>2 DEF Answered, Said
    <2>2. \A k \in 1..n : Cue(w, k) \in SegmentSet /\ Cue(w, k).id = <<w, k>>
      BY <1>2, <2>1, CueFacts
    <2>3. seq = [k \in 1..n |-> Cue(w, k)]
      BY <2>1
    <2> HIDE DEF n, seq
    <2>4. seq \in Seq(SegmentSet) /\ DOMAIN seq = 1..n /\ \A k \in 1..n : seq[k] = Cue(w, k)
      BY <2>1, <2>2, <2>3
    <2>5. ASSUME NEW j \in 1..n, NEW k \in 1..n, j < k PROVE <<seq[j], seq[k]>> \in CueOrder
      <3>1. seq[j] \in SegmentSet /\ seq[k] \in SegmentSet /\ seq[j].id = <<w, j>> /\ seq[k].id = <<w, k>>
        BY <2>2, <2>4
      <3>2. Before(<<w, j>>, <<w, k>>) /\ <<w, j>> # <<w, k>>
        BY <2>1, <2>5 DEF Before
      <3> QED
        BY <3>1, <3>2 DEF CueOrder
    <2>6. Related(CueOrder, seq)
      BY <2>4, <2>5 DEF Related
    <2> QED
      BY <2>4, <2>6 DEF seq
  <1>4. Cues(W) = FlattenSeq(parts)
    BY DEF Cues, Lots
  <1>5. /\ DOMAIN parts = 1..N
        /\ \A n \in 1..N : n - 1 \in W => parts[n] = [k \in DOMAIN sentences[n - 1] |-> Cue(n - 1, k)]
        /\ \A n \in 1..N : n - 1 \notin W => parts[n] = <<>>
    BY DEF Lots
  <1>6. parts = [n \in 1..N |-> parts[n]]
    BY DEF Lots
  <1> HIDE DEF parts, N
  <1>7. \A n \in 1..N : parts[n] \in Seq(SegmentSet) /\ Related(CueOrder, parts[n])
    <2> SUFFICES ASSUME NEW n \in 1..N PROVE parts[n] \in Seq(SegmentSet) /\ Related(CueOrder, parts[n])
      OBVIOUS
    <2>1. CASE n - 1 \in W
      BY <2>1, <1>3, <1>5, Zenon
    <2>2. CASE n - 1 \notin W
      BY <2>2, <1>5, OneOrNone, Zenon
    <2> QED
      BY <2>1, <2>2
  <1>8. parts \in Seq(Seq(SegmentSet))
    BY <1>1, <1>6, <1>7
  <1>9. Len(parts) = N
    BY <1>1, <1>5, <1>8
  <1> QED
    BY <1>2, <1>4, <1>5, <1>7, <1>8, <1>9 DEF parts, N

\* The cues are those of the sentences heard, in order.
LEMMA CuesFacts ==
    ASSUME Tiles(timeline), Answered, NEW W \in SUBSET DOMAIN sentences
    PROVE  /\ Cues(W) \in Seq(SegmentSet)
           /\ \A c : c \in ToSet(Cues(W)) <=> \E w \in W : \E k \in DOMAIN sentences[w] : c = Cue(w, k)
           /\ Related(CueOrder, Cues(W))
  <1> DEFINE N == Total
             parts == Lots(W)
  <1>1. N \in Nat
    BY TileFacts
  <1>2. /\ parts \in Seq(Seq(SegmentSet)) /\ DOMAIN parts = 1..N /\ Cues(W) = FlattenSeq(parts)
        /\ \A n \in 1..N : n - 1 \in W => parts[n] = [k \in DOMAIN sentences[n - 1] |-> Cue(n - 1, k)]
        /\ \A n \in 1..N : n - 1 \notin W => parts[n] = <<>>
        /\ \A n \in 1..N : Related(CueOrder, parts[n])
        /\ \A w \in W : w \in DOMAIN sentences /\ w \in Nat /\ w + 1 \in 1..N
    BY LotsFacts
  <1> HIDE DEF parts, N
  <1>3. \A n \in 1..N : \A c : c \in ToSet(parts[n]) <=> n - 1 \in W /\ \E k \in DOMAIN sentences[n - 1] : c = Cue(n - 1, k)
    <2> SUFFICES ASSUME NEW n \in 1..N, NEW c
                 PROVE  c \in ToSet(parts[n]) <=> n - 1 \in W /\ \E k \in DOMAIN sentences[n - 1] : c = Cue(n - 1, k)
      OBVIOUS
    <2>1. CASE n - 1 \in W
      <3>1. DOMAIN parts[n] = DOMAIN sentences[n - 1] /\ \A k \in DOMAIN sentences[n - 1] : parts[n][k] = Cue(n - 1, k)
        <4>1. parts[n] = [k \in DOMAIN sentences[n - 1] |-> Cue(n - 1, k)]
          BY <2>1, <1>2
        <4> QED
          BY <4>1
      <3> QED
        BY <2>1, <3>1 DEF ToSet
    <2>2. CASE n - 1 \notin W
      BY <2>2, <1>2, OneOrNone
    <2> QED
      BY <2>1, <2>2
  <1>4. \A c : c \in ToSet(Cues(W)) <=> \E w \in W : \E k \in DOMAIN sentences[w] : c = Cue(w, k)
    <2>1. ToSet(Cues(W)) = UNION {ToSet(parts[n]) : n \in 1..N}
      BY <1>2, Flattened
    <2>2. \A w \in W : w + 1 \in 1..N /\ (w + 1) - 1 = w
      BY <1>2
    <2> TAKE c
    <2>3. ASSUME c \in ToSet(Cues(W)) PROVE \E w \in W : \E k \in DOMAIN sentences[w] : c = Cue(w, k)
      <3>1. PICK n \in 1..N : c \in ToSet(parts[n])
        BY <2>1, <2>3
      <3>2. n - 1 \in W /\ \E k \in DOMAIN sentences[n - 1] : c = Cue(n - 1, k)
        BY <3>1, <1>3
      <3> QED
        BY <3>2
    <2>4. ASSUME NEW w \in W, NEW k \in DOMAIN sentences[w], c = Cue(w, k) PROVE c \in ToSet(Cues(W))
      <3> DEFINE n == w + 1
      <3>1. n \in 1..N /\ n - 1 = w
        BY <2>2
      <3> HIDE DEF n
      <3>2. c \in ToSet(parts[n])
        BY <3>1, <2>4, <1>3
      <3> QED
        BY <3>1, <3>2, <2>1
    <2> QED
      BY <2>3, <2>4
  <1>5. \A m, n \in 1..N : m < n => ToSet(parts[m]) \X ToSet(parts[n]) \subseteq CueOrder
    <2> SUFFICES ASSUME NEW m \in 1..N, NEW n \in 1..N, m < n, NEW c \in ToSet(parts[m]), NEW d \in ToSet(parts[n])
                 PROVE  <<c, d>> \in CueOrder
      OBVIOUS
    <2>1. PICK i \in DOMAIN sentences[m - 1] : c = Cue(m - 1, i)
      BY <1>3
    <2>2. PICK k \in DOMAIN sentences[n - 1] : d = Cue(n - 1, k)
      BY <1>3
    <2>3. m - 1 \in DOMAIN sentences /\ n - 1 \in DOMAIN sentences
      BY <1>2, <1>3
    <2>4. c \in SegmentSet /\ c.id = <<m - 1, i>> /\ i \in Nat
      BY <2>1, <2>3, CueFacts
    <2>5. d \in SegmentSet /\ d.id = <<n - 1, k>> /\ k \in Nat
      BY <2>2, <2>3, CueFacts
    <2>6. Before(<<m - 1, i>>, <<n - 1, k>>) /\ <<m - 1, i>> # <<n - 1, k>>
      BY <2>4, <2>5, <1>1 DEF Before
    <2> QED
      BY <2>4, <2>5, <2>6 DEF CueOrder
  <1>6. Cues(W) \in Seq(SegmentSet) /\ Related(CueOrder, Cues(W))
    BY <1>2, <1>5, Flattened
  <1> QED
    BY <1>4, <1>6

\* A sentence is known by its id.
LEMMA CueKnown ==
    ASSUME Tiles(timeline), Answered, NEW c \in ToSet(Cues(DOMAIN sentences)), NEW d \in ToSet(Cues(DOMAIN sentences)), c.id = d.id
    PROVE  c = d
  <1>1. PICK w \in DOMAIN sentences : \E k \in DOMAIN sentences[w] : c = Cue(w, k)
    BY CuesFacts
  <1>2. PICK k \in DOMAIN sentences[w] : c = Cue(w, k)
    BY <1>1
  <1>3. PICK v \in DOMAIN sentences : \E j \in DOMAIN sentences[v] : d = Cue(v, j)
    BY CuesFacts
  <1>4. PICK j \in DOMAIN sentences[v] : d = Cue(v, j)
    BY <1>3
  <1>5. c.id = <<w, k>> /\ d.id = <<v, j>>
    BY <1>1, <1>2, <1>3, <1>4, CueFacts
  <1>6. <<w, k>> = <<v, j>>
    BY <1>5
  <1>7. w = v /\ k = j
    BY <1>6
  <1> QED
    BY <1>2, <1>4, <1>7

-------------------------------------------------------------------------------
(***************************************************************************)
(* The transcript.                                                         *)
(***************************************************************************)
PieceOrder == {r \in PieceSet \X PieceSet : r[1][2] < r[2][1]}

\* Segments are in the order of their sentences, and those of one are apart.
SegmentOrder ==
    {r \in SegmentSet \X SegmentSet : Before(r[1].id, r[2].id) /\ (r[1].id = r[2].id => r[1].end < r[2].start)}

\* A sentence is shown on those of its pieces that last.
LEMMA RepeatedFacts ==
    ASSUME Tiles(timeline), NEW cue \in SegmentSet
    PROVE  /\ Repeated(cue) \in Seq(SegmentSet) /\ Related(SegmentOrder, Repeated(cue))
           /\ \A s \in ToSet(Repeated(cue)) :
                 s \in SegmentSet /\ s.id = cue.id /\ s.text = cue.text /\ <<s.start, s.end>> \in ToSet(Project(cue))
           /\ \A p \in ToSet(Project(cue)) : Ms(p[1]) < Ms(p[2]) =>
                 \E s \in ToSet(Repeated(cue)) : s.start = p[1] /\ s.end = p[2]
  <1> DEFINE all == Project(cue)
             lasting == {p \in ToSet(all) : Ms(p[1]) < Ms(p[2])}
             pieces == Those(all, lasting)
             segs == Repeated(cue)
             n == Len(pieces)
  <1>1. all \in Seq(PieceSet) /\ \A j, k \in DOMAIN all : j < k => all[j][2] < all[k][1]
    BY Projected DEF Apart
  <1>2. Related(PieceOrder, all)
    <2> HIDE DEF all
    <2> SUFFICES ASSUME NEW j \in DOMAIN all, NEW k \in DOMAIN all, j < k PROVE <<all[j], all[k]>> \in PieceOrder
      BY DEF Related
    <2>1. all[j] \in PieceSet /\ all[k] \in PieceSet /\ all[j][2] < all[k][1]
      BY <1>1
    <2> QED
      BY <2>1 DEF PieceOrder
  <1>3. pieces \in Seq(PieceSet) /\ ToSet(pieces) = ToSet(all) \cap lasting /\ Related(PieceOrder, pieces)
    <2> HIDE DEF all, lasting
    <2> QED
      BY <1>1, <1>2, ThoseKept
  <1>4. segs = [k \in DOMAIN pieces |-> [start |-> pieces[k][1], end |-> pieces[k][2], text |-> cue.text, id |-> cue.id]]
    BY DEF Repeated
  <1> HIDE DEF pieces, segs
  <1>5. n \in Nat /\ DOMAIN pieces = 1..n /\ \A k \in 1..n : pieces[k] \in PieceSet
    BY <1>3
  <1>6. cue.text \in Texts \cup {Blocked} /\ cue.id \in Nat \X Nat
    BY DEF SegmentSet
  <1> HIDE DEF n
  <1>7. segs = [k \in 1..n |-> segs[k]] /\ DOMAIN segs = 1..n
    BY <1>4, <1>5
  <1>8. \A k \in 1..n : /\ segs[k] \in SegmentSet /\ segs[k].start = pieces[k][1] /\ segs[k].end = pieces[k][2]
                        /\ segs[k].text = cue.text /\ segs[k].id = cue.id
    <2> SUFFICES ASSUME NEW k \in 1..n
                 PROVE  /\ segs[k] \in SegmentSet /\ segs[k].start = pieces[k][1] /\ segs[k].end = pieces[k][2]
                        /\ segs[k].text = cue.text /\ segs[k].id = cue.id
      OBVIOUS
    <2>1. segs[k] = [start |-> pieces[k][1], end |-> pieces[k][2], text |-> cue.text, id |-> cue.id]
      BY <1>4, <1>5
    <2>2. pieces[k][1] \in Nat /\ pieces[k][2] \in Nat
      BY <1>5, PieceFacts
    <2> QED
      BY <2>1, <2>2, <1>6 DEF SegmentSet
  <1>9. segs \in Seq(SegmentSet)
    BY <1>5, <1>7, <1>8
  <1>10. Related(SegmentOrder, segs)
    <2> SUFFICES ASSUME NEW j \in 1..n, NEW k \in 1..n, j < k PROVE <<segs[j], segs[k]>> \in SegmentOrder
      BY <1>7 DEF Related
    <2>1. <<pieces[j], pieces[k]>> \in PieceOrder
      BY <1>3, <1>5 DEF Related
    <2>2. pieces[j][2] < pieces[k][1]
      BY <2>1 DEF PieceOrder
    <2>3. segs[j].end < segs[k].start
      BY <2>2, <1>8
    <2>4. Before(segs[j].id, segs[k].id)
      <3>1. segs[j].id = cue.id /\ segs[k].id = cue.id
        BY <1>8
      <3>2. cue.id \in Int \X Int
        BY <1>6
      <3>3. Before(cue.id, cue.id)
        BY <3>2, BeforeOrders
      <3> QED
        BY <3>1, <3>3
    <2>5. segs[j] \in SegmentSet /\ segs[k] \in SegmentSet
      BY <1>8
    <2> QED
      BY <2>3, <2>4, <2>5 DEF SegmentOrder
  <1>11. ASSUME NEW s \in ToSet(segs)
         PROVE s \in SegmentSet /\ s.id = cue.id /\ s.text = cue.text /\ <<s.start, s.end>> \in ToSet(all)
    <2>1. PICK k \in 1..n : s = segs[k]
      BY <1>7 DEF ToSet
    <2>2. pieces[k] = <<s.start, s.end>>
      <3>1. pieces[k] \in Nat \X Nat
        BY <1>5 DEF PieceSet
      <3>2. pieces[k] = <<pieces[k][1], pieces[k][2]>>
        BY <3>1
      <3> QED
        BY <3>2, <2>1, <1>8
    <2>3. pieces[k] \in ToSet(all)
      BY <1>3, <1>5 DEF ToSet
    <2> QED
      BY <2>1, <2>2, <2>3, <1>8
  <1>12. ASSUME NEW p \in ToSet(all), Ms(p[1]) < Ms(p[2])
         PROVE \E s \in ToSet(segs) : s.start = p[1] /\ s.end = p[2]
    <2>1. p \in ToSet(pieces)
      BY <1>3, <1>12
    <2>2. PICK k \in 1..n : p = pieces[k]
      BY <2>1, <1>5 DEF ToSet
    <2>3. segs[k] \in ToSet(segs)
      BY <1>7 DEF ToSet
    <2> QED
      BY <2>2, <2>3, <1>8
  <1> HIDE DEF all
  <1>13. /\ segs \in Seq(SegmentSet) /\ Related(SegmentOrder, segs)
         /\ \A s \in ToSet(segs) : s \in SegmentSet /\ s.id = cue.id /\ s.text = cue.text /\ <<s.start, s.end>> \in ToSet(all)
         /\ \A p \in ToSet(all) : Ms(p[1]) < Ms(p[2]) => \E s \in ToSet(segs) : s.start = p[1] /\ s.end = p[2]
    BY <1>9, <1>10, <1>11, <1>12
  <1> QED
    BY <1>13 DEF all, segs

\* The sentences in the clock of the video are in order.
LEMMA RestoredFacts ==
    ASSUME Tiles(timeline), NEW said \in Seq(SegmentSet), Related(CueOrder, said)
    PROVE  /\ RestoreSegments(said) \in Seq(SegmentSet) /\ Related(SegmentOrder, RestoreSegments(said))
           /\ ToSet(RestoreSegments(said)) = UNION {ToSet(Repeated(said[k])) : k \in DOMAIN said}
  <1> DEFINE n == Len(said)
             parts == [k \in DOMAIN said |-> Repeated(said[k])]
  <1>1. n \in Nat /\ DOMAIN said = 1..n /\ \A k \in 1..n : said[k] \in SegmentSet
    OBVIOUS
  <1>2. RestoreSegments(said) = FlattenSeq(parts)
    BY DEF RestoreSegments
  <1>3. \A k \in 1..n : /\ Repeated(said[k]) \in Seq(SegmentSet) /\ Related(SegmentOrder, Repeated(said[k]))
                        /\ \A s \in ToSet(Repeated(said[k])) : s \in SegmentSet /\ s.id = said[k].id
    BY <1>1, RepeatedFacts
  <1>4. parts = [k \in 1..n |-> parts[k]] /\ DOMAIN parts = 1..n /\ \A k \in 1..n : parts[k] = Repeated(said[k])
    BY <1>1
  <1> HIDE DEF parts, n
  <1>5. \A k \in 1..n : parts[k] \in Seq(SegmentSet)
    BY <1>3, <1>4
  <1>6. parts \in Seq(Seq(SegmentSet))
    BY <1>1, <1>4, <1>5
  <1>7. \A k \in DOMAIN parts : Related(SegmentOrder, parts[k])
    BY <1>3, <1>4, Zenon
  <1>8. \A j, k \in DOMAIN parts : j < k => ToSet(parts[j]) \X ToSet(parts[k]) \subseteq SegmentOrder
    <2> SUFFICES ASSUME NEW j \in 1..n, NEW k \in 1..n, j < k, NEW s \in ToSet(parts[j]), NEW t \in ToSet(parts[k])
                 PROVE  <<s, t>> \in SegmentOrder
      BY <1>4
    <2>1. s \in SegmentSet /\ t \in SegmentSet /\ s.id = said[j].id /\ t.id = said[k].id
      BY <1>3, <1>4
    <2>2. <<said[j], said[k]>> \in CueOrder
      BY <1>1 DEF Related
    <2>3. Before(said[j].id, said[k].id) /\ said[j].id # said[k].id
      BY <2>2 DEF CueOrder
    <2> QED
      BY <2>1, <2>3 DEF SegmentOrder
  <1>9. /\ FlattenSeq(parts) \in Seq(SegmentSet)
        /\ ToSet(FlattenSeq(parts)) = UNION {ToSet(parts[k]) : k \in DOMAIN parts}
        /\ Related(SegmentOrder, FlattenSeq(parts))
    BY <1>6, <1>7, <1>8, Flattened
  <1>10. UNION {ToSet(parts[k]) : k \in DOMAIN parts} = UNION {ToSet(Repeated(said[k])) : k \in DOMAIN said}
    BY <1>1, <1>4
  <1> QED
    BY <1>2, <1>9, <1>10

\* A transcript is of the lasting pieces of its sentences.
LEMMA TranscriptFacts ==
    ASSUME Tiles(timeline), Answered, NEW W \in SUBSET DOMAIN sentences
    PROVE  /\ Transcript(W) \in Seq(SegmentSet) /\ Related(SegmentOrder, Transcript(W))
           /\ \A s : s \in ToSet(Transcript(W)) <=>
                 (filtered => s.text \notin Labels) /\ \E c \in ToSet(Cues(W)) : s \in ToSet(Repeated(c))
  <1> DEFINE said == Cues(W)
             segs == RestoreSegments(said)
             S == {s \in ToSet(segs) : filtered => s.text \notin Labels}
  <1>1. said \in Seq(SegmentSet) /\ Related(CueOrder, said)
    BY CuesFacts
  <1>2. /\ segs \in Seq(SegmentSet) /\ Related(SegmentOrder, segs)
        /\ ToSet(segs) = UNION {ToSet(Repeated(said[k])) : k \in DOMAIN said}
    <2> HIDE DEF said
    <2> QED
      BY <1>1, RestoredFacts
  <1>3. Transcript(W) = Those(segs, S)
    BY DEF Transcript, FilterSegments
  <1>4. \A s : s \in ToSet(segs) <=> \E c \in ToSet(said) : s \in ToSet(Repeated(c))
    <2> HIDE DEF said, segs
    <2>1. \A c : c \in ToSet(said) <=> \E k \in DOMAIN said : c = said[k]
      BY DEF ToSet
    <2> QED
      BY <1>2, <2>1
  <1> HIDE DEF segs, said
  <1>5. Those(segs, S) \in Seq(SegmentSet) /\ ToSet(Those(segs, S)) = ToSet(segs) \cap S /\ Related(SegmentOrder, Those(segs, S))
    <2> HIDE DEF S
    <2> QED
      BY <1>2, ThoseKept
  <1>6. \A s : s \in ToSet(segs) \cap S <=> (filtered => s.text \notin Labels) /\ \E c \in ToSet(said) : s \in ToSet(Repeated(c))
    BY <1>4
  <1> QED
    BY <1>3, <1>5, <1>6 DEF said

\* A sentence is heard where its pieces are.
LEMMA ImageCovered ==
    ASSUME Tiles(timeline), NEW cue \in SegmentSet, cue.end <= Total
    PROVE  \A x : x \in {Original(u) : u \in Moments(cue.start, cue.end)} <=> x \in Nat /\ Covers(Project(cue), x)
  <1>1. \A k \in DOMAIN timeline :
           /\ timeline[k].from \in Nat /\ timeline[k].to \in Nat /\ timeline[k].start \in Nat /\ timeline[k].end \in Nat
           /\ timeline[k].end - timeline[k].start = timeline[k].to - timeline[k].from
    BY TileFacts DEF SpanSet
  <1>2. cue.start \in Nat /\ cue.end \in Nat /\ Total \in Nat
    BY TileFacts DEF SegmentSet
  <1>3. \A x \in Nat : Covers(Project(cue), x) <=> \E k \in DOMAIN timeline : HeardAt(cue, timeline[k], x)
    BY Projected
  <1>4. ASSUME NEW u \in Moments(cue.start, cue.end) PROVE Original(u) \in Nat /\ Covers(Project(cue), Original(u))
    <2>1. u \in Nat /\ cue.start <= u /\ u < cue.end /\ u < Total
      BY <1>2 DEF Moments
    <2>2. PICK k \in DOMAIN timeline : timeline[k].from <= u /\ u < timeline[k].to
      BY <2>1, TileFacts
    <2>3. Original(u) = timeline[k].start + u - timeline[k].from
      BY <2>1, <2>2, OriginalIs
    <2> DEFINE s == timeline[k]
               x == Original(u)
    <2>4. /\ s.from \in Nat /\ s.to \in Nat /\ s.start \in Nat /\ s.end \in Nat /\ s.end - s.start = s.to - s.from
          /\ s.from <= u /\ u < s.to /\ x = s.start + u - s.from
      BY <1>1, <2>2, <2>3
    <2> HIDE DEF x
    <2>5. x \in Nat /\ HeardAt(cue, s, x)
      <3> HIDE DEF s
      <3> QED
        BY <2>1, <2>4, <1>2 DEF HeardAt
    <2>6. x \in Nat /\ Covers(Project(cue), x)
      BY <2>5, <1>3
    <2> QED
      BY <2>6 DEF x
  <1>5. ASSUME NEW x \in Nat, Covers(Project(cue), x)
        PROVE  x \in {Original(u) : u \in Moments(cue.start, cue.end)}
    <2>1. PICK k \in DOMAIN timeline : HeardAt(cue, timeline[k], x)
      BY <1>3, <1>5
    <2> DEFINE s == timeline[k]
               u == s.from + x - s.start
    <2>2. /\ s.from \in Nat /\ s.to \in Nat /\ s.start \in Nat /\ s.end \in Nat /\ s.end - s.start = s.to - s.from
          /\ s.start <= x /\ x < s.end /\ cue.start <= u /\ u < cue.end
      BY <1>1, <2>1 DEF HeardAt
    <2>3. u \in Nat /\ s.from <= u /\ u < s.to /\ x = s.start + u - s.from /\ u \in cue.start..(cue.end - 1)
      <3> HIDE DEF s
      <3> QED
        BY <2>2, <1>2
    <2> HIDE DEF u
    <2>4. Original(u) = x
      BY <2>3, OriginalIs
    <2> QED
      BY <2>3, <2>4 DEF Moments
  <1> QED
    BY <1>4, <1>5

\* Units of pieces that follow one another without a gap are of the same piece.
LEMMA SamePiece ==
    ASSUME NEW acc, Apart(acc), NEW k \in DOMAIN acc, NEW x \in Nat, acc[k][1] <= x, x < acc[k][2], Covers(acc, x + 1)
    PROVE  x + 1 < acc[k][2]
  <1>1. PICK j \in DOMAIN acc : acc[j][1] <= x + 1 /\ x + 1 < acc[j][2]
    BY DEF Covers
  <1>2. acc \in Seq(PieceSet)
    BY DEF Apart
  <1>3. j \in Nat /\ k \in Nat
    BY <1>2
  <1>4. \A i \in DOMAIN acc : acc[i][1] \in Nat /\ acc[i][2] \in Nat /\ acc[i][1] < acc[i][2]
    BY <1>2, PieceFacts
  <1>5. CASE j = k
    BY <1>1, <1>5
  <1>6. CASE j < k
    <2>1. acc[j][2] < acc[k][1]
      BY <1>6 DEF Apart
    <2> QED
      BY <2>1, <1>1, <1>4
  <1>7. CASE k < j
    <2>1. acc[k][2] < acc[j][1]
      BY <1>7 DEF Apart
    <2> QED
      BY <2>1, <1>1, <1>4
  <1> QED
    BY <1>3, <1>5, <1>6, <1>7

\* Three half milliseconds begin and end at different milliseconds.
LEMMA LastsLong ==
    ASSUME NEW a \in Nat, NEW b \in Nat, a + 3 <= b
    PROVE  Ms(a) < Ms(b)
  <1>1. \A t \in Nat : /\ t \div 2 \in Nat /\ t % 2 \in 0..1 /\ t = 2 * (t \div 2) + (t % 2)
                       /\ (Ms(t) = t \div 2 \/ (Ms(t) = t \div 2 + 1 /\ t % 2 = 1))
    <2> SUFFICES ASSUME NEW t \in Nat
                 PROVE  /\ t \div 2 \in Nat /\ t % 2 \in 0..1 /\ t = 2 * (t \div 2) + (t % 2)
                        /\ (Ms(t) = t \div 2 \/ (Ms(t) = t \div 2 + 1 /\ t % 2 = 1))
      OBVIOUS
    <2>1. t \div 2 \in Nat /\ t % 2 \in 0..1 /\ t = 2 * (t \div 2) + (t % 2)
      <3>1. t \div 2 \in Nat
        OBVIOUS
      <3>2. t % 2 \in 0..1
        OBVIOUS
      <3>3. t % 2 = t - 2 * (t \div 2)
        OBVIOUS
      <3>4. \A i \in Nat, j \in 0..1 : j = t - 2 * i => t = 2 * i + j
        OBVIOUS
      <3> QED
        BY <3>1, <3>2, <3>3, <3>4, Zenon
    <2>2. Ms(t) = t \div 2 \/ (Ms(t) = t \div 2 + 1 /\ t % 2 = 1)
      BY <2>1 DEF Ms, RoundDiv
    <2> QED
      BY <2>1, <2>2
  <1> DEFINE p == a \div 2
             q == a % 2
             r == b \div 2
             s == b % 2
  <1>2. /\ p \in Nat /\ q \in 0..1 /\ a = 2 * p + q /\ (Ms(a) = p \/ (Ms(a) = p + 1 /\ q = 1))
        /\ r \in Nat /\ s \in 0..1 /\ b = 2 * r + s /\ (Ms(b) = r \/ (Ms(b) = r + 1 /\ s = 1))
    BY <1>1
  <1> HIDE DEF p, q, r, s
  <1> DEFINE m == Ms(a)
             l == Ms(b)
  <1>3. /\ p \in Nat /\ q \in 0..1 /\ a = 2 * p + q /\ (m = p \/ (m = p + 1 /\ q = 1))
        /\ r \in Nat /\ s \in 0..1 /\ b = 2 * r + s /\ (l = r \/ (l = r + 1 /\ s = 1))
    BY <1>2
  <1> HIDE DEF m, l
  <1>4. m < l
    BY <1>3
  <1> QED
    BY <1>4 DEF m, l

\* The segments of a sentence are where it is heard.
LEMMA TranscriptNotStretched ==
    ASSUME Tiles(timeline), Answered, DOMAIN sentences = Windows, segments = Transcript(Windows)
    PROVE  NotStretched
  <1> SUFFICES ASSUME NEW cue \in ToSet(Cues(Windows))
               PROVE  LET image == {Original(u) : u \in Moments(cue.start, cue.end)}
                          shown == UNION {Moments(s.start, s.end) : s \in {t \in ToSet(segments) : t.id = cue.id}}
                      IN  /\ shown \subseteq image
                          /\ ~(filtered /\ cue.text \in Labels) =>
                                \A u \in image : ~({u, u + 1, u + 2} \subseteq image \ shown)
    BY DEF NotStretched
  <1> DEFINE image == {Original(u) : u \in Moments(cue.start, cue.end)}
             mine == {t \in ToSet(segments) : t.id = cue.id}
             shown == UNION {Moments(s.start, s.end) : s \in mine}
             pieces == Project(cue)
  <1>1. PICK w \in DOMAIN sentences : \E k \in DOMAIN sentences[w] : cue = Cue(w, k)
    BY CuesFacts
  <1>2. cue \in SegmentSet /\ cue.end <= Total
    BY <1>1, CueFacts
  <1>3. \A x : x \in image <=> x \in Nat /\ Covers(pieces, x)
    BY <1>2, ImageCovered
  <1>4. Apart(pieces)
    BY <1>2, Projected
  <1>5. \A s : s \in ToSet(segments) <=> (filtered => s.text \notin Labels) /\ \E c \in ToSet(Cues(Windows)) : s \in ToSet(Repeated(c))
    BY TranscriptFacts
  <1>6. \A s : s \in mine <=> (filtered => s.text \notin Labels) /\ s \in ToSet(Repeated(cue))
    <2> SUFFICES ASSUME NEW s PROVE s \in mine <=> (filtered => s.text \notin Labels) /\ s \in ToSet(Repeated(cue))
      OBVIOUS
    <2>1. ASSUME s \in mine PROVE s \in ToSet(Repeated(cue)) /\ (filtered => s.text \notin Labels)
      <3>1. PICK c \in ToSet(Cues(Windows)) : s \in ToSet(Repeated(c))
        BY <1>5, <2>1
      <3>2. PICK v \in DOMAIN sentences : \E k \in DOMAIN sentences[v] : c = Cue(v, k)
        BY <3>1, CuesFacts
      <3>3. c \in SegmentSet
        BY <3>2, CueFacts
      <3>4. s.id = c.id
        BY <3>1, <3>3, RepeatedFacts
      <3>5. c = cue
        BY <2>1, <3>1, <3>4, CueKnown
      <3> QED
        BY <1>5, <2>1, <3>1, <3>5
    <2>2. ASSUME s \in ToSet(Repeated(cue)), filtered => s.text \notin Labels PROVE s \in mine
      <3>1. s \in ToSet(segments)
        BY <1>5, <2>2
      <3>2. s.id = cue.id
        BY <1>2, <2>2, RepeatedFacts
      <3> QED
        BY <3>1, <3>2
    <2> QED
      BY <2>1, <2>2
  <1>7. \A s \in ToSet(Repeated(cue)) : s \in SegmentSet /\ s.text = cue.text /\ <<s.start, s.end>> \in ToSet(pieces)
    BY <1>2, RepeatedFacts
  <1>8. \A p \in ToSet(pieces) : Ms(p[1]) < Ms(p[2]) => \E s \in ToSet(Repeated(cue)) : s.start = p[1] /\ s.end = p[2]
    BY <1>2, RepeatedFacts
  <1> HIDE DEF image, mine, pieces
  <1>9. shown \subseteq image
    <2> SUFFICES ASSUME NEW s \in mine, NEW x \in Moments(s.start, s.end) PROVE x \in image
      OBVIOUS
    <2>1. s \in SegmentSet /\ <<s.start, s.end>> \in ToSet(pieces)
      BY <1>6, <1>7
    <2>2. s.start \in Nat /\ s.end \in Nat
      BY <2>1 DEF SegmentSet
    <2>3. x \in Nat /\ s.start <= x /\ x < s.end
      BY <2>2 DEF Moments
    <2>4. PICK k \in DOMAIN pieces : pieces[k] = <<s.start, s.end>>
      BY <2>1 DEF ToSet
    <2>5. Covers(pieces, x)
      BY <2>3, <2>4 DEF Covers
    <2> QED
      BY <2>3, <2>5, <1>3
  <1>10. ASSUME ~(filtered /\ cue.text \in Labels), NEW u \in image, {u, u + 1, u + 2} \subseteq image \ shown PROVE FALSE
    <2>1. u \in Nat /\ Covers(pieces, u) /\ Covers(pieces, u + 1) /\ Covers(pieces, u + 2) /\ u \notin shown
      <3> HIDE DEF shown
      <3>1. u \in image /\ u + 1 \in image /\ u + 2 \in image /\ u \notin shown
        BY <1>10
      <3> QED
        BY <3>1, <1>3
    <2>2. PICK k \in DOMAIN pieces : pieces[k][1] <= u /\ u < pieces[k][2]
      BY <2>1 DEF Covers
    <2>3. u + 1 < pieces[k][2]
      BY <2>1, <2>2, <1>4, SamePiece
    <2>4. u + 1 \in Nat /\ (u + 1) + 1 = u + 2
      BY <2>1
    <2>5. pieces[k] \in PieceSet
      BY <1>4 DEF Apart
    <2>6. pieces[k][1] \in Nat /\ pieces[k][2] \in Nat
      BY <2>5, PieceFacts
    <2>7. pieces[k][1] <= u + 1
      BY <2>1, <2>2, <2>6
    <2>8. (u + 1) + 1 < pieces[k][2]
      <3> DEFINE v == u + 1
      <3>1. v \in Nat /\ pieces[k][1] <= v /\ v < pieces[k][2] /\ Covers(pieces, v + 1)
        BY <2>1, <2>3, <2>4, <2>7
      <3> HIDE DEF v
      <3>2. v + 1 < pieces[k][2]
        BY <3>1, <1>4, SamePiece
      <3> QED
        BY <3>2 DEF v
    <2>9. pieces[k][1] + 3 <= pieces[k][2]
      BY <2>1, <2>2, <2>6, <2>8
    <2>10. Ms(pieces[k][1]) < Ms(pieces[k][2])
      BY <2>6, <2>9, LastsLong
    <2>11. pieces[k] \in ToSet(pieces)
      BY DEF ToSet
    <2>12. PICK s \in ToSet(Repeated(cue)) : s.start = pieces[k][1] /\ s.end = pieces[k][2]
      BY <1>8, <2>10, <2>11
    <2>13. s.text = cue.text
      BY <1>7
    <2>14. s \in mine
      BY <1>6, <1>10, <2>13
    <2>15. u \in Moments(s.start, s.end)
      BY <2>1, <2>2, <2>6, <2>12 DEF Moments
    <2> QED
      BY <2>1, <2>14, <2>15
  <1> QED
    BY <1>9, <1>10 DEF image, mine

-------------------------------------------------------------------------------
(***************************************************************************)
(* Groups that share a translation.                                        *)
(***************************************************************************)
\* Two sequences of parts that begin alike.
LEMMA FlattenTogether ==
    ASSUME NEW T, NEW a \in Seq(Seq(T)), NEW b \in Seq(Seq(T)), NEW m \in Nat, m <= Len(a), m <= Len(b),
           \A k \in 1..m : a[k] = b[k]
    PROVE  \E p \in Seq(T) : /\ m = Len(a) => FlattenSeq(a) = p
                             /\ m + 1 = Len(a) => FlattenSeq(a) = p \o a[m + 1]
                             /\ m = Len(b) => FlattenSeq(b) = p
                             /\ m + 1 = Len(b) => FlattenSeq(b) = p \o b[m + 1]
  <1>1. PICK f : /\ f[0] = <<>> /\ \A k \in 0..Len(a) : f[k] \in Seq(T)
                 /\ \A k \in 1..Len(a) : f[k] = f[k - 1] \o a[k]
                 /\ FlattenSeq(a) = f[Len(a)]
    BY FlattenComputed
  <1>2. PICK g : /\ g[0] = <<>> /\ \A k \in 0..Len(b) : g[k] \in Seq(T)
                 /\ \A k \in 1..Len(b) : g[k] = g[k - 1] \o b[k]
                 /\ FlattenSeq(b) = g[Len(b)]
    BY FlattenComputed
  <1>3. Len(a) \in Nat /\ Len(b) \in Nat
    OBVIOUS
  <1> DEFINE S == {k \in 0..m : f[k] = g[k]}
             la == Len(a)
             lb == Len(b)
  <1>4. 0 \in S
    BY <1>1, <1>2
  <1>5. \A k \in 1..m : k - 1 \in S => k \in S
    <2> SUFFICES ASSUME NEW k \in 1..m, k - 1 \in S PROVE k \in S
      OBVIOUS
    <2>1. k \in 1..la /\ k \in 1..lb /\ k \in 0..m
      BY <1>3
    <2>2. f[k - 1] = g[k - 1] /\ a[k] = b[k]
      OBVIOUS
    <2> HIDE DEF S
    <2>3. f[k] = g[k]
      BY <1>1, <1>2, <2>1, <2>2
    <2> QED
      BY <2>1, <2>3 DEF S
  <1> HIDE DEF S
  <1>6. \A k \in 0..m : k \in S
    BY <1>4, <1>5, Steps
  <1>7. m \in 0..m /\ m \in 0..la
    BY <1>3
  <1>8. f[m] = g[m] /\ f[m] \in Seq(T)
    BY <1>1, <1>6, <1>7 DEF S
  <1>9. m + 1 = la => FlattenSeq(a) = f[m] \o a[m + 1]
    <2> SUFFICES ASSUME m + 1 = la PROVE FlattenSeq(a) = f[m] \o a[m + 1]
      OBVIOUS
    <2>1. la \in 1..la /\ la - 1 = m
      BY <1>3
    <2>2. f[la] = f[la - 1] \o a[la]
      BY <1>1, <2>1
    <2> QED
      BY <1>1, <2>1, <2>2
  <1>10. m + 1 = lb => FlattenSeq(b) = f[m] \o b[m + 1]
    <2> SUFFICES ASSUME m + 1 = lb PROVE FlattenSeq(b) = f[m] \o b[m + 1]
      OBVIOUS
    <2>1. lb \in 1..lb /\ lb - 1 = m
      BY <1>3
    <2>2. g[lb] = g[lb - 1] \o b[lb]
      BY <1>2, <2>1
    <2> QED
      BY <1>2, <1>8, <2>1, <2>2
  <1> QED
    BY <1>1, <1>2, <1>8, <1>9, <1>10

\* A sequence appended before flattening.
LEMMA FlattenAppended ==
    ASSUME NEW T, NEW a \in Seq(Seq(T)), NEW x \in Seq(T)
    PROVE  FlattenSeq(Append(a, x)) = FlattenSeq(a) \o x
  <1> DEFINE Q == Seq(T)
             b == Append(a, x)
             m == Len(a)
  <1>1. a \in Seq(Q) /\ x \in Q
    OBVIOUS
  <1> HIDE DEF Q
  <1>2. b \in Seq(Q) /\ Len(b) = m + 1 /\ m \in Nat /\ b[m + 1] = x /\ \A k \in 1..m : a[k] = b[k]
    BY <1>1, Appended
  <1>3. b \in Seq(Seq(T))
    BY <1>2 DEF Q
  <1>4. m <= Len(a) /\ m <= Len(b)
    BY <1>2
  <1> HIDE DEF b
  <1>5. PICK p \in Seq(T) : /\ m = Len(a) => FlattenSeq(a) = p
                            /\ m + 1 = Len(b) => FlattenSeq(b) = p \o b[m + 1]
    <2> HIDE DEF m
    <2> QED
      BY <1>2, <1>3, <1>4, FlattenTogether
  <1> QED
    BY <1>2, <1>5 DEF b

\* The last sequence extended before flattening.
LEMMA FlattenGrown ==
    ASSUME NEW T, NEW a \in Seq(Seq(T)), a # <<>>, NEW x \in Seq(T)
    PROVE  FlattenSeq([a EXCEPT ![Len(a)] = a[Len(a)] \o x]) = FlattenSeq(a) \o x
  <1> DEFINE Q == Seq(T)
             l == Len(a)
             m == l - 1
             y == a[l] \o x
             b == [a EXCEPT ![l] = y]
  <1>1. a \in Seq(Q) /\ x \in Q
    OBVIOUS
  <1>2. l \in Nat /\ l # 0
    BY EmptySeq
  <1>3. l \in 1..l /\ m \in Nat /\ m + 1 = l /\ m <= l /\ \A k \in 1..m : k \in 1..l /\ k # l
    BY <1>2
  <1>4. a[l] \in Seq(T)
    <2>1. a[l] \in Q
      <3> HIDE DEF Q
      <3>1. a \in [1..Len(a) -> Q]
        BY <1>1, LenProperties
      <3>2. Len(a) \in 1..Len(a)
        BY <1>3
      <3> QED
        BY <3>1, <3>2
    <2> QED
      BY <2>1
  <1>5. y \in Q
    BY <1>4, ConcatProperties
  <1> HIDE DEF Q, y
  <1>6. b \in Seq(Q) /\ Len(b) = l /\ \A k \in 1..l : b[k] = IF k = l THEN y ELSE a[k]
    BY <1>1, <1>5, Replaced
  <1>7. b \in Seq(Seq(T)) /\ b[l] = y /\ \A k \in 1..m : a[k] = b[k]
    BY <1>3, <1>6 DEF Q
  <1> HIDE DEF b, l
  <1> HIDE DEF m
  <1>8. m <= Len(a) /\ m <= Len(b)
    BY <1>3, <1>6 DEF l
  <1>9. PICK p \in Seq(T) : /\ m + 1 = Len(a) => FlattenSeq(a) = p \o a[m + 1]
                            /\ m + 1 = Len(b) => FlattenSeq(b) = p \o b[m + 1]
    <2>1. m \in Nat /\ b \in Seq(Seq(T)) /\ \A k \in 1..m : a[k] = b[k]
      BY <1>3, <1>7
    <2> QED
      BY <2>1, <1>8, FlattenTogether
  <1>10. FlattenSeq(a) = p \o a[l] /\ FlattenSeq(b) = p \o (a[l] \o x)
    BY <1>3, <1>6, <1>7, <1>9 DEF l, y
  <1>11. (p \o a[l]) \o x = p \o (a[l] \o x)
    <2> DEFINE q == a[l]
    <2>1. q \in Seq(T)
      BY <1>4
    <2> HIDE DEF q
    <2>2. (p \o q) \o x = p \o (q \o x)
      BY <2>1, ConcatAssociative
    <2> QED
      BY <2>2 DEF q
  <1> QED
    BY <1>10, <1>11 DEF b, y, l

\* To append is to join one.
LEMMA AppendedJoined ==
    ASSUME NEW T, NEW s \in Seq(T), NEW x \in T
    PROVE  Append(s, x) = s \o <<x>>
  <1> DEFINE a == Append(s, x)
             b == s \o <<x>>
             n == Len(s)
  <1>1. <<x>> \in Seq(T) /\ Len(<<x>>) = 1 /\ <<x>>[1] = x
    OBVIOUS
  <1>2. a \in Seq(T) /\ Len(a) = n + 1 /\ n \in Nat /\ a[n + 1] = x /\ \A k \in 1..n : a[k] = s[k]
    BY Appended
  <1>3. b \in Seq(T) /\ Len(b) = n + 1 /\ \A k \in 1..(n + 1) : b[k] = IF k <= n THEN s[k] ELSE <<x>>[k - n]
    BY <1>1, ConcatProperties
  <1> HIDE DEF a, b, n
  <1>4. ASSUME NEW k \in 1..(n + 1) PROVE a[k] = b[k]
    <2>1. CASE k <= n
      <3>1. k \in 1..n
        BY <2>1, <1>2
      <3> QED
        BY <3>1, <2>1, <1>2, <1>3
    <2>2. CASE ~(k <= n)
      <3>1. k = n + 1 /\ k - n = 1
        BY <2>2, <1>2
      <3> QED
        BY <3>1, <2>2, <1>1, <1>2, <1>3
    <2> QED
      BY <2>1, <2>2
  <1>5. a = b
    BY <1>2, <1>3, <1>4, SeqEqual
  <1> QED
    BY <1>5 DEF a, b

\* Groups of segments.
GroupSet == {g \in Seq(SegmentSet) : g # <<>>}

\* Segments of one sentence say the same, and share a source.
Bound(targets) ==
    \A j, k \in DOMAIN targets : targets[j].id = targets[k].id =>
        targets[j].text = targets[k].text /\ (j < k => Sources(targets[j]) \cap Sources(targets[k]) # {})

\* The first n targets are grouped: in their order, by what they say, and those
\* of one sentence together.
Grouped(acc, targets, n) ==
    /\ acc \in Seq(GroupSet)
    /\ Len(FlattenSeq(acc)) = n /\ \A k \in 1..n : FlattenSeq(acc)[k] = targets[k]
    /\ n > 0 => acc # <<>> /\ Last(Last(acc)) = targets[n]
    /\ \A k \in DOMAIN acc : \A s \in ToSet(acc[k]) : s.text = acc[k][1].text /\ \E i \in 1..n : s = targets[i]
    /\ \A j, k \in DOMAIN acc : j < k => \A s \in ToSet(acc[j]), t \in ToSet(acc[k]) : s.id # t.id

\* The first and the last of a group.
LEMMA GroupFacts ==
    /\ \A acc \in Seq(GroupSet) : acc \in Seq(Seq(SegmentSet)) /\ \A k \in DOMAIN acc : acc[k] \in Seq(SegmentSet) /\ acc[k] # <<>>
    /\ \A g \in GroupSet : /\ g \in Seq(SegmentSet) /\ g # <<>> /\ Len(g) \in Nat \ {0}
                           /\ 1 \in DOMAIN g /\ Len(g) \in DOMAIN g /\ DOMAIN g = 1..Len(g)
                           /\ Last(g) = g[Len(g)] /\ Last(g) \in ToSet(g) /\ g[1] \in ToSet(g) /\ Last(g) \in SegmentSet
    /\ \A s \in SegmentSet : <<s>> \in GroupSet /\ ToSet(<<s>>) = {s} /\ Last(<<s>>) = s /\ <<s>>[1] = s
  <1>1. \A g \in GroupSet : g \in Seq(SegmentSet) /\ g # <<>>
    BY DEF GroupSet
  <1>2. ASSUME NEW acc \in Seq(GroupSet)
        PROVE acc \in Seq(Seq(SegmentSet)) /\ \A k \in DOMAIN acc : acc[k] \in Seq(SegmentSet) /\ acc[k] # <<>>
    <2> DEFINE Q == Seq(SegmentSet)
    <2>1. \A g \in GroupSet : g \in Q
      BY <1>1
    <2> HIDE DEF Q
    <2>2. acc \in Seq(Q) /\ \A k \in DOMAIN acc : acc[k] \in GroupSet
      BY <2>1
    <2> QED
      BY <2>2, <1>1 DEF Q
  <1>3. ASSUME NEW g \in GroupSet
        PROVE  /\ Len(g) \in Nat \ {0} /\ 1 \in DOMAIN g /\ Len(g) \in DOMAIN g /\ DOMAIN g = 1..Len(g)
               /\ Last(g) = g[Len(g)] /\ Last(g) \in ToSet(g) /\ g[1] \in ToSet(g) /\ Last(g) \in SegmentSet
    <2>1. g \in Seq(SegmentSet) /\ g # <<>>
      BY <1>1
    <2>2. Len(g) \in Nat \ {0} /\ DOMAIN g = 1..Len(g)
      BY <2>1, EmptySeq, LenProperties
    <2>3. 1 \in DOMAIN g /\ Len(g) \in DOMAIN g
      BY <2>2
    <2>4. Last(g) = g[Len(g)]
      BY <2>1 DEF Last
    <2>5. g[Len(g)] \in SegmentSet
      BY <2>1, <2>3
    <2> QED
      BY <2>2, <2>3, <2>4, <2>5 DEF ToSet
  <1>4. ASSUME NEW s \in SegmentSet PROVE <<s>> \in GroupSet /\ ToSet(<<s>>) = {s} /\ Last(<<s>>) = s /\ <<s>>[1] = s
    <2>1. <<s>> \in Seq(SegmentSet) /\ <<s>> # <<>> /\ <<s>>[1] = s /\ Len(<<s>>) = 1
      OBVIOUS
    <2>2. Last(<<s>>) = s
      BY <2>1 DEF Last
    <2> QED
      BY <2>1, <2>2, OneOrNone DEF GroupSet
  <1> QED
    BY <1>1, <1>2, <1>3, <1>4

\* A group with one segment more.
LEMMA GroupGrows ==
    ASSUME NEW g \in GroupSet, NEW s \in SegmentSet
    PROVE  /\ Append(g, s) \in GroupSet /\ ToSet(Append(g, s)) = ToSet(g) \cup {s} /\ Last(Append(g, s)) = s
           /\ Append(g, s)[1] = g[1]
  <1>1. g \in Seq(SegmentSet) /\ Len(g) \in Nat \ {0} /\ DOMAIN g = 1..Len(g)
    BY GroupFacts
  <1> DEFINE h == Append(g, s)
             n == Len(g)
  <1>2. /\ h \in Seq(SegmentSet) /\ h # <<>> /\ DOMAIN h = 1..(n + 1) /\ h[n + 1] = s /\ Last(h) = s
        /\ \A k \in 1..n : h[k] = g[k]
    BY <1>1, Appended
  <1> HIDE DEF h, n
  <1>3. 1 \in 1..n /\ n + 1 \in 1..(n + 1) /\ \A k \in 1..(n + 1) : k \in 1..n \/ k = n + 1
    BY <1>1 DEF n
  <1>4. ToSet(h) = ToSet(g) \cup {s}
    <2>1. \A k \in 1..n : k \in 1..(n + 1)
      BY <1>1 DEF n
    <2>2. DOMAIN g = 1..n
      BY <1>1 DEF n
    <2> QED
      BY <1>2, <1>3, <2>1, <2>2 DEF ToSet
  <1>5. h \in GroupSet
    BY <1>2 DEF GroupSet
  <1> QED
    BY <1>2, <1>3, <1>4, <1>5 DEF h

\* If a sentence has been seen before, it is that of the last group.
LEMMA LastShares ==
    ASSUME NEW targets \in Seq(SegmentSet), Related(SegmentOrder, targets), Bound(targets),
           NEW n \in 1..Len(targets), NEW acc, Grouped(acc, targets, n - 1),
           NEW j \in DOMAIN acc, NEW t \in ToSet(acc[j]), t.id = targets[n].id
    PROVE  acc # <<>> /\ j = Len(acc) /\ Shared(Last(acc), targets[n])
  <1> DEFINE s == targets[n]
             p == targets[n - 1]
             m == Len(acc)
  <1>1. PICK i \in 1..(n - 1) : t = targets[i]
    BY DEF Grouped
  <1>2. n \in Nat /\ n - 1 > 0 /\ n - 1 \in 1..Len(targets) /\ i \in 1..Len(targets) /\ i <= n - 1
    OBVIOUS
  <1>3. acc # <<>> /\ Last(Last(acc)) = p
    BY <1>2 DEF Grouped
  <1>4. acc \in Seq(GroupSet) /\ m \in Nat /\ DOMAIN acc = 1..m /\ m # 0
    <2>1. acc \in Seq(GroupSet)
      BY DEF Grouped
    <2> QED
      BY <2>1, <1>3, EmptySeq, LenProperties
  <1>5. m \in DOMAIN acc /\ Last(acc) = acc[m] /\ acc[m] \in GroupSet
    <2>1. m \in DOMAIN acc
      BY <1>4
    <2>2. Last(acc) = acc[m]
      BY <1>3 DEF Last
    <2> QED
      BY <1>4, <2>1, <2>2
  <1>6. p \in ToSet(acc[m])
    BY <1>3, <1>5, GroupFacts
  <1>7. DOMAIN targets = 1..Len(targets) /\ \A k \in 1..Len(targets) : targets[k] \in SegmentSet
    OBVIOUS
  <1>8. p.id = s.id
    <2>1. t.id \in Int \X Int /\ p.id \in Int \X Int /\ s.id \in Int \X Int
      <3>1. t \in SegmentSet /\ p \in SegmentSet /\ s \in SegmentSet
        BY <1>1, <1>2, <1>7
      <3>2. \A x \in SegmentSet : x.id \in Int \X Int
        BY DEF SegmentSet
      <3> QED
        BY <3>1, <3>2
    <2>2. Before(t.id, p.id)
      <3>1. CASE i = n - 1
        BY <3>1, <1>1, <2>1, BeforeOrders
      <3>2. CASE i # n - 1
        <4>1. i < n - 1
          BY <3>2, <1>2
        <4>2. <<targets[i], targets[n - 1]>> \in SegmentOrder
          BY <4>1, <1>2, <1>7 DEF Related
        <4> QED
          BY <4>2, <1>1 DEF SegmentOrder
      <3> QED
        BY <3>1, <3>2
    <2>3. <<p, s>> \in SegmentOrder
      <3>1. n - 1 < n
        BY <1>2
      <3> QED
        BY <3>1, <1>2, <1>7 DEF Related
    <2>4. Before(p.id, s.id)
      BY <2>3 DEF SegmentOrder
    <2>5. t.id = s.id
      OBVIOUS
    <2> HIDE DEF p, s
    <2> QED
      BY <2>1, <2>2, <2>4, <2>5, BeforeOrders
  <1>9. j = m
    <2>1. j \in Nat /\ j <= m
      BY <1>4
    <2>2. ~(j < m)
      <3> SUFFICES ASSUME j < m PROVE FALSE
        OBVIOUS
      <3>1. t.id # p.id
        BY <1>5, <1>6 DEF Grouped
      <3> QED
        BY <3>1, <1>8
    <2> QED
      BY <2>1, <2>2, <1>4
  <1>10. Shared(Last(acc), s)
    <2>1. n - 1 < n /\ n - 1 \in DOMAIN targets /\ n \in DOMAIN targets
      BY <1>2, <1>7
    <2>2. p.text = s.text /\ Sources(p) \cap Sources(s) # {}
      BY <2>1, <1>8 DEF Bound
    <2> QED
      BY <2>2, <1>3 DEF Shared
  <1> QED
    BY <1>3, <1>9, <1>10

\* One segment more: it shares its translation, or begins a group.
LEMMA ShareStep ==
    ASSUME NEW targets \in Seq(SegmentSet), Related(SegmentOrder, targets), Bound(targets),
           NEW n \in 1..Len(targets), NEW acc, Grouped(acc, targets, n - 1)
    PROVE  Grouped(Share(acc, targets[n]), targets, n)
  <1> DEFINE s == targets[n]
             m == Len(acc)
             new == Share(acc, s)
             flat == FlattenSeq(acc)
  <1>1. /\ acc \in Seq(GroupSet) /\ m \in Nat /\ DOMAIN acc = 1..m
        /\ \A k \in 1..m : acc[k] \in GroupSet
    <2>1. acc \in Seq(GroupSet)
      BY DEF Grouped
    <2> QED
      BY <2>1
  <1>2. s \in SegmentSet /\ n \in Nat /\ n > 0 /\ n - 1 \in Nat /\ n \in 1..n /\ \A k \in 1..(n - 1) : k \in 1..n
    OBVIOUS
  <1>3. acc \in Seq(Seq(SegmentSet))
    BY <1>1, GroupFacts
  <1>4. flat \in Seq(SegmentSet) /\ Len(flat) = n - 1 /\ \A k \in 1..(n - 1) : flat[k] = targets[k]
    <2>1. flat \in Seq(SegmentSet)
      BY <1>3, Flattened
    <2> QED
      BY <2>1 DEF Grouped
  <1>5. /\ Len(flat \o <<s>>) = n /\ \A k \in 1..n : (flat \o <<s>>)[k] = targets[k]
    <2>1. <<s>> \in Seq(SegmentSet) /\ Len(<<s>>) = 1 /\ <<s>>[1] = s
      BY <1>2
    <2>2. /\ Len(flat \o <<s>>) = Len(flat) + Len(<<s>>)
          /\ \A k \in 1..Len(flat) : (flat \o <<s>>)[k] = flat[k]
          /\ \A k \in 1..Len(<<s>>) : (flat \o <<s>>)[Len(flat) + k] = <<s>>[k]
      <3> DEFINE one == <<s>>
      <3>1. flat \in Seq(SegmentSet) /\ one \in Seq(SegmentSet)
        BY <1>4, <2>1
      <3> HIDE DEF flat, one
      <3>2. /\ Len(flat \o one) = Len(flat) + Len(one)
            /\ \A k \in 1..Len(flat) : (flat \o one)[k] = flat[k]
            /\ \A k \in 1..Len(one) : (flat \o one)[Len(flat) + k] = one[k]
        BY <3>1, Joined
      <3> QED
        BY <3>2 DEF one
    <2> DEFINE both == flat \o <<s>>
    <2> HIDE DEF flat, both
    <2>3. Len(both) = (n - 1) + 1 /\ (\A k \in 1..(n - 1) : both[k] = targets[k]) /\ both[(n - 1) + 1] = s
      <3>1. 1 \in 1..Len(<<s>>)
        BY <2>1
      <3>2. both[Len(flat) + 1] = s
        BY <2>1, <2>2, <3>1 DEF both
      <3> QED
        BY <1>4, <2>1, <2>2, <3>2 DEF both
    <2>4. (n - 1) + 1 = n /\ \A k \in 1..n : k \in 1..(n - 1) \/ k = n
      BY <1>2
    <2>5. Len(both) = n /\ \A k \in 1..n : both[k] = targets[k]
      BY <2>3, <2>4
    <2> QED
      BY <2>5 DEF both
  <1>6. \A k \in 1..m : \A t \in ToSet(acc[k]) : t.text = acc[k][1].text /\ \E i \in 1..n : t = targets[i]
    <2> SUFFICES ASSUME NEW k \in 1..m, NEW t \in ToSet(acc[k])
                 PROVE  t.text = acc[k][1].text /\ \E i \in 1..n : t = targets[i]
      OBVIOUS
    <2>1. t.text = acc[k][1].text /\ \E i \in 1..(n - 1) : t = targets[i]
      BY <1>1 DEF Grouped
    <2> QED
      BY <2>1, <1>2
  <1>7. \A j, k \in 1..m : j < k => \A x \in ToSet(acc[j]), y \in ToSet(acc[k]) : x.id # y.id
    BY <1>1 DEF Grouped
  <1>8. \A j \in 1..m : \A t \in ToSet(acc[j]) : t.id = s.id => acc # <<>> /\ j = m /\ Shared(Last(acc), s)
    BY <1>1, LastShares
  <1>9. CASE acc # <<>> /\ Shared(Last(acc), s)
    <2>1. m # 0 /\ m \in 1..m /\ Last(acc) = acc[m] /\ acc[m] \in GroupSet
      <3>1. m # 0
        BY <1>1, <1>9, EmptySeq
      <3>2. m \in 1..m
        BY <3>1, <1>1
      <3>3. Last(acc) = acc[m]
        BY <1>9 DEF Last
      <3> QED
        BY <3>1, <3>2, <3>3, <1>1
    <2> DEFINE g == Append(acc[m], s)
    <2>2. g \in GroupSet /\ ToSet(g) = ToSet(acc[m]) \cup {s} /\ Last(g) = s /\ g[1] = acc[m][1]
      BY <1>2, <2>1, GroupGrows
    <2>3. new = [acc EXCEPT ![Len(acc)] = g]
      BY <1>9 DEF Share
    <2>4. g = acc[m] \o <<s>>
      <3>1. acc[m] \in Seq(SegmentSet)
        BY <2>1, GroupFacts
      <3> DEFINE h == acc[m]
      <3>2. h \in Seq(SegmentSet)
        BY <3>1
      <3> HIDE DEF h
      <3>3. Append(h, s) = h \o <<s>>
        BY <3>2, <1>2, AppendedJoined
      <3> QED
        BY <3>3 DEF h
    <2>5. FlattenSeq(new) = flat \o <<s>>
      <3>1. <<s>> \in Seq(SegmentSet)
        BY <1>2
      <3>2. FlattenSeq([acc EXCEPT ![Len(acc)] = acc[Len(acc)] \o <<s>>]) = flat \o <<s>>
        BY <1>3, <1>9, <3>1, FlattenGrown
      <3> QED
        BY <2>3, <2>4, <3>2
    <2> HIDE DEF g, s, flat
    <2>6. /\ new \in Seq(GroupSet) /\ new # <<>> /\ DOMAIN new = 1..m /\ Last(new) = g
          /\ \A k \in 1..m : new[k] = IF k = m THEN g ELSE acc[k]
      <3> DEFINE r == [acc EXCEPT ![Len(acc)] = g]
      <3>1. /\ r \in Seq(GroupSet) /\ r # <<>> /\ DOMAIN r = 1..Len(acc) /\ Last(r) = g
            /\ \A k \in 1..Len(acc) : r[k] = IF k = Len(acc) THEN g ELSE acc[k]
        BY <1>1, <1>9, <2>2, Replaced
      <3>2. new = r
        BY <2>3
      <3> HIDE DEF r, new
      <3> QED
        BY <3>1, <3>2
    <2> HIDE DEF m, new
    <2>7. \A k \in 1..m : \A t \in ToSet(new[k]) : t.text = new[k][1].text /\ \E i \in 1..n : t = targets[i]
      <3> SUFFICES ASSUME NEW k \in 1..m, NEW t \in ToSet(new[k])
                   PROVE  t.text = new[k][1].text /\ \E i \in 1..n : t = targets[i]
        OBVIOUS
      <3>1. CASE k # m
        BY <3>1, <1>6, <2>6
      <3>2. CASE k = m /\ t # s
        <4>1. t \in ToSet(acc[m]) /\ new[k][1] = acc[m][1]
          BY <3>2, <2>2, <2>6
        <4> QED
          BY <4>1, <1>6, <2>1
      <3>3. CASE k = m /\ t = s
        <4>1. new[k][1] = acc[m][1]
          BY <3>3, <2>2, <2>6
        <4>2. s.text = Last(acc[m]).text
          BY <1>9, <2>1 DEF Shared
        <4>3. Last(acc[m]) \in ToSet(acc[m])
          BY <2>1, GroupFacts
        <4>4. Last(acc[m]).text = acc[m][1].text
          BY <4>3, <1>6, <2>1
        <4> QED
          BY <3>3, <4>1, <4>2, <4>4, <1>2 DEF s
      <3> QED
        BY <3>1, <3>2, <3>3
    <2>8. \A j, k \in 1..m : j < k => \A x \in ToSet(new[j]), y \in ToSet(new[k]) : x.id # y.id
      <3> SUFFICES ASSUME NEW j \in 1..m, NEW k \in 1..m, j < k, NEW x \in ToSet(new[j]), NEW y \in ToSet(new[k])
                   PROVE  x.id # y.id
        OBVIOUS
      <3>1. j # m
        BY <1>1
      <3>2. x \in ToSet(acc[j])
        BY <3>1, <2>6
      <3>3. CASE y \in ToSet(acc[k])
        BY <3>2, <3>3, <1>7
      <3>4. CASE y \notin ToSet(acc[k])
        <4>1. y = s
          BY <3>4, <2>2, <2>6
        <4> QED
          BY <4>1, <3>1, <3>2, <1>8
      <3> QED
        BY <3>3, <3>4
    <2>9. Last(Last(new)) = targets[n]
      BY <2>2, <2>6 DEF s
    <2>10. Len(FlattenSeq(new)) = n /\ \A k \in 1..n : FlattenSeq(new)[k] = targets[k]
      BY <1>5, <2>5
    <2>11. Grouped(new, targets, n)
      BY <2>6, <2>7, <2>8, <2>9, <2>10 DEF Grouped
    <2> QED
      BY <2>11 DEF new, s
  <1>10. CASE ~(acc # <<>> /\ Shared(Last(acc), s))
    <2> DEFINE g == <<s>>
    <2>1. g \in GroupSet /\ ToSet(g) = {s} /\ Last(g) = s /\ g[1] = s
      BY <1>2, GroupFacts
    <2>2. new = Append(acc, g)
      BY <1>10 DEF Share
    <2>3. FlattenSeq(new) = flat \o g
      <3>1. g \in Seq(SegmentSet)
        BY <1>2
      <3> HIDE DEF g
      <3> QED
        BY <1>3, <2>2, <3>1, FlattenAppended
    <2>4. \A k \in 1..m : \A t \in ToSet(acc[k]) : t.id # s.id
      BY <1>8, <1>10
    <2>5. Len(FlattenSeq(new)) = n /\ \A k \in 1..n : FlattenSeq(new)[k] = targets[k]
      BY <1>5, <2>3
    <2> HIDE DEF g, s, flat
    <2>6. /\ new \in Seq(GroupSet) /\ new # <<>> /\ DOMAIN new = 1..(m + 1) /\ Last(new) = g /\ new[m + 1] = g
          /\ \A k \in 1..m : new[k] = acc[k]
      BY <1>1, <2>1, <2>2, Appended DEF m
    <2> HIDE DEF m, new
    <2>7. \A k \in 1..(m + 1) : k \in 1..m \/ k = m + 1
      BY <1>1
    <2>8. \A k \in 1..(m + 1) : \A t \in ToSet(new[k]) : t.text = new[k][1].text /\ \E i \in 1..n : t = targets[i]
      <3> SUFFICES ASSUME NEW k \in 1..(m + 1), NEW t \in ToSet(new[k])
                   PROVE  t.text = new[k][1].text /\ \E i \in 1..n : t = targets[i]
        OBVIOUS
      <3>1. CASE k \in 1..m
        BY <3>1, <1>6, <2>6
      <3>2. CASE k = m + 1
        <4>1. t = s /\ new[k][1] = s
          BY <3>2, <2>1, <2>6
        <4> QED
          BY <4>1, <1>2 DEF s
      <3> QED
        BY <3>1, <3>2, <2>7
    <2>9. \A j, k \in 1..(m + 1) : j < k => \A x \in ToSet(new[j]), y \in ToSet(new[k]) : x.id # y.id
      <3> SUFFICES ASSUME NEW j \in 1..(m + 1), NEW k \in 1..(m + 1), j < k, NEW x \in ToSet(new[j]), NEW y \in ToSet(new[k])
                   PROVE  x.id # y.id
        OBVIOUS
      <3>1. j \in 1..m
        BY <1>1
      <3>2. x \in ToSet(acc[j])
        BY <3>1, <2>6
      <3>3. CASE k \in 1..m
        BY <3>1, <3>2, <3>3, <1>7, <2>6
      <3>4. CASE k = m + 1
        <4>1. y = s
          BY <3>4, <2>1, <2>6
        <4> QED
          BY <4>1, <3>1, <3>2, <2>4
      <3> QED
        BY <3>3, <3>4, <2>7
    <2>10. Last(Last(new)) = targets[n]
      BY <2>1, <2>6 DEF s
    <2>11. Grouped(new, targets, n)
      BY <2>5, <2>6, <2>8, <2>9, <2>10 DEF Grouped
    <2> QED
      BY <2>11 DEF new, s
  <1> QED
    BY <1>9, <1>10

\* Groups stay groups.
LEMMA ShareType ==
    ASSUME NEW acc \in Seq(GroupSet), NEW s \in SegmentSet
    PROVE  Share(acc, s) \in Seq(GroupSet)
  <1>1. CASE acc # <<>> /\ Shared(Last(acc), s)
    <2> DEFINE m == Len(acc)
    <2>1. acc[m] \in GroupSet
      <3>1. m \in Nat /\ m # 0 /\ acc \in [1..m -> GroupSet]
        BY <1>1, EmptySeq, LenProperties
      <3>2. m \in 1..m
        BY <3>1
      <3> HIDE DEF m
      <3> QED
        BY <3>1, <3>2
    <2> DEFINE g == Append(acc[m], s)
    <2>2. g \in GroupSet
      BY <2>1, GroupGrows
    <2>3. Share(acc, s) = [acc EXCEPT ![Len(acc)] = g]
      BY <1>1 DEF Share
    <2> HIDE DEF g
    <2>4. [acc EXCEPT ![Len(acc)] = g] \in Seq(GroupSet)
      BY <1>1, <2>2, Replaced
    <2> QED
      BY <2>3, <2>4
  <1>2. CASE ~(acc # <<>> /\ Shared(Last(acc), s))
    <2> DEFINE g == <<s>>
    <2>1. g \in GroupSet
      BY GroupFacts
    <2>2. Share(acc, s) = Append(acc, g)
      BY <1>2 DEF Share
    <2> HIDE DEF g
    <2> QED
      BY <2>1, <2>2, Appended
  <1> QED
    BY <1>1, <1>2

\* The loop over the targets.
LEMMA GroupsComputed ==
    ASSUME NEW targets \in Seq(SegmentSet)
    PROVE  \E f : /\ f[0] = <<>>
                  /\ \A n \in 1..Len(targets) : f[n] = Share(f[n - 1], targets[n])
                  /\ Groups(targets) = f[Len(targets)]
  <1> DEFINE N == Len(targets)
             T == Seq(GroupSet)
             step == [p \in (1..N) \X T |-> Share(p[2], targets[p[1]])]
  <1>1. N \in Nat /\ DOMAIN targets = 1..N /\ \A n \in 1..N : targets[n] \in SegmentSet
    OBVIOUS
  <1>2. <<>> \in T
    OBVIOUS
  <1>3. step \in [(1..N) \X T -> T]
    <2> HIDE DEF N
    <2>1. \A n \in 1..N : \A acc \in T : Share(acc, targets[n]) \in T
      BY <1>1, ShareType
    <2> HIDE DEF T
    <2> QED
      BY <2>1
  <1>4. PICK f \in [0..N -> T] : f[0] = <<>> /\ \A k \in 1..N : f[k] = step[<<k, f[k - 1]>>]
    <2> HIDE DEF T, N, step
    <2>2. Runs(T, <<>>, N, step) # {}
      BY <1>1, <1>2, <1>3, Computed, Zenon
    <2> QED
      BY <2>2 DEF Runs
  <1>5. \A k \in 1..N : f[k] = Share(f[k - 1], targets[k])
    <2> SUFFICES ASSUME NEW k \in 1..N PROVE f[k] = Share(f[k - 1], targets[k])
      OBVIOUS
    <2>1. f[k - 1] \in T
      <3> HIDE DEF T
      <3> QED
        BY <1>1
    <2> HIDE DEF T
    <2> QED
      BY <1>4, <2>1
  <1> DEFINE F(g) == [k \in 0..N |-> IF k = 0 THEN <<>> ELSE Share(g[k - 1], targets[k])]
             upTo == CHOOSE g : g = F(g)
  <1>6. f = F(f)
    <2> HIDE DEF T, N
    <2> QED
      BY <1>1, <1>4, <1>5
  <1>7. upTo = F(upTo)
    <2> HIDE DEF F
    <2> QED
      BY <1>6
  <1>8. upTo[0] = <<>> /\ \A k \in 1..N : upTo[k] = Share(upTo[k - 1], targets[k])
    <2> HIDE DEF upTo, N
    <2>1. \A k \in 0..N : F(upTo)[k] = IF k = 0 THEN <<>> ELSE Share(upTo[k - 1], targets[k])
      OBVIOUS
    <2> HIDE DEF F
    <2>2. \A k \in 0..N : upTo[k] = IF k = 0 THEN <<>> ELSE Share(upTo[k - 1], targets[k])
      BY <1>7, <2>1, Zenon
    <2>3. 0 \in 0..N /\ \A k \in 1..N : k \in 0..N /\ k # 0
      BY <1>1
    <2> QED
      BY <2>2, <2>3, Zenon
  <1>9. Groups(targets) = upTo[N]
    BY DEF Groups
  <1> QED
    <2> HIDE DEF upTo
    <2> QED
      BY <1>8, <1>9

\* The groups are the targets in order, and pieces of one sentence are in one of them.
LEMMA TargetsGrouped ==
    ASSUME NEW targets \in Seq(SegmentSet), Related(SegmentOrder, targets), Bound(targets)
    PROVE  Grouped(Groups(targets), targets, Len(targets)) /\ FlattenSeq(Groups(targets)) = targets
  <1> DEFINE N == Len(targets)
  <1>1. N \in Nat
    OBVIOUS
  <1>2. PICK f : /\ f[0] = <<>>
                 /\ \A n \in 1..N : f[n] = Share(f[n - 1], targets[n])
                 /\ Groups(targets) = f[N]
    BY GroupsComputed
  <1> DEFINE S == {n \in 0..N : Grouped(f[n], targets, n)}
  <1>3. 0 \in S
    <2>1. FlattenSeq(<<>>) = <<>>
      <3> DEFINE Q == Seq(SegmentSet)
                 none == <<>>
      <3>1. none \in Seq(Q) /\ Len(none) = 0
        OBVIOUS
      <3> HIDE DEF none
      <3>2. PICK g : g[0] = <<>> /\ FlattenSeq(none) = g[Len(none)]
        BY <3>1, FlattenComputed
      <3> QED
        BY <3>1, <3>2 DEF none
    <2>2. <<>> \in Seq(GroupSet) /\ Len(<<>>) = 0 /\ DOMAIN <<>> = {}
      OBVIOUS
    <2>3. Grouped(<<>>, targets, 0)
      BY <2>1, <2>2 DEF Grouped
    <2> QED
      BY <1>1, <1>2, <2>3
  <1>4. \A n \in 1..N : n - 1 \in S => n \in S
    <2> SUFFICES ASSUME NEW n \in 1..N, n - 1 \in S PROVE n \in S
      OBVIOUS
    <2>1. Grouped(f[n - 1], targets, n - 1) /\ n \in 0..N
      BY <1>1
    <2>2. Grouped(Share(f[n - 1], targets[n]), targets, n)
      BY <2>1, ShareStep
    <2> QED
      BY <1>2, <2>1, <2>2
  <1> HIDE DEF S
  <1>5. \A n \in 0..N : n \in S
    BY <1>1, <1>3, <1>4, Steps
  <1>6. Grouped(Groups(targets), targets, N)
    <2>1. N \in S
      BY <1>1, <1>5
    <2> QED
      BY <1>2, <2>1 DEF S
  <1>7. FlattenSeq(Groups(targets)) = targets
    <2> DEFINE flat == FlattenSeq(Groups(targets))
    <2>1. Groups(targets) \in Seq(GroupSet)
      BY <1>6 DEF Grouped
    <2>2. flat \in Seq(SegmentSet)
      BY <2>1, GroupFacts, Flattened
    <2>3. Len(flat) = N /\ \A k \in 1..N : flat[k] = targets[k]
      BY <1>6 DEF Grouped
    <2> HIDE DEF flat
    <2>4. flat = targets
      BY <2>2, <2>3, SeqEqual
    <2> QED
      BY <2>4 DEF flat
  <1> QED
    BY <1>6, <1>7

\* Segments of a transcript that have an id in common are of one sentence.
LEMMA PiecesBound ==
    ASSUME Tiles(timeline), Answered, DOMAIN sentences = Windows,
           NEW seq \in Seq(SegmentSet), Related(SegmentOrder, seq), ToSet(seq) \subseteq ToSet(Transcript(Windows))
    PROVE  Bound(seq)
  <1> SUFFICES ASSUME NEW j \in DOMAIN seq, NEW k \in DOMAIN seq, seq[j].id = seq[k].id
               PROVE  seq[j].text = seq[k].text /\ (j < k => Sources(seq[j]) \cap Sources(seq[k]) # {})
    BY DEF Bound
  <1> DEFINE s == seq[j]
             t == seq[k]
  <1>1. s \in ToSet(Transcript(Windows)) /\ t \in ToSet(Transcript(Windows)) /\ s.id = t.id
    BY DEF ToSet
  <1>2. <<s, t>> \in SegmentOrder \/ ~(j < k)
    BY DEF Related
  <1> HIDE DEF s, t
  <1>3. PICK c \in ToSet(Cues(Windows)) : s \in ToSet(Repeated(c))
    BY <1>1, TranscriptFacts
  <1>4. PICK d \in ToSet(Cues(Windows)) : t \in ToSet(Repeated(d))
    BY <1>1, TranscriptFacts
  <1>5. \A e \in ToSet(Cues(Windows)) : e \in SegmentSet
    <2> SUFFICES ASSUME NEW e \in ToSet(Cues(Windows)) PROVE e \in SegmentSet
      OBVIOUS
    <2>1. PICK v \in DOMAIN sentences : \E i \in DOMAIN sentences[v] : e = Cue(v, i)
      BY CuesFacts
    <2> QED
      BY <2>1, CueFacts
  <1>6. s \in SegmentSet /\ s.id = c.id /\ s.text = c.text /\ <<s.start, s.end>> \in ToSet(Project(c))
    BY <1>3, <1>5, RepeatedFacts
  <1>7. t \in SegmentSet /\ t.id = d.id /\ t.text = d.text /\ <<t.start, t.end>> \in ToSet(Project(d))
    BY <1>4, <1>5, RepeatedFacts
  <1>8. c = d
    <2>1. c.id = d.id
      BY <1>1, <1>6, <1>7
    <2> QED
      BY <2>1, CueKnown
  <1>9. ASSUME j < k PROVE Sources(s) \cap Sources(t) # {}
    <2>1. s.end < t.start
      BY <1>1, <1>2, <1>9 DEF SegmentOrder
    <2>2. s.start \in Nat /\ s.end \in Nat /\ t.start \in Nat /\ t.end \in Nat
      BY <1>6, <1>7 DEF SegmentSet
    <2> DEFINE all == Project(c)
    <2>3. Apart(all)
      BY <1>5, Projected
    <2>4. all \in Seq(PieceSet)
      BY <2>3 DEF Apart
    <2> HIDE DEF all
    <2>5. PICK i \in DOMAIN all : <<s.start, s.end>> = all[i]
      BY <1>6 DEF ToSet, all
    <2>6. PICK l \in DOMAIN all : <<t.start, t.end>> = all[l]
      BY <1>7, <1>8 DEF ToSet, all
    <2>7. i # l
      <3>1. all[i][2] = s.end /\ all[l][1] = t.start /\ all[l][1] < all[l][2] /\ all[l] \in PieceSet
        BY <2>4, <2>5, <2>6, PieceFacts
      <3>2. all[l][1] \in Nat /\ all[l][2] \in Nat
        BY <3>1, PieceFacts
      <3> QED
        BY <2>1, <2>2, <3>1, <3>2
    <2>8. Len(all) > 1
      <3>1. Len(all) \in Nat /\ i \in 1..Len(all) /\ l \in 1..Len(all)
        BY <2>4
      <3> QED
        BY <2>7, <3>1
    <2>9. c \in Crossings
      BY <2>8 DEF Crossings, all
    <2>10. c \in Sources(s) /\ c \in Sources(t)
      BY <1>6, <1>7, <1>8, <2>9 DEF Sources
    <2> QED
      BY <2>10
  <1>10. s.text = t.text
    BY <1>6, <1>7, <1>8
  <1> QED
    BY <1>9, <1>10 DEF s, t

-------------------------------------------------------------------------------
(***************************************************************************)
(* Translations.                                                           *)
(***************************************************************************)
TranslationSet == [start : Nat, end : Nat, text : Texts \cup {Blocked} \cup Nat, id : Nat \X Nat]

\* A translation has the place of its segment.
Placed == {r \in TranslationSet \X SegmentSet : <<r[1].id, r[1].start, r[1].end>> = <<r[2].id, r[2].start, r[2].end>>}

\* The transcript is complete, and answers are what a model said of each id, or
\* placeholders.
Translating ==
    /\ DOMAIN sentences = Windows /\ segments = Transcript(Windows) /\ groups = Groups(Targets(segments))
    /\ DOMAIN answers \subseteq Batches
    /\ \A b \in DOMAIN answers : \A k \in Ids(b) : answers[b][k] = k \/ (answers[b][k] = Blocked /\ b \in refused)

\* What is to be translated, and the groups it is translated in.
LEMMA TargetFacts ==
    ASSUME Tiles(timeline), Answered, Translating
    PROVE  /\ segments \in Seq(SegmentSet) /\ Related(SegmentOrder, segments)
           /\ Targets(segments) \in Seq(SegmentSet)
           /\ \A s : s \in ToSet(Targets(segments)) <=> s \in ToSet(segments) /\ s.text # Blocked
           /\ groups \in Seq(GroupSet) /\ FlattenSeq(groups) = Targets(segments)
           /\ \A g \in DOMAIN groups : \A s \in ToSet(groups[g]) :
                 s \in SegmentSet /\ s.text = groups[g][1].text /\ s \in ToSet(segments) /\ s.text # Blocked
           /\ \A s \in ToSet(segments) : s.text # Blocked => \E g \in DOMAIN groups : s \in ToSet(groups[g])
           /\ \A g, h \in DOMAIN groups : g < h => \A s \in ToSet(groups[g]), t \in ToSet(groups[h]) : s.id # t.id
           /\ \A s, t \in ToSet(segments) : s.id = t.id => s.text = t.text
  <1> DEFINE targets == Targets(segments)
             S == {s \in ToSet(segments) : s.text # Blocked}
  <1>1. segments \in Seq(SegmentSet) /\ Related(SegmentOrder, segments)
    BY TranscriptFacts DEF Translating
  <1>2. targets \in Seq(SegmentSet) /\ ToSet(targets) = ToSet(segments) \cap S /\ Related(SegmentOrder, targets)
    <2>1. targets = Those(segments, S)
      BY DEF Targets
    <2> HIDE DEF S, targets
    <2> QED
      BY <1>1, <2>1, ThoseKept
  <1>3. \A s : s \in ToSet(targets) <=> s \in ToSet(segments) /\ s.text # Blocked
    BY <1>2
  <1> HIDE DEF targets
  <1>4. Bound(segments)
    BY <1>1, PiecesBound DEF Translating
  <1>5. Bound(targets)
    <2>1. ToSet(targets) \subseteq ToSet(Transcript(Windows))
      BY <1>2 DEF Translating
    <2> QED
      BY <1>2, <2>1, PiecesBound DEF Translating
  <1>6. Grouped(groups, targets, Len(targets)) /\ FlattenSeq(groups) = targets
    BY <1>2, <1>5, TargetsGrouped DEF Translating, targets
  <1>7. groups \in Seq(GroupSet)
    BY <1>6 DEF Grouped
  <1>8. ToSet(targets) = UNION {ToSet(groups[g]) : g \in DOMAIN groups}
    BY <1>6, <1>7, GroupFacts, Flattened
  <1>9. \A g \in DOMAIN groups : \A s \in ToSet(groups[g]) :
           s \in SegmentSet /\ s.text = groups[g][1].text /\ s \in ToSet(segments) /\ s.text # Blocked
    <2> SUFFICES ASSUME NEW g \in DOMAIN groups, NEW s \in ToSet(groups[g])
                 PROVE  s \in SegmentSet /\ s.text = groups[g][1].text /\ s \in ToSet(segments) /\ s.text # Blocked
      OBVIOUS
    <2>1. s.text = groups[g][1].text
      BY <1>6 DEF Grouped
    <2>2. s \in ToSet(targets)
      BY <1>8
    <2>3. s \in SegmentSet
      BY <1>2, <2>2 DEF ToSet
    <2> QED
      BY <1>3, <2>1, <2>2, <2>3
  <1>10. \A s \in ToSet(segments) : s.text # Blocked => \E g \in DOMAIN groups : s \in ToSet(groups[g])
    BY <1>3, <1>8
  <1>11. \A g, h \in DOMAIN groups : g < h => \A s \in ToSet(groups[g]), t \in ToSet(groups[h]) : s.id # t.id
    BY <1>6 DEF Grouped
  <1>12. \A s, t \in ToSet(segments) : s.id = t.id => s.text = t.text
    <2> SUFFICES ASSUME NEW j \in DOMAIN segments, NEW k \in DOMAIN segments, segments[j].id = segments[k].id
                 PROVE  segments[j].text = segments[k].text
      BY DEF ToSet
    <2> QED
      BY <1>4 DEF Bound
  <1> QED
    BY <1>1, <1>2, <1>3, <1>6, <1>7, <1>9, <1>10, <1>11, <1>12 DEF targets

\* Every target is of one batch, in the order of the batches.
LEMMA BatchFacts ==
    ASSUME groups \in Seq(GroupSet)
    PROVE  /\ \A g \in DOMAIN groups : (g - 1) \div Batch \in Batches /\ g \in Ids((g - 1) \div Batch)
           /\ \A g, h \in DOMAIN groups : g <= h => (g - 1) \div Batch <= (h - 1) \div Batch
           /\ \A b \in Batches : Ids(b) \subseteq Nat
           /\ \A g \in DOMAIN groups : g \in Nat
  <1> DEFINE n == Len(groups)
  <1>1. n \in Nat /\ DOMAIN groups = 1..n /\ Batch \in Nat \ {0}
    BY Scales
  <1>2. \A i \in Nat, d \in Nat \ {0} : i \div d \in Nat /\ (i \div d) * d <= i /\ i < (i \div d + 1) * d
    OBVIOUS
  <1>3. \A q \in Nat, d \in Nat \ {0} : q <= q * d /\ q * d \in Nat /\ (q + 1) * d \in Nat
    OBVIOUS
  <1>4. \A i, j \in Nat, d \in Nat \ {0} : i <= j => i \div d <= j \div d
    OBVIOUS
  <1> HIDE DEF n
  <1>5. ASSUME NEW g \in 1..n PROVE (g - 1) \div Batch \in Batches /\ g \in Ids((g - 1) \div Batch)
    <2> DEFINE b == (g - 1) \div Batch
               low == b * Batch
               high == (b + 1) * Batch
    <2>1. g - 1 \in Nat
      BY <1>1
    <2>2. b \in Nat /\ low <= g - 1 /\ g - 1 < high
      BY <1>1, <1>2, <2>1
    <2>3. b <= low /\ low \in Nat /\ high \in Nat
      BY <1>1, <1>3, <2>2
    <2> HIDE DEF b
    <2>4. Ids(b) = low + 1 .. LowerOf(high, n)
      BY DEF Ids, n
    <2> HIDE DEF low, high
    <2>5. g \in Ids(b)
      BY <1>1, <2>2, <2>3, <2>4 DEF LowerOf
    <2>6. b \in 0..n
      BY <1>1, <2>2, <2>3
    <2> QED
      BY <2>5, <2>6 DEF Batches, n, b
  <1>6. ASSUME NEW g \in 1..n, NEW h \in 1..n, g <= h PROVE (g - 1) \div Batch <= (h - 1) \div Batch
    <2>1. g - 1 \in Nat /\ h - 1 \in Nat /\ g - 1 <= h - 1
      BY <1>1, <1>6
    <2> QED
      BY <1>1, <1>4, <2>1
  <1>7. ASSUME NEW b \in Batches PROVE Ids(b) \subseteq Nat
    <2>1. b \in Nat
      BY <1>1 DEF Batches, n
    <2> DEFINE low == b * Batch
               high == (b + 1) * Batch
    <2>2. low \in Nat /\ high \in Nat
      BY <1>1, <1>3, <2>1
    <2>3. Ids(b) = low + 1 .. LowerOf(high, n)
      BY DEF Ids, n
    <2> HIDE DEF low, high
    <2> QED
      BY <1>1, <2>2, <2>3 DEF LowerOf
  <1>8. \A g \in 1..n : g \in Nat
    BY <1>1
  <1> QED
    BY <1>1, <1>5, <1>6, <1>7, <1>8

\* With one result all before it are in the prefix.
LEMMA PrefixClosed ==
    ASSUME NEW results, NEW all, NEW j \in all, NEW k \in Prefix(results, all), j \in Int, k \in Int, j <= k,
           \A i \in all : i \in Int
    PROVE  j \in Prefix(results, all)
  <1>1. CASE j = k
    BY <1>1
  <1>2. CASE j # k
    <2>1. j < k
      BY <1>2
    <2>2. j \in DOMAIN results
      BY <2>1 DEF Prefix
    <2>3. ASSUME NEW i \in all, i < j PROVE i \in DOMAIN results
      <3>1. i < k
        BY <2>1, <2>3
      <3> QED
        BY <3>1 DEF Prefix
    <2> QED
      BY <2>2, <2>3 DEF Prefix
  <1> QED
    BY <1>1, <1>2

\* What a segment becomes.
Told(s, text) == [s EXCEPT !.text = text]

\* A segment with its translation.
LEMMA ToldFacts ==
    ASSUME NEW s \in SegmentSet, NEW text \in Texts \cup {Blocked} \cup Nat
    PROVE  /\ Told(s, text) \in TranslationSet /\ Told(s, text).text = text
           /\ Told(s, text).id = s.id /\ Told(s, text).start = s.start /\ Told(s, text).end = s.end
           /\ <<Told(s, text), s>> \in Placed
  <1>1. Told(s, text) \in TranslationSet /\ Told(s, text).text = text
        /\ Told(s, text).id = s.id /\ Told(s, text).start = s.start /\ Told(s, text).end = s.end
    BY DEF Told, SegmentSet, TranslationSet
  <1> QED
    BY <1>1 DEF Placed

\* The translations of batches that leave none out before the last of them.
LEMMA MergedFacts ==
    ASSUME Tiles(timeline), Answered, Translating, NEW B \in SUBSET DOMAIN answers,
           \A g, h \in DOMAIN groups : g <= h /\ (h - 1) \div Batch \in B => (g - 1) \div Batch \in B
    PROVE  /\ Merge(B) \in Seq(TranslationSet) /\ Leads(Placed, Merge(B), Targets(segments))
           /\ B = Batches => Len(Merge(B)) = Len(Targets(segments))
           /\ \A x : x \in ToSet(Merge(B)) <=>
                 \E g \in DOMAIN groups : /\ (g - 1) \div Batch \in B
                                          /\ \E s \in ToSet(groups[g]) : x = Told(s, answers[(g - 1) \div Batch][g])
  <1> DEFINE n == Len(groups)
             Of(g) == (g - 1) \div Batch
             Say(g) == answers[Of(g)][g]
             Lot(g) == [k \in DOMAIN groups[g] |-> Told(groups[g][k], Say(g))]
             parts == [g \in DOMAIN groups |-> IF Of(g) \in B THEN Lot(g) ELSE <<>>]
  <1>1. /\ groups \in Seq(GroupSet) /\ n \in Nat /\ DOMAIN groups = 1..n /\ \A g \in 1..n : groups[g] \in GroupSet
        /\ FlattenSeq(groups) = Targets(segments) /\ groups \in Seq(Seq(SegmentSet))
    BY TargetFacts, GroupFacts
  <1>2. Merge(B) = FlattenSeq(parts)
    BY DEF Merge, Told
  <1>3. \A g \in 1..n : Of(g) \in B => Say(g) \in Texts \cup {Blocked} \cup Nat
    <2> SUFFICES ASSUME NEW g \in 1..n, Of(g) \in B PROVE Say(g) \in Texts \cup {Blocked} \cup Nat
      OBVIOUS
    <2>1. g \in Ids(Of(g)) /\ g \in Nat
      BY <1>1, BatchFacts
    <2>2. Say(g) = g \/ Say(g) = Blocked
      BY <2>1 DEF Translating
    <2> QED
      BY <2>1, <2>2
  <1> HIDE DEF Of
  <1>4. /\ DOMAIN parts = 1..n /\ parts = [g \in 1..n |-> parts[g]]
        /\ \A g \in 1..n : Of(g) \in B => parts[g] = Lot(g)
        /\ \A g \in 1..n : Of(g) \notin B => parts[g] = <<>>
    BY <1>1
  <1> HIDE DEF parts, n, Say
  <1>5. ASSUME NEW g \in 1..n, Of(g) \in B
        PROVE  /\ Lot(g) \in Seq(TranslationSet) /\ Alike(Placed, Lot(g), groups[g])
               /\ \A x : x \in ToSet(Lot(g)) <=> \E s \in ToSet(groups[g]) : x = Told(s, Say(g))
    <2> DEFINE l == Len(groups[g])
               lot == Lot(g)
    <2>1. l \in Nat /\ DOMAIN groups[g] = 1..l /\ \A k \in 1..l : groups[g][k] \in SegmentSet
      <3>1. groups[g] \in Seq(SegmentSet)
        BY <1>1, GroupFacts
      <3> QED
        BY <3>1
    <2>2. \A k \in 1..l : /\ Told(groups[g][k], Say(g)) \in TranslationSet
                          /\ <<Told(groups[g][k], Say(g)), groups[g][k]>> \in Placed
      BY <1>3, <1>5, <2>1, ToldFacts
    <2>3. lot = [k \in 1..l |-> Told(groups[g][k], Say(g))]
      BY <2>1
    <2> HIDE DEF l, lot
    <2>4. lot \in Seq(TranslationSet) /\ Len(lot) = l /\ DOMAIN lot = 1..l /\ \A k \in 1..l : lot[k] = Told(groups[g][k], Say(g))
      <3>1. DOMAIN lot = 1..l /\ lot = [k \in 1..l |-> lot[k]] /\ \A k \in 1..l : lot[k] = Told(groups[g][k], Say(g))
        BY <2>3
      <3>2. \A k \in 1..l : lot[k] \in TranslationSet
        BY <2>2, <3>1
      <3>3. lot \in Seq(TranslationSet)
        BY <2>1, <3>1, <3>2
      <3>4. Len(lot) = l
        BY <2>1, <3>1, <3>3
      <3> QED
        BY <3>1, <3>3, <3>4
    <2>5. Alike(Placed, lot, groups[g])
      BY <2>2, <2>4 DEF Alike, l
    <2>6. \A x : x \in ToSet(lot) <=> \E s \in ToSet(groups[g]) : x = Told(s, Say(g))
      BY <2>1, <2>4 DEF ToSet
    <2>7. lot \in Seq(TranslationSet) /\ Alike(Placed, lot, groups[g])
          /\ \A x : x \in ToSet(lot) <=> \E s \in ToSet(groups[g]) : x = Told(s, Say(g))
      BY <2>4, <2>5, <2>6
    <2> QED
      BY <2>7 DEF lot
  <1> HIDE DEF Lot
  <1>6. \A g \in 1..n : parts[g] \in Seq(TranslationSet)
    <2> SUFFICES ASSUME NEW g \in 1..n PROVE parts[g] \in Seq(TranslationSet)
      OBVIOUS
    <2>1. CASE Of(g) \in B
      BY <1>4, <1>5, <2>1
    <2>2. CASE Of(g) \notin B
      BY <1>4, <2>2, OneOrNone
    <2> QED
      BY <2>1, <2>2
  <1>7. parts \in Seq(Seq(TranslationSet)) /\ Len(parts) = n
    <2> DEFINE Q == Seq(TranslationSet)
    <2>1. \A g \in 1..n : parts[g] \in Q
      BY <1>6
    <2> HIDE DEF Q
    <2>2. parts \in Seq(Q) /\ Len(parts) = n
      <3>1. parts = [g \in 1..n |-> parts[g]] /\ DOMAIN parts = 1..n /\ n \in Nat
        BY <1>1, <1>4
      <3>2. parts \in Seq(Q)
        BY <2>1, <3>1
      <3> QED
        BY <3>1, <3>2
    <2> QED
      BY <2>2 DEF Q
  <1>8. /\ Merge(B) \in Seq(TranslationSet)
        /\ ToSet(Merge(B)) = UNION {ToSet(parts[g]) : g \in 1..n}
    BY <1>2, <1>4, <1>7, Flattened
  <1>9. \A g \in 1..n : Of(g) \in B => Alike(Placed, parts[g], groups[g])
    BY <1>4, <1>5
  <1>10. Leads(Placed, Merge(B), Targets(segments))
    <2>1. ASSUME NEW g \in 1..n PROVE Alike(Placed, parts[g], groups[g]) \/ \A h \in 1..n : g <= h => parts[h] = <<>>
      <3>1. CASE Of(g) \in B
        BY <1>9, <3>1
      <3>2. CASE Of(g) \notin B
        <4>1. \A h \in 1..n : g <= h => Of(h) \notin B
          BY <1>1, <3>2 DEF Of
        <4> QED
          BY <4>1, <1>4
      <3> QED
        BY <3>1, <3>2
    <2>2. Len(parts) <= Len(groups)
      BY <1>1, <1>7 DEF n
    <2>3. Leads(Placed, FlattenSeq(parts), FlattenSeq(groups))
      BY <1>1, <1>4, <1>7, <2>1, <2>2, FlattenLeads
    <2> QED
      BY <1>1, <1>2, <2>3
  <1>11. ASSUME B = Batches PROVE Len(Merge(B)) = Len(Targets(segments))
    <2>1. \A g \in 1..n : Of(g) \in B
      BY <1>1, <1>11, BatchFacts DEF Of
    <2>2. \A g \in 1..n : Alike(Placed, parts[g], groups[g])
      BY <1>9, <2>1
    <2>3. Len(parts) = Len(groups)
      BY <1>7 DEF n
    <2>4. Alike(Placed, FlattenSeq(parts), FlattenSeq(groups))
      BY <1>1, <1>4, <1>7, <2>2, <2>3, FlattenAlike
    <2> QED
      BY <1>1, <1>2, <2>4 DEF Alike
  <1>12. \A x : x \in ToSet(Merge(B)) <=>
            \E g \in 1..n : Of(g) \in B /\ \E s \in ToSet(groups[g]) : x = Told(s, Say(g))
    <2> TAKE x
    <2>1. ASSUME x \in ToSet(Merge(B))
          PROVE \E g \in 1..n : Of(g) \in B /\ \E s \in ToSet(groups[g]) : x = Told(s, Say(g))
      <3>1. PICK g \in 1..n : x \in ToSet(parts[g])
        BY <1>8, <2>1
      <3>2. Of(g) \in B
        <4> SUFFICES ASSUME Of(g) \notin B PROVE FALSE
          OBVIOUS
        <4>1. parts[g] = <<>>
          BY <1>4
        <4> QED
          BY <3>1, <4>1, OneOrNone
      <3>3. x \in ToSet(Lot(g))
        BY <1>4, <3>1, <3>2
      <3> QED
        BY <1>5, <3>2, <3>3
    <2>2. ASSUME NEW g \in 1..n, Of(g) \in B, \E s \in ToSet(groups[g]) : x = Told(s, Say(g))
          PROVE  x \in ToSet(Merge(B))
      <3>1. x \in ToSet(Lot(g))
        BY <1>5, <2>2
      <3>2. x \in ToSet(parts[g])
        BY <1>4, <2>2, <3>1
      <3> QED
        BY <1>8, <3>2
    <2> QED
      BY <2>1, <2>2
  <1> QED
    BY <1>1, <1>8, <1>10, <1>11, <1>12 DEF Of, Say

\* The translation is complete.
TranslationDone ==
    /\ DOMAIN answers = Batches
    /\ translations = IF Targets(segments) = <<>> THEN segments
                      ELSE IF Placeholders = <<>> THEN Merge(Batches)
                      ELSE ByStart(Merge(Batches) \o Placeholders)

\* All translations: one for each segment.
LEMMA FinishedFacts ==
    ASSUME Tiles(timeline), Answered, Translating, TranslationDone
    PROVE  /\ Len(translations) = Len(segments)
           /\ \A x : x \in ToSet(translations) <=>
                 \/ x \in ToSet(segments) /\ x.text = Blocked
                 \/ \E g \in DOMAIN groups : \E s \in ToSet(groups[g]) : x = Told(s, answers[(g - 1) \div Batch][g])
  <1> DEFINE targets == Targets(segments)
             rest == Placeholders
             merged == Merge(Batches)
             S == {s \in ToSet(segments) : s.text # Blocked}
             U == {s \in ToSet(segments) : s.text = Blocked}
             Lost(x) == x \in ToSet(segments) /\ x.text = Blocked
             Won(x) == \E g \in DOMAIN groups : \E s \in ToSet(groups[g]) : x = Told(s, answers[(g - 1) \div Batch][g])
  <1>1. segments \in Seq(SegmentSet) /\ targets \in Seq(SegmentSet) /\ groups \in Seq(GroupSet)
    BY TargetFacts
  <1>2. rest \in Seq(SegmentSet) /\ ToSet(rest) = ToSet(segments) \cap U
    <2>1. rest = Those(segments, U)
      BY DEF Placeholders
    <2> HIDE DEF U, rest
    <2> QED
      BY <1>1, <2>1, ThoseKept
  <1>3. Len(targets) + Len(rest) = Len(segments)
    <2>1. targets = Those(segments, S) /\ rest = Those(segments, U)
      BY DEF Targets, Placeholders
    <2>2. \A x \in ToSet(segments) : x \in S <=> x \notin U
      OBVIOUS
    <2> HIDE DEF S, U, targets, rest
    <2>3. Len(Those(segments, S)) + Len(Those(segments, U)) = Len(segments)
      BY <1>1, <2>2, ThoseCounted
    <2> QED
      BY <2>1, <2>3
  <1>4. \A x : x \in ToSet(rest) <=> Lost(x)
    BY <1>2
  <1>5. /\ merged \in Seq(TranslationSet) /\ Len(merged) = Len(targets)
        /\ \A x : x \in ToSet(merged) <=> Won(x)
    <2>1. \A g \in DOMAIN groups : (g - 1) \div Batch \in Batches
      BY <1>1, BatchFacts
    <2> DEFINE B == Batches
    <2>2. B \in SUBSET DOMAIN answers
      BY DEF TranslationDone
    <2>3. \A g, h \in DOMAIN groups : g <= h /\ (h - 1) \div Batch \in B => (g - 1) \div Batch \in B
      BY <2>1
    <2>4. B = Batches
      OBVIOUS
    <2> HIDE DEF B
    <2>5. /\ Merge(B) \in Seq(TranslationSet) /\ Len(Merge(B)) = Len(Targets(segments))
          /\ \A x : x \in ToSet(Merge(B)) <=>
                 \E g \in DOMAIN groups : /\ (g - 1) \div Batch \in B
                                          /\ \E s \in ToSet(groups[g]) : x = Told(s, answers[(g - 1) \div Batch][g])
      BY <2>2, <2>3, <2>4, MergedFacts
    <2> QED
      BY <2>1, <2>4, <2>5
  <1>6. \A x : Lost(x) => x \in SegmentSet
    BY <1>1 DEF ToSet
  <1>7. translations = IF targets = <<>> THEN segments ELSE IF rest = <<>> THEN merged ELSE ByStart(merged \o rest)
    BY DEF TranslationDone
  <1> HIDE DEF rest, merged, Won
  <1>8. CASE targets = <<>>
    <2>1. translations = segments
      BY <1>7, <1>8
    <2>2. \A x : x \in ToSet(segments) => x.text = Blocked
      <3>1. ToSet(targets) = {}
        BY <1>8, OneOrNone
      <3> QED
        BY <3>1, TargetFacts
    <2>3. \A x : ~Won(x)
      <3>1. \A g \in DOMAIN groups : \A s \in ToSet(groups[g]) : s \in ToSet(segments) /\ s.text # Blocked
        BY TargetFacts
      <3> QED
        BY <2>2, <3>1 DEF Won
    <2> QED
      BY <2>1, <2>2, <2>3 DEF Won
  <1>9. CASE targets # <<>> /\ rest = <<>>
    <2>1. translations = merged
      BY <1>7, <1>9
    <2>2. \A x : ~Lost(x)
      BY <1>4, <1>9, OneOrNone
    <2>3. Len(rest) = 0
      BY <1>9
    <2>4. Len(merged) = Len(segments)
      <3>1. Len(targets) \in Nat
        BY <1>1
      <3> HIDE DEF targets
      <3> QED
        BY <1>3, <1>5, <2>3, <3>1
    <2> HIDE DEF Lost
    <2>5. Len(translations) = Len(segments) /\ \A x : x \in ToSet(translations) <=> Lost(x) \/ Won(x)
      BY <2>1, <2>2, <2>4, <1>5
    <2> QED
      BY <2>5 DEF Won, Lost
  <1>10. CASE targets # <<>> /\ rest # <<>>
    <2> DEFINE T == TranslationSet \cup SegmentSet
               both == merged \o rest
    <2>1. merged \in Seq(T) /\ rest \in Seq(T)
      BY <1>2, <1>5
    <2>2. \A x \in T : x.start \in Int
      BY DEF TranslationSet, SegmentSet
    <2> HIDE DEF T
    <2>3. both \in Seq(T) /\ Len(both) = Len(merged) + Len(rest) /\ ToSet(both) = ToSet(merged) \cup ToSet(rest)
      BY <2>1, Joined
    <2>4. \A k \in DOMAIN both : both[k].start \in Int
      <3> HIDE DEF both
      <3> QED
        BY <2>2, <2>3
    <2> HIDE DEF both
    <2>5. Len(ByStart(both)) = Len(both) /\ ToSet(ByStart(both)) = ToSet(both)
      BY <2>3, <2>4, ByStartKeeps
    <2>6. translations = ByStart(both)
      BY <1>7, <1>10 DEF both
    <2>7. Len(translations) = Len(segments)
      <3>1. Len(targets) \in Nat /\ Len(rest) \in Nat
        BY <1>1, <1>2
      <3> HIDE DEF targets
      <3> QED
        BY <1>3, <1>5, <2>3, <2>5, <2>6, <3>1
    <2>8. \A x : x \in ToSet(translations) <=> Lost(x) \/ Won(x)
      <3> HIDE DEF Lost
      <3> QED
        BY <1>4, <1>5, <2>3, <2>5, <2>6
    <2> QED
      BY <2>7, <2>8 DEF Won
  <1> QED
    BY <1>8, <1>9, <1>10

\* Every segment gets its own, and the pieces of a sentence the same.
LEMMA FinishedSound ==
    ASSUME Tiles(timeline), Answered, Translating, TranslationDone
    PROVE  EachGetsItsOwn /\ SentenceWhole
  <1> DEFINE Of(g) == (g - 1) \div Batch
             Say(g) == answers[Of(g)][g]
             Lost(x) == x \in ToSet(segments) /\ x.text = Blocked
             Won(x) == \E g \in DOMAIN groups : \E s \in ToSet(groups[g]) : x = Told(s, Say(g))
  <1>1. /\ Len(translations) = Len(segments)
        /\ \A x : x \in ToSet(translations) <=> Lost(x) \/ Won(x)
    BY FinishedFacts
  <1>2. /\ \A g \in DOMAIN groups : \A s \in ToSet(groups[g]) :
              s \in SegmentSet /\ s.text = groups[g][1].text /\ s \in ToSet(segments) /\ s.text # Blocked
        /\ \A s \in ToSet(segments) : s.text # Blocked => \E g \in DOMAIN groups : s \in ToSet(groups[g])
        /\ \A g, h \in DOMAIN groups : g < h => \A s \in ToSet(groups[g]), t \in ToSet(groups[h]) : s.id # t.id
        /\ \A s, t \in ToSet(segments) : s.id = t.id => s.text = t.text
        /\ groups \in Seq(GroupSet)
    BY TargetFacts
  <1>3. \A g \in DOMAIN groups : g \in Nat /\ (Say(g) = g \/ (Say(g) = Blocked /\ Of(g) \in refused))
    <2> SUFFICES ASSUME NEW g \in DOMAIN groups PROVE g \in Nat /\ (Say(g) = g \/ (Say(g) = Blocked /\ Of(g) \in refused))
      OBVIOUS
    <2>1. Of(g) \in Batches /\ g \in Ids(Of(g)) /\ g \in Nat
      BY <1>2, BatchFacts
    <2>2. Of(g) \in DOMAIN answers
      BY <2>1 DEF TranslationDone
    <2> QED
      BY <2>1, <2>2 DEF Translating
  <1>4. \A g \in DOMAIN groups : \A s \in ToSet(groups[g]) :
           /\ Told(s, Say(g)).text = Say(g) /\ Told(s, Say(g)).id = s.id
           /\ Told(s, Say(g)).start = s.start /\ Told(s, Say(g)).end = s.end
    <2> SUFFICES ASSUME NEW g \in DOMAIN groups, NEW s \in ToSet(groups[g])
                 PROVE  /\ Told(s, Say(g)).text = Say(g) /\ Told(s, Say(g)).id = s.id
                        /\ Told(s, Say(g)).start = s.start /\ Told(s, Say(g)).end = s.end
      OBVIOUS
    <2>1. Say(g) \in Texts \cup {Blocked} \cup Nat
      BY <1>3
    <2>2. s \in SegmentSet
      BY <1>2
    <2> HIDE DEF Say, Of
    <2> QED
      BY <2>1, <2>2, ToldFacts, Zenon
  <1> HIDE DEF Say
  <1>5. EachGetsItsOwn
    <2> SUFFICES ASSUME NEW s \in ToSet(segments)
                 PROVE  \E t \in ToSet(translations) :
                           /\ <<t.id, t.start, t.end>> = <<s.id, s.start, s.end>>
                           /\ IF t.text = Blocked
                              THEN s.text = Blocked \/ \E g \in DOMAIN groups : s \in ToSet(groups[g]) /\ Of(g) \in refused
                              ELSE s.text = groups[t.text][1].text
      BY <1>1 DEF EachGetsItsOwn
    <2>1. CASE s.text = Blocked
      <3>1. s \in ToSet(translations)
        BY <1>1, <2>1
      <3> QED
        BY <2>1, <3>1
    <2>2. CASE s.text # Blocked
      <3>1. PICK g \in DOMAIN groups : s \in ToSet(groups[g])
        BY <1>2, <2>2
      <3> DEFINE t == Told(s, Say(g))
      <3>2. t \in ToSet(translations)
        BY <1>1, <3>1
      <3>3. /\ t.text = Say(g) /\ t.id = s.id /\ t.start = s.start /\ t.end = s.end
        BY <1>4, <3>1
      <3>4. s.text = groups[g][1].text
        BY <1>2, <3>1
      <3>5. g \in Nat /\ (Say(g) = g \/ (Say(g) = Blocked /\ Of(g) \in refused)) /\ g # Blocked
        BY <1>3, Scales
      <3> HIDE DEF t, Of
      <3>6. CASE Say(g) = g
        <4>1. t.text # Blocked /\ s.text = groups[t.text][1].text
          BY <3>3, <3>4, <3>5, <3>6
        <4>2. <<t.id, t.start, t.end>> = <<s.id, s.start, s.end>>
          BY <3>3
        <4> QED
          BY <3>2, <4>1, <4>2
      <3>7. CASE Say(g) = Blocked /\ Of(g) \in refused
        <4>1. t.text = Blocked
          BY <3>3, <3>7
        <4>2. <<t.id, t.start, t.end>> = <<s.id, s.start, s.end>>
          BY <3>3
        <4> QED
          BY <3>1, <3>2, <3>7, <4>1, <4>2
      <3> QED
        BY <3>5, <3>6, <3>7
    <2> QED
      BY <2>1, <2>2
  <1>6. SentenceWhole
    <2> SUFFICES ASSUME NEW x \in ToSet(translations), NEW y \in ToSet(translations), x.id = y.id
                 PROVE  x.text = y.text
      BY DEF SentenceWhole
    <2>1. ASSUME NEW a, NEW b, Lost(a), Won(b), a.id = b.id PROVE FALSE
      <3>1. PICK g \in DOMAIN groups : \E s \in ToSet(groups[g]) : b = Told(s, Say(g))
        BY <2>1
      <3>2. PICK s \in ToSet(groups[g]) : b = Told(s, Say(g))
        BY <3>1
      <3>3. b.id = s.id /\ s \in ToSet(segments) /\ s.text # Blocked
        BY <1>2, <1>4, <3>2
      <3>4. a.text = s.text
        BY <1>2, <2>1, <3>3
      <3> QED
        BY <2>1, <3>3, <3>4
    <2>2. CASE Lost(x) /\ Lost(y)
      BY <2>2
    <2>3. CASE Won(x) /\ Won(y)
      <3>1. PICK g \in DOMAIN groups : \E s \in ToSet(groups[g]) : x = Told(s, Say(g))
        BY <2>3
      <3>2. PICK s \in ToSet(groups[g]) : x = Told(s, Say(g))
        BY <3>1
      <3>3. PICK h \in DOMAIN groups : \E t \in ToSet(groups[h]) : y = Told(t, Say(h))
        BY <2>3
      <3>4. PICK t \in ToSet(groups[h]) : y = Told(t, Say(h))
        BY <3>3
      <3>5. x.id = s.id /\ y.id = t.id /\ x.text = Say(g) /\ y.text = Say(h)
        BY <1>4, <3>2, <3>4
      <3>6. ~(g < h) /\ ~(h < g)
        <4>1. s.id = t.id
          BY <3>5
        <4> QED
          BY <1>2, <4>1
      <3>7. g \in Nat /\ h \in Nat
        BY <1>3
      <3>8. g = h
        BY <3>6, <3>7
      <3> QED
        BY <3>5, <3>8
    <2>4. (Lost(x) \/ Won(x)) /\ (Lost(y) \/ Won(y))
      BY <1>1
    <2> HIDE DEF Lost, Won
    <2> QED
      BY <2>1, <2>2, <2>3, <2>4
  <1> QED
    BY <1>5, <1>6

-------------------------------------------------------------------------------
(***************************************************************************)
(* What is shown before the end.                                           *)
(***************************************************************************)
LEMMA SameAlike ==
    \A T : \A s \in Seq(T) : Alike(Same(T), s, s)
  <1> SUFFICES ASSUME NEW T, NEW s \in Seq(T) PROVE Alike(Same(T), s, s)
    OBVIOUS
  <1>1. \A k \in DOMAIN s : s[k] \in T
    OBVIOUS
  <1> QED
    BY <1>1 DEF Alike, Same

\* The beginning of a sequence.
LEMMA SameLeads ==
    ASSUME NEW T, NEW s \in Seq(T), NEW t \in Seq(T), Leads(Same(T), s, t)
    PROVE  /\ \A k \in DOMAIN s : k \in DOMAIN t /\ s[k] = t[k]
           /\ ToSet(s) \subseteq ToSet(t)
  <1>1. \A k \in DOMAIN s : k \in DOMAIN t /\ s[k] = t[k]
    <2> SUFFICES ASSUME NEW k \in DOMAIN s PROVE k \in DOMAIN t /\ s[k] = t[k]
      OBVIOUS
    <2>1. <<s[k], t[k]>> \in Same(T) /\ Len(s) <= Len(t)
      BY DEF Leads
    <2>2. s[k] = t[k]
      BY <2>1 DEF Same
    <2>3. k \in DOMAIN t
      BY <2>1
    <2> QED
      BY <2>2, <2>3
  <1> QED
    BY <1>1 DEF ToSet

\* The transcript of the first windows begins that of more.
LEMMA TranscriptLeads ==
    ASSUME Tiles(timeline), Answered, NEW V \in SUBSET DOMAIN sentences, NEW W \in SUBSET DOMAIN sentences, V \subseteq W,
           \A v \in V : \A w \in Windows : w < v => w \in V
    PROVE  Leads(Same(SegmentSet), Transcript(V), Transcript(W))
  <1> DEFINE N == Total
             a == Lots(V)
             b == Lots(W)
             c == Cues(V)
             d == Cues(W)
             r == RestoreSegments(c)
             q == RestoreSegments(d)
  <1>1. N \in Nat
    BY TileFacts
  <1>2. /\ a \in Seq(Seq(SegmentSet)) /\ DOMAIN a = 1..N /\ Len(a) = N /\ c = FlattenSeq(a)
        /\ \A n \in 1..N : n - 1 \in V => a[n] = [k \in DOMAIN sentences[n - 1] |-> Cue(n - 1, k)]
        /\ \A n \in 1..N : n - 1 \notin V => a[n] = <<>>
    BY LotsFacts
  <1>3. /\ b \in Seq(Seq(SegmentSet)) /\ DOMAIN b = 1..N /\ Len(b) = N /\ d = FlattenSeq(b)
        /\ \A n \in 1..N : n - 1 \in W => b[n] = [k \in DOMAIN sentences[n - 1] |-> Cue(n - 1, k)]
    BY LotsFacts
  <1>4. c \in Seq(SegmentSet) /\ d \in Seq(SegmentSet) /\ Related(CueOrder, c) /\ Related(CueOrder, d)
    BY CuesFacts
  <1> HIDE DEF N, a, b, c, d
  <1>5. ASSUME NEW n \in 1..N
        PROVE  Alike(Same(SegmentSet), a[n], b[n]) \/ \A j \in 1..N : n <= j => a[j] = <<>>
    <2>1. CASE n - 1 \in V
      <3>1. a[n] = b[n]
        BY <2>1, <1>2, <1>3
      <3>2. a[n] \in Seq(SegmentSet)
        BY <1>2
      <3> QED
        BY <3>1, <3>2, SameAlike
    <2>2. CASE n - 1 \notin V
      <3> SUFFICES ASSUME NEW j \in 1..N, n <= j, j - 1 \in V PROVE FALSE
        BY <1>2
      <3>1. j # n
        BY <2>2
      <3>2. n - 1 \in Nat /\ n - 1 < j - 1
        BY <1>1, <3>1
      <3>3. j - 1 \in Windows
        BY DEF Answered
      <3> DEFINE u == n - 1
                 v == j - 1
      <3>4. u \in Nat /\ u < v /\ v \in Windows /\ v \in V /\ u \notin V
        BY <2>2, <3>2, <3>3
      <3> HIDE DEF u, v
      <3>5. u \in Windows
        BY <3>4, WindowBelow
      <3> QED
        BY <3>4, <3>5
    <2> QED
      BY <2>1, <2>2
  <1>6. Leads(Same(SegmentSet), c, d)
    <2>1. Len(a) <= Len(b)
      BY <1>1, <1>2, <1>3
    <2>2. \A k \in DOMAIN a : Alike(Same(SegmentSet), a[k], b[k]) \/ \A j \in DOMAIN a : k <= j => a[j] = <<>>
      BY <1>2, <1>5
    <2>3. Leads(Same(SegmentSet), FlattenSeq(a), FlattenSeq(b))
      BY <1>2, <1>3, <2>1, <2>2, FlattenLeads
    <2> QED
      BY <1>2, <1>3, <2>3
  <1>7. r \in Seq(SegmentSet) /\ q \in Seq(SegmentSet)
    BY <1>4, RestoredFacts
  <1>8. Leads(Same(SegmentSet), r, q)
    <2> DEFINE e == [k \in DOMAIN c |-> Repeated(c[k])]
               f == [k \in DOMAIN d |-> Repeated(d[k])]
    <2>1. r = FlattenSeq(e) /\ q = FlattenSeq(f)
      BY DEF RestoreSegments
    <2>2. \A k \in DOMAIN c : k \in DOMAIN d /\ c[k] = d[k]
      BY <1>4, <1>6, SameLeads
    <2>3. e \in Seq(Seq(SegmentSet)) /\ DOMAIN e = DOMAIN c /\ Len(e) = Len(c)
      <3> DEFINE Q == Seq(SegmentSet)
                 n == Len(c)
      <3>1. \A s \in SegmentSet : Repeated(s) \in Q
        BY RepeatedFacts
      <3>2. n \in Nat /\ DOMAIN c = 1..n /\ \A k \in 1..n : c[k] \in SegmentSet
        BY <1>4
      <3> HIDE DEF Q, n
      <3>3. e = [k \in 1..n |-> e[k]] /\ DOMAIN e = 1..n /\ \A k \in 1..n : e[k] \in Q
        BY <3>1, <3>2
      <3> HIDE DEF e
      <3>4. e \in Seq(Q)
        BY <3>2, <3>3
      <3>5. Len(e) = n
        BY <3>2, <3>3, <3>4
      <3> QED
        BY <3>2, <3>3, <3>4, <3>5 DEF Q, n
    <2>4. f \in Seq(Seq(SegmentSet)) /\ DOMAIN f = DOMAIN d /\ Len(f) = Len(d)
      <3> DEFINE Q == Seq(SegmentSet)
                 n == Len(d)
      <3>1. \A s \in SegmentSet : Repeated(s) \in Q
        BY RepeatedFacts
      <3>2. n \in Nat /\ DOMAIN d = 1..n /\ \A k \in 1..n : d[k] \in SegmentSet
        BY <1>4
      <3> HIDE DEF Q, n
      <3>3. f = [k \in 1..n |-> f[k]] /\ DOMAIN f = 1..n /\ \A k \in 1..n : f[k] \in Q
        BY <3>1, <3>2
      <3> HIDE DEF f
      <3>4. f \in Seq(Q)
        BY <3>2, <3>3
      <3>5. Len(f) = n
        BY <3>2, <3>3, <3>4
      <3> QED
        BY <3>2, <3>3, <3>4, <3>5 DEF Q, n
    <2>5. \A k \in DOMAIN e : Alike(Same(SegmentSet), e[k], f[k])
      <3> SUFFICES ASSUME NEW k \in DOMAIN c PROVE Alike(Same(SegmentSet), e[k], f[k])
        OBVIOUS
      <3>1. e[k] = Repeated(c[k]) /\ f[k] = Repeated(c[k])
        BY <2>2
      <3>2. c[k] \in SegmentSet
        BY <1>4
      <3>3. Repeated(c[k]) \in Seq(SegmentSet)
        BY <3>2, RepeatedFacts
      <3> QED
        BY <3>1, <3>3, SameAlike
    <2>6. Len(e) <= Len(f)
      BY <1>6, <2>3, <2>4 DEF Leads
    <2> HIDE DEF e, f, r, q
    <2>7. Leads(Same(SegmentSet), FlattenSeq(e), FlattenSeq(f))
      BY <2>3, <2>4, <2>5, <2>6, FlattenLeads
    <2> QED
      BY <2>1, <2>7
  <1> DEFINE S == {s \in ToSet(r) : filtered => s.text \notin Labels}
             U == {s \in ToSet(q) : filtered => s.text \notin Labels}
  <1>9. Transcript(V) = Those(r, S) /\ Transcript(W) = Those(q, U)
    BY DEF Transcript, FilterSegments, c, d
  <1> HIDE DEF r, q
  <1>10. \A x \in ToSet(r) : x \in S <=> x \in U
    <2>1. ToSet(r) \subseteq ToSet(q)
      BY <1>7, <1>8, SameLeads
    <2> QED
      BY <2>1
  <1> HIDE DEF S, U
  <1>11. Leads(Same(SegmentSet), Those(r, S), Those(q, U))
    BY <1>7, <1>8, <1>10, ThoseLeads
  <1> QED
    BY <1>9, <1>11

\* A failed transcription shows what there is before the first window that is
\* missing; a failed translation, before the first batch.
LEMMA EarlyHonest ==
    ASSUME Tiles(timeline), Answered, DOMAIN sentences # Windows, partial = Transcript(Prefix(sentences, Windows))
    PROVE  PartialHonest
  <1> DEFINE V == Prefix(sentences, Windows)
             W == DOMAIN sentences
             goal == Transcript(W)
  <1>1. V \in SUBSET DOMAIN sentences /\ W \in SUBSET DOMAIN sentences /\ V \subseteq W
    BY DEF Prefix
  <1>2. \A w \in Windows : w \in Int
    BY WindowFacts
  <1>3. \A v \in V : \A w \in Windows : w < v => w \in V
    <2> SUFFICES ASSUME NEW v \in V, NEW w \in Windows, w < v PROVE w \in V
      OBVIOUS
    <2>1. v \in Windows
      BY DEF Prefix, Answered
    <2>2. w \in Int /\ v \in Int /\ w <= v
      BY <1>2, <2>1
    <2> QED
      BY <1>2, <2>2, PrefixClosed
  <1> HIDE DEF V
  <1>4. Leads(Same(SegmentSet), partial, goal)
    <2>1. Leads(Same(SegmentSet), Transcript(V), Transcript(W))
      BY <1>1, <1>3, TranscriptLeads
    <2> QED
      BY <2>1 DEF V
  <1>5. /\ partial \in Seq(SegmentSet) /\ goal \in Seq(SegmentSet)
        /\ \A s : s \in ToSet(partial) => \E c \in ToSet(Cues(V)) : s \in ToSet(Repeated(c))
    <2>1. partial = Transcript(V)
      BY DEF V
    <2> QED
      BY <1>1, <2>1, TranscriptFacts
  <1>6. \A k \in DOMAIN partial : partial[k] = goal[k]
    <2> HIDE DEF goal
    <2> QED
      BY <1>4, <1>5, SameLeads
  <1>7. ASSUME NEW k \in DOMAIN partial, NEW w \in Windows \ DOMAIN sentences PROVE partial[k].id[1] < w
    <2>1. partial[k] \in ToSet(partial)
      BY DEF ToSet
    <2>2. PICK c \in ToSet(Cues(V)) : partial[k] \in ToSet(Repeated(c))
      BY <1>5, <2>1
    <2>3. PICK v \in V : \E i \in DOMAIN sentences[v] : c = Cue(v, i)
      BY <1>1, CuesFacts
    <2>4. PICK i \in DOMAIN sentences[v] : c = Cue(v, i)
      BY <2>3
    <2>5. v \in DOMAIN sentences
      BY <1>1
    <2>6. c \in SegmentSet /\ c.id = <<v, i>>
      BY <2>4, <2>5, CueFacts
    <2>7. partial[k].id = c.id
      BY <2>2, <2>6, RepeatedFacts
    <2>8. v \in Windows /\ v \in Int /\ w \in Int
      BY <1>2, <2>5 DEF Answered
    <2>9. ~(w < v) /\ w # v
      <3>1. w < v => w \in DOMAIN sentences
        BY <1>1, <1>3
      <3> QED
        BY <3>1, <2>5
    <2> QED
      BY <2>6, <2>7, <2>8, <2>9
  <1>8. Len(partial) <= Len(goal)
    BY <1>4 DEF Leads
  <1> QED
    BY <1>6, <1>7, <1>8 DEF PartialHonest

\* What a failed translation shows is a beginning of what was to be translated.
LEMMA LateHonest ==
    ASSUME Tiles(timeline), Answered, Translating, partial = Merge(Prefix(answers, Batches))
    PROVE  PartialHonest
  <1> DEFINE B == Prefix(answers, Batches)
             goal == Targets(segments)
  <1>1. groups \in Seq(GroupSet) /\ goal \in Seq(SegmentSet)
    BY TargetFacts
  <1>2. B \in SUBSET DOMAIN answers
    BY DEF Prefix
  <1>3. \A b \in Batches : b \in Int
    <2>1. Len(groups) \in Nat
      BY <1>1
    <2> QED
      BY <2>1 DEF Batches
  <1>4. \A g, h \in DOMAIN groups : g <= h /\ (h - 1) \div Batch \in B => (g - 1) \div Batch \in B
    <2> SUFFICES ASSUME NEW g \in DOMAIN groups, NEW h \in DOMAIN groups, g <= h, (h - 1) \div Batch \in B
                 PROVE  (g - 1) \div Batch \in B
      OBVIOUS
    <2> DEFINE j == (g - 1) \div Batch
               k == (h - 1) \div Batch
    <2>1. j \in Batches /\ k \in Batches /\ j <= k
      BY <1>1, BatchFacts
    <2>2. k \in B
      OBVIOUS
    <2> HIDE DEF j, k
    <2>3. j \in B
      BY <1>3, <2>1, <2>2, PrefixClosed
    <2> QED
      BY <2>3 DEF j
  <1> HIDE DEF B
  <1>5. Merge(B) \in Seq(TranslationSet) /\ Leads(Placed, Merge(B), Targets(segments))
    BY <1>2, <1>4, MergedFacts
  <1>6. partial = Merge(B)
    BY DEF B
  <1>7. \A k \in DOMAIN partial : <<partial[k].id, partial[k].start, partial[k].end>> = <<goal[k].id, goal[k].start, goal[k].end>>
    <2> SUFFICES ASSUME NEW k \in DOMAIN partial
                 PROVE  <<partial[k].id, partial[k].start, partial[k].end>> = <<goal[k].id, goal[k].start, goal[k].end>>
      OBVIOUS
    <2>1. <<partial[k], goal[k]>> \in Placed
      BY <1>5, <1>6 DEF Leads
    <2> QED
      BY <2>1 DEF Placed
  <1>8. Len(partial) <= Len(goal)
    BY <1>5, <1>6 DEF Leads
  <1> QED
    BY <1>7, <1>8 DEF PartialHonest, Translating

-------------------------------------------------------------------------------
(***************************************************************************)
(* The steps.                                                              *)
(***************************************************************************)
\* What stays as it is while these variables do.
LEMMA WindowsStay ==
    ASSUME UNCHANGED timeline
    PROVE  Windows' = Windows /\ \A w : Size(w)' = Size(w)
  BY DEF Total, Windows, Size

\* What is computed from variables that stay stays as it is.
LEMMA TranscriptStays ==
    ASSUME UNCHANGED <<timeline, filtered, sentences>>
    PROVE  Transcript(Windows)' = Transcript(Windows)
  BY DEF Transcript, FilterSegments, RestoreSegments, Repeated, Project, Cues, Cue, Total, Windows

\* The same of what a failed transcription shows,
LEMMA PartialStays ==
    ASSUME UNCHANGED <<timeline, filtered, sentences>>
    PROVE  Transcript(Prefix(sentences, Windows))' = Transcript(Prefix(sentences, Windows))
  BY DEF Transcript, FilterSegments, RestoreSegments, Repeated, Project, Cues, Cue, Total, Windows, Prefix

\* of the groups,
LEMMA GroupsStay ==
    ASSUME UNCHANGED <<timeline, sentences, segments>>
    PROVE  Groups(Targets(segments))' = Groups(Targets(segments))
  BY DEF Groups, Targets, Share, Shared, Sources, Crossings, Project, Cues, Cue, Total, Windows

\* of the groups of new segments,
LEMMA GroupsNext ==
    ASSUME UNCHANGED <<timeline, sentences>>
    PROVE  Groups(Targets(segments))' = Groups(Targets(segments'))
  BY DEF Groups, Targets, Share, Shared, Sources, Crossings, Project, Cues, Cue, Total, Windows

\* of the batches
LEMMA BatchesStay ==
    ASSUME UNCHANGED groups
    PROVE  Batches' = Batches /\ \A b : Ids(b)' = Ids(b)
  BY DEF Batches, Ids

\* and of the translations.
LEMMA MergeStays ==
    ASSUME UNCHANGED <<groups, answers>>
    PROVE  Merge(Prefix(answers, Batches))' = Merge(Prefix(answers, Batches)) /\ Merge(Batches)' = Merge(Batches)
  BY DEF Merge, Prefix, Batches, Ids

\* The transcript and its translation are what is put together from what was
\* heard and answered.
TracksInv ==
    /\ timeline \in Timelines /\ Answered
    /\ telling \in {"transcribe", "translate", "done", "failed"}
    /\ telling = "transcribe" => answers = <<>>
    /\ telling \in {"translate", "done"} => Translating
    /\ telling = "done" => TranslationDone
    /\ telling = "failed" => \/ DOMAIN sentences # Windows /\ partial = Transcript(Prefix(sentences, Windows))
                             \/ Translating /\ partial = Merge(Prefix(answers, Batches))

\* The timeline is one of those that AudioCut leaves.
LEMMA InvTiles ==
    ASSUME TracksInv
    PROVE  Tiles(timeline)
  BY TracksClock DEF TracksInv

\* The windows that are answered stay so.
LEMMA AnsweredStays ==
    ASSUME Answered, UNCHANGED <<timeline, sentences>>
    PROVE  Answered'
  <1>1. Windows' = Windows /\ \A w : Size(w)' = Size(w)
    BY WindowsStay
  <1> QED
    BY <1>1 DEF Answered, Said

\* What is translated stays so.
LEMMA TranslatingStays ==
    ASSUME Translating, UNCHANGED <<timeline, filtered, sentences, segments, groups, answers, refused>>
    PROVE  Translating'
  <1>1. Transcript(Windows)' = Transcript(Windows)
    BY TranscriptStays
  <1>2. Groups(Targets(segments))' = Groups(Targets(segments))
    BY GroupsStay
  <1>3. Windows' = Windows
    BY WindowsStay
  <1>4. Batches' = Batches /\ \A b : Ids(b)' = Ids(b)
    BY BatchesStay
  <1>5. DOMAIN sentences' = Windows' /\ segments' = Transcript(Windows)' /\ groups' = Groups(Targets(segments))'
    BY <1>1, <1>2, <1>3 DEF Translating
  <1>6. /\ DOMAIN answers' \subseteq Batches'
        /\ \A b \in DOMAIN answers' : \A k \in Ids(b)' : answers'[b][k] = k \/ (answers'[b][k] = Blocked /\ b \in refused')
    BY <1>4 DEF Translating
  <1> QED
    BY <1>5, <1>6 DEF Translating

\* One more window is answered.
LEMMA SaidMore ==
    ASSUME TracksInv, NEW w \in Windows, NEW seq, Said(w, seq), UNCHANGED timeline,
           sentences' = [v \in DOMAIN sentences \cup {w} |-> IF v = w THEN seq ELSE sentences[v]]
    PROVE  Answered'
  <1>1. Windows' = Windows /\ \A v : Size(v)' = Size(v)
    BY WindowsStay
  <1>2. DOMAIN sentences' = DOMAIN sentences \cup {w}
    OBVIOUS
  <1>3. \A v \in DOMAIN sentences' : Said(v, sentences'[v])
    <2> SUFFICES ASSUME NEW v \in DOMAIN sentences' PROVE Said(v, sentences'[v])
      OBVIOUS
    <2>1. CASE v = w
      BY <2>1
    <2>2. CASE v # w
      <3>1. v \in DOMAIN sentences /\ sentences'[v] = sentences[v]
        BY <1>2, <2>2
      <3> QED
        BY <3>1 DEF TracksInv, Answered
    <2> QED
      BY <2>1, <2>2
  <1>4. \A v \in DOMAIN sentences' : Said(v, sentences[v])'
    BY <1>1, <1>3 DEF Said
  <1>5. DOMAIN sentences' \subseteq Windows'
    BY <1>1, <1>2 DEF TracksInv, Answered
  <1> QED
    BY <1>4, <1>5 DEF Answered

\* What a window is answered with, clipped and in order.
LEMMA HeardSaid ==
    ASSUME Tiles(timeline), NEW w \in Windows, NEW n \in Nat,
           NEW items \in [1..n -> [start : 0..Size(w) - 1, end : 1..Size(w) + Slack, text : Texts]],
           \A k \in 1..n : Valid(w, items[k])
    PROVE  Said(w, ByStart([k \in 1..n |-> [items[k] EXCEPT !.end = LowerOf(@, Size(w))]]))
  <1> DEFINE size == Size(w)
             clipped == [k \in 1..n |-> [items[k] EXCEPT !.end = LowerOf(items[k].end, size)]]
             sorted == ByStart(clipped)
             C == {x \in ToldSet : x.start < x.end /\ x.end <= size}
  <1>1. size \in Nat \ {0} /\ Slack \in Nat
    BY WindowFacts, Scales
  <1>2. \A k \in 1..n : clipped[k] \in C
    <2> SUFFICES ASSUME NEW k \in 1..n PROVE clipped[k] \in C
      OBVIOUS
    <2> DEFINE i == items[k]
               e == LowerOf(i.end, size)
    <2>1. i \in [start : 0..size - 1, end : 1..size + Slack, text : Texts] /\ Valid(w, i)
      OBVIOUS
    <2>2. clipped[k] = [i EXCEPT !.end = e]
      OBVIOUS
    <2> HIDE DEF clipped, i
    <2>3. i.start \in Nat /\ i.end \in Nat /\ i.text \in Texts /\ i.start < i.end /\ i.start < size
      BY <2>1, <1>1 DEF Valid
    <2>4. e \in Nat /\ i.start < e /\ e <= size
      BY <2>3, <1>1 DEF LowerOf
    <2> HIDE DEF e, size
    <2>5. clipped[k] = [start |-> i.start, end |-> e, text |-> i.text]
      BY <2>1, <2>2
    <2> QED
      BY <2>3, <2>4, <2>5 DEF ToldSet
  <1>3. clipped \in Seq(C) /\ DOMAIN clipped = 1..n
    <2>1. clipped = [k \in 1..n |-> clipped[k]] /\ DOMAIN clipped = 1..n
      OBVIOUS
    <2> HIDE DEF clipped, C
    <2> QED
      BY <1>2, <2>1
  <1>4. \A x \in C : x \in ToldSet /\ x.start < x.end /\ x.end <= size /\ x.start \in Int
    BY DEF ToldSet
  <1>5. [k \in 1..n |-> [items[k] EXCEPT !.end = LowerOf(@, Size(w))]] = clipped
    OBVIOUS
  <1> HIDE DEF clipped, C, size
  <1>6. \A k \in DOMAIN clipped : clipped[k].start \in Int
    BY <1>2, <1>3, <1>4
  <1>7. sorted \in Seq(C)
    BY <1>3, <1>6, ByStartKeeps
  <1> HIDE DEF sorted
  <1>8. sorted \in Seq(ToldSet) /\ \A k \in DOMAIN sorted : sorted[k].start < sorted[k].end /\ sorted[k].end <= size
    <2>1. \A k \in DOMAIN sorted : sorted[k] \in C
      BY <1>7
    <2>2. sorted \in Seq(ToldSet)
      BY <1>4, <1>7
    <2> QED
      BY <1>4, <2>1, <2>2
  <1> QED
    BY <1>5, <1>8 DEF Said, size, sorted

\* Every step keeps the invariant: a window is answered or given up,
LEMMA HearKeeps ==
    ASSUME TracksInv, NEW w \in Windows, HearWindow(w) \/ HearNothing(w)
    PROVE  TracksInv'
  <1>1. Tiles(timeline)
    BY InvTiles
  <1>2. telling = "transcribe" /\ w \notin DOMAIN sentences
    BY DEF HearWindow, HearNothing
  <1>3. UNCHANGED <<timeline, filtered, telling, segments, groups, answers, refused, translations, partial>>
    BY DEF HearWindow, HearNothing
  <1>4. Answered'
    <2>1. CASE HearWindow(w)
      <3>1. PICK n \in 0..MaxCues - Count :
              \E items \in [1..n -> [start : 0..Size(w) - 1, end : 1..Size(w) + Slack, text : Texts]] :
                 /\ \A k \in 1..n : Valid(w, items[k])
                 /\ sentences' = [v \in DOMAIN sentences \cup {w} |-> IF v = w THEN ByStart([k \in 1..n |-> [items[k] EXCEPT !.end = LowerOf(@, Size(w))]]) ELSE sentences[v]]
        BY <2>1 DEF HearWindow
      <3>2. PICK items \in [1..n -> [start : 0..Size(w) - 1, end : 1..Size(w) + Slack, text : Texts]] :
              /\ \A k \in 1..n : Valid(w, items[k])
              /\ sentences' = [v \in DOMAIN sentences \cup {w} |-> IF v = w THEN ByStart([k \in 1..n |-> [items[k] EXCEPT !.end = LowerOf(@, Size(w))]]) ELSE sentences[v]]
        BY <3>1
      <3>3. n \in Nat
        <4>1. Count \in Nat
          BY <1>1, CuesFacts DEF Count, TracksInv
        <4> QED
          BY <4>1, <3>1, Scales
      <3> DEFINE seq == ByStart([k \in 1..n |-> [items[k] EXCEPT !.end = LowerOf(@, Size(w))]])
      <3>4. Said(w, seq)
        BY <1>1, <3>2, <3>3, HeardSaid
      <3>5. sentences' = [v \in DOMAIN sentences \cup {w} |-> IF v = w THEN seq ELSE sentences[v]]
        BY <3>2
      <3> HIDE DEF seq
      <3> QED
        BY <1>3, <3>4, <3>5, SaidMore
    <2>2. CASE HearNothing(w)
      <3> DEFINE seq == <<[start |-> 0, end |-> Size(w), text |-> Blocked]>>
      <3>1. Size(w) \in Nat \ {0}
        BY <1>1, WindowFacts
      <3>2. [start |-> 0, end |-> Size(w), text |-> Blocked] \in ToldSet
        BY <3>1 DEF ToldSet
      <3>3. Said(w, seq)
        BY <3>1, <3>2 DEF Said
      <3>4. sentences' = [v \in DOMAIN sentences \cup {w} |-> IF v = w THEN seq ELSE sentences[v]]
        BY <2>2 DEF HearNothing
      <3> HIDE DEF seq
      <3> QED
        BY <1>3, <3>3, <3>4, SaidMore
    <2> QED
      BY <2>1, <2>2
  <1> QED
    BY <1>2, <1>3, <1>4 DEF TracksInv

\* the transcript is complete,
LEMMA FinishTranscriptKeeps ==
    ASSUME TracksInv, FinishTranscript
    PROVE  TracksInv'
  <1>1. /\ telling = "transcribe" /\ DOMAIN sentences = Windows /\ telling' = "translate"
        /\ segments' = Transcript(Windows) /\ groups' = Groups(Targets(segments'))
        /\ UNCHANGED <<timeline, filtered, sentences, answers, refused, translations, partial>>
    BY DEF FinishTranscript
  <1>2. Answered'
    BY <1>1, AnsweredStays DEF TracksInv
  <1>3. Transcript(Windows)' = Transcript(Windows) /\ Windows' = Windows
    BY <1>1, TranscriptStays, WindowsStay
  <1>4. groups' = Groups(Targets(segments))'
    BY <1>1, GroupsNext
  <1>5. answers' = <<>>
    BY <1>1 DEF TracksInv
  <1>6. Translating'
    BY <1>1, <1>3, <1>4, <1>5 DEF Translating
  <1> QED
    BY <1>1, <1>2, <1>6 DEF TracksInv

\* or fails,
LEMMA FailTranscriptKeeps ==
    ASSUME TracksInv, FailTranscript
    PROVE  TracksInv'
  <1>1. /\ telling = "transcribe" /\ DOMAIN sentences # Windows /\ telling' = "failed"
        /\ partial' = Transcript(Prefix(sentences, Windows))
        /\ UNCHANGED <<timeline, filtered, sentences, segments, groups, answers, refused, translations>>
    BY DEF FailTranscript
  <1>2. Answered'
    BY <1>1, AnsweredStays DEF TracksInv
  <1>3. Transcript(Prefix(sentences, Windows))' = Transcript(Prefix(sentences, Windows)) /\ Windows' = Windows
    BY <1>1, PartialStays, WindowsStay
  <1> QED
    BY <1>1, <1>2, <1>3 DEF TracksInv

\* A reply with every id once names each by itself.
LEMMA AlignedNamed ==
    ASSUME NEW ids, NEW reply \in [1..Cardinality(ids) -> ids], Aligned(reply, ids)
    PROVE  \A k \in ids : Align(reply, ids)[k] = k
  <1> SUFFICES ASSUME NEW k \in ids PROVE reply[CHOOSE n \in DOMAIN reply : reply[n] = k] = k
    BY DEF Align
  <1>1. \E n \in DOMAIN reply : reply[n] = k
    BY DEF Aligned, ToSet
  <1> QED
    BY <1>1

\* a batch is answered,
LEMMA AnsweredMore ==
    ASSUME TracksInv, telling = "translate", NEW b \in Batches, NEW texts, Record(b, texts),
           UNCHANGED <<timeline, filtered, telling, sentences, segments, groups, translations, partial>>,
           refused \subseteq refused',
           \A k \in Ids(b) : texts[k] = k \/ (texts[k] = Blocked /\ b \in refused')
    PROVE  TracksInv'
  <1>1. answers' = [c \in DOMAIN answers \cup {b} |-> IF c = b THEN texts ELSE answers[c]]
    BY DEF Record
  <1>2. Transcript(Windows)' = Transcript(Windows) /\ Groups(Targets(segments))' = Groups(Targets(segments)) /\ Windows' = Windows
    BY TranscriptStays, GroupsStay, WindowsStay
  <1>3. Batches' = Batches /\ \A c : Ids(c)' = Ids(c)
    BY BatchesStay
  <1>4. Translating
    BY DEF TracksInv
  <1>5. DOMAIN answers' \subseteq Batches'
    BY <1>1, <1>3, <1>4 DEF Translating
  <1>6. \A c \in DOMAIN answers' : \A k \in Ids(c)' : answers'[c][k] = k \/ (answers'[c][k] = Blocked /\ c \in refused')
    <2> SUFFICES ASSUME NEW c \in DOMAIN answers', NEW k \in Ids(c)
                 PROVE  answers'[c][k] = k \/ (answers'[c][k] = Blocked /\ c \in refused')
      BY <1>3
    <2>1. CASE c = b
      BY <1>1, <2>1
    <2>2. CASE c # b
      <3>1. c \in DOMAIN answers /\ answers'[c] = answers[c]
        BY <1>1, <2>2
      <3> QED
        BY <1>4, <3>1 DEF Translating
    <2> QED
      BY <2>1, <2>2
  <1>7. DOMAIN sentences' = Windows' /\ segments' = Transcript(Windows)' /\ groups' = Groups(Targets(segments))'
    BY <1>2, <1>4 DEF Translating
  <1>8. Translating'
    BY <1>5, <1>6, <1>7 DEF Translating
  <1>9. Answered'
    BY AnsweredStays DEF TracksInv
  <1> QED
    BY <1>8, <1>9 DEF TracksInv

\* by a model, or given up,
LEMMA AnswerKeeps ==
    ASSUME TracksInv, telling = "translate", NEW b \in Batches, AnswerBatch(b) \/ RefuseBatch(b)
    PROVE  TracksInv'
  <1>1. CASE AnswerBatch(b)
    <2>1. PICK reply \in [1..Cardinality(Ids(b)) -> Ids(b)] : Aligned(reply, Ids(b)) /\ Record(b, Align(reply, Ids(b)))
      BY <1>1 DEF AnswerBatch
    <2>2. UNCHANGED <<timeline, filtered, telling, sentences, segments, groups, refused, translations, partial>>
      BY <1>1 DEF AnswerBatch
    <2> DEFINE texts == Align(reply, Ids(b))
    <2>3. \A k \in Ids(b) : texts[k] = k
      BY <2>1, AlignedNamed
    <2>4. Record(b, texts)
      BY <2>1
    <2> HIDE DEF texts
    <2> QED
      BY <2>2, <2>3, <2>4, AnsweredMore
  <1>2. CASE RefuseBatch(b)
    <2> DEFINE texts == [k \in Ids(b) |-> Blocked]
    <2>1. Record(b, texts) /\ refused' = refused \cup {b}
      BY <1>2 DEF RefuseBatch
    <2>2. UNCHANGED <<timeline, filtered, telling, sentences, segments, groups, translations, partial>>
      BY <1>2 DEF RefuseBatch
    <2>3. \A k \in Ids(b) : texts[k] = Blocked /\ b \in refused'
      BY <2>1
    <2> HIDE DEF texts
    <2> QED
      BY <2>1, <2>2, <2>3, AnsweredMore
  <1> QED
    BY <1>1, <1>2

\* What a complete translation shows.
ShownAtEnd ==
    IF Targets(segments) = <<>> THEN segments
    ELSE IF Placeholders = <<>> THEN Merge(Batches)
    ELSE ByStart(Merge(Batches) \o Placeholders)

\* (what is shown at the end stays,)
LEMMA ShownStays ==
    ASSUME UNCHANGED <<segments, groups, answers>>
    PROVE  ShownAtEnd' = ShownAtEnd
  <1>1. Merge(Batches)' = Merge(Batches)
    BY MergeStays
  <1>2. Targets(segments)' = Targets(segments) /\ Placeholders' = Placeholders
    BY DEF Targets, Placeholders
  <1>3. (ByStart(Merge(Batches) \o Placeholders))' = ByStart(Merge(Batches) \o Placeholders)
    <2> DEFINE both == Merge(Batches) \o Placeholders
    <2>1. both' = both
      BY <1>1, <1>2
    <2> HIDE DEF both
    <2>2. (ByStart(both))' = ByStart(both)
      BY <2>1 DEF ByStart
    <2> QED
      BY <2>2 DEF both
  <1> QED
    BY <1>1, <1>2, <1>3 DEF ShownAtEnd

\* the translation is complete,
LEMMA FinishTranslationKeeps ==
    ASSUME TracksInv, FinishTranslation
    PROVE  TracksInv'
  <1>1. /\ telling = "translate" /\ DOMAIN answers = Batches /\ telling' = "done"
        /\ UNCHANGED <<timeline, filtered, sentences, segments, groups, answers, refused, partial>>
    BY DEF FinishTranslation
  <1>2. Answered'
    BY <1>1, AnsweredStays DEF TracksInv
  <1>3. Translating'
    BY <1>1, TranslatingStays DEF TracksInv
  <1>4. TranslationDone'
    <2>1. Batches' = Batches
      BY <1>1, BatchesStay
    <2>2. translations' = ShownAtEnd
      BY DEF FinishTranslation, ShownAtEnd
    <2>3. ShownAtEnd' = ShownAtEnd
      BY <1>1, ShownStays
    <2> QED
      BY <1>1, <2>1, <2>2, <2>3 DEF TranslationDone, ShownAtEnd
  <1> QED
    BY <1>1, <1>2, <1>3, <1>4 DEF TracksInv

\* or fails,
LEMMA FailTranslationKeeps ==
    ASSUME TracksInv, FailTranslation
    PROVE  TracksInv'
  <1>1. /\ telling = "translate" /\ telling' = "failed" /\ partial' = Merge(Prefix(answers, Batches))
        /\ UNCHANGED <<timeline, filtered, sentences, segments, groups, answers, refused, translations>>
    BY DEF FailTranslation
  <1>2. Answered'
    BY <1>1, AnsweredStays DEF TracksInv
  <1>3. Translating'
    BY <1>1, TranslatingStays DEF TracksInv
  <1>4. Merge(Prefix(answers, Batches))' = Merge(Prefix(answers, Batches))
    BY <1>1, MergeStays
  <1> QED
    BY <1>1, <1>2, <1>3, <1>4 DEF TracksInv

\* or nothing happens.
LEMMA TracksStutter ==
    ASSUME TracksInv, UNCHANGED trackVars
    PROVE  TracksInv'
  <1>1. UNCHANGED <<timeline, filtered, telling, sentences, segments, groups, answers, refused, translations, partial>>
    BY DEF trackVars
  <1>2. Answered'
    BY <1>1, AnsweredStays DEF TracksInv
  <1>3. Translating => Translating'
    BY <1>1, TranslatingStays
  <1>4. Merge(Prefix(answers, Batches))' = Merge(Prefix(answers, Batches)) /\ Merge(Batches)' = Merge(Batches)
    BY <1>1, MergeStays
  <1>5. Transcript(Prefix(sentences, Windows))' = Transcript(Prefix(sentences, Windows)) /\ Windows' = Windows
    BY <1>1, PartialStays, WindowsStay
  <1>6. TranslationDone => TranslationDone'
    <2>1. ShownAtEnd' = ShownAtEnd /\ Batches' = Batches
      BY <1>1, ShownStays, BatchesStay
    <2> QED
      BY <1>1, <2>1 DEF TranslationDone, ShownAtEnd
  <1> QED
    BY <1>1, <1>2, <1>3, <1>4, <1>5, <1>6 DEF TracksInv

\* The transcript and the translation of any speech are put together from what
\* was heard and answered, at every step.
THEOREM TracksKept == TracksSpec => []TracksInv
  <1>1. TracksInit => TracksInv
    <2> SUFFICES ASSUME TracksInit PROVE TracksInv
      OBVIOUS
    <2>1. DOMAIN <<>> = {}
      OBVIOUS
    <2> QED
      BY <2>1 DEF TracksInit, TracksInv, Answered
  <1>2. TracksInv /\ [TracksNext]_trackVars => TracksInv'
    <2> SUFFICES ASSUME TracksInv, [TracksNext]_trackVars PROVE TracksInv'
      OBVIOUS
    <2>1. CASE \E w \in Windows : HearWindow(w) \/ HearNothing(w)
      BY <2>1, HearKeeps
    <2>2. CASE FinishTranscript
      BY <2>2, FinishTranscriptKeeps
    <2>3. CASE FailTranscript
      BY <2>3, FailTranscriptKeeps
    <2>4. CASE telling = "translate" /\ \E b \in Batches : AnswerBatch(b) \/ RefuseBatch(b)
      BY <2>4, AnswerKeeps
    <2>5. CASE FinishTranslation
      BY <2>5, FinishTranslationKeeps
    <2>6. CASE FailTranslation
      BY <2>6, FailTranslationKeeps
    <2>7. CASE UNCHANGED trackVars
      BY <2>7, TracksStutter
    <2> QED
      BY <2>1, <2>2, <2>3, <2>4, <2>5, <2>6, <2>7 DEF TracksNext
  <1> QED
    BY <1>1, <1>2, PTL DEF TracksSpec

\* What is shown was said there and means what was said there, for any timeline,
\* size of windows and batches, and order of answers.
THEOREM TracksAreSound == TracksSpec => []TracksSound
  <1>1. TracksInv => TracksSound
    <2> SUFFICES ASSUME TracksInv PROVE TracksSound
      OBVIOUS
    <2>1. Tiles(timeline) /\ Answered
      BY InvTiles DEF TracksInv
    <2>2. NotStretched
      <3>1. CASE telling \in {"translate", "done"}
        BY <2>1, <3>1, TranscriptNotStretched DEF TracksInv, Translating
      <3>2. CASE telling \notin {"translate", "done"}
        BY <3>2 DEF NotStretched
      <3> QED
        BY <3>1, <3>2
    <2>3. EachGetsItsOwn /\ SentenceWhole
      <3>1. CASE telling = "done"
        BY <2>1, <3>1, FinishedSound DEF TracksInv
      <3>2. CASE telling # "done"
        BY <3>2 DEF EachGetsItsOwn, SentenceWhole
      <3> QED
        BY <3>1, <3>2
    <2>4. PartialHonest
      <3>1. CASE telling = "failed"
        BY <2>1, <3>1, EarlyHonest, LateHonest DEF TracksInv
      <3>2. CASE telling # "failed"
        BY <3>2 DEF PartialHonest
      <3> QED
        BY <3>1, <3>2
    <2> QED
      BY <2>2, <2>3, <2>4 DEF TracksSound
  <1>2. TracksSpec => []TracksInv
    BY TracksKept
  <1> QED
    BY <1>1, <1>2, PTL
===============================================================================
