------------------------------ MODULE JobContract ------------------------------
(***************************************************************************)
(* What a user of the API may rely on when watching one job: which status  *)
(* can follow which, and what a cancellation request means, whatever       *)
(* number of API threads, workers and batches act on the job and wherever  *)
(* one of them is interrupted.                                             *)
(***************************************************************************)
EXTENDS JobStatuses, Naturals

CONSTANT Jobs

VARIABLES
    status,   \* the status GET /jobs/{id} reports, "ABSENT" before and "DELETED" after its life
    cancel    \* a cancellation is requested and not yet answered by a retry

jobVars == <<status, cancel>>

\* How far a run has come.
Progress == [ANALYZING |-> 1, EXTRACTING_AUDIO |-> 2, PREPROCESSING_AUDIO |-> 3, TRANSCRIBING |-> 4,
             FILTERING_TRANSCRIPT |-> 5, TRANSLATING |-> 6, GENERATING_SUBTITLE |-> 7, ENCODING |-> 8,
             VALIDATING |-> 9]

Become(j, s) == status' = [status EXCEPT ![j] = s]

Create(j) ==
    /\ status[j] = "ABSENT"
    /\ Become(j, "UPLOADING") \/ Become(j, "QUEUED")
    /\ UNCHANGED cancel

\* Before it runs a job waits for its upload, for a start, for its turn and for
\* its reviewer; it can be withdrawn from each.
Wait(j) ==
    /\ \/ status[j] = "UPLOADING" /\ Become(j, "READY")
       \/ status[j] \in {"READY", "AWAITING_REVIEW"} /\ Become(j, "QUEUED")
       \/ status[j] = "QUEUED" /\ Become(j, "ANALYZING")
       \/ status[j] \in {"UPLOADING", "READY", "QUEUED", "AWAITING_REVIEW"} /\ Become(j, "CANCELLED")
    /\ UNCHANGED cancel

\* A run moves forward only, and no further once a cancellation is requested.
Proceed(j) ==
    /\ status[j] \in Processing
    /\ ~cancel[j]
    /\ \/ Become(j, "AWAITING_REVIEW") \/ Become(j, "COMPLETED")
       \/ \E s \in Processing : Progress[s] > Progress[status[j]] /\ Become(j, s)
    /\ UNCHANGED cancel

\* Only a requested cancellation makes a run end CANCELLED.
Stop(j) ==
    /\ status[j] \in Processing
    /\ Become(j, "FAILED") \/ (cancel[j] /\ Become(j, "CANCELLED"))
    /\ UNCHANGED cancel

RequestCancel(j) ==
    /\ status[j] \in Processing
    /\ cancel' = [cancel EXCEPT ![j] = TRUE]
    /\ UNCHANGED status

\* A retry forgets the old request before it queues the job again.
Retry(j) ==
    /\ status[j] \in {"FAILED", "CANCELLED"}
    /\ \/ cancel' = [cancel EXCEPT ![j] = FALSE] /\ UNCHANGED status
       \/ ~cancel[j] /\ Become(j, "QUEUED") /\ UNCHANGED cancel

Delete(j) ==
    /\ status[j] \in Terminal
    /\ Become(j, "DELETED")
    /\ cancel' = [cancel EXCEPT ![j] = FALSE]

Init ==
    /\ status = [j \in Jobs |-> "ABSENT"]
    /\ cancel = [j \in Jobs |-> FALSE]

Next ==
    \E j \in Jobs :
        Create(j) \/ Wait(j) \/ Proceed(j) \/ Stop(j) \/ RequestCancel(j) \/ Retry(j) \/ Delete(j)

Spec == Init /\ [][Next]_jobVars
===============================================================================
