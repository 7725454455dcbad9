------------------------------ MODULE ModelRequests ------------------------------
(***************************************************************************)
(* The paid calls behind one segment of a queue (GeminiProvider._request,  *)
(* _request_impl and request_translation): each is recorded on disk before *)
(* it is sent and when it is over, and a failure of the configured model   *)
(* is answered, if the owner has chosen so, by asking a second model once; *)
(* later attempts of that segment stay with it.                            *)
(*                                                                         *)
(* A record that cannot be written ends its call as "full", when the       *)
(* service's own limit refuses the space (StorageLimitError, a ValueError),*)
(* or as "broken", when the disk does (OSError).                           *)
(*                                                                         *)
(* The queue that owns the attempts is SegmentQueue; of it only the budget *)
(* and the end of admission after a failure are kept.                      *)
(***************************************************************************)
EXTENDS Naturals, FiniteSets

CONSTANTS
    Segments,   \* requests of the queue, or one direct call
    Attempts,   \* attempts the queue makes
    Tries,      \* max_attempts: tries within an attempt
    Routes,     \* the sets of models that may be asked through the Gemini SDK
    Policies,   \* the choices of the owner, see policy
    MaxFaults   \* bound: cancellations and failed writes

Models == {"primary", "fallback"}

ASSUME Limits == Attempts \in Nat \ {0} /\ Tries \in Nat \ {0} /\ MaxFaults \in Nat
ASSUME RoutesAndPolicies == Routes \subseteq SUBSET Models /\ Policies \subseteq SUBSET {"error", "block"}

VARIABLES
    sdk,        \* models asked through the Gemini SDK, the others by a plain request
    policy,     \* fallback_on_error, fallback_on_block; {} also without a second model
    active,     \* _fallback_active
    at,         \* [Segments -> where its request is]
    attempts,   \* [Segments -> attempts begun]
    tries,      \* [Segments -> tries begun before this one in the attempt]
    model,      \* [Segments -> the model that is asked]
    got,        \* [Segments -> what the network made of the call, "none" while it is open]
    held,       \* [Segments -> the response the code has, "none" without one]
    verdict,    \* [Segments -> what the code goes by]
    trace,      \* [Segments -> what the trace of the call holds]
    outcome,    \* [Segments -> what the queue has made of it]
    halted,     \* the queue admits nothing any more
    cancelled,  \* the queue is being left
    deaf,       \* segments whose cancellation a refused write has taken the place of
    faults,
    asked,      \* ghost: [Segments -> [Models -> calls sent]]
    barred      \* ghost: [Segments -> models it must not ask any more]

call == <<got, held, verdict, trace>>
chosen == <<sdk, policy>>
requestVars == <<sdk, policy, active, at, attempts, tries, model, got, held, verdict, trace, outcome,
          halted, cancelled, deaf, faults, asked, barred>>

-------------------------------------------------------------------------------
\* Responses: usable, not parseable or incomplete, refused content, 429 or a
\* retryable 5xx, any other 5xx, 401 or 403 (or a provider that asks for more than a
\* minute), and any other status of at least 300.
Http == {"valid", "malformed", "blocked", "busy", "failed", "denied", "rejected"}

\* What becomes of a call whose record is not written.
Unrecorded == {"full", "broken"}

\* The exception a verdict becomes; "result" if it becomes none.
Plain == [valid |-> "result", malformed |-> "value", blocked |-> "blocked", busy |-> "retryable",
          failed |-> "retryable", denied |-> "runtime", rejected |-> "request", lost |-> "retryable", late |-> "timeout", full |-> "full", broken |-> "storage"]

\* Only the SDK's path tries the configured model again, and the second one once.
TriesOf(m) == IF m = "primary" /\ m \in sdk THEN Tries ELSE 1

\* The SDK's path knows four retryable 5xx, and reports the last of several tries otherwise.
ThroughSdk(m) ==
    IF TriesOf(m) = 1 THEN [Plain EXCEPT !.failed = "request"]
    ELSE [Plain EXCEPT !.failed = "request", !.busy = "request", !.lost = "runtime"]

Error(i) == IF model[i] \in sdk THEN ThroughSdk(model[i])[verdict[i]] ELSE Plain[verdict[i]]

\* Seeded defect: any failure will do.
SparedAlways(i) == Error(i) # "result" /\ policy # {}

\* What a failure of the configured model has to be to ask the second one.  A
\* StorageLimitError is among them: it is a ValueError.
Spared(i) == \/ Error(i) = "blocked" /\ "block" \in policy
             \/ Error(i) \in {"retryable", "request", "timeout", "value", "full"} /\ "error" \in policy

MoveTo(i, place) == at' = [at EXCEPT ![i] = place]

Aim(i, m) ==
    /\ MoveTo(i, "opening")
    /\ model' = [model EXCEPT ![i] = m]
    /\ tries' = [tries EXCEPT ![i] = 0]

\* Seeded defect: the switch is remembered for the job.
AttemptShared(i) ==
    /\ at[i] = "free" /\ ~halted /\ ~cancelled
    /\ attempts[i] < Attempts
    /\ attempts' = [attempts EXCEPT ![i] = @ + 1]
    /\ Aim(i, IF active # {} \/ ("error" \in policy /\ attempts'[i] > 1) THEN "fallback" ELSE "primary")
    /\ UNCHANGED <<chosen, active, call, outcome, halted, cancelled, deaf, faults, asked, barred>>

\* The queue begins an attempt.
Attempt(i) ==
    /\ at[i] = "free" /\ ~halted /\ ~cancelled
    /\ attempts[i] < Attempts
    /\ attempts' = [attempts EXCEPT ![i] = @ + 1]
    /\ Aim(i, IF i \in active \/ ("error" \in policy /\ attempts'[i] > 1) THEN "fallback" ELSE "primary")
    /\ UNCHANGED <<chosen, active, call, outcome, halted, cancelled, deaf, faults, asked, barred>>

-------------------------------------------------------------------------------
(***************************************************************************)
(* One call.  A disk operation that has begun is waited for, also when the *)
(* request is cancelled meanwhile; its failure then takes the place of the *)
(* cancellation (disk_call).                                               *)
(***************************************************************************)
Left(i) == cancelled /\ i \notin deaf

\* begin_call has written request.json; the request goes out.
Open(i) ==
    /\ at[i] = "opening"
    /\ trace' = [trace EXCEPT ![i] = "request"]
    /\ got' = [got EXCEPT ![i] = "none"]
    /\ held' = [held EXCEPT ![i] = "none"]
    /\ verdict' = [verdict EXCEPT ![i] = "none"]
    /\ IF Left(i) THEN MoveTo(i, "gone") /\ UNCHANGED asked
       ELSE MoveTo(i, "sent") /\ asked' = [asked EXCEPT ![i][model[i]] = @ + 1]
    /\ UNCHANGED <<chosen, active, attempts, tries, model, outcome, halted, cancelled, deaf, faults, barred>>

\* Whom a segment is not to ask any more, by what the code goes by: nobody after a
\* rejected credential, a broken disk or a provider that asks for more than a minute,
\* and after a refusal not the model it is about.  An answer that could not be
\* recorded is not gone by.
Bars(i, v) == CASE v \in {"denied", "broken"} -> Models
                [] v \in {"blocked", "full"} -> {model[i]}
                [] OTHER -> {}

\* The record is not written, and the call is over with that.
Unwritten(i, v) ==
    /\ faults < MaxFaults /\ faults' = faults + 1
    /\ MoveTo(i, "closed")
    /\ verdict' = [verdict EXCEPT ![i] = v]
    /\ barred' = [barred EXCEPT ![i] = @ \cup Bars(i, v)]
    /\ deaf' = IF cancelled THEN deaf \cup {i} ELSE deaf
    /\ UNCHANGED <<chosen, active, attempts, tries, model, outcome, halted, cancelled, asked>>

OpenFails(i, v) ==
    /\ at[i] = "opening"
    /\ Unwritten(i, v)
    /\ trace' = [trace EXCEPT ![i] = "none"]
    /\ got' = [got EXCEPT ![i] = "none"]
    /\ held' = [held EXCEPT ![i] = "none"]

\* The response has been read, or the connection is lost.  The SDK's response
\* is captured by a hook at this point.
Reply(i, answer) ==
    /\ at[i] = "sent"
    /\ MoveTo(i, "answered")
    /\ got' = [got EXCEPT ![i] = answer]
    /\ held' = [held EXCEPT ![i] = IF model[i] \in sdk /\ answer \in Http THEN answer ELSE "none"]
    /\ UNCHANGED <<chosen, active, attempts, tries, model, verdict, trace, outcome, halted, cancelled, deaf, faults, asked, barred>>

Closing(i, v) ==
    /\ MoveTo(i, "closing")
    /\ verdict' = [verdict EXCEPT ![i] = v]

\* The waiting loop sees the answer ...
See(i) ==
    /\ at[i] = "answered" /\ ~Left(i)
    /\ Closing(i, got[i])
    /\ held' = [held EXCEPT ![i] = IF got[i] \in Http THEN got[i] ELSE "none"]
    /\ UNCHANGED <<chosen, active, attempts, tries, model, got, trace, outcome, halted, cancelled, deaf, faults, asked, barred>>

\* Seeded defect: the deadline is looked at when the network stirs.
InterruptedStirred(i, v) ==
    /\ at[i] = "answered"
    /\ Closing(i, v)
    /\ UNCHANGED <<chosen, active, attempts, tries, model, got, held, trace, outcome, halted, cancelled, deaf, faults, asked, barred>>

\* ... or the deadline of the request, or its cancellation, or a check that fails
\* once the queue is being left, comes first.
Interrupted(i, v) ==
    /\ at[i] \in {"sent", "answered"}
    /\ Closing(i, v)
    /\ UNCHANGED <<chosen, active, attempts, tries, model, got, held, trace, outcome, halted, cancelled, deaf, faults, asked, barred>>

Deadline(i) == ~Left(i) /\ Interrupted(i, "late")
Cut(i) == cancelled /\ Interrupted(i, "cancelled")

\* A lost connection that is not seen leaves no response.json on the SDK's path.
Unseen(i) == model[i] \in sdk /\ got[i] = "lost" /\ verdict[i] # "lost"

\* finish_call.  Only then is the answer looked into.
Close(i) ==
    /\ at[i] = "closing"
    /\ MoveTo(i, IF Left(i) \/ verdict[i] = "cancelled" THEN "gone" ELSE "closed")
    /\ trace' = [trace EXCEPT ![i] = IF held[i] # "none" THEN "answer" ELSE IF Unseen(i) THEN @ ELSE "empty"]
    /\ barred' = [barred EXCEPT ![i] = @ \cup Bars(i, verdict[i])]
    /\ UNCHANGED <<chosen, active, attempts, tries, model, got, held, verdict, outcome, halted, cancelled, deaf, faults, asked>>

CloseFails(i, v) ==
    /\ at[i] = "closing"
    /\ ~Unseen(i) \/ held[i] # "none"
    /\ Unwritten(i, v)
    /\ UNCHANGED <<got, held, trace>>

-------------------------------------------------------------------------------
(***************************************************************************)
(* What follows from a call                                                *)
(***************************************************************************)
Decides(i) == at[i] = "closed" /\ ~Left(i)

Tried(i) == verdict[i] \in {"busy", "lost"} /\ tries[i] + 1 < TriesOf(model[i])

\* A direct call is tried again after a delay.
Again(i) ==
    /\ Decides(i) /\ Tried(i)
    /\ MoveTo(i, "opening")
    /\ tries' = [tries EXCEPT ![i] = @ + 1]
    /\ UNCHANGED <<chosen, active, attempts, model, call, outcome, halted, cancelled, deaf, faults, asked, barred>>

\* The second model is asked within the same attempt, also by a request that has
\* not heard of its cancellation.
Switch(i) ==
    /\ Decides(i) /\ ~Tried(i)
    /\ model[i] = "primary" /\ Spared(i)
    /\ active' = active \cup {i}
    /\ Aim(i, "fallback")
    /\ UNCHANGED <<chosen, attempts, call, outcome, halted, cancelled, deaf, faults, asked, barred>>

\* The queue hears of it, if it is not being left.
Reported(i) == Decides(i) /\ ~cancelled /\ ~Tried(i) /\ ~(model[i] = "primary" /\ Spared(i))

Settle(i, o) ==
    /\ MoveTo(i, "settled")
    /\ outcome' = [outcome EXCEPT ![i] = o]
    /\ UNCHANGED <<chosen, active, attempts, tries, model, call, cancelled, deaf, faults, asked, barred>>

Succeed(i) ==
    /\ Reported(i)
    /\ Error(i) = "result"
    /\ Settle(i, "valid") /\ UNCHANGED halted

\* The segment is given a placeholder.
Refused(i) ==
    /\ Reported(i)
    /\ Error(i) = "blocked"
    /\ Settle(i, "blocked") /\ UNCHANGED halted

\* Also a result may turn out not to fit the segment.  A refused write is a
\* ValueError, but the queue looks for it first.
Repeatable(i) == Error(i) \in {"retryable", "value", "timeout", "result"}

Retry(i) ==
    /\ Reported(i)
    /\ Repeatable(i) /\ attempts[i] < Attempts
    /\ MoveTo(i, "free")
    /\ UNCHANGED <<chosen, active, attempts, tries, model, call, outcome, halted, cancelled, deaf, faults, asked, barred>>

GiveUp(i) ==
    /\ Reported(i)
    /\ Error(i) # "blocked" /\ (Repeatable(i) => attempts[i] = Attempts)
    /\ Settle(i, "failed") /\ halted' = TRUE

\* The queue is left: the check or a write of its own has failed.
Cancel ==
    /\ ~cancelled /\ cancelled' = TRUE
    /\ faults < MaxFaults /\ faults' = faults + 1
    /\ UNCHANGED <<chosen, active, at, attempts, tries, model, call, outcome, halted, deaf, asked, barred>>

Withdraw(i) ==
    /\ cancelled
    /\ at[i] \in {"free", "closed"}
    /\ MoveTo(i, "gone")
    /\ UNCHANGED <<chosen, active, attempts, tries, model, call, outcome, halted, cancelled, deaf, faults, asked, barred>>

-------------------------------------------------------------------------------
RequestsInit ==
    /\ sdk \in Routes /\ policy \in Policies
    /\ active = {}
    /\ at = [i \in Segments |-> "free"]
    /\ attempts = [i \in Segments |-> 0]
    /\ tries = [i \in Segments |-> 0]
    /\ model = [i \in Segments |-> "primary"]
    /\ got = [i \in Segments |-> "none"]
    /\ held = [i \in Segments |-> "none"]
    /\ verdict = [i \in Segments |-> "none"]
    /\ trace = [i \in Segments |-> "none"]
    /\ outcome = [i \in Segments |-> "none"]
    /\ halted = FALSE /\ cancelled = FALSE /\ deaf = {} /\ faults = 0
    /\ asked = [i \in Segments |-> [m \in Models |-> 0]]
    /\ barred = [i \in Segments |-> {}]

\* What the event loop and the clock do without the network.
Serve(i) ==
    \/ Attempt(i) \/ Open(i) \/ See(i) \/ Deadline(i) \/ Cut(i) \/ Close(i)
    \/ Again(i) \/ Switch(i) \/ Succeed(i) \/ Refused(i) \/ Retry(i) \/ GiveUp(i) \/ Withdraw(i)

RequestsNext ==
    \/ Cancel
    \/ \E i \in Segments :
          \/ Serve(i)
          \/ \E v \in Unrecorded : OpenFails(i, v) \/ CloseFails(i, v)
          \/ \E answer \in Http \cup {"lost"} : Reply(i, answer)

RequestsSpec == RequestsInit /\ [][RequestsNext]_requestVars

\* The event loop runs, and a request nobody answers meets its deadline.
FairRequestsSpec == RequestsSpec /\ \A i \in Segments : WF_requestVars(Serve(i))

-------------------------------------------------------------------------------
(***************************************************************************)
(* Properties                                                              *)
(***************************************************************************)
\* The type of every variable.
RequestTypes ==
    /\ sdk \subseteq Models /\ policy \subseteq {"error", "block"} /\ active \subseteq Segments /\ deaf \subseteq Segments
    /\ at \in [Segments -> {"free", "opening", "sent", "answered", "closing", "closed", "settled", "gone"}]
    /\ attempts \in [Segments -> 0 .. Attempts]
    /\ tries \in [Segments -> 0 .. Tries - 1]
    /\ model \in [Segments -> Models]
    /\ got \in [Segments -> Http \cup {"none", "lost"}]
    /\ held \in [Segments -> Http \cup {"none"}]
    /\ verdict \in [Segments -> DOMAIN Plain \cup {"none", "cancelled"}]
    /\ trace \in [Segments -> {"none", "request", "answer", "empty"}]
    /\ asked \in [Segments -> [Models -> Nat]]
    /\ barred \in [Segments -> SUBSET Models]

\* An attempt is under way, and its call has been sent.
Trying(i) == at[i] \in {"opening", "sent", "answered", "closing", "closed"}
Out(i) == at[i] \in {"sent", "answered", "closing", "closed"}

\* Only a segment whose own configured model has been asked in vain, or could not be
\* for want of space, asks the second one, only if the owner has chosen so, and never
\* goes back.
Turned(i) == asked[i]["primary"] > 0 \/ "primary" \in barred[i]
Switched(i) ==
    /\ Turned(i) /\ policy # {}
    /\ i \in active \/ ("error" \in policy /\ attempts[i] > 1)
Directed(i) ==
    /\ i \in active => model[i] = "fallback"
    /\ i \in active \/ model[i] = "fallback" \/ asked[i]["fallback"] > 0 => Switched(i)
    /\ Trying(i) /\ model[i] = "primary" => asked[i]["fallback"] = 0
    /\ Trying(i) => attempts[i] > 0
    /\ at[i] = "free" /\ attempts[i] > 0 => Turned(i)
    /\ Out(i) => asked[i][model[i]] > 0 \/ (at[i] = "closed" /\ verdict[i] \in Unrecorded /\ model[i] \in barred[i])

\* What each attempt may cost, the one under way included.
Charged(i) ==
    LET sum == asked[i]["primary"] + asked[i]["fallback"]
        last == IF Out(i) THEN 1 ELSE 0
        extra == IF i \in active THEN 1 ELSE 0
    IN  IF ~Trying(i) THEN sum <= attempts[i] * Tries + extra
        ELSE IF model[i] = "primary" THEN sum <= (attempts[i] - 1) * Tries + tries[i] + last
        ELSE sum + 1 <= attempts[i] * Tries + extra + last

\* While a segment may still be asked for, only the model it has changed from is barred.
Barred(i) ==
    LET left == IF i \in active THEN {"primary"} ELSE {}
    IN  /\ at[i] \in {"free", "opening", "sent", "answered", "closing"} => barred[i] \subseteq left
        /\ at[i] = "closed" => barred[i] \subseteq left \cup Bars(i, verdict[i])

\* A response of the SDK is in hand until it is in the trace.
InHand(i) ==
    /\ at[i] = "sent" => got[i] = "none"
    /\ at[i] \in {"answered", "closing"} /\ model[i] \in sdk /\ got[i] \in Http => held[i] # "none"
    /\ ~Trying(i) \/ at[i] = "closed" =>
          (model[i] \in sdk /\ got[i] \in Http => trace[i] = "answer" \/ verdict[i] \in Unrecorded)

\* The inductive invariant.
RequestInv ==
    /\ RequestTypes
    /\ \A i \in Segments : Directed(i) /\ Charged(i) /\ Barred(i) /\ InHand(i)

\* docs/llm-settings.md: the attempts of the queue bound the paid calls for a
\* segment, but for the one call by which it changes to the second model.
CallBudget ==
    \A i \in Segments :
       asked[i]["primary"] + asked[i]["fallback"] <= Attempts * Tries + (IF policy = {} THEN 0 ELSE 1)

\* A model that has refused the content of a segment, or whose call the storage
\* limit has refused, is not asked again about it, and after a rejected credential,
\* a broken disk or a provider that asks for more than a minute no model is; the
\* configured model is not asked again once the second one has been
\* (docs/llm-settings.md: a segment switches once).
NotAskedAgain ==
    [][\A i \in Segments, m \in Models : asked'[i][m] > asked[i][m] =>
          m \notin barred[i] /\ (m = "primary" => asked[i]["fallback"] = 0)]_requestVars

\* A response that has been received is in the trace of its call once the call
\* is over, whatever the code went by, unless it could not be written.
Kept(i) ==
    at[i] \in {"closed", "gone"} /\ got[i] \in Http => trace[i] = "answer" \/ verdict[i] \in Unrecorded
SdkAnswersKept == \A i \in Segments : model[i] \in sdk => Kept(i)

\* Every request comes to an end, whatever the provider does.
RequestsEnd == \A i \in Segments : []<>(at[i] \in {"free", "settled", "gone"})

\* docs/development-preservation.md says so of every call.
\* The code does not keep this (README.md, Divergences).
AnswersKept == \A i \in Segments : Kept(i)

\* docs/llm-settings.md:17: a rejected credential or a storage failure does not lead to
\* the second model.
\* The code does not keep this (README.md, Divergences).
StorageSpared ==
    [][\A i \in active' \ active : verdict[i] \notin {"denied", "full", "broken"}]_requestVars

\* Whom a request asks, how often, and what becomes of the answers.
RequestSound == RequestInv /\ CallBudget /\ SdkAnswersKept
===============================================================================
