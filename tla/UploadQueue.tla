------------------------------- MODULE UploadQueue -------------------------------
(***************************************************************************)
(* The upload queue of a browser tab: files are transferred one at a time, *)
(* in the order they were added, while the user pauses, resumes and        *)
(* removes them and the page is hidden, shown, left and entered.           *)
(*                                                                         *)
(* JavaScript runs one callback to its end, so every event is one step     *)
(* with the synchronous part of the pump it starts; only the transfer      *)
(* itself is awaited.  An abort does not end a transfer: its answer comes  *)
(* in a later step.                                                        *)
(***************************************************************************)
EXTENDS Integers

CONSTANTS
    MaxItems,    \* bound: files added
    MaxEvents,   \* bound: events of the user and the page
    None         \* no transfer is running

ASSUME Bounds == MaxItems \in Nat /\ MaxEvents \in Nat /\ None \notin Nat

Keys == 1..MaxItems

VARIABLES
    state,       \* [Keys -> state of the item], in the order of items
    added,       \* items added so far
    active,      \* the item being transferred (running, active.item)
    aborted,     \* its signal
    suspended,   \* the page is hidden
    disposed,    \* the page is left
    events       \* bound

vars == <<state, added, active, aborted, suspended, disposed, events>>

WaitingOf(st) == {k \in Keys : st[k] = "waiting"}

\* What pump does with the items st while no transfer is running.
Pumped(st, hidden, gone) ==
    IF hidden \/ gone \/ WaitingOf(st) = {}
    THEN state' = st /\ active' = None /\ aborted' = FALSE
    ELSE \E k \in WaitingOf(st) :
            /\ \A l \in WaitingOf(st) : k <= l
            /\ state' = [st EXCEPT ![k] = "uploading"] /\ active' = k /\ aborted' = FALSE

\* pump() is called: a running one goes on.
Pump(st, hidden, gone) ==
    IF active = None THEN Pumped(st, hidden, gone)
                     ELSE state' = st /\ UNCHANGED <<active, aborted>>

Event == events < MaxEvents /\ events' = events + 1

-------------------------------------------------------------------------------
Add ==
    /\ Event
    /\ added < MaxItems
    /\ added' = added + 1
    /\ Pump([state EXCEPT ![added + 1] = "waiting"], suspended, disposed)
    /\ UNCHANGED <<suspended, disposed>>

\* pause() with its new state, which remove() goes on to drop.
Stop(k, st) ==
    /\ state' = [state EXCEPT ![k] = st]
    /\ aborted' = (aborted \/ active = k)
    /\ UNCHANGED <<added, active, suspended, disposed>>

Pause(k) == Event /\ state[k] \notin {"absent", "done"} /\ Stop(k, "paused")

Remove(k) ==
    /\ Event
    /\ state[k] # "absent"
    /\ IF state[k] = "done"
       THEN state' = [state EXCEPT ![k] = "absent"] /\ UNCHANGED <<added, active, aborted, suspended, disposed>>
       ELSE Stop(k, "absent")

Resume(k) ==
    /\ Event
    /\ state[k] \in {"paused", "error"}
    /\ Pump([state EXCEPT ![k] = "waiting"], suspended, disposed)
    /\ UNCHANGED <<added, suspended, disposed>>

\* suspend(): the page is hidden or shown.
Suspend ==
    /\ Event
    /\ ~suspended
    /\ suspended' = TRUE
    /\ aborted' = (active # None)
    /\ UNCHANGED <<state, added, active, disposed>>

Unsuspend ==
    /\ Event
    /\ suspended
    /\ suspended' = FALSE
    /\ Pump(state, FALSE, disposed)
    /\ UNCHANGED <<added, disposed>>

Dispose ==
    /\ Event
    /\ ~disposed
    /\ disposed' = TRUE
    /\ aborted' = (active # None)
    /\ UNCHANGED <<state, added, active, suspended>>

\* Seeded defect: entering the page again does not start the pump.
ActivateOnly ==
    /\ Event
    /\ disposed
    /\ disposed' = FALSE
    /\ UNCHANGED <<state, added, active, aborted, suspended>>

Activate ==
    /\ Event
    /\ disposed
    /\ disposed' = FALSE
    /\ Pump(state, suspended, FALSE)
    /\ UNCHANGED <<added, suspended>>

\* forgetCompleted(): the server lists finished uploads itself.
Forget ==
    /\ \E ks \in SUBSET {k \in Keys : state[k] = "done"} :
          /\ ks # {}
          /\ state' = [k \in Keys |-> IF k \in ks THEN "absent" ELSE state[k]]
    /\ UNCHANGED <<added, active, aborted, suspended, disposed, events>>

\* What the end of the transfer makes of its item.
Settled(outcome) ==
    CASE ~aborted                                  -> [state EXCEPT ![active] = outcome]
      [] aborted /\ state[active] = "uploading"    -> [state EXCEPT ![active] = "waiting"]
      [] OTHER                                     -> state

\* The transfer ends, well or not, and the pump goes on.
Settle ==
    /\ active # None
    /\ \E outcome \in {"done", "error"} : Pumped(Settled(outcome), suspended, disposed)
    /\ UNCHANGED <<added, suspended, disposed, events>>

-------------------------------------------------------------------------------
Init ==
    /\ state = [k \in Keys |-> "absent"]
    /\ added = 0
    /\ active = None
    /\ aborted = FALSE
    /\ suspended = FALSE
    /\ disposed = FALSE
    /\ events = 0

Next ==
    \/ Add \/ Suspend \/ Unsuspend \/ Dispose \/ Activate \/ Forget \/ Settle
    \/ \E k \in Keys : Pause(k) \/ Remove(k) \/ Resume(k)

\* Transfers end, which UploadPage has to show.
Spec == Init /\ [][Next]_vars /\ WF_vars(Settle)

-------------------------------------------------------------------------------
(***************************************************************************)
(* Properties                                                              *)
(***************************************************************************)
\* Every variable has its type.
TypeOK ==
    /\ state \in [Keys -> {"absent", "waiting", "uploading", "paused", "error", "done"}]
    /\ added \in 0..MaxItems
    /\ active \in Keys \cup {None}
    /\ aborted \in BOOLEAN /\ suspended \in BOOLEAN /\ disposed \in BOOLEAN
    /\ events \in 0..MaxEvents

\* What the page shows as uploading is the one running transfer, and a transfer
\* that was not told to stop is one the user wants: its item is still there,
\* nobody paused it and the page is shown (upload-queue.ts:50, 84, 103).
ActiveInv ==
    /\ \A k \in Keys : k > added => state[k] = "absent"
    /\ \A k \in Keys : state[k] = "uploading" => active = k
    /\ active = None => ~aborted
    /\ active # None /\ ~aborted => state[active] = "uploading" /\ ~suspended /\ ~disposed

\* No file waits while nothing is running and the page is shown: whoever ends a
\* transfer or makes a file wait also starts the pump (upload-queue.ts:98, 125).
NotStranded == active = None /\ ~suspended /\ ~disposed => WaitingOf(state) = {}

QueueInv == TypeOK /\ ActiveInv /\ NotStranded

\* The late answer of a transfer the user paused changes nothing: a paused file
\* is neither done nor failed before it is resumed (upload-queue.ts:114).
PausedStays == [][\A k \in Keys : state[k] = "paused" => state'[k] \notin {"done", "error"}]_vars
===============================================================================
