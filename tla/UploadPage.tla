------------------------------- MODULE UploadPage -------------------------------
(***************************************************************************)
(* The page with its upload queue and the transfers the queue starts       *)
(* (VideoWorkspace.tsx): UploadQueue and UploadTransfer composed.  The     *)
(* transfer of an item ends by itself or because the queue aborts it, and  *)
(* only then the queue goes on.                                            *)
(*                                                                         *)
(* One upload session is followed.  The items of other sessions keep the   *)
(* queue busy; how their transfers end is left open.                       *)
(***************************************************************************)
EXTENDS UploadQueue

CONSTANTS
    Files, Data, Bytes, Size, Chunk, MaxRetries, MaxCrashes, Nobody, Nothing,  \* see UploadTransfer
    page      \* the tab

ASSUME Named == Nobody # page /\ Files # {}

VARIABLES
    source,   \* [Keys -> the file of an item of the session, or None]
    session,  \* status of the session's record
    recorded, stored, serving, net, file, phase, offset, checked, retries, starts, crashes

Transfer == INSTANCE UploadTransfer WITH Tabs <- {page}, MaxStarts <- MaxEvents, status <- session

transfer == <<session, recorded, stored, serving, net, file, phase, offset, checked, retries, starts, crashes>>
allvars == <<vars, source, transfer>>

\* A transfer of the session has ended or was never begun.
Over == phase[page] \in {"idle", "done", "failed"}

Ours(k) == k # None /\ source[k] # None

\* The queue starts the transfer of k.
Begin(k) ==
    IF source'[k] = None THEN UNCHANGED transfer
    ELSE Transfer!Start(page) /\ file'[page] = source'[k]

\* Seeded defect: the transfer of the queue's item is not told to stop.
FollowUnaware ==
    \/ active = None /\ active' # None /\ Begin(active')
    \/ (active = None => active' = None) /\ UNCHANGED transfer

\* What an operation of the queue means for the transfers.
Follow ==
    \/ active = None /\ active' # None /\ Begin(active')
    \/ aborted' /\ ~aborted /\ Ours(active) /\ ~Over /\ Transfer!Pause(page)
    \/ /\ active = None => active' = None
       /\ aborted' /\ ~aborted /\ Ours(active) => Over
       /\ UNCHANGED transfer

\* A file for the session is taken only if none of its items is left, or done.
AddFile ==
    /\ Add
    /\ \E f \in Files \cup {None} :
          /\ f # None => \A k \in 1..added : source[k] # None => state[k] \in {"absent", "done"}
          /\ source' = [source EXCEPT ![added + 1] = f]
    /\ Follow

\* The transfer is over, and its end is that of the item, unless it was aborted.
GoOn ==
    /\ Settle
    /\ UNCHANGED source
    /\ Ours(active) => Over /\ Pumped(Settled(IF phase[page] = "failed" THEN "error" ELSE "done"), suspended, disposed)
    /\ IF active' = None THEN UNCHANGED transfer ELSE Begin(active')

Operate ==
    /\ Suspend \/ Unsuspend \/ Dispose \/ Activate \/ Forget \/ \E k \in Keys : Pause(k) \/ Remove(k) \/ Resume(k)
    /\ UNCHANGED source
    /\ Follow

Go == Transfer!Step(page) /\ UNCHANGED <<vars, source>>

Serve ==
    /\ \/ \E r \in net : Transfer!Handle(r)
       \/ Transfer!Flush \/ Transfer!EndChunk \/ Transfer!FailChunk \/ Transfer!EndComplete \/ Transfer!Crash
    /\ UNCHANGED <<vars, source>>

PageInit == Init /\ source = [k \in Keys |-> None] /\ Transfer!Init

PageNext == AddFile \/ GoOn \/ Operate \/ Go \/ Serve

\* The page goes on, whatever the API does: its requests time out (abortable.ts), and
\* transfers that have ended are noticed.
PageSpec == PageInit /\ [][PageNext]_allvars /\ WF_allvars(Go) /\ WF_allvars(GoOn)

-------------------------------------------------------------------------------
(***************************************************************************)
(* Properties                                                              *)
(***************************************************************************)
\* The queue is served as UploadQueue says, in which every transfer ends: however
\* requests are lost, late or refused, the next file gets its turn
\* (upload-queue.ts:112, api.ts:152).
QueueSpec == Spec

\* At most one transfer of the page writes to the session: a transfer that goes on
\* is the active item's, and was not told to stop (upload-queue.ts:54, 100).
TransferIsActive == ~Over => Ours(active) /\ ~aborted /\ file[page] = source[active]

\* A file shown as done belongs to a session that is complete, also when it was
\* paused and resumed while its last request was served (upload-queue.ts:113).
DoneIsReady == \A k \in Keys : source[k] # None /\ state[k] = "done" => session = "READY"

\* The transfer waits for one request at most; the others are on their own.
Request(r) == r = [from |-> r.from, file |-> r.file, kind |-> r.kind, offset |-> r.offset]
Awaits(r) == r.from = page => phase[page] \in {"sent", "finishing"}

AwaitInv ==
    /\ \A r \in net : Request(r) /\ Awaits(r)
    /\ \A r1, r2 \in net : r1.from = page /\ r2.from = page => r1 = r2
    /\ serving # Nothing =>
          /\ Request(serving) /\ Awaits(serving)
          /\ serving.from = page => \A r \in net : r.from # page

\* The inductive invariant: what the active item has asked for has been begun, and
\* ends as done only with the session.
PageInv ==
    /\ source \in [Keys -> Files \cup {None}] /\ \A k \in Keys : k > added => source[k] = None
    /\ file \in [{page} -> Files] /\ phase \in [{page} -> Transfer!Phases]
    /\ AwaitInv
    /\ TransferIsActive
    /\ Ours(active) /\ ~aborted => phase[page] # "idle"
    /\ phase[page] = "done" => session = "READY"
    /\ DoneIsReady
===============================================================================
