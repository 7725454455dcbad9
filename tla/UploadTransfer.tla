----------------------------- MODULE UploadTransfer -----------------------------
(***************************************************************************)
(* The transfer of one upload session: browser tabs send a video in chunks *)
(* to the API, which appends them to the source file under the session's   *)
(* state lock.  Requests and replies are lost or late, tabs pause and come *)
(* back with another file, chunks fail in the middle and the API dies.     *)
(*                                                                         *)
(* Requests that only read are one step; what they read may be out of date *)
(* by the tab's next one.  A request that writes stays on its way until it *)
(* is handled, also when its tab has given it up.                          *)
(***************************************************************************)
EXTENDS Naturals, Sequences

CONSTANTS
    Tabs,         \* transfers that may send to the session
    Files,        \* videos of the declared name and size
    Data,         \* what a unit of a video may be
    Bytes,        \* [Files -> content]
    Size,         \* expected_size
    Chunk,        \* blockSize
    MaxRetries,   \* retries without progress before an error
    MaxStarts,    \* bound: transfers begun
    MaxCrashes,   \* bound: deaths of the API
    Nobody,       \* nobody waits for the reply
    Nothing       \* no request is being handled

ASSUME Sizes ==
    /\ Size \in Nat \ {0} /\ Chunk \in Nat \ {0}
    /\ MaxRetries \in Nat /\ MaxStarts \in Nat /\ MaxCrashes \in Nat
    /\ Files # {} /\ Bytes \in [Files -> [1..Size -> Data]]

Requests == [from: Tabs \cup {Nobody}, file: Files, kind: {"chunk", "complete"}, offset: 0..Size]

ASSUME Names == Nobody \notin Tabs /\ Nothing \notin Requests

VARIABLES
    status,     \* status of the session's record
    recorded,   \* its uploaded_bytes
    stored,     \* the source file
    serving,    \* the request that holds the state lock
    net,        \* requests on their way
    file,       \* [Tabs -> file being sent]
    phase,      \* [Tabs -> where resumeUpload is]
    offset,     \* [Tabs -> its offset]
    checked,    \* [Tabs -> how much of the stored prefix it has compared]
    retries,    \* [Tabs -> retries since the last progress]
    starts, crashes

server == <<status, recorded, stored, serving, crashes>>
vars == <<server, net, file, phase, offset, checked, retries, starts>>

Least(a, b) == IF a < b THEN a ELSE b
Agrees(f, n) == n <= Len(stored) /\ \A i \in 1..n : stored[i] = Bytes[f][i]
Set(f, t, v) == [f EXCEPT ![t] = v]

-------------------------------------------------------------------------------
(***************************************************************************)
(* resumeUpload                                                            *)
(***************************************************************************)
\* The loop's variables end, and the requests t waited for are on their own.
Abandoned(t, rs) == {IF r.from = t THEN [r EXCEPT !.from = Nobody] ELSE r : r \in rs}

LetGo(t) ==
    /\ offset' = Set(offset, t, 0)
    /\ checked' = Set(checked, t, 0)
    /\ net' = Abandoned(t, net)
    /\ serving' = IF serving # Nothing /\ serving.from = t THEN [serving EXCEPT !.from = Nobody] ELSE serving

\* The user picks a file for the session.
Start(t) ==
    /\ phase[t] \in {"idle", "done", "failed"}
    /\ starts < MaxStarts
    /\ starts' = starts + 1
    /\ \E f \in Files : file' = Set(file, t, f)
    /\ phase' = Set(phase, t, "asking")
    /\ retries' = Set(retries, t, 0)
    /\ UNCHANGED <<server, net, offset, checked>>

\* The transfer is aborted.
Pause(t) ==
    /\ phase[t] \notin {"idle", "done", "failed"}
    /\ phase' = Set(phase, t, "idle")
    /\ LetGo(t)
    /\ UNCHANGED <<status, recorded, stored, crashes, file, retries, starts>>

\* Seeded defect: retries are not counted.
RetryAlways(t) ==
    /\ phase[t] \in {"asking", "verifying", "sent", "finishing"}
    /\ phase' = Set(phase, t, "asking")
    /\ LetGo(t)
    /\ UNCHANGED <<status, recorded, stored, crashes, file, retries, starts>>

\* An answer is lost or late, the session is locked (409) or the API fails (5xx):
\* start over, with the session's state.
Retry(t) ==
    /\ phase[t] \in {"asking", "verifying", "sent", "finishing"}
    /\ IF retries[t] < MaxRetries
       THEN phase' = Set(phase, t, "asking") /\ retries' = Set(retries, t, retries[t] + 1)
       ELSE phase' = Set(phase, t, "failed") /\ UNCHANGED retries
    /\ LetGo(t)
    /\ UNCHANGED <<status, recorded, stored, crashes, file, starts>>

Sending(t, kind, o, next) ==
    /\ net' = net \cup {[from |-> t, file |-> file[t], kind |-> kind, offset |-> o]}
    /\ phase' = Set(phase, t, next)

\* Seeded defect: the stored prefix is not compared.
AskTrusting(t) ==
    /\ phase[t] = "asking"
    /\ serving = Nothing
    /\ status = "UPLOADING"
    /\ offset' = Set(offset, t, Len(stored))
    /\ phase' = Set(phase, t, "sending")
    /\ UNCHANGED <<server, net, file, checked, retries, starts>>

\* GET: the length of the file, not of the record, says where to go on.
Ask(t) ==
    /\ phase[t] = "asking"
    /\ serving = Nothing
    /\ IF status = "UPLOADING"
       THEN /\ offset' = Set(offset, t, Len(stored))
            /\ checked' = Set(checked, t, 0)
            /\ phase' = Set(phase, t, "verifying")
            /\ UNCHANGED net
       ELSE Sending(t, "complete", Size, "finishing") /\ UNCHANGED <<offset, checked>>
    /\ UNCHANGED <<server, file, retries, starts>>

\* POST verify, block by block (verifyUploadedPrefix).
Verify(t) ==
    LET upto == Least(checked[t] + Chunk, offset[t]) IN
    /\ phase[t] = "verifying"
    /\ checked[t] < offset[t]
    /\ serving = Nothing
    /\ status = "UPLOADING"
    /\ Len(stored) = offset[t]
    /\ IF \A i \in (checked[t] + 1)..upto : stored[i] = Bytes[file[t]][i]
       THEN checked' = Set(checked, t, upto) /\ UNCHANGED phase
       ELSE phase' = Set(phase, t, "failed") /\ UNCHANGED checked
    /\ UNCHANGED <<server, net, file, offset, retries, starts>>

\* The next chunk after the offset, or the completion.
Send(t) ==
    /\ \/ phase[t] = "verifying" /\ checked[t] = offset[t]
       \/ phase[t] = "sending"
    /\ IF offset[t] < Size THEN Sending(t, "chunk", offset[t], "sent")
                           ELSE Sending(t, "complete", Size, "finishing")
    /\ UNCHANGED <<server, file, offset, checked, retries, starts>>

-------------------------------------------------------------------------------
(***************************************************************************)
(* The API                                                                 *)
(***************************************************************************)
\* The answer reaches its tab; lost ones are a Retry before it.
Tell(r, next) == phase' = IF r.from = Nobody THEN phase ELSE Set(phase, r.from, next)

TellOffset(r, n) ==
    /\ Tell(r, "sending")
    /\ offset' = IF r.from = Nobody THEN offset ELSE Set(offset, r.from, n)
    /\ retries' = IF r.from = Nobody THEN retries ELSE Set(retries, r.from, 0)

\* append_chunk up to the comparison of the offset.
BeginChunk(r) ==
    /\ r.kind = "chunk"
    /\ serving = Nothing
    /\ status = "UPLOADING"
    /\ Len(stored) = r.offset
    /\ serving' = r
    /\ net' = net \ {r}
    /\ UNCHANGED <<status, recorded, stored, crashes, file, phase, offset, checked, retries, starts>>

\* The session is locked, or the offset is not the end of the file (any more):
\* nothing changes, and the tab that gets to know it retries.
Refuse(r) ==
    /\ serving # Nothing \/ (r.kind = "chunk" /\ (status # "UPLOADING" \/ Len(stored) # r.offset))
    /\ net' = net \ {r}
    /\ UNCHANGED <<server, file, phase, offset, checked, retries, starts>>

Serving(kind) == serving # Nothing /\ serving.kind = kind

Target == Least(serving.offset + Chunk, Size)

\* A part of the body reaches the file.
Flush ==
    /\ Serving("chunk")
    /\ Len(stored) < Target
    /\ stored' = Append(stored, Bytes[serving.file][Len(stored) + 1])
    /\ UNCHANGED <<status, recorded, serving, crashes, net, file, phase, offset, checked, retries, starts>>

EndChunk ==
    /\ Serving("chunk")
    /\ Len(stored) = Target
    /\ recorded' = Target
    /\ serving' = Nothing
    /\ TellOffset(serving, Target)
    /\ UNCHANGED <<status, stored, crashes, net, file, checked, starts>>

\* Seeded defect: a broken chunk is cut back to what the record says.
FailToRecord ==
    /\ Serving("chunk")
    /\ stored' = SubSeq(stored, 1, recorded)
    /\ serving' = Nothing
    /\ UNCHANGED <<status, recorded, crashes, net, file, phase, offset, checked, retries, starts>>

\* The connection breaks or the disk is full: the file is cut back to where the
\* chunk began, unless that fails too.  The tab sees an error and retries.
FailChunk ==
    /\ Serving("chunk")
    /\ \E n \in {serving.offset, Len(stored)} : stored' = SubSeq(stored, 1, n)
    /\ serving' = Nothing
    /\ UNCHANGED <<status, recorded, crashes, net, file, phase, offset, checked, retries, starts>>

\* _complete up to its first save.
BeginComplete(r) ==
    /\ r.kind = "complete"
    /\ serving = Nothing
    /\ status = "UPLOADING"
    /\ Len(stored) = Size
    /\ serving' = r
    /\ net' = net \ {r}
    /\ recorded' = Size
    /\ UNCHANGED <<status, stored, crashes, file, phase, offset, checked, retries, starts>>

EndComplete ==
    /\ Serving("complete")
    /\ status' = "READY"
    /\ serving' = Nothing
    /\ Tell(serving, "done")
    /\ UNCHANGED <<recorded, stored, crashes, net, file, offset, checked, retries, starts>>

\* complete of a session that is complete already.
Completed(r) ==
    /\ r.kind = "complete"
    /\ serving = Nothing
    /\ status = "READY"
    /\ net' = net \ {r}
    /\ Tell(r, "done")
    /\ UNCHANGED <<server, file, offset, checked, retries, starts>>

\* The API dies in the middle of a request and is started again.
Crash ==
    /\ serving # Nothing
    /\ crashes < MaxCrashes
    /\ crashes' = crashes + 1
    /\ serving' = Nothing
    /\ UNCHANGED <<status, recorded, stored, net, file, phase, offset, checked, retries, starts>>

-------------------------------------------------------------------------------
Init ==
    /\ status = "UPLOADING"
    /\ recorded = 0
    /\ stored = <<>>
    /\ serving = Nothing
    /\ net = {}
    /\ file = [t \in Tabs |-> CHOOSE f \in Files : TRUE]
    /\ phase = [t \in Tabs |-> "idle"]
    /\ offset = [t \in Tabs |-> 0]
    /\ checked = [t \in Tabs |-> 0]
    /\ retries = [t \in Tabs |-> 0]
    /\ starts = 0
    /\ crashes = 0

Step(t) == Ask(t) \/ Verify(t) \/ Send(t) \/ Retry(t)

Handle(r) == BeginChunk(r) \/ Refuse(r) \/ BeginComplete(r) \/ Completed(r)

Next ==
    \/ \E t \in Tabs : Start(t) \/ Pause(t) \/ Step(t)
    \/ \E r \in net : Handle(r)
    \/ Flush \/ EndChunk \/ FailChunk \/ EndComplete \/ Crash

Spec == Init /\ [][Next]_vars

-------------------------------------------------------------------------------
(***************************************************************************)
(* Properties                                                              *)
(***************************************************************************)
Phases == {"idle", "asking", "verifying", "sending", "sent", "finishing", "done", "failed"}

\* Every variable has its type.
TypeOK ==
    /\ status \in {"UPLOADING", "READY"}
    /\ recorded \in 0..Size
    /\ stored \in Seq(Data)
    /\ Len(stored) <= Size
    /\ serving \in Requests \cup {Nothing}
    /\ net \subseteq Requests
    /\ file \in [Tabs -> Files]
    /\ phase \in [Tabs -> Phases]
    /\ offset \in [Tabs -> 0..Size]
    /\ checked \in [Tabs -> 0..Size]
    /\ retries \in [Tabs -> Nat]
    /\ starts \in Nat
    /\ crashes \in Nat

\* What is stored for good: a chunk that fails may take back what it has added.
Firm == IF serving = Nothing THEN Len(stored) ELSE serving.offset

Holds(f, n) == n <= Firm /\ \A i \in 1..n : stored[i] = Bytes[f][i]

\* What is stored is a part of one file, and recorded as far as it is firm.
StoredInv ==
    /\ \E f \in Files : Agrees(f, Len(stored))
    /\ recorded <= Firm
    /\ serving # Nothing =>
          /\ status = "UPLOADING"
          /\ serving.offset <= Len(stored)
          /\ Agrees(serving.file, Len(stored))
          /\ serving.kind = "complete" => serving.offset = Size /\ recorded = Size
    /\ status = "READY" => Len(stored) = Size /\ recorded = Size

\* What a tab has verified or sent is stored, and what it asks for rests on it.
\* The completion of a session that is finished rests on nothing.
TabInv ==
    /\ \A t \in Tabs :
          /\ phase[t] = "verifying" => Holds(file[t], checked[t])
          /\ phase[t] = "sending" => Holds(file[t], offset[t])
    /\ \A r \in net :
          /\ status = "READY" \/ Holds(r.file, r.offset)
          /\ r.kind = "complete" => r.offset = Size

\* A tab waits for one request at most.
Waits(r) == r.from # Nobody => phase[r.from] \in {"sent", "finishing"} /\ r.file = file[r.from]

WaitInv ==
    /\ \A r \in net : Waits(r)
    /\ \A r1, r2 \in net : r1.from = r2.from /\ r1.from # Nobody => r1 = r2
    /\ serving # Nothing =>
          /\ Waits(serving)
          /\ \A r \in net : r.from = serving.from => r.from = Nobody

\* The inductive invariant.  What a tab has verified or sent stays stored: the
\* file only grows at its end, and what is cut off is what a failed chunk added.
UploadInv == TypeOK /\ StoredInv /\ TabInv /\ WaitInv

\* A finished session holds one of the files whole, and its record says so: late
\* chunks of another tab, failed ones and crashes have left no trace
\* (upload_service.py:45, 78).
ReadyIsWhole == status = "READY" => recorded = Size /\ \E f \in Files : stored = Bytes[f]

\* A session is finished by a tab whose file it holds (api.ts:115).
FinishedByOwner ==
    [][status' # status => \A i \in 1..Size : stored[i] = Bytes[serving.file][i]]_vars

\* What the record counts as uploaded is never lost (upload_service.py:78).
UploadedStays == [][Len(stored') >= recorded]_vars

\* docs/development-status.md:61: a file whose content differs from what is stored
\* stops the upload, even if name and size are the same.
\* The code does not keep this (README.md, Divergences).
DoneIsMine == \A t \in Tabs : phase[t] = "done" => stored = Bytes[file[t]]
===============================================================================
