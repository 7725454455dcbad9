------------------------------ MODULE UploadProofs ------------------------------
(***************************************************************************)
(* Theorems about the windows of a browser.  UploadTransfer, for any       *)
(* number of tabs, files of any size, chunks of any size and any number of *)
(* faults; Sessions, for any number of users, windows, polls and sessions. *)
(***************************************************************************)
EXTENDS UploadTransfer, Sessions, FiniteSetTheorems, WellFoundedInduction, TLAPS

LEMMA UploadInit == Init => UploadInv
  <1> SUFFICES ASSUME Init PROVE UploadInv
    OBVIOUS
  <1>1. TypeOK
    BY Sizes DEF Init, TypeOK, Requests, Phases
  <1>2. StoredInv
    BY Sizes DEF Init, StoredInv, Agrees, Firm
  <1>3. TabInv /\ WaitInv
    BY DEF Init, TabInv, WaitInv
  <1> QED
    BY <1>1, <1>2, <1>3 DEF UploadInv

\* What is given up keeps everything but the tab that waits for it.
LEMMA Alone ==
    ASSUME NEW t \in Tabs, NEW rs \in SUBSET Requests
    PROVE  \A q \in Abandoned(t, rs) :
              /\ q \in Requests
              /\ q.from # t
              /\ \E r \in rs : /\ r.file = q.file /\ r.kind = q.kind /\ r.offset = q.offset
                               /\ q.from # Nobody => q = r
  <1> TAKE q \in Abandoned(t, rs)
  <1>1. PICK r \in rs : q = IF r.from = t THEN [r EXCEPT !.from = Nobody] ELSE r
    BY DEF Abandoned
  <1>2. r \in Requests
    OBVIOUS
  <1>3. CASE r.from = t
    <2>1. q = [from |-> Nobody, file |-> r.file, kind |-> r.kind, offset |-> r.offset]
      BY <1>1, <1>2, <1>3 DEF Requests
    <2> QED
      BY <1>2, <2>1, Names DEF Requests
  <1>4. CASE r.from # t
    BY <1>1, <1>2, <1>4
  <1> QED
    BY <1>3, <1>4

\* A tab that stops waiting disturbs nothing, wherever it goes on.
LEMMA LetGoStep ==
    ASSUME UploadInv, NEW t \in Tabs, LetGo(t),
           NEW next \in {"idle", "asking", "failed"}, phase' = Set(phase, t, next),
           UNCHANGED <<status, recorded, stored, crashes, file, starts>>,
           retries' \in [Tabs -> Nat]
    PROVE  UploadInv'
  <1> USE DEF UploadInv
  <1>1. /\ serving = Nothing => serving' = Nothing
        /\ serving # Nothing => /\ serving' \in Requests /\ serving' # Nothing
                                /\ serving'.file = serving.file /\ serving'.kind = serving.kind
                                /\ serving'.offset = serving.offset /\ serving'.from # t
                                /\ serving'.from # Nobody => serving' = serving
    <2>1. CASE serving # Nothing /\ serving.from = t
      <3>1. serving' = [from |-> Nobody, file |-> serving.file, kind |-> serving.kind, offset |-> serving.offset]
        BY <2>1 DEF LetGo, TypeOK, Requests
      <3> QED
        BY <2>1, <3>1, Names DEF TypeOK, Requests
    <2>2. CASE ~(serving # Nothing /\ serving.from = t)
      BY <2>2 DEF LetGo, TypeOK
    <2> QED
      BY <2>1, <2>2
  <1>2. \A q \in net' : /\ q \in Requests
                        /\ q.from # t
                        /\ \E r \in net : /\ r.file = q.file /\ r.kind = q.kind /\ r.offset = q.offset
                                          /\ q.from # Nobody => q = r
    <2>1. net \in SUBSET Requests /\ net' = Abandoned(t, net)
      BY DEF LetGo, TypeOK
    <2> QED
      BY <2>1, Alone
  <1>3. TypeOK'
    <2>1. net' \subseteq Requests /\ serving' \in Requests \cup {Nothing}
      BY <1>1, <1>2
    <2>2. offset' \in [Tabs -> 0..Size] /\ checked' \in [Tabs -> 0..Size]
      BY Sizes DEF TypeOK, LetGo, Set
    <2>3. phase' \in [Tabs -> {"idle", "asking", "verifying", "sending", "sent", "finishing", "done", "failed"}]
      BY DEF TypeOK, Set, Phases
    <2> QED
      BY <2>1, <2>2, <2>3 DEF TypeOK, Phases
  <1>4. Firm' = Firm
    BY <1>1 DEF Firm
  <1>5. StoredInv'
    BY <1>1, <1>4 DEF StoredInv, Agrees
  <1>6. TabInv'
    <2>1. \A u \in Tabs : phase'[u] \in {"verifying", "sending"} =>
            phase'[u] = phase[u] /\ checked'[u] = checked[u] /\ offset'[u] = offset[u] /\ file'[u] = file[u]
      BY DEF LetGo, Set, TypeOK
    <2>2. \A u \in Tabs : /\ phase'[u] = "verifying" => Holds(file[u], checked[u])
                          /\ phase'[u] = "sending" => Holds(file[u], offset[u])
      BY <2>1 DEF TabInv
    <2>3. \A r \in net' : (status = "READY" \/ Holds(r.file, r.offset)) /\ (r.kind = "complete" => r.offset = Size)
      BY <1>2 DEF TabInv
    <2> QED
      BY <1>4, <2>1, <2>2, <2>3 DEF TabInv, Holds
  <1>7. WaitInv'
    BY <1>1, <1>2 DEF WaitInv, Waits, Set, TypeOK
  <1> QED
    BY <1>3, <1>5, <1>6, <1>7

LEMMA StartStep == ASSUME UploadInv, NEW t \in Tabs, Start(t) PROVE UploadInv'
  <1> USE DEF UploadInv
  <1>1. PICK f \in Files : file' = Set(file, t, f)
    BY DEF Start
  <1>2. TypeOK'
    BY <1>1 DEF Start, TypeOK, Set, server, Phases
  <1>3. StoredInv'
    BY DEF Start, StoredInv, Agrees, Firm, server
  <1>4. TabInv'
    BY <1>1 DEF Start, TabInv, Holds, Firm, Set, TypeOK, server
  <1>5. WaitInv'
    BY <1>1 DEF Start, WaitInv, Waits, Set, TypeOK, server
  <1> QED
    BY <1>2, <1>3, <1>4, <1>5

LEMMA PauseStep == ASSUME UploadInv, NEW t \in Tabs, Pause(t) PROVE UploadInv'
  BY LetGoStep DEF Pause, UploadInv, TypeOK

LEMMA RetryStep == ASSUME UploadInv, NEW t \in Tabs, Retry(t) PROVE UploadInv'
  <1>1. \E next \in {"idle", "asking", "failed"} : phase' = Set(phase, t, next)
    BY DEF Retry
  <1>2. retries' \in [Tabs -> Nat]
    BY DEF Retry, UploadInv, TypeOK, Set, Phases
  <1> QED
    BY <1>1, <1>2, LetGoStep DEF Retry

\* A request is sent by a tab that waits for none.
LEMMA SendingStep ==
    ASSUME UploadInv, NEW t \in Tabs, NEW kind \in {"chunk", "complete"}, NEW o \in 0..Size,
           NEW next \in {"sent", "finishing"}, Sending(t, kind, o, next),
           phase[t] \notin {"sent", "finishing"}, kind = "complete" => o = Size,
           status = "READY" \/ Holds(file[t], o),
           UNCHANGED <<server, file, offset, checked, retries, starts>>
    PROVE  UploadInv'
  <1> USE DEF UploadInv
  <1> DEFINE q == [from |-> t, file |-> file[t], kind |-> kind, offset |-> o]
  <1>1. q \in Requests /\ q.from = t /\ q.file = file[t] /\ q.kind = kind /\ q.offset = o
    BY DEF TypeOK, Requests
  <1>2. net' = net \cup {q} /\ phase' = Set(phase, t, next)
    BY DEF Sending
  <1>3. \A r \in net : r.from # t
    BY Names DEF WaitInv, Waits, TypeOK
  <1>4. serving # Nothing => serving.from # t
    BY Names DEF WaitInv, Waits, TypeOK
  <1> HIDE DEF q
  <1>5. TypeOK'
    BY <1>1, <1>2 DEF TypeOK, Set, server, Phases
  <1>6. StoredInv'
    BY DEF StoredInv, Agrees, Firm, server
  <1>7. TabInv'
    <2>1. \A u \in Tabs : phase'[u] \in {"verifying", "sending"} => phase'[u] = phase[u]
      BY <1>2 DEF Set, TypeOK
    <2>2. \A u \in Tabs : /\ phase'[u] = "verifying" => Holds(file[u], checked[u])
                          /\ phase'[u] = "sending" => Holds(file[u], offset[u])
      BY <2>1 DEF TabInv
    <2>3. \A r \in net' : (status = "READY" \/ Holds(r.file, r.offset)) /\ (r.kind = "complete" => r.offset = Size)
      BY <1>1, <1>2 DEF TabInv
    <2> QED
      BY <2>2, <2>3 DEF TabInv, Holds, Firm, server
  <1>8. WaitInv'
    BY <1>1, <1>2, <1>3, <1>4, Names DEF WaitInv, Waits, Set, TypeOK, server
  <1> QED
    BY <1>5, <1>6, <1>7, <1>8

LEMMA AskStep == ASSUME UploadInv, NEW t \in Tabs, Ask(t) PROVE UploadInv'
  <1> USE DEF UploadInv
  <1>1. CASE status = "UPLOADING"
    <2>1. /\ offset' = Set(offset, t, Len(stored)) /\ checked' = Set(checked, t, 0)
          /\ phase' = Set(phase, t, "verifying")
          /\ UNCHANGED <<server, net, file, retries, starts>>
          /\ phase[t] = "asking"
      BY <1>1 DEF Ask
    <2>2. Len(stored) \in 0..Size /\ 0 \in 0..Size /\ Firm \in Nat
      BY Sizes DEF TypeOK, Firm, Requests
    <2>3. TypeOK'
      <3>1. offset' \in [Tabs -> 0..Size] /\ checked' \in [Tabs -> 0..Size]
        BY <2>1, <2>2 DEF TypeOK, Set
      <3> QED
        BY <2>1, <3>1 DEF TypeOK, Set, server, Phases
    <2>4. StoredInv'
      BY <2>1 DEF StoredInv, Agrees, Firm, server
    <2>5. TabInv'
      <3>1. Holds(file[t], checked'[t])
        BY <2>1, <2>2 DEF Holds, Set, TypeOK
      <3>2. \A u \in Tabs : u # t => phase'[u] = phase[u] /\ checked'[u] = checked[u] /\ offset'[u] = offset[u]
        BY <2>1 DEF Set, TypeOK
      <3>3. \A u \in Tabs : /\ phase'[u] = "verifying" => Holds(file[u], checked'[u])
                            /\ phase'[u] = "sending" => Holds(file[u], offset'[u])
        BY <2>1, <3>1, <3>2 DEF TabInv, Set, TypeOK
      <3> QED
        BY <2>1, <3>3 DEF TabInv, Holds, Firm, server
    <2>6. WaitInv'
      BY <2>1 DEF WaitInv, Waits, Set, TypeOK, server
    <2> QED
      BY <2>3, <2>4, <2>5, <2>6
  <1>2. CASE status = "READY"
    BY <1>2, Sizes, SendingStep DEF Ask
  <1> QED
    BY <1>1, <1>2 DEF TypeOK

\* What agrees block by block agrees.
LEMMA VerifyStep == ASSUME UploadInv, NEW t \in Tabs, Verify(t) PROVE UploadInv'
  <1> USE DEF UploadInv
  <1> DEFINE upto == Least(checked[t] + Chunk, offset[t])
  <1>1. /\ phase[t] = "verifying" /\ serving = Nothing /\ Len(stored) = offset[t]
        /\ UNCHANGED <<server, net, file, offset, retries, starts>>
    BY DEF Verify
  <1>2. upto \in 0..Size /\ upto <= offset[t] /\ checked[t] <= upto
    BY <1>1, Sizes DEF TypeOK, Least, Verify
  <1>3. \/ /\ \A i \in (checked[t] + 1)..upto : stored[i] = Bytes[file[t]][i]
           /\ checked' = Set(checked, t, upto) /\ phase' = phase
        \/ phase' = Set(phase, t, "failed") /\ checked' = checked
    BY DEF Verify
  <1> HIDE DEF upto
  <1>4. TypeOK'
    BY <1>1, <1>2, <1>3 DEF TypeOK, Set, server, Phases
  <1>5. StoredInv'
    BY <1>1 DEF StoredInv, Agrees, Firm, server
  <1>6. Firm = Len(stored) /\ Firm' = Firm /\ stored' = stored
    BY <1>1 DEF Firm, server
  <1>7. checked'[t] # checked[t] => Holds(file[t], upto)
    <2> SUFFICES ASSUME checked'[t] # checked[t] PROVE Holds(file[t], upto)
      OBVIOUS
    <2>1. \A i \in (checked[t] + 1)..upto : stored[i] = Bytes[file[t]][i]
      BY <1>3
    <2>2. \A i \in 1..checked[t] : stored[i] = Bytes[file[t]][i]
      BY <1>1 DEF TabInv, Holds
    <2>3. \A i \in 1..upto : i \in 1..checked[t] \/ i \in (checked[t] + 1)..upto
      BY <1>2 DEF TypeOK
    <2> QED
      BY <2>1, <2>2, <2>3, <1>1, <1>2, <1>6 DEF Holds
  <1>8. \A u \in Tabs : phase'[u] = "verifying" => Holds(file[u], checked'[u])
    <2> SUFFICES ASSUME NEW u \in Tabs, phase'[u] = "verifying" PROVE Holds(file[u], checked'[u])
      OBVIOUS
    <2>1. phase[u] = "verifying"
      BY <1>3 DEF Set, TypeOK
    <2>2. CASE u = t
      BY <2>1, <2>2, <1>3, <1>7 DEF Set, TypeOK, TabInv
    <2>3. CASE u # t
      BY <2>1, <2>3, <1>3 DEF Set, TypeOK, TabInv
    <2> QED
      BY <2>2, <2>3
  <1>9. TabInv'
    <2>1. \A u \in Tabs : phase'[u] = "sending" => Holds(file[u], offset[u])
      BY <1>1, <1>3 DEF TabInv, Set, TypeOK
    <2>2. \A r \in net' : (status = "READY" \/ Holds(r.file, r.offset)) /\ (r.kind = "complete" => r.offset = Size)
      BY <1>1 DEF TabInv
    <2> QED
      BY <1>1, <1>6, <1>8, <2>1, <2>2 DEF TabInv, Holds, server
  <1>10. WaitInv'
    <2>1. \A u \in Tabs : phase[u] \in {"sent", "finishing"} => phase'[u] = phase[u]
      BY <1>1, <1>3 DEF Set, TypeOK
    <2> QED
      BY <1>1, <2>1 DEF WaitInv, Waits, TypeOK, Requests, server
  <1> QED
    BY <1>4, <1>5, <1>9, <1>10

LEMMA SendStep == ASSUME UploadInv, NEW t \in Tabs, Send(t) PROVE UploadInv'
  <1>1. Holds(file[t], offset[t]) /\ phase[t] \notin {"sent", "finishing"}
    BY DEF Send, UploadInv, TabInv
  <1>2. offset[t] \in 0..Size
    BY DEF UploadInv, TypeOK
  <1>3. CASE offset[t] < Size
    BY <1>1, <1>2, <1>3, SendingStep DEF Send
  <1>4. CASE offset[t] = Size
    BY <1>1, <1>2, <1>4, Sizes, SendingStep DEF Send
  <1> QED
    BY <1>2, <1>3, <1>4, Sizes

-------------------------------------------------------------------------------
\* A request that is taken from the network is waited for as before.
LEMMA BeginChunkStep == ASSUME UploadInv, NEW r \in net, BeginChunk(r) PROVE UploadInv'
  <1> USE DEF UploadInv
  <1>1. /\ r \in Requests /\ r # Nothing /\ serving = Nothing /\ serving' = r /\ net' = net \ {r}
        /\ status = "UPLOADING" /\ Len(stored) = r.offset /\ r.kind = "chunk"
        /\ UNCHANGED <<status, recorded, stored, crashes, file, phase, offset, checked, retries, starts>>
    BY Names DEF BeginChunk, TypeOK
  <1>2. TypeOK'
    BY <1>1 DEF TypeOK
  <1>3. Firm' = Firm /\ Firm = Len(stored)
    BY <1>1 DEF Firm
  <1>4. Agrees(r.file, Len(stored))
    BY <1>1, <1>3 DEF TabInv, Holds, Agrees
  <1>5. StoredInv'
    BY <1>1, <1>3, <1>4 DEF StoredInv, Agrees, TypeOK
  <1>6. TabInv'
    BY <1>1, <1>3 DEF TabInv, Holds
  <1>7. WaitInv'
    BY <1>1 DEF WaitInv, Waits
  <1> QED
    BY <1>2, <1>5, <1>6, <1>7

LEMMA RefuseStep == ASSUME UploadInv, NEW r \in net, Refuse(r) PROVE UploadInv'
  <1> USE DEF UploadInv
  <1>1. net' = net \ {r} /\ UNCHANGED <<server, file, phase, offset, checked, retries, starts>>
    BY DEF Refuse
  <1>2. TypeOK'
    BY <1>1 DEF TypeOK, server
  <1>3. StoredInv'
    BY <1>1 DEF StoredInv, Agrees, Firm, server
  <1>4. TabInv' /\ WaitInv'
    BY <1>1 DEF TabInv, Holds, Firm, WaitInv, Waits, server
  <1> QED
    BY <1>2, <1>3, <1>4

LEMMA BeginCompleteStep == ASSUME UploadInv, NEW r \in net, BeginComplete(r) PROVE UploadInv'
  <1> USE DEF UploadInv
  <1>1. /\ r \in Requests /\ r # Nothing /\ serving = Nothing /\ serving' = r /\ net' = net \ {r}
        /\ status = "UPLOADING" /\ Len(stored) = Size /\ r.kind = "complete" /\ recorded' = Size
        /\ UNCHANGED <<status, stored, crashes, file, phase, offset, checked, retries, starts>>
    BY Names DEF BeginComplete, TypeOK
  <1>2. TypeOK'
    BY <1>1, Sizes DEF TypeOK
  <1>3. r.offset = Size /\ Firm' = Firm /\ Firm = Len(stored)
    BY <1>1 DEF Firm, TabInv
  <1>4. Agrees(r.file, Len(stored))
    BY <1>1, <1>3 DEF TabInv, Holds, Agrees
  <1>5. StoredInv'
    BY <1>1, <1>3, <1>4, Sizes DEF StoredInv, Agrees
  <1>6. TabInv'
    BY <1>1, <1>3 DEF TabInv, Holds
  <1>7. WaitInv'
    BY <1>1 DEF WaitInv, Waits
  <1> QED
    BY <1>2, <1>5, <1>6, <1>7

LEMMA CompletedStep == ASSUME UploadInv, NEW r \in net, Completed(r) PROVE UploadInv'
  <1> USE DEF UploadInv
  <1>1. /\ r \in Requests /\ net' = net \ {r}
        /\ UNCHANGED <<server, file, offset, checked, retries, starts>>
        /\ phase' = IF r.from = Nobody THEN phase ELSE Set(phase, r.from, "done")
    BY DEF Completed, TypeOK, Tell
  <1>2. TypeOK'
    BY <1>1 DEF TypeOK, Set, server, Phases
  <1>3. StoredInv'
    BY <1>1 DEF StoredInv, Agrees, Firm, server
  <1>4. TabInv'
    <2>1. \A u \in Tabs : phase'[u] \in {"verifying", "sending"} => phase'[u] = phase[u]
      BY <1>1 DEF Set, TypeOK
    <2> QED
      BY <1>1, <2>1 DEF TabInv, Holds, Firm, server
  <1>5. WaitInv'
    <2>1. \A q \in net' : q.from # Nobody => q.from # r.from
      BY <1>1 DEF WaitInv
    <2>2. serving # Nothing => serving.from = Nobody \/ serving.from # r.from
      BY <1>1 DEF WaitInv
    <2>3. \A u \in Tabs : u # r.from => phase'[u] = phase[u]
      BY <1>1 DEF Set, TypeOK
    <2> QED
      BY <1>1, <2>1, <2>2, <2>3 DEF WaitInv, Waits, TypeOK, Requests, server
  <1> QED
    BY <1>2, <1>3, <1>4, <1>5

-------------------------------------------------------------------------------
\* Bytes are added behind everything that anybody relies on.
LEMMA FlushStep == ASSUME UploadInv, Flush PROVE UploadInv'
  <1> USE DEF UploadInv
  <1>0. PICK n \in Nat : n = Len(stored)
    BY DEF TypeOK
  <1>1. /\ serving \in Requests /\ serving # Nothing /\ serving.kind = "chunk" /\ n < Size
        /\ stored' = Append(stored, Bytes[serving.file][n + 1])
        /\ UNCHANGED <<status, recorded, serving, crashes, net, file, phase, offset, checked, retries, starts>>
    BY <1>0, Sizes, Names DEF Flush, Serving, Target, Least, TypeOK, Requests
  <1>2. n \in Nat /\ n + 1 \in 1..Size
    BY <1>0, <1>1, Sizes DEF TypeOK
  <1>3. Bytes[serving.file][n + 1] \in Data
    BY <1>1, <1>2, Sizes DEF Requests
  <1>4. /\ stored' \in Seq(Data) /\ Len(stored') = n + 1
        /\ \A i \in 1..n : stored'[i] = stored[i]
        /\ stored'[n + 1] = Bytes[serving.file][n + 1]
    BY <1>0, <1>1, <1>2, <1>3 DEF TypeOK
  <1>5. TypeOK'
    BY <1>1, <1>2, <1>4 DEF TypeOK
  <1>6. Firm' = Firm /\ Firm = serving.offset /\ Firm <= n /\ serving.offset \in Nat
    BY <1>0, <1>1, <1>2, Sizes DEF Firm, StoredInv, Requests
  <1>7. Agrees(serving.file, n) /\ n = Len(stored)
    BY <1>0, <1>1 DEF StoredInv
  <1>8. Agrees(serving.file, Len(stored))'
    <2>1. \A i \in 1..(n + 1) : i \in 1..n \/ i = n + 1
      BY <1>2
    <2> QED
      BY <1>1, <1>2, <1>4, <1>7, <2>1 DEF Agrees
  <1>9. status # "READY"
    BY <1>1 DEF StoredInv
  <1>10. StoredInv'
    <2>1. serving'.file \in Files
      BY <1>1 DEF Requests
    <2>3. (\E f \in Files : Agrees(f, Len(stored)))'
      BY <2>1, <1>8
    <2>4. serving'.offset <= Len(stored')
      BY <1>1, <1>2, <1>4, <1>6
    <2> QED
      BY <1>1, <1>6, <1>8, <1>9, <2>3, <2>4 DEF StoredInv
  <1>11. \A f \in Files, k \in 0..Size : k <= Firm /\ Holds(f, k) => \A i \in 1..k : stored'[i] = Bytes[f][i]
    <2> SUFFICES ASSUME NEW f \in Files, NEW k \in 0..Size, k <= Firm, Holds(f, k), NEW i \in 1..k
                 PROVE  stored'[i] = Bytes[f][i]
      OBVIOUS
    <2>1. i \in 1..n
      BY <1>2, <1>6, Sizes
    <2> QED
      BY <1>4, <2>1 DEF Holds
  <1>12. \A t \in Tabs : file[t] \in Files /\ checked[t] \in 0..Size /\ offset[t] \in 0..Size
    BY DEF TypeOK
  <1>13. \A r \in net : r.file \in Files /\ r.offset \in 0..Size
    BY DEF TypeOK, Requests
  <1>14. TabInv'
    BY <1>1, <1>6, <1>11, <1>12, <1>13 DEF TabInv, Holds
  <1>15. WaitInv'
    BY <1>1 DEF WaitInv, Waits
  <1> QED
    BY <1>5, <1>10, <1>14, <1>15

\* A step of the API that leaves the request it was at: what was firm still is.
LEMMA FreeStep ==
    ASSUME UploadInv, serving # Nothing, serving' = Nothing,
           NEW n \in serving.offset..Len(stored), stored' = SubSeq(stored, 1, n),
           UNCHANGED <<status, recorded, net, file, phase, offset, checked, retries, starts>>,
           crashes' \in Nat, serving.kind = "complete" => n = Len(stored)
    PROVE  UploadInv'
  <1> USE DEF UploadInv
  <1>1. n \in Nat /\ n <= Len(stored) /\ serving.offset <= n /\ serving.offset \in Nat
    BY Sizes DEF TypeOK, Requests
  <1>2. stored' \in Seq(Data) /\ Len(stored') = n /\ \A i \in 1..n : stored'[i] = stored[i]
    BY <1>1 DEF TypeOK
  <1>3. TypeOK'
    BY <1>1, <1>2, Sizes DEF TypeOK
  <1>4. Firm' = n /\ Firm = serving.offset
    BY <1>2 DEF Firm
  <1>5. StoredInv'
    <2>1. status # "READY" /\ recorded <= serving.offset
      BY <1>4 DEF StoredInv
    <2>2. recorded <= n
      BY <1>1, <2>1, Sizes DEF TypeOK
    <2>3. \A i \in 1..n : i \in 1..Len(stored)
      BY <1>1 DEF TypeOK
    <2>4. (\E f \in Files : Agrees(f, Len(stored)))'
      BY <1>1, <1>2, <2>3 DEF StoredInv, Agrees
    <2> QED
      BY <1>4, <2>1, <2>2, <2>4 DEF StoredInv
  <1>6. \A f \in Files, k \in 0..Size : Holds(f, k) => k <= n /\ \A i \in 1..k : stored'[i] = Bytes[f][i]
    <2> SUFFICES ASSUME NEW f \in Files, NEW k \in 0..Size, Holds(f, k)
                 PROVE  k <= n /\ \A i \in 1..k : stored'[i] = Bytes[f][i]
      OBVIOUS
    <2>1. k <= n
      BY <1>1, <1>4, Sizes DEF Holds
    <2>2. \A i \in 1..k : i \in 1..n
      BY <1>1, <2>1, Sizes
    <2> QED
      BY <1>2, <2>1, <2>2 DEF Holds
  <1>7. \A t \in Tabs : file[t] \in Files /\ checked[t] \in 0..Size /\ offset[t] \in 0..Size
    BY DEF TypeOK
  <1>8. \A r \in net : r.file \in Files /\ r.offset \in 0..Size
    BY DEF TypeOK, Requests
  <1>9. TabInv'
    <2>1. \A f \in Files, k \in 0..Size : Holds(f, k) => k <= Firm' /\ \A i \in 1..k : stored'[i] = Bytes[f][i]
      BY <1>4, <1>6
    <2>2. ASSUME NEW t \in Tabs PROVE (phase[t] = "verifying" => Holds(file[t], checked[t]))'
      <3>1. phase[t] = "verifying" => Holds(file[t], checked[t])
        BY DEF TabInv
      <3> QED
        BY <1>7, <2>1, <3>1 DEF Holds
    <2>3. ASSUME NEW t \in Tabs PROVE (phase[t] = "sending" => Holds(file[t], offset[t]))'
      <3>1. phase[t] = "sending" => Holds(file[t], offset[t])
        BY DEF TabInv
      <3> QED
        BY <1>7, <2>1, <3>1 DEF Holds
    <2>4. ASSUME NEW r \in net PROVE status' = "READY" \/ (r.offset <= Firm' /\ \A i \in 1..r.offset : stored'[i] = Bytes[r.file][i])
      <3>1. status = "READY" \/ Holds(r.file, r.offset)
        BY DEF TabInv
      <3> QED
        BY <1>8, <2>1, <3>1
    <2>5. \A r \in net : r.kind = "complete" => r.offset = Size
      BY DEF TabInv
    <2> QED
      BY <2>2, <2>3, <2>4, <2>5 DEF TabInv, Holds
  <1>10. WaitInv'
    BY DEF WaitInv, Waits
  <1> QED
    BY <1>3, <1>5, <1>9, <1>10

LEMMA Whole == ASSUME TypeOK PROVE stored = SubSeq(stored, 1, Len(stored))
  BY DEF TypeOK

LEMMA FailChunkStep == ASSUME UploadInv, FailChunk PROVE UploadInv'
  <1>1. PICK n \in {serving.offset, Len(stored)} : stored' = SubSeq(stored, 1, n)
    BY DEF FailChunk
  <1>2. serving # Nothing /\ serving.offset \in Nat /\ Len(stored) \in Nat /\ serving.offset <= Len(stored)
    BY Sizes DEF FailChunk, Serving, UploadInv, TypeOK, StoredInv, Requests
  <1>3. n \in serving.offset..Len(stored)
    BY <1>2
  <1>4. serving.kind = "chunk"
    BY DEF FailChunk, Serving
  <1>5. serving' = Nothing /\ UNCHANGED <<status, recorded, crashes, net, file, phase, offset, checked, retries, starts>>
    BY DEF FailChunk
  <1>6. crashes' \in Nat
    BY <1>5 DEF UploadInv, TypeOK
  <1> QED
    BY <1>1, <1>2, <1>3, <1>4, <1>5, <1>6, FreeStep

LEMMA CrashStep == ASSUME UploadInv, Crash PROVE UploadInv'
  <1>1. serving # Nothing /\ serving.offset \in Nat /\ Len(stored) \in Nat /\ serving.offset <= Len(stored)
    BY Sizes DEF Crash, UploadInv, TypeOK, StoredInv, Requests
  <1>2. Len(stored) \in serving.offset..Len(stored)
    BY <1>1
  <1>3. serving' = Nothing /\ UNCHANGED <<status, recorded, stored, net, file, phase, offset, checked, retries, starts>>
    BY DEF Crash
  <1>4. stored' = SubSeq(stored, 1, Len(stored))
    BY <1>3, Whole DEF UploadInv
  <1>5. crashes' \in Nat
    BY DEF Crash, UploadInv, TypeOK
  <1> QED
    BY <1>1, <1>2, <1>3, <1>4, <1>5, FreeStep

\* The tab that is told of its chunk goes on from where the file ends.
LEMMA EndChunkStep == ASSUME UploadInv, EndChunk PROVE UploadInv'
  <1> USE DEF UploadInv
  <1>0. PICK r, n : r = serving /\ n = Target
    OBVIOUS
  <1>1. /\ r \in Requests /\ r # Nothing /\ Len(stored) = n /\ recorded' = n /\ serving' = Nothing
        /\ phase' = IF r.from = Nobody THEN phase ELSE Set(phase, r.from, "sending")
        /\ offset' = IF r.from = Nobody THEN offset ELSE Set(offset, r.from, n)
        /\ retries' = IF r.from = Nobody THEN retries ELSE Set(retries, r.from, 0)
        /\ UNCHANGED <<status, stored, crashes, net, file, checked, starts>>
    BY <1>0, Names DEF EndChunk, Serving, Tell, TellOffset, TypeOK
  <1>2. n \in 0..Size
    BY <1>0, <1>1, Sizes DEF TypeOK, Target
  <1>3. TypeOK'
    <2>1. offset' \in [Tabs -> 0..Size] /\ retries' \in [Tabs -> Nat]
      BY <1>1, <1>2 DEF TypeOK, Set
    <2> QED
      BY <1>1, <1>2, <2>1 DEF TypeOK, Set, Phases
  <1>4. /\ r.offset \in Nat /\ r.offset <= n /\ Firm = r.offset /\ Firm' = n
        /\ status # "READY" /\ Agrees(r.file, n)
    BY <1>0, <1>1, Sizes DEF StoredInv, Firm, Requests
  <1>5. StoredInv'
    BY <1>1, <1>2, <1>4 DEF StoredInv, Agrees
  <1>6. r.from # Nobody => r.file = file[r.from]
    BY <1>0, <1>1 DEF WaitInv, Waits
  <1>7. \A f \in Files, k \in 0..Size : Holds(f, k) => Holds(f, k)'
    BY <1>1, <1>2, <1>4 DEF Holds
  <1>8. Holds(r.file, n)'
    BY <1>1, <1>2, <1>4 DEF Holds, Agrees
  <1>9. \A t \in Tabs : t # r.from \/ r.from = Nobody => phase'[t] = phase[t] /\ offset'[t] = offset[t]
    BY <1>1 DEF Set, TypeOK
  <1>10. \A t \in Tabs : file[t] \in Files /\ checked[t] \in 0..Size /\ offset[t] \in 0..Size
    BY DEF TypeOK
  <1>11. ASSUME NEW t \in Tabs
         PROVE  /\ phase'[t] = "verifying" => Holds(file[t], checked[t])'
                /\ phase'[t] = "sending" => Holds(file[t], offset[t])'
    <2>1. CASE t = r.from /\ r.from # Nobody
      BY <1>1, <1>6, <1>8, <2>1 DEF Set, TypeOK, Holds
    <2>2. CASE t # r.from \/ r.from = Nobody
      <3>1. phase'[t] = phase[t] /\ offset'[t] = offset[t] /\ checked'[t] = checked[t] /\ file'[t] = file[t]
        BY <1>1, <1>9, <2>2
      <3>2. phase[t] = "verifying" => Holds(file[t], checked[t])
        BY DEF TabInv
      <3>3. phase[t] = "sending" => Holds(file[t], offset[t])
        BY DEF TabInv
      <3> QED
        BY <1>7, <1>10, <3>1, <3>2, <3>3 DEF Holds
    <2> QED
      BY <2>1, <2>2
  <1>12. TabInv'
    <2>1. \A q \in net : q.file \in Files /\ q.offset \in 0..Size
      BY DEF TypeOK, Requests
    <2>2. \A q \in net : status = "READY" \/ Holds(q.file, q.offset)'
      BY <1>7, <2>1 DEF TabInv, Holds
    <2> QED
      BY <1>1, <1>11, <2>2 DEF TabInv, Holds
  <1>13. WaitInv'
    <2>1. \A q \in net : q.from # Nobody => q.from # r.from /\ q.from \in Tabs
      BY <1>0, <1>1 DEF WaitInv, TypeOK, Requests
    <2> QED
      BY <1>1, <1>9, <2>1 DEF WaitInv, Waits
  <1> QED
    BY <1>3, <1>5, <1>12, <1>13

LEMMA EndCompleteStep == ASSUME UploadInv, EndComplete PROVE UploadInv'
  <1> USE DEF UploadInv
  <1>0. PICK r : r = serving
    OBVIOUS
  <1>1. /\ r \in Requests /\ r # Nothing /\ r.kind = "complete" /\ status' = "READY" /\ serving' = Nothing
        /\ phase' = IF r.from = Nobody THEN phase ELSE Set(phase, r.from, "done")
        /\ UNCHANGED <<recorded, stored, crashes, net, file, offset, checked, retries, starts>>
    BY <1>0, Names DEF EndComplete, Serving, Tell, TypeOK
  <1>2. TypeOK'
    BY <1>1 DEF TypeOK, Set, Phases
  <1>3. /\ r.offset = Size /\ Size \in Nat /\ Len(stored) = Size /\ recorded = Size
        /\ Firm = Size /\ Firm' = Size
    BY <1>0, <1>1, Sizes DEF StoredInv, Firm, TypeOK
  <1>4. StoredInv'
    BY <1>1, <1>3 DEF StoredInv, Agrees
  <1>5. \A t \in Tabs : phase'[t] # "done" => phase'[t] = phase[t]
    BY <1>1 DEF Set, TypeOK
  <1>6. TabInv'
    BY <1>1, <1>3, <1>5 DEF TabInv, Holds
  <1>7. WaitInv'
    <2>1. \A q \in net : q.from # Nobody => q.from # r.from /\ q.from \in Tabs
      BY <1>0, <1>1 DEF WaitInv, TypeOK, Requests
    <2>2. \A t \in Tabs : t # r.from \/ r.from = Nobody => phase'[t] = phase[t]
      BY <1>1 DEF Set, TypeOK
    <2> QED
      BY <1>1, <2>1, <2>2 DEF WaitInv, Waits
  <1> QED
    BY <1>2, <1>4, <1>6, <1>7

-------------------------------------------------------------------------------
\* The inductive invariant of the transfer: whatever requests are lost, late,
\* repeated or broken off, and whoever sends them, the stored file is a part of
\* one video, and every tab's offset marks bytes of its own that stay
\* (upload_service.py:31, api.ts:88).
THEOREM UploadInvariance == Spec => []UploadInv
  <1>1. Init => UploadInv
    BY UploadInit
  <1>2. UploadInv /\ [Next]_vars => UploadInv'
    <2> SUFFICES ASSUME UploadInv, [Next]_vars PROVE UploadInv'
      OBVIOUS
    <2>1. CASE \E t \in Tabs : Start(t) \/ Pause(t) \/ Step(t)
      BY <2>1, StartStep, PauseStep, AskStep, VerifyStep, SendStep, RetryStep DEF Step
    <2>2. CASE \E r \in net : Handle(r)
      BY <2>2, BeginChunkStep, RefuseStep, BeginCompleteStep, CompletedStep DEF Handle
    <2>3. CASE Flush \/ EndChunk \/ FailChunk \/ EndComplete \/ Crash
      BY <2>3, FlushStep, EndChunkStep, FailChunkStep, EndCompleteStep, CrashStep
    <2>4. CASE UNCHANGED vars
      BY <2>4 DEF vars, server, UploadInv, TypeOK, StoredInv, TabInv, WaitInv, Agrees, Holds, Firm, Waits
    <2> QED
      BY <2>1, <2>2, <2>3, <2>4 DEF Next
  <1> QED
    BY <1>1, <1>2, PTL DEF Spec

\* A finished session holds one video, whole (upload_service.py:104).
THEOREM WholeVideos == Spec => []ReadyIsWhole
  <1>1. UploadInv => ReadyIsWhole
    <2> SUFFICES ASSUME UploadInv, status = "READY"
                 PROVE  recorded = Size /\ \E f \in Files : stored = Bytes[f]
      BY DEF ReadyIsWhole
    <2>1. PICK f \in Files : Agrees(f, Len(stored))
      BY DEF UploadInv, StoredInv
    <2>2. Len(stored) = Size /\ recorded = Size
      BY DEF UploadInv, StoredInv
    <2>3. stored = [i \in 1..Size |-> stored[i]]
      BY <2>2 DEF UploadInv, TypeOK
    <2>4. Bytes[f] = [i \in 1..Size |-> Bytes[f][i]]
      BY Sizes
    <2>5. \A i \in 1..Size : stored[i] = Bytes[f][i]
      BY <2>1, <2>2 DEF Agrees
    <2>6. stored = Bytes[f]
      BY <2>3, <2>4, <2>5
    <2> QED
      BY <2>2, <2>6
  <1> QED
    BY <1>1, UploadInvariance, PTL

\* The tab whose completion finishes a session has its own video in it
\* (api.ts:88).
THEOREM OwnersFinish == Spec => FinishedByOwner
  <1>1. UploadInv /\ [Next]_vars =>
          [status' # status => \A i \in 1..Size : stored[i] = Bytes[serving.file][i]]_vars
    <2> SUFFICES ASSUME UploadInv, Next, status' # status, NEW i \in 1..Size
                 PROVE  stored[i] = Bytes[serving.file][i]
      OBVIOUS
    <2>1. EndComplete
      BY DEF Next, Start, Pause, Step, Ask, Verify, Send, Retry, Handle, BeginChunk, Refuse, BeginComplete,
             Completed, Flush, EndChunk, FailChunk, Crash, server
    <2>2. serving # Nothing /\ serving.kind = "complete"
      BY <2>1 DEF EndComplete, Serving
    <2>3. serving.offset = Size /\ Size <= Len(stored) /\ Agrees(serving.file, Len(stored))
      BY <2>2 DEF UploadInv, StoredInv
    <2>4. i \in 1..Len(stored)
      BY <2>3, Sizes DEF UploadInv, TypeOK
    <2> QED
      BY <2>3, <2>4 DEF Agrees
  <1> QED
    BY <1>1, UploadInvariance, PTL DEF Spec, FinishedByOwner

\* What a record counts as uploaded is never cut off again
\* (upload_service.py:78).
THEOREM UploadsStay == Spec => UploadedStays
  <1>1. UploadInv /\ UploadInv' /\ [Next]_vars => [Len(stored') >= recorded]_vars
    <2> SUFFICES ASSUME UploadInv, UploadInv', Next PROVE Len(stored') >= recorded
      OBVIOUS
    <2>1. recorded <= Len(stored) /\ recorded \in Nat /\ Len(stored) \in Nat
      BY Sizes DEF UploadInv, StoredInv, Firm, TypeOK, Requests
    <2>2. recorded' = recorded \/ stored' = stored
      BY DEF Next, Start, Pause, Step, Ask, Verify, Send, Retry, Handle, BeginChunk, Refuse, BeginComplete,
             Completed, Flush, EndChunk, FailChunk, EndComplete, Crash, server
    <2>3. recorded' <= Len(stored') /\ Len(stored') \in Nat /\ recorded' \in Nat
      BY Sizes DEF UploadInv, StoredInv, Firm, TypeOK, Requests
    <2> QED
      BY <2>1, <2>2, <2>3
  <1> QED
    BY <1>1, UploadInvariance, PTL DEF Spec, UploadedStays

-------------------------------------------------------------------------------
(***************************************************************************)
(* Accounts and sessions                                                   *)
(***************************************************************************)
\* Among sessions there is an oldest one.
LEMMA Oldest ==
    ASSUME NEW S \in SUBSET Nat, S # {}
    PROVE  \E x \in S : \A y \in S : x <= y
  <1>1. \E x \in S : \A y \in S : ~ (<<y, x>> \in OpToRel(<,Nat))
    BY WFMin, NatLessThanWellFounded
  <1>2. \A x, y \in S : y < x => <<y, x>> \in OpToRel(<,Nat)
    <2> SUFFICES ASSUME NEW x \in S, NEW y \in S, y < x PROVE <<y, x>> \in OpToRel(<,Nat)
      OBVIOUS
    <2>1. <<y, x>> \in Nat \X Nat /\ <<y,x>>[1] < <<y,x>>[2]
      OBVIOUS
    <2> QED
      BY <2>1, Zenon DEF OpToRel
  <1>3. PICK x \in S : \A y \in S : ~ (<<y, x>> \in OpToRel(<,Nat))
    BY <1>1
  <1>4. \A y \in S : ~ (y < x)
    BY <1>2, <1>3
  <1>5. \A y \in S : x <= y
    BY <1>4
  <1> QED
    BY <1>5

\* The sessions of a user are a finite set of numbers that have been issued.
LEMMA OfUser ==
    ASSUME SessionTypes, NEW u
    PROVE  /\ Of(u) \in SUBSET Nat /\ IsFiniteSet(Of(u)) /\ Cardinality(Of(u)) \in Nat
           /\ \A s \in Of(u) : s <= issued
           /\ issued \in Nat
  <1>1. issued \in Nat /\ Of(u) \in SUBSET (1..issued)
    <2>1. issued \in Nat /\ live \subseteq 1..issued
      BY SessionBounds DEF SessionTypes, Created
    <2> QED
      BY <2>1 DEF Of
  <1>2. IsFiniteSet(1..issued)
    BY <1>1, FS_Interval
  <1>3. IsFiniteSet(Of(u))
    BY <1>1, <1>2, FS_Subset
  <1>4. Cardinality(Of(u)) \in Nat
    BY <1>3, FS_CardinalityType
  <1> QED
    BY <1>1, <1>3, <1>4

\* With as many sessions as are kept, those above s and a new one are too many just
\* for the oldest s.
LEMMA Above ==
    ASSUME SessionTypes, NEW u, NEW s \in Of(u), NEW n, n = issued + 1
    PROVE  LET A == {r \in Of(u) \cup {n} : r > s} IN
           /\ IsFiniteSet(A) /\ Cardinality(A) \in Nat
           /\ Cardinality(A) <= Cardinality(Of(u))
           /\ (\A r \in Of(u) : s <= r) => A = (Of(u) \ {s}) \cup {n} /\ Cardinality(A) = Cardinality(Of(u))
           /\ Cardinality(A) = Cardinality(Of(u)) => A = (Of(u) \ {s}) \cup {n}
  <1> DEFINE A == {r \in Of(u) \cup {n} : r > s}
             B == (Of(u) \ {s}) \cup {n}
  <1>1. /\ Of(u) \in SUBSET Nat /\ IsFiniteSet(Of(u)) /\ Cardinality(Of(u)) \in Nat
        /\ \A r \in Of(u) : r <= issued
        /\ issued \in Nat
    BY OfUser
  <1>2. n \notin Of(u) /\ n > s /\ s \in Nat
    BY <1>1
  <1>3. IsFiniteSet(Of(u) \ {s}) /\ Cardinality(Of(u) \ {s}) = Cardinality(Of(u)) - 1
    BY <1>1, FS_RemoveElement
  <1>4. n \notin Of(u) \ {s}
    BY <1>2
  <1>5. IsFiniteSet(B) /\ Cardinality(B) = Cardinality(Of(u))
    <2> DEFINE C == Of(u) \ {s}
    <2> HIDE DEF C
    <2>1. IsFiniteSet(C) /\ Cardinality(C) = Cardinality(Of(u)) - 1 /\ n \notin C
      BY <1>3, <1>4 DEF C
    <2>2. IsFiniteSet(C \cup {n}) /\ Cardinality(C \cup {n}) = Cardinality(C) + 1
      BY <2>1, FS_AddElement
    <2>3. Cardinality(C \cup {n}) = Cardinality(Of(u))
      BY <1>1, <2>1, <2>2
    <2> QED
      BY <2>2, <2>3 DEF C
  <1>6. A \in SUBSET B
    BY <1>1, <1>2
  <1>7. IsFiniteSet(A) /\ Cardinality(A) <= Cardinality(B) /\ (Cardinality(B) = Cardinality(A) => B = A)
    BY <1>5, <1>6, FS_Subset
  <1>8. Cardinality(A) \in Nat
    BY <1>7, FS_CardinalityType
  <1>9. (\A r \in Of(u) : s <= r) => A = B
    BY <1>1, <1>2
  <1> QED
    BY <1>5, <1>7, <1>8, <1>9

Later(S, s) == {r \in S : r > s}

\* What a login leaves of the earlier sessions.
LEMMA Remain ==
    ASSUME SessionTypes, NEW u, Cardinality(Of(u)) <= Kept, NEW n, n = issued + 1
    PROVE  /\ IsFiniteSet(Of(u) \ Surplus(u, n))
           /\ Cardinality(Of(u) \ Surplus(u, n)) \in Nat
           /\ Cardinality(Of(u) \ Surplus(u, n)) < Kept
           /\ \A s \in Surplus(u, n) : Cardinality(Later((Of(u) \ Surplus(u, n)) \cup {n}, s)) >= Kept
  <1> DEFINE S == Of(u) \ Surplus(u, n)
  <1>1. /\ Of(u) \in SUBSET Nat /\ IsFiniteSet(Of(u)) /\ Cardinality(Of(u)) \in Nat
        /\ \A r \in Of(u) : r <= issued
        /\ issued \in Nat
    BY OfUser
  <1>2. IsFiniteSet(S) /\ Cardinality(S) <= Cardinality(Of(u))
    BY <1>1, FS_Subset, S \in SUBSET Of(u)
  <1>3. Cardinality(S) \in Nat
    BY <1>2, FS_CardinalityType
  <1>4. Cardinality(S) < Kept
    <2>1. CASE Cardinality(Of(u)) < Kept
      BY <1>1, <1>2, <1>3, <2>1, SessionBounds
    <2>2. CASE Cardinality(Of(u)) = Kept
      <3>1. Of(u) # {}
        BY <2>2, FS_EmptySet, SessionBounds
      <3>2. PICK s \in Of(u) : \A r \in Of(u) : s <= r
        BY <1>1, <3>1, Oldest
      <3>3. Cardinality({r \in Of(u) \cup {n} : r > s}) = Kept
        BY <2>2, <3>2, Above
      <3>4. s \in Surplus(u, n)
        BY <3>3, SessionBounds DEF Surplus
      <3>5. S \in SUBSET (Of(u) \ {s})
        BY <3>4
      <3>6. IsFiniteSet(Of(u) \ {s}) /\ Cardinality(Of(u) \ {s}) = Kept - 1
        BY <1>1, <2>2, FS_RemoveElement
      <3>7. Cardinality(S) <= Kept - 1
        BY <3>5, <3>6, FS_Subset
      <3> QED
        BY <1>3, <3>7, SessionBounds
    <2> QED
      BY <1>1, <2>1, <2>2, SessionBounds
  <1>5. ASSUME NEW s \in Surplus(u, n) PROVE Cardinality(Later(S \cup {n}, s)) >= Kept
    <2> DEFINE A(q) == {r \in Of(u) \cup {n} : r > q}
    <2>1. s \in Of(u) /\ Cardinality(A(s)) >= Kept
      BY <1>5 DEF Surplus
    <2>2. Cardinality(A(s)) \in Nat /\ Cardinality(A(s)) <= Cardinality(Of(u))
      BY <2>1, Above
    <2>3. Cardinality(A(s)) = Kept /\ Cardinality(A(s)) = Cardinality(Of(u))
      BY <1>1, <2>1, <2>2, SessionBounds
    <2>4. A(s) = (Of(u) \ {s}) \cup {n}
      BY <2>1, <2>3, Above
    <2>5. ASSUME NEW q \in Of(u), q # s PROVE q \in S
      <3>1. /\ IsFiniteSet(A(q)) /\ Cardinality(A(q)) \in Nat
            /\ Cardinality(A(q)) <= Cardinality(Of(u))
            /\ Cardinality(A(q)) = Cardinality(Of(u)) => A(q) = (Of(u) \ {q}) \cup {n}
        BY Above
      <3>2. q > s
        BY <2>4, <2>5
      <3>3. s \notin A(q) /\ s # n
        BY <1>1, <2>1, <3>2
      <3>4. Cardinality(A(q)) # Cardinality(Of(u))
        BY <2>1, <2>5, <3>1, <3>3
      <3>5. ~ (Cardinality(A(q)) >= Kept)
        BY <1>1, <2>3, <3>1, <3>4
      <3> QED
        BY <3>5 DEF Surplus
    <2>6. Later(S \cup {n}, s) = A(s)
      <3>1. A(s) \subseteq S \cup {n}
        BY <2>4, <2>5
      <3> QED
        BY <3>1 DEF Later
    <2> QED
      BY <2>3, <2>6, SessionBounds
  <1> QED
    BY <1>2, <1>3, <1>4, <1>5

\* In the beginning nobody has logged in.
LEMMA SessionsStart == SessionsInit => SessionsSound
  <1> SUFFICES ASSUME SessionsInit PROVE SessionsSound
    OBVIOUS
  <1>1. SessionTypes
    BY SessionBounds DEF SessionsInit, SessionTypes, Created, Known, Ids
  <1>2. ASSUME NEW t \in Windows PROVE WindowInv(t)
    BY <1>2 DEF SessionsInit, WindowInv, ShowsUser, Asks, Polling
  <1>3. ASSUME NEW u \in Users PROVE Cardinality(Of(u)) <= Kept
    <2>1. Of(u) = {}
      BY DEF SessionsInit, Of
    <2> QED
      BY <2>1, FS_EmptySet, SessionBounds
  <1>4. CurrentPassword
    BY DEF SessionsInit, CurrentPassword
  <1> QED
    BY <1>1, <1>2, <1>3, <1>4 DEF SessionsSound, SessionsInv

\* A step of one window.
LEMMA OneWindow ==
    ASSUME SessionsSound, UNCHANGED store, cookie' \in Known,
           shown' \in [Windows -> Users \cup {None, "unknown"}], token' \in [Windows -> Known],
           auth' \in [Windows -> AuthRequests \cup {None}],
           work' \in [Windows -> [Polls -> WorkRequests \cup {None}]],
           NEW t \in Windows, WindowInv(t)',
           \A w \in Windows \ {t} : /\ shown'[w] = shown[w] /\ token'[w] = token[w]
                                    /\ auth'[w] = auth[w] /\ work'[w] = work[w]
    PROVE  SessionsSound'
  <1>1. SessionTypes'
    BY DEF SessionsSound, SessionsInv, SessionTypes, store, Created, Known, AuthRequests, WorkRequests
  <1>2. ASSUME NEW w \in Windows PROVE WindowInv(w)'
    <2>1. CASE w = t
      BY <2>1
    <2>2. CASE w # t
      BY <1>2, <2>2 DEF SessionsSound, SessionsInv, WindowInv, ShowsUser, Asks, Polling, store
    <2> QED
      BY <2>1, <2>2
  <1>3. ASSUME NEW u \in Users PROVE Cardinality(Of(u)') <= Kept
    <2>1. Of(u)' = Of(u)
      BY DEF Of, store
    <2> QED
      BY <2>1 DEF SessionsSound, SessionsInv
  <1>4. CurrentPassword'
    BY DEF SessionsSound, CurrentPassword, store
  <1> QED
    BY <1>1, <1>2, <1>3, <1>4 DEF SessionsSound, SessionsInv

\* A window asks, or is answered by the server.
LEMMA AuthMoves ==
    ASSUME SessionsSound, NEW t \in Windows, NEW r \in AuthRequests \cup {None},
           r # None => /\ r.kind = "login" => r.user \in Users
                       /\ r.kind = "check" => token[t] = None
                       /\ r.at = "verified" => r.kind = "login",
           auth' = [auth EXCEPT ![t] = r], UNCHANGED <<store, cookie, page, work>>
    PROVE  SessionsSound'
  <1>1. SessionTypes /\ WindowInv(t)
    BY DEF SessionsSound, SessionsInv
  <1>2. auth' \in [Windows -> AuthRequests \cup {None}] /\ auth'[t] = r
    BY <1>1 DEF SessionTypes
  <1>3. WindowInv(t)'
    BY <1>1, <1>2 DEF WindowInv, ShowsUser, Asks, Polling, store, page
  <1> QED
    BY <1>1, <1>2, <1>3, OneWindow DEF SessionTypes, page

\* What is known of a request for the session before it is served.
LEMMA AuthKnown ==
    ASSUME SessionsSound, NEW t \in Windows, auth[t] # None
    PROVE  /\ auth[t] \in AuthRequests
           /\ auth[t].kind = "login" => auth[t].user \in Users
           /\ auth[t].kind = "check" => token[t] = None
  BY DEF SessionsSound, SessionsInv, SessionTypes, WindowInv, Asks

\* One lemma for each step of server and windows.
LEMMA VerifyPasswordStep == ASSUME SessionsSound, NEW t \in Windows, VerifyPassword(t) PROVE SessionsSound'
  <1>1. PICK at \in {"refused", "verified"} : auth' = [auth EXCEPT ![t].at = at]
    BY Zenon DEF VerifyPassword
  <1>2. auth[t] # None /\ auth[t].kind = "login" /\ UNCHANGED <<store, cookie, page, work>>
    BY DEF VerifyPassword
  <1> DEFINE r == [auth[t] EXCEPT !.at = at]
  <1>3. r \in AuthRequests /\ r.kind = "login" /\ r.user \in Users
    BY <1>2, AuthKnown DEF AuthRequests
  <1> QED
    BY <1>1, <1>2, <1>3, AuthMoves

LEMMA ServeCheckStep == ASSUME SessionsSound, NEW t \in Windows, ServeCheck(t) PROVE SessionsSound'
  <1> DEFINE id == IF auth[t].jar \in live THEN auth[t].jar ELSE None
             r == [auth[t] EXCEPT !.at = "granted", !.id = id]
  <1>1. /\ auth[t] # None /\ auth[t].kind = "check" /\ UNCHANGED <<store, cookie, page, work>>
        /\ auth' = [auth EXCEPT ![t] = r]
    BY DEF ServeCheck
  <1>2. id \in Known
    BY DEF SessionsSound, SessionsInv, SessionTypes, Known
  <1>3. r \in AuthRequests /\ r.kind = "check" /\ r.at = "granted" /\ token[t] = None
    BY <1>1, <1>2, AuthKnown DEF AuthRequests
  <1> QED
    BY <1>1, <1>3, AuthMoves

LEMMA LoginStep == ASSUME SessionsSound, NEW t \in Windows, NEW u \in Users, Login(t, u) PROVE SessionsSound'
  <1> DEFINE r == Request("login", u, password[u], None, None)
  <1>1. r \in AuthRequests /\ r.kind = "login" /\ r.user = u
    BY DEF Request, AuthRequests, Known, SessionsSound, SessionsInv, SessionTypes
  <1> QED
    BY <1>1, AuthMoves DEF Login

LEMMA LogoutStep == ASSUME SessionsSound, NEW t \in Windows, Logout(t) PROVE SessionsSound'
  <1> DEFINE r == Request("logout", None, None, token[t], cookie)
  <1>1. r \in AuthRequests /\ r.kind = "logout" /\ r.at = "sent"
    BY DEF Request, AuthRequests, Known, SessionsSound, SessionsInv, SessionTypes
  <1> QED
    BY <1>1, AuthMoves DEF Logout

LEMMA LoseStep == ASSUME SessionsSound, NEW t \in Windows, Lose(t) PROVE SessionsSound'
  BY AuthMoves DEF Lose

\* A window polls, or its poll is answered.
LEMMA WorkMoves ==
    ASSUME SessionsSound, NEW t \in Windows, NEW p \in Polls, NEW c \in WorkRequests \cup {None},
           c # None => c.as = account[c.token] /\ (c.current => token[t] = c.token),
           work' = [work EXCEPT ![t][p] = c], UNCHANGED <<store, cookie, page, auth>>
    PROVE  SessionsSound'
  <1>1. SessionTypes /\ WindowInv(t)
    BY DEF SessionsSound, SessionsInv
  <1>2. work[t] \in [Polls -> WorkRequests \cup {None}]
    BY <1>1 DEF SessionTypes
  <1>3. [work[t] EXCEPT ![p] = c] \in [Polls -> WorkRequests \cup {None}]
    BY <1>2
  <1>4. /\ work' \in [Windows -> [Polls -> WorkRequests \cup {None}]]
        /\ work'[t][p] = c
        /\ \A q \in Polls \ {p} : work'[t][q] = work[t][q]
        /\ \A w \in Windows \ {t} : work'[w] = work[w]
    BY <1>1, <1>2, <1>3 DEF SessionTypes
  <1>5. ShowsUser(t)' /\ Asks(t)'
    BY <1>1 DEF WindowInv, ShowsUser, Asks, store, page
  <1>6. ASSUME NEW q \in Polls PROVE Polling(t, q)'
    <2>1. CASE q = p
      BY <1>4, <2>1 DEF Polling, store, page
    <2>2. CASE q # p
      BY <1>1, <1>4, <2>2 DEF WindowInv, Polling, store, page
    <2> QED
      BY <2>1, <2>2
  <1>7. WindowInv(t)'
    BY <1>5, <1>6 DEF WindowInv
  <1> QED
    BY <1>1, <1>4, <1>7, OneWindow DEF SessionTypes, page

LEMMA PollStep == ASSUME SessionsSound, NEW t \in Windows, NEW p \in Polls, Poll(t, p) PROVE SessionsSound'
  <1> DEFINE c == [as |-> shown[t], token |-> token[t], jar |-> cookie, current |-> TRUE, reply |-> "none"]
  <1>1. SessionTypes /\ ShowsUser(t)
    BY DEF SessionsSound, SessionsInv, WindowInv
  <1>2. shown[t] \in Users /\ shown[t] # None /\ shown[t] # "unknown"
    BY Apart DEF Poll
  <1>3. token[t] \in Created /\ shown[t] = account[token[t]] /\ cookie \in Known
    BY <1>1, <1>2 DEF ShowsUser, SessionTypes, Known
  <1>4. c \in WorkRequests
    BY <1>2, <1>3 DEF WorkRequests
  <1> QED
    BY <1>3, <1>4, WorkMoves DEF Poll

LEMMA ServeWorkStep == ASSUME SessionsSound, NEW t \in Windows, NEW p \in Polls, ServeWork(t, p) PROVE SessionsSound'
  <1> DEFINE reply == IF Admitted(work[t][p]) THEN "ok" ELSE "refused"
             c == [work[t][p] EXCEPT !.reply = reply]
  <1>1. SessionTypes /\ Polling(t, p)
    BY DEF SessionsSound, SessionsInv, WindowInv
  <1>2. work[t][p] # None /\ work[t][p] \in WorkRequests
    BY <1>1 DEF ServeWork, SessionTypes
  <1>3. /\ c \in WorkRequests
        /\ c.as = work[t][p].as /\ c.token = work[t][p].token /\ c.current = work[t][p].current
    BY <1>2 DEF WorkRequests
  <1>4. c.as = account[c.token] /\ (c.current => token[t] = c.token)
    BY <1>1, <1>2, <1>3 DEF Polling
  <1> QED
    BY <1>3, <1>4, WorkMoves DEF ServeWork

\* The requests of a window whose generation has passed.
LEMMA Outdated ==
    ASSUME SessionsSound, NEW t \in Windows, NEW gone \in SUBSET Polls
    PROVE  LET ws == [q \in Polls |-> IF q \in gone \/ work[t][q] = None THEN None
                                     ELSE [work[t][q] EXCEPT !.current = FALSE]]
           IN  /\ ws \in [Polls -> WorkRequests \cup {None}]
               /\ \A q \in Polls : ws[q] # None => ws[q].as = account[ws[q].token] /\ ~ ws[q].current
  <1> SUFFICES ASSUME NEW q \in Polls, q \notin gone, work[t][q] # None
               PROVE  LET c == [work[t][q] EXCEPT !.current = FALSE]
                      IN  c \in WorkRequests /\ c.as = account[c.token] /\ ~ c.current
    BY Zenon
  <1>1. work[t][q] \in WorkRequests /\ Polling(t, q)
    BY DEF SessionsSound, SessionsInv, SessionTypes, WindowInv
  <1> QED
    BY <1>1 DEF WorkRequests, Polling

\* The window goes over to another session, or to none.
LEMMA Generation ==
    ASSUME SessionsSound, NEW t \in Windows, NEW s \in Known, NEW gone \in SUBSET Polls,
           NEW user \in Users \cup {None, "unknown"},
           s # None => user = account[s], s = None => user \in {None, "unknown"},
           UNCHANGED store, cookie' \in Known,
           token' = [token EXCEPT ![t] = s], shown' = [shown EXCEPT ![t] = user],
           work' = [work EXCEPT ![t] = [q \in Polls |-> IF q \in gone \/ work[t][q] = None THEN None
                                                        ELSE [work[t][q] EXCEPT !.current = FALSE]]],
           NEW r \in AuthRequests \cup {None}, r # None => Asks(t)', auth' = [auth EXCEPT ![t] = r]
    PROVE  SessionsSound'
  <1> DEFINE ws == [q \in Polls |-> IF q \in gone \/ work[t][q] = None THEN None
                                     ELSE [work[t][q] EXCEPT !.current = FALSE]]
  <1>1. /\ ws \in [Polls -> WorkRequests \cup {None}]
        /\ \A q \in Polls : ws[q] # None => ws[q].as = account[ws[q].token] /\ ~ ws[q].current
    BY Outdated
  <1>2. work' = [work EXCEPT ![t] = ws]
    OBVIOUS
  <1> HIDE DEF ws
  <1>3. SessionTypes
    BY DEF SessionsSound, SessionsInv
  <1>4. /\ token' \in [Windows -> Known] /\ shown' \in [Windows -> Users \cup {None, "unknown"}]
        /\ auth' \in [Windows -> AuthRequests \cup {None}]
        /\ token'[t] = s /\ shown'[t] = user /\ auth'[t] = r
    BY <1>3 DEF SessionTypes
  <1>5. work' \in [Windows -> [Polls -> WorkRequests \cup {None}]] /\ work'[t] = ws
    BY <1>1, <1>2, <1>3 DEF SessionTypes
  <1>6. ShowsUser(t)'
    BY <1>4 DEF ShowsUser, store
  <1>7. Asks(t)'
    BY <1>4 DEF Asks
  <1>8. \A p \in Polls : Polling(t, p)'
    BY <1>1, <1>5 DEF Polling, store
  <1>9. WindowInv(t)'
    BY <1>6, <1>7, <1>8 DEF WindowInv
  <1> QED
    BY <1>2, <1>3, <1>4, <1>5, <1>9, OneWindow DEF SessionTypes

LEMMA LoadStep == ASSUME SessionsSound, NEW t \in Windows, Load(t) PROVE SessionsSound'
  <1> DEFINE r == Request("check", None, None, None, cookie)
  <1>1. SessionTypes
    BY DEF SessionsSound, SessionsInv
  <1>2. r \in AuthRequests
    BY <1>1 DEF Request, AuthRequests, Known, SessionTypes
  <1>3. /\ r.kind = "check" /\ r.at = "sent"
        /\ UNCHANGED <<store, cookie>>
        /\ token' = [token EXCEPT ![t] = None] /\ shown' = [shown EXCEPT ![t] = "unknown"]
        /\ auth' = [auth EXCEPT ![t] = r]
    BY DEF Load, Request
  <1>4. work' = [work EXCEPT ![t] = [q \in Polls |-> IF q \in Polls \/ work[t][q] = None THEN None
                                                        ELSE [work[t][q] EXCEPT !.current = FALSE]]]
    BY DEF Load
  <1>5. Asks(t)'
    BY <1>1, <1>3 DEF Asks, SessionTypes
  <1>6. None \in Known /\ cookie' \in Known
    BY <1>1, <1>3 DEF Known, SessionTypes
  <1> QED
    BY <1>2, <1>3, <1>4, <1>5, <1>6, Generation

LEMMA AnswerStep == ASSUME SessionsSound, NEW t \in Windows, Answer(t) PROVE SessionsSound'
  <1> USE DEF Answer
  <1>1. SessionTypes
    BY DEF SessionsSound, SessionsInv
  <1>2. auth[t] # None /\ auth' = [auth EXCEPT ![t] = None] /\ UNCHANGED store
    OBVIOUS
  <1>3. auth[t].id \in Known /\ None \in Known /\ cookie \in Known
    BY <1>1, <1>2 DEF SessionTypes, AuthRequests, Known
  <1>4. ASSUME NEW s \in Known, Accept(t, s), cookie' \in Known PROVE SessionsSound'
    <2> DEFINE user == IF s = None THEN None ELSE account[s]
    <2>1. user \in Users \cup {None}
      BY <1>1 DEF SessionTypes, Known
    <2>2. /\ token' = [token EXCEPT ![t] = s] /\ shown' = [shown EXCEPT ![t] = user]
          /\ work' = [work EXCEPT ![t] = [q \in Polls |-> IF q \in {} \/ work[t][q] = None THEN None
                                                          ELSE [work[t][q] EXCEPT !.current = FALSE]]]
      BY <1>4 DEF Accept, SetCsrfToken
    <2>3. s # None => user = account[s]
      OBVIOUS
    <2>4. s = None => user \in {None, "unknown"}
      OBVIOUS
    <2>5. {} \in SUBSET Polls /\ None \in AuthRequests \cup {None}
      OBVIOUS
    <2> HIDE DEF user
    <2> QED
      BY <1>2, <1>4, <2>1, <2>2, <2>3, <2>4, <2>5, Generation
  <1>5. CASE auth[t].kind = "login" /\ auth[t].at = "granted"
    BY <1>3, <1>4, <1>5
  <1>6. CASE auth[t].kind = "login" /\ auth[t].at = "refused"
    BY <1>2, <1>6, AuthMoves
  <1>7. CASE auth[t].kind = "logout"
    <2>1. cookie' \in Known /\ Accept(t, None)
      BY <1>3, <1>7
    <2> QED
      BY <1>3, <1>4, <2>1
  <1>8. CASE auth[t].kind = "check"
    BY <1>3, <1>4, <1>8
  <1> QED
    BY <1>5, <1>6, <1>7, <1>8

LEMMA AnswerWorkStep == ASSUME SessionsSound, NEW t \in Windows, NEW p \in Polls, AnswerWork(t, p) PROVE SessionsSound'
  <1>1. UNCHANGED <<store, cookie, auth>> /\ SessionTypes
    BY DEF AnswerWork, SessionsSound, SessionsInv
  <1>2. CASE Done(t, p)
    BY <1>1, <1>2, WorkMoves DEF Done
  <1>3. CASE Dismiss(t, p) /\ token[t] # None
    <2>1. /\ token' = [token EXCEPT ![t] = None] /\ shown' = [shown EXCEPT ![t] = None]
          /\ work' = [work EXCEPT ![t] = [q \in Polls |-> IF q \in {p} \/ work[t][q] = None THEN None
                                                          ELSE [work[t][q] EXCEPT !.current = FALSE]]]
      BY <1>3 DEF Dismiss
    <2>2. auth' = [auth EXCEPT ![t] = auth[t]] /\ auth[t] \in AuthRequests \cup {None}
      BY <1>1 DEF SessionTypes
    <2>3. auth[t] # None => Asks(t)'
      BY <1>1, <1>3, <2>1 DEF SessionsSound, SessionsInv, WindowInv, Asks, SessionTypes
    <2>4. None \in Known /\ cookie' \in Known
      BY <1>1 DEF Known, SessionTypes
    <2>5. {p} \in SUBSET Polls /\ None \in Users \cup {None, "unknown"}
      OBVIOUS
    <2> QED
      BY <1>1, <2>1, <2>2, <2>3, <2>4, <2>5, Generation
  <1> QED
    BY <1>2, <1>3 DEF AnswerWork

\* Sessions end, and nothing else changes but what a request has been answered.
LEMMA Fewer ==
    ASSUME SessionsSound, live' \subseteq live, UNCHANGED <<issued, account, version, cookie, page, work>>,
           password' \in [Users -> 0..MaxResets],
           \A s \in live' : password'[account[s]] = password[account[s]],
           auth' \in [Windows -> AuthRequests \cup {None}],
           \A t \in Windows : Asks(t)'
    PROVE  SessionsSound'
  <1>1. SessionTypes
    BY DEF SessionsSound, SessionsInv
  <1>2. SessionTypes'
    BY <1>1 DEF SessionTypes, page, Created, Known, AuthRequests, WorkRequests
  <1>3. ASSUME NEW t \in Windows PROVE WindowInv(t)'
    BY <1>3 DEF SessionsSound, SessionsInv, WindowInv, ShowsUser, Polling, page
  <1>4. ASSUME NEW u \in Users PROVE Cardinality(Of(u)') <= Kept
    <2>1. Of(u)' \in SUBSET Of(u)
      BY DEF Of
    <2>2. IsFiniteSet(Of(u)) /\ Cardinality(Of(u)) \in Nat /\ Cardinality(Of(u)) <= Kept
      BY <1>1, OfUser DEF SessionsSound, SessionsInv
    <2>3. IsFiniteSet(Of(u)') /\ Cardinality(Of(u)') <= Cardinality(Of(u))
      BY <2>1, <2>2, FS_Subset
    <2>4. Cardinality(Of(u)') \in Nat
      BY <2>3, FS_CardinalityType
    <2> QED
      BY <2>2, <2>3, <2>4, SessionBounds
  <1>5. CurrentPassword'
    BY DEF SessionsSound, CurrentPassword
  <1> QED
    BY <1>2, <1>3, <1>4, <1>5 DEF SessionsSound, SessionsInv

LEMMA ResetStep == ASSUME SessionsSound, NEW u \in Users, Reset(u) PROVE SessionsSound'
  <1>1. SessionTypes
    BY DEF SessionsSound, SessionsInv
  <1>2. password[u] \in 0..MaxResets /\ password[u] < MaxResets
    BY <1>1 DEF Reset, SessionTypes
  <1>3. password[u] + 1 \in 0..MaxResets
    BY <1>2, SessionBounds
  <1>4. password' = [password EXCEPT ![u] = password[u] + 1] /\ live' = live \ Of(u)
    BY DEF Reset
  <1>5. password' \in [Users -> 0..MaxResets]
    BY <1>1, <1>3, <1>4 DEF SessionTypes
  <1>6. \A s \in live' : account[s] \in Users /\ account[s] # u
    BY <1>1, <1>4 DEF SessionTypes, Of
  <1>7. \A s \in live' : password'[account[s]] = password[account[s]]
    BY <1>1, <1>4, <1>6 DEF SessionTypes
  <1>8. \A t \in Windows : Asks(t)'
    BY DEF Reset, SessionsSound, SessionsInv, WindowInv, Asks, page
  <1> QED
    BY <1>1, <1>4, <1>5, <1>7, <1>8, Fewer DEF Reset, SessionTypes

LEMMA ExpireStep == ASSUME SessionsSound, Expire PROVE SessionsSound'
  <1>1. SessionTypes /\ live' \subseteq live
    BY DEF SessionsSound, SessionsInv, Expire
  <1>2. \A t \in Windows : Asks(t)'
    BY DEF Expire, SessionsSound, SessionsInv, WindowInv, Asks, page
  <1> QED
    BY <1>1, <1>2, Fewer DEF Expire, SessionTypes

LEMMA ServeLogoutStep == ASSUME SessionsSound, NEW t \in Windows, ServeLogout(t) PROVE SessionsSound'
  <1> DEFINE at == IF Admitted(auth[t]) THEN "granted" ELSE "refused"
             r == [auth[t] EXCEPT !.at = at]
  <1>1. SessionTypes /\ live' \subseteq live
    BY DEF SessionsSound, SessionsInv, ServeLogout
  <1>2. auth[t] # None /\ auth[t].kind = "logout" /\ auth' = [auth EXCEPT ![t] = r]
    BY DEF ServeLogout
  <1>3. r \in AuthRequests /\ r.kind = "logout" /\ r.at # "verified"
    BY <1>2, AuthKnown DEF AuthRequests
  <1>4. auth' \in [Windows -> AuthRequests \cup {None}]
    BY <1>1, <1>2, <1>3 DEF SessionTypes
  <1>5. ASSUME NEW w \in Windows PROVE Asks(w)'
    <2>1. CASE w = t
      BY <1>1, <1>2, <1>3, <2>1 DEF Asks, SessionTypes
    <2>2. CASE w # t
      BY <1>1, <1>2, <2>2 DEF ServeLogout, SessionsSound, SessionsInv, WindowInv, Asks, SessionTypes, page
    <2> QED
      BY <2>1, <2>2
  <1> QED
    BY <1>1, <1>4, <1>5, Fewer DEF ServeLogout, SessionTypes

\* The session that a login opens.
LEMMA Opened ==
    ASSUME SessionsSound, NEW t \in Windows, auth[t] # None, auth[t].kind = "login",
           NEW u, u = auth[t].user, NEW n, n = issued + 1, Open(t)
    PROVE  /\ n \in Ids /\ n \notin Created /\ u \in Users
           /\ issued' = n /\ Created' = Created \cup {n}
           /\ account' = [account EXCEPT ![n] = u] /\ account'[n] = u
           /\ \A s \in Created : s \in Ids /\ account'[s] = account[s] /\ version'[s] = version[s]
           /\ live' = (live \ Surplus(u, n)) \cup {n}
           /\ Of(u)' = (Of(u) \ Surplus(u, n)) \cup {n}
           /\ \A v \in Users \ {u} : Of(v)' = Of(v)
  <1>1. SessionTypes /\ u \in Users
    BY AuthKnown DEF SessionsSound, SessionsInv
  <1>2. issued \in Nat /\ issued < MaxSessions /\ issued' = n
    BY <1>1, SessionBounds DEF Open, SessionTypes
  <1>3. n \in Ids /\ n \notin Created /\ Created \subseteq Ids /\ Created' = Created \cup {n}
    BY <1>2, SessionBounds DEF Ids, Created
  <1>4. account' = [account EXCEPT ![n] = u] /\ version' = [version EXCEPT ![n] = auth[t].secret]
    BY <1>2 DEF Open
  <1>5. account'[n] = u /\ \A s \in Created : account'[s] = account[s] /\ version'[s] = version[s]
    BY <1>1, <1>3, <1>4 DEF SessionTypes
  <1>6. live' = (live \ Surplus(u, n)) \cup {n}
    BY <1>2 DEF Open
  <1>7. live \subseteq Created /\ n \notin live
    BY <1>1, <1>3 DEF SessionTypes
  <1>8. Of(u)' = (Of(u) \ Surplus(u, n)) \cup {n}
    BY <1>5, <1>6, <1>7 DEF Of
  <1>9. \A v \in Users \ {u} : Of(v)' = Of(v)
    <2>1. Surplus(u, n) \subseteq Of(u)
      BY DEF Surplus
    <2> QED
      BY <1>5, <1>6, <1>7, <2>1 DEF Of
  <1> QED
    BY <1>1, <1>2, <1>3, <1>4, <1>5, <1>6, <1>8, <1>9

LEMMA CommitStep == ASSUME SessionsSound, NEW t \in Windows, Commit(t) PROVE SessionsSound'
  <1>1. SessionTypes
    BY DEF SessionsSound, SessionsInv
  <1>2. /\ auth[t] # None /\ auth[t].at = "verified" /\ auth[t].kind = "login"
        /\ auth[t] \in AuthRequests /\ auth[t].user \in Users
        /\ UNCHANGED <<password, cookie, page, work>>
    BY AuthKnown DEF Commit, SessionsSound, SessionsInv, WindowInv, Asks
  <1>3. CASE auth[t].secret # password[auth[t].user]
    <2> DEFINE r == [auth[t] EXCEPT !.at = "refused"]
    <2>1. r \in AuthRequests /\ r.kind = "login" /\ r.user \in Users /\ r.at = "refused"
      BY <1>2 DEF AuthRequests
    <2>2. auth' = [auth EXCEPT ![t] = r] /\ UNCHANGED store
      BY <1>2, <1>3 DEF Commit, store
    <2> QED
      BY <1>2, <2>1, <2>2, AuthMoves
  <1>4. CASE Open(t) /\ auth[t].secret = password[auth[t].user]
    <2>1. PICK u, n : u = auth[t].user /\ n = issued + 1
      OBVIOUS
    <2>2. /\ n \in Ids /\ n \notin Created /\ u \in Users
          /\ issued' = n /\ Created' = Created \cup {n}
          /\ account' = [account EXCEPT ![n] = u] /\ account'[n] = u
          /\ \A s \in Created : s \in Ids /\ account'[s] = account[s] /\ version'[s] = version[s]
          /\ live' = (live \ Surplus(u, n)) \cup {n}
          /\ Of(u)' = (Of(u) \ Surplus(u, n)) \cup {n}
          /\ \A v \in Users \ {u} : Of(v)' = Of(v)
      BY <1>2, <1>4, <2>1, Opened
    <2>3. /\ auth[t].secret \in 0..MaxResets /\ version' = [version EXCEPT ![n] = auth[t].secret]
          /\ version'[n] = password[u]
      BY <1>1, <1>2, <1>4, <2>1, <2>2 DEF Open, SessionTypes
    <2> DEFINE r == [auth[t] EXCEPT !.at = "granted", !.id = n]
    <2>4. Known \subseteq Known' /\ n \in Known' /\ AuthRequests \subseteq AuthRequests' /\ WorkRequests \subseteq WorkRequests'
      BY <2>2 DEF Known, AuthRequests, WorkRequests
    <2>5. auth' = [auth EXCEPT ![t] = r]
      BY <1>4, <2>2 DEF Open
    <2>6. r \in AuthRequests' /\ r.kind = "login" /\ r.user = u /\ r.at = "granted"
      BY <1>2, <2>1, <2>4 DEF AuthRequests
    <2> HIDE DEF r
    <2>7. auth' \in [Windows -> AuthRequests' \cup {None}]
      BY <1>1, <2>4, <2>5, <2>6 DEF SessionTypes
    <2>8. SessionTypes'
      <3>1. password' \in [Users -> 0..MaxResets] /\ issued' \in 0..MaxSessions
        BY <1>1, <1>2, <2>2, SessionBounds DEF SessionTypes, Ids
      <3>2. account' \in [Ids -> Users \cup {None}] /\ version' \in [Ids -> 0..MaxResets \cup {None}]
        BY <1>1, <2>2, <2>3 DEF SessionTypes
      <3>3. (\A s \in Created : account[s] \in Users)' /\ live' \subseteq Created'
        BY <1>1, <2>2 DEF SessionTypes
      <3>4. /\ cookie' \in Known' /\ shown' \in [Windows -> Users \cup {None, "unknown"}]
            /\ token' \in [Windows -> Known']
        BY <1>1, <1>2, <2>4 DEF SessionTypes, page
      <3>5. work' \in [Windows -> [Polls -> WorkRequests' \cup {None}]]
        BY <1>1, <1>2, <2>4 DEF SessionTypes
      <3> QED
        BY <2>7, <3>1, <3>2, <3>3, <3>4, <3>5 DEF SessionTypes
    <2>9. ASSUME NEW w \in Windows PROVE WindowInv(w)'
      <3>1. WindowInv(w)
        BY DEF SessionsSound, SessionsInv
      <3>2. ShowsUser(w)'
        BY <1>1, <1>2, <2>2, <3>1 DEF WindowInv, ShowsUser, page, SessionTypes, Known
      <3>3. Asks(w)'
        <4>1. CASE w = t
          BY <1>1, <2>2, <2>5, <2>6, <4>1 DEF Asks, SessionTypes
        <4>2. CASE w # t
          BY <1>1, <1>2, <2>5, <3>1, <4>2 DEF WindowInv, Asks, SessionTypes, page
        <4> QED
          BY <4>1, <4>2
      <3>4. ASSUME NEW p \in Polls PROVE Polling(w, p)'
        <4>1. work[w][p] # None => work[w][p].token \in Created
          BY <1>1 DEF SessionTypes, WorkRequests
        <4> QED
          BY <1>2, <2>2, <3>1, <4>1 DEF WindowInv, Polling, page
      <3> QED
        BY <3>2, <3>3, <3>4 DEF WindowInv
    <2>10. ASSUME NEW v \in Users PROVE Cardinality(Of(v)') <= Kept
      <3>1. Cardinality(Of(v)) <= Kept
        BY DEF SessionsSound, SessionsInv
      <3>2. CASE v = u
        <4> DEFINE S == Of(u) \ Surplus(u, n)
        <4>1. IsFiniteSet(S) /\ Cardinality(S) \in Nat /\ Cardinality(S) < Kept
          BY <1>1, <2>1, <3>1, <3>2, Remain
        <4> HIDE DEF S
        <4>2. IsFiniteSet(S \cup {n}) /\ Cardinality(S \cup {n}) <= Cardinality(S) + 1 /\ Cardinality(S \cup {n}) \in Nat
          BY <4>1, FS_AddElement
        <4>3. Of(u)' = S \cup {n}
          BY <2>2 DEF S
        <4>4. Cardinality(Of(u)') <= Kept
          BY <4>1, <4>2, <4>3, SessionBounds
        <4> QED
          BY <3>2, <4>4
      <3>3. CASE v # u
        BY <2>2, <3>1, <3>3
      <3> QED
        BY <3>2, <3>3
    <2>11. CurrentPassword'
      <3> SUFFICES ASSUME NEW s \in live' PROVE version'[s] = password'[account'[s]]
        BY DEF CurrentPassword
      <3>1. CASE s = n
        BY <1>2, <2>2, <2>3, <3>1
      <3>2. CASE s # n
        <4>1. s \in live /\ s \in Created
          BY <1>1, <2>2, <3>2 DEF SessionTypes
        <4> QED
          BY <1>2, <2>2, <4>1 DEF SessionsSound, CurrentPassword
      <3> QED
        BY <3>1, <3>2
    <2> QED
      BY <2>8, <2>9, <2>10, <2>11 DEF SessionsSound, SessionsInv
  <1> QED
    BY <1>3, <1>4 DEF Commit

\* Every step keeps the invariant.
LEMMA SessionsStep == SessionsSound /\ [SessionsNext]_sessionVars => SessionsSound'
  <1> SUFFICES ASSUME SessionsSound, [SessionsNext]_sessionVars PROVE SessionsSound'
    OBVIOUS
  <1>1. ASSUME NEW u \in Users, Reset(u) PROVE SessionsSound'
    BY <1>1, ResetStep
  <1>2. CASE Expire
    BY <1>2, ExpireStep
  <1>3. ASSUME NEW t \in Windows,
               VerifyPassword(t) \/ Commit(t) \/ ServeCheck(t) \/ ServeLogout(t) \/ Load(t) \/ Logout(t) \/ Answer(t) \/ Lose(t)
        PROVE  SessionsSound'
    BY <1>3, VerifyPasswordStep, CommitStep, ServeCheckStep, ServeLogoutStep, LoadStep, LogoutStep, AnswerStep, LoseStep
  <1>4. ASSUME NEW t \in Windows, NEW u \in Users, Login(t, u) PROVE SessionsSound'
    BY <1>4, LoginStep
  <1>5. ASSUME NEW t \in Windows, NEW p \in Polls, Poll(t, p) \/ ServeWork(t, p) \/ AnswerWork(t, p) PROVE SessionsSound'
    BY <1>5, PollStep, ServeWorkStep, AnswerWorkStep
  <1>6. CASE UNCHANGED sessionVars
    BY <1>6 DEF sessionVars, store, page, SessionsSound, SessionsInv, SessionTypes, Created, Known, AuthRequests, WorkRequests,
                WindowInv, ShowsUser, Asks, Polling, Of, CurrentPassword
  <1> QED
    BY <1>1, <1>2, <1>3, <1>4, <1>5, <1>6 DEF SessionsNext

\* What windows show is the user of their session, a user has no more sessions than
\* are kept, and no session outlives the password it was opened with (auth.py:91-134).
THEOREM SessionsInvariance == SessionsSpec => []SessionsSound
  BY SessionsStart, SessionsStep, PTL DEF SessionsSpec

\* A poll gets its answer when it is served, and at no other time.
LEMMA AnsweredOnce ==
    ASSUME SessionsSound, [SessionsNext]_sessionVars, NEW t \in Windows, NEW p \in Polls,
           work[t][p] # None, work'[t][p] # None, work'[t][p].reply # work[t][p].reply
    PROVE  ServeWork(t, p)
  <1>1. /\ work \in [Windows -> [Polls -> WorkRequests \cup {None}]]
        /\ work[t] \in [Polls -> WorkRequests \cup {None}]
        /\ work[t][p] \in WorkRequests
    BY DEF SessionsSound, SessionsInv, SessionTypes
  <1>2. [work[t][p] EXCEPT !.current = FALSE].reply = work[t][p].reply
    BY <1>1 DEF WorkRequests
  <1>3. work'[t][p] # work[t][p]
    OBVIOUS
  <1>4. ASSUME NEW w \in Windows, NEW ws, work' = [work EXCEPT ![w] = ws]
        PROVE  w = t /\ work'[t] = ws
    BY <1>1, <1>3, <1>4
  <1>5. ASSUME NEW w \in Windows, NEW q \in Polls, NEW c, work' = [work EXCEPT ![w][q] = c]
        PROVE  w = t /\ q = p /\ work'[t][p] = c
    <2>1. w = t /\ work'[t] = [work[w] EXCEPT ![q] = c]
      BY <1>1, <1>3, <1>5
    <2> QED
      BY <1>1, <1>3, <2>1
  <1>6. ASSUME NEW w \in Windows, NEW s, SetCsrfToken(w, s) PROVE FALSE
    <2>1. w = t /\ work'[t] = [q \in Polls |-> IF work[w][q] = None THEN None ELSE [work[w][q] EXCEPT !.current = FALSE]]
      BY <1>4, <1>6 DEF SetCsrfToken
    <2> QED
      BY <1>2, <2>1
  <1>7. ~ UNCHANGED work
    BY <1>3
  <1>8. ASSUME NEW u \in Users, Reset(u) PROVE FALSE
    BY <1>7, <1>8 DEF Reset
  <1>9. CASE Expire
    BY <1>7, <1>9 DEF Expire
  <1>10. ASSUME NEW w \in Windows, VerifyPassword(w) \/ Commit(w) \/ ServeCheck(w) \/ ServeLogout(w) \/ Logout(w) \/ Lose(w)
         PROVE  FALSE
    BY <1>7, <1>10 DEF VerifyPassword, Commit, ServeCheck, ServeLogout, Logout, Lose
  <1>11. ASSUME NEW w \in Windows, NEW u \in Users, Login(w, u) PROVE FALSE
    BY <1>7, <1>11 DEF Login
  <1>12. ASSUME NEW w \in Windows, Load(w) PROVE FALSE
    <2>1. work'[t] = [q \in Polls |-> None]
      BY <1>4, <1>12 DEF Load
    <2> QED
      BY <2>1
  <1>13. ASSUME NEW w \in Windows, Answer(w) PROVE FALSE
    BY <1>6, <1>7, <1>13 DEF Answer, Accept
  <1>14. ASSUME NEW w \in Windows, NEW q \in Polls, Poll(w, q) PROVE FALSE
    <2>1. w = t /\ q = p
      BY <1>5, <1>14 DEF Poll
    <2> QED
      BY <1>14, <2>1 DEF Poll
  <1>15. ASSUME NEW w \in Windows, NEW q \in Polls, AnswerWork(w, q) PROVE FALSE
    <2>1. CASE Done(w, q)
      BY <1>5, <2>1 DEF Done
    <2>2. CASE Dismiss(w, q)
      <3>1. w = t /\ work'[t] = [r \in Polls |-> IF r = q \/ work[w][r] = None THEN None
                                                   ELSE [work[w][r] EXCEPT !.current = FALSE]]
        BY <1>4, <2>2 DEF Dismiss
      <3> QED
        BY <1>2, <3>1
    <2> QED
      BY <1>15, <2>1, <2>2 DEF AnswerWork
  <1>16. ASSUME NEW w \in Windows, NEW q \in Polls, ServeWork(w, q) PROVE ServeWork(t, p)
    <2>1. w = t /\ q = p
      BY <1>5, <1>16 DEF ServeWork
    <2> QED
      BY <1>16, <2>1
  <1>17. CASE UNCHANGED sessionVars
    BY <1>7, <1>17 DEF sessionVars
  <1> QED
    BY <1>8, <1>9, <1>10, <1>11, <1>12, <1>13, <1>14, <1>15, <1>16, <1>17 DEF SessionsNext

\* A request is served for the user whose window sent it: the token it carries is
\* that of the window, and is served only with its own cookie (auth_routes.py:44-55).
THEOREM WorkForItsUser == SessionsSpec => WorkAsShown
  <1>1. SessionsSound /\ [SessionsNext]_sessionVars =>
           [\A t \in Windows, p \in Polls :
              work[t][p] # None /\ work[t][p].reply = "none" /\ work'[t][p] # None /\ work'[t][p].reply = "ok"
              => account[work[t][p].jar] = work[t][p].as]_sessionVars
    <2> SUFFICES ASSUME SessionsSound, [SessionsNext]_sessionVars, NEW t \in Windows, NEW p \in Polls,
                        work[t][p] # None, work[t][p].reply = "none", work'[t][p] # None, work'[t][p].reply = "ok"
                 PROVE  account[work[t][p].jar] = work[t][p].as
      OBVIOUS
    <2>1. ServeWork(t, p)
      BY AnsweredOnce
    <2>2. work[t][p] \in WorkRequests /\ Polling(t, p) /\ work[t] \in [Polls -> WorkRequests \cup {None}]
          /\ work \in [Windows -> [Polls -> WorkRequests \cup {None}]]
      BY DEF SessionsSound, SessionsInv, SessionTypes, WindowInv
    <2> DEFINE reply == IF Admitted(work[t][p]) THEN "ok" ELSE "refused"
    <2>3. work'[t] = [work[t] EXCEPT ![p] = [work[t][p] EXCEPT !.reply = reply]]
      BY <2>1, <2>2 DEF ServeWork
    <2>4. work'[t][p].reply = reply
      BY <2>2, <2>3 DEF WorkRequests
    <2>5. Admitted(work[t][p])
      BY <2>4
    <2> QED
      BY <2>2, <2>5 DEF Admitted, Polling
  <1> QED
    BY <1>1, SessionsInvariance, PTL DEF SessionsSpec, WorkAsShown

\* A window goes back to the login form only because its own session was refused:
\* what is of an earlier generation is not heeded (auth-session.ts:23).
THEOREM RefusalsInTime == SessionsSpec => LateRefusal
  <1>1. SessionsSound /\ [SessionsNext]_sessionVars =>
           [\A t \in Windows :
              token[t] # None /\ token'[t] # token[t] /\ auth'[t] = auth[t]
              => \E p \in Polls : work[t][p] # None /\ work[t][p].reply = "refused" /\ work[t][p].token = token[t]]_sessionVars
    <2> SUFFICES ASSUME SessionsSound, [SessionsNext]_sessionVars, NEW t \in Windows,
                        token[t] # None, token'[t] # token[t], auth'[t] = auth[t]
                 PROVE  \E p \in Polls : work[t][p] # None /\ work[t][p].reply = "refused" /\ work[t][p].token = token[t]
      OBVIOUS
    <2>1. SessionTypes /\ WindowInv(t)
      BY DEF SessionsSound, SessionsInv
    <2>2. ~ UNCHANGED page
      BY DEF page
    <2>3. ASSUME NEW w \in Windows, NEW s, token' = [token EXCEPT ![w] = s] PROVE w = t
      BY <2>1, <2>3 DEF SessionTypes
    <2>4. ASSUME NEW u \in Users, Reset(u) PROVE FALSE
      BY <2>2, <2>4 DEF Reset
    <2>5. CASE Expire
      BY <2>2, <2>5 DEF Expire
    <2>6. ASSUME NEW w \in Windows, VerifyPassword(w) \/ Commit(w) \/ ServeCheck(w) \/ ServeLogout(w) \/ Logout(w) \/ Lose(w)
          PROVE  FALSE
      BY <2>2, <2>6 DEF VerifyPassword, Commit, ServeCheck, ServeLogout, Logout, Lose
    <2>7. ASSUME NEW w \in Windows, NEW u \in Users, Login(w, u) PROVE FALSE
      BY <2>2, <2>7 DEF Login
    <2>8. ASSUME NEW w \in Windows, Load(w) PROVE FALSE
      <3>1. w = t
        BY <2>3, <2>8 DEF Load
      <3>2. auth'[t] = Request("check", None, None, None, cookie)
        BY <2>1, <2>8, <3>1 DEF Load, SessionTypes
      <3>3. cookie \in Ids \cup {None}
        BY <2>1, SessionBounds DEF SessionTypes, Known, Created, Ids
      <3>4. auth[t] # None
        BY <3>2, <3>3, NoRequest
      <3>5. auth[t].kind = "check"
        BY <3>2 DEF Request
      <3> QED
        BY <2>1, <3>4, <3>5 DEF WindowInv, Asks
    <2>9. ASSUME NEW w \in Windows, Answer(w) PROVE FALSE
      <3>1. CASE UNCHANGED page
        BY <2>2, <3>1
      <3>2. CASE \E s : Accept(w, s)
        <4>1. w = t
          BY <2>3, <3>2 DEF Accept, SetCsrfToken
        <4>2. auth[t] # None /\ auth'[t] = None
          BY <2>1, <2>9, <4>1 DEF Answer, SessionTypes
        <4> QED
          BY <4>2
      <3> QED
        BY <2>9, <3>1, <3>2 DEF Answer
    <2>10. ASSUME NEW w \in Windows, NEW q \in Polls, Poll(w, q) \/ ServeWork(w, q) PROVE FALSE
      BY <2>2, <2>10 DEF Poll, ServeWork
    <2>11. ASSUME NEW w \in Windows, NEW q \in Polls, AnswerWork(w, q)
           PROVE  work[t][q] # None /\ work[t][q].reply = "refused" /\ work[t][q].token = token[t]
      <3>1. ~ Done(w, q)
        BY <2>2 DEF Done
      <3>2. Dismiss(w, q) /\ work[w][q] # None /\ work[w][q].reply = "refused" /\ work[w][q].current
        BY <2>11, <3>1 DEF AnswerWork
      <3>3. w = t
        BY <2>3, <3>2 DEF Dismiss
      <3> QED
        BY <2>1, <3>2, <3>3 DEF WindowInv, Polling
    <2>12. CASE UNCHANGED sessionVars
      BY <2>2, <2>12 DEF sessionVars
    <2> QED
      BY <2>4, <2>5, <2>6, <2>7, <2>8, <2>9, <2>10, <2>11, <2>12 DEF SessionsNext
  <1> QED
    BY <1>1, SessionsInvariance, PTL DEF SessionsSpec, LateRefusal

\* A session ends by a reset, by its age, for newer ones of its user or by a logout
\* of a window that has it: never by the logout of another (auth_routes.py:94-101).
THEOREM SessionsEndForCause == SessionsSpec => EndedForCause
  <1> DEFINE Cause(s) == \/ password'[account[s]] # password[account[s]]
                         \/ \A r \in live : s <= r
                         \/ Cardinality({r \in live' : r > s /\ account'[r] = account[s]}) >= Kept
                         \/ \E t \in Windows : auth[t] # None /\ auth[t].kind = "logout" /\ auth[t].token = s
  <1>1. SessionsSound /\ [SessionsNext]_sessionVars => [\A s \in live \ live' : Cause(s)]_sessionVars
    <2> SUFFICES ASSUME SessionsSound, [SessionsNext]_sessionVars, NEW s \in live, s \notin live' PROVE Cause(s)
      OBVIOUS
    <2>1. SessionTypes
      BY DEF SessionsSound, SessionsInv
    <2>2. ~ UNCHANGED store
      BY DEF store
    <2>3. ASSUME NEW u \in Users, Reset(u) PROVE password'[account[s]] # password[account[s]]
      <3>1. account[s] = u
        BY <2>3 DEF Reset, Of
      <3>2. password[u] \in Nat /\ password'[u] = password[u] + 1
        BY <2>1, <2>3, SessionBounds DEF Reset, SessionTypes
      <3> QED
        BY <3>1, <3>2
    <2>4. ASSUME Expire PROVE \A r \in live : s <= r
      BY <2>4 DEF Expire
    <2>5. ASSUME NEW t \in Windows, Commit(t)
          PROVE  Cardinality({r \in live' : r > s /\ account'[r] = account[s]}) >= Kept
      <3>1. Open(t)
        BY <2>5 DEF Commit
      <3>2. auth[t] # None /\ auth[t].kind = "login"
        BY <2>5 DEF Commit, SessionsSound, SessionsInv, WindowInv, Asks
      <3>3. PICK u, n : u = auth[t].user /\ n = issued + 1
        OBVIOUS
      <3>4. /\ u \in Users /\ n \in Ids
            /\ live' = (live \ Surplus(u, n)) \cup {n}
            /\ Of(u)' = (Of(u) \ Surplus(u, n)) \cup {n}
        BY <3>1, <3>2, <3>3, Opened
      <3>5. s \in Surplus(u, n) /\ account[s] = u
        BY <3>4 DEF Surplus, Of
      <3>6. Cardinality(Of(u)) <= Kept
        BY <3>4 DEF SessionsSound, SessionsInv
      <3>7. Cardinality(Later((Of(u) \ Surplus(u, n)) \cup {n}, s)) >= Kept
        BY <2>1, <3>3, <3>5, <3>6, Remain
      <3>8. {r \in live' : r > s /\ account'[r] = account[s]} = Later((Of(u) \ Surplus(u, n)) \cup {n}, s)
        BY <3>4, <3>5 DEF Of, Later
      <3> QED
        BY <3>7, <3>8
    <2>6. ASSUME NEW t \in Windows, ServeLogout(t)
          PROVE  auth[t] # None /\ auth[t].kind = "logout" /\ auth[t].token = s
      BY <2>6 DEF ServeLogout, Admitted
    <2>7. ASSUME NEW t \in Windows, VerifyPassword(t) \/ ServeCheck(t) \/ Load(t) \/ Logout(t) \/ Answer(t) \/ Lose(t)
          PROVE  FALSE
      BY <2>2, <2>7 DEF VerifyPassword, ServeCheck, Load, Logout, Answer, Lose
    <2>8. ASSUME NEW t \in Windows, NEW u \in Users, Login(t, u) PROVE FALSE
      BY <2>2, <2>8 DEF Login
    <2>9. ASSUME NEW t \in Windows, NEW p \in Polls, Poll(t, p) \/ ServeWork(t, p) \/ AnswerWork(t, p) PROVE FALSE
      BY <2>2, <2>9 DEF Poll, ServeWork, AnswerWork
    <2>10. CASE UNCHANGED sessionVars
      BY <2>2, <2>10 DEF sessionVars
    <2> QED
      BY <2>3, <2>4, <2>5, <2>6, <2>7, <2>8, <2>9, <2>10 DEF SessionsNext
  <1> QED
    BY <1>1, SessionsInvariance, PTL DEF SessionsSpec, EndedForCause
===============================================================================
