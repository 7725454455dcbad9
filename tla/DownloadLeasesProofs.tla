-------------------------- MODULE DownloadLeasesProofs --------------------------
(***************************************************************************)
(* For any number of downloads and executors: the leases make the raw lock *)
(* a lock that downloads share.                                            *)
(***************************************************************************)
EXTENDS DownloadLeases, TLAPS

\* Initially nobody holds anything.
LEMMA LeaseInit == Init => LeaseInv
BY Actors, CrashBound DEF Init, LeaseInv, TypeOK, Control, Procs

\* Every step of the protocol keeps the inductive invariant.
LEMMA LeaseStep == LeaseInv /\ [Next]_vars => LeaseInv'
<1>1. SUFFICES ASSUME LeaseInv, [Next]_vars PROVE LeaseInv'
  OBVIOUS
<1> USE Actors DEF LeaseInv, TypeOK, Control, Procs, Goto
<1>2. ASSUME NEW r \in Readers, BeginRead(r) PROVE LeaseInv'
  BY <1>1, <1>2 DEF BeginRead
<1>3. ASSUME NEW r \in Readers, Register(r) PROVE LeaseInv'
  BY <1>1, <1>3 DEF Register
<1>4. ASSUME NEW r \in Readers, Transfer(r) PROVE LeaseInv'
  BY <1>1, <1>4 DEF Transfer
<1>5. ASSUME NEW r \in Readers, EndTransfer(r) PROVE LeaseInv'
  BY <1>1, <1>5 DEF EndTransfer
<1>6. ASSUME NEW r \in Readers, Unlink(r) PROVE LeaseInv'
  BY <1>1, <1>6 DEF Unlink
<1>7. ASSUME NEW e \in Executors, BeginLock(e) PROVE LeaseInv'
  BY <1>1, <1>7 DEF BeginLock
<1>8. ASSUME NEW e \in Executors, NEW r \in Readers, Probe(e, r) PROVE LeaseInv'
  BY <1>1, <1>8 DEF Probe
<1>9. ASSUME NEW e \in Executors, NEW r \in Readers, ProbeBusy(e, r) PROVE LeaseInv'
  BY <1>1, <1>9 DEF ProbeBusy
<1>10. ASSUME NEW e \in Executors, NEW r \in Readers, Reclaim(e, r) PROVE LeaseInv'
  BY <1>1, <1>10 DEF Reclaim
<1>11. ASSUME NEW e \in Executors, EnterBody(e) PROVE LeaseInv'
  BY <1>1, <1>11 DEF EnterBody
<1>12. ASSUME NEW e \in Executors, LeaveBody(e) PROVE LeaseInv'
  BY <1>1, <1>12 DEF LeaveBody
<1>13. ASSUME NEW p \in Procs, Crash(p) PROVE LeaseInv'
  BY <1>1, <1>13 DEF Crash
<1>14. CASE UNCHANGED vars
  BY <1>1, <1>14 DEF vars
<1>15. QED
  BY <1>1, <1>2, <1>3, <1>4, <1>5, <1>6, <1>7, <1>8, <1>9, <1>10, <1>11, <1>12, <1>13, <1>14 DEF Next, Reading, Locking

\* The inductive invariant holds throughout.
THEOREM LeaseInvariance == Spec => []LeaseInv
<1>1. LeaseInv /\ [Next]_vars => LeaseInv'
  BY LeaseStep
<1>2. QED
  BY LeaseInit, <1>1, PTL DEF Spec

\* A run, a deletion or a collection never works on a job that has a lease.
THEOREM AloneInBody == Spec => []BodyAlone
<1>1. LeaseInv => BodyAlone
  BY DEF LeaseInv, BodyAlone
<1>2. QED
  BY <1>1, LeaseInvariance, PTL

-------------------------------------------------------------------------------
\* A step of the protocol is a step of the lock that downloads share, or none.
LEMMA LockStep == LeaseInv /\ LeaseInv' /\ [Next]_vars => [Lock!Next]_(Lock!lockVars)
<1>1. SUFFICES ASSUME LeaseInv, LeaseInv', [Next]_vars PROVE [Lock!Next]_(Lock!lockVars)
  OBVIOUS
<1> DEFINE reading == {r \in Readers : pc[r] = "transferring"}
           working == {e \in Executors : pc[e] = "body"}
<1> USE DEF Lock!Next, Lock!lockVars
<1>2. pc \in [Procs -> Control] /\ pc' \in [Procs -> Control]
  BY <1>1 DEF LeaseInv, TypeOK
<1>3. ASSUME NEW p \in Procs, NEW s, pc' = [pc EXCEPT ![p] = s], pc[p] \notin {"transferring", "body"}, s \notin {"transferring", "body"}
      PROVE UNCHANGED <<reading, working>>
  <2>1. \A q \in Procs : (pc'[q] = "transferring" <=> pc[q] = "transferring") /\ (pc'[q] = "body" <=> pc[q] = "body")
    BY <1>2, <1>3
  <2>2. QED
    BY <2>1 DEF Procs
<1>4. ASSUME NEW r \in Readers, Transfer(r) PROVE Lock!StartReading(r)
  <2>1. working = {}
    BY <1>1, <1>4, Actors DEF LeaseInv, Transfer, Goto
  <2>2. reading' = reading \cup {r} /\ working' = working
    BY <1>1, <1>2, <1>4, Actors DEF LeaseInv, Transfer, Goto, Procs
  <2>3. QED
    BY <2>1, <2>2 DEF Lock!StartReading
<1>5. ASSUME NEW r \in Readers, EndTransfer(r) PROVE Lock!StopReading(r)
  <2>1. reading' = reading \ {r} /\ working' = working
    BY <1>1, <1>2, <1>5, Actors DEF LeaseInv, EndTransfer, Goto, Procs
  <2>2. QED
    BY <2>1 DEF Lock!StopReading
<1>6. ASSUME NEW e \in Executors, EnterBody(e) PROVE Lock!Own(e)
  <2>1. reading = {}
    BY <1>1, <1>6 DEF LeaseInv, EnterBody, Goto
  <2>2. working = {}
    BY <1>1, <1>6 DEF LeaseInv, EnterBody, Goto
  <2>3. working' = {e} /\ reading' = reading
    BY <1>1, <1>2, <1>6, <2>2, Actors DEF LeaseInv, EnterBody, Goto, Procs
  <2>4. QED
    BY <2>1, <2>2, <2>3 DEF Lock!Own
<1>7. ASSUME NEW e \in Executors, LeaveBody(e) PROVE Lock!Disown
  <2>1. working' = {} /\ reading' = reading
    BY <1>1, <1>2, <1>7, Actors DEF LeaseInv, LeaveBody, Goto, Procs
  <2>2. QED
    BY <2>1 DEF Lock!Disown
<1>8. ASSUME NEW p \in Procs, Crash(p) PROVE [Lock!Next]_(Lock!lockVars)
  <2>1. CASE p \in Readers
    <3>1. reading' = reading \ {p} /\ working' = working
      BY <1>1, <1>2, <1>8, <2>1, Actors DEF Crash, Procs
    <3>2. QED
      BY <2>1, <3>1 DEF Lock!StopReading
  <2>2. CASE p \in Executors /\ pc[p] = "body"
    <3>1. working' = {} /\ reading' = reading
      BY <1>1, <1>2, <1>8, <2>2, Actors DEF LeaseInv, Crash, Procs
    <3>2. QED
      BY <3>1 DEF Lock!Disown
  <2>3. CASE p \in Executors /\ pc[p] # "body"
    <3>1. working' = working /\ reading' = reading
      BY <1>1, <1>2, <1>8, <2>3, Actors DEF Crash, Procs
    <3>2. QED
      BY <3>1
  <2>4. QED
    BY <2>1, <2>2, <2>3 DEF Procs
<1>9. ASSUME NEW r \in Readers, BeginRead(r) \/ Register(r) \/ Unlink(r) PROVE UNCHANGED <<reading, working>>
  BY <1>3, <1>9 DEF BeginRead, Register, Unlink, Goto, Procs
<1>10. ASSUME NEW e \in Executors, NEW r \in Readers, Probe(e, r) \/ ProbeBusy(e, r) \/ Reclaim(e, r)
       PROVE UNCHANGED <<reading, working>>
  BY <1>3, <1>10 DEF Probe, ProbeBusy, Reclaim, Goto, Procs
<1>11. ASSUME NEW e \in Executors, BeginLock(e) PROVE UNCHANGED <<reading, working>>
  BY <1>3, <1>11 DEF BeginLock, Goto, Procs
<1>12. CASE UNCHANGED vars
  BY <1>12 DEF vars
<1>13. QED
  BY <1>1, <1>4, <1>5, <1>6, <1>7, <1>8, <1>9, <1>10, <1>11, <1>12 DEF Next, Reading, Locking

\* locking.py implements the lock: downloads of a job never overlap with a run,
\* a retry, an edit, a deletion or a collection of it.
THEOREM Sharing == Spec => LockSpec
<1>1. Init => Lock!Init
  BY Actors DEF Init, Lock!Init, Procs
<1>2. LeaseInv /\ LeaseInv' /\ [Next]_vars => [Lock!Next]_(Lock!lockVars)
  BY LockStep
<1>3. QED
  BY <1>1, <1>2, LeaseInvariance, PTL DEF Spec, LockSpec, Lock!Spec
===============================================================================
