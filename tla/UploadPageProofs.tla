---------------------------- MODULE UploadPageProofs ----------------------------
(***************************************************************************)
(* QueueInv is inductive: every event either leaves a running pump alone   *)
(* or runs the synchronous part of one, which ends with a transfer or with *)
(* nothing waiting.  PageInv is inductive with it: the queue begins a      *)
(* transfer only when the last has ended, and tells one that goes on to    *)
(* stop before its item is anything but uploading.                         *)
(***************************************************************************)
EXTENDS UploadPage, TLAPS

States == {"absent", "waiting", "uploading", "paused", "error", "done"}

LEMMA QueueInit == Init => QueueInv
  <1> SUFFICES ASSUME Init PROVE QueueInv
    OBVIOUS
  <1>1. \A k \in Keys : state[k] = "absent"
    BY DEF Init
  <1>2. TypeOK
    <2>1. aborted \in BOOLEAN /\ suspended \in BOOLEAN /\ disposed \in BOOLEAN
      BY DEF Init
    <2>2. added = 0 /\ events = 0 /\ active = None /\ state = [k \in Keys |-> "absent"]
      BY DEF Init
    <2> QED
      BY <2>1, <2>2, Bounds DEF TypeOK
  <1>3. ActiveInv
    BY <1>1 DEF Init, ActiveInv
  <1>4. NotStranded
    BY <1>1 DEF NotStranded, WaitingOf
  <1> QED
    BY <1>2, <1>3, <1>4 DEF QueueInv

\* What holds after the pump has run with items of which none is uploading.
LEMMA PumpedInv ==
    ASSUME QueueInv, NEW st \in [Keys -> States], NEW hidden \in BOOLEAN, NEW gone \in BOOLEAN,
           \A k \in Keys : st[k] # "uploading", Pumped(st, hidden, gone),
           added' \in 0..MaxItems, \A k \in Keys : k > added' => st[k] = "absent", events' \in 0..MaxEvents, suspended' = hidden, disposed' = gone
    PROVE  QueueInv'
  <1>1. CASE hidden \/ gone \/ WaitingOf(st) = {}
    <2>1. state' = st /\ active' = None /\ aborted' = FALSE
      BY <1>1 DEF Pumped
    <2>2. TypeOK'
      BY <2>1 DEF TypeOK, States
    <2>3. ActiveInv'
      BY <2>1 DEF ActiveInv
    <2>4. NotStranded'
      BY <1>1, <2>1 DEF NotStranded, WaitingOf
    <2> QED
      BY <2>2, <2>3, <2>4 DEF QueueInv
  <1>2. CASE ~(hidden \/ gone \/ WaitingOf(st) = {})
    <2>1. PICK k \in WaitingOf(st) : state' = [st EXCEPT ![k] = "uploading"] /\ active' = k /\ aborted' = FALSE
      BY <1>2 DEF Pumped
    <2>2. k \in Keys /\ k # None
      BY Bounds DEF WaitingOf, Keys
    <2>3. TypeOK'
      BY <2>1, <2>2 DEF TypeOK, States
    <2>4. ActiveInv'
      <3>1. \A l \in Keys : state'[l] = IF l = k THEN "uploading" ELSE st[l]
        BY <2>1, <2>2
      <3>2. st[k] = "waiting"
        BY <2>1 DEF WaitingOf
      <3>3. \A l \in Keys : l > added' => state'[l] = "absent"
        BY <2>2, <3>1, <3>2
      <3>4. \A l \in Keys : state'[l] = "uploading" => active' = l
        BY <2>1, <3>1
      <3>5. active' = k /\ state'[k] = "uploading"
        BY <2>1, <2>2, <3>1
      <3>6. active' # None /\ ~aborted' /\ ~suspended' /\ ~disposed'
        BY <1>2, <2>1, <2>2
      <3> QED
        BY <3>3, <3>4, <3>5, <3>6 DEF ActiveInv
    <2>5. NotStranded'
      BY <2>1, <2>2 DEF NotStranded
    <2> QED
      BY <2>3, <2>4, <2>5 DEF QueueInv
  <1> QED
    BY <1>1, <1>2

\* What holds after an event that calls the pump.
LEMMA PumpInv ==
    ASSUME QueueInv, NEW st \in [Keys -> States], NEW hidden \in BOOLEAN, NEW gone \in BOOLEAN,
           \A k \in Keys : st[k] = "uploading" <=> state[k] = "uploading",
           active # None /\ ~aborted => st[active] = "uploading" /\ ~hidden /\ ~gone,
           Pump(st, hidden, gone),
           added' \in 0..MaxItems, \A k \in Keys : k > added' => st[k] = "absent", events' \in 0..MaxEvents, suspended' = hidden, disposed' = gone
    PROVE  QueueInv'
  <1>1. CASE active = None
    <2>1. Pumped(st, hidden, gone)
      BY <1>1 DEF Pump
    <2>2. \A k \in Keys : st[k] # "uploading"
      BY <1>1, Bounds DEF QueueInv, ActiveInv, Keys
    <2> QED
      BY <2>1, <2>2, PumpedInv
  <1>2. CASE active # None
    BY <1>2 DEF Pump, QueueInv, TypeOK, ActiveInv, NotStranded, States
  <1> QED
    BY <1>1, <1>2

LEMMA AddStep == ASSUME QueueInv, Add PROVE QueueInv'
  <1> DEFINE st == [state EXCEPT ![added + 1] = "waiting"]
  <1>1. Pump(st, suspended, disposed) /\ suspended' = suspended /\ disposed' = disposed
    BY DEF Add
  <1>2. added \in Nat /\ added' = added + 1 /\ added' \in 0..MaxItems /\ events' \in 0..MaxEvents
    BY Bounds DEF Add, Event, QueueInv, TypeOK
  <1>3. state \in [Keys -> States] /\ suspended \in BOOLEAN /\ disposed \in BOOLEAN
    BY DEF QueueInv, TypeOK, States
  <1>4. st \in [Keys -> States]
    BY <1>3 DEF States
  <1>5. state[added + 1] = "absent" /\ \A k \in Keys : k > added + 1 => state[k] = "absent"
    BY <1>2, Bounds DEF QueueInv, ActiveInv, Keys
  <1>6. \A k \in Keys : st[k] = IF k = added + 1 THEN "waiting" ELSE state[k]
    BY <1>3
  <1> HIDE DEF st
  <1>7. \A k \in Keys : st[k] = "uploading" <=> state[k] = "uploading"
    BY <1>5, <1>6
  <1>8. active # None /\ ~aborted => st[active] = "uploading" /\ ~suspended /\ ~disposed
    BY <1>7 DEF QueueInv, ActiveInv, TypeOK
  <1>9. \A k \in Keys : k > added' => st[k] = "absent"
    BY <1>2, <1>5, <1>6 DEF Keys
  <1> QED
    BY <1>1, <1>2, <1>3, <1>4, <1>7, <1>8, <1>9, PumpInv

LEMMA ResumeStep == ASSUME QueueInv, NEW k \in Keys, Resume(k) PROVE QueueInv'
  <1> DEFINE st == [state EXCEPT ![k] = "waiting"]
  <1>1. Pump(st, suspended, disposed) /\ suspended' = suspended /\ disposed' = disposed
    BY DEF Resume
  <1>2. added' = added /\ added' \in 0..MaxItems /\ events' \in 0..MaxEvents
    BY Bounds DEF Resume, Event, QueueInv, TypeOK
  <1>3. state \in [Keys -> States] /\ suspended \in BOOLEAN /\ disposed \in BOOLEAN
    BY DEF QueueInv, TypeOK, States
  <1>4. st \in [Keys -> States] /\ state[k] \in {"paused", "error"}
    BY <1>3 DEF States, Resume
  <1>6. \A l \in Keys : st[l] = IF l = k THEN "waiting" ELSE state[l]
    BY <1>3
  <1> HIDE DEF st
  <1>7. \A l \in Keys : st[l] = "uploading" <=> state[l] = "uploading"
    BY <1>4, <1>6
  <1>8. active # None /\ ~aborted => st[active] = "uploading" /\ ~suspended /\ ~disposed
    BY <1>7 DEF QueueInv, ActiveInv, TypeOK
  <1>9. \A l \in Keys : l > added' => st[l] = "absent"
    BY <1>2, <1>4, <1>6 DEF QueueInv, ActiveInv
  <1> QED
    BY <1>1, <1>2, <1>3, <1>4, <1>7, <1>8, <1>9, PumpInv

LEMMA UnsuspendStep == ASSUME QueueInv, Unsuspend PROVE QueueInv'
  <1>1. Pump(state, FALSE, disposed) /\ suspended' = FALSE /\ disposed' = disposed /\ suspended
    BY DEF Unsuspend
  <1>2. added' = added /\ added' \in 0..MaxItems /\ events' \in 0..MaxEvents
    BY Bounds DEF Unsuspend, Event, QueueInv, TypeOK
  <1>3. state \in [Keys -> States] /\ disposed \in BOOLEAN /\ \A k \in Keys : k > added => state[k] = "absent"
    BY DEF QueueInv, TypeOK, States, ActiveInv
  <1>4. active # None => aborted
    BY <1>1 DEF QueueInv, ActiveInv
  <1> QED
    BY <1>1, <1>2, <1>3, <1>4, PumpInv

LEMMA ActivateStep == ASSUME QueueInv, Activate PROVE QueueInv'
  <1>1. Pump(state, suspended, FALSE) /\ suspended' = suspended /\ disposed' = FALSE /\ disposed
    BY DEF Activate
  <1>2. added' = added /\ added' \in 0..MaxItems /\ events' \in 0..MaxEvents
    BY Bounds DEF Activate, Event, QueueInv, TypeOK
  <1>3. state \in [Keys -> States] /\ suspended \in BOOLEAN /\ \A k \in Keys : k > added => state[k] = "absent"
    BY DEF QueueInv, TypeOK, States, ActiveInv
  <1>4. active # None => aborted
    BY <1>1 DEF QueueInv, ActiveInv
  <1> QED
    BY <1>1, <1>2, <1>3, <1>4, PumpInv

LEMMA HiddenStep == ASSUME QueueInv, Suspend \/ Dispose PROVE QueueInv'
  <1>1. /\ UNCHANGED <<state, added, active>> /\ (aborted' <=> active # None)
        /\ suspended' \/ disposed'
    BY DEF Suspend, Dispose
  <1>2. aborted' \in BOOLEAN /\ suspended' \in BOOLEAN /\ disposed' \in BOOLEAN
    BY DEF Suspend, Dispose, QueueInv, TypeOK
  <1>3. events' \in 0..MaxEvents
    BY Bounds DEF Suspend, Dispose, Event, QueueInv, TypeOK
  <1>4. TypeOK'
    BY <1>1, <1>2, <1>3 DEF QueueInv, TypeOK
  <1>5. ActiveInv' /\ NotStranded'
    BY <1>1 DEF QueueInv, ActiveInv, NotStranded
  <1> QED
    BY <1>4, <1>5 DEF QueueInv

LEMMA StopStep == ASSUME QueueInv, NEW k \in Keys, Pause(k) \/ Remove(k) PROVE QueueInv'
  <1>1. PICK st \in {"paused", "absent"} : state' = [state EXCEPT ![k] = st]
    BY DEF Pause, Remove, Stop
  <1>2. /\ aborted' = (aborted \/ active = k) \/ (aborted' = aborted /\ state[k] = "done")
        /\ events' \in 0..MaxEvents /\ UNCHANGED <<added, active, suspended, disposed>>
        /\ state[k] # "absent"
    BY Bounds DEF Pause, Remove, Stop, Event, QueueInv, TypeOK
  <1>3. TypeOK'
    BY <1>1, <1>2 DEF QueueInv, TypeOK
  <1>4. \A l \in Keys : state'[l] = IF l = k THEN st ELSE state[l]
    BY <1>1 DEF QueueInv, TypeOK
  <1>5. ActiveInv'
    <2>1. \A l \in Keys : l > added' => state'[l] = "absent"
      BY <1>1, <1>2, <1>4 DEF QueueInv, ActiveInv
    <2>2. \A l \in Keys : state'[l] = "uploading" => active' = l
      BY <1>2, <1>4 DEF QueueInv, ActiveInv
    <2>3. active' = None => ~aborted'
      <3>1. k # None
        BY Bounds DEF Keys
      <3> QED
        BY <1>2, <3>1 DEF QueueInv, ActiveInv
    <2>4. active' # None /\ ~aborted' => state'[active'] = "uploading" /\ ~suspended' /\ ~disposed'
      <3> SUFFICES ASSUME active' # None, ~aborted'
                   PROVE  state'[active'] = "uploading" /\ ~suspended' /\ ~disposed'
        OBVIOUS
      <3>1. active # None /\ active \in Keys /\ ~aborted /\ UNCHANGED <<active, suspended, disposed>>
        BY <1>2 DEF QueueInv, TypeOK
      <3>2. state[active] = "uploading" /\ ~suspended /\ ~disposed
        BY <3>1 DEF QueueInv, ActiveInv
      <3>3. active # k
        BY <1>2, <3>2
      <3> QED
        BY <1>4, <3>1, <3>2, <3>3
    <2> QED
      BY <2>1, <2>2, <2>3, <2>4 DEF ActiveInv
  <1>6. NotStranded'
    BY <1>1, <1>2, <1>4 DEF QueueInv, NotStranded, WaitingOf
  <1> QED
    BY <1>3, <1>5, <1>6 DEF QueueInv

LEMMA ForgetStep == ASSUME QueueInv, Forget PROVE QueueInv'
  <1>1. PICK ks \in SUBSET {k \in Keys : state[k] = "done"} :
           state' = [k \in Keys |-> IF k \in ks THEN "absent" ELSE state[k]]
    BY DEF Forget
  <1>2. UNCHANGED <<added, active, aborted, suspended, disposed, events>>
    BY DEF Forget
  <1>3. TypeOK'
    BY <1>1, <1>2 DEF QueueInv, TypeOK
  <1>4. ActiveInv'
    BY <1>1, <1>2, Bounds DEF QueueInv, ActiveInv, TypeOK, Keys
  <1>5. NotStranded'
    BY <1>1, <1>2 DEF QueueInv, NotStranded, WaitingOf
  <1> QED
    BY <1>3, <1>4, <1>5 DEF QueueInv

LEMMA SettleStep == ASSUME QueueInv, Settle PROVE QueueInv'
  <1>1. PICK outcome \in {"done", "error"} : Pumped(Settled(outcome), suspended, disposed)
    BY DEF Settle
  <1> DEFINE st == Settled(outcome)
  <1>2. active \in Keys /\ UNCHANGED <<added, suspended, disposed, events>>
    BY DEF Settle, QueueInv, TypeOK
  <1>3. state \in [Keys -> States]
    BY DEF QueueInv, TypeOK, States
  <1>4. st \in [Keys -> States] /\ \A k \in Keys : st[k] \in {state[k]} \cup (IF k = active THEN {"waiting", "done", "error"} ELSE {})
    BY <1>2, <1>3 DEF Settled, States
  <1>5. \A k \in Keys : st[k] # "uploading"
    BY <1>2, <1>3 DEF Settled, QueueInv, ActiveInv
  <1>6. state[active] # "absent" => active <= added
    BY <1>2, Bounds DEF QueueInv, ActiveInv, TypeOK, Keys
  <1>7. state[active] = "absent" => st = state
    <2> SUFFICES ASSUME state[active] = "absent" PROVE st = state
      OBVIOUS
    <2>1. active # None /\ state[active] # "uploading"
      BY DEF Settle
    <2>2. aborted
      BY <2>1 DEF QueueInv, ActiveInv
    <2> QED
      BY <2>1, <2>2 DEF Settled
  <1>8. \A k \in Keys : k > added' => st[k] = "absent"
    BY <1>2, <1>4, <1>6, <1>7, Bounds DEF QueueInv, ActiveInv, TypeOK, Keys
  <1>9. added' \in 0..MaxItems /\ events' \in 0..MaxEvents /\ suspended \in BOOLEAN /\ disposed \in BOOLEAN
    BY <1>2 DEF QueueInv, TypeOK
  <1> HIDE DEF st
  <1> QED
    BY <1>1, <1>2, <1>4, <1>5, <1>8, <1>9, PumpedInv DEF st

\* Every event keeps the queue sound.
LEMMA QueueStep == QueueInv /\ [Next]_vars => QueueInv'
  <1> SUFFICES ASSUME QueueInv, [Next]_vars PROVE QueueInv'
    OBVIOUS
  <1>1. CASE UNCHANGED vars
    BY <1>1 DEF vars, QueueInv, TypeOK, ActiveInv, NotStranded, WaitingOf
  <1> QED
    BY <1>1, AddStep, ResumeStep, UnsuspendStep, ActivateStep, HiddenStep, StopStep, ForgetStep, SettleStep DEF Next

-------------------------------------------------------------------------------
\* One transfer runs at a time, it is one the user wants unless it has been told
\* to stop, and no file waits beside an idle pump, whatever the user and the page
\* do and whenever transfers answer (upload-queue.ts:96).
THEOREM QueueInvariance == Spec => []QueueInv
  BY QueueInit, QueueStep, PTL DEF Spec

\* No file waits while the pump is idle on a page that is shown
\* (upload-queue.ts:125).
THEOREM NothingStranded == Spec => []NotStranded
  <1>1. QueueInv => NotStranded
    BY DEF QueueInv
  <1> QED
    BY <1>1, QueueInvariance, PTL

\* The late answer of a paused transfer changes nothing (upload-queue.ts:114).
THEOREM PausedFilesStay == Spec => PausedStays
  <1>1. QueueInv /\ [Next]_vars =>
          [\A k \in Keys : state[k] = "paused" => state'[k] \notin {"done", "error"}]_vars
    <2> SUFFICES ASSUME QueueInv, Next, NEW k \in Keys, state[k] = "paused"
                 PROVE  state'[k] \notin {"done", "error"}
      BY DEF vars
    <2>1. \A st \in [Keys -> States], hidden \in BOOLEAN, gone \in BOOLEAN :
             Pumped(st, hidden, gone) /\ st[k] \notin {"done", "error"} => state'[k] \notin {"done", "error"}
      BY DEF Pumped, WaitingOf, States
    <2>2. state \in [Keys -> States] /\ suspended \in BOOLEAN /\ disposed \in BOOLEAN
      BY DEF QueueInv, TypeOK, States
    <2>3. CASE Settle
      <3>1. PICK outcome \in {"done", "error"} : Pumped(Settled(outcome), suspended, disposed)
        BY <2>3 DEF Settle
      <3>2. active = k => aborted
        <4> SUFFICES ASSUME active = k PROVE aborted
          OBVIOUS
        <4>1. active # None /\ state[active] # "uploading"
          BY <2>3 DEF Settle
        <4> QED
          BY <4>1 DEF QueueInv, ActiveInv
      <3>3. Settled(outcome) \in [Keys -> States] /\ Settled(outcome)[k] \notin {"done", "error"}
        BY <2>2, <3>2 DEF Settled, States
      <3> QED
        BY <2>1, <2>2, <3>1, <3>3
    <2>4. ASSUME NEW st \in [Keys -> States], NEW hidden \in BOOLEAN, NEW gone \in BOOLEAN,
                 st[k] \notin {"done", "error"}, Pump(st, hidden, gone)
          PROVE  state'[k] \notin {"done", "error"}
      BY <2>1, <2>4 DEF Pump
    <2>5. \A j \in Int : [state EXCEPT ![j] = "waiting"] \in [Keys -> States] /\ [state EXCEPT ![j] = "waiting"][k] \notin {"done", "error"}
      BY <2>2 DEF States
    <2>6. CASE Add
      <3>1. added + 1 \in Int
        BY DEF QueueInv, TypeOK
      <3>2. Pump([state EXCEPT ![added + 1] = "waiting"], suspended, disposed)
        BY <2>6 DEF Add
      <3>3. /\ [state EXCEPT ![added + 1] = "waiting"] \in [Keys -> States]
            /\ [state EXCEPT ![added + 1] = "waiting"][k] \notin {"done", "error"}
        BY <2>5, <3>1
      <3> QED
        BY <2>2, <2>4, <3>2, <3>3
    <2>7. CASE \E j \in Keys : Resume(j)
      BY <2>2, <2>4, <2>5, <2>7, Bounds DEF Resume, Keys
    <2>8. CASE Unsuspend \/ Activate
      BY <2>2, <2>4, <2>8 DEF Unsuspend, Activate
    <2>9. CASE Suspend \/ Dispose \/ Forget \/ \E j \in Keys : Pause(j) \/ Remove(j)
      BY <2>2, <2>9 DEF Suspend, Dispose, Forget, Pause, Remove, Stop
    <2> QED
      BY <2>3, <2>6, <2>7, <2>8, <2>9 DEF Next
  <1> QED
    BY <1>1, QueueInvariance, PTL DEF Spec, PausedStays

-------------------------------------------------------------------------------
(***************************************************************************)
(* The queue with its transfers                                            *)
(***************************************************************************)
\* What the queue relies on of a step of its transfer.
Sober ==
    /\ phase' \in [{page} -> Transfer!Phases] /\ AwaitInv'
    /\ file' = file
    /\ session = "READY" => session' = "READY"
    /\ Over => phase'[page] = phase[page]
    /\ ~Over => phase'[page] # "idle"
    /\ phase'[page] = "done" => phase[page] = "done" \/ session' = "READY"

\* A request is taken from its way, or given up by the server: nobody is told.
LEMMA Untold ==
    ASSUME AwaitInv, phase \in [{page} -> Transfer!Phases], UNCHANGED <<phase, file, session>>, net' \subseteq net,
           serving' = serving \/ serving' = Nothing \/ (serving' \in net /\ serving' \notin net')
    PROVE  Sober
  <1>1. \A r \in net' : Request(r)' /\ Awaits(r)'
    BY DEF AwaitInv, Request, Awaits
  <1>2. serving' # Nothing => Request(serving)' /\ Awaits(serving)' /\ (serving'.from = page => \A r \in net' : r.from # page)
    BY DEF AwaitInv, Request, Awaits
  <1>3. AwaitInv'
    BY <1>1, <1>2 DEF AwaitInv
  <1> QED
    BY <1>3 DEF Sober, Over

\* The transfer gets the answer it waits for, and goes on or is done.
LEMMA Told ==
    ASSUME AwaitInv, phase \in [{page} -> Transfer!Phases], file' = file,
           NEW r, NEW next \in {"sending", "done"}, Transfer!Tell(r, next),
           \/ r \in net /\ net' = net \ {r} /\ serving = Nothing /\ serving' = Nothing
           \/ r = serving /\ serving # Nothing /\ serving' = Nothing /\ net' = net,
           session = "READY" => session' = "READY", next = "done" => session' = "READY"
    PROVE  Sober
  <1>1. phase' = IF r.from = Nobody THEN phase ELSE [phase EXCEPT ![r.from] = next]
    BY DEF Transfer!Tell, Transfer!Set
  <1>2. CASE r.from = page
    <2>1. phase' \in [{page} -> Transfer!Phases] /\ phase'[page] = next
      BY <1>1, <1>2, Named DEF Transfer!Phases
    <2>2. phase[page] \in {"sent", "finishing"} /\ \A q \in net' : q.from # page
      BY <1>2 DEF AwaitInv, Awaits
    <2>3. AwaitInv'
      BY <2>2 DEF AwaitInv, Request, Awaits
    <2> QED
      BY <2>1, <2>2, <2>3 DEF Sober, Over
  <1>3. CASE r.from # page
    <2>1. phase' \in [{page} -> Transfer!Phases] /\ phase'[page] = phase[page]
      BY <1>1, <1>3
    <2>2. AwaitInv'
      BY <2>1 DEF AwaitInv, Request, Awaits
    <2> QED
      BY <2>1, <2>2 DEF Sober, Over
  <1> QED
    BY <1>2, <1>3

\* The transfer goes on without waiting for anything.
LEMMA Unasked ==
    ASSUME AwaitInv, phase \in [{page} -> Transfer!Phases], UNCHANGED <<file, session, net, serving>>,
           phase[page] \in {"asking", "verifying"},
           NEW next \in {"verifying", "failed"}, phase' = phase \/ phase' = [phase EXCEPT ![page] = next]
    PROVE  Sober
  <1>1. phase' \in [{page} -> Transfer!Phases] /\ phase'[page] \in {phase[page], next}
    BY DEF Transfer!Phases
  <1>2. AwaitInv'
    BY DEF AwaitInv, Request, Awaits
  <1> QED
    BY <1>1, <1>2 DEF Sober, Over

\* The transfer asks for one thing.
LEMMA Asked ==
    ASSUME AwaitInv, phase \in [{page} -> Transfer!Phases], UNCHANGED <<file, session, serving>>,
           phase[page] \in {"asking", "verifying", "sending"},
           NEW kind, NEW o, NEW next \in {"sent", "finishing"}, Transfer!Sending(page, kind, o, next)
    PROVE  Sober
  <1> DEFINE q == [from |-> page, file |-> file[page], kind |-> kind, offset |-> o]
  <1>1. net' = net \cup {q} /\ phase' = [phase EXCEPT ![page] = next]
    BY DEF Transfer!Sending, Transfer!Set
  <1>2. phase' \in [{page} -> Transfer!Phases] /\ phase'[page] = next
    BY <1>1 DEF Transfer!Phases
  <1>3. /\ \A r \in net : Request(r) /\ r.from # page
        /\ serving # Nothing => Request(serving) /\ serving.from # page
    BY DEF AwaitInv, Awaits
  <1>4. Request(q)
    BY DEF Request
  <1> HIDE DEF q
  <1>5. AwaitInv'
    BY <1>1, <1>2, <1>3, <1>4 DEF AwaitInv, Request, Awaits
  <1> QED
    BY <1>2, <1>5 DEF Sober, Over

\* The transfer gives up what it waits for.
LEMMA LetGone ==
    ASSUME AwaitInv, Transfer!LetGo(page)
    PROVE  AwaitInv'
  <1>1. ASSUME NEW r, Request(r), r.from = page PROVE Request([r EXCEPT !.from = Nobody]) /\ [r EXCEPT !.from = Nobody].from # page
    <2>1. [r EXCEPT !.from = Nobody] = [from |-> Nobody, file |-> r.file, kind |-> r.kind, offset |-> r.offset]
      BY <1>1 DEF Request
    <2> QED
      BY <2>1, Named DEF Request
  <1>2. \A q \in net' : Request(q) /\ q.from # page
    <2> SUFFICES ASSUME NEW q \in net' PROVE Request(q) /\ q.from # page
      OBVIOUS
    <2>1. PICK r \in net : q = IF r.from = page THEN [r EXCEPT !.from = Nobody] ELSE r
      BY DEF Transfer!LetGo, Transfer!Abandoned
    <2>2. Request(r)
      BY DEF AwaitInv
    <2> QED
      BY <1>1, <2>1, <2>2
  <1>3. serving' # Nothing => Request(serving') /\ serving'.from # page
    <2>1. serving' = IF serving # Nothing /\ serving.from = page THEN [serving EXCEPT !.from = Nobody] ELSE serving
      BY DEF Transfer!LetGo
    <2>2. CASE serving # Nothing /\ serving.from = page
      BY <1>1, <2>1, <2>2 DEF AwaitInv
    <2>3. CASE ~(serving # Nothing /\ serving.from = page)
      BY <2>1, <2>3 DEF AwaitInv
    <2> QED
      BY <2>2, <2>3
  <1> QED
    BY <1>2, <1>3 DEF AwaitInv, Request, Awaits

\* A step of the transfer.
LEMMA TransferGoes ==
    ASSUME AwaitInv, phase \in [{page} -> Transfer!Phases], Transfer!Step(page)
    PROVE  Sober
  <1>1. CASE Transfer!Ask(page)
    <2>1. UNCHANGED <<file, session, serving>> /\ phase[page] = "asking"
      BY <1>1 DEF Transfer!Ask, Transfer!server
    <2>2. CASE session = "UPLOADING"
      <3>1. net' = net /\ phase' = [phase EXCEPT ![page] = "verifying"]
        BY <1>1, <2>2 DEF Transfer!Ask, Transfer!Set
      <3> QED
        BY <2>1, <3>1, Unasked
    <2>3. CASE session # "UPLOADING"
      <3>1. Transfer!Sending(page, "complete", Size, "finishing")
        BY <1>1, <2>3 DEF Transfer!Ask
      <3> QED
        BY <2>1, <3>1, Asked
    <2> QED
      BY <2>2, <2>3
  <1>2. CASE Transfer!Verify(page)
    <2>1. UNCHANGED <<file, session, serving, net>> /\ phase[page] = "verifying"
      BY <1>2 DEF Transfer!Verify, Transfer!server
    <2>2. phase' = phase \/ phase' = [phase EXCEPT ![page] = "failed"]
      BY <1>2 DEF Transfer!Verify, Transfer!Set
    <2> QED
      BY <2>1, <2>2, Unasked
  <1>3. CASE Transfer!Send(page)
    <2>1. UNCHANGED <<file, session, serving>> /\ phase[page] \in {"verifying", "sending"}
      BY <1>3 DEF Transfer!Send, Transfer!server
    <2>2. \/ Transfer!Sending(page, "chunk", offset[page], "sent")
          \/ Transfer!Sending(page, "complete", Size, "finishing")
      BY <1>3 DEF Transfer!Send
    <2> QED
      BY <2>1, <2>2, Asked
  <1>4. CASE Transfer!Retry(page)
    <2>1. /\ UNCHANGED <<file, session>> /\ phase[page] \in {"asking", "verifying", "sent", "finishing"}
          /\ Transfer!LetGo(page)
      BY <1>4 DEF Transfer!Retry
    <2>2. PICK next \in {"asking", "failed"} : phase' = [phase EXCEPT ![page] = next]
      BY <1>4 DEF Transfer!Retry, Transfer!Set
    <2>3. phase' \in [{page} -> Transfer!Phases] /\ phase'[page] = next
      BY <2>2 DEF Transfer!Phases
    <2> QED
      BY <2>1, <2>3, LetGone DEF Sober, Over
  <1> QED
    BY <1>1, <1>2, <1>3, <1>4 DEF Transfer!Step

\* A step of the server.
LEMMA SessionServes ==
    ASSUME AwaitInv, phase \in [{page} -> Transfer!Phases],
           \/ \E r \in net : Transfer!Handle(r)
           \/ Transfer!Flush \/ Transfer!EndChunk \/ Transfer!FailChunk \/ Transfer!EndComplete \/ Transfer!Crash
    PROVE  Sober
  <1>1. ASSUME NEW r \in net, Transfer!BeginChunk(r) \/ Transfer!BeginComplete(r) \/ Transfer!Refuse(r)
        PROVE  Sober
    <2>1. UNCHANGED <<phase, file, session>> /\ net' = net \ {r} /\ (serving' = serving \/ serving' = r)
      BY <1>1 DEF Transfer!BeginChunk, Transfer!BeginComplete, Transfer!Refuse, Transfer!server
    <2> QED
      BY <2>1, Untold
  <1>2. ASSUME NEW r \in net, Transfer!Completed(r) PROVE Sober
    <2>1. /\ serving = Nothing /\ serving' = Nothing /\ net' = net \ {r} /\ file' = file
          /\ Transfer!Tell(r, "done") /\ session = "READY" /\ session' = "READY"
      BY <1>2 DEF Transfer!Completed, Transfer!server
    <2> QED
      BY <2>1, Told
  <1>3. CASE Transfer!Flush
    BY <1>3, Untold DEF Transfer!Flush
  <1>4. CASE Transfer!EndChunk
    <2>1. /\ serving # Nothing /\ serving' = Nothing /\ net' = net /\ file' = file
          /\ Transfer!Tell(serving, "sending") /\ session' = session
      BY <1>4 DEF Transfer!EndChunk, Transfer!Serving, Transfer!TellOffset
    <2> QED
      BY <2>1, Told
  <1>5. CASE Transfer!FailChunk \/ Transfer!Crash
    <2>1. UNCHANGED <<phase, file, session, net>> /\ serving' = Nothing
      BY <1>5 DEF Transfer!FailChunk, Transfer!Crash
    <2> QED
      BY <2>1, Untold
  <1>6. CASE Transfer!EndComplete
    <2>1. /\ serving # Nothing /\ serving' = Nothing /\ net' = net /\ file' = file
          /\ Transfer!Tell(serving, "done") /\ session' = "READY"
      BY <1>6 DEF Transfer!EndComplete, Transfer!Serving
    <2> QED
      BY <2>1, Told
  <1> QED
    BY <1>1, <1>2, <1>3, <1>4, <1>5, <1>6 DEF Transfer!Handle

\* The queue stands still while a transfer goes on or the session serves.
LEMMA StandsStill ==
    ASSUME QueueInv, PageInv, Sober, UNCHANGED <<vars, source>>
    PROVE  PageInv'
  <1>1. UNCHANGED <<state, added, active, aborted, source, file>>
    BY DEF vars, Sober
  <1>2. TransferIsActive'
    BY <1>1 DEF PageInv, TransferIsActive, Sober, Over, Ours
  <1>3. (Ours(active) /\ ~aborted => phase[page] # "idle")'
    BY <1>1 DEF PageInv, Sober, Over, Ours
  <1>4. (phase[page] = "done" => session = "READY")' /\ DoneIsReady'
    BY <1>1 DEF PageInv, Sober, DoneIsReady
  <1> QED
    BY <1>1, <1>2, <1>3, <1>4 DEF PageInv, Sober

\* The queue starts the transfer of an item while none goes on.
LEMMA Begun ==
    ASSUME PageInv, Over, NEW k \in Keys, k # None, active' = k, ~aborted', Begin(k),
           source' \in [Keys -> Files \cup {None}], \A l \in Keys : l > added' => source'[l] = None,
           \A l \in Keys : source'[l] # None /\ state'[l] = "done" => session = "READY"
    PROVE  PageInv'
  <1>1. AwaitInv /\ file \in [{page} -> Files] /\ phase \in [{page} -> Transfer!Phases]
        /\ (phase[page] = "done" => session = "READY")
    BY DEF PageInv
  <1>2. CASE source'[k] = None
    <2>1. UNCHANGED <<session, serving, net, file, phase>>
      BY <1>2 DEF Begin, transfer
    <2>2. AwaitInv'
      BY <1>1, <2>1 DEF AwaitInv, Request, Awaits
    <2>3. TransferIsActive' /\ ~ Ours(active)'
      BY <1>2, <2>1 DEF TransferIsActive, Over, Ours
    <2> QED
      BY <1>1, <2>1, <2>2, <2>3 DEF PageInv, DoneIsReady
  <1>3. CASE source'[k] # None
    <2>1. Transfer!Start(page) /\ file'[page] = source'[k]
      BY <1>3 DEF Begin
    <2>2. /\ UNCHANGED <<session, serving, net>>
          /\ phase' = [phase EXCEPT ![page] = "asking"]
          /\ \E f \in Files : file' = [file EXCEPT ![page] = f]
      BY <2>1 DEF Transfer!Start, Transfer!server, Transfer!Set
    <2>3. phase' \in [{page} -> Transfer!Phases] /\ phase'[page] = "asking" /\ file' \in [{page} -> Files]
      BY <1>1, <2>2 DEF Transfer!Phases
    <2>4. AwaitInv'
      BY <1>1, <2>2, <2>3 DEF AwaitInv, Request, Awaits, Over
    <2>5. TransferIsActive'
      BY <1>3, <2>1 DEF TransferIsActive, Ours
    <2> QED
      BY <2>2, <2>3, <2>4, <2>5 DEF PageInv, DoneIsReady
  <1> QED
    BY <1>2, <1>3

\* What every operation but the end of a transfer does: a running item stays, with
\* an abort that is not taken back, and nothing gets done.
Steady ==
    /\ active # None => active' = active /\ (aborted => aborted')
    /\ active = None => active' = None \/ (active' \in Keys /\ ~aborted')
    /\ \A k \in Keys : state'[k] = "done" => state[k] = "done"

LEMMA PumpSteady ==
    ASSUME NEW st \in [Keys -> States], NEW hidden, NEW gone, Pump(st, hidden, gone),
           \A k \in Keys : st[k] = "done" => state[k] = "done"
    PROVE  Steady
  <1>1. CASE active # None
    BY <1>1 DEF Pump, Steady
  <1>2. CASE active = None
    <2>1. Pumped(st, hidden, gone)
      BY <1>2 DEF Pump
    <2>2. CASE hidden \/ gone \/ WaitingOf(st) = {}
      BY <1>2, <2>1, <2>2 DEF Pumped, Steady
    <2>3. CASE ~(hidden \/ gone \/ WaitingOf(st) = {})
      <3>1. PICK k \in WaitingOf(st) : state' = [st EXCEPT ![k] = "uploading"] /\ active' = k /\ aborted' = FALSE
        BY <2>1, <2>3 DEF Pumped
      <3>2. k \in Keys
        BY DEF WaitingOf
      <3>3. \A l \in Keys : state'[l] = "done" => st[l] = "done"
        BY <3>1, <3>2
      <3> QED
        BY <1>2, <3>1, <3>2, <3>3 DEF Steady
    <2> QED
      BY <2>2, <2>3
  <1> QED
    BY <1>1, <1>2

LEMMA OperationSteady ==
    ASSUME QueueInv,
           Add \/ Suspend \/ Unsuspend \/ Dispose \/ Activate \/ Forget \/ \E k \in Keys : Pause(k) \/ Remove(k) \/ Resume(k)
    PROVE  Steady
  <1>1. state \in [Keys -> States] /\ added \in Nat
    BY DEF QueueInv, TypeOK, States
  <1>2. ASSUME NEW j \in Int
        PROVE  LET st == [state EXCEPT ![j] = "waiting"]
               IN  st \in [Keys -> States] /\ \A k \in Keys : st[k] = "done" => state[k] = "done"
    BY <1>1 DEF States
  <1>3. CASE Add
    <2>1. added + 1 \in Int /\ Pump([state EXCEPT ![added + 1] = "waiting"], suspended, disposed)
      BY <1>1, <1>3 DEF Add
    <2> QED
      BY <1>2, <2>1, PumpSteady
  <1>4. ASSUME NEW k \in Keys, Resume(k) PROVE Steady
    <2>1. k \in Int
      BY Bounds DEF Keys
    <2> QED
      BY <1>2, <1>4, <2>1, PumpSteady DEF Resume
  <1>5. CASE Unsuspend \/ Activate
    BY <1>1, <1>5, PumpSteady DEF Unsuspend, Activate
  <1>6. CASE Suspend \/ Dispose
    BY <1>6 DEF Suspend, Dispose, Steady
  <1>7. CASE Forget
    BY <1>1, <1>7 DEF Forget, Steady
  <1>8. ASSUME NEW k \in Keys, Pause(k) \/ Remove(k) PROVE Steady
    <2>1. PICK st \in {"paused", "absent"} : state' = [state EXCEPT ![k] = st]
      BY <1>8 DEF Pause, Remove, Stop
    <2>2. active' = active /\ (aborted => aborted')
      BY <1>8 DEF Pause, Remove, Stop
    <2> QED
      BY <1>1, <2>1, <2>2 DEF Steady
  <1> QED
    BY <1>3, <1>4, <1>5, <1>6, <1>7, <1>8

\* The transfers follow an operation of the queue.
LEMMA Followed ==
    ASSUME QueueInv, PageInv, Steady, Follow,
           source' \in [Keys -> Files \cup {None}], \A l \in Keys : l > added' => source'[l] = None,
           \A l \in Keys : source'[l] = source[l] \/ state[l] = "absent"
    PROVE  PageInv'
  <1>1. \A l \in Keys : source'[l] # None /\ state'[l] = "done" => session = "READY"
    BY DEF Steady, PageInv, DoneIsReady
  <1>2. active \in Keys \cup {None} /\ None \notin Keys
    BY Bounds DEF QueueInv, TypeOK, Keys
  <1>3. AwaitInv /\ file \in [{page} -> Files] /\ phase \in [{page} -> Transfer!Phases]
        /\ (phase[page] = "done" => session = "READY")
    BY DEF PageInv
  <1>4. active # None => source'[active] = source[active] \/ (aborted /\ aborted')
    BY <1>2 DEF QueueInv, ActiveInv, Steady
  <1>5. CASE active = None /\ active' # None /\ Begin(active')
    <2>1. Over
      BY <1>5 DEF PageInv, TransferIsActive, Ours
    <2>2. active' \in Keys /\ ~aborted'
      BY <1>5 DEF Steady
    <2> QED
      BY <1>1, <1>2, <1>5, <2>1, <2>2, Begun
  <1>6. CASE aborted' /\ ~aborted /\ Ours(active) /\ ~Over /\ Transfer!Pause(page)
    <2>1. UNCHANGED <<session, file>> /\ phase' = [phase EXCEPT ![page] = "idle"] /\ Transfer!LetGo(page)
      BY <1>6 DEF Transfer!Pause, Transfer!Set
    <2>2. phase' \in [{page} -> Transfer!Phases] /\ phase'[page] = "idle"
      BY <1>3, <2>1 DEF Transfer!Phases
    <2>3. AwaitInv'
      BY <1>3, <2>1, LetGone
    <2> QED
      BY <1>1, <1>3, <1>6, <2>1, <2>2, <2>3 DEF PageInv, TransferIsActive, Over, DoneIsReady
  <1>7. CASE /\ active = None => active' = None
             /\ aborted' /\ ~aborted /\ Ours(active) => Over
             /\ UNCHANGED transfer
    <2>1. UNCHANGED <<session, serving, net, file, phase>>
      BY <1>7 DEF transfer
    <2>2. AwaitInv'
      BY <1>3, <2>1 DEF AwaitInv, Request, Awaits
    <2>3. TransferIsActive' /\ (Ours(active) /\ ~aborted => phase[page] # "idle")'
      <3>1. CASE active = None
        BY <1>7, <2>1, <3>1 DEF PageInv, TransferIsActive, Over, Ours
      <3>2. CASE active # None
        <4>1. active' = active /\ (aborted => aborted')
          BY <3>2 DEF Steady
        <4>2. CASE aborted
          BY <2>1, <4>1, <4>2 DEF PageInv, TransferIsActive, Over
        <4>3. CASE ~aborted
          <5>1. source'[active] = source[active]
            BY <1>4, <3>2, <4>3
          <5> QED
            BY <1>7, <2>1, <4>1, <4>3, <5>1 DEF PageInv, TransferIsActive, Over, Ours
        <4> QED
          BY <4>2, <4>3
      <3> QED
        BY <3>1, <3>2
    <2> QED
      BY <1>1, <1>3, <2>1, <2>2, <2>3 DEF PageInv, DoneIsReady
  <1> QED
    BY <1>5, <1>6, <1>7 DEF Follow

LEMMA AddFileStep == ASSUME QueueInv, PageInv, AddFile PROVE PageInv'
  <1>1. PICK f \in Files \cup {None} : source' = [source EXCEPT ![added + 1] = f]
    BY DEF AddFile
  <1>2. Add /\ Follow /\ added' = added + 1 /\ added \in Nat
    BY DEF AddFile, Add, QueueInv, TypeOK
  <1>3. source \in [Keys -> Files \cup {None}] /\ \A k \in Keys : k > added => source[k] = None
    BY DEF PageInv
  <1>4. source' \in [Keys -> Files \cup {None}]
    BY <1>1, <1>3
  <1>5. \A l \in Keys : source'[l] = source[l] \/ state[l] = "absent"
    BY <1>1, <1>2, <1>3, Bounds DEF QueueInv, ActiveInv, Keys
  <1>6. \A l \in Keys : l > added' => source'[l] = None
    BY <1>1, <1>2, <1>3, Bounds DEF Keys
  <1>7. Steady
    BY <1>2, OperationSteady
  <1> QED
    BY <1>2, <1>4, <1>5, <1>6, <1>7, Followed

LEMMA OperateStep == ASSUME QueueInv, PageInv, Operate PROVE PageInv'
  <1>1. Steady
    BY OperationSteady DEF Operate
  <1>2. source' = source /\ added' = added
    BY DEF Operate, Suspend, Unsuspend, Dispose, Activate, Forget, Pause, Remove, Resume, Stop
  <1> QED
    BY <1>1, <1>2, Followed DEF Operate, PageInv

LEMMA GoOnStep == ASSUME QueueInv, PageInv, GoOn PROVE PageInv'
  <1>1. /\ active \in Keys /\ active # None /\ state \in [Keys -> States]
        /\ source' = source /\ added' = added
    BY DEF GoOn, Settle, QueueInv, TypeOK, States
  <1>2. Over
    BY DEF GoOn, PageInv, TransferIsActive
  <1>3. PICK outcome \in {"done", "error"} :
           /\ Pumped(Settled(outcome), suspended, disposed)
           /\ Ours(active) => outcome = IF phase[page] = "failed" THEN "error" ELSE "done"
    <2>1. CASE Ours(active)
      BY <2>1 DEF GoOn
    <2>2. CASE ~Ours(active)
      BY <2>2 DEF GoOn, Settle
    <2> QED
      BY <2>1, <2>2
  <1> DEFINE st == Settled(outcome)
  <1>4. st \in [Keys -> States]
    BY <1>1 DEF Settled, States
  <1>5. \A k \in Keys : st[k] = "done" => state[k] = "done" \/ (k = active /\ ~aborted /\ outcome = "done")
    BY <1>1 DEF Settled
  <1>6. \A k \in Keys : source[k] # None /\ st[k] = "done" => session = "READY"
    <2> SUFFICES ASSUME NEW k \in Keys, source[k] # None, st[k] = "done" PROVE session = "READY"
      OBVIOUS
    <2>1. CASE state[k] = "done"
      BY <2>1 DEF PageInv, DoneIsReady
    <2>2. CASE k = active /\ ~aborted /\ outcome = "done"
      <3>1. Ours(active)
        BY <1>1, <2>2 DEF Ours
      <3>2. phase[page] # "failed" /\ phase[page] # "idle"
        BY <1>3, <2>2, <3>1 DEF PageInv
      <3>3. phase[page] = "done"
        BY <1>2, <3>2 DEF Over
      <3> QED
        BY <3>3 DEF PageInv
    <2> QED
      BY <1>5, <2>1, <2>2
  <1> HIDE DEF st
  <1>7. CASE suspended \/ disposed \/ WaitingOf(st) = {}
    <2>1. state' = st /\ active' = None /\ ~aborted'
      BY <1>3, <1>7 DEF Pumped, st
    <2>2. UNCHANGED <<session, serving, net, file, phase>>
      BY <2>1 DEF GoOn, transfer
    <2>3. AwaitInv'
      BY <2>2 DEF PageInv, AwaitInv, Request, Awaits
    <2>4. TransferIsActive' /\ ~ Ours(active)'
      BY <1>2, <2>1, <2>2 DEF TransferIsActive, Over, Ours
    <2>5. DoneIsReady'
      BY <1>1, <1>6, <2>1, <2>2 DEF DoneIsReady
    <2> QED
      BY <1>1, <2>2, <2>3, <2>4, <2>5 DEF PageInv
  <1>8. CASE ~(suspended \/ disposed \/ WaitingOf(st) = {})
    <2>1. PICK k \in WaitingOf(st) : state' = [st EXCEPT ![k] = "uploading"] /\ active' = k /\ aborted' = FALSE
      BY <1>3, <1>8 DEF Pumped, st
    <2>2. k \in Keys /\ k # None
      BY Bounds DEF WaitingOf, Keys
    <2>3. \A l \in Keys : state'[l] = "done" => st[l] = "done"
      BY <1>4, <2>1, <2>2
    <2>4. Begin(k)
      BY <2>1, <2>2 DEF GoOn
    <2>5. \A l \in Keys : source'[l] # None /\ state'[l] = "done" => session = "READY"
      BY <1>1, <1>6, <2>3
    <2>6. source' \in [Keys -> Files \cup {None}] /\ \A l \in Keys : l > added' => source'[l] = None
      BY <1>1 DEF PageInv
    <2> QED
      BY <1>2, <2>1, <2>2, <2>4, <2>5, <2>6, Begun
  <1> QED
    BY <1>7, <1>8

LEMMA PageStart == PageInit => QueueInv /\ PageInv
  <1> SUFFICES ASSUME PageInit PROVE QueueInv /\ PageInv
    OBVIOUS
  <1>1. QueueInv
    BY QueueInit DEF PageInit
  <1>2. /\ source = [k \in Keys |-> None] /\ active = None
        /\ net = {} /\ serving = Nothing
        /\ file = [t \in {page} |-> CHOOSE f \in Files : TRUE] /\ phase = [t \in {page} |-> "idle"]
    BY DEF PageInit, Init, Transfer!Init
  <1>3. phase \in [{page} -> Transfer!Phases] /\ phase[page] = "idle"
    BY <1>2 DEF Transfer!Phases
  <1>4. file \in [{page} -> Files]
    BY <1>2, Named
  <1>5. AwaitInv
    BY <1>2 DEF AwaitInv
  <1>6. TransferIsActive /\ ~ Ours(active) /\ DoneIsReady
    BY <1>2, <1>3 DEF TransferIsActive, Over, Ours, DoneIsReady
  <1> QED
    BY <1>1, <1>2, <1>3, <1>4, <1>5, <1>6 DEF PageInv

\* Each step of the page is one of the queue, and one of its transfers, or leaves
\* them alone.
LEMMA PageParts ==
    ASSUME PageNext
    PROVE  /\ [Next]_vars
           /\ (\E t \in {page} : Transfer!Start(t) \/ Transfer!Pause(t) \/ Transfer!Step(t))
              \/ (\E r \in net : Transfer!Handle(r))
              \/ Transfer!Flush \/ Transfer!EndChunk \/ Transfer!FailChunk \/ Transfer!EndComplete \/ Transfer!Crash
              \/ UNCHANGED transfer
  <1>1. CASE AddFile \/ Operate
    BY <1>1 DEF AddFile, Operate, Follow, Begin, Next
  <1>2. CASE GoOn
    BY <1>2 DEF GoOn, Begin, Next
  <1>3. CASE Go \/ Serve
    BY <1>3 DEF Go, Serve
  <1> QED
    BY <1>1, <1>2, <1>3 DEF PageNext

LEMMA PageStep == QueueInv /\ PageInv /\ [PageNext]_allvars => (QueueInv /\ PageInv)'
  <1> SUFFICES ASSUME QueueInv, PageInv, [PageNext]_allvars PROVE QueueInv' /\ PageInv'
    OBVIOUS
  <1>1. CASE UNCHANGED allvars
    <2>1. UNCHANGED vars /\ UNCHANGED <<source, active, aborted, added, state, session, serving, net, file, phase>>
      BY <1>1 DEF allvars, vars, transfer
    <2>2. QueueInv'
      BY <2>1, QueueStep
    <2>3. PageInv'
      BY <2>1 DEF PageInv, AwaitInv, Request, Awaits, TransferIsActive, DoneIsReady, Over, Ours
    <2> QED
      BY <2>2, <2>3
  <1>2. CASE PageNext
    <2>1. QueueInv'
      BY <1>2, PageParts, QueueStep
    <2>2. CASE Go
      <3>1. Sober
        BY <2>2, TransferGoes DEF Go, PageInv
      <3> QED
        BY <2>1, <2>2, <3>1, StandsStill DEF Go
    <2>3. CASE Serve
      <3>1. Sober
        BY <2>3, SessionServes DEF Serve, PageInv
      <3> QED
        BY <2>1, <2>3, <3>1, StandsStill DEF Serve
    <2> QED
      BY <1>2, <2>1, <2>2, <2>3, AddFileStep, GoOnStep, OperateStep DEF PageNext
  <1> QED
    BY <1>1, <1>2

\* Only the active item's transfer goes on, and what is shown as done is complete
\* (upload-queue.ts:54, 100, 113).
THEOREM PageInvariance == PageSpec => [](QueueInv /\ PageInv)
  BY PageStart, PageStep, PTL DEF PageSpec

\* At most one transfer of the page writes to the session (upload-queue.ts:54).
THEOREM OneWriter == PageSpec => []TransferIsActive
  <1>1. PageInv => TransferIsActive
    BY DEF PageInv
  <1> QED
    BY <1>1, PageInvariance, PTL

\* What is shown as done is complete (upload-queue.ts:113).
THEOREM ShownDone == PageSpec => []DoneIsReady
  <1>1. PageInv => DoneIsReady
    BY DEF PageInv
  <1> QED
    BY <1>1, PageInvariance, PTL

\* The page is a queue, and its transfers are transfers: what UploadQueue and
\* UploadTransfer keep is kept by the page (VideoWorkspace.tsx:75).
THEOREM PageImplements == PageSpec => Init /\ [][Next]_vars /\ Transfer!Spec
  <1>1. PageInit => Init /\ Transfer!Init
    BY DEF PageInit
  <1>2. [PageNext]_allvars => [Next]_vars
    BY PageParts DEF allvars
  <1>3. [PageNext]_allvars => [Transfer!Next]_(Transfer!vars)
    <2> SUFFICES ASSUME [PageNext]_allvars PROVE [Transfer!Next]_(Transfer!vars)
      OBVIOUS
    <2>1. UNCHANGED transfer => UNCHANGED Transfer!vars
      BY DEF transfer, Transfer!vars, Transfer!server
    <2>2. CASE UNCHANGED allvars
      BY <2>1, <2>2 DEF allvars
    <2>3. CASE PageNext
      BY <2>1, <2>3, PageParts DEF Transfer!Next
    <2> QED
      BY <2>2, <2>3
  <1> QED
    BY <1>1, <1>2, <1>3, PTL DEF PageSpec, Transfer!Spec
===============================================================================
