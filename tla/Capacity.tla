--------------------------------- MODULE Capacity ---------------------------------
(***************************************************************************)
(* Admission to the storage: who holds the admission lock measures, one    *)
(* directory after the other, what is left of all reservations and what is *)
(* in use, and is granted space if both and its own need fit the quota.    *)
(* A save of subtitles is admitted by what is in use alone.  Uploads and   *)
(* the worker write, and remove, files while somebody measures, and no     *)
(* reservation limits what the worker writes.                              *)
(*                                                                         *)
(* Space is counted in units.                                              *)
(***************************************************************************)
EXTENDS Naturals, FiniteSets

CONSTANTS
    Tenants,   \* jobs and upload sessions
    Size,      \* units of a video
    Small,     \* units of a file beside one: a record, subtitles, a thumbnail
    Margin,    \* what is asked for beyond multiples of a video (4096, 1024**2)
    Quota,     \* service_quota_bytes
    MaxDrift,  \* bound: units of Drift
    Nobody     \* none of the tenants

ASSUME SpaceUnits ==
    /\ Size \in Nat \ {0} /\ {Small, Margin, Quota, MaxDrift} \subseteq Nat
    /\ IsFiniteSet(Tenants) /\ Nobody \notin Tenants

VARIABLES
    state,      \* [Tenants -> "none", "live" (not terminal) or "ended", also without a record]
    reserved,   \* [Tenants -> reserved_bytes]
    used,       \* [Tenants -> units in its directory]
    assets,     \* units of registered videos and what belongs to them
    reading,    \* the measurement under the admission lock, Idle without one
    freed,      \* ghost: units removed during a measurement
    written,    \* ghost: units written during one
    torn,       \* ghost: units copied by registrations that were interrupted
    unreserved  \* ghost: units written that neither a reservation nor an admission paid for

spaceVars == <<state, reserved, used, assets, reading, freed, written, torn, unreserved>>

Excess(a, b) == IF a > b THEN a - b ELSE 0

\* Of amounts that every tenant has: their units, counted.
Total(f) == Cardinality(UNION {{h} \X (1 .. f[h]) : h \in Tenants})

\* Who is live may fill its reservation.
Share(h, reservation) ==
    IF state[h] = "live" THEN used[h] + Excess(reservation, used[h]) ELSE used[h]

\* What is promised in all.
Committed == assets + Total([h \in Tenants |-> Share(h, reserved[h])])

\* What nobody who measures can know of.
Drift == freed + written + torn + unreserved

-------------------------------------------------------------------------------
(***************************************************************************)
(* What is written meanwhile                                               *)
(***************************************************************************)
Idle == [kind |-> "none", of |-> Nobody, need |-> 0, override |-> 0,
         unread |-> {}, uncounted |-> {}, left |-> 0, count |-> 0]
Measuring == reading.kind # "none"
Meanwhile(n) == IF Measuring THEN n ELSE 0

\* An admission holds the lock of the job or session it is for.
Unlocked(h) == reading.of # h

\* An upload or a stage writes a unit.  A stage asks for the quota, not for what is reserved.
Grow(h) ==
    /\ Unlocked(h)
    /\ state[h] = "live"
    /\ used' = [used EXCEPT ![h] = @ + 1]
    /\ written' = written + Meanwhile(1)
    /\ unreserved' = unreserved + (IF used[h] < reserved[h] THEN 0 ELSE 1)
    /\ UNCHANGED <<state, reserved, assets, reading, freed, torn>>

\* A broken chunk is cut off, or temporary files are removed.
Shrink(h) ==
    /\ Unlocked(h)
    /\ state[h] = "live" /\ used[h] > 0
    /\ used' = [used EXCEPT ![h] = @ - 1]
    /\ freed' = freed + Meanwhile(1)
    /\ UNCHANGED <<state, reserved, assets, reading, written, torn, unreserved>>

\* The job becomes terminal; later its files expire, or it is deleted.
End(h) ==
    /\ Unlocked(h)
    /\ state[h] = "live"
    /\ state' = [state EXCEPT ![h] = "ended"]
    /\ UNCHANGED <<reserved, used, assets, reading, freed, written, torn, unreserved>>

Expire(h) ==
    /\ Unlocked(h)
    /\ state[h] = "ended" /\ used[h] > 0
    /\ used' = [used EXCEPT ![h] = 0]
    /\ freed' = freed + Meanwhile(used[h])
    /\ UNCHANGED <<state, reserved, assets, reading, written, torn, unreserved>>

\* A video is deleted, under the admission lock.
DropVideo ==
    /\ ~Measuring
    /\ \E n \in 1 .. assets : assets' = assets - n
    /\ UNCHANGED <<state, reserved, used, reading, freed, written, torn, unreserved>>

-------------------------------------------------------------------------------
(***************************************************************************)
(* Admission                                                               *)
(***************************************************************************)
\* A measurement for h: override is its reservation, need is added.
Measure(kind, h, need, override) ==
    /\ ~Measuring
    /\ reading' = [kind |-> kind, of |-> h, need |-> need, override |-> override,
                   unread |-> IF kind = "save" THEN {} ELSE Tenants, uncounted |-> Tenants, left |-> 0, count |-> 0]
    /\ UNCHANGED <<state, reserved, used, assets, freed, written, torn, unreserved>>

\* create_upload of a legacy job (StorageGuard) and of a video, and create_workflow,
\* which also asks for the subtitles it is to copy.
Create(h) ==
    /\ state[h] = "none"
    /\ \/ Measure("upload", h, 4 * Size, 4 * Size)
       \/ Measure("video", h, 2 * Size + Margin, 2 * Size + Margin)
       \/ \E more \in {0, Small} : Measure("workflow", h, 4 * Size + Margin + more, 4 * Size + Margin)

\* start_job: its reservation is one of those measured.
Start(h) == state[h] = "live" /\ Measure("start", h, 0, reserved[h])

\* retry_job: what is left of its reservation is needed again.
RetryJob(h) ==
    /\ state[h] = "ended" /\ reserved[h] > 0
    /\ Measure("retry", h, Excess(reserved[h], used[h]), reserved[h])

\* reserve_workspace: the worker knows the duration.
Expand(h) == state[h] = "live" /\ Measure("expand", h, 0, reserved[h] + 1)

\* complete_upload: the copy is paid for by the session's own reservation, and its
\* directory holds the record of the session too.
Register(h) ==
    /\ state[h] = "live" /\ reserved[h] = 2 * Size + Margin /\ used[h] \in Size .. Size + Small
    /\ Measure("register", h, Size + Margin, 0)

\* register_source and promote_video copy a video of h, and subtitles are attached
\* to a video or copied from a job.
CopyFile(h) ==
    /\ state[h] # "none"
    /\ \E need \in {Size + Margin, Small} : Measure("copy", h, need, reserved[h])
Attach == Measure("copy", Nobody, Small, 0)

\* update_subtitle_draft of a job in review or completed, and the worker's draft: what
\* is reserved is not measured.
SaveSubtitles(h) == state[h] # "none" /\ Measure("save", h, Small, reserved[h])

\* The reservations of a measurement.
Reservation(h) == IF h = reading.of THEN reading.override ELSE reserved[h]

\* Seeded defect: the overrides are not used.
RemainingPlain(h) ==
    /\ Measuring
    /\ reading.kind = "upload" => reading.uncounted = {}
    /\ h \in reading.unread
    /\ reading' = [reading EXCEPT !.unread = @ \ {h},
                                  !.left = @ + IF state[h] = "live" THEN Excess(reserved[h], used[h]) ELSE 0]
    /\ UNCHANGED <<state, reserved, used, assets, freed, written, torn, unreserved>>

\* remaining_reservations reads the record and then the directory of h.
Remaining(h) ==
    /\ Measuring
    /\ reading.kind = "upload" => reading.uncounted = {}
    /\ h \in reading.unread
    /\ reading' = [reading EXCEPT !.unread = @ \ {h},
                                  !.left = @ + IF state[h] = "live" THEN Excess(Reservation(h), used[h]) ELSE 0]
    /\ UNCHANGED <<state, reserved, used, assets, freed, written, torn, unreserved>>

\* used_bytes counts the directory of h: last, but first in StorageGuard.
Count(h) ==
    /\ Measuring
    /\ reading.kind # "upload" => reading.unread = {}
    /\ h \in reading.uncounted
    /\ reading' = [reading EXCEPT !.uncounted = @ \ {h}, !.count = @ + used[h]]
    /\ UNCHANGED <<state, reserved, used, assets, freed, written, torn, unreserved>>

Counted == Measuring /\ reading.unread = {} /\ reading.uncounted = {}
Fits == assets + reading.count + reading.left + reading.need <= Quota
Admitted == Counted /\ Fits /\ reading' = Idle

Creations == {"upload", "video", "workflow"}
Copies == {"register", "copy"}

\* The record is written, for a workflow after the copies of its inputs.
Grant ==
    /\ Admitted /\ reading.kind \notin Copies \cup {"save"}
    /\ LET h == reading.of IN
       /\ state' = IF reading.kind \in Creations \cup {"retry"} THEN [state EXCEPT ![h] = "live"] ELSE state
       /\ reserved' = [reserved EXCEPT ![h] = reading.override]
    /\ UNCHANGED <<used, assets, freed, written, torn, unreserved>>

\* The API dies before the record is there and leaves what it has copied.
Forsake ==
    /\ Admitted /\ reading.kind \in Creations
    /\ \E n \in 1 .. reading.need : used' = [used EXCEPT ![reading.of] = n]
    /\ state' = [state EXCEPT ![reading.of] = "ended"]
    /\ UNCHANGED <<reserved, assets, freed, written, torn, unreserved>>

\* The copy is published, or given up half-way.  Its thumbnail is not asked for.  A
\* session gives up its reservation.
GrantCopy ==
    /\ Admitted /\ reading.kind \in Copies
    /\ \E n \in 0 .. reading.need + Small :
          /\ assets' = assets + n
          /\ unreserved' = unreserved + Excess(n, reading.need)
    /\ reserved' = IF reading.of = Nobody THEN reserved ELSE [reserved EXCEPT ![reading.of] = reading.override]
    /\ UNCHANGED <<state, used, freed, written, torn>>

\* The API dies after a copy and before the session gives up its reservation.
Tear ==
    /\ Admitted /\ reading.kind = "register"
    /\ \E n \in 1 .. reading.need + Small : assets' = assets + n /\ torn' = torn + n
    /\ UNCHANGED <<state, reserved, used, freed, written, unreserved>>

\* Files of the draft are written, and those they replace removed.
GrantSave ==
    /\ Admitted /\ reading.kind = "save"
    /\ LET h == reading.of IN
       \E n \in 0 .. reading.need :
          /\ used' = [used EXCEPT ![h] = @ + n]
          /\ unreserved' = unreserved + (IF state[h] = "live" THEN Excess(used[h] + n, reserved[h]) - Excess(used[h], reserved[h])
                                         ELSE n)
    /\ UNCHANGED <<state, reserved, assets, freed, written, torn>>

\* Over the quota, the disk is full, or the API dies.
Refuse ==
    /\ Measuring /\ reading' = Idle
    /\ UNCHANGED <<state, reserved, used, assets, freed, written, torn, unreserved>>

SpaceInit ==
    /\ state = [h \in Tenants |-> "none"]
    /\ reserved = [h \in Tenants |-> 0]
    /\ used = [h \in Tenants |-> 0]
    /\ assets = 0 /\ freed = 0 /\ written = 0 /\ torn = 0 /\ unreserved = 0
    /\ reading = Idle

Admission(h) == Create(h) \/ Start(h) \/ RetryJob(h) \/ Expand(h) \/ Register(h) \/ CopyFile(h) \/ SaveSubtitles(h)

SpaceNext ==
    /\ \/ \E h \in Tenants : Grow(h) \/ Shrink(h) \/ End(h) \/ Expire(h)
       \/ \E h \in Tenants : Admission(h)
       \/ \E h \in Tenants : Remaining(h) \/ Count(h)
       \/ DropVideo \/ Attach
       \/ Grant \/ Forsake \/ GrantCopy \/ Tear \/ GrantSave \/ Refuse
    /\ Drift' <= MaxDrift

SpaceSpec == SpaceInit /\ [][SpaceNext]_spaceVars

-------------------------------------------------------------------------------
(***************************************************************************)
(* Properties                                                              *)
(***************************************************************************)
\* A measurement adds up what it has seen of the promises to every tenant.  What
\* it has not seen of one it has read changes only by what is written or removed.
Admissions == Creations \cup Copies \cup {"start", "retry", "expand", "save"}
Promise(h) == Share(h, Reservation(h))

\* Of a promise that has been read, and of the use that is still to be counted.
Seen(h) ==
    IF reading.kind = "upload"
    THEN IF h \in reading.uncounted THEN 0 ELSE IF h \in reading.unread THEN used[h] ELSE Promise(h)
    ELSE IF h \in reading.unread THEN 0 ELSE Promise(h)
Uncounted(h) ==
    IF reading.kind # "upload" /\ h \in reading.uncounted /\ h \notin reading.unread THEN used[h] ELSE 0

\* What a registration may still add up.
Outstanding(h) ==
    IF h \in reading.unread THEN Promise(h) ELSE IF h \in reading.uncounted THEN used[h] ELSE 0

Readings == [kind : Admissions, of : Tenants \cup {Nobody}, need : Nat, override : Nat,
             unread : SUBSET Tenants, uncounted : SUBSET Tenants, left : Nat, count : Nat]

SpaceTypes ==
    /\ state \in [Tenants -> {"none", "live", "ended"}]
    /\ reserved \in [Tenants -> Nat] /\ used \in [Tenants -> Nat]
    /\ assets \in Nat /\ freed \in Nat /\ written \in Nat /\ torn \in Nat /\ unreserved \in Nat
    /\ \/ reading = Idle
       \/ reading \in Readings

\* What is needed pays for what will be promised more, and its order is kept.
ReadingInv ==
    Measuring =>
       LET h == reading.of IN
       /\ reading.kind # "copy" => h \in Tenants
       /\ reading.kind \in Creations => state[h] = "none" /\ reading.need >= reading.override
       /\ reading.kind \in {"start", "expand"} => state[h] = "live" /\ reading.need = 0
       /\ reading.kind = "retry" => state[h] = "ended" /\ reading.need = Excess(reading.override, used[h])
       /\ reading.kind \in {"copy", "save"} /\ h \in Tenants => reading.override = reserved[h]
       /\ reading.kind = "register" =>
             /\ state[h] = "live" /\ reading.override = 0
             /\ reading.need = Size + Margin /\ used[h] \in Size .. Size + Small
       /\ IF reading.kind = "upload" THEN reading.uncounted # {} => reading.unread = Tenants
                                     ELSE reading.unread # {} => reading.uncounted = Tenants

\* No promise is lost between its two readings, except for the drift.
LowerInv ==
    Measuring /\ reading.kind # "save" =>
       Total([h \in Tenants |-> Seen(h)])
          <= reading.left + reading.count + Total([h \in Tenants |-> Uncounted(h)]) + freed + written

\* And none is read twice by a registration.
UpperInv ==
    Measuring /\ reading.kind = "register" =>
       assets + reading.need + reading.left + reading.count + Total([h \in Tenants |-> Outstanding(h)])
          <= Quota + Small + Drift

\* What is promised exceeds the quota by no more than what was written or removed
\* while somebody measured, copied by interrupted registrations, or written without a
\* reservation, as saves of subtitles are: reservations that are read before what is
\* in use only miss what was removed in between, and StorageGuard, which reads them
\* after it, what was written (capacity.py:70, storage_guard.py:28, routes.py:274).
CommittedFits == Committed <= Quota + Drift

\* Registering an upload never fails for want of quota, except for the same drift and
\* the session's own record: a reservation of twice its size and a margin pays for the
\* copy and its margin (video_upload_routes.py:63, 149).
RegistrationFits ==
    Counted /\ reading.kind = "register" =>
       assets + reading.count + reading.left + reading.need <= Quota + Small + Drift

\* docs/upload-capacity.md:5: admission under its lock checks usage and remaining
\* reservations against the quota; so, while nothing is removed, torn or written
\* without a reservation, nobody is promised more.
\* The code does not keep this (README.md, Divergences).
NotOversubscribed == freed = 0 /\ torn = 0 /\ unreserved = 0 => Committed <= Quota

\* Admission is sound: nobody is promised what is not there, nobody who has paid
\* is refused, except for the drift; with what every step keeps of a measurement.
SpaceSound == SpaceTypes /\ ReadingInv /\ LowerInv /\ UpperInv /\ CommittedFits /\ RegistrationFits
===============================================================================
