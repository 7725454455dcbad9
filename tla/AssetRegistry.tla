------------------------------ MODULE AssetRegistry ------------------------------
(***************************************************************************)
(* Videos, the uploads and jobs they come from and the jobs that refer to  *)
(* them.  Registering, promoting, deleting and creating a workflow write   *)
(* several files one after the other; they hold the admission lock, so     *)
(* there is one of them at a time.  Deleting a job, the worker and the     *)
(* collection of orphans do not hold it.  A process may die, and a write   *)
(* fail, between any two steps.                                            *)
(*                                                                         *)
(* How bytes arrive is UploadTransfer, what a job does JobLifecycle.       *)
(***************************************************************************)
EXTENDS Naturals

CONSTANTS
    Sessions,    \* upload sessions (.uploads)
    Legacy,      \* jobs that were created with a video of their own
    Workflows,   \* jobs that refer to a registered video
    MaxCrashes,  \* bound: deaths and failing writes
    None

Jobs == Legacy \cup Workflows
Holders == Sessions \cup Jobs

\* Identities of videos (uuid5): one per upload or legacy job and one per result.
Assets == [kind : {"upload"}, of : Sessions \cup Legacy] \cup [kind : {"result"}, of : Jobs]
Original(x) == [kind |-> "upload", of |-> x]
ResultOf(j) == [kind |-> "result", of |-> j]

Ops == [kind : {"register", "promote", "drop", "discard", "create"}, of : Holders \cup {None},
        video : Assets \cup {None}, at : {"copy", "rename", "publish", "link", "session", "files", "save"}]

ASSUME Kinds ==
    /\ Sessions \cap Jobs = {} /\ Legacy \cap Workflows = {}
    /\ None \notin Holders \cup Assets \cup Ops
    /\ MaxCrashes \in Nat

VARIABLES
    asset,     \* [Assets -> what its directory holds]
    disk,      \* [Holders -> what its directory holds]
    status,    \* [Holders -> status in its record]
    link,      \* [Holders -> asset_id in its record]
    op,        \* the operation that holds the admission lock
    dropping,  \* jobs that delete_job is removing
    crashes    \* bound

vars == <<asset, disk, status, link, op, dropping, crashes>>

Recorded(x) == "record" \in disk[x]
Listed(a) == "manifest" \in asset[a]
Whole(a) == {"source", "manifest"} \subseteq asset[a]
Referenced(a) == \E j \in Jobs : Recorded(j) /\ link[j] = a

\* The operation under way holds no locks of job j, and is not creating it.
Untouched(j) == op # None => op.of # j

\* The execution lock of job j is free.
Free(j) == j \notin dropping /\ status[j] # "RUNNING"

Begin(kind, x, a, at) == op = None /\ op' = [kind |-> kind, of |-> x, video |-> a, at |-> at]
At(at) == op # None /\ op.at = at
Goto(at) == op' = [op EXCEPT !.at = at]
Add(f, x, p) == [f EXCEPT ![x] = @ \cup {p}]
Drop(f, x, p) == [f EXCEPT ![x] = @ \ {p}]

-------------------------------------------------------------------------------
(***************************************************************************)
(* Uploads and jobs                                                        *)
(***************************************************************************)
\* A session or legacy job whose bytes have arrived.
Upload(x) ==
    /\ x \notin Workflows
    /\ disk[x] = {} /\ status[x] = "new"
    /\ disk' = [disk EXCEPT ![x] = {"record", "files"}]
    /\ status' = [status EXCEPT ![x] = IF x \in Sessions THEN "UPLOADING" ELSE "READY"]
    /\ UNCHANGED <<asset, link, op, dropping, crashes>>

\* The worker takes a job, and ends it.
Work(j) ==
    /\ Recorded(j) /\ j \notin dropping
    /\ \/ /\ status[j] \in {"READY", "QUEUED"} /\ Untouched(j)
          /\ status' = [status EXCEPT ![j] = "RUNNING"]
       \/ status[j] = "RUNNING" /\ status' = [status EXCEPT ![j] = "COMPLETED"]
    /\ UNCHANGED <<asset, disk, link, op, dropping, crashes>>

\* delete_job up to rmtree.
BeginDropJob(j) ==
    /\ Recorded(j) /\ status[j] = "COMPLETED" /\ j \notin dropping
    /\ Untouched(j)
    /\ dropping' = dropping \cup {j}
    /\ UNCHANGED <<asset, disk, status, link, op, crashes>>

DropJob(j) ==
    /\ j \in dropping
    /\ \E p \in disk[j] : disk' = Drop(disk, j, p)
    /\ dropping' = IF disk'[j] = {} THEN dropping \ {j} ELSE dropping
    /\ UNCHANGED <<asset, status, link, op, crashes>>

\* collect_orphans removes a directory without a record whose locks are free; nothing
\* is created for longer than its grace period.  When it does is OrphanCollection.
Collectable(j) == disk[j] # {} /\ ~Recorded(j) /\ j \notin dropping /\ Untouched(j)

Collect(j) ==
    /\ Collectable(j)
    /\ disk' = [disk EXCEPT ![j] = {}]
    /\ UNCHANGED <<asset, status, link, op, dropping, crashes>>

-------------------------------------------------------------------------------
(***************************************************************************)
(* Registration: the manifest is published last, the link after it         *)
(***************************************************************************)
\* complete_upload and register_upload up to the copy.  What is linked already is
\* answered at once; what is published already has only its link to be written.
BeginRegister(x) ==
    /\ x \in Sessions \cup Legacy
    /\ disk[x] = {"record", "files"}
    /\ link[x] = None
    /\ x \in Jobs => Free(x)
    /\ status' = IF status[x] = "UPLOADING" THEN [status EXCEPT ![x] = "READY"] ELSE status
    /\ Begin("register", x, Original(x), IF Listed(Original(x)) THEN "link" ELSE "copy")
    /\ UNCHANGED <<asset, disk, link, dropping, crashes>>

\* promote_result up to the copy.
BeginPromote(j) ==
    /\ disk[j] = {"record", "files"}
    /\ status[j] = "COMPLETED" /\ j \notin dropping
    /\ ~Listed(ResultOf(j))
    /\ Begin("promote", j, ResultOf(j), "copy")
    /\ UNCHANGED <<asset, disk, status, link, dropping, crashes>>

Copy ==
    /\ At("copy")
    /\ asset' = Add(asset, op.video, "tmp")
    /\ Goto("rename")
    /\ UNCHANGED <<disk, status, link, dropping, crashes>>

Rename ==
    /\ At("rename")
    /\ asset' = [asset EXCEPT ![op.video] = (@ \ {"tmp"}) \cup {"source"}]
    /\ Goto("publish")
    /\ UNCHANGED <<disk, status, link, dropping, crashes>>

Publish ==
    /\ At("publish")
    /\ asset' = Add(asset, op.video, "manifest")
    /\ IF op.kind = "register" THEN Goto("link") ELSE op' = None
    /\ UNCHANGED <<disk, status, link, dropping, crashes>>

Link ==
    /\ At("link")
    /\ link' = [link EXCEPT ![op.of] = op.video]
    /\ op' = None
    /\ UNCHANGED <<asset, disk, status, dropping, crashes>>

-------------------------------------------------------------------------------
(***************************************************************************)
(* Workflows                                                               *)
(***************************************************************************)
\* create_workflow up to its record: directories and copies of the inputs.
BeginCreate(j, a) ==
    /\ j \in Workflows
    /\ disk[j] = {} /\ status[j] = "new"
    /\ Whole(a)
    /\ disk' = Add(disk, j, "files")
    /\ Begin("create", j, a, "save")
    /\ UNCHANGED <<asset, status, link, dropping, crashes>>

SaveJob ==
    /\ At("save")
    /\ disk' = Add(disk, op.of, "record")
    /\ link' = [link EXCEPT ![op.of] = op.video]
    /\ status' = [status EXCEPT ![op.of] = "QUEUED"]
    /\ op' = None
    /\ UNCHANGED <<asset, dropping, crashes>>

-------------------------------------------------------------------------------
(***************************************************************************)
(* Deletion                                                                *)
(***************************************************************************)
\* Seeded defect: the staging session stays.
BeginDropAlone(a) ==
    /\ Listed(a)
    /\ ~Referenced(a)
    /\ Begin("drop", None, a, "files")
    /\ UNCHANGED <<asset, disk, status, link, dropping, crashes>>

\* VideoAssetRepository.delete up to what it removes first: the staging session
\* of an uploaded video, which must refer to it.
BeginDrop(a) ==
    /\ Listed(a)
    /\ ~Referenced(a)
    /\ IF a.of \in Sessions /\ Recorded(a.of)
       THEN link[a.of] = a /\ Begin("drop", a.of, a, "session")
       ELSE Begin("drop", None, a, "files")
    /\ UNCHANGED <<asset, disk, status, link, dropping, crashes>>

\* delete_upload up to rmtree.
BeginDiscard(s) ==
    /\ Recorded(s) /\ link[s] = None
    /\ ~Listed(Original(s))
    /\ Begin("discard", s, None, "session")
    /\ UNCHANGED <<asset, disk, status, link, dropping, crashes>>

\* rmtree of a session, in any order.
DropSession ==
    /\ At("session")
    /\ \E p \in disk[op.of] : disk' = Drop(disk, op.of, p)
    /\ CASE disk'[op.of] # {} -> UNCHANGED op
         [] disk'[op.of] = {} /\ op.kind = "drop" -> Goto("files")
         [] OTHER -> op' = None
    /\ UNCHANGED <<asset, status, link, dropping, crashes>>

\* rmtree of a video, in any order.
DropFiles ==
    /\ At("files")
    /\ \E p \in asset[op.video] : asset' = Drop(asset, op.video, p)
    /\ IF asset'[op.video] = {} THEN op' = None ELSE UNCHANGED op
    /\ UNCHANGED <<disk, status, link, dropping, crashes>>

-------------------------------------------------------------------------------
\* A write fails: what follows is not done, and the copy is removed.
Fail ==
    /\ op # None
    /\ crashes < MaxCrashes /\ crashes' = crashes + 1
    /\ asset' = IF op.kind \in {"register", "promote"} THEN Drop(asset, op.video, "tmp") ELSE asset
    /\ op' = None
    /\ UNCHANGED <<disk, status, link, dropping>>

\* The API dies.
Crash ==
    /\ op # None \/ dropping # {}
    /\ crashes < MaxCrashes /\ crashes' = crashes + 1
    /\ op' = None
    /\ dropping' = {}
    /\ UNCHANGED <<asset, disk, status, link>>

Init ==
    /\ asset = [a \in Assets |-> {}]
    /\ disk = [x \in Holders |-> {}]
    /\ status = [x \in Holders |-> "new"]
    /\ link = [x \in Holders |-> None]
    /\ op = None
    /\ dropping = {}
    /\ crashes = 0

Going == Copy \/ Rename \/ Publish \/ Link \/ SaveJob \/ DropSession \/ DropFiles

\* All but the collection of orphans.
Operations ==
    \/ \E x \in Holders : Upload(x) \/ BeginRegister(x)
    \/ \E j \in Jobs : Work(j) \/ BeginDropJob(j) \/ DropJob(j) \/ BeginPromote(j)
    \/ \E j \in Workflows, a \in Assets : BeginCreate(j, a)
    \/ \E a \in Assets : BeginDrop(a)
    \/ \E s \in Sessions : BeginDiscard(s)
    \/ Going \/ Fail \/ Crash

Next == Operations \/ \E j \in Jobs : Collect(j)

Spec == Init /\ [][Next]_vars

-------------------------------------------------------------------------------
(***************************************************************************)
(* Properties                                                              *)
(***************************************************************************)
\* Every variable has its type.
TypeOK ==
    /\ asset \in [Assets -> SUBSET {"tmp", "source", "manifest"}]
    /\ disk \in [Holders -> SUBSET {"record", "files"}]
    /\ status \in [Holders -> {"new", "UPLOADING", "READY", "QUEUED", "RUNNING", "COMPLETED"}]
    /\ link \in [Holders -> Assets \cup {None}]
    /\ op \in Ops \cup {None}
    /\ dropping \subseteq Jobs
    /\ crashes \in Nat

\* A workflow that refers to a video finds it whole, whenever the video is deleted
\* and whatever is interrupted (assets.py:147, workflow_routes.py:67).
References == \A j \in Workflows : Recorded(j) /\ link[j] # None => Whole(link[j])

Taken(a) == \E j \in Workflows : Recorded(j) /\ link[j] = a

\* A session says it is registered only while its video is there
\* (assets.py:116, 159).
SessionsRefer == \A s \in Sessions : Recorded(s) /\ link[s] # None => Whole(link[s])

\* A video that was published while its session was not linked keeps that session
\* whole, so that completing it again links it: neither can be deleted before
\* (video_upload_routes.py:97, assets.py:155).
NeverStuck ==
    \A s \in Sessions : Recorded(s) /\ link[s] = None /\ Listed(Original(s)) => "files" \in disk[s]

\* An uploaded video without its source is one whose deletion was interrupted, and
\* the session that would have to agree is gone: it can be deleted again, and is
\* never taken for the published copy of a session (assets.py:155, 160).
Redeletable ==
    \A s \in Sessions : Listed(Original(s)) /\ "source" \notin asset[Original(s)] => ~Recorded(s)

\* What the operation under way has seen still holds, for it holds the lock.
OpInv ==
    /\ op.at \in {"copy", "rename", "publish", "link"} =>
          /\ op.kind \in {"register", "promote"} /\ op.video \in Assets
          /\ op.of \in Sessions => disk[op.of] = {"record", "files"} /\ link[op.of] = None
    /\ op.at \in {"copy", "rename", "publish"} => ~Listed(op.video)
    /\ op.at = "publish" => "source" \in asset[op.video]
    /\ op.kind = "register" => op.of \in Sessions \cup Legacy /\ op.video = Original(op.of)
    /\ op.kind = "promote" => op.of \in Jobs /\ op.video = ResultOf(op.of) /\ op.at # "link"
    /\ op.at = "link" => op.kind = "register" /\ (op.of \in Sessions => Whole(op.video))
    /\ op.at = "session" =>
          /\ op.of \in Sessions /\ status[op.of] # "new"
          /\ op.kind = "drop" => op.video = Original(op.of) /\ ~Taken(op.video) /\ link[op.of] # None
          /\ op.kind # "drop" => link[op.of] = None /\ ~Listed(Original(op.of))
    /\ op.at = "files" =>
          /\ op.video \in Assets /\ ~Taken(op.video)
          /\ op.video.of \in Sessions => ~Recorded(op.video.of) /\ status[op.video.of] # "new"
    /\ op.at = "save" => op.of \in Workflows /\ op.video \in Assets /\ Whole(op.video)

\* A session that is yet to come has left nothing, and a registered one refers to
\* its own video.
SessionInv ==
    \A s \in Sessions :
        /\ status[s] = "new" => disk[s] = {} /\ link[s] = None /\ ~Listed(Original(s))
        /\ link[s] \in {None, Original(s)}

\* The inductive invariant: the properties above, each kept by what the operation
\* that holds the admission lock has checked.
RegistryInv ==
    /\ TypeOK /\ References /\ SessionsRefer /\ NeverStuck /\ Redeletable /\ SessionInv
    /\ op # None => OpInv

\* docs/mvp2-plan.md:20: sources are not removed underneath the jobs that refer to
\* them, here of legacy jobs that were registered.
\* The code does not keep this (README.md, Divergences).
LegacyReferences == \A j \in Legacy : Recorded(j) /\ link[j] # None => Whole(link[j])
===============================================================================
