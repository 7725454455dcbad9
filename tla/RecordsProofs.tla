------------------------------ MODULE RecordsProofs ------------------------------
(***************************************************************************)
(* What the service keeps and whom it asks: the asset registry, the model  *)
(* settings, the paid calls and the storage.                               *)
(*                                                                         *)
(* RegistryInv is inductive: each operation keeps what the others rely on, *)
(* because what it has checked under the admission lock stays true until   *)
(* it ends (OpInv).  Every step lemma has one step per part of RegistryInv.*)
(***************************************************************************)
EXTENDS AssetRegistry, ModelSettings, ModelRequests, Capacity, FiniteSetTheorems, TLAPS

\* The video of an upload or a legacy job is one of the videos.
LEMMA OriginalIsAsset == \A x \in Sessions \cup Legacy : Original(x) \in Assets
  BY DEF Original, Assets

\* In the beginning there is nothing.
LEMMA RegistryInit == Init => RegistryInv
  <1> SUFFICES ASSUME Init PROVE RegistryInv
    OBVIOUS
  <1>1. TypeOK
    BY Kinds DEF Init, TypeOK
  <1>2. References /\ SessionsRefer /\ NeverStuck /\ Redeletable
    BY DEF Init, References, SessionsRefer, NeverStuck, Redeletable, Recorded, Holders, Jobs
  <1>3. SessionInv
    BY OriginalIsAsset DEF Init, SessionInv, Listed, Holders
  <1> QED
    BY <1>1, <1>2, <1>3 DEF Init, RegistryInv

\* An upload arrives: a session that is new has left nothing.
LEMMA UploadStep == ASSUME RegistryInv, NEW x \in Holders, Upload(x) PROVE RegistryInv'
  <1> USE DEF RegistryInv
  <1>1. TypeOK'
    BY Kinds DEF Upload, TypeOK, Ops, Assets, Recorded, Listed, Whole, Original, ResultOf, Taken, Add, Drop, Holders, Jobs
  <1>2. References'
    BY Kinds DEF Upload, TypeOK, References, OpInv, Recorded, Listed, Whole, Original, ResultOf, Taken, Add, Drop, Holders, Jobs
  <1>3. SessionsRefer' /\ NeverStuck' /\ Redeletable'
    BY Kinds DEF Upload, TypeOK, SessionsRefer, NeverStuck, Redeletable, SessionInv, OpInv, Recorded, Listed, Whole, Original, ResultOf, Taken, Add, Drop, Holders, Jobs
  <1>4. SessionInv'
    BY Kinds DEF Upload, TypeOK, SessionInv, OpInv, Recorded, Listed, Whole, Original, ResultOf, Taken, Add, Drop, Holders, Jobs
  <1>5. (op # None => OpInv)'
    BY Kinds DEF Upload, TypeOK, References, SessionsRefer, Redeletable, SessionInv, OpInv, Ops, Recorded, Listed, Whole, Original, ResultOf, Taken, Add, Drop, Holders, Jobs
  <1> QED
    BY <1>1, <1>2, <1>3, <1>4, <1>5

\* The worker takes a job or ends it.
LEMMA WorkStep == ASSUME RegistryInv, NEW j \in Jobs, Work(j) PROVE RegistryInv'
  <1> USE DEF RegistryInv
  <1>1. TypeOK'
    BY Kinds DEF Work, TypeOK, Ops, Assets, Recorded, Listed, Whole, Original, ResultOf, Taken, Add, Drop, Holders, Jobs
  <1>2. References'
    BY Kinds DEF Work, TypeOK, References, OpInv, Recorded, Listed, Whole, Original, ResultOf, Taken, Add, Drop, Holders, Jobs
  <1>3. SessionsRefer' /\ NeverStuck' /\ Redeletable'
    BY Kinds DEF Work, TypeOK, SessionsRefer, NeverStuck, Redeletable, SessionInv, OpInv, Recorded, Listed, Whole, Original, ResultOf, Taken, Add, Drop, Holders, Jobs
  <1>4. SessionInv'
    BY Kinds DEF Work, TypeOK, SessionInv, OpInv, Recorded, Listed, Whole, Original, ResultOf, Taken, Add, Drop, Holders, Jobs
  <1>5. (op # None => OpInv)'
    BY Kinds DEF Work, TypeOK, References, SessionsRefer, Redeletable, SessionInv, OpInv, Ops, Recorded, Listed, Whole, Original, ResultOf, Taken, Add, Drop, Holders, Jobs
  <1> QED
    BY <1>1, <1>2, <1>3, <1>4, <1>5

\* The removal of a job begins.
LEMMA BeginDropJobStep == ASSUME RegistryInv, NEW j \in Jobs, BeginDropJob(j) PROVE RegistryInv'
  <1> USE DEF RegistryInv
  <1>1. TypeOK'
    BY Kinds DEF BeginDropJob, TypeOK, Ops, Assets, Recorded, Listed, Whole, Original, ResultOf, Taken, Add, Drop, Holders, Jobs
  <1>2. References'
    BY Kinds DEF BeginDropJob, TypeOK, References, OpInv, Recorded, Listed, Whole, Original, ResultOf, Taken, Add, Drop, Holders, Jobs
  <1>3. SessionsRefer' /\ NeverStuck' /\ Redeletable'
    BY Kinds DEF BeginDropJob, TypeOK, SessionsRefer, NeverStuck, Redeletable, SessionInv, OpInv, Recorded, Listed, Whole, Original, ResultOf, Taken, Add, Drop, Holders, Jobs
  <1>4. SessionInv'
    BY Kinds DEF BeginDropJob, TypeOK, SessionInv, OpInv, Recorded, Listed, Whole, Original, ResultOf, Taken, Add, Drop, Holders, Jobs
  <1>5. (op # None => OpInv)'
    BY Kinds DEF BeginDropJob, TypeOK, References, SessionsRefer, Redeletable, SessionInv, OpInv, Ops, Recorded, Listed, Whole, Original, ResultOf, Taken, Add, Drop, Holders, Jobs
  <1> QED
    BY <1>1, <1>2, <1>3, <1>4, <1>5

\* A part of a job is removed, its record perhaps.
LEMMA DropJobStep == ASSUME RegistryInv, NEW j \in Jobs, DropJob(j) PROVE RegistryInv'
  <1> USE DEF RegistryInv
  <1>1. TypeOK'
    BY Kinds DEF DropJob, TypeOK, Ops, Assets, Recorded, Listed, Whole, Original, ResultOf, Taken, Add, Drop, Holders, Jobs
  <1>2. References'
    BY Kinds DEF DropJob, TypeOK, References, OpInv, Recorded, Listed, Whole, Original, ResultOf, Taken, Add, Drop, Holders, Jobs
  <1>3. SessionsRefer' /\ NeverStuck' /\ Redeletable'
    BY Kinds DEF DropJob, TypeOK, SessionsRefer, NeverStuck, Redeletable, SessionInv, OpInv, Recorded, Listed, Whole, Original, ResultOf, Taken, Add, Drop, Holders, Jobs
  <1>4. SessionInv'
    BY Kinds DEF DropJob, TypeOK, SessionInv, OpInv, Recorded, Listed, Whole, Original, ResultOf, Taken, Add, Drop, Holders, Jobs
  <1>5. (op # None => OpInv)'
    BY Kinds DEF DropJob, TypeOK, References, SessionsRefer, Redeletable, SessionInv, OpInv, Ops, Recorded, Listed, Whole, Original, ResultOf, Taken, Add, Drop, Holders, Jobs
  <1> QED
    BY <1>1, <1>2, <1>3, <1>4, <1>5

\* What is collected has no record.
LEMMA CollectStep == ASSUME RegistryInv, NEW j \in Jobs, Collect(j) PROVE RegistryInv'
  <1> USE DEF RegistryInv
  <1>1. TypeOK'
    BY Kinds DEF Collect, Collectable, TypeOK, Ops, Assets, Recorded, Listed, Whole, Original, ResultOf, Taken, Add, Drop, Holders, Jobs
  <1>2. References'
    BY Kinds DEF Collect, Collectable, TypeOK, References, OpInv, Recorded, Listed, Whole, Original, ResultOf, Taken, Add, Drop, Holders, Jobs
  <1>3. SessionsRefer' /\ NeverStuck' /\ Redeletable'
    BY Kinds DEF Collect, Collectable, TypeOK, SessionsRefer, NeverStuck, Redeletable, SessionInv, OpInv, Recorded, Listed, Whole, Original, ResultOf, Taken, Add, Drop, Holders, Jobs
  <1>4. SessionInv'
    BY Kinds DEF Collect, Collectable, TypeOK, SessionInv, OpInv, Recorded, Listed, Whole, Original, ResultOf, Taken, Add, Drop, Holders, Jobs
  <1>5. (op # None => OpInv)'
    BY Kinds DEF Collect, Collectable, TypeOK, References, SessionsRefer, Redeletable, SessionInv, OpInv, Ops, Recorded, Listed, Whole, Original, ResultOf, Taken, Add, Drop, Holders, Jobs
  <1> QED
    BY <1>1, <1>2, <1>3, <1>4, <1>5

\* A registration begins with a session that is whole.
LEMMA BeginRegisterStep == ASSUME RegistryInv, NEW x \in Holders, BeginRegister(x) PROVE RegistryInv'
  <1> USE DEF RegistryInv
  <1>1. TypeOK'
    BY Kinds DEF BeginRegister, Begin, TypeOK, Ops, Assets, Recorded, Listed, Whole, Original, ResultOf, Taken, Add, Drop, Holders, Jobs
  <1>2. References'
    BY Kinds DEF BeginRegister, Begin, TypeOK, References, OpInv, Recorded, Listed, Whole, Original, ResultOf, Taken, Add, Drop, Holders, Jobs
  <1>3. SessionsRefer' /\ NeverStuck' /\ Redeletable'
    BY Kinds DEF BeginRegister, Begin, TypeOK, SessionsRefer, NeverStuck, Redeletable, SessionInv, OpInv, Recorded, Listed, Whole, Original, ResultOf, Taken, Add, Drop, Holders, Jobs
  <1>4. SessionInv'
    BY Kinds DEF BeginRegister, Begin, TypeOK, SessionInv, OpInv, Recorded, Listed, Whole, Original, ResultOf, Taken, Add, Drop, Holders, Jobs
  <1>5. (op # None => OpInv)'
    <2>1. /\ op' = [kind |-> "register", of |-> x, video |-> Original(x), at |-> IF Listed(Original(x)) THEN "link" ELSE "copy"]
          /\ x \in Sessions \cup Legacy /\ disk[x] = {"record", "files"} /\ link[x] = None
          /\ UNCHANGED <<asset, disk, link>>
      BY DEF BeginRegister, Begin
    <2>2. Original(x) \in Assets
      BY <2>1, OriginalIsAsset
    <2>3. x \in Sessions /\ Listed(Original(x)) => Whole(Original(x))
      BY <2>1 DEF Redeletable, Recorded, Listed, Whole
    <2>4. op'.at = "link" <=> Listed(Original(x))
      BY <2>1
    <2> QED
      BY <2>1, <2>2, <2>3, <2>4 DEF OpInv, Listed, Whole
  <1> QED
    BY <1>1, <1>2, <1>3, <1>4, <1>5

\* A promotion begins.
LEMMA BeginPromoteStep == ASSUME RegistryInv, NEW j \in Jobs, BeginPromote(j) PROVE RegistryInv'
  <1> USE DEF RegistryInv
  <1>1. TypeOK'
    BY Kinds DEF BeginPromote, Begin, TypeOK, Ops, Assets, Recorded, Listed, Whole, Original, ResultOf, Taken, Add, Drop, Holders, Jobs
  <1>2. References'
    BY Kinds DEF BeginPromote, Begin, TypeOK, References, OpInv, Recorded, Listed, Whole, Original, ResultOf, Taken, Add, Drop, Holders, Jobs
  <1>3. SessionsRefer' /\ NeverStuck' /\ Redeletable'
    BY Kinds DEF BeginPromote, Begin, TypeOK, SessionsRefer, NeverStuck, Redeletable, SessionInv, OpInv, Recorded, Listed, Whole, Original, ResultOf, Taken, Add, Drop, Holders, Jobs
  <1>4. SessionInv'
    BY Kinds DEF BeginPromote, Begin, TypeOK, SessionInv, OpInv, Recorded, Listed, Whole, Original, ResultOf, Taken, Add, Drop, Holders, Jobs
  <1>5. (op # None => OpInv)'
    <2>1. /\ op' = [kind |-> "promote", of |-> j, video |-> ResultOf(j), at |-> "copy"]
          /\ ~Listed(ResultOf(j)) /\ UNCHANGED <<asset, disk, link>>
      BY DEF BeginPromote, Begin
    <2>2. ResultOf(j) \in Assets /\ j \notin Sessions
      BY Kinds DEF ResultOf, Assets
    <2> QED
      BY <2>1, <2>2 DEF OpInv, Listed
  <1> QED
    BY <1>1, <1>2, <1>3, <1>4, <1>5

\* The copy is made under another name.
LEMMA CopyStep == ASSUME RegistryInv, Copy PROVE RegistryInv'
  <1> USE DEF RegistryInv
  <1>1. TypeOK'
    BY Kinds DEF Copy, At, Goto, TypeOK, Ops, Assets, Recorded, Listed, Whole, Original, ResultOf, Taken, Add, Drop, Holders, Jobs
  <1>2. References'
    BY Kinds DEF Copy, At, Goto, TypeOK, References, OpInv, Recorded, Listed, Whole, Original, ResultOf, Taken, Add, Drop, Holders, Jobs
  <1>3. SessionsRefer' /\ NeverStuck' /\ Redeletable'
    BY Kinds DEF Copy, At, Goto, TypeOK, SessionsRefer, NeverStuck, Redeletable, SessionInv, OpInv, Recorded, Listed, Whole, Original, ResultOf, Taken, Add, Drop, Holders, Jobs
  <1>4. SessionInv'
    <2>1. \A s \in Sessions : asset'[Original(s)] \cap {"manifest"} = asset[Original(s)] \cap {"manifest"}
      BY OriginalIsAsset DEF Copy, TypeOK, Add, Drop
    <2>2. \A s \in Sessions : Listed(Original(s))' <=> Listed(Original(s))
      BY <2>1 DEF Listed
    <2> QED
      BY <2>2 DEF Copy, SessionInv
  <1>5. (op # None => OpInv)'
    BY Kinds DEF Copy, At, Goto, TypeOK, References, SessionsRefer, Redeletable, SessionInv, OpInv, Ops, Recorded, Listed, Whole, Original, ResultOf, Taken, Add, Drop, Holders, Jobs
  <1> QED
    BY <1>1, <1>2, <1>3, <1>4, <1>5

\* The copy gets its name.
LEMMA RenameStep == ASSUME RegistryInv, Rename PROVE RegistryInv'
  <1> USE DEF RegistryInv
  <1>1. TypeOK'
    BY Kinds DEF Rename, At, Goto, TypeOK, Ops, Assets, Recorded, Listed, Whole, Original, ResultOf, Taken, Add, Drop, Holders, Jobs
  <1>2. References'
    BY Kinds DEF Rename, At, Goto, TypeOK, References, OpInv, Recorded, Listed, Whole, Original, ResultOf, Taken, Add, Drop, Holders, Jobs
  <1>3. SessionsRefer' /\ NeverStuck' /\ Redeletable'
    BY Kinds DEF Rename, At, Goto, TypeOK, SessionsRefer, NeverStuck, Redeletable, SessionInv, OpInv, Recorded, Listed, Whole, Original, ResultOf, Taken, Add, Drop, Holders, Jobs
  <1>4. SessionInv'
    <2>1. \A s \in Sessions : asset'[Original(s)] \cap {"manifest"} = asset[Original(s)] \cap {"manifest"}
      BY OriginalIsAsset DEF Rename, TypeOK, Add, Drop
    <2>2. \A s \in Sessions : Listed(Original(s))' <=> Listed(Original(s))
      BY <2>1 DEF Listed
    <2> QED
      BY <2>2 DEF Rename, SessionInv
  <1>5. (op # None => OpInv)'
    BY Kinds DEF Rename, At, Goto, TypeOK, References, SessionsRefer, Redeletable, SessionInv, OpInv, Ops, Recorded, Listed, Whole, Original, ResultOf, Taken, Add, Drop, Holders, Jobs
  <1> QED
    BY <1>1, <1>2, <1>3, <1>4, <1>5

\* The manifest is published: the source is there.
LEMMA PublishStep == ASSUME RegistryInv, Publish PROVE RegistryInv'
  <1> USE DEF RegistryInv
  <1>1. TypeOK'
    <2>1. op \in Ops /\ op.video \in Assets
      BY DEF Publish, At, TypeOK, OpInv
    <2>2. asset' \in [Assets -> SUBSET {"tmp", "source", "manifest"}]
      BY <2>1 DEF Publish, TypeOK, Add
    <2>3. op' \in Ops \cup {None}
      BY <2>1 DEF Publish, Goto, Ops
    <2> QED
      BY <2>2, <2>3 DEF Publish, TypeOK
  <1>2. References'
    BY Kinds DEF Publish, At, Goto, TypeOK, References, OpInv, Recorded, Listed, Whole, Original, ResultOf, Taken, Add, Drop, Holders, Jobs
  <1>3. SessionsRefer' /\ NeverStuck' /\ Redeletable'
    <2>1. op # None /\ op.video \in Assets /\ "source" \in asset[op.video] /\ ~Listed(op.video)
      BY DEF Publish, At, OpInv
    <2>2. \A a \in Assets : asset'[a] = IF a = op.video THEN asset[a] \cup {"manifest"} ELSE asset[a]
      BY DEF Publish, TypeOK, Add
    <2>3. \A s \in Sessions : Original(s) \in Assets /\ (Original(s) = op.video => op.of = s /\ disk[s] = {"record", "files"})
      <3> SUFFICES ASSUME NEW s \in Sessions, Original(s) = op.video PROVE op.of = s /\ disk[s] = {"record", "files"}
        BY OriginalIsAsset
      <3>1. op.video.of = s /\ op.video.kind = "upload"
        BY DEF Original
      <3>2. op.kind \in {"register", "promote"} /\ op.kind # "promote"
        BY <2>1, <3>1 DEF Publish, At, OpInv, ResultOf
      <3>3. op.of = s
        BY <2>1, <3>1, <3>2 DEF OpInv, Original
      <3> QED
        BY <2>1, <3>3 DEF Publish, At, OpInv
    <2>4. UNCHANGED <<disk, status, link>>
      BY DEF Publish
    <2>5. \A s \in Sessions :
             /\ "manifest" \in asset'[Original(s)] => "manifest" \in asset[Original(s)] \/ Original(s) = op.video
             /\ asset[Original(s)] \subseteq asset'[Original(s)]
             /\ Original(s) = op.video => "source" \in asset'[Original(s)] /\ "files" \in disk[s] /\ disk[s] # {}
      BY <2>1, <2>2, <2>3
    <2>7. SessionsRefer'
      BY <2>4, <2>5 DEF SessionsRefer, SessionInv, Recorded, Whole
    <2>8. NeverStuck'
      BY <2>4, <2>5 DEF NeverStuck, Recorded, Listed
    <2>9. Redeletable'
      BY <2>4, <2>5 DEF Redeletable, Recorded, Listed
    <2> QED
      BY <2>7, <2>8, <2>9
  <1>4. SessionInv'
    <2>1. op # None /\ op.video \in Assets /\ "source" \in asset[op.video] /\ ~Listed(op.video)
      BY DEF Publish, At, OpInv
    <2>2. \A a \in Assets : asset'[a] = IF a = op.video THEN asset[a] \cup {"manifest"} ELSE asset[a]
      BY DEF Publish, TypeOK, Add
    <2>3. \A s \in Sessions : Original(s) \in Assets /\ (Original(s) = op.video => op.of = s /\ disk[s] = {"record", "files"})
      <3> SUFFICES ASSUME NEW s \in Sessions, Original(s) = op.video PROVE op.of = s /\ disk[s] = {"record", "files"}
        BY OriginalIsAsset
      <3>1. op.video.of = s /\ op.video.kind = "upload"
        BY DEF Original
      <3>2. op.kind \in {"register", "promote"} /\ op.kind # "promote"
        BY <2>1, <3>1 DEF Publish, At, OpInv, ResultOf
      <3>3. op.of = s
        BY <2>1, <3>1, <3>2 DEF OpInv, Original
      <3> QED
        BY <2>1, <3>3 DEF Publish, At, OpInv
    <2>4. UNCHANGED <<disk, status, link>>
      BY DEF Publish
    <2>5. \A s \in Sessions :
             /\ "manifest" \in asset'[Original(s)] => "manifest" \in asset[Original(s)] \/ Original(s) = op.video
             /\ asset[Original(s)] \subseteq asset'[Original(s)]
             /\ Original(s) = op.video => "source" \in asset'[Original(s)] /\ "files" \in disk[s] /\ disk[s] # {}
      BY <2>1, <2>2, <2>3
    <2> QED
      BY <2>4, <2>5 DEF SessionInv, Listed
  <1>5. (op # None => OpInv)'
    BY Kinds DEF Publish, At, Goto, TypeOK, References, SessionsRefer, Redeletable, SessionInv, OpInv, Ops, Recorded, Listed, Whole, Original, ResultOf, Taken, Add, Drop, Holders, Jobs
  <1> QED
    BY <1>1, <1>2, <1>3, <1>4, <1>5

\* The session is linked to its video, which is whole.
LEMMA LinkStep == ASSUME RegistryInv, Link PROVE RegistryInv'
  <1> USE DEF RegistryInv
  <1>1. TypeOK'
    BY Kinds DEF Link, At, TypeOK, Ops, Assets, Recorded, Listed, Whole, Original, ResultOf, Taken, Add, Drop, Holders, Jobs
  <1>2. References'
    BY Kinds DEF Link, At, TypeOK, References, OpInv, Recorded, Listed, Whole, Original, ResultOf, Taken, Add, Drop, Holders, Jobs
  <1>3. SessionsRefer' /\ NeverStuck' /\ Redeletable'
    BY Kinds DEF Link, At, TypeOK, SessionsRefer, NeverStuck, Redeletable, SessionInv, OpInv, Recorded, Listed, Whole, Original, ResultOf, Taken, Add, Drop, Holders, Jobs
  <1>4. SessionInv'
    BY Kinds DEF Link, At, TypeOK, SessionInv, OpInv, Recorded, Listed, Whole, Original, ResultOf, Taken, Add, Drop, Holders, Jobs
  <1>5. (op # None => OpInv)'
    BY Kinds DEF Link, At, TypeOK, References, SessionsRefer, Redeletable, SessionInv, OpInv, Ops, Recorded, Listed, Whole, Original, ResultOf, Taken, Add, Drop, Holders, Jobs
  <1> QED
    BY <1>1, <1>2, <1>3, <1>4, <1>5

\* A workflow begins with a video that is whole.
LEMMA BeginCreateStep == ASSUME RegistryInv, NEW j \in Workflows, NEW a \in Assets, BeginCreate(j, a) PROVE RegistryInv'
  <1> USE DEF RegistryInv
  <1>1. TypeOK'
    BY Kinds DEF BeginCreate, Begin, TypeOK, Ops, Assets, Recorded, Listed, Whole, Original, ResultOf, Taken, Add, Drop, Holders, Jobs
  <1>2. References'
    BY Kinds DEF BeginCreate, Begin, TypeOK, References, OpInv, Recorded, Listed, Whole, Original, ResultOf, Taken, Add, Drop, Holders, Jobs
  <1>3. SessionsRefer' /\ NeverStuck' /\ Redeletable'
    BY Kinds DEF BeginCreate, Begin, TypeOK, SessionsRefer, NeverStuck, Redeletable, SessionInv, OpInv, Recorded, Listed, Whole, Original, ResultOf, Taken, Add, Drop, Holders, Jobs
  <1>4. SessionInv'
    <2>1. \A s \in Sessions : disk'[s] = disk[s]
      BY Kinds DEF BeginCreate, TypeOK, Add, Holders, Jobs
    <2>2. UNCHANGED <<asset, status, link>>
      BY DEF BeginCreate
    <2> QED
      BY <2>1, <2>2 DEF SessionInv, Listed
  <1>5. (op # None => OpInv)'
    BY Kinds DEF BeginCreate, Begin, TypeOK, References, SessionsRefer, Redeletable, SessionInv, OpInv, Ops, Recorded, Listed, Whole, Original, ResultOf, Taken, Add, Drop, Holders, Jobs
  <1> QED
    BY <1>1, <1>2, <1>3, <1>4, <1>5

\* The record of a workflow refers to a video that is still whole.
LEMMA SaveJobStep == ASSUME RegistryInv, SaveJob PROVE RegistryInv'
  <1> USE DEF RegistryInv
  <1>1. TypeOK'
    BY Kinds DEF SaveJob, At, TypeOK, Ops, Assets, Recorded, Listed, Whole, Original, ResultOf, Taken, Add, Drop, Holders, Jobs
  <1>2. References'
    BY Kinds DEF SaveJob, At, TypeOK, References, OpInv, Recorded, Listed, Whole, Original, ResultOf, Taken, Add, Drop, Holders, Jobs
  <1>3. SessionsRefer' /\ NeverStuck' /\ Redeletable'
    BY Kinds DEF SaveJob, At, TypeOK, SessionsRefer, NeverStuck, Redeletable, SessionInv, OpInv, Recorded, Listed, Whole, Original, ResultOf, Taken, Add, Drop, Holders, Jobs
  <1>4. SessionInv'
    BY Kinds DEF SaveJob, At, TypeOK, SessionInv, OpInv, Recorded, Listed, Whole, Original, ResultOf, Taken, Add, Drop, Holders, Jobs
  <1>5. (op # None => OpInv)'
    BY Kinds DEF SaveJob, At, TypeOK, References, SessionsRefer, Redeletable, SessionInv, OpInv, Ops, Recorded, Listed, Whole, Original, ResultOf, Taken, Add, Drop, Holders, Jobs
  <1> QED
    BY <1>1, <1>2, <1>3, <1>4, <1>5

\* A video is removed only if nothing refers to it.
LEMMA BeginDropStep == ASSUME RegistryInv, NEW a \in Assets, BeginDrop(a) PROVE RegistryInv'
  <1> USE DEF RegistryInv
  <1>1. TypeOK'
    BY Kinds DEF BeginDrop, Begin, Referenced, TypeOK, Ops, Assets, Recorded, Listed, Whole, Original, ResultOf, Taken, Add, Drop, Holders, Jobs
  <1>2. References'
    BY Kinds DEF BeginDrop, Begin, Referenced, TypeOK, References, OpInv, Recorded, Listed, Whole, Original, ResultOf, Taken, Add, Drop, Holders, Jobs
  <1>3. SessionsRefer' /\ NeverStuck' /\ Redeletable'
    BY Kinds DEF BeginDrop, Begin, Referenced, TypeOK, SessionsRefer, NeverStuck, Redeletable, SessionInv, OpInv, Recorded, Listed, Whole, Original, ResultOf, Taken, Add, Drop, Holders, Jobs
  <1>4. SessionInv'
    BY Kinds DEF BeginDrop, Begin, Referenced, TypeOK, SessionInv, OpInv, Recorded, Listed, Whole, Original, ResultOf, Taken, Add, Drop, Holders, Jobs
  <1>5. (op # None => OpInv)'
    <2>1. Listed(a) /\ ~Taken(a) /\ UNCHANGED <<asset, disk, status, link>>
      BY DEF BeginDrop, Referenced, Taken, Jobs
    <2>2. a.of \in Sessions => a = Original(a.of)
      BY Kinds DEF Assets, Original, Jobs
    <2>3. a.of \in Sessions => status[a.of] # "new"
      BY <2>1, <2>2 DEF SessionInv
    <2>4. CASE a.of \in Sessions /\ Recorded(a.of)
      <3>1. op' = [kind |-> "drop", of |-> a.of, video |-> a, at |-> "session"] /\ link[a.of] = a
        BY <2>4 DEF BeginDrop, Begin
      <3>2. a # None
        BY Kinds
      <3> QED
        BY <2>1, <2>2, <2>3, <2>4, <3>1, <3>2 DEF OpInv, Taken, Recorded
    <2>5. CASE ~(a.of \in Sessions /\ Recorded(a.of))
      <3>1. op' = [kind |-> "drop", of |-> None, video |-> a, at |-> "files"]
        BY <2>5 DEF BeginDrop, Begin
      <3> QED
        BY <2>1, <2>3, <2>5, <3>1 DEF OpInv, Taken, Recorded
    <2> QED
      BY <2>4, <2>5
  <1> QED
    BY <1>1, <1>2, <1>3, <1>4, <1>5

\* A session is discarded only while its video is not published.
LEMMA BeginDiscardStep == ASSUME RegistryInv, NEW s \in Sessions, BeginDiscard(s) PROVE RegistryInv'
  <1> USE DEF RegistryInv
  <1>1. TypeOK'
    BY Kinds DEF BeginDiscard, Begin, TypeOK, Ops, Assets, Recorded, Listed, Whole, Original, ResultOf, Taken, Add, Drop, Holders, Jobs
  <1>2. References'
    BY Kinds DEF BeginDiscard, Begin, TypeOK, References, OpInv, Recorded, Listed, Whole, Original, ResultOf, Taken, Add, Drop, Holders, Jobs
  <1>3. SessionsRefer' /\ NeverStuck' /\ Redeletable'
    BY Kinds DEF BeginDiscard, Begin, TypeOK, SessionsRefer, NeverStuck, Redeletable, SessionInv, OpInv, Recorded, Listed, Whole, Original, ResultOf, Taken, Add, Drop, Holders, Jobs
  <1>4. SessionInv'
    BY Kinds DEF BeginDiscard, Begin, TypeOK, SessionInv, OpInv, Recorded, Listed, Whole, Original, ResultOf, Taken, Add, Drop, Holders, Jobs
  <1>5. (op # None => OpInv)'
    BY Kinds DEF BeginDiscard, Begin, TypeOK, References, SessionsRefer, Redeletable, SessionInv, OpInv, Ops, Recorded, Listed, Whole, Original, ResultOf, Taken, Add, Drop, Holders, Jobs
  <1> QED
    BY <1>1, <1>2, <1>3, <1>4, <1>5

\* A part of a session is removed.
LEMMA DropSessionStep == ASSUME RegistryInv, DropSession PROVE RegistryInv'
  <1> USE DEF RegistryInv
  <1>1. TypeOK'
    <2>1. op \in Ops /\ op.of \in Sessions
      BY DEF DropSession, At, TypeOK, OpInv
    <2>2. disk' \in [Holders -> SUBSET {"record", "files"}]
      <3>1. PICK p : disk' = [disk EXCEPT ![op.of] = @ \ {p}]
        BY DEF DropSession, Drop
      <3> QED
        BY <3>1 DEF TypeOK
    <2>3. op' \in Ops \cup {None}
      BY <2>1 DEF DropSession, Goto, Ops
    <2> QED
      BY <2>2, <2>3 DEF DropSession, TypeOK
  <1>2. References'
    BY Kinds DEF DropSession, At, Goto, TypeOK, References, OpInv, Recorded, Listed, Whole, Original, ResultOf, Taken, Add, Drop, Holders, Jobs
  <1>3. SessionsRefer' /\ NeverStuck' /\ Redeletable'
    BY Kinds DEF DropSession, At, Goto, TypeOK, SessionsRefer, NeverStuck, Redeletable, SessionInv, OpInv, Recorded, Listed, Whole, Original, ResultOf, Taken, Add, Drop, Holders, Jobs
  <1>4. SessionInv'
    BY Kinds DEF DropSession, At, Goto, TypeOK, SessionInv, OpInv, Recorded, Listed, Whole, Original, ResultOf, Taken, Add, Drop, Holders, Jobs
  <1>5. (op # None => OpInv)'
    BY Kinds DEF DropSession, At, Goto, TypeOK, References, SessionsRefer, Redeletable, SessionInv, OpInv, Ops, Recorded, Listed, Whole, Original, ResultOf, Taken, Add, Drop, Holders, Jobs
  <1> QED
    BY <1>1, <1>2, <1>3, <1>4, <1>5

\* A part of a video is removed, to which nothing refers.
LEMMA DropFilesStep == ASSUME RegistryInv, DropFiles PROVE RegistryInv'
  <1> USE DEF RegistryInv
  <1>1. TypeOK'
    <2>1. op \in Ops /\ op.video \in Assets
      BY DEF DropFiles, At, TypeOK, OpInv
    <2>2. asset' \in [Assets -> SUBSET {"tmp", "source", "manifest"}]
      <3>1. PICK p : asset' = [asset EXCEPT ![op.video] = @ \ {p}]
        BY DEF DropFiles, Drop
      <3> QED
        BY <3>1 DEF TypeOK
    <2> QED
      BY <2>1, <2>2 DEF DropFiles, TypeOK
  <1>2. References'
    BY Kinds DEF DropFiles, At, TypeOK, References, OpInv, Recorded, Listed, Whole, Original, ResultOf, Taken, Add, Drop, Holders, Jobs
  <1>3. SessionsRefer' /\ NeverStuck' /\ Redeletable'
    <2>1. op.video \in Assets /\ \A a \in Assets : asset'[a] \subseteq asset[a] /\ (a # op.video => asset'[a] = asset[a])
      BY DEF DropFiles, At, TypeOK, Drop, OpInv
    <2>2. UNCHANGED <<disk, status, link>>
      BY DEF DropFiles
    <2>3. \A s \in Sessions : Original(s) \in Assets /\ (Original(s) = op.video => ~Recorded(s) /\ status[s] # "new")
      <3> SUFFICES ASSUME NEW s \in Sessions, Original(s) = op.video PROVE ~Recorded(s) /\ status[s] # "new"
        BY OriginalIsAsset
      <3>1. op.video.of = s
        BY DEF Original
      <3> QED
        BY <3>1 DEF DropFiles, At, OpInv
    <2> QED
      BY <2>1, <2>2, <2>3 DEF SessionsRefer, NeverStuck, Redeletable, SessionInv, Recorded, Listed, Whole
  <1>4. SessionInv'
    <2>1. op.video \in Assets /\ \A a \in Assets : asset'[a] \subseteq asset[a] /\ (a # op.video => asset'[a] = asset[a])
      BY DEF DropFiles, At, TypeOK, Drop, OpInv
    <2>2. UNCHANGED <<disk, status, link>>
      BY DEF DropFiles
    <2>3. \A s \in Sessions : Original(s) \in Assets /\ (Original(s) = op.video => ~Recorded(s) /\ status[s] # "new")
      <3> SUFFICES ASSUME NEW s \in Sessions, Original(s) = op.video PROVE ~Recorded(s) /\ status[s] # "new"
        BY OriginalIsAsset
      <3>1. op.video.of = s
        BY DEF Original
      <3> QED
        BY <3>1 DEF DropFiles, At, OpInv
    <2> QED
      BY <2>1, <2>2, <2>3 DEF SessionInv, Listed
  <1>5. (op # None => OpInv)'
    BY Kinds DEF DropFiles, At, TypeOK, References, SessionsRefer, Redeletable, SessionInv, OpInv, Ops, Recorded, Listed, Whole, Original, ResultOf, Taken, Add, Drop, Holders, Jobs
  <1> QED
    BY <1>1, <1>2, <1>3, <1>4, <1>5

\* A write fails, and the operation ends.
LEMMA FailStep == ASSUME RegistryInv, Fail PROVE RegistryInv'
  <1> USE DEF RegistryInv
  <1>1. TypeOK'
    <2>1. asset' \in [Assets -> SUBSET {"tmp", "source", "manifest"}]
      BY DEF Fail, TypeOK, Drop
    <2>2. crashes' \in Nat
      BY Kinds DEF Fail, TypeOK
    <2> QED
      BY <2>1, <2>2 DEF Fail, TypeOK
  <1>2. References'
    BY Kinds DEF Fail, TypeOK, References, OpInv, Recorded, Listed, Whole, Original, ResultOf, Taken, Add, Drop, Holders, Jobs
  <1>3. SessionsRefer' /\ NeverStuck' /\ Redeletable'
    BY Kinds DEF Fail, TypeOK, SessionsRefer, NeverStuck, Redeletable, SessionInv, OpInv, Recorded, Listed, Whole, Original, ResultOf, Taken, Add, Drop, Holders, Jobs
  <1>4. SessionInv'
    <2>1. \A s \in Sessions : asset'[Original(s)] \cap {"manifest"} = asset[Original(s)] \cap {"manifest"}
      BY OriginalIsAsset DEF Fail, TypeOK, Add, Drop
    <2>2. \A s \in Sessions : Listed(Original(s))' <=> Listed(Original(s))
      BY <2>1 DEF Listed
    <2> QED
      BY <2>2 DEF Fail, SessionInv
  <1>5. (op # None => OpInv)'
    BY Kinds DEF Fail, TypeOK, References, SessionsRefer, Redeletable, SessionInv, OpInv, Ops, Recorded, Listed, Whole, Original, ResultOf, Taken, Add, Drop, Holders, Jobs
  <1> QED
    BY <1>1, <1>2, <1>3, <1>4, <1>5

\* The process ends.
LEMMA CrashStep == ASSUME RegistryInv, Crash PROVE RegistryInv'
  <1> USE DEF RegistryInv
  <1>1. TypeOK'
    BY Kinds DEF Crash, TypeOK, Ops, Assets, Recorded, Listed, Whole, Original, ResultOf, Taken, Add, Drop, Holders, Jobs
  <1>2. References'
    BY Kinds DEF Crash, TypeOK, References, OpInv, Recorded, Listed, Whole, Original, ResultOf, Taken, Add, Drop, Holders, Jobs
  <1>3. SessionsRefer' /\ NeverStuck' /\ Redeletable'
    BY Kinds DEF Crash, TypeOK, SessionsRefer, NeverStuck, Redeletable, SessionInv, OpInv, Recorded, Listed, Whole, Original, ResultOf, Taken, Add, Drop, Holders, Jobs
  <1>4. SessionInv'
    BY Kinds DEF Crash, TypeOK, SessionInv, OpInv, Recorded, Listed, Whole, Original, ResultOf, Taken, Add, Drop, Holders, Jobs
  <1>5. (op # None => OpInv)'
    BY Kinds DEF Crash, TypeOK, References, SessionsRefer, Redeletable, SessionInv, OpInv, Ops, Recorded, Listed, Whole, Original, ResultOf, Taken, Add, Drop, Holders, Jobs
  <1> QED
    BY <1>1, <1>2, <1>3, <1>4, <1>5

-------------------------------------------------------------------------------
\* The inductive invariant of the registry (assets.py:106, 139).
THEOREM RegistryInvariance == Spec => []RegistryInv
  <1>1. RegistryInv /\ [Next]_vars => RegistryInv'
    <2> SUFFICES ASSUME RegistryInv, [Next]_vars PROVE RegistryInv'
      OBVIOUS
    <2>1. CASE \E x \in Holders : Upload(x) \/ BeginRegister(x)
      BY <2>1, UploadStep, BeginRegisterStep
    <2>2. CASE \E j \in Jobs : Work(j) \/ BeginDropJob(j) \/ DropJob(j) \/ Collect(j) \/ BeginPromote(j)
      BY <2>2, WorkStep, BeginDropJobStep, DropJobStep, CollectStep, BeginPromoteStep
    <2>3. CASE \E j \in Workflows, a \in Assets : BeginCreate(j, a)
      BY <2>3, BeginCreateStep
    <2>4. CASE (\E a \in Assets : BeginDrop(a)) \/ (\E s \in Sessions : BeginDiscard(s))
      BY <2>4, BeginDropStep, BeginDiscardStep
    <2>5. CASE Going
      BY <2>5, CopyStep, RenameStep, PublishStep, LinkStep, SaveJobStep, DropSessionStep, DropFilesStep DEF Going
    <2>6. CASE Fail \/ Crash
      BY <2>6, FailStep, CrashStep
    <2>7. CASE UNCHANGED vars
      BY <2>7 DEF vars, RegistryInv, TypeOK, References, SessionsRefer, NeverStuck, Redeletable, SessionInv, OpInv,
                  Recorded, Listed, Whole, Taken
    <2> QED
      BY <2>1, <2>2, <2>3, <2>4, <2>5, <2>6, <2>7 DEF Next, Operations
  <1> QED
    BY <1>1, RegistryInit, PTL DEF Spec

\* Workflows never lose the video they refer to (docs/mvp2-plan.md:20).
THEOREM ReferencesHold == Spec => []References
  <1>1. RegistryInv => References
    BY DEF RegistryInv
  <1> QED
    BY <1>1, RegistryInvariance, PTL

\* A session that says it is registered has its video (assets.py:113).
THEOREM SessionsReferToVideos == Spec => []SessionsRefer
  <1>1. RegistryInv => SessionsRefer
    BY DEF RegistryInv
  <1> QED
    BY <1>1, RegistryInvariance, PTL

\* An interrupted registration can be completed (video_upload_routes.py:99).
THEOREM RegistrationsComplete == Spec => []NeverStuck
  <1>1. RegistryInv => NeverStuck
    BY DEF RegistryInv
  <1> QED
    BY <1>1, RegistryInvariance, PTL

\* An interrupted deletion of an uploaded video can be repeated (assets.py:150).
THEOREM DeletionsRepeat == Spec => []Redeletable
  <1>1. RegistryInv => Redeletable
    BY DEF RegistryInv
  <1> QED
    BY <1>1, RegistryInvariance, PTL

-------------------------------------------------------------------------------
(***************************************************************************)
(* Model settings (ModelSettings), for any number of owners and forms.     *)
(***************************************************************************)
\* The steps of form f leave the saves of other forms alone, as long as they keep the
\* settings of every owner and what the forms show.
LEMMA OthersUnderway ==
  ASSUME SettingsInv, NEW f \in Forms, NEW g \in Forms, g # f, UNCHANGED <<file, owner>>,
         save'[g] = save[g], lock' = g <=> lock = g
  PROVE  Underway(g)'
  BY DEF SettingsInv, Underway, Shows, Stored

\* A page loads the settings of an owner.
LEMMA LoadStep == ASSUME SettingsInv, NEW f \in Forms, NEW o \in Owners, Load(f, o) PROVE SettingsInv'
  <1>1. SettingsTypes'
    BY DEF SettingsInv, SettingsTypes, Load
  <1>2. \A g \in Forms : Shown(g)'
    BY DEF SettingsInv, SettingsTypes, Shown, Load, Shows, Settings
  <1>3. Underway(f)'
    BY DEF Load, Underway
  <1>4. ASSUME NEW g \in Forms, g # f PROVE Underway(g)'
    BY <1>4 DEF Load, SettingsInv, SettingsTypes, Underway, Shows, Stored
  <1> QED
    BY <1>1, <1>2, <1>3, <1>4 DEF SettingsInv, Load

\* A save begins with what its form shows.
LEMMA SaveStep ==
  ASSUME SettingsInv, NEW f \in Forms, NEW provider \in Providers \cup {Nothing}, NEW wanted \in Providers,
         NEW action \in {"none", "set", "remove"}, Save(f, provider, wanted, action)
  PROVE  SettingsInv'
  <1> DEFINE new == [on |-> form[f], provider |-> provider, model |-> wanted,
                     action |-> action, merged |-> Nothing, at |-> "sent"]
  <1>1. form[f] \in Settings /\ Shows(form[f], owner[f]) /\ owner[f] \in Owners
    BY DEF SettingsInv, SettingsTypes, Shown, Save
  <1>2. new \in Saves
    BY <1>1 DEF Saves
  <1>3. save' = [save EXCEPT ![f] = new]
    BY DEF Save
  <1>4. SettingsTypes'
    BY <1>2, <1>3 DEF SettingsInv, SettingsTypes, Save
  <1>5. save[f] = Nothing /\ UNCHANGED <<file, owner, form, lock>>
    BY DEF Save
  <1>6. save'[f] = new /\ lock # f
    BY <1>3, <1>5, NothingElse DEF SettingsInv, SettingsTypes
  <1>7. Underway(f)'
    BY <1>1, <1>5, <1>6 DEF Underway, Shows, Stored
  <1>8. ASSUME NEW g \in Forms, g # f PROVE Underway(g)'
    <2>1. save'[g] = save[g]
      BY <1>3, <1>8 DEF SettingsInv, SettingsTypes
    <2> QED
      BY <1>5, <1>8, <2>1, OthersUnderway
  <1>9. lock' # Nothing => save'[lock'] # Nothing
    BY <1>3, <1>5, <1>6 DEF SettingsInv, SettingsTypes
  <1> QED
    BY <1>4, <1>5, <1>7, <1>8, <1>9 DEF SettingsInv, Shown, Shows

\* A save is given up: validation, comparison, a lost key, or a failure.
LEMMA GivenUp ==
  ASSUME SettingsInv, NEW f \in Forms, save' = [save EXCEPT ![f] = Nothing], UNCHANGED <<file, owner>>,
         lock' = (IF lock = f THEN Nothing ELSE lock), SettingsTypes', \A g \in Forms : Shown(g)'
  PROVE  SettingsInv'
  <1>1. \A g \in Forms : save'[g] = IF g = f THEN Nothing ELSE save[g]
    BY DEF SettingsInv, SettingsTypes
  <1>2. Underway(f)'
    BY <1>1 DEF Underway
  <1>3. ASSUME NEW g \in Forms, g # f PROVE Underway(g)'
    <2>1. lock' = g <=> lock = g
      BY <1>3, NothingElse
    <2> QED
      BY <1>1, <1>3, <2>1, OthersUnderway
  <1>4. lock' # Nothing => save'[lock'] # Nothing
    BY <1>1 DEF SettingsInv, SettingsTypes
  <1> QED
    BY <1>2, <1>3, <1>4 DEF SettingsInv

\* A save is refused by validation or finds that it is free to go on.
LEMMA ValidateStep == ASSUME SettingsInv, NEW f \in Forms, Validate(f) PROVE SettingsInv'
  <1> DEFINE merged == IF save[f].provider = Nothing THEN Stored(f).provider ELSE save[f].provider
             new == [save[f] EXCEPT !.merged = merged, !.at = "valid"]
  <1>1. save[f] \in Saves /\ save[f] # Nothing /\ save[f].at = "sent" /\ UNCHANGED <<file, master, keys, lock, owner, form>>
    BY DEF SettingsInv, SettingsTypes, Validate
  <1>2. owner[f] \in Owners /\ Shows(save[f].on, owner[f]) /\ lock # f
    BY <1>1 DEF SettingsInv, Underway
  <1>3. Stored(f) \in Settings
    BY <1>2 DEF SettingsInv, SettingsTypes, Stored
  <1>4. merged \in Providers
    BY <1>1, <1>3 DEF Saves, Settings
  <1>5. new \in Saves
    BY <1>1, <1>4 DEF Saves
  <1>6. \A g \in Forms : Shown(g)'
    BY <1>1 DEF SettingsInv, Shown, Shows
  <1>7. CASE save[f].model = merged
    <2>1. save' = [save EXCEPT ![f] = new]
      BY <1>7 DEF Validate
    <2>2. SettingsTypes'
      BY <1>1, <1>5, <2>1 DEF SettingsInv, SettingsTypes
    <2>3. \A g \in Forms : save'[g] = IF g = f THEN new ELSE save[g]
      BY <2>1 DEF SettingsInv, SettingsTypes
    <2>4. new.on = save[f].on /\ new.provider = save[f].provider /\ new.model = save[f].model /\ new.merged = merged /\ new.at = "valid"
      BY <1>1 DEF Saves
    <2> HIDE DEF new
    <2>5. Underway(f)'
      <3>1. save'[f] = new /\ new.on = save[f].on /\ new.provider = save[f].provider /\ new.model = new.merged
            /\ (save[f].provider = Nothing => new.merged = Stored(f).provider) /\ new.at = "valid"
        BY <1>7, <2>3, <2>4
      <3> HIDE DEF merged
      <3> QED
        BY <1>1, <1>2, <3>1 DEF Underway, Shows, Stored
    <2>6. ASSUME NEW g \in Forms, g # f PROVE Underway(g)'
      BY <1>1, <2>3, <2>6, OthersUnderway
    <2>7. lock' # Nothing => save'[lock'] # Nothing
      BY <1>1, <1>2, <2>3 DEF SettingsInv, SettingsTypes
    <2> QED
      BY <1>6, <2>2, <2>5, <2>6, <2>7 DEF SettingsInv
  <1>8. CASE save[f].model # merged
    <2>1. save' = [save EXCEPT ![f] = Nothing]
      BY <1>8 DEF Validate
    <2>2. SettingsTypes'
      BY <1>1, <2>1 DEF SettingsInv, SettingsTypes
    <2> QED
      BY <1>1, <1>2, <1>6, <2>1, <2>2, GivenUp
  <1> QED
    BY <1>7, <1>8

\* A save takes the lock and finds the revision its form showed, so that it shows what
\* is saved.
LEMMA EnterStep == ASSUME SettingsInv, NEW f \in Forms, Enter(f) PROVE SettingsInv'
  <1> DEFINE new == [save[f] EXCEPT !.at = "entered"]
  <1>1. save[f] \in Saves /\ save[f] # Nothing /\ save[f].at = "valid" /\ lock = Nothing
        /\ UNCHANGED <<file, master, keys, owner, form>>
    BY DEF SettingsInv, SettingsTypes, Enter
  <1>2. owner[f] \in Owners /\ Shows(save[f].on, owner[f])
    BY <1>1 DEF SettingsInv, Underway
  <1>3. \A g \in Forms : Shown(g)'
    BY <1>1 DEF SettingsInv, Shown, Shows
  <1>4. CASE save[f].on.rev = Stored(f).rev
    <2>1. save' = [save EXCEPT ![f] = new] /\ lock' = f
      BY <1>1, <1>4 DEF Enter
    <2>2. new \in Saves
      BY <1>1 DEF Saves
    <2>3. SettingsTypes'
      BY <1>1, <2>1, <2>2 DEF SettingsInv, SettingsTypes
    <2>4. \A g \in Forms : save'[g] = IF g = f THEN new ELSE save[g]
      BY <2>1 DEF SettingsInv, SettingsTypes
    <2>5. new.on = save[f].on /\ new.provider = save[f].provider /\ new.model = save[f].model
          /\ new.merged = save[f].merged /\ new.at = "entered"
      BY <1>1 DEF Saves
    <2>6. save[f].on = Stored(f)
      BY <1>2, <1>4 DEF Shows, Stored
    <2> HIDE DEF new
    <2>7. Underway(f)'
      <3>1. save'[f] = new
        BY <2>4
      <3>2. save[f].model = save[f].merged /\ (save[f].provider = Nothing => save[f].merged = Stored(f).provider)
        BY <1>1, <2>6 DEF SettingsInv, Underway
      <3> QED
        BY <1>1, <1>2, <2>1, <2>5, <2>6, <3>1, <3>2 DEF Underway, Shows, Stored
    <2>8. ASSUME NEW g \in Forms, g # f PROVE Underway(g)'
      <3>1. lock' = g <=> lock = g
        BY <1>1, <2>1, <2>8, NothingElse
      <3> QED
        BY <1>1, <2>4, <2>8, <3>1, OthersUnderway
    <2>9. save'[lock'] # Nothing
      BY <2>1, <2>2, <2>4, NothingElse
    <2> QED
      BY <1>3, <2>3, <2>7, <2>8, <2>9 DEF SettingsInv
  <1>5. CASE save[f].on.rev # Stored(f).rev
    <2>1. save' = [save EXCEPT ![f] = Nothing] /\ lock' = lock
      BY <1>1, <1>5 DEF Enter
    <2>2. SettingsTypes'
      BY <1>1, <2>1 DEF SettingsInv, SettingsTypes
    <2> QED
      BY <1>1, <1>3, <2>1, <2>2, GivenUp
  <1> QED
    BY <1>4, <1>5

\* The key is made, or a save that needs a lost one is given up.
LEMMA MakeKeyStep == ASSUME SettingsInv, NEW f \in Forms, MakeKey(f) PROVE SettingsInv'
  <1>1. UNCHANGED <<file, owner, form>>
    BY DEF MakeKey
  <1>2. \A g \in Forms : Shown(g)'
    BY <1>1 DEF SettingsInv, Shown, Shows
  <1>3. CASE \E o \in Owners : file[o].credential # 0
    <2>1. save' = [save EXCEPT ![f] = Nothing] /\ Leave(f) /\ UNCHANGED <<master, keys>>
      BY <1>3 DEF MakeKey
    <2>2. SettingsTypes'
      BY <1>1, <2>1 DEF SettingsInv, SettingsTypes, Leave
    <2> QED
      BY <1>1, <1>2, <2>1, <2>2, GivenUp DEF Leave
  <1>4. CASE ~\E o \in Owners : file[o].credential # 0
    <2>1. keys < MaxKeys /\ keys' = keys + 1 /\ master' = keys' /\ UNCHANGED <<save, lock>>
      BY <1>4 DEF MakeKey
    <2>2. keys' \in 0..MaxKeys /\ master' \in 1..keys'
      BY <2>1, SettingsBounds DEF SettingsInv, SettingsTypes
    <2>3. SettingsTypes'
      BY <1>1, <2>1, <2>2 DEF SettingsInv, SettingsTypes
    <2>4. \A g \in Forms : Underway(g)'
      BY <1>1, <2>1 DEF SettingsInv, Underway, Shows, Stored
    <2> QED
      BY <1>2, <2>1, <2>3, <2>4 DEF SettingsInv
  <1> QED
    BY <1>3, <1>4

\* What a save writes.
LEMMA Written ==
  ASSUME SettingsInv, NEW f \in Forms, Write(f)
  PROVE  \E new \in Settings :
            /\ file' = [file EXCEPT ![owner[f]] = new]
            /\ new.rev = Stored(f).rev + 1 /\ new.provider = save[f].merged
            /\ new.credential \in {0, Stored(f).credential} \/ (new.credential = master /\ master # Nothing)
            /\ owner[f] \in Owners /\ Stored(f) \in Settings /\ save[f] \in Saves
            /\ save[f].at = "entered" /\ lock = f /\ save[f].on = Stored(f)
  <1> DEFINE credential == CASE save[f].action = "set"    -> master
                             [] save[f].action = "remove" -> 0
                             [] OTHER                     -> Stored(f).credential
             new == [rev |-> Stored(f).rev + 1, provider |-> save[f].merged, model |-> save[f].model,
                     credential |-> credential]
  <1>2. save[f] # Nothing /\ save[f].at = "entered"
    BY DEF Write
  <1>3. owner[f] \in Owners /\ lock = f /\ save[f].on = Stored(f) /\ save[f].model = save[f].merged
    BY <1>2 DEF SettingsInv, Underway
  <1>4. Stored(f) \in Settings /\ save[f] \in Saves
    BY <1>2, <1>3 DEF SettingsInv, SettingsTypes, Stored
  <1>5. save[f].action = "set" => master # Nothing
    BY DEF Write
  <1>6. credential \in {0, Stored(f).credential} \/ (credential = master /\ master # Nothing)
    BY <1>5
  <1>7. credential \in 0..MaxKeys
    <2>1. master # Nothing => master \in 0..MaxKeys
      BY SettingsBounds DEF SettingsInv, SettingsTypes
    <2>2. Stored(f).credential \in 0..MaxKeys /\ 0 \in 0..MaxKeys
      BY <1>4, SettingsBounds DEF Settings
    <2> QED
      BY <1>6, <2>1, <2>2
  <1>8. new \in Settings
    BY <1>3, <1>4, <1>7 DEF Settings, Saves
  <1>9. file' = [file EXCEPT ![owner[f]] = new]
    BY DEF Write
  <1> QED
    BY <1>2, <1>3, <1>4, <1>6, <1>8, <1>9

\* The file is replaced: what others show and want is an earlier revision now, so that
\* none of them can enter.
LEMMA WriteFileStep == ASSUME SettingsInv, NEW f \in Forms, Write(f) PROVE SettingsInv'
  <1>1. PICK new \in Settings :
            /\ file' = [file EXCEPT ![owner[f]] = new]
            /\ new.rev = Stored(f).rev + 1 /\ new.provider = save[f].merged
            /\ new.credential \in {0, Stored(f).credential} \/ (new.credential = master /\ master # Nothing)
            /\ owner[f] \in Owners /\ Stored(f) \in Settings /\ save[f] \in Saves
            /\ save[f].at = "entered" /\ lock = f /\ save[f].on = Stored(f)
    BY Written
  <1> DEFINE done == [save[f] EXCEPT !.at = "written"]
  <1>2. save' = [save EXCEPT ![f] = done] /\ UNCHANGED <<master, keys, lock, owner, form>> /\ save[f] # Nothing
    BY DEF Write
  <1>3. done \in Saves /\ done.at = "written" /\ done.model = save[f].model /\ done.merged = save[f].merged
    BY <1>1 DEF Saves
  <1>4. SettingsTypes'
    BY <1>1, <1>2, <1>3 DEF SettingsInv, SettingsTypes
  <1>5. \A o \in Owners : /\ file[o] \in Settings
                          /\ o # owner[f] => file'[o] = file[o]
                          /\ o = owner[f] => file'[o] = new /\ new.rev = file[o].rev + 1
    BY <1>1 DEF SettingsInv, SettingsTypes, Stored
  <1>6. ASSUME NEW old \in Settings, NEW o \in Owners, Shows(old, o) PROVE Shows(old, o)' /\ (o = owner[f] => old # file'[o])
    BY <1>5, <1>6 DEF Shows, Settings
  <1>7. \A g \in Forms : Shown(g)'
    BY <1>2, <1>6 DEF SettingsInv, SettingsTypes, Shown
  <1>8. \A g \in Forms : save'[g] = IF g = f THEN done ELSE save[g]
    BY <1>2 DEF SettingsInv, SettingsTypes
  <1>9. Underway(f)'
    BY <1>1, <1>2, <1>3, <1>8 DEF SettingsInv, Underway
  <1>10. ASSUME NEW g \in Forms, g # f, save[g] # Nothing PROVE Underway(g)'
    <2>1. save[g] \in Saves /\ save'[g] = save[g] /\ lock # g /\ owner[g] \in Owners
      BY <1>1, <1>8, <1>10 DEF SettingsInv, SettingsTypes, Underway
    <2>2. save[g].at \notin {"entered", "written"} /\ Shows(save[g].on, owner[g])
      BY <1>10, <2>1 DEF SettingsInv, Underway
    <2>3. save[g].on \in Settings
      BY <2>1 DEF Saves
    <2>4. Shows(save[g].on, owner[g])' /\ (owner[g] = owner[f] => save[g].on # file'[owner[g]])
      <3>1. UNCHANGED <<save[g], owner[g]>>
        BY <1>2, <2>1
      <3> QED
        BY <1>6, <2>1, <2>2, <2>3, <3>1 DEF Shows
    <2>5. owner[g] # owner[f] => file'[owner[g]] = file[owner[g]]
      BY <1>5, <2>1
    <2> QED
      BY <1>2, <1>10, <2>1, <2>2, <2>4, <2>5 DEF SettingsInv, Underway, Stored
  <1>11. \A g \in Forms : Underway(g)'
    BY <1>8, <1>9, <1>10 DEF Underway
  <1>12. save'[lock'] # Nothing
    BY <1>1, <1>2, <1>3, <1>8, NothingElse
  <1> QED
    BY <1>4, <1>7, <1>11, <1>12 DEF SettingsInv

\* The answer of a save is shown or lost; a save fails or dies.
LEMMA EndStep == ASSUME SettingsInv, NEW f \in Forms, Answer(f) \/ SaveFails(f) PROVE SettingsInv'
  <1>1. /\ save[f] # Nothing /\ save' = [save EXCEPT ![f] = Nothing] /\ UNCHANGED <<file, owner, master, keys>>
        /\ lock' = (IF lock = f THEN Nothing ELSE lock)
    BY DEF Answer, SaveFails, Leave
  <1>2. form' = form \/ form' = [form EXCEPT ![f] = Stored(f)]
    BY DEF Answer, SaveFails
  <1>3. owner[f] \in Owners /\ Stored(f) \in Settings
    BY <1>1 DEF SettingsInv, SettingsTypes, Underway, Stored
  <1>4. SettingsTypes'
    BY <1>1, <1>2, <1>3 DEF SettingsInv, SettingsTypes
  <1>5. \A g \in Forms : Shown(g)'
    BY <1>1, <1>2, <1>3 DEF SettingsInv, SettingsTypes, Shown, Shows, Stored, Settings
  <1> QED
    BY <1>1, <1>4, <1>5, GivenUp

\* The inductive invariant of the settings (llm_settings.py): a form or save shows an
\* earlier revision or what is saved, and who holds the lock has compared.
THEOREM SettingsInvariance == SettingsSpec => []SettingsInv
  <1>1. SettingsInit => SettingsInv
    <2> SUFFICES ASSUME SettingsInit PROVE SettingsInv
      OBVIOUS
    <2>1. SettingsTypes
      BY SettingsBounds DEF SettingsInit, SettingsTypes, Settings
    <2> QED
      BY <2>1 DEF SettingsInit, SettingsInv, Shown, Underway
  <1>2. SettingsInv /\ [SettingsNext]_settingsVars => SettingsInv'
    <2> SUFFICES ASSUME SettingsInv, [SettingsNext]_settingsVars PROVE SettingsInv'
      OBVIOUS
    <2>1. CASE LoseKey
      <3>1. SettingsTypes'
        BY <2>1 DEF LoseKey, SettingsInv, SettingsTypes
      <3> QED
        BY <2>1, <3>1 DEF LoseKey, SettingsInv, Shown, Underway, Shows, Stored
    <2>2. CASE UNCHANGED settingsVars
      BY <2>2 DEF settingsVars, SettingsInv, SettingsTypes, Shown, Underway, Shows, Stored
    <2> QED
      BY <2>1, <2>2, LoadStep, SaveStep, ValidateStep, EnterStep, MakeKeyStep, WriteFileStep, EndStep DEF SettingsNext
  <1> QED
    BY <1>1, <1>2, PTL DEF SettingsSpec

\* For any number of owners, forms and keys: the key that is there reads every
\* credential, for one is made only when nothing is encrypted.
THEOREM CredentialsStayReadable == SettingsSpec => []SettingsSound
  <1>1. SettingsInit => CredentialsReadable
    BY DEF SettingsInit, CredentialsReadable
  <1>2. SettingsInv /\ CredentialsReadable /\ [SettingsNext]_settingsVars => CredentialsReadable'
    <2> SUFFICES ASSUME SettingsInv, CredentialsReadable, [SettingsNext]_settingsVars PROVE CredentialsReadable'
      OBVIOUS
    <2>1. ASSUME NEW f \in Forms, Write(f) PROVE CredentialsReadable'
      <3>1. PICK new \in Settings :
                /\ file' = [file EXCEPT ![owner[f]] = new]
                /\ new.credential \in {0, Stored(f).credential} \/ (new.credential = master /\ master # Nothing)
                /\ owner[f] \in Owners
        BY <2>1, Written
      <3>2. master' = master
        BY <2>1 DEF Write
      <3> QED
        BY <3>1, <3>2 DEF SettingsInv, SettingsTypes, CredentialsReadable, Readable, Stored
    <2>2. ASSUME NEW f \in Forms, MakeKey(f) PROVE CredentialsReadable'
      BY <2>2 DEF MakeKey, CredentialsReadable, Readable
    <2>3. CASE LoseKey
      BY <2>3 DEF LoseKey, CredentialsReadable
    <2>4. ASSUME UNCHANGED <<file, master>> PROVE CredentialsReadable'
      BY <2>4 DEF CredentialsReadable, Readable
    <2>5. ASSUME NEW f \in Forms, (\E o \in Owners : Load(f, o)) \/ Validate(f) \/ Enter(f) \/ Answer(f) \/ SaveFails(f)
          PROVE UNCHANGED <<file, master>>
      BY <2>5 DEF Load, Validate, Enter, Answer, SaveFails
    <2>6. ASSUME NEW f \in Forms, NEW provider \in Providers \cup {Nothing}, NEW wanted \in Providers,
                 NEW action \in {"none", "set", "remove"}, Save(f, provider, wanted, action)
          PROVE UNCHANGED <<file, master>>
      BY <2>6 DEF Save
    <2>7. CASE UNCHANGED settingsVars
      BY <2>7, <2>4 DEF settingsVars
    <2> QED
      BY <2>1, <2>2, <2>3, <2>4, <2>5, <2>6, <2>7 DEF SettingsNext
  <1> QED
    BY <1>1, <1>2, SettingsInvariance, PTL DEF SettingsSpec, SettingsSound

\* A file is replaced only by a save whose form shows just what is saved, and whose
\* provider, if it was left out, is the saved one.
THEOREM SavesKeepWhatFormsShow == SettingsSpec => NothingLost
  <1> DEFINE Honest == \A o \in Owners : file'[o] # file[o] =>
                \E f \in Forms :
                   /\ save[f] # Nothing /\ owner[f] = o /\ save[f].on = file[o]
                   /\ save[f].provider = Nothing => file'[o].provider = file[o].provider
  <1>1. SettingsInv /\ [SettingsNext]_settingsVars => Honest
    <2> SUFFICES ASSUME SettingsInv, [SettingsNext]_settingsVars PROVE Honest
      OBVIOUS
    <2>1. ASSUME NEW f \in Forms, Write(f) PROVE Honest
      <3>1. PICK new \in Settings :
                /\ file' = [file EXCEPT ![owner[f]] = new] /\ new.provider = save[f].merged
                /\ owner[f] \in Owners /\ save[f].at = "entered" /\ save[f].on = Stored(f)
        BY <2>1, Written
      <3>2. save[f] # Nothing
        BY <2>1 DEF Write
      <3>3. save[f].provider = Nothing => save[f].merged = Stored(f).provider
        BY <3>1, <3>2 DEF SettingsInv, Underway
      <3>4. ASSUME NEW o \in Owners, file'[o] # file[o]
            PROVE  owner[f] = o /\ save[f].on = file[o] /\ file'[o].provider = save[f].merged
        BY <3>1, <3>4 DEF SettingsInv, SettingsTypes, Stored
      <3> QED
        BY <3>2, <3>3, <3>4 DEF Stored
    <2>2. ASSUME file' = file PROVE Honest
      BY <2>2
    <2>3. ASSUME NEW f \in Forms, (\E o \in Owners : Load(f, o)) \/ Validate(f) \/ Enter(f) \/ MakeKey(f) \/ Answer(f) \/ SaveFails(f)
          PROVE file' = file
      BY <2>3 DEF Load, Validate, Enter, MakeKey, Answer, SaveFails
    <2>4. ASSUME NEW f \in Forms, NEW provider \in Providers \cup {Nothing}, NEW wanted \in Providers,
                 NEW action \in {"none", "set", "remove"}, Save(f, provider, wanted, action)
          PROVE file' = file
      BY <2>4 DEF Save
    <2>5. CASE LoseKey \/ UNCHANGED settingsVars
      BY <2>5, <2>2 DEF LoseKey, settingsVars
    <2> QED
      BY <2>1, <2>2, <2>3, <2>4, <2>5 DEF SettingsNext
  <1> QED
    BY <1>1, SettingsInvariance, PTL DEF SettingsSpec, NothingLost

-------------------------------------------------------------------------------
(***************************************************************************)
(* Paid calls (ModelRequests), for any number of segments, attempts and    *)
(* tries, every route and every choice of the owner.                       *)
(***************************************************************************)
\* A product and the next one.
LEMMA Times == \A a, t \in Nat : a * t \in Nat /\ (a + 1) * t = a * t + t /\ (a - 1) * t = a * t - t
  OBVIOUS

\* More attempts cost no less.
LEMMA TimesGrows == \A a, b, t \in Nat : a <= b => a * t <= b * t
  OBVIOUS

\* What the invariant says of one segment, and what a step of another leaves alone.
Good(i) == Directed(i) /\ Charged(i) /\ Barred(i) /\ InHand(i)

Elsewhere(i) ==
    /\ UNCHANGED <<sdk, policy>>
    /\ \A g \in Segments \ {i} :
          /\ at'[g] = at[g] /\ attempts'[g] = attempts[g] /\ tries'[g] = tries[g] /\ model'[g] = model[g]
          /\ got'[g] = got[g] /\ held'[g] = held[g] /\ verdict'[g] = verdict[g] /\ trace'[g] = trace[g]
          /\ asked'[g] = asked[g] /\ barred'[g] = barred[g] /\ (g \in active' <=> g \in active)

\* A step of one segment has to be looked at for that segment only.
LEMMA SegmentFrame ==
  ASSUME RequestInv, NEW i \in Segments, Elsewhere(i), RequestTypes', Good(i)'
  PROVE  RequestInv'
  <1>1. ASSUME NEW g \in Segments, g # i PROVE Good(g)'
    <2>1. Good(g)
      BY DEF RequestInv, Good
    <2>2. g \in Segments \ {i}
      BY <1>1
    <2>3. Directed(g)'
      BY <2>1, <2>2 DEF Good, Elsewhere, Directed, Switched, Turned, Unrecorded, Trying, Out
    <2>4. Charged(g)'
      BY <2>1, <2>2 DEF Good, Elsewhere, Charged, Trying, Out
    <2>5. Barred(g)'
      BY <2>1, <2>2 DEF Good, Elsewhere, Barred, Bars
    <2>6. InHand(g)'
      BY <2>1, <2>2 DEF Good, Elsewhere, InHand, Unrecorded, Trying, Http
    <2> QED
      BY <2>3, <2>4, <2>5, <2>6 DEF Good
  <1> QED
    BY <1>1 DEF RequestInv, Good

\* What an exception tells of the verdict it comes from.
LEMMA ErrorsTell ==
  ASSUME RequestInv, NEW i \in Segments
  PROVE  /\ Spared(i) \/ Repeatable(i) => verdict[i] \notin {"denied", "broken"}
         /\ Repeatable(i) => verdict[i] \notin {"blocked", "full"}
  <1>1. verdict[i] \in DOMAIN Plain \cup {"none", "cancelled"}
    BY DEF RequestInv, RequestTypes
  <1>2. ASSUME verdict[i] \in {"denied", "broken"} PROVE Error(i) \in {"runtime", "storage"}
    <2>1. Plain[verdict[i]] \in {"runtime", "storage"}
      BY <1>2 DEF Plain
    <2>2. \A m : ThroughSdk(m)[verdict[i]] = Plain[verdict[i]]
      BY <1>2 DEF ThroughSdk, Plain
    <2> QED
      BY <2>1, <2>2 DEF Error
  <1>3. ASSUME verdict[i] \in {"blocked", "full"} PROVE Error(i) = verdict[i]
    <2>1. Plain[verdict[i]] = verdict[i]
      BY <1>3 DEF Plain
    <2>2. \A m : ThroughSdk(m)[verdict[i]] = Plain[verdict[i]]
      BY <1>3 DEF ThroughSdk, Plain
    <2> QED
      BY <2>1, <2>2 DEF Error
  <1> QED
    BY <1>2, <1>3 DEF Spared, Repeatable

\* An attempt begins, and goes to the second model if the segment has changed to it.
LEMMA AttemptStep == ASSUME RequestInv, NEW i \in Segments, Attempt(i) PROVE RequestInv'
  <1> USE DEF MoveTo, Aim, Closing, Settle, Interrupted, chosen, call, Attempt
  <1>0. Good(i) /\ RequestTypes
    BY DEF RequestInv, Good
  <1>1. RequestTypes'
    BY <1>0, Limits DEF RequestTypes, Models, Http, Plain, Bars
  <1>2. Elsewhere(i)
    BY <1>0 DEF RequestTypes, Elsewhere
  <1>3. Directed(i)'
    BY <1>0, Limits DEF RequestTypes, Good, Directed, Switched, Turned, Unrecorded, Trying, Out, Models
  <1>4. Charged(i)'
    <2> DEFINE a == attempts[i]
               sum == asked[i]["primary"] + asked[i]["fallback"]
    <2>1. a \in Nat /\ attempts'[i] = a + 1 /\ tries'[i] = 0 /\ at'[i] = "opening" /\ asked' = asked /\ active' = active
      BY <1>0 DEF RequestTypes
    <2>2. sum \in Nat /\ sum <= a * Tries + (IF i \in active THEN 1 ELSE 0)
      BY <1>0 DEF RequestTypes, Good, Charged, Trying, Models
    <2>3. a * Tries \in Nat /\ (a + 1) * Tries = a * Tries + Tries /\ (a + 1) - 1 = a /\ Tries >= 1
      BY <2>1, Times, Limits
    <2>4. model'[i] = "primary" => i \notin active
      BY <1>0 DEF RequestTypes
    <2>5. sum + 1 <= (a + 1) * Tries + (IF i \in active THEN 1 ELSE 0) + 0
      <3> HIDE DEF a, sum
      <3>1. CASE i \in active
        BY <2>2, <2>3, <3>1, Limits
      <3>2. CASE i \notin active
        BY <2>2, <2>3, <3>2, Limits
      <3> QED
        BY <3>1, <3>2
    <2>6. model'[i] = "primary" => sum <= ((a + 1) - 1) * Tries + 0 + 0
      BY <2>2, <2>3, <2>4
    <2> QED
      BY <2>1, <2>5, <2>6 DEF Charged, Trying, Out
  <1>5. Barred(i)'
    BY <1>0 DEF RequestTypes, Good, Directed, Barred, Bars, Models
  <1>6. InHand(i)'
    BY <1>0 DEF RequestTypes, Good, InHand, Unrecorded, Trying, Http
  <1> QED
    BY <1>1, <1>2, <1>3, <1>4, <1>5, <1>6, SegmentFrame DEF Good

\* A call is sent, to a model that is not barred and within the budget of its attempt.
LEMMA OpenStep == ASSUME RequestInv, NEW i \in Segments, Open(i) PROVE RequestInv'
  <1> USE DEF MoveTo, Aim, Closing, Settle, Interrupted, chosen, call, Open
  <1>0. Good(i) /\ RequestTypes
    BY DEF RequestInv, Good
  <1>1. RequestTypes'
    <2>1. asked' \in [Segments -> [Models -> Nat]]
      <3>1. asked[i] \in [Models -> Nat] /\ model[i] \in Models /\ asked \in [Segments -> [Models -> Nat]]
        BY <1>0 DEF RequestTypes
      <3>2. [asked[i] EXCEPT ![model[i]] = @ + 1] \in [Models -> Nat]
        BY <3>1
      <3>3. CASE cancelled
        BY <3>1, <3>3
      <3>4. CASE ~cancelled
        BY <3>1, <3>2, <3>4
      <3> QED
        BY <3>3, <3>4
    <2>2. at' \in [Segments -> {"free", "opening", "sent", "answered", "closing", "closed", "settled", "gone"}]
      BY <1>0 DEF RequestTypes
    <2> QED
      BY <1>0, <2>1, <2>2 DEF RequestTypes
  <1>2. Elsewhere(i)
    BY <1>0 DEF RequestTypes, Elsewhere
  <1>3. Directed(i)'
    BY <1>0, Limits DEF RequestTypes, Good, Directed, Switched, Turned, Unrecorded, Trying, Out, Models
  <1>4. Charged(i)'
    BY <1>0, Limits, Times DEF RequestTypes, Good, Directed, Charged, Trying, Out, Models, TriesOf, Tried
  <1>5. Barred(i)'
    BY <1>0 DEF RequestTypes, Good, Directed, Barred, Bars, Models
  <1>6. InHand(i)'
    BY <1>0 DEF RequestTypes, Good, InHand, Unrecorded, Trying, Http
  <1> QED
    BY <1>1, <1>2, <1>3, <1>4, <1>5, <1>6, SegmentFrame DEF Good

\* A call that could not be recorded is not sent.
LEMMA OpenFailsStep == ASSUME RequestInv, NEW i \in Segments, NEW v \in Unrecorded, OpenFails(i, v) PROVE RequestInv'
  <1> USE DEF MoveTo, Aim, Closing, Settle, Interrupted, chosen, call, OpenFails, Unwritten, Unrecorded
  <1>0. Good(i) /\ RequestTypes
    BY DEF RequestInv, Good
  <1>1. RequestTypes'
    BY <1>0, Limits DEF RequestTypes, Models, Http, Plain, Bars
  <1>2. Elsewhere(i)
    BY <1>0 DEF RequestTypes, Elsewhere
  <1>3. Directed(i)'
    BY <1>0, Limits DEF RequestTypes, Good, Directed, Switched, Turned, Unrecorded, Trying, Out, Models, Bars
  <1>4. Charged(i)'
    BY <1>0, Limits, Times DEF RequestTypes, Good, Directed, Charged, Trying, Out, Models, TriesOf, Tried
  <1>5. Barred(i)'
    BY <1>0 DEF RequestTypes, Good, Directed, Barred, Bars, Models
  <1>6. InHand(i)'
    BY <1>0 DEF RequestTypes, Good, InHand, Unrecorded, Trying, Http
  <1> QED
    BY <1>1, <1>2, <1>3, <1>4, <1>5, <1>6, SegmentFrame DEF Good

\* A response arrives; through the SDK it is in hand at once.
LEMMA ReplyArrives == ASSUME RequestInv, NEW i \in Segments, NEW answer \in Http \cup {"lost"}, Reply(i, answer) PROVE RequestInv'
  <1> USE DEF MoveTo, Aim, Closing, Settle, Interrupted, chosen, call, Reply
  <1>0. Good(i) /\ RequestTypes
    BY DEF RequestInv, Good
  <1>1. RequestTypes'
    BY <1>0, Limits DEF RequestTypes, Models, Http, Plain, Bars
  <1>2. Elsewhere(i)
    BY <1>0 DEF RequestTypes, Elsewhere
  <1>3. Directed(i)'
    BY <1>0, Limits DEF RequestTypes, Good, Directed, Switched, Turned, Unrecorded, Trying, Out, Models
  <1>4. Charged(i)'
    BY <1>0, Limits, Times DEF RequestTypes, Good, Directed, Charged, Trying, Out, Models, TriesOf, Tried
  <1>5. Barred(i)'
    BY <1>0 DEF RequestTypes, Good, Directed, Barred, Bars, Models
  <1>6. InHand(i)'
    BY <1>0 DEF RequestTypes, Good, InHand, Unrecorded, Trying, Http
  <1> QED
    BY <1>1, <1>2, <1>3, <1>4, <1>5, <1>6, SegmentFrame DEF Good

\* The code goes by the response, and its refusal bars the model.
LEMMA SeeStep == ASSUME RequestInv, NEW i \in Segments, See(i) PROVE RequestInv'
  <1> USE DEF MoveTo, Aim, Closing, Settle, Interrupted, chosen, call, See
  <1>0. Good(i) /\ RequestTypes
    BY DEF RequestInv, Good
  <1>1. RequestTypes'
    BY <1>0, Limits DEF RequestTypes, Models, Http, Plain, Bars
  <1>2. Elsewhere(i)
    BY <1>0 DEF RequestTypes, Elsewhere
  <1>3. Directed(i)'
    BY <1>0, Limits DEF RequestTypes, Good, Directed, Switched, Turned, Unrecorded, Trying, Out, Models
  <1>4. Charged(i)'
    BY <1>0, Limits, Times DEF RequestTypes, Good, Directed, Charged, Trying, Out, Models, TriesOf, Tried
  <1>5. Barred(i)'
    BY <1>0 DEF RequestTypes, Good, Directed, Barred, Bars, Models
  <1>6. InHand(i)'
    BY <1>0 DEF RequestTypes, Good, InHand, Unrecorded, Trying, Http
  <1> QED
    BY <1>1, <1>2, <1>3, <1>4, <1>5, <1>6, SegmentFrame DEF Good

\* The deadline comes first; what is in hand stays there.
LEMMA DeadlineStep == ASSUME RequestInv, NEW i \in Segments, Deadline(i) PROVE RequestInv'
  <1> USE DEF MoveTo, Aim, Closing, Settle, Interrupted, chosen, call, Deadline
  <1>0. Good(i) /\ RequestTypes
    BY DEF RequestInv, Good
  <1>1. RequestTypes'
    BY <1>0, Limits DEF RequestTypes, Models, Http, Plain, Bars
  <1>2. Elsewhere(i)
    BY <1>0 DEF RequestTypes, Elsewhere
  <1>3. Directed(i)'
    BY <1>0, Limits DEF RequestTypes, Good, Directed, Switched, Turned, Unrecorded, Trying, Out, Models
  <1>4. Charged(i)'
    BY <1>0, Limits, Times DEF RequestTypes, Good, Directed, Charged, Trying, Out, Models, TriesOf, Tried
  <1>5. Barred(i)'
    BY <1>0 DEF RequestTypes, Good, Directed, Barred, Bars, Models
  <1>6. InHand(i)'
    BY <1>0 DEF RequestTypes, Good, InHand, Unrecorded, Trying, Http
  <1> QED
    BY <1>1, <1>2, <1>3, <1>4, <1>5, <1>6, SegmentFrame DEF Good

\* The request is cancelled; what is in hand stays there.
LEMMA CutStep == ASSUME RequestInv, NEW i \in Segments, Cut(i) PROVE RequestInv'
  <1> USE DEF MoveTo, Aim, Closing, Settle, Interrupted, chosen, call, Cut
  <1>0. Good(i) /\ RequestTypes
    BY DEF RequestInv, Good
  <1>1. RequestTypes'
    BY <1>0, Limits DEF RequestTypes, Models, Http, Plain, Bars
  <1>2. Elsewhere(i)
    BY <1>0 DEF RequestTypes, Elsewhere
  <1>3. Directed(i)'
    BY <1>0, Limits DEF RequestTypes, Good, Directed, Switched, Turned, Unrecorded, Trying, Out, Models
  <1>4. Charged(i)'
    BY <1>0, Limits, Times DEF RequestTypes, Good, Directed, Charged, Trying, Out, Models, TriesOf, Tried
  <1>5. Barred(i)'
    BY <1>0 DEF RequestTypes, Good, Directed, Barred, Bars, Models
  <1>6. InHand(i)'
    BY <1>0 DEF RequestTypes, Good, InHand, Unrecorded, Trying, Http
  <1> QED
    BY <1>1, <1>2, <1>3, <1>4, <1>5, <1>6, SegmentFrame DEF Good

\* What is in hand is written to the trace.
LEMMA CloseStep == ASSUME RequestInv, NEW i \in Segments, Close(i) PROVE RequestInv'
  <1> USE DEF MoveTo, Aim, Closing, Settle, Interrupted, chosen, call, Close
  <1>0. Good(i) /\ RequestTypes
    BY DEF RequestInv, Good
  <1>1. RequestTypes'
    BY <1>0, Limits DEF RequestTypes, Models, Http, Plain, Bars
  <1>2. Elsewhere(i)
    BY <1>0 DEF RequestTypes, Elsewhere
  <1>3. Directed(i)'
    BY <1>0, Limits DEF RequestTypes, Good, Directed, Switched, Turned, Unrecorded, Trying, Out, Models
  <1>4. Charged(i)'
    BY <1>0, Limits, Times DEF RequestTypes, Good, Directed, Charged, Trying, Out, Models, TriesOf, Tried
  <1>5. Barred(i)'
    BY <1>0 DEF RequestTypes, Good, Directed, Barred, Bars, Models
  <1>6. InHand(i)'
    BY <1>0 DEF RequestTypes, Good, InHand, Unrecorded, Trying, Http
  <1> QED
    BY <1>1, <1>2, <1>3, <1>4, <1>5, <1>6, SegmentFrame DEF Good

\* The trace could not be written.
LEMMA CloseFailsStep == ASSUME RequestInv, NEW i \in Segments, NEW v \in Unrecorded, CloseFails(i, v) PROVE RequestInv'
  <1> USE DEF MoveTo, Aim, Closing, Settle, Interrupted, chosen, call, CloseFails, Unwritten, Unrecorded
  <1>0. Good(i) /\ RequestTypes
    BY DEF RequestInv, Good
  <1>1. RequestTypes'
    BY <1>0, Limits DEF RequestTypes, Models, Http, Plain, Bars
  <1>2. Elsewhere(i)
    BY <1>0 DEF RequestTypes, Elsewhere
  <1>3. Directed(i)'
    BY <1>0, Limits DEF RequestTypes, Good, Directed, Switched, Turned, Unrecorded, Trying, Out, Models
  <1>4. Charged(i)'
    BY <1>0, Limits, Times DEF RequestTypes, Good, Directed, Charged, Trying, Out, Models, TriesOf, Tried
  <1>5. Barred(i)'
    BY <1>0 DEF RequestTypes, Good, Directed, Barred, Bars, Models
  <1>6. InHand(i)'
    BY <1>0 DEF RequestTypes, Good, InHand, Unrecorded, Trying, Http
  <1> QED
    BY <1>1, <1>2, <1>3, <1>4, <1>5, <1>6, SegmentFrame DEF Good

\* A direct call is tried again, within the tries of its model.
LEMMA AgainStep == ASSUME RequestInv, NEW i \in Segments, Again(i) PROVE RequestInv'
  <1> USE DEF MoveTo, Aim, Closing, Settle, Interrupted, chosen, call, Again, Decides, Tried
  <1>0. Good(i) /\ RequestTypes
    BY DEF RequestInv, Good
  <1>1. RequestTypes'
    <2>1. tries[i] + 1 \in 0 .. Tries - 1
      BY <1>0, Limits DEF RequestTypes, TriesOf
    <2> QED
      BY <1>0, <2>1 DEF RequestTypes
  <1>2. Elsewhere(i)
    BY <1>0 DEF RequestTypes, Elsewhere
  <1>3. Directed(i)'
    BY <1>0, Limits DEF RequestTypes, Good, Directed, Switched, Turned, Unrecorded, Trying, Out, Models
  <1>4. Charged(i)'
    BY <1>0, Limits, Times DEF RequestTypes, Good, Directed, Charged, Trying, Out, Models, TriesOf, Tried
  <1>5. Barred(i)'
    BY <1>0 DEF RequestTypes, Good, Directed, Barred, Bars, Models
  <1>6. InHand(i)'
    BY <1>0 DEF RequestTypes, Good, InHand, Unrecorded, Trying, Http
  <1> QED
    BY <1>1, <1>2, <1>3, <1>4, <1>5, <1>6, SegmentFrame DEF Good

\* The second model is asked: the configured one has been, and the change is paid once.
LEMMA SwitchStep == ASSUME RequestInv, NEW i \in Segments, Switch(i) PROVE RequestInv'
  <1> USE DEF MoveTo, Aim, Closing, Settle, Interrupted, chosen, call, Switch, Decides
  <1>0. Good(i) /\ RequestTypes
    BY DEF RequestInv, Good
  <1>1. RequestTypes'
    BY <1>0, Limits DEF RequestTypes, Models, Http, Plain, Bars
  <1>2. Elsewhere(i)
    BY <1>0 DEF RequestTypes, Elsewhere
  <1>3. Directed(i)'
    <2>1. Turned(i)
      BY <1>0, ErrorsTell DEF RequestTypes, Good, Directed, Turned, Barred, Out, Unrecorded, Models
    <2>2. policy # {}
      BY DEF Spared
    <2> QED
      BY <1>0, <2>1, <2>2 DEF RequestTypes, Good, Directed, Switched, Turned, Unrecorded, Trying, Out, Models
  <1>4. Charged(i)'
    BY <1>0, Limits, Times DEF RequestTypes, Good, Directed, Charged, Trying, Out, Models, TriesOf, Tried
  <1>5. Barred(i)'
    BY <1>0, ErrorsTell DEF RequestTypes, Good, Directed, Barred, Bars, Models
  <1>6. InHand(i)'
    BY <1>0 DEF RequestTypes, Good, InHand, Unrecorded, Trying, Http
  <1> QED
    BY <1>1, <1>2, <1>3, <1>4, <1>5, <1>6, SegmentFrame DEF Good

\* The queue may try again: nothing that bars every model has happened.
LEMMA RetryStep == ASSUME RequestInv, NEW i \in Segments, Retry(i) PROVE RequestInv'
  <1> USE DEF MoveTo, Aim, Closing, Settle, Interrupted, chosen, call, Retry, Reported, Decides
  <1>0. Good(i) /\ RequestTypes
    BY DEF RequestInv, Good
  <1>1. RequestTypes'
    BY <1>0, Limits DEF RequestTypes, Models, Http, Plain, Bars
  <1>2. Elsewhere(i)
    BY <1>0 DEF RequestTypes, Elsewhere
  <1>3. Directed(i)'
    BY <1>0, ErrorsTell, Limits DEF RequestTypes, Good, Directed, Switched, Turned, Unrecorded, Trying, Out, Models
  <1>4. Charged(i)'
    BY <1>0, Limits, Times DEF RequestTypes, Good, Directed, Charged, Trying, Out, Models, TriesOf, Tried
  <1>5. Barred(i)'
    BY <1>0, ErrorsTell DEF RequestTypes, Good, Directed, Barred, Bars, Models
  <1>6. InHand(i)'
    BY <1>0 DEF RequestTypes, Good, InHand, Unrecorded, Trying, Http
  <1> QED
    BY <1>1, <1>2, <1>3, <1>4, <1>5, <1>6, SegmentFrame DEF Good

\* The request is over.
LEMMA SettleStep == ASSUME RequestInv, NEW i \in Segments, Succeed(i) \/ Refused(i) \/ GiveUp(i) \/ Withdraw(i) PROVE RequestInv'
  <1> USE DEF MoveTo, Aim, Closing, Settle, Interrupted, chosen, call, Succeed, Refused, GiveUp, Withdraw, Reported, Decides
  <1>0. Good(i) /\ RequestTypes
    BY DEF RequestInv, Good
  <1>1. RequestTypes'
    BY <1>0, Limits DEF RequestTypes, Models, Http, Plain, Bars
  <1>2. Elsewhere(i)
    BY <1>0 DEF RequestTypes, Elsewhere
  <1>3. Directed(i)'
    BY <1>0, Limits DEF RequestTypes, Good, Directed, Switched, Turned, Unrecorded, Trying, Out, Models
  <1>4. Charged(i)'
    BY <1>0, Limits, Times DEF RequestTypes, Good, Directed, Charged, Trying, Out, Models, TriesOf, Tried
  <1>5. Barred(i)'
    BY <1>0 DEF RequestTypes, Good, Directed, Barred, Bars, Models
  <1>6. InHand(i)'
    BY <1>0 DEF RequestTypes, Good, InHand, Unrecorded, Trying, Http
  <1> QED
    BY <1>1, <1>2, <1>3, <1>4, <1>5, <1>6, SegmentFrame DEF Good

\* Every step keeps the invariant.
LEMMA RequestStep == RequestInv /\ [RequestsNext]_requestVars => RequestInv'
  <1> SUFFICES ASSUME RequestInv, [RequestsNext]_requestVars PROVE RequestInv'
    OBVIOUS
  <1>1. CASE Cancel \/ UNCHANGED requestVars
    <2>1. UNCHANGED <<sdk, policy, active, at, attempts, tries, model, got, held, verdict, trace, deaf, asked, barred>>
      BY <1>1 DEF Cancel, requestVars, chosen, call
    <2> QED
      BY <2>1 DEF RequestInv, RequestTypes, Directed, Switched, Turned, Unrecorded, Charged, Barred, Bars, InHand, Trying, Out
  <1>2. ASSUME NEW i \in Segments, Serve(i) PROVE RequestInv'
    BY <1>2, AttemptStep, OpenStep, SeeStep, DeadlineStep, CutStep, CloseStep, AgainStep, SwitchStep, RetryStep,
       SettleStep DEF Serve
  <1> QED
    BY <1>1, <1>2, OpenFailsStep, CloseFailsStep, ReplyArrives DEF RequestsNext

\* The inductive invariant of the paid calls (GeminiProvider._request): whom a segment
\* may ask, what its attempts have cost, which models have refused, and what is in hand.
THEOREM RequestInvariance == RequestsSpec => []RequestInv
  <1>1. RequestsInit => RequestInv
    <2> SUFFICES ASSUME RequestsInit PROVE RequestInv
      OBVIOUS
    <2>1. RequestTypes
      BY Limits, RoutesAndPolicies DEF RequestsInit, RequestTypes, Models
    <2> QED
      BY <2>1, Times, Limits DEF RequestsInit, RequestInv, Directed, Charged, Barred, InHand, Trying, Out, Models, Http
  <1> QED
    BY <1>1, RequestStep, PTL DEF RequestsSpec

\* For any number of segments, attempts and tries and every choice of the owner: the
\* calls of a segment stay within its budget, with one more for the change to the
\* second model, and no response of the SDK is lost.
THEOREM RequestsSound == RequestsSpec => []RequestSound
  <1>1. RequestInv => CallBudget
    <2> SUFFICES ASSUME RequestInv, NEW i \in Segments
                 PROVE  asked[i]["primary"] + asked[i]["fallback"] <= Attempts * Tries + (IF policy = {} THEN 0 ELSE 1)
      BY DEF CallBudget
    <2> DEFINE a == attempts[i]
               sum == asked[i]["primary"] + asked[i]["fallback"]
    <2>1. a \in Nat /\ a <= Attempts /\ sum \in Nat /\ tries[i] \in Nat /\ tries[i] + 1 <= Tries
      BY Limits DEF RequestInv, RequestTypes, Models
    <2>2. a * Tries <= Attempts * Tries /\ (a - 1) * Tries = a * Tries - Tries /\ a * Tries \in Nat /\ Attempts * Tries \in Nat
      BY <2>1, Times, TimesGrows, Limits
    <2>3. i \in active => policy # {}
      BY DEF RequestInv, Directed, Switched
    <2>4. sum <= a * Tries + (IF i \in active THEN 1 ELSE 0)
      <3>1. Charged(i) /\ model[i] \in Models
        BY DEF RequestInv, RequestTypes
      <3>2. CASE ~Trying(i)
        BY <3>1, <3>2 DEF Charged
      <3>3. CASE Trying(i) /\ model[i] = "primary"
        <4>1. sum <= (a - 1) * Tries + tries[i] + (IF Out(i) THEN 1 ELSE 0)
          BY <3>1, <3>3 DEF Charged
        <4> HIDE DEF a, sum
        <4>2. sum <= a * Tries
          BY <4>1, <2>1, <2>2, Limits
        <4> QED
          BY <4>2, <2>1, <2>2
      <3>4. CASE Trying(i) /\ model[i] # "primary"
        <4>1. sum + 1 <= a * Tries + (IF i \in active THEN 1 ELSE 0) + (IF Out(i) THEN 1 ELSE 0)
          BY <3>1, <3>4 DEF Charged
        <4> HIDE DEF a, sum
        <4> QED
          BY <4>1, <2>1, <2>2
      <3> QED
        BY <3>2, <3>3, <3>4
    <2> QED
      BY <2>1, <2>2, <2>3, <2>4
  <1>2. RequestInv => SdkAnswersKept
    BY DEF RequestInv, RequestTypes, InHand, SdkAnswersKept, Kept, Trying
  <1> QED
    BY <1>1, <1>2, RequestInvariance, PTL DEF RequestSound

\* A call goes out only from a segment that is opening, whose model is not barred and,
\* if it is the configured one, is the only one asked so far.
THEOREM RefusalsHeeded == RequestsSpec => NotAskedAgain
  <1> DEFINE Heeded == \A i \in Segments, m \in Models : asked'[i][m] > asked[i][m] =>
                          m \notin barred[i] /\ (m = "primary" => asked[i]["fallback"] = 0)
  <1>1. RequestInv /\ [RequestsNext]_requestVars => Heeded
    <2> SUFFICES ASSUME RequestInv, [RequestsNext]_requestVars PROVE Heeded
      OBVIOUS
    <2>1. ASSUME NEW i \in Segments, Open(i) PROVE Heeded
      <3>1. at[i] = "opening" /\ (asked' = asked \/ asked' = [asked EXCEPT ![i][model[i]] = @ + 1])
        BY <2>1 DEF Open
      <3>2. model[i] \notin barred[i] /\ (model[i] = "primary" => asked[i]["fallback"] = 0)
        BY <3>1 DEF RequestInv, RequestTypes, Directed, Barred, Trying
      <3>3. \A g \in Segments, m \in Models : asked'[g][m] > asked[g][m] => g = i /\ m = model[i]
        BY <3>1 DEF RequestInv, RequestTypes
      <3> QED
        BY <3>2, <3>3
    <2>2. ASSUME asked' = asked PROVE Heeded
      BY <2>2 DEF RequestInv, RequestTypes
    <2>3. ASSUME NEW i \in Segments, Serve(i), ~Open(i) PROVE asked' = asked
      BY <2>3 DEF Serve, Attempt, See, Deadline, Cut, Interrupted, Closing, Close, Again, Switch, Succeed, Refused,
           Retry, GiveUp, Withdraw, Settle
    <2>4. ASSUME NEW i \in Segments,
                 (\E v \in Unrecorded : OpenFails(i, v) \/ CloseFails(i, v)) \/ \E answer \in Http \cup {"lost"} : Reply(i, answer)
          PROVE  asked' = asked
      BY <2>4 DEF OpenFails, CloseFails, Unwritten, Reply
    <2>5. CASE Cancel \/ UNCHANGED requestVars
      BY <2>5, <2>2 DEF Cancel, requestVars
    <2> QED
      BY <2>1, <2>2, <2>3, <2>4, <2>5 DEF RequestsNext
  <1> QED
    BY <1>1, RequestInvariance, PTL DEF RequestsSpec, NotAskedAgain

-------------------------------------------------------------------------------
(***************************************************************************)
(* Admission to the storage.  Sums over tenants are sets of units, so that *)
(* what one tenant's step does to them follows from the cardinality of     *)
(* disjoint sets.                                                          *)
(***************************************************************************)
Of(f, h) == {h} \X (1 .. f[h])
Pieces(f) == UNION {Of(f, h) : h \in Tenants}

LEMMA TotalPieces == \A f : Total(f) = Cardinality(Pieces(f))
  BY DEF Total, Pieces, Of

\* One tenant's units.
LEMMA OneOf ==
    ASSUME NEW f \in [Tenants -> Nat], NEW h \in Tenants
    PROVE  IsFiniteSet(Of(f, h)) /\ Cardinality(Of(f, h)) = f[h]
  <1>1. IsFiniteSet({h}) /\ Cardinality({h}) = 1
    BY FS_Singleton
  <1>2. f[h] \in Nat /\ 1 \in Int /\ f[h] \in Int
    OBVIOUS
  <1>3. IsFiniteSet(1 .. f[h]) /\ Cardinality(1 .. f[h]) = IF 1 > f[h] THEN 0 ELSE f[h] - 1 + 1
    BY <1>2, FS_Interval
  <1>4. Cardinality(1 .. f[h]) = f[h]
    BY <1>2, <1>3
  <1>5. IsFiniteSet({h} \X (1 .. f[h])) /\ Cardinality({h} \X (1 .. f[h])) = 1 * f[h]
    BY <1>1, <1>3, <1>4, FS_Product
  <1> QED
    BY <1>2, <1>5 DEF Of

\* All units, and those of some tenants.
LEMMA PiecesFinite ==
    ASSUME NEW f \in [Tenants -> Nat]
    PROVE  IsFiniteSet(Pieces(f)) /\ Total(f) \in Nat
  <1> DEFINE all == {Of(f, h) : h \in Tenants}
             g == [h \in Tenants |-> Of(f, h)]
  <1>1. g \in Surjection(Tenants, all)
    BY DEF Surjection
  <1>2. IsFiniteSet(all)
    BY <1>1, FS_Surjection, SpaceUnits
  <1>3. \A T \in all : IsFiniteSet(T)
    BY OneOf
  <1>4. IsFiniteSet(UNION all)
    BY <1>2, <1>3, FS_UNION
  <1>5. IsFiniteSet(Pieces(f))
    BY <1>4 DEF Pieces
  <1> QED
    BY <1>5, FS_CardinalityType, TotalPieces

\* More for everybody is more in all.
LEMMA TotalMonotone ==
    ASSUME NEW f \in [Tenants -> Nat], NEW g \in [Tenants -> Nat], \A h \in Tenants : f[h] <= g[h]
    PROVE  Total(f) <= Total(g)
  <1>1. \A h \in Tenants : Of(f, h) \subseteq Of(g, h)
    BY DEF Of
  <1>2. Pieces(f) \in SUBSET Pieces(g)
    BY <1>1 DEF Pieces
  <1>3. IsFiniteSet(Pieces(g))
    BY PiecesFinite
  <1> QED
    BY <1>2, <1>3, FS_Subset, TotalPieces

\* What all others have does not change when one has more or less.
LEMMA TotalChange ==
    ASSUME NEW f \in [Tenants -> Nat], NEW g \in [Tenants -> Nat], NEW h \in Tenants,
           \A k \in Tenants \ {h} : f[k] = g[k]
    PROVE  Total(g) + f[h] = Total(f) + g[h]
  <1> DEFINE rest == UNION {Of(f, k) : k \in Tenants \ {h}}
  <1>1. \A k \in Tenants \ {h} : Of(f, k) = Of(g, k)
    BY DEF Of
  <1>2. rest = UNION {Of(g, k) : k \in Tenants \ {h}}
    BY <1>1
  <1>3. Pieces(f) = rest \cup Of(f, h)
    BY DEF Pieces
  <1>4. Pieces(g) = rest \cup Of(g, h)
    BY <1>2 DEF Pieces
  <1>5. rest \cap Of(f, h) = {} /\ rest \cap Of(g, h) = {}
    BY DEF Of
  <1>6. rest \in SUBSET Pieces(f) /\ IsFiniteSet(Pieces(f))
    BY <1>3, PiecesFinite
  <1>7. IsFiniteSet(rest)
    BY <1>6, FS_Subset
  <1> HIDE DEF rest
  <1>8. Cardinality(rest) \in Nat
    BY <1>7, FS_CardinalityType
  <1>9. IsFiniteSet(Of(f, h)) /\ Cardinality(Of(f, h)) = f[h] /\ IsFiniteSet(Of(g, h)) /\ Cardinality(Of(g, h)) = g[h]
    BY OneOf
  <1>10. Cardinality(rest \cup Of(f, h)) = Cardinality(rest) + f[h] - Cardinality({})
    BY <1>5, <1>7, <1>9, FS_Union
  <1>11. Cardinality(rest \cup Of(g, h)) = Cardinality(rest) + g[h] - Cardinality({})
    BY <1>5, <1>7, <1>9, FS_Union
  <1>12. Cardinality({}) = 0 /\ f[h] \in Nat /\ g[h] \in Nat
    BY FS_EmptySet
  <1>13. Total(f) = Cardinality(rest) + f[h] /\ Total(g) = Cardinality(rest) + g[h]
    <2>1. Total(f) = Cardinality(rest \cup Of(f, h)) /\ Total(g) = Cardinality(rest \cup Of(g, h))
      BY <1>3, <1>4, TotalPieces
    <2> QED
      BY <2>1, <1>8, <1>10, <1>11, <1>12
  <1> QED
    BY <1>8, <1>12, <1>13

LEMMA TotalNothing ==
    ASSUME NEW f \in [Tenants -> Nat], \A h \in Tenants : f[h] = 0
    PROVE  Total(f) = 0
  <1>1. \A h \in Tenants : Of(f, h) = {}
    BY DEF Of
  <1>2. Pieces(f) = {}
    BY <1>1 DEF Pieces
  <1> QED
    BY <1>2, FS_EmptySet, TotalPieces

\* What is promised to every tenant, and what a measurement knows of it.
Promised == [h \in Tenants |-> Share(h, reserved[h])]
SeenOf == [h \in Tenants |-> Seen(h)]
UncountedOf == [h \in Tenants |-> Uncounted(h)]
OutstandingOf == [h \in Tenants |-> Outstanding(h)]

\* Its reading, when there is one.
LEMMA ReadingTypes ==
    ASSUME SpaceTypes
    PROVE  /\ Measuring => reading \in Readings
           /\ ~Measuring => reading.of = Nobody
           /\ reading.override \in Nat
  <1>1. Idle.of = Nobody /\ Idle.override = 0 /\ Idle.kind = "none"
    BY DEF Idle
  <1>2. \A x \in Readings : x.kind # "none" /\ x.override \in Nat
    BY DEF Readings, Admissions, Creations, Copies
  <1> QED
    BY <1>1, <1>2 DEF SpaceTypes, Measuring

LEMMA Amounts ==
    ASSUME SpaceTypes
    PROVE  /\ \A h \in Tenants : used[h] \in Nat /\ reserved[h] \in Nat /\ Reservation(h) \in Nat
           /\ \A h \in Tenants : \A n \in Nat : Share(h, n) \in Nat
           /\ \A h \in Tenants : Seen(h) \in Nat /\ Uncounted(h) \in Nat /\ Outstanding(h) \in Nat
           /\ Promised \in [Tenants -> Nat] /\ SeenOf \in [Tenants -> Nat]
           /\ UncountedOf \in [Tenants -> Nat] /\ OutstandingOf \in [Tenants -> Nat]
           /\ Total(Promised) \in Nat /\ Total(SeenOf) \in Nat /\ Total(UncountedOf) \in Nat /\ Total(OutstandingOf) \in Nat
  <1>1. \A h \in Tenants : used[h] \in Nat /\ reserved[h] \in Nat /\ Reservation(h) \in Nat
    BY ReadingTypes DEF SpaceTypes, Reservation
  <1>2. \A h \in Tenants : \A n \in Nat : Share(h, n) \in Nat
    BY <1>1 DEF Share, Excess
  <1>3. \A h \in Tenants : Seen(h) \in Nat /\ Uncounted(h) \in Nat /\ Outstanding(h) \in Nat
    BY <1>1, <1>2 DEF Seen, Uncounted, Outstanding, Promise
  <1>4. /\ Promised \in [Tenants -> Nat] /\ SeenOf \in [Tenants -> Nat]
        /\ UncountedOf \in [Tenants -> Nat] /\ OutstandingOf \in [Tenants -> Nat]
    BY <1>1, <1>2, <1>3 DEF Promised, SeenOf, UncountedOf, OutstandingOf
  <1> QED
    BY <1>1, <1>2, <1>3, <1>4, PiecesFinite

\* The invariant in these terms.
SpaceInv ==
    /\ SpaceTypes /\ ReadingInv
    /\ assets + Total(Promised) <= Quota + Drift
    /\ Measuring /\ reading.kind # "save" =>
          Total(SeenOf) <= reading.left + reading.count + Total(UncountedOf) + freed + written
    /\ Measuring /\ reading.kind = "register" =>
          assets + reading.need + reading.left + reading.count + Total(OutstandingOf) <= Quota + Small + Drift

LEMMA SpaceInvSound == SpaceInv <=> SpaceTypes /\ ReadingInv /\ LowerInv /\ UpperInv /\ CommittedFits
  <1>1. LowerInv <=> (Measuring /\ reading.kind # "save" => Total(SeenOf) <= reading.left + reading.count + Total(UncountedOf) + freed + written)
    BY DEF LowerInv, SeenOf, UncountedOf
  <1> SUFFICES ASSUME SpaceTypes
               PROVE  SpaceInv <=> SpaceTypes /\ ReadingInv /\ LowerInv /\ UpperInv /\ CommittedFits
    BY DEF SpaceInv
  <1>3. UpperInv <=> (Measuring /\ reading.kind = "register" =>
                         assets + reading.need + reading.left + reading.count + Total(OutstandingOf) <= Quota + Small + Drift)
    BY DEF UpperInv, OutstandingOf
  <1>4. CommittedFits <=> assets + Total(Promised) <= Quota + Drift
    BY DEF CommittedFits, Committed, Promised
  <1> QED
    BY <1>1, <1>3, <1>4 DEF SpaceInv

\* A registration that has counted everything fits.
LEMMA Registers ==
    ASSUME SpaceInv
    PROVE  RegistrationFits
  <1> SUFFICES ASSUME Counted, reading.kind = "register"
               PROVE  assets + reading.count + reading.left + reading.need <= Quota + Small + Drift
    BY DEF RegistrationFits
  <1>0. SpaceTypes
    BY DEF SpaceInv
  <1>1. \A h \in Tenants : OutstandingOf[h] = 0
    BY DEF Counted, OutstandingOf, Outstanding
  <1>2. Total(OutstandingOf) = 0
    BY <1>0, <1>1, Amounts, TotalNothing
  <1>3. /\ reading.need \in Nat /\ reading.left \in Nat /\ reading.count \in Nat
        /\ assets \in Nat /\ Drift \in Nat /\ Quota \in Nat /\ Small \in Nat
    BY <1>0, ReadingTypes, SpaceUnits DEF Counted, SpaceTypes, Readings, Drift
  <1>4. assets + reading.need + reading.left + reading.count + Total(OutstandingOf) <= Quota + Small + Drift
    BY DEF SpaceInv, Counted
  <1> QED
    BY <1>2, <1>3, <1>4

LEMMA SpaceBegin == SpaceInit => SpaceInv
  <1> SUFFICES ASSUME SpaceInit PROVE SpaceInv
    OBVIOUS
  <1>1. SpaceTypes /\ ~Measuring
    BY DEF SpaceInit, SpaceTypes, Measuring, Idle
  <1>2. \A h \in Tenants : Promised[h] = 0
    BY DEF SpaceInit, Promised, Share
  <1>3. Total(Promised) = 0
    BY <1>1, <1>2, Amounts, TotalNothing
  <1>4. assets + Total(Promised) <= Quota + Drift
    BY <1>3, SpaceUnits DEF SpaceInit, Drift
  <1> QED
    BY <1>1, <1>4 DEF SpaceInv, ReadingInv

-------------------------------------------------------------------------------
\* What changes for one tenant changes the sums by as much.
LEMMA OneTenant ==
    ASSUME SpaceInv, SpaceTypes', ReadingInv', NEW k \in Tenants, UNCHANGED assets, torn' = torn,
           freed' >= freed, written' >= written, unreserved' >= unreserved,
           reading'.kind = reading.kind, Measuring' = Measuring,
           reading'.need = reading.need,
           \A h \in Tenants \ {k} : /\ Promised'[h] = Promised[h] /\ SeenOf'[h] = SeenOf[h]
                                    /\ UncountedOf'[h] = UncountedOf[h] /\ OutstandingOf'[h] = OutstandingOf[h],
           Promised'[k] + unreserved <= Promised[k] + unreserved',
           Measuring => /\ reading.kind # "save" =>
                              SeenOf'[k] + UncountedOf[k] + reading.left + reading.count + freed + written
                                 <= SeenOf[k] + UncountedOf'[k] + reading'.left + reading'.count + freed' + written'
                        /\ reading.kind = "register" =>
                              OutstandingOf'[k] + reading'.left + reading'.count + written
                                 <= OutstandingOf[k] + reading.left + reading.count + written'
    PROVE  SpaceInv'
  <1>0. SpaceTypes
    BY DEF SpaceInv
  <1>1. /\ freed \in Nat /\ written \in Nat /\ torn \in Nat /\ assets \in Nat
        /\ freed' \in Nat /\ written' \in Nat /\ Quota \in Nat /\ Small \in Nat
        /\ unreserved \in Nat /\ unreserved' \in Nat
    BY <1>0, SpaceUnits DEF SpaceTypes
  <1>2. Measuring => /\ reading.left \in Nat /\ reading.count \in Nat /\ reading'.left \in Nat /\ reading'.count \in Nat
                     /\ reading.need \in Nat
    <2>1. Measuring => reading.left \in Nat /\ reading.count \in Nat /\ reading.need \in Nat
      BY <1>0, ReadingTypes DEF Readings
    <2>2. (Measuring => reading \in Readings)'
      BY ReadingTypes, PTL
    <2> QED
      BY <2>1, <2>2 DEF Readings
  <1>3. /\ Promised \in [Tenants -> Nat] /\ SeenOf \in [Tenants -> Nat]
        /\ UncountedOf \in [Tenants -> Nat] /\ OutstandingOf \in [Tenants -> Nat]
        /\ Total(Promised) \in Nat /\ Total(SeenOf) \in Nat /\ Total(UncountedOf) \in Nat /\ Total(OutstandingOf) \in Nat
    BY <1>0, Amounts
  <1>4. ( /\ Promised \in [Tenants -> Nat] /\ SeenOf \in [Tenants -> Nat]
          /\ UncountedOf \in [Tenants -> Nat] /\ OutstandingOf \in [Tenants -> Nat]
          /\ Total(Promised) \in Nat /\ Total(SeenOf) \in Nat
          /\ Total(UncountedOf) \in Nat /\ Total(OutstandingOf) \in Nat )'
    BY Amounts, PTL
  <1>T. Total(Promised)' = Total(Promised') /\ Total(SeenOf)' = Total(SeenOf')
        /\ Total(UncountedOf)' = Total(UncountedOf') /\ Total(OutstandingOf)' = Total(OutstandingOf')
    BY DEF Total
  <1>5. Total(Promised') + Promised[k] = Total(Promised) + Promised'[k]
    BY <1>3, <1>4, TotalChange
  <1>6. Total(SeenOf') + SeenOf[k] = Total(SeenOf) + SeenOf'[k]
    BY <1>3, <1>4, TotalChange
  <1>7. Total(UncountedOf') + UncountedOf[k] = Total(UncountedOf) + UncountedOf'[k]
    BY <1>3, <1>4, TotalChange
  <1>8. Total(OutstandingOf') + OutstandingOf[k] = Total(OutstandingOf) + OutstandingOf'[k]
    BY <1>3, <1>4, TotalChange
  <1>9. /\ Promised[k] \in Nat /\ SeenOf[k] \in Nat /\ UncountedOf[k] \in Nat /\ OutstandingOf[k] \in Nat
        /\ Promised'[k] \in Nat /\ SeenOf'[k] \in Nat /\ UncountedOf'[k] \in Nat /\ OutstandingOf'[k] \in Nat
    BY <1>3, <1>4
  <1>10. (assets + Total(Promised) <= Quota + Drift)'
    <2>1. assets + Total(Promised) <= Quota + (freed + written + torn + unreserved)
      BY DEF SpaceInv, Drift
    <2>2. assets + Total(Promised)' <= Quota + (freed' + written' + torn + unreserved')
      BY <2>1, <1>1, <1>3, <1>4, <1>T, <1>5, <1>9
    <2> QED
      BY <2>2 DEF Drift
  <1>11. (Measuring /\ reading.kind # "save" =>
            Total(SeenOf) <= reading.left + reading.count + Total(UncountedOf) + freed + written)'
    <2> SUFFICES ASSUME Measuring, reading.kind # "save"
                 PROVE  Total(SeenOf)' <= reading'.left + reading'.count + Total(UncountedOf)' + freed' + written'
      OBVIOUS
    <2>1. Total(SeenOf) <= reading.left + reading.count + Total(UncountedOf) + freed + written
      BY DEF SpaceInv
    <2> QED
      BY <2>1, <1>1, <1>2, <1>3, <1>4, <1>T, <1>6, <1>7, <1>9
  <1>12. (Measuring /\ reading.kind = "register" =>
            assets + reading.need + reading.left + reading.count + Total(OutstandingOf) <= Quota + Small + Drift)'
    <2> SUFFICES ASSUME Measuring, reading.kind = "register"
                 PROVE  assets + reading.need + reading'.left + reading'.count + Total(OutstandingOf)'
                           <= Quota + Small + (freed' + written' + torn + unreserved')
      BY DEF Drift
    <2>1. assets + reading.need + reading.left + reading.count + Total(OutstandingOf)
             <= Quota + Small + (freed + written + torn + unreserved)
      BY DEF SpaceInv, Drift
    <2> QED
      BY <2>1, <1>1, <1>2, <1>3, <1>4, <1>T, <1>8, <1>9
  <1> QED
    BY <1>10, <1>11, <1>12 DEF SpaceInv

\* The amounts of one tenant, spelled out.
LEMMA Spelled ==
    /\ \A h \in Tenants : Promised[h] = Share(h, reserved[h]) /\ SeenOf[h] = Seen(h)
                          /\ UncountedOf[h] = Uncounted(h) /\ OutstandingOf[h] = Outstanding(h)
    /\ \A h \in Tenants : Promised'[h] = Share(h, reserved[h])' /\ SeenOf'[h] = Seen(h)'
                          /\ UncountedOf'[h] = Uncounted(h)' /\ OutstandingOf'[h] = Outstanding(h)'
  BY DEF Promised, SeenOf, UncountedOf, OutstandingOf

-------------------------------------------------------------------------------
\* Files come and go while somebody measures.
LEMMA DriftStep ==
    ASSUME SpaceInv, NEW k \in Tenants, Grow(k) \/ Shrink(k) \/ End(k) \/ Expire(k)
    PROVE  SpaceInv'
  <1>0. SpaceTypes /\ ReadingInv
    BY DEF SpaceInv
  <1>1. /\ UNCHANGED <<reserved, assets, reading, torn>> /\ reading.of # k
        /\ \A h \in Tenants \ {k} : state'[h] = state[h] /\ used'[h] = used[h]
    BY <1>0 DEF Grow, Shrink, End, Expire, Unlocked, SpaceTypes
  <1>2. /\ freed \in Nat /\ written \in Nat /\ unreserved \in Nat /\ used[k] \in Nat /\ reserved[k] \in Nat
        /\ Reservation(k) = reserved[k] /\ Reservation(k)' = reserved[k] /\ reserved'[k] = reserved[k]
        /\ Measuring' = Measuring
    BY <1>0, <1>1 DEF SpaceTypes, Reservation, Measuring
  <1>3. /\ used'[k] \in Nat /\ freed' \in Nat /\ written' \in Nat /\ unreserved' \in Nat /\ unreserved' >= unreserved
        /\ state' \in [Tenants -> {"none", "live", "ended"}] /\ used' \in [Tenants -> Nat]
    BY <1>0, <1>2 DEF Grow, Shrink, End, Expire, SpaceTypes, Meanwhile
  <1>4. SpaceTypes'
    BY <1>0, <1>1, <1>3 DEF SpaceTypes
  <1>5. ReadingInv'
    <2>1. reading.of \in Tenants => state'[reading.of] = state[reading.of] /\ used'[reading.of] = used[reading.of]
      BY <1>1
    <2> QED
      BY <1>0, <1>1, <1>2, <2>1 DEF ReadingInv, Creations
  <1>6. \A h \in Tenants \ {k} : /\ Promised'[h] = Promised[h] /\ SeenOf'[h] = SeenOf[h]
                                 /\ UncountedOf'[h] = UncountedOf[h] /\ OutstandingOf'[h] = OutstandingOf[h]
    <2> SUFFICES ASSUME NEW h \in Tenants \ {k}
                 PROVE  /\ Share(h, reserved[h])' = Share(h, reserved[h]) /\ Seen(h)' = Seen(h)
                        /\ Uncounted(h)' = Uncounted(h) /\ Outstanding(h)' = Outstanding(h)
      BY Spelled
    <2>1. Share(h, reserved[h])' = Share(h, reserved[h])
      BY <1>1 DEF Share
    <2>2. Promise(h)' = Promise(h)
      BY <1>1 DEF Promise, Share, Reservation
    <2> QED
      BY <1>1, <2>1, <2>2 DEF Seen, Uncounted, Outstanding
  <1>7. /\ Promise(k) = Share(k, reserved[k]) /\ Promise(k)' = Share(k, reserved[k])'
        /\ Share(k, reserved[k])' + unreserved <= Share(k, reserved[k]) + unreserved'
        /\ (Measuring => Share(k, reserved[k])' + written <= Share(k, reserved[k]) + written')
        /\ Share(k, reserved[k]) \in Nat /\ Share(k, reserved[k])' \in Nat
        /\ (Measuring => used[k] - used'[k] <= freed' - freed /\ used'[k] - used[k] <= written' - written)
        /\ freed <= freed' /\ written <= written'
    <2>1. Promise(k) = Share(k, reserved[k]) /\ Promise(k)' = Share(k, reserved[k])'
      BY <1>2 DEF Promise
    <2>2. CASE Grow(k)
      BY <2>1, <2>2, <1>0, <1>2, <1>3 DEF Grow, Share, Excess, SpaceTypes, Meanwhile
    <2>3. CASE Shrink(k)
      BY <2>1, <2>3, <1>0, <1>2, <1>3 DEF Shrink, Share, Excess, SpaceTypes, Meanwhile
    <2>4. CASE End(k)
      BY <2>1, <2>4, <1>0, <1>2, <1>3 DEF End, Share, Excess, SpaceTypes
    <2>5. CASE Expire(k)
      BY <2>1, <2>5, <1>0, <1>2, <1>3 DEF Expire, Share, Excess, SpaceTypes, Meanwhile
    <2> QED
      BY <2>2, <2>3, <2>4, <2>5
  <1>9. \/ Outstanding(k) = 0 /\ Outstanding(k)' = 0
        \/ Outstanding(k) = used[k] /\ Outstanding(k)' = used'[k]
        \/ Outstanding(k) = Promise(k) /\ Outstanding(k)' = Promise(k)'
    BY <1>1 DEF Outstanding
  <1>8. Measuring => /\ Seen(k)' + Uncounted(k) + freed + written <= Seen(k) + Uncounted(k)' + freed' + written'
                     /\ Outstanding(k)' + written <= Outstanding(k) + written'
    <2> SUFFICES ASSUME Measuring
                 PROVE  /\ Seen(k)' + Uncounted(k) + freed + written <= Seen(k) + Uncounted(k)' + freed' + written'
                        /\ Outstanding(k)' + written <= Outstanding(k) + written'
      OBVIOUS
    <2>1. CASE reading.kind = "upload"
      <3>1. Uncounted(k) = 0 /\ Uncounted(k)' = 0
        BY <2>1, <1>1 DEF Uncounted
      <3>2. \/ Seen(k) = 0 /\ Seen(k)' = 0
            \/ Seen(k) = used[k] /\ Seen(k)' = used'[k]
            \/ Seen(k) = Promise(k) /\ Seen(k)' = Promise(k)'
        BY <2>1, <1>1 DEF Seen
      <3> QED
        BY <3>1, <3>2, <1>2, <1>3, <1>7, <1>9
    <2>2. CASE reading.kind # "upload"
      <3>1. \/ Seen(k) = 0 /\ Seen(k)' = 0 /\ Uncounted(k) = 0 /\ Uncounted(k)' = 0
            \/ Seen(k) = Promise(k) /\ Seen(k)' = Promise(k)' /\ Uncounted(k) = 0 /\ Uncounted(k)' = 0
            \/ Seen(k) = Promise(k) /\ Seen(k)' = Promise(k)' /\ Uncounted(k) = used[k] /\ Uncounted(k)' = used'[k]
        BY <2>2, <1>1 DEF Seen, Uncounted
      <3> QED
        BY <3>1, <1>2, <1>3, <1>7, <1>9
    <2> QED
      BY <2>1, <2>2
  <1>10. /\ Seen(k) \in Nat /\ Uncounted(k) \in Nat /\ Outstanding(k) \in Nat
         /\ Seen(k)' \in Nat /\ Uncounted(k)' \in Nat /\ Outstanding(k)' \in Nat
    <2>1. Seen(k) \in Nat /\ Uncounted(k) \in Nat /\ Outstanding(k) \in Nat
      BY <1>0, Amounts
    <2>2. (\A h \in Tenants : Seen(h) \in Nat /\ Uncounted(h) \in Nat /\ Outstanding(h) \in Nat)'
      BY <1>4, Amounts, PTL
    <2> QED
      BY <2>1, <2>2
  <1>11. Measuring => reading.left \in Nat /\ reading.count \in Nat
    BY <1>0, ReadingTypes DEF Readings
  <1>12. Measuring => /\ SeenOf'[k] + UncountedOf[k] + reading.left + reading.count + freed + written
                               <= SeenOf[k] + UncountedOf'[k] + reading'.left + reading'.count + freed' + written'
                      /\ OutstandingOf'[k] + reading'.left + reading'.count + written
                               <= OutstandingOf[k] + reading.left + reading.count + written'
    <2>1. Measuring => /\ Seen(k)' + Uncounted(k) + reading.left + reading.count + freed + written
                               <= Seen(k) + Uncounted(k)' + reading.left + reading.count + freed' + written'
                       /\ Outstanding(k)' + reading.left + reading.count + written
                               <= Outstanding(k) + reading.left + reading.count + written'
      BY <1>2, <1>3, <1>8, <1>10, <1>11
    <2> QED
      BY <2>1, <1>1, Spelled
  <1>13. Promised'[k] + unreserved <= Promised[k] + unreserved'
    BY <1>7, Spelled
  <1>14. freed' >= freed /\ written' >= written
    BY <1>2, <1>3, <1>7
  <1> QED
    BY <1>1, <1>2, <1>3, <1>4, <1>5, <1>6, <1>12, <1>13, <1>14, OneTenant


-------------------------------------------------------------------------------
\* A measurement begins: nothing is read, and all is promised as before.
LEMMA MeasureStep ==
    ASSUME SpaceInv, NEW k \in Tenants \cup {Nobody}, NEW kind \in Admissions, NEW need \in Nat, NEW override \in Nat,
           Measure(kind, k, need, override),
           kind # "copy" => k \in Tenants,
           kind \in Creations => state[k] = "none" /\ need >= override,
           kind \in {"start", "expand"} => state[k] = "live" /\ need = 0,
           kind = "retry" => state[k] = "ended" /\ need = Excess(override, used[k]),
           kind \in {"copy", "save"} /\ k \in Tenants => override = reserved[k],
           kind = "register" => /\ state[k] = "live" /\ override = 0 /\ need = Size + Margin
                                /\ used[k] \in Size .. Size + Small /\ reserved[k] = 2 * Size + Margin
    PROVE  SpaceInv'
  <1>0. SpaceTypes /\ Size \in Nat /\ Quota \in Nat /\ Margin \in Nat /\ Small \in Nat
    BY SpaceUnits DEF SpaceInv
  <1>1. /\ reading' = [kind |-> kind, of |-> k, need |-> need, override |-> override,
                       unread |-> IF kind = "save" THEN {} ELSE Tenants, uncounted |-> Tenants, left |-> 0, count |-> 0]
        /\ UNCHANGED <<state, reserved, used, assets, freed, written, torn, unreserved>>
    BY DEF Measure
  <1>2. SpaceTypes' /\ Measuring'
    <2>1. reading' \in Readings
      BY <1>1 DEF Readings
    <2>2. kind # "none"
      BY DEF Admissions, Creations, Copies
    <2> QED
      BY <1>0, <1>1, <2>1, <2>2 DEF SpaceTypes, Measuring
  <1>3. ReadingInv'
    BY <1>1 DEF ReadingInv
  <1>4. (assets + Total(Promised) <= Quota + Drift)'
    BY <1>1 DEF SpaceInv, Promised, Share, Drift, Total
  <1>5. ( /\ Promised \in [Tenants -> Nat] /\ SeenOf \in [Tenants -> Nat]
          /\ UncountedOf \in [Tenants -> Nat] /\ OutstandingOf \in [Tenants -> Nat]
          /\ Total(Promised) \in Nat /\ Total(SeenOf) \in Nat
          /\ Total(UncountedOf) \in Nat /\ Total(OutstandingOf) \in Nat )'
    BY <1>2, Amounts, PTL
  <1>T. Total(SeenOf)' = Total(SeenOf') /\ Total(UncountedOf)' = Total(UncountedOf')
        /\ Total(OutstandingOf)' = Total(OutstandingOf')
    BY DEF Total
  <1>6. kind # "save" => Total(SeenOf)' = 0
    <2> SUFFICES ASSUME kind # "save" PROVE Total(SeenOf)' = 0
      OBVIOUS
    <2>1. \A h \in Tenants : SeenOf'[h] = 0
      BY <1>1, Spelled DEF Seen
    <2> QED
      BY <2>1, <1>5, <1>T, TotalNothing
  <1>7. freed \in Nat /\ written \in Nat /\ torn \in Nat /\ assets \in Nat /\ unreserved \in Nat
    BY <1>0 DEF SpaceTypes
  <1>8. (Measuring /\ reading.kind # "save" => Total(SeenOf) <= reading.left + reading.count + Total(UncountedOf) + freed + written)'
    BY <1>1, <1>5, <1>6, <1>7
  <1>9. ASSUME kind = "register"
        PROVE  assets + need + 0 + 0 + Total(OutstandingOf)' <= Quota + Small + Drift
    <2>0. k \in Tenants /\ used[k] \in Nat
      BY <1>0, <1>9 DEF SpaceTypes
    <2>1. \A h \in Tenants : OutstandingOf'[h] = Share(h, IF h = k THEN 0 ELSE reserved[h])
      BY <1>1, <1>9, Spelled DEF Outstanding, Promise, Share, Reservation
    <2>2. \A h \in Tenants \ {k} : Promised[h] = OutstandingOf'[h]
      BY <2>1, Spelled
    <2>3. Promised[k] = used[k] + Excess(2 * Size + Margin, used[k]) /\ OutstandingOf'[k] = used[k]
      <3>1. Promised[k] = Share(k, reserved[k]) /\ OutstandingOf'[k] = Share(k, 0)
        BY <2>0, <2>1, Spelled
      <3>2. Excess(0, used[k]) = 0
        BY <2>0 DEF Excess
      <3> QED
        BY <3>1, <3>2, <2>0, <1>9 DEF Share
    <2>8. OutstandingOf'[k] + Size + Margin <= Promised[k] + Small
      BY <2>0, <2>3, <1>0, <1>9 DEF Excess
    <2>4. Promised \in [Tenants -> Nat] /\ Total(Promised) \in Nat
      BY <1>0, Amounts
    <2>5. Total(OutstandingOf') + Promised[k] = Total(Promised) + OutstandingOf'[k]
      BY <2>0, <2>2, <2>4, <1>5, TotalChange
    <2>6. assets + Total(Promised) <= Quota + (freed + written + torn + unreserved)
      BY DEF SpaceInv, Drift
    <2>7. assets + need + 0 + 0 + Total(OutstandingOf)' <= Quota + Small + (freed + written + torn + unreserved)
      BY <2>0, <2>8, <2>4, <2>5, <2>6, <1>0, <1>5, <1>7, <1>9, <1>T
    <2> QED
      BY <2>7 DEF Drift
  <1>10. (Measuring /\ reading.kind = "register" =>
            assets + reading.need + reading.left + reading.count + Total(OutstandingOf) <= Quota + Small + Drift)'
    BY <1>1, <1>9 DEF Drift
  <1> QED
    BY <1>2, <1>3, <1>4, <1>8, <1>10 DEF SpaceInv

\* Nobody touches the tenants while their records and directories are read.
LEMMA RemainingStep ==
    ASSUME SpaceInv, NEW k \in Tenants, Remaining(k)
    PROVE  SpaceInv'
  <1>0. SpaceTypes /\ ReadingInv /\ Measuring
    BY DEF SpaceInv, Remaining
  <1> DEFINE more == IF state[k] = "live" THEN Excess(Reservation(k), used[k]) ELSE 0
  <1>1. /\ reading \in Readings
        /\ k \in reading.unread /\ used[k] \in Nat /\ reserved[k] \in Nat /\ Reservation(k) \in Nat
    BY <1>0, ReadingTypes, Amounts DEF Remaining
  <1>2. more \in Nat /\ Promise(k) = used[k] + more
    BY <1>1 DEF Promise, Share, Excess
  <1>3. /\ reading'.kind = reading.kind /\ reading'.of = reading.of /\ reading'.need = reading.need
        /\ reading'.override = reading.override /\ reading'.unread = reading.unread \ {k}
        /\ reading'.uncounted = reading.uncounted /\ reading'.left = reading.left + more /\ reading'.count = reading.count
        /\ UNCHANGED <<state, reserved, used, assets, freed, written, torn, unreserved>> /\ Measuring'
    BY <1>0, <1>1 DEF Remaining, Measuring
  <1>4. reading' \in Readings
    <2>1. reading.left + more \in Nat /\ reading.unread \ {k} \in SUBSET Tenants
      BY <1>1, <1>2 DEF Readings
    <2>2. reading' = [reading EXCEPT !.unread = reading.unread \ {k}, !.left = reading.left + more]
      BY DEF Remaining
    <2> HIDE DEF more
    <2> QED
      BY <1>1, <2>1, <2>2 DEF Readings
  <1> HIDE DEF more
  <1>5. SpaceTypes'
    BY <1>0, <1>3, <1>4 DEF SpaceTypes
  <1>6. ReadingInv'
    BY <1>0, <1>1, <1>3 DEF ReadingInv, Remaining
  <1>7. \A h \in Tenants : Promise(h)' = Promise(h) /\ Share(h, reserved[h])' = Share(h, reserved[h])
    BY <1>3 DEF Promise, Share, Reservation
  <1>8. \A h \in Tenants \ {k} : /\ Promised'[h] = Promised[h] /\ SeenOf'[h] = SeenOf[h]
                                 /\ UncountedOf'[h] = UncountedOf[h] /\ OutstandingOf'[h] = OutstandingOf[h]
    BY <1>3, <1>7, Spelled DEF Seen, Uncounted, Outstanding
  <1>9. Promised'[k] + unreserved <= Promised[k] + unreserved'
    <2>1. Promised'[k] = Promised[k] /\ Promised[k] \in Nat
      BY <1>0, <1>1, <1>7, Spelled, Amounts
    <2> QED
      BY <2>1, <1>0, <1>3 DEF SpaceTypes
  <1>10. /\ Seen(k)' + Uncounted(k) = Seen(k) + Uncounted(k)' + more
         /\ Outstanding(k)' + more <= Outstanding(k)
    <2>1. CASE reading.kind = "upload"
      <3>1. Seen(k) = used[k] /\ Seen(k)' = Promise(k) /\ Uncounted(k) = 0 /\ Uncounted(k)' = 0
        BY <2>1, <1>1, <1>3, <1>7 DEF Seen, Uncounted, Remaining
      <3> QED
        BY <3>1, <1>1, <1>2, <1>3 DEF Outstanding
    <2>2. CASE reading.kind # "upload"
      <3>1. k \in reading.uncounted
        BY <2>2, <1>0, <1>1 DEF ReadingInv
      <3>2. Seen(k) = 0 /\ Seen(k)' = Promise(k) /\ Uncounted(k) = 0 /\ Uncounted(k)' = used[k]
        BY <2>2, <3>1, <1>1, <1>3, <1>7 DEF Seen, Uncounted
      <3> QED
        BY <3>2, <1>1, <1>2, <1>3 DEF Outstanding
    <2> QED
      BY <2>1, <2>2
  <1>11. /\ Seen(k) \in Nat /\ Uncounted(k) \in Nat /\ Outstanding(k) \in Nat
         /\ Seen(k)' \in Nat /\ Uncounted(k)' \in Nat /\ Outstanding(k)' \in Nat
         /\ freed \in Nat /\ written \in Nat /\ unreserved \in Nat
    <2>1. Seen(k) \in Nat /\ Uncounted(k) \in Nat /\ Outstanding(k) \in Nat
      BY <1>0, Amounts
    <2>2. (\A h \in Tenants : Seen(h) \in Nat /\ Uncounted(h) \in Nat /\ Outstanding(h) \in Nat)'
      BY <1>5, Amounts, PTL
    <2> QED
      BY <2>1, <2>2, <1>0 DEF SpaceTypes
  <1>12. /\ SeenOf'[k] + UncountedOf[k] + reading.left + reading.count + freed + written
               <= SeenOf[k] + UncountedOf'[k] + reading'.left + reading'.count + freed' + written'
         /\ OutstandingOf'[k] + reading'.left + reading'.count + written
               <= OutstandingOf[k] + reading.left + reading.count + written'
    <2>1. /\ Seen(k)' + Uncounted(k) + reading.left + reading.count + freed + written
               <= Seen(k) + Uncounted(k)' + (reading.left + more) + reading.count + freed + written
          /\ Outstanding(k)' + (reading.left + more) + reading.count + written
               <= Outstanding(k) + reading.left + reading.count + written
      BY <1>1, <1>2, <1>10, <1>11 DEF Readings
    <2> QED
      BY <2>1, <1>3, Spelled
  <1>13. freed' >= freed /\ written' >= written /\ unreserved' >= unreserved /\ Measuring' = Measuring
    BY <1>0, <1>3, <1>11
  <1> QED
    BY <1>0, <1>3, <1>5, <1>6, <1>8, <1>9, <1>12, <1>13, OneTenant

LEMMA CountStep ==
    ASSUME SpaceInv, NEW k \in Tenants, Count(k)
    PROVE  SpaceInv'
  <1>0. SpaceTypes /\ ReadingInv /\ Measuring
    BY DEF SpaceInv, Count
  <1>1. /\ reading \in Readings
        /\ k \in reading.uncounted /\ used[k] \in Nat /\ reserved[k] \in Nat
    BY <1>0, ReadingTypes, Amounts DEF Count
  <1>2. /\ reading'.kind = reading.kind /\ reading'.of = reading.of /\ reading'.need = reading.need
        /\ reading'.override = reading.override /\ reading'.unread = reading.unread
        /\ reading'.uncounted = reading.uncounted \ {k} /\ reading'.left = reading.left
        /\ reading'.count = reading.count + used[k]
        /\ UNCHANGED <<state, reserved, used, assets, freed, written, torn, unreserved>> /\ Measuring'
    BY <1>0, <1>1 DEF Count, Measuring
  <1>3. reading' \in Readings
    <2>1. reading.count + used[k] \in Nat /\ reading.uncounted \ {k} \in SUBSET Tenants
      BY <1>1 DEF Readings
    <2>2. reading' = [reading EXCEPT !.uncounted = reading.uncounted \ {k}, !.count = reading.count + used[k]]
      BY DEF Count
    <2> QED
      BY <1>1, <2>1, <2>2 DEF Readings
  <1>4. SpaceTypes'
    BY <1>0, <1>2, <1>3 DEF SpaceTypes
  <1>5. ReadingInv'
    BY <1>0, <1>1, <1>2 DEF ReadingInv, Count
  <1>6. \A h \in Tenants : Promise(h)' = Promise(h) /\ Share(h, reserved[h])' = Share(h, reserved[h])
    BY <1>2 DEF Promise, Share, Reservation
  <1>7. \A h \in Tenants \ {k} : /\ Promised'[h] = Promised[h] /\ SeenOf'[h] = SeenOf[h]
                                 /\ UncountedOf'[h] = UncountedOf[h] /\ OutstandingOf'[h] = OutstandingOf[h]
    BY <1>2, <1>6, Spelled DEF Seen, Uncounted, Outstanding
  <1>8. Promised'[k] + unreserved <= Promised[k] + unreserved'
    <2>1. Promised'[k] = Promised[k] /\ Promised[k] \in Nat
      BY <1>0, <1>1, <1>6, Spelled, Amounts
    <2> QED
      BY <2>1, <1>0, <1>2 DEF SpaceTypes
  <1>9. /\ Seen(k) \in Nat /\ Uncounted(k) \in Nat /\ Outstanding(k) \in Nat
        /\ Seen(k)' \in Nat /\ Uncounted(k)' \in Nat /\ Outstanding(k)' \in Nat
        /\ freed \in Nat /\ written \in Nat /\ unreserved \in Nat
    <2>1. Seen(k) \in Nat /\ Uncounted(k) \in Nat /\ Outstanding(k) \in Nat
      BY <1>0, Amounts
    <2>2. (\A h \in Tenants : Seen(h) \in Nat /\ Uncounted(h) \in Nat /\ Outstanding(h) \in Nat)'
      BY <1>4, Amounts, PTL
    <2> QED
      BY <2>1, <2>2, <1>0 DEF SpaceTypes
  <1>10. Seen(k)' + Uncounted(k) = Seen(k) + Uncounted(k)' + used[k]
    <2>1. CASE reading.kind = "upload"
      <3>1. k \in reading.unread
        BY <2>1, <1>0, <1>1 DEF ReadingInv
      <3>2. Seen(k) = 0 /\ Seen(k)' = used[k] /\ Uncounted(k) = 0 /\ Uncounted(k)' = 0
        BY <2>1, <3>1, <1>1, <1>2 DEF Seen, Uncounted
      <3> QED
        BY <3>2, <1>1
    <2>2. CASE reading.kind # "upload"
      <3>1. k \notin reading.unread
        BY <2>2 DEF Count
      <3>2. Seen(k)' = Seen(k) /\ Uncounted(k) = used[k] /\ Uncounted(k)' = 0
        BY <2>2, <3>1, <1>1, <1>2, <1>6 DEF Seen, Uncounted
      <3> QED
        BY <3>2, <1>1, <1>9
    <2> QED
      BY <2>1, <2>2
  <1>11. reading.kind = "register" => Outstanding(k)' + used[k] <= Outstanding(k)
    BY <1>1, <1>2 DEF Outstanding, Count
  <1>12. /\ SeenOf'[k] + UncountedOf[k] + reading.left + reading.count + freed + written
               <= SeenOf[k] + UncountedOf'[k] + reading'.left + reading'.count + freed' + written'
         /\ reading.kind = "register" =>
               OutstandingOf'[k] + reading'.left + reading'.count + written
                  <= OutstandingOf[k] + reading.left + reading.count + written'
    <2>1. /\ Seen(k)' + Uncounted(k) + reading.left + reading.count + freed + written
               <= Seen(k) + Uncounted(k)' + reading.left + (reading.count + used[k]) + freed + written
          /\ reading.kind = "register" =>
                Outstanding(k)' + reading.left + (reading.count + used[k]) + written
                   <= Outstanding(k) + reading.left + reading.count + written
      BY <1>1, <1>9, <1>10, <1>11 DEF Readings
    <2> QED
      BY <2>1, <1>2, Spelled
  <1>13. freed' >= freed /\ written' >= written /\ unreserved' >= unreserved /\ Measuring' = Measuring
    BY <1>0, <1>2, <1>9
  <1> QED
    BY <1>0, <1>2, <1>4, <1>5, <1>7, <1>8, <1>12, <1>13, OneTenant

\* Once everything is counted, what is promised with the override fits, but for the need.
LEMMA AllCounted ==
    ASSUME SpaceInv, Admitted, reading.kind # "save"
    PROVE  LET promises == [h \in Tenants |-> Promise(h)] IN
           /\ promises \in [Tenants -> Nat] /\ Total(promises) \in Nat
           /\ assets + reading.need + Total(promises) <= Quota + freed + written
  <1>0. SpaceTypes /\ Measuring /\ Quota \in Nat
    BY SpaceUnits DEF SpaceInv, Admitted, Counted
  <1> DEFINE promises == [h \in Tenants |-> Promise(h)]
  <1>1. /\ reading \in Readings
        /\ reading.unread = {} /\ reading.uncounted = {}
        /\ assets + reading.count + reading.left + reading.need <= Quota
    BY <1>0, ReadingTypes DEF Admitted, Counted, Fits
  <1>2. promises \in [Tenants -> Nat] /\ promises = SeenOf /\ Total(UncountedOf) = 0
    <2>1. \A h \in Tenants : UncountedOf[h] = 0 /\ SeenOf[h] = Promise(h)
      BY <1>1, Spelled DEF Uncounted, Seen
    <2>2. promises = SeenOf
      BY <2>1 DEF SeenOf
    <2>3. SeenOf \in [Tenants -> Nat] /\ UncountedOf \in [Tenants -> Nat]
      BY <1>0, Amounts
    <2> QED
      BY <2>1, <2>2, <2>3, TotalNothing
  <1>3. Total(promises) <= reading.left + reading.count + 0 + freed + written
    BY <1>0, <1>2 DEF SpaceInv
  <1>4. Total(promises) \in Nat
    BY <1>2, PiecesFinite
  <1>5. /\ freed \in Nat /\ written \in Nat /\ assets \in Nat
        /\ reading.left \in Nat /\ reading.count \in Nat /\ reading.need \in Nat
    BY <1>0, <1>1 DEF SpaceTypes, Readings
  <1> HIDE DEF promises
  <1>6. assets + reading.need + Total(promises) <= Quota + freed + written
    BY <1>0, <1>1, <1>3, <1>4, <1>5
  <1> QED
    BY <1>2, <1>4, <1>6 DEF promises

\* The end of a measurement that changes one tenant: what it is promised more, and
\* what is copied, is paid for by the need or is part of the drift.
LEMMA Settled ==
    ASSUME SpaceInv, Admitted, reading.kind # "save", SpaceTypes', NEW k \in Tenants, k = reading.of,
           \A h \in Tenants \ {k} : state'[h] = state[h] /\ used'[h] = used[h] /\ reserved'[h] = reserved[h],
           UNCHANGED <<freed, written>>,
           Share(k, reserved[k])' + assets' + torn + unreserved
              <= Promise(k) + reading.need + assets + torn' + unreserved'
    PROVE  SpaceInv'
  <1> DEFINE promises == [h \in Tenants |-> Promise(h)]
  <1>0. SpaceTypes /\ Measuring /\ Quota \in Nat
    BY SpaceUnits DEF SpaceInv, Admitted, Counted
  <1>1. promises \in [Tenants -> Nat] /\ Total(promises) \in Nat /\ assets + reading.need + Total(promises) <= Quota + freed + written
    BY AllCounted
  <1>2. ~Measuring'
    BY DEF Admitted, Measuring, Idle
  <1>3. ( Promised \in [Tenants -> Nat] /\ Total(Promised) \in Nat )'
    BY Amounts, PTL
  <1>T. Total(Promised)' = Total(Promised')
    BY DEF Total
  <1>4. \A h \in Tenants \ {k} : promises[h] = Promised'[h]
    BY Spelled DEF Promise, Share, Reservation
  <1>5. Total(Promised') + promises[k] = Total(promises) + Promised'[k]
    BY <1>1, <1>3, <1>4, TotalChange
  <1>6. promises[k] \in Nat /\ Promised'[k] \in Nat /\ promises[k] = Promise(k) /\ Promised'[k] = Share(k, reserved[k])'
    <2>1. promises[k] \in Nat /\ promises[k] = Promise(k)
      BY <1>1
    <2>2. Promised'[k] = Share(k, reserved[k])' /\ Promised'[k] \in Nat
      BY <1>3, Spelled
    <2> QED
      BY <2>1, <2>2
  <1>7. /\ freed \in Nat /\ written \in Nat /\ torn \in Nat /\ assets \in Nat /\ unreserved \in Nat
        /\ assets' \in Nat /\ torn' \in Nat /\ unreserved' \in Nat /\ reading.need \in Nat
    BY <1>0, ReadingTypes DEF SpaceTypes, Readings
  <1> HIDE DEF promises
  <1>8. Promised'[k] + assets' + torn + unreserved <= promises[k] + reading.need + assets + torn' + unreserved'
    BY <1>6
  <1>9. assets' + Total(Promised)' <= Quota + (freed + written + torn' + unreserved')
    BY <1>0, <1>1, <1>3, <1>T, <1>5, <1>6, <1>7, <1>8
  <1>10. (assets + Total(Promised) <= Quota + Drift)'
    BY <1>9 DEF Drift
  <1> QED
    BY <1>2, <1>10 DEF SpaceInv, ReadingInv

\* What was needed pays for what is promised now.
LEMMA GrantStep ==
    ASSUME SpaceInv, Grant
    PROVE  SpaceInv'
  <1>0. SpaceTypes /\ ReadingInv /\ Measuring
    BY DEF SpaceInv, Grant, Admitted, Counted
  <1>1. reading \in Readings /\ reading.kind \in Creations \cup {"start", "retry", "expand"} /\ reading.of \in Tenants
    BY <1>0, ReadingTypes DEF Grant, Readings, Admissions, ReadingInv, Copies
  <1>k. PICK k \in Tenants : k = reading.of
    BY <1>1
  <1> DEFINE begun == reading.kind \in Creations \cup {"retry"}
  <1>2. /\ state' = IF begun THEN [state EXCEPT ![k] = "live"] ELSE state
        /\ reserved' = [reserved EXCEPT ![k] = reading.override]
        /\ UNCHANGED <<used, assets, freed, written, torn, unreserved>> /\ reading' = Idle
    BY <1>k DEF Grant, Admitted
  <1>3. SpaceTypes'
    <2>1. state' \in [Tenants -> {"none", "live", "ended"}] /\ reserved' \in [Tenants -> Nat]
      BY <1>0, <1>1, <1>2 DEF SpaceTypes, Readings
    <2> QED
      BY <1>0, <1>2, <2>1 DEF SpaceTypes
  <1>4. \A h \in Tenants \ {k} : state'[h] = state[h] /\ used'[h] = used[h] /\ reserved'[h] = reserved[h]
    BY <1>0, <1>2 DEF SpaceTypes
  <1>5. /\ used[k] \in Nat /\ reading.override \in Nat /\ reading.need \in Nat
        /\ reserved'[k] = reading.override /\ used'[k] = used[k]
        /\ state'[k] = IF begun THEN "live" ELSE state[k]
    BY <1>0, <1>1, <1>2 DEF SpaceTypes, Readings
  <1>6. /\ Promise(k) = IF state[k] = "live" THEN used[k] + Excess(reading.override, used[k]) ELSE used[k]
        /\ Share(k, reserved[k])' = IF begun \/ state[k] = "live" THEN used[k] + Excess(reading.override, used[k]) ELSE used[k]
    <2>1. Reservation(k) = reading.override
      BY <1>k DEF Reservation
    <2> QED
      BY <2>1, <1>5 DEF Promise, Share, Excess
  <1>7. Share(k, reserved[k])' <= Promise(k) + reading.need /\ Promise(k) \in Nat /\ Share(k, reserved[k])' \in Nat
    <2>1. Excess(reading.override, used[k]) \in Nat /\ Excess(reading.override, used[k]) <= reading.override
      BY <1>5 DEF Excess
    <2>2. begun => state[k] # "live" /\ reading.need >= Excess(reading.override, used[k])
      BY <1>0, <1>1, <1>k, <1>5, <2>1 DEF ReadingInv
    <2> QED
      BY <1>5, <1>6, <2>1, <2>2
  <1>8. Share(k, reserved[k])' + assets' + torn + unreserved <= Promise(k) + reading.need + assets + torn' + unreserved'
    BY <1>0, <1>2, <1>5, <1>7 DEF SpaceTypes
  <1> QED
    BY <1>1, <1>k, <1>2, <1>3, <1>4, <1>8, Settled DEF Grant, Creations

\* A creation that is interrupted leaves copies, but no more than it asked for.
LEMMA ForsakeStep ==
    ASSUME SpaceInv, Forsake
    PROVE  SpaceInv'
  <1>0. SpaceTypes /\ ReadingInv /\ Measuring
    BY DEF SpaceInv, Forsake, Admitted, Counted
  <1>1. reading \in Readings /\ reading.of \in Tenants /\ state[reading.of] = "none" /\ reading.kind \in Creations
    BY <1>0, ReadingTypes DEF Forsake, ReadingInv, Creations
  <1>k. PICK k \in Tenants : k = reading.of
    BY <1>1
  <1>2. PICK n \in 1 .. reading.need : used' = [used EXCEPT ![k] = n]
    BY <1>k DEF Forsake
  <1>3. /\ state' = [state EXCEPT ![k] = "ended"] /\ reading' = Idle
        /\ UNCHANGED <<reserved, assets, freed, written, torn, unreserved>> /\ n \in Nat /\ n <= reading.need
        /\ reading.need \in Nat
    BY <1>1, <1>k, <1>2 DEF Forsake, Admitted, Readings
  <1>4. SpaceTypes'
    <2>1. state' \in [Tenants -> {"none", "live", "ended"}] /\ used' \in [Tenants -> Nat]
      BY <1>0, <1>1, <1>2, <1>3 DEF SpaceTypes
    <2> QED
      BY <1>0, <1>3, <2>1 DEF SpaceTypes
  <1>5. \A h \in Tenants \ {k} : state'[h] = state[h] /\ used'[h] = used[h] /\ reserved'[h] = reserved[h]
    BY <1>0, <1>2, <1>3 DEF SpaceTypes
  <1>6. Promise(k) = used[k] /\ used[k] \in Nat /\ Share(k, reserved[k])' = n
    <2>1. state'[k] = "ended" /\ used'[k] = n /\ used[k] \in Nat
      BY <1>0, <1>1, <1>2, <1>3 DEF SpaceTypes
    <2> QED
      BY <1>1, <1>k, <2>1 DEF Promise, Share
  <1>7. Share(k, reserved[k])' + assets' + torn + unreserved <= Promise(k) + reading.need + assets + torn' + unreserved'
    BY <1>0, <1>3, <1>6 DEF SpaceTypes
  <1> QED
    BY <1>1, <1>k, <1>3, <1>4, <1>5, <1>7, Settled DEF Forsake, Creations

\* A copy takes what it asked for, and a thumbnail; it may belong to no tenant.
LEMMA CopiedStep ==
    ASSUME SpaceInv, GrantCopy
    PROVE  SpaceInv'
  <1>0. SpaceTypes /\ ReadingInv /\ Measuring /\ Admitted /\ Small \in Nat /\ Quota \in Nat
    BY SpaceUnits DEF SpaceInv, GrantCopy, Admitted, Counted
  <1>1. reading \in Readings /\ reading.need \in Nat /\ reading.override \in Nat
        /\ reading.kind \in {"register", "copy"} /\ reading.kind # "save"
    BY <1>0, ReadingTypes DEF GrantCopy, Copies, Readings
  <1>2. PICK n \in 0 .. reading.need + Small :
           assets' = assets + n /\ unreserved' = unreserved + Excess(n, reading.need)
    BY DEF GrantCopy
  <1>3. n \in Nat /\ Excess(n, reading.need) \in Nat /\ n <= reading.need + Excess(n, reading.need)
    BY <1>0, <1>1, <1>2 DEF Excess
  <1>4. /\ UNCHANGED <<state, used, freed, written, torn>> /\ reading' = Idle
        /\ reserved' = IF reading.of = Nobody THEN reserved ELSE [reserved EXCEPT ![reading.of] = reading.override]
    BY DEF GrantCopy, Admitted
  <1>5. SpaceTypes'
    <2>1. reserved' \in [Tenants -> Nat]
      BY <1>0, <1>1, <1>4 DEF SpaceTypes
    <2>2. assets' \in Nat /\ unreserved' \in Nat /\ torn' \in Nat
      BY <1>0, <1>2, <1>3, <1>4 DEF SpaceTypes
    <2> QED
      BY <1>0, <1>4, <2>1, <2>2 DEF SpaceTypes
  <1>6. assets' + torn + unreserved <= assets + reading.need + torn' + unreserved'
    BY <1>0, <1>1, <1>2, <1>3, <1>4 DEF SpaceTypes
  <1>7. CASE reading.of \in Tenants
    <2>k. PICK k \in Tenants : k = reading.of
      BY <1>7
    <2>1. \A h \in Tenants \ {k} : state'[h] = state[h] /\ used'[h] = used[h] /\ reserved'[h] = reserved[h]
      BY <2>k, <1>0, <1>4 DEF SpaceTypes
    <2>2. /\ used[k] \in Nat /\ used'[k] = used[k] /\ state'[k] = state[k]
          /\ reserved'[k] = reading.override
      BY <2>k, <1>0, <1>4, SpaceUnits DEF SpaceTypes
    <2>4. Share(k, reserved[k])' <= Promise(k) /\ Promise(k) \in Nat /\ Share(k, reserved[k])' \in Nat
      <3>1. Promise(k) = IF state[k] = "live" THEN used[k] + Excess(reading.override, used[k]) ELSE used[k]
        BY <2>k DEF Promise, Share, Reservation
      <3>2. Share(k, reserved[k])' = IF state[k] = "live" THEN used[k] + Excess(reserved'[k], used[k]) ELSE used[k]
        BY <2>2 DEF Share, Excess
      <3> QED
        BY <1>1, <2>2, <3>1, <3>2 DEF Excess
    <2>5. Share(k, reserved[k])' + assets' + torn + unreserved <= Promise(k) + reading.need + assets + torn' + unreserved'
      BY <1>0, <1>1, <1>5, <1>6, <2>4 DEF SpaceTypes
    <2> QED
      BY <1>0, <1>1, <1>4, <1>5, <2>k, <2>1, <2>5, Settled
  <1>8. CASE reading.of \notin Tenants
    <2>1. reading.of = Nobody /\ reserved' = reserved
      BY <1>1, <1>4, <1>8 DEF Readings
    <2>2. (assets + Total(Promised) <= Quota + Drift)'
      <3> DEFINE promises == [h \in Tenants |-> Promise(h)]
      <3>1. Total(promises) \in Nat /\ assets + reading.need + Total(promises) <= Quota + freed + written
        BY <1>0, <1>1, AllCounted
      <3>2. Promised' = promises
        BY <1>4, <1>8, <2>1 DEF Promised, Promise, Share, Reservation
      <3>3. Total(Promised)' = Total(promises)
        BY <3>2 DEF Total
      <3> HIDE DEF promises
      <3>4. assets' + Total(promises) <= Quota + (freed + written + torn' + unreserved')
        BY <3>1, <1>0, <1>1, <1>5, <1>6 DEF SpaceTypes
      <3> QED
        BY <3>3, <3>4, <1>4 DEF Drift
    <2>3. ~Measuring'
      BY <1>4 DEF Measuring, Idle
    <2> QED
      BY <1>5, <2>2, <2>3 DEF SpaceInv, ReadingInv
  <1> QED
    BY <1>7, <1>8

\* What is added on both sides.
LEMMA Carried ==
    ASSUME NEW a \in Nat, NEW b \in Nat, NEW c \in Nat, NEW d \in Nat, NEW sum \in Nat, NEW room \in Nat,
           b + c <= a + d, a + sum <= room + c
    PROVE  b + sum <= room + d
  OBVIOUS

\* Saved subtitles are admitted by what is in use alone: all beyond a reservation is
\* drift, as a torn copy is.
LEMMA SavedStep ==
    ASSUME SpaceInv, GrantSave \/ DropVideo \/ Tear \/ Refuse
    PROVE  SpaceInv'
  <1>0. SpaceTypes /\ ReadingInv /\ Quota \in Nat
    BY SpaceUnits DEF SpaceInv
  <1>1. assets + Total(Promised) <= Quota + (freed + written + torn + unreserved)
    BY DEF SpaceInv, Drift
  <1>2. ~Measuring'
    BY DEF GrantSave, DropVideo, Tear, Refuse, Admitted, Measuring, Idle
  <1>3. CASE GrantSave
    <2> DEFINE k == reading.of
               more == unreserved' - unreserved
    <2>1. reading \in Readings /\ reading.need \in Nat /\ k \in Tenants
      BY <1>0, <1>3, ReadingTypes DEF GrantSave, Admitted, Counted, Readings, ReadingInv
    <2>2. PICK n \in 0 .. reading.need :
             /\ used' = [used EXCEPT ![k] = @ + n]
             /\ unreserved' = unreserved + (IF state[k] = "live" THEN Excess(used[k] + n, reserved[k]) - Excess(used[k], reserved[k])
                                            ELSE n)
      BY <1>3 DEF GrantSave
    <2>3. /\ UNCHANGED <<state, reserved, assets, freed, written, torn>> /\ reading' = Idle
          /\ n \in Nat /\ used[k] \in Nat /\ reserved[k] \in Nat /\ unreserved \in Nat /\ assets \in Nat
          /\ freed \in Nat /\ written \in Nat /\ torn \in Nat
      BY <1>0, <1>3, <2>1, <2>2 DEF GrantSave, Admitted, SpaceTypes
    <2>4. unreserved' \in Nat
      BY <2>2, <2>3 DEF Excess
    <2>5. SpaceTypes'
      <3>1. used' \in [Tenants -> Nat]
        BY <1>0, <2>1, <2>2, <2>3 DEF SpaceTypes
      <3> QED
        BY <1>0, <2>3, <2>4, <3>1 DEF SpaceTypes
    <2>6. \A h \in Tenants \ {k} : Promised[h] = Promised'[h]
      BY <1>0, <2>2, <2>3, Spelled DEF Share, SpaceTypes
    <2>7. Promised'[k] + unreserved = Promised[k] + unreserved' /\ Promised[k] \in Nat /\ Promised'[k] \in Nat
      <3>1. used'[k] = used[k] + n
        BY <1>0, <2>1, <2>2 DEF SpaceTypes
      <3>2. Promised[k] = IF state[k] = "live" THEN used[k] + Excess(reserved[k], used[k]) ELSE used[k]
        BY <2>1, Spelled DEF Share
      <3>3. Promised'[k] = IF state[k] = "live" THEN (used[k] + n) + Excess(reserved[k], used[k] + n) ELSE used[k] + n
        BY <2>1, <2>3, <3>1, Spelled DEF Share, Excess
      <3> QED
        BY <2>2, <2>3, <3>2, <3>3 DEF Excess
    <2>8. Promised \in [Tenants -> Nat] /\ Total(Promised) \in Nat
      BY <1>0, Amounts
    <2>9. ( Promised \in [Tenants -> Nat] /\ Total(Promised) \in Nat )'
      BY <2>5, Amounts, PTL
    <2>10. Total(Promised)' + Promised[k] = Total(Promised) + Promised'[k]
      <3>1. Total(Promised') + Promised[k] = Total(Promised) + Promised'[k]
        BY <2>1, <2>6, <2>8, <2>9, TotalChange
      <3> QED
        BY <3>1 DEF Total
    <2>11. assets' + Total(Promised)' <= Quota + (freed' + written' + torn' + unreserved')
      BY <1>0, <1>1, <2>3, <2>4, <2>7, <2>8, <2>9, <2>10
    <2> QED
      BY <1>2, <2>5, <2>11 DEF SpaceInv, ReadingInv, Drift
  <1>4. CASE DropVideo \/ Tear \/ Refuse
    <2>0. Tear => \E n \in Nat : assets' = assets + n /\ torn' = torn + n
      <3>1. (reading.need \in Nat /\ Small \in Nat) \/ ~Tear
        BY <1>0, ReadingTypes, SpaceUnits DEF Tear, Admitted, Counted, Readings
      <3> QED
        BY <3>1 DEF Tear
    <2>1. /\ UNCHANGED <<state, reserved, used, freed, written, unreserved>> /\ (reading' = reading \/ reading' = Idle)
          /\ assets' \in Nat /\ torn' \in Nat /\ assets' + torn <= assets + torn'
      BY <1>0, <1>4, <2>0 DEF DropVideo, Tear, Refuse, Admitted, SpaceTypes
    <2>2. SpaceTypes'
      BY <1>0, <2>1 DEF SpaceTypes
    <2>3. Total(Promised)' = Total(Promised) /\ Total(Promised) \in Nat
      <3>1. Promised' = Promised
        BY <2>1 DEF Promised, Share
      <3> QED
        BY <1>0, <3>1, Amounts DEF Total
    <2>4. assets' + Total(Promised) <= Quota + (freed + written + torn' + unreserved)
      <3>1. /\ assets \in Nat /\ freed \in Nat /\ written \in Nat /\ torn \in Nat /\ unreserved \in Nat
            /\ assets' \in Nat /\ torn' \in Nat /\ assets' + torn <= assets + torn'
        BY <1>0, <2>1 DEF SpaceTypes
      <3>2. Total(Promised) \in Nat /\ Quota \in Nat
        BY <1>0, <2>3
      <3> DEFINE room == Quota + freed + written + unreserved
      <3>3. room \in Nat /\ assets + Total(Promised) <= room + torn
        BY <1>1, <3>1, <3>2
      <3> HIDE DEF room
      <3>4. assets' + Total(Promised) <= room + torn'
        BY <3>1, <3>2, <3>3, Carried
      <3> QED
        BY <3>1, <3>2, <3>4 DEF room
    <2>5. assets' + Total(Promised)' <= Quota + (freed' + written' + torn' + unreserved')
      BY <2>1, <2>3, <2>4
    <2> QED
      BY <1>2, <2>2, <2>5 DEF SpaceInv, ReadingInv, Drift
  <1> QED
    BY <1>3, <1>4

LEMMA SpaceStep ==
    ASSUME SpaceInv, SpaceNext
    PROVE  SpaceInv'
  <1>0. SpaceTypes /\ {Size, Margin, Small} \subseteq Nat
    BY SpaceUnits DEF SpaceInv
  <1>1. ASSUME NEW h \in Tenants, Grow(h) \/ Shrink(h) \/ End(h) \/ Expire(h)
        PROVE  SpaceInv'
    BY <1>1, DriftStep
  <1>2. ASSUME NEW h \in Tenants, Admission(h)
        PROVE  SpaceInv'
    <2>0. used[h] \in Nat /\ reserved[h] \in Nat /\ Excess(reserved[h], used[h]) \in Nat
      BY <1>0 DEF SpaceTypes, Excess
    <2>1. CASE Create(h)
      <3>1. PICK kind \in Creations, override \in Nat, need \in Nat : Measure(kind, h, need, override) /\ need >= override
        <4>1. /\ 4 * Size \in Nat /\ 2 * Size + Margin \in Nat /\ 4 * Size + Margin \in Nat
              /\ \A more \in {0, Small} : 4 * Size + Margin + more \in Nat /\ 4 * Size + Margin + more >= 4 * Size + Margin
          BY <1>0
        <4> QED
          BY <2>1, <4>1 DEF Create, Creations
      <3>2. state[h] = "none"
        BY <2>1 DEF Create
      <3>3. kind \in Admissions /\ kind \notin {"copy", "save", "register", "start", "expand", "retry"}
        BY DEF Admissions, Creations
      <3> QED
        BY <3>1, <3>2, <3>3, MeasureStep
    <2>2. CASE Start(h)
      BY <2>0, <2>2, MeasureStep DEF Start, Admissions, Creations
    <2>3. CASE RetryJob(h)
      BY <2>0, <2>3, MeasureStep DEF RetryJob, Admissions, Creations
    <2>4. CASE Expand(h)
      BY <2>0, <2>4, MeasureStep DEF Expand, Admissions, Creations
    <2>5. CASE Register(h)
      BY <2>0, <2>5, <1>0, MeasureStep DEF Register, Admissions, Copies, Creations
    <2>6. CASE CopyFile(h)
      <3>1. PICK need \in {Size + Margin, Small} : Measure("copy", h, need, reserved[h])
        BY <2>6 DEF CopyFile
      <3> QED
        BY <2>0, <3>1, <1>0, MeasureStep DEF Admissions, Copies, Creations
    <2>7. CASE SaveSubtitles(h)
      BY <2>0, <2>7, <1>0, MeasureStep DEF SaveSubtitles, Admissions, Creations
    <2> QED
      BY <1>2, <2>1, <2>2, <2>3, <2>4, <2>5, <2>6, <2>7 DEF Admission
  <1>3. ASSUME NEW h \in Tenants, Remaining(h) \/ Count(h)
        PROVE  SpaceInv'
    BY <1>3, RemainingStep, CountStep
  <1>4. CASE Attach
    <2>1. Measure("copy", Nobody, Small, 0) /\ Nobody \notin Tenants
      BY <1>4, SpaceUnits DEF Attach
    <2> QED
      BY <2>1, <1>0, MeasureStep DEF Admissions, Copies, Creations
  <1>5. CASE Grant \/ Forsake
    BY <1>5, GrantStep, ForsakeStep
  <1>6. CASE GrantCopy
    BY <1>6, CopiedStep
  <1>7. CASE GrantSave \/ DropVideo \/ Tear \/ Refuse
    BY <1>7, SavedStep
  <1> QED
    BY <1>1, <1>2, <1>3, <1>4, <1>5, <1>6, <1>7 DEF SpaceNext

\* Capacity: what is promised exceeds the quota only by what was written or removed
\* during measurements, torn, or written without a reservation; and a registration,
\* whose session has paid for it, is refused for want of quota only by as much and the
\* session's own record.
THEOREM AdmissionSound == SpaceSpec => []SpaceSound
  <1>1. SpaceInit => SpaceInv
    BY SpaceBegin
  <1>2. SpaceInv /\ [SpaceNext]_spaceVars => SpaceInv'
    <2> SUFFICES ASSUME SpaceInv, UNCHANGED spaceVars PROVE SpaceInv'
      BY SpaceStep
    <2>1. SpaceTypes' /\ ReadingInv'
      BY DEF spaceVars, SpaceInv, SpaceTypes, ReadingInv, Measuring
    <2>2. Promised' = Promised /\ SeenOf' = SeenOf /\ UncountedOf' = UncountedOf /\ OutstandingOf' = OutstandingOf
      BY DEF spaceVars, Promised, SeenOf, UncountedOf, OutstandingOf, Seen, Uncounted, Outstanding, Promise, Share, Reservation
    <2> QED
      BY <2>1, <2>2 DEF spaceVars, SpaceInv, Measuring, Total, Drift
  <1>3. SpaceInv => SpaceSound
    BY SpaceInvSound, Registers DEF SpaceSound
  <1> QED
    BY <1>1, <1>2, <1>3, PTL DEF SpaceSpec
===============================================================================
