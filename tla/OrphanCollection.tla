----------------------------- MODULE OrphanCollection -----------------------------
(***************************************************************************)
(* The collection of job directories without a record (collect_orphans),   *)
(* beside the operations of AssetRegistry.  It belongs to a batch that the *)
(* operator starts (--collect-only); the resident worker does not collect. *)
(* A batch lists the directories, visits each under the locks of its job,  *)
(* and removes one that has no record and that nothing has changed for a   *)
(* grace period before the batch began.                                    *)
(*                                                                         *)
(* Requests for a job that has no record are answered at once; that they   *)
(* hold its locks meanwhile is left out.                                   *)
(***************************************************************************)
EXTENDS AssetRegistry

VARIABLES
    age,   \* [Jobs -> "fresh", "aged" beyond the grace period, or "old": so when the batch began]
    left   \* directories the batch has still to visit, None without a batch

collection == <<age, left>>

\* Whatever changes a directory makes it fresh.
Ages == age' = [j \in Jobs |-> IF disk'[j] # disk[j] THEN "fresh" ELSE age[j]]

Operate == Operations /\ Ages /\ UNCHANGED left

\* The grace period passes.  No creation takes as long as that (ORPHAN_GRACE_HOURS).
Age(j) ==
    /\ disk[j] # {} /\ age[j] = "fresh"
    /\ Untouched(j)
    /\ age' = [age EXCEPT ![j] = "aged"]
    /\ UNCHANGED <<vars, left>>

BeginBatch ==
    /\ left = None
    /\ left' = {j \in Jobs : disk[j] # {}}
    /\ age' = [j \in Jobs |-> IF age[j] = "aged" THEN "old" ELSE age[j]]
    /\ UNCHANGED vars

\* Seeded defect: the lock files lie in the directory that is visited.
VisitTouching(j) ==
    /\ left # None /\ j \in left
    /\ left' = left \ {j}
    /\ IF age[j] = "old" /\ Collectable(j) THEN Collect(j) /\ Ages
       ELSE age' = [age EXCEPT ![j] = "fresh"] /\ UNCHANGED vars

\* A directory in use, with a record, or too young is passed over.
Visit(j) ==
    /\ left # None /\ j \in left
    /\ left' = left \ {j}
    /\ IF age[j] = "old" /\ Collectable(j) THEN Collect(j) /\ Ages ELSE UNCHANGED <<vars, age>>

EndBatch ==
    /\ left = {}
    /\ left' = None
    /\ UNCHANGED <<vars, age>>

BatchDies ==
    /\ left # None /\ left' = None
    /\ crashes < MaxCrashes /\ crashes' = crashes + 1
    /\ UNCHANGED <<asset, disk, status, link, op, dropping, age>>

CollectionInit == Init /\ age = [j \in Jobs |-> "fresh"] /\ left = None

CollectionNext ==
    \/ Operate
    \/ \E j \in Jobs : Age(j) \/ Visit(j)
    \/ BeginBatch \/ EndBatch \/ BatchDies

CollectionSpec == CollectionInit /\ [][CollectionNext]_<<vars, collection>>

-------------------------------------------------------------------------------
(***************************************************************************)
(* Properties                                                              *)
(***************************************************************************)
\* While the operator starts the batch again and again (docs/running.md:53), the files
\* of a job that were left without a record are removed in the end, though each batch
\* passes over what is in use or young (cleanup.py:10).
JobOrphansGo ==
    []<>(left # None) => \A j \in Jobs : disk[j] # {} /\ ~Recorded(j) ~> disk[j] = {} \/ Recorded(j)

\* docs/e2e-requirements.md:230: after an abnormal end the collector removes
\* orphaned files.
\* The code does not keep this (README.md, Divergences).
OrphansGo ==
    []<>(left # None) =>
       /\ \A s \in Sessions : disk[s] # {} /\ ~Recorded(s) ~> disk[s] = {}
       /\ \A a \in Assets : asset[a] # {} /\ ~Listed(a) ~> asset[a] = {} \/ Listed(a)
===============================================================================
