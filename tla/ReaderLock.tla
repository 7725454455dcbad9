------------------------------- MODULE ReaderLock -------------------------------
(***************************************************************************)
(* What a job's execution lock promises: the downloads of its results      *)
(* share it, while a run, a retry, a deletion or a collection has it for   *)
(* itself.                                                                 *)
(***************************************************************************)
CONSTANTS Readers, Executors

VARIABLES
    readers,   \* the downloads under way
    owners     \* who works on the job's files

lockVars == <<readers, owners>>

Init == readers = {} /\ owners = {}

StartReading(r) ==
    /\ owners = {}
    /\ readers' = readers \cup {r}
    /\ UNCHANGED owners

StopReading(r) ==
    /\ readers' = readers \ {r}
    /\ UNCHANGED owners

Own(e) ==
    /\ readers = {}
    /\ owners = {}
    /\ owners' = {e}
    /\ UNCHANGED readers

Disown ==
    /\ owners' = {}
    /\ UNCHANGED readers

Next ==
    \/ \E r \in Readers : StartReading(r) \/ StopReading(r)
    \/ \E e \in Executors : Own(e)
    \/ Disown

Spec == Init /\ [][Next]_lockVars
===============================================================================
