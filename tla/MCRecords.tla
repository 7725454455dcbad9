------------------------------- MODULE MCRecords -------------------------------
(***************************************************************************)
(* What the service keeps and whom it asks, on small instances: videos and *)
(* what refers to them, model settings, the calls of a provider, and       *)
(* storage.  They share no state; one of them, chosen in the beginning,    *)
(* is at work, and the others stay as they are.                            *)
(***************************************************************************)
EXTENDS AssetRegistry, ModelSettings, ModelRequests, Capacity, TLC

VARIABLE part

\* Forms may be exchanged, and the owners, segments and tenants of the parts, of
\* which one is at work, all at once.
Swap(S) == CHOOSE p \in Permutations(S) : \E x \in S : p[x] # x
Alike == Permutations(Forms) \cup {Swap(Owners) @@ Swap(Segments) @@ Swap(Tenants)}

-------------------------------------------------------------------------------
all == <<part, vars, spaceVars, settingsVars, requestVars>>

RecordsInit ==
    /\ part \in {"registry", "space", "settings", "calls"}
    /\ Init /\ SpaceInit /\ SettingsInit /\ RequestsInit
    /\ part # "calls" => policy = CHOOSE choice \in Policies : TRUE

RecordsNext ==
    \/ part = "registry" /\ Next /\ UNCHANGED <<part, spaceVars, settingsVars, requestVars>>
    \/ part = "space" /\ SpaceNext /\ UNCHANGED <<part, vars, settingsVars, requestVars>>
    \/ part = "settings" /\ SettingsNext /\ UNCHANGED <<part, vars, spaceVars, requestVars>>
    \/ part = "calls" /\ RequestsNext /\ UNCHANGED <<part, vars, spaceVars, settingsVars>>

RecordsSpec == RecordsInit /\ [][RecordsNext]_all

===============================================================================
