-------------------------------- MODULE ModelSettings --------------------------------
(***************************************************************************)
(* Model settings: a file for each owner, replaced as a whole, and one key *)
(* that encrypts the credentials of all of them.  A save merges what it    *)
(* leaves out with the saved settings before it takes the lock, compares   *)
(* the revision under the lock, and may have to make the key first.        *)
(*                                                                         *)
(* A model is known by the provider that accepts its name; a credential by *)
(* the key that encrypts it.                                               *)
(***************************************************************************)
EXTENDS Naturals, FiniteSetsExt

CONSTANTS
    Owners,
    Forms,      \* settings pages and other clients
    Providers,
    Default,    \* the provider of settings never saved
    MaxSaves,   \* bound: revisions of all files
    MaxKeys,    \* bound: keys ever made
    Nothing

ASSUME SettingsBounds == MaxSaves \in Nat /\ MaxKeys \in Nat /\ Default \in Providers

VARIABLES
    file,   \* [Owners -> the settings on disk]
    master, \* master.key
    keys,   \* keys ever made
    lock,   \* settings.lock: the form whose save holds it
    owner,  \* [Forms -> the account of the form]
    form,   \* [Forms -> the settings the form shows]
    save    \* [Forms -> the save under way]

settingsVars == <<file, master, keys, lock, owner, form, save>>

\* The settings that form f is about.
Stored(f) == file[owner[f]]

Settings == [rev : Nat, provider : Providers, model : Providers, credential : 0..MaxKeys]

Saves == [on : Settings, provider : Providers \cup {Nothing}, model : Providers, action : {"none", "set", "remove"},
          merged : Providers \cup {Nothing}, at : {"sent", "valid", "entered", "written"}]

ASSUME NothingElse == Nothing \notin Owners \cup Forms \cup Providers \cup Settings \cup Saves \cup Nat

\* A credential of key 0 is none; resolve fails when the key is not there.
Readable(settings) == settings.credential \in {0, master}

Leave(f) == lock' = IF lock = f THEN Nothing ELSE lock

-------------------------------------------------------------------------------
\* SettingsPage loads the settings of the account.
Load(f, o) ==
    /\ save[f] = Nothing
    /\ Readable(file[o])
    /\ form' = [form EXCEPT ![f] = file[o]]
    /\ owner' = [owner EXCEPT ![f] = o]
    /\ UNCHANGED <<file, master, keys, lock, save>>

\* A save is sent; a client may leave the provider out, and give or remove a key.
Save(f, provider, model, action) ==
    /\ save[f] = Nothing /\ form[f] # Nothing
    /\ save' = [save EXCEPT ![f] = [on |-> form[f], provider |-> provider, model |-> model,
                                    action |-> action, merged |-> Nothing, at |-> "sent"]]
    /\ UNCHANGED <<file, master, keys, lock, owner, form>>

\* update: the provider that the model has to belong to, read without the lock.
Validate(f) ==
    LET merged == IF save[f].provider = Nothing THEN Stored(f).provider ELSE save[f].provider
    IN  /\ save[f] # Nothing /\ save[f].at = "sent"
        /\ save' = [save EXCEPT ![f] = IF save[f].model = merged
                                         THEN [save[f] EXCEPT !.merged = merged, !.at = "valid"] ELSE Nothing]
        /\ UNCHANGED <<file, master, keys, lock, owner, form>>

\* Seeded defect: no revision is compared.
EnterAnyRevision(f) ==
    /\ save[f] # Nothing /\ save[f].at = "valid" /\ lock = Nothing
    /\ lock' = f /\ save' = [save EXCEPT ![f].at = "entered"]
    /\ UNCHANGED <<file, master, keys, owner, form>>

\* The lock is taken and the revision compared.
Enter(f) ==
    /\ save[f] # Nothing /\ save[f].at = "valid" /\ lock = Nothing
    /\ IF save[f].on.rev = Stored(f).rev
         THEN lock' = f /\ save' = [save EXCEPT ![f].at = "entered"]
         ELSE save' = [save EXCEPT ![f] = Nothing] /\ UNCHANGED lock
    /\ UNCHANGED <<file, master, keys, owner, form>>

\* Seeded defect: a missing key is made, whatever is encrypted.
MakeKeyAnyway(f) ==
    /\ save[f] # Nothing /\ save[f].at = "entered" /\ save[f].action = "set" /\ master = Nothing
    /\ keys < MaxKeys
    /\ keys' = keys + 1 /\ master' = keys'
    /\ UNCHANGED <<file, lock, owner, form, save>>

\* The first credential makes the key; a lost one is not replaced while something
\* is encrypted with it.
MakeKey(f) ==
    /\ save[f] # Nothing /\ save[f].at = "entered" /\ save[f].action = "set" /\ master = Nothing
    /\ IF \E o \in Owners : file[o].credential # 0
         THEN /\ save' = [save EXCEPT ![f] = Nothing] /\ Leave(f)
              /\ UNCHANGED <<master, keys>>
         ELSE /\ keys < MaxKeys
              /\ keys' = keys + 1 /\ master' = keys'
              /\ UNCHANGED <<save, lock>>
    /\ UNCHANGED <<file, owner, form>>

\* The file is replaced.
Write(f) ==
    LET old == Stored(f)
        credential == CASE save[f].action = "set"    -> master
                        [] save[f].action = "remove" -> 0
                        [] OTHER                     -> old.credential
    IN  /\ save[f] # Nothing /\ save[f].at = "entered"
        /\ save[f].action = "set" => master # Nothing
        /\ MapThenSumSet(LAMBDA o : file[o].rev, Owners) < MaxSaves
        /\ file' = [file EXCEPT ![owner[f]] = [rev |-> old.rev + 1, provider |-> save[f].merged,
                                                  model |-> save[f].model, credential |-> credential]]
        /\ save' = [save EXCEPT ![f].at = "written"]
        /\ UNCHANGED <<master, keys, lock, owner, form>>

\* The answer is read back under the lock, and may not reach the form.
Answer(f) ==
    /\ save[f] # Nothing /\ save[f].at = "written"
    /\ form' \in {form} \cup IF Readable(Stored(f)) THEN {[form EXCEPT ![f] = Stored(f)]} ELSE {}
    /\ save' = [save EXCEPT ![f] = Nothing]
    /\ Leave(f)
    /\ UNCHANGED <<file, master, keys, owner>>

\* The lock is held by another save, a write fails, or the process ends.
SaveFails(f) ==
    /\ save[f] # Nothing
    /\ save' = [save EXCEPT ![f] = Nothing]
    /\ Leave(f)
    /\ UNCHANGED <<file, master, keys, owner, form>>

\* A backup is restored without the key.
LoseKey ==
    /\ master # Nothing
    /\ lock = Nothing
    /\ master' = Nothing
    /\ UNCHANGED <<file, keys, lock, owner, form, save>>

-------------------------------------------------------------------------------
SettingsInit ==
    /\ file = [o \in Owners |-> [rev |-> 0, provider |-> Default, model |-> Default, credential |-> 0]]
    /\ master = Nothing /\ keys = 0 /\ lock = Nothing
    /\ owner = [f \in Forms |-> Nothing] /\ form = [f \in Forms |-> Nothing]
    /\ save = [f \in Forms |-> Nothing]

SettingsNext ==
    \/ LoseKey
    \/ \E f \in Forms :
         \/ \E o \in Owners : Load(f, o)
         \/ Validate(f) \/ Enter(f) \/ MakeKey(f) \/ Write(f) \/ Answer(f) \/ SaveFails(f)
         \/ \E provider \in Providers \cup {Nothing}, model \in Providers, action \in {"none", "set", "remove"} :
              Save(f, provider, model, action)

SettingsSpec == SettingsInit /\ [][SettingsNext]_settingsVars

-------------------------------------------------------------------------------
(***************************************************************************)
(* Properties                                                              *)
(***************************************************************************)
\* A form shows an earlier revision of its owner's settings, or what is saved.
Shows(settings, o) ==
    settings.rev <= file[o].rev /\ (settings.rev = file[o].rev => settings = file[o])

\* The type of every variable.
SettingsTypes ==
    /\ file \in [Owners -> Settings] /\ form \in [Forms -> Settings \cup {Nothing}]
    /\ owner \in [Forms -> Owners \cup {Nothing}]
    /\ save \in [Forms -> Saves \cup {Nothing}]
    /\ keys \in 0..MaxKeys /\ master \in 1..keys \cup {Nothing}
    /\ lock \in Forms \cup {Nothing}

Shown(f) == form[f] # Nothing => owner[f] \in Owners /\ Shows(form[f], owner[f])

\* A save past the comparison of revisions holds the lock, replaces what its form
\* showed and has the provider of that.
Underway(f) ==
    save[f] # Nothing =>
        /\ owner[f] \in Owners
        /\ save[f].at # "written" => Shows(save[f].on, owner[f])
        /\ save[f].at \in {"entered", "written"} <=> lock = f
        /\ save[f].at = "entered" => save[f].on = Stored(f)
        /\ save[f].at # "sent" => save[f].model = save[f].merged
        /\ save[f].at \in {"valid", "entered"} /\ save[f].provider = Nothing /\ save[f].on = Stored(f)
              => save[f].merged = Stored(f).provider

\* The inductive invariant.
SettingsInv ==
    /\ SettingsTypes
    /\ lock # Nothing => save[lock] # Nothing
    /\ \A f \in Forms : Shown(f) /\ Underway(f)

\* The key that is there reads every credential, of every owner, whatever was
\* interrupted or lost in between (llm_settings.py:136).
CredentialsReadable == master # Nothing => \A o \in Owners : Readable(file[o])

\* What forms and saves know of the settings, and that their credentials can be read.
SettingsSound == SettingsInv /\ CredentialsReadable

\* A save replaces exactly what its form showed, and a provider it leaves out stays
\* as it is although it is read without the lock (llm_settings.py:90, 129).
NothingLost ==
    [][\A o \in Owners : file'[o] # file[o] =>
          \E f \in Forms :
             /\ save[f] # Nothing /\ owner[f] = o /\ save[f].on = file[o]
             /\ save[f].provider = Nothing => file'[o].provider = file[o].provider]_settingsVars
===============================================================================
