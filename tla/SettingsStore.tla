---------------------------- MODULE SettingsStore ----------------------------
(***************************************************************************)
(* The game settings that S3SS overrides: the registration of settings by  *)
(* the game, the overlay's edits, SaveAll and LoadAll of the [settings]    *)
(* section, and the config file across crashes and restarts.               *)
(*                                                                         *)
(* The game thread registers settings; the overlay thread edits, saves and *)
(* loads; the hook thread runs LoadAll once, before the registration hooks *)
(* are installed.  ConfigStore::m_mutex is held from SaveCollect to        *)
(* SaveReturn and while settings are loaded.  Of the types of settings and *)
(* entries only this is kept: a file that no save has written may hold     *)
(* foreign entries, which the two ways to read them convert or refuse.     *)
(***************************************************************************)
EXTENDS Integers

CONSTANTS
    Names,      \* the game's settings
    Values,     \* what a setting may hold
    Shipped,    \* the value the game itself gives a setting
    None,       \* no value
    Foreign,    \* entries of another type, in a file edited by hand or migrated
    Inferred,   \* those of them whose type InferValueFromToml knows
    Converts,   \* what ApplyPendingSavedValue makes of one, None for a mismatch
    Reads,      \* what ReadValueFromToml makes of one, None if it cannot
    Torn,       \* a file whose writing did not finish
    MaxEdits,   \* bound: how many requests the user makes
    EarlySaves, \* TRUE: SaveAll may run before the game has registered everything
    Refires,    \* TRUE: the game may register a setting again
    DiskFaults, \* TRUE: creating the directory, opening and renaming may fail
    WriteFaults \* TRUE: writing the temporary file may fail

ASSUME SettingsAssumption ==
    /\ Shipped \in Values
    /\ None \notin Values \cup Foreign /\ Values \cap Foreign = {}
    /\ Inferred \subseteq Foreign
    /\ Converts \in [Names -> [Foreign -> Values \cup {None}]]
    /\ Reads \in [Names -> [Foreign -> Values \cup {None}]]
    /\ MaxEdits \in Nat
    /\ EarlySaves \in BOOLEAN /\ Refires \in BOOLEAN
    /\ DiskFaults \in BOOLEAN /\ WriteFaults \in BOOLEAN

Overrides == [Names -> Values \cup {None}]
NoOverrides == [n \in Names |-> None]
Entries == [Names -> Values \cup Foreign \cup {None}]

ASSUME TornAssumption == Torn \notin Entries

\* Whether an entry can wait for its setting.
CanWait(e) == e # None /\ (e \in Foreign => e \in Inferred)

\* What an entry comes to if it waits for its setting, and if it finds it registered.
AtRegistration(n, e) ==
    IF ~CanWait(e) THEN None ELSE IF e \in Foreign THEN Converts[n][e] ELSE e
OnceRegistered(n, e) == IF e \in Foreign THEN Reads[n][e] ELSE e

VARIABLES
    phase,       \* "boot" until HookThread's LoadAll, then "up"
    registered,  \* the keys of m_settings
    value,       \* the game's memory
    overridden, unsaved, \* per Setting: m_isOverridden, m_hasUnsavedChanges
    pending,     \* m_pendingSavedValues
    defaults,    \* m_defaultValues
    initialized, \* m_initialized
    saving,      \* where SaveAll is
    root,        \* the table SaveAll has collected
    temp, file,  \* S3SS.toml.tmp and S3SS.toml
    lookup,      \* of each setting: how far LoadFromToml is with its entry
    edits,       \* requests so far
    overtaken    \* history: settings that registered while LoadFromToml took them for unknown

settingVars == <<registered, value, overridden, unsaved>>
managerVars == <<pending, defaults, initialized>>
diskVars == <<temp, file>>
loadVars == <<lookup, overtaken>>
vars == <<phase, settingVars, managerVars, saving, root, diskVars, loadVars, edits>>

NoLookup == [n \in Names |-> "no"]

-----------------------------------------------------------------------------
Init ==
    /\ phase = "boot"
    /\ registered = {}
    /\ value = [n \in Names |-> Shipped]
    /\ overridden = {}
    /\ unsaved = {}
    /\ pending = NoOverrides
    /\ defaults = NoOverrides
    /\ initialized = FALSE
    /\ saving = "no"
    /\ root = NoOverrides
    /\ file \in Entries
    /\ temp = NoOverrides
    /\ lookup = NoLookup
    /\ edits = 0
    /\ overtaken = {}

MutexFree == saving = "no" /\ lookup = NoLookup

\* The overlay's thread runs SaveAll and LoadAll to their end before it does anything else.
OverlayIdle == phase = "up" /\ MutexFree

\* The live overrides, of registered settings only: what SaveToToml collects.
Live == [n \in Names |-> IF n \in registered /\ n \in overridden THEN value[n] ELSE None]

-----------------------------------------------------------------------------
(* Registration, on the game's thread. *)

\* The Setting LoadFromToml has just found is destroyed by a newer one.
Replace(n) == lookup' = [lookup EXCEPT ![n] = IF @ = "known" THEN "freed" ELSE @]

\* Mutant of RegisterSetting: the pending value is applied without its flag.
RegisterWithoutFlag(n) ==
    /\ phase = "up"
    /\ n \in registered => Refires
    /\ registered' = registered \cup {n}
    /\ LET converted == AtRegistration(n, pending[n])
       IN value' = [value EXCEPT ![n] = IF converted # None THEN converted ELSE Shipped]
    /\ overridden' = overridden \ {n}
    /\ unsaved' = unsaved \ {n}
    /\ pending' = [pending EXCEPT ![n] = None]
    /\ overtaken' = overtaken \ {n}
    /\ Replace(n)
    /\ UNCHANGED <<phase, defaults, initialized, saving, root, diskVars, edits>>

\* Mutant of RegisterSetting: the pending entry is applied but not erased.
RegisterKeepsPending(n) ==
    LET converted == AtRegistration(n, pending[n])
    IN /\ phase = "up"
       /\ n \in registered => Refires
       /\ registered' = registered \cup {n}
       /\ unsaved' = unsaved \ {n}
       /\ value' = [value EXCEPT ![n] = IF converted # None THEN converted ELSE Shipped]
       /\ overridden' = IF converted # None THEN overridden \cup {n} ELSE overridden \ {n}
       /\ overtaken' = overtaken \ {n}
       /\ Replace(n)
       /\ UNCHANGED <<phase, managerVars, saving, root, diskVars, edits>>

\* A new Setting replaces any older one, over the value the game has just
\* written; ApplyPendingSavedValue then overrides it with the pending entry, unless
\* that is of a type it cannot convert, and drops the entry in either case.
RegisterSetting(n) ==
    LET converted == AtRegistration(n, pending[n])
    IN /\ phase = "up"
       /\ n \in registered => Refires
       /\ registered' = registered \cup {n}
       /\ unsaved' = unsaved \ {n}
       /\ value' = [value EXCEPT ![n] = IF converted # None THEN converted ELSE Shipped]
       /\ overridden' = IF converted # None THEN overridden \cup {n} ELSE overridden \ {n}
       /\ pending' = [pending EXCEPT ![n] = None]
       /\ overtaken' = overtaken \ {n}
       /\ Replace(n)
       /\ UNCHANGED <<phase, defaults, initialized, saving, root, diskVars, edits>>

\* "MT Time Step" has registered, or ManualInitialize: initialized is set and
\* SaveDefaults records what every registered setting holds now, or gives up
\* because the directory cannot be created.
SaveDefaults ==
    /\ phase = "up"
    /\ ~initialized
    /\ MutexFree
    /\ initialized' = TRUE
    /\ \/ defaults' = [n \in Names |-> IF n \in registered THEN value[n] ELSE defaults[n]]
       \/ DiskFaults /\ UNCHANGED defaults
    /\ UNCHANGED <<phase, settingVars, pending, saving, root, diskVars, loadVars, edits>>

-----------------------------------------------------------------------------
(* The overlay. *)

Request ==
    /\ OverlayIdle
    /\ edits < MaxEdits
    /\ edits' = edits + 1

\* A slider, check box or input field of RenderSetting.
Edit(n, v) ==
    /\ Request
    /\ initialized /\ n \in registered
    /\ value' = [value EXCEPT ![n] = v]
    /\ unsaved' = unsaved \cup {n}
    /\ overridden' = overridden \cup {n}
    /\ UNCHANGED <<phase, registered, managerVars, saving, root, diskVars, loadVars>>

\* "Clear Override": the value stays in memory until the next start.
ClearOverride(n) ==
    /\ Request
    /\ initialized /\ n \in registered
    /\ overridden' = overridden \ {n}
    /\ unsaved' = unsaved \cup {n}
    /\ UNCHANGED <<phase, registered, value, managerVars, saving, root, diskVars, loadVars>>

\* ResetSettingToDefault and ResetAllSettings write the recorded defaults back.
ResetNames(ns) ==
    /\ Request
    /\ value' = [n \in Names |-> IF n \in ns THEN defaults[n] ELSE value[n]]
    /\ unsaved' = unsaved \cup ns
    /\ overridden' = overridden \cup ns
    /\ UNCHANGED <<phase, registered, managerVars, saving, root, diskVars, loadVars>>

Resettable == {n \in registered : defaults[n] # None}

ResetSettingToDefault(n) ==
    /\ initialized
    /\ n \in Resettable
    /\ ResetNames({n})

ResetAllSettings == Resettable # {} /\ ResetNames(Resettable)

-----------------------------------------------------------------------------
(* SaveAll. *)

MaySave ==
    /\ MutexFree
    /\ EarlySaves \/ (phase = "up" /\ registered = Names)

\* Mutant of SaveCollect: entries already marked saved are left out.
SaveCollectUnsaved ==
    /\ MaySave
    /\ root' = [n \in Names |-> IF n \in unsaved THEN Live[n] ELSE None]
    /\ unsaved' = unsaved \ overridden
    /\ saving' = "collected"
    /\ UNCHANGED <<phase, registered, value, overridden, managerVars, diskVars, loadVars, edits>>

\* Mutant of SaveCollect: a cleared override is written as long as it is marked.
SaveCollectCleared ==
    /\ MaySave
    /\ root' = [n \in Names |-> IF n \in overridden \cup unsaved THEN value[n] ELSE None]
    /\ unsaved' = unsaved \ overridden
    /\ saving' = "collected"
    /\ UNCHANGED <<phase, registered, value, overridden, managerVars, diskVars, loadVars, edits>>

\* SaveToToml: the overridden settings go into the table, and only they lose
\* their unsaved mark, before a byte is written.
SaveCollect ==
    /\ MaySave
    /\ root' = Live
    /\ unsaved' = unsaved \ overridden
    /\ saving' = "collected"
    /\ UNCHANGED <<phase, registered, value, overridden, managerVars, diskVars, loadVars, edits>>

\* Mutant of OpenTemp: the destination is opened instead.
OpenInPlace ==
    /\ saving = "collected"
    /\ file' = Torn
    /\ saving' = "opened"
    /\ UNCHANGED <<phase, settingVars, managerVars, root, temp, loadVars, edits>>

\* AtomicWriteToml opens the temporary file, which truncates it ...
OpenTemp ==
    /\ saving = "collected"
    /\ \/ temp' = Torn /\ saving' = "opened"
       \/ DiskFaults /\ saving' = "no" /\ UNCHANGED temp
    /\ UNCHANGED <<phase, settingVars, managerVars, root, file, loadVars, edits>>

\* ... streams the table into it, without looking at the stream afterwards ...
WriteTemp ==
    /\ saving = "opened"
    /\ saving' = "written"
    /\ \/ temp' = root
       \/ WriteFaults /\ temp' = Torn
    /\ UNCHANGED <<phase, settingVars, managerVars, root, file, loadVars, edits>>

\* ... and renames it over the config file.
RenameTemp ==
    /\ saving = "written"
    /\ \/ file' = temp /\ saving' = "renamed"
       \/ DiskFaults /\ saving' = "no" /\ UNCHANGED file
    /\ UNCHANGED <<phase, settingVars, managerVars, root, temp, loadVars, edits>>

SaveReturn ==
    /\ saving = "renamed"
    /\ saving' = "no"
    /\ UNCHANGED <<phase, settingVars, managerVars, root, diskVars, loadVars, edits>>

-----------------------------------------------------------------------------
(* LoadAll. *)

\* A torn file is a parse error.
Parsed == IF file = Torn THEN NoOverrides ELSE file

Merge(over, under) == [n \in Names |-> IF over[n] # None THEN over[n] ELSE under[n]]

\* HookThread, before it installs the registration hooks: nothing is registered, and
\* every entry that can wait does.
LoadAtStart ==
    /\ phase = "boot" /\ MutexFree
    /\ phase' = "up"
    /\ pending' = Merge([n \in Names |-> IF CanWait(Parsed[n]) THEN Parsed[n] ELSE None], pending)
    /\ UNCHANGED <<settingVars, defaults, initialized, saving, root, diskVars, loadVars, edits>>

\* File > Load Settings, on the overlay's thread: LoadFromToml goes through the entries.
LoadSettings ==
    /\ OverlayIdle
    /\ lookup' = [n \in Names |-> IF Parsed[n] # None THEN "due" ELSE "no"]
    /\ UNCHANGED <<phase, settingVars, managerVars, saving, root, diskVars, overtaken, edits>>

\* It looks a setting up ...
LoadFind(n) ==
    /\ lookup[n] = "due"
    /\ \A m \in Names : lookup[m] \in {"no", "due"}
    /\ lookup' = [lookup EXCEPT ![n] = IF n \in registered THEN "known" ELSE "absent"]
    /\ UNCHANGED <<phase, settingVars, managerVars, saving, root, diskVars, overtaken, edits>>

Done(n) == lookup' = [lookup EXCEPT ![n] = "no"]

\* ... and gives it the value and the flag, if the entry can be read as the setting's type, ...
LoadStore(n) ==
    LET read == OnceRegistered(n, Parsed[n])
    IN /\ lookup[n] = "known" /\ Done(n)
       /\ value' = [value EXCEPT ![n] = IF read # None THEN read ELSE @]
       /\ overridden' = IF read # None THEN overridden \cup {n} ELSE overridden
       /\ UNCHANGED <<phase, registered, unsaved, managerVars, saving, root, diskVars, overtaken, edits>>

\* ... or does so to a Setting that is no more, of which the address may still be right, ...
LoadStoreFreed(n) ==
    LET read == OnceRegistered(n, Parsed[n])
    IN /\ lookup[n] = "freed" /\ Done(n)
       /\ \/ UNCHANGED value
          \/ read # None /\ value' = [value EXCEPT ![n] = read]
       /\ UNCHANGED <<phase, registered, overridden, unsaved, managerVars, saving, root, diskVars,
                      overtaken, edits>>

\* ... or lets an unknown setting's entry wait, which may have registered by now.
LoadPending(n) ==
    /\ lookup[n] = "absent" /\ Done(n)
    /\ pending' = [pending EXCEPT ![n] = IF CanWait(Parsed[n]) THEN Parsed[n] ELSE @]
    /\ overtaken' = IF n \in registered THEN overtaken \cup {n} ELSE overtaken
    /\ UNCHANGED <<phase, settingVars, defaults, initialized, saving, root, diskVars, edits>>

\* The game ends or crashes, at any point, and is started again.
Restart ==
    /\ phase' = "boot"
    /\ registered' = {}
    /\ value' = [n \in Names |-> Shipped]
    /\ overridden' = {}
    /\ unsaved' = {}
    /\ pending' = NoOverrides
    /\ defaults' = NoOverrides
    /\ initialized' = FALSE
    /\ saving' = "no"
    /\ root' = NoOverrides
    /\ lookup' = NoLookup
    /\ overtaken' = {}
    /\ UNCHANGED <<diskVars, edits>>

-----------------------------------------------------------------------------
Registration == SaveDefaults \/ \E n \in Names : RegisterSetting(n)

Overlay ==
    \/ \E n \in Names :
          ClearOverride(n) \/ ResetSettingToDefault(n) \/ \E v \in Values : Edit(n, v)
    \/ ResetAllSettings

SaveAll == SaveCollect \/ OpenTemp \/ WriteTemp \/ RenameTemp \/ SaveReturn

LoadAll ==
    \/ LoadAtStart \/ LoadSettings
    \/ \E n \in Names : LoadFind(n) \/ LoadStore(n) \/ LoadStoreFreed(n) \/ LoadPending(n)

Next == Registration \/ Overlay \/ SaveAll \/ LoadAll \/ Restart

Spec == Init /\ [][Next]_vars

-----------------------------------------------------------------------------
(* Properties. *)

\* Every variable has its type, and only a registered setting carries flags.
TypeOK ==
    /\ phase \in {"boot", "up"}
    /\ registered \subseteq Names
    /\ value \in [Names -> Values]
    /\ overridden \subseteq registered
    /\ unsaved \subseteq registered
    /\ pending \in Entries
    /\ defaults \in Overrides
    /\ initialized \in BOOLEAN
    /\ saving \in {"no", "collected", "opened", "written", "renamed"}
    /\ root \in Overrides
    /\ temp \in Overrides \cup {Torn}
    /\ file \in Entries \cup {Torn}
    /\ lookup \in [Names -> {"no", "due", "known", "freed", "absent"}]
    /\ \A n \in Names : lookup[n] \in {"known", "freed"} => n \in registered
    /\ edits \in 0..MaxEdits
    /\ overtaken \subseteq registered

\* What of a file's entry may come into effect.
Readings(n, e) == {AtRegistration(n, e), OnceRegistered(n, e)}

\* A setting the overlay shows in green, overridden and not marked unsaved, has a
\* value the config file's entry is read as ("Green settings - Modified from the
\* default and saved", README.md:132), whenever no save is under way.
GreenIsSaved ==
    saving = "no" /\ file # Torn =>
        \A n \in overridden \ unsaved : value[n] \in Readings(n, file[n])

\* An override that the config file keeps is in effect from the moment the game
\* registers the setting, unless its entry is of a type the setting cannot take or the
\* overlay shows an unsaved change of it: the hand-over from LoadAll through
\* m_pendingSavedValues to registration loses no other.
SavedIsInEffect ==
    phase = "up" /\ saving = "no" /\ file # Torn =>
        \A n \in registered \ unsaved : AtRegistration(n, file[n]) # None => n \in overridden

\* A value waits in m_pendingSavedValues only until its setting registers: a later
\* registration can bring an older value back only where the setting registered
\* between the lookup and the store of a Load Settings.
PendingOnlyUnregistered == \A n \in registered \ overtaken : pending[n] = None

\* The config file is never half-written ("Atomically write a TOML table to
\* destPath (temp file + rename)", config_paths.h:30).
FileIsWhole == file # Torn

\* A save that returns true leaves nothing marked unsaved ("Unsaved Changes. Go
\* to File -> Save Settings to save", gui.cpp:73).
SaveClearsEveryMark == saving = "renamed" => unsaved = {}

\* "Reset to Default" goes back to the game's value ("Reset this setting to its
\* default value", gui.cpp:1057).
DefaultsAreShipped == \A n \in Names : defaults[n] \in {None, Shipped}

\* The store implements OverrideStore: overrides in effect are those of the
\* registered settings and of the entries still pending.
Wish ==
    [n \in Names |->
        IF phase = "boot" THEN AtRegistration(n, Parsed[n])
        ELSE IF n \in registered THEN Live[n] ELSE AtRegistration(n, pending[n])]

Kept == [n \in Names |-> Readings(n, Parsed[n])]

Store == INSTANCE OverrideStore WITH wish <- Wish, kept <- Kept, base <- defaults

\* No step of registration, saving, loading, crashing or restarting loses or
\* invents an override: each is a step of OverrideStore or changes nothing there.
ImplementsStore == Store!Spec

=============================================================================
