------------------------ MODULE SettingsStoreProofs ------------------------
(***************************************************************************)
(* Theorems about SettingsStore for every set of names and values.         *)
(***************************************************************************)
EXTENDS SettingsStore, TLAPS

\* The flags of the environment under which a save comes late and once.
Orderly == ~EarlySaves /\ ~Refires

\* Only a registered setting has a recorded default, and nothing is registered or
\* waits before LoadAll.
BootInv ==
    /\ \A n \in Names : defaults[n] # None => n \in registered
    /\ phase = "boot" => registered = {} /\ pending = NoOverrides /\ lookup = NoLookup

\* LoadFromToml and SaveAll exclude each other, and no Setting is destroyed while
\* LoadFromToml holds it.
LookupInv ==
    /\ lookup # NoLookup => phase = "up" /\ saving = "no"
    /\ \A n \in Names : lookup[n] # "freed"

\* What the file holds for a setting yet to register waits for it.
WaitInv ==
    phase = "up" =>
        \A n \in Names \ registered : pending[n] = IF CanWait(Parsed[n]) THEN Parsed[n] ELSE None

\* While a save is under way its table is what is in effect, and stays so: the
\* names are all registered, and the overlay's thread is inside SaveAll.
SaveInv ==
    /\ saving # "no" => phase = "up" /\ registered = Names
    /\ saving \in {"collected", "opened", "written"} => root = Live
    /\ saving = "written" => temp \in {root, Torn}

-----------------------------------------------------------------------------
(* Types. *)

LEMMA NoOverridesType == NoOverrides \in Overrides /\ NoOverrides \in Entries
BY DEF NoOverrides, Overrides, Entries

LEMMA EntryTypes ==
    ASSUME NEW n \in Names, NEW e \in Values \cup Foreign \cup {None}
    PROVE  /\ AtRegistration(n, e) \in Values \cup {None}
           /\ OnceRegistered(n, e) \in Values \cup {None}
           /\ Readings(n, e) \subseteq Values \cup {None}
<1>1. e \in Foreign => Converts[n][e] \in Values \cup {None} /\ Reads[n][e] \in Values \cup {None}
  BY SettingsAssumption DEF SettingsAssumption
<1>2. e \notin Foreign => e \in Values \cup {None}
  OBVIOUS
<1>. QED
  BY <1>1, <1>2 DEF AtRegistration, OnceRegistered, Readings

\* What a save writes is read as what was saved.
LEMMA SavedReads ==
    ASSUME NEW n \in Names, NEW v \in Values \cup {None}
    PROVE  AtRegistration(n, v) = v /\ OnceRegistered(n, v) = v
BY SettingsAssumption DEF SettingsAssumption, AtRegistration, OnceRegistered, CanWait

LEMMA WaitingConverts ==
    ASSUME NEW n \in Names, NEW e
    PROVE  AtRegistration(n, IF CanWait(e) THEN e ELSE None) = AtRegistration(n, e)
BY DEF AtRegistration, CanWait

LEMMA TypeInit == Init => TypeOK
<1>. SUFFICES ASSUME Init PROVE TypeOK
  OBVIOUS
<1>1. value \in [Names -> Values]
  BY SettingsAssumption DEF SettingsAssumption, Init
<1>2. pending \in Entries /\ defaults \in Overrides /\ root \in Overrides /\ temp \in Overrides
  BY NoOverridesType DEF Init
<1>3. edits \in 0..MaxEdits
  BY SettingsAssumption DEF SettingsAssumption, Init
<1>. QED
  BY <1>1, <1>2, <1>3 DEF Init, TypeOK, NoLookup

LEMMA LiveType == TypeOK => Live \in Overrides
BY DEF TypeOK, Live, Overrides

LEMMA ParsedType == TypeOK => Parsed \in Entries
BY NoOverridesType DEF TypeOK, Parsed

LEMMA TypeStep == TypeOK /\ [Next]_vars => TypeOK'
<1>. SUFFICES ASSUME TypeOK, [Next]_vars PROVE TypeOK'
  OBVIOUS
<1>1. ASSUME NEW n \in Names, RegisterSetting(n) PROVE TypeOK'
  <2>. DEFINE converted == AtRegistration(n, pending[n])
  <2>1. converted \in Values \cup {None} /\ Shipped \in Values
    BY EntryTypes, SettingsAssumption DEF SettingsAssumption, TypeOK, Entries
  <2>2. value' \in [Names -> Values] /\ overridden' \subseteq registered'
    BY <1>1, <2>1 DEF RegisterSetting, TypeOK
  <2>3. pending' \in Entries
    BY <1>1 DEF RegisterSetting, TypeOK, Entries
  <2>4. /\ lookup' \in [Names -> {"no", "due", "known", "freed", "absent"}]
        /\ \A m \in Names : lookup'[m] \in {"known", "freed"} => m \in registered'
    BY <1>1 DEF RegisterSetting, Replace, TypeOK
  <2>. QED
    BY <1>1, <2>2, <2>3, <2>4 DEF RegisterSetting, TypeOK, diskVars
<1>2. CASE SaveDefaults
  BY <1>2 DEF SaveDefaults, TypeOK, Overrides, diskVars, settingVars, loadVars
<1>3. ASSUME NEW n \in Names, NEW v \in Values, Edit(n, v) PROVE TypeOK'
  BY <1>3, SettingsAssumption
     DEF SettingsAssumption, Edit, Request, TypeOK, diskVars, managerVars, loadVars
<1>4. ASSUME NEW n \in Names, ClearOverride(n) PROVE TypeOK'
  BY <1>4, SettingsAssumption
     DEF SettingsAssumption, ClearOverride, Request, TypeOK, diskVars, managerVars, loadVars
<1>5. ASSUME NEW ns \in SUBSET Resettable, ResetNames(ns) PROVE TypeOK'
  BY <1>5, SettingsAssumption
     DEF SettingsAssumption, ResetNames, Resettable, Request, TypeOK, Overrides, diskVars,
         managerVars, loadVars
<1>6. CASE SaveCollect
  BY <1>6, LiveType DEF SaveCollect, TypeOK, diskVars, managerVars, loadVars
<1>7. CASE OpenTemp \/ WriteTemp
  BY <1>7 DEF OpenTemp, WriteTemp, TypeOK, managerVars, settingVars, loadVars
<1>8. CASE RenameTemp
  <2>1. Overrides \subseteq Entries
    BY DEF Overrides, Entries
  <2>. QED
    BY <1>8, <2>1 DEF RenameTemp, TypeOK, managerVars, settingVars, loadVars
<1>9. CASE SaveReturn
  BY <1>9 DEF SaveReturn, TypeOK, managerVars, settingVars, diskVars, loadVars
<1>10. CASE LoadAtStart
  <2>1. pending' \in Entries
    BY <1>10, ParsedType DEF LoadAtStart, Merge, TypeOK, Entries
  <2>. QED
    BY <1>10, <2>1 DEF LoadAtStart, TypeOK, settingVars, diskVars, loadVars
<1>11. CASE LoadSettings
  BY <1>11 DEF LoadSettings, TypeOK, settingVars, managerVars, diskVars
<1>12. ASSUME NEW n \in Names, LoadFind(n) PROVE TypeOK'
  BY <1>12 DEF LoadFind, TypeOK, settingVars, managerVars, diskVars
<1>13. ASSUME NEW n \in Names, LoadStore(n) \/ LoadStoreFreed(n) PROVE TypeOK'
  <2>. DEFINE read == OnceRegistered(n, Parsed[n])
  <2>1. read \in Values \cup {None}
    BY EntryTypes, ParsedType DEF Entries
  <2>2. n \in registered
    BY <1>13 DEF LoadStore, LoadStoreFreed, TypeOK
  <2>3. value' \in [Names -> Values] /\ overridden' \subseteq registered'
    BY <1>13, <2>1, <2>2 DEF LoadStore, LoadStoreFreed, TypeOK
  <2>4. /\ lookup' \in [Names -> {"no", "due", "known", "freed", "absent"}]
        /\ \A m \in Names : lookup'[m] \in {"known", "freed"} => m \in registered'
    BY <1>13 DEF LoadStore, LoadStoreFreed, Done, TypeOK
  <2>. QED
    BY <1>13, <2>3, <2>4 DEF LoadStore, LoadStoreFreed, TypeOK, managerVars, diskVars
<1>14. ASSUME NEW n \in Names, LoadPending(n) PROVE TypeOK'
  <2>1. pending' \in Entries
    BY <1>14, ParsedType DEF LoadPending, TypeOK, Entries
  <2>2. /\ lookup' \in [Names -> {"no", "due", "known", "freed", "absent"}]
        /\ \A m \in Names : lookup'[m] \in {"known", "freed"} => m \in registered'
    BY <1>14 DEF LoadPending, Done, TypeOK, settingVars
  <2>. QED
    BY <1>14, <2>1, <2>2 DEF LoadPending, TypeOK, settingVars, diskVars
<1>15. CASE Restart
  BY <1>15, SettingsAssumption, NoOverridesType
     DEF SettingsAssumption, Restart, TypeOK, NoLookup, diskVars
<1>16. CASE UNCHANGED vars
  BY <1>16 DEF vars, TypeOK, settingVars, managerVars, diskVars, loadVars
<1>. QED
  <2>1. CASE Registration
    BY <2>1, <1>1, <1>2 DEF Registration
  <2>2. CASE Overlay
    BY <2>2, <1>3, <1>4, <1>5 DEF Overlay, ResetSettingToDefault, ResetAllSettings
  <2>3. CASE SaveAll
    BY <2>3, <1>6, <1>7, <1>8, <1>9 DEF SaveAll
  <2>4. CASE LoadAll
    BY <2>4, <1>10, <1>11, <1>12, <1>13, <1>14 DEF LoadAll
  <2>. QED
    BY <2>1, <2>2, <2>3, <2>4, <1>15, <1>16 DEF Next

\* Type correctness, with every fault, early save and repeated registration:
\* only a registered setting is ever overridden or marked unsaved.
THEOREM TypeCorrect == Spec => []TypeOK
BY TypeInit, TypeStep, PTL DEF Spec

-----------------------------------------------------------------------------
(* Pending values. *)

LEMMA BootInit == Init => BootInv
BY DEF Init, BootInv, NoOverrides

LEMMA BootStep ==
    ASSUME TypeOK, BootInv, [Next]_vars
    PROVE  BootInv'
<1>1. CASE UNCHANGED <<phase, registered, managerVars, lookup>>
  BY <1>1 DEF BootInv, NoLookup, managerVars
<1>2. CASE Registration
  BY <1>2 DEF Registration, RegisterSetting, SaveDefaults, BootInv, TypeOK, settingVars
<1>3. CASE Overlay
  BY <1>3, <1>1 DEF Overlay, Edit, ClearOverride, ResetSettingToDefault, ResetAllSettings,
                    ResetNames, loadVars
<1>4. CASE SaveAll
  BY <1>4, <1>1 DEF SaveAll, SaveCollect, OpenTemp, WriteTemp, RenameTemp, SaveReturn, settingVars,
                    loadVars
<1>5. CASE LoadAtStart
  BY <1>5 DEF LoadAtStart, BootInv, settingVars
<1>6. CASE LoadSettings
  BY <1>6 DEF LoadSettings, OverlayIdle, BootInv, settingVars, managerVars
<1>7. ASSUME NEW n \in Names, LoadFind(n) \/ LoadStore(n) \/ LoadStoreFreed(n) \/ LoadPending(n)
      PROVE  BootInv'
  <2>1. lookup # NoLookup
    BY <1>7 DEF LoadFind, LoadStore, LoadStoreFreed, LoadPending, NoLookup
  <2>2. phase' = "up"
    BY <1>7, <2>1 DEF LoadFind, LoadStore, LoadStoreFreed, LoadPending, BootInv, TypeOK
  <2>. QED
    BY <1>7, <2>2 DEF LoadFind, LoadStore, LoadStoreFreed, LoadPending, BootInv, settingVars,
                      managerVars
<1>8. CASE Restart
  BY <1>8 DEF Restart, BootInv, NoOverrides, NoLookup
<1>9. CASE UNCHANGED vars
  BY <1>9, <1>1 DEF vars, settingVars, loadVars
<1>. QED
  BY <1>2, <1>3, <1>4, <1>5, <1>6, <1>7, <1>8, <1>9 DEF Next, LoadAll

LEMMA PendingInit == Init => PendingOnlyUnregistered
BY DEF Init, PendingOnlyUnregistered, NoOverrides

LEMMA PendingStep ==
    TypeOK /\ BootInv /\ PendingOnlyUnregistered /\ [Next]_vars => PendingOnlyUnregistered'
<1>. SUFFICES ASSUME TypeOK, BootInv, PendingOnlyUnregistered, [Next]_vars
              PROVE  PendingOnlyUnregistered'
  OBVIOUS
<1>1. ASSUME NEW n \in Names, RegisterSetting(n) PROVE PendingOnlyUnregistered'
  BY <1>1 DEF RegisterSetting, PendingOnlyUnregistered, TypeOK, Entries
<1>2. CASE LoadAtStart
  \* Nothing has registered: the game's calls come to the hooks that HookThread installs later.
  <2>1. ASSUME NEW n \in registered PROVE FALSE
    BY <1>2, <2>1 DEF LoadAtStart, BootInv
  <2>. QED
    BY <1>2, <2>1 DEF LoadAtStart, PendingOnlyUnregistered, settingVars
<1>3. ASSUME NEW n \in Names, LoadPending(n) PROVE PendingOnlyUnregistered'
  BY <1>3 DEF LoadPending, PendingOnlyUnregistered, TypeOK, Entries, settingVars
<1>4. CASE Restart
  BY <1>4 DEF Restart, PendingOnlyUnregistered
<1>5. CASE UNCHANGED <<registered, pending, overtaken>>
  BY <1>5 DEF PendingOnlyUnregistered
<1>. QED
  <2>1. CASE Overlay
    BY <2>1, <1>5 DEF Overlay, Edit, ClearOverride, ResetSettingToDefault, ResetAllSettings,
                      ResetNames, managerVars, loadVars
  <2>2. CASE SaveAll
    BY <2>2, <1>5 DEF SaveAll, SaveCollect, OpenTemp, WriteTemp, RenameTemp, SaveReturn,
                      managerVars, settingVars, loadVars
  <2>3. CASE Registration
    BY <2>3, <1>1, <1>5 DEF Registration, SaveDefaults, settingVars, loadVars
  <2>4. CASE LoadAll
    BY <2>4, <1>2, <1>3, <1>5
       DEF LoadAll, LoadSettings, LoadFind, LoadStore, LoadStoreFreed, settingVars, managerVars
  <2>5. CASE UNCHANGED vars
    BY <2>5, <1>5 DEF vars, settingVars, managerVars, loadVars
  <2>. QED
    BY <2>1, <2>2, <2>3, <2>4, <2>5, <1>4 DEF Next

\* A value waits in m_pendingSavedValues only until its setting registers, with every
\* fault, early save and repeated registration, unless the setting registers between
\* LoadFromToml's lookup and its store.
THEOREM PendingIsConsumed == Spec => []PendingOnlyUnregistered
<1>1. Init => TypeOK /\ BootInv /\ PendingOnlyUnregistered
  BY TypeInit, BootInit, PendingInit
<1>2. /\ TypeOK /\ BootInv /\ PendingOnlyUnregistered /\ [Next]_vars
      => TypeOK' /\ BootInv' /\ PendingOnlyUnregistered'
  BY TypeStep, BootStep, PendingStep
<1>. QED
  BY <1>1, <1>2, PTL DEF Spec

-----------------------------------------------------------------------------
(* The file. *)

WholeInv == file # Torn /\ (saving = "written" => temp # Torn)

LEMMA WholeInit == Init => WholeInv
BY TornAssumption DEF TornAssumption, Init, WholeInv

LEMMA WholeStep ==
    ASSUME ~WriteFaults, TypeOK, WholeInv, [Next]_vars
    PROVE  WholeInv'
<1>1. CASE UNCHANGED <<diskVars, saving>>
  BY <1>1 DEF WholeInv, diskVars
<1>2. CASE SaveAll
  <2>1. Torn \notin Overrides
    BY TornAssumption DEF TornAssumption, Entries, Overrides
  <2>. QED
    BY <1>2, <2>1 DEF SaveAll, SaveCollect, OpenTemp, WriteTemp, RenameTemp, SaveReturn,
                      WholeInv, TypeOK, diskVars
<1>3. CASE Restart
  BY <1>3 DEF Restart, WholeInv, diskVars
<1>4. CASE Registration
  BY <1>4, <1>1 DEF Registration, RegisterSetting, SaveDefaults
<1>5. CASE Overlay
  BY <1>5, <1>1 DEF Overlay, Edit, ClearOverride, ResetSettingToDefault, ResetAllSettings,
                    ResetNames
<1>6. CASE LoadAll
  BY <1>6, <1>1 DEF LoadAll, LoadAtStart, LoadSettings, LoadFind, LoadStore, LoadStoreFreed,
                    LoadPending
<1>7. CASE UNCHANGED vars
  BY <1>7, <1>1 DEF vars
<1>. QED
  BY <1>2, <1>3, <1>4, <1>5, <1>6, <1>7 DEF Next

\* If no write fails silently, the config file is whole at every moment, crashes
\* and failures of the directory, the open and the rename included.
THEOREM FileStaysWhole == ~WriteFaults => (Spec => []FileIsWhole)
<1>. SUFFICES ASSUME ~WriteFaults PROVE Spec => []FileIsWhole
  OBVIOUS
<1>1. Init => TypeOK /\ WholeInv
  BY TypeInit, WholeInit
<1>2. TypeOK /\ WholeInv /\ [Next]_vars => TypeOK' /\ WholeInv'
  BY TypeStep, WholeStep
<1>3. WholeInv => FileIsWhole
  BY DEF WholeInv, FileIsWhole
<1>. QED
  BY <1>1, <1>2, <1>3, PTL DEF Spec

-----------------------------------------------------------------------------
(* The start and the save. *)

LEMMA LiveFrame ==
    ASSUME UNCHANGED <<registered, value, overridden>>
    PROVE  Live' = Live
BY DEF Live

LEMMA LiveOfRegistered ==
    ASSUME NEW n \in Names, n \in overridden, TypeOK
    PROVE  Live[n] = value[n]
BY DEF Live, TypeOK

LEMMA SaveInit == Init => SaveInv /\ LookupInv /\ WaitInv
BY DEF Init, SaveInv, LookupInv, WaitInv, NoLookup

\* Whoever is between two steps of LoadFromToml holds the mutex.
LEMMA LookingUp ==
    ASSUME LookupInv, NEW n \in Names, LoadFind(n) \/ LoadStore(n) \/ LoadStoreFreed(n) \/ LoadPending(n)
    PROVE  phase = "up" /\ saving = "no" /\ ~LoadStoreFreed(n)
<1>1. lookup[n] # "no"
  BY DEF LoadFind, LoadStore, LoadStoreFreed, LoadPending
<1>2. lookup # NoLookup
  BY <1>1 DEF NoLookup
<1>. QED
  BY <1>2 DEF LookupInv, LoadStoreFreed

LEMMA SaveStep ==
    ASSUME Orderly, TypeOK, SaveInv, LookupInv, [Next]_vars
    PROVE  SaveInv'
<1>1. CASE saving' = "no"
  BY <1>1 DEF SaveInv
<1>2. CASE SaveCollect
  <2>1. Live' = Live
    BY <1>2, LiveFrame DEF SaveCollect
  <2>. QED
    BY <1>2, <2>1 DEF SaveCollect, MaySave, SaveInv, Orderly
<1>3. CASE OpenTemp \/ WriteTemp \/ RenameTemp
  <2>1. Live' = Live
    BY <1>3, LiveFrame DEF OpenTemp, WriteTemp, RenameTemp, settingVars
  <2>. QED
    BY <1>3, <2>1 DEF OpenTemp, WriteTemp, RenameTemp, SaveInv, settingVars
<1>4. CASE Registration
  BY <1>4, <1>1 DEF Registration, RegisterSetting, SaveDefaults, MutexFree, SaveInv, Orderly, TypeOK
<1>5. CASE Overlay
  BY <1>5, <1>1 DEF Overlay, Edit, ClearOverride, ResetSettingToDefault, ResetAllSettings,
                    ResetNames, Request, OverlayIdle, MutexFree
<1>6. CASE LoadAtStart \/ LoadSettings
  BY <1>6, <1>1 DEF LoadAtStart, LoadSettings, MutexFree, OverlayIdle
<1>7. ASSUME NEW n \in Names, LoadFind(n) \/ LoadStore(n) \/ LoadStoreFreed(n) \/ LoadPending(n)
      PROVE  SaveInv'
  BY <1>7, <1>1, LookingUp DEF LoadFind, LoadStore, LoadStoreFreed, LoadPending
<1>8. CASE UNCHANGED vars
  <2>1. Live' = Live
    BY <1>8, LiveFrame DEF vars, settingVars
  <2>. QED
    BY <1>8, <2>1 DEF vars, settingVars, diskVars, SaveInv
<1>9. CASE SaveReturn \/ Restart
  BY <1>9, <1>1 DEF SaveReturn, Restart
<1>. QED
  BY <1>2, <1>3, <1>4, <1>5, <1>6, <1>7, <1>8, <1>9 DEF Next, SaveAll, LoadAll

LEMMA LookupStep ==
    ASSUME Orderly, TypeOK, BootInv, LookupInv, [Next]_vars
    PROVE  LookupInv'
<1>1. ASSUME NEW n \in Names, RegisterSetting(n) PROVE LookupInv'
  \* It registers for the first time, so LoadFromToml has not found it.
  <2>1. Replace(n) /\ n \notin registered /\ phase' = phase /\ saving' = saving
    BY <1>1 DEF RegisterSetting, Orderly
  <2>2. lookup' = lookup
    BY <2>1 DEF Replace, TypeOK
  <2>. QED
    BY <2>1, <2>2 DEF LookupInv, NoLookup
<1>2. CASE UNCHANGED <<phase, lookup, saving>>
  BY <1>2 DEF LookupInv, NoLookup
<1>3. CASE lookup' = NoLookup
  BY <1>3 DEF LookupInv, NoLookup
<1>4. CASE SaveAll
  <2>1. CASE SaveCollect
    BY <2>1, <1>3 DEF SaveCollect, MaySave, MutexFree, loadVars, NoLookup
  <2>2. CASE OpenTemp \/ WriteTemp \/ RenameTemp \/ SaveReturn
    <3>1. saving # "no" /\ lookup = NoLookup /\ lookup' = lookup
      BY <2>2 DEF OpenTemp, WriteTemp, RenameTemp, SaveReturn, LookupInv, loadVars
    <3>. QED
      BY <3>1, <1>3 DEF NoLookup
  <2>. QED
    BY <1>4, <2>1, <2>2 DEF SaveAll
<1>5. CASE Overlay
  BY <1>5, <1>2 DEF Overlay, Edit, ClearOverride, ResetSettingToDefault, ResetAllSettings,
                    ResetNames, loadVars
<1>6. CASE LoadAtStart
  BY <1>6, <1>3 DEF LoadAtStart, MutexFree, loadVars, NoLookup
<1>7. CASE LoadSettings
  BY <1>7 DEF LoadSettings, OverlayIdle, MutexFree, LookupInv
<1>8. ASSUME NEW n \in Names, LoadFind(n) \/ LoadStore(n) \/ LoadStoreFreed(n) \/ LoadPending(n)
      PROVE  LookupInv'
  <2>1. phase' = "up" /\ saving' = "no"
    BY <1>8, LookingUp DEF LoadFind, LoadStore, LoadStoreFreed, LoadPending
  <2>2. \A m \in Names : lookup'[m] # "freed"
    BY <1>8 DEF LoadFind, LoadStore, LoadStoreFreed, LoadPending, Done, LookupInv, TypeOK
  <2>. QED
    BY <2>1, <2>2 DEF LookupInv
<1>9. CASE Restart
  BY <1>9, <1>3 DEF Restart, NoLookup
<1>10. CASE SaveDefaults \/ UNCHANGED vars
  BY <1>10, <1>2 DEF SaveDefaults, vars, loadVars
<1>. QED
  BY <1>1, <1>4, <1>5, <1>6, <1>7, <1>8, <1>9, <1>10 DEF Next, Registration, LoadAll

LEMMA WaitStep ==
    ASSUME Orderly, TypeOK, BootInv, SaveInv, LookupInv, WaitInv, [Next]_vars
    PROVE  WaitInv'
<1>1. CASE UNCHANGED <<phase, registered, pending, file>>
  BY <1>1 DEF WaitInv, Parsed, CanWait, NoOverrides
<1>2. ASSUME NEW n \in Names, RegisterSetting(n) PROVE WaitInv'
  BY <1>2 DEF RegisterSetting, WaitInv, Parsed, NoOverrides, TypeOK, Entries, diskVars
<1>3. CASE RenameTemp
  <2>1. registered' = Names
    BY <1>3 DEF RenameTemp, SaveInv, settingVars
  <2>. QED
    BY <2>1 DEF WaitInv
<1>4. CASE LoadAtStart
  BY <1>4 DEF LoadAtStart, BootInv, WaitInv, Merge, Parsed, NoOverrides, settingVars, diskVars
<1>5. ASSUME NEW n \in Names, LoadPending(n) PROVE WaitInv'
  BY <1>5, LookingUp DEF LoadPending, WaitInv, Parsed, NoOverrides, TypeOK, Entries, settingVars, diskVars
<1>6. CASE Restart
  BY <1>6 DEF Restart, WaitInv
<1>7. CASE LoadAll /\ ~LoadAtStart /\ \A n \in Names : ~LoadPending(n)
  BY <1>1, <1>7 DEF LoadAll, LoadSettings, LoadFind, LoadStore, LoadStoreFreed, settingVars,
                    managerVars, diskVars
<1>8. CASE SaveAll /\ ~RenameTemp
  BY <1>1, <1>8 DEF SaveAll, SaveCollect, OpenTemp, WriteTemp, SaveReturn, settingVars, managerVars,
                    diskVars
<1>9. CASE Overlay
  BY <1>1, <1>9 DEF Overlay, Edit, ClearOverride, ResetSettingToDefault, ResetAllSettings,
                    ResetNames, managerVars, diskVars
<1>10. CASE SaveDefaults \/ UNCHANGED vars
  BY <1>1, <1>10 DEF SaveDefaults, vars, settingVars, managerVars, diskVars
<1>. QED
  BY <1>2, <1>3, <1>4, <1>5, <1>6, <1>7, <1>8, <1>9, <1>10 DEF Next, Registration

\* What every further argument rests on.
BaseInv == TypeOK /\ BootInv /\ SaveInv /\ LookupInv /\ WaitInv

LEMMA BaseInit == Init => BaseInv
BY TypeInit, BootInit, SaveInit DEF BaseInv

LEMMA BaseStep == Orderly /\ BaseInv /\ [Next]_vars => BaseInv'
BY TypeStep, BootStep, SaveStep, LookupStep, WaitStep DEF BaseInv

\* A setting that registers takes what the file holds for it.
LEMMA Registering ==
    ASSUME Orderly, BaseInv, NEW n \in Names, RegisterSetting(n)
    PROVE  /\ n \notin registered /\ phase = "up"
           /\ AtRegistration(n, pending[n]) = AtRegistration(n, Parsed[n])
<1>1. n \notin registered /\ phase = "up"
  BY DEF Orderly, RegisterSetting
<1>2. pending[n] = IF CanWait(Parsed[n]) THEN Parsed[n] ELSE None
  BY <1>1 DEF BaseInv, WaitInv
<1>. QED
  BY <1>1, <1>2, WaitingConverts

-----------------------------------------------------------------------------
(* What is saved takes effect. *)

\* The file's overrides are in effect for registered settings.
EffectInv ==
    phase = "up" =>
        \A n \in registered \ unsaved : AtRegistration(n, Parsed[n]) # None => n \in overridden

LEMMA EffectInit == Init => EffectInv
BY DEF Init, EffectInv

LEMMA EffectStep ==
    ASSUME Orderly, BaseInv, EffectInv, [Next]_vars
    PROVE  EffectInv'
<1>. USE DEF BaseInv
<1>1. ASSUME file' = file PROVE Parsed' = Parsed
  BY <1>1 DEF Parsed, NoOverrides
<1>2. CASE UNCHANGED <<phase, registered, unsaved, file>> /\ overridden \subseteq overridden'
  BY <1>1, <1>2 DEF EffectInv
<1>3. ASSUME NEW n \in Names, RegisterSetting(n) PROVE EffectInv'
  <2>1. AtRegistration(n, pending[n]) = AtRegistration(n, Parsed[n]) /\ phase = "up"
    BY <1>3, Registering
  <2>2. Parsed' = Parsed
    BY <1>1, <1>3 DEF RegisterSetting, diskVars
  <2>. QED
    BY <1>3, <2>1, <2>2 DEF RegisterSetting, EffectInv, TypeOK
<1>4. CASE SaveDefaults \/ OpenTemp \/ WriteTemp \/ SaveReturn
  BY <1>2, <1>4 DEF SaveDefaults, OpenTemp, WriteTemp, SaveReturn, settingVars, diskVars
<1>5. CASE Overlay
  <2>1. Parsed' = Parsed
    BY <1>1, <1>5 DEF Overlay, Edit, ClearOverride, ResetSettingToDefault, ResetAllSettings,
                      ResetNames, diskVars
  <2>. QED
    BY <1>5, <2>1 DEF Overlay, Edit, ClearOverride, ResetSettingToDefault, ResetAllSettings, ResetNames,
                      EffectInv, diskVars
<1>6. CASE SaveCollect
  <2>1. Parsed' = Parsed
    BY <1>1, <1>6 DEF SaveCollect, diskVars
  <2>. QED
    BY <1>6, <2>1 DEF SaveCollect, EffectInv
<1>7. CASE RenameTemp
  <2>1. CASE UNCHANGED file
    BY <1>2, <1>7, <2>1 DEF RenameTemp, settingVars
  <2>2. CASE file' = temp
    <3>1. registered = Names /\ temp \in {Live, Torn}
      BY <1>7 DEF RenameTemp, SaveInv
    <3>2. Live \in Overrides
      BY LiveType
    <3>3. \A n \in Names : Parsed'[n] \in {Live[n], None}
      BY <2>2, <3>1 DEF Parsed, NoOverrides
    <3>4. ASSUME NEW n \in Names, AtRegistration(n, Parsed'[n]) # None PROVE n \in overridden
      <4>1. Parsed'[n] \in Values \cup {None} /\ AtRegistration(n, Parsed'[n]) = Parsed'[n]
        BY <3>2, <3>3, SavedReads DEF Overrides
      <4>2. Live[n] # None
        BY <3>3, <3>4, <4>1
      <4>. QED
        BY <4>2 DEF Live
    <3>. QED
      BY <1>7, <3>1, <3>4 DEF RenameTemp, EffectInv, settingVars
  <2>. QED
    BY <1>7, <2>1, <2>2 DEF RenameTemp
<1>8. CASE LoadAtStart
  BY <1>8 DEF LoadAtStart, EffectInv, BootInv, settingVars
<1>9. CASE LoadSettings \/ \E n \in Names : LoadFind(n) \/ LoadStore(n) \/ LoadStoreFreed(n) \/ LoadPending(n)
  BY <1>2, <1>9 DEF LoadSettings, LoadFind, LoadStore, LoadStoreFreed, LoadPending, settingVars, diskVars
<1>10. CASE Restart
  BY <1>10 DEF Restart, EffectInv
<1>11. CASE UNCHANGED vars
  BY <1>2, <1>11 DEF vars, settingVars, diskVars
<1>. QED
  BY <1>3, <1>4, <1>5, <1>6, <1>7, <1>8, <1>9, <1>10, <1>11 DEF Next, Registration, SaveAll, LoadAll

\* An override that the file keeps is in effect once its setting has registered, unless
\* its entry is of a type the setting cannot take: whatever fails in saves, wherever the
\* game crashes and wherever settings register during a Load Settings, as long as no
\* save comes before the registrations and no setting registers twice.
THEOREM SavedTakesEffect == Orderly => (Spec => []SavedIsInEffect)
<1>. SUFFICES ASSUME Orderly PROVE Spec => []SavedIsInEffect
  OBVIOUS
<1>1. Init => BaseInv /\ EffectInv
  BY BaseInit, EffectInit
<1>2. BaseInv /\ EffectInv /\ [Next]_vars => BaseInv' /\ EffectInv'
  BY BaseStep, EffectStep
<1>3. EffectInv => SavedIsInEffect
  BY DEF EffectInv, SavedIsInEffect, Parsed
<1>. QED
  BY <1>1, <1>2, <1>3, PTL DEF Spec

-----------------------------------------------------------------------------
(* What is green is saved. *)

\* Marked as saved means in the file, or in the table on its way to the file.
GreenInv ==
    saving \in {"no", "renamed"} =>
        \A n \in overridden \ unsaved : value[n] \in Readings(n, Parsed[n])

LEMMA GreenInit == Init => GreenInv
BY DEF Init, GreenInv

LEMMA GreenStep ==
    ASSUME Orderly, ~DiskFaults, BaseInv, WholeInv, GreenInv, [Next]_vars
    PROVE  GreenInv'
<1>. USE DEF BaseInv
<1>1. ASSUME file' = file PROVE Parsed' = Parsed
  BY <1>1 DEF Parsed, NoOverrides
<1>2. ASSUME UNCHANGED <<value, overridden, unsaved, file>>,
             saving' \in {"no", "renamed"} => saving \in {"no", "renamed"}
      PROVE  GreenInv'
  BY <1>1, <1>2 DEF GreenInv
<1>3. ASSUME NEW n \in Names, RegisterSetting(n) PROVE GreenInv'
  <2>1. saving = "no"
    BY <1>3 DEF RegisterSetting, Orderly, SaveInv
  <2>2. AtRegistration(n, pending[n]) \in Readings(n, Parsed[n])
    BY <1>3, Registering DEF Readings
  <2>3. Parsed' = Parsed
    BY <1>1, <1>3 DEF RegisterSetting, diskVars
  <2>. QED
    BY <1>3, <2>1, <2>2, <2>3 DEF RegisterSetting, GreenInv, TypeOK
<1>4. CASE SaveDefaults \/ SaveReturn
  BY <1>2, <1>4 DEF SaveDefaults, SaveReturn, settingVars, diskVars
<1>5. CASE OpenTemp \/ WriteTemp
  BY <1>5 DEF OpenTemp, WriteTemp, GreenInv
<1>6. CASE Overlay
  <2>1. Parsed' = Parsed
    BY <1>1, <1>6 DEF Overlay, Edit, ClearOverride, ResetSettingToDefault, ResetAllSettings,
                      ResetNames, diskVars
  <2>. QED
    BY <1>6, <2>1 DEF Overlay, Edit, ClearOverride, ResetSettingToDefault, ResetAllSettings, ResetNames,
              GreenInv, TypeOK, Request, OverlayIdle, MutexFree, Resettable
<1>7. CASE SaveCollect
  BY <1>7 DEF SaveCollect, GreenInv
<1>8. CASE RenameTemp
  <2>1. registered = Names /\ file' = Live /\ file' # Torn
    BY <1>8 DEF RenameTemp, SaveInv, WholeInv
  <2>2. Parsed' = Live
    BY <2>1 DEF Parsed
  <2>3. ASSUME NEW n \in overridden PROVE value[n] \in Readings(n, Live[n])
    <3>1. n \in Names /\ Live[n] = value[n] /\ value[n] \in Values
      BY LiveOfRegistered DEF TypeOK
    <3>. QED
      BY <3>1, SavedReads DEF Readings
  <2>. QED
    BY <1>8, <2>2, <2>3 DEF RenameTemp, GreenInv, settingVars
<1>9. CASE LoadAtStart \/ LoadSettings
  BY <1>2, <1>9 DEF LoadAtStart, LoadSettings, settingVars, diskVars
<1>10. ASSUME NEW n \in Names, LoadFind(n) \/ LoadPending(n) PROVE GreenInv'
  BY <1>2, <1>10 DEF LoadFind, LoadPending, settingVars, diskVars
<1>11. ASSUME NEW n \in Names, LoadStore(n) \/ LoadStoreFreed(n) PROVE GreenInv'
  <2>1. LoadStore(n) /\ saving = "no"
    BY <1>11, LookingUp
  <2>2. Parsed' = Parsed
    BY <1>1, <2>1 DEF LoadStore, diskVars
  <2>3. OnceRegistered(n, Parsed[n]) \in Readings(n, Parsed[n])
    BY DEF Readings
  <2>. QED
    BY <2>1, <2>2, <2>3 DEF LoadStore, GreenInv, TypeOK
<1>12. CASE Restart
  BY <1>12 DEF Restart, GreenInv
<1>13. CASE UNCHANGED vars
  BY <1>2, <1>13 DEF vars, settingVars, diskVars
<1>. QED
  BY <1>3, <1>4, <1>5, <1>6, <1>7, <1>8, <1>9, <1>10, <1>11, <1>12, <1>13
     DEF Next, Registration, SaveAll, LoadAll

\* With disks that do not fail and orderly saves, a setting shown in green is in the
\* file, with an entry that is read as the value it has, crashes and restarts included.
THEOREM GreenMeansSaved ==
    Orderly /\ ~DiskFaults /\ ~WriteFaults => (Spec => []GreenIsSaved)
<1>. SUFFICES ASSUME Orderly, ~DiskFaults, ~WriteFaults PROVE Spec => []GreenIsSaved
  OBVIOUS
<1>1. Init => BaseInv /\ WholeInv /\ GreenInv
  BY BaseInit, WholeInit, GreenInit
<1>2. BaseInv /\ WholeInv /\ GreenInv /\ [Next]_vars => BaseInv' /\ WholeInv' /\ GreenInv'
  BY BaseStep, WholeStep, GreenStep DEF BaseInv
<1>3. GreenInv => GreenIsSaved
  BY DEF GreenInv, GreenIsSaved, Parsed
<1>. QED
  BY <1>1, <1>2, <1>3, PTL DEF Spec

-----------------------------------------------------------------------------
(* The refinement. *)

LEMMA WishFrame ==
    ASSUME UNCHANGED <<phase, registered, value, overridden, pending>>,
           phase = "boot" => UNCHANGED file
    PROVE  Wish' = Wish
<1>1. Live' = Live
  BY LiveFrame
<1>2. phase = "boot" => Parsed' = Parsed
  BY DEF Parsed, NoOverrides
<1>. QED
  BY <1>1, <1>2 DEF Wish

LEMMA KeptFrame ==
    ASSUME UNCHANGED file
    PROVE  Kept' = Kept /\ Parsed' = Parsed
<1>1. Parsed' = Parsed
  BY DEF Parsed, NoOverrides
<1>. QED
  BY <1>1 DEF Kept

\* What is kept may come back at registration, and is an override or none.
LEMMA KeptReadings ==
    ASSUME TypeOK, NEW n \in Names
    PROVE  /\ Kept[n] = Readings(n, Parsed[n])
           /\ Kept[n] \in Store!Readings
           /\ AtRegistration(n, Parsed[n]) \in Kept[n]
           /\ OnceRegistered(n, Parsed[n]) \in Kept[n]
           /\ AtRegistration(n, Parsed[n]) \in Values \cup {None}
           /\ OnceRegistered(n, Parsed[n]) \in Values \cup {None}
<1>1. Parsed[n] \in Values \cup Foreign \cup {None}
  BY ParsedType DEF Entries
<1>2. Kept[n] = Readings(n, Parsed[n])
  BY DEF Kept
<1>3. /\ Readings(n, Parsed[n]) \subseteq Values \cup {None}
      /\ AtRegistration(n, Parsed[n]) \in Values \cup {None}
      /\ OnceRegistered(n, Parsed[n]) \in Values \cup {None}
  BY <1>1, EntryTypes
<1>4. AtRegistration(n, Parsed[n]) \in Readings(n, Parsed[n]) /\ OnceRegistered(n, Parsed[n]) \in Readings(n, Parsed[n])
  BY DEF Readings
<1>. QED
  BY <1>2, <1>3, <1>4 DEF Store!Readings

LEMMA ImplementsInit == Init => Store!Init
<1>. SUFFICES ASSUME Init PROVE Store!Init
  OBVIOUS
<1>1. TypeOK
  BY TypeInit
<1>2. Kept \in [Names -> Store!Readings]
  BY <1>1, KeptReadings DEF Kept
<1>3. \A n \in Names : Wish[n] = AtRegistration(n, Parsed[n])
  BY DEF Init, Wish
<1>4. Wish \in Store!Overrides /\ \A n \in Names : Wish[n] \in Kept[n]
  BY <1>1, <1>3, KeptReadings DEF Wish, Store!Overrides
<1>. QED
  BY <1>2, <1>4 DEF Init, Store!Init, Store!NoOverrides, NoOverrides

LEMMA StutterFrame ==
    ASSUME UNCHANGED <<phase, registered, value, overridden, pending, defaults, file, edits>>
    PROVE  UNCHANGED Store!vars
BY WishFrame, KeptFrame DEF Store!vars

\* A step that keeps every setting's override, the file and the rest is none of the store's.
LEMMA PointwiseStutter ==
    ASSUME \A m \in Names : Wish'[m] = Wish[m], UNCHANGED <<defaults, file, edits>>
    PROVE  UNCHANGED Store!vars
<1>1. Wish = [m \in Names |-> Wish[m]] /\ Wish' = [m \in Names |-> Wish'[m]]
  BY DEF Wish
<1>2. Wish' = Wish
  BY <1>1
<1>. QED
  BY <1>2, KeptFrame DEF Store!vars

LEMMA RegisterStutters ==
    ASSUME BaseInv, NEW n \in Names, RegisterSetting(n), Orderly
    PROVE  UNCHANGED Store!vars
<1>. USE DEF BaseInv
<1>1. n \notin registered /\ phase = "up" /\ phase' = "up"
  BY Registering DEF RegisterSetting
<1>2. ASSUME NEW m \in Names PROVE Wish'[m] = Wish[m]
  <2>1. CASE m = n
    <3>1. Wish[n] = AtRegistration(n, pending[n])
      BY <1>1 DEF Wish
    <3>2. Wish'[n] = Live'[n]
      BY <1>1 DEF Wish, RegisterSetting
    <3>3. Live'[n] = AtRegistration(n, pending[n])
      BY DEF Live, RegisterSetting, TypeOK
    <3>. QED
      BY <2>1, <3>1, <3>2, <3>3
  <2>2. CASE m # n
    <3>1. Live'[m] = Live[m]
      BY <2>2 DEF Live, RegisterSetting, TypeOK
    <3>2. pending'[m] = pending[m] /\ (m \in registered' <=> m \in registered)
      BY <2>2 DEF RegisterSetting, TypeOK, Entries
    <3>. QED
      BY <1>1, <3>1, <3>2 DEF Wish
  <2>. QED
    BY <2>1, <2>2
<1>. QED
  BY <1>2, PointwiseStutter DEF RegisterSetting, diskVars

LEMMA EditsImplement ==
    ASSUME BaseInv, NEW n \in Names, NEW v \in Values \cup {None},
           Request, phase = "up", UNCHANGED <<phase, registered, managerVars, file>>,
           n \in registered,
           \A m \in Names : Live'[m] = IF m = n THEN v ELSE Live[m]
    PROVE  IF v = None THEN Store!Clear(n) ELSE Store!Edit(n, v)
<1>1. Wish' = [Wish EXCEPT ![n] = v]
  BY DEF Wish, managerVars
<1>. QED
  BY <1>1, KeptFrame DEF Store!Clear, Store!Edit, Store!Request, Request, managerVars

LEMMA OverlayImplements ==
    ASSUME BaseInv, Overlay
    PROVE  Store!Next
<1>. USE DEF BaseInv
<1>1. ASSUME NEW n \in Names, NEW v \in Values, Edit(n, v) PROVE Store!Edit(n, v)
  <2>1. \A m \in Names : Live'[m] = IF m = n THEN v ELSE Live[m]
    BY <1>1 DEF Edit, Live, TypeOK
  <2>2. v # None
    BY SettingsAssumption DEF SettingsAssumption
  <2>. QED
    BY <1>1, <2>1, <2>2, EditsImplement DEF Edit, Request, OverlayIdle, diskVars
<1>2. ASSUME NEW n \in Names, ClearOverride(n) PROVE Store!Clear(n)
  <2>1. \A m \in Names : Live'[m] = IF m = n THEN None ELSE Live[m]
    BY <1>2 DEF ClearOverride, Live, TypeOK
  <2>. QED
    BY <1>2, <2>1, EditsImplement DEF ClearOverride, Request, OverlayIdle, diskVars
<1>3. ASSUME NEW n \in Names, ResetSettingToDefault(n) PROVE Store!Edit(n, defaults[n])
  <2>1. n \in registered /\ defaults[n] \in Values /\ defaults[n] # None
    BY <1>3 DEF ResetSettingToDefault, Resettable, TypeOK, Overrides
  <2>2. \A m \in Names : Live'[m] = IF m = n THEN defaults[n] ELSE Live[m]
    BY <1>3, <2>1 DEF ResetSettingToDefault, ResetNames, Live, TypeOK
  <2>. QED
    BY <1>3, <2>1, <2>2, EditsImplement
       DEF ResetSettingToDefault, ResetNames, Request, OverlayIdle, diskVars
<1>4. ASSUME ResetAllSettings PROVE Store!ResetAll
  <2>1. phase = "up" /\ UNCHANGED <<phase, registered, pending, defaults, file>> /\ Request
    BY <1>4 DEF ResetAllSettings, ResetNames, Request, OverlayIdle, managerVars, diskVars
  <2>2. ASSUME NEW m \in Names
        PROVE  Wish'[m] = IF defaults[m] # None THEN defaults[m] ELSE Wish[m]
    <3>1. m \in Resettable <=> defaults[m] # None
      BY DEF Resettable, BootInv
    <3>2. CASE m \in Resettable
      BY <1>4, <2>1, <3>1, <3>2 DEF ResetAllSettings, ResetNames, Wish, Live, Resettable
    <3>3. CASE m \notin Resettable
      BY <1>4, <2>1, <3>1, <3>3 DEF ResetAllSettings, ResetNames, Wish, Live
    <3>. QED
      BY <3>1, <3>2, <3>3
  <2>3. Wish' = [m \in Names |-> IF defaults[m] # None THEN defaults[m] ELSE Wish[m]]
    <3>1. Wish' = [m \in Names |-> Wish'[m]]
      BY DEF Wish
    <3>. QED
      BY <2>2, <3>1
  <2>. QED
    BY <2>1, <2>3, KeptFrame DEF Store!ResetAll, Store!Request, Request, Store!Merge
<1>5. \A n \in Names : defaults[n] # None => defaults[n] \in Values
  BY DEF TypeOK, Overrides
<1>. QED
  <2>1. ASSUME NEW n \in Names, NEW v \in Values, Edit(n, v) PROVE Store!Next
    BY <2>1, <1>1 DEF Store!Next
  <2>2. ASSUME NEW n \in Names, ClearOverride(n) PROVE Store!Next
    BY <2>2, <1>2 DEF Store!Next
  <2>3. ASSUME NEW n \in Names, ResetSettingToDefault(n) PROVE Store!Next
    <3>1. defaults[n] \in Values
      BY <2>3, <1>5 DEF ResetSettingToDefault, Resettable
    <3>. QED
      BY <2>3, <3>1, <1>3 DEF Store!Next
  <2>. QED
    BY <2>1, <2>2, <2>3, <1>4 DEF Overlay, Store!Next

LEMMA RenameImplements ==
    ASSUME BaseInv, WholeInv, RenameTemp
    PROVE  Store!Save \/ UNCHANGED Store!vars
<1>. USE DEF BaseInv
<1>1. CASE UNCHANGED file
  BY <1>1, StutterFrame DEF RenameTemp, settingVars, managerVars
<1>2. CASE file' = temp
  <2>1. phase = "up" /\ registered = Names /\ file' = Live /\ file' # Torn
    BY <1>2 DEF RenameTemp, SaveInv, WholeInv
  <2>2. Wish = [n \in Names |-> Live[n]]
    BY <2>1 DEF Wish
  <2>3. Wish = Live
    BY <2>2 DEF Live
  <2>4. Wish' = Wish
    BY <2>1, WishFrame DEF RenameTemp, settingVars, managerVars
  <2>5. Parsed' = Live
    BY <2>1 DEF Parsed
  <2>6. ASSUME NEW n \in Names PROVE Readings(n, Live[n]) = {Live[n]}
    <3>1. Live[n] \in Values \cup {None}
      BY LiveType DEF Overrides
    <3>. QED
      BY <3>1, SavedReads DEF Readings
  <2>7. Kept' = [n \in Names |-> {Wish[n]}]
    BY <2>3, <2>5, <2>6 DEF Kept
  <2>. QED
    BY <2>4, <2>7 DEF RenameTemp, Store!Save, managerVars
<1>. QED
  BY <1>1, <1>2 DEF RenameTemp

LEMMA LoadAtStartStutters ==
    ASSUME BaseInv, LoadAtStart
    PROVE  UNCHANGED Store!vars
<1>. USE DEF BaseInv
<1>1. registered = {} /\ registered' = {} /\ pending = NoOverrides /\ phase = "boot" /\ phase' = "up"
  BY DEF LoadAtStart, BootInv, settingVars
<1>2. ASSUME NEW n \in Names PROVE Wish'[n] = Wish[n]
  <2>1. pending'[n] = IF CanWait(Parsed[n]) THEN Parsed[n] ELSE None
    BY <1>1 DEF LoadAtStart, Merge, NoOverrides
  <2>2. Wish[n] = AtRegistration(n, Parsed[n]) /\ Wish'[n] = AtRegistration(n, pending'[n])
    BY <1>1 DEF Wish
  <2>. QED
    BY <2>1, <2>2, WaitingConverts
<1>. QED
  BY <1>2, PointwiseStutter DEF LoadAtStart, diskVars

\* An entry that is let wait was waiting, or its setting has registered with it.
LEMMA LoadPendingStutters ==
    ASSUME BaseInv, NEW n \in Names, LoadPending(n)
    PROVE  UNCHANGED Store!vars
<1>. USE DEF BaseInv
<1>1. phase = "up" /\ phase' = "up"
  BY LookingUp DEF LoadPending
<1>2. Live' = Live
  BY LiveFrame DEF LoadPending, settingVars
<1>3. ASSUME NEW m \in Names \ registered PROVE pending'[m] = pending[m]
  BY <1>1 DEF LoadPending, WaitInv, TypeOK, Entries
<1>4. ASSUME NEW m \in Names PROVE Wish'[m] = Wish[m]
  BY <1>1, <1>2, <1>3 DEF Wish, LoadPending, settingVars
<1>. QED
  BY <1>4, PointwiseStutter DEF LoadPending, diskVars

LEMMA LoadStoreImplements ==
    ASSUME BaseInv, NEW n \in Names, LoadStore(n)
    PROVE  Store!Load
<1>. USE DEF BaseInv
<1>. DEFINE read == OnceRegistered(n, Parsed[n])
            over == [m \in Names |-> IF m = n THEN read ELSE None]
<1>1. /\ phase = "up" /\ phase' = "up" /\ n \in registered
      /\ UNCHANGED <<registered, pending, defaults, file, edits>>
  BY LookingUp DEF LoadStore, TypeOK, managerVars, diskVars
<1>2. read \in Kept[n] /\ read \in Values \cup {None}
  BY KeptReadings
<1>. HIDE DEF read
<1>3. over \in Store!Overrides /\ \A m \in Names : over[m] \in Kept[m] \cup {None}
  BY <1>2 DEF Store!Overrides
<1>4. ASSUME NEW m \in Names
      PROVE  Wish'[m] = IF over[m] # None THEN over[m] ELSE Wish[m]
  <2>1. Live'[m] = IF over[m] # None THEN over[m] ELSE Live[m]
    BY <1>1 DEF LoadStore, Live, TypeOK, read
  <2>2. over[m] # None => m = n
    OBVIOUS
  <2>. QED
    BY <1>1, <2>1, <2>2 DEF Wish
<1>5. Wish' = Store!Merge(over, Wish)
  <2>1. Wish' = [m \in Names |-> Wish'[m]]
    BY DEF Wish
  <2>. QED
    BY <1>4, <2>1 DEF Store!Merge
<1>. QED
  BY <1>1, <1>3, <1>5, KeptFrame DEF Store!Load

LEMMA RestartImplements ==
    ASSUME BaseInv, Restart
    PROVE  Store!Restart
<1>1. UNCHANGED <<file, edits>> /\ phase' = "boot"
  BY DEF Restart, diskVars
<1>2. Kept' = Kept /\ Parsed' = Parsed
  BY <1>1, KeptFrame
<1>3. \A n \in Names : Wish'[n] = AtRegistration(n, Parsed[n])
  BY <1>1, <1>2 DEF Wish
<1>4. Wish' \in Store!Overrides /\ \A n \in Names : Wish'[n] \in Kept[n]
  <2>1. Wish' = [n \in Names |-> Wish'[n]]
    BY DEF Wish
  <2>. QED
    BY <1>3, <2>1, KeptReadings DEF Store!Overrides, BaseInv
<1>. QED
  BY <1>1, <1>2, <1>4 DEF Restart, Store!Restart, Store!NoOverrides, NoOverrides

LEMMA StepImplements ==
    ASSUME Orderly, BaseInv, WholeInv, BaseInv', [Next]_vars
    PROVE  Store!Next \/ UNCHANGED Store!vars
<1>1. CASE SaveDefaults
  <2>1. Wish' = Wish /\ Kept' = Kept
    BY <1>1, WishFrame, KeptFrame DEF SaveDefaults, settingVars, diskVars
  <2>2. defaults' \in Store!Overrides
    BY DEF BaseInv, TypeOK, Overrides, Store!Overrides
  <2>. QED
    BY <1>1, <2>1, <2>2 DEF SaveDefaults, Store!Next, Store!LearnDefaults
<1>2. ASSUME NEW n \in Names, RegisterSetting(n) PROVE UNCHANGED Store!vars
  BY <1>2, RegisterStutters
<1>3. CASE Overlay
  BY <1>3, OverlayImplements
<1>4. CASE SaveCollect \/ OpenTemp \/ WriteTemp \/ SaveReturn
  BY <1>4, StutterFrame
     DEF SaveCollect, OpenTemp, WriteTemp, SaveReturn, settingVars, managerVars, diskVars
<1>5. CASE RenameTemp
  BY <1>5, RenameImplements DEF Store!Next
<1>6. CASE LoadAtStart
  BY <1>6, LoadAtStartStutters
<1>7. ASSUME NEW n \in Names, LoadFind(n) PROVE UNCHANGED Store!vars
  BY <1>7, StutterFrame DEF LoadFind, settingVars, managerVars, diskVars
<1>8. ASSUME NEW n \in Names, LoadStore(n) \/ LoadStoreFreed(n) PROVE Store!Next
  <2>1. LoadStore(n)
    BY <1>8, LookingUp DEF BaseInv
  <2>. QED
    BY <2>1, LoadStoreImplements DEF Store!Next
<1>9. ASSUME NEW n \in Names, LoadPending(n) PROVE UNCHANGED Store!vars
  BY <1>9, LoadPendingStutters
<1>10. CASE Restart
  BY <1>10, RestartImplements DEF Store!Next
<1>11. CASE UNCHANGED vars
  BY <1>11, StutterFrame DEF vars, settingVars, managerVars, diskVars
<1>12. CASE LoadSettings
  BY <1>12, StutterFrame DEF LoadSettings, settingVars, managerVars, diskVars
<1>. QED
  BY <1>1, <1>2, <1>3, <1>4, <1>5, <1>6, <1>7, <1>8, <1>9, <1>10, <1>11, <1>12
     DEF Next, Registration, SaveAll, LoadAll

\* The settings manager, the config store and the file together implement the
\* abstract store: whatever fails except a silent write, and wherever the game
\* crashes, no override is lost or invented.
THEOREM StoreImplemented == Orderly /\ ~WriteFaults => (Spec => ImplementsStore)
<1>. SUFFICES ASSUME Orderly, ~WriteFaults PROVE Spec => Store!Spec
  BY DEF ImplementsStore
<1>1. Init => BaseInv /\ WholeInv
  BY BaseInit, WholeInit
<1>2. BaseInv /\ WholeInv /\ [Next]_vars => BaseInv' /\ WholeInv'
  BY BaseStep, WholeStep DEF BaseInv
<1>3. Init => Store!Init
  BY ImplementsInit
<1>4. BaseInv /\ WholeInv /\ BaseInv' /\ [Next]_vars => [Store!Next]_Store!vars
  BY StepImplements
<1>. QED
  BY <1>1, <1>2, <1>3, <1>4, PTL DEF Spec, Store!Spec

=============================================================================
