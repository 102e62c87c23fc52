---------------------------- MODULE StartupProofs ----------------------------
(***************************************************************************)
(* Proofs about Startup, for any sets of patches and of config files and   *)
(* any bounds: type correctness with the place of the config store's       *)
(* mutex, that an orderly unload leaves nothing of the library behind, and *)
(* that the start-up, with the saves and the migration, keeps the promise  *)
(* of Preferences while nothing fails and the user waits for it.           *)
(***************************************************************************)
EXTENDS Startup, TLAPS

\* The actions without a parameter, and all of Next.
LEMMA NextIsOneOf ==
    Next <=>
        \/ Peek \/ SkipMigration \/ WriteMigrated \/ RenameMigrated \/ BeginRegister \/ Registered
        \/ LoadAll \/ InstallHooks \/ BeginLoadPatches \/ EndLoadPatches \/ EnterLoop \/ EndReinstall
        \/ Quit \/ RegisterPatch \/ AskSave \/ LoadSettings
        \/ SaveRegisters \/ SaveLock \/ SaveCollect \/ SaveWrite \/ SaveRename \/ SaveFails
        \/ BeginDetach \/ PostQuit \/ Unload \/ Restart
        \/ \E p \in Patches :
            \/ LoadPatch(p) \/ LoadPatchThrows(p) \/ EnsureEnabled(p) \/ BeginReinstall(p)
            \/ TogglePatch(p) \/ ChangePatchSetting(p) \/ DetachPatch(p)
        \/ \E x \in Options : SetOption(x)
BY Zenon DEF Next, HookThread, User, SaveStep, Detach

LEMMA BlankIsTable == Blank \in Tables
BY DEF Blank, Tables

LEMMA OffIsTyped == Off \in [Prefs -> BOOLEAN]
BY DEF Off

LEMMA TypeInit == Init => TypeOK
<1> SUFFICES ASSUME Init PROVE TypeOK
  OBVIOUS
<1>1. FilesTyped
  BY BlankIsTable, FileAssumption DEF Init, FileAssumption, FilesTyped
<1>2. SwitchesTyped
  BY OffIsTyped DEF Init, SwitchesTyped
<1>3. ManagerTyped /\ PlacesTyped
  BY DEF Init, ManagerTyped, PlacesTyped
<1>4. CountsTyped
  BY StartupAssumption DEF Init, CountsTyped, StartupAssumption
<1>5. MutexFollows /\ LoadingHasEntries
  BY DEF Init, MutexFollows, LoadingHasEntries
<1>6. QED
  BY <1>1, <1>2, <1>3, <1>4, <1>5 DEF TypeOK

\* The files and the tables in memory.
LEMMA FilesStep == FilesTyped /\ SwitchesTyped /\ [Next]_vars => FilesTyped'
<1> SUFFICES ASSUME FilesTyped, SwitchesTyped, [Next]_vars PROVE FilesTyped'
  OBVIOUS
<1> USE DEF FilesTyped
<1>1. CASE WriteMigrated
  BY <1>1 DEF WriteMigrated, managerVars, saveVars, NeedsMigration
<1>2. CASE RenameMigrated
  BY <1>2 DEF RenameMigrated, saveVars
<1>3. CASE BeginLoadPatches
  BY <1>3, BlankIsTable DEF BeginLoadPatches, diskVars, saveVars
<1>4. CASE SaveCollect
  <2>1. root' \in Tables
    BY <1>4 DEF SaveCollect, Tables, SwitchesTyped
  <2>2. QED
    BY <1>4, <2>1 DEF SaveCollect, diskVars, threadVars
<1>5. CASE SaveWrite
  BY <1>5 DEF SaveWrite, threadVars
<1>6. CASE SaveRename
  BY <1>6 DEF SaveRename, threadVars
<1>7. CASE Restart
  BY <1>7, BlankIsTable DEF Restart, diskVars
<1>8. CASE UNCHANGED <<ini, toml, temp, plan, root>>
  BY <1>8
<1>9. QED
  BY <1>1, <1>2, <1>3, <1>4, <1>5, <1>6, <1>7, <1>8, NextIsOneOf
  DEF vars, diskVars, threadVars, saveVars, managerVars, detachVars, Peek, SkipMigration, BeginRegister, BeginRegistering, Registered,
      LoadAll, InstallHooks, EndLoadPatches, EnterLoop, EndReinstall, Quit, RegisterPatch, AskSave,
      LoadSettings, SaveRegisters, SaveLock, SaveFails, BeginDetach, PostQuit, Unload, LoadPatch, LoadPatchThrows, EnsureEnabled,
      BeginReinstall, TogglePatch, ChangePatchSetting, DetachPatch, SetOption

\* The switches in memory.
LEMMA SwitchesStep ==
    FilesTyped /\ LoadingHasEntries /\ SwitchesTyped /\ ManagerTyped /\ [Next]_vars => SwitchesTyped'
<1> SUFFICES ASSUME FilesTyped, LoadingHasEntries, SwitchesTyped, ManagerTyped, [Next]_vars
             PROVE SwitchesTyped'
  OBVIOUS
<1> USE DEF SwitchesTyped
<1>1. CASE Peek
  BY <1>1 DEF Peek
<1>2. CASE LoadAll \/ LoadSettings
  <2>1. OptionsRead \in [Prefs -> BOOLEAN]
    BY DEF OptionsRead, FilesTyped, Tables
  <2>2. QED
    BY <1>2, <2>1 DEF LoadAll, LoadSettings, threadVars
<1>3. ASSUME NEW p \in Patches, LoadPatch(p) \/ LoadPatchThrows(p) \/ EnsureEnabled(p) PROVE SwitchesTyped'
  <2>1. CASE LoadPatch(p)
    <3>1. plan[p] \in BOOLEAN
      BY <2>1 DEF LoadPatch, Goto, FilesTyped, LoadingHasEntries, Tables, Prefs
    <3>2. QED
      BY <2>1, <3>1 DEF LoadPatch
  <2>2. CASE LoadPatchThrows(p)
    BY <2>2 DEF LoadPatchThrows
  <2>3. CASE EnsureEnabled(p)
    BY <2>3 DEF EnsureEnabled
  <2>4. QED
    BY <1>3, <2>1, <2>2, <2>3
<1>4. ASSUME NEW p \in Patches, BeginReinstall(p) PROVE SwitchesTyped'
  BY <1>4 DEF BeginReinstall
<1>5. CASE EndReinstall
  BY <1>5 DEF EndReinstall
<1>6. ASSUME NEW p \in Patches, TogglePatch(p) \/ DetachPatch(p) PROVE SwitchesTyped'
  BY <1>6 DEF TogglePatch, DetachPatch, threadVars
<1>7. ASSUME NEW x \in Options, SetOption(x) PROVE SwitchesTyped'
  BY <1>7 DEF SetOption, threadVars
<1>8. CASE Restart
  BY <1>8, OffIsTyped DEF Restart
<1>9. CASE UNCHANGED <<on, busy>>
  BY <1>9
<1>10. QED
  BY <1>1, <1>2, <1>3, <1>4, <1>5, <1>6, <1>7, <1>8, <1>9, NextIsOneOf
  DEF vars, threadVars, managerVars, SkipMigration, WriteMigrated, RenameMigrated, BeginRegister,
      BeginRegistering, Registered, InstallHooks, BeginLoadPatches, EndLoadPatches, EnterLoop, Quit,
      RegisterPatch, AskSave, SaveRegisters, SaveLock, SaveCollect, SaveWrite, SaveRename, SaveFails, BeginDetach,
      PostQuit, Unload, ChangePatchSetting

\* The manager, and what is noted of its patches.
LEMMA ManagerStep == ManagerTyped /\ [Next]_vars => ManagerTyped'
<1> SUFFICES ASSUME ManagerTyped, [Next]_vars PROVE ManagerTyped'
  OBVIOUS
<1> USE DEF ManagerTyped
<1>1. CASE BeginRegister \/ SaveRegisters
  BY <1>1 DEF BeginRegister, SaveRegisters, BeginRegistering, threadVars, detachVars
<1>2. CASE RegisterPatch
  BY <1>2 DEF RegisterPatch, threadVars, detachVars
<1>3. CASE BeginLoadPatches
  BY <1>3 DEF BeginLoadPatches, managerVars, detachVars
<1>4. ASSUME NEW p \in Patches, LoadPatch(p) \/ LoadPatchThrows(p) \/ EnsureEnabled(p) \/ BeginReinstall(p) PROVE ManagerTyped'
  BY <1>4 DEF LoadPatch, LoadPatchThrows, EnsureEnabled, BeginReinstall, detachVars
<1>5. CASE EndLoadPatches
  BY <1>5 DEF EndLoadPatches, managerVars, detachVars
<1>6. ASSUME NEW p \in Patches, ChangePatchSetting(p) \/ TogglePatch(p) \/ DetachPatch(p) PROVE ManagerTyped'
  BY <1>6 DEF ChangePatchSetting, TogglePatch, DetachPatch, threadVars, detachVars
<1>7. CASE BeginDetach
  BY <1>7 DEF BeginDetach, threadVars
<1>8. CASE Restart
  BY <1>8 DEF Restart
<1>9. CASE UNCHANGED <<registering, found, fromConfig, todo, pending, leaving, left>>
  BY <1>9
<1>10. QED
  BY <1>1, <1>2, <1>3, <1>4, <1>5, <1>6, <1>7, <1>8, <1>9, NextIsOneOf
  DEF vars, threadVars, managerVars, detachVars, Peek, SkipMigration, WriteMigrated, RenameMigrated, Registered,
      LoadAll, InstallHooks, EnterLoop, EndReinstall, Quit, SetOption, AskSave, LoadSettings,
      SaveLock, SaveCollect, SaveWrite, SaveRename, SaveFails, PostQuit, Unload

\* Where the threads are.
LEMMA PlacesStep == PlacesTyped /\ [Next]_vars => PlacesTyped'
<1> SUFFICES ASSUME PlacesTyped, [Next]_vars PROVE PlacesTyped'
  OBVIOUS
<1> USE DEF PlacesTyped
<1>1. CASE Peek
  BY <1>1 DEF Peek, Goto, saveVars, detachVars
<1>2. CASE SkipMigration \/ WriteMigrated \/ RenameMigrated \/ Registered \/ EnterLoop \/ Quit
  BY <1>2 DEF SkipMigration, WriteMigrated, RenameMigrated, Registered, EnterLoop, Quit, Goto,
              saveVars, detachVars
<1>3. CASE LoadAll \/ InstallHooks
  BY <1>3 DEF LoadAll, InstallHooks, Goto, saveVars, detachVars
<1>4. CASE BeginLoadPatches \/ EndLoadPatches \/ EndReinstall
  BY <1>4 DEF BeginLoadPatches, EndLoadPatches, EndReinstall, Goto, saveVars, detachVars
<1>5. ASSUME NEW p \in Patches, LoadPatch(p) \/ LoadPatchThrows(p) \/ EnsureEnabled(p) \/ BeginReinstall(p) PROVE PlacesTyped'
  BY <1>5 DEF LoadPatch, LoadPatchThrows, EnsureEnabled, BeginReinstall, Goto, saveVars, detachVars
<1>6. ASSUME NEW x \in Options, SetOption(x) PROVE PlacesTyped'
  BY <1>6 DEF SetOption, threadVars, detachVars
<1>7. CASE AskSave \/ SaveLock \/ SaveCollect \/ SaveWrite \/ SaveRename \/ SaveFails
  BY <1>7 DEF AskSave, SaveLock, SaveCollect, SaveWrite, SaveRename, SaveFails, threadVars, detachVars
<1>8. CASE BeginDetach \/ PostQuit
  BY <1>8 DEF BeginDetach, PostQuit, threadVars, saveVars
<1>9. CASE Unload
  BY <1>9 DEF Unload, saveVars
<1>10. CASE Restart
  BY <1>10 DEF Restart
<1>11. CASE UNCHANGED <<pc, device, hooks, saving, detach>>
  BY <1>11
<1>12. QED
  BY <1>1, <1>2, <1>3, <1>4, <1>5, <1>6, <1>7, <1>8, <1>9, <1>10, <1>11, NextIsOneOf
  DEF vars, threadVars, saveVars, detachVars, BeginRegister, BeginRegistering, RegisterPatch, LoadSettings,
      SaveRegisters, TogglePatch, ChangePatchSetting, DetachPatch

\* Disorder is only ever added, one step at a time.
LEMMA DisorderStep == [Next]_vars => (disorder' = disorder) \/ Disorder
<1> SUFFICES ASSUME [Next]_vars PROVE (disorder' = disorder) \/ Disorder
  OBVIOUS
<1> QED
  BY NextIsOneOf
  DEF vars, Peek, SkipMigration, WriteMigrated, RenameMigrated, BeginRegister, BeginRegistering, Registered,
      LoadAll, InstallHooks, BeginLoadPatches, EndLoadPatches, EnterLoop, EndReinstall, Quit,
      RegisterPatch, AskSave, LoadSettings, SaveRegisters, SaveLock, SaveCollect, SaveWrite, SaveRename,
      SaveFails, BeginDetach, PostQuit, Unload, Restart, LoadPatch, LoadPatchThrows, EnsureEnabled, BeginReinstall,
      TogglePatch, ChangePatchSetting, DetachPatch, SetOption, OverlayFree, Orderly

\* The three bounded counters.  Only Restart and Edit count; Disorder does not pass its bound.
LEMMA CountsStep == CountsTyped /\ [Next]_vars => CountsTyped'
<1> SUFFICES ASSUME CountsTyped, [Next]_vars PROVE CountsTyped'
  OBVIOUS
<1>1. disorder' \in 0..MaxDisorder
  BY DisorderStep, StartupAssumption DEF CountsTyped, Disorder, StartupAssumption
<1>2. edits' \in 0..MaxEdits
  <2>1. (edits' = edits) \/ Edit
    BY NextIsOneOf
    DEF vars, Peek, SkipMigration, WriteMigrated, RenameMigrated, BeginRegister, BeginRegistering, Registered,
        LoadAll, InstallHooks, BeginLoadPatches, EndLoadPatches, EnterLoop, EndReinstall, Quit,
        RegisterPatch, AskSave, LoadSettings, SaveRegisters, SaveLock, SaveCollect, SaveWrite, SaveRename,
        SaveFails, BeginDetach, PostQuit, Unload, Restart, LoadPatch, LoadPatchThrows, EnsureEnabled, BeginReinstall,
        TogglePatch, ChangePatchSetting, DetachPatch, SetOption
  <2>2. QED
    BY <2>1, StartupAssumption DEF CountsTyped, Edit, StartupAssumption
<1>3. sessions' \in Nat
  <2>1. (sessions' = sessions) \/ (sessions' = sessions + 1)
    BY NextIsOneOf
    DEF vars, Peek, SkipMigration, WriteMigrated, RenameMigrated, BeginRegister, BeginRegistering, Registered,
        LoadAll, InstallHooks, BeginLoadPatches, EndLoadPatches, EnterLoop, EndReinstall, Quit,
        RegisterPatch, AskSave, LoadSettings, SaveRegisters, SaveLock, SaveCollect, SaveWrite, SaveRename,
        SaveFails, BeginDetach, PostQuit, Unload, Restart, LoadPatch, LoadPatchThrows, EnsureEnabled, BeginReinstall,
        TogglePatch, ChangePatchSetting, DetachPatch, SetOption
  <2>2. QED
    BY <2>1 DEF CountsTyped
<1>4. QED
  BY <1>1, <1>2, <1>3 DEF CountsTyped

\* ConfigStore::m_mutex: held by LoadPatches or by SaveAll, and where they are says by which.
LEMMA MutexStep == MutexFollows /\ [Next]_vars => MutexFollows'
<1> SUFFICES ASSUME MutexFollows, [Next]_vars PROVE MutexFollows'
  OBVIOUS
<1> USE DEF MutexFollows
<1>1. CASE Peek \/ SkipMigration \/ WriteMigrated \/ RenameMigrated \/ Registered \/ EnterLoop \/ Quit
  BY <1>1 DEF Peek, SkipMigration, WriteMigrated, RenameMigrated, Registered, EnterLoop, Quit, Goto, saveVars
<1>2. CASE LoadAll \/ InstallHooks \/ EndReinstall
  BY <1>2 DEF LoadAll, InstallHooks, EndReinstall, Goto, saveVars
<1>3. CASE BeginLoadPatches \/ EndLoadPatches
  BY <1>3 DEF BeginLoadPatches, EndLoadPatches, Goto, saveVars
<1>4. ASSUME NEW p \in Patches, LoadPatch(p) \/ LoadPatchThrows(p) \/ EnsureEnabled(p) \/ BeginReinstall(p) PROVE MutexFollows'
  BY <1>4 DEF LoadPatch, LoadPatchThrows, EnsureEnabled, BeginReinstall, Goto, saveVars
<1>5. ASSUME NEW x \in Options, SetOption(x) PROVE MutexFollows'
  BY <1>5 DEF SetOption, OverlayFree, threadVars
<1>6. CASE AskSave \/ SaveLock \/ SaveCollect \/ SaveWrite
  BY <1>6 DEF AskSave, OverlayFree, SaveLock, SaveCollect, SaveWrite, threadVars
<1>7. CASE SaveRename \/ SaveFails
  BY <1>7 DEF SaveRename, SaveFails, threadVars
<1>8. CASE Restart
  BY <1>8 DEF Restart
<1>9. CASE UNCHANGED <<pc, mutex, saving>>
  BY <1>9
<1>10. QED
  BY <1>1, <1>2, <1>3, <1>4, <1>5, <1>6, <1>7, <1>8, <1>9, NextIsOneOf
  DEF vars, threadVars, saveVars, BeginRegister, BeginRegistering, RegisterPatch, LoadSettings,
      SaveRegisters, BeginDetach, PostQuit, Unload, TogglePatch, ChangePatchSetting, DetachPatch

\* LoadPatches visits only patches its table has an entry of.
LEMMA LoadingStep == LoadingHasEntries /\ [Next]_vars => LoadingHasEntries'
<1> SUFFICES ASSUME LoadingHasEntries, [Next]_vars PROVE LoadingHasEntries'
  OBVIOUS
<1> USE DEF LoadingHasEntries
<1>1. CASE Peek \/ SkipMigration \/ WriteMigrated \/ RenameMigrated \/ Registered \/ EnterLoop \/ Quit
  BY <1>1 DEF Peek, SkipMigration, WriteMigrated, RenameMigrated, Registered, EnterLoop, Quit, Goto
<1>2. CASE LoadAll \/ InstallHooks \/ EndReinstall
  BY <1>2 DEF LoadAll, InstallHooks, EndReinstall, Goto
<1>3. CASE BeginLoadPatches \/ EndLoadPatches
  BY <1>3 DEF BeginLoadPatches, EndLoadPatches, Goto
<1>4. ASSUME NEW p \in Patches, LoadPatch(p) \/ LoadPatchThrows(p) \/ EnsureEnabled(p) \/ BeginReinstall(p) PROVE LoadingHasEntries'
  BY <1>4 DEF LoadPatch, LoadPatchThrows, EnsureEnabled, BeginReinstall, Goto
<1>5. CASE Restart
  BY <1>5 DEF Restart
<1>6. CASE UNCHANGED <<pc, plan, todo>>
  BY <1>6
<1>7. QED
  BY <1>1, <1>2, <1>3, <1>4, <1>5, <1>6, NextIsOneOf
  DEF vars, threadVars, BeginRegister, BeginRegistering, RegisterPatch, AskSave, LoadSettings,
      SaveRegisters, SaveLock, SaveCollect, SaveWrite, SaveRename, SaveFails, BeginDetach, PostQuit, Unload,
      TogglePatch, ChangePatchSetting, DetachPatch, SetOption

\* Types, and the mutex of the config store is held exactly while LoadPatches or
\* SaveAll runs, for any patches, files and bounds.
THEOREM TypeCorrect == Spec => []TypeOK
<1>1. TypeOK /\ [Next]_vars => TypeOK'
  BY FilesStep, SwitchesStep, ManagerStep, PlacesStep, CountsStep, MutexStep, LoadingStep DEF TypeOK
<1>2. QED
  BY <1>1, TypeInit, PTL DEF Spec

-----------------------------------------------------------------------------
(* The orderly unload. *)

\* What is installed is known to the manager, and so is what is being reinstalled.
OnAreFound == \A p \in Patches : on[p] => p \in found
BusyIsFound == IF pc = "reinstall" THEN busy \in found ELSE busy = None

\* What the detach has passed and could remove is off, and the thread will not turn it
\* on: it is past its start-up and not reinstalling that patch, nor can it begin to.
Passed(p) == detach # "no" /\ p \notin leaving \cup left
PassedAreOff ==
    /\ \A p \in Patches : Passed(p) => ~on[p] /\ ~Unsettled(p)
    /\ detach \in {"wait", "unloaded"} => leaving = {}

\* What an orderly detach finds: the loop, no save, nothing to reinstall.
Leaving ==
    disorder = 0 /\ detach # "no" =>
        /\ pc \in {"loop", "exited"} /\ saving = "no"
        /\ \A p \in pending : ~on[p]

UnloadInv == OnAreFound /\ BusyIsFound /\ PassedAreOff /\ Leaving

LEMMA UnloadInit == Init => UnloadInv
BY DEF Init, UnloadInv, OnAreFound, BusyIsFound, PassedAreOff, Passed, Leaving, Off, Prefs

\* Patches and options are different things: what reads the options leaves the patches.
LEMMA OptionsReadKeeps == ASSUME NEW p \in Patches PROVE p \notin Options /\ OptionsRead[p] = on[p]
BY StartupAssumption DEF StartupAssumption, OptionsRead, Prefs

LEMMA OnAreFoundStep == TypeOK /\ OnAreFound /\ BusyIsFound /\ [Next]_vars => OnAreFound'
<1> SUFFICES ASSUME TypeOK, OnAreFound, BusyIsFound, [Next]_vars PROVE OnAreFound'
  OBVIOUS
<1> USE DEF OnAreFound
<1>t. on \in [Prefs -> BOOLEAN] /\ Patches \subseteq Prefs /\ found \subseteq Patches /\ todo \subseteq found
  BY DEF TypeOK, SwitchesTyped, ManagerTyped, Prefs
<1>1. CASE Peek
  BY <1>1, <1>t, OptionsReadKeeps DEF Peek, Options
<1>2. CASE LoadAll \/ LoadSettings
  BY <1>2, <1>t, OptionsReadKeeps DEF LoadAll, LoadSettings
<1>3. ASSUME NEW p \in Patches, LoadPatch(p) \/ LoadPatchThrows(p) \/ EnsureEnabled(p) \/ BeginReinstall(p) PROVE OnAreFound'
  BY <1>3, <1>t DEF LoadPatch, LoadPatchThrows, EnsureEnabled, BeginReinstall
<1>4. CASE EndReinstall
  BY <1>4, <1>t DEF EndReinstall, Goto, BusyIsFound
<1>5. ASSUME NEW p \in Patches, TogglePatch(p) \/ DetachPatch(p) PROVE OnAreFound'
  BY <1>5, <1>t DEF TogglePatch, DetachPatch
<1>6. ASSUME NEW x \in Options, SetOption(x) PROVE OnAreFound'
  BY <1>6, <1>t, OptionsReadKeeps DEF SetOption
<1>7. CASE RegisterPatch \/ BeginDetach
  BY <1>7, <1>t DEF RegisterPatch, BeginDetach
<1>8. CASE Restart
  BY <1>8, <1>t DEF Restart, Off
<1>9. CASE UNCHANGED <<on, found>>
  BY <1>9
<1>10. QED
  BY <1>1, <1>2, <1>3, <1>4, <1>5, <1>6, <1>7, <1>8, <1>9, NextIsOneOf
  DEF vars, managerVars, SkipMigration, WriteMigrated, RenameMigrated, BeginRegister,
      BeginRegistering, Registered, InstallHooks, BeginLoadPatches, EndLoadPatches, EnterLoop, Quit,
      AskSave, SaveRegisters, SaveLock, SaveCollect, SaveWrite, SaveRename, SaveFails,
      PostQuit, Unload, ChangePatchSetting

LEMMA BusyIsFoundStep == TypeOK /\ BusyIsFound /\ [Next]_vars => BusyIsFound'
<1> SUFFICES ASSUME TypeOK, BusyIsFound, [Next]_vars PROVE BusyIsFound'
  OBVIOUS
<1> USE DEF BusyIsFound
<1>t. found \subseteq Patches /\ pending \subseteq found
  BY DEF TypeOK, ManagerTyped
<1>1. CASE Peek \/ SkipMigration \/ WriteMigrated \/ RenameMigrated \/ Registered \/ EnterLoop \/ Quit
  BY <1>1 DEF Peek, SkipMigration, WriteMigrated, RenameMigrated, Registered, EnterLoop, Quit, Goto
<1>2. CASE LoadAll \/ InstallHooks \/ EndReinstall
  BY <1>2 DEF LoadAll, InstallHooks, EndReinstall, Goto
<1>3. CASE BeginLoadPatches \/ EndLoadPatches
  BY <1>3 DEF BeginLoadPatches, EndLoadPatches, Goto
<1>4. ASSUME NEW p \in Patches, LoadPatch(p) \/ LoadPatchThrows(p) \/ EnsureEnabled(p) PROVE BusyIsFound'
  BY <1>4 DEF LoadPatch, LoadPatchThrows, EnsureEnabled, Goto
<1>5. ASSUME NEW p \in Patches, BeginReinstall(p) PROVE BusyIsFound'
  BY <1>5, <1>t DEF BeginReinstall, Goto
<1>6. CASE RegisterPatch \/ BeginDetach
  BY <1>6, <1>t DEF RegisterPatch, BeginDetach, threadVars
<1>7. CASE Restart
  BY <1>7 DEF Restart
<1>8. CASE UNCHANGED <<pc, busy, found>>
  BY <1>8
<1>9. QED
  BY <1>1, <1>2, <1>3, <1>4, <1>5, <1>6, <1>7, <1>8, NextIsOneOf
  DEF vars, threadVars, managerVars, BeginRegister, BeginRegistering, AskSave, LoadSettings,
      SaveRegisters, SaveLock, SaveCollect, SaveWrite, SaveRename, SaveFails, PostQuit, Unload,
      TogglePatch, ChangePatchSetting, DetachPatch, SetOption

LEMMA PassedStep == TypeOK /\ BusyIsFound /\ PassedAreOff /\ [Next]_vars => PassedAreOff'
<1> SUFFICES ASSUME TypeOK, BusyIsFound, PassedAreOff, [Next]_vars PROVE PassedAreOff'
  OBVIOUS
<1> USE DEF PassedAreOff, Passed, Unsettled
<1>t. /\ on \in [Prefs -> BOOLEAN] /\ Patches \subseteq Prefs
      /\ found \subseteq Patches /\ leaving \subseteq found /\ pending \subseteq found
  BY DEF TypeOK, SwitchesTyped, ManagerTyped, Prefs
<1>1. CASE Peek \/ SkipMigration \/ WriteMigrated \/ RenameMigrated \/ Registered \/ EnterLoop
  BY <1>1 DEF Peek, SkipMigration, WriteMigrated, RenameMigrated, Registered, EnterLoop, Goto, detachVars
<1>2. CASE LoadAll \/ InstallHooks \/ BeginLoadPatches \/ EndLoadPatches
  BY <1>2 DEF LoadAll, InstallHooks, BeginLoadPatches, EndLoadPatches, Goto, detachVars
<1>3. ASSUME NEW p \in Patches, LoadPatch(p) \/ LoadPatchThrows(p) \/ EnsureEnabled(p) PROVE PassedAreOff'
  BY <1>3 DEF LoadPatch, LoadPatchThrows, EnsureEnabled, Goto, detachVars
<1>4. ASSUME NEW p \in Patches, BeginReinstall(p) PROVE PassedAreOff'
  BY <1>4, <1>t DEF BeginReinstall, Goto, detachVars
<1>5. CASE EndReinstall
  <2>1. \A p \in Patches : Passed(p)' => p # None
    BY StartupAssumption DEF StartupAssumption, Prefs
  <2>2. QED
    BY <1>5, <1>t, <2>1 DEF EndReinstall, Goto, detachVars
<1>6. CASE Quit
  BY <1>6 DEF Quit, Goto, managerVars, detachVars
<1>7. ASSUME NEW p \in Patches, TogglePatch(p) \/ DetachPatch(p) PROVE PassedAreOff'
  <2>1. CASE TogglePatch(p)
    BY <1>7, <1>t, <2>1 DEF TogglePatch, threadVars
  <2>2. CASE DetachPatch(p)
    BY <1>7, <1>t, <2>2 DEF DetachPatch, threadVars
  <2>3. QED
    BY <1>7, <2>1, <2>2
<1>8. ASSUME NEW x \in Options, SetOption(x) PROVE PassedAreOff'
  BY <1>8, <1>t, OptionsReadKeeps DEF SetOption, threadVars, detachVars
<1>9. CASE LoadSettings
  BY <1>9, <1>t, OptionsReadKeeps DEF LoadSettings, threadVars, detachVars
<1>10. CASE BeginDetach
  BY <1>10 DEF BeginDetach, threadVars
<1>11. CASE PostQuit
  BY <1>11 DEF PostQuit, managerVars, threadVars
<1>12. CASE Unload
  BY <1>12 DEF Unload, managerVars
<1>13. CASE Restart
  BY <1>13 DEF Restart
<1>14. CASE UNCHANGED <<on, busy, pc, detachVars>>
  BY <1>14 DEF detachVars
<1>15. QED
  BY <1>1, <1>2, <1>3, <1>4, <1>5, <1>6, <1>7, <1>8, <1>9, <1>10, <1>11, <1>12, <1>13, <1>14, NextIsOneOf
  DEF vars, managerVars, threadVars, BeginRegister, BeginRegistering, RegisterPatch, AskSave, SaveRegisters,
      SaveLock, SaveCollect, SaveWrite, SaveRename, SaveFails, ChangePatchSetting

\* Only the steps of the detach, Quit and what fills the manager are left in an orderly
\* world once the detach has begun; the others add to disorder or are not enabled.
LEMMA LeavingStep == TypeOK /\ OnAreFound /\ Leaving /\ [Next]_vars => Leaving'
<1> SUFFICES ASSUME TypeOK, OnAreFound, Leaving, [Next]_vars, disorder' = 0, detach' # "no" PROVE Leaving'
  BY DEF Leaving
<1> DEFINE Inside == pc \in {"loop", "exited"} /\ saving = "no"
<1>t. /\ on \in [Prefs -> BOOLEAN] /\ Patches \subseteq Prefs
      /\ found \subseteq Patches /\ leaving \subseteq found /\ pending \subseteq found
  BY DEF TypeOK, SwitchesTyped, ManagerTyped, Prefs
<1>d. disorder = 0 /\ disorder' = disorder /\ ~Disorder
  BY DisorderStep, StartupAssumption DEF TypeOK, CountsTyped, Disorder, StartupAssumption
<1>1. CASE BeginDetach
  BY <1>1, <1>t, <1>d DEF BeginDetach, Orderly, OnAreFound, Leaving, threadVars, saveVars
<1>2. ASSUME ~BeginDetach PROVE Leaving'
  <2>1. detach # "no" \/ Restart
    BY <1>2, NextIsOneOf
    DEF vars, detachVars, Peek, SkipMigration, WriteMigrated, RenameMigrated, BeginRegister,
        BeginRegistering, Registered, LoadAll, InstallHooks, BeginLoadPatches, EndLoadPatches, EnterLoop,
        EndReinstall, Quit, RegisterPatch, AskSave, LoadSettings, SaveRegisters, SaveLock, SaveCollect, SaveWrite,
        SaveRename, SaveFails, PostQuit, Unload, LoadPatch, LoadPatchThrows, EnsureEnabled, BeginReinstall,
        TogglePatch, ChangePatchSetting, DetachPatch, SetOption
  <2>2. detach # "no"
    BY <2>1 DEF Restart
  <2>3. Inside
    BY <2>2, <1>d DEF Leaving
  <2>4. CASE Quit
    BY <2>4, <2>2, <1>d DEF Quit, Goto, Leaving, managerVars, saveVars, detachVars
  <2>5. CASE RegisterPatch
    BY <2>5, <2>2, <1>d, <1>t DEF RegisterPatch, Leaving, OnAreFound, threadVars, saveVars, detachVars
  <2>6. ASSUME NEW p \in Patches, DetachPatch(p) PROVE Leaving'
    BY <2>6, <2>2, <1>d, <1>t DEF DetachPatch, Leaving, threadVars, saveVars
  <2>7. CASE PostQuit
    BY <2>7, <2>2, <1>d DEF PostQuit, Leaving, managerVars, threadVars, saveVars
  <2>8. CASE Unload
    BY <2>8, <2>2, <1>d DEF Unload, Orderly, Leaving, managerVars, saveVars
  <2>9. CASE UNCHANGED vars
    BY <2>9, <2>2, <1>d DEF Leaving, vars, managerVars, threadVars, saveVars, detachVars
  <2>10. \A p \in Patches : ~BeginReinstall(p)
    BY <2>2, <1>d DEF BeginReinstall, Leaving
  <2>11. \A p \in Patches : ~LoadPatch(p) /\ ~LoadPatchThrows(p) /\ ~EnsureEnabled(p) /\ ~TogglePatch(p) /\ ~ChangePatchSetting(p)
    BY <2>2, <2>3, <1>d DEF LoadPatch, LoadPatchThrows, EnsureEnabled, TogglePatch, ChangePatchSetting, Goto, OverlayFree, Orderly
  <2>12. ~AskSave /\ ~LoadSettings /\ \A x \in Options : ~SetOption(x)
    BY <2>2, <1>d DEF AskSave, LoadSettings, SetOption, OverlayFree, Orderly
  <2>13. ~SaveRegisters /\ ~SaveLock /\ ~SaveCollect /\ ~SaveWrite /\ ~SaveRename /\ ~SaveFails
    BY <2>3 DEF SaveRegisters, SaveLock, SaveCollect, SaveWrite, SaveRename, SaveFails
  <2>14. /\ ~Peek /\ ~SkipMigration /\ ~WriteMigrated /\ ~RenameMigrated /\ ~BeginRegister /\ ~Registered
         /\ ~LoadAll /\ ~InstallHooks /\ ~BeginLoadPatches /\ ~EndLoadPatches /\ ~EnterLoop /\ ~EndReinstall
    BY <2>3
    DEF Peek, SkipMigration, WriteMigrated, RenameMigrated, BeginRegister, Registered, LoadAll,
        InstallHooks, BeginLoadPatches, EndLoadPatches, EnterLoop, EndReinstall, Goto
  <2>15. ~Restart
    BY DEF Restart
  <2>16. QED
    BY <1>2, <2>4, <2>5, <2>6, <2>7, <2>8, <2>9, <2>10, <2>11, <2>12, <2>13, <2>14, <2>15, NextIsOneOf
<1>3. QED
  BY <1>1, <1>2

LEMMA UnloadInvHolds == Spec => []UnloadInv
<1>1. TypeOK /\ UnloadInv /\ [Next]_vars => UnloadInv'
  BY OnAreFoundStep, BusyIsFoundStep, PassedStep, LeavingStep DEF UnloadInv
<1>2. QED
  BY <1>1, UnloadInit, TypeCorrect, PTL DEF Spec

\* DllMain's detach: whatever fails and whenever it comes, a patch that is on when
\* FreeLibrary is through is one whose Uninstall failed, that the user switched after the
\* detach began, or that the hook thread could still install when its turn came.
THEOREM UnloadCorrect == Spec => []UnloadedIsClean
<1>1. TypeOK /\ UnloadInv => UnloadedIsClean
  BY DEF UnloadInv, PassedAreOff, Passed, UnloadedIsClean
<1>2. QED
  BY <1>1, UnloadInvHolds, TypeCorrect, PTL

-----------------------------------------------------------------------------
(* The promise kept. *)

\* What LoadPatches and the peeks see of the file.
Read == IF toml \in {Absent, Broken} THEN Blank ELSE toml

\* Saves come only between the start-up and the detach, and write what is in force.
SavesFollow ==
    disorder = 0 =>
        /\ saving # "no" => pc = "loop" /\ detach = "no"
        /\ saving \in {"write", "rename"} => root = on
        /\ saving = "rename" => temp = root

\* The manager is full before anything asks it.
FullInTime ==
    disorder = 0 =>
        /\ registering # "overlay"
        /\ registering = "done" => found = Patches
        /\ pc \notin {"peek", "migrate", "rename", "register"} => registering = "done"

\* The old file is read once, into the new one.
MigratedInTime ==
    disorder = 0 =>
        /\ pc \notin {"peek", "migrate", "rename"} => ~NeedsMigration
        /\ pc = "rename" => NeedsMigration /\ temp = ini

\* The options on the way to what the file says.
OptionsInTime ==
    disorder = 0 =>
        /\ pc = "peek" => \A x \in Options : ~on[x]
        /\ pc \in {"migrate", "rename", "register", "load"} =>
            \A x \in Options : on[x] => Read[x] = TRUE
        /\ pc \in {"hooks", "patches", "loading", "defaults"} =>
            \A x \in Options : on[x] <=> Settle(Read)[x]

\* The patches on the way there, in the two loops that visit them.
PatchesInTime ==
    disorder = 0 =>
        /\ pc \in {"peek", "migrate", "rename", "register", "load", "hooks", "patches"} =>
            fromConfig = {} /\ \A p \in Patches : ~on[p]
        /\ pc \in {"loading", "defaults"} => plan = Read
        /\ pc = "loading" => \A p \in Patches :
            /\ p \in fromConfig <=> plan[p] # Unset /\ p \notin todo
            /\ on[p] <=> p \in fromConfig /\ plan[p] = TRUE
        /\ pc = "defaults" => \A p \in Patches :
            /\ p \in fromConfig <=> plan[p] # Unset
            /\ on[p] <=> IF p \in todo THEN plan[p] = TRUE ELSE Settle(plan)[p]

KeepInv == SavesFollow /\ FullInTime /\ MigratedInTime /\ OptionsInTime /\ PatchesInTime

\* All that is known of a state: one name for the lemmas below.
AllInv == TypeOK /\ UnloadInv /\ KeepInv

LEMMA KeepInit == Init => KeepInv
BY DEF Init, KeepInv, SavesFollow, FullInTime, MigratedInTime, OptionsInTime, PatchesInTime, Off, Prefs

-----------------------------------------------------------------------------
(* Which steps are left while the world is in order. *)

LEMMA InOrder ==
    ASSUME TypeOK, [Next]_vars, disorder' = 0
    PROVE  disorder = 0 /\ ~Disorder
BY DisorderStep, StartupAssumption DEF TypeOK, CountsTyped, Disorder, StartupAssumption

\* Before the loop only the hook thread moves: the overlay's user waits, and so no
\* save is under way; the game may end.
LEMMA StepBeforeLoop ==
    ASSUME AllInv, [Next]_vars, disorder' = 0, pc \notin {"loop", "reinstall", "exited"}
    PROVE  \/ Peek \/ SkipMigration \/ WriteMigrated \/ RenameMigrated \/ BeginRegister \/ Registered
           \/ LoadAll \/ InstallHooks \/ BeginLoadPatches \/ EndLoadPatches \/ EnterLoop
           \/ (\E p \in Patches : LoadPatch(p) \/ EnsureEnabled(p))
           \/ RegisterPatch \/ Restart \/ UNCHANGED vars
<1>1. disorder = 0 /\ ~Disorder
  BY InOrder DEF AllInv
<1>2. saving = "no" /\ detach = "no"
  BY <1>1 DEF AllInv, KeepInv, SavesFollow, UnloadInv, Leaving
<1>3. ~EndReinstall /\ ~Quit /\ \A p \in Patches : ~BeginReinstall(p)
  BY DEF EndReinstall, Quit, BeginReinstall, Goto
<1>4. /\ ~AskSave /\ ~LoadSettings /\ \A x \in Options : ~SetOption(x)
      /\ \A p \in Patches : ~TogglePatch(p) /\ ~ChangePatchSetting(p)
  BY <1>1 DEF AskSave, LoadSettings, SetOption, TogglePatch, ChangePatchSetting, OverlayFree, Orderly
<1>5. ~SaveRegisters /\ ~SaveLock /\ ~SaveCollect /\ ~SaveWrite /\ ~SaveRename /\ ~SaveFails
  BY <1>2 DEF SaveRegisters, SaveLock, SaveCollect, SaveWrite, SaveRename, SaveFails
<1>6. ~BeginDetach /\ ~PostQuit /\ ~Unload /\ \A p \in Patches : ~DetachPatch(p)
  BY <1>1, <1>2 DEF BeginDetach, PostQuit, Unload, DetachPatch, Orderly
<1>7. \A p \in Patches : ~LoadPatchThrows(p)
  BY <1>1 DEF LoadPatchThrows
<1>8. QED
  BY <1>3, <1>4, <1>5, <1>6, <1>7, NextIsOneOf

\* From the loop on the start-up's steps are over.
LEMMA StepInLoop ==
    ASSUME AllInv, [Next]_vars, disorder' = 0, pc \in {"loop", "reinstall", "exited"}
    PROVE  \/ EndReinstall \/ Quit
           \/ AskSave \/ LoadSettings \/ (\E x \in Options : SetOption(x))
           \/ SaveLock \/ SaveCollect \/ SaveWrite \/ SaveRename
           \/ BeginDetach \/ PostQuit \/ Unload \/ Restart
           \/ (\E p \in Patches : BeginReinstall(p) \/ TogglePatch(p) \/ ChangePatchSetting(p) \/ DetachPatch(p))
           \/ UNCHANGED vars
<1>1. disorder = 0 /\ ~Disorder
  BY InOrder DEF AllInv
<1>2. registering = "done"
  BY <1>1 DEF AllInv, KeepInv, FullInTime
<1>3. /\ ~Peek /\ ~SkipMigration /\ ~WriteMigrated /\ ~RenameMigrated /\ ~BeginRegister /\ ~Registered
      /\ ~LoadAll /\ ~InstallHooks /\ ~BeginLoadPatches /\ ~EndLoadPatches /\ ~EnterLoop
      /\ \A p \in Patches : ~LoadPatch(p) /\ ~LoadPatchThrows(p) /\ ~EnsureEnabled(p)
  BY DEF Peek, SkipMigration, WriteMigrated, RenameMigrated, BeginRegister, Registered, LoadAll, InstallHooks,
         BeginLoadPatches, EndLoadPatches, EnterLoop, LoadPatch, LoadPatchThrows, EnsureEnabled, Goto
<1>4. ~RegisterPatch /\ ~SaveRegisters /\ ~SaveFails
  BY <1>1, <1>2 DEF RegisterPatch, SaveRegisters, BeginRegistering, SaveFails
<1>5. QED
  BY <1>3, <1>4, NextIsOneOf

\* Where the thread goes: out of the loop only by a new start.
LEMMA LoopIsKept ==
    ASSUME AllInv, [Next]_vars, disorder' = 0, pc \in {"loop", "reinstall", "exited"}
    PROVE  pc' \in {"loop", "reinstall", "exited"} \/ Restart
BY StepInLoop
DEF EndReinstall, Quit, AskSave, LoadSettings, SetOption, SaveLock, SaveCollect, SaveWrite, SaveRename, BeginDetach, PostQuit,
    Unload, BeginReinstall, TogglePatch, ChangePatchSetting, DetachPatch, Goto, threadVars, vars

-----------------------------------------------------------------------------
(* The parts of KeepInv. *)

LEMMA SavesStep == AllInv /\ [Next]_vars => SavesFollow'
<1> SUFFICES ASSUME AllInv, [Next]_vars, disorder' = 0 PROVE SavesFollow'
  BY DEF SavesFollow
<1>1. disorder = 0 /\ ~Disorder
  BY InOrder DEF AllInv
<1> USE DEF SavesFollow
<1>2. CASE pc \notin {"loop", "reinstall", "exited"}
  <2>1. saving = "no"
    BY <1>1, <1>2 DEF AllInv, KeepInv
  <2>2. saving' = "no"
    BY <1>2, <2>1, StepBeforeLoop
    DEF Peek, SkipMigration, WriteMigrated, RenameMigrated, BeginRegister, BeginRegistering, Registered, LoadAll,
        InstallHooks, BeginLoadPatches, EndLoadPatches, EnterLoop, LoadPatch, EnsureEnabled, RegisterPatch,
        Restart, saveVars, vars
  <2>3. QED
    BY <2>2
<1>3. CASE pc \in {"loop", "reinstall", "exited"} /\ saving = "no"
  <2>1. CASE AskSave \/ \E x \in Options : SetOption(x)
    BY <2>1, <1>1 DEF AskSave, SetOption, OverlayFree, Orderly, threadVars, detachVars
  <2>2. CASE saving' = "no"
    BY <2>2
  <2>3. QED
    BY <1>3, <2>1, <2>2, StepInLoop
    DEF EndReinstall, Quit, LoadSettings, SaveLock, SaveCollect, SaveWrite, SaveRename, BeginDetach, PostQuit,
        Unload, Restart, BeginReinstall, TogglePatch, ChangePatchSetting, DetachPatch, saveVars, vars
<1>4. CASE pc \in {"loop", "reinstall", "exited"} /\ saving # "no"
  <2>1. pc = "loop" /\ detach = "no" /\ SavesFollow
    BY <1>1, <1>4 DEF AllInv, KeepInv
  <2>0. CASE SaveLock
    BY <2>0, <2>1 DEF SaveLock, threadVars, detachVars
  <2>2. CASE SaveCollect
    <3>1. found = Patches
      BY <1>1, <2>1 DEF AllInv, KeepInv, FullInTime
    <3>2. root' = on /\ on' = on
      BY <2>2, <3>1 DEF SaveCollect, managerVars, AllInv, TypeOK, SwitchesTyped, Prefs
    <3>3. QED
      BY <2>1, <2>2, <3>2 DEF SaveCollect, threadVars, detachVars
  <2>3. CASE SaveWrite
    BY <2>1, <2>3, <1>1 DEF SaveWrite, managerVars, threadVars, detachVars
  <2>4. CASE SaveRename
    BY <2>4 DEF SaveRename
  <2>5. CASE Restart
    BY <2>5 DEF Restart
  <2>6. CASE UNCHANGED vars
    BY <2>1, <2>6, <1>1 DEF vars, diskVars, managerVars, threadVars, saveVars, detachVars
  <2>7. QED
    BY <1>1, <1>4, <2>0, <2>1, <2>2, <2>3, <2>4, <2>5, <2>6, StepInLoop
    DEF EndReinstall, Quit, AskSave, LoadSettings, SetOption, BeginDetach, PostQuit, Unload,
        BeginReinstall, TogglePatch, ChangePatchSetting, DetachPatch, Goto, OverlayFree, Orderly
<1>5. QED
  BY <1>2, <1>3, <1>4

LEMMA FullStep == AllInv /\ [Next]_vars => FullInTime'
<1> SUFFICES ASSUME AllInv, [Next]_vars, disorder' = 0 PROVE FullInTime'
  BY DEF FullInTime
<1>1. disorder = 0 /\ ~Disorder /\ FullInTime
  BY InOrder DEF AllInv, KeepInv
<1> USE DEF FullInTime
<1>2. CASE pc \notin {"loop", "reinstall", "exited"}
  <2>1. CASE BeginRegister
    BY <1>1, <2>1 DEF BeginRegister, BeginRegistering, threadVars
  <2>2. CASE RegisterPatch
    BY <1>1, <2>2 DEF RegisterPatch, threadVars
  <2>3. CASE Registered
    BY <1>1, <2>3 DEF Registered, Goto, managerVars
  <2>4. CASE Restart
    BY <2>4 DEF Restart
  <2>5. ASSUME UNCHANGED <<registering, found>>,
               pc \in {"peek", "migrate", "rename", "register"}
                  => pc' \in {"peek", "migrate", "rename", "register"}
        PROVE  FullInTime'
    BY <1>1, <2>5
  <2>6. QED
    BY <1>1, <1>2, <2>1, <2>2, <2>3, <2>4, <2>5, StepBeforeLoop
    DEF Peek, SkipMigration, WriteMigrated, RenameMigrated, LoadAll, InstallHooks, BeginLoadPatches,
        EndLoadPatches, EnterLoop, LoadPatch, EnsureEnabled, Goto, managerVars, threadVars, vars
<1>3. CASE pc \in {"loop", "reinstall", "exited"}
  <2>1. CASE Restart
    BY <2>1 DEF Restart
  <2>2. CASE UNCHANGED <<registering, found>>
    BY <1>1, <1>3, <2>2, LoopIsKept DEF Restart
  <2>3. QED
    BY <1>1, <1>3, <2>1, <2>2, StepInLoop
    DEF EndReinstall, Quit, AskSave, LoadSettings, SetOption, SaveLock, SaveCollect, SaveWrite, SaveRename, BeginDetach,
        PostQuit, Unload, BeginReinstall, TogglePatch, ChangePatchSetting, DetachPatch, managerVars, vars
<1>4. QED
  BY <1>2, <1>3

LEMMA MigratedStep == AllInv /\ [Next]_vars => MigratedInTime'
<1> SUFFICES ASSUME AllInv, [Next]_vars, disorder' = 0 PROVE MigratedInTime'
  BY DEF MigratedInTime
<1>1. disorder = 0 /\ ~Disorder /\ MigratedInTime
  BY InOrder DEF AllInv, KeepInv
<1>t. ini # Absent => ini \in Tables
  BY DEF AllInv, TypeOK, FilesTyped
<1> USE DEF MigratedInTime, NeedsMigration
<1>2. CASE pc \notin {"loop", "reinstall", "exited"}
  <2>1. CASE SkipMigration
    BY <1>1, <2>1 DEF SkipMigration, Goto, Orderly, diskVars
  <2>2. CASE WriteMigrated
    BY <1>1, <2>2 DEF WriteMigrated, Goto
  <2>3. CASE RenameMigrated
    BY <1>1, <1>t, <2>3, FileAssumption DEF RenameMigrated, Goto, FileAssumption
  <2>4. CASE Restart
    BY <2>4 DEF Restart
  <2>5. ASSUME UNCHANGED <<ini, toml, temp>>, pc' # "rename",
               pc \in {"peek", "migrate", "rename"} => pc' \in {"peek", "migrate", "rename"}
        PROVE  MigratedInTime'
    BY <1>1, <2>5
  <2>6. CASE UNCHANGED <<ini, toml, temp, pc>>
    BY <1>1, <2>6
  <2>7. QED
    BY <1>2, <2>1, <2>2, <2>3, <2>4, <2>5, <2>6, StepBeforeLoop
    DEF Peek, BeginRegister, BeginRegistering, Registered, LoadAll, InstallHooks, BeginLoadPatches,
        EndLoadPatches, EnterLoop, LoadPatch, EnsureEnabled, RegisterPatch, Goto, diskVars, threadVars, vars
<1>3. CASE pc \in {"loop", "reinstall", "exited"}
  <2>1. CASE Restart
    BY <2>1 DEF Restart
  <2>2. CASE SaveRename
    <3>1. toml' = root /\ root \in Tables
      BY <1>1, <2>2 DEF SaveRename, AllInv, KeepInv, SavesFollow, TypeOK, FilesTyped
    <3>2. QED
      BY <1>3, <2>2, <3>1, FileAssumption DEF SaveRename, threadVars, FileAssumption
  <2>3. CASE UNCHANGED <<ini, toml>>
    BY <1>1, <1>3, <2>1, <2>3, LoopIsKept
  <2>4. QED
    BY <1>3, <2>1, <2>2, <2>3, StepInLoop
    DEF EndReinstall, Quit, AskSave, LoadSettings, SetOption, SaveLock, SaveCollect, SaveWrite, BeginDetach, PostQuit,
        Unload, BeginReinstall, TogglePatch, ChangePatchSetting, DetachPatch, diskVars, vars
<1>4. QED
  BY <1>2, <1>3

\* What the tables hold, and what Settle makes of them.
LEMMA SettleAt ==
    ASSUME NEW table, NEW x \in Prefs
    PROVE  Settle(table)[x] = IF table[x] = Unset THEN x \in ByDefault ELSE table[x]
BY DEF Settle

LEMMA ReadIsTable == ASSUME TypeOK PROVE Read \in Tables
BY BlankIsTable DEF Read, TypeOK, FilesTyped

LEMMA OptionsAreOff == ASSUME NEW x \in Options PROVE x \notin ByDefault /\ x \in Prefs
BY StartupAssumption DEF StartupAssumption, Prefs

\* LoadAll: the options become what the file says.
LEMMA OptionsReadAt ==
    ASSUME TypeOK, NEW x \in Options, on[x] => Read[x] = TRUE
    PROVE  OptionsRead[x] <=> Settle(Read)[x]
<1>1. on[x] \in BOOLEAN /\ Read[x] \in BOOLEAN \cup {Unset}
  BY ReadIsTable DEF TypeOK, SwitchesTyped, Tables, Prefs
<1>2. /\ Read[x] = Unset => ~Settle(Read)[x]
      /\ Read[x] # Unset => Settle(Read)[x] = Read[x]
  BY OptionsAreOff DEF Settle
<1>3. CASE toml \in {Absent, Broken}
  <2>1. Read[x] = Unset /\ OptionsRead[x] = on[x]
    BY <1>3, OptionsAreOff DEF Read, Blank, OptionsRead
  <2>2. QED
    BY <1>1, <1>2, <2>1, StartupAssumption DEF StartupAssumption
<1>4. CASE toml \notin {Absent, Broken}
  <2>1. Read[x] = toml[x] /\ OptionsRead[x] = IF toml[x] # Unset THEN toml[x] ELSE on[x]
    BY <1>4, OptionsAreOff DEF Read, OptionsRead
  <2>2. QED
    BY <1>1, <1>2, <2>1, StartupAssumption DEF StartupAssumption
<1>5. QED
  BY <1>3, <1>4

LEMMA OptionsStep == AllInv /\ [Next]_vars => OptionsInTime'
<1> SUFFICES ASSUME AllInv, [Next]_vars, disorder' = 0 PROVE OptionsInTime'
  BY DEF OptionsInTime
<1>1. disorder = 0 /\ ~Disorder /\ OptionsInTime /\ MigratedInTime
  BY InOrder DEF AllInv, KeepInv
<1>t. TypeOK /\ on \in [Prefs -> BOOLEAN] /\ Patches \subseteq Prefs /\ Options \subseteq Prefs
  BY DEF AllInv, TypeOK, SwitchesTyped, Prefs
<1> USE DEF OptionsInTime
<1>2. CASE Restart
  BY <1>2 DEF Restart, Off, Prefs
<1>3. CASE pc \in {"loop", "reinstall", "exited"}
  BY <1>2, <1>3, LoopIsKept
<1>4. CASE pc \notin {"loop", "reinstall", "exited"}
  <2>1. CASE Peek
    BY <1>1, <1>t, <2>1 DEF Peek, Goto, Read, diskVars, Options
  <2>2. CASE RenameMigrated
    <3>1. \A x \in Options : ~on[x]
      BY <1>1, <2>2, OptionsAreOff, StartupAssumption
      DEF RenameMigrated, Goto, MigratedInTime, NeedsMigration, Read, Blank, StartupAssumption
    <3>2. QED
      BY <2>2, <3>1 DEF RenameMigrated, Goto, managerVars
  <2>3. CASE LoadAll
    <3>1. \A x \in Options : OptionsRead[x] <=> Settle(Read)[x]
      BY <1>1, <1>t, <2>3, OptionsReadAt DEF LoadAll, Goto
    <3>2. Read' = Read
      BY <2>3 DEF LoadAll, Read, diskVars
    <3>3. QED
      BY <2>3, <3>1, <3>2 DEF LoadAll, Goto, Settle
  <2>4. ASSUME UNCHANGED <<on, toml>>,
               \/ pc' = pc
               \/ pc \in {"migrate", "rename", "register", "load"} /\ pc' \in {"migrate", "rename", "register", "load"}
               \/ pc \in {"hooks", "patches", "loading", "defaults"}
                     /\ pc' \in {"hooks", "patches", "loading", "defaults", "loop"}
        PROVE  OptionsInTime'
    <3>1. Read' = Read
      BY <2>4 DEF Read
    <3>2. QED
      BY <1>1, <2>4, <3>1 DEF Settle
  <2>5. ASSUME NEW p \in Patches, LoadPatch(p) \/ EnsureEnabled(p) PROVE OptionsInTime'
    <3>1. Read' = Read /\ \A x \in Options : on'[x] = on[x]
      BY <1>t, <2>5, OptionsReadKeeps DEF LoadPatch, EnsureEnabled, Read, diskVars
    <3>2. pc' = pc /\ pc \in {"loading", "defaults"}
      BY <2>5 DEF LoadPatch, EnsureEnabled, Goto
    <3>3. QED
      BY <1>1, <3>1, <3>2 DEF Settle
  <2>6. QED
    BY <1>1, <1>2, <1>4, <2>1, <2>2, <2>3, <2>4, <2>5, StepBeforeLoop
    DEF SkipMigration, WriteMigrated, BeginRegister, BeginRegistering, Registered, InstallHooks, BeginLoadPatches,
        EndLoadPatches, EnterLoop, RegisterPatch, Goto, diskVars, managerVars, threadVars, vars
<1>5. QED
  BY <1>3, <1>4

LEMMA PatchesStep == AllInv /\ [Next]_vars => PatchesInTime'
<1> SUFFICES ASSUME AllInv, [Next]_vars, disorder' = 0 PROVE PatchesInTime'
  BY DEF PatchesInTime
<1>1. disorder = 0 /\ ~Disorder /\ PatchesInTime
  BY InOrder DEF AllInv, KeepInv
<1>t. /\ TypeOK /\ on \in [Prefs -> BOOLEAN] /\ plan \in Tables
      /\ Patches \subseteq Prefs /\ Options \subseteq Prefs /\ Unset \notin BOOLEAN
  BY StartupAssumption DEF AllInv, TypeOK, SwitchesTyped, FilesTyped, Prefs, StartupAssumption
<1>f. pc \notin {"peek", "migrate", "rename", "register"} => found = Patches
  BY <1>1 DEF AllInv, KeepInv, FullInTime
<1> USE DEF PatchesInTime
<1>2. CASE Restart
  BY <1>2 DEF Restart, Off, Prefs
<1>3. CASE pc \in {"loop", "reinstall", "exited"}
  BY <1>2, <1>3, LoopIsKept
<1>4. CASE pc \notin {"loop", "reinstall", "exited"}
  <2>1. CASE Peek
    BY <1>1, <1>t, <2>1, OptionsReadKeeps DEF Peek, Goto, Options
  <2>2. CASE LoadAll
    BY <1>1, <1>t, <2>2, OptionsReadKeeps DEF LoadAll, Goto
  <2>3. CASE BeginLoadPatches
    <3>1. plan' = Read' /\ on' = on /\ fromConfig' = fromConfig
      BY <2>3 DEF BeginLoadPatches, Read, diskVars, managerVars
    <3>2. todo' = {p \in Patches : plan'[p] # Unset}
      BY <1>f, <2>3 DEF BeginLoadPatches, Goto
    <3>3. QED
      BY <1>1, <2>3, <3>1, <3>2 DEF BeginLoadPatches, Goto
  <2>4. ASSUME NEW p \in Patches, LoadPatch(p) PROVE PatchesInTime'
    <3>1. pc = "loading" /\ pc' = "loading" /\ p \in todo /\ todo' = todo \ {p} /\ fromConfig' = fromConfig \cup {p}
      BY <2>4 DEF LoadPatch, Goto
    <3>2. Read' = Read /\ plan' = plan
      BY <2>4 DEF LoadPatch, Read, diskVars
    <3>3. plan[p] \in BOOLEAN
      BY <1>t, <3>1 DEF TypeOK, LoadingHasEntries, Tables
    <3>4. on' = [on EXCEPT ![p] = plan[p]]
      BY <1>1, <1>t, <2>4, <3>3 DEF LoadPatch
    <3>5. QED
      BY <1>1, <1>t, <3>1, <3>2, <3>3, <3>4
  <2>5. CASE EndLoadPatches
    <3>1. pc = "loading" /\ pc' = "defaults" /\ todo = {} /\ todo' = Patches
      BY <1>f, <2>5 DEF EndLoadPatches, Goto
    <3>2. Read' = Read /\ plan' = plan /\ on' = on /\ fromConfig' = fromConfig
      BY <2>5 DEF EndLoadPatches, Read, diskVars, managerVars
    <3>3. QED
      BY <1>1, <1>t, <3>1, <3>2
  <2>6. ASSUME NEW p \in Patches, EnsureEnabled(p) PROVE PatchesInTime'
    <3>1. pc = "defaults" /\ pc' = "defaults" /\ p \in todo /\ todo' = todo \ {p} /\ fromConfig' = fromConfig
      BY <2>6 DEF EnsureEnabled, Goto
    <3>2. Read' = Read /\ plan' = plan
      BY <2>6 DEF EnsureEnabled, Read, diskVars
    <3>3. \A q \in Patches \ {p} : on'[q] = on[q]
      BY <1>t, <2>6 DEF EnsureEnabled
    <3>4. on'[p] <=> Settle(plan)[p]
      <4>1. Settle(plan)[p] = IF plan[p] = Unset THEN p \in ByDefault ELSE plan[p]
        BY <1>t, SettleAt
      <4>2. plan[p] \in BOOLEAN \cup {Unset} /\ on[p] \in BOOLEAN
        BY <1>t DEF Tables
      <4>3. (p \in fromConfig <=> plan[p] # Unset) /\ (on[p] <=> plan[p] = TRUE)
        BY <1>1, <3>1
      <4>4. CASE p \notin fromConfig /\ ~on[p] /\ p \in ByDefault
        <5>1. on' = [on EXCEPT ![p] = TRUE]
          BY <1>1, <2>6, <4>4 DEF EnsureEnabled, Orderly
        <5>2. QED
          BY <1>t, <4>1, <4>3, <4>4, <5>1
      <4>5. CASE ~(p \notin fromConfig /\ ~on[p] /\ p \in ByDefault)
        <5>1. on' = on
          BY <1>1, <2>6, <4>5 DEF EnsureEnabled
        <5>2. QED
          BY <1>t, <4>1, <4>2, <4>3, <4>5, <5>1
      <4>6. QED
        BY <4>4, <4>5
    <3>5. Settle(plan)' = Settle(plan)
      BY <3>2 DEF Settle
    <3>6. QED
      BY <1>1, <3>1, <3>2, <3>3, <3>4, <3>5
  <2>7. ASSUME UNCHANGED <<on, fromConfig, plan, todo, toml>>,
               \/ pc' = pc
               \/ pc' \in {"loop", "exited"}
               \/ {pc, pc'} \subseteq {"migrate", "rename", "register", "load", "hooks", "patches"}
        PROVE  PatchesInTime'
    <3>1. Read' = Read /\ Settle(plan)' = Settle(plan)
      BY <2>7 DEF Read, Settle
    <3>2. QED
      BY <1>1, <2>7, <3>1
  <2>8. CASE RenameMigrated
    BY <1>1, <2>8 DEF RenameMigrated, Goto, managerVars
  <2>9. QED
    BY <1>1, <1>2, <1>4, <2>1, <2>2, <2>3, <2>4, <2>5, <2>6, <2>7, <2>8, StepBeforeLoop
    DEF SkipMigration, WriteMigrated, BeginRegister, BeginRegistering, Registered, InstallHooks, EnterLoop,
        RegisterPatch, Goto, diskVars, managerVars, threadVars, vars
<1>5. QED
  BY <1>3, <1>4

THEOREM AllInvHolds == Spec => []AllInv
<1>1. AllInv /\ [Next]_vars => KeepInv'
  BY SavesStep, FullStep, MigratedStep, OptionsStep, PatchesStep DEF KeepInv
<1>2. QED
  BY <1>1, KeepInit, UnloadInvHolds, TypeCorrect, PTL DEF Spec, AllInv

-----------------------------------------------------------------------------
(* The promise. *)

LEMMA KeptIsRead == ASSUME ~NeedsMigration PROVE Kept = Settle(Read)
BY DEF Kept, Read

\* Whatever is in force, it is a choice for every switch.
LEMMA KeptIsTyped == ASSUME TypeOK PROVE Kept \in [Prefs -> BOOLEAN]
<1>1. ASSUME NEW table \in Tables PROVE Settle(table) \in [Prefs -> BOOLEAN]
  <2>1. ASSUME NEW x \in Prefs
        PROVE  (IF table[x] = Unset THEN x \in ByDefault ELSE table[x]) \in BOOLEAN
    <3>1. CASE table[x] = Unset
      <4>1. (x \in ByDefault) \in BOOLEAN
        OBVIOUS
      <4>2. QED
        BY <3>1, <4>1
    <3>2. CASE table[x] # Unset
      BY <3>2 DEF Tables
    <3>3. QED
      BY <3>1, <3>2
  <2>2. QED
    BY <2>1 DEF Settle
<1>2. CASE NeedsMigration
  BY <1>1, <1>2 DEF Kept, NeedsMigration, TypeOK, FilesTyped
<1>3. CASE ~NeedsMigration
  BY <1>1, <1>3, KeptIsRead, ReadIsTable
<1>4. QED
  BY <1>2, <1>3

\* In the loop what is in force is what is in memory.
LEMMA CurrentInLoop ==
    ASSUME TypeOK, BusyIsFound, pc = "loop", detach = "no"
    PROVE  Current = on
<1>1. busy = None /\ \A x \in Prefs : x # busy
  BY StartupAssumption DEF BusyIsFound, StartupAssumption
<1>2. on \in [Prefs -> BOOLEAN]
  BY DEF TypeOK, SwitchesTyped
<1>3. QED
  BY <1>1, <1>2 DEF Current

LEMMA CurrentElsewhere ==
    ASSUME pc \notin {"loop", "reinstall"} \/ detach # "no"
    PROVE  Current = Kept
BY DEF Current

LEMMA CurrentIsTyped == ASSUME TypeOK PROVE Current \in [Prefs -> BOOLEAN]
BY KeptIsTyped DEF Current

LEMMA KeptStays == ASSUME UNCHANGED <<ini, toml>> PROVE Kept' = Kept
BY DEF Kept, NeedsMigration, Settle, Blank

\* The start-up arrives at what the file says.
LEMMA ArrivesAtKept ==
    ASSUME AllInv, disorder = 0, pc = "defaults", todo = {}
    PROVE  on = Kept
<1>1. /\ TypeOK /\ MigratedInTime /\ OptionsInTime /\ PatchesInTime
      /\ on \in [Prefs -> BOOLEAN]
  BY DEF AllInv, KeepInv, TypeOK, SwitchesTyped
<1>2. Kept = Settle(Read) /\ plan = Read
  BY <1>1, KeptIsRead DEF MigratedInTime, PatchesInTime
<1>3. Kept \in [Prefs -> BOOLEAN]
  BY <1>1, KeptIsTyped
<1>4. ASSUME NEW x \in Prefs PROVE on[x] = Kept[x]
  <2>1. on[x] \in BOOLEAN /\ Kept[x] \in BOOLEAN
    BY <1>1, <1>3
  <2>2. CASE x \in Options
    BY <1>1, <1>2, <2>1, <2>2 DEF OptionsInTime
  <2>3. CASE x \in Patches
    BY <1>1, <1>2, <2>1, <2>3 DEF PatchesInTime
  <2>4. QED
    BY <2>2, <2>3 DEF Prefs
<1>5. QED
  BY <1>1, <1>3, <1>4

LEMMA PromiseBeforeLoop ==
    ASSUME AllInv, [Next]_vars, disorder' = 0, pc \notin {"loop", "reinstall", "exited"}
    PROVE  UNCHANGED Contract!vars
<1>1. disorder = 0 /\ ~Disorder /\ TypeOK /\ KeepInv /\ Current = Kept
  BY InOrder, CurrentElsewhere DEF AllInv
<1>2. saving = "no" /\ detach = "no"
  BY <1>1 DEF AllInv, KeepInv, SavesFollow, UnloadInv, Leaving
<1>3. CASE RenameMigrated
  <2>1. NeedsMigration /\ temp = ini /\ ini \in Tables /\ ini' = ini /\ toml' = ini
    BY <1>1, <1>3 DEF RenameMigrated, Goto, KeepInv, MigratedInTime, NeedsMigration, TypeOK, FilesTyped
  <2>2. Kept' = Kept
    BY <2>1, FileAssumption DEF Kept, NeedsMigration, Settle, FileAssumption
  <2>3. Current' = Kept' /\ edits' = edits
    BY <1>3 DEF RenameMigrated, Goto, Current
  <2>4. QED
    BY <1>1, <2>2, <2>3 DEF Contract!vars
<1>4. CASE EnterLoop
  <2>1. on = Kept /\ on' = on /\ UNCHANGED <<ini, toml>> /\ pc' = "loop" /\ detach' = "no" /\ edits' = edits
    BY <1>1, <1>2, <1>4, ArrivesAtKept DEF EnterLoop, Goto, diskVars, managerVars, detachVars
  <2>2. busy' = None
    BY <1>4 DEF EnterLoop, Goto, AllInv, UnloadInv, BusyIsFound
  <2>3. Kept' = Kept
    BY <2>1, KeptStays
  <2>4. Current' = on
    <3>1. \A x \in Prefs : x # busy'
      BY <2>2, StartupAssumption DEF StartupAssumption
    <3>2. on \in [Prefs -> BOOLEAN]
      BY <1>1 DEF TypeOK, SwitchesTyped
    <3>3. QED
      BY <2>1, <3>1, <3>2 DEF Current
  <2>5. QED
    BY <1>1, <2>1, <2>3, <2>4 DEF Contract!vars
<1>5. ASSUME UNCHANGED <<ini, toml, edits>>, pc' \notin {"loop", "reinstall"}
      PROVE  UNCHANGED Contract!vars
  <2>1. Kept' = Kept
    BY <1>5, KeptStays
  <2>2. Current' = Kept'
    BY <1>5 DEF Current
  <2>3. QED
    BY <1>1, <1>5, <2>1, <2>2 DEF Contract!vars
<1>6. QED
  BY <1>1, <1>3, <1>4, <1>5, StepBeforeLoop
  DEF Peek, SkipMigration, WriteMigrated, BeginRegister, BeginRegistering, Registered, LoadAll, InstallHooks,
      BeginLoadPatches, EndLoadPatches, LoadPatch, EnsureEnabled, RegisterPatch, Restart, Goto, diskVars,
      threadVars, vars

\* From the detach on what counts is the next start.
LEMMA PromiseWhenLeaving ==
    ASSUME AllInv, [Next]_vars, disorder' = 0, pc \in {"loop", "reinstall", "exited"},
           pc = "exited" \/ detach # "no", ~Restart
    PROVE  UNCHANGED Contract!vars
<1>1. disorder = 0 /\ ~Disorder /\ TypeOK /\ KeepInv /\ Leaving /\ Current = Kept
  BY InOrder, CurrentElsewhere DEF AllInv, UnloadInv
<1>2. saving = "no" /\ pc # "reinstall"
  BY <1>1 DEF KeepInv, SavesFollow, Leaving
<1>3. ~EndReinstall /\ \A p \in Patches : ~BeginReinstall(p)
  BY <1>1, <1>2 DEF EndReinstall, BeginReinstall, Goto, Leaving
<1>4. /\ ~AskSave /\ ~LoadSettings /\ \A x \in Options : ~SetOption(x)
      /\ \A p \in Patches : ~TogglePatch(p) /\ ~ChangePatchSetting(p)
      /\ ~SaveLock /\ ~SaveCollect /\ ~SaveWrite /\ ~SaveRename /\ ~BeginDetach
  BY <1>1, <1>2 DEF AskSave, LoadSettings, SetOption, TogglePatch, ChangePatchSetting, SaveLock, SaveCollect, SaveWrite,
     SaveRename, BeginDetach, OverlayFree, Orderly
<1>5. /\ UNCHANGED <<ini, toml, edits>>
      /\ pc' = "exited" \/ detach' # "no"
  BY <1>3, <1>4, StepInLoop
  DEF Quit, PostQuit, Unload, DetachPatch, Goto, diskVars, threadVars, detachVars, vars
<1>6. Kept' = Kept /\ Current' = Kept'
  BY <1>5, KeptStays DEF Current
<1>7. QED
  BY <1>1, <1>5, <1>6 DEF Contract!vars

\* A reinstall does not show.
LEMMA PromiseInReinstall ==
    ASSUME AllInv, [Next]_vars, disorder' = 0, pc = "reinstall", detach = "no", ~Restart
    PROVE  UNCHANGED Contract!vars
<1>1. disorder = 0 /\ ~Disorder /\ TypeOK /\ KeepInv /\ BusyIsFound /\ on \in [Prefs -> BOOLEAN]
  BY InOrder DEF AllInv, UnloadInv, TypeOK, SwitchesTyped
<1>2. saving = "no" /\ busy \in Patches /\ \A x \in Prefs : x # None
  BY <1>1, StartupAssumption DEF KeepInv, SavesFollow, BusyIsFound, TypeOK, ManagerTyped, StartupAssumption
<1>3. CASE EndReinstall
  <2>1. /\ on' = [on EXCEPT ![busy] = TRUE] /\ busy' = None /\ pc' = "loop" /\ detach' = "no"
        /\ UNCHANGED <<ini, toml, edits>>
    BY <1>1, <1>3 DEF EndReinstall, Goto, diskVars, detachVars
  <2>2. Current' = Current
    BY <1>1, <1>2, <2>1 DEF Current
  <2>3. QED
    BY <2>1, <2>2, KeptStays DEF Contract!vars
<1>4. CASE UNCHANGED vars
  BY <1>4, KeptStays DEF vars, diskVars, managerVars, threadVars, detachVars, Contract!vars, Current
<1>5. QED
  BY <1>1, <1>2, <1>3, <1>4, StepInLoop
  DEF Quit, AskSave, LoadSettings, SetOption, SaveLock, SaveCollect, SaveWrite, SaveRename, BeginDetach, PostQuit, Unload,
      BeginReinstall, TogglePatch, ChangePatchSetting, DetachPatch, Goto, OverlayFree, Orderly

LEMMA PromiseInLoop ==
    ASSUME AllInv, [Next]_vars, disorder' = 0, pc = "loop", detach = "no", ~Restart
    PROVE  [Contract!Next]_Contract!vars
<1>1. /\ disorder = 0 /\ ~Disorder /\ TypeOK /\ KeepInv /\ BusyIsFound /\ on \in [Prefs -> BOOLEAN]
      /\ Current = on /\ Kept \in [Prefs -> BOOLEAN]
  BY InOrder, CurrentInLoop, KeptIsTyped DEF AllInv, UnloadInv, TypeOK, SwitchesTyped
<1>2. busy = None /\ (\A x \in Prefs : x # None) /\ Patches \subseteq Prefs /\ Options \subseteq Prefs
  BY <1>1, StartupAssumption DEF BusyIsFound, StartupAssumption, Prefs
<1>c. ASSUME pc' = "loop", detach' = "no", busy' = None, on' \in [Prefs -> BOOLEAN] PROVE Current' = on'
  BY <1>2, <1>c DEF Current
<1>3. ASSUME NEW p \in Patches, BeginReinstall(p) PROVE UNCHANGED Contract!vars
  <2>1. /\ on[p] /\ on' = [on EXCEPT ![p] = FALSE] /\ busy' = p /\ pc' = "reinstall" /\ detach' = "no"
        /\ UNCHANGED <<ini, toml, edits>>
    BY <1>3 DEF BeginReinstall, Goto, diskVars, detachVars
  <2>2. Current' = on
    BY <1>1, <1>2, <2>1 DEF Current
  <2>3. QED
    BY <1>1, <2>1, <2>2, KeptStays DEF Contract!vars
<1>4. ASSUME NEW x \in Prefs, on' = [on EXCEPT ![x] = ~on[x]], edits' = edits + 1,
             UNCHANGED <<ini, toml, pc, detach, busy>>
      PROVE  Contract!Next
  <2>1. Current' = [Current EXCEPT ![x] = ~Current[x]]
    BY <1>1, <1>2, <1>4, <1>c
  <2>2. Contract!Change(x)
    BY <1>4, <2>1, KeptStays DEF Contract!Change
  <2>3. QED
    BY <2>2 DEF Contract!Next
<1>5. ASSUME NEW p \in Patches, TogglePatch(p) PROVE Contract!Next
  BY <1>2, <1>4, <1>5 DEF TogglePatch, Edit, diskVars, threadVars, detachVars
<1>6. ASSUME NEW x \in Options, SetOption(x) PROVE Contract!Next
  BY <1>2, <1>4, <1>6 DEF SetOption, Edit, diskVars, threadVars, detachVars
<1>7. ASSUME NEW p \in Patches, ChangePatchSetting(p) PROVE Contract!Next
  <2>1. UNCHANGED <<ini, toml, on, pc, detach, busy>> /\ edits' = edits + 1
    BY <1>7 DEF ChangePatchSetting, Edit, diskVars, threadVars, detachVars
  <2>2. QED
    BY <1>1, <1>2, <1>c, <2>1, KeptStays DEF Contract!Next, Contract!ChangeElsewhere
<1>8. CASE AskSave \/ SaveLock \/ SaveCollect \/ SaveWrite \/ UNCHANGED vars
  <2>1. UNCHANGED <<ini, toml, on, pc, detach, busy, edits>>
    BY <1>8 DEF AskSave, SaveLock, SaveCollect, SaveWrite, vars, diskVars, managerVars, threadVars, detachVars
  <2>2. QED
    BY <1>1, <1>2, <1>c, <2>1, KeptStays DEF Contract!vars
<1>9. CASE LoadSettings
  <2>1. on' = OptionsRead /\ UNCHANGED <<ini, toml, pc, detach, busy, edits>>
    BY <1>9 DEF LoadSettings, diskVars, threadVars, detachVars
  <2>2. on' \in [Prefs -> BOOLEAN]
    BY <1>1, <2>1 DEF OptionsRead, TypeOK, FilesTyped, Tables
  <2> DEFINE S == {x \in Options : toml \notin {Absent, Broken} /\ toml[x] # Unset}
  <2>3. Kept = Settle(Read)
    BY <1>1, KeptIsRead DEF KeepInv, MigratedInTime
  <2>4. \A x \in S : Kept[x] = toml[x]
    BY <1>2, <2>3 DEF Read, Settle
  <2>5. Current' = [x \in Prefs |-> IF x \in S THEN Kept[x] ELSE Current[x]]
    BY <1>1, <1>2, <1>c, <2>1, <2>2, <2>4 DEF OptionsRead
  <2>6. Contract!BringBack(S) /\ S \in SUBSET Prefs
    BY <1>2, <2>1, <2>5, KeptStays DEF Contract!BringBack
  <2>7. QED
    BY <2>6 DEF Contract!Next
<1>10. CASE SaveRename
  <2>1. toml' = on /\ root = on
    BY <1>1, <1>10 DEF SaveRename, KeepInv, SavesFollow
  <2>2. UNCHANGED <<ini, on, pc, detach, busy, edits>>
    BY <1>10 DEF SaveRename, managerVars, threadVars, detachVars
  <2>3. on \in Tables /\ \A x \in Prefs : on[x] # Unset
    BY <1>1, <2>1, StartupAssumption DEF TypeOK, FilesTyped, StartupAssumption
  <2>4. Kept' = on
    <3>1. ~NeedsMigration' /\ Kept' = Settle(on)
      BY <2>1, <2>3, FileAssumption DEF Kept, NeedsMigration, FileAssumption, Settle
    <3>2. Settle(on) = on
      BY <1>1, <2>3 DEF Settle
    <3>3. QED
      BY <3>1, <3>2
  <2>5. Contract!Save
    BY <1>1, <1>2, <1>c, <2>2, <2>4 DEF Contract!Save
  <2>6. QED
    BY <2>5 DEF Contract!Next
<1>11. CASE BeginDetach
  <2>1. detach' # "no" /\ UNCHANGED <<ini, toml, edits>>
    BY <1>11 DEF BeginDetach, diskVars
  <2>2. Kept' = Kept /\ Current' = Kept
    BY <2>1, KeptStays DEF Current
  <2>3. Contract!BringBack(Prefs)
    BY <1>1, <2>1, <2>2 DEF Contract!BringBack
  <2>4. QED
    BY <2>3 DEF Contract!Next
<1>12. QED
  BY <1>1, <1>3, <1>5, <1>6, <1>7, <1>8, <1>9, <1>10, <1>11, StepInLoop
  DEF EndReinstall, Quit, PostQuit, Unload, DetachPatch, Goto

\* A new start brings back all that was kept.
LEMMA PromiseAtRestart ==
    ASSUME TypeOK, Restart
    PROVE  Contract!Next
<1>1. UNCHANGED <<ini, toml, edits>> /\ pc' = "peek"
  BY DEF Restart, diskVars
<1>2. Kept' = Kept /\ Current' = Kept /\ Kept \in [Prefs -> BOOLEAN]
  BY <1>1, KeptStays, KeptIsTyped DEF Current
<1>3. Contract!BringBack(Prefs)
  BY <1>1, <1>2 DEF Contract!BringBack
<1>4. QED
  BY <1>3 DEF Contract!Next

\* While nothing fails and the user waits for the start-up, what was saved, or stood in
\* the old INI, comes back at every start, and nothing else does (HookThread, SaveAll,
\* CheckAndMigrate, DllMain): every step is one that Preferences allows.
THEOREM PromiseKept == Spec => PreferencesKept
<1>1. ASSUME AllInv, [Next]_vars, disorder' = 0 PROVE [Contract!Next]_Contract!vars
  <2>1. CASE Restart
    BY <1>1, <2>1, PromiseAtRestart DEF AllInv
  <2>2. CASE pc \notin {"loop", "reinstall", "exited"}
    BY <1>1, <2>2, PromiseBeforeLoop
  <2>3. CASE ~Restart /\ pc \in {"loop", "reinstall", "exited"} /\ (pc = "exited" \/ detach # "no")
    BY <1>1, <2>3, PromiseWhenLeaving
  <2>4. CASE ~Restart /\ pc = "reinstall" /\ detach = "no"
    BY <1>1, <2>4, PromiseInReinstall
  <2>5. CASE ~Restart /\ pc = "loop" /\ detach = "no"
    BY <1>1, <2>5, PromiseInLoop
  <2>6. QED
    BY <2>1, <2>2, <2>3, <2>4, <2>5
<1>2. AllInv /\ [Next]_vars => [disorder' = 0 => [Contract!Next]_Contract!vars]_vars
  BY <1>1
<1>3. QED
  BY <1>2, AllInvHolds, PTL DEF Spec, PreferencesKept

=============================================================================
