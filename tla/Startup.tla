------------------------------- MODULE Startup -------------------------------
(***************************************************************************)
(* HookThread from the first look at the config file to the message loop,  *)
(* the patch manager it fills, the saves of the overlay's thread meanwhile *)
(* and later, crashes with restarts, and the detach of the library.        *)
(*                                                                         *)
(* A config file is a function: for each patch whether it is on, for each  *)
(* option of [qol] whether it is set, Unset where the file has no entry.   *)
(* The game's settings are the business of SettingsStore.                  *)
(***************************************************************************)
EXTENDS Integers

CONSTANTS
    Patches,     \* what PatchRegistry instantiates
    ByDefault,   \* the patches with enabledByDefault
    Unset, Absent, Broken, \* no entry, no file, a file that does not parse
    None,        \* no patch
    InitialFiles, \* the config files a user may begin with
    InitialOldFiles, \* the old INI files, as tables
    MaxEdits,    \* bound: changes the user makes
    MaxSessions, \* bound: times the game is started
    MaxDisorder  \* bound: steps that fail, or that come at a bad moment

Options == {"disable_overlay", "borderless", "disable_hooks"}
Prefs == Patches \cup Options

ASSUME StartupAssumption ==
    /\ Patches \cap Options = {}
    /\ ByDefault \subseteq Patches
    /\ Unset \notin BOOLEAN
    /\ None \notin Prefs
    /\ MaxEdits \in Nat /\ MaxSessions \in Nat /\ MaxDisorder \in Nat

Tables == [Prefs -> BOOLEAN \cup {Unset}]

ASSUME FileAssumption ==
    /\ Absent \notin Tables /\ Broken \notin Tables /\ Absent # Broken
    /\ InitialFiles \subseteq Tables /\ InitialOldFiles \subseteq Tables

VARIABLES
    ini, toml, temp, \* the old Sims3SettingsSetter.ini, S3SS.toml, S3SS.toml.tmp
    pc,       \* where HookThread is
    registering, found, \* OptimizationManager::Get: who fills it, and what it holds
    plan,     \* the table LoadPatches has parsed
    todo,     \* the patches a loop of HookThread has still to visit
    fromConfig, \* enablementLoadedFromConfig
    on,       \* isEnabled of each patch, and the options in memory
    pending, busy, \* pendingReinstall of each patch, the one being reinstalled
    device,   \* the D3D9 hooks: none, for borderless only, or with the overlay
    hooks,    \* g_hookManager has installed its hooks
    mutex,    \* ConfigStore::m_mutex
    saving, root, \* where SaveAll is, and what it has collected
    detach, leaving, \* where DllMain's detach is, the patches it has still to visit
    left,     \* history: the patches the detach could not have removed
    edits, sessions,
    disorder  \* failures and ill-timed steps so far

diskVars == <<ini, toml, temp>>
managerVars == <<registering, found, fromConfig, on, pending>>
threadVars == <<pc, plan, todo, busy, device, hooks>>
saveVars == <<saving, root>>
detachVars == <<detach, leaving, left>>
vars == <<disorder, diskVars, managerVars, threadVars, mutex, saveVars, detachVars, edits, sessions>>

-----------------------------------------------------------------------------
Blank == [x \in Prefs |-> Unset]
Off == [x \in Prefs |-> FALSE]

\* What an absent entry stands for.
Settle(table) == [x \in Prefs |-> IF table[x] = Unset THEN x \in ByDefault ELSE table[x]]

NeedsMigration == ini # Absent /\ toml = Absent

\* What the next start will bring, from the files as they are.
Kept ==
    IF NeedsMigration THEN Settle(ini)
    ELSE IF toml \in {Absent, Broken} THEN Settle(Blank)
    ELSE Settle(toml)

\* Beside a config file the old one is never read.
Init ==
    /\ toml \in InitialFiles \cup {Absent, Broken}
    /\ ini \in {Absent} \cup IF toml = Absent THEN InitialOldFiles ELSE {}
    /\ temp = Absent
    /\ pc = "peek"
    /\ registering = "no" /\ found = {} /\ fromConfig = {}
    /\ on = Off /\ pending = {} /\ busy = None
    /\ plan = Blank /\ todo = {}
    /\ device = "none" /\ hooks = FALSE /\ mutex = "free"
    /\ saving = "no" /\ root = Blank
    /\ detach = "no" /\ leaving = {} /\ left = {}
    /\ edits = 0 /\ sessions = 1 /\ disorder = 0

-----------------------------------------------------------------------------
(* HookThread. *)

\* A step that may fail, or may come at a bad moment, does so only so often.
Disorder == disorder < MaxDisorder /\ disorder' = disorder + 1
Orderly(condition) == IF condition THEN UNCHANGED disorder ELSE Disorder

Goto(from, to) ==
    /\ detach # "unloaded"
    /\ pc = from /\ pc' = to

\* The two early peeks store what they read; no file, or one that does not
\* parse, counts as "not set".  InitializeD3D9Hook may fail.
Peek ==
    /\ Goto("peek", "migrate")
    /\ LET read == IF toml \in {Absent, Broken} THEN Blank ELSE toml
           set(x) == read[x] = TRUE
           wanted == IF ~set("disable_overlay") THEN "overlay"
                     ELSE IF set("borderless") THEN "borderless" ELSE "none"
       IN /\ on' = [on EXCEPT !["disable_overlay"] = set("disable_overlay"),
                              !["borderless"] = set("borderless")]
          /\ device' \in {wanted, "none"}
          /\ Orderly(device' = wanted)
    /\ UNCHANGED <<diskVars, registering, found, fromConfig, pending, plan, todo, busy,
                   hooks, mutex, saveVars, detachVars, edits, sessions>>

\* CheckAndMigrate, which takes no mutex: nothing to do, or a failure that is
\* logged, or the table built from the old file goes to the temporary one.
SkipMigration ==
    /\ Goto("migrate", "register")
    /\ Orderly(~NeedsMigration)
    /\ UNCHANGED <<diskVars, managerVars, plan, todo, busy, device, hooks,
                   mutex, saveVars, detachVars, edits, sessions>>

WriteMigrated ==
    /\ Goto("migrate", "rename")
    /\ NeedsMigration
    /\ temp' = ini
    /\ UNCHANGED <<disorder, ini, toml, managerVars, plan, todo, busy, device, hooks,
                   mutex, saveVars, detachVars, edits, sessions>>

RenameMigrated ==
    /\ Goto("rename", "register")
    /\ toml' = temp
    /\ temp' = Absent
    /\ UNCHANGED <<disorder, ini, managerVars, plan, todo, busy, device, hooks,
                   mutex, saveVars, detachVars, edits, sessions>>

\* OptimizationManager::Get fills the manager for whoever calls it first.  Its
\* two flags are plain booleans: another caller meanwhile gets what is there.
BeginRegistering(who) ==
    /\ registering = "no"
    /\ registering' = who
    /\ UNCHANGED <<disorder, diskVars, found, fromConfig, on, pending, threadVars,
                   mutex, saveVars, detachVars, edits, sessions>>

RegisterPatch ==
    /\ registering \in {"hook", "overlay"} /\ detach # "unloaded"
    /\ \E p \in Patches \ found : found' = found \cup {p}
    /\ registering' = IF found' = Patches THEN "done" ELSE registering
    /\ UNCHANGED <<disorder, diskVars, fromConfig, on, pending, threadVars,
                   mutex, saveVars, detachVars, edits, sessions>>

BeginRegister ==
    /\ pc = "register" /\ detach # "unloaded"
    /\ BeginRegistering("hook")

\* The manager is full, or the overlay is still filling it.
Registered ==
    /\ Goto("register", "load")
    /\ registering \in {"done", "overlay"}
    /\ UNCHANGED <<disorder, diskVars, managerVars, plan, todo, busy, device, hooks,
                   mutex, saveVars, detachVars, edits, sessions>>

\* What LoadAll does to the options: the [qol] tables the file has replace them.
OptionsRead ==
    [x \in Prefs |-> IF x \in Options /\ toml \notin {Absent, Broken} /\ toml[x] # Unset
                     THEN toml[x] ELSE on[x]]

LoadAll ==
    /\ Goto("load", "hooks")
    /\ mutex = "free"
    /\ on' = OptionsRead
    /\ UNCHANGED <<disorder, diskVars, registering, found, fromConfig, pending, plan, todo, busy,
                   device, hooks, mutex, saveVars, detachVars, edits, sessions>>

\* An exception out of Initialize ends the thread; a missing vtable does not.
InstallHooks ==
    /\ detach # "unloaded" /\ pc = "hooks"
    /\ \/ pc' = "patches" /\ hooks' = ~on["disable_hooks"] /\ UNCHANGED disorder
       \/ Disorder /\ ~on["disable_hooks"] /\ pc' \in {"patches", "exited"} /\ UNCHANGED hooks
    /\ UNCHANGED <<diskVars, managerVars, plan, todo, busy, device,
                   mutex, saveVars, detachVars, edits, sessions>>

\* LoadPatches, under the mutex from the parsing to the last Install.  Entries
\* of patches the manager does not hold (yet) are passed over.
BeginLoadPatches ==
    /\ Goto("patches", "loading")
    /\ mutex = "free" /\ mutex' = "hook"
    /\ plan' = IF toml \in {Absent, Broken} THEN Blank ELSE toml
    /\ todo' = {p \in found : plan'[p] # Unset}
    /\ UNCHANGED <<disorder, diskVars, managerVars, busy, device, hooks,
                   saveVars, detachVars, edits, sessions>>

\* Mutant of LoadPatch: a patch the file has as disabled is left as it is, and not noted.
LoadPatchEnabled(p) ==
    /\ Goto("loading", "loading")
    /\ p \in todo /\ todo' = todo \ {p}
    /\ fromConfig' = IF plan[p] THEN fromConfig \cup {p} ELSE fromConfig
    /\ on' = [on EXCEPT ![p] = plan[p]]
    /\ UNCHANGED <<disorder, diskVars, registering, found, pending, plan, busy, device, hooks,
                   mutex, saveVars, detachVars, edits, sessions>>

\* LoadFromToml of one patch: Install or Uninstall where they differ; both may fail.
LoadPatch(p) ==
    /\ Goto("loading", "loading")
    /\ p \in todo /\ todo' = todo \ {p}
    /\ fromConfig' = fromConfig \cup {p}
    /\ \/ on' = [on EXCEPT ![p] = plan[p]] /\ UNCHANGED disorder
       \/ on[p] # plan[p] /\ Disorder /\ UNCHANGED on
    /\ UNCHANGED <<diskVars, registering, found, pending, plan, busy, device, hooks,
                   mutex, saveVars, detachVars, edits, sessions>>

\* No try surrounds a single patch: an exception, out of a setting's entry or out of
\* Install, is caught in LoadPatches and ends the load of all that are left.
LoadPatchThrows(p) ==
    /\ Goto("loading", "loading")
    /\ p \in todo /\ todo' = {}
    /\ Disorder
    /\ fromConfig' \in {fromConfig, fromConfig \cup {p}}
    /\ UNCHANGED <<diskVars, registering, found, on, pending, plan, busy, device, hooks,
                   mutex, saveVars, detachVars, edits, sessions>>

\* The mutex is given back before EnsureEnabledByDefaultPatchesAreEnabled.
EndLoadPatches ==
    /\ Goto("loading", "defaults")
    /\ todo = {} /\ todo' = found
    /\ mutex' = "free"
    /\ UNCHANGED <<disorder, diskVars, managerVars, plan, busy, device, hooks,
                   saveVars, detachVars, edits, sessions>>

EnsureEnabled(p) ==
    /\ Goto("defaults", "defaults")
    /\ p \in todo /\ todo' = todo \ {p}
    /\ LET wanted == p \notin fromConfig /\ ~on[p] /\ p \in ByDefault
       IN \/ wanted /\ on' = [on EXCEPT ![p] = TRUE] /\ UNCHANGED disorder
          \/ Orderly(~wanted) /\ UNCHANGED on
    /\ UNCHANGED <<diskVars, registering, found, fromConfig, pending, plan, busy, device,
                   hooks, mutex, saveVars, detachVars, edits, sessions>>

EnterLoop ==
    /\ Goto("defaults", "loop")
    /\ todo = {}
    /\ UNCHANGED <<disorder, diskVars, managerVars, plan, todo, busy, device, hooks,
                   mutex, saveVars, detachVars, edits, sessions>>

\* OptimizationPatch::Update after the debounce: Uninstall, then Install.
BeginReinstall(p) ==
    /\ Goto("loop", "reinstall")
    /\ p \in pending /\ on[p]
    /\ Orderly(saving = "no")
    /\ pending' = pending \ {p}
    /\ on' = [on EXCEPT ![p] = FALSE]
    /\ busy' = p
    /\ UNCHANGED <<diskVars, registering, found, fromConfig, plan, todo, device, hooks,
                   mutex, saveVars, detachVars, edits, sessions>>

EndReinstall ==
    /\ Goto("reinstall", "loop")
    /\ \/ on' = [on EXCEPT ![busy] = TRUE] /\ UNCHANGED disorder
       \/ Disorder /\ UNCHANGED on
    /\ busy' = None
    /\ UNCHANGED <<diskVars, registering, found, fromConfig, pending, plan, todo, device,
                   hooks, mutex, saveVars, detachVars, edits, sessions>>

Quit ==
    /\ Goto("loop", "exited")
    /\ detach = "wait"
    /\ UNCHANGED <<disorder, diskVars, managerVars, plan, todo, busy, device, hooks,
                   mutex, saveVars, detachVars, edits, sessions>>

HookThread ==
    \/ Peek \/ SkipMigration \/ WriteMigrated \/ RenameMigrated
    \/ BeginRegister \/ Registered
    \/ LoadAll \/ InstallHooks \/ BeginLoadPatches
    \/ \E p \in Patches : LoadPatch(p) \/ LoadPatchThrows(p) \/ EnsureEnabled(p)
    \/ EndLoadPatches \/ EnterLoop
    \/ EndReinstall \/ Quit

-----------------------------------------------------------------------------
(* The overlay's thread. *)

\* An orderly user leaves the overlay alone until start-up is over.
OverlayFree ==
    /\ device = "overlay" /\ detach # "unloaded" /\ saving = "no"
    /\ Orderly(pc = "loop" /\ detach = "no")

Edit ==
    /\ edits < MaxEdits
    /\ edits' = edits + 1

\* The check box of a patch: Install or Uninstall.
TogglePatch(p) ==
    /\ OverlayFree /\ Edit
    /\ p \in found
    /\ on' = [on EXCEPT ![p] = ~on[p]]
    /\ left' = IF detach = "no" THEN left ELSE left \cup {p}
    /\ UNCHANGED <<diskVars, registering, found, fromConfig, pending, threadVars,
                   mutex, saveVars, detach, leaving, sessions>>

\* A setting of a patch: NotifySettingChanged.
ChangePatchSetting(p) ==
    /\ OverlayFree /\ Edit
    /\ p \in found
    /\ pending' = pending \cup {p}
    /\ UNCHANGED <<diskVars, registering, found, fromConfig, on, threadVars,
                   mutex, saveVars, detachVars, sessions>>

\* The options save at once; the menu and the title's advice save on request.
SetOption(x) ==
    /\ OverlayFree /\ Edit
    /\ on' = [on EXCEPT ![x] = ~on[x]]
    /\ saving' = "wanted"
    /\ UNCHANGED <<diskVars, registering, found, fromConfig, pending, threadVars,
                   mutex, root, detachVars, sessions>>

AskSave ==
    /\ OverlayFree
    /\ saving' = "wanted"
    /\ UNCHANGED <<diskVars, managerVars, threadVars, mutex, root, detachVars, edits, sessions>>

\* "Load Settings": LoadAll again, which leaves the patches alone.
LoadSettings ==
    /\ OverlayFree /\ mutex = "free"
    /\ on' = OptionsRead
    /\ UNCHANGED <<diskVars, registering, found, fromConfig, pending, threadVars,
                   mutex, saveVars, detachVars, edits, sessions>>

\* SaveAll holds the mutex from its first line.
SaveLock ==
    /\ saving = "wanted" /\ detach # "unloaded"
    /\ mutex = "free" /\ mutex' = "save"
    /\ saving' = "locked"
    /\ UNCHANGED <<disorder, diskVars, managerVars, threadVars, root, detachVars, edits, sessions>>

\* It may be the first to ask for the manager, and then fills it.
SaveRegisters ==
    /\ saving = "locked" /\ detach # "unloaded"
    /\ BeginRegistering("overlay")

SaveCollect ==
    /\ saving = "locked" /\ detach # "unloaded"
    /\ registering \notin {"no", "overlay"}
    /\ root' = [x \in Prefs |-> IF x \in Options \cup found THEN on[x] ELSE Unset]
    /\ saving' = "write"
    /\ UNCHANGED <<disorder, diskVars, managerVars, threadVars, mutex, detachVars, edits, sessions>>

SaveWrite ==
    /\ saving = "write" /\ detach # "unloaded"
    /\ temp' = root
    /\ saving' = "rename"
    /\ UNCHANGED <<disorder, ini, toml, managerVars, threadVars, mutex, root, detachVars, edits, sessions>>

SaveRename ==
    /\ saving = "rename" /\ detach # "unloaded"
    /\ toml' = temp /\ temp' = Absent
    /\ saving' = "no" /\ mutex' = "free"
    /\ UNCHANGED <<disorder, ini, managerVars, threadVars, root, detachVars, edits, sessions>>

\* Mutant of SaveFails: an early return that keeps the mutex.
SaveFailsLocked ==
    /\ saving \in {"write", "rename"} /\ detach # "unloaded" /\ Disorder
    /\ saving' = "no"
    /\ UNCHANGED <<diskVars, managerVars, threadVars, mutex, root, detachVars, edits, sessions>>

\* No config directory, an exception while collecting, or a failing write or rename.
SaveFails ==
    /\ saving \in {"locked", "write", "rename"} /\ detach # "unloaded" /\ Disorder
    /\ saving = "locked" => registering # "overlay"
    /\ saving' = "no" /\ mutex' = "free"
    /\ UNCHANGED <<diskVars, managerVars, threadVars, root, detachVars, edits, sessions>>

SaveStep == SaveLock \/ SaveRegisters \/ SaveCollect \/ SaveWrite \/ SaveRename \/ SaveFails

User ==
    \/ \E p \in Patches : TogglePatch(p) \/ ChangePatchSetting(p)
    \/ \E x \in Options : SetOption(x)
    \/ AskSave \/ LoadSettings

-----------------------------------------------------------------------------
(* FreeLibrary, and the end of the process. *)

\* Get() registers the patches here too if nobody has yet.
BeginDetach ==
    /\ detach = "no" /\ detach' = "uninstall"
    /\ Orderly(pc = "loop" /\ saving = "no" /\ \A p \in pending : ~on[p])
    /\ IF registering = "no"
       THEN found' = Patches /\ registering' = "done"
       ELSE UNCHANGED <<found, registering>>
    /\ leaving' = found' /\ left' = Patches \ found'
    /\ UNCHANGED <<diskVars, fromConfig, on, pending, threadVars, mutex, saveVars, edits, sessions>>

\* The hook thread may still install p: its start-up is not over, or it is between the
\* two halves of p's reinstall, where p looks disabled.
Unsettled(p) == pc \notin {"loop", "reinstall", "exited"} \/ busy = p

\* Mutant of DetachPatch: only patches the file enabled are taken out.
DetachPatchLoaded(p) ==
    /\ detach = "uninstall"
    /\ p \in leaving /\ leaving' = leaving \ {p}
    /\ on' = [on EXCEPT ![p] = on[p] /\ p \notin fromConfig]
    /\ left' = IF Unsettled(p) THEN left \cup {p} ELSE left
    /\ UNCHANGED <<disorder, diskVars, registering, found, fromConfig, pending, threadVars,
                   mutex, saveVars, detach, edits, sessions>>

DetachPatch(p) ==
    /\ detach = "uninstall"
    /\ p \in leaving /\ leaving' = leaving \ {p}
    /\ \/ on' = [on EXCEPT ![p] = FALSE] /\ UNCHANGED disorder
       \/ on[p] /\ Disorder /\ UNCHANGED on
    /\ left' = IF Unsettled(p) \/ on'[p] THEN left \cup {p} ELSE left
    /\ UNCHANGED <<diskVars, registering, found, fromConfig, pending, threadVars,
                   mutex, saveVars, detach, edits, sessions>>

PostQuit ==
    /\ detach = "uninstall" /\ leaving = {}
    /\ detach' = "wait"
    /\ UNCHANGED <<disorder, diskVars, managerVars, threadVars, mutex, saveVars, leaving, left, edits, sessions>>

\* WaitForSingleObject returns when the thread has ended, or after five seconds;
\* CleanupD3D9Hook and g_hookManager.Cleanup follow, whose commits may fail unseen.
Unload ==
    /\ detach = "wait" /\ detach' = "unloaded"
    /\ device' \in {"none", device} /\ hooks' \in {FALSE, hooks}
    /\ Orderly(pc = "exited" /\ device' = "none" /\ ~hooks')
    /\ UNCHANGED <<diskVars, managerVars, pc, plan, todo, busy,
                   mutex, saveVars, leaving, left, edits, sessions>>

\* The game ends or crashes, and is started again.
Restart ==
    /\ sessions < MaxSessions /\ sessions' = sessions + 1
    /\ pc' = "peek"
    /\ registering' = "no" /\ found' = {} /\ fromConfig' = {}
    /\ on' = Off /\ pending' = {} /\ busy' = None
    /\ plan' = Blank /\ todo' = {}
    /\ device' = "none" /\ hooks' = FALSE /\ mutex' = "free"
    /\ saving' = "no" /\ root' = Blank
    /\ detach' = "no" /\ leaving' = {} /\ left' = {}
    /\ UNCHANGED <<disorder, diskVars, edits>>

Detach == BeginDetach \/ (\E p \in Patches : DetachPatch(p)) \/ PostQuit \/ Unload

Next ==
    \/ HookThread \/ RegisterPatch \/ (\E p \in Patches : BeginReinstall(p))
    \/ User \/ SaveStep \/ Detach \/ Restart

Spec == Init /\ [][Next]_vars /\ WF_vars(HookThread) /\ WF_vars(RegisterPatch) /\ WF_vars(SaveStep)

-----------------------------------------------------------------------------
(* Correctness. *)

FilesTyped ==
    /\ ini \in Tables \cup {Absent}
    /\ toml \in Tables \cup {Absent, Broken}
    /\ temp \in Tables \cup {Absent}
    /\ plan \in Tables /\ root \in Tables

SwitchesTyped == on \in [Prefs -> BOOLEAN] /\ busy \in Patches \cup {None}

\* Whatever is noted of a patch is noted of one the manager holds.
ManagerTyped ==
    /\ registering \in {"no", "hook", "overlay", "done"}
    /\ found \subseteq Patches
    /\ fromConfig \subseteq found /\ todo \subseteq found
    /\ pending \subseteq found /\ leaving \subseteq found /\ left \subseteq Patches

PlacesTyped ==
    /\ pc \in {"peek", "migrate", "rename", "register", "load", "hooks", "patches", "loading",
               "defaults", "loop", "reinstall", "exited"}
    /\ device \in {"none", "borderless", "overlay"} /\ hooks \in BOOLEAN
    /\ saving \in {"no", "wanted", "locked", "write", "rename"}
    /\ detach \in {"no", "uninstall", "wait", "unloaded"}

CountsTyped == edits \in 0..MaxEdits /\ sessions \in Nat /\ disorder \in 0..MaxDisorder

\* Who holds the config store's mutex follows from where the two threads are that
\* take it.
MutexFollows ==
    /\ mutex \in {"free", "hook", "save"}
    /\ (mutex = "hook") <=> (pc = "loading")
    /\ (mutex = "save") <=> (saving \in {"locked", "write", "rename"})

LoadingHasEntries == pc = "loading" => \A p \in todo : plan[p] # Unset

\* Types, and the bookkeeping that goes with them (ConfigStore::m_mutex,
\* OptimizationManager).
TypeOK ==
    /\ FilesTyped /\ SwitchesTyped /\ ManagerTyped /\ PlacesTyped /\ CountsTyped
    /\ MutexFollows /\ LoadingHasEntries

\* What is in force, or will be when the thread has reached its loop.  The game's
\* end takes nothing back: from the detach on the next start counts.
Current ==
    IF pc \in {"loop", "reinstall"} /\ detach = "no"
    THEN [x \in Prefs |-> on[x] \/ x = busy]
    ELSE Kept

Contract == INSTANCE Preferences WITH current <- Current, kept <- Kept, edits <- edits

\* The order of HookThread's steps keeps the promise of Preferences: for a user who
\* waits for start-up, what was saved, or stood in the old INI, comes back at every
\* start, through migration and through crashes at any point, and nothing else does.
PreferencesKept == [][disorder' = 0 => [Contract!Next]_Contract!vars]_vars

\* A patch that is on when FreeLibrary is through is one whose Uninstall failed, that
\* the user switched after the detach began, or that the hook thread could still install
\* when the loop of DllMain came by: in its start-up, or halfway through a reinstall of
\* that very patch.  Every other one has been taken out and stays out, wherever the
\* thread, the saves and the five seconds' wait are (DllMain, process detach).
UnloadedIsClean ==
    detach = "unloaded" => \A p \in Patches : on[p] => p \in left

\* Every start reaches the message loop, though LoadAll and LoadPatches wait for
\* the mutex that saves take and may leave on any of SaveAll's failures.
StartupEnds == pc = "peek" ~> pc \in {"loop", "exited"} \/ detach = "unloaded"

=============================================================================
