# Sims3SettingsSetter: specifications, model checking and proofs

Sims3SettingsSetter (S3SS) is a DLL that the game *The Sims 3* loads. It patches
the game's code and data, overrides the game's settings and graphics
configuration, hooks the Direct3D 9 device and draws an overlay. This directory
holds TLA+ models of its stateful parts, the TLC configurations that check them
on small instances, and theorems that TLAPS proves for every value of the
constants. Paths below are relative to the repository's root (`src/optimization.h`
is the file the models call by that name).

## 1. The system

### Threads

| thread | what it runs |
|---|---|
| hook thread | `HookThread` in `dllmain.cpp`: early peeks, migration, `LoadAll`, game hooks, `LoadPatches`, then the message loop that calls `Update` on every patch about every 10 ms |
| render thread | the game's `EndScene` and so the overlay (`gui.cpp`): check boxes, setting widgets, File menu, saves of the quality-of-life widgets |
| game threads | registration of settings, `ConfigRetrievalHook`, the re-run of the registration pass (`OnSettingsRefired`), device calls through the hook registry |
| loader | `DLL_PROCESS_DETACH`: uninstalls patches, restores hooks, then asks the hook thread to stop |

### Components

**Patch lifecycle** (`optimization.h`, `patch_helpers.h`, the patches under
`src/patches`). State: the bytes of the patched sites, `isEnabled`,
`patchedLocations`, the maintained writes, `pendingReinstall` and its debounce.
Operations: `Install` (resolve, write in a transaction, verify, commit, register
maintained writes, enable), roll-back, `Uninstall` (clear maintained writes,
`RestoreAll`, disable), `NotifySettingChanged`, `Update`, `OnSettingsRefired`,
`LoadFromToml`. It is called by the hook thread and by the overlay, and by the
game through the registration hook. Hard: two callers inside one patch at once,
a page that refuses a write half-way, a setting that changes while it is being
applied, a re-fire in the middle of an install. Correct when a disabled patch
has left no byte changed, a failed uninstall can be tried again, and no reported
change is lost.

**Settings manager and config store** (`settings.cpp`, `config/config_store.cpp`,
`config/config_paths.cpp`). State: `m_settings` with the flags of each setting,
`m_pendingSavedValues`, `m_defaultValues`, the file and its temporary copy.
Operations: registration by the game, edit, clear and reset by the overlay,
`SaveAll`, `LoadAll`, `SaveDefaults`. Hard: a saved value reaches its setting in
two hops, registration comes late and may come twice, every step of a save may
fail, and the game may crash anywhere. Correct when what the overlay shows as
saved is saved, what is saved takes effect, and the file is always whole.

**Config value manager** (`config/config_value_manager.cpp`, `dllmain.cpp`'s
`ConfigRetrievalHook`). State: `m_configValues`, the stable buffers, and the
pointers the game holds into them. Operations: the game's lookup, edit, clear,
save, load. Hard: the game holds raw pointers, the table has no mutex, and a
lookup is several steps. Correct when no pointer held is freed and the overlay
shows what the game reads.

**Device hook registry** (`d3d9_hook_registry.cpp`). State: a priority-ordered
list of hooks per device method, one mutex, the detours and the original
pointers. Operations: `Register`, `UnregisterAll`, the `Execute...Hooks` loop
inside each detour, `CallOriginal...`, `Initialize`, `Cleanup`. Hard: hooks run
under a non-recursive mutex and call the device again, while patches come and
go on other threads. Correct when no removed hook runs, the first hook by
priority to stop a call decides, and no call waits for itself.

**Device hooks and render loop** (`d3d9_hook.cpp`) with the **borderless window**
(`qol.cpp`). State: the flags of the frame and of the one-time initialisation, the
window procedure and the one behind it, the mode, the window and its captured
style, a countdown to a deferred reapply. Operations: `HookedCreateDevice`,
`HookedEndScene`, `HookedReset`, `SetMode` from the overlay. Hard: any thread may
call `EndScene`, each of its paths must give back the flags it took, the device is
lost and reset at any time, and the window is stripped by four callers in any order.
Correct when no path keeps a flag, no window procedure leads to itself or to null,
and the window's style follows the mode.

**Lot streaming** (`patches/lot_streaming_optimizations_patch.cpp`). State: for each
lot the place where the next window starts, the list and the level of detail it
belongs to, a mark for a post. Operations: the detour that builds a window on the
game's thread, the drain that posts the next one from the hook thread, install and
uninstall. Hard: lists are reloaded, lots freed, promoted and bulldozed between two
windows, and a continuation passes through three hands. Correct when the shells are
there after the first window, no object is skipped and no lot is forgotten.

**Start-up and patch manager** (`dllmain.cpp`, `optimization.cpp`,
`config/config_store.cpp`). State: the files on disk, where the hook thread is, the
registered patches with what the config said of each, the options, the hooks, the
store's mutex, the detach. Operations: the early peeks, `CheckAndMigrate`, `LoadAll`,
registration on first use of `OptimizationManager::Get`, `LoadPatches`,
`EnsureEnabledByDefaultPatchesAreEnabled`, the message loop with its reinstalls,
`SaveAll`, the three parts of the detach. Hard: the overlay's thread is there before
start-up has ended and may register patches or save, each step may fail, the game may
end anywhere, and the same file is read in four places. Correct when every start
brings back what was kept and nothing else, and an unload leaves no patch on that it
could have taken out.

**Configuration migration** (`config/migration.cpp`). A line-by-line parser of the old
INI with areas, sections and guesses at types, and a builder of the TOML table.
Correct when the table says what the old file said.

**Memory monitor** (`qol.cpp`). State: a reading, a threshold, the warning on show and
the dismissal. `Update` runs on the hook thread, the buttons and widgets on the
overlay's, without a mutex. Correct when a dismissed warning stays away until memory
has fallen.

**Address resolution** (`pattern_scan.cpp`, `addresses.h`, `patch_helpers.h`). Two
scanners with different loop bounds, known addresses that are validated or searched
for, fixes written where a pattern was found. Correct when a scan finds the first
match and code changes only where the expected bytes were.

**Frame limiters and waits** (`patches/smooth_patch_precise.cpp`,
`patches/smooth_patch_classic.cpp`, `patches/adaptive_wait_patch.cpp`). The limiter
keeps the ideal times of simulation cycles and frames, which two game threads read and
stamp while the patch is retuned; the adaptive wait polls before it blocks and adapts
its budget from several threads. Correct when each limited cycle takes a slot of its
own, no wait outlasts its period, and spinning is invisible to the game.

**CPU affinity** (`cpu_optimization.cpp`) confines the process for five seconds and
gives the cores back from another thread. **Lighting patch**
(`patches/lighting_quality_patch.cpp`) writes game data, hooks two functions and
filters textures. **Allocator hook**, **RefPack decompressor**, **remaining byte
patches**, **crash logs**, **logging and vtables** are not modelled; section 7 has the
reasons.

Interactions: the overlay calls the lifecycle, the settings manager, the config
values and the config store directly; the game's registration hook fills the
settings manager and re-fires maintained writes; the config store asks each
component for its section of one file; patches register hooks with the registry
from `Install` and remove them in `Uninstall`. Few of these paths share a mutex,
which is why the models interleave them step by step.

## 2. Modules

| module | what it models |
|---|---|
| `PatchLifecycle` | one patch, the two threads that install and uninstall it, the game thread that re-fires |
| `PatchLifecycleProofs` | theorems about it |
| `OverrideStore` | the abstract promise of a store of overrides: edits, clears, saves, loads and restarts, all atomic |
| `SettingsStore` | settings manager, config store and file; implements `OverrideStore` |
| `SettingsStoreProofs` | theorems about it |
| `ConfigValues` | config value manager, buffers, the game's pointers; implements `OverrideStore` |
| `ConfigValuesProofs` | theorems about it |
| `HookRegistry` | the registry and the device calls that pass through it |
| `HookRegistryProofs` | theorems about it |
| `DeviceHooks` | the hooked device calls, the overlay's frame, the window procedure, the borderless window |
| `DeviceHooksProofs` | theorems about it: the frame's flags; the window's procedure and style |
| `LotStreaming` | the object throttle: the detour's windows, the posting of continuations |
| `LotStreamingProofs` | theorems about it |
| `Preferences` | the abstract promise of the start-up: what was kept comes back |
| `Startup` | `HookThread`, patch manager, config store, migration's files, detach, restarts; implements `Preferences` |
| `StartupProofs` | theorems about it, the refinement among them |
| `LegacyIni` | the migration's parser and builder, against what the file means read as a whole |
| `CodeScan` | scanners, `AddressInfo`, the topology fix, the classic smooth patch |
| `FrameLimiter` | the precise smooth patch with two game threads |
| `KernelWait`, `AdaptiveWait` | what a wait promises; the adaptive wait, which implements it |
| `LightingHooks`, `PixelFilters` | the lighting patch's data and hooks; its texture blur |
| `CpuAffinity` | affinity, delayed restore, ideal processors |
| `MemoryWarning` | the memory monitor |
| `Components` | the modules that share no state with any other, side by side |
| `ComponentProofs` | theorems about those parts |
| `MCComponents` | their small instances, in one run |
| other `MC...` | the constants of small instances |

`PROJECT.json` maps every definition to the lines it models. A definition whose
comment begins "Mutant of" is a plausible bug in another definition; the run that
checks a property must fail when the mutant takes its place.

### PatchLifecycle

`mem` gives each site a version: 0 is what the game shipped, v > 0 what an
`Install` writes under settings of version v. `page` is what the operating system
answers for the site (writable, locked, unmapped) and may flip `MaxFaultFlips`
times. A lifecycle call is a sequence of steps of its thread, labelled in `pc`:

    InstallEntry - Query - Push - Write - Verify - (next site) - Commit - Maintain - Enable
    WriteFailed / Verify fails: RollbackLock - RollbackStep... - RollbackDone
    UninstallEntry - Clear - RestoreLock - RestoreStep... - RestoreDone - Disable

The steps are the accesses another thread can see. `g_patchLocationMutex`
(`locOwner`) is held by roll-back and `RestoreAll`, as in `patch_helpers.h`; the
maintained writes' mutex is held across steps only by `OnSettingsRefired`.
`UpdateTest` and `UpdateConsume` are the two halves of `Update`, so a report can
come between them. The patch modelled has the three kinds of sites that patches
have: an anchored one (its bytes are compared with `expectedBytes` when the
address is resolved), a plain one, and maintained game data.

`Serialized` is an assumption, not a fact of the code: with TRUE a call enters
only while no other call is inside. The code never locks `patchMutex`, so FALSE
is what it really permits, and run `lifecycle_overlap` shows what follows.

### SettingsStore

A setting's typed value is a member of `Values`. A file that no save has written, edited
by hand or migrated, may also hold `Foreign` entries, of another type than their
setting. The code reads an entry in two ways: at registration `ApplyPendingSavedValue`
converts what `InferValueFromToml` made of it (`Converts`) or finds a mismatch, drops
the entry all the same and leaves the setting alone; where the setting is there already
`ReadValueFromToml` reads it (`Reads`). The two need not agree: for an integer setting
2.7 is 2 in the first and 0 in the second. So what the file keeps of a setting is a set
of readings, of one element for every entry a save wrote.

Walking `m_settings` in a save is one step: the table has no mutex, but a race inside a
hash table has no outcome a model could enumerate. File > Load Settings walks the entries
one by one, as `LoadFromToml` does, with its lookup (`LoadFind`) and its store
(`LoadStore`, `LoadPending`) as two steps between which the game registers settings: the
Setting found may have been replaced by then (`LoadStoreFreed`), and an entry put down as
pending may belong to a setting that is there by now (`overtaken`). `RegisterSetting`
itself, the insertion and the look for a pending value behind it, is one step. `SaveAll` is `SaveCollect` (build the table, clear marks),
`OpenTemp`, `WriteTemp`, `RenameTemp`, `SaveReturn`, with the store's mutex held,
so that edits, registrations and crashes come between any two. Four flags switch
on what the environment may do: `EarlySaves` (saving before the game has
registered its settings), `Refires` (a second registration), `DiskFaults`
(directory, open or rename fail) and `WriteFaults` (the stream fails half-way and
leaves `Torn`).

### ConfigValues

Strings are abstracted to their lengths; `buffer` counts allocations, so a pointer
the game holds is the number of an allocation. `GetOrCreateBuffer` is one step
because its own mutex makes it one; a lookup of the game (`LookupFind`, then
`LookupOverride` or `LookupOwn` and `LookupAdd`) and an edit (`UpdateBuffer`,
`UpdateEntry`) are several steps, which overlap when `Serialized` is FALSE. Saving
is one step here, as `SettingsStore` has its detail.

### HookRegistry

The fifteen hooked methods have the same text up to their arguments; `Methods` is
a set. A thread in a device call goes through `ExecuteLock`, `LoopTest`, the hook's
body (which may call the original), `HookReturns` with the hook's verdict,
`ExecuteUnlock` and `OriginalReturns`. `SortHooks` allows every order of equal
priorities, as `std::sort` does. `originals` says whether the Original_ pointers
lead to the method's own code or to a trampoline: through the former a call comes
back into the detour. `Initialize` and `Cleanup` take no mutex, as in the code;
that `Initialize` runs once is taken from its caller, which `g_deviceInitDone` keeps from
doing it again (`initDone`). Both their commits may fail: `Initialize` then leaves the
method's code and `g_initialized` as they were, `Cleanup` clears `g_initialized` whether
the detours are out or not.

### DeviceHooks

A thread in `HookedEndScene` goes through

    EnterEndScene - TestCooperativeLevel - [ClaimInit - FindWindow - HookWndProc -
    StoreWndProc - InitImGui - FinishInit] - TickReapply - [Reapply] - Drawn or
    SetMode - ApplyMode - SaveMode - LeaveEndScene

where every failing query ends the frame as the code does. `style` names the window
whose own style a window shows, or `"stripped"`; so `originalStyle` tells a capture
that belongs to the window from one of another window or of a stripped one, which is
all that restoring depends on. Sizes and positions are left out. `SetWindowHandle`
and `Apply` hold `m_mutex` throughout and are single steps; `SetMode` and
`TickReapply` let go of it before they call `Apply`, and are two.

What the game does is assumed where Direct3D obliges it: a device is created and
reset while no thread is between BeginScene and EndScene (`Quiet`). The game gives
its window a new style within the frames of the deferred reapply, which is what that
reapply is for. Two constants guard what the model would otherwise refute:
`Returns` (the game hands over a window again that it had left for another one) and
`Reloads` (`LoadAll` comes after the first device).

### LotStreaming

A call of the detour is `Bulldozed` or `Lookup`, then `GiveUp` or `BuildWindow`, then
`SaveWindow`: the accesses to `g_state` and what lies between them. `DrainPending`
takes the marks of all due lots and `Post` posts them one by one, on the hook thread.
`built` says which objects were handed to `UpdateObjectSceneNode`; `wanted` is a
history variable, the lots whose request the game has not withdrawn by a change of
detail, bulldozing, freeing or reloading. Lists get fresh addresses. What the game
does, and that its thread takes posted calls, is outside the repository and marked
external. `MidStream` names what may befall a lot while it streams; all three have
consequences (section 6), so the run leaves them out and lets them happen to lots at
rest.

### Startup and Preferences

A config file is a function from switches (patches and options) to on, off or no entry;
`Broken` does not parse. `pc` follows `HookThread`:

    peek - migrate [- rename] - register - load - hooks - patches -
    loading (patch by patch) - defaults (patch by patch) - loop [- reinstall] - exited

with the store's mutex held where the code holds it. Registration is the one of
`OptimizationManager::Get`, which the overlay's thread may do first. `SaveAll` takes the
mutex, asks for the manager under it, and then collects its table, opens, writes and
renames; an exception out of one patch's entry ends the load of all that are left
(`LoadPatchThrows`); the loop's reinstall uninstalls a patch and installs it again;
`detach` is the detach of `DllMain` with its wait for the hook thread. `left` notes of
each patch whether the detach could have lost it: its `Uninstall` failed, the user
switched it later, or the hook thread could still install it (`Unsettled`).
`Restart` ends a session at any point, orderly or as a crash, and keeps the files.

A step that fails, or comes at a moment at which the code does not keep its promise
(a save before the patches are loaded, a change during start-up, a disk error, a
detach in the middle of a call), counts in `disorder`. `PreferencesKept` speaks of
behaviours with `disorder = 0`; `TypeOK`, the mutex, `UnloadedIsClean` and `StartupEnds`
of all. Section 6 lists what each kind of disorder does. `Kept` is what the
next start brings from the files as they are, `Current` what is in force, or will be
when the start has ended: between the two stands the whole of the start-up.

### LegacyIni

One action per kind of line, which keeps the parser's accumulator and area, and
`Build`, which inserts with the first-wins rule of `toml::table::insert`. The reference
reads the file as a whole: of sections of one name the first, of keys of one section the
last, each value with the type it looks like. It says in both directions what the table
has: an entry just where the file asks for one, with just these keys. The two conversions
of numbers are the library's, `StoD` and `StoLL`: by the second, of `toggle_key` alone,
"0.5" is 0.

### CodeScan

An image of `Size` bytes; addresses and differences are taken modulo `Word`, as the
unsigned arithmetic of the loop bounds is. `TopologyFix` changes the first match only,
`PatchSite` every one, and `Uninstall` restores those whose pages let it: if one refuses,
the patch stays on and tracks them all. Only in an image with room behind the last match (`Padded`) does
the rescan of the classic smooth patch stay inside (section 6).

### FrameLimiter

The clock ticks in small units and all stamps are kept relative to it. A cycle is the
call, the period read once, the wait for its ideal time (sleep, then spin), and the
stamp rounded down to the period. `Install`, `Uninstall` and a change of setting come
between any two of these steps. With `Reread = TRUE` the period is read twice where the
code does so.

### AdaptiveWait and KernelWait

`KernelWait` has one step per wait: what it may end with, and what it takes. In
`AdaptiveWait` a call is classified, polls until its budget is spent, updates the shared
counters in two parts without a lock, and then asks the kernel. A handle that is null or
INVALID_HANDLE_VALUE is answered WAIT_FAILED at once. The kernel takes the latter for the
process itself (`"process"`), so `WaitAssumption` says that the game does not wait for
its own process (section 6, item 32).

### LightingHooks, PixelFilters, CpuAffinity, MemoryWarning

`LightingHooks` has `Install` with each way to fail, `Uninstall`, and the two hooks step
by step; a colour is a number and an average its sum and count. Writes, roll-back and
`RestoreAll` fail at up to `MaxRefused` places; `forsaken` are those that a failed
`Install` could not put back, which the code then forgets. A hook whose original has been
nulled takes no further step: there the process ends. `PixelFilters` has the
packed and the weighted average and the correction of brightness over one alpha and one
colour channel; the operators on words are written bit by bit, as what they do to each
digit, so that the provers can calculate with them. `CpuAffinity` has the mask found, set,
saved and restored, each of which may fail unseen, and the table of threads with its
limit; `spoilt` says that one of the three things has happened by which the code loses the
affinity (section 6, item 30). `MemoryWarning` has `Update` as one action, the button as two,
because `ResetWarning` and the mark of dismissal are two writes.

`Overlapped` of `MemoryWarning` is, like `Serialized`, an assumption under which the
property holds; section 6 says what follows without it.

### Components and MCComponents

These parts share no variable, so a behaviour exercises one of them, the `subject`,
and leaves the others at one initial state. The number of states is the sum of theirs
and not the product, and each property is stated for its subject. `Components` has the
parts with their constants as parameters and with what is assumed of these; `MCComponents`
gives them small values.

### OverrideStore and the refinements

`wish` is the overrides the user wants, `kept` what a restart may bring back of each,
`base` the known defaults. `SettingsStore` maps `wish` to the file before `LoadAll`, and
after it to the live value of registered settings and the pending value of the
others; `ConfigValues` maps it to the modified entries. The claim that every step
of either is a step or a stutter of `OverrideStore` is what rules out losing or
inventing an override anywhere in the hand-over from file to pending value to
setting, and it includes crashes: `kept` changes at the rename and nowhere else.

## 3. Runs

| run | instance | shows |
|---|---|---|
| `startup` | 2 patches, 3 options, 4 config files, none and a broken one, 2 old files, 1 edit, 2 sessions, 2 disorders; 1,116,497 states | `TypeOK` with the mutex's owner, `UnloadedIsClean`: a patch left on by an unload is one it could not have taken out; `PreferencesKept`, `StartupEnds` |
| `lifecycle` | 3 sites, 3 versions, no page changes, calls serialized, fair | `DisabledIsPristine`: a patch that reports itself off has left every byte as shipped; `EnabledIsCurrent`: an enabled patch has written the current settings or a reinstall is pending; `ReportedChangeIsTakenUp`, `CallsReturn` |
| `lifecycle_faults` | 2 versions, 2 page changes | `EnabledCanBeUndone`: after any failure, a patch that stays enabled still tracks every site it changed |
| `lifecycle_overlap` | calls may overlap | `DisabledIsPristine` is violated (section 6) |
| `settings` | 2 names, 3 values, 2 foreign entries, 2 requests, reliable disk, crashes; 1,588,156 states | `FileIsWhole`, `GreenIsSaved`, `SavedIsInEffect`, `ImplementsStore` |
| `settings_wild` | 2 values, 2 foreign entries of which one is always refused, every fault, early saves, second registrations; 1,359,998 states up to symmetry | `PendingOnlyUnregistered` |
| `settings_early` | early saves | `GreenIsSaved` is violated (section 6) |
| `config_values_long` | values longer than the buffer | `PointersLive` is violated (section 6) |
| `registry` | 2 threads, 1 method, 2 names, 2 priorities, 2 hooks, failing commits, fair; 418,704 states | `NoHookAfterUnregister`, `OutcomeFollowsPriority`, `OriginalsBypass`, `DeviceCallsReturn` |
| `device` | 2 threads, 2 windows, one active mode, a reapply after 2 frames | `FlagsFollowFrames`, `WndProcChainSound`, `StyleFollowsMode` (`CaptureBelongsToWindow`, `DisabledIsDecorated` and `ActiveIsApplied` together) |
| `lots` | 2 lots of 3 and 2 objects, 2 loads, 2 requests, 1 or 2 objects a window, fair | `ShellsAreBuiltFirst`, `NothingIsSkipped`, `RequestsComplete` |
| `components` | one subject per behaviour (section 2); 1,190,799 states | config values: `ShortPointersLive`, `ShownIsEffectiveOnce`, `ConfigIsAStore`; old INI: `MigrationKeepsTheFile`; code: `ScansFindTheFirst`, `CodeIsChangedWhereMeant`; lighting: `BlurKeepsTheTexture`, `DataIsPutBack`, `AverageOfSamples`; waits: `ImplementsKernelWait`; affinity: `AffinityIsRestored`; memory: `DismissalLasts`; limiter: `OneTurnPerSlot`, `WaitIsBounded` |

Deadlock is checked in every run but two: in `startup` the last session ends unloaded,
and in `components` most parts stop at their bounds or when their input is used up.

The `TypeOK` of the other modules, and a few properties that a listed one implies
(`NothingIsForgotten`, which `RequestsComplete` extends to the end), are definitions one
can add to a configuration.

`settings` has neither faults nor early saves because with them `GreenIsSaved` is
false of this code: the run shows that nothing *else* breaks it. That `FileIsWhole`,
`SavedIsInEffect` and `ImplementsStore` hold with disk faults too is proved (section 5).

### Bounds, and why they are enough

* Three sites: one of each kind, and one more than the two a partial failure needs
  (one written, one failed). Three versions: one installed, one being installed,
  one that arrives meanwhile. Two page changes: a page goes bad and comes back.
* Two names and three values: an override, another override, the shipped value;
  the settings do not interact except through the common save and load. Of the foreign
  entries one has a type that can wait and be converted, and one has not. `MaxEdits` 2:
  an edit, and its undoing or another one between the steps of a save.
* `MinCapacity` 8 and `MaxBuffer` 16 stand for 256 and 65536; the lengths 2, 6 and
  20 are a short value, one near the least capacity and one beyond the largest
  buffer, and the game's own value has length 1. The code compares lengths only
  with these two limits and with `2 * required`.
* `startup`: two patches, one on by default, and the three options the early peeks
  read differ in every way the code tells them apart. The files are one that a save
  wrote, one older than a patch, two that switch off what is on by default; the broken
  one and none. Two sessions make one restart, which is what bringing back needs; two
  disorders let one failure meet another, for example a failed `Uninstall` a bad moment of
  the detach. The proofs have no such bounds.
* `components`: files of four lines over thirteen lines (of every area, a marker,
  values of several kinds) hold two sections of one name and a pair outside a section.
  Images of six bytes hold two matches of a three-byte pattern; 16 stands for 2^32.
  Two by two pixels have all four neighbours once; the five pixels and six strengths
  contain both ends of a byte, odd sums, and strengths below, at and beyond a pass.
  Two threads in the wait with budgets 50 and 60 and intervals of two calls reach both
  ends of the budget. Light samples 3 and 4 stand for 3 and more. Three processors of
  which two are fast, of masks with all, some and none of the fast. Thresholds 2.0 and
  2.2 GB have levels below nine tenths, between, and above. Periods of one and two
  units in a cycle of two; the second of the fallback is two units.
* Two windows: the one in use and the one that replaces it. One active mode stands
  for three, which differ in size and position only. A reapply after 2 frames has a
  frame before the last and a last one, as 60 have. The overlay is on; without it
  `FindWindow` goes on to `FinishInit`, and nothing is drawn.
* A lot of three objects has its shell in the middle or at the end, with one or two
  windows before it, and, after a removal, a shell at the start or none. Two loads and two
  requests let a lot be loaded again, and be asked for again, while it streams; the
  second lot streams beside it. `PerLot` 0 is clamped to 1.
* Two threads and two hooks of two names, each with two priorities and four
  effects: the order of any two hooks decides sorting, and one mutex with two
  threads has all the interleavings. Methods share nothing but the mutex.

## 4. Fairness

`PatchLifecycle!Fairness`: a call once begun goes on (weak fairness of each
thread's steps: the thread is running), the message loop keeps calling `Update` (it
polls with a 10 ms sleep), a widget that stored a value goes on to report it, the
debounce elapses (it is time), the game's thread finishes `OnSettingsRefired`, and
the two steps that wait for the game thread's mutex, `Clear` and `Maintain`, get it
in the end (strong fairness: the game re-runs its registration pass a few times per
session, and each pass is a finite loop). Nothing is assumed of the user or of the
page protections.

`HookRegistry!Fairness`: calls and commits go on, and a thread that waits for the
mutex gets it in the end. A hook's body is assumed to return; that the registry
adds no waiting of its own is what `DeviceCallsReturn` checks. Windows' mutexes do
not promise strong fairness; the property is about the registry waiting for
itself, and needs it only against two threads alternating for ever.

`Startup!Fairness`: the hook thread goes on (it waits for nothing but the store's
mutex), and a save that holds that mutex goes on: it is a finite piece of code on a
running thread. That is enough for `StartupEnds`, since the user's saves are not
assumed to stop but each lets the mutex go; the property speaks of sessions that last.

`LotStreaming!Fairness`: a call of the detour goes on, the game's thread takes posted
calls, the message loop drains and posts, time passes. Nothing is assumed of the game's
requests.

## 5. Proofs

All theorems hold for every value of the constants that satisfy the named
assumptions, which say only what the constants are (`LifecycleAssumption`,
`SettingsAssumption`, `TornAssumption`, `StartupAssumption`, `FileAssumption`,
`RegistryAssumption`, `DeviceAssumption`, `LotAssumption`, and those of the parts, below).
What a theorem assumes
beyond them stands in its statement.

**`Startup`.** `TypeCorrect` goes part by part: files, switches, manager, places,
counts, mutex; it includes that the store's mutex is held exactly while `LoadPatches` or
`SaveAll` is at work, and holds under every disorder. `UnloadCorrect` needs `UnloadInv`:
what is on is in the manager (`OnAreFound`), what is being reinstalled is too
(`BusyIsFound`), and a patch the detach has passed and not noted in `left` is off and
cannot be installed any more (`PassedAreOff`): the thread is past its start-up and not
between the two halves of that patch's reinstall, nor can it begin one, since the patch
is off. `Leaving` says of an orderly detach that it finds the loop, no save and nothing to
reinstall; `PromiseKept` needs it. `PromiseKept` (`Spec => PreferencesKept`) is
the refinement. Its invariant `KeepInv` says, as long as `disorder = 0`, what each stage
of the start knows: what a save has collected is what is in force (`SavesFollow`), the
manager is complete when it is asked (`FullInTime`), the migrated file is the old one
(`MigratedInTime`), and options and patches have, at each place of `HookThread`, exactly
the values of the file as far as the loops have come (`OptionsInTime`,
`PatchesInTime`). Without the last, the step into the loop could not be shown to be a
stutter: that is where `Current` changes from what the file says to what is in force.

**`HookRegistry`.** The invariant adds to the types that every list is sorted and holds
no hook of a removed patch (`ListsInOrder`), how detours, originals and
`initialized` go together (`DetoursFollow`), and how far each loop has come (`LoopsInOrder`): the
hooks before the current one have let the call pass, and `skipOriginal` is set exactly
if one of them overrode it. `CallKeeps` shows that a list does not change under a loop,
since the mutex is held. From it follow `RemovedHooksAreGone`, `PriorityDecides` and
`OriginalsDoBypass`, for any number of threads, methods, patches and priorities.
`CallsAreBounded` proves the part of `DeviceCallsReturn` that needs no fairness:
`Remaining` counts the steps a call has left, at most `3 * MaxHooks + 4`; every step of
the call's own thread lowers it and no step of another thread raises it, since
`Register` and `UnregisterAll` find nobody inside the loop (`NobodyInside`) and a
trampoline never leads back to `execute`. What TLC is left to show is that the thread
goes on and gets the mutex.

**`TypeCorrect`** (`Spec => []TypeOK` of `PatchLifecycle`, overlapping calls
included). `TypeOK` is not inductive: a step indexes `tx[t]` with `idx[t]`. It is
proved with `IndexInv`, which bounds the index wherever it is used.

**`FailedUninstallCanBeRetried`** (`Serialized => (Spec => []EnabledCanBeUndone)`).
The invariant `TrackingInv` adds `OneAtATime` (at most one thread is inside a call,
which is what `Serialized` buys) and `CallTracks`, which says for every label what
the call under way has tracked: in the write loop the transaction has the sites
below the index, from the commit on `patchedLocations` has them all, and a
restoration keeps them until it is known to have succeeded everywhere. Without
`CallTracks`, an invariant about the resting patch alone cannot survive the first
step of an uninstall.

**`DisabledLeavesNoTrace`** (`Serialized /\ MaxFaultFlips = 0 => (Spec =>
[]DisabledIsPristine)`). `CleanInv` says where bytes may differ from the game's:
only at sites the current call or `patchedLocations` tracks (`DirtyTracked`), every
saved value is the game's (`SavedPristine`: this is why `Install` never saves a
patched byte as the original), and a re-fire in flight has something to do only
while data is maintained. The hypothesis on page changes is needed: a roll-back
that cannot write leaves bytes behind, and the code gives up there.

**`EnabledRunsTheSettings`** (`Serialized /\ MaxFaultFlips = 0 => (Spec =>
[]EnabledIsCurrent)`). `CurrentInv` says that an install has written the version it
read as far as it has come, that this version is old only if the change is reported or
about to be (`ChangeKnown`), and that every tracked page is writable (`Fine`). The last
is why a reinstall cannot stop half-way with the request already consumed: its
`Uninstall` succeeds. `CurrentFrame` and `CurrentOfOther` do for it what the lemmas
below do for the others.

Each step lemma has one step per action; `CleanFrame` and `TrackingFrame` carry the
invariant over the steps that touch none of its variables, and `CleanOfOther` and
`TrackingOfOther` over the thread that is at rest.

**`SettingsStore`.** `TypeCorrect` and `PendingIsConsumed` hold under every fault
and are inductive together; of a setting in `overtaken` the second says nothing. `FileStaysWhole` needs `~WriteFaults`:
section 6, item 13, says why. The others assume `Orderly`, that is, no save before
registration and no second registration, and rest on `BaseInv`: the types, `BootInv`
(nothing is registered or waits before `LoadAll`; only registered settings have defaults),
`WaitInv` (what the file holds for a setting yet to register waits for it), `LookupInv`
(a load and a save exclude each other, and no Setting is replaced under a load) and
`SaveInv` (while a save is under way every setting is registered and the collected table
is still what is in effect, because the overlay's thread is inside `SaveAll`).

* `SavedTakesEffect`: `EffectInv` says it of the parsed file, with `WaitInv` as the other
  half of the hand-over. It holds with every disk fault, also the silent ones. An entry of
  a type that its setting cannot take is no override: `AtRegistration` is `None` for it.
* `GreenMeansSaved`: `GreenInv` says that a setting that is overridden and not marked has
  one of the readings of its entry. Needs reliable disks.
* `StoreImplemented` (`Orderly /\ ~WriteFaults => (Spec => ImplementsStore)`), the
  refinement: one lemma per group of actions shows which action of `OverrideStore`
  it is. Registration is a stutter, since the override moves from pending to live;
  of a save, only the rename is `Store!Save`; each `LoadStore` and `LoadPending` is a
  `Store!Load` of its own, since what the file keeps may come in setting by setting.

**`FlagsAreGivenBack`** (`Spec => []FlagsFollowFrames` of `DeviceHooks`), for any
number of threads that call `EndScene` and any windows. The property is inductive with
the types of the flags and labels (`FlagsInv`). `ToInit`, `ToFrame` and `ToIdle` say
once that a thread of the frame may move to a label if the flags become what the label
demands; each action cites the one that fits.

**The window of `DeviceHooks`.** `ProcedureIsTheGames` (`Spec => []WndProcChainSound`) rests on
`ChainInv`: the one-time initialisation is run through once, until then every window has
the game's procedure, and the thread that is about to store what it replaced holds the
game's. `StyleIsTheModes` (`Spec => []StyleFollowsMode`) assumes `Returns = FALSE` and
`Reloads = FALSE`, since items 11 and 12 of section 6 are what happens otherwise. Its
invariant `WindowInv` says that a window left behind is not current again and that focus
and device window agree (`OneWindow`), that of the window held the style of its own is
known, above all when it is stripped (`StripsAreKnown`, which has
`CaptureBelongsToWindow` as a part), that before the first device nothing is held and no
thread is inside a hook (`BeforeDevice`), and that what the style does not show yet some
thread or the countdown is about to bring (`StyleIsDue`).

**`LotStreaming`.** `WindowReaches` is the lemma about one window: every object between
its start and its stop is large or in it. `ShellsComeFirst` needs no hypothesis at all,
so edits, reinstalls and restarts are harmless for it; its invariant `ShellInv` says that
a list's address is used once and that whoever may go on with a stream finds the large
objects built. `NothingIsLeftBehind` assumes that no list is edited in place while it
streams (section 6, item 15) and adds `SkipInv`: what lies before the place kept for a
stream, or before the window of a call, is built. `NoneIsForgotten` assumes
`MidStream = {}` (items 14 and 16) and proves `NothingIsForgotten`; its invariant
`KeepInv` adds that a wanted stream has the level of detail it was asked for, so that
`GiveUp` means completion, and that no wanted lot waits for a post while the detour is
out.

**`ConfigValues`.** Three invariants, each about another hazard. `PointersInv` is for values
that fit the least buffer (`ShortValues`): every buffer has at least that size and every
request in flight fits, so that `GetOrCreateBuffer` never replaces one; it holds with
lookups and requests overlapping and with reloads (`ShortPointersStay`). `SerialInv` is for
`Serialized`: lookup and request are never under way together, and what either has read is
still what the table says. With it each step is one of `OverrideStore`
(`StoreImplemented`). `EffectiveInv` adds for behaviours without reloads that a buffer's
content is the entry's value except in the middle of an update (`ShownTakesEffect`).

**`Components`.** Each theorem is `ComponentsSpec =>` the property that run `components`
checks, for all values of the constants of `ConfigAssumption`, `LongAssumption`,
`IniAssumption`, `ScanAssumption`, `CodeAssumption`, `WaitAssumption`, `LightAssumption`,
`FilterAssumption`, `LimiterAssumption` and `CpuAssumption`. `SubjectStays` and
`SubjectSteps` say once that a behaviour keeps its subject and takes that part's steps; what remains is an invariant of the part. TLC has
checked each of them in the instance of `MCComponents`.

* *Configuration values* (`PointersStayLive`, `ShownValuesAreRead`,
  `ConfigImplementsStore`). The second instance, with long values, has other constants;
  `LongProofs` is `ConfigValuesProofs` with them, so that its theorems need no second proof,
  and `LongSame` says that both instances of the module take the same steps.
* *Adaptive wait* (`SpinningIsInvisible`), the refinement of `KernelWait`. `WaitsInv` says
  that a call which has its result only does its bookkeeping or returns, that only such a
  call returns, and that a call answered without the kernel is one the kernel would answer
  so. `WaitBegins`, `WaitAnswers`, `WaitPolls`, `WaitBlocks` and `WaitReturns` name the
  kernel's step of each step; `SpinsOn` does so for the rest, which it does not see.
* *Frame limiter* (`TurnsAreTaken`, `WaitsAreBounded`). `OnTime` relates a thread to the last
  stamp: what it waits for is at least its period behind the stamp, and after the wait the
  time it will stamp is too, whatever `Install` has made of the settings meanwhile. With
  `RoundedDown` (what the rounding down of a time loses is less than a period) the new stamp
  is later than the old one. `BackKeeps` shows that setting all times back together loses
  nothing of this. `WaitsAreBounded` assumes that the frequency does not change between its
  two reads (section 6, item 28).
* *Lighting* (`DataComesBack`, `ColoursAreAverages`). `DataInv` says of every place that is
  not in `forsaken` that undoing would bring the game's value back, and that a patch that is
  off has nothing to undo there; no other hypothesis. `SumInv` bounds the sum of a call by its least
  and its greatest sample times their number, through the multiplication lemmas
  `TimesIsMonotone` and `TimesOneMore`; it has no hypothesis.
* *Texture blur* (`BlurIsFaithful`), without a hypothesis. A byte is the sum of its bits
  (`OctetIsItsBits`), and of two bytes `&` and `^` share out the sum: twice the one and once
  the other (`SumIsShared`). With what the shift and the mask leave of a word
  (`LowSevenBits`) the packed average is the rounded-down mean of each channel
  (`FloorAvgByChannel`); the weighted one lies between its two channels because a rounded
  fraction of their difference does not exceed it (`RoundedFraction`). So each sweep mixes
  cells (`Mixes`), and mixing keeps every channel in its range (`MixingStaysInRange`). For the
  brightness, `SumsExist` shows that the recursive sum of the library is defined on a finite
  set, and `SumsAreRounded` that a bound on what each pixel's rounding costs holds n-fold for
  the sum over n cells; both descend from a smallest counterexample (`LeastNumber`) instead of
  an induction. `FactorIs` bounds what the rounding of the factor costs, and `FilterInv` puts
  the two together.
* *CPU affinity* (`CoresComeBack`). `AffinityInv` says that, unless `spoilt`, what is saved
  while a restore is due is the affinity the process was started with, and that there is
  one such restore at most (item 30).
* *Memory warning* (`DismissedStaysAway`, with `~UpdateOverlaps`, item 24): `DismissalInv`.
* *Scanners* (`ScansAreRight`). `ComparesInside` says what a comparison inside the image
  comes to, `FirstOfIs` what a scan up to any place finds; the two scanners differ in how far
  they go. That a smallest match exists is well-foundedness (`ScanMinIsLeast`), not induction.
* *What is changed in the code* (`CodeChangesAreMeant`). `CodeAssumption` says of the bytes
  of the literals in `smooth_patch_classic.cpp` and `dllmain.cpp` what makes it true: a sleep
  overlaps neither another sleep (`SleepsApart`) nor one that its replacement could make
  (`SleepOverwritten`), and a fix touches no sleep and spoils no later fix (`FixIsWritten`).
  `ImageInv` says what has become of the image, with the sites that are tracked; `UndoneInv`
  what undoing them would make of it, which no write and no removal that fails half-way
  changes (`RestoredStays`), however often an install or a removal has failed and been
  tried again; `InstallInv` where the scan is. `FoundIs`
  says what a scan finds that starts anywhere, behind the last match included.
* *Migration* (`MigrationIsFaithful`). `ReadInv` relates the parser's accumulators to the
  lines read. `SectionInv`: the open section is that of the one header that no header and no
  marker has followed, and its fields are the pairs behind that header. `Lists`: of every name
  each output has an entry just when a header wanted of that kind has ended, the first one for
  the first header. `QoLInv`: each quality-of-life value is that of the last pair that gives
  it. Fields and pairs are compared by what a reader of them can see (`Matches`): the first
  and the last of a key. `PairsGrow`, `HeadersStay` and `LastLine` say what one more line does
  to the meaning of the file, `FlushListsWanted` that `flushSection` brings the list up to
  date, `TableIsRight` that the builder turns the lists into what is claimed of the table.

Only model-checked: everything temporal (`ReportedChangeIsTakenUp`, `CallsReturn`,
`DeviceCallsReturn`, `RequestsComplete`, `StartupEnds`), since fairness is out of the
prover's reach (of `DeviceCallsReturn`, `CallsAreBounded` proves the bound on a call's
steps). Every invariant and every action property of a passing run has a theorem.
No RECURSIVE operator is used.

## 6. Where the code and its documentation disagree

Each of the first three is a run TLC refutes and a finding in `PROJECT.json`.

1. *Overlapping lifecycle calls* (`lifecycle_overlap`). The hook thread's reinstall
   and the overlay's check box may be inside `Install` and `Uninstall` of one patch
   together. `patchMutex` exists and is never locked. Patched bytes stay behind a
   patch that reports itself off.
2. *Saving too early* (`settings_early`). `SaveToToml` writes registered settings
   only. A save before the game has registered them, which the quality-of-life
   widgets make, drops the saved overrides still waiting in `m_pendingSavedValues`.
3. *A freed buffer* (`config_values_long`). A value longer than the stable buffer
   replaces it, and the game's pointer dangles.

The models also show these; they have a property, and no run of their own. To see
one, add the property to the configuration named.

4. *A re-fire during an install is dropped* (`MaintainedAreAsserted`, add to
   `MCPatchLifecycle.cfg`): `OnSettingsRefired` returns when the patch is not yet
   enabled, though its data has been written and is now overwritten.
5. *Marks are cleared before the write* (`GreenIsSaved` in
   `MCSettingsStore.cfg` with `DiskFaults = TRUE`): after a failed save settings show as saved.
6. *A mark no save clears* (`SaveClearsEveryMark` in `MCSettingsStore.cfg`): Clear
   Override marks the setting unsaved, and the save skips it.
7. *Defaults are learned after overrides were applied* (`DefaultsAreShipped` in
   `MCSettingsStore.cfg`): "Reset to Default" goes back to the override.
8. *A second registration drops the saved override* (`SavedIsInEffect` in
   `MCSettingsStore_wild.cfg`).
9. *Green before saving* (`GreenIsSaved` of `ConfigValues`, for the subject "long config"
   of `MCComponents`): an edited config value is green at once.
10. *An edit and a lookup at once* (`ShownIsEffective` with `Serialized = FALSE`):
    the game's buffer keeps the old value while the overlay shows the new one.
11. *A stripped style is captured* (`CaptureBelongsToWindow` with `Returns = TRUE`): a
    window that comes back after another one is captured again, stripped as it is,
    and Disabled no longer brings back its borders.
12. *A mode is loaded and not applied* (`DisabledIsDecorated` with `Reloads = TRUE`):
    `LoadFromToml` sets `m_mode` only, and choosing the same mode in the overlay then
    does nothing. It takes a mode chosen before `LoadAll`, early in the start.
13. *A torn file* (`FileIsWhole` in `MCSettingsStore.cfg` with `WriteFaults = TRUE`):
    `AtomicWriteToml` does not look at the stream after writing, so a full disk ends in
    a half-written file being renamed over the good one, and in a return value of true.
14. *A reinstall forgets lots* (`NothingIsForgotten` in `MCLotStreaming.cfg` with
    `MidStream = {"reinstall"}`): moving a slider of the patch makes `Update` uninstall
    and install it, and both clear `g_state`. Lots that were streaming stay half built
    until the game asks again, although the technical details say "re-posting the rest
    cross-thread" and the settings are "bound directly so GUI edits are live".
15. *A removal skips an object* (`NothingIsSkipped` with `MidStream = {"edit"}`): a
    removal that keeps the list's address moves the objects behind it, and the next
    window starts one too far.
16. *A new request ends in the old one's cancellation* (`NothingIsForgotten` with
    `MidStream = {"restart"}`): asked for another level of detail while the old stream is
    known, the detour takes it for a demotion, erases the state and builds nothing.
    Whether the game asks that way is not known from this repository.

The next ones concern the start-up; in `Startup` each is a step that counts in
`disorder`, and `PreferencesKept` is the promise up to the first of them.

17. *A save before the migration* writes S3SS.toml, beside which the old INI is never
    read: its contents are lost to the user.
18. *A save between `LoadAll` and `LoadPatches`* writes every patch as disabled, which
    `LoadPatches` then reads back.
19. *A file that does not parse* counts as absent, and the next save overwrites it.
20. *An `Install` that failed*, at the start or in a reinstall, leaves the patch off, and
    the next save writes it as disabled; a save *during* a reinstall does so too.
21. *The flags of `OptimizationManager::Get`* are plain booleans: a second thread may get
    a manager that is still being filled, whose missing patches a load passes over.
22. *An exception out of the hooks' initialisation* ends the hook thread: no patch is
    loaded, and the overlay goes on.
23. *A detach while the hook thread is busy* waits five seconds, under the loader lock,
    and then takes everything away; a reinstall under way leaves its patch installed.

The rest concern single parts.

24. *Memory warning*: a threshold raised past the reading is crossed without a warning
    while the last one counts as dismissed; with `UpdateOverlaps = TRUE` in
    `MCComponents.cfg`, `Update` between the two writes of the OK button warns again at
    once (`DismissalLasts`).
25. *Migration*: the popup's `hasQoL` (`migration.cpp:395`) does not look at the memory
    monitor's two values. Inside a list "7px" is read as 7, a scalar "7px" stays a string.
26. *Scanners*: `Pattern::ScanModule` misses a match at the very end, and its bound
    wraps for a pattern longer than the region; the two scanners differ in both.
27. *Classic smooth patch*: a rescan behind a match in the last bytes wraps and reads
    past the image (`stage = "crashed"`; `CodeIsChangedWhereMeant` speaks of padded images
    only). `customTPS` from 1001 to 2000 gives a sleep of 0 milliseconds.
28. *Precise smooth patch*: `timerFrequency` is read twice in one expression and may
    change, or be 0, between the two: a sleep far too long, or a division by zero
    (`WaitIsBounded` with `Reread = TRUE`). The result of NtQueryTimerResolution is not
    looked at.
29. *Blur*: passes in full lose brightness where the correction would exceed 1.25.
30. *CPU affinity*: a second install within the five seconds saves the confined mask, and
    nothing restores the first; if no restoring thread can be made, or the system refuses
    the restore, the confinement stays (`spoilt` names the three: without it in
    `AffinityIsRestored` TLC shows each). A query
    (`MAXIMUM_PROCESSORS`) is turned into a request, and a shift by 32 or more is
    undefined. A failed attach leaves the instance behind; `Uninstall` deletes it while a
    game thread may be in the hook.
31. *Lighting patch*: `Uninstall` does not look at the result of removing its hooks
    (`lighting_quality_patch.cpp:828`) and nulls the pointers they call, and a thread may be
    inside: its next call through one ends the game. The model has both, and no property
    forbids them. `Install` looks neither at the roll-back (775) nor at `RestoreAll` after a
    failed attach (809): data may stay written under a patch that is off and has forgotten it
    (`forsaken`). If `RestoreAll` fails in `Uninstall` (840) the patch stays enabled, and its
    hooks are gone.
32. *Adaptive wait*: `Uninstall` leaves the hooks in the import table, and they keep
    spinning. INVALID_HANDLE_VALUE is answered WAIT_FAILED where the kernel would wait
    for the process itself (`ImplementsKernelWait` without that part of `WaitAssumption`).
33. *Allocator hook*: its hooks are never removed, and beside a TOML file without the
    entry it falls back to the old INI (`allocator_hook.cpp`).
34. *An entry its setting refuses is dropped*: `ApplyPendingSavedValue` (`settings.cpp:186`)
    logs a mismatch and erases the entry all the same, and the next save, which writes what
    is overridden, loses it from the file.
35. *A load overtaken by a registration*: between `GetSetting` (`settings.cpp:347`) and
    `StorePendingSavedValue` (361) the game may register the setting. The value then waits
    for nothing (`overtaken`); should the game register the setting once more, it comes in
    over whatever the user has chosen since.
36. *Two readings of one entry* (`settings.cpp:153` and 259): for an integer setting 2.7 in a
    file edited by hand is 2 at the start of the game and 0 after Load Settings.
37. *One bad entry ends the load of all patches left* (`config_store.cpp:125`): the `try` is
    around the loop. The patches not reached count as not configured, are switched on if
    they are so by default, and the next save writes them like that.
38. *A Cleanup whose commit fails* (`d3d9_hook_registry.cpp`) leaves the detours in with
    `g_initialized` cleared. A second `Initialize` would take them for the originals and
    recurse for ever; `g_deviceInitDone` keeps that from happening.
39. *The classic smooth patch* reports a failed removal as an error and stays on, with some
    of the sleeps already back (`putBack`), until a removal succeeds.

## 7. Not in the models

Wording, layout and logging are abstracted away. The typed conversions of settings are
constants that give or refuse a value; those of the migration are in `LegacyIni`.
Data races on `m_settings` and `m_configValues` are modelled as atomic accesses of
single entries; the undefined behaviour of the containers is not. The lifetime of
trampoline memory during `Cleanup` belongs to Detours. Failures to change page
protection back are ignored by the code and by the model. A message that reaches the
hooked window between `SetWindowLongPtr` and the store of what it returns would go to
a null procedure; it can come only if another thread owns the window, and
`WndProcChainSound` leaves that moment out. An `EndScene` that finds another one under
way only calls the original and is no action. Of lot streaming, a list that takes the
address of a freed one, the unchecked result of the cross-thread post, and the settings
that turn the throttle off while it is installed are left out.

`Startup` leaves out the settings inside a patch's table, which `PatchLifecycle` takes up
where they matter, the version test, which only hides patches, and the back-up copies of
the migration. That a limited frame is at last let through is not checked: the relative
clock of `FrameLimiter` would need fairness of ticks against installs that the game does
not promise; `WaitIsBounded` bounds each wait instead. Of the affinity patch the flags of
scheduling and power are single calls, and how the cores are told apart is the answer
of the operating system. The timer patch, the stack size patch and the remaining byte
patches repeat the transaction that `PatchLifecycle` models; their content is machine
code for the game.

The allocator hook is one branch per function on what mimalloc says of a block; which
allocator owns it is decided in that library, which the repository does not hold. The
RefPack decompressor's state is its data, and a model would be a copy of its loops. Crash
logs and logging are output; the vtable and path helpers are lookups.

## 8. What could come next

1. `DeviceHooks`: `CleanupD3D9Hook` against a frame under way, composed with
   `HookRegistry!Initialize` and `Cleanup`.
2. `LotStreaming`: the map view blocker.
3. `Startup` with the settings of each patch and with `SettingsStore` as its game side.
