--------------------------- MODULE PatchLifecycle ---------------------------
(***************************************************************************)
(* The life of one optimisation patch: Install, Uninstall, the debounced   *)
(* reinstall after a setting change, and the re-assertion of maintained    *)
(* writes after the game re-runs its registration pass.                    *)
(*                                                                         *)
(* Three threads act.  "hook" is HookThread (patch loading, then the       *)
(* message loop that calls Update), "gui" is the thread that runs EndScene *)
(* and therefore the overlay (check boxes, setting widgets), and the game  *)
(* thread runs the registration pass and OnSettingsRefired.                *)
(*                                                                         *)
(* Bytes are abstracted to versions: 0 is what the game shipped, v > 0 is  *)
(* what an Install writes when the patch's settings have version v.        *)
(***************************************************************************)
EXTENDS Integers, Sequences

CONSTANTS
    NumSites,       \* the patch writes sites 1, 2, ..., NumSites in this order
    Data,           \* the sites that hold game data and are maintained
    Anchors,        \* the sites whose expectedBytes AddressInfo::Resolve compares
    MaxVer,         \* bound: how many setting versions a behaviour may use
    MaxFaultFlips,  \* bound: how often a page's protection may change under us
    Serialized      \* TRUE: lifecycle calls of the two threads never overlap

Sites == 1..NumSites
Versions == 0..MaxVer
Pages == {"fine", "locked", "unmapped"}
Threads == {"hook", "gui"}
Location == [site : Sites, saved : Versions]

ASSUME LifecycleAssumption ==
    /\ NumSites \in Nat \ {0}
    /\ Data \subseteq Sites
    /\ Anchors \subseteq Sites
    /\ MaxVer \in Nat \ {0}
    /\ MaxFaultFlips \in Nat
    /\ Serialized \in BOOLEAN

VARIABLES
    mem,              \* the bytes at each site
    page,             \* what VirtualQuery / VirtualProtect answer for a site
    flips,            \* page changes so far
    isEnabled,
    patchedLocations,
    maintainedWrites, \* per data site the version to keep asserted, 0 for none
    setting,          \* version of the registered settings' values
    pendingReinstall,
    settled,          \* SETTING_CHANGE_DEBOUNCE has passed since lastSettingChange
    started,          \* HookThread has handed the patch its TOML table
    pc, job, tx, ver, ok, idx, saved, seen, \* locals of the two lifecycle threads
    locOwner,         \* owner of g_patchLocationMutex
    gamePc, gameTodo  \* the game thread, and the writes it has yet to re-assert

memVars    == <<mem, page, flips>>
patchVars  == <<isEnabled, patchedLocations, maintainedWrites>>
reinstVars == <<setting, pendingReinstall, settled, started>>
localVars  == <<tx, ver, ok, idx, saved, seen>>
gameVars   == <<gamePc, gameTodo>>
vars == <<memVars, patchVars, reinstVars, pc, job, localVars, locOwner, gameVars>>

-----------------------------------------------------------------------------
Init ==
    /\ mem = [a \in Sites |-> 0]
    /\ page \in [Sites -> Pages]
    /\ flips = 0
    /\ isEnabled = FALSE
    /\ patchedLocations = <<>>
    /\ maintainedWrites = [a \in Data |-> 0]
    /\ setting = 1
    /\ pendingReinstall = FALSE
    /\ settled = TRUE
    /\ started = FALSE
    /\ pc = [t \in Threads |-> "idle"]
    /\ job = [t \in Threads |-> "none"]
    /\ tx = [t \in Threads |-> <<>>]
    /\ ver = [t \in Threads |-> 0]
    /\ ok = [t \in Threads |-> TRUE]
    /\ idx = [t \in Threads |-> 0]
    /\ saved = [t \in Threads |-> 0]
    /\ seen = [t \in Threads |-> [a \in Data |-> 0]]
    /\ locOwner = "none"
    /\ gamePc = "idle"
    /\ gameTodo = {}

\* maintainedWritesMutex: only the game thread holds it across steps, while it
\* re-asserts; the critical sections of Install and Uninstall are one step each.
MaintainedMutexFree == gamePc # "reasserting"

Quiet == \A t \in Threads : pc[t] = "idle"

\* Nothing in the code keeps two threads from being inside Install or Uninstall
\* of the same patch; Serialized assumes they are not.
MayEnter(t) == /\ pc[t] = "idle"
               /\ Serialized => Quiet

Goto(t, label) == pc' = [pc EXCEPT ![t] = label]

Enter(t, label, what) ==
    /\ MayEnter(t)
    /\ Goto(t, label)
    /\ job' = [job EXCEPT ![t] = what]

\* Update calls Uninstall and then Install whatever Uninstall returned.
ReturnFromUninstall(t) ==
    Goto(t, IF job[t] = "reinstall" THEN "install" ELSE "idle")

-----------------------------------------------------------------------------
(* Callers. *)

\* OptimizationPatch::LoadFromToml on the hook thread: settings first, without
\* a change notification, then the enabled flag.  "stay" stands for a table
\* with no enabled key or one that already agrees with the patch.
LoadFromToml ==
    /\ ~started
    /\ started' = TRUE
    /\ setting' \in {setting, IF setting < MaxVer THEN setting + 1 ELSE setting}
    /\ \/ ~isEnabled /\ Enter("hook", "install", "install")
       \/ isEnabled /\ Enter("hook", "uninstall", "uninstall")
       \/ MayEnter("hook") /\ UNCHANGED <<pc, job>>
    /\ UNCHANGED <<memVars, patchVars, pendingReinstall, settled, localVars, locOwner, gameVars>>

\* The overlay's check box shows IsEnabled and calls Install or Uninstall.
GuiToggle ==
    /\ Serialized => started
    /\ \/ ~isEnabled /\ Enter("gui", "install", "install")
       \/ isEnabled /\ Enter("gui", "uninstall", "uninstall")
    /\ UNCHANGED <<memVars, patchVars, reinstVars, localVars, locOwner, gameVars>>

\* A setting widget stores the new value ...
GuiChangeSetting ==
    /\ pc["gui"] = "idle"
    /\ Serialized => started
    /\ setting < MaxVer
    /\ setting' = setting + 1
    /\ Goto("gui", "notify")
    /\ UNCHANGED <<memVars, patchVars, pendingReinstall, settled, started, job,
                   localVars, locOwner, gameVars>>

\* ... and then reports it (NotifySettingChanged).
GuiNotify ==
    /\ pc["gui"] = "notify"
    /\ settled' = FALSE
    /\ pendingReinstall' = TRUE
    /\ Goto("gui", "idle")
    /\ UNCHANGED <<memVars, patchVars, setting, started, job, localVars, locOwner, gameVars>>

DebounceElapses ==
    /\ ~settled
    /\ settled' = TRUE
    /\ UNCHANGED <<memVars, patchVars, setting, pendingReinstall, started, pc, job,
                   localVars, locOwner, gameVars>>

\* Mutant of UpdateTest: the debounce comparison the wrong way round.
UpdateTestTooEarly ==
    /\ started
    /\ pendingReinstall /\ isEnabled /\ ~settled
    /\ Serialized => pc["gui"] \in {"idle", "notify"}
    /\ pc["hook"] = "idle"
    /\ Goto("hook", "consume")
    /\ job' = [job EXCEPT !["hook"] = "reinstall"]
    /\ UNCHANGED <<memVars, patchVars, reinstVars, localVars, locOwner, gameVars>>

\* OptimizationPatch::Update, called by the message loop: the test ...
UpdateTest ==
    /\ started
    /\ pendingReinstall /\ isEnabled /\ settled
    /\ Serialized => pc["gui"] \in {"idle", "notify"}
    /\ pc["hook"] = "idle"
    /\ Goto("hook", "consume")
    /\ job' = [job EXCEPT !["hook"] = "reinstall"]
    /\ UNCHANGED <<memVars, patchVars, reinstVars, localVars, locOwner, gameVars>>

\* ... and the reset of the flag, before Uninstall and Install run.
UpdateConsume ==
    /\ pc["hook"] = "consume"
    /\ pendingReinstall' = FALSE
    /\ Goto("hook", "uninstall")
    /\ UNCHANGED <<memVars, patchVars, setting, settled, started, job, localVars,
                   locOwner, gameVars>>

-----------------------------------------------------------------------------
(* Install, one action per point where another thread may come in. *)

\* The early return, AddressInfo::Resolve over the anchors, and the reads of the
\* settings and of the data slots that the writes will expect to find.
InstallEntry(t) ==
    /\ pc[t] = "install"
    /\ IF isEnabled \/ \E a \in Anchors : mem[a] # 0 \/ page[a] = "unmapped"
       THEN /\ Goto(t, "idle")
            /\ UNCHANGED localVars
       ELSE /\ Goto(t, "query")
            /\ tx' = [tx EXCEPT ![t] = <<>>]
            /\ ver' = [ver EXCEPT ![t] = setting]
            /\ seen' = [seen EXCEPT ![t] = [a \in Data |-> mem[a]]]
            /\ ok' = [ok EXCEPT ![t] = TRUE]
            /\ idx' = [idx EXCEPT ![t] = 1]
            /\ UNCHANGED saved
    /\ UNCHANGED <<memVars, patchVars, reinstVars, job, locOwner, gameVars>>

\* A failed write is remembered (successful &=) and the next site is tried.
WriteFailed(t) ==
    /\ ok' = [ok EXCEPT ![t] = FALSE]
    /\ idx' = [idx EXCEPT ![t] = idx[t] + 1]
    /\ Goto(t, "query")

\* The expectedOld comparison of the data writes, VirtualQuery, and the copy of
\* the bytes to be overwritten; past the last site, the verdict.
Query(t) ==
    /\ pc[t] = "query"
    /\ \/ /\ idx[t] > NumSites
          /\ Goto(t, IF ok[t] THEN "commit" ELSE "rollbacklock")
          /\ UNCHANGED <<ok, idx, saved>>
       \/ /\ idx[t] <= NumSites
          /\ \/ page[idx[t]] = "unmapped"
             \/ idx[t] \in Data /\ mem[idx[t]] # seen[t][idx[t]]
          /\ WriteFailed(t)
          /\ UNCHANGED saved
       \/ /\ idx[t] <= NumSites
          /\ page[idx[t]] # "unmapped"
          /\ idx[t] \in Data => mem[idx[t]] = seen[t][idx[t]]
          /\ saved' = [saved EXCEPT ![t] = mem[idx[t]]]
          /\ Goto(t, "push")
          /\ UNCHANGED <<ok, idx>>
    /\ UNCHANGED <<memVars, patchVars, reinstVars, job, tx, ver, seen, locOwner, gameVars>>

\* Mutant of Push: the tracked address is one past the one written.
PushNextSite(t) ==
    /\ pc[t] = "push"
    /\ locOwner = "none"
    /\ tx' = [tx EXCEPT ![t] = Append(@, [site |-> idx[t] + 1, saved |-> saved[t]])]
    /\ Goto(t, "write")
    /\ UNCHANGED <<memVars, patchVars, reinstVars, job, ver, ok, idx, saved, seen,
                   locOwner, gameVars>>

\* tracker->push_back under g_patchLocationMutex.
Push(t) ==
    /\ pc[t] = "push"
    /\ locOwner = "none"
    /\ tx' = [tx EXCEPT ![t] = Append(@, [site |-> idx[t], saved |-> saved[t]])]
    /\ Goto(t, "write")
    /\ UNCHANGED <<memVars, patchVars, reinstVars, job, ver, ok, idx, saved, seen,
                   locOwner, gameVars>>

\* VirtualProtect, memcpy.  The location stays tracked when VirtualProtect fails.
Write(t) ==
    /\ pc[t] = "write"
    /\ \/ /\ page[idx[t]] # "fine"
          /\ WriteFailed(t)
          /\ UNCHANGED mem
       \/ /\ page[idx[t]] = "fine"
          /\ mem' = [mem EXCEPT ![idx[t]] = ver[t]]
          /\ Goto(t, "verify")
          /\ UNCHANGED <<ok, idx>>
    /\ UNCHANGED <<page, flips, patchVars, reinstVars, job, tx, ver, saved, seen,
                   locOwner, gameVars>>

Verify(t) ==
    /\ pc[t] = "verify"
    /\ ok' = [ok EXCEPT ![t] = @ /\ mem[idx[t]] = ver[t]]
    /\ idx' = [idx EXCEPT ![t] = @ + 1]
    /\ Goto(t, "query")
    /\ UNCHANGED <<memVars, patchVars, reinstVars, job, tx, ver, saved, seen,
                   locOwner, gameVars>>

\* CommitTransaction, patchedLocations = tx.locations (no lock is taken).
Commit(t) ==
    /\ pc[t] = "commit"
    /\ patchedLocations' = tx[t]
    /\ Goto(t, "maintain")
    /\ UNCHANGED <<memVars, isEnabled, maintainedWrites, reinstVars, job, localVars,
                   locOwner, gameVars>>

\* AddMaintainedWrite for the data sites.
Maintain(t) ==
    /\ pc[t] = "maintain"
    /\ MaintainedMutexFree
    /\ maintainedWrites' = [a \in Data |-> ver[t]]
    /\ Goto(t, "enable")
    /\ UNCHANGED <<memVars, isEnabled, patchedLocations, reinstVars, job, localVars,
                   locOwner, gameVars>>

\* Mutant of Enable: a finished Install also withdraws the reinstall request.
EnableAndForget(t) ==
    /\ pc[t] = "enable"
    /\ isEnabled' = TRUE
    /\ pendingReinstall' = FALSE
    /\ Goto(t, "idle")
    /\ UNCHANGED <<memVars, patchedLocations, maintainedWrites, setting, settled, started,
                   job, localVars, locOwner, gameVars>>

Enable(t) ==
    /\ pc[t] = "enable"
    /\ isEnabled' = TRUE
    /\ Goto(t, "idle")
    /\ UNCHANGED <<memVars, patchedLocations, maintainedWrites, reinstVars, job,
                   localVars, locOwner, gameVars>>

-----------------------------------------------------------------------------
(* RestoreAll, as RollbackTransaction and as Uninstall use it. *)

\* RollbackTransaction: an empty transaction does not reach RestoreAll.
RollbackLock(t) ==
    /\ pc[t] = "rollbacklock"
    /\ \/ /\ tx[t] = <<>>
          /\ Goto(t, "idle")
          /\ UNCHANGED <<idx, locOwner>>
       \/ /\ tx[t] # <<>>
          /\ locOwner = "none"
          /\ locOwner' = t
          /\ idx' = [idx EXCEPT ![t] = Len(tx[t])]
          /\ Goto(t, "rollback")
    /\ UNCHANGED <<memVars, patchVars, reinstVars, job, tx, ver, ok, saved, seen, gameVars>>

\* One iteration of the reverse loop.  The write and its verification are one
\* step; a page that refuses it makes the result FALSE and the loop goes on.
RestoreOne(t) ==
    LET loc == tx[t][idx[t]]
        can == page[loc.site] = "fine"
    IN  /\ idx[t] > 0
        /\ mem' = IF can THEN [mem EXCEPT ![loc.site] = loc.saved] ELSE mem
        /\ ok' = [ok EXCEPT ![t] = @ /\ can]
        /\ idx' = [idx EXCEPT ![t] = @ - 1]
        /\ UNCHANGED <<page, flips, patchVars, reinstVars, pc, job, tx, ver, saved,
                       seen, locOwner, gameVars>>

RollbackStep(t) == pc[t] = "rollback" /\ RestoreOne(t)

\* Mutant of RollbackDone: the early return of a failed rollback keeps the mutex.
RollbackDoneLocked(t) ==
    /\ pc[t] = "rollback"
    /\ idx[t] = 0
    /\ Goto(t, "idle")
    /\ UNCHANGED <<memVars, patchVars, reinstVars, job, localVars, locOwner, gameVars>>

\* Install ignores what RollbackTransaction returns and drops the transaction.
RollbackDone(t) ==
    /\ pc[t] = "rollback"
    /\ idx[t] = 0
    /\ locOwner' = "none"
    /\ Goto(t, "idle")
    /\ UNCHANGED <<memVars, patchVars, reinstVars, job, localVars, gameVars>>

\* Mutant of UninstallEntry: no ClearMaintainedWrites before the restore.
UninstallEntryNoClear(t) ==
    /\ pc[t] = "uninstall"
    /\ IF isEnabled THEN Goto(t, "lock") ELSE ReturnFromUninstall(t)
    /\ UNCHANGED <<memVars, patchVars, reinstVars, job, localVars, locOwner, gameVars>>

UninstallEntry(t) ==
    /\ pc[t] = "uninstall"
    /\ IF isEnabled THEN Goto(t, "clear") ELSE ReturnFromUninstall(t)
    /\ UNCHANGED <<memVars, patchVars, reinstVars, job, localVars, locOwner, gameVars>>

\* ClearMaintainedWrites.
Clear(t) ==
    /\ pc[t] = "clear"
    /\ MaintainedMutexFree
    /\ maintainedWrites' = [a \in Data |-> 0]
    /\ Goto(t, "lock")
    /\ UNCHANGED <<memVars, isEnabled, patchedLocations, reinstVars, job, localVars,
                   locOwner, gameVars>>

RestoreLock(t) ==
    /\ pc[t] = "lock"
    /\ locOwner = "none"
    /\ locOwner' = t
    /\ tx' = [tx EXCEPT ![t] = patchedLocations]
    /\ idx' = [idx EXCEPT ![t] = Len(patchedLocations)]
    /\ ok' = [ok EXCEPT ![t] = TRUE]
    /\ Goto(t, "restore")
    /\ UNCHANGED <<memVars, patchVars, reinstVars, job, ver, saved, seen, gameVars>>

RestoreStep(t) == pc[t] = "restore" /\ RestoreOne(t)

\* Mutant of RestoreDone: locations.clear() whatever the outcome.
RestoreDoneAlwaysClears(t) ==
    /\ pc[t] = "restore"
    /\ idx[t] = 0
    /\ locOwner' = "none"
    /\ patchedLocations' = <<>>
    /\ IF ok[t] THEN Goto(t, "disable") ELSE ReturnFromUninstall(t)
    /\ UNCHANGED <<memVars, isEnabled, maintainedWrites, reinstVars, job, localVars, gameVars>>

\* locations.clear() only after a complete restore; otherwise Uninstall returns
\* with the patch still enabled.
RestoreDone(t) ==
    /\ pc[t] = "restore"
    /\ idx[t] = 0
    /\ locOwner' = "none"
    /\ IF ok[t]
       THEN /\ patchedLocations' = <<>>
            /\ Goto(t, "disable")
       ELSE /\ ReturnFromUninstall(t)
            /\ UNCHANGED patchedLocations
    /\ UNCHANGED <<memVars, isEnabled, maintainedWrites, reinstVars, job, localVars, gameVars>>

Disable(t) ==
    /\ pc[t] = "disable"
    /\ isEnabled' = FALSE
    /\ ReturnFromUninstall(t)
    /\ UNCHANGED <<memVars, patchedLocations, maintainedWrites, reinstVars, job,
                   localVars, locOwner, gameVars>>

-----------------------------------------------------------------------------
(* The game thread and the pages. *)

\* The game re-runs its registration pass: its configuration lands on the data.
GameRegistrationPass ==
    /\ gamePc = "idle"
    /\ gamePc' = "fired"
    /\ mem' = [a \in Sites |-> IF a \in Data THEN 0 ELSE mem[a]]
    /\ UNCHANGED <<page, flips, patchVars, reinstVars, pc, job, localVars, locOwner, gameTodo>>

\* OnSettingsRefired: the test of isEnabled ...
RefiredTest ==
    /\ gamePc = "fired"
    /\ gamePc' = IF isEnabled THEN "wait" ELSE "idle"
    /\ UNCHANGED <<memVars, patchVars, reinstVars, pc, job, localVars, locOwner, gameTodo>>

\* ... then maintainedWritesMutex ...
RefiredLock ==
    /\ gamePc = "wait"
    /\ gamePc' = "reasserting"
    /\ gameTodo' = {a \in Data : maintainedWrites[a] # 0}
    /\ UNCHANGED <<memVars, patchVars, reinstVars, pc, job, localVars, locOwner>>

\* ... and SafeReassert of each maintained write, under the mutex.
SafeReassert ==
    /\ gamePc = "reasserting"
    /\ \E a \in gameTodo :
          /\ gameTodo' = gameTodo \ {a}
          /\ mem' = IF page[a] = "fine" THEN [mem EXCEPT ![a] = maintainedWrites[a]] ELSE mem
    /\ UNCHANGED <<page, flips, patchVars, reinstVars, pc, job, localVars, locOwner, gamePc>>

RefiredDone ==
    /\ gamePc = "reasserting"
    /\ gameTodo = {}
    /\ gamePc' = "idle"
    /\ UNCHANGED <<memVars, patchVars, reinstVars, pc, job, localVars, locOwner, gameTodo>>

\* External: another component of the process changes a page's protection.
PageChange ==
    /\ flips < MaxFaultFlips
    /\ flips' = flips + 1
    /\ \E a \in Sites, p \in Pages : page' = [page EXCEPT ![a] = p]
    /\ UNCHANGED <<mem, patchVars, reinstVars, pc, job, localVars, locOwner, gameVars>>

-----------------------------------------------------------------------------
Install(t) ==
    \/ InstallEntry(t) \/ Query(t) \/ Push(t) \/ Write(t) \/ Verify(t)
    \/ Commit(t) \/ Maintain(t) \/ Enable(t)
    \/ RollbackLock(t) \/ RollbackStep(t) \/ RollbackDone(t)

Uninstall(t) ==
    \/ UninstallEntry(t) \/ Clear(t) \/ RestoreLock(t) \/ RestoreStep(t)
    \/ RestoreDone(t) \/ Disable(t)

Hook == LoadFromToml \/ UpdateTest \/ UpdateConsume
Gui == GuiToggle \/ GuiChangeSetting \/ GuiNotify
OnSettingsRefired == RefiredTest \/ RefiredLock \/ SafeReassert \/ RefiredDone
World == GameRegistrationPass \/ DebounceElapses \/ PageChange

Next ==
    \/ \E t \in Threads : Install(t) \/ Uninstall(t)
    \/ Hook \/ Gui \/ OnSettingsRefired \/ World

Spec == Init /\ [][Next]_vars

\* The hook thread runs LoadPatches once and then its message loop for good;
\* a widget that stored a value goes on to report it; a call that was entered
\* keeps running; time passes; the game thread finishes OnSettingsRefired.
\* Nobody is obliged to touch the overlay, and the game to re-run its pass.
\* The two steps that wait for the game thread's mutex need strong fairness:
\* the game re-runs the pass a few times per session, not for ever.
Fairness ==
    /\ WF_vars(Hook)
    /\ WF_vars(GuiNotify)
    /\ WF_vars(DebounceElapses)
    /\ WF_vars(OnSettingsRefired)
    /\ \A t \in Threads :
          /\ WF_vars(Install(t) \/ Uninstall(t))
          /\ SF_vars(Clear(t))
          /\ SF_vars(Maintain(t))

FairSpec == Spec /\ Fairness

-----------------------------------------------------------------------------
(* Properties. *)

PcLabels ==
    {"idle", "install", "query", "push", "write", "verify", "commit", "maintain",
     "enable", "rollbacklock", "rollback", "uninstall", "clear", "lock", "restore",
     "disable", "notify", "consume"}

MemTypes ==
    /\ mem \in [Sites -> Versions]
    /\ page \in [Sites -> Pages]
    /\ flips \in 0..MaxFaultFlips

PatchTypes ==
    /\ isEnabled \in BOOLEAN
    /\ patchedLocations \in Seq(Location)
    /\ maintainedWrites \in [Data -> Versions]

ReinstTypes ==
    /\ setting \in 1..MaxVer
    /\ pendingReinstall \in BOOLEAN
    /\ settled \in BOOLEAN
    /\ started \in BOOLEAN

ControlTypes ==
    /\ pc \in [Threads -> PcLabels]
    /\ job \in [Threads -> {"none", "install", "uninstall", "reinstall"}]
    /\ locOwner \in Threads \cup {"none"}

LocalTypes ==
    /\ tx \in [Threads -> Seq(Location)]
    /\ ver \in [Threads -> Versions]
    /\ ok \in [Threads -> BOOLEAN]
    /\ idx \in [Threads -> Nat]
    /\ saved \in [Threads -> Versions]
    /\ seen \in [Threads -> [Data -> Versions]]

GameTypes ==
    /\ gamePc \in {"idle", "fired", "wait", "reasserting"}
    /\ gameTodo \subseteq Data

\* Every variable has its type: lists of tracked locations for the patch and for
\* the running transactions, versions for bytes, control labels for the threads.
TypeOK == MemTypes /\ PatchTypes /\ ReinstTypes /\ ControlTypes /\ LocalTypes /\ GameTypes

\* A patch that is off has left nothing behind: once no lifecycle call is
\* running and the patch reports itself disabled, every byte it writes is the
\* game's own, whatever the order of installs, failed installs, reinstalls and
\* re-fires ("so a re-fire landing mid-uninstall can't re-stomp the value we're
\* about to restore", optimization.h).
DisabledIsPristine ==
    Quiet /\ ~isEnabled => \A a \in Sites : mem[a] = 0

\* A patch that is on runs with the settings the user sees: with no reinstall
\* owed, the code it wrote is that of the current settings.  A change reported
\* while a reinstall is already reading the settings must not be lost.
EnabledIsCurrent ==
    Quiet /\ isEnabled /\ ~pendingReinstall =>
        \A a \in Sites \ Data : mem[a] = setting

\* Even when pages refuse writes in the middle of an Install or an Uninstall, a
\* patch that stays enabled still tracks every site it has changed, so that a
\* later Uninstall can try again.
EnabledCanBeUndone ==
    Quiet /\ isEnabled =>
        \A a \in Sites : mem[a] # 0 =>
            \E i \in DOMAIN patchedLocations : patchedLocations[i].site = a

\* Once the game thread is through with a re-fire and no call is running, an
\* enabled patch's maintained writes are in memory ("a value to keep asserted
\* at address", optimization.h:54).
MaintainedAreAsserted ==
    Quiet /\ isEnabled /\ gamePc = "idle" =>
        \A a \in Data : maintainedWrites[a] # 0 => mem[a] = maintainedWrites[a]

\* A change the user made while the patch was on is reinstalled, unless the
\* patch ends up off: the debounce and Update never lose the request.
ReportedChangeIsTakenUp ==
    pendingReinstall ~> (~pendingReinstall \/ (Quiet /\ ~isEnabled))

\* Every lifecycle call returns: neither mutex is ever left locked, on the
\* failing paths either.
CallsReturn ==
    \A t \in Threads : pc[t] # "idle" ~> pc[t] = "idle"

-----------------------------------------------------------------------------
(* Inductive invariants. *)

\* The loops stay inside the sites and inside the transaction.
IndexInv == \A t \in Threads :
    /\ pc[t] = "query" => idx[t] >= 1
    /\ pc[t] \in {"push", "write", "verify"} => idx[t] \in Sites
    /\ pc[t] \in {"rollback", "restore"} => idx[t] <= Len(tx[t])

\* The others are for lifecycle calls that do not overlap.

Tracks(locs, n, a) == \E i \in 1..n : locs[i].site = a
TracksAll(locs) == \A a \in Sites : Tracks(locs, Len(locs), a)

Installing == {"query", "push", "write", "verify", "commit", "maintain", "enable",
               "rollbacklock", "rollback"}
Uninstalling == {"clear", "lock", "restore", "disable"}
Busy(t) == pc[t] \notin {"idle", "notify", "consume"}

\* At most one thread is inside a lifecycle call.
OneAtATime ==
    /\ Busy("hook") \/ pc["hook"] = "consume" => pc["gui"] \in {"idle", "notify"}
    /\ pc["hook"] # "notify" /\ pc["gui"] # "consume"

\* What the thread inside a lifecycle call has tracked so far.
CallTracks(t) ==
    /\ pc[t] \in Installing => ~isEnabled
    /\ pc[t] \in Uninstalling => isEnabled
    /\ pc[t] \in {"query", "push"} /\ ok[t] =>
          \A a \in Sites : a < idx[t] => Tracks(tx[t], Len(tx[t]), a)
    /\ pc[t] \in {"write", "verify"} /\ ok[t] =>
          \A a \in Sites : a <= idx[t] => Tracks(tx[t], Len(tx[t]), a)
    /\ pc[t] = "commit" => TracksAll(tx[t])
    /\ pc[t] \in {"maintain", "enable"} => TracksAll(patchedLocations)

\* An enabled patch tracks every site it writes, except between the completed
\* restore and the reset of isEnabled.
TrackingInv ==
    /\ OneAtATime
    /\ \A t \in Threads : CallTracks(t)
    /\ isEnabled /\ (\A t \in Threads : pc[t] # "disable") => TracksAll(patchedLocations)

Pristine == \A a \in Sites : mem[a] = 0
NothingMaintained == \A a \in Data : maintainedWrites[a] = 0
DirtyTracked(locs, n) == \A a \in Sites : mem[a] # 0 => Tracks(locs, n, a)
SavedPristine(locs) == \A i \in DOMAIN locs : locs[i].saved = 0

\* Which bytes may differ from the game's own while a call is running.
CallIsClean(t) ==
    /\ pc[t] \in {"query", "push", "write"} => \A a \in Sites : a >= idx[t] => mem[a] = 0
    /\ pc[t] = "verify" => \A a \in Sites : a > idx[t] => mem[a] = 0
    /\ pc[t] = "push" => saved[t] = 0
    /\ pc[t] = "write" => Tracks(tx[t], Len(tx[t]), idx[t])
    /\ pc[t] \in {"query", "push", "write", "verify", "rollbacklock"} =>
          DirtyTracked(tx[t], Len(tx[t]))
    /\ pc[t] \in {"rollback", "restore"} =>
          DirtyTracked(tx[t], idx[t])
    /\ pc[t] = "disable" => Pristine
    /\ pc[t] \in (Installing \cup Uninstalling) \ {"enable", "clear"} => NothingMaintained

\* Only writable pages are ever dirty, what was saved is the game's own, the
\* game thread re-asserts nothing that is not maintained, and a patch that is
\* off and that nobody is installing is pristine.
CleanInv ==
    /\ \A a \in Sites : mem[a] # 0 => page[a] = "fine"
    /\ SavedPristine(patchedLocations)
    /\ \A t \in Threads : SavedPristine(tx[t])
    /\ \A a \in gameTodo : gamePc = "reasserting" /\ maintainedWrites[a] # 0
    /\ \A t \in Threads : CallIsClean(t)
    /\ ~isEnabled /\ (\A t \in Threads : pc[t] \notin Installing) =>
          Pristine /\ NothingMaintained

Written(n, v) == \A a \in Sites \ Data : a < n => mem[a] = v
Fine(locs) == \A i \in DOMAIN locs : page[locs[i].site] = "fine"
ChangeKnown == pendingReinstall \/ pc["gui"] = "notify"

\* What the running call has written, that it can be taken back, and that its
\* settings are old only if a reinstall is owed.
CallIsCurrent(t) ==
    /\ pc[t] \in {"query", "push", "write", "verify"} /\ ok[t] => Written(idx[t], ver[t])
    /\ pc[t] \in {"commit", "maintain", "enable"} => Written(NumSites + 1, ver[t])
    /\ pc[t] \in {"query", "push", "verify"} /\ ok[t] => Fine(tx[t])
    /\ pc[t] = "write" /\ ok[t] =>
          \A i \in DOMAIN tx[t] : tx[t][i].site # idx[t] => page[tx[t][i].site] = "fine"
    /\ pc[t] = "commit" => Fine(tx[t])
    /\ pc[t] = "restore" => Fine(tx[t]) /\ ok[t]
    /\ pc[t] \in Installing => ver[t] = setting \/ ChangeKnown

\* Every tracked page is writable, so that an Uninstall succeeds; a patch that is on
\* and that nobody is about to take off has written the settings, or owes a reinstall.
CurrentInv ==
    /\ Fine(patchedLocations)
    /\ ~started => ~isEnabled /\ Quiet
    /\ \A t \in Threads : CallIsCurrent(t)
    /\ isEnabled /\ ~ChangeKnown /\ (\A t \in Threads : pc[t] \notin Uninstalling \cup {"uninstall"}) =>
          Written(NumSites + 1, setting)

=============================================================================
