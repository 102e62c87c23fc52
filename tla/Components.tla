----------------------------- MODULE Components -----------------------------
(***************************************************************************)
(* The parts that share no state with any other, side by side.  One        *)
(* behaviour exercises one of them, the subject, and leaves the others in  *)
(* one initial state: a single run explores them all, and each property is *)
(* stated for its subject.  The values of the game's configuration are     *)
(* explored twice, with short values, reloads and free interleaving, and   *)
(* with values of any length, one request at a time.                       *)
(***************************************************************************)
EXTENDS ConfigValues, Sequences

CONSTANTS
    LongLengths,                                    \* of ConfigValues, the second time
    MaxLines, Lines,                                \* of LegacyIni
    Size, Word, Images, Fixes, Site, Sleep, Versions, Unknown, Rates, MaxScanInstalls, \* CodeScan
    Waiters, Handles, Calls, MaxCalls,              \* AdaptiveWait
    MIN_SPIN_US, MAX_SPIN_US, START_US, ADAPT_INTERVAL, STABLE_LIMIT,
    LightThreads, LightSettings, Colours, Close, MaxRefused, MaxLightInstalls, \* LightingHooks
    Width, Height, Pixels, Strengths,               \* PixelFilters
    Cores, FastCores, Masks, CpuThreads, MaxTracked, MaxCpuInstalls, \* CpuAffinity
    Levels, Thresholds, Duration, MaxClicks, UpdateOverlaps, \* MemoryWarning
    Cycle, Second, LimiterSettings, Frequencies, Reread      \* FrameLimiter

ASSUME LongAssumption == LongLengths \subseteq Nat

ASSUME LightAssumption ==
    /\ Colours \subseteq Int
    /\ \A s \in LightSettings : s.samples \in Nat

\* Words of two bytes.
ASSUME FilterAssumption ==
    /\ Width \in Nat \ {0} /\ Height \in Nat \ {0}
    /\ Strengths \subseteq Int
    /\ \A pixel \in Pixels : pixel \in Nat /\ pixel < 256 * 256

ASSUME LimiterAssumption ==
    /\ Cycle \in Nat \ {0} /\ Second \in Nat
    /\ Frequencies \subseteq Nat \ {0}
    /\ \A s \in LimiterSettings : s.cycle \in 0..Cycle /\ s.frame \in 0..Cycle /\ s.inactive \in 0..Cycle

\* The kinds of lines and prefixes ParseOldINI tells apart.
ASSUME IniAssumption ==
    \A l \in Lines :
        /\ l.kind \in {"marker", "other", "header", "pair"}
        /\ l.kind = "header" => l.prefix \in {"plain", "optimization", "config", "qol"}
        /\ l.kind = "pair" => l.value \in Seq({l.value[i] : i \in DOMAIN l.value}) \ {<<>>}

\* The patterns are parsed from literals that are not empty, and fit into the image.
IsPattern(p) == Len(p) \in 1..Size /\ DOMAIN p = 1..Len(p)

ASSUME ScanAssumption ==
    /\ Size \in Nat /\ Word \in Nat /\ Size < Word
    /\ IsPattern(Sleep) /\ IsPattern(Site.pattern)
    /\ \A k \in DOMAIN Fixes : IsPattern(Fixes[k].pattern)

\* What SmoothPatchClassic writes over a sleep.
Written == {<<"C3">>, <<"B9", "00">>, <<"B9", "ms">>}

\* The bytes of the code's own literals do not get in each other's way: a fix neither finds
\* nor leaves a byte of a sleep, nor leaves one of a later fix's pattern, and a sleep overlaps
\* neither another one nor what parts of a sleep and of what is written over it could make.
ASSUME CodeAssumption ==
    /\ \A m \in Images : DOMAIN m = 0..Size - 1
    /\ DOMAIN Fixes = 1..Len(Fixes) /\ Len(Fixes) \in Nat
    /\ \A k \in DOMAIN Fixes :
          LET fix == Fixes[k]
          IN /\ fix.offset \in Nat /\ fix.offset + Len(fix.replace) <= Len(fix.pattern)
             /\ Len(fix.replace) \in Nat /\ DOMAIN fix.expect = 1..Len(fix.replace)
             /\ \A j \in 1..Len(fix.replace) :
                   /\ \A s \in DOMAIN Sleep : {fix.expect[j], fix.replace[j]} \cap Sleep[s] = {}
                   /\ \A l \in k + 1..Len(Fixes) :
                         \A s \in DOMAIN Fixes[l].pattern : fix.replace[j] \notin Fixes[l].pattern[s]
    /\ \A w \in Written : Len(w) <= Len(Sleep) /\ \A s \in DOMAIN Sleep : w[1] \notin Sleep[s]
    /\ \A d \in 1..Len(Sleep) - 1 : \E j \in 1..Len(Sleep) - d :
          /\ Sleep[j] \cap Sleep[j + d] = {}
          /\ \A w \in Written : /\ j <= Len(w) => w[j] \notin Sleep[j + d]
                                /\ j + d <= Len(w) => w[j + d] \notin Sleep[j]

\* The game does not wait for its own process.
ASSUME WaitAssumption ==
    /\ \A c \in Calls : c.handle \in Handles \ {"process"} /\ c.time \in {"none", "some", "endless"} /\ c.alertable \in BOOLEAN
    /\ MIN_SPIN_US \in Nat /\ MAX_SPIN_US \in Nat /\ START_US \in Nat
    /\ ADAPT_INTERVAL \in Nat \ {0}

\* A process runs on one core at least.
ASSUME CpuAssumption == {} \notin Masks

VARIABLES
    subject,
    iniFile, section, inPatchArea, outSettings, outConfigs, outQoL, outPatches, built, tomlTable,
    exe, image, version, rate, stage, next, sites, missed, scanEnabled, scanInstalls, putBack,
    signalled, queued, waitEnabled, hooked, waitCall, calls, spinBudgetUs, spinSuccesses,
    spinFailures, totalCalls, lastSuccessRate, stableIntervals,
    chosen, data, undo, step, hooks, attached, original, sampleCount, adaptive, blur,
    resolution, lightCall, lightInstalls, forsaken,
    texture, locked, passes, weight, filter, pre, post,
    hybrid, home, affinity, saved, due, pCores, install, instance, cpuCall, tracked, ideal, cpuInstalls, spoilt,
    memory, threshold, enabled, modal, hasWarned, dismissed, timeLeft, pressing, clicks, quiet,
    clock, tickOnce, frameSimulate, idealCycle, idealFrame, idealInactive, previousCycle,
    previousFrame, patch, sim, render

configVars == <<phase, entry, buffer, capacity, content, held, pc, key, gui, typed, edits, file>>
iniVars == <<iniFile, section, inPatchArea, outSettings, outConfigs, outQoL, outPatches, built, tomlTable>>
scanVars == <<exe, image, version, rate, stage, next, sites, missed, scanEnabled, scanInstalls, putBack>>
waitVars == <<signalled, queued, waitEnabled, hooked, waitCall, calls, spinBudgetUs, spinSuccesses,
              spinFailures, totalCalls, lastSuccessRate, stableIntervals>>
lightVars == <<chosen, data, undo, step, hooks, attached, original, sampleCount, adaptive, blur,
               resolution, lightCall, lightInstalls, forsaken>>
filterVars == <<texture, locked, passes, weight, filter, pre, post>>
cpuVars == <<hybrid, home, affinity, saved, due, pCores, install, instance, cpuCall, tracked, ideal,
             cpuInstalls, spoilt>>
memoryVars == <<memory, threshold, enabled, modal, hasWarned, dismissed, timeLeft, pressing, clicks, quiet>>
limiterVars == <<clock, tickOnce, frameSimulate, idealCycle, idealFrame, idealInactive, previousCycle,
                 previousFrame, patch, sim, render>>
all == <<subject, configVars, iniVars, scanVars, waitVars, lightVars, filterVars, cpuVars,
         memoryVars, limiterVars>>

-----------------------------------------------------------------------------
LongValues == INSTANCE ConfigValues WITH Lengths <- LongLengths, Reloads <- FALSE, Serialized <- TRUE

Ini == INSTANCE LegacyIni WITH file <- iniFile

Scan == INSTANCE CodeScan WITH
    isEnabled <- scanEnabled, installs <- scanInstalls, MaxInstalls <- MaxScanInstalls

Waits == INSTANCE AdaptiveWait WITH isEnabled <- waitEnabled, call <- waitCall

Lighting == INSTANCE LightingHooks WITH
    call <- lightCall, installs <- lightInstalls, Threads <- LightThreads, Settings <- LightSettings,
    MaxInstalls <- MaxLightInstalls

Filter == INSTANCE PixelFilters WITH stage <- filter, original <- locked

Affinity == INSTANCE CpuAffinity WITH
    call <- cpuCall, installs <- cpuInstalls, Threads <- CpuThreads, MaxInstalls <- MaxCpuInstalls

Memory == INSTANCE MemoryWarning WITH Overlapped <- UpdateOverlaps

Limiter == INSTANCE FrameLimiter WITH Settings <- LimiterSettings

-----------------------------------------------------------------------------
Subjects ==
    {"config", "long config", "ini", "scan", "filter", "waits", "lighting", "affinity", "memory", "limiter"}

Some(S) == CHOOSE x \in S : TRUE

Pinned(module, state) == IF subject = module THEN TRUE ELSE state

ComponentsInit ==
    /\ subject \in Subjects
    /\ IF subject = "long config" THEN LongValues!Init
       ELSE IF subject = "config" THEN Init
       ELSE Init /\ key = Some(Names) /\ file = NoOverrides
    /\ Ini!Init
    /\ Pinned("scan", exe = Some(Images) /\ version = Some(Versions) /\ rate = Some(Rates)) /\ Scan!Init
    /\ Pinned("waits", signalled = TRUE) /\ Waits!Init
    /\ Pinned("lighting", chosen = Some(LightSettings)) /\ Lighting!Init
    /\ Pinned("filter", texture = [c \in Filter!Cells |-> Some(Pixels)] /\ passes = 0 /\ weight = 0) /\ Filter!Init
    /\ Pinned("affinity", home = Some(Masks) /\ hybrid = TRUE) /\ Affinity!Init
    /\ Pinned("memory", memory = Some(Levels) /\ threshold = Some(Thresholds) /\ enabled = TRUE /\ modal = TRUE)
    /\ Memory!Init
    /\ Limiter!Init

Still(modules, part) == IF subject \in modules THEN TRUE ELSE UNCHANGED part

Only(module) ==
    /\ subject = module /\ UNCHANGED subject
    /\ Still({"config", "long config"}, configVars)
    /\ Still({"ini"}, iniVars)
    /\ Still({"scan"}, scanVars)
    /\ Still({"waits"}, waitVars)
    /\ Still({"lighting"}, lightVars)
    /\ Still({"filter"}, filterVars)
    /\ Still({"affinity"}, cpuVars)
    /\ Still({"memory"}, memoryVars)
    /\ Still({"limiter"}, limiterVars)

ComponentsNext ==
    \/ Only("config") /\ Next
    \/ Only("long config") /\ LongValues!Next
    \/ Only("ini") /\ Ini!Next
    \/ Only("scan") /\ Scan!Next
    \/ Only("waits") /\ Waits!Next
    \/ Only("lighting") /\ Lighting!Next
    \/ Only("filter") /\ Filter!Next
    \/ Only("affinity") /\ Affinity!Next
    \/ Only("memory") /\ Memory!Next
    \/ Only("limiter") /\ Limiter!Next

ComponentsSpec == ComponentsInit /\ [][ComponentsNext]_all

-----------------------------------------------------------------------------
\* ConfigValues: with short values the game's pointers stay valid.
ShortPointersLive == subject = "config" => PointersLive

\* ConfigValues: what the overlay shows is what the game reads, for values of any length.
ShownIsEffectiveOnce == subject = "long config" => ShownIsEffective

\* ConfigValues: no lookup, save, load or restart loses or invents an override.
ConfigIsAStore ==
    /\ subject = "long config" => LongValues!Store!Init
    /\ [][subject = "long config" => LongValues!Store!Next \/ UNCHANGED LongValues!Store!vars]_all

\* LegacyIni: the migrated table says what the old file says.
MigrationKeepsTheFile == subject = "ini" => Ini!MigrationKeepsTheFile

\* CodeScan: a scan finds the first match there is.
ScansFindTheFirst == subject = "scan" => Scan!ScansFindTheFirst

\* CodeScan: code is changed only where the expected bytes were found.
CodeIsChangedWhereMeant == subject = "scan" => Scan!CodeIsChangedWhereMeant

\* AdaptiveWait: with the hooks in the table the game sees the kernel's own waits.
ImplementsKernelWait ==
    /\ subject = "waits" => Waits!Kernel!Init
    /\ [][subject = "waits" => Waits!Kernel!Next \/ UNCHANGED Waits!Kernel!vars]_all

\* LightingHooks: the game's data is put back by every way to the patch being off, where
\* no failed Install has given up on it.
DataIsPutBack == subject = "lighting" => Lighting!DataIsPutBack

\* LightingHooks: a returned colour is an average of the samples taken for it.
AverageOfSamples == subject = "lighting" => Lighting!AverageOfSamples

\* PixelFilters: no pass takes a channel out of its range, and the brightness is kept.
BlurKeepsTheTexture == subject = "filter" => Filter!BlurStaysInRange /\ Filter!BrightnessIsKept

\* CpuAffinity: once no restore is due the process has its own affinity again, but for
\* the cases in which the code loses it.
AffinityIsRestored == subject = "affinity" => Affinity!AffinityIsRestored

\* MemoryWarning: a dismissed dialog stays away until the memory has fallen.
DismissalLasts == subject = "memory" => Memory!DismissalLasts

\* FrameLimiter: every limited cycle and frame takes a slot of its own.
OneTurnPerSlot == [][subject = "limiter" => Limiter!TakesTurn]_all

\* FrameLimiter: no wait is longer than its period, no sleep longer than the wait.
WaitIsBounded == [][subject = "limiter" => Limiter!WaitsForItsPeriod]_all

=============================================================================
