--------------------------- MODULE ComponentProofs ---------------------------
(***************************************************************************)
(* Theorems about the parts side by side in Components, proved for every   *)
(* value of their constants.  Each part has an inductive invariant of its  *)
(* own, which a behaviour keeps whose subject the part is.                 *)
(***************************************************************************)
EXTENDS Components, ConfigValuesProofs, FiniteSetTheorems, WellFoundedInduction

-----------------------------------------------------------------------------
(* The subject of a behaviour takes its own steps, or none. *)

LEMMA SubjectStays == [ComponentsNext]_all => subject' = subject
BY DEF ComponentsNext, Only, all

LEMMA SubjectSteps ==
    ASSUME [ComponentsNext]_all
    PROVE  /\ subject = "config" => [Next]_vars
           /\ subject = "long config" => [LongValues!Next]_LongValues!vars
           /\ subject = "scan" => [Scan!Next]_Scan!vars
           /\ subject = "waits" => [Waits!Next]_Waits!vars
           /\ subject = "lighting" => [Lighting!Next]_Lighting!vars
           /\ subject = "affinity" => [Affinity!Next]_Affinity!vars
           /\ subject = "memory" => [Memory!Next]_Memory!vars
           /\ subject = "limiter" => [Limiter!Next]_Limiter!vars
           /\ subject = "ini" => [Ini!Next]_Ini!vars
           /\ subject = "filter" => [Filter!Next]_Filter!vars
<1>1. CASE ComponentsNext
  BY <1>1 DEF ComponentsNext, Only
<1>2. CASE UNCHANGED all
  <2>1. /\ UNCHANGED vars /\ UNCHANGED LongValues!vars
    BY <1>2 DEF all, vars, cacheVars, gameVars, guiVars, configVars, LongValues!vars,
                LongValues!cacheVars, LongValues!gameVars, LongValues!guiVars
  <2>2. UNCHANGED Scan!vars
    BY <1>2 DEF all, Scan!vars, scanVars
  <2>3. UNCHANGED Waits!vars
    BY <1>2 DEF all, waitVars, Waits!vars, Waits!patch, Waits!counters
  <2>4. UNCHANGED Lighting!vars
    BY <1>2 DEF all, lightVars, Lighting!vars, Lighting!installed, Lighting!globals
  <2>5. UNCHANGED Affinity!vars
    BY <1>2 DEF all, cpuVars, Affinity!vars
  <2>6. UNCHANGED Memory!vars
    BY <1>2 DEF all, memoryVars, Memory!vars, Memory!monitor, Memory!warning
  <2>7. UNCHANGED Limiter!vars
    BY <1>2 DEF all, limiterVars, Limiter!vars, Limiter!tuning
  <2>8. UNCHANGED Ini!vars
    BY <1>2 DEF all, iniVars, Ini!vars
  <2>9. UNCHANGED Filter!vars
    BY <1>2 DEF all, filterVars, Filter!vars
  <2> QED BY <2>1, <2>2, <2>3, <2>4, <2>5, <2>6, <2>7, <2>8, <2>9
<1> QED BY <1>1, <1>2

-----------------------------------------------------------------------------
(* ConfigValues, with short values and with values of any length. *)

\* With values that fit the least buffer no pointer the game holds is ever freed, however
\* its lookups and the overlay's requests interleave, the loading of the settings
\* included (config_value_manager.h:28).
THEOREM PointersStayLive == ShortValues => (ComponentsSpec => []ShortPointersLive)
<1> DEFINE Inv == subject = "config" => PointersInv
<1> SUFFICES ASSUME ShortValues PROVE ComponentsSpec => []ShortPointersLive
  OBVIOUS
<1>1. ComponentsInit => Inv
  BY PointersInit DEF ComponentsInit
<1>2. Inv /\ [ComponentsNext]_all => Inv'
  BY SubjectStays, SubjectSteps, PointersStep
<1>3. Inv => ShortPointersLive
  BY DEF ShortPointersLive, PointersInv
<1> QED BY <1>1, <1>2, <1>3, PTL DEF ComponentsSpec

LongProofs == INSTANCE ConfigValuesProofs WITH Lengths <- LongLengths, Reloads <- FALSE, Serialized <- TRUE

LEMMA LongConfigAssumption == LongProofs!ConfigAssumption
BY ConfigAssumption, LongAssumption DEF ConfigAssumption, LongProofs!ConfigAssumption

LongInv == LongProofs!SerialInv /\ LongProofs!EffectiveInv

LEMMA LongInit == LongValues!Init => LongInv
<1> SUFFICES ASSUME LongValues!Init PROVE LongInv
  OBVIOUS
<1>1. LongProofs!Init
  BY DEF LongValues!Init, LongProofs!Init, LongValues!NoEntry, LongProofs!NoEntry
<1>2. LongProofs!SerialInv
  BY <1>1, LongConfigAssumption, LongProofs!SerialInit
<1>3. LongProofs!EffectiveInv
  BY <1>1 DEF LongProofs!Init, LongProofs!EffectiveInv
<1> QED BY <1>2, <1>3 DEF LongInv

\* The two instances are of one module.
LEMMA LongSame == [LongValues!Next]_LongValues!vars => [LongProofs!Next]_LongProofs!vars
<1> SUFFICES ASSUME [LongValues!Next]_LongValues!vars PROVE [LongProofs!Next]_LongProofs!vars
  OBVIOUS
<1> USE DEF LongValues!cacheVars, LongProofs!cacheVars, LongValues!gameVars, LongProofs!gameVars,
            LongValues!guiVars, LongProofs!guiVars, LongValues!NoEntry, LongProofs!NoEntry,
            LongValues!Request, LongProofs!Request
<1>1. ASSUME NEW n, NEW length, NEW least, LongValues!GetOrCreateBuffer(n, length, least)
      PROVE  LongProofs!GetOrCreateBuffer(n, length, least)
  BY <1>1 DEF LongValues!GetOrCreateBuffer, LongProofs!GetOrCreateBuffer, LongValues!Smaller,
              LongProofs!Smaller, LongValues!Larger, LongProofs!Larger
<1>2. ASSUME NEW n \in Names, LongValues!LookupFind(n) PROVE LongProofs!LookupFind(n)
  BY <1>2 DEF LongValues!LookupFind, LongProofs!LookupFind
<1>3. CASE LongValues!LookupOverride
  <2>1. LongProofs!LookupOverride
    BY <1>1, <1>3 DEF LongValues!LookupOverride, LongProofs!LookupOverride
  <2> QED BY <2>1 DEF LongProofs!Next, LongProofs!Lookup
<1>4. CASE LongValues!LookupOwn
  <2>1. LongProofs!LookupOwn
    BY <1>1, <1>4 DEF LongValues!LookupOwn, LongProofs!LookupOwn
  <2> QED BY <2>1 DEF LongProofs!Next, LongProofs!Lookup
<1>5. CASE LongValues!LookupAdd
  <2>1. LongProofs!LookupAdd
    BY <1>5 DEF LongValues!LookupAdd, LongProofs!LookupAdd
  <2> QED BY <2>1 DEF LongProofs!Next, LongProofs!Lookup
<1>6. ASSUME NEW n \in Names, NEW v \in LongLengths, LongValues!UpdateBuffer(n, v)
      PROVE  LongProofs!UpdateBuffer(n, v)
  BY <1>1, <1>6 DEF LongValues!UpdateBuffer, LongProofs!UpdateBuffer
<1>7. CASE LongValues!UpdateEntry
  <2>1. LongProofs!UpdateEntry
    BY <1>7 DEF LongValues!UpdateEntry, LongProofs!UpdateEntry
  <2> QED BY <2>1 DEF LongProofs!Next, LongProofs!Overlay
<1>8. ASSUME NEW n \in Names, LongValues!ClearOverride(n) PROVE LongProofs!ClearOverride(n)
  BY <1>8 DEF LongValues!ClearOverride, LongProofs!ClearOverride
<1>9. CASE LongValues!SaveAll
  <2>1. LongProofs!SaveAll
    BY <1>9 DEF LongValues!SaveAll, LongProofs!SaveAll
  <2> QED BY <2>1 DEF LongProofs!Next, LongProofs!Overlay
<1>10. CASE LongValues!LoadAtStart
  <2>1. LongProofs!LoadAtStart
    BY <1>10 DEF LongValues!LoadAtStart, LongProofs!LoadAtStart, LongValues!Distribute, LongProofs!Distribute
  <2> QED BY <2>1 DEF LongProofs!Next
<1>11. ~LongValues!LoadSettings
  BY DEF LongValues!LoadSettings
<1>12. CASE LongValues!Restart
  <2>1. LongProofs!Restart
    BY <1>12 DEF LongValues!Restart, LongProofs!Restart
  <2> QED BY <2>1 DEF LongProofs!Next
<1>13. CASE UNCHANGED LongValues!vars
  BY <1>13 DEF LongValues!vars, LongProofs!vars
<1>14. ASSUME NEW n \in Names, LongValues!LookupFind(n) PROVE LongProofs!Next
  BY <1>2, <1>14 DEF LongProofs!Next, LongProofs!Lookup
<1>15. ASSUME NEW n \in Names, NEW v \in LongLengths, LongValues!UpdateBuffer(n, v) PROVE LongProofs!Next
  BY <1>6, <1>15 DEF LongProofs!Next, LongProofs!Overlay
<1>16. ASSUME NEW n \in Names, LongValues!ClearOverride(n) PROVE LongProofs!Next
  BY <1>8, <1>16 DEF LongProofs!Next, LongProofs!Overlay
<1> QED
  BY <1>3, <1>4, <1>5, <1>7, <1>9, <1>10, <1>11, <1>12, <1>13, <1>14, <1>15, <1>16
     DEF LongValues!Next, LongValues!Lookup, LongValues!Overlay

LEMMA LongStep == LongInv /\ [LongValues!Next]_LongValues!vars => LongInv'
<1> SUFFICES ASSUME LongInv, [LongValues!Next]_LongValues!vars PROVE LongInv'
  OBVIOUS
<1>1. [LongProofs!Next]_LongProofs!vars
  BY LongSame
<1>2. LongProofs!SerialInv'
  BY <1>1, LongConfigAssumption, LongProofs!SerialStep DEF LongInv
<1>3. LongProofs!EffectiveInv'
  BY <1>1, LongConfigAssumption, LongProofs!EffectiveStep DEF LongInv
<1> QED BY <1>2, <1>3 DEF LongInv

\* What the overlay shows as the override is what the game reads through its pointer, up
\* to the largest buffer, for values of any length (config_value_manager.cpp:20, 48).
THEOREM ShownValuesAreRead == ComponentsSpec => []ShownIsEffectiveOnce
<1> DEFINE Inv == subject = "long config" => LongInv
<1>1. ComponentsInit => Inv
  BY LongInit DEF ComponentsInit
<1>2. Inv /\ [ComponentsNext]_all => Inv'
  BY SubjectStays, SubjectSteps, LongStep
<1>3. Inv => ShownIsEffectiveOnce
  BY DEF ShownIsEffectiveOnce, ShownIsEffective, LongInv, LongProofs!EffectiveInv, LongProofs!Effective,
         LongProofs!Smaller, Smaller
<1> QED BY <1>1, <1>2, <1>3, PTL DEF ComponentsSpec

\* No lookup of the game, edit, save, load or restart loses or invents an override of a
\* config value, of any length: each is a step of OverrideStore or changes nothing there
\* (config_value_manager.cpp).
THEOREM ConfigImplementsStore == ComponentsSpec => ConfigIsAStore
<1> DEFINE Inv == subject = "long config" => LongInv
           Step == subject = "long config" => LongValues!Store!Next \/ UNCHANGED LongValues!Store!vars
<1>1. ComponentsInit => Inv
  BY LongInit DEF ComponentsInit
<1>2. Inv /\ [ComponentsNext]_all => Inv'
  BY SubjectStays, SubjectSteps, LongStep
<1>3. ComponentsInit => (subject = "long config" => LongValues!Store!Init)
  <2> SUFFICES ASSUME LongValues!Init PROVE LongValues!Store!Init
    BY DEF ComponentsInit
  <2>1. LongProofs!Init
    BY DEF LongValues!Init, LongProofs!Init, LongValues!NoEntry, LongProofs!NoEntry
  <2>2. LongProofs!Store!Init
    BY <2>1, LongConfigAssumption, LongProofs!InitImplements
  <2> QED
    BY <2>2 DEF LongValues!Store!Init, LongProofs!Store!Init, LongValues!Wish, LongProofs!Wish,
                LongValues!Kept, LongProofs!Kept, LongValues!NoOverrides, LongProofs!NoOverrides,
                LongValues!Store!Overrides, LongProofs!Store!Overrides,
                LongValues!Store!Readings, LongProofs!Store!Readings,
                LongValues!Store!NoOverrides, LongProofs!Store!NoOverrides
<1>4. Inv /\ [ComponentsNext]_all => Step
  <2> SUFFICES ASSUME Inv, [ComponentsNext]_all, subject = "long config" PROVE Step
    OBVIOUS
  <2>1. LongProofs!SerialInv /\ [LongProofs!Next]_LongProofs!vars
    BY SubjectSteps, LongSame DEF LongInv
  <2>2. [LongProofs!Store!Next]_LongProofs!Store!vars
    BY <2>1, LongConfigAssumption, LongProofs!StepImplements
  <2> QED
    BY <2>2 DEF LongValues!Store!vars, LongProofs!Store!vars, LongValues!Wish, LongProofs!Wish,
                LongValues!Kept, LongProofs!Kept, LongValues!NoOverrides, LongProofs!NoOverrides,
                LongValues!Store!Next, LongProofs!Store!Next, LongValues!Store!Request, LongProofs!Store!Request,
                LongValues!Store!Edit, LongProofs!Store!Edit, LongValues!Store!Clear, LongProofs!Store!Clear,
                LongValues!Store!Merge, LongProofs!Store!Merge, LongValues!Store!ResetAll, LongProofs!Store!ResetAll,
                LongValues!Store!LearnDefaults, LongProofs!Store!LearnDefaults, LongValues!Store!Save,
                LongProofs!Store!Save, LongValues!Store!Load, LongProofs!Store!Load, LongValues!Store!Restart,
                LongProofs!Store!Restart, LongValues!Store!Overrides, LongProofs!Store!Overrides,
                LongValues!Store!NoOverrides, LongProofs!Store!NoOverrides
<1> QED BY <1>1, <1>2, <1>3, <1>4, PTL DEF ComponentsSpec, ConfigIsAStore

-----------------------------------------------------------------------------
(* CpuAffinity. *)

\* Unless the mask is lost, at most one restore is due, and what it will give back is
\* the process's own affinity.
AffinityInv ==
    /\ home # {}
    /\ due \in Nat
    /\ ~spoilt => /\ due \in {0, 1}
                  /\ due = 0 => affinity = home
                  /\ due = 1 => saved = home

LEMMA AffinityStep == AffinityInv /\ [Affinity!Next]_Affinity!vars => AffinityInv'
<1> SUFFICES ASSUME AffinityInv, [Affinity!Next]_Affinity!vars PROVE AffinityInv'
  OBVIOUS
<1> USE DEF AffinityInv
<1>1. CASE Affinity!BeginInstall
  BY <1>1 DEF Affinity!BeginInstall
<1>2. CASE Affinity!Restrict
  <2>1. /\ home' = home
        /\ \/ UNCHANGED <<saved, affinity, due, spoilt>>
           \/ /\ saved' = affinity /\ due' \in {due, due + 1}
              /\ spoilt' <=> (spoilt \/ due > 0 \/ due' = due)
    BY <1>2 DEF Affinity!Restrict
  <2>2. CASE UNCHANGED <<saved, affinity, due, spoilt>>
    BY <2>1, <2>2
  <2>3. CASE saved' = affinity /\ due' \in {due, due + 1} /\ (spoilt' <=> (spoilt \/ due > 0 \/ due' = due))
    <3>1. ASSUME ~spoilt' PROVE due' = 1 /\ saved' = home
      <4>1. ~spoilt /\ ~(due > 0) /\ due' = due + 1
        BY <2>3, <3>1
      <4>2. due = 0
        BY <4>1
      <4> QED BY <2>3, <4>1, <4>2
    <3>2. due' \in Nat
      BY <2>3
    <3> QED BY <2>1, <3>1, <3>2
  <2> QED BY <2>1, <2>2, <2>3
<1>3. CASE Affinity!Attach
  BY <1>3 DEF Affinity!Attach
<1>4. CASE Affinity!Uninstall
  BY <1>4 DEF Affinity!Uninstall
<1>5. CASE Affinity!RestoreAffinity
  BY <1>5 DEF Affinity!RestoreAffinity
<1>6. ASSUME NEW t \in CpuThreads, Affinity!Ask(t) \/ Affinity!Track(t) \/ Affinity!CallOriginal(t)
      PROVE  AffinityInv'
  BY <1>6 DEF Affinity!Ask, Affinity!Track, Affinity!CallOriginal
<1>7. CASE UNCHANGED Affinity!vars
  BY <1>7 DEF Affinity!vars
<1> QED BY <1>1, <1>2, <1>3, <1>4, <1>5, <1>6, <1>7 DEF Affinity!Next

\* Once no restore is due the process has every core it was started with, however often
\* the patch was installed, failed or was removed, and whatever masks could not be read
\* or set, unless a thread to restore it, or the restore, failed or the mask was saved
\* while another restore was due (cpu_optimization.cpp, RestoreAffinityThread).
THEOREM CoresComeBack == ComponentsSpec => []AffinityIsRestored
<1> DEFINE Inv == subject = "affinity" => AffinityInv
<1>1. ComponentsInit => Inv
  <2>1. Affinity!Init => AffinityInv
    <3> SUFFICES ASSUME Affinity!Init PROVE AffinityInv
      OBVIOUS
    <3>1. home \in Masks /\ affinity = home /\ due = 0 /\ install = "off"
      BY DEF Affinity!Init
    <3>2. {} \notin Masks
      BY CpuAssumption DEF CpuAssumption
    <3>3. home # {}
      BY <3>1, <3>2
    <3> QED BY <3>1, <3>3 DEF AffinityInv
  <2> QED BY <2>1 DEF ComponentsInit
<1>2. Inv /\ [ComponentsNext]_all => Inv'
  BY SubjectStays, SubjectSteps, AffinityStep
<1>3. Inv => AffinityIsRestored
  BY DEF AffinityIsRestored, Affinity!AffinityIsRestored, AffinityInv
<1> QED BY <1>1, <1>2, <1>3, PTL DEF ComponentsSpec

-----------------------------------------------------------------------------
(* MemoryWarning. *)

\* A dismissal is still marked while the dialog is to stay away, and the dialog is gone
\* from the moment the button is pressed.
DismissalInv ==
    /\ quiet => dismissed /\ ~hasWarned
    /\ pressing => ~hasWarned

LEMMA MemoryStep == ~UpdateOverlaps /\ DismissalInv /\ [Memory!Next]_Memory!vars => DismissalInv'
<1> SUFFICES ASSUME ~UpdateOverlaps, DismissalInv, [Memory!Next]_Memory!vars PROVE DismissalInv'
  OBVIOUS
<1> USE DEF DismissalInv, Memory!monitor, Memory!warning
<1>1. CASE Memory!UpdateDisabled
  BY <1>1 DEF Memory!UpdateDisabled, Memory!UpdateMayRun
<1>2. CASE Memory!UpdateEnabled
  <2>1. /\ ~pressing /\ pressing' = pressing
        /\ dismissed' = (dismissed /\ ~Memory!WellBelow)
        /\ quiet' = (quiet /\ ~Memory!WellBelow)
    BY <1>2 DEF Memory!UpdateEnabled, Memory!UpdateMayRun, Memory!Warn
  <2>2. dismissed' /\ ~hasWarned => ~hasWarned'
    BY <1>2 DEF Memory!UpdateEnabled, Memory!Warn
  <2> QED BY <2>1, <2>2
<1>3. CASE Memory!PressOK
  BY <1>3 DEF Memory!PressOK, Memory!Click, Memory!ShouldShowWarning
<1>4. CASE Memory!Dismiss
  BY <1>4 DEF Memory!Dismiss
<1>5. CASE Memory!SetEnabled \/ Memory!SetWarningStyle \/ Memory!LoadFromToml \/ Memory!UseMemory
  BY <1>5 DEF Memory!SetEnabled, Memory!SetWarningStyle, Memory!LoadFromToml, Memory!UseMemory
<1>6. ASSUME NEW t \in Thresholds, Memory!SetWarningThreshold(t) PROVE DismissalInv'
  BY <1>6 DEF Memory!SetWarningThreshold
<1>7. CASE UNCHANGED Memory!vars
  BY <1>7 DEF Memory!vars
<1> QED BY <1>1, <1>2, <1>3, <1>4, <1>5, <1>6, <1>7 DEF Memory!Next, Memory!Update

\* A dismissed dialog stays away until the monitor has seen the memory well below the
\* threshold or was switched off, if no Update runs inside ResetWarning (qol.cpp,
\* MemoryMonitor::Update and ResetWarning).
THEOREM DismissedStaysAway == ~UpdateOverlaps => (ComponentsSpec => []DismissalLasts)
<1> DEFINE Inv == subject = "memory" => DismissalInv
<1> SUFFICES ASSUME ~UpdateOverlaps PROVE ComponentsSpec => []DismissalLasts
  OBVIOUS
<1>1. ComponentsInit => Inv
  BY DEF ComponentsInit, Memory!Init, DismissalInv
<1>2. Inv /\ [ComponentsNext]_all => Inv'
  BY SubjectStays, SubjectSteps, MemoryStep
<1>3. Inv => DismissalLasts
  BY DEF DismissalLasts, Memory!DismissalLasts, Memory!ShouldShowWarning, DismissalInv
<1> QED BY <1>1, <1>2, <1>3, PTL DEF ComponentsSpec

-----------------------------------------------------------------------------
(* LightingHooks: the game's data. *)

\* What the patch has written is always undone by what it has kept, and it has kept
\* nothing but the game's own data, where no failed Install has given up on it.
DataInv == DOMAIN data = DOMAIN Lighting!Orig /\ Lighting!DataIsPutBack

\* What memory says once values are written to it, place by place.
LEMMA Putting ==
    ASSUME NEW new, NEW area
    PROVE  /\ DOMAIN Lighting!Put(new, area) = DOMAIN area
           /\ \A place \in DOMAIN area :
                 Lighting!Put(new, area)[place] =
                    IF place \in DOMAIN new THEN new[place] ELSE area[place]
BY DEF Lighting!Put

LEMMA Restricting ==
    ASSUME NEW new, NEW places, places \subseteq DOMAIN new
    PROVE  /\ DOMAIN Lighting!Restrict(new, places) = places
           /\ \A place \in places : Lighting!Restrict(new, places)[place] = new[place]
BY DEF Lighting!Restrict

LEMMA WantedPlaces ==
    ASSUME NEW s
    PROVE  DOMAIN Lighting!Wanted(s) \subseteq DOMAIN Lighting!Orig
<1>1. {"sub", "diag", "wall", "cache", "soft", "pow2", "occlusion", "blurs", "edge"} \subseteq DOMAIN Lighting!Orig
  BY DEF Lighting!Orig
<1>2. \A new, places : DOMAIN Lighting!Restrict(new, places) = places
  BY DEF Lighting!Restrict
<1> QED BY <1>1, <1>2 DEF Lighting!Wanted

\* RestoreAll takes back what it can write, and keeps the list of what it cannot.
LEMMA Restoring ==
    ASSUME DataInv, NEW refused \in SUBSET DOMAIN undo, Lighting!RestoreAll(refused)
    PROVE  /\ DOMAIN data' = DOMAIN Lighting!Orig
           /\ \A place \in DOMAIN Lighting!Orig \ forsaken :
                 /\ place \notin refused => data'[place] = Lighting!Orig[place]
                 /\ refused # {} \/ place \notin refused =>
                        Lighting!Put(undo', data')[place] = Lighting!Orig[place]
<1> DEFINE olds == Lighting!Restrict(undo, DOMAIN undo \ refused)
<1>1. /\ DOMAIN olds = DOMAIN undo \ refused
      /\ \A place \in DOMAIN olds : olds[place] = undo[place]
  BY Restricting
<1> HIDE DEF olds
<1>2. data' = Lighting!Put(olds, data) /\ (undo' = <<>> \/ undo' = undo) /\ (refused # {} => undo' = undo)
  BY DEF Lighting!RestoreAll, olds
<1>3. /\ DOMAIN data' = DOMAIN Lighting!Orig
      /\ \A place \in DOMAIN Lighting!Orig :
            data'[place] = IF place \in DOMAIN olds THEN olds[place] ELSE data[place]
  BY <1>2, Putting DEF DataInv
<1>4. ASSUME NEW place \in DOMAIN Lighting!Orig \ forsaken
      PROVE  /\ place \notin refused => data'[place] = Lighting!Orig[place]
             /\ refused # {} \/ place \notin refused =>
                    Lighting!Put(undo', data')[place] = Lighting!Orig[place]
  <2>1. (IF place \in DOMAIN undo THEN undo[place] ELSE data[place]) = Lighting!Orig[place]
    BY Putting DEF DataInv, Lighting!DataIsPutBack
  <2>2. place \notin refused => data'[place] = Lighting!Orig[place]
    BY <1>1, <1>3, <2>1
  <2>3. Lighting!Put(undo', data')[place] = IF place \in DOMAIN undo' THEN undo'[place] ELSE data'[place]
    BY <1>3, Putting
  <2>4. CASE undo' = undo
    BY <1>1, <1>3, <2>1, <2>3, <2>4
  <2>5. CASE undo' = <<>> /\ place \notin refused
    BY <2>2, <2>3, <2>5
  <2> QED BY <1>2, <2>2, <2>4, <2>5
<1> QED BY <1>3, <1>4

LEMMA DataStep == DataInv /\ [Lighting!Next]_Lighting!vars => DataInv'
<1> SUFFICES ASSUME DataInv, [Lighting!Next]_Lighting!vars PROVE DataInv'
  OBVIOUS
<1>1. CASE Lighting!WriteData
  <2>1. PICK new : data' = Lighting!Put(new, data) /\ undo' = Lighting!Restrict(data, DOMAIN new) /\ DOMAIN new \subseteq DOMAIN data
    <3>1. DOMAIN Lighting!Wanted(chosen) \subseteq DOMAIN data
      BY WantedPlaces DEF DataInv
    <3> QED BY <1>1, <3>1 DEF Lighting!WriteData
  <2>2. step = "off" /\ step' = "attach" /\ forsaken' = forsaken
    BY <1>1 DEF Lighting!WriteData
  <2>3. /\ DOMAIN data' = DOMAIN data
        /\ \A place \in DOMAIN data : data'[place] = IF place \in DOMAIN new THEN new[place] ELSE data[place]
    BY <2>1, Putting
  <2>4. DOMAIN undo' = DOMAIN new /\ \A place \in DOMAIN new : undo'[place] = data[place]
    BY <2>1, Restricting
  <2>5. \A place \in DOMAIN data' :
           Lighting!Put(undo', data')[place] = IF place \in DOMAIN undo' THEN undo'[place] ELSE data'[place]
    BY Putting
  <2> QED BY <2>2, <2>3, <2>4, <2>5 DEF DataInv, Lighting!DataIsPutBack
<1>2. CASE Lighting!FailToWrite
  <2>1. PICK refused \in SUBSET DOMAIN Lighting!Wanted(chosen) :
           /\ data' = Lighting!Put(Lighting!Restrict(Lighting!Wanted(chosen), refused), data)
           /\ forsaken' = forsaken \cup refused
    BY <1>2 DEF Lighting!FailToWrite, Lighting!Refusals
  <2>2. step = "off" /\ UNCHANGED <<step, undo>>
    BY <1>2 DEF Lighting!FailToWrite
  <2>3. /\ DOMAIN data' = DOMAIN data
        /\ \A place \in DOMAIN data \ refused : data'[place] = data[place]
    BY <2>1, Putting, Restricting
  <2>4. /\ \A place \in DOMAIN data :
              Lighting!Put(undo, data)[place] = IF place \in DOMAIN undo THEN undo[place] ELSE data[place]
        /\ \A place \in DOMAIN data' :
              Lighting!Put(undo, data')[place] = IF place \in DOMAIN undo THEN undo[place] ELSE data'[place]
    BY Putting
  <2> QED BY <2>1, <2>2, <2>3, <2>4 DEF DataInv, Lighting!DataIsPutBack
<1>3. CASE Lighting!AttachFails
  <2>1. PICK refused \in SUBSET DOMAIN undo : Lighting!RestoreAll(refused) /\ forsaken' = forsaken \cup refused
    BY <1>3 DEF Lighting!AttachFails, Lighting!Refusals
  <2> QED BY <2>1, Restoring DEF DataInv, Lighting!DataIsPutBack
<1>4. CASE Lighting!RestoreData
  <2>1. PICK refused \in SUBSET DOMAIN undo :
           Lighting!RestoreAll(refused) /\ step' = IF refused = {} THEN "off" ELSE "on"
    BY <1>4 DEF Lighting!RestoreData, Lighting!Refusals
  <2>2. forsaken' = forsaken
    BY <1>4 DEF Lighting!RestoreData
  <2> QED BY <2>1, <2>2, Restoring DEF DataInv, Lighting!DataIsPutBack
<1>5. CASE \/ Lighting!ChangeSettings \/ Lighting!AttachHooks \/ Lighting!RemoveHooks \/ Lighting!ClearHooks
           \/ \E t \in LightThreads :
                \/ Lighting!EnterLight(t) \/ Lighting!Sample(t) \/ Lighting!Average(t) \/ Lighting!Return(t)
                \/ Lighting!EnterFinalize(t) \/ Lighting!BlurTextures(t) \/ Lighting!PassOn(t)
           \/ UNCHANGED Lighting!vars
  <2>1. UNCHANGED <<data, undo, forsaken>> /\ (step' = "off" => step = "off")
    BY <1>5 DEF Lighting!ChangeSettings, Lighting!AttachHooks, Lighting!RemoveHooks, Lighting!ClearHooks,
                Lighting!EnterLight, Lighting!Sample, Lighting!Average, Lighting!Return,
                Lighting!EnterFinalize, Lighting!BlurTextures, Lighting!PassOn, Lighting!Moves,
                Lighting!installed, Lighting!vars
  <2> QED BY <2>1 DEF DataInv, Lighting!DataIsPutBack
<1> QED BY <1>1, <1>2, <1>3, <1>4, <1>5 DEF Lighting!Next

\* What the patch has written can be taken back at every moment, and the patch that is off
\* has taken it back, whichever installations and removals failed, how far soever, and
\* whatever the user chose in between, but for places whose write failed while a failed
\* Install put them back (lighting_quality_patch.cpp, Install and Uninstall).
THEOREM DataComesBack == ComponentsSpec => []DataIsPutBack
<1> DEFINE Inv == subject = "lighting" => DataInv
<1>1. ComponentsInit => Inv
  <2> SUFFICES ASSUME Lighting!Init PROVE DataInv
    BY DEF ComponentsInit
  <2> QED BY DEF Lighting!Init, DataInv, Lighting!DataIsPutBack, Lighting!Put, Lighting!Orig
<1>2. Inv /\ [ComponentsNext]_all => Inv'
  BY SubjectStays, SubjectSteps, DataStep
<1>3. Inv => DataIsPutBack
  BY DEF DataIsPutBack, DataInv
<1> QED BY <1>1, <1>2, <1>3, PTL DEF ComponentsSpec

-----------------------------------------------------------------------------
(* LightingHooks: the threads inside the hooks. *)

LightCalls ==
    [pc : {"game", "pass", "sample", "average", "return", "resolve"}, hook : Lighting!HookNames,
     total : Nat, taken : Nat, sum : Int, least : Int, most : Int, moved : BOOLEAN]

LightTypes ==
    /\ lightCall \in [LightThreads -> LightCalls]
    /\ sampleCount \in Nat
    /\ chosen \in LightSettings

\* A call takes its steps one at a time, and no other thread's call changes.
LEMMA CallStep ==
    ASSUME LightTypes, NEW t \in LightThreads, NEW c \in LightCalls, Lighting!Moves(t, c)
    PROVE  /\ LightTypes' /\ lightCall'[t] = c
           /\ \A u \in LightThreads \ {t} : lightCall'[u] = lightCall[u]
           /\ UNCHANGED <<Lighting!installed, Lighting!globals>>
BY DEF LightTypes, Lighting!Moves, Lighting!globals, Lighting!installed

\* The call after one more sample, before it is seen whether that was the last.
Sampled(c, colour) ==
    [c EXCEPT !.taken = @ + 1, !.sum = @ + colour, !.moved = TRUE,
              !.least = IF c.taken = 0 \/ colour < @ THEN colour ELSE @,
              !.most = IF c.taken = 0 \/ colour > @ THEN colour ELSE @]

LEMMA SampledFields ==
    ASSUME NEW c \in LightCalls, NEW colour \in Int
    PROVE  LET d == Sampled(c, colour)
           IN  /\ d \in LightCalls /\ d.pc = c.pc /\ d.hook = c.hook /\ d.total = c.total
               /\ d.taken = c.taken + 1 /\ d.sum = c.sum + colour
               /\ d.least = IF c.taken = 0 \/ colour < c.least THEN colour ELSE c.least
               /\ d.most = IF c.taken = 0 \/ colour > c.most THEN colour ELSE c.most
<1> DEFINE least == IF c.taken = 0 \/ colour < c.least THEN colour ELSE c.least
           most == IF c.taken = 0 \/ colour > c.most THEN colour ELSE c.most
<1>1. /\ c.taken + 1 \in Nat /\ c.sum + colour \in Int /\ least \in Int /\ most \in Int
      /\ c.pc \in {"game", "pass", "sample", "average", "return", "resolve"}
      /\ c.hook \in Lighting!HookNames /\ c.total \in Nat
  BY DEF LightCalls
<1>2. Sampled(c, colour) = [c EXCEPT !.taken = c.taken + 1, !.sum = c.sum + colour, !.moved = TRUE,
                                     !.least = least, !.most = most]
  BY DEF Sampled, LightCalls
<1> HIDE DEF least, most
<1>3. Sampled(c, colour) = [pc |-> c.pc, hook |-> c.hook, total |-> c.total, taken |-> c.taken + 1,
                            sum |-> c.sum + colour, least |-> least, most |-> most, moved |-> TRUE]
  BY <1>2 DEF LightCalls
<1> QED BY <1>1, <1>3 DEF LightCalls, least, most

LEMMA SampleStep ==
    ASSUME NEW t \in LightThreads, Lighting!Sample(t)
    PROVE  \E colour \in Colours :
              /\ lightCall[t].pc = "sample"
              /\ Lighting!Moves(t, Lighting!AfterSample(Sampled(lightCall[t], colour)))
BY DEF Lighting!Sample, Sampled

LEMMA AfterSampleIs ==
    ASSUME NEW d \in LightCalls, d.pc = "sample"
    PROVE  LET e == Lighting!AfterSample(d)
           IN  /\ e \in LightCalls /\ e.hook = d.hook
               /\ e.taken = d.taken /\ e.sum = d.sum /\ e.least = d.least /\ e.most = d.most
               /\ \/ e.pc = "sample"
                  \/ e.pc = "average" /\ e.total = e.taken
BY DEF Lighting!AfterSample, LightCalls

LEMMA NoCallIsOne ==
    LET c == Lighting!NoCall
    IN  /\ c \in LightCalls /\ c.pc = "game" /\ c.hook = "light" /\ c.total = 0 /\ c.taken = 0
        /\ c.sum = 0 /\ c.least = 0 /\ c.most = 0 /\ c.moved = FALSE
BY DEF Lighting!NoCall, LightCalls, Lighting!HookNames

\* The calls a thread may begin.
LEMMA FreshPass ==
    ASSUME NEW c \in LightCalls, NEW e, e = [c EXCEPT !.pc = "pass"]
    PROVE  e \in LightCalls /\ e.pc = "pass" /\ e.hook = c.hook /\ e.taken = c.taken /\ e.sum = c.sum
BY DEF LightCalls

LEMMA FreshSample ==
    ASSUME NEW c \in LightCalls, NEW total \in Nat, NEW e, e = [c EXCEPT !.pc = "sample", !.total = total]
    PROVE  e \in LightCalls /\ e.pc = "sample" /\ e.hook = c.hook /\ e.taken = c.taken /\ e.sum = c.sum
BY DEF LightCalls

LEMMA FreshFinalize ==
    ASSUME NEW c \in LightCalls, NEW place \in {"pass", "resolve"},
           NEW e, e = [c EXCEPT !.hook = "finalize", !.pc = place]
    PROVE  e \in LightCalls /\ e.pc = place /\ e.hook = "finalize"
BY DEF LightCalls, Lighting!HookNames

LEMMA LightBegins ==
    ASSUME LightTypes, NEW t \in LightThreads, Lighting!EnterLight(t)
    PROVE  "light" \in attached /\ \E c \in LightCalls :
              /\ Lighting!Moves(t, c)
              /\ c.pc \in {"pass", "sample"} /\ c.hook = "light" /\ c.taken = 0 /\ c.sum = 0
<1> DEFINE c0 == Lighting!NoCall
           pass == [c0 EXCEPT !.pc = "pass"]
           sample == [c0 EXCEPT !.pc = "sample", !.total = sampleCount]
<1>1. "light" \in attached /\ (Lighting!Moves(t, pass) \/ Lighting!Moves(t, sample))
  BY DEF Lighting!EnterLight
<1>2. /\ c0 \in LightCalls /\ c0.hook = "light" /\ c0.taken = 0 /\ c0.sum = 0
      /\ sampleCount \in Nat
  BY NoCallIsOne DEF LightTypes
<1> HIDE DEF c0
<1>3. /\ pass \in LightCalls /\ pass.pc = "pass" /\ pass.hook = "light" /\ pass.taken = 0 /\ pass.sum = 0
      /\ sample \in LightCalls /\ sample.pc = "sample" /\ sample.hook = "light" /\ sample.taken = 0 /\ sample.sum = 0
  <2>1. pass \in LightCalls /\ pass.pc = "pass" /\ pass.hook = "light" /\ pass.taken = 0 /\ pass.sum = 0
    BY <1>2, FreshPass
  <2>2. sample \in LightCalls /\ sample.pc = "sample" /\ sample.hook = "light" /\ sample.taken = 0 /\ sample.sum = 0
    <3>1. sample = [c0 EXCEPT !.pc = "sample", !.total = sampleCount]
      OBVIOUS
    <3> HIDE DEF sample
    <3> QED BY <1>2, <3>1, FreshSample
  <2> QED BY <2>1, <2>2
<1> HIDE DEF pass, sample
<1> QED BY <1>1, <1>3

LEMMA FinalizeBegins ==
    ASSUME NEW t \in LightThreads, Lighting!EnterFinalize(t)
    PROVE  "finalize" \in attached /\ \E c \in LightCalls :
              /\ Lighting!Moves(t, c)
              /\ c.pc \in {"pass", "resolve"} /\ c.hook = "finalize" /\ (c.pc = "resolve" => resolution)
<1> DEFINE c0 == Lighting!NoCall
           place == IF blur /\ resolution THEN "resolve" ELSE "pass"
           e == [c0 EXCEPT !.hook = "finalize", !.pc = place]
<1>1. "finalize" \in attached /\ Lighting!Moves(t, e)
  BY DEF Lighting!EnterFinalize
<1>2. place \in {"pass", "resolve"} /\ (place = "resolve" => resolution)
  OBVIOUS
<1>3. c0 \in LightCalls
  BY NoCallIsOne
<1> HIDE DEF c0, place
<1>4. e \in LightCalls /\ e.pc = place /\ e.hook = "finalize"
  BY <1>2, <1>3, FreshFinalize
<1> HIDE DEF e
<1> QED BY <1>1, <1>2, <1>4

\* What a thread's step makes of its call.
LEMMA ThreadSteps ==
    ASSUME LightTypes, NEW t \in LightThreads,
           \/ Lighting!EnterLight(t) \/ Lighting!Sample(t) \/ Lighting!Average(t) \/ Lighting!Return(t)
           \/ Lighting!EnterFinalize(t) \/ Lighting!BlurTextures(t) \/ Lighting!PassOn(t)
    PROVE  \E c \in LightCalls : Lighting!Moves(t, c)
<1>1. CASE Lighting!EnterLight(t)
  BY <1>1, LightBegins
<1>2. CASE Lighting!Sample(t)
  <2>1. PICK colour \in Colours : /\ lightCall[t].pc = "sample"
                                 /\ Lighting!Moves(t, Lighting!AfterSample(Sampled(lightCall[t], colour)))
    BY <1>2, SampleStep
  <2>2. lightCall[t] \in LightCalls /\ colour \in Int
    BY LightAssumption DEF LightAssumption, LightTypes
  <2>3. Lighting!AfterSample(Sampled(lightCall[t], colour)) \in LightCalls
    BY <2>1, <2>2, SampledFields, AfterSampleIs
  <2> QED BY <2>1, <2>3
<1>3. CASE Lighting!Average(t)
  BY <1>3 DEF Lighting!Average, LightTypes, LightCalls
<1>4. CASE Lighting!EnterFinalize(t)
  BY <1>4, FinalizeBegins
<1>5. CASE Lighting!BlurTextures(t)
  BY <1>5 DEF Lighting!BlurTextures, LightTypes, LightCalls
<1>6. CASE Lighting!Return(t) \/ Lighting!PassOn(t)
  BY <1>6, NoCallIsOne DEF Lighting!Return, Lighting!PassOn
<1> QED BY <1>1, <1>2, <1>3, <1>4, <1>5, <1>6

\* What the patch manager's steps leave of the calls.
LEMMA ManagerSteps ==
    ASSUME LightTypes,
           \/ Lighting!ChangeSettings \/ Lighting!WriteData \/ Lighting!FailToWrite
           \/ Lighting!AttachHooks \/ Lighting!AttachFails \/ Lighting!RemoveHooks
           \/ Lighting!ClearHooks \/ Lighting!RestoreData
    PROVE  LightTypes' /\ lightCall' = lightCall
<1> USE DEF LightTypes, Lighting!globals
<1>1. CASE Lighting!WriteData
  BY <1>1, LightAssumption DEF LightAssumption, Lighting!WriteData
<1>2. CASE Lighting!ClearHooks
  BY <1>2 DEF Lighting!ClearHooks, Lighting!ClearGlobals
<1>3. CASE \/ Lighting!ChangeSettings \/ Lighting!FailToWrite \/ Lighting!AttachHooks
           \/ Lighting!AttachFails \/ Lighting!RemoveHooks \/ Lighting!RestoreData
  BY <1>3 DEF Lighting!ChangeSettings, Lighting!FailToWrite, Lighting!AttachHooks, Lighting!AttachFails,
              Lighting!RemoveHooks, Lighting!RestoreData
<1> QED BY <1>1, <1>2, <1>3

LEMMA LightTypesStep == LightTypes /\ [Lighting!Next]_Lighting!vars => LightTypes'
<1> SUFFICES ASSUME LightTypes, [Lighting!Next]_Lighting!vars PROVE LightTypes'
  OBVIOUS
<1>1. CASE UNCHANGED Lighting!vars
  BY <1>1 DEF Lighting!vars, Lighting!installed, Lighting!globals, LightTypes
<1> QED BY <1>1, ManagerSteps, ThreadSteps, CallStep DEF Lighting!Next

-----------------------------------------------------------------------------
\* The sum of the samples taken so far lies between so many times the least and so many
\* times the most; that of a call that is over, between total times either.
SumsOf(c) ==
    /\ c.pc = "sample" => IF c.taken = 0 THEN c.sum = 0
                          ELSE c.least * c.taken <= c.sum /\ c.sum <= c.most * c.taken
    /\ c.pc \in {"average", "return"} => c.least * c.total <= c.sum /\ c.sum <= c.most * c.total
    /\ c.pc = "return" => ~c.moved

SumInv == LightTypes /\ \A t \in LightThreads : SumsOf(lightCall[t])

LEMMA TimesIsMonotone ==
    ASSUME NEW a \in Int, NEW b \in Int, a <= b, NEW k \in Nat
    PROVE  a * k <= b * k
BY SMT

LEMMA TimesOneMore ==
    ASSUME NEW a \in Int, NEW k \in Nat
    PROVE  a * (k + 1) = a * k + a
BY SMT

LEMMA OneMoreSample ==
    ASSUME NEW c \in LightCalls, SumsOf(c), c.pc = "sample", NEW colour \in Int
    PROVE  LET d == Sampled(c, colour) IN d.least * d.taken <= d.sum /\ d.sum <= d.most * d.taken
<1> DEFINE d == Sampled(c, colour)
<1>1. /\ d.taken = c.taken + 1 /\ d.sum = c.sum + colour
      /\ d.least = IF c.taken = 0 \/ colour < c.least THEN colour ELSE c.least
      /\ d.most = IF c.taken = 0 \/ colour > c.most THEN colour ELSE c.most
      /\ d.least \in Int /\ d.most \in Int /\ c.taken \in Nat /\ c.sum \in Int
      /\ c.least \in Int /\ c.most \in Int
  BY SampledFields DEF LightCalls
<1>2. CASE c.taken = 0
  BY <1>1, <1>2 DEF SumsOf
<1>3. CASE c.taken # 0
  <2> HIDE DEF d
  <2>1. c.least * c.taken <= c.sum /\ c.sum <= c.most * c.taken
    BY <1>3 DEF SumsOf
  <2>2. d.least <= c.least /\ c.most <= d.most /\ d.least <= colour /\ colour <= d.most
    BY <1>1, <1>3
  <2>3. d.least * c.taken <= c.least * c.taken /\ c.most * c.taken <= d.most * c.taken
    BY <1>1, <2>2, TimesIsMonotone
  <2>4. d.least * (c.taken + 1) = d.least * c.taken + d.least /\ d.most * (c.taken + 1) = d.most * c.taken + d.most
    BY <1>1, TimesOneMore
  <2> DEFINE a == d.least * c.taken   a1 == c.least * c.taken
             b == d.most * c.taken    b1 == c.most * c.taken
  <2>5. a \in Int /\ a1 \in Int /\ b \in Int /\ b1 \in Int
    BY <1>1
  <2>6. a <= a1 /\ a1 <= c.sum /\ c.sum <= b1 /\ b1 <= b
    BY <2>1, <2>3
  <2> HIDE DEF a, a1, b, b1
  <2>7. a + d.least <= c.sum + colour /\ c.sum + colour <= b + d.most
    BY <1>1, <2>2, <2>5, <2>6
  <2>8. d.least * d.taken = a + d.least /\ d.most * d.taken = b + d.most
    BY <1>1, <2>4 DEF a, b
  <2>9. d.least * d.taken <= d.sum /\ d.sum <= d.most * d.taken
    BY <1>1, <2>7, <2>8
  <2> QED BY <2>9 DEF d
<1> QED BY <1>2, <1>3

LEMMA SumStep == SumInv /\ [Lighting!Next]_Lighting!vars => SumInv'
<1> SUFFICES ASSUME SumInv, [Lighting!Next]_Lighting!vars
             PROVE  \A t \in LightThreads : SumsOf(lightCall'[t])
  BY LightTypesStep DEF SumInv, SumsOf
<1>1. LightTypes /\ \A t \in LightThreads : SumsOf(lightCall[t]) /\ lightCall[t] \in LightCalls
  BY DEF SumInv, LightTypes
<1>2. SumsOf(Lighting!NoCall)
  BY DEF SumsOf, Lighting!NoCall
<1>3. ASSUME NEW t \in LightThreads, NEW c \in LightCalls, SumsOf(c), Lighting!Moves(t, c)
      PROVE  \A u \in LightThreads : SumsOf(lightCall'[u])
  BY <1>1, <1>3, CallStep
<1>4. CASE lightCall' = lightCall
  BY <1>1, <1>4
<1>5. ASSUME NEW t \in LightThreads, Lighting!EnterLight(t) PROVE \E c \in LightCalls : SumsOf(c) /\ Lighting!Moves(t, c)
  BY <1>1, <1>5, LightBegins DEF SumsOf
<1>6. ASSUME NEW t \in LightThreads, Lighting!Sample(t) PROVE \E c \in LightCalls : SumsOf(c) /\ Lighting!Moves(t, c)
  <2>1. PICK colour \in Colours : /\ lightCall[t].pc = "sample"
                                 /\ Lighting!Moves(t, Lighting!AfterSample(Sampled(lightCall[t], colour)))
    BY <1>6, SampleStep
  <2>2. colour \in Int
    BY LightAssumption DEF LightAssumption
  <2> DEFINE d == Sampled(lightCall[t], colour)
             e == Lighting!AfterSample(d)
  <2>3. d \in LightCalls /\ d.pc = "sample" /\ d.taken = lightCall[t].taken + 1 /\ lightCall[t].taken \in Nat
    BY <1>1, <2>1, <2>2, SampledFields DEF LightCalls
  <2>4. d.least * d.taken <= d.sum /\ d.sum <= d.most * d.taken
    BY <1>1, <2>1, <2>2, OneMoreSample
  <2> HIDE DEF d
  <2>5. /\ e \in LightCalls
        /\ e.taken = d.taken /\ e.sum = d.sum /\ e.least = d.least /\ e.most = d.most
        /\ e.pc = "sample" \/ (e.pc = "average" /\ e.total = e.taken)
    BY <2>3, AfterSampleIs
  <2> HIDE DEF e
  <2>6. d.taken # 0
    BY <2>3
  <2>7. SumsOf(e)
    BY <2>4, <2>5, <2>6 DEF SumsOf
  <2> QED BY <2>1, <2>5, <2>7 DEF d, e
<1>7. ASSUME NEW t \in LightThreads, Lighting!Average(t) PROVE \E c \in LightCalls : SumsOf(c) /\ Lighting!Moves(t, c)
  <2> DEFINE c == lightCall[t]
             e == [c EXCEPT !.pc = "return", !.moved = FALSE]
  <2>1. c.pc = "average" /\ Lighting!Moves(t, e)
    BY <1>7 DEF Lighting!Average
  <2>2. /\ e \in LightCalls /\ e.pc = "return" /\ ~e.moved
        /\ e.total = c.total /\ e.sum = c.sum /\ e.least = c.least /\ e.most = c.most
    BY <1>1 DEF LightCalls
  <2>3. c.least * c.total <= c.sum /\ c.sum <= c.most * c.total
    BY <1>1, <2>1 DEF SumsOf
  <2> HIDE DEF c, e
  <2>4. SumsOf(e)
    BY <2>2, <2>3 DEF SumsOf
  <2> QED BY <2>1, <2>2, <2>4
<1>8. ASSUME NEW t \in LightThreads, Lighting!EnterFinalize(t) \/ Lighting!BlurTextures(t)
      PROVE  \E c \in LightCalls : SumsOf(c) /\ Lighting!Moves(t, c)
  <2>1. PICK c \in LightCalls : Lighting!Moves(t, c) /\ c.pc \in {"resolve", "pass"}
    <3>1. CASE Lighting!EnterFinalize(t)
      BY <3>1, FinalizeBegins
    <3>2. CASE Lighting!BlurTextures(t)
      BY <1>1, <3>2 DEF Lighting!BlurTextures, LightCalls
    <3> QED BY <1>8, <3>1, <3>2
  <2> QED BY <2>1 DEF SumsOf
<1>9. ASSUME NEW t \in LightThreads, Lighting!Return(t) \/ Lighting!PassOn(t)
      PROVE  \E c \in LightCalls : SumsOf(c) /\ Lighting!Moves(t, c)
  BY <1>2, <1>9, NoCallIsOne DEF Lighting!Return, Lighting!PassOn
<1>10. CASE UNCHANGED Lighting!vars
  BY <1>4, <1>10 DEF Lighting!vars
<1> QED BY <1>1, <1>3, <1>4, <1>5, <1>6, <1>7, <1>8, <1>9, <1>10, ManagerSteps DEF Lighting!Next

LEMMA LightInit == Lighting!Init => SumInv
<1> SUFFICES ASSUME Lighting!Init PROVE SumInv
  OBVIOUS
<1>1. \A t \in LightThreads : lightCall[t] = Lighting!NoCall
  BY DEF Lighting!Init
<1>2. LightTypes
  BY NoCallIsOne DEF Lighting!Init, LightTypes
<1>3. SumsOf(Lighting!NoCall)
  BY DEF SumsOf, Lighting!NoCall
<1> QED BY <1>1, <1>2, <1>3 DEF SumInv

\* The colour a hook returns is an average of the samples taken for it, however many
\* there were to be, and the surface is where it was, whatever the user changes while
\* the call runs (lighting_quality_patch.cpp, HookedLPWAL).
THEOREM ColoursAreAverages == ComponentsSpec => []AverageOfSamples
<1> DEFINE Inv == subject = "lighting" => SumInv
<1>1. ComponentsInit => Inv
  BY LightInit DEF ComponentsInit
<1>2. Inv /\ [ComponentsNext]_all => Inv'
  BY SubjectStays, SubjectSteps, SumStep
<1>3. Inv => AverageOfSamples
  BY DEF AverageOfSamples, Lighting!AverageOfSamples, SumInv, SumsOf
<1> QED BY <1>1, <1>2, <1>3, PTL DEF ComponentsSpec

-----------------------------------------------------------------------------
(* FrameLimiter. *)

LimiterThreads ==
    [pc : {"game", "sleep", "spin", "after", "frame", "stamp"}, ideal : 0..Cycle,
     target : Int, sleepUntil : Int, now : Int, begin : Int]

\* A thread with its last stamp: what it waits for, and then the time it stamps, is at
\* least the period it has read behind that stamp; no time it has read is to come.
OnTime(t, previous, time) ==
    /\ t \in LimiterThreads
    /\ t.now <= time
    /\ t.pc = "game" => t.now = 0
    /\ t.pc \in {"sleep", "spin", "after"} => t.ideal # 0
    /\ t.pc \in {"sleep", "spin"} => previous + t.ideal <= t.target
    /\ t.pc \in {"after", "frame", "stamp"} /\ t.ideal # 0 => previous + t.ideal <= t.now

LimiterInv ==
    /\ clock \in Cycle..2 * Cycle
    /\ idealCycle \in 0..Cycle /\ idealFrame \in 0..Cycle /\ idealInactive \in 0..Cycle
    /\ previousCycle \in Int /\ previousCycle <= clock
    /\ previousFrame \in Int /\ previousFrame <= clock
    /\ OnTime(sim, previousCycle, clock)
    /\ OnTime(render, previousFrame, clock)

LEMMA RoundedDown ==
    ASSUME NEW n \in Int, NEW d \in Nat \ {0}
    PROVE  LET r == (n \div d) * d IN r \in Int /\ r <= n /\ n - d < r
BY SMT

LEMMA InGameIs ==
    LET t == Limiter!InGame
    IN  t \in LimiterThreads /\ t.pc = "game" /\ t.now = 0 /\ t.ideal = 0
BY LimiterAssumption DEF LimiterAssumption, Limiter!InGame, LimiterThreads

\* A call that is to wait, or need not.
LEMMA WaitingIs ==
    ASSUME LimiterInv, NEW previous \in Int, NEW period \in 1..Cycle, NEW sleep \in Int
    PROVE  LET t == Limiter!Waiting(previous, period, sleep)
           IN  /\ OnTime(t, previous, clock)
               /\ t.pc \in {"sleep", "spin"} =>
                    t.ideal = period /\ t.target = previous + period /\ (t.sleepUntil = sleep)
<1> DEFINE g == Limiter!InGame
<1>1. g \in LimiterThreads /\ clock \in Int /\ period \in 0..Cycle /\ period # 0
  BY InGameIs, LimiterAssumption DEF LimiterAssumption, LimiterInv
<1>2. CASE clock >= previous + period
  <2> DEFINE t == [g EXCEPT !.pc = "after", !.ideal = period, !.now = clock]
  <2>1. Limiter!Waiting(previous, period, sleep) = t
    BY <1>2 DEF Limiter!Waiting, Limiter!Target
  <2> HIDE DEF g
  <2>2. t \in LimiterThreads /\ t.pc = "after" /\ t.ideal = period /\ t.now = clock
    BY <1>1 DEF LimiterThreads
  <2> HIDE DEF t
  <2> QED BY <1>1, <1>2, <2>1, <2>2 DEF OnTime
<1>3. CASE ~(clock >= previous + period)
  <2> DEFINE place == IF sleep > clock THEN "sleep" ELSE "spin"
             t == [g EXCEPT !.pc = place, !.ideal = period, !.target = previous + period, !.sleepUntil = sleep]
  <2>1. Limiter!Waiting(previous, period, sleep) = t
    BY <1>3 DEF Limiter!Waiting, Limiter!Target
  <2>2. place \in {"sleep", "spin"} /\ g.now = 0 /\ previous + period \in Int
    BY InGameIs
  <2> HIDE DEF g, place
  <2>3. /\ t \in LimiterThreads /\ t.pc = place /\ t.ideal = period /\ t.target = previous + period
        /\ t.sleepUntil = sleep /\ t.now = g.now
    BY <1>1, <2>2 DEF LimiterThreads
  <2>4. 0 <= clock
    BY LimiterAssumption DEF LimiterAssumption, LimiterInv
  <2> HIDE DEF t
  <2> QED BY <1>1, <1>3, <2>1, <2>2, <2>3, <2>4 DEF OnTime
<1> QED BY <1>2, <1>3

LEMMA SleepIs ==
    ASSUME NEW time \in Int, NEW sleep \in Limiter!SleepUntil(time)
    PROVE  sleep \in Int /\ (~Reread => sleep <= time)
<1>1. PICK f \in Frequencies, g \in Frequencies : sleep = (time \div f) * g /\ (~Reread => f = g)
  BY DEF Limiter!SleepUntil
<1>2. f \in Nat \ {0} /\ g \in Int
  BY <1>1, LimiterAssumption DEF LimiterAssumption
<1>3. time \div f \in Int /\ (time \div f) * f <= time
  BY <1>2, RoundedDown
<1>4. \A a \in Int : a * g \in Int
  BY <1>2
<1>5. sleep \in Int
  BY <1>1, <1>3, <1>4
<1> QED BY <1>1, <1>3, <1>5

LEMMA SimKeeps ==
    ASSUME LimiterInv, Limiter!Sim
    PROVE  /\ OnTime(sim', previousCycle', clock) /\ previousCycle' \in Int /\ previousCycle' <= clock
           /\ UNCHANGED <<clock, idealCycle, idealFrame, idealInactive, previousFrame, render>>
<1>1. /\ sim \in LimiterThreads /\ clock \in Int /\ 0 <= clock /\ previousCycle \in Int /\ previousCycle <= clock
      /\ OnTime(sim, previousCycle, clock) /\ idealCycle \in 0..Cycle /\ Cycle \in Nat
  BY LimiterAssumption DEF LimiterAssumption, LimiterInv, OnTime
<1>2. UNCHANGED <<clock, idealCycle, idealFrame, idealInactive, previousFrame, render>>
  BY DEF Limiter!Sim, Limiter!IdleUntimed, Limiter!IdleTimed, Limiter!SimWake, Limiter!SimSpun, Limiter!SimAfter,
         Limiter!FrameSeen, Limiter!FramePoll, Limiter!SimReturn, Limiter!Simulates, Limiter!tuning
<1> SUFFICES OnTime(sim', previousCycle', clock) /\ previousCycle' \in Int /\ previousCycle' <= clock
  BY <1>2
<1> DEFINE g == Limiter!InGame
<1>3. g \in LimiterThreads /\ g.pc = "game" /\ g.now = 0 /\ g.ideal = 0
  BY InGameIs
<1> HIDE DEF g
<1>4. CASE Limiter!IdleUntimed
  <2>1. previousCycle' = previousCycle /\ sim' = [g EXCEPT !.pc = "frame", !.begin = clock]
    BY <1>4 DEF Limiter!IdleUntimed, Limiter!BusyWait, g
  <2>2. sim' \in LimiterThreads /\ sim'.pc = "frame" /\ sim'.now = 0 /\ sim'.ideal = 0
    BY <1>1, <1>3, <2>1 DEF LimiterThreads
  <2> QED BY <1>1, <2>1, <2>2 DEF OnTime
<1>5. CASE Limiter!IdleTimed
  <2>1. PICK sleep \in Limiter!SleepUntil(previousCycle + idealCycle) :
            /\ previousCycle' = previousCycle /\ idealCycle # 0
            /\ sim' = Limiter!Waiting(previousCycle, idealCycle, sleep)
    BY <1>5 DEF Limiter!IdleTimed, Limiter!Target
  <2>2. sleep \in Int /\ idealCycle \in 1..Cycle
    BY <1>1, <2>1, SleepIs
  <2> QED BY <1>1, <2>1, <2>2, WaitingIs
<1>6. CASE Limiter!SimWake
  <2>1. sim.pc = "sleep" /\ previousCycle' = previousCycle /\ sim' = [sim EXCEPT !.pc = "spin", !.sleepUntil = 0]
    BY <1>6 DEF Limiter!SimWake, Limiter!Woken
  <2> DEFINE zero == 0
  <2>3. zero \in Int /\ sim' = [sim EXCEPT !.pc = "spin", !.sleepUntil = zero]
    BY <2>1
  <2> HIDE DEF zero
  <2>2. /\ sim' \in LimiterThreads /\ sim'.pc = "spin" /\ sim'.now = sim.now /\ sim'.ideal = sim.ideal
        /\ sim'.target = sim.target
    BY <1>1, <2>3 DEF LimiterThreads
  <2> QED BY <1>1, <2>1, <2>2 DEF OnTime
<1>7. CASE Limiter!SimSpun
  <2>1. /\ sim.pc = "spin" /\ clock >= sim.target /\ previousCycle' = previousCycle
        /\ sim' = [g EXCEPT !.pc = "after", !.ideal = sim.ideal, !.now = clock]
    BY <1>7 DEF Limiter!SimSpun, Limiter!Spun, g
  <2>2. sim.target \in Int /\ sim.ideal \in 0..Cycle
    BY <1>1 DEF LimiterThreads
  <2>3. sim' \in LimiterThreads /\ sim'.pc = "after" /\ sim'.now = clock /\ sim'.ideal = sim.ideal
    BY <1>1, <1>3, <2>1, <2>2 DEF LimiterThreads
  <2> QED BY <1>1, <2>1, <2>2, <2>3 DEF OnTime
<1>8. CASE Limiter!SimAfter
  <2>1. sim.pc = "after" /\ previousCycle' = previousCycle
    BY <1>8 DEF Limiter!SimAfter
  <2>2. sim.now \in Int /\ sim.ideal \in 0..Cycle
    BY <1>1 DEF LimiterThreads
  <2>3. CASE ~tickOnce
    <3>2. sim' = [sim EXCEPT !.pc = "stamp"]
      BY <1>8, <2>3 DEF Limiter!SimAfter
    <3>1. sim' \in LimiterThreads /\ sim'.pc = "stamp" /\ sim'.now = sim.now /\ sim'.ideal = sim.ideal
      BY <1>1, <3>2 DEF LimiterThreads
    <3> QED BY <1>1, <2>1, <3>1 DEF OnTime
  <2>4. CASE tickOnce
    <3> DEFINE b == Limiter!BusyWait
    <3>1. b = [g EXCEPT !.pc = "frame", !.begin = clock]
      BY DEF Limiter!BusyWait, g
    <3>4. sim' = [b EXCEPT !.ideal = sim.ideal, !.now = clock]
      BY <1>8, <2>4 DEF Limiter!SimAfter
    <3> HIDE DEF b
    <3>2. b \in LimiterThreads /\ b.pc = "frame"
      BY <1>1, <1>3, <3>1 DEF LimiterThreads
    <3>3. sim' \in LimiterThreads /\ sim'.pc = "frame" /\ sim'.now = clock /\ sim'.ideal = sim.ideal
      BY <1>1, <2>2, <3>2, <3>4 DEF LimiterThreads
    <3> QED BY <1>1, <2>1, <2>2, <3>3 DEF OnTime
  <2> QED BY <2>3, <2>4
<1>9. CASE sim.pc = "frame" /\ previousCycle' = previousCycle /\ sim' = Limiter!FrameWaited
  <2> DEFINE zero == 0
  <2>2. zero \in Int /\ sim' = [sim EXCEPT !.pc = "stamp", !.begin = zero]
    BY <1>9 DEF Limiter!FrameWaited
  <2> HIDE DEF zero
  <2>1. sim' \in LimiterThreads /\ sim'.pc = "stamp" /\ sim'.now = sim.now /\ sim'.ideal = sim.ideal
    BY <1>1, <2>2 DEF LimiterThreads
  <2> QED BY <1>1, <1>9, <2>1 DEF OnTime
<1>10. CASE Limiter!FramePoll
  <2>1. /\ sim.pc = "frame" /\ previousCycle' = previousCycle
        /\ \/ sim' = Limiter!FrameWaited
           \/ sim' = Limiter!Polled
           \/ sim' = [Limiter!Polled EXCEPT !.pc = "stamp", !.begin = 0]
    BY <1>10 DEF Limiter!FramePoll
  <2> DEFINE h == Limiter!Polled
             now == IF sim.ideal = 0 THEN 0 ELSE clock
  <2>2. now \in Int /\ now <= clock /\ (sim.ideal # 0 => now = clock)
    BY <1>1
  <2>3. h = [sim EXCEPT !.now = now]
    BY DEF Limiter!Polled
  <2> HIDE DEF h, now
  <2>4. h \in LimiterThreads /\ h.pc = sim.pc /\ h.now = now /\ h.ideal = sim.ideal
    BY <1>1, <2>2, <2>3 DEF LimiterThreads
  <2>5. sim.now \in Int /\ sim.ideal \in 0..Cycle
    BY <1>1 DEF LimiterThreads
  <2>6. sim.ideal # 0 => previousCycle + sim.ideal <= now
    BY <1>1, <2>1, <2>2, <2>5 DEF OnTime
  <2>7. ASSUME NEW e \in LimiterThreads, e.pc \in {"frame", "stamp"}, e.now = now, e.ideal = sim.ideal
        PROVE  OnTime(e, previousCycle, clock)
    BY <2>2, <2>6, <2>7 DEF OnTime
  <2>8. CASE sim' = h
    BY <1>1, <2>1, <2>4, <2>7, <2>8
  <2>9. CASE sim' = [h EXCEPT !.pc = "stamp", !.begin = 0]
    <3> DEFINE zero == 0
    <3>2. zero \in Int /\ sim' = [h EXCEPT !.pc = "stamp", !.begin = zero]
      BY <2>9
    <3> HIDE DEF zero
    <3>1. sim' \in LimiterThreads /\ sim'.pc = "stamp" /\ sim'.now = now /\ sim'.ideal = sim.ideal
      BY <2>4, <3>2 DEF LimiterThreads
    <3> QED BY <1>1, <2>1, <2>7, <3>1
  <2> QED BY <1>9, <2>1, <2>8, <2>9 DEF h
<1>11. CASE Limiter!SimReturn
  <2>1. /\ sim.pc = "stamp" /\ sim' = g
        /\ previousCycle' = IF sim.ideal = 0 THEN previousCycle ELSE (sim.now \div sim.ideal) * sim.ideal
    BY <1>11 DEF Limiter!SimReturn, Limiter!Stamp, g
  <2>2. sim.now \in Int /\ sim.ideal \in Nat /\ sim.now <= clock
    BY <1>1 DEF LimiterThreads, OnTime
  <2>3. previousCycle' \in Int /\ previousCycle' <= clock
    <3>1. CASE sim.ideal = 0
      BY <1>1, <2>1, <3>1
    <3>2. CASE sim.ideal # 0
      <4>1. previousCycle' \in Int /\ previousCycle' <= sim.now
        BY <2>1, <2>2, <3>2, RoundedDown
      <4> QED BY <1>1, <2>2, <4>1
    <3> QED BY <3>1, <3>2
  <2> QED BY <1>1, <1>3, <2>1, <2>3 DEF OnTime
<1>12. CASE Limiter!FrameSeen
  BY <1>9, <1>12 DEF Limiter!FrameSeen
<1> QED BY <1>2, <1>4, <1>5, <1>6, <1>7, <1>8, <1>10, <1>11, <1>12 DEF Limiter!Sim

LEMMA RenderKeeps ==
    ASSUME LimiterInv, Limiter!Present \/ Limiter!Render
    PROVE  /\ OnTime(render', previousFrame', clock) /\ previousFrame' \in Int /\ previousFrame' <= clock
           /\ UNCHANGED <<clock, idealCycle, idealFrame, idealInactive, previousCycle, sim>>
<1>1. /\ render \in LimiterThreads /\ clock \in Int /\ 0 <= clock /\ previousFrame \in Int /\ previousFrame <= clock
      /\ OnTime(render, previousFrame, clock) /\ idealFrame \in 0..Cycle /\ idealInactive \in 0..Cycle
      /\ Cycle \in Nat
  BY LimiterAssumption DEF LimiterAssumption, LimiterInv, OnTime
<1>2. UNCHANGED <<clock, idealCycle, idealFrame, idealInactive, previousCycle, sim>>
  BY DEF Limiter!Present, Limiter!Render, Limiter!RenderWake, Limiter!RenderSpun, Limiter!RenderReturn,
         Limiter!Renders, Limiter!tuning
<1> SUFFICES OnTime(render', previousFrame', clock) /\ previousFrame' \in Int /\ previousFrame' <= clock
  BY <1>2
<1> DEFINE g == Limiter!InGame
<1>3. g \in LimiterThreads /\ g.pc = "game" /\ g.now = 0 /\ g.ideal = 0
  BY InGameIs
<1> HIDE DEF g
<1>4. CASE Limiter!Present
  <2>1. previousFrame' = previousFrame
    BY <1>4 DEF Limiter!Present
  <2>2. CASE render' = render
    BY <1>1, <2>1, <2>2
  <2>3. CASE \E period \in {idealFrame, idealInactive} :
                period # 0 /\ \E sleep \in Limiter!SleepUntil(Limiter!Target(previousFrame, period)) :
                                render' = Limiter!Waiting(previousFrame, period, sleep)
    <3>1. PICK period \in {idealFrame, idealInactive} :
                period # 0 /\ \E sleep \in Limiter!SleepUntil(Limiter!Target(previousFrame, period)) :
                                render' = Limiter!Waiting(previousFrame, period, sleep)
      BY <2>3
    <3>2. period \in 1..Cycle
      BY <1>1, <3>1
    <3>3. PICK sleep \in Limiter!SleepUntil(previousFrame + period) :
                render' = Limiter!Waiting(previousFrame, period, sleep)
      BY <3>1 DEF Limiter!Target
    <3>4. previousFrame + period \in Int
      BY <1>1, <3>2
    <3>5. sleep \in Int
      BY <3>3, <3>4, SleepIs
    <3> QED BY <1>1, <2>1, <3>2, <3>3, <3>5, WaitingIs
  <2> QED BY <1>4, <2>2, <2>3 DEF Limiter!Present
<1>5. CASE Limiter!RenderWake
  <2>1. /\ render.pc = "sleep" /\ previousFrame' = previousFrame
        /\ render' = [render EXCEPT !.pc = "spin", !.sleepUntil = 0]
    BY <1>5 DEF Limiter!RenderWake, Limiter!Woken
  <2> DEFINE zero == 0
  <2>3. zero \in Int /\ render' = [render EXCEPT !.pc = "spin", !.sleepUntil = zero]
    BY <2>1
  <2> HIDE DEF zero
  <2>2. /\ render' \in LimiterThreads /\ render'.pc = "spin" /\ render'.now = render.now
        /\ render'.ideal = render.ideal /\ render'.target = render.target
    BY <1>1, <2>3 DEF LimiterThreads
  <2> QED BY <1>1, <2>1, <2>2 DEF OnTime
<1>6. CASE Limiter!RenderSpun
  <2>1. /\ render.pc = "spin" /\ clock >= render.target /\ previousFrame' = previousFrame
        /\ render' = [g EXCEPT !.pc = "after", !.ideal = render.ideal, !.now = clock]
    BY <1>6 DEF Limiter!RenderSpun, Limiter!Spun, g
  <2>2. render.target \in Int /\ render.ideal \in 0..Cycle
    BY <1>1 DEF LimiterThreads
  <2>3. render' \in LimiterThreads /\ render'.pc = "after" /\ render'.now = clock /\ render'.ideal = render.ideal
    BY <1>1, <1>3, <2>1, <2>2 DEF LimiterThreads
  <2> QED BY <1>1, <2>1, <2>2, <2>3 DEF OnTime
<1>7. CASE Limiter!RenderReturn
  <2>1. /\ render.pc = "after" /\ render' = g
        /\ previousFrame' = (render.now \div render.ideal) * render.ideal
    BY <1>7 DEF Limiter!RenderReturn, Limiter!Stamp, g
  <2>2. render.now \in Int /\ render.ideal \in Nat \ {0} /\ render.now <= clock
    BY <1>1, <2>1 DEF LimiterThreads, OnTime
  <2>3. previousFrame' \in Int /\ previousFrame' <= render.now
    BY <2>1, <2>2, RoundedDown
  <2> QED BY <1>1, <1>3, <2>1, <2>2, <2>3 DEF OnTime
<1> QED BY <1>2, <1>4, <1>5, <1>6, <1>7 DEF Limiter!Render

\* One thread when the clock is set back.
LEMMA BackKeeps ==
    ASSUME NEW t, NEW previous \in Int, previous <= 2 * Cycle, OnTime(t, previous, 2 * Cycle),
           ~Limiter!StampsSoon(t), t.pc # "frame" \/ t.pc = "frame"
    PROVE  /\ Limiter!Back(previous, -Cycle) \in Int /\ Limiter!Back(previous, -Cycle) <= Cycle
           /\ OnTime(Limiter!ThreadBack(t), Limiter!Back(previous, -Cycle), Cycle)
<1>1. Cycle \in Nat \ {0}
  BY LimiterAssumption DEF LimiterAssumption
<1>2. /\ t \in LimiterThreads /\ t.now \in Int /\ t.target \in Int /\ t.sleepUntil \in Int /\ t.begin \in Int
      /\ t.ideal \in 0..Cycle
  BY DEF OnTime, LimiterThreads
<1> DEFINE p == Limiter!Back(previous, -Cycle)
           now == Limiter!Back(t.now, 0)
           target == Limiter!Back(t.target, 0)
           sleep == Limiter!Back(t.sleepUntil, 0)
           begin == Limiter!Back(t.begin, 0)
<1>3. /\ p \in Int /\ p <= Cycle /\ now \in Int /\ target \in Int /\ sleep \in Int /\ begin \in Int
      /\ p = previous - Cycle \/ p = -Cycle
      /\ previous - Cycle <= p
      /\ t.target - Cycle <= target /\ 0 <= target
      /\ t.now - Cycle <= now /\ 0 <= now /\ (t.now <= 2 * Cycle => now <= Cycle)
  BY <1>1, <1>2 DEF Limiter!Back
<1>4. CASE t.pc = "game"
  BY <1>1, <1>2, <1>3, <1>4 DEF OnTime, Limiter!ThreadBack
<1>5. CASE t.pc # "game"
  <2> DEFINE e == [t EXCEPT !.target = target, !.sleepUntil = sleep, !.now = now, !.begin = begin]
  <2>1. Limiter!ThreadBack(t) = e
    BY <1>2, <1>5 DEF Limiter!ThreadBack, LimiterThreads
  <2> HIDE DEF p, now, target, sleep, begin
  <2>2. e \in LimiterThreads /\ e.pc = t.pc /\ e.ideal = t.ideal /\ e.target = target /\ e.now = now
    BY <1>2, <1>3 DEF LimiterThreads
  <2> HIDE DEF e
  <2>3. t.pc \in {"sleep", "spin"} => p + t.ideal <= target
    BY <1>1, <1>2, <1>3 DEF OnTime
  <2>4. t.pc \in {"after", "frame", "stamp"} /\ t.ideal # 0 => p + t.ideal <= now
    BY <1>1, <1>2, <1>3 DEF OnTime
  <2>5. now <= Cycle
    BY <1>3 DEF OnTime
  <2>6. t.pc \in {"sleep", "spin", "after"} => t.ideal # 0
    BY DEF OnTime
  <2> QED BY <1>3, <1>5, <2>1, <2>2, <2>3, <2>4, <2>5, <2>6 DEF OnTime, p
<1> QED BY <1>4, <1>5

LEMMA LimiterStep == LimiterInv /\ [Limiter!Next]_Limiter!vars => LimiterInv'
<1> SUFFICES ASSUME LimiterInv, [Limiter!Next]_Limiter!vars PROVE LimiterInv'
  OBVIOUS
<1>1. Cycle \in Nat \ {0}
  BY LimiterAssumption DEF LimiterAssumption
<1>2. CASE Limiter!Sim
  BY <1>2, SimKeeps DEF LimiterInv, OnTime
<1>3. CASE Limiter!Present \/ Limiter!Render
  BY <1>3, RenderKeeps DEF LimiterInv, OnTime
<1>4. CASE Limiter!Install
  <2>1. idealCycle' \in 0..Cycle /\ idealFrame' \in 0..Cycle /\ idealInactive' \in 0..Cycle
    BY <1>4, LimiterAssumption DEF LimiterAssumption, Limiter!Install
  <2> QED BY <1>4, <2>1 DEF Limiter!Install, Limiter!Patches, LimiterInv, OnTime
<1>5. CASE Limiter!InstallRest \/ Limiter!Uninstall
  BY <1>5 DEF Limiter!InstallRest, Limiter!Uninstall, Limiter!Patches, Limiter!tuning, LimiterInv, OnTime
<1>6. CASE Limiter!Pass
  <2>1. ASSUME NEW t, NEW previous, OnTime(t, previous, clock) PROVE OnTime(t, previous, clock + 1)
    BY <1>1, <2>1 DEF OnTime, LimiterThreads, LimiterInv
  <2> QED BY <1>1, <1>6, <2>1 DEF Limiter!Pass, Limiter!tuning, LimiterInv, OnTime
<1>7. CASE Limiter!SetBack
  <2>1. /\ clock = 2 * Cycle /\ clock' = Cycle /\ UNCHANGED <<idealCycle, idealFrame, idealInactive>>
        /\ ~Limiter!StampsSoon(sim) /\ ~Limiter!StampsSoon(render)
        /\ previousCycle' = Limiter!Back(previousCycle, -Cycle) /\ previousFrame' = Limiter!Back(previousFrame, -Cycle)
        /\ sim' = Limiter!ThreadBack(sim) /\ render' = Limiter!ThreadBack(render)
    BY <1>7 DEF Limiter!SetBack, Limiter!tuning
  <2>2. /\ previousCycle \in Int /\ previousCycle <= 2 * Cycle /\ OnTime(sim, previousCycle, 2 * Cycle)
        /\ previousFrame \in Int /\ previousFrame <= 2 * Cycle /\ OnTime(render, previousFrame, 2 * Cycle)
    BY <2>1 DEF LimiterInv
  <2>3. /\ previousCycle' \in Int /\ previousCycle' <= Cycle /\ OnTime(sim', previousCycle', Cycle)
        /\ previousFrame' \in Int /\ previousFrame' <= Cycle /\ OnTime(render', previousFrame', Cycle)
    BY <2>1, <2>2, BackKeeps
  <2> QED BY <1>1, <2>1, <2>3 DEF LimiterInv, OnTime
<1>8. CASE UNCHANGED Limiter!vars
  BY <1>8 DEF Limiter!vars, Limiter!tuning, LimiterInv, OnTime
<1> QED BY <1>2, <1>3, <1>4, <1>5, <1>6, <1>7, <1>8 DEF Limiter!Next, Limiter!Clock

LEMMA LimiterInit == Limiter!Init => LimiterInv
BY InGameIs, LimiterAssumption DEF LimiterAssumption, Limiter!Init, LimiterInv, OnTime

\* Every limited cycle and every limited frame takes a slot of the time grid of its own,
\* also when an installation changes the period while the thread waits, whatever the
\* periods and however late the threads run (smooth_patch_precise.cpp,
\* HookedIdleSimulationCycle and DelayAfterFramePresentation).
THEOREM TurnsAreTaken == ComponentsSpec => OneTurnPerSlot
<1> DEFINE Inv == subject = "limiter" => LimiterInv
<1>1. ComponentsInit => Inv
  BY LimiterInit DEF ComponentsInit
<1>2. Inv /\ [ComponentsNext]_all => Inv'
  BY SubjectStays, SubjectSteps, LimiterStep
<1>3. Inv /\ [ComponentsNext]_all => (subject = "limiter" => Limiter!TakesTurn)
  <2> SUFFICES ASSUME LimiterInv PROVE Limiter!TakesTurn
    OBVIOUS
  <2>1. ASSUME NEW t, NEW previous \in Int, OnTime(t, previous, clock), t.pc \in {"after", "stamp"}, t.ideal # 0
        PROVE  (t.now \div t.ideal) * t.ideal > previous
    <3>1. t.now \in Int /\ t.ideal \in Nat \ {0} /\ previous + t.ideal <= t.now
      BY <2>1 DEF OnTime, LimiterThreads
    <3>2. (t.now \div t.ideal) * t.ideal \in Int /\ t.now - t.ideal < (t.now \div t.ideal) * t.ideal
      BY <3>1, RoundedDown
    <3> DEFINE r == (t.now \div t.ideal) * t.ideal
    <3> HIDE DEF r
    <3>3. r > previous
      BY <2>1, <3>1, <3>2 DEF r
    <3> QED BY <3>3 DEF r
  <2>2. Limiter!SimReturn /\ sim.ideal # 0 => previousCycle' > previousCycle
    BY <2>1 DEF Limiter!SimReturn, Limiter!Stamp, LimiterInv
  <2>3. Limiter!RenderReturn => previousFrame' > previousFrame
    BY <2>1 DEF Limiter!RenderReturn, Limiter!Stamp, LimiterInv, OnTime
  <2> QED BY <2>2, <2>3 DEF Limiter!TakesTurn
<1> QED BY <1>1, <1>2, <1>3, PTL DEF ComponentsSpec, OneTurnPerSlot

\* No thread waits longer than the period it has read, nor sleeps beyond the end of its
\* wait, if the timer's frequency is not set between its two reads
\* (smooth_patch_precise.cpp, PrecisionSleep's caller).
THEOREM WaitsAreBounded == ~Reread => (ComponentsSpec => WaitIsBounded)
<1> DEFINE Inv == subject = "limiter" => LimiterInv
<1> SUFFICES ASSUME ~Reread PROVE ComponentsSpec => WaitIsBounded
  OBVIOUS
<1>1. ComponentsInit => Inv
  BY LimiterInit DEF ComponentsInit
<1>2. Inv /\ [ComponentsNext]_all => Inv'
  BY SubjectStays, SubjectSteps, LimiterStep
<1>3. Inv /\ [ComponentsNext]_all => (subject = "limiter" => Limiter!WaitsForItsPeriod)
  <2> SUFFICES ASSUME LimiterInv, [Limiter!Next]_Limiter!vars PROVE Limiter!WaitsForItsPeriod
    BY SubjectSteps
  <2> DEFINE Bounded(t) == t.pc \in {"sleep", "spin"} => t.target <= clock + t.ideal /\ t.sleepUntil <= t.target
  <2>1. ASSUME NEW previous \in Int, previous <= clock, NEW period \in 1..Cycle,
               NEW sleep \in Limiter!SleepUntil(Limiter!Target(previous, period))
        PROVE  Bounded(Limiter!Waiting(previous, period, sleep))
    <3>1. period \in Int /\ clock \in Int /\ previous + period \in Int
      BY LimiterAssumption DEF LimiterAssumption, LimiterInv
    <3>2. sleep \in Int /\ sleep <= previous + period
      BY <3>1, SleepIs DEF Limiter!Target
    <3> DEFINE t == Limiter!Waiting(previous, period, sleep)
    <3>3. t.pc \in {"sleep", "spin"} => t.ideal = period /\ t.target = previous + period /\ t.sleepUntil = sleep
      BY <3>2, WaitingIs
    <3> HIDE DEF t
    <3>4. Bounded(t)
      BY <2>1, <3>1, <3>2, <3>3
    <3> QED BY <3>4 DEF t
  <2>2. ASSUME sim.pc = "game" PROVE sim' = sim \/ Bounded(sim')
    <3>1. previousCycle \in Int /\ previousCycle <= clock /\ idealCycle \in 0..Cycle /\ Cycle \in Nat
      BY LimiterAssumption DEF LimiterAssumption, LimiterInv
    <3>2. CASE Limiter!IdleTimed
      <4>1. PICK sleep \in Limiter!SleepUntil(Limiter!Target(previousCycle, idealCycle)) :
                idealCycle # 0 /\ sim' = Limiter!Waiting(previousCycle, idealCycle, sleep)
        BY <3>2 DEF Limiter!IdleTimed
      <4>2. idealCycle \in 1..Cycle
        BY <3>1, <4>1
      <4> QED BY <2>1, <3>1, <4>1, <4>2
    <3>3. CASE Limiter!IdleUntimed
      <4>1. sim' = [Limiter!InGame EXCEPT !.pc = "frame", !.begin = clock]
        BY <3>3 DEF Limiter!IdleUntimed, Limiter!BusyWait
      <4>2. sim'.pc = "frame"
        BY <4>1, InGameIs DEF LimiterThreads
      <4> QED BY <4>2
    <3>4. ~(\/ Limiter!SimWake \/ Limiter!SimSpun \/ Limiter!SimAfter
            \/ Limiter!FrameSeen \/ Limiter!FramePoll \/ Limiter!SimReturn)
      BY <2>2 DEF Limiter!SimWake, Limiter!SimSpun, Limiter!SimAfter, Limiter!FrameSeen, Limiter!FramePoll,
                  Limiter!SimReturn, Limiter!Woken, Limiter!Spun
    <3>5. Limiter!Present \/ Limiter!Render => sim' = sim
      BY RenderKeeps
    <3>6. Limiter!Install \/ Limiter!InstallRest \/ Limiter!Uninstall \/ Limiter!Pass => sim' = sim
      BY DEF Limiter!Install, Limiter!InstallRest, Limiter!Uninstall, Limiter!Patches, Limiter!Pass
    <3>7. Limiter!SetBack => sim' = sim
      BY <2>2 DEF Limiter!SetBack, Limiter!ThreadBack
    <3>8. UNCHANGED Limiter!vars => sim' = sim
      BY DEF Limiter!vars
    <3> QED BY <3>2, <3>3, <3>4, <3>5, <3>6, <3>7, <3>8 DEF Limiter!Next, Limiter!Sim, Limiter!Clock
  <2>3. ASSUME render.pc = "game" PROVE render' = render \/ Bounded(render')
    <3>1. /\ previousFrame \in Int /\ previousFrame <= clock /\ Cycle \in Nat
          /\ idealFrame \in 0..Cycle /\ idealInactive \in 0..Cycle
      BY LimiterAssumption DEF LimiterAssumption, LimiterInv
    <3>2. CASE Limiter!Present /\ render' # render
      <4>1. PICK period \in {idealFrame, idealInactive} :
                period # 0 /\ \E sleep \in Limiter!SleepUntil(Limiter!Target(previousFrame, period)) :
                                render' = Limiter!Waiting(previousFrame, period, sleep)
        BY <3>2 DEF Limiter!Present
      <4>2. period \in 1..Cycle
        BY <3>1, <4>1
      <4>3. PICK sleep \in Limiter!SleepUntil(Limiter!Target(previousFrame, period)) :
                render' = Limiter!Waiting(previousFrame, period, sleep)
        BY <4>1
      <4> QED BY <2>1, <3>1, <4>2, <4>3
    <3>3. ~(Limiter!RenderWake \/ Limiter!RenderSpun \/ Limiter!RenderReturn)
      BY <2>3 DEF Limiter!RenderWake, Limiter!RenderSpun, Limiter!RenderReturn, Limiter!Woken, Limiter!Spun
    <3>4. Limiter!Sim => render' = render
      BY SimKeeps
    <3>5. Limiter!Install \/ Limiter!InstallRest \/ Limiter!Uninstall \/ Limiter!Pass => render' = render
      BY DEF Limiter!Install, Limiter!InstallRest, Limiter!Uninstall, Limiter!Patches, Limiter!Pass
    <3>6. Limiter!SetBack => render' = render
      BY <2>3 DEF Limiter!SetBack, Limiter!ThreadBack
    <3>7. UNCHANGED Limiter!vars => render' = render
      BY DEF Limiter!vars
    <3> QED BY <3>2, <3>3, <3>4, <3>5, <3>6, <3>7 DEF Limiter!Next, Limiter!Render, Limiter!Clock
  <2> QED BY <2>2, <2>3 DEF Limiter!WaitsForItsPeriod
<1> QED BY <1>1, <1>2, <1>3, PTL DEF ComponentsSpec, WaitIsBounded

-----------------------------------------------------------------------------
(* AdaptiveWait: what the game sees of its waits. *)

WaitingCalls ==
    [pc : {"game", "failed", "timeout", "poll", "kernel", "polled", "update", "adapt", "return"},
     handle : Handles \cup {"null"}, time : {"none", "some", "endless"}, alertable : BOOLEAN,
     result : {"none", "object", "callback", "timeout", "failed"},
     budget : Int, successes : Nat, total : Nat]

\* A call that has its result goes on with the bookkeeping or returns, and only such a
\* call returns.  A call answered without the kernel is one the kernel would answer so.
WaitFits(c) ==
    /\ c \in WaitingCalls
    /\ c.result # "none" => c.pc \in {"update", "adapt", "return"}
    /\ c.pc = "return" => c.result # "none"
    /\ c.pc = "failed" => c.handle = "null"
    /\ c.pc = "timeout" => c.handle = "thread" /\ ~c.alertable /\ c.time = "none"

WaitsInv ==
    /\ waitCall \in [Waiters -> {c \in WaitingCalls : WaitFits(c)}]
    /\ queued \in [Waiters -> BOOLEAN]
    /\ spinBudgetUs \in Int /\ spinSuccesses \in Nat /\ spinFailures \in Nat

LEMMA WaitIdleFits == WaitFits(Waits!Idle) /\ Waits!Idle.pc = "game" /\ Waits!Idle.result = "none"
  BY WaitAssumption DEF WaitAssumption, WaitFits, WaitingCalls, Waits!Idle

LEMMA WaitsStart == Waits!Init => WaitsInv /\ Waits!Kernel!Init
<1> SUFFICES ASSUME Waits!Init PROVE WaitsInv /\ Waits!Kernel!Init
  OBVIOUS
<1> DEFINE i == Waits!Idle
<1>1. WaitFits(i) /\ i \in WaitingCalls /\ i.pc = "game"
  BY WaitIdleFits DEF WaitFits
<1>2. waitCall = [w \in Waiters |-> i] /\ queued = [w \in Waiters |-> FALSE] /\ signalled \in BOOLEAN
  BY DEF Waits!Init
<1>3. spinBudgetUs \in Int /\ spinSuccesses \in Nat /\ spinFailures \in Nat
  BY WaitAssumption DEF Waits!Init, WaitAssumption
<1> HIDE DEF i
<1>4. WaitsInv
  BY <1>1, <1>2, <1>3 DEF WaitsInv
<1>5. [w \in Waiters |-> Waits!KernelView(waitCall[w])] = [w \in Waiters |-> Waits!Kernel!Idle]
  BY <1>1, <1>2 DEF Waits!KernelView, Waits!Kernel!Idle
<1> QED BY <1>2, <1>4, <1>5 DEF Waits!Kernel!Init

\* The game's view of a thread whose call goes on is as it was.
LEMMA SpinningIsUnseen ==
    ASSUME WaitsInv, NEW w \in Waiters, NEW c, WaitFits(c), waitCall' = [waitCall EXCEPT ![w] = c],
           Waits!KernelView(c) = Waits!KernelView(waitCall[w]), UNCHANGED <<signalled, queued>>
    PROVE  UNCHANGED Waits!Kernel!vars
<1>1. waitCall \in [Waiters -> {d \in WaitingCalls : WaitFits(d)}]
  BY DEF WaitsInv
<1>2. \A x \in Waiters : Waits!KernelView(waitCall'[x]) = Waits!KernelView(waitCall[x])
  BY <1>1
<1>3. [x \in Waiters |-> Waits!KernelView(waitCall'[x])] = [x \in Waiters |-> Waits!KernelView(waitCall[x])]
  BY <1>2
<1> QED BY <1>3 DEF Waits!Kernel!vars

\* Otherwise it is the view of the thread's call that changes.
LEMMA OneViewChanges ==
    ASSUME WaitsInv, NEW w \in Waiters, NEW c, WaitFits(c), waitCall' = [waitCall EXCEPT ![w] = c]
    PROVE  /\ [x \in Waiters |-> Waits!KernelView(waitCall'[x])] =
                [[x \in Waiters |-> Waits!KernelView(waitCall[x])] EXCEPT ![w] = Waits!KernelView(c)]
           /\ [x \in Waiters |-> Waits!KernelView(waitCall[x])][w] = Waits!KernelView(waitCall[w])
<1>1. waitCall \in [Waiters -> {d \in WaitingCalls : WaitFits(d)}]
  BY DEF WaitsInv
<1> QED BY <1>1

LEMMA CallIsStored ==
    ASSUME WaitsInv, NEW w \in Waiters, NEW c, WaitFits(c)
    PROVE  [waitCall EXCEPT ![w] = c] \in [Waiters -> {d \in WaitingCalls : WaitFits(d)}]
<1>1. waitCall \in [Waiters -> {d \in WaitingCalls : WaitFits(d)}] /\ c \in {d \in WaitingCalls : WaitFits(d)}
  BY DEF WaitsInv, WaitFits
<1> QED BY <1>1

\* The game calls one of the hooks, or the kernel.
LEMMA WaitBegins ==
    ASSUME WaitsInv, NEW w \in Waiters, Waits!Wait(w)
    PROVE  WaitsInv' /\ Waits!Kernel!Begin(w)
<1> DEFINE i == Waits!Idle
<1>1. WaitFits(i) /\ i \in WaitingCalls /\ i.result = "none"
  BY WaitIdleFits DEF WaitFits
<1>2. PICK a \in Calls, route \in {"failed", "timeout", "poll", "kernel"} :
          /\ waitCall' = [waitCall EXCEPT ![w] = [i EXCEPT !.pc = route, !.handle = a.handle, !.time = a.time,
                                                           !.alertable = a.alertable]]
          /\ route = "failed" => a.handle = "null"
          /\ route = "timeout" => a.handle = "thread" /\ ~a.alertable /\ a.time = "none"
  BY WaitAssumption DEF WaitAssumption, Waits!Wait, Waits!Route
<1>3. waitCall[w].pc = "game" /\ UNCHANGED <<signalled, queued, spinBudgetUs, spinSuccesses, spinFailures>>
  BY DEF Waits!Wait, Waits!counters
<1>4. a.handle \in Handles /\ a.time \in {"none", "some", "endless"} /\ a.alertable \in BOOLEAN
  BY WaitAssumption DEF WaitAssumption
<1> DEFINE handle == a.handle
           time == a.time
           alertable == a.alertable
           c == [i EXCEPT !.pc = route, !.handle = handle, !.time = time, !.alertable = alertable]
<1> HIDE DEF i
<1>5. /\ c \in WaitingCalls /\ c.pc = route /\ c.handle = handle /\ c.time = time /\ c.alertable = alertable
      /\ c.result = "none"
  BY <1>1, <1>4 DEF WaitingCalls
<1>6. waitCall' = [waitCall EXCEPT ![w] = c]
  BY <1>2
<1> HIDE DEF c
<1>7. WaitFits(c)
  BY <1>2, <1>5 DEF WaitFits
<1>8. Waits!KernelView(c) = [status |-> "waiting", handle |-> handle, time |-> time, alertable |-> alertable,
                             result |-> "none"]
  BY <1>5 DEF Waits!KernelView
<1>9. Waits!KernelView(waitCall[w]).status = "idle"
  BY <1>3 DEF Waits!KernelView
<1>10. WaitsInv'
  BY <1>3, <1>6, <1>7, CallIsStored DEF WaitsInv
<1> HIDE DEF handle, time, alertable
<1>12. handle \in Handles /\ time \in Waits!Kernel!Times /\ alertable \in BOOLEAN
  BY <1>4 DEF Waits!Kernel!Times, handle, time, alertable
<1> DEFINE view == [x \in Waiters |-> Waits!KernelView(waitCall[x])]
<1>13. /\ view' = [view EXCEPT ![w] = [status |-> "waiting", handle |-> handle, time |-> time,
                                       alertable |-> alertable, result |-> "none"]]
       /\ view[w].status = "idle"
  BY <1>6, <1>7, <1>8, <1>9, OneViewChanges
<1>11. Waits!Kernel!Begin(w)
  BY <1>3, <1>12, <1>13, Zenon DEF Waits!Kernel!Begin
<1> QED BY <1>10, <1>11

KernelViews ==
    [status : {"waiting", "done"}, handle : Handles \cup {"null"}, time : {"none", "some", "endless"},
     alertable : BOOLEAN, result : {"none", "object", "callback", "timeout", "failed"}]

\* A call that gets its result, from the kernel or without it.
LEMMA WaitEnds ==
    ASSUME WaitsInv, NEW w \in Waiters, NEW result \in {"object", "callback", "timeout", "failed"},
           NEW c, WaitFits(c), waitCall[w].pc # "game", waitCall[w].result = "none",
           waitCall' = [waitCall EXCEPT ![w] = c],
           c.pc # "game", c.result = result, c.handle = waitCall[w].handle,
           c.time = waitCall[w].time, c.alertable = waitCall[w].alertable
    PROVE  /\ Waits!Kernel!Finish(w, result)
           /\ [x \in Waiters |-> Waits!KernelView(waitCall[x])][w] =
                [status |-> "waiting", handle |-> c.handle, time |-> c.time, alertable |-> c.alertable,
                 result |-> "none"]
<1> DEFINE before == Waits!KernelView(waitCall[w])
           after == [before EXCEPT !.status = "done", !.result = result]
           view == [x \in Waiters |-> Waits!KernelView(waitCall[x])]
<1>1. c.handle \in Handles \cup {"null"} /\ c.time \in {"none", "some", "endless"} /\ c.alertable \in BOOLEAN
  BY DEF WaitFits, WaitingCalls
<1>2. before = [status |-> "waiting", handle |-> c.handle, time |-> c.time, alertable |-> c.alertable,
                result |-> "none"]
  BY DEF Waits!KernelView
<1>3. Waits!KernelView(c) = [status |-> "done", handle |-> c.handle, time |-> c.time, alertable |-> c.alertable,
                             result |-> result]
  BY DEF Waits!KernelView
<1> HIDE DEF before
<1>4. /\ before \in KernelViews /\ before.handle = c.handle /\ before.time = c.time
      /\ before.alertable = c.alertable
  BY <1>1, <1>2 DEF KernelViews
<1>8. after = [before EXCEPT !.status = "done", !.result = result]
  OBVIOUS
<1> HIDE DEF after
<1>9. /\ after \in KernelViews /\ after.status = "done" /\ after.handle = c.handle
      /\ after.time = c.time /\ after.alertable = c.alertable /\ after.result = result
  BY <1>4, <1>8 DEF KernelViews
<1>5. Waits!KernelView(c) = after
  BY <1>3, <1>9 DEF KernelViews
<1>6. view' = [view EXCEPT ![w] = after] /\ view[w] = before
  BY <1>5, OneViewChanges DEF before
<1>7. Waits!Kernel!Finish(w, result)
  BY <1>6 DEF Waits!Kernel!Finish, after
<1> QED BY <1>2, <1>6, <1>7

\* What the original answers is what the kernel promises for such a wait.
KernelEnds(w, handle, time, alertable, o) ==
    /\ o.result \in {"object", "callback", "timeout", "failed"}
    /\ o.queued \in [Waiters -> BOOLEAN]
    /\ \/ o.result = "object" /\ handle = "event" /\ signalled /\ o.signalled = FALSE /\ o.queued = queued
       \/ /\ o.result = "callback" /\ alertable /\ queued[w] /\ handle # "null"
          /\ o.signalled = signalled /\ o.queued = [queued EXCEPT ![w] = FALSE]
       \/ /\ o.result = "timeout" /\ time # "endless" /\ handle # "null"
          /\ ~(handle = "event" /\ signalled) /\ ~(alertable /\ queued[w])
          /\ o.signalled = signalled /\ o.queued = queued
       \/ o.result = "failed" /\ handle = "null" /\ o.signalled = signalled /\ o.queued = queued

LEMMA OutcomesAreKernels ==
    ASSUME NEW w \in Waiters, NEW handle, NEW time \in {"none", "some", "endless"}, NEW alertable \in BOOLEAN,
           queued \in [Waiters -> BOOLEAN],
           NEW o \in Waits!Outcomes(w, handle, time, alertable)
    PROVE  KernelEnds(w, handle, time, alertable, o)
<1>1. [queued EXCEPT ![w] = FALSE] \in [Waiters -> BOOLEAN]
  OBVIOUS
<1> DEFINE q == [queued EXCEPT ![w] = FALSE]
<1>2. \/ o = [result |-> "object", signalled |-> FALSE, queued |-> queued] /\ handle = "event" /\ signalled
      \/ /\ o = [result |-> "callback", signalled |-> signalled, queued |-> q]
         /\ alertable /\ queued[w] /\ handle # "null"
      \/ /\ o = [result |-> "timeout", signalled |-> signalled, queued |-> queued]
         /\ time # "endless" /\ handle # "null"
         /\ ~(handle = "event" /\ signalled) /\ ~(alertable /\ queued[w])
      \/ o = [result |-> "failed", signalled |-> signalled, queued |-> queued] /\ handle = "null"
  BY Zenon DEF Waits!Outcomes
<1>3. q \in [Waiters -> BOOLEAN] /\ q = [queued EXCEPT ![w] = FALSE]
  BY <1>1
<1> HIDE DEF q
<1> SUFFICES /\ o.result \in {"object", "callback", "timeout", "failed"}
             /\ o.queued \in [Waiters -> BOOLEAN]
             /\ \/ o.result = "object" /\ handle = "event" /\ signalled /\ o.signalled = FALSE /\ o.queued = queued
                \/ /\ o.result = "callback" /\ alertable /\ queued[w] /\ handle # "null"
                   /\ o.signalled = signalled /\ o.queued = q
                \/ /\ o.result = "timeout" /\ time # "endless" /\ handle # "null"
                   /\ ~(handle = "event" /\ signalled) /\ ~(alertable /\ queued[w])
                   /\ o.signalled = signalled /\ o.queued = queued
                \/ o.result = "failed" /\ handle = "null" /\ o.signalled = signalled /\ o.queued = queued
  BY <1>3, Zenon DEF KernelEnds
<1>4. CASE o = [result |-> "object", signalled |-> FALSE, queued |-> queued] /\ handle = "event" /\ signalled
  BY <1>4
<1>5. CASE /\ o = [result |-> "callback", signalled |-> signalled, queued |-> q]
           /\ alertable /\ queued[w] /\ handle # "null"
  <2>1. o.result = "callback" /\ o.signalled = signalled /\ o.queued = q
    BY <1>5, Zenon
  <2> QED BY <1>3, <1>5, <2>1, Zenon
<1>6. CASE /\ o = [result |-> "timeout", signalled |-> signalled, queued |-> queued]
           /\ time # "endless" /\ handle # "null"
           /\ ~(handle = "event" /\ signalled) /\ ~(alertable /\ queued[w])
  <2>1. o.result = "timeout" /\ o.signalled = signalled /\ o.queued = queued
    BY <1>6, Zenon
  <2> QED BY <1>6, <2>1, Zenon
<1>7. CASE o = [result |-> "failed", signalled |-> signalled, queued |-> queued] /\ handle = "null"
  BY <1>7
<1> QED BY <1>2, <1>4, <1>5, <1>6, <1>7, Zenon

LEMMA WaitPolls ==
    ASSUME WaitsInv, NEW w \in Waiters, Waits!Poll(w)
    PROVE  WaitsInv' /\ (Waits!Kernel!End(w) \/ UNCHANGED Waits!Kernel!vars)
<1>1. /\ waitCall[w].pc = "poll" /\ waitCall[w] \in WaitingCalls /\ WaitFits(waitCall[w])
      /\ waitCall[w].result = "none" /\ queued \in [Waiters -> BOOLEAN]
  BY DEF Waits!Poll, WaitsInv, WaitFits
<1> DEFINE b == waitCall[w]
<1>2. PICK o \in Waits!Outcomes(w, b.handle, "none", FALSE) :
          /\ signalled' = o.signalled /\ queued' = o.queued
          /\ waitCall' = [waitCall EXCEPT ![w] =
                [waitCall[w] EXCEPT !.pc = IF o.result = "timeout" THEN "polled" ELSE "update",
                                    !.result = IF o.result = "timeout" THEN "none" ELSE o.result]]
  BY DEF Waits!Poll, Waits!Original, Waits!Go
<1> DEFINE newPc == IF o.result = "timeout" THEN "polled" ELSE "update"
           newResult == IF o.result = "timeout" THEN "none" ELSE o.result
           c == [b EXCEPT !.pc = newPc, !.result = newResult]
<1>14. KernelEnds(w, b.handle, "none", FALSE, o)
  BY <1>1, <1>2, OutcomesAreKernels
<1>3. /\ o.result \in {"object", "callback", "timeout", "failed"} /\ o.queued \in [Waiters -> BOOLEAN]
      /\ \/ o.result = "object" /\ b.handle = "event" /\ signalled /\ o.signalled = FALSE /\ o.queued = queued
         \/ /\ o.result = "timeout" /\ o.signalled = signalled /\ o.queued = queued
         \/ o.result = "failed" /\ b.handle = "null" /\ o.signalled = signalled /\ o.queued = queued
  BY <1>14 DEF KernelEnds
<1>4. waitCall' = [waitCall EXCEPT ![w] = c]
  BY <1>2
<1>5. newPc \in {"polled", "update"} /\ newResult \in {"none", "object", "callback", "timeout", "failed"}
  BY <1>3
<1>8. (o.result = "timeout" => newPc = "polled" /\ newResult = "none")
      /\ (o.result # "timeout" => newPc = "update" /\ newResult = o.result)
  OBVIOUS
<1>10. c = [b EXCEPT !.pc = newPc, !.result = newResult]
  OBVIOUS
<1> HIDE DEF newPc, newResult, b, c
<1>6. /\ c \in WaitingCalls /\ c.pc = newPc /\ c.result = newResult /\ c.handle = b.handle /\ c.time = b.time
      /\ c.alertable = b.alertable
  BY <1>1, <1>5, <1>10 DEF WaitingCalls, b
<1>7. WaitFits(c)
  BY <1>3, <1>5, <1>6, <1>8 DEF WaitFits
<1>9. spinBudgetUs' = spinBudgetUs /\ spinFailures' = spinFailures /\ spinSuccesses' \in Nat
  BY DEF Waits!Poll, WaitsInv
<1>11. WaitsInv'
  BY <1>2, <1>3, <1>4, <1>7, <1>9, CallIsStored DEF WaitsInv
<1>12. CASE o.result = "timeout"
  <2>1. Waits!KernelView(c) = Waits!KernelView(waitCall[w])
    BY <1>1, <1>5, <1>6, <1>8, <1>12 DEF Waits!KernelView, b
  <2> QED BY <1>2, <1>3, <1>4, <1>7, <1>11, <1>12, <2>1, SpinningIsUnseen
<1>13. CASE o.result # "timeout"
  <2>1. /\ Waits!Kernel!Finish(w, o.result)
        /\ [x \in Waiters |-> Waits!KernelView(waitCall[x])][w] =
                [status |-> "waiting", handle |-> c.handle, time |-> c.time, alertable |-> c.alertable,
                 result |-> "none"]
    BY <1>1, <1>3, <1>4, <1>5, <1>6, <1>7, <1>8, <1>13, WaitEnds DEF b
  <2>2. Waits!Kernel!End(w)
    BY <1>2, <1>3, <1>6, <1>13, <2>1 DEF Waits!Kernel!End
  <2> QED BY <1>11, <2>2
<1> QED BY <1>12, <1>13

LEMMA WaitBlocks ==
    ASSUME WaitsInv, NEW w \in Waiters, Waits!Block(w)
    PROVE  WaitsInv' /\ Waits!Kernel!End(w)
<1>1. /\ waitCall[w].pc = "kernel" /\ waitCall[w] \in WaitingCalls /\ WaitFits(waitCall[w])
      /\ waitCall[w].result = "none" /\ queued \in [Waiters -> BOOLEAN]
  BY DEF Waits!Block, WaitsInv, WaitFits
<1> DEFINE b == waitCall[w]
<1>2. PICK o \in Waits!Outcomes(w, b.handle, b.time, b.alertable) :
          /\ signalled' = o.signalled /\ queued' = o.queued
          /\ waitCall' = [waitCall EXCEPT ![w] = [waitCall[w] EXCEPT !.pc = "return", !.result = o.result]]
  BY DEF Waits!Block, Waits!Original, Waits!Go
<1> DEFINE r == o.result
           c == [b EXCEPT !.pc = "return", !.result = r]
<1>4. waitCall' = [waitCall EXCEPT ![w] = c]
  BY <1>2
<1> HIDE DEF b
<1>5. b \in WaitingCalls /\ b.time \in {"none", "some", "endless"} /\ b.alertable \in BOOLEAN
  BY <1>1 DEF b, WaitingCalls
<1>15. KernelEnds(w, b.handle, b.time, b.alertable, o)
  BY <1>1, <1>2, <1>5, OutcomesAreKernels
<1>3. /\ r \in {"object", "callback", "timeout", "failed"} /\ o.queued \in [Waiters -> BOOLEAN]
      /\ \/ r = "object" /\ b.handle = "event" /\ signalled /\ o.signalled = FALSE /\ o.queued = queued
         \/ /\ r = "callback" /\ b.alertable /\ queued[w] /\ b.handle # "null"
            /\ o.signalled = signalled /\ o.queued = [queued EXCEPT ![w] = FALSE]
         \/ /\ r = "timeout" /\ b.time # "endless" /\ b.handle # "null"
            /\ ~(b.handle = "event" /\ signalled) /\ ~(b.alertable /\ queued[w])
            /\ o.signalled = signalled /\ o.queued = queued
         \/ r = "failed" /\ b.handle = "null" /\ o.signalled = signalled /\ o.queued = queued
  BY <1>15, Zenon DEF KernelEnds
<1> HIDE DEF r
<1>6. /\ c \in WaitingCalls /\ c.pc = "return" /\ c.result = r /\ c.handle = b.handle /\ c.time = b.time
      /\ c.alertable = b.alertable
  BY <1>3, <1>5 DEF WaitingCalls
<1> HIDE DEF c
<1>7. WaitFits(c)
  BY <1>3, <1>6 DEF WaitFits
<1>9. spinBudgetUs' = spinBudgetUs /\ spinFailures' = spinFailures /\ spinSuccesses' = spinSuccesses
  BY DEF Waits!Block, Waits!counters
<1>11. WaitsInv'
  BY <1>2, <1>3, <1>4, <1>7, <1>9, CallIsStored DEF WaitsInv
<1> DEFINE view == [x \in Waiters |-> Waits!KernelView(waitCall[x])]
           v == [status |-> "waiting", handle |-> b.handle, time |-> b.time, alertable |-> b.alertable,
                 result |-> "none"]
<1>12. Waits!Kernel!Finish(w, r) /\ view[w] = v
  <2>1. c.pc # "game" /\ r # "none" /\ waitCall[w] = b
    BY <1>6, <1>3 DEF b
  <2>2. /\ Waits!Kernel!Finish(w, r)
        /\ [x \in Waiters |-> Waits!KernelView(waitCall[x])][w] =
                [status |-> "waiting", handle |-> c.handle, time |-> c.time, alertable |-> c.alertable,
                 result |-> "none"]
    BY <1>1, <1>3, <1>4, <1>6, <1>7, <2>1, WaitEnds
  <2> QED BY <1>6, <2>2
<1>13. /\ view[w].status = "waiting" /\ view[w].handle = b.handle /\ view[w].time = b.time
       /\ view[w].alertable = b.alertable
  BY <1>12
<1> HIDE DEF view
<1>14. Waits!Kernel!End(w)
  BY <1>2, <1>3, <1>12, <1>13, Zenon DEF Waits!Kernel!End, view
<1> QED BY <1>11, <1>14

\* A step of the bookkeeping, which the game does not see.
LEMMA WaitResumes ==
    ASSUME NEW b, WaitFits(b), b.pc \in {"update", "adapt"}
    PROVE  /\ WaitFits(Waits!Resume(b))
           /\ Waits!KernelView(Waits!Resume(b)) = Waits!KernelView(b)
<1> DEFINE pcNext == IF b.result = "none" THEN "kernel" ELSE "return"
           start == START_US
           zero == 0
           c == [b EXCEPT !.pc = pcNext, !.budget = start, !.successes = zero, !.total = zero]
<1>1. Waits!Resume(b) = c
  BY DEF Waits!Resume
<1>2. start \in Int /\ zero \in Nat /\ pcNext \in {"kernel", "return"} /\ b \in WaitingCalls
  BY WaitAssumption DEF WaitAssumption, WaitFits
<1>3. (b.result = "none" => pcNext = "kernel") /\ (b.result # "none" => pcNext = "return")
  OBVIOUS
<1> HIDE DEF pcNext, start, zero
<1>4. /\ c \in WaitingCalls /\ c.pc = pcNext /\ c.result = b.result /\ c.handle = b.handle /\ c.time = b.time
      /\ c.alertable = b.alertable
  BY <1>2 DEF WaitingCalls
<1> HIDE DEF c
<1>5. WaitFits(c)
  BY <1>2, <1>3, <1>4 DEF WaitFits
<1>6. Waits!KernelView(c) = Waits!KernelView(b)
  BY <1>2, <1>4 DEF Waits!KernelView
<1> QED BY <1>1, <1>5, <1>6

LEMMA WaitAnswers ==
    ASSUME WaitsInv, NEW w \in Waiters, Waits!Answer(w)
    PROVE  WaitsInv' /\ Waits!Kernel!End(w)
<1> DEFINE b == waitCall[w]
           r == b.pc
           c == [b EXCEPT !.pc = "return", !.result = r]
           view == [x \in Waiters |-> Waits!KernelView(waitCall[x])]
<1>1. /\ b.pc \in {"failed", "timeout"} /\ b \in WaitingCalls /\ WaitFits(b) /\ b.result = "none"
      /\ waitCall' = [waitCall EXCEPT ![w] = c] /\ r \in {"failed", "timeout"}
      /\ UNCHANGED <<signalled, queued, spinBudgetUs, spinSuccesses, spinFailures>>
  BY DEF Waits!Answer, Waits!Go, Waits!counters, WaitsInv, WaitFits
<1>2. r = b.pc
  OBVIOUS
<1>3. /\ b.handle # "null" => r = "timeout" /\ b.handle = "thread" /\ ~b.alertable /\ b.time = "none"
      /\ r = "failed" => b.handle = "null"
      /\ r = "timeout" => b.handle = "thread" /\ ~b.alertable /\ b.time = "none"
  BY <1>1 DEF WaitFits
<1> HIDE DEF r, b
<1>4. /\ c \in WaitingCalls /\ c.pc = "return" /\ c.result = r /\ c.handle = b.handle /\ c.time = b.time
      /\ c.alertable = b.alertable
  BY <1>1 DEF WaitingCalls
<1> HIDE DEF c
<1>5. WaitFits(c)
  BY <1>1, <1>4 DEF WaitFits
<1>6. WaitsInv'
  BY <1>1, <1>5, CallIsStored DEF WaitsInv
<1>7. waitCall[w].pc # "game" /\ waitCall[w].result = "none" /\ waitCall[w] = b
  BY <1>1 DEF b
<1>8. /\ Waits!Kernel!Finish(w, r)
      /\ [x \in Waiters |-> Waits!KernelView(waitCall[x])][w] =
              [status |-> "waiting", handle |-> c.handle, time |-> c.time, alertable |-> c.alertable,
               result |-> "none"]
  BY <1>1, <1>4, <1>5, <1>7, WaitEnds
<1>9. /\ view[w].status = "waiting" /\ view[w].handle = b.handle /\ view[w].time = b.time
      /\ view[w].alertable = b.alertable
  BY <1>4, <1>8
<1> HIDE DEF view
<1>10. Waits!Kernel!End(w)
  <2>1. CASE r = "failed"
    BY <1>1, <1>3, <1>8, <1>9, <2>1, Zenon DEF Waits!Kernel!End, view
  <2>2. CASE r = "timeout"
    <3>1. b.time # "endless" /\ b.handle # "null" /\ b.handle # "event" /\ ~b.alertable
      BY <1>3, <2>2
    <3> QED BY <1>1, <1>8, <1>9, <2>2, <3>1, Zenon DEF Waits!Kernel!End, view
  <2> QED BY <1>1, <2>1, <2>2
<1> QED BY <1>6, <1>10

LEMMA WaitReturns ==
    ASSUME WaitsInv, NEW w \in Waiters, Waits!Return(w)
    PROVE  WaitsInv' /\ Waits!Kernel!Leave(w)
<1> DEFINE i == Waits!Idle
           b == waitCall[w]
           view == [x \in Waiters |-> Waits!KernelView(waitCall[x])]
<1>1. /\ b.pc = "return" /\ WaitFits(b) /\ b.result # "none" /\ waitCall' = [waitCall EXCEPT ![w] = i]
      /\ UNCHANGED <<signalled, queued, spinBudgetUs, spinSuccesses, spinFailures>>
  BY DEF Waits!Return, Waits!Go, Waits!counters, WaitsInv, WaitFits
<1>2. WaitFits(i) /\ i.pc = "game"
  BY WaitIdleFits
<1> HIDE DEF i
<1>3. WaitsInv'
  BY <1>1, <1>2, CallIsStored DEF WaitsInv
<1>4. Waits!KernelView(i) = Waits!Kernel!Idle
  BY <1>2 DEF Waits!KernelView, Waits!Kernel!Idle
<1>5. Waits!KernelView(b).status = "done"
  BY <1>1 DEF Waits!KernelView
<1>6. view' = [view EXCEPT ![w] = Waits!Kernel!Idle] /\ view[w].status = "done"
  BY <1>1, <1>2, <1>4, <1>5, OneViewChanges
<1>7. Waits!Kernel!Leave(w)
  BY <1>1, <1>6, Zenon DEF Waits!Kernel!Leave
<1> QED BY <1>3, <1>7

LEMMA SpinsOn ==
    ASSUME WaitsInv, NEW w \in Waiters, NEW c, WaitFits(c), waitCall' = [waitCall EXCEPT ![w] = c],
           Waits!KernelView(c) = Waits!KernelView(waitCall[w]), UNCHANGED <<signalled, queued>>,
           spinBudgetUs' \in Int, spinSuccesses' \in Nat, spinFailures' \in Nat
    PROVE  WaitsInv' /\ UNCHANGED Waits!Kernel!vars
<1>1. WaitsInv'
  BY CallIsStored DEF WaitsInv
<1>2. UNCHANGED Waits!Kernel!vars
  BY SpinningIsUnseen
<1> QED BY <1>1, <1>2

LEMMA BudgetIsChecked ==
    ASSUME WaitsInv, NEW w \in Waiters, Waits!CheckBudget(w)
    PROVE  WaitsInv' /\ UNCHANGED Waits!Kernel!vars
<1> DEFINE b == waitCall[w]
<1>1. PICK pcNext \in {"update", "poll"} : waitCall' = [waitCall EXCEPT ![w] = [b EXCEPT !.pc = pcNext]]
  BY DEF Waits!CheckBudget, Waits!Go
<1>2. /\ b.pc = "polled" /\ WaitFits(b) /\ b \in WaitingCalls /\ UNCHANGED <<signalled, queued>>
      /\ spinBudgetUs' \in Int /\ spinSuccesses' \in Nat /\ spinFailures' \in Nat
  BY DEF Waits!CheckBudget, WaitsInv, WaitFits
<1> DEFINE c == [b EXCEPT !.pc = pcNext]
<1>3. waitCall' = [waitCall EXCEPT ![w] = c] /\ b = waitCall[w]
  BY <1>1
<1> HIDE DEF b
<1>4. /\ c \in WaitingCalls /\ c.pc = pcNext /\ c.result = b.result /\ c.handle = b.handle /\ c.time = b.time
      /\ c.alertable = b.alertable
  BY <1>1, <1>2 DEF WaitingCalls
<1> HIDE DEF c
<1>5. WaitFits(c) /\ Waits!KernelView(c) = Waits!KernelView(b)
  BY <1>1, <1>2, <1>4 DEF WaitFits, Waits!KernelView
<1> QED BY <1>2, <1>3, <1>5, SpinsOn

LEMMA CallIsCounted ==
    ASSUME WaitsInv, NEW w \in Waiters, Waits!CountCall(w)
    PROVE  WaitsInv' /\ UNCHANGED Waits!Kernel!vars
<1> DEFINE b == waitCall[w]
           total == spinSuccesses + spinFailures
           budget == spinBudgetUs
           successes == spinSuccesses
           c == [b EXCEPT !.pc = "adapt", !.budget = budget, !.successes = successes, !.total = total]
           resumed == Waits!Resume(b)
<1>1. waitCall' = [waitCall EXCEPT ![w] = c] \/ waitCall' = [waitCall EXCEPT ![w] = resumed]
  BY Zenon DEF Waits!CountCall, Waits!Go
<1>2. /\ b.pc = "update" /\ WaitFits(b) /\ b \in WaitingCalls /\ UNCHANGED <<signalled, queued>>
      /\ spinBudgetUs' \in Int /\ spinSuccesses' \in Nat /\ spinFailures' \in Nat
      /\ total \in Nat /\ budget \in Int /\ successes \in Nat
  <2>1. spinSuccesses' \in {0, spinSuccesses} /\ spinFailures' \in {0, spinFailures}
    BY DEF Waits!CountCall
  <2> QED BY <2>1 DEF Waits!CountCall, WaitsInv, WaitFits
<1> HIDE DEF resumed
<1>3. CASE waitCall' = [waitCall EXCEPT ![w] = c]
  <2>0. waitCall' = [waitCall EXCEPT ![w] = c] /\ b = waitCall[w]
    BY <1>3
  <2> HIDE DEF b, total, budget, successes
  <2>1. /\ c \in WaitingCalls /\ c.pc = "adapt" /\ c.result = b.result /\ c.handle = b.handle /\ c.time = b.time
        /\ c.alertable = b.alertable
    BY <1>2 DEF WaitingCalls
  <2> HIDE DEF c
  <2>2. WaitFits(c) /\ Waits!KernelView(c) = Waits!KernelView(b)
    BY <1>2, <2>1 DEF WaitFits, Waits!KernelView
  <2> QED BY <1>2, <2>0, <2>2, SpinsOn
<1>4. CASE waitCall' = [waitCall EXCEPT ![w] = resumed]
  <2>1. WaitFits(resumed) /\ Waits!KernelView(resumed) = Waits!KernelView(b)
    BY <1>2, WaitResumes DEF resumed
  <2> QED BY <1>2, <1>4, <2>1, SpinsOn
<1> QED BY <1>1, <1>3, <1>4

LEMMA BudgetIsUpdated ==
    ASSUME WaitsInv, NEW w \in Waiters, Waits!UpdateBudget(w)
    PROVE  WaitsInv' /\ UNCHANGED Waits!Kernel!vars
<1> DEFINE b == waitCall[w]
           resumed == Waits!Resume(b)
<1>1. waitCall' = [waitCall EXCEPT ![w] = resumed] /\ UNCHANGED <<signalled, queued, spinSuccesses, spinFailures>>
  BY DEF Waits!UpdateBudget, Waits!Go
<1>2. b.pc = "adapt" /\ WaitFits(b) /\ b.budget \in Int
  BY DEF Waits!UpdateBudget, WaitsInv, WaitFits, WaitingCalls
<1>3. WaitFits(resumed) /\ Waits!KernelView(resumed) = Waits!KernelView(b)
  BY <1>2, WaitResumes
<1>4. Waits!Probed(b.budget) \in Int /\ Waits!Adapted(b) \in Int
  <2>1. \A by \in {50, 25, 10} : Waits!Grown(b.budget, by) \in Int
    BY <1>2, WaitAssumption DEF WaitAssumption, Waits!Grown
  <2>2. Waits!Adapted(b) \in {b.budget} \cup {Waits!Grown(b.budget, by) : by \in {50, 25, 10}}
    BY DEF Waits!Adapted
  <2> QED BY <1>2, <2>1, <2>2, WaitAssumption DEF WaitAssumption, Waits!Probed
<1>5. spinBudgetUs' \in Int
  <2>1. spinBudgetUs' \in {MIN_SPIN_US, b.budget, Waits!Probed(b.budget), Waits!Adapted(b)}
    BY DEF Waits!UpdateBudget
  <2> QED BY <1>2, <1>4, <2>1, WaitAssumption DEF WaitAssumption
<1> HIDE DEF resumed
<1> QED BY <1>1, <1>3, <1>5, SpinsOn DEF WaitsInv

\* Every step of the hooks is a step of the kernel's own wait, or none.
LEMMA WaitsStep ==
    ASSUME WaitsInv, [Waits!Next]_Waits!vars
    PROVE  WaitsInv' /\ [Waits!Kernel!Next]_Waits!Kernel!vars
<1>1. CASE Waits!Install
  <2>1. UNCHANGED <<signalled, queued, waitCall>>
    BY <1>1 DEF Waits!Install
  <2>2. WaitsInv'
    BY <1>1, <2>1, WaitAssumption DEF Waits!Install, WaitsInv, WaitAssumption
  <2> QED BY <2>1, <2>2 DEF Waits!Kernel!vars
<1>2. CASE Waits!Uninstall \/ UNCHANGED Waits!vars
  <2>1. UNCHANGED <<signalled, queued, waitCall, spinBudgetUs, spinSuccesses, spinFailures>>
    BY <1>2 DEF Waits!Uninstall, Waits!vars, Waits!counters
  <2>2. WaitsInv'
    BY <2>1 DEF WaitsInv
  <2> QED BY <2>1, <2>2 DEF Waits!Kernel!vars
<1>3. CASE Waits!SetEvent
  <2>1. UNCHANGED <<queued, waitCall, spinBudgetUs, spinSuccesses, spinFailures>> /\ signalled' = TRUE
    BY <1>3 DEF Waits!SetEvent, Waits!counters
  <2>2. WaitsInv'
    BY <2>1 DEF WaitsInv
  <2>3. Waits!Kernel!SetEvent
    BY <2>1 DEF Waits!Kernel!SetEvent
  <2> QED BY <2>2, <2>3 DEF Waits!Kernel!Next
<1>4. ASSUME NEW w \in Waiters, Waits!QueueCallback(w)
      PROVE  WaitsInv' /\ Waits!Kernel!Next
  <2>1. /\ UNCHANGED <<signalled, waitCall, spinBudgetUs, spinSuccesses, spinFailures>>
        /\ queued' = [queued EXCEPT ![w] = TRUE]
    BY <1>4 DEF Waits!QueueCallback, Waits!counters
  <2>2. WaitsInv'
    BY <2>1 DEF WaitsInv
  <2>3. Waits!Kernel!QueueCallback(w)
    BY <2>1 DEF Waits!Kernel!QueueCallback
  <2> QED BY <2>2, <2>3 DEF Waits!Kernel!Next
<1>5. ASSUME NEW w \in Waiters,
             Waits!Wait(w) \/ Waits!Answer(w) \/ Waits!Poll(w) \/ Waits!CheckBudget(w) \/ Waits!CountCall(w)
                \/ Waits!UpdateBudget(w) \/ Waits!Block(w) \/ Waits!Return(w)
      PROVE  WaitsInv' /\ [Waits!Kernel!Next]_Waits!Kernel!vars
  <2>1. /\ WaitsInv'
        /\ Waits!Kernel!Begin(w) \/ Waits!Kernel!End(w) \/ Waits!Kernel!Leave(w) \/ UNCHANGED Waits!Kernel!vars
    BY <1>5, WaitBegins, WaitAnswers, WaitPolls, BudgetIsChecked, CallIsCounted, BudgetIsUpdated,
       WaitBlocks, WaitReturns
  <2> QED BY <2>1 DEF Waits!Kernel!Next
<1> QED BY <1>1, <1>2, <1>3, <1>4, <1>5 DEF Waits!Next

\* Spinning is invisible for any number of threads and calls and any bounds of the
\* budget: a signal still ends exactly one wait, no endless wait times out, and no
\* callback runs in a wait that is not alertable (adaptive_wait_patch.cpp, "preserve
\* APC delivery").
THEOREM SpinningIsInvisible == ComponentsSpec => ImplementsKernelWait
<1> DEFINE Inv == subject = "waits" => WaitsInv
           Step == subject = "waits" => Waits!Kernel!Next \/ UNCHANGED Waits!Kernel!vars
<1>1. ComponentsInit => Inv /\ (subject = "waits" => Waits!Kernel!Init)
  BY WaitsStart DEF ComponentsInit
<1>2. Inv /\ [ComponentsNext]_all => Inv' /\ Step
  BY SubjectStays, SubjectSteps, WaitsStep
<1> QED BY <1>1, <1>2, PTL DEF ComponentsSpec, ImplementsKernelWait

-----------------------------------------------------------------------------
(* CodeScan: the scanners. *)

LEMMA ScanMinIsLeast ==
    ASSUME NEW S, S \subseteq Nat, S # {}
    PROVE  Scan!Min(S) \in S /\ \A x \in S : Scan!Min(S) <= x
<1>1. PICK x \in S : \A y \in S : ~(<<y, x>> \in OpToRel(<, Nat))
  BY NatLessThanWellFounded, WFMin
<1>2. \A y \in S : x <= y
  <2> SUFFICES ASSUME NEW y \in S PROVE x <= y
    OBVIOUS
  <2>1. <<y, x>> \notin OpToRel(<, Nat)
    BY <1>1
  <2>2. x \in Nat /\ y \in Nat
    OBVIOUS
  <2>3. ~(y < x)
    BY <2>1, <2>2, Zenon DEF OpToRel
  <2> QED BY <2>2, <2>3
<1> QED BY <1>2 DEF Scan!Min

\* Inside the image a comparison says whether the pattern lies at the place.
LEMMA ComparesInside ==
    ASSUME NEW code, NEW p, IsPattern(p), NEW i \in 0..Size - Len(p)
    PROVE  /\ i \in Scan!Places(code, p) => Scan!Compare(code, 0 + i, p) = "match"
           /\ i \notin Scan!Places(code, p) => Scan!Compare(code, 0 + i, p) = "differs"
<1>1. Len(p) \in 1..Size /\ DOMAIN p = 1..Len(p) /\ Size \in Nat /\ 0 + i = i /\ i \in Nat /\ Len(p) \in Nat
  BY ScanAssumption DEF ScanAssumption, IsPattern
<1> DEFINE stop == {j \in DOMAIN p : \/ i + j - 1 >= Size
                                     \/ code[i + j - 1] \notin p[j]}
<1>2. Scan!Compare(code, i, p) = IF stop = {} THEN "match"
                                 ELSE IF i + Scan!Min(stop) - 1 >= Size THEN "outside" ELSE "differs"
  BY DEF Scan!Compare
<1>3. \A j \in DOMAIN p : i + j - 1 < Size
  BY <1>1
<1>4. i \in Scan!Places(code, p) <=> stop = {}
  BY <1>1, <1>3 DEF Scan!Places
<1>5. stop # {} => i + Scan!Min(stop) - 1 < Size
  <2>1. stop \subseteq Nat /\ stop \subseteq DOMAIN p
    BY <1>1
  <2> HIDE DEF stop
  <2> QED BY <1>3, <2>1, ScanMinIsLeast
<1>6. stop # {} => ~(i + Scan!Min(stop) - 1 >= Size)
  <2>1. stop \subseteq Nat
    BY <1>1
  <2> HIDE DEF stop
  <2>2. stop # {} => Scan!Min(stop) \in Nat
    BY <2>1, ScanMinIsLeast
  <2> QED BY <1>1, <1>5, <2>2
<1> HIDE DEF stop
<1> QED BY <1>1, <1>2, <1>4, <1>6

FirstUpTo(code, last, p) ==
    LET S == Scan!Places(code, p) \cap 0..last IN IF S = {} THEN Scan!NotFound ELSE Scan!Min(S)

\* A scan over the places from 0 to last, all of them inside the image.
LEMMA FirstOfIs ==
    ASSUME NEW code, NEW p, IsPattern(p), NEW last \in Int, last <= Size - Len(p)
    PROVE  Scan!FirstOf(code, 0, last, p) = FirstUpTo(code, last, p)
<1> DEFINE S == Scan!Places(code, p) \cap 0..last
           T == {i \in 0..last : Scan!Compare(code, 0 + i, p) # "differs"}
<1>1. Len(p) \in Nat /\ Size \in Nat
  BY ScanAssumption DEF ScanAssumption, IsPattern
<1>2. \A i \in 0..last : i \in 0..Size - Len(p)
  BY <1>1
<1>3. S = T
  <2>1. \A i \in 0..last : i \in Scan!Places(code, p) <=> Scan!Compare(code, 0 + i, p) # "differs"
    BY <1>2, ComparesInside
  <2> QED BY <2>1
<1>4. S # {} => Scan!Min(S) \in S /\ Scan!Min(S) \in Nat
  <2>1. S \subseteq Nat
    BY <1>1
  <2> HIDE DEF S
  <2> QED BY <2>1, ScanMinIsLeast
<1>5. S # {} => Scan!Compare(code, 0 + Scan!Min(S), p) = "match"
  <2> DEFINE m == Scan!Min(S)
  <2>1. S # {} => m \in Scan!Places(code, p) /\ m \in 0..Size - Len(p)
    BY <1>2, <1>4
  <2> HIDE DEF m
  <2>2. S # {} => Scan!Compare(code, 0 + m, p) = "match"
    BY <2>1, ComparesInside
  <2> QED BY <2>2 DEF m
<1>6. Scan!FirstOf(code, 0, last, p) =
        IF T = {} THEN Scan!NotFound
        ELSE IF Scan!Compare(code, 0 + Scan!Min(T), p) = "match" THEN 0 + Scan!Min(T) ELSE Scan!Outside
  BY DEF Scan!FirstOf
<1> HIDE DEF S, T
<1>7. S # {} => 0 + Scan!Min(S) = Scan!Min(S)
  BY <1>4
<1>8. Scan!FirstOf(code, 0, last, p) = IF S = {} THEN Scan!NotFound ELSE Scan!Min(S)
  BY <1>3, <1>5, <1>6, <1>7, Zenon
<1> QED BY <1>8 DEF S, FirstUpTo

LEMMA ScanPatternIsFirst ==
    ASSUME NEW code, NEW p, IsPattern(p)
    PROVE  /\ Scan!ScanPattern(code, 0, Size, p) = Scan!FirstPlace(code, p)
           /\ Scan!ScanModule(code, p) =
                IF Scan!FirstPlace(code, p) = Size - Len(p) THEN Scan!NotFound ELSE Scan!FirstPlace(code, p)
<1> DEFINE P == Scan!Places(code, p)
           room == Size - Len(p)
<1>1. Len(p) \in 1..Size /\ Size \in Nat /\ Word \in Nat /\ Size < Word /\ room \in Nat /\ room <= Size
  BY ScanAssumption DEF ScanAssumption, IsPattern
<1>2. Scan!Room(Size, p) = room
  <2>1. room \in 0..Word - 1
    BY <1>1
  <2> HIDE DEF room
  <2>2. room % Word = room
    BY <1>1, <2>1
  <2> QED BY <2>2 DEF Scan!Room, room
<1>3. P \subseteq 0..room /\ P \cap 0..room = P /\ P \subseteq Nat
  BY <1>1 DEF Scan!Places
<1>4. p # <<>>
  BY <1>1
<1>5. Scan!ScanPattern(code, 0, Size, p) = IF P = {} THEN Scan!NotFound ELSE Scan!Min(P)
  <2>1. room \in Int /\ room <= Size - Len(p)
    BY <1>1
  <2> HIDE DEF room
  <2>2. Scan!FirstOf(code, 0, room, p) = FirstUpTo(code, room, p)
    BY <2>1, FirstOfIs
  <2>3. Scan!ScanPattern(code, 0, Size, p) = Scan!FirstOf(code, 0, room, p)
    BY <1>2, <1>4 DEF Scan!ScanPattern
  <2>4. FirstUpTo(code, room, p) = IF P = {} THEN Scan!NotFound ELSE Scan!Min(P)
    BY <1>3, Zenon DEF FirstUpTo
  <2> QED BY <2>2, <2>3, <2>4
<1>6. Scan!FirstPlace(code, p) = IF P = {} THEN Scan!NotFound ELSE Scan!Min(P)
  BY DEF Scan!FirstPlace
<1> DEFINE Q == P \cap 0..room - 1
<1>7. Scan!ScanModule(code, p) = IF Q = {} THEN Scan!NotFound ELSE Scan!Min(Q)
  <2> DEFINE last == room - 1
  <2>1. last \in Int /\ last <= Size - Len(p)
    BY <1>1
  <2>3. Scan!ScanModule(code, p) = Scan!FirstOf(code, 0, last, p)
    BY <1>2 DEF Scan!ScanModule
  <2> HIDE DEF last
  <2>2. Scan!FirstOf(code, 0, last, p) = FirstUpTo(code, last, p)
    BY <2>1, FirstOfIs
  <2>4. FirstUpTo(code, last, p) = IF Q = {} THEN Scan!NotFound ELSE Scan!Min(Q)
    BY DEF FirstUpTo, last
  <2> QED BY <2>2, <2>3, <2>4
<1>8. P # {} => Scan!Min(P) \in P /\ \A x \in P : Scan!Min(P) <= x
  <2> HIDE DEF P
  <2> QED BY <1>3, ScanMinIsLeast
<1>9. Q # {} => Scan!Min(Q) \in Q /\ \A x \in Q : Scan!Min(Q) <= x
  <2>1. Q \subseteq Nat
    BY <1>3
  <2> HIDE DEF Q
  <2> QED BY <2>1, ScanMinIsLeast
<1>10. Scan!NotFound # room
  BY <1>1 DEF Scan!NotFound
<1> HIDE DEF P
<1>11. CASE P = {}
  BY <1>5, <1>6, <1>7, <1>10, <1>11
<1>12. CASE P # {} /\ Scan!Min(P) = room
  <2>1. Q = {}
    BY <1>1, <1>3, <1>8, <1>12
  <2> QED BY <1>5, <1>6, <1>7, <1>12, <2>1
<1>13. CASE P # {} /\ Scan!Min(P) # room
  <2>1. Scan!Min(P) \in Q
    BY <1>1, <1>3, <1>8, <1>13
  <2>2. Scan!Min(Q) \in P /\ Scan!Min(Q) \in Nat /\ Scan!Min(P) \in Nat
    BY <1>3, <1>8, <1>9, <1>13, <2>1
  <2>3. Scan!Min(Q) <= Scan!Min(P) /\ Scan!Min(P) <= Scan!Min(Q)
    BY <1>8, <1>9, <1>13, <2>1, <2>2
  <2>4. Scan!Min(Q) = Scan!Min(P)
    BY <2>2, <2>3
  <2> QED BY <1>5, <1>6, <1>7, <1>13, <2>1, <2>4
<1> QED BY <1>11, <1>12, <1>13

\* An address is resolved to a place whose bytes are the expected ones: the known one,
\* or the first place of the pattern.
LEMMA ResolveIsRight ==
    ASSUME NEW code, Scan!Resolve(code) # Scan!NotFound
    PROVE  /\ Scan!Holds(code, Scan!Resolve(code), Site.expect)
           /\ \/ version \in DOMAIN Site.addresses /\ Scan!Resolve(code) = Site.addresses[version]
              \/ Scan!Resolve(code) = Scan!FirstPlace(code, Site.pattern) + Site.offset
<1> DEFINE found == Scan!ScanPattern(code, 0, Size, Site.pattern)
<1>1. found = Scan!FirstPlace(code, Site.pattern)
  BY ScanAssumption, ScanPatternIsFirst DEF ScanAssumption
<1>2. CASE version # Unknown /\ version \in DOMAIN Site.addresses
  <2>1. Scan!Resolve(code) = IF Scan!Holds(code, Site.addresses[version], Site.expect)
                             THEN Site.addresses[version] ELSE Scan!NotFound
    BY <1>2 DEF Scan!Resolve
  <2> QED BY <1>2, <2>1
<1>3. CASE ~(version # Unknown /\ version \in DOMAIN Site.addresses)
  <2>1. Scan!Resolve(code) = IF found >= 0 /\ Scan!Holds(code, found + Site.offset, Site.expect)
                             THEN found + Site.offset ELSE Scan!NotFound
    BY <1>3, Zenon DEF Scan!Resolve
  <2> HIDE DEF found
  <2> QED BY <1>1, <2>1, Zenon
<1> QED BY <1>2, <1>3

\* Whatever the patches have left of the code, and for patterns and images of any
\* length, both scanners answer with the first place of a pattern, but for the last
\* place, which the one in Pattern leaves out (patch_helpers.h, ScanPattern;
\* pattern_scan.cpp, ScanModule), and an address resolved holds the expected bytes.
THEOREM ScansAreRight == ComponentsSpec => []ScansFindTheFirst
<1>1. Scan!ScansFindTheFirst
  <2> SUFFICES ASSUME NEW p \in {Sleep, Site.pattern} \cup {Fixes[k].pattern : k \in DOMAIN Fixes}
               PROVE  /\ Scan!ScanPattern(image, 0, Size, p) = Scan!FirstPlace(image, p)
                      /\ Scan!ScanModule(image, p) =
                            IF Scan!FirstPlace(image, p) = Size - Len(p) THEN Scan!NotFound
                            ELSE Scan!FirstPlace(image, p)
    BY ResolveIsRight, Zenon DEF Scan!ScansFindTheFirst
  <2>1. IsPattern(p)
    BY ScanAssumption DEF ScanAssumption
  <2> QED BY <2>1, ScanPatternIsFirst
<1>2. ScansFindTheFirst
  BY <1>1 DEF ScansFindTheFirst
<1> QED BY <1>2, PTL

-----------------------------------------------------------------------------
(* LegacyIni: least and greatest elements. *)

LEMMA IniMinIs ==
    ASSUME NEW S, S \subseteq Nat, NEW m \in S, \A x \in S : m <= x
    PROVE  Ini!Min(S) = m
<1>1. \A y \in S : (\A x \in S : y <= x) => y = m
  OBVIOUS
<1> QED BY <1>1 DEF Ini!Min

LEMMA IniMaxIs ==
    ASSUME NEW S, S \subseteq Nat, NEW m \in S, \A x \in S : x <= m
    PROVE  Ini!Max(S) = m
<1>1. \A y \in S : (\A x \in S : y >= x) => y = m
  OBVIOUS
<1> QED BY <1>1 DEF Ini!Max

LEMMA IniMin ==
    ASSUME NEW S, S \subseteq Nat, S # {}
    PROVE  Ini!Min(S) \in S /\ \A x \in S : Ini!Min(S) <= x
<1>1. Ini!Min(S) = Scan!Min(S)
  BY DEF Ini!Min, Scan!Min
<1> QED BY <1>1, ScanMinIsLeast

LEMMA IniMax ==
    ASSUME NEW n \in Nat, NEW S, S \subseteq 1..n, S # {}
    PROVE  Ini!Max(S) \in S /\ \A x \in S : x <= Ini!Max(S)
<1> DEFINE T == {n - x : x \in S}
           m == n - Scan!Min(T)
<1>1. T \subseteq Nat /\ T # {}
  <2>1. \A x \in S : n - x \in Nat
    OBVIOUS
  <2>2. PICK x \in S : TRUE
    OBVIOUS
  <2>3. n - x \in T
    BY <2>2
  <2> QED BY <2>1, <2>3
<1>2. Scan!Min(T) \in T /\ \A y \in T : Scan!Min(T) <= y
  <2> HIDE DEF T
  <2> QED BY <1>1, ScanMinIsLeast
<1>3. m \in S /\ \A x \in S : x <= m
  <2>1. PICK x0 \in S : Scan!Min(T) = n - x0
    BY <1>2
  <2>2. x0 \in Nat /\ m = x0
    BY <2>1
  <2>3. \A x \in S : n - x0 <= n - x
    BY <1>2, <2>1
  <2>4. \A x \in S : x <= x0
    BY <2>2, <2>3
  <2> QED BY <2>2, <2>4
<1>4. S \subseteq Nat
  OBVIOUS
<1> HIDE DEF m
<1>5. Ini!Max(S) = m
  BY <1>3, <1>4, IniMaxIs
<1> QED BY <1>3, <1>5

\* One more element, behind all the others.
LEMMA OneMoreElement ==
    ASSUME NEW n \in Nat, NEW S, S \subseteq 1..n
    PROVE  /\ Ini!Max(S \cup {n + 1}) = n + 1
           /\ S # {} => Ini!Min(S \cup {n + 1}) = Ini!Min(S)
           /\ S = {} => Ini!Min(S \cup {n + 1}) = n + 1
<1> DEFINE T == S \cup {n + 1}
<1>1. T \subseteq Nat /\ n + 1 \in T /\ \A x \in T : x <= n + 1
  OBVIOUS
<1>2. Ini!Max(T) = n + 1
  <2> DEFINE m == n + 1
  <2>1. m \in T /\ \A x \in T : x <= m
    BY <1>1
  <2> HIDE DEF m, T
  <2>2. Ini!Max(T) = m
    BY <1>1, <2>1, IniMaxIs
  <2> QED BY <2>2 DEF m
<1>3. ASSUME S # {} PROVE Ini!Min(T) = Ini!Min(S)
  <2> DEFINE m == Ini!Min(S)
  <2>4. S \subseteq Nat
    OBVIOUS
  <2>1. m \in S /\ \A x \in S : m <= x
    BY <1>3, <2>4, IniMin
  <2> HIDE DEF m
  <2>2. m \in T /\ \A x \in T : m <= x
    BY <2>1
  <2> HIDE DEF T
  <2>3. Ini!Min(T) = m
    BY <1>1, <2>2, IniMinIs
  <2> QED BY <2>3 DEF m
<1>4. ASSUME S = {} PROVE Ini!Min(T) = n + 1
  <2> DEFINE m == n + 1
  <2>1. m \in T /\ \A x \in T : m <= x
    BY <1>4
  <2> HIDE DEF m, T
  <2>2. Ini!Min(T) = m
    BY <1>1, <2>1, IniMinIs
  <2> QED BY <2>2 DEF m
<1> QED BY <1>2, <1>3, <1>4

-----------------------------------------------------------------------------
(* LegacyIni: what one more line does to the meaning of the file. *)

IniBreaks == {"header", "marker"}
IniKeys == {l.key : l \in {m \in Lines : m.kind = "pair"}} \cup {"Value", "Category", "Enabled"} \cup Ini!Bounds
IniNames == {l.name : l \in {m \in Lines : m.kind = "header"}}
IniValues == {l.value : l \in {m \in Lines : m.kind = "pair"}}

\* Nothing has ended the section of the header at i.
Unbroken(i) == \A k \in i + 1..Len(iniFile) : iniFile[k].kind \notin IniBreaks
OpenAt(i) == i \in 1..Len(iniFile) /\ iniFile[i].kind = "header" /\ Unbroken(i)

\* What the header at i opens, by the lines before it.
KindOf(i) ==
    IF iniFile[i].prefix \in {"qol", "config"} THEN iniFile[i].prefix
    ELSE IF ~Ini!BehindMarker(i) THEN "setting"
    ELSE IF iniFile[i].prefix = "optimization" THEN "patch" ELSE "none"

LEMMA FileGrows ==
    ASSUME iniFile \in Seq(Lines), NEW line \in Lines, iniFile' = Append(iniFile, line)
    PROVE  /\ iniFile' \in Seq(Lines) /\ Len(iniFile') = Len(iniFile) + 1 /\ Len(iniFile) \in Nat
           /\ \A i \in 1..Len(iniFile) : iniFile'[i] = iniFile[i]
           /\ iniFile'[Len(iniFile) + 1] = line
OBVIOUS

LEMMA PairsAreInFile ==
    ASSUME iniFile \in Seq(Lines), NEW i \in Nat, NEW keyword
    PROVE  Ini!PairsOf(i, keyword) \subseteq 1..Len(iniFile) /\ Ini!PairsOf(i, keyword) \subseteq Nat
           /\ \A j \in Ini!PairsOf(i, keyword) : iniFile[j] \in Lines
BY DEF Ini!PairsOf

LEMMA PairsGrow ==
    ASSUME iniFile \in Seq(Lines), NEW line \in Lines, iniFile' = Append(iniFile, line),
           NEW i \in 1..Len(iniFile), NEW keyword
    PROVE  /\ Unbroken(i) /\ line.kind = "pair" /\ line.key = keyword =>
                Ini!PairsOf(i, keyword)' = Ini!PairsOf(i, keyword) \cup {Len(iniFile) + 1}
           /\ ~(Unbroken(i) /\ line.kind = "pair" /\ line.key = keyword) =>
                Ini!PairsOf(i, keyword)' = Ini!PairsOf(i, keyword)
<1> DEFINE n == Len(iniFile)
           P == Ini!PairsOf(i, keyword)
           Q == Ini!PairsOf(i, keyword)'
<1>1. /\ Len(iniFile') = n + 1 /\ n \in Nat /\ i \in Nat /\ i <= n
      /\ \A j \in 1..n : iniFile'[j] = iniFile[j]
      /\ iniFile'[n + 1] = line
  BY FileGrows
<1>2. ASSUME NEW j \in i + 1..n PROVE j \in Q <=> j \in P
  <2>1. j \in Nat /\ j \in 1..n /\ j \in i + 1..n + 1 /\ \A k \in i + 1..j : k \in 1..n
    BY <1>1
  <2>2. iniFile'[j] = iniFile[j] /\ \A k \in i + 1..j : iniFile'[k] = iniFile[k]
    BY <1>1, <2>1
  <2> QED BY <1>1, <2>1, <2>2 DEF Ini!PairsOf
<1>3. n + 1 \in Q <=> Unbroken(i) /\ line.kind = "pair" /\ line.key = keyword
  <2>1. n + 1 \in i + 1..n + 1
    BY <1>1
  <2>2. (\A k \in i + 1..n + 1 : iniFile'[k].kind \notin {"header", "marker"})
        <=> Unbroken(i) /\ line.kind \notin {"header", "marker"}
    <3>1. \A k \in i + 1..n : iniFile'[k] = iniFile[k]
      BY <1>1
    <3>2. \A k : k \in i + 1..n + 1 <=> k \in i + 1..n \/ k = n + 1
      BY <1>1
    <3> QED BY <1>1, <3>1, <3>2 DEF Unbroken, IniBreaks
  <2>3. n + 1 \in Q <=> /\ iniFile'[n + 1].kind = "pair" /\ iniFile'[n + 1].key = keyword
                        /\ \A k \in i + 1..n + 1 : iniFile'[k].kind \notin {"header", "marker"}
    BY <1>1, <2>1 DEF Ini!PairsOf
  <2> QED BY <1>1, <2>2, <2>3
<1>4. P \subseteq i + 1..n /\ Q \subseteq (i + 1..n) \cup {n + 1} /\ n + 1 \notin P
  BY <1>1 DEF Ini!PairsOf
<1> HIDE DEF P, Q
<1>5. CASE Unbroken(i) /\ line.kind = "pair" /\ line.key = keyword
  <2>1. Q = P \cup {n + 1}
    BY <1>2, <1>3, <1>4, <1>5
  <2> QED BY <1>5, <2>1 DEF P, Q
<1>6. CASE ~(Unbroken(i) /\ line.kind = "pair" /\ line.key = keyword)
  <2>1. Q = P
    BY <1>2, <1>3, <1>4, <1>6
  <2> QED BY <1>6, <2>1 DEF P, Q
<1> QED BY <1>5, <1>6

LEMMA HeadersStay ==
    ASSUME iniFile \in Seq(Lines), NEW line \in Lines, iniFile' = Append(iniFile, line),
           NEW i \in 1..Len(iniFile)
    PROVE  /\ iniFile'[i] = iniFile[i]
           /\ KindOf(i)' = KindOf(i)
           /\ OpenAt(i)' <=> OpenAt(i) /\ line.kind \notin IniBreaks
<1> DEFINE n == Len(iniFile)
<1>1. /\ Len(iniFile') = n + 1 /\ n \in Nat /\ i \in Nat /\ i <= n
      /\ \A j \in 1..n : iniFile'[j] = iniFile[j]
      /\ iniFile'[n + 1] = line
  BY FileGrows
<1>2. Ini!BehindMarker(i)' <=> Ini!BehindMarker(i)
  <2>1. \A j \in 1..i - 1 : iniFile'[j] = iniFile[j]
    BY <1>1
  <2> QED BY <2>1 DEF Ini!BehindMarker
<1>3. KindOf(i)' = KindOf(i)
  BY <1>1, <1>2 DEF KindOf
<1>4. Unbroken(i)' <=> Unbroken(i) /\ line.kind \notin IniBreaks
  <2>1. \A k \in i + 1..n : iniFile'[k] = iniFile[k]
    BY <1>1
  <2>2. \A k : k \in i + 1..n + 1 <=> k \in i + 1..n \/ k = n + 1
    BY <1>1
  <2> QED BY <1>1, <2>1, <2>2 DEF Unbroken
<1> QED BY <1>1, <1>3, <1>4 DEF OpenAt

LEMMA LastLine ==
    ASSUME iniFile \in Seq(Lines), NEW line \in Lines, iniFile' = Append(iniFile, line), NEW i,
           i = Len(iniFile) + 1
    PROVE  /\ OpenAt(i)' <=> line.kind = "header"
           /\ \A keyword : Ini!PairsOf(i, keyword)' = {}
           /\ inPatchArea = (\E j \in 1..Len(iniFile) : iniFile[j].kind = "marker") =>
                  KindOf(i)' = Ini!HeaderKind(line.prefix)
<1> DEFINE n == Len(iniFile)
<1>1. /\ Len(iniFile') = n + 1 /\ n \in Nat /\ i = n + 1
      /\ \A j \in 1..n : iniFile'[j] = iniFile[j]
      /\ iniFile'[i] = line
  BY FileGrows
<1>2. \A k : k \notin i + 1..n + 1
  BY <1>1
<1>3. Ini!BehindMarker(i)' <=> \E j \in 1..n : iniFile[j].kind = "marker"
  BY <1>1 DEF Ini!BehindMarker
<1> HIDE DEF n
<1>4. OpenAt(i)' <=> line.kind = "header"
  BY <1>1, <1>2 DEF OpenAt, Unbroken
<1>5. \A keyword : Ini!PairsOf(i, keyword)' = {}
  BY <1>1, <1>2 DEF Ini!PairsOf
<1>6. inPatchArea = (\E j \in 1..n : iniFile[j].kind = "marker") => KindOf(i)' = Ini!HeaderKind(line.prefix)
  BY <1>1, <1>3 DEF KindOf, Ini!HeaderKind
<1> QED BY <1>4, <1>5, <1>6 DEF n

-----------------------------------------------------------------------------
(* LegacyIni: the fields of a section are the pairs behind its header. *)

FieldsOf(fields, keyword) == {k \in DOMAIN fields : fields[k][1] = keyword}

\* The first and the last field of a key are the first and the last pair of it.
SamePairs(fields, P, keyword) ==
    LET F == FieldsOf(fields, keyword)
    IN /\ P = {} <=> F = {}
       /\ P # {} => /\ fields[Ini!Max(F)][2] = iniFile[Ini!Max(P)].value
                    /\ fields[Ini!Min(F)][2] = iniFile[Ini!Min(P)].value

Matches(fields, i) == \A keyword \in IniKeys : SamePairs(fields, Ini!PairsOf(i, keyword), keyword)

\* more is fields with one more pair behind them.
OneMoreField(fields, more, k0, v0, keyword) ==
    /\ more \in Seq(IniKeys \X IniValues)
    /\ FieldsOf(fields, keyword) \subseteq 1..Len(fields)
    /\ \A k \in 1..Len(fields) : more[k] = fields[k]
    /\ more[Len(fields) + 1] = <<k0, v0>>
    /\ k0 = keyword => FieldsOf(more, keyword) = FieldsOf(fields, keyword) \cup {Len(fields) + 1}
    /\ k0 # keyword => FieldsOf(more, keyword) = FieldsOf(fields, keyword)

LEMMA FieldsGrow ==
    ASSUME NEW fields \in Seq(IniKeys \X IniValues), NEW k0 \in IniKeys, NEW v0 \in IniValues, NEW keyword,
           NEW more, more = Append(fields, <<k0, v0>>)
    PROVE  OneMoreField(fields, more, k0, v0, keyword)
<1> DEFINE n == Len(fields)
<1>1. /\ more \in Seq(IniKeys \X IniValues) /\ n \in Nat /\ DOMAIN fields = 1..n /\ DOMAIN more = 1..n + 1
      /\ \A k \in 1..n : more[k] = fields[k]
      /\ more[n + 1] = <<k0, v0>>
  OBVIOUS
<1>2. FieldsOf(fields, keyword) \subseteq 1..n
  BY <1>1 DEF FieldsOf
<1> HIDE DEF n
<1>3. \A k : k \in 1..n + 1 <=> k \in 1..n \/ k = n + 1
  BY <1>1
<1>4. n + 1 \notin 1..n
  BY <1>1
<1>5. (more[n + 1])[1] = k0
  BY <1>1
<1>6. \A k : k \in FieldsOf(more, keyword) <=> k \in FieldsOf(fields, keyword) \/ (k = n + 1 /\ k0 = keyword)
  BY <1>1, <1>3, <1>4, <1>5 DEF FieldsOf
<1>7. k0 = keyword => FieldsOf(more, keyword) = FieldsOf(fields, keyword) \cup {n + 1}
  BY <1>6
<1>8. k0 # keyword => FieldsOf(more, keyword) = FieldsOf(fields, keyword)
  BY <1>6
<1> QED BY <1>1, <1>2, <1>7, <1>8 DEF n, OneMoreField

\* The same places of the file hold the same lines after one more.
LEMMA SamePairsStay ==
    ASSUME iniFile \in Seq(Lines), NEW line \in Lines, iniFile' = Append(iniFile, line),
           NEW fields, NEW keyword, NEW P, P \subseteq 1..Len(iniFile), SamePairs(fields, P, keyword)
    PROVE  /\ P = {} <=> FieldsOf(fields, keyword) = {}
           /\ P # {} => /\ fields[Ini!Max(FieldsOf(fields, keyword))][2] = iniFile'[Ini!Max(P)].value
                        /\ fields[Ini!Min(FieldsOf(fields, keyword))][2] = iniFile'[Ini!Min(P)].value
<1>1. \A i \in 1..Len(iniFile) : iniFile'[i] = iniFile[i]
  BY FileGrows
<1>2. Len(iniFile) \in Nat /\ P \subseteq Nat
  OBVIOUS
<1>3. P # {} => Ini!Max(P) \in 1..Len(iniFile) /\ Ini!Min(P) \in 1..Len(iniFile)
  BY <1>2, IniMin, IniMax
<1> QED BY <1>1, <1>3 DEF SamePairs

LEMMA MatchesStays ==
    ASSUME iniFile \in Seq(Lines), NEW line \in Lines, iniFile' = Append(iniFile, line),
           NEW fields, NEW i \in 1..Len(iniFile), ~(Unbroken(i) /\ line.kind = "pair"), Matches(fields, i)
    PROVE  Matches(fields, i)'
<1> SUFFICES ASSUME NEW keyword \in IniKeys
             PROVE  SamePairs(fields, Ini!PairsOf(i, keyword), keyword)'
  BY DEF Matches
<1> DEFINE P == Ini!PairsOf(i, keyword)
           Q == Ini!PairsOf(i, keyword)'
<1>1. Q = P
  BY PairsGrow
<1>2. P \subseteq 1..Len(iniFile) /\ SamePairs(fields, P, keyword)
  BY PairsAreInFile DEF Matches
<1> HIDE DEF P, Q
<1>3. /\ P = {} <=> FieldsOf(fields, keyword) = {}
      /\ P # {} => /\ fields[Ini!Max(FieldsOf(fields, keyword))][2] = iniFile'[Ini!Max(P)].value
                   /\ fields[Ini!Min(FieldsOf(fields, keyword))][2] = iniFile'[Ini!Min(P)].value
  BY <1>2, SamePairsStay
<1> QED BY <1>1, <1>3 DEF SamePairs, Q

LEMMA MatchesGrows ==
    ASSUME iniFile \in Seq(Lines), NEW line \in Lines, iniFile' = Append(iniFile, line),
           NEW fields \in Seq(IniKeys \X IniValues), NEW i \in 1..Len(iniFile), Unbroken(i),
           line.kind = "pair", Matches(fields, i)
    PROVE  Matches(Append(fields, <<line.key, line.value>>), i)'
<1> DEFINE n == Len(iniFile)
           m == Len(fields)
           k0 == line.key
           v0 == line.value
           more == Append(fields, <<k0, v0>>)
<1>1. k0 \in IniKeys /\ v0 \in IniValues
  BY DEF IniKeys, IniValues
<1>0. n \in Nat /\ m \in Nat /\ iniFile'[n + 1] = line
  BY FileGrows
<1> SUFFICES ASSUME NEW keyword \in IniKeys
             PROVE  SamePairs(more, Ini!PairsOf(i, keyword), keyword)'
  BY DEF Matches
<1> DEFINE P == Ini!PairsOf(i, keyword)
           Q == Ini!PairsOf(i, keyword)'
           F == FieldsOf(fields, keyword)
           G == FieldsOf(more, keyword)
<1>2. P \subseteq 1..n /\ SamePairs(fields, P, keyword)
  BY PairsAreInFile DEF Matches
<1>3. /\ k0 = keyword => Q = P \cup {n + 1}
      /\ k0 # keyword => Q = P
  BY PairsGrow
<1>8. more = Append(fields, <<k0, v0>>)
  OBVIOUS
<1> HIDE DEF k0, v0, more
<1>4. /\ more \in Seq(IniKeys \X IniValues) /\ F \subseteq 1..m
      /\ \A k \in 1..m : more[k] = fields[k]
      /\ more[m + 1] = <<k0, v0>>
      /\ k0 = keyword => G = F \cup {m + 1}
      /\ k0 # keyword => G = F
  <2>1. OneMoreField(fields, more, k0, v0, keyword)
    BY <1>1, <1>8, FieldsGrow
  <2> QED BY <2>1 DEF OneMoreField
<1> HIDE DEF P, Q, more, m, n
<1>5. /\ P = {} <=> F = {}
      /\ P # {} => /\ fields[Ini!Max(F)][2] = iniFile'[Ini!Max(P)].value
                   /\ fields[Ini!Min(F)][2] = iniFile'[Ini!Min(P)].value
  BY <1>2, SamePairsStay DEF n
<1> HIDE DEF F, G
<1>6. F # {} => Ini!Max(F) \in 1..m /\ Ini!Min(F) \in 1..m
  <2>1. F \subseteq Nat
    BY <1>4
  <2> QED BY <1>0, <1>4, <2>1, IniMin, IniMax
<1>7. /\ Q = {} <=> G = {}
      /\ Q # {} => /\ more[Ini!Max(G)][2] = iniFile'[Ini!Max(Q)].value
                   /\ more[Ini!Min(G)][2] = iniFile'[Ini!Min(Q)].value
  <2>1. CASE k0 # keyword
    BY <1>3, <1>4, <1>5, <1>6, <2>1
  <2>2. CASE k0 = keyword
    <3>1. Q = P \cup {n + 1} /\ G = F \cup {m + 1}
      BY <1>3, <1>4, <2>2
    <3>2. more[m + 1][2] = v0 /\ iniFile'[n + 1].value = v0
      BY <1>0, <1>4 DEF v0
    <3>3. Ini!Max(Q) = n + 1 /\ Ini!Max(G) = m + 1
      BY <1>0, <1>2, <1>4, <3>1, OneMoreElement
    <3>4. CASE P = {}
      <4>1. Ini!Min(Q) = n + 1 /\ Ini!Min(G) = m + 1
        BY <1>0, <1>2, <1>4, <1>5, <3>1, <3>4, OneMoreElement
      <4> QED BY <3>1, <3>2, <3>3, <4>1
    <3>5. CASE P # {}
      <4>1. Ini!Min(Q) = Ini!Min(P) /\ Ini!Min(G) = Ini!Min(F)
        BY <1>0, <1>2, <1>4, <1>5, <3>1, <3>5, OneMoreElement
      <4> QED BY <1>4, <1>5, <1>6, <3>1, <3>2, <3>3, <3>5, <4>1
    <3> QED BY <3>4, <3>5
  <2> QED BY <2>1, <2>2
<1> QED BY <1>7 DEF SamePairs, Q, G

LEMMA MatchesNothing ==
    ASSUME iniFile \in Seq(Lines), NEW line \in Lines, iniFile' = Append(iniFile, line), NEW i,
           i = Len(iniFile) + 1
    PROVE  Matches(<<>>, i)'
<1>1. \A keyword : Ini!PairsOf(i, keyword)' = {}
  BY LastLine
<1>2. \A keyword : FieldsOf(<<>>, keyword) = {}
  BY DEF FieldsOf
<1> QED BY <1>1, <1>2 DEF Matches, SamePairs

LEMMA FieldIsLast ==
    ASSUME iniFile \in Seq(Lines), NEW fields \in Seq(IniKeys \X IniValues), NEW i \in 1..Len(iniFile),
           Matches(fields, i), NEW keyword \in IniKeys
    PROVE  Ini!Field(fields, keyword) = Ini!LastOf(i, keyword)
<1>1. SamePairs(fields, Ini!PairsOf(i, keyword), keyword)
  BY DEF Matches
<1> QED BY <1>1 DEF Ini!Field, Ini!LastOf, SamePairs, FieldsOf

-----------------------------------------------------------------------------
(* LegacyIni: the sections written out so far. *)

IniKinds == {"none", "setting", "config", "patch", "qol"}
IniTitles == IniNames \cup {""}
IniSections == [kind : IniKinds, name : IniTitles, fields : Seq(IniKeys \X IniValues)]

\* The headers of a kind that are written out, and those whose section has ended.
Wanted(kind) ==
    {i \in 1..Len(iniFile) : /\ iniFile[i].kind = "header" /\ KindOf(i) = kind
                             /\ kind = "patch" \/ Ini!LastOf(i, "Value") # Ini!Empty}
Ended(kind) == {i \in Wanted(kind) : ~Unbroken(i)}

Named(S, x) == {i \in S : iniFile[i].name = x}
EntriesOf(out, x) == {k \in DOMAIN out : out[k].name = x}

FirstMatches(out, S, x) ==
    /\ EntriesOf(out, x) = {} <=> Named(S, x) = {}
    /\ Named(S, x) # {} => Matches(out[Ini!Min(EntriesOf(out, x))].fields, Ini!Min(Named(S, x)))

\* out has an entry for every name of the headers in S, the first one of the first header.
Lists(out, S) ==
    /\ out \in Seq(IniSections) /\ S \subseteq 1..Len(iniFile)
    /\ \A x \in IniTitles : FirstMatches(out, S, x)

LEMMA NamedInFile ==
    ASSUME iniFile \in Seq(Lines), NEW S, S \subseteq 1..Len(iniFile), NEW x
    PROVE  /\ Named(S, x) \subseteq S /\ Named(S, x) \subseteq Nat
           /\ Named(S, x) # {} => Ini!Min(Named(S, x)) \in Named(S, x) /\ Ini!Min(Named(S, x)) \in 1..Len(iniFile)
<1>1. S \subseteq Nat
  OBVIOUS
<1>2. Named(S, x) \subseteq S
  BY DEF Named
<1>3. Named(S, x) \subseteq Nat
  BY <1>1, <1>2
<1> QED BY <1>2, <1>3, IniMin

LEMMA EntriesInOut ==
    ASSUME NEW out \in Seq(IniSections), NEW x
    PROVE  /\ EntriesOf(out, x) \subseteq 1..Len(out) /\ EntriesOf(out, x) \subseteq Nat
           /\ EntriesOf(out, x) # {} => Ini!Min(EntriesOf(out, x)) \in EntriesOf(out, x)
                                      /\ Ini!Min(EntriesOf(out, x)) \in 1..Len(out)
<1>1. EntriesOf(out, x) \subseteq 1..Len(out) /\ EntriesOf(out, x) \subseteq Nat
  BY DEF EntriesOf
<1> QED BY <1>1, IniMin

\* more is out with e behind it.
OneMoreEntry(out, more, e, x) ==
    /\ e.name = x => EntriesOf(more, x) = EntriesOf(out, x) \cup {Len(out) + 1}
    /\ e.name # x => EntriesOf(more, x) = EntriesOf(out, x)

LEMMA EntriesGrow ==
    ASSUME NEW out \in Seq(IniSections), NEW e \in IniSections, NEW more, more = Append(out, e), NEW x
    PROVE  OneMoreEntry(out, more, e, x)
<1> DEFINE n == Len(out)
<1>1. /\ n \in Nat /\ DOMAIN out = 1..n /\ DOMAIN more = 1..n + 1
      /\ \A k \in 1..n : more[k] = out[k]
      /\ more[n + 1] = e
  OBVIOUS
<1> HIDE DEF n
<1>2. \A k : k \in 1..n + 1 <=> k \in 1..n \/ k = n + 1
  BY <1>1
<1>3. n + 1 \notin 1..n
  BY <1>1
<1>4. \A k : k \in EntriesOf(more, x) <=> k \in EntriesOf(out, x) \/ (k = n + 1 /\ e.name = x)
  BY <1>1, <1>2, <1>3 DEF EntriesOf
<1>5. e.name = x => EntriesOf(more, x) = EntriesOf(out, x) \cup {n + 1}
  BY <1>4
<1>6. e.name # x => EntriesOf(more, x) = EntriesOf(out, x)
  BY <1>4
<1> QED BY <1>5, <1>6 DEF n, OneMoreEntry

\* One more entry, for a header behind all the others.
LEMMA ListsGrow ==
    ASSUME iniFile \in Seq(Lines), NEW out, NEW S, Lists(out, S), NEW e \in IniSections,
           NEW i \in 1..Len(iniFile), \A j \in S : j < i, iniFile[i].name = e.name, Matches(e.fields, i),
           NEW more, more = Append(out, e)
    PROVE  Lists(more, S \cup {i})
<1> DEFINE T == S \cup {i}
           m == Len(out)
<1>1. /\ more \in Seq(IniSections) /\ T \subseteq 1..Len(iniFile) /\ m \in Nat
      /\ \A k \in 1..m : more[k] = out[k]
      /\ more[m + 1] = e
      /\ out \in Seq(IniSections) /\ S \subseteq 1..Len(iniFile)
  BY DEF Lists
<1>2. ASSUME NEW x \in IniTitles PROVE FirstMatches(more, T, x)
  <2> DEFINE E == EntriesOf(out, x)
             F == EntriesOf(more, x)
             A == Named(S, x)
             B == Named(T, x)
  <2>1. FirstMatches(out, S, x)
    BY DEF Lists
  <2>2. /\ E \subseteq 1..m
        /\ E # {} => Ini!Min(E) \in 1..m
    BY <1>1, EntriesInOut
  <2>3. /\ e.name = x => F = E \cup {m + 1}
        /\ e.name # x => F = E
    <3>1. OneMoreEntry(out, more, e, x)
      BY <1>1, EntriesGrow
    <3> QED BY <3>1 DEF OneMoreEntry
  <2>4. /\ e.name = x => B = A \cup {i}
        /\ e.name # x => B = A
    BY DEF Named
  <2>5. A \subseteq 1..i - 1 /\ i - 1 \in Nat /\ (i - 1) + 1 = i
    <3>1. i \in Nat /\ 1 <= i /\ S \subseteq Nat /\ \A j \in S : 1 <= j
      BY <1>1
    <3>2. \A j \in S : j \in 1..i - 1
      BY <3>1
    <3>3. A \subseteq S
      BY DEF Named
    <3> HIDE DEF A
    <3>4. A \subseteq 1..i - 1
      BY <3>2, <3>3
    <3> QED BY <3>1, <3>4
  <2> HIDE DEF E, F, A, B, T, m
  <2>6. /\ E = {} <=> A = {}
        /\ A # {} => Matches(out[Ini!Min(E)].fields, Ini!Min(A))
    BY <2>1 DEF FirstMatches, E, A
  <2>7. CASE e.name # x
    <3>1. F = {} <=> B = {}
      BY <2>3, <2>4, <2>6, <2>7
    <3>2. B # {} => Matches(more[Ini!Min(F)].fields, Ini!Min(B))
      BY <1>1, <2>2, <2>3, <2>4, <2>6, <2>7
    <3> QED BY <3>1, <3>2 DEF FirstMatches, F, B
  <2>8. CASE e.name = x
    <3>1. F = E \cup {m + 1} /\ B = A \cup {i}
      BY <2>3, <2>4, <2>8
    <3>2. CASE A = {}
      <4>1. Ini!Min(F) = m + 1 /\ Ini!Min(B) = (i - 1) + 1
        BY <1>1, <2>2, <2>5, <2>6, <3>1, <3>2, OneMoreElement
      <4>2. Matches(more[Ini!Min(F)].fields, Ini!Min(B))
        BY <1>1, <2>5, <4>1
      <4> QED BY <3>1, <4>2 DEF FirstMatches, F, B
    <3>3. CASE A # {}
      <4>1. Ini!Min(F) = Ini!Min(E) /\ Ini!Min(B) = Ini!Min(A)
        <5>1. E # {}
          BY <2>6, <3>3
        <5>2. Ini!Min(F) = Ini!Min(E)
          BY <1>1, <2>2, <3>1, <5>1, OneMoreElement
        <5>3. Ini!Min(A \cup {(i - 1) + 1}) = Ini!Min(A)
          BY <2>5, <3>3, OneMoreElement
        <5> QED BY <2>5, <3>1, <5>2, <5>3
      <4>2. Matches(more[Ini!Min(F)].fields, Ini!Min(B))
        BY <1>1, <2>2, <2>6, <3>3, <4>1
      <4> QED BY <3>1, <4>2 DEF FirstMatches, F, B
    <3> QED BY <3>2, <3>3
  <2> QED BY <2>7, <2>8
<1> QED BY <1>1, <1>2 DEF Lists

LEMMA ListsStay ==
    ASSUME iniFile \in Seq(Lines), NEW line \in Lines, iniFile' = Append(iniFile, line),
           NEW out, NEW S, Lists(out, S), \A i \in S : ~(Unbroken(i) /\ line.kind = "pair")
    PROVE  Lists(out, S)'
<1>1. /\ out \in Seq(IniSections) /\ S \subseteq 1..Len(iniFile)
      /\ Len(iniFile') = Len(iniFile) + 1 /\ Len(iniFile) \in Nat
      /\ \A i \in S : iniFile'[i] = iniFile[i]
  BY FileGrows DEF Lists
<1>2. S \subseteq 1..Len(iniFile')
  BY <1>1
<1>3. ASSUME NEW x \in IniTitles PROVE FirstMatches(out, S, x)'
  <2>1. Named(S, x)' = Named(S, x)
    BY <1>1 DEF Named
  <2>2. FirstMatches(out, S, x)
    BY DEF Lists
  <2>3. EntriesOf(out, x)' = EntriesOf(out, x)
    BY DEF EntriesOf
  <2> DEFINE B == Named(S, x)
  <2>4. CASE B # {}
    <3>1. PICK i \in S : i = Ini!Min(Named(S, x)) /\ i \in 1..Len(iniFile)
      BY <1>1, <2>4, NamedInFile
    <3>2. PICK fields : fields = out[Ini!Min(EntriesOf(out, x))].fields
      OBVIOUS
    <3>3. Matches(fields, i)
      BY <2>2, <2>4, <3>1, <3>2 DEF FirstMatches
    <3>4. ~(Unbroken(i) /\ line.kind = "pair")
      OBVIOUS
    <3>5. Matches(fields, i)'
      BY <3>1, <3>3, <3>4, MatchesStays
    <3> QED BY <2>1, <2>2, <2>3, <2>4, <3>1, <3>2, <3>5 DEF FirstMatches
  <2>5. CASE B = {}
    BY <2>1, <2>2, <2>3, <2>5 DEF FirstMatches
  <2> QED BY <2>4, <2>5
<1> QED BY <1>1, <1>2, <1>3 DEF Lists

LEMMA LastStays ==
    ASSUME iniFile \in Seq(Lines), NEW line \in Lines, iniFile' = Append(iniFile, line),
           NEW i \in 1..Len(iniFile), ~(Unbroken(i) /\ line.kind = "pair"), NEW keyword
    PROVE  Ini!LastOf(i, keyword)' = Ini!LastOf(i, keyword)
<1> DEFINE P == Ini!PairsOf(i, keyword)
           Q == Ini!PairsOf(i, keyword)'
<1>1. Q = P
  BY PairsGrow
<1>2. P \subseteq 1..Len(iniFile) /\ P \subseteq Nat
  BY PairsAreInFile
<1>3. Len(iniFile) \in Nat /\ \A j \in 1..Len(iniFile) : iniFile'[j] = iniFile[j]
  BY FileGrows
<1> HIDE DEF P, Q
<1>4. P # {} => iniFile'[Ini!Max(P)] = iniFile[Ini!Max(P)]
  BY <1>2, <1>3, IniMax
<1> QED BY <1>1, <1>4 DEF Ini!LastOf, P, Q

\* A header or the marker ends the sections before it; no other line ends one.
LEMMA EndedGrows ==
    ASSUME iniFile \in Seq(Lines), NEW line \in Lines, iniFile' = Append(iniFile, line), NEW kind
    PROVE  /\ line.kind \in IniBreaks => Ended(kind)' = Wanted(kind)
           /\ line.kind \notin IniBreaks => Ended(kind)' = Ended(kind)
<1>1. /\ Len(iniFile') = Len(iniFile) + 1 /\ Len(iniFile) \in Nat
      /\ \A i \in 1..Len(iniFile) : iniFile'[i] = iniFile[i]
  BY FileGrows
<1>2. ASSUME NEW i \in Ended(kind)' PROVE i \in 1..Len(iniFile)
  <2>1. i \in 1..Len(iniFile) + 1 /\ iniFile'[i].kind = "header" /\ ~Unbroken(i)'
    BY <1>1 DEF Ended, Wanted
  <2>2. i # Len(iniFile) + 1
    BY <1>1, <2>1, FileGrows, LastLine DEF OpenAt
  <2> QED BY <1>1, <2>1, <2>2
<1>3. ASSUME NEW i \in 1..Len(iniFile), iniFile[i].kind = "header"
      PROVE  i \in Ended(kind)' <=> i \in Wanted(kind) /\ (line.kind \in IniBreaks \/ ~Unbroken(i))
  <2>1. /\ iniFile'[i] = iniFile[i] /\ KindOf(i)' = KindOf(i)
        /\ Unbroken(i)' <=> Unbroken(i) /\ line.kind \notin IniBreaks
        /\ i \in 1..Len(iniFile')
    BY <1>1, <1>3, HeadersStay DEF OpenAt
  <2>2. CASE Unbroken(i) /\ line.kind = "pair"
    BY <2>1, <2>2 DEF Ended, IniBreaks
  <2>3. CASE ~(Unbroken(i) /\ line.kind = "pair")
    <3>1. Ini!LastOf(i, "Value")' = Ini!LastOf(i, "Value")
      BY <2>3, LastStays
    <3> QED BY <1>3, <2>1, <3>1 DEF Ended, Wanted
  <2> QED BY <2>2, <2>3
<1>4. \A i \in Ended(kind)' : i \in 1..Len(iniFile) /\ iniFile[i].kind = "header"
  BY <1>1, <1>2 DEF Ended, Wanted
<1>5. \A i \in Wanted(kind) : i \in 1..Len(iniFile) /\ iniFile[i].kind = "header"
  BY DEF Wanted
<1>6. Ended(kind) \subseteq Wanted(kind) /\ \A i \in Wanted(kind) : i \in Ended(kind) <=> ~Unbroken(i)
  BY DEF Ended
<1>7. CASE line.kind \in IniBreaks
  BY <1>3, <1>4, <1>5, <1>7
<1>8. CASE line.kind \notin IniBreaks
  BY <1>3, <1>4, <1>5, <1>6, <1>8
<1> QED BY <1>7, <1>8

-----------------------------------------------------------------------------
(* LegacyIni: the section being read, and what its end writes out. *)

SectionInv ==
    /\ section \in IniSections
    /\ \A i \in 1..Len(iniFile) :
          OpenAt(i) => /\ section.kind = KindOf(i) /\ section.name = iniFile[i].name
                       /\ section.kind \notin {"none", "qol"} => Matches(section.fields, i)
    /\ section.kind # "none" => \E i \in 1..Len(iniFile) : OpenAt(i)

\* No header is behind an open one, and those before it are not open.
LEMMA OneOpen ==
    ASSUME iniFile \in Seq(Lines), NEW i \in 1..Len(iniFile), OpenAt(i),
           NEW j \in 1..Len(iniFile), iniFile[j].kind = "header"
    PROVE  j = i \/ (j < i /\ ~Unbroken(j))
<1>1. i \in Nat /\ j \in Nat /\ Len(iniFile) \in Nat
  OBVIOUS
<1>2. j > i => j \in i + 1..Len(iniFile)
  BY <1>1
<1>3. ~(j > i)
  BY <1>2 DEF OpenAt, Unbroken, IniBreaks
<1>4. j < i => i \in j + 1..Len(iniFile)
  BY <1>1
<1>5. j < i => ~Unbroken(j)
  BY <1>4 DEF OpenAt, Unbroken, IniBreaks
<1> QED BY <1>1, <1>3, <1>5

IsWritten(kind) == section.kind = kind /\ (kind = "patch" \/ Ini!Field(section.fields, "Value") # Ini!Empty)

\* flushSection writes out exactly the section that has just ended, if it is wanted.
LEMMA FlushListsWanted ==
    ASSUME iniFile \in Seq(Lines), SectionInv, NEW kind \in {"setting", "config", "patch"},
           NEW out, Lists(out, Ended(kind)), NEW more,
           more = IF IsWritten(kind) THEN Append(out, section) ELSE out
    PROVE  Lists(more, Wanted(kind))
<1>1. CASE IsWritten(kind)
  <2>1. PICK i \in 1..Len(iniFile) : OpenAt(i)
    BY <1>1 DEF IsWritten, SectionInv
  <2>2. /\ section \in IniSections /\ section.kind = KindOf(i) /\ section.name = iniFile[i].name
        /\ Matches(section.fields, i) /\ section.kind = kind
    BY <1>1, <2>1 DEF SectionInv, IsWritten
  <2>3. section.fields \in Seq(IniKeys \X IniValues) /\ "Value" \in IniKeys
    BY <2>2 DEF IniSections, IniKeys
  <2>4. Ini!Field(section.fields, "Value") = Ini!LastOf(i, "Value")
    BY <2>2, <2>3, FieldIsLast
  <2>5. i \in Wanted(kind)
    BY <1>1, <2>1, <2>2, <2>4 DEF IsWritten, Wanted, OpenAt
  <2>6. \A j \in Wanted(kind) : j \in 1..Len(iniFile) /\ iniFile[j].kind = "header"
    BY DEF Wanted
  <2>7. \A j \in Wanted(kind) : j = i \/ (j < i /\ ~Unbroken(j))
    BY <2>1, <2>6, OneOpen
  <2>8. Unbroken(i)
    BY <2>1 DEF OpenAt
  <2>9. Wanted(kind) = Ended(kind) \cup {i} /\ \A j \in Ended(kind) : j < i
    BY <2>5, <2>7, <2>8 DEF Ended
  <2>10. more = Append(out, section)
    BY <1>1
  <2>11. Lists(more, Ended(kind) \cup {i})
    BY <2>2, <2>9, <2>10, ListsGrow
  <2> QED BY <2>9, <2>11
<1>2. CASE ~IsWritten(kind)
  <2>1. ASSUME NEW i \in Wanted(kind), Unbroken(i) PROVE FALSE
    <3>1. i \in 1..Len(iniFile) /\ OpenAt(i) /\ KindOf(i) = kind
      BY <2>1 DEF Wanted, OpenAt
    <3>2. section \in IniSections /\ section.kind = kind /\ Matches(section.fields, i)
      BY <3>1 DEF SectionInv
    <3>3. section.fields \in Seq(IniKeys \X IniValues) /\ "Value" \in IniKeys
      BY <3>2 DEF IniSections, IniKeys
    <3>4. Ini!Field(section.fields, "Value") = Ini!LastOf(i, "Value")
      BY <3>1, <3>2, <3>3, FieldIsLast
    <3> QED BY <1>2, <3>2, <3>4 DEF IsWritten, Wanted
  <2>2. Wanted(kind) = Ended(kind)
    BY <2>1 DEF Ended
  <2> QED BY <1>2, <2>2
<1> QED BY <1>1, <1>2

-----------------------------------------------------------------------------
(* LegacyIni: the values of the quality-of-life sections. *)

QoLHeaders(x) == {h \in Ini!HeadersOf({"qol"}) : iniFile[h].name = x}
QoLPlaces(x) == UNION {Ini!PairsOf(i, "Value") : i \in QoLHeaders(x)}
QoLValue(x) == IF QoLPlaces(x) = {} THEN Ini!Empty ELSE iniFile[Ini!Max(QoLPlaces(x))].value

QoLInv == outQoL = [x \in Ini!QoLNames |-> QoLValue(x)]

LEMMA QoLInFile ==
    ASSUME iniFile \in Seq(Lines), NEW x
    PROVE  /\ QoLHeaders(x) \subseteq 1..Len(iniFile)
           /\ QoLPlaces(x) \subseteq 1..Len(iniFile) /\ QoLPlaces(x) \subseteq Nat
<1>1. DOMAIN iniFile = 1..Len(iniFile)
  OBVIOUS
<1>2. QoLHeaders(x) \subseteq 1..Len(iniFile)
  BY <1>1 DEF QoLHeaders, Ini!HeadersOf
<1>3. ASSUME NEW i \in QoLHeaders(x), NEW j \in Ini!PairsOf(i, "Value") PROVE j \in 1..Len(iniFile) /\ j \in Nat
  <2>1. i \in Nat
    BY <1>2
  <2> QED BY <2>1, PairsAreInFile
<1> QED BY <1>2, <1>3 DEF QoLPlaces

LEMMA QoLGrows ==
    ASSUME iniFile \in Seq(Lines), NEW line \in Lines, iniFile' = Append(iniFile, line), NEW x,
           NEW given, given = (line.kind = "pair" /\ line.key = "Value" /\ \E i \in QoLHeaders(x) : Unbroken(i))
    PROVE  QoLValue(x)' = IF given THEN line.value ELSE QoLValue(x)
<1> DEFINE n == Len(iniFile)
           P == QoLPlaces(x)
           Q == QoLPlaces(x)'
<1>1. /\ Len(iniFile') = n + 1 /\ n \in Nat
      /\ \A i \in 1..n : iniFile'[i] = iniFile[i]
      /\ iniFile'[n + 1] = line
      /\ DOMAIN iniFile = 1..n /\ DOMAIN iniFile' = 1..n + 1
  BY FileGrows
<1>2. QoLHeaders(x) \subseteq 1..n /\ P \subseteq 1..n /\ P \subseteq Nat
  BY QoLInFile
<1> PICK last : last = n + 1
  OBVIOUS
<1>3. /\ QoLHeaders(x) \subseteq QoLHeaders(x)'
      /\ QoLHeaders(x)' \subseteq QoLHeaders(x) \cup {last}
  <2>1. \A i : i \in 1..n + 1 <=> i \in 1..n \/ i = n + 1
    BY <1>1
  <2> QED BY <1>1, <2>1 DEF QoLHeaders, Ini!HeadersOf
<1>4. Ini!PairsOf(last, "Value")' = {}
  BY <1>1, LastLine
<1>5. ASSUME NEW j PROVE j \in Q <=> \E i \in QoLHeaders(x) : j \in Ini!PairsOf(i, "Value")'
  <2>1. j \in Q <=> \E i \in QoLHeaders(x)' : j \in Ini!PairsOf(i, "Value")'
    BY DEF QoLPlaces
  <2> QED BY <1>3, <1>4, <2>1
<1>6. ASSUME NEW i \in QoLHeaders(x)
      PROVE  /\ Unbroken(i) /\ line.kind = "pair" /\ line.key = "Value" =>
                    Ini!PairsOf(i, "Value")' = Ini!PairsOf(i, "Value") \cup {n + 1}
             /\ ~(Unbroken(i) /\ line.kind = "pair" /\ line.key = "Value") =>
                    Ini!PairsOf(i, "Value")' = Ini!PairsOf(i, "Value")
  BY <1>2, PairsGrow
<1>7. \A j : j \in P <=> \E i \in QoLHeaders(x) : j \in Ini!PairsOf(i, "Value")
  BY DEF QoLPlaces
<1>10. ASSUME NEW j
       PROVE  j \in Q <=> \/ \E i \in QoLHeaders(x) : j \in Ini!PairsOf(i, "Value")
                          \/ given /\ j = n + 1
  <2>1. \A i \in QoLHeaders(x) :
          j \in Ini!PairsOf(i, "Value")' <=>
              \/ j \in Ini!PairsOf(i, "Value")
              \/ Unbroken(i) /\ line.kind = "pair" /\ line.key = "Value" /\ j = n + 1
    <3> SUFFICES ASSUME NEW i \in QoLHeaders(x)
                 PROVE  j \in Ini!PairsOf(i, "Value")' <=>
                            \/ j \in Ini!PairsOf(i, "Value")
                            \/ Unbroken(i) /\ line.kind = "pair" /\ line.key = "Value" /\ j = n + 1
      OBVIOUS
    <3> HIDE DEF n
    <3> QED BY <1>6
  <2>2. j \in Q <=> \E i \in QoLHeaders(x) : j \in Ini!PairsOf(i, "Value")'
    BY <1>5
  <2> HIDE DEF n, Q
  <2> QED BY <2>1, <2>2
<1> HIDE DEF P, Q, n
<1>8. CASE given
  <2>1. Q = P \cup {n + 1}
    BY <1>7, <1>8, <1>10
  <2>2. Ini!Max(Q) = n + 1
    BY <1>1, <1>2, <2>1, OneMoreElement
  <2> QED BY <1>1, <1>8, <2>1, <2>2 DEF QoLValue, Q
<1>9. CASE ~given
  <2>1. Q = P
    BY <1>7, <1>9, <1>10
  <2>2. P # {} => iniFile'[Ini!Max(P)] = iniFile[Ini!Max(P)]
    BY <1>1, <1>2, IniMax
  <2> QED BY <1>9, <2>1, <2>2 DEF QoLValue, P, Q
<1> QED BY <1>8, <1>9

-----------------------------------------------------------------------------
(* LegacyIni: the table built from the sections written out. *)

\* The conversions of the code agree with what a token begins with.
LEMMA TokensAgree ==
    /\ DOMAIN Ini!StoD = DOMAIN Ini!Begins /\ DOMAIN Ini!StoLL = DOMAIN Ini!Begins
    /\ \A t \in DOMAIN Ini!Begins :
          Ini!StoD[t] = Ini!Begins[t].number /\ Ini!StoLL[t] = Ini!Begins[t].whole
    /\ \A t : t \in Ini!IntegerTokens <=>
                 /\ t \in DOMAIN Ini!Begins /\ Ini!Begins[t].rest = ""
                 /\ Ini!Begins[t].number = t /\ Ini!Begins[t].whole = t
    /\ \A t : t \in Ini!RealTokens <=>
                 /\ t \in DOMAIN Ini!Begins /\ Ini!Begins[t].rest = ""
                 /\ Ini!Begins[t].number = t /\ Ini!Begins[t].whole # t
    /\ \A t : t \in DOMAIN Ini!Begins /\ Ini!Begins[t].rest = "" => t \in Ini!IntegerTokens \cup Ini!RealTokens
    /\ \A t \in {"", "true", "false"} : t \notin DOMAIN Ini!Begins
BY DEF Ini!StoD, Ini!StoLL, Ini!Begins, Ini!IntegerTokens, Ini!RealTokens

\* A value is a sequence of tokens, and has one.
IsText(value) == value \in Seq({value[i] : i \in DOMAIN value}) /\ value # <<>>

\* The tokens of a list, without an empty one behind its last comma.
LEMMA TokensAre ==
    ASSUME NEW value, IsText(value)
    PROVE  /\ Len(value) \in Nat \ {0} /\ DOMAIN value = 1..Len(value)
           /\ \A i \in DOMAIN Ini!Tokens(value) : Ini!Tokens(value)[i] = value[i]
           /\ DOMAIN Ini!Tokens(value) =
                 IF value[Len(value)] = "" THEN 1..Len(value) - 1 ELSE 1..Len(value)
<1> DEFINE T == {value[i] : i \in DOMAIN value}
<1>1. value \in Seq(T) /\ value # <<>>
  BY DEF IsText
<1> HIDE DEF T
<1>2. Len(value) \in Nat \ {0} /\ DOMAIN value = 1..Len(value)
  BY <1>1
<1>3. CASE value[Len(value)] = ""
  <2>1. Ini!Tokens(value) = SubSeq(value, 1, Len(value) - 1)
    BY <1>3 DEF Ini!Tokens
  <2>2. Ini!Tokens(value) = [i \in 1..Len(value) - 1 |-> value[i]]
    BY <1>1, <1>2, <2>1
  <2> QED BY <1>2, <1>3, <2>2
<1>4. CASE value[Len(value)] # ""
  BY <1>2, <1>4 DEF Ini!Tokens
<1> QED BY <1>2, <1>3, <1>4

LEMMA TopOfRange ==
    ASSUME NEW n \in Nat \ {0}
    PROVE  /\ \A i : i \in 1..n <=> i \in 1..n - 1 \/ i = n
           /\ n \notin 1..n - 1
           /\ n = 1 \/ (n # 1 /\ n > 1)
OBVIOUS

LEMMA SmartSays ==
    ASSUME NEW value, IsText(value)
    PROVE  Ini!Says(Ini!Smart(value), value)
<1> DEFINE tokens == Ini!Tokens(value)
<1>1. /\ Len(value) \in Nat \ {0} /\ DOMAIN value = 1..Len(value)
      /\ \A i \in DOMAIN tokens : tokens[i] = value[i]
      /\ DOMAIN tokens = IF value[Len(value)] = "" THEN 1..Len(value) - 1 ELSE 1..Len(value)
  BY TokensAre
<1>2. /\ Len(value) = 1 \/ (Len(value) # 1 /\ Len(value) > 1)
      /\ \A i : i \in 1..Len(value) <=> i \in 1..Len(value) - 1 \/ i = Len(value)
      /\ Len(value) \notin 1..Len(value) - 1
  <2>1. Len(value) \in Nat \ {0}
    BY TokensAre
  <2> QED BY <2>1, TopOfRange
<1>3. Len(value) # 1 => value # <<"true">> /\ value # <<"false">>
  <2>1. Len(<<"true">>) = 1 /\ Len(<<"false">>) = 1
    OBVIOUS
  <2> QED BY <2>1
<1>4. Len(value) = 1 => ~Ini!IsList(value)
  BY DEF Ini!IsList
<1>5. Len(value) # 1 => ~Ini!IsOneNumber(value)
  BY DEF Ini!IsOneNumber
<1>6. CASE value \in {<<"true">>, <<"false">>}
  <2>1. Ini!Smart(value) = <<"boolean", value[1]>>
    BY <1>6 DEF Ini!Smart
  <2>2. Len(value) = 1 /\ value[1] \in {"true", "false"}
    BY <1>6
  <2>3. value[1] \notin DOMAIN Ini!Begins
    BY <2>2, TokensAgree
  <2>4. ~Ini!IsOneNumber(value)
    BY <2>3 DEF Ini!IsOneNumber
  <2> QED BY <1>4, <1>6, <2>1, <2>2, <2>4 DEF Ini!Says
<1>7. CASE Len(value) # 1
  <2>1. Ini!IsList(value) <=> \A i \in DOMAIN tokens : Ini!IsNumber(tokens[i])
    <3>1. Ini!IsList(value) <=>
            \A i \in 1..Len(value) : (i = Len(value) /\ value[i] = "") \/ value[i] \in DOMAIN Ini!Begins
      BY <1>2, <1>7 DEF Ini!IsList
    <3>2. \A i \in DOMAIN tokens : Ini!IsNumber(tokens[i]) <=> value[i] \in DOMAIN Ini!Begins
      BY <1>1, TokensAgree DEF Ini!IsNumber
    <3>3. "" \notin DOMAIN Ini!Begins
      BY TokensAgree
    <3>4. CASE value[Len(value)] = ""
      <4>1. DOMAIN tokens = 1..Len(value) - 1
        BY <1>1, <3>4
      <4> HIDE DEF tokens
      <4>2. \A i \in 1..Len(value) : i = Len(value) \/ i \in DOMAIN tokens
        BY <1>2, <4>1, Zenon
      <4>3. \A i \in DOMAIN tokens : i \in 1..Len(value) /\ i # Len(value)
        BY <1>2, <4>1, Zenon
      <4>4. ASSUME Ini!IsList(value), NEW i \in DOMAIN tokens PROVE Ini!IsNumber(tokens[i])
        <5>1. value[i] \in DOMAIN Ini!Begins
          BY <3>1, <4>3, <4>4, Zenon
        <5> QED BY <3>2, <4>4, <5>1, Zenon
      <4>5. ASSUME \A i \in DOMAIN tokens : Ini!IsNumber(tokens[i])
            PROVE  Ini!IsList(value)
        <5>1. \A i \in DOMAIN tokens : value[i] \in DOMAIN Ini!Begins
          BY <3>2, <4>5, Zenon
        <5>2. ASSUME NEW i \in 1..Len(value)
              PROVE  (i = Len(value) /\ value[i] = "") \/ value[i] \in DOMAIN Ini!Begins
          BY <3>4, <4>2, <5>1, <5>2, Zenon
        <5> QED BY <3>1, <5>2, Zenon
      <4> QED BY <4>4, <4>5, Zenon
    <3>5. CASE value[Len(value)] # ""
      <4>1. DOMAIN tokens = 1..Len(value)
        BY <1>1, <3>5
      <4> HIDE DEF tokens
      <4> QED BY <3>1, <3>2, <3>5, <4>1
    <3> QED BY <3>4, <3>5
  <2>2. CASE Ini!IsList(value)
    <3>1. Ini!Smart(value) = <<"array", [i \in DOMAIN tokens |-> Ini!StoD[tokens[i]]]>>
      <4>1. \A i \in DOMAIN tokens : Ini!IsNumber(tokens[i])
        BY <2>1, <2>2
      <4> QED BY <1>2, <1>3, <1>7, <4>1 DEF Ini!Smart
    <3>2. ASSUME NEW i \in 1..Len(value), value[i] # ""
          PROVE  Ini!StoD[value[i]] = Ini!Begins[value[i]].number /\ i \in DOMAIN tokens
      <4>1. value[i] \in DOMAIN Ini!Begins
        BY <2>2, <3>2 DEF Ini!IsList
      <4>2. i \in DOMAIN tokens
        <5>1. CASE value[Len(value)] = ""
          <6>1. i # Len(value)
            BY <3>2, <5>1
          <6>2. DOMAIN tokens = 1..Len(value) - 1
            BY <1>1, <5>1
          <6> HIDE DEF tokens
          <6> QED BY <1>2, <6>1, <6>2, Zenon
        <5>2. CASE value[Len(value)] # ""
          BY <1>1, <5>2
        <5> QED BY <5>1, <5>2
      <4> QED BY <4>1, <4>2, TokensAgree
    <3> DEFINE list == [i \in DOMAIN tokens |-> Ini!StoD[tokens[i]]]
    <3>3. ASSUME NEW i \in 1..Len(value), value[i] # "" PROVE list[i] = Ini!Begins[value[i]].number
      <4>1. tokens[i] = value[i] /\ i \in DOMAIN tokens
        BY <1>1, <3>2, <3>3
      <4> HIDE DEF tokens
      <4> QED BY <3>2, <3>3, <4>1
    <3>4. Ini!Smart(value)[1] = "array" /\ Ini!Smart(value)[2] = list
      BY <3>1
    <3> HIDE DEF list
    <3> QED BY <1>3, <1>5, <1>7, <2>2, <3>3, <3>4 DEF Ini!Says
  <2>3. CASE ~Ini!IsList(value)
    <3>1. Ini!Smart(value) = <<"string", value>>
      <4>1. ~\A i \in DOMAIN tokens : Ini!IsNumber(tokens[i])
        BY <2>1, <2>3
      <4> QED BY <1>2, <1>3, <1>7, <4>1 DEF Ini!Smart
    <3> QED BY <1>3, <1>5, <1>7, <2>3, <3>1 DEF Ini!Says
  <2> QED BY <2>2, <2>3
<1>8. CASE Len(value) = 1 /\ value \notin {<<"true">>, <<"false">>}
  <2>1. Ini!IsOneNumber(value) <=> value[1] \in DOMAIN Ini!Begins /\ Ini!Begins[value[1]].rest = ""
    BY <1>8 DEF Ini!IsOneNumber
  <2>2. Ini!IsOneNumber(value) <=> value[1] \in Ini!IntegerTokens \cup Ini!RealTokens
    BY <2>1, TokensAgree
  <2>3. ~(Len(value) > 1)
    BY <1>8
  <2>4. CASE value[1] \in Ini!IntegerTokens
    <3>1. Ini!Smart(value) = <<"integer", value[1]>>
      BY <1>8, <2>3, <2>4 DEF Ini!Smart
    <3>2. Ini!Begins[value[1]].number = value[1] /\ Ini!Begins[value[1]].whole = value[1]
      BY <2>4, TokensAgree
    <3> QED BY <1>4, <1>8, <2>2, <2>4, <3>1, <3>2 DEF Ini!Says
  <2>5. CASE value[1] \notin Ini!IntegerTokens /\ value[1] \in Ini!RealTokens
    <3>1. Ini!Smart(value) = <<"real", value[1]>>
      BY <1>8, <2>3, <2>5 DEF Ini!Smart
    <3>2. Ini!Begins[value[1]].number = value[1] /\ Ini!Begins[value[1]].whole # value[1]
      BY <2>5, TokensAgree
    <3> QED BY <1>4, <1>8, <2>2, <2>5, <3>1, <3>2 DEF Ini!Says
  <2>6. CASE value[1] \notin Ini!IntegerTokens /\ value[1] \notin Ini!RealTokens
    <3>1. Ini!Smart(value) = <<"string", value>>
      BY <1>8, <2>3, <2>6 DEF Ini!Smart
    <3> QED BY <1>4, <1>8, <2>2, <2>6, <3>1 DEF Ini!Says
  <2> QED BY <2>4, <2>5, <2>6
<1> QED BY <1>2, <1>6, <1>7, <1>8

LEMMA OneToken ==
    ASSUME NEW token
    PROVE  IsText(<<token>>)
<1> DEFINE T == {<<token>>[i] : i \in DOMAIN <<token>>}
<1>1. 1 \in DOMAIN <<token>> /\ <<token>>[1] = token
  OBVIOUS
<1>2. token \in T
  BY <1>1
<1> HIDE DEF T
<1>3. <<token>> \in Seq(T)
  BY <1>2
<1>4. Len(<<token>>) = 1 /\ Len(<<>>) = 0
  OBVIOUS
<1>5. <<token>> # <<>>
  BY <1>4
<1> QED BY <1>3, <1>5 DEF IsText, T

LEMMA ValuesAreTexts ==
    ASSUME iniFile \in Seq(Lines), NEW i \in 1..Len(iniFile), NEW x
    PROVE  /\ IsText(Ini!LastOf(i, x))
           /\ Ini!PairsOf(i, x) # {} => IsText(iniFile[Ini!Min(Ini!PairsOf(i, x))].value)
<1>1. /\ Ini!PairsOf(i, x) \subseteq 1..Len(iniFile) /\ Ini!PairsOf(i, x) \subseteq Nat
      /\ \A j \in Ini!PairsOf(i, x) : iniFile[j] \in Lines
  <2>1. i \in Nat
    OBVIOUS
  <2> QED BY <2>1, PairsAreInFile
<1>2. \A j \in Ini!PairsOf(i, x) : iniFile[j].kind = "pair"
  BY DEF Ini!PairsOf
<1>3. \A j \in Ini!PairsOf(i, x) : IsText(iniFile[j].value)
  BY <1>1, <1>2, IniAssumption DEF IsText
<1>4. IsText(Ini!Empty)
  BY OneToken DEF Ini!Empty
<1>5. Ini!PairsOf(i, x) # {} => Ini!Max(Ini!PairsOf(i, x)) \in Ini!PairsOf(i, x)
  <2>1. Len(iniFile) \in Nat
    OBVIOUS
  <2> QED BY <1>1, <2>1, IniMax
<1>6. Ini!PairsOf(i, x) # {} => Ini!Min(Ini!PairsOf(i, x)) \in Ini!PairsOf(i, x)
  BY <1>1, IniMin
<1> QED BY <1>3, <1>4, <1>5, <1>6 DEF Ini!LastOf

LEMMA NumbersAgree ==
    ASSUME NEW value
    PROVE  /\ Ini!IsNumber(value[1]) <=> value[1] \in DOMAIN Ini!Begins
           /\ value[1] \in DOMAIN Ini!Begins =>
                 /\ Ini!Number(value) = <<"real", Ini!Begins[value[1]].number>>
                 /\ Ini!Whole(value) = <<"integer", Ini!Begins[value[1]].whole>>
BY TokensAgree DEF Ini!IsNumber, Ini!Number, Ini!Whole

LEMMA SettingEntryIsRight ==
    ASSUME iniFile \in Seq(Lines), NEW fields \in Seq(IniKeys \X IniValues), NEW i \in 1..Len(iniFile),
           Matches(fields, i), NEW table, table = Ini!SettingEntry(fields)
    PROVE  Ini!SettingSays(table, i)
<1>1. \A x \in IniKeys : Ini!Field(fields, x) = Ini!LastOf(i, x)
  BY FieldIsLast
<1>2. {"Value", "Category"} \cup Ini!Bounds \subseteq IniKeys
  BY DEF IniKeys
<1> DEFINE keys == {"Value"} \cup {k \in {"Category"} : Ini!Field(fields, k) # Ini!Empty}
                      \cup {k \in Ini!Bounds : Ini!IsNumber(Ini!Field(fields, k)[1])}
           said == {"Value"} \cup {k \in {"Category"} : Ini!LastOf(i, k) # Ini!Empty}
                      \cup {b \in Ini!Bounds : Ini!LastOf(i, b)[1] \in DOMAIN Ini!Begins}
<1>3. table = [x \in keys |-> CASE x = "Value" -> Ini!Smart(Ini!Field(fields, x))
                                [] x = "Category" -> Ini!Text(Ini!Field(fields, x))
                                [] OTHER -> Ini!Number(Ini!Field(fields, x))]
  BY DEF Ini!SettingEntry
<1>4. /\ "Value" \in keys
      /\ \A b \in Ini!Bounds : b # "Value" /\ b # "Category"
  BY DEF Ini!Bounds
<1>5. keys = said
  <2>1. \A b \in Ini!Bounds : Ini!IsNumber(Ini!Field(fields, b)[1]) <=> Ini!LastOf(i, b)[1] \in DOMAIN Ini!Begins
    BY <1>1, <1>2, NumbersAgree
  <2>2. Ini!Field(fields, "Category") = Ini!LastOf(i, "Category")
    BY <1>1, <1>2
  <2> QED BY <2>1, <2>2
<1>6. \A b \in Ini!Bounds : b \in keys => Ini!LastOf(i, b)[1] \in DOMAIN Ini!Begins
  BY <1>4, <1>5
<1>7. Ini!Says(Ini!Smart(Ini!LastOf(i, "Value")), Ini!LastOf(i, "Value"))
  BY ValuesAreTexts, SmartSays
<1> HIDE DEF keys, said
<1>8. DOMAIN table = keys
  BY <1>3
<1>9. table["Value"] = Ini!Smart(Ini!LastOf(i, "Value"))
  BY <1>1, <1>2, <1>3, <1>4
<1>10. "Category" \in keys => table["Category"] = <<"string", Ini!LastOf(i, "Category")>>
  <2>1. Ini!Field(fields, "Category") = Ini!LastOf(i, "Category")
    BY <1>1, <1>2
  <2> QED BY <1>3, <2>1 DEF Ini!Text
<1>11. ASSUME NEW b \in Ini!Bounds, b \in keys
       PROVE  table[b] = <<"real", Ini!Begins[Ini!LastOf(i, b)[1]].number>>
  <2>1. table[b] = Ini!Number(Ini!Field(fields, b))
    BY <1>3, <1>4, <1>11
  <2>2. Ini!Field(fields, b) = Ini!LastOf(i, b)
    BY <1>1, <1>2
  <2>3. Ini!LastOf(i, b)[1] \in DOMAIN Ini!Begins
    BY <1>6, <1>11
  <2> QED BY <2>1, <2>2, <2>3, NumbersAgree
<1>12. DOMAIN table = {"Value"} \cup {k \in {"Category"} : Ini!LastOf(i, k) # Ini!Empty}
                         \cup {b \in Ini!Bounds : Ini!LastOf(i, b)[1] \in DOMAIN Ini!Begins}
  BY <1>5, <1>8 DEF said
<1>13. "Category" \in DOMAIN table => table["Category"] = <<"string", Ini!LastOf(i, "Category")>>
  BY <1>8, <1>10
<1>14. \A b \in Ini!Bounds \cap DOMAIN table : table[b] = <<"real", Ini!Begins[Ini!LastOf(i, b)[1]].number>>
  BY <1>8, <1>11
<1>15. Ini!Says(table["Value"], Ini!LastOf(i, "Value"))
  BY <1>7, <1>9
<1> QED BY <1>12, <1>13, <1>14, <1>15, Zenon DEF Ini!SettingSays

LEMMA KeysAreFound ==
    ASSUME iniFile \in Seq(Lines), NEW i \in 1..Len(iniFile)
    PROVE  /\ Ini!KeysOf(i) \subseteq IniKeys
           /\ \A x : x \in Ini!KeysOf(i) <=> Ini!PairsOf(i, x) # {}
<1>1. \A x, j : j \in Ini!PairsOf(i, x) => j \in (i + 1)..Len(iniFile) /\ iniFile[j].kind = "pair" /\ iniFile[j].key = x
  BY DEF Ini!PairsOf
<1>2. \A j \in (i + 1)..Len(iniFile) : iniFile[j] \in Lines
  OBVIOUS
<1>3. ASSUME NEW x PROVE x \in Ini!KeysOf(i) <=> Ini!PairsOf(i, x) # {}
  BY <1>1 DEF Ini!KeysOf
<1>4. Ini!KeysOf(i) \subseteq IniKeys
  BY <1>2 DEF Ini!KeysOf, IniKeys
<1> QED BY <1>3, <1>4

LEMMA PatchEntryIsRight ==
    ASSUME iniFile \in Seq(Lines), NEW fields \in Seq(IniKeys \X IniValues), NEW i \in 1..Len(iniFile),
           Matches(fields, i), NEW table, table = Ini!PatchEntry(fields)
    PROVE  Ini!PatchSays(table, i)
<1> DEFINE S == Ini!PatchSettings(fields)
           keys == {fields[k][1] : k \in S}
           flag == {k \in {"Enabled"} : Ini!Field(fields, k) # Ini!Empty}
           First(x) == Ini!Min({k \in S : fields[k][1] = x})
<1>1. table = [x \in keys \cup flag |-> IF x = "Enabled" THEN Ini!Flag(Ini!Field(fields, x))
                                        ELSE Ini!Smart(fields[First(x)][2])]
  BY DEF Ini!PatchEntry
<1>2. Ini!Field(fields, "Enabled") = Ini!LastOf(i, "Enabled")
  <2>1. "Enabled" \in IniKeys
    BY DEF IniKeys
  <2> QED BY <2>1, FieldIsLast
<1>3. "Enabled" \notin keys /\ \A k \in S : k \in DOMAIN fields
  BY DEF Ini!PatchSettings, Ini!Reserved
<1>4. \A k \in DOMAIN fields : fields[k][1] \in IniKeys
  OBVIOUS
<1>5. ASSUME NEW x \in keys
      PROVE  /\ fields[First(x)][2] = iniFile[Ini!Min(Ini!PairsOf(i, x))].value
             /\ Ini!PairsOf(i, x) # {}
  <2>1. PICK k0 \in S : fields[k0][1] = x
    OBVIOUS
  <2>2. x \in IniKeys /\ k0 \in FieldsOf(fields, x)
    BY <1>3, <1>4, <2>1 DEF FieldsOf
  <2>3. {k \in S : fields[k][1] = x} = FieldsOf(fields, x)
    BY <2>1 DEF FieldsOf, Ini!PatchSettings
  <2>4. SamePairs(fields, Ini!PairsOf(i, x), x)
    BY <2>2 DEF Matches
  <2> HIDE DEF S, keys
  <2> QED BY <2>2, <2>3, <2>4 DEF SamePairs
<1>6. keys = Ini!KeysOf(i) \ Ini!Reserved
  <2>1. ASSUME NEW x \in keys PROVE x \in Ini!KeysOf(i) /\ x \notin Ini!Reserved
    BY <1>5, <2>1, KeysAreFound DEF Ini!PatchSettings
  <2>2. ASSUME NEW x \in Ini!KeysOf(i), x \notin Ini!Reserved PROVE x \in keys
    <3>1. x \in IniKeys /\ Ini!PairsOf(i, x) # {}
      BY KeysAreFound
    <3>2. FieldsOf(fields, x) # {}
      BY <3>1 DEF Matches, SamePairs
    <3> QED BY <2>2, <3>2 DEF FieldsOf, Ini!PatchSettings
  <2> HIDE DEF keys
  <2> QED BY <2>1, <2>2
<1> HIDE DEF S, keys, First
<1>7. DOMAIN table = keys \cup flag
  BY <1>1
<1>8. DOMAIN table = (Ini!KeysOf(i) \ Ini!Reserved) \cup {k \in {"Enabled"} : Ini!LastOf(i, k) # Ini!Empty}
  BY <1>2, <1>6, <1>7
<1>9. "Enabled" \in DOMAIN table => table["Enabled"] = <<"boolean", Ini!IsTrue(Ini!LastOf(i, "Enabled"))>>
  BY <1>1, <1>2, <1>7 DEF Ini!Flag, Ini!IsTrue
<1>10. ASSUME NEW x \in DOMAIN table \ {"Enabled"}
       PROVE  Ini!Says(table[x], iniFile[Ini!Min(Ini!PairsOf(i, x))].value)
  <2>1. x \in keys
    BY <1>7, <1>10
  <2>2. table[x] = Ini!Smart(fields[First(x)][2])
    BY <1>1, <1>10, <2>1
  <2> DEFINE value == iniFile[Ini!Min(Ini!PairsOf(i, x))].value
  <2>3. fields[First(x)][2] = value /\ Ini!PairsOf(i, x) # {}
    BY <1>5, <2>1
  <2>4. IsText(value)
    BY <2>3, ValuesAreTexts
  <2> HIDE DEF value
  <2>5. Ini!Says(table[x], value)
    BY <2>2, <2>3, <2>4, SmartSays
  <2> QED BY <2>5 DEF value
<1> QED BY <1>8, <1>9, <1>10, Zenon DEF Ini!PatchSays

LEMMA WantedHeaders ==
    ASSUME iniFile \in Seq(Lines)
    PROVE  /\ Wanted("setting") = Ini!SettingHeaders
           /\ Wanted("config") = Ini!ConfigHeaders
           /\ Wanted("patch") = Ini!PatchHeaders
<1>1. DOMAIN iniFile = 1..Len(iniFile) /\ \A i \in 1..Len(iniFile) : iniFile[i] \in Lines
  OBVIOUS
<1>2. \A i \in 1..Len(iniFile) :
         iniFile[i].kind = "header" => iniFile[i].prefix \in {"plain", "optimization", "config", "qol"}
  BY <1>1, IniAssumption
<1>3. Wanted("setting") = Ini!SettingHeaders
  BY <1>1, <1>2 DEF Wanted, KindOf, Ini!SettingHeaders, Ini!HeadersOf
<1>4. Wanted("config") = Ini!ConfigHeaders
  BY <1>1, <1>2 DEF Wanted, KindOf, Ini!ConfigHeaders, Ini!HeadersOf
<1>5. Wanted("patch") = Ini!PatchHeaders
  BY <1>1, <1>2 DEF Wanted, KindOf, Ini!PatchHeaders, Ini!HeadersOf
<1> QED BY <1>3, <1>4, <1>5

\* The entry used for x and the header it stands for.
UsedFor(out, S, x) ==
    LET k == Ini!Min({j \in DOMAIN out : out[j].name = x})
        i == Ini!Min({j \in S : iniFile[j].name = x})
    IN /\ out[k].fields \in Seq(IniKeys \X IniValues)
       /\ i \in S /\ i \in 1..Len(iniFile)
       /\ Matches(out[k].fields, i)

LEMMA ListedNames ==
    ASSUME iniFile \in Seq(Lines), NEW out, NEW S, Lists(out, S), \A i \in S : iniFile[i].kind = "header"
    PROVE  /\ {out[k].name : k \in DOMAIN out} = {iniFile[i].name : i \in S}
           /\ \A x \in {iniFile[i].name : i \in S} : UsedFor(out, S, x)
<1>1. /\ out \in Seq(IniSections) /\ S \subseteq 1..Len(iniFile)
      /\ \A x \in IniTitles : FirstMatches(out, S, x)
  BY DEF Lists
<1>2. ASSUME NEW i \in S PROVE iniFile[i].name \in IniTitles
  <2>1. iniFile[i] \in Lines /\ iniFile[i].kind = "header"
    BY <1>1
  <2> QED BY <2>1 DEF IniTitles, IniNames
<1>3. \A k \in DOMAIN out : out[k] \in IniSections
  BY <1>1
<1>4. \A k \in DOMAIN out : out[k].name \in IniTitles
  BY <1>3 DEF IniSections
<1>5. ASSUME NEW x \in IniTitles
      PROVE  x \in {out[k].name : k \in DOMAIN out} <=> x \in {iniFile[i].name : i \in S}
  <2>1. FirstMatches(out, S, x)
    BY <1>1
  <2>2. x \in {out[k].name : k \in DOMAIN out} <=> EntriesOf(out, x) # {}
    BY DEF EntriesOf
  <2>3. x \in {iniFile[i].name : i \in S} <=> Named(S, x) # {}
    BY DEF Named
  <2> QED BY <2>1, <2>2, <2>3 DEF FirstMatches
<1>6. {out[k].name : k \in DOMAIN out} = {iniFile[i].name : i \in S}
  <2>1. {out[k].name : k \in DOMAIN out} \subseteq IniTitles
    BY <1>4
  <2>2. {iniFile[i].name : i \in S} \subseteq IniTitles
    BY <1>2
  <2> QED BY <1>5, <2>1, <2>2
<1>7. ASSUME NEW x \in {iniFile[i].name : i \in S} PROVE UsedFor(out, S, x)
  <2>1. x \in IniTitles /\ Named(S, x) # {}
    BY <1>2 DEF Named
  <2>2. FirstMatches(out, S, x)
    BY <1>1, <2>1
  <2>3. EntriesOf(out, x) # {} /\ Matches(out[Ini!Min(EntriesOf(out, x))].fields, Ini!Min(Named(S, x)))
    BY <2>1, <2>2 DEF FirstMatches
  <2>4. Ini!Min(Named(S, x)) \in S /\ Ini!Min(Named(S, x)) \in 1..Len(iniFile)
    BY <1>1, <2>1, NamedInFile
  <2>5. Ini!Min(EntriesOf(out, x)) \in 1..Len(out)
    BY <1>1, <2>3, EntriesInOut
  <2>6. Ini!Min(EntriesOf(out, x)) \in DOMAIN out
    BY <1>1, <2>5
  <2>7. out[Ini!Min(EntriesOf(out, x))].fields \in Seq(IniKeys \X IniValues)
    BY <1>3, <2>6 DEF IniSections
  <2> QED BY <2>3, <2>4, <2>7 DEF UsedFor, EntriesOf, Named
<1> QED BY <1>6, <1>7

LEMMA SettingsAreRight ==
    ASSUME iniFile \in Seq(Lines), NEW out, Lists(out, Wanted("setting")),
           NEW table, table = Ini!InsertAll(out, Ini!SettingEntry)
    PROVE  LET H == Ini!SettingHeaders
               names == {iniFile[i].name : i \in H}
           IN /\ DOMAIN table = names
              /\ \A x \in names : Ini!SettingSays(table[x], Ini!Min({i \in H : iniFile[i].name = x}))
<1> DEFINE H == Ini!SettingHeaders
           names == {iniFile[i].name : i \in H}
           First(x) == Ini!Min({k \in DOMAIN out : out[k].name = x})
<1>1. table = [x \in {out[k].name : k \in DOMAIN out} |-> Ini!SettingEntry(out[First(x)].fields)]
  BY DEF Ini!InsertAll
<1>2. Lists(out, H) /\ \A i \in H : iniFile[i].kind = "header"
  BY WantedHeaders DEF Wanted
<1> HIDE DEF H
<1>3. {out[k].name : k \in DOMAIN out} = names /\ \A x \in names : UsedFor(out, H, x)
  BY <1>2, ListedNames
<1>4. ASSUME NEW x \in names
      PROVE  Ini!SettingSays(table[x], Ini!Min({i \in H : iniFile[i].name = x}))
  <2> DEFINE fields == out[First(x)].fields
             i == Ini!Min({j \in H : iniFile[j].name = x})
  <2>1. fields \in Seq(IniKeys \X IniValues) /\ i \in 1..Len(iniFile) /\ Matches(fields, i)
    BY <1>3 DEF UsedFor
  <2>2. table[x] = Ini!SettingEntry(fields)
    BY <1>1, <1>3
  <2> HIDE DEF fields, i
  <2>3. Ini!SettingSays(table[x], i)
    BY <2>1, <2>2, SettingEntryIsRight
  <2> QED BY <2>3 DEF i
<1> HIDE DEF First
<1>5. DOMAIN table = names
  BY <1>1, <1>3
<1> QED BY <1>4, <1>5 DEF H

ConfigIsRight(value, i) == value = Ini!Text(Ini!LastOf(i, "Value"))

LEMMA ConfigsAreRight ==
    ASSUME iniFile \in Seq(Lines), NEW out, Lists(out, Wanted("config")),
           NEW table, table = Ini!InsertAll(out, Ini!ConfigEntry)
    PROVE  LET H == Ini!ConfigHeaders
               names == {iniFile[i].name : i \in H}
           IN /\ DOMAIN table = names
              /\ \A x \in names : ConfigIsRight(table[x], Ini!Min({i \in H : iniFile[i].name = x}))
<1> DEFINE H == Ini!ConfigHeaders
           names == {iniFile[i].name : i \in H}
           First(x) == Ini!Min({k \in DOMAIN out : out[k].name = x})
<1>1. table = [x \in {out[k].name : k \in DOMAIN out} |-> Ini!ConfigEntry(out[First(x)].fields)]
  BY DEF Ini!InsertAll
<1>2. Lists(out, H) /\ \A i \in H : iniFile[i].kind = "header"
  BY WantedHeaders DEF Wanted
<1> HIDE DEF H
<1>3. {out[k].name : k \in DOMAIN out} = names /\ \A x \in names : UsedFor(out, H, x)
  BY <1>2, ListedNames
<1>4. ASSUME NEW x \in names
      PROVE  ConfigIsRight(table[x], Ini!Min({i \in H : iniFile[i].name = x}))
  <2> DEFINE fields == out[First(x)].fields
             i == Ini!Min({j \in H : iniFile[j].name = x})
  <2>1. fields \in Seq(IniKeys \X IniValues) /\ i \in 1..Len(iniFile) /\ Matches(fields, i)
    BY <1>3 DEF UsedFor
  <2>2. table[x] = Ini!ConfigEntry(fields)
    BY <1>1, <1>3
  <2> HIDE DEF fields, i
  <2>3. ConfigIsRight(table[x], i)
    <3>1. "Value" \in IniKeys
      BY DEF IniKeys
    <3>2. Ini!Field(fields, "Value") = Ini!LastOf(i, "Value")
      BY <2>1, <3>1, FieldIsLast
    <3> QED BY <2>2, <3>2 DEF Ini!ConfigEntry, ConfigIsRight
  <2> QED BY <2>3 DEF i
<1> HIDE DEF First
<1>5. DOMAIN table = names
  BY <1>1, <1>3
<1> QED BY <1>4, <1>5 DEF H

LEMMA PatchesAreRight ==
    ASSUME iniFile \in Seq(Lines), NEW out, Lists(out, Wanted("patch")),
           NEW table, table = Ini!InsertAll(out, Ini!PatchEntry)
    PROVE  LET H == Ini!PatchHeaders
               names == {iniFile[i].name : i \in H}
           IN /\ DOMAIN table = names
              /\ \A x \in names : Ini!PatchSays(table[x], Ini!Min({i \in H : iniFile[i].name = x}))
<1> DEFINE H == Ini!PatchHeaders
           names == {iniFile[i].name : i \in H}
           First(x) == Ini!Min({k \in DOMAIN out : out[k].name = x})
<1>1. table = [x \in {out[k].name : k \in DOMAIN out} |-> Ini!PatchEntry(out[First(x)].fields)]
  BY DEF Ini!InsertAll
<1>2. Lists(out, H) /\ \A i \in H : iniFile[i].kind = "header"
  BY WantedHeaders DEF Wanted
<1> HIDE DEF H
<1>3. {out[k].name : k \in DOMAIN out} = names /\ \A x \in names : UsedFor(out, H, x)
  BY <1>2, ListedNames
<1>4. ASSUME NEW x \in names
      PROVE  Ini!PatchSays(table[x], Ini!Min({i \in H : iniFile[i].name = x}))
  <2> DEFINE fields == out[First(x)].fields
             i == Ini!Min({j \in H : iniFile[j].name = x})
  <2>1. fields \in Seq(IniKeys \X IniValues) /\ i \in 1..Len(iniFile) /\ Matches(fields, i)
    BY <1>3 DEF UsedFor
  <2>2. table[x] = Ini!PatchEntry(fields)
    BY <1>1, <1>3
  <2> HIDE DEF fields, i
  <2>3. Ini!PatchSays(table[x], i)
    BY <2>1, <2>2, PatchEntryIsRight
  <2> QED BY <2>3 DEF i
<1> HIDE DEF First
<1>5. DOMAIN table = names
  BY <1>1, <1>3
<1> QED BY <1>4, <1>5 DEF H

LEMMA QoLIsRight ==
    ASSUME QoLInv, NEW table, table = Ini!QoLTable(outQoL), NEW x \in Ini!QoLNames
    PROVE  Ini!QoLSays(table, x, QoLValue(x)) /\ DOMAIN table \subseteq Ini!QoLNames
<1>1. outQoL[x] = QoLValue(x)
  BY DEF QoLInv
<1> PICK value : value = QoLValue(x)
  OBVIOUS
<1>2. Ini!IsNumber(value[1]) <=> value[1] \in DOMAIN Ini!Begins
  BY NumbersAgree
<1>3. DOMAIN table \subseteq Ini!QoLNames
  BY DEF Ini!QoLTable
<1>4. /\ x \in DOMAIN table <=>
              value # Ini!Empty /\ (x \in {"ToggleKey", "Threshold"} => value[1] \in DOMAIN Ini!Begins)
      /\ x \in DOMAIN table => table[x] = Ini!QoLEntry(x, value)
  BY <1>1, <1>2 DEF Ini!QoLTable
<1>5. x = "ToggleKey" /\ x \in DOMAIN table => table[x] = <<"integer", Ini!Begins[value[1]].whole>>
  BY <1>4, NumbersAgree DEF Ini!QoLEntry
<1>6. x = "Threshold" /\ x \in DOMAIN table => table[x] = <<"real", Ini!Begins[value[1]].number>>
  BY <1>4, NumbersAgree DEF Ini!QoLEntry
<1>7. x \in {"DisableHooks", "Enabled"} /\ x \in DOMAIN table => table[x] = <<"boolean", Ini!IsTrue(value)>>
  BY <1>4 DEF Ini!QoLEntry, Ini!Flag, Ini!IsTrue
<1>8. /\ x \notin {"ToggleKey", "Threshold", "DisableHooks", "Enabled"} /\ x \in DOMAIN table =>
            table[x] = <<"string", value>>
  BY <1>4 DEF Ini!QoLEntry, Ini!Text
<1>9. Ini!QoLSays(table, x, value)
  BY <1>4, <1>5, <1>6, <1>7, <1>8 DEF Ini!QoLSays
<1> QED BY <1>3, <1>9

-----------------------------------------------------------------------------
(* LegacyIni: the parser's invariant. *)

ReadInv ==
    /\ iniFile \in Seq(Lines)
    /\ inPatchArea = (\E j \in 1..Len(iniFile) : iniFile[j].kind = "marker")
    /\ SectionInv
    /\ Lists(outSettings, Ended("setting"))
    /\ Lists(outConfigs, Ended("config"))
    /\ Lists(outPatches, Ended("patch"))
    /\ QoLInv

IniInv == IF built THEN Ini!MigrationKeepsTheFile ELSE ReadInv

\* What becomes of a list when a line ends the section, and when it does not.
LEMMA ListsAtBreak ==
    ASSUME iniFile \in Seq(Lines), NEW line \in Lines, iniFile' = Append(iniFile, line),
           line.kind \in IniBreaks, SectionInv, NEW kind \in {"setting", "config", "patch"},
           NEW out, Lists(out, Ended(kind)), NEW more,
           more = IF IsWritten(kind) THEN Append(out, section) ELSE out
    PROVE  \E S : S = Ended(kind)' /\ Lists(more, S)'
<1> PICK S : S = Wanted(kind)
  OBVIOUS
<1>1. Lists(more, S)
  BY FlushListsWanted
<1>2. line.kind # "pair"
  BY DEF IniBreaks
<1>3. Lists(more, S)'
  BY <1>1, <1>2, ListsStay
<1>4. S = Ended(kind)'
  BY EndedGrows
<1> QED BY <1>3, <1>4

LEMMA ListsBetween ==
    ASSUME iniFile \in Seq(Lines), NEW line \in Lines, iniFile' = Append(iniFile, line),
           line.kind \notin IniBreaks, NEW kind, NEW out, Lists(out, Ended(kind))
    PROVE  \E S : S = Ended(kind)' /\ Lists(out, S)'
<1> PICK S : S = Ended(kind)
  OBVIOUS
<1>1. Lists(out, S) /\ \A i \in S : ~Unbroken(i)
  BY DEF Ended
<1>2. Lists(out, S)'
  BY <1>1, ListsStay
<1>3. S = Ended(kind)'
  BY EndedGrows
<1> QED BY <1>2, <1>3

OutLists ==
    /\ Lists(outSettings, Ended("setting"))
    /\ Lists(outConfigs, Ended("config"))
    /\ Lists(outPatches, Ended("patch"))

LEMMA FlushIs ==
    ASSUME Ini!FlushSection
    PROVE  /\ outSettings' = IF IsWritten("setting") THEN Append(outSettings, section) ELSE outSettings
           /\ outConfigs' = IF IsWritten("config") THEN Append(outConfigs, section) ELSE outConfigs
           /\ outPatches' = IF IsWritten("patch") THEN Append(outPatches, section) ELSE outPatches
BY DEF Ini!FlushSection, Ini!FlushSettings, Ini!FlushConfigs, Ini!FlushPatches, IsWritten

LEMMA FlushKeepsLists ==
    ASSUME iniFile \in Seq(Lines), NEW line \in Lines, iniFile' = Append(iniFile, line),
           line.kind \in IniBreaks, SectionInv, OutLists, Ini!FlushSection
    PROVE  OutLists'
<1>1. Lists(outSettings, Ended("setting"))'
  <2> PICK out, more : out = outSettings /\ more = outSettings'
    OBVIOUS
  <2>1. Lists(out, Ended("setting")) /\ more = IF IsWritten("setting") THEN Append(out, section) ELSE out
    BY FlushIs DEF OutLists
  <2>2. PICK S : S = Ended("setting")' /\ Lists(more, S)'
    BY <2>1, ListsAtBreak
  <2> QED BY <2>2
<1>2. Lists(outConfigs, Ended("config"))'
  <2> PICK out, more : out = outConfigs /\ more = outConfigs'
    OBVIOUS
  <2>1. Lists(out, Ended("config")) /\ more = IF IsWritten("config") THEN Append(out, section) ELSE out
    BY FlushIs DEF OutLists
  <2>2. PICK S : S = Ended("config")' /\ Lists(more, S)'
    BY <2>1, ListsAtBreak
  <2> QED BY <2>2
<1>3. Lists(outPatches, Ended("patch"))'
  <2> PICK out, more : out = outPatches /\ more = outPatches'
    OBVIOUS
  <2>1. Lists(out, Ended("patch")) /\ more = IF IsWritten("patch") THEN Append(out, section) ELSE out
    BY FlushIs DEF OutLists
  <2>2. PICK S : S = Ended("patch")' /\ Lists(more, S)'
    BY <2>1, ListsAtBreak
  <2> QED BY <2>2
<1> QED BY <1>1, <1>2, <1>3 DEF OutLists

LEMMA LinesKeepLists ==
    ASSUME iniFile \in Seq(Lines), NEW line \in Lines, iniFile' = Append(iniFile, line),
           line.kind \notin IniBreaks, OutLists, UNCHANGED <<outSettings, outConfigs, outPatches>>
    PROVE  OutLists'
<1>1. Lists(outSettings, Ended("setting"))'
  <2> PICK out : out = outSettings
    OBVIOUS
  <2>1. Lists(out, Ended("setting"))
    BY DEF OutLists
  <2>2. PICK S : S = Ended("setting")' /\ Lists(out, S)'
    BY <2>1, ListsBetween
  <2> QED BY <2>2
<1>2. Lists(outConfigs, Ended("config"))'
  <2> PICK out : out = outConfigs
    OBVIOUS
  <2>1. Lists(out, Ended("config"))
    BY DEF OutLists
  <2>2. PICK S : S = Ended("config")' /\ Lists(out, S)'
    BY <2>1, ListsBetween
  <2> QED BY <2>2
<1>3. Lists(outPatches, Ended("patch"))'
  <2> PICK out : out = outPatches
    OBVIOUS
  <2>1. Lists(out, Ended("patch"))
    BY DEF OutLists
  <2>2. PICK S : S = Ended("patch")' /\ Lists(out, S)'
    BY <2>1, ListsBetween
  <2> QED BY <2>2
<1> QED BY <1>1, <1>2, <1>3 DEF OutLists

\* Which headers are open after one more line.
LEMMA OpenAfter ==
    ASSUME iniFile \in Seq(Lines), NEW line \in Lines, iniFile' = Append(iniFile, line),
           NEW i \in 1..Len(iniFile'), OpenAt(i)'
    PROVE  \/ i = Len(iniFile) + 1 /\ line.kind = "header" /\ iniFile'[i] = line
           \/ /\ i \in 1..Len(iniFile) /\ OpenAt(i) /\ Unbroken(i) /\ line.kind \notin IniBreaks
              /\ iniFile'[i] = iniFile[i] /\ KindOf(i)' = KindOf(i)
<1>1. /\ Len(iniFile') = Len(iniFile) + 1 /\ Len(iniFile) \in Nat
      /\ iniFile'[Len(iniFile) + 1] = line
  BY FileGrows
<1>2. CASE i = Len(iniFile) + 1
  BY <1>1, <1>2, LastLine
<1>3. CASE i # Len(iniFile) + 1
  <2>1. i \in 1..Len(iniFile)
    BY <1>1, <1>3
  <2> QED BY <2>1, HeadersStay DEF OpenAt
<1> QED BY <1>2, <1>3

AreaInv == inPatchArea = (\E j \in 1..Len(iniFile) : iniFile[j].kind = "marker")

LEMMA AreaStep ==
    ASSUME iniFile \in Seq(Lines), NEW line \in Lines, iniFile' = Append(iniFile, line), AreaInv,
           inPatchArea' = (inPatchArea \/ line.kind = "marker")
    PROVE  AreaInv'
<1>1. /\ Len(iniFile') = Len(iniFile) + 1 /\ Len(iniFile) \in Nat
      /\ \A i \in 1..Len(iniFile) : iniFile'[i] = iniFile[i]
      /\ iniFile'[Len(iniFile) + 1] = line
  BY FileGrows
<1>2. \A j : j \in 1..Len(iniFile) + 1 <=> j \in 1..Len(iniFile) \/ j = Len(iniFile) + 1
  BY <1>1
<1>3. (\E j \in 1..Len(iniFile') : iniFile'[j].kind = "marker")
      <=> (\E j \in 1..Len(iniFile) : iniFile[j].kind = "marker") \/ line.kind = "marker"
  BY <1>1, <1>2
<1> QED BY <1>3 DEF AreaInv

\* A header opens a section of its own, without a field.
LEMMA HeaderOpens ==
    ASSUME iniFile \in Seq(Lines), NEW line \in Lines, iniFile' = Append(iniFile, line), AreaInv,
           line.kind = "header",
           section' = [kind |-> Ini!HeaderKind(line.prefix), name |-> line.name, fields |-> <<>>]
    PROVE  SectionInv'
<1> PICK n \in Nat : n = Len(iniFile) + 1
  OBVIOUS
<1>1. iniFile'[n] = line /\ n \in 1..Len(iniFile') /\ Len(iniFile') = n
  BY FileGrows
<1>2. OpenAt(n)' /\ KindOf(n)' = Ini!HeaderKind(line.prefix)
  BY LastLine DEF AreaInv
<1>3. Matches(<<>>, n)'
  BY MatchesNothing
<1>4. section' \in IniSections
  <2>1. line.name \in IniTitles
    BY DEF IniTitles, IniNames
  <2>2. Ini!HeaderKind(line.prefix) \in IniKinds
    BY DEF Ini!HeaderKind, IniKinds
  <2>3. <<>> \in Seq(IniKeys \X IniValues)
    OBVIOUS
  <2> QED BY <2>1, <2>2, <2>3 DEF IniSections
<1>5. ASSUME NEW i \in 1..Len(iniFile'), OpenAt(i)' PROVE i = n
  BY <1>5, OpenAfter DEF IniBreaks
<1>6. /\ section'.kind = KindOf(n)' /\ section'.name = line.name /\ section'.fields = <<>>
  BY <1>2
<1>7. ASSUME NEW i \in 1..Len(iniFile'), OpenAt(i)'
      PROVE  /\ section'.kind = KindOf(i)' /\ section'.name = iniFile'[i].name
             /\ Matches(section.fields, i)'
  BY <1>1, <1>3, <1>5, <1>6, <1>7
<1> QED BY <1>1, <1>2, <1>4, <1>7 DEF SectionInv

LEMMA MarkerCloses ==
    ASSUME iniFile \in Seq(Lines), NEW line \in Lines, iniFile' = Append(iniFile, line),
           line.kind = "marker", section' = Ini!NoSection
    PROVE  SectionInv'
<1>1. ASSUME NEW i \in 1..Len(iniFile'), OpenAt(i)' PROVE FALSE
  BY <1>1, OpenAfter DEF IniBreaks
<1>2. section' \in IniSections /\ section'.kind = "none"
  <2>1. <<>> \in Seq(IniKeys \X IniValues)
    OBVIOUS
  <2> QED BY <2>1 DEF Ini!NoSection, IniSections, IniKinds, IniTitles
<1> QED BY <1>1, <1>2 DEF SectionInv

LEMMA OtherStays ==
    ASSUME iniFile \in Seq(Lines), NEW line \in Lines, iniFile' = Append(iniFile, line),
           line.kind = "other", section' = section, SectionInv
    PROVE  SectionInv'
<1> PICK s : s = section
  OBVIOUS
<1>1. ASSUME NEW i \in 1..Len(iniFile'), OpenAt(i)'
      PROVE  /\ s.kind = KindOf(i)' /\ s.name = iniFile'[i].name
             /\ s.kind \notin {"none", "qol"} => Matches(s.fields, i)'
  <2>1. /\ i \in 1..Len(iniFile) /\ OpenAt(i) /\ iniFile'[i] = iniFile[i] /\ KindOf(i)' = KindOf(i)
    BY <1>1, OpenAfter
  <2>2. /\ s.kind = KindOf(i) /\ s.name = iniFile[i].name
        /\ s.kind \notin {"none", "qol"} => Matches(s.fields, i)
    BY <2>1 DEF SectionInv
  <2>3. s.kind \notin {"none", "qol"} => Matches(s.fields, i)'
    BY <2>1, <2>2, MatchesStays
  <2> QED BY <2>1, <2>2, <2>3
<1>2. s.kind # "none" => \E i \in 1..Len(iniFile') : OpenAt(i)'
  <2> SUFFICES ASSUME s.kind # "none" PROVE \E i \in 1..Len(iniFile') : OpenAt(i)'
    OBVIOUS
  <2>1. PICK i \in 1..Len(iniFile) : OpenAt(i)
    BY DEF SectionInv
  <2>2. OpenAt(i)' /\ i \in 1..Len(iniFile')
    BY <2>1, HeadersStay, FileGrows DEF IniBreaks
  <2> QED BY <2>2
<1> QED BY <1>1, <1>2 DEF SectionInv

\* A pair is one more field of the open section.
LEMMA PairExtends ==
    ASSUME iniFile \in Seq(Lines), NEW line \in Lines, iniFile' = Append(iniFile, line),
           line.kind = "pair", SectionInv,
           section' = IF section.kind \in {"none", "qol"} THEN section
                      ELSE [section EXCEPT !.fields = Append(@, <<line.key, line.value>>)]
    PROVE  SectionInv'
<1> PICK s : s = section
  OBVIOUS
<1> PICK more : more = IF s.kind \in {"none", "qol"} THEN s.fields
                       ELSE Append(s.fields, <<line.key, line.value>>)
  OBVIOUS
<1>1. s \in IniSections /\ s.fields \in Seq(IniKeys \X IniValues)
  BY DEF SectionInv, IniSections
<1>2. line.key \in IniKeys /\ line.value \in IniValues
  BY DEF IniKeys, IniValues
<1>3. more \in Seq(IniKeys \X IniValues)
  BY <1>1, <1>2
<1>4. /\ section' \in IniSections /\ section'.kind = s.kind /\ section'.name = s.name
      /\ section'.fields = more
  <2>1. CASE s.kind \in {"none", "qol"}
    BY <1>1, <2>1
  <2>2. CASE s.kind \notin {"none", "qol"}
    <3>1. section' = [s EXCEPT !.fields = more]
      BY <2>2
    <3> QED BY <1>1, <1>3, <3>1 DEF IniSections
  <2> QED BY <2>1, <2>2
<1>5. ASSUME NEW i \in 1..Len(iniFile'), OpenAt(i)'
      PROVE  /\ s.kind = KindOf(i)' /\ s.name = iniFile'[i].name
             /\ s.kind \notin {"none", "qol"} => Matches(more, i)'
  <2>1. /\ i \in 1..Len(iniFile) /\ OpenAt(i) /\ Unbroken(i) /\ iniFile'[i] = iniFile[i] /\ KindOf(i)' = KindOf(i)
    BY <1>5, OpenAfter
  <2>2. /\ s.kind = KindOf(i) /\ s.name = iniFile[i].name
        /\ s.kind \notin {"none", "qol"} => Matches(s.fields, i)
    BY <2>1 DEF SectionInv
  <2>3. ASSUME s.kind \notin {"none", "qol"} PROVE Matches(more, i)'
    <3>1. more = Append(s.fields, <<line.key, line.value>>)
      BY <2>3
    <3> PICK fields : fields = s.fields
      OBVIOUS
    <3>2. fields \in Seq(IniKeys \X IniValues) /\ Matches(fields, i)
      BY <1>1, <2>2, <2>3
    <3>3. Matches(Append(fields, <<line.key, line.value>>), i)'
      BY <2>1, <3>2, MatchesGrows
    <3> QED BY <3>1, <3>3
  <2> QED BY <2>1, <2>2, <2>3
<1>6. s.kind # "none" => \E i \in 1..Len(iniFile') : OpenAt(i)'
  <2> SUFFICES ASSUME s.kind # "none" PROVE \E i \in 1..Len(iniFile') : OpenAt(i)'
    OBVIOUS
  <2>1. PICK i \in 1..Len(iniFile) : OpenAt(i)
    BY DEF SectionInv
  <2>2. OpenAt(i)' /\ i \in 1..Len(iniFile')
    BY <2>1, HeadersStay, FileGrows DEF IniBreaks
  <2> QED BY <2>2
<1> QED BY <1>4, <1>5, <1>6 DEF SectionInv

\* A pair is the value of a quality-of-life key when its section is the open one.
LEMMA GivenValue ==
    ASSUME iniFile \in Seq(Lines), SectionInv, NEW x
    PROVE  (\E i \in QoLHeaders(x) : Unbroken(i)) <=> section.kind = "qol" /\ section.name = x
<1>0. DOMAIN iniFile = 1..Len(iniFile)
  OBVIOUS
<1>1. ASSUME NEW i \in QoLHeaders(x), Unbroken(i) PROVE section.kind = "qol" /\ section.name = x
  <2>1. /\ i \in 1..Len(iniFile) /\ OpenAt(i) /\ iniFile[i].name = x /\ iniFile[i].prefix = "qol"
    BY <1>0, <1>1 DEF QoLHeaders, Ini!HeadersOf, OpenAt
  <2> QED BY <2>1 DEF SectionInv, KindOf
<1>2. ASSUME section.kind = "qol", section.name = x PROVE \E i \in QoLHeaders(x) : Unbroken(i)
  <2>1. PICK i \in 1..Len(iniFile) : OpenAt(i)
    BY <1>2 DEF SectionInv
  <2>2. KindOf(i) = "qol" /\ iniFile[i].name = x /\ iniFile[i].kind = "header" /\ Unbroken(i)
    BY <1>2, <2>1 DEF SectionInv, OpenAt
  <2>3. iniFile[i].prefix = "qol"
    BY <2>2 DEF KindOf
  <2> QED BY <1>0, <2>2, <2>3 DEF QoLHeaders, Ini!HeadersOf
<1> QED BY <1>1, <1>2

LEMMA QoLSame ==
    ASSUME iniFile \in Seq(Lines), NEW line \in Lines, iniFile' = Append(iniFile, line),
           line.kind # "pair", QoLInv, outQoL' = outQoL
    PROVE  QoLInv'
<1>1. ASSUME NEW x \in Ini!QoLNames PROVE QoLValue(x)' = QoLValue(x)
  BY QoLGrows
<1>2. outQoL' = [x \in Ini!QoLNames |-> QoLValue(x)']
  BY <1>1 DEF QoLInv
<1> QED BY <1>2 DEF QoLInv

LEMMA QoLStep ==
    ASSUME iniFile \in Seq(Lines), NEW line \in Lines, iniFile' = Append(iniFile, line),
           line.kind = "pair", SectionInv, QoLInv,
           outQoL' = IF section.kind = "qol" /\ line.key = "Value" /\ section.name \in Ini!QoLNames
                     THEN [outQoL EXCEPT ![section.name] = line.value] ELSE outQoL
    PROVE  QoLInv'
<1>1. ASSUME NEW x \in Ini!QoLNames
      PROVE  QoLValue(x)' = IF section.kind = "qol" /\ line.key = "Value" /\ section.name = x
                            THEN line.value ELSE QoLValue(x)
  <2>1. PICK given : given = (line.kind = "pair" /\ line.key = "Value" /\ \E i \in QoLHeaders(x) : Unbroken(i))
    OBVIOUS
  <2>2. QoLValue(x)' = IF given THEN line.value ELSE QoLValue(x)
    BY <2>1, QoLGrows
  <2>3. given <=> section.kind = "qol" /\ line.key = "Value" /\ section.name = x
    BY <2>1, GivenValue
  <2> QED BY <2>2, <2>3
<1>2. outQoL = [x \in Ini!QoLNames |-> QoLValue(x)]
  BY DEF QoLInv
<1>3. outQoL' = [x \in Ini!QoLNames |-> QoLValue(x)']
  BY <1>1, <1>2
<1> QED BY <1>3 DEF QoLInv

LEMMA ReadStep ==
    ASSUME ReadInv, NEW line \in Lines,
           Ini!ReadMarker(line) \/ Ini!ReadOther(line) \/ Ini!ReadHeader(line) \/ Ini!ReadPair(line)
    PROVE  ReadInv' /\ ~built'
<1>1. iniFile' = Append(iniFile, line) /\ ~built'
  BY DEF Ini!ReadMarker, Ini!ReadOther, Ini!ReadHeader, Ini!ReadPair, Ini!GetLine
<1>2. iniFile \in Seq(Lines) /\ iniFile' \in Seq(Lines) /\ AreaInv /\ SectionInv /\ OutLists /\ QoLInv
  BY <1>1 DEF ReadInv, AreaInv, OutLists
<1>3. CASE Ini!ReadMarker(line)
  <2>1. /\ line.kind = "marker" /\ Ini!FlushSection /\ section' = Ini!NoSection
        /\ inPatchArea' = TRUE /\ outQoL' = outQoL
    BY <1>3 DEF Ini!ReadMarker
  <2>2. AreaInv'
    BY <1>1, <1>2, <2>1, AreaStep
  <2>3. SectionInv'
    BY <1>1, <1>2, <2>1, MarkerCloses
  <2>4. OutLists'
    BY <1>1, <1>2, <2>1, FlushKeepsLists DEF IniBreaks
  <2>5. QoLInv'
    BY <1>1, <1>2, <2>1, QoLSame
  <2> QED BY <1>1, <1>2, <2>2, <2>3, <2>4, <2>5 DEF ReadInv, AreaInv, OutLists
<1>4. CASE Ini!ReadOther(line)
  <2>1. /\ line.kind = "other" /\ section' = section /\ inPatchArea' = inPatchArea /\ outQoL' = outQoL
        /\ UNCHANGED <<outSettings, outConfigs, outPatches>>
    BY <1>4 DEF Ini!ReadOther
  <2>2. AreaInv'
    BY <1>1, <1>2, <2>1, AreaStep DEF AreaInv
  <2>3. SectionInv'
    BY <1>1, <1>2, <2>1, OtherStays
  <2>4. OutLists'
    BY <1>1, <1>2, <2>1, LinesKeepLists DEF IniBreaks
  <2>5. QoLInv'
    BY <1>1, <1>2, <2>1, QoLSame
  <2> QED BY <1>1, <1>2, <2>2, <2>3, <2>4, <2>5 DEF ReadInv, AreaInv, OutLists
<1>5. CASE Ini!ReadHeader(line)
  <2>1. /\ line.kind = "header" /\ Ini!FlushSection
        /\ section' = [kind |-> Ini!HeaderKind(line.prefix), name |-> line.name, fields |-> <<>>]
        /\ inPatchArea' = inPatchArea /\ outQoL' = outQoL
    BY <1>5 DEF Ini!ReadHeader
  <2>2. AreaInv'
    BY <1>1, <1>2, <2>1, AreaStep DEF AreaInv
  <2>3. SectionInv'
    BY <1>1, <1>2, <2>1, HeaderOpens
  <2>4. OutLists'
    BY <1>1, <1>2, <2>1, FlushKeepsLists DEF IniBreaks
  <2>5. QoLInv'
    BY <1>1, <1>2, <2>1, QoLSame
  <2> QED BY <1>1, <1>2, <2>2, <2>3, <2>4, <2>5 DEF ReadInv, AreaInv, OutLists
<1>6. CASE Ini!ReadPair(line)
  <2>1. /\ line.kind = "pair" /\ inPatchArea' = inPatchArea
        /\ section' = IF section.kind \in {"none", "qol"} THEN section
                      ELSE [section EXCEPT !.fields = Append(@, <<line.key, line.value>>)]
        /\ outQoL' = IF section.kind = "qol" /\ line.key = "Value" /\ section.name \in Ini!QoLNames
                     THEN [outQoL EXCEPT ![section.name] = line.value] ELSE outQoL
        /\ UNCHANGED <<outSettings, outConfigs, outPatches>>
    BY <1>6 DEF Ini!ReadPair
  <2>2. AreaInv'
    BY <1>1, <1>2, <2>1, AreaStep DEF AreaInv
  <2>3. SectionInv'
    BY <1>1, <1>2, <2>1, PairExtends
  <2>4. OutLists'
    BY <1>1, <1>2, <2>1, LinesKeepLists DEF IniBreaks
  <2>5. QoLInv'
    BY <1>1, <1>2, <2>1, QoLStep
  <2> QED BY <1>1, <1>2, <2>2, <2>3, <2>4, <2>5 DEF ReadInv, AreaInv, OutLists
<1> QED BY <1>3, <1>4, <1>5, <1>6

\* What MigrationKeepsTheFile says of a table, whether it is the one built or not.
FileSays(table) ==
    LET NamesOf(H) == {iniFile[i].name : i \in H}
        At(H, x) == Ini!Min({i \in H : iniFile[i].name = x})
    IN /\ DOMAIN table.settings = NamesOf(Ini!SettingHeaders)
       /\ \A x \in NamesOf(Ini!SettingHeaders) : Ini!SettingSays(table.settings[x], At(Ini!SettingHeaders, x))
       /\ DOMAIN table.config = NamesOf(Ini!ConfigHeaders)
       /\ \A x \in NamesOf(Ini!ConfigHeaders) : ConfigIsRight(table.config[x], At(Ini!ConfigHeaders, x))
       /\ DOMAIN table.patches = NamesOf(Ini!PatchHeaders)
       /\ \A x \in NamesOf(Ini!PatchHeaders) : Ini!PatchSays(table.patches[x], At(Ini!PatchHeaders, x))
       /\ DOMAIN table.qol \subseteq Ini!QoLNames
       /\ \A x \in Ini!QoLNames : Ini!QoLSays(table.qol, x, QoLValue(x))

LEMMA FileSaysIt == Ini!MigrationKeepsTheFile <=> (built => FileSays(tomlTable))
BY DEF Ini!MigrationKeepsTheFile, FileSays, ConfigIsRight, Ini!Text, QoLValue, QoLPlaces, QoLHeaders

LEMMA FileStillSays ==
    ASSUME iniFile' = iniFile, NEW table, FileSays(table)
    PROVE  FileSays(table)'
<1>1. ASSUME NEW i, NEW x PROVE Ini!PairsOf(i, x)' = Ini!PairsOf(i, x)
  BY DEF Ini!PairsOf
<1>2. ASSUME NEW i, NEW x PROVE Ini!LastOf(i, x)' = Ini!LastOf(i, x)
  BY <1>1 DEF Ini!LastOf
<1>3. ASSUME NEW S PROVE Ini!HeadersOf(S)' = Ini!HeadersOf(S)
  BY DEF Ini!HeadersOf
<1>4. ASSUME NEW i PROVE Ini!BehindMarker(i)' <=> Ini!BehindMarker(i)
  BY DEF Ini!BehindMarker
<1>5. /\ Ini!SettingHeaders' = Ini!SettingHeaders
      /\ Ini!ConfigHeaders' = Ini!ConfigHeaders
      /\ Ini!PatchHeaders' = Ini!PatchHeaders
  <2>1. Ini!SettingHeaders' = Ini!SettingHeaders
    BY <1>2, <1>3, <1>4 DEF Ini!SettingHeaders
  <2>2. Ini!ConfigHeaders' = Ini!ConfigHeaders
    BY <1>2, <1>3 DEF Ini!ConfigHeaders
  <2>3. Ini!PatchHeaders' = Ini!PatchHeaders
    BY <1>3, <1>4 DEF Ini!PatchHeaders
  <2> QED BY <2>1, <2>2, <2>3
<1>6. ASSUME NEW x PROVE QoLValue(x)' = QoLValue(x)
  <2>1. QoLHeaders(x)' = QoLHeaders(x)
    BY <1>3 DEF QoLHeaders
  <2>2. QoLPlaces(x)' = QoLPlaces(x)
    BY <1>1, <2>1 DEF QoLPlaces
  <2> QED BY <2>2 DEF QoLValue
<1>7. ASSUME NEW t, NEW i PROVE Ini!SettingSays(t, i)' <=> Ini!SettingSays(t, i)
  BY <1>2 DEF Ini!SettingSays
<1>8. ASSUME NEW t, NEW i PROVE ConfigIsRight(t, i)' <=> ConfigIsRight(t, i)
  BY <1>2 DEF ConfigIsRight
<1>9. ASSUME NEW t, NEW i PROVE Ini!PatchSays(t, i)' <=> Ini!PatchSays(t, i)
  <2>1. Ini!KeysOf(i)' = Ini!KeysOf(i)
    BY <1>1 DEF Ini!KeysOf
  <2> QED BY <1>1, <1>2, <2>1 DEF Ini!PatchSays
<1> DEFINE NamesOf(H) == {iniFile[i].name : i \in H}
           At(H, x) == Ini!Min({i \in H : iniFile[i].name = x})
<1>10. /\ DOMAIN table.settings = NamesOf(Ini!SettingHeaders)'
       /\ DOMAIN table.config = NamesOf(Ini!ConfigHeaders)'
       /\ DOMAIN table.patches = NamesOf(Ini!PatchHeaders)'
       /\ NamesOf(Ini!SettingHeaders)' = NamesOf(Ini!SettingHeaders)
       /\ NamesOf(Ini!ConfigHeaders)' = NamesOf(Ini!ConfigHeaders)
       /\ NamesOf(Ini!PatchHeaders)' = NamesOf(Ini!PatchHeaders)
  BY <1>5 DEF FileSays
<1>11. ASSUME NEW x \in NamesOf(Ini!SettingHeaders) PROVE Ini!SettingSays(table.settings[x], At(Ini!SettingHeaders, x))'
  <2> PICK i : i = At(Ini!SettingHeaders, x)
    OBVIOUS
  <2>1. Ini!SettingSays(table.settings[x], i)
    BY DEF FileSays
  <2> PICK t : t = table.settings[x]
    OBVIOUS
  <2>2. Ini!SettingSays(t, i)'
    BY <1>7, <1>8, <1>9, <2>1
  <2>3. At(Ini!SettingHeaders, x)' = i
    BY <1>5
  <2> QED BY <2>2, <2>3
<1>12. ASSUME NEW x \in NamesOf(Ini!ConfigHeaders) PROVE ConfigIsRight(table.config[x], At(Ini!ConfigHeaders, x))'
  <2> PICK i : i = At(Ini!ConfigHeaders, x)
    OBVIOUS
  <2>1. ConfigIsRight(table.config[x], i)
    BY DEF FileSays
  <2> PICK t : t = table.config[x]
    OBVIOUS
  <2>2. ConfigIsRight(t, i)'
    BY <1>7, <1>8, <1>9, <2>1
  <2>3. At(Ini!ConfigHeaders, x)' = i
    BY <1>5
  <2> QED BY <2>2, <2>3
<1>13. ASSUME NEW x \in NamesOf(Ini!PatchHeaders) PROVE Ini!PatchSays(table.patches[x], At(Ini!PatchHeaders, x))'
  <2> PICK i : i = At(Ini!PatchHeaders, x)
    OBVIOUS
  <2>1. Ini!PatchSays(table.patches[x], i)
    BY DEF FileSays
  <2> PICK t : t = table.patches[x]
    OBVIOUS
  <2>2. Ini!PatchSays(t, i)'
    BY <1>7, <1>8, <1>9, <2>1
  <2>3. At(Ini!PatchHeaders, x)' = i
    BY <1>5
  <2> QED BY <2>2, <2>3
<1>14. ASSUME NEW x \in Ini!QoLNames PROVE Ini!QoLSays(table.qol, x, QoLValue(x)')
  BY <1>6 DEF FileSays
<1> QED BY <1>10, <1>11, <1>12, <1>13, <1>14 DEF FileSays

\* What BuildToml makes of the wanted sections is what the file says.
LEMMA TableIsRight ==
    ASSUME iniFile \in Seq(Lines), QoLInv,
           NEW settings, Lists(settings, Wanted("setting")), NEW configs, Lists(configs, Wanted("config")),
           NEW patches, Lists(patches, Wanted("patch")),
           NEW table, table = Ini!BuildToml(settings, configs, outQoL, patches)
    PROVE  FileSays(table)
<1>1. /\ table.settings = Ini!InsertAll(settings, Ini!SettingEntry)
      /\ table.config = Ini!InsertAll(configs, Ini!ConfigEntry)
      /\ table.patches = Ini!InsertAll(patches, Ini!PatchEntry)
      /\ table.qol = Ini!QoLTable(outQoL)
  BY DEF Ini!BuildToml
<1> DEFINE NamesOf(H) == {iniFile[i].name : i \in H}
           At(H, x) == Ini!Min({i \in H : iniFile[i].name = x})
<1>2. /\ DOMAIN table.settings = NamesOf(Ini!SettingHeaders)
      /\ \A x \in NamesOf(Ini!SettingHeaders) : Ini!SettingSays(table.settings[x], At(Ini!SettingHeaders, x))
  BY <1>1, SettingsAreRight
<1>3. /\ DOMAIN table.config = NamesOf(Ini!ConfigHeaders)
      /\ \A x \in NamesOf(Ini!ConfigHeaders) : ConfigIsRight(table.config[x], At(Ini!ConfigHeaders, x))
  BY <1>1, ConfigsAreRight
<1>4. /\ DOMAIN table.patches = NamesOf(Ini!PatchHeaders)
      /\ \A x \in NamesOf(Ini!PatchHeaders) : Ini!PatchSays(table.patches[x], At(Ini!PatchHeaders, x))
  BY <1>1, PatchesAreRight
<1>5. /\ DOMAIN table.qol \subseteq Ini!QoLNames
      /\ \A x \in Ini!QoLNames : Ini!QoLSays(table.qol, x, QoLValue(x))
  <2>1. "Mode" \in Ini!QoLNames
    BY DEF Ini!QoLNames
  <2> QED BY <1>1, <2>1, QoLIsRight
<1> QED BY <1>2, <1>3, <1>4, <1>5 DEF FileSays

LEMMA BuildStep ==
    ASSUME ReadInv, Ini!Build
    PROVE  Ini!MigrationKeepsTheFile'
<1> PICK settings, configs, patches, table :
       /\ settings = Ini!FlushSettings /\ configs = Ini!FlushConfigs /\ patches = Ini!FlushPatches
       /\ table = tomlTable'
  OBVIOUS
<1>1. iniFile' = iniFile /\ table = Ini!BuildToml(settings, configs, outQoL, patches)
  BY DEF Ini!Build
<1>2. /\ iniFile \in Seq(Lines) /\ SectionInv /\ QoLInv
      /\ Lists(outSettings, Ended("setting")) /\ Lists(outConfigs, Ended("config"))
      /\ Lists(outPatches, Ended("patch"))
  BY DEF ReadInv
<1>3. Lists(settings, Wanted("setting"))
  <2>1. settings = IF IsWritten("setting") THEN Append(outSettings, section) ELSE outSettings
    BY DEF Ini!FlushSettings, IsWritten
  <2> QED BY <1>2, <2>1, FlushListsWanted
<1>4. Lists(configs, Wanted("config"))
  <2>1. configs = IF IsWritten("config") THEN Append(outConfigs, section) ELSE outConfigs
    BY DEF Ini!FlushConfigs, IsWritten
  <2> QED BY <1>2, <2>1, FlushListsWanted
<1>5. Lists(patches, Wanted("patch"))
  <2>1. patches = IF IsWritten("patch") THEN Append(outPatches, section) ELSE outPatches
    BY DEF Ini!FlushPatches, IsWritten
  <2> QED BY <1>2, <2>1, FlushListsWanted
<1>6. FileSays(table)
  BY <1>1, <1>2, <1>3, <1>4, <1>5, TableIsRight
<1>7. FileSays(table)'
  BY <1>1, <1>6, FileStillSays
<1>8. FileSays(tomlTable)'
  BY <1>7
<1>9. Ini!MigrationKeepsTheFile' <=> (built' => FileSays(tomlTable)')
  BY FileSaysIt, PTL
<1> QED BY <1>8, <1>9

LEMMA IniInitInv == Ini!Init => IniInv
<1> SUFFICES ASSUME Ini!Init PROVE IniInv
  OBVIOUS
<1>1. /\ iniFile = <<>> /\ Len(iniFile) = 0 /\ section = Ini!NoSection /\ inPatchArea = FALSE /\ ~built
      /\ outSettings = <<>> /\ outConfigs = <<>> /\ outPatches = <<>>
      /\ outQoL = [x \in Ini!QoLNames |-> Ini!Empty]
  BY DEF Ini!Init
<1>2. iniFile \in Seq(Lines) /\ \A i : i \notin 1..Len(iniFile)
  BY <1>1
<1>3. section \in IniSections /\ section.kind = "none"
  <2>1. <<>> \in Seq(IniKeys \X IniValues)
    OBVIOUS
  <2> QED BY <1>1, <2>1 DEF Ini!NoSection, IniSections, IniKinds, IniTitles
<1>4. SectionInv
  BY <1>2, <1>3 DEF SectionInv
<1>5. ASSUME NEW kind PROVE Lists(<<>>, Ended(kind))
  <2>1. Ended(kind) = {}
    BY <1>2 DEF Ended, Wanted
  <2>2. \A x : EntriesOf(<<>>, x) = {} /\ Named({}, x) = {}
    BY DEF EntriesOf, Named
  <2>3. <<>> \in Seq(IniSections)
    OBVIOUS
  <2> QED BY <2>1, <2>2, <2>3 DEF Lists, FirstMatches
<1>6. QoLInv
  <2>1. \A x : QoLPlaces(x) = {}
    BY <1>2, QoLInFile
  <2> QED BY <1>1, <2>1 DEF QoLInv, QoLValue
<1> QED BY <1>1, <1>2, <1>4, <1>5, <1>6 DEF IniInv, ReadInv

LEMMA IniStays == IniInv /\ UNCHANGED Ini!vars => IniInv'
<1> SUFFICES ASSUME IniInv, UNCHANGED Ini!vars PROVE IniInv'
  OBVIOUS
<1>1. /\ iniFile' = iniFile /\ section' = section /\ inPatchArea' = inPatchArea /\ outSettings' = outSettings
      /\ outConfigs' = outConfigs /\ outQoL' = outQoL /\ outPatches' = outPatches /\ built' = built
      /\ tomlTable' = tomlTable
  BY DEF Ini!vars
<1>2. CASE built
  <2> PICK table : table = tomlTable
    OBVIOUS
  <2>1. FileSays(table)
    BY <1>2, FileSaysIt DEF IniInv
  <2>2. FileSays(table)'
    BY <1>1, <2>1, FileStillSays
  <2>3. Ini!MigrationKeepsTheFile' <=> (built' => FileSays(tomlTable)')
    BY FileSaysIt, PTL
  <2> QED BY <1>1, <1>2, <2>2, <2>3 DEF IniInv
<1>3. CASE ~built
  <2>1. ReadInv
    BY <1>3 DEF IniInv
  <2>3. ASSUME NEW i PROVE (OpenAt(i)' <=> OpenAt(i)) /\ (Unbroken(i)' <=> Unbroken(i)) /\ KindOf(i)' = KindOf(i)
    BY <1>1 DEF OpenAt, Unbroken, KindOf, Ini!BehindMarker
  <2>4. ASSUME NEW i, NEW x PROVE Ini!PairsOf(i, x)' = Ini!PairsOf(i, x)
    BY <1>1 DEF Ini!PairsOf
  <2>5. ASSUME NEW fields, NEW i PROVE Matches(fields, i)' <=> Matches(fields, i)
    BY <1>1, <2>4 DEF Matches, SamePairs
  <2>6. ASSUME NEW kind PROVE Ended(kind)' = Ended(kind)
    <3>1. \A i : Ini!LastOf(i, "Value")' = Ini!LastOf(i, "Value")
      BY <1>1, <2>4 DEF Ini!LastOf
    <3> QED BY <1>1, <2>3, <3>1 DEF Ended, Wanted
  <2>7. ASSUME NEW out, NEW S, Lists(out, S) PROVE Lists(out, S)'
    <3>1. ASSUME NEW x \in IniTitles PROVE FirstMatches(out, S, x)'
      <4>1. FirstMatches(out, S, x)
        BY <2>7 DEF Lists
      <4>2. Named(S, x)' = Named(S, x) /\ EntriesOf(out, x)' = EntriesOf(out, x)
        BY <1>1 DEF Named, EntriesOf
      <4> PICK i, fields : i = Ini!Min(Named(S, x)) /\ fields = out[Ini!Min(EntriesOf(out, x))].fields
        OBVIOUS
      <4>3. Matches(fields, i)' <=> Matches(fields, i)
        BY <2>5
      <4> QED BY <4>1, <4>2, <4>3 DEF FirstMatches
    <3> QED BY <1>1, <2>7, <3>1 DEF Lists
  <2>8. SectionInv'
    <3> PICK s : s = section
      OBVIOUS
    <3>1. SectionInv
      BY <2>1 DEF ReadInv
    <3>2. ASSUME NEW i \in 1..Len(iniFile), OpenAt(i)'
          PROVE  /\ s.kind = KindOf(i)' /\ s.name = iniFile[i].name
                 /\ s.kind \notin {"none", "qol"} => Matches(s.fields, i)'
      BY <2>3, <2>5, <3>1, <3>2 DEF SectionInv
    <3>3. s.kind # "none" => \E i \in 1..Len(iniFile) : OpenAt(i)'
      BY <2>3, <3>1 DEF SectionInv
    <3> QED BY <1>1, <3>1, <3>2, <3>3 DEF SectionInv
  <2>9. OutLists'
    <3> PICK settings, configs, patches, s, c, p :
           /\ settings = outSettings /\ configs = outConfigs /\ patches = outPatches
           /\ s = Ended("setting") /\ c = Ended("config") /\ p = Ended("patch")
      OBVIOUS
    <3>1. Lists(settings, s) /\ Lists(configs, c) /\ Lists(patches, p)
      BY <2>1 DEF ReadInv
    <3>2. Lists(settings, s)' /\ Lists(configs, c)' /\ Lists(patches, p)'
      BY <2>7, <3>1
    <3>3. Ended("setting")' = s /\ Ended("config")' = c /\ Ended("patch")' = p
      BY <2>6
    <3> QED BY <1>1, <3>2, <3>3 DEF OutLists
  <2>10. QoLInv'
    <3>1. \A x : QoLValue(x)' = QoLValue(x)
      BY <1>1, <2>4 DEF QoLValue, QoLPlaces, QoLHeaders, Ini!HeadersOf
    <3>2. outQoL' = [x \in Ini!QoLNames |-> QoLValue(x)']
      BY <1>1, <2>1, <3>1 DEF ReadInv, QoLInv
    <3> QED BY <3>2 DEF QoLInv
  <2>2. ReadInv'
    BY <1>1, <2>1, <2>8, <2>9, <2>10 DEF ReadInv, OutLists
  <2> QED BY <1>1, <1>3, <2>2 DEF IniInv
<1> QED BY <1>2, <1>3

LEMMA IniStep == IniInv /\ [Ini!Next]_Ini!vars => IniInv'
<1> SUFFICES ASSUME IniInv, Ini!Next PROVE IniInv'
  BY IniStays
<1>1. ~built
  BY DEF Ini!Next, Ini!Build, Ini!ReadMarker, Ini!ReadOther, Ini!ReadHeader, Ini!ReadPair, Ini!GetLine
<1>2. ReadInv
  BY <1>1 DEF IniInv
<1>3. CASE Ini!Build
  <2>1. built'
    BY <1>3 DEF Ini!Build
  <2> QED BY <1>2, <1>3, <2>1, BuildStep DEF IniInv
<1>4. ASSUME NEW line \in Lines,
             Ini!ReadMarker(line) \/ Ini!ReadOther(line) \/ Ini!ReadHeader(line) \/ Ini!ReadPair(line)
      PROVE  IniInv'
  BY <1>2, <1>4, ReadStep DEF IniInv
<1> QED BY <1>3, <1>4 DEF Ini!Next

\* For files of any length and lines of any names, keys and values, the migrated table
\* says of every section what the old file says: nothing is carried from one section
\* into the next, dropped or taken from the wrong area (migration.cpp, ParseOldINI and
\* BuildToml).
THEOREM MigrationIsFaithful == ComponentsSpec => []MigrationKeepsTheFile
<1> DEFINE Inv == subject = "ini" => IniInv
<1>1. ComponentsInit => Inv
  BY IniInitInv DEF ComponentsInit
<1>2. Inv /\ [ComponentsNext]_all => Inv'
  BY SubjectStays, SubjectSteps, IniStep
<1>3. Inv => MigrationKeepsTheFile
  BY DEF MigrationKeepsTheFile, IniInv, Ini!MigrationKeepsTheFile
<1> QED BY <1>1, <1>2, <1>3, PTL DEF ComponentsSpec

-----------------------------------------------------------------------------
(* CodeScan: what is changed in the code. *)

InSleep(a) == \E i \in Scan!Places(exe, Sleep) : a \in Scan!Covered(i, Sleep)
InFix(a) ==
    \E k \in DOMAIN Fixes : \E i \in Scan!Places(exe, Fixes[k].pattern) : a \in Scan!Covered(i, Fixes[k].pattern)

\* The code as RestoreAll would leave it.
Undone == Scan!Restored(image, sites)

\* A sequence.
Listed(trail) == \E R : trail \in Seq(R)

SitesInv ==
    /\ Listed(sites)
    /\ \A s \in DOMAIN sites :
          /\ sites[s].place \in Nat /\ Len(sites[s].bytes) \in Nat
          /\ DOMAIN sites[s].bytes = 1..Len(sites[s].bytes)

\* Undoing the patch leaves the fixes alone and every sleep in its place.
UndoneInv ==
    /\ \A a \in 0..Size - 1 : Undone[a] # exe[a] => InFix(a)
    /\ Scan!Places(Undone, Sleep) = Scan!Places(exe, Sleep)

\* A sleep that is gone has been overwritten.
ImageInv ==
    /\ \A a \in 0..Size - 1 : image[a] # exe[a] => InSleep(a) \/ InFix(a)
    /\ Scan!Places(image, Sleep) \subseteq Scan!Places(exe, Sleep)
    /\ \A i \in Scan!Places(exe, Sleep) \ Scan!Places(image, Sleep) :
          i \notin missed /\ \E s \in DOMAIN sites : sites[s].place = i

\* No fix has left a byte a later one looks for.
AttachInv ==
    /\ sites = <<>> /\ ~scanEnabled /\ next \in Nat \ {0}
    /\ \A l \in next..Len(Fixes) : \A a \in 0..Size - 1 :
          image[a] # exe[a] => \A s \in DOMAIN Fixes[l].pattern : image[a] \notin Fixes[l].pattern[s]

\* Behind the scan there are only sleeps whose write has failed.
InstallInv ==
    /\ ~scanEnabled /\ next \in 0..Size
    /\ Scan!Padded => next + Len(Sleep) <= Size
    /\ \A i \in Scan!Places(image, Sleep) : i < next => i \in missed
    /\ \A i \in missed : i \in Nat /\ i < next

CodeInv ==
    /\ DOMAIN exe = 0..Size - 1 /\ DOMAIN image = 0..Size - 1
    /\ SitesInv /\ UndoneInv /\ ImageInv
    /\ stage = "attach" => AttachInv
    /\ stage = "install" => InstallInv
    /\ stage = "idle" /\ ~scanEnabled => Scan!Places(exe, Sleep) \subseteq Scan!Places(image, Sleep)
    /\ scanEnabled => Scan!Places(image, Sleep) \subseteq missed \cup putBack
    /\ Scan!Padded => stage # "crashed"

\* The bytes m has at some places of the sleep are ones the patch writes there.
Rewritten(m, a) ==
    \E i \in Scan!Places(exe, Sleep) : \E w \in Written : a - i + 1 \in 1..Len(w) /\ m[a] = w[a - i + 1]

Mixed(m) == \A a \in 0..Size - 1 : m[a] = Undone[a] \/ Rewritten(m, a)

\* Every site is a sleep's, and saves what the place had before the patch.
SavedInv ==
    \A s \in DOMAIN sites :
        /\ sites[s].place \in Scan!Places(exe, Sleep) /\ Len(sites[s].bytes) <= Len(Sleep)
        /\ \A j \in 1..Len(sites[s].bytes) : sites[s].bytes[j] = Undone[sites[s].place + j - 1]

\* No patch is on, or half on.
AsFound == \A a \in 0..Size - 1 : image[a] = Undone[a]

\* The sleeps an Install has not rewritten are as it found them; and if anything is
\* not, one of its writes has succeeded.
LeftInv ==
    /\ \A i \in Scan!Places(image, Sleep) : \A j \in 1..Len(Sleep) : image[i + j - 1] = Undone[i + j - 1]
    /\ AsFound \/ \E s \in DOMAIN sites : sites[s].place \notin missed /\ sites[s].place < next

BytesInv ==
    /\ SavedInv /\ Mixed(image)
    /\ stage = "attach" \/ (stage = "idle" /\ ~scanEnabled) => AsFound
    /\ stage = "install" => LeftInv

LEMMA SleepLength ==
    /\ Len(Sleep) \in 1..Size /\ Len(Sleep) \in Nat /\ DOMAIN Sleep = 1..Len(Sleep)
    /\ Size \in Nat /\ Word \in Nat /\ Size < Word
BY ScanAssumption DEF ScanAssumption, IsPattern

LEMMA InPlace ==
    ASSUME NEW m, NEW p, IsPattern(p), NEW i
    PROVE  i \in Scan!Places(m, p) <=>
              /\ i \in 0..Size - Len(p)
              /\ \A j \in 1..Len(p) : i + j - 1 \in 0..Size - 1 /\ m[i + j - 1] \in p[j]
<1>1. Len(p) \in 1..Size /\ Size \in Nat /\ DOMAIN p = 1..Len(p)
  BY ScanAssumption DEF ScanAssumption, IsPattern
<1>2. ASSUME i \in 0..Size - Len(p), NEW j \in 1..Len(p) PROVE i + j - 1 \in 0..Size - 1
  BY <1>1, <1>2
<1> QED BY <1>1, <1>2 DEF Scan!Places

LEMMA PlacesAgree ==
    ASSUME NEW m, NEW new, NEW p, IsPattern(p), \A a \in 0..Size - 1 : new[a] = m[a]
    PROVE  Scan!Places(new, p) = Scan!Places(m, p)
<1>1. ASSUME NEW i PROVE i \in Scan!Places(new, p) <=> i \in Scan!Places(m, p)
  <2>1. i \in Scan!Places(m, p) <=>
          /\ i \in 0..Size - Len(p)
          /\ \A j \in 1..Len(p) : i + j - 1 \in 0..Size - 1 /\ m[i + j - 1] \in p[j]
    BY InPlace
  <2>2. i \in Scan!Places(new, p) <=>
          /\ i \in 0..Size - Len(p)
          /\ \A j \in 1..Len(p) : i + j - 1 \in 0..Size - 1 /\ new[i + j - 1] \in p[j]
    BY InPlace
  <2>3. ASSUME NEW j, i + j - 1 \in 0..Size - 1 PROVE new[i + j - 1] = m[i + j - 1]
    BY <2>3
  <2> QED BY <2>1, <2>2, <2>3
<1> QED BY <1>1

\* i is a place of the sleep: what that means byte by byte.
SleepsAt(m, i) ==
    /\ i \in 0..Size - Len(Sleep) /\ i \in Nat /\ i + Len(Sleep) <= Size
    /\ \A j \in 1..Len(Sleep) : i + j - 1 \in 0..Size - 1 /\ m[i + j - 1] \in Sleep[j]

LEMMA SleepPlace ==
    ASSUME NEW m, NEW i
    PROVE  i \in Scan!Places(m, Sleep) <=> SleepsAt(m, i)
<1>1. IsPattern(Sleep)
  BY ScanAssumption
<1>2. i \in 0..Size - Len(Sleep) => i \in Nat /\ i + Len(Sleep) <= Size
  BY SleepLength
<1> QED BY <1>1, <1>2, InPlace DEF SleepsAt

\* Two sleeps do not overlap.
LEMMA SleepsApart ==
    ASSUME NEW m, NEW i \in Scan!Places(m, Sleep), NEW k \in Scan!Places(m, Sleep), i < k
    PROVE  i + Len(Sleep) <= k
<1>1. SleepsAt(m, i) /\ SleepsAt(m, k)
  BY SleepPlace
<1>2. i \in Nat /\ k \in Nat
  BY <1>1 DEF SleepsAt
<1> SUFFICES ASSUME k < i + Len(Sleep) PROVE FALSE
  BY <1>2, SleepLength
<1>3. k - i \in 1..Len(Sleep) - 1
  BY <1>2, SleepLength
<1>4. PICK j \in 1..Len(Sleep) - (k - i) : Sleep[j] \cap Sleep[j + (k - i)] = {}
  BY <1>3, CodeAssumption DEF CodeAssumption
<1>5. j \in 1..Len(Sleep) /\ j + (k - i) \in 1..Len(Sleep) /\ i + (j + (k - i)) - 1 = k + j - 1
  BY <1>2, <1>3, SleepLength
<1>6. m[k + j - 1] \in Sleep[j] /\ m[i + (j + (k - i)) - 1] \in Sleep[j + (k - i)]
  BY <1>1, <1>5 DEF SleepsAt
<1> QED BY <1>4, <1>5, <1>6

WrittenInv(w) ==
    /\ Len(w) \in Nat /\ Len(w) \in 1..Len(Sleep) /\ DOMAIN w = 1..Len(w)
    /\ \A s \in DOMAIN Sleep : w[1] \notin Sleep[s]
    /\ \A d \in 1..Len(w) - 1 : \E j \in 1..Len(Sleep) - d :
          IF j + d <= Len(w) THEN w[j + d] \notin Sleep[j] ELSE Sleep[j] \cap Sleep[j + d] = {}

LEMMA WrittenIs ==
    ASSUME NEW w \in Written
    PROVE  WrittenInv(w)
<1>1. Len(w) \in Nat /\ Len(w) >= 1 /\ DOMAIN w = 1..Len(w)
  BY DEF Written
<1>2. Len(w) <= Len(Sleep)
  BY CodeAssumption DEF CodeAssumption
<1>3. Len(w) \in 1..Len(Sleep)
  BY <1>1, <1>2, SleepLength
<1>4. ASSUME NEW d \in 1..Len(w) - 1
      PROVE  \E j \in 1..Len(Sleep) - d :
                IF j + d <= Len(w) THEN w[j + d] \notin Sleep[j] ELSE Sleep[j] \cap Sleep[j + d] = {}
  <2>1. d \in 1..Len(Sleep) - 1
    BY <1>1, <1>2, SleepLength
  <2> QED BY <2>1, CodeAssumption DEF CodeAssumption
<1> QED BY <1>1, <1>3, <1>4, CodeAssumption DEF CodeAssumption, WrittenInv

LEMMA CoveredBy ==
    ASSUME NEW i \in Nat, NEW a
    PROVE  a \in Scan!Covered(i, Sleep) <=> a \in Nat /\ i <= a /\ a < i + Len(Sleep)
BY SleepLength DEF Scan!Covered

LEMMA InCovered ==
    ASSUME NEW i \in Nat, NEW b \in Nat, b - i + 1 \in 1..Len(Sleep)
    PROVE  b \in Scan!Covered(i, Sleep)
BY SleepLength DEF Scan!Covered

LEMMA SleepsOverlap ==
    ASSUME NEW m, NEW i \in Scan!Places(m, Sleep), NEW k \in Scan!Places(m, Sleep),
           NEW a, a \in Scan!Covered(i, Sleep), a \in Scan!Covered(k, Sleep)
    PROVE  i = k
<1>1. i \in Nat /\ k \in Nat
  BY SleepPlace DEF SleepsAt
<1>2. a \in Nat /\ i <= a /\ k <= a /\ a < i + Len(Sleep) /\ a < k + Len(Sleep)
  BY <1>1, CoveredBy
<1>3. (i < k => i + Len(Sleep) <= k) /\ (k < i => k + Len(Sleep) <= i)
  BY SleepsApart
<1> QED BY <1>1, <1>2, <1>3, SleepLength

\* At p there is a mixture of a sleep and of what is written over one.
MixedAt(m, p) ==
    \A j \in 1..Len(Sleep) : m[p + j - 1] \in Sleep[j] \/ \E w \in Written : j <= Len(w) /\ m[p + j - 1] = w[j]

\* Such a mixture makes no sleep at another place.
LEMMA MixedApart ==
    ASSUME NEW m, NEW p \in Nat, MixedAt(m, p), NEW i \in Scan!Places(m, Sleep),
           NEW a, a \in Scan!Covered(i, Sleep), a \in Scan!Covered(p, Sleep)
    PROVE  i = p
<1>1. i \in Nat /\ \A j \in 1..Len(Sleep) : m[i + j - 1] \in Sleep[j]
  BY SleepPlace DEF SleepsAt
<1>2. a \in Nat /\ i <= a /\ p <= a /\ a < i + Len(Sleep) /\ a < p + Len(Sleep)
  BY <1>1, CoveredBy
<1>3. ASSUME i < p PROVE FALSE
  <2>1. p - i \in 1..Len(Sleep) - 1
    BY <1>1, <1>2, <1>3, SleepLength
  <2>2. PICK j \in 1..Len(Sleep) - (p - i) :
           /\ Sleep[j] \cap Sleep[j + (p - i)] = {}
           /\ \A w \in Written : j <= Len(w) => w[j] \notin Sleep[j + (p - i)]
    BY <2>1, CodeAssumption DEF CodeAssumption
  <2>3. j \in 1..Len(Sleep) /\ j + (p - i) \in 1..Len(Sleep) /\ i + (j + (p - i)) - 1 = p + j - 1
    BY <1>1, <2>1, SleepLength
  <2>4. m[i + (j + (p - i)) - 1] \in Sleep[j + (p - i)]
    BY <1>1, <2>3
  <2>5. m[p + j - 1] \in Sleep[j + (p - i)]
    BY <2>3, <2>4
  <2> QED BY <2>2, <2>3, <2>5 DEF MixedAt
<1>4. ASSUME p < i PROVE FALSE
  <2>1. i - p \in 1..Len(Sleep) - 1
    BY <1>1, <1>2, <1>4, SleepLength
  <2>2. PICK j \in 1..Len(Sleep) - (i - p) :
           /\ Sleep[j] \cap Sleep[j + (i - p)] = {}
           /\ \A w \in Written : j + (i - p) <= Len(w) => w[j + (i - p)] \notin Sleep[j]
    BY <2>1, CodeAssumption DEF CodeAssumption
  <2>3. j \in 1..Len(Sleep) /\ j + (i - p) \in 1..Len(Sleep) /\ p + (j + (i - p)) - 1 = i + j - 1
    BY <1>1, <2>1, SleepLength
  <2>4. m[p + (j + (i - p)) - 1] \in Sleep[j]
    BY <1>1, <2>3
  <2> QED BY <2>2, <2>3, <2>4 DEF MixedAt
<1> QED BY <1>1, <1>3, <1>4

\* A code between the game's and the patched one has no sleeps but the game's.
LEMMA MixedPlaces ==
    ASSUME UndoneInv, NEW m, Mixed(m)
    PROVE  Scan!Places(m, Sleep) \subseteq Scan!Places(exe, Sleep)
<1> SUFFICES ASSUME NEW i \in Scan!Places(m, Sleep) PROVE i \in Scan!Places(exe, Sleep)
  OBVIOUS
<1> PICK u : u = Undone
  OBVIOUS
<1>1. SleepsAt(m, i) /\ i \in Nat
  BY SleepPlace DEF SleepsAt
<1>2. CASE \A j \in 1..Len(Sleep) : m[i + j - 1] = u[i + j - 1]
  <2>1. SleepsAt(u, i)
    BY <1>1, <1>2 DEF SleepsAt
  <2>2. i \in Scan!Places(u, Sleep)
    BY <2>1, SleepPlace
  <2> QED BY <2>2 DEF UndoneInv
<1>3. CASE ~\A j \in 1..Len(Sleep) : m[i + j - 1] = u[i + j - 1]
  <2>1. PICK j \in 1..Len(Sleep) : m[i + j - 1] # u[i + j - 1]
    BY <1>3
  <2>2. i + j - 1 \in 0..Size - 1
    BY <1>1 DEF SleepsAt
  <2>3. PICK p \in Scan!Places(exe, Sleep), w \in Written :
           (i + j - 1) - p + 1 \in 1..Len(w) /\ m[i + j - 1] = w[(i + j - 1) - p + 1]
    BY <2>1, <2>2 DEF Mixed, Rewritten
  <2>4. p \in Nat /\ \A k \in 1..Len(Sleep) : p + k - 1 \in 0..Size - 1 /\ u[p + k - 1] \in Sleep[k]
    <3>1. p \in Scan!Places(u, Sleep)
      BY DEF UndoneInv
    <3> QED BY <3>1, SleepPlace DEF SleepsAt
  <2>5. \A v \in Written : Len(v) \in Nat /\ Len(v) <= Len(Sleep)
    BY WrittenIs, SleepLength DEF WrittenInv
  <2>6. ASSUME NEW k \in 1..Len(Sleep)
        PROVE  m[p + k - 1] \in Sleep[k] \/ \E v \in Written : k <= Len(v) /\ m[p + k - 1] = v[k]
    <3> DEFINE b == p + k - 1
    <3>1. b \in 0..Size - 1 /\ u[b] \in Sleep[k] /\ b - p + 1 = k
      BY <2>4, SleepLength
    <3>2. CASE m[b] = u[b]
      BY <3>1, <3>2
    <3>3. CASE m[b] # u[b]
      <4>1. PICK q \in Scan!Places(exe, Sleep), v \in Written : b - q + 1 \in 1..Len(v) /\ m[b] = v[b - q + 1]
        BY <3>1, <3>3 DEF Mixed, Rewritten
      <4>2. q \in Nat /\ b \in Nat /\ Len(v) \in Nat /\ Len(v) <= Len(Sleep)
        BY <2>4, <2>5, <3>1, SleepPlace, SleepLength DEF SleepsAt
      <4>3. b \in Scan!Covered(q, Sleep) /\ b \in Scan!Covered(p, Sleep)
        <5>1. b - q + 1 \in 1..Len(Sleep) /\ b - p + 1 \in 1..Len(Sleep)
          BY <3>1, <4>1, <4>2, SleepLength
        <5> HIDE DEF b
        <5> QED BY <2>4, <4>2, <5>1, InCovered
      <4>4. q = p
        BY <4>3, SleepsOverlap
      <4>5. k \in 1..Len(v)
        BY <3>1, <4>1, <4>4
      <4> QED BY <3>1, <4>1, <4>2, <4>4, <4>5
    <3> QED BY <3>2, <3>3
  <2>7. MixedAt(m, p)
    BY <2>6 DEF MixedAt
  <2>8. (i + j - 1) \in Scan!Covered(i, Sleep) /\ (i + j - 1) \in Scan!Covered(p, Sleep)
    <3> PICK b : b = i + j - 1
      OBVIOUS
    <3>1. b \in Nat /\ i \in Nat /\ b - i + 1 \in 1..Len(Sleep) /\ b - p + 1 \in 1..Len(Sleep)
      BY <2>2, <2>3, <2>4, <2>5, <1>1, SleepLength DEF SleepsAt
    <3>2. b \in Scan!Covered(i, Sleep) /\ b \in Scan!Covered(p, Sleep)
      BY <2>4, <3>1, InCovered
    <3> QED BY <3>2
  <2> QED BY <2>4, <2>7, <2>8, MixedApart
<1> QED BY <1>2, <1>3

\* new is m with the bytes w written at x.
Wrote(m, new, x, w) ==
    /\ DOMAIN new = 0..Size - 1
    /\ \A a \in 0..Size - 1 : new[a] = IF a \in x..x + Len(w) - 1 THEN w[a - x + 1] ELSE m[a]

LEMMA WriteIs ==
    ASSUME NEW m, DOMAIN m = 0..Size - 1, NEW x, NEW w, NEW new, new = Scan!Write(m, x, w)
    PROVE  Wrote(m, new, x, w)
BY DEF Scan!Write, Wrote

\* What is written over a sleep leaves all the others, and makes none.
LEMMA SleepOverwritten ==
    ASSUME NEW m, NEW new, NEW x \in Scan!Places(m, Sleep), NEW w \in Written, Wrote(m, new, x, w)
    PROVE  Scan!Places(new, Sleep) = Scan!Places(m, Sleep) \ {x}
<1>1. SleepsAt(m, x) /\ x \in Nat
  BY SleepPlace DEF SleepsAt
<1>2. WrittenInv(w) /\ Len(w) \in Nat /\ 1 <= Len(w) /\ Len(w) <= Len(Sleep)
  <2>1. WrittenInv(w)
    BY WrittenIs
  <2>2. Len(w) \in Nat /\ Len(w) \in 1..Len(Sleep)
    BY <2>1 DEF WrittenInv
  <2> QED BY <2>1, <2>2, SleepLength
<1>3. ASSUME NEW i, SleepsAt(new, i) PROVE i + Len(Sleep) <= x \/ x + Len(w) <= i
  <2>1. i \in Nat
    BY <1>3 DEF SleepsAt
  <2>2. CASE i <= x
    <3>1. SUFFICES ASSUME x < i + Len(Sleep) PROVE FALSE
      BY <1>1, <2>1, SleepLength
    <3>2. x - i + 1 \in 1..Len(Sleep) /\ i + (x - i + 1) - 1 = x
      BY <1>1, <2>1, <2>2, <3>1, SleepLength
    <3>3. new[x] \in Sleep[x - i + 1] /\ x \in 0..Size - 1
      BY <1>3, <3>2 DEF SleepsAt
    <3>4. x \in x..x + Len(w) - 1 /\ x - x + 1 = 1
      BY <1>1, <1>2
    <3>5. new[x] = w[1]
      BY <3>3, <3>4 DEF Wrote
    <3> QED BY <1>2, <3>2, <3>3, <3>5, SleepLength DEF WrittenInv
  <2>3. CASE x < i
    <3>1. SUFFICES ASSUME i < x + Len(w) PROVE FALSE
      BY <1>1, <1>2, <2>1
    <3> DEFINE d == i - x
    <3>2. d \in 1..Len(w) - 1 /\ d \in Nat
      BY <1>1, <1>2, <2>1, <2>3, <3>1
    <3>3. PICK j \in 1..Len(Sleep) - d :
             IF j + d <= Len(w) THEN w[j + d] \notin Sleep[j] ELSE Sleep[j] \cap Sleep[j + d] = {}
      BY <1>2, <3>2 DEF WrittenInv
    <3>4. /\ j \in 1..Len(Sleep) /\ j + d \in 1..Len(Sleep) /\ x + (j + d) - 1 = i + j - 1
          /\ (i + j - 1) - x + 1 = j + d /\ j \in Nat
      BY <1>1, <2>1, <3>2, SleepLength
    <3>5. new[i + j - 1] \in Sleep[j] /\ i + j - 1 \in 0..Size - 1
      BY <1>3, <3>4 DEF SleepsAt
    <3>6. CASE j + d <= Len(w)
      <4>1. i + j - 1 \in x..x + Len(w) - 1
        BY <1>1, <1>2, <2>1, <3>2, <3>4, <3>6
      <4>2. new[i + j - 1] = w[j + d]
        BY <3>4, <3>5, <4>1 DEF Wrote
      <4> QED BY <3>3, <3>5, <3>6, <4>2
    <3>7. CASE ~(j + d <= Len(w))
      <4>1. i + j - 1 \notin x..x + Len(w) - 1
        BY <1>1, <1>2, <2>1, <3>2, <3>4, <3>7
      <4>2. new[i + j - 1] = m[x + (j + d) - 1]
        BY <3>4, <3>5, <4>1 DEF Wrote
      <4>3. m[x + (j + d) - 1] \in Sleep[j + d]
        BY <1>1, <3>4 DEF SleepsAt
      <4> QED BY <3>3, <3>5, <3>7, <4>2, <4>3
    <3> QED BY <3>6, <3>7
  <2> QED BY <1>1, <2>1, <2>2, <2>3
<1>4. ASSUME NEW i, i \in Nat, i + Len(Sleep) <= x \/ x + Len(w) <= i
      PROVE  SleepsAt(new, i) <=> SleepsAt(m, i)
  <2>1. ASSUME NEW j \in 1..Len(Sleep), i + j - 1 \in 0..Size - 1 PROVE new[i + j - 1] = m[i + j - 1]
    <3>1. i + j - 1 \notin x..x + Len(w) - 1
      BY <1>1, <1>2, <1>4, SleepLength
    <3> QED BY <2>1, <3>1 DEF Wrote
  <2> QED BY <2>1 DEF SleepsAt
<1>5. ASSUME NEW i, SleepsAt(m, i), i # x PROVE i + Len(Sleep) <= x \/ x + Len(w) <= i
  <2>1. i \in Nat /\ i \in Scan!Places(m, Sleep)
    BY <1>5, SleepPlace DEF SleepsAt
  <2>2. CASE i < x
    BY <2>1, <2>2, SleepsApart
  <2>3. CASE x < i
    <3>1. x + Len(Sleep) <= i
      BY <2>1, <2>3, SleepsApart
    <3> QED BY <1>1, <1>2, <2>1, <3>1, SleepLength
  <2> QED BY <1>1, <1>5, <2>1, <2>2, <2>3
<1>6. ASSUME NEW i PROVE i \in Scan!Places(new, Sleep) <=> i \in Scan!Places(m, Sleep) /\ i # x
  <2>1. i \in Scan!Places(new, Sleep) <=> SleepsAt(new, i)
    BY SleepPlace
  <2>2. i \in Scan!Places(m, Sleep) <=> SleepsAt(m, i)
    BY SleepPlace
  <2>3. SleepsAt(new, i) => i \in Nat /\ i # x /\ SleepsAt(m, i)
    <3>1. SleepsAt(new, i) => i \in Nat
      BY DEF SleepsAt
    <3>2. SleepsAt(new, x) => FALSE
      BY <1>1, <1>2, <1>3, SleepLength
    <3> QED BY <1>3, <1>4, <3>1, <3>2
  <2>4. SleepsAt(m, i) /\ i # x => SleepsAt(new, i)
    <3>1. SleepsAt(m, i) => i \in Nat
      BY DEF SleepsAt
    <3> QED BY <1>4, <1>5, <3>1
  <2> QED BY <2>1, <2>2, <2>3, <2>4
<1> QED BY <1>6

\* A comparison anywhere says whether the sleep lies there or the end of the image does.
LEMMA ComparesAnywhere ==
    ASSUME NEW m, NEW i \in Nat
    PROVE  /\ Scan!Compare(m, i, Sleep) = "match" <=> i \in Scan!Places(m, Sleep)
           /\ Scan!Compare(m, i, Sleep) = "outside" => i + Len(Sleep) > Size
<1> DEFINE stop == {j \in DOMAIN Sleep : \/ i + j - 1 >= Size
                                         \/ m[i + j - 1] \notin Sleep[j]}
<1>1. Scan!Compare(m, i, Sleep) = IF stop = {} THEN "match"
                                  ELSE IF i + Scan!Min(stop) - 1 >= Size THEN "outside" ELSE "differs"
  BY DEF Scan!Compare
<1>2. stop = {} <=> SleepsAt(m, i)
  <2>1. SleepsAt(m, i) => stop = {}
    <3> SUFFICES ASSUME SleepsAt(m, i), NEW j \in 1..Len(Sleep)
                 PROVE  ~(i + j - 1 >= Size) /\ m[i + j - 1] \in Sleep[j]
      BY SleepLength
    <3> QED BY SleepLength DEF SleepsAt
  <2>2. ASSUME stop = {} PROVE SleepsAt(m, i)
    <3>1. \A j \in 1..Len(Sleep) : ~(i + j - 1 >= Size) /\ m[i + j - 1] \in Sleep[j]
      BY <2>2, SleepLength
    <3>2. \A j \in 1..Len(Sleep) : i + j - 1 \in 0..Size - 1
      BY <3>1, SleepLength
    <3>3. Len(Sleep) \in 1..Len(Sleep)
      BY SleepLength
    <3>4. i + Len(Sleep) - 1 \in 0..Size - 1
      BY <3>2, <3>3
    <3>5. i + Len(Sleep) <= Size /\ i \in 0..Size - Len(Sleep)
      BY <3>4, SleepLength
    <3> QED BY <3>1, <3>2, <3>5 DEF SleepsAt
  <2> QED BY <2>1, <2>2
<1>3. ASSUME stop # {}, i + Scan!Min(stop) - 1 >= Size PROVE i + Len(Sleep) > Size
  <2>1. stop \subseteq Nat /\ stop \subseteq 1..Len(Sleep)
    BY SleepLength
  <2> HIDE DEF stop
  <2>2. Scan!Min(stop) \in 1..Len(Sleep)
    BY <1>3, <2>1, ScanMinIsLeast
  <2> QED BY <1>3, <2>2, SleepLength
<1> HIDE DEF stop
<1>4. Scan!Compare(m, i, Sleep) = "match" <=> stop = {}
  BY <1>1
<1>5. Scan!Compare(m, i, Sleep) = "outside" => stop # {} /\ i + Scan!Min(stop) - 1 >= Size
  BY <1>1
<1> QED BY <1>2, <1>3, <1>4, <1>5, SleepPlace

\* What the scan of Install comes to.
FoundInv(found) ==
    \/ /\ found \in Scan!Places(image, Sleep) /\ found \in Nat /\ next <= found
       /\ \A i \in Scan!Places(image, Sleep) : next <= i => found <= i
    \/ /\ found \in {Scan!NotFound, Scan!Outside} /\ found < 0
       /\ \A i \in Scan!Places(image, Sleep) : i < next
       /\ next + Len(Sleep) <= Size => found # Scan!Outside

LEMMA FoundIs ==
    ASSUME next \in 0..Size
    PROVE  FoundInv(Scan!Found)
<1> DEFINE left == Size - next
           last == (left - Len(Sleep)) % Word
           S == {i \in 0..last : Scan!Compare(image, next + i, Sleep) # "differs"}
           P == Scan!Places(image, Sleep)
<1>1. next \in Nat /\ left \in 0..Size /\ left \in Nat
  BY SleepLength
<1>2. left % Word = left
  <2> HIDE DEF left
  <2> QED BY <1>1, SleepLength
<1>3. /\ last \in Nat
      /\ next + Len(Sleep) <= Size => last = left - Len(Sleep)
  <2>1. next + Len(Sleep) <= Size => left - Len(Sleep) \in 0..Word - 1
    BY <1>1, SleepLength
  <2>2. left - Len(Sleep) \in Int
    BY <1>1, SleepLength
  <2> DEFINE room == left - Len(Sleep)
  <2> HIDE DEF room
  <2>3. room \in Int /\ Word \in Nat \ {0} => room % Word \in Nat /\ (room \in 0..Word - 1 => room % Word = room)
    OBVIOUS
  <2> QED BY <2>1, <2>2, <2>3, SleepLength DEF room
<1>4. Scan!Found = IF S = {} THEN Scan!NotFound
                   ELSE IF Scan!Compare(image, next + Scan!Min(S), Sleep) = "match" THEN next + Scan!Min(S)
                   ELSE Scan!Outside
  <2>1. Sleep # <<>>
    BY SleepLength
  <2>2. Scan!Found = Scan!FirstOf(image, next, last, Sleep)
    BY <1>2, <2>1 DEF Scan!Found, Scan!ScanPattern, Scan!Room
  <2> HIDE DEF last
  <2> QED BY <2>2 DEF Scan!FirstOf
<1>5. ASSUME NEW i \in P, next <= i PROVE i - next \in S
  <2>1. i \in Nat /\ i + Len(Sleep) <= Size
    BY SleepPlace DEF SleepsAt
  <2>2. next + Len(Sleep) <= Size
    BY <1>1, <1>5, <2>1, SleepLength
  <2>3. i - next \in 0..last /\ next + (i - next) = i
    BY <1>1, <1>3, <1>5, <2>1, <2>2, SleepLength
  <2>4. Scan!Compare(image, i, Sleep) = "match"
    BY <2>1, ComparesAnywhere
  <2> HIDE DEF last
  <2> QED BY <2>3, <2>4
<1>6. S \subseteq 0..last /\ S \subseteq Nat
  BY <1>3
<1>7. \A i \in S : Scan!Compare(image, next + i, Sleep) \in {"match", "outside"}
  BY DEF Scan!Compare
<1> HIDE DEF last, S, P
<1>8. CASE S = {}
  <2>1. \A i \in P : i < next
    <3> SUFFICES ASSUME NEW i \in P, ~(i < next) PROVE FALSE
      OBVIOUS
    <3>1. i \in Nat
      BY SleepPlace DEF SleepsAt, P
    <3> QED BY <1>1, <1>5, <1>8, <3>1
  <2> QED BY <1>4, <1>8, <2>1 DEF FoundInv, Scan!NotFound, Scan!Outside, P
<1>9. CASE S # {}
  <2> DEFINE x == next + Scan!Min(S)
  <2>1. Scan!Min(S) \in S /\ Scan!Min(S) \in Nat /\ Scan!Min(S) <= last /\ \A i \in S : Scan!Min(S) <= i
    <3>1. Scan!Min(S) \in S /\ \A i \in S : Scan!Min(S) <= i
      BY <1>6, <1>9, ScanMinIsLeast
    <3>2. \A i \in S : i \in Nat /\ i <= last
      BY <1>3, <1>6
    <3> QED BY <3>1, <3>2
  <2>2. x \in Nat /\ next <= x
    BY <1>1, <2>1
  <2>3. Scan!Compare(image, x, Sleep) \in {"match", "outside"}
    BY <1>7, <2>1
  <2>4. ASSUME NEW i \in P, next <= i PROVE x <= i
    <3>1. i - next \in S /\ i \in Nat
      BY <1>5, <2>4, SleepPlace DEF SleepsAt, P
    <3>2. Scan!Min(S) <= i - next
      BY <2>1, <3>1
    <3> QED BY <1>1, <2>1, <3>1, <3>2
  <2> HIDE DEF x
  <2>5. Scan!Found = IF Scan!Compare(image, x, Sleep) = "match" THEN x ELSE Scan!Outside
    BY <1>4, <1>9 DEF x
  <2>6. CASE Scan!Compare(image, x, Sleep) = "match"
    <3>1. x \in P /\ Scan!Found = x
      BY <2>2, <2>5, <2>6, ComparesAnywhere DEF P
    <3> QED BY <2>2, <2>4, <3>1 DEF FoundInv, P
  <2>7. CASE Scan!Compare(image, x, Sleep) = "outside"
    <3>1. x + Len(Sleep) > Size /\ Scan!Found = Scan!Outside
      BY <2>2, <2>5, <2>7, ComparesAnywhere
    <3>2. \A i \in P : i < next
      <4> SUFFICES ASSUME NEW i \in P, ~(i < next) PROVE FALSE
        OBVIOUS
      <4>1. i \in Nat /\ i + Len(Sleep) <= Size
        BY SleepPlace DEF SleepsAt, P
      <4>2. x <= i
        BY <1>1, <2>4, <4>1
      <4> QED BY <2>2, <3>1, <4>1, <4>2, SleepLength
    <3>3. ~(next + Len(Sleep) <= Size)
      <4> SUFFICES ASSUME next + Len(Sleep) <= Size PROVE FALSE
        OBVIOUS
      <4>1. last = Size - next - Len(Sleep)
        BY <1>1, <1>3, SleepLength
      <4>2. x <= Size - Len(Sleep)
        BY <1>1, <2>1, <4>1, SleepLength DEF x
      <4> QED BY <2>2, <3>1, <4>2, SleepLength
    <3> QED BY <3>1, <3>2, <3>3 DEF FoundInv, Scan!NotFound, Scan!Outside, P
  <2> QED BY <2>3, <2>6, <2>7
<1> QED BY <1>8, <1>9

Saved(trail, a) ==
    {s \in DOMAIN trail : a \in trail[s].place..(trail[s].place + Len(trail[s].bytes) - 1)}

RestoredIs(m, trail, a, value) ==
    value = IF Saved(trail, a) = {} THEN m[a]
            ELSE trail[Scan!Min(Saved(trail, a))].bytes[a - trail[Scan!Min(Saved(trail, a))].place + 1]

LEMMA RestoredValue ==
    ASSUME NEW m, NEW trail, NEW a \in DOMAIN m
    PROVE  RestoredIs(m, trail, a, Scan!Restored(m, trail)[a])
BY DEF Scan!Restored, Scan!RestoredAt, Saved, RestoredIs

\* What WriteBytes tracks of a write.
SiteAt(m, x, w) == [place |-> x, bytes |-> [j \in DOMAIN w |-> m[x + j - 1]]]

IsSite(site, m, x, w) ==
    site.place = x /\ Len(site.bytes) = Len(w) /\ \A j \in 1..Len(w) : site.bytes[j] = m[x + j - 1]

LEMMA SiteIs ==
    ASSUME NEW m, NEW x, NEW w, Len(w) \in Nat, DOMAIN w = 1..Len(w), NEW site, site = SiteAt(m, x, w)
    PROVE  IsSite(site, m, x, w)
<1> DEFINE b == [j \in DOMAIN w |-> m[x + j - 1]]
<1>1. site.bytes = b /\ site.place = x
  BY DEF SiteAt
<1>2. DOMAIN b = 1..Len(w) /\ \A j \in 1..Len(w) : b[j] = m[x + j - 1]
  OBVIOUS
<1>3. Len(b) = Len(w)
  <2>1. b \in Seq({m[x + j - 1] : j \in 1..Len(w)})
    OBVIOUS
  <2> HIDE DEF b
  <2> QED BY <1>2, <2>1
<1> QED BY <1>1, <1>2, <1>3 DEF IsSite

SameRestored(m, trail, new, more, a) == Scan!Restored(new, more)[a] = Scan!Restored(m, trail)[a]

\* A write that is tracked is undone: what RestoreAll leaves stays what it was.
LEMMA RestoredStays ==
    ASSUME NEW m, DOMAIN m = 0..Size - 1, NEW new, NEW x \in Nat, NEW w, Len(w) \in Nat,
           DOMAIN w = 1..Len(w), Wrote(m, new, x, w) \/ new = m,
           NEW trail, Listed(trail), NEW site, site = SiteAt(m, x, w),
           NEW more, more = Append(trail, site), NEW a \in 0..Size - 1
    PROVE  SameRestored(m, trail, new, more, a)
<1> DEFINE n == Len(trail)
           S == Saved(trail, a)
           T == Saved(more, a)
<1>1. /\ n \in Nat /\ DOMAIN trail = 1..n /\ DOMAIN more = 1..n + 1
      /\ \A s \in 1..n : more[s] = trail[s]
      /\ more[n + 1] = site
  <2> PICK R : trail \in Seq(R)
    BY DEF Listed
  <2>1. trail \in Seq(R \cup {site})
    OBVIOUS
  <2> QED BY <2>1
<1>2. site.place = x /\ Len(site.bytes) = Len(w) /\ \A j \in 1..Len(w) : site.bytes[j] = m[x + j - 1]
  <2>1. IsSite(site, m, x, w)
    BY SiteIs
  <2> QED BY <2>1 DEF IsSite
<1>3. S \subseteq 1..n /\ S \subseteq Nat
  BY <1>1 DEF Saved
<1>4. DOMAIN new = 0..Size - 1 /\ a \in Nat
  BY SleepLength DEF Wrote
<1>5. /\ a \in x..x + Len(w) - 1 => T = S \cup {n + 1}
      /\ a \notin x..x + Len(w) - 1 => T = S /\ new[a] = m[a]
  <2>1. \A s : s \in T <=> s \in S \/ (s = n + 1 /\ a \in x..x + Len(w) - 1)
    <3>1. \A s \in 1..n : s \in T <=> s \in S
      BY <1>1 DEF Saved
    <3>2. n + 1 \in T <=> a \in x..x + Len(w) - 1
      <4>1. n + 1 \in T <=> a \in more[n + 1].place..(more[n + 1].place + Len(more[n + 1].bytes) - 1)
        BY <1>1 DEF Saved
      <4>2. more[n + 1].place = x /\ Len(more[n + 1].bytes) = Len(w)
        BY <1>1, <1>2
      <4> HIDE DEF T, n
      <4> QED BY <4>1, <4>2
    <3>3. T \subseteq 1..n + 1
      BY <1>1 DEF Saved
    <3> HIDE DEF S, T, n
    <3>4. n + 1 \notin 1..n /\ \A s : s \in 1..n + 1 <=> s \in 1..n \/ s = n + 1
      BY <1>1
    <3> SUFFICES ASSUME NEW s PROVE s \in T <=> s \in S \/ (s = n + 1 /\ a \in x..x + Len(w) - 1)
      OBVIOUS
    <3>5. CASE s \in 1..n
      BY <3>1, <3>4, <3>5
    <3>6. CASE s = n + 1
      BY <1>3, <3>2, <3>4, <3>6
    <3>7. CASE s \notin 1..n + 1
      BY <1>3, <3>3, <3>4, <3>7
    <3> QED BY <3>4, <3>5, <3>6, <3>7
  <2> HIDE DEF S, T
  <2>2. a \notin x..x + Len(w) - 1 => new[a] = m[a]
    BY DEF Wrote
  <2> QED BY <2>1, <2>2
<1> PICK before, after : before = Scan!Restored(m, trail)[a] /\ after = Scan!Restored(new, more)[a]
  OBVIOUS
<1>6. RestoredIs(m, trail, a, before) /\ RestoredIs(new, more, a, after)
  BY <1>4, RestoredValue
<1>7. before = IF S = {} THEN m[a] ELSE trail[Scan!Min(S)].bytes[a - trail[Scan!Min(S)].place + 1]
  BY <1>6 DEF RestoredIs
<1>8. after = IF T = {} THEN new[a] ELSE more[Scan!Min(T)].bytes[a - more[Scan!Min(T)].place + 1]
  BY <1>6 DEF RestoredIs
<1> HIDE DEF S, T, n
<1>9. S # {} => Scan!Min(S) \in S /\ more[Scan!Min(S)] = trail[Scan!Min(S)]
  BY <1>1, <1>3, ScanMinIsLeast
<1>10. before = after
  <2>1. CASE a \notin x..x + Len(w) - 1
    BY <1>5, <1>7, <1>8, <1>9, <2>1
  <2>2. CASE a \in x..x + Len(w) - 1
    <3>1. T = S \cup {n + 1}
      BY <1>5, <2>2
    <3>2. Scan!Min(T) = Ini!Min(T) /\ Scan!Min(S) = Ini!Min(S)
      BY DEF Scan!Min, Ini!Min
    <3>3. CASE S = {}
      <4>1. Scan!Min(T) = n + 1
        BY <1>1, <1>3, <3>1, <3>2, <3>3, OneMoreElement
      <4>2. after = site.bytes[a - x + 1]
        BY <1>1, <1>2, <1>8, <3>1, <4>1
      <4>3. a - x + 1 \in 1..Len(w) /\ x + (a - x + 1) - 1 = a
        BY <1>4, <2>2
      <4>4. site.bytes[a - x + 1] = m[a]
        BY <1>2, <4>3
      <4> QED BY <1>7, <3>3, <4>2, <4>4
    <3>4. CASE S # {}
      <4>1. Scan!Min(T) = Scan!Min(S)
        BY <1>1, <1>3, <3>1, <3>2, <3>4, OneMoreElement
      <4> QED BY <1>7, <1>8, <1>9, <3>1, <3>4, <4>1
    <3> QED BY <3>3, <3>4
  <2> QED BY <2>1, <2>2
<1> QED BY <1>10 DEF SameRestored

LEMMA NothingToRestore ==
    ASSUME NEW m, NEW a \in DOMAIN m
    PROVE  Scan!Restored(m, <<>>)[a] = m[a]
<1>1. Saved(<<>>, a) = {}
  BY DEF Saved
<1> QED BY <1>1, RestoredValue DEF RestoredIs

SavedAt(trail, done, a) ==
    {s \in done : a \in trail[s].place..(trail[s].place + Len(trail[s].bytes) - 1)}

RestoredPartIs(m, trail, done, a, value) ==
    value = IF SavedAt(trail, done, a) = {} THEN m[a]
            ELSE trail[Scan!Min(SavedAt(trail, done, a))].bytes[
                    a - trail[Scan!Min(SavedAt(trail, done, a))].place + 1]

LEMMA RestoredPart ==
    ASSUME NEW m, NEW trail, NEW done, NEW a \in DOMAIN m
    PROVE  RestoredPartIs(m, trail, done, a, Scan!RestoredAt(m, trail, done)[a])
BY DEF Scan!RestoredAt, SavedAt, RestoredPartIs

\* A removal, complete or not, gives a byte back or leaves it alone, and another one
\* would still give it back.
LEMMA PartlyRestored ==
    ASSUME SitesInv, SavedInv, DOMAIN image = 0..Size - 1, NEW done \in SUBSET DOMAIN sites,
           NEW new, new = Scan!RestoredAt(image, sites, done), NEW a \in 0..Size - 1
    PROVE  /\ \/ new[a] = image[a]
              \/ /\ new[a] = Undone[a]
                 /\ \E s \in done : a \in sites[s].place..(sites[s].place + Len(sites[s].bytes) - 1)
           /\ Scan!Restored(new, sites)[a] = Undone[a]
<1> DEFINE S == SavedAt(sites, done, a)
           T == Saved(sites, a)
<1>1. DOMAIN new = 0..Size - 1 /\ a \in Nat
  BY SleepLength DEF Scan!RestoredAt
<1>2. S \subseteq T /\ T \subseteq DOMAIN sites /\ DOMAIN sites \subseteq Nat
  <2>1. DOMAIN sites \subseteq Nat
    <3> PICK trail : trail = sites
      OBVIOUS
    <3> PICK R : trail \in Seq(R)
      BY DEF SitesInv, Listed
    <3> QED OBVIOUS
  <2> QED BY <2>1 DEF Saved, SavedAt
<1>3. RestoredPartIs(image, sites, done, a, new[a])
  BY RestoredPart
<1>4. RestoredIs(new, sites, a, Scan!Restored(new, sites)[a]) /\ RestoredIs(image, sites, a, Undone[a])
  BY <1>1, RestoredValue DEF Undone
<1>5. CASE S = {}
  <2>1. new[a] = image[a]
    BY <1>3, <1>5 DEF RestoredPartIs
  <2> QED BY <1>4, <2>1 DEF RestoredIs
<1>6. CASE S # {}
  <2> PICK s : s = Scan!Min(S)
    OBVIOUS
  <2> PICK site : site = sites[s]
    OBVIOUS
  <2>1. s \in S /\ T # {} /\ s \in done /\ s \in DOMAIN sites
    BY <1>2, <1>6, ScanMinIsLeast DEF SavedAt
  <2>2. a \in site.place..(site.place + Len(site.bytes) - 1)
    BY <2>1 DEF SavedAt
  <2>3. new[a] = site.bytes[a - site.place + 1]
    BY <1>3, <1>6 DEF RestoredPartIs
  <2>4. site.place \in Nat /\ Len(site.bytes) \in Nat
    BY <2>1 DEF SitesInv
  <2>5. a - site.place + 1 \in 1..Len(site.bytes) /\ site.place + (a - site.place + 1) - 1 = a
    BY <1>1, <2>2, <2>4
  <2>6. new[a] = Undone[a]
    BY <2>1, <2>3, <2>5 DEF SavedInv
  <2>7. Scan!Restored(new, sites)[a] = Undone[a]
    BY <1>4, <2>1 DEF RestoredIs
  <2> QED BY <2>1, <2>2, <2>6, <2>7
<1> QED BY <1>5, <1>6

FixInv(k) ==
    LET fix == Fixes[k]
    IN /\ IsPattern(fix.pattern) /\ fix.offset \in Nat /\ Len(fix.replace) \in Nat
       /\ fix.offset + Len(fix.replace) <= Len(fix.pattern)
       /\ DOMAIN fix.expect = 1..Len(fix.replace)
       /\ \A j \in 1..Len(fix.replace) :
             /\ \A s \in DOMAIN Sleep : fix.expect[j] \notin Sleep[s] /\ fix.replace[j] \notin Sleep[s]
             /\ \A l \in k + 1..Len(Fixes) :
                   \A s \in DOMAIN Fixes[l].pattern : fix.replace[j] \notin Fixes[l].pattern[s]

LEMMA FixIs ==
    ASSUME NEW k \in DOMAIN Fixes
    PROVE  FixInv(k)
<1>1. IsPattern(Fixes[k].pattern)
  BY ScanAssumption
<1>2. /\ Fixes[k].offset \in Nat /\ Len(Fixes[k].replace) \in Nat
      /\ Fixes[k].offset + Len(Fixes[k].replace) <= Len(Fixes[k].pattern)
      /\ DOMAIN Fixes[k].expect = 1..Len(Fixes[k].replace)
  BY CodeAssumption
<1>3. \A j \in 1..Len(Fixes[k].replace) :
         /\ \A s \in DOMAIN Sleep : {Fixes[k].expect[j], Fixes[k].replace[j]} \cap Sleep[s] = {}
         /\ \A l \in k + 1..Len(Fixes) :
               \A s \in DOMAIN Fixes[l].pattern : Fixes[k].replace[j] \notin Fixes[l].pattern[s]
  BY CodeAssumption
<1>4. \A j \in 1..Len(Fixes[k].replace) : \A s \in DOMAIN Sleep :
         Fixes[k].expect[j] \notin Sleep[s] /\ Fixes[k].replace[j] \notin Sleep[s]
  BY <1>3
<1> QED BY <1>1, <1>2, <1>3, <1>4 DEF FixInv

\* What applying a fix to m may do.
FixKeeps(m, new, k) ==
    /\ DOMAIN new = 0..Size - 1
    /\ Scan!Places(new, Sleep) = Scan!Places(m, Sleep)
    /\ \A a \in 0..Size - 1 : new[a] # m[a] => InFix(a)
    /\ \A a \in 0..Size - 1 : new[a] # m[a] => \E j \in 1..Len(Fixes[k].replace) : new[a] = Fixes[k].replace[j]

\* A byte of what is written at a place inside a match.
Inside(a, place, n) == a \in place..place + n - 1
ByteOf(a, x, l, place, n) ==
    a - place + 1 \in 1..n /\ a \in x..x + l - 1 /\ place + (a - place + 1) - 1 = a

PlaceOf(place, x, l, n) == place \in Nat /\ x <= place /\ place + n <= x + l

LEMMA PlaceBehind ==
    ASSUME NEW x \in Nat, NEW off \in Nat, NEW n \in Nat, NEW l \in Nat, off + n <= l, NEW place, place = x + off
    PROVE  PlaceOf(place, x, l, n)
BY DEF PlaceOf

LEMMA PlaceInPattern ==
    ASSUME NEW x \in Nat, NEW place \in Nat, NEW n \in Nat, NEW l \in Nat,
           x <= place, place + n <= x + l, NEW a, Inside(a, place, n)
    PROVE  ByteOf(a, x, l, place, n)
<1>1. a \in Int /\ place <= a /\ a <= place + n - 1
  BY DEF Inside
<1> QED BY <1>1 DEF ByteOf

LEMMA FixIsWritten ==
    ASSUME NEW k \in DOMAIN Fixes, NEW m, DOMAIN m = 0..Size - 1, NEW new, NEW place,
           place = Scan!ScanPattern(m, 0, Size, Fixes[k].pattern) + Fixes[k].offset,
           place >= Fixes[k].offset, Scan!Holds(m, place, Fixes[k].expect),
           new = Scan!Write(m, place, Fixes[k].replace),
           \A a \in 0..Size - 1 : m[a] # exe[a] => \A s \in DOMAIN Fixes[k].pattern : m[a] \notin Fixes[k].pattern[s]
    PROVE  FixKeeps(m, new, k)
<1> PICK pat, off, x, r :
       /\ pat = Fixes[k].pattern /\ off = Fixes[k].offset /\ x = Scan!FirstPlace(m, pat)
       /\ r = Fixes[k].replace
  OBVIOUS
<1>0. FixInv(k)
  BY FixIs
<1>1. /\ IsPattern(pat) /\ off \in Nat /\ Len(r) \in Nat /\ off + Len(r) <= Len(pat)
      /\ Len(pat) \in 1..Size /\ DOMAIN pat = 1..Len(pat) /\ Len(pat) \in Nat
  <2>1. IsPattern(pat) /\ off \in Nat /\ Len(r) \in Nat /\ off + Len(r) <= Len(pat)
    BY <1>0 DEF FixInv
  <2> QED BY <2>1, SleepLength DEF IsPattern
<1>2. place = x + off
  BY <1>1, ScanPatternIsFirst
<1>3. x \in Scan!Places(m, pat) /\ x \in Nat
  <2>1. Scan!Places(m, pat) \subseteq 0..Size - Len(pat) /\ Scan!Places(m, pat) \subseteq Nat
    BY <1>1, SleepLength DEF Scan!Places
  <2>2. CASE Scan!Places(m, pat) = {}
    <3>1. x = -1
      BY <2>2 DEF Scan!FirstPlace, Scan!NotFound
    <3> QED BY <1>1, <1>2, <3>1
  <2>3. CASE Scan!Places(m, pat) # {}
    <3>1. x = Scan!Min(Scan!Places(m, pat))
      BY <2>3 DEF Scan!FirstPlace
    <3>2. x \in Scan!Places(m, pat)
      BY <2>1, <2>3, <3>1, ScanMinIsLeast
    <3> QED BY <2>1, <3>2
  <2> QED BY <2>2, <2>3
<1>4. /\ x \in 0..Size - Len(pat)
      /\ \A j \in 1..Len(pat) : x + j - 1 \in 0..Size - 1 /\ m[x + j - 1] \in pat[j]
  BY <1>1, <1>3, InPlace
<1>5. x \in Scan!Places(exe, pat)
  <2>1. ASSUME NEW j \in 1..Len(pat) PROVE x + j - 1 \in 0..Size - 1 /\ exe[x + j - 1] \in pat[j]
    BY <1>1, <1>4
  <2> QED BY <1>1, <1>4, <2>1, InPlace
<1>6. Wrote(m, new, place, r)
  BY WriteIs
<1>7. place \in Nat /\ x <= place /\ place + Len(r) <= x + Len(pat)
  <2> PICK n, l : n = Len(r) /\ l = Len(pat)
    OBVIOUS
  <2>1. n \in Nat /\ l \in Nat /\ off \in Nat /\ x \in Nat /\ off + n <= l /\ place = x + off
    BY <1>1, <1>2, <1>3
  <2>2. PlaceOf(place, x, l, n)
    BY <2>1, PlaceBehind, Zenon
  <2> QED BY <2>2 DEF PlaceOf
<1>8. ASSUME NEW a \in 0..Size - 1, a \in place..place + Len(r) - 1
      PROVE  /\ a - place + 1 \in 1..Len(r) /\ a \in x..x + Len(pat) - 1
             /\ place + (a - place + 1) - 1 = a
  <2>1. Inside(a, place, Len(r))
    BY <1>8 DEF Inside
  <2>2. ByteOf(a, x, Len(pat), place, Len(r))
    BY <1>1, <1>3, <1>7, <2>1, PlaceInPattern
  <2> QED BY <2>2 DEF ByteOf
<1>9. ASSUME NEW a \in 0..Size - 1, new[a] # m[a]
      PROVE  InFix(a) /\ \E j \in 1..Len(r) : new[a] = r[j] /\ m[a] = Fixes[k].expect[j]
  <2>1. a \in place..place + Len(r) - 1 /\ new[a] = r[a - place + 1]
    BY <1>6, <1>9 DEF Wrote
  <2>2. a - place + 1 \in 1..Len(r) /\ a \in x..x + Len(pat) - 1 /\ place + (a - place + 1) - 1 = a
    BY <1>8, <2>1
  <2>3. a \in Scan!Covered(x, pat)
    BY <2>2 DEF Scan!Covered
  <2>4. InFix(a)
    BY <1>5, <2>3 DEF InFix
  <2>5. m[place + (a - place + 1) - 1] = Fixes[k].expect[a - place + 1]
    <3>1. DOMAIN Fixes[k].expect = 1..Len(r)
      BY <1>0 DEF FixInv
    <3> QED BY <2>2, <3>1 DEF Scan!Holds
  <2> QED BY <2>1, <2>2, <2>4, <2>5
<1>10. ASSUME NEW a \in 0..Size - 1, NEW s \in 1..Len(Sleep)
      PROVE  new[a] \in Sleep[s] <=> m[a] \in Sleep[s]
  <2>1. CASE new[a] = m[a]
    BY <2>1
  <2>2. CASE new[a] # m[a]
    <3>1. PICK j \in 1..Len(r) : new[a] = r[j] /\ m[a] = Fixes[k].expect[j]
      BY <1>9, <2>2
    <3>2. s \in DOMAIN Sleep
      BY SleepLength
    <3> QED BY <1>0, <3>1, <3>2 DEF FixInv
  <2> QED BY <2>1, <2>2
<1>11. ASSUME NEW i PROVE i \in Scan!Places(new, Sleep) <=> i \in Scan!Places(m, Sleep)
  <2>1. SleepsAt(new, i) <=> SleepsAt(m, i)
    BY <1>10 DEF SleepsAt
  <2> QED BY <2>1, SleepPlace
<1> QED BY <1>6, <1>9, <1>11 DEF FixKeeps, Wrote

LEMMA ApplyFixStep ==
    ASSUME CodeInv, Scan!ApplyFix
    PROVE  CodeInv'
<1> PICK m, new, k : m = image /\ new = image' /\ k = next
  OBVIOUS
<1>1. /\ stage = "attach" /\ k <= Len(Fixes) /\ next' = k + 1
      /\ exe' = exe /\ stage' = stage /\ sites' = sites /\ missed' = missed /\ scanEnabled' = scanEnabled
  BY DEF Scan!ApplyFix
<1>2. /\ AttachInv /\ DOMAIN exe = 0..Size - 1 /\ DOMAIN m = 0..Size - 1
      /\ SitesInv /\ UndoneInv /\ ImageInv /\ sites = <<>> /\ ~scanEnabled /\ k \in Nat \ {0}
      /\ \A l \in k..Len(Fixes) : \A a \in 0..Size - 1 :
            m[a] # exe[a] => \A s \in DOMAIN Fixes[l].pattern : m[a] \notin Fixes[l].pattern[s]
  BY <1>1 DEF CodeInv, AttachInv
<1>3. k \in DOMAIN Fixes /\ k \in k..Len(Fixes) /\ Len(Fixes) \in Nat
  BY <1>1, <1>2, CodeAssumption
<1>4. FixKeeps(m, new, k)
  <2>1. CASE new = m
    BY <1>2, <2>1 DEF FixKeeps
  <2>2. CASE new # m
    <3> PICK place : place = Scan!ScanPattern(m, 0, Size, Fixes[k].pattern) + Fixes[k].offset
      OBVIOUS
    <3>1. /\ place >= Fixes[k].offset
          /\ Scan!Holds(m, place, Fixes[k].expect)
          /\ new = Scan!Write(m, place, Fixes[k].replace)
      BY <2>2 DEF Scan!ApplyFix
    <3>2. \A a \in 0..Size - 1 : m[a] # exe[a] => \A s \in DOMAIN Fixes[k].pattern : m[a] \notin Fixes[k].pattern[s]
      BY <1>2, <1>3
    <3> QED BY <1>2, <1>3, <3>1, <3>2, FixIsWritten
  <2> QED BY <2>1, <2>2
<1>5. ASSUME NEW a \in 0..Size - 1 PROVE Undone[a] = m[a] /\ Undone'[a] = new[a]
  <2>1. Undone = Scan!Restored(m, <<>>) /\ Undone' = Scan!Restored(new, <<>>)
    BY <1>1, <1>2 DEF Undone, Scan!Restored, Scan!RestoredAt
  <2>2. a \in DOMAIN m /\ a \in DOMAIN new
    BY <1>2, <1>4 DEF FixKeeps
  <2> QED BY <2>1, <2>2, NothingToRestore
<1>6. UndoneInv'
  <2>1. ASSUME NEW a \in 0..Size - 1, Undone'[a] # exe[a] PROVE InFix(a)
    BY <1>2, <1>4, <1>5, <2>1 DEF FixKeeps, UndoneInv
  <2>2. \A a : InFix(a)' <=> InFix(a)
    BY <1>1 DEF InFix
  <2>3. Scan!Places(Undone, Sleep)' = Scan!Places(exe, Sleep)'
    <3> PICK u, v : u = Undone /\ v = Undone'
      OBVIOUS
    <3>1. Scan!Places(u, Sleep) = Scan!Places(m, Sleep) /\ Scan!Places(v, Sleep) = Scan!Places(new, Sleep)
      BY <1>5, ScanAssumption, PlacesAgree
    <3>2. Scan!Places(u, Sleep) = Scan!Places(exe, Sleep)
      BY <1>2 DEF UndoneInv
    <3>3. Scan!Places(v, Sleep) = Scan!Places(exe, Sleep)
      BY <1>4, <3>1, <3>2 DEF FixKeeps
    <3> QED BY <1>1, <3>3 DEF Scan!Places
  <2> QED BY <1>1, <2>1, <2>2, <2>3 DEF UndoneInv
<1>7. ImageInv'
  <2>1. \A a : (InFix(a)' <=> InFix(a)) /\ (InSleep(a)' <=> InSleep(a))
    BY <1>1 DEF InFix, InSleep, Scan!Places, Scan!Covered
  <2>2. \A a \in 0..Size - 1 : new[a] # exe[a] => InSleep(a) \/ InFix(a)
    BY <1>2, <1>4 DEF FixKeeps, ImageInv
  <2>3. Scan!Places(image, Sleep)' = Scan!Places(image, Sleep) /\ Scan!Places(exe, Sleep)' = Scan!Places(exe, Sleep)
    BY <1>1, <1>4 DEF FixKeeps, Scan!Places
  <2> QED BY <1>1, <1>2, <2>1, <2>2, <2>3 DEF ImageInv
<1>8. AttachInv'
  <2>1. ASSUME NEW l \in k + 1..Len(Fixes), NEW a \in 0..Size - 1, new[a] # exe[a],
               NEW s \in DOMAIN Fixes[l].pattern
        PROVE  new[a] \notin Fixes[l].pattern[s]
    <3>1. CASE new[a] = m[a]
      <4>1. l \in k..Len(Fixes)
        BY <1>2, <1>3
      <4> QED BY <1>2, <2>1, <3>1, <4>1
    <3>2. CASE new[a] # m[a]
      <4>1. PICK j \in 1..Len(Fixes[k].replace) : new[a] = Fixes[k].replace[j]
        BY <1>4, <3>2 DEF FixKeeps
      <4>2. FixInv(k)
        BY <1>3, FixIs
      <4> QED BY <4>1, <4>2 DEF FixInv
    <3> QED BY <3>1, <3>2
  <2> QED BY <1>1, <1>2, <2>1 DEF AttachInv
<1>9. SitesInv'
  BY <1>1, <1>2 DEF SitesInv, Listed
<1> QED BY <1>1, <1>2, <1>4, <1>6, <1>7, <1>8, <1>9 DEF CodeInv, FixKeeps

\* The patch is not concerned, and no sleep or fix has changed place.
LEMMA SamePlaces ==
    ASSUME exe' = exe
    PROVE  /\ \A a : (InFix(a)' <=> InFix(a)) /\ (InSleep(a)' <=> InSleep(a))
           /\ Scan!Places(exe, Sleep)' = Scan!Places(exe, Sleep)
           /\ Scan!Padded' = Scan!Padded
BY DEF InFix, InSleep, Scan!Places, Scan!Covered, Scan!Padded

LEMMA SameUndone ==
    ASSUME CodeInv, exe' = exe, image' = image, sites' = sites, missed' = missed
    PROVE  SitesInv' /\ UndoneInv' /\ ImageInv' /\ DOMAIN exe' = 0..Size - 1 /\ DOMAIN image' = 0..Size - 1
<1>1. Undone' = Undone
  BY DEF Undone, Scan!Restored, Scan!RestoredAt
<1>2. Scan!Places(Undone, Sleep)' = Scan!Places(Undone, Sleep) /\ Scan!Places(image, Sleep)' = Scan!Places(image, Sleep)
  BY <1>1 DEF Scan!Places
<1>3. SitesInv'
  BY DEF CodeInv, SitesInv, Listed
<1>4. UndoneInv'
  BY <1>1, <1>2, SamePlaces DEF CodeInv, UndoneInv
<1>5. ImageInv'
  BY <1>2, SamePlaces DEF CodeInv, ImageInv
<1> QED BY <1>3, <1>4, <1>5 DEF CodeInv

\* With no site tracked every sleep is in its place.
LEMMA NothingTracked ==
    ASSUME CodeInv, sites = <<>>
    PROVE  Scan!Places(exe, Sleep) \subseteq Scan!Places(image, Sleep)
<1>1. DOMAIN sites = {}
  OBVIOUS
<1> QED BY <1>1 DEF CodeInv, ImageInv

LEMMA AttachedStep ==
    ASSUME CodeInv, Scan!Attached
    PROVE  CodeInv'
<1>1. /\ stage = "attach" /\ stage' = "idle" /\ exe' = exe /\ image' = image /\ next' = next
      /\ sites' = sites /\ missed' = missed /\ scanEnabled' = scanEnabled
  BY DEF Scan!Attached
<1>2. sites = <<>> /\ ~scanEnabled
  BY <1>1 DEF CodeInv, AttachInv
<1>3. Scan!Places(exe, Sleep) \subseteq Scan!Places(image, Sleep)
  BY <1>2, NothingTracked
<1>4. Scan!Places(image, Sleep)' = Scan!Places(image, Sleep)
  BY <1>1 DEF Scan!Places
<1> QED BY <1>1, <1>2, <1>3, <1>4, SameUndone, SamePlaces DEF CodeInv

LEMMA NoCodeStep ==
    ASSUME CodeInv, exe' = exe, image' = image, stage' = stage, next' = next,
           sites' = sites, missed' = missed, scanEnabled' = scanEnabled, putBack' = putBack
    PROVE  CodeInv'
<1>1. Scan!Places(image, Sleep)' = Scan!Places(image, Sleep)
  BY DEF Scan!Places
<1>2. AttachInv' <=> AttachInv
  BY DEF AttachInv
<1>3. InstallInv' <=> InstallInv
  BY <1>1, SamePlaces DEF InstallInv
<1> QED BY <1>1, <1>2, <1>3, SameUndone, SamePlaces DEF CodeInv

LEMMA BeginInstallStep ==
    ASSUME CodeInv, Scan!BeginInstall
    PROVE  CodeInv'
<1>1. /\ stage = "idle" /\ ~scanEnabled /\ stage' = "install" /\ next' = 0 /\ missed' = {}
      /\ exe' = exe /\ image' = image /\ sites' = sites /\ scanEnabled' = scanEnabled
  BY DEF Scan!BeginInstall
<1>2. Scan!Places(image, Sleep)' = Scan!Places(image, Sleep)
  BY <1>1 DEF Scan!Places
<1>3. Undone' = Undone
  BY <1>1 DEF Undone, Scan!Restored, Scan!RestoredAt
<1>4. Scan!Places(Undone, Sleep)' = Scan!Places(Undone, Sleep)
  BY <1>3 DEF Scan!Places
<1>5. SitesInv' /\ UndoneInv' /\ ImageInv'
  <2>1. SitesInv'
    BY <1>1 DEF CodeInv, SitesInv, Listed
  <2>2. UndoneInv'
    BY <1>1, <1>3, <1>4, SamePlaces DEF CodeInv, UndoneInv
  <2>3. ImageInv'
    BY <1>1, <1>2, SamePlaces DEF CodeInv, ImageInv
  <2> QED BY <2>1, <2>2, <2>3
<1>6. InstallInv'
  <2>1. \A i \in Scan!Places(image, Sleep) : i \in Nat
    BY SleepPlace DEF SleepsAt
  <2>2. \A i \in Scan!Places(image, Sleep) : ~(i < 0)
    BY <2>1
  <2>3. 0 + Len(Sleep) <= Size /\ 0 \in 0..Size
    BY SleepLength
  <2> QED BY <1>1, <1>2, <2>2, <2>3 DEF InstallInv
<1> QED BY <1>1, <1>5, <1>6, SamePlaces DEF CodeInv

LEMMA EndInstallStep ==
    ASSUME CodeInv, Scan!EndInstall
    PROVE  CodeInv'
<1>1. /\ stage = "install" /\ Scan!Found < 0 /\ stage' = IF Scan!Found = Scan!Outside THEN "crashed" ELSE "idle"
      /\ scanEnabled' = (\E s \in DOMAIN sites : sites[s].place \notin missed)
      /\ exe' = exe /\ image' = image /\ sites' = sites /\ missed' = missed /\ next' = next
  BY DEF Scan!EndInstall
<1>2. InstallInv
  BY <1>1 DEF CodeInv
<1>3. FoundInv(Scan!Found)
  BY <1>2, FoundIs DEF InstallInv
<1>4. /\ \A i \in Scan!Places(image, Sleep) : i < next
      /\ next + Len(Sleep) <= Size => Scan!Found # Scan!Outside
  <2>1. \A f \in Nat : ~(f < 0)
    OBVIOUS
  <2> QED BY <1>1, <1>3, <2>1 DEF FoundInv
<1>5. Scan!Places(image, Sleep) \subseteq missed
  BY <1>2, <1>4 DEF InstallInv
<1>6. Scan!Padded => stage' # "crashed"
  BY <1>1, <1>2, <1>4 DEF InstallInv
<1>7. ~scanEnabled' => Scan!Places(exe, Sleep) \subseteq Scan!Places(image, Sleep)
  <2> SUFFICES ASSUME ~scanEnabled', NEW i \in Scan!Places(exe, Sleep), i \notin Scan!Places(image, Sleep)
               PROVE  FALSE
    OBVIOUS
  <2>1. i \notin missed /\ \E s \in DOMAIN sites : sites[s].place = i
    BY DEF CodeInv, ImageInv
  <2> QED BY <1>1, <2>1
<1>8. Scan!Places(image, Sleep)' = Scan!Places(image, Sleep)
  BY <1>1 DEF Scan!Places
<1>9. stage' # "attach" /\ stage' # "install"
  BY <1>1
<1> QED BY <1>1, <1>5, <1>6, <1>7, <1>8, <1>9, SameUndone, SamePlaces DEF CodeInv

\* With no site tracked nothing is written.
LEMMA NothingWritten ==
    ASSUME CodeInv', sites' = <<>>, stage' # "install"
    PROVE  BytesInv'
<1> PICK m : m = image'
  OBVIOUS
<1>1. ASSUME NEW a \in 0..Size - 1 PROVE m[a] = Undone'[a]
  <2>1. Undone' = Scan!Restored(m, <<>>)
    BY DEF Undone, Scan!Restored, Scan!RestoredAt
  <2>2. a \in DOMAIN m
    BY DEF CodeInv
  <2> QED BY <2>1, <2>2, NothingToRestore
<1>2. AsFound' /\ Mixed(image)'
  BY <1>1 DEF AsFound, Mixed
<1>3. DOMAIN sites' = {}
  OBVIOUS
<1>4. SavedInv'
  BY <1>3 DEF SavedInv
<1> QED BY <1>2, <1>4 DEF BytesInv

\* A removal in which every restore succeeds.
LEMMA RemovedStep ==
    ASSUME CodeInv, stage = "idle", stage' = "idle", exe' = exe, sites' = <<>>, image' = Undone,
           ~scanEnabled', missed' = missed
    PROVE  CodeInv'
<1>1. /\ stage = "idle" /\ stage' = "idle" /\ exe' = exe /\ sites' = <<>> /\ image' = Undone
      /\ ~scanEnabled' /\ missed' = missed
  OBVIOUS
<1> PICK new : new = image'
  OBVIOUS
<1>2. DOMAIN new = 0..Size - 1
  BY <1>1 DEF Undone, Scan!Restored, Scan!RestoredAt, CodeInv
<1>3. ASSUME NEW a \in 0..Size - 1 PROVE Undone'[a] = new[a]
  <2>1. Undone' = Scan!Restored(new, <<>>)
    BY <1>1 DEF Undone, Scan!Restored, Scan!RestoredAt
  <2> QED BY <1>2, <2>1, NothingToRestore
<1>4. Scan!Places(new, Sleep) = Scan!Places(exe, Sleep)
  BY <1>1 DEF CodeInv, UndoneInv
<1>5. UndoneInv'
  <2>1. ASSUME NEW a \in 0..Size - 1, Undone'[a] # exe[a] PROVE InFix(a)
    BY <1>1, <1>3, <2>1 DEF CodeInv, UndoneInv
  <2>2. Scan!Places(Undone, Sleep)' = Scan!Places(exe, Sleep)
    <3> PICK u : u = Undone'
      OBVIOUS
    <3>1. Scan!Places(u, Sleep) = Scan!Places(new, Sleep)
      BY <1>3, ScanAssumption, PlacesAgree
    <3> QED BY <1>4, <3>1 DEF Scan!Places
  <2> QED BY <1>1, <2>1, <2>2, SamePlaces DEF UndoneInv
<1>6. Scan!Places(image, Sleep)' = Scan!Places(exe, Sleep)
  BY <1>4 DEF Scan!Places
<1>7. ImageInv'
  <2>1. ASSUME NEW a \in 0..Size - 1, new[a] # exe[a] PROVE InFix(a)
    BY <1>1, <2>1 DEF CodeInv, UndoneInv
  <2> QED BY <1>1, <1>6, <2>1, SamePlaces DEF ImageInv
<1>8. SitesInv'
  <2>1. DOMAIN <<>> = {}
    OBVIOUS
  <2>2. Listed(<<>>)
    BY DEF Listed
  <2> QED BY <1>1, <2>1, <2>2 DEF SitesInv, Listed
<1> QED BY <1>1, <1>2, <1>5, <1>6, <1>7, <1>8, SamePlaces DEF CodeInv

\* A removal in which some restore fails: the patch stays on.
PartlyRemoved(done) ==
    /\ done \subseteq DOMAIN sites /\ image' = Scan!RestoredAt(image, sites, done)
    /\ putBack' = putBack \cup {sites[s].place : s \in done}
    /\ stage' = "idle" /\ exe' = exe /\ sites' = sites /\ missed' = missed /\ scanEnabled'

LEMMA PartlyRemovedStep ==
    ASSUME CodeInv, BytesInv, stage = "idle", scanEnabled, NEW done, PartlyRemoved(done)
    PROVE  CodeInv' /\ BytesInv'
<1> PICK new, u : new = image' /\ u = Undone
  OBVIOUS
<1>1. /\ done \in SUBSET DOMAIN sites /\ new = Scan!RestoredAt(image, sites, done)
      /\ putBack' = putBack \cup {sites[s].place : s \in done}
      /\ stage' = "idle" /\ exe' = exe /\ sites' = sites /\ missed' = missed /\ scanEnabled'
  BY DEF PartlyRemoved
<1>2. /\ SitesInv /\ UndoneInv /\ ImageInv /\ DOMAIN exe = 0..Size - 1 /\ DOMAIN image = 0..Size - 1
      /\ SavedInv /\ Mixed(image) /\ Scan!Places(image, Sleep) \subseteq missed \cup putBack
      /\ Scan!Places(u, Sleep) = Scan!Places(exe, Sleep)
  BY DEF CodeInv, BytesInv, UndoneInv
<1>3. DOMAIN new = 0..Size - 1
  BY <1>1, <1>2 DEF Scan!RestoredAt
<1>4. ASSUME NEW a \in 0..Size - 1
      PROVE  /\ \/ new[a] = image[a]
                \/ /\ new[a] = u[a]
                   /\ \E s \in done : a \in sites[s].place..(sites[s].place + Len(sites[s].bytes) - 1)
             /\ Undone'[a] = u[a]
  <2>1. Undone' = Scan!Restored(new, sites)
    BY <1>1 DEF Undone, Scan!Restored, Scan!RestoredAt
  <2> QED BY <1>1, <1>2, <2>1, PartlyRestored
<1>5. Scan!Places(Undone, Sleep)' = Scan!Places(exe, Sleep)
  <2> PICK v : v = Undone'
    OBVIOUS
  <2>1. Scan!Places(v, Sleep) = Scan!Places(u, Sleep)
    BY <1>4, ScanAssumption, PlacesAgree
  <2> QED BY <1>2, <2>1 DEF Scan!Places
<1>6. UndoneInv'
  <2>1. ASSUME NEW a \in 0..Size - 1, Undone'[a] # exe[a] PROVE InFix(a)
    BY <1>2, <1>4, <2>1 DEF UndoneInv
  <2> QED BY <1>1, <1>5, <2>1, SamePlaces DEF UndoneInv
<1>7. Mixed(new) /\ Mixed(image)'
  <2>1. ASSUME NEW a \in 0..Size - 1 PROVE new[a] = u[a] \/ Rewritten(new, a)
    <3>1. CASE new[a] = image[a]
      BY <1>2, <3>1 DEF Mixed, Rewritten
    <3> QED BY <1>4, <3>1
  <2>2. Mixed(new)
    BY <2>1 DEF Mixed
  <2>3. \A a : Rewritten(image, a)' <=> Rewritten(new, a)
    BY <1>1 DEF Rewritten, Scan!Places
  <2> QED BY <1>4, <2>1, <2>2, <2>3 DEF Mixed
<1>8. Scan!Places(new, Sleep) \subseteq Scan!Places(exe, Sleep)
  BY <1>2, <1>7, MixedPlaces
<1>9. ASSUME NEW i \in Scan!Places(image, Sleep) PROVE i \in Scan!Places(new, Sleep)
  <2>1. i \in Scan!Places(u, Sleep)
    BY <1>2 DEF ImageInv
  <2>2. SleepsAt(u, i) /\ SleepsAt(image, i)
    BY <2>1, SleepPlace
  <2>3. SleepsAt(new, i)
    BY <1>4, <2>2 DEF SleepsAt
  <2> QED BY <2>3, SleepPlace
<1>10. ASSUME NEW i \in Scan!Places(new, Sleep), i \notin Scan!Places(image, Sleep) PROVE i \in putBack'
  <2>1. SleepsAt(new, i) /\ ~SleepsAt(image, i) /\ i \in Nat
    BY <1>10, SleepPlace DEF SleepsAt
  <2>2. PICK j \in 1..Len(Sleep) : new[i + j - 1] # image[i + j - 1]
    BY <2>1 DEF SleepsAt
  <2>3. i + j - 1 \in 0..Size - 1
    BY <2>1 DEF SleepsAt
  <2>4. PICK s \in done : (i + j - 1) \in sites[s].place..(sites[s].place + Len(sites[s].bytes) - 1)
    BY <1>4, <2>2, <2>3
  <2> PICK p, l : p = sites[s].place /\ l = Len(sites[s].bytes)
    OBVIOUS
  <2>5. p \in Nat /\ p \in Scan!Places(exe, Sleep) /\ l \in Nat /\ l <= Len(Sleep)
    BY <1>1, <1>2 DEF SitesInv, SavedInv
  <2>6. (i + j - 1) \in Scan!Covered(i, Sleep) /\ (i + j - 1) \in Scan!Covered(p, Sleep)
    <3> PICK b : b = i + j - 1
      OBVIOUS
    <3>1. /\ b \in Nat /\ i \in Nat /\ b - i + 1 \in 1..Len(Sleep)
          /\ b - p + 1 \in 1..Len(Sleep)
      <4>1. b \in p..(p + l - 1)
        BY <2>4, Zenon
      <4>2. b \in Nat /\ i \in Nat /\ Len(Sleep) \in Nat
        BY <2>1, <2>3, SleepLength
      <4>3. b - i + 1 \in 1..Len(Sleep)
        BY <4>2
      <4>4. b - p + 1 \in 1..Len(Sleep)
        BY <2>5, <4>1, <4>2
      <4> QED BY <4>2, <4>3, <4>4
    <3>2. b \in Scan!Covered(i, Sleep) /\ b \in Scan!Covered(p, Sleep)
      BY <2>5, <3>1, InCovered
    <3> QED BY <3>2
  <2>7. i = p
    BY <1>8, <2>5, <2>6, SleepsOverlap
  <2> QED BY <1>1, <2>7
<1>11. Scan!Places(image, Sleep)' = Scan!Places(new, Sleep)
  BY DEF Scan!Places
<1>12. ImageInv'
  <2>1. ASSUME NEW a \in 0..Size - 1, new[a] # exe[a] PROVE InSleep(a) \/ InFix(a)
    BY <1>2, <1>4, <2>1 DEF ImageInv, UndoneInv
  <2> QED BY <1>1, <1>2, <1>8, <1>9, <1>11, <2>1, SamePlaces DEF ImageInv
<1>13. SitesInv'
  BY <1>1, <1>2 DEF SitesInv, Listed
<1>14. SavedInv'
  <2>1. ASSUME NEW s \in DOMAIN sites, NEW j \in 1..Len(sites[s].bytes)
        PROVE  sites[s].bytes[j] = Undone'[sites[s].place + j - 1]
    <3> PICK p, l : p = sites[s].place /\ l = Len(sites[s].bytes)
      OBVIOUS
    <3>1. /\ sites[s].bytes[j] = u[p + j - 1] /\ l \in Nat /\ l <= Len(Sleep) /\ p \in Nat
          /\ p \in Scan!Places(exe, Sleep)
      BY <1>2 DEF SitesInv, SavedInv
    <3>2. p + j - 1 \in 0..Size - 1
      <4>1. SleepsAt(exe, p) /\ j \in 1..Len(Sleep)
        BY <3>1, SleepPlace, SleepLength
      <4> QED BY <4>1 DEF SleepsAt
    <3> QED BY <1>4, <3>1, <3>2
  <2>2. Scan!Places(exe, Sleep)' = Scan!Places(exe, Sleep)
    BY <1>1, SamePlaces
  <2> QED BY <1>1, <1>2, <2>1, <2>2 DEF SavedInv
<1>15. Scan!Places(new, Sleep) \subseteq missed' \cup putBack'
  BY <1>1, <1>2, <1>10
<1>16. CodeInv'
  BY <1>1, <1>2, <1>3, <1>6, <1>11, <1>12, <1>13, <1>15, SamePlaces DEF CodeInv
<1>17. BytesInv'
  BY <1>1, <1>7, <1>14 DEF BytesInv
<1> QED BY <1>16, <1>17

LEMMA UninstallStep ==
    ASSUME CodeInv, BytesInv, Scan!Uninstall
    PROVE  CodeInv' /\ BytesInv'
<1>1. /\ stage = "idle" /\ scanEnabled /\ stage' = stage /\ exe' = exe /\ missed' = missed
  BY DEF Scan!Uninstall
<1>2. PICK done \in SUBSET DOMAIN sites :
         /\ image' = Scan!RestoredAt(image, sites, done)
         /\ IF done = DOMAIN sites
            THEN sites' = <<>> /\ scanEnabled' = FALSE /\ putBack' = {}
            ELSE putBack' = putBack \cup {sites[i].place : i \in done} /\ UNCHANGED <<sites, scanEnabled>>
  BY DEF Scan!Uninstall
<1>3. CASE done = DOMAIN sites
  <2>1. image' = Undone /\ sites' = <<>> /\ ~scanEnabled'
    BY <1>2, <1>3 DEF Undone, Scan!Restored
  <2>2. CodeInv'
    BY <1>1, <2>1, RemovedStep
  <2>3. BytesInv'
    BY <1>1, <2>1, <2>2, NothingWritten
  <2> QED BY <2>2, <2>3
<1>4. CASE done # DOMAIN sites
  <2>1. PartlyRemoved(done)
    BY <1>1, <1>2, <1>4 DEF PartlyRemoved
  <2> QED BY <1>1, <2>1, PartlyRemovedStep
<1> QED BY <1>3, <1>4

LEMMA ReplacementIsWritten ==
    Scan!Replacement \in Written
BY DEF Scan!Replacement, Written

OneMore(old, new, site) ==
    /\ Listed(new) /\ Len(old) \in Nat /\ DOMAIN old = 1..Len(old)
    /\ DOMAIN new = 1..Len(old) + 1 /\ new[Len(old) + 1] = site
    /\ \A s \in 1..Len(old) : new[s] = old[s]

LEMMA OneMoreListed ==
    ASSUME NEW old, Listed(old), NEW site, NEW new, new = Append(old, site)
    PROVE  OneMore(old, new, site)
<1> PICK R : old \in Seq(R)
  BY DEF Listed
<1>1. old \in Seq(R \cup {site})
  OBVIOUS
<1>2. /\ Len(old) \in Nat /\ DOMAIN old = 1..Len(old)
      /\ new \in Seq(R \cup {site}) /\ DOMAIN new = 1..Len(old) + 1 /\ new[Len(old) + 1] = site
      /\ \A s \in 1..Len(old) : new[s] = old[s]
  BY <1>1
<1> QED BY <1>2 DEF Listed, OneMore

\* One more write is tracked.
LEMMA TrackedSite ==
    ASSUME SitesInv, NEW m, NEW x \in Nat, NEW w, Len(w) \in Nat, DOMAIN w = 1..Len(w),
           sites' = Append(sites, SiteAt(m, x, w))
    PROVE  /\ SitesInv'
           /\ \E s \in DOMAIN sites' : sites'[s].place = x
           /\ \A s \in DOMAIN sites : s \in DOMAIN sites' /\ sites'[s] = sites[s]
<1> PICK old, new, site, n : old = sites /\ new = sites' /\ site = SiteAt(m, x, w) /\ n = Len(sites)
  OBVIOUS
<1>1. site.place = x /\ Len(site.bytes) \in Nat /\ DOMAIN site.bytes = 1..Len(site.bytes)
  <2> DEFINE b == [j \in DOMAIN w |-> m[x + j - 1]]
  <2>1. site.bytes = b /\ site.place = x
    BY DEF SiteAt
  <2>2. b \in Seq({m[x + j - 1] : j \in 1..Len(w)})
    OBVIOUS
  <2> HIDE DEF b
  <2> QED BY <2>1, <2>2
<1>2. /\ n \in Nat /\ DOMAIN old = 1..n /\ DOMAIN new = 1..n + 1 /\ new[n + 1] = site
      /\ Listed(new) /\ \A s \in 1..n : new[s] = old[s]
  <2>1. Listed(old) /\ new = Append(old, site)
    BY DEF SitesInv
  <2>2. OneMore(old, new, site)
    BY <2>1, OneMoreListed
  <2>3. n = Len(old)
    OBVIOUS
  <2> QED BY <2>2, <2>3 DEF OneMore
<1>3. ASSUME NEW s \in DOMAIN new
      PROVE  /\ new[s].place \in Nat /\ Len(new[s].bytes) \in Nat
             /\ DOMAIN new[s].bytes = 1..Len(new[s].bytes)
  <2>1. CASE s \in 1..n
    <3>1. new[s] = old[s] /\ s \in DOMAIN old
      BY <1>2, <2>1
    <3> QED BY <3>1 DEF SitesInv
  <2>2. CASE s = n + 1
    BY <1>1, <1>2, <2>2
  <2> QED BY <1>2, <2>1, <2>2
<1>4. SitesInv'
  BY <1>2, <1>3 DEF SitesInv, Listed
<1>5. n + 1 \in DOMAIN new /\ new[n + 1].place = x
  BY <1>1, <1>2
<1>6. \A s \in DOMAIN old : s \in DOMAIN new /\ new[s] = old[s]
  BY <1>2
<1> QED BY <1>4, <1>5, <1>6

\* What a step of Install does to the place x it has found.
SitePatched(m, new, x, w) ==
    /\ stage = "install" /\ stage' = "install" /\ next' = x + Len(Sleep)
    /\ exe' = exe /\ scanEnabled' = scanEnabled /\ sites' = Append(sites, SiteAt(m, x, w))
    /\ \/ new = Scan!Write(m, x, w) /\ missed' = missed
       \/ new = m /\ missed' = missed \cup {x}
    /\ x \in Scan!Places(m, Sleep) /\ x \in Nat /\ next <= x
    /\ \A i \in Scan!Places(m, Sleep) : next <= i => x <= i
    /\ x \in Scan!Places(exe, Sleep) /\ x + Len(Sleep) <= Size
    /\ w \in Written /\ Len(w) \in Nat /\ DOMAIN w = 1..Len(w) /\ Len(w) <= Len(Sleep)
    /\ Wrote(m, new, x, w) \/ new = m
    /\ DOMAIN new = 0..Size - 1

LEMMA PatchSiteIs ==
    ASSUME CodeInv, Scan!PatchSite, NEW m, NEW new, NEW x, NEW w,
           m = image, new = image', x = Scan!Found, w = Scan!Replacement
    PROVE  SitePatched(m, new, x, w)
<1>1. /\ stage = "install" /\ stage' = "install" /\ x >= 0 /\ next' = x + Len(Sleep)
      /\ exe' = exe /\ scanEnabled' = scanEnabled
      /\ sites' = Append(sites, SiteAt(m, x, w))
      /\ \/ new = Scan!Write(m, x, w) /\ missed' = missed
         \/ new = m /\ missed' = missed \cup {x}
  BY DEF Scan!PatchSite, SiteAt
<1>2. /\ InstallInv /\ SitesInv /\ UndoneInv /\ ImageInv /\ ~scanEnabled
      /\ DOMAIN exe = 0..Size - 1 /\ DOMAIN m = 0..Size - 1 /\ next \in 0..Size
  BY <1>1 DEF CodeInv, InstallInv
<1>3. /\ x \in Scan!Places(m, Sleep) /\ x \in Nat /\ next <= x
      /\ \A i \in Scan!Places(m, Sleep) : next <= i => x <= i
  <2>1. FoundInv(x)
    BY <1>2, FoundIs
  <2>2. ~(x < 0)
    BY <1>1, <2>1, SleepLength DEF FoundInv, Scan!NotFound, Scan!Outside
  <2> QED BY <2>1, <2>2 DEF FoundInv
<1>4. x \in Scan!Places(exe, Sleep) /\ x + Len(Sleep) <= Size
  <2>1. x + Len(Sleep) <= Size
    BY <1>3, SleepPlace DEF SleepsAt
  <2> QED BY <1>2, <1>3, <2>1 DEF ImageInv
<1>5. w \in Written /\ Len(w) \in Nat /\ DOMAIN w = 1..Len(w) /\ Len(w) <= Len(Sleep)
  <2>1. w \in Written
    BY ReplacementIsWritten
  <2>2. WrittenInv(w)
    BY <2>1, WrittenIs
  <2> QED BY <2>1, <2>2, SleepLength DEF WrittenInv
<1>6. Wrote(m, new, x, w) \/ new = m
  BY <1>1, <1>2, WriteIs
<1>7. DOMAIN new = 0..Size - 1
  BY <1>2, <1>6 DEF Wrote
<1> QED BY <1>1, <1>2, <1>3, <1>4, <1>5, <1>6, <1>7 DEF SitePatched

LEMMA PatchSiteStep ==
    ASSUME CodeInv, Scan!PatchSite
    PROVE  CodeInv'
<1> PICK m, new, x, w : m = image /\ new = image' /\ x = Scan!Found /\ w = Scan!Replacement
  OBVIOUS
<1>0. SitePatched(m, new, x, w)
  BY PatchSiteIs
<1>1. /\ stage = "install" /\ stage' = "install" /\ next' = x + Len(Sleep)
      /\ exe' = exe /\ scanEnabled' = scanEnabled
      /\ sites' = Append(sites, SiteAt(m, x, w))
      /\ \/ new = Scan!Write(m, x, w) /\ missed' = missed
         \/ new = m /\ missed' = missed \cup {x}
  BY <1>0 DEF SitePatched
<1>2. /\ InstallInv /\ SitesInv /\ UndoneInv /\ ImageInv /\ ~scanEnabled
      /\ DOMAIN exe = 0..Size - 1 /\ DOMAIN m = 0..Size - 1 /\ next \in 0..Size
  BY <1>1 DEF CodeInv, InstallInv
<1>3. /\ x \in Scan!Places(m, Sleep) /\ x \in Nat /\ next <= x
      /\ \A i \in Scan!Places(m, Sleep) : next <= i => x <= i
  BY <1>0 DEF SitePatched
<1>4. x \in Scan!Places(exe, Sleep) /\ x + Len(Sleep) <= Size
  BY <1>0 DEF SitePatched
<1>5. w \in Written /\ Len(w) \in Nat /\ DOMAIN w = 1..Len(w) /\ Len(w) <= Len(Sleep)
  BY <1>0 DEF SitePatched
<1>6. Wrote(m, new, x, w) \/ new = m
  BY <1>0 DEF SitePatched
<1>7. DOMAIN new = 0..Size - 1
  BY <1>0 DEF SitePatched
<1>8. /\ SitesInv'
      /\ \E s \in DOMAIN sites' : sites'[s].place = x
      /\ \A s \in DOMAIN sites : s \in DOMAIN sites' /\ sites'[s] = sites[s]
  BY <1>1, <1>2, <1>3, <1>5, TrackedSite
<1>9. \/ Scan!Places(new, Sleep) = Scan!Places(m, Sleep) \ {x} /\ missed' = missed
      \/ Scan!Places(new, Sleep) = Scan!Places(m, Sleep) /\ missed' = missed \cup {x}
  BY <1>1, <1>2, <1>3, <1>5, WriteIs, SleepOverwritten
<1>10. Scan!Places(image, Sleep)' = Scan!Places(new, Sleep)
  BY DEF Scan!Places
<1>11. \A i \in missed : i < next /\ i # x
  BY <1>2, <1>3 DEF InstallInv
<1>12. UndoneInv'
  <2> PICK u, v, old, more, site : u = Undone /\ v = Undone' /\ old = sites /\ more = sites' /\ site = SiteAt(m, x, w)
    OBVIOUS
  <2>1. u = Scan!Restored(m, old) /\ v = Scan!Restored(new, more)
    BY DEF Undone, Scan!Restored, Scan!RestoredAt
  <2>2. more = Append(old, site) /\ Listed(old)
    BY <1>1, <1>2 DEF SitesInv
  <2>4. ASSUME NEW a \in 0..Size - 1 PROVE v[a] = u[a]
    <3>1. SameRestored(m, old, new, more, a)
      BY <1>2, <1>3, <1>5, <1>6, <2>2, RestoredStays
    <3> QED BY <2>1, <3>1 DEF SameRestored
  <2>5. Scan!Places(v, Sleep) = Scan!Places(u, Sleep)
    BY <2>4, ScanAssumption, PlacesAgree
  <2>6. ASSUME NEW a \in 0..Size - 1, v[a] # exe[a] PROVE InFix(a)
    BY <1>2, <2>4, <2>6 DEF UndoneInv
  <2>7. Scan!Places(v, Sleep) = Scan!Places(exe, Sleep)
    BY <1>2, <2>5 DEF UndoneInv
  <2>8. Scan!Places(Undone, Sleep)' = Scan!Places(exe, Sleep)
    BY <2>7 DEF Scan!Places
  <2> QED BY <1>1, <2>6, <2>8, SamePlaces DEF UndoneInv
<1>13. ImageInv'
  <2>1. ASSUME NEW a \in 0..Size - 1, new[a] # exe[a] PROVE InSleep(a) \/ InFix(a)
    <3>1. CASE new[a] = m[a]
      BY <1>2, <2>1, <3>1 DEF ImageInv
    <3>2. CASE new[a] # m[a]
      <4>1. a \in x..x + Len(w) - 1
        BY <1>6, <3>2 DEF Wrote
      <4>2. a \in Scan!Covered(x, Sleep)
        BY <1>3, <1>5, <4>1, SleepLength DEF Scan!Covered
      <4> QED BY <1>4, <4>2 DEF InSleep
    <3> QED BY <3>1, <3>2
  <2>2. Scan!Places(new, Sleep) \subseteq Scan!Places(exe, Sleep)
    BY <1>2, <1>9 DEF ImageInv
  <2>3. ASSUME NEW i \in Scan!Places(exe, Sleep) \ Scan!Places(new, Sleep)
        PROVE  i \notin missed' /\ \E s \in DOMAIN sites' : sites'[s].place = i
    <3>1. CASE i \in Scan!Places(m, Sleep)
      <4>1. i = x /\ missed' = missed
        BY <1>9, <2>3, <3>1
      <4> QED BY <1>8, <1>11, <4>1
    <3>2. CASE i \notin Scan!Places(m, Sleep)
      <4>1. i \notin missed /\ \E s \in DOMAIN sites : sites[s].place = i
        BY <1>2, <2>3, <3>2 DEF ImageInv
      <4>2. i \notin missed'
        BY <1>3, <1>9, <3>2, <4>1
      <4> QED BY <1>8, <4>1, <4>2
    <3> QED BY <3>1, <3>2
  <2>4. Scan!Places(exe, Sleep)' = Scan!Places(exe, Sleep)
    BY <1>1, SamePlaces
  <2> QED BY <1>1, <1>10, <2>1, <2>2, <2>3, <2>4, SamePlaces DEF ImageInv
<1>14. InstallInv'
  <2>1. next' \in 0..Size
    BY <1>1, <1>3, <1>4, SleepLength
  <2>2. Scan!Padded => next' + Len(Sleep) <= Size
    <3> SUFFICES ASSUME Scan!Padded PROVE next' + Len(Sleep) <= Size
      OBVIOUS
    <3>1. x + 2 * Len(Sleep) <= Size
      BY <1>4 DEF Scan!Padded
    <3> QED BY <1>1, <1>3, <3>1, SleepLength
  <2>3. ASSUME NEW i \in Scan!Places(new, Sleep), i < next' PROVE i \in missed'
    <3>1. i \in Scan!Places(m, Sleep) /\ missed \subseteq missed'
      BY <1>9
    <3>2. i \in Nat
      BY <3>1, SleepPlace DEF SleepsAt
    <3>3. CASE i < next
      BY <1>2, <3>1, <3>3 DEF InstallInv
    <3>4. CASE ~(i < next)
      <4>1. x <= i
        BY <1>2, <1>3, <3>1, <3>2, <3>4, SleepLength
      <4>2. ~(x < i)
        <5>1. x < i => x + Len(Sleep) <= i
          BY <1>3, <3>1, SleepsApart
        <5> QED BY <1>1, <1>3, <2>3, <3>2, <5>1, SleepLength
      <4>3. i = x
        BY <1>3, <3>2, <4>1, <4>2
      <4> QED BY <1>9, <2>3, <4>3
    <3> QED BY <3>3, <3>4
  <2>4. ASSUME NEW i \in missed' PROVE i \in Nat /\ i < next'
    <3>1. i \in missed \/ i = x
      BY <1>9
    <3>2. x < next' /\ next' \in Nat /\ x < x + Len(Sleep)
      BY <1>1, <1>3, SleepLength
    <3>3. CASE i \in missed
      <4>1. i \in Nat /\ i < next
        BY <1>2, <3>3 DEF InstallInv
      <4> QED BY <1>2, <1>3, <3>2, <4>1, SleepLength
    <3> QED BY <1>3, <3>1, <3>2, <3>3
  <2> QED BY <1>1, <1>2, <1>10, <2>1, <2>2, <2>3, <2>4, SamePlaces DEF InstallInv
<1>15. stage' # "attach" /\ stage' # "idle" /\ ~scanEnabled' /\ stage' # "crashed"
  BY <1>1, <1>2
<1> QED BY <1>1, <1>2, <1>7, <1>8, <1>12, <1>13, <1>14, <1>15, SamePlaces DEF CodeInv

\* What RestoreAll would leave stays what it was over a step of Install.
LEMMA UndoneStays ==
    ASSUME CodeInv, NEW m, m = image, NEW new, new = image', NEW x, NEW w, SitePatched(m, new, x, w),
           NEW a \in 0..Size - 1
    PROVE  Undone'[a] = Undone[a]
<1> PICK old, more, site : old = sites /\ more = sites' /\ site = SiteAt(m, x, w)
  OBVIOUS
<1>1. Undone = Scan!Restored(m, old) /\ Undone' = Scan!Restored(new, more)
  BY DEF Undone, Scan!Restored, Scan!RestoredAt
<1>2. more = Append(old, site) /\ Listed(old) /\ DOMAIN m = 0..Size - 1
  BY DEF CodeInv, SitesInv, SitePatched
<1>3. SameRestored(m, old, new, more, a)
  BY <1>2, RestoredStays DEF SitePatched
<1> QED BY <1>1, <1>3 DEF SameRestored

LEMMA BytesPatchSite ==
    ASSUME CodeInv, BytesInv, Scan!PatchSite
    PROVE  BytesInv'
<1> PICK m, new, x, w, u : m = image /\ new = image' /\ x = Scan!Found /\ w = Scan!Replacement /\ u = Undone
  OBVIOUS
<1>1. SitePatched(m, new, x, w)
  BY PatchSiteIs
<1>2. /\ stage = "install" /\ stage' = "install" /\ exe' = exe /\ next' = x + Len(Sleep)
      /\ sites' = Append(sites, SiteAt(m, x, w))
      /\ \/ new = Scan!Write(m, x, w) /\ missed' = missed
         \/ new = m /\ missed' = missed \cup {x}
      /\ x \in Scan!Places(m, Sleep) /\ x \in Scan!Places(exe, Sleep) /\ x \in Nat /\ next <= x
      /\ w \in Written /\ Len(w) \in Nat /\ DOMAIN w = 1..Len(w) /\ Len(w) <= Len(Sleep)
      /\ Wrote(m, new, x, w) \/ new = m
  BY <1>1 DEF SitePatched
<1>3. /\ SitesInv /\ SavedInv /\ Mixed(m) /\ LeftInv /\ InstallInv /\ next \in Nat
      /\ DOMAIN m = 0..Size - 1
  BY <1>2, SleepLength DEF CodeInv, BytesInv, InstallInv
<1>4. \A a \in 0..Size - 1 : Undone'[a] = u[a]
  BY <1>1, UndoneStays
<1>5. Scan!Places(exe, Sleep)' = Scan!Places(exe, Sleep)
  BY <1>2, SamePlaces
<1>6. Mixed(image)'
  <2>1. ASSUME NEW a \in 0..Size - 1 PROVE new[a] = u[a] \/ Rewritten(new, a)
    <3>1. CASE new[a] = m[a]
      BY <1>3, <3>1 DEF Mixed, Rewritten
    <3>2. CASE new[a] # m[a]
      <4>1. a \in x..x + Len(w) - 1 /\ new[a] = w[a - x + 1]
        BY <1>2, <3>2 DEF Wrote
      <4>2. a - x + 1 \in 1..Len(w)
        BY <1>2, <4>1
      <4> QED BY <1>2, <4>1, <4>2 DEF Rewritten
    <3> QED BY <3>1, <3>2
  <2>2. \A a : Rewritten(image, a)' <=> Rewritten(new, a)
    BY <1>2, <1>5 DEF Rewritten
  <2> QED BY <1>4, <2>1, <2>2 DEF Mixed
<1>7. SavedInv'
  <2> PICK old, more, site, n : old = sites /\ more = sites' /\ site = SiteAt(m, x, w) /\ n = Len(sites)
    OBVIOUS
  <2>1. OneMore(old, more, site) /\ n = Len(old) /\ n \in Nat
    <3>1. Listed(old) /\ more = Append(old, site)
      BY <1>2, <1>3 DEF SitesInv
    <3>2. OneMore(old, more, site)
      BY <3>1, OneMoreListed
    <3> QED BY <3>2 DEF OneMore
  <2>2. ASSUME NEW s \in 1..n
        PROVE  /\ more[s].place \in Scan!Places(exe, Sleep) /\ Len(more[s].bytes) <= Len(Sleep)
               /\ \A j \in 1..Len(more[s].bytes) : more[s].bytes[j] = Undone'[more[s].place + j - 1]
    <3>1. more[s] = old[s] /\ s \in DOMAIN old
      BY <2>1 DEF OneMore
    <3> PICK p, l : p = old[s].place /\ l = Len(old[s].bytes)
      OBVIOUS
    <3>2. /\ p \in Scan!Places(exe, Sleep) /\ l <= Len(Sleep) /\ l \in Nat
          /\ \A j \in 1..l : old[s].bytes[j] = u[p + j - 1]
      BY <1>3, <3>1 DEF SavedInv, SitesInv
    <3>3. ASSUME NEW j \in 1..l PROVE p + j - 1 \in 0..Size - 1
      <4>1. SleepsAt(exe, p) /\ j \in 1..Len(Sleep)
        BY <3>2, SleepPlace, SleepLength
      <4> QED BY <4>1 DEF SleepsAt
    <3>4. more[s].place = p /\ more[s].bytes = old[s].bytes /\ Len(more[s].bytes) = l
      BY <3>1
    <3>5. ASSUME NEW j \in 1..l PROVE old[s].bytes[j] = Undone'[p + j - 1]
      <4>1. old[s].bytes[j] = u[p + j - 1]
        BY <3>2
      <4> QED BY <1>4, <3>3, <4>1
    <3> QED BY <3>2, <3>4, <3>5
  <2>3. site.place = x /\ Len(site.bytes) = Len(w) /\ \A j \in 1..Len(w) : site.bytes[j] = m[x + j - 1]
    <3>1. IsSite(site, m, x, w)
      BY <1>2, SiteIs
    <3> QED BY <3>1 DEF IsSite
  <2>4. ASSUME NEW j \in 1..Len(w) PROVE site.bytes[j] = Undone'[x + j - 1]
    <3>1. j \in 1..Len(Sleep)
      BY <1>2, SleepLength
    <3>2. m[x + j - 1] = u[x + j - 1]
      BY <1>2, <1>3, <3>1 DEF LeftInv
    <3>3. x + j - 1 \in 0..Size - 1
      BY <1>2, <3>1, SleepPlace DEF SleepsAt
    <3> QED BY <1>4, <2>3, <3>2, <3>3
  <2>5. DOMAIN more = 1..n + 1 /\ more[n + 1] = site
    BY <2>1 DEF OneMore
  <2>6. ASSUME NEW s \in DOMAIN more
        PROVE  /\ more[s].place \in Scan!Places(exe, Sleep) /\ Len(more[s].bytes) <= Len(Sleep)
               /\ \A j \in 1..Len(more[s].bytes) : more[s].bytes[j] = Undone'[more[s].place + j - 1]
    <3>1. s \in 1..n \/ s = n + 1
      BY <2>1, <2>5
    <3>2. CASE s = n + 1
      BY <1>2, <2>3, <2>4, <2>5, <3>2
    <3> QED BY <2>2, <3>1, <3>2
  <2> QED BY <1>5, <2>6 DEF SavedInv
<1>8. LeftInv'
  <2>1. ASSUME NEW i \in Scan!Places(new, Sleep), NEW j \in 1..Len(Sleep)
        PROVE  new[i + j - 1] = Undone'[i + j - 1]
    <3>1. i \in Scan!Places(m, Sleep)
      BY <1>2, <1>3, WriteIs, SleepOverwritten
    <3>2. i \in Nat /\ i + j - 1 \in 0..Size - 1
      BY <3>1, SleepPlace DEF SleepsAt
    <3>3. m[i + j - 1] = u[i + j - 1]
      BY <1>3, <3>1 DEF LeftInv
    <3>4. new[i + j - 1] = m[i + j - 1]
      <4> SUFFICES ASSUME new[i + j - 1] # m[i + j - 1] PROVE FALSE
        OBVIOUS
      <4>1. i + j - 1 \in x..x + Len(w) - 1 /\ Wrote(m, new, x, w) /\ new = Scan!Write(m, x, w)
        BY <1>2, <3>2 DEF Wrote
      <4>2. (i + j - 1) \in Scan!Covered(i, Sleep) /\ (i + j - 1) \in Scan!Covered(x, Sleep)
        <5> PICK b : b = i + j - 1
          OBVIOUS
        <5>1. /\ b \in Nat /\ x \in Nat /\ b - i + 1 \in 1..Len(Sleep)
              /\ b - x + 1 \in 1..Len(Sleep)
          BY <1>2, <3>2, <4>1, SleepLength, SleepPlace DEF SleepsAt
        <5>2. b \in Scan!Covered(i, Sleep) /\ b \in Scan!Covered(x, Sleep)
          BY <3>2, <5>1, InCovered
        <5> QED BY <5>2
      <4>3. i = x
        BY <1>2, <3>1, <4>2, SleepsOverlap
      <4>4. i \notin Scan!Places(new, Sleep)
        BY <1>2, <4>1, <4>3, SleepOverwritten
      <4> QED BY <4>4
    <3> QED BY <1>4, <3>2, <3>3, <3>4
  <2>2. \A s \in DOMAIN sites : s \in DOMAIN sites' /\ sites'[s] = sites[s]
    BY <1>2, <1>3, TrackedSite
  <2>3. \E s \in DOMAIN sites' : sites'[s].place = x
    BY <1>2, <1>3, TrackedSite
  <2>4. x < next' /\ next < next'
    BY <1>2, <1>3, SleepLength
  <2>5. AsFound' \/ \E s \in DOMAIN sites' : sites'[s].place \notin missed' /\ sites'[s].place < next'
    <3>1. CASE AsFound /\ new = m
      BY <1>4, <3>1 DEF AsFound
    <3>2. CASE new # m
      <4>1. missed' = missed /\ x \notin missed
        BY <1>2, <1>3, <3>2, SleepLength DEF InstallInv
      <4> QED BY <2>3, <2>4, <4>1
    <3>3. CASE ~AsFound
      <4>1. PICK s \in DOMAIN sites : sites[s].place \notin missed /\ sites[s].place < next
        BY <1>3, <3>3 DEF LeftInv
      <4>2. sites[s].place \in Nat
        BY <1>3 DEF SitesInv
      <4>3. sites[s].place < next' /\ sites[s].place # x
        BY <1>2, <1>3, <2>4, <4>1, <4>2, SleepLength
      <4>4. sites[s].place \notin missed'
        BY <1>2, <4>1, <4>3
      <4> QED BY <2>2, <4>3, <4>4
    <3> QED BY <3>1, <3>2, <3>3
  <2>6. Scan!Places(image, Sleep)' = Scan!Places(new, Sleep)
    BY DEF Scan!Places
  <2> QED BY <2>1, <2>5, <2>6 DEF LeftInv
<1> QED BY <1>2, <1>6, <1>7, <1>8 DEF BytesInv

\* The code and what is tracked of it stay.
LEMMA SameBytes ==
    ASSUME BytesInv, exe' = exe, image' = image, sites' = sites
    PROVE  SavedInv' /\ Mixed(image)' /\ (AsFound' <=> AsFound)
<1>1. Undone' = Undone
  BY DEF Undone, Scan!Restored, Scan!RestoredAt
<1>2. Scan!Places(exe, Sleep)' = Scan!Places(exe, Sleep)
  BY SamePlaces
<1>3. \A a : Rewritten(image, a)' <=> Rewritten(image, a)
  BY <1>2 DEF Rewritten
<1>4. Mixed(image)'
  BY <1>1, <1>3 DEF BytesInv, Mixed
<1>5. SavedInv'
  BY <1>1, <1>2 DEF BytesInv, SavedInv
<1>6. AsFound' <=> AsFound
  BY <1>1 DEF AsFound
<1> QED BY <1>4, <1>5, <1>6

LEMMA NoBytesStep ==
    ASSUME BytesInv, exe' = exe, image' = image, stage' = stage, next' = next,
           sites' = sites, missed' = missed, scanEnabled' = scanEnabled
    PROVE  BytesInv'
<1>1. Undone' = Undone
  BY DEF Undone, Scan!Restored, Scan!RestoredAt
<1>2. Scan!Places(image, Sleep)' = Scan!Places(image, Sleep)
  BY DEF Scan!Places
<1>3. LeftInv' <=> LeftInv
  BY <1>1, <1>2, SameBytes DEF LeftInv
<1> QED BY <1>3, SameBytes DEF BytesInv

LEMMA BytesBeginInstall ==
    ASSUME BytesInv, Scan!BeginInstall
    PROVE  BytesInv'
<1>1. /\ stage = "idle" /\ ~scanEnabled /\ stage' = "install" /\ exe' = exe /\ image' = image /\ sites' = sites
  BY DEF Scan!BeginInstall
<1>2. AsFound /\ SavedInv' /\ Mixed(image)' /\ AsFound'
  BY <1>1, SameBytes DEF BytesInv
<1>3. LeftInv'
  <2> PICK m, u : m = image' /\ u = Undone'
    OBVIOUS
  <2>1. \A a \in 0..Size - 1 : m[a] = u[a]
    BY <1>2 DEF AsFound
  <2>2. ASSUME NEW i \in Scan!Places(m, Sleep), NEW j \in 1..Len(Sleep) PROVE m[i + j - 1] = u[i + j - 1]
    BY <2>1, SleepPlace DEF SleepsAt
  <2>3. Scan!Places(image, Sleep)' = Scan!Places(m, Sleep)
    BY DEF Scan!Places
  <2> QED BY <1>2, <2>2, <2>3 DEF LeftInv
<1> QED BY <1>1, <1>2, <1>3 DEF BytesInv

LEMMA BytesEndInstall ==
    ASSUME BytesInv, Scan!EndInstall
    PROVE  BytesInv'
<1>1. /\ stage = "install" /\ stage' \in {"idle", "crashed"}
      /\ scanEnabled' = (\E s \in DOMAIN sites : sites[s].place \notin missed)
      /\ exe' = exe /\ image' = image /\ sites' = sites
  BY DEF Scan!EndInstall
<1>2. ~scanEnabled' => AsFound
  BY <1>1 DEF BytesInv, LeftInv
<1> QED BY <1>1, <1>2, SameBytes DEF BytesInv

LEMMA CodeInitInv == Scan!Init => CodeInv /\ BytesInv
<1> SUFFICES ASSUME Scan!Init PROVE CodeInv /\ BytesInv
  OBVIOUS
<1>1. exe \in Images /\ image = exe /\ sites = <<>> /\ missed = {} /\ stage = "attach" /\ next = 1 /\ ~scanEnabled
  BY DEF Scan!Init
<1>2. DOMAIN exe = 0..Size - 1
  BY <1>1, CodeAssumption DEF CodeAssumption
<1>3. DOMAIN sites = {} /\ Listed(sites)
  BY <1>1 DEF Listed
<1>4. ASSUME NEW a \in 0..Size - 1 PROVE Undone[a] = exe[a]
  <2>1. Undone = Scan!Restored(exe, <<>>)
    BY <1>1 DEF Undone
  <2> QED BY <1>2, <2>1, NothingToRestore
<1>5. UndoneInv
  <2>1. Scan!Places(Undone, Sleep) = Scan!Places(exe, Sleep)
    BY <1>4, ScanAssumption, PlacesAgree
  <2> QED BY <1>4, <2>1 DEF UndoneInv
<1>6. SitesInv /\ ImageInv /\ AttachInv
  BY <1>1, <1>3 DEF SitesInv, ImageInv, AttachInv
<1>7. SavedInv /\ Mixed(image) /\ AsFound
  BY <1>1, <1>3, <1>4 DEF SavedInv, Mixed, AsFound
<1>8. BytesInv
  BY <1>1, <1>7 DEF BytesInv
<1> QED BY <1>1, <1>2, <1>5, <1>6, <1>8 DEF CodeInv

LEMMA CodeStep == CodeInv /\ BytesInv /\ [Scan!Next]_Scan!vars => CodeInv' /\ BytesInv'
<1> SUFFICES ASSUME CodeInv, BytesInv, [Scan!Next]_Scan!vars PROVE CodeInv' /\ BytesInv'
  OBVIOUS
<1>1. CASE Scan!ApplyFix
  <2>1. CodeInv'
    BY <1>1, ApplyFixStep
  <2>2. sites' = <<>> /\ stage' # "install"
    BY <1>1 DEF CodeInv, AttachInv, Scan!ApplyFix
  <2> QED BY <2>1, <2>2, NothingWritten
<1>2. CASE Scan!Attached
  <2>1. CodeInv'
    BY <1>2, AttachedStep
  <2>2. sites' = <<>> /\ stage' # "install"
    BY <1>2 DEF CodeInv, AttachInv, Scan!Attached
  <2> QED BY <2>1, <2>2, NothingWritten
<1>3. CASE Scan!ChangeRate
  BY <1>3, NoCodeStep, NoBytesStep DEF Scan!ChangeRate
<1>4. CASE Scan!BeginInstall
  BY <1>4, BeginInstallStep, BytesBeginInstall
<1>5. CASE Scan!PatchSite
  BY <1>5, PatchSiteStep, BytesPatchSite
<1>6. CASE Scan!EndInstall
  BY <1>6, EndInstallStep, BytesEndInstall
<1>7. CASE Scan!Uninstall
  BY <1>7, UninstallStep
<1>8. CASE UNCHANGED Scan!vars
  BY <1>8, NoCodeStep, NoBytesStep DEF Scan!vars
<1> QED BY <1>1, <1>2, <1>3, <1>4, <1>5, <1>6, <1>7, <1>8 DEF Scan!Next

LEMMA CodeIsMeant == CodeInv => Scan!CodeIsChangedWhereMeant
<1> SUFFICES ASSUME CodeInv PROVE Scan!CodeIsChangedWhereMeant
  OBVIOUS
<1>1. /\ DOMAIN image = 0..Size - 1
      /\ \A a \in 0..Size - 1 : image[a] # exe[a] => InSleep(a) \/ InFix(a)
      /\ Scan!Padded => stage # "crashed"
      /\ scanEnabled => Scan!Places(image, Sleep) \subseteq missed \cup putBack
      /\ stage = "idle" /\ ~scanEnabled => Scan!Places(exe, Sleep) \subseteq Scan!Places(image, Sleep)
  BY DEF CodeInv, ImageInv
<1>2. ASSUME NEW a \in DOMAIN image, image[a] # exe[a]
      PROVE  \/ \E i \in Scan!Places(exe, Sleep) : a \in Scan!Covered(i, Sleep)
             \/ \E k \in DOMAIN Fixes :
                   \E i \in Scan!Places(exe, Fixes[k].pattern) : a \in Scan!Covered(i, Fixes[k].pattern)
  BY <1>1, <1>2 DEF InSleep, InFix
<1> QED BY <1>1, <1>2 DEF Scan!CodeIsChangedWhereMeant

\* For images, patterns and rates of any kind, with the code's assumption about their
\* literals, whichever writes and restores fail: a byte that differs from the game's
\* belongs to a place one of the patterns describes, an enabled patch leaves only places
\* whose write failed or that a failed removal has restored, and a removal that
\* succeeds takes all of it back (smooth_patch_classic.cpp, Install and Uninstall;
\* patch_helpers.h, RestoreAll; dllmain.cpp, ApplyCpuidTopologyFix).
THEOREM CodeChangesAreMeant == ComponentsSpec => []CodeIsChangedWhereMeant
<1> DEFINE Inv == subject = "scan" => CodeInv /\ BytesInv
<1>1. ComponentsInit => Inv
  <2>1. Scan!Init => CodeInv /\ BytesInv
    BY CodeInitInv
  <2> QED BY <2>1 DEF ComponentsInit
<1>2. Inv /\ [ComponentsNext]_all => Inv'
  BY SubjectStays, SubjectSteps, CodeStep
<1>3. Inv => CodeIsChangedWhereMeant
  BY CodeIsMeant DEF CodeIsChangedWhereMeant
<1> QED BY <1>1, <1>2, <1>3, PTL DEF ComponentsSpec

-----------------------------------------------------------------------------
(* PixelFilters: the packed average, channel by channel. *)

Octets == 0..255
PixelWords == {x \in Nat : x < 65536}

LEMMA BitIsHalving ==
    ASSUME NEW x \in Nat
    PROVE  /\ x = 2 * (x \div 2) + Filter!Bit(x, 1)
           /\ x \div 2 = 2 * (x \div 4) + Filter!Bit(x, 2)
           /\ x \div 4 = 2 * (x \div 8) + Filter!Bit(x, 4)
           /\ x \div 8 = 2 * (x \div 16) + Filter!Bit(x, 8)
           /\ x \div 16 = 2 * (x \div 32) + Filter!Bit(x, 16)
           /\ x \div 32 = 2 * (x \div 64) + Filter!Bit(x, 32)
           /\ x \div 64 = 2 * (x \div 128) + Filter!Bit(x, 64)
           /\ x \div 128 = 2 * (x \div 256) + Filter!Bit(x, 128)
<1>1. x = 2 * (x \div 2) + Filter!Bit(x, 1)
  BY DEF Filter!Bit
<1>2. x \div 2 = 2 * (x \div 4) + Filter!Bit(x, 2)
  BY DEF Filter!Bit
<1>3. x \div 4 = 2 * (x \div 8) + Filter!Bit(x, 4)
  BY DEF Filter!Bit
<1>4. x \div 8 = 2 * (x \div 16) + Filter!Bit(x, 8)
  BY DEF Filter!Bit
<1>5. x \div 16 = 2 * (x \div 32) + Filter!Bit(x, 16)
  BY DEF Filter!Bit
<1>6. x \div 32 = 2 * (x \div 64) + Filter!Bit(x, 32)
  BY DEF Filter!Bit
<1>7. x \div 64 = 2 * (x \div 128) + Filter!Bit(x, 64)
  BY DEF Filter!Bit
<1>8. x \div 128 = 2 * (x \div 256) + Filter!Bit(x, 128)
  BY DEF Filter!Bit
<1> QED BY <1>1, <1>2, <1>3, <1>4, <1>5, <1>6, <1>7, <1>8

IsBit(n) == n = 0 \/ n = 1

LEMMA BitIsBit ==
    ASSUME NEW x \in Nat, NEW value \in Nat \ {0}
    PROVE  IsBit(Filter!Bit(x, value))
<1>1. x \div value \in Int
  OBVIOUS
<1> DEFINE y == x \div value
<1>2. y % 2 = 0 \/ y % 2 = 1
  <2> HIDE DEF y
  <2> QED BY <1>1 DEF y
<1> QED BY <1>2 DEF Filter!Bit, IsBit

\* The sum of eight digits.
Digits(b1, b2, b4, b8, b16, b32, b64, b128) ==
    b1 + 2 * b2 + 4 * b4 + 8 * b8 + 16 * b16 + 32 * b32 + 64 * b64 + 128 * b128

BitsOf(x) ==
    Digits(Filter!Bit(x, 1), Filter!Bit(x, 2), Filter!Bit(x, 4), Filter!Bit(x, 8),
           Filter!Bit(x, 16), Filter!Bit(x, 32), Filter!Bit(x, 64), Filter!Bit(x, 128))

LEMMA OctetIsItsBits ==
    ASSUME NEW x \in Octets
    PROVE  BitsOf(x) = x
<1> DEFINE b(value) == Filter!Bit(x, value)
           q(value) == x \div value
<1>1. x \in Int /\ x \in Nat /\ q(128) = 2 * 0 + Filter!Bit(x, 128)
  BY DEF Octets, Filter!Bit
<1>2. /\ q(2) \in Int /\ q(4) \in Int /\ q(8) \in Int /\ q(16) \in Int /\ q(32) \in Int
      /\ q(64) \in Int
  BY <1>1
<1>3. /\ b(1) \in Int /\ b(2) \in Int /\ b(4) \in Int /\ b(8) \in Int /\ b(16) \in Int /\ b(32) \in Int
      /\ b(64) \in Int /\ b(128) \in Int
  BY <1>1, BitIsBit DEF IsBit
<1>4. q(128) = b(128)
  BY <1>1, <1>3
<1>5. /\ x = 2 * q(2) + b(1) /\ q(2) = 2 * q(4) + b(2) /\ q(4) = 2 * q(8) + b(4) /\ q(8) = 2 * q(16) + b(8)
      /\ q(16) = 2 * q(32) + b(16) /\ q(32) = 2 * q(64) + b(32) /\ q(64) = 2 * q(128) + b(64)
  <2>1. x = 2 * q(2) + b(1) /\ q(2) = 2 * q(4) + b(2)
    BY <1>1, BitIsHalving
  <2>2. q(4) = 2 * q(8) + b(4) /\ q(8) = 2 * q(16) + b(8)
    BY <1>1, BitIsHalving
  <2>3. q(16) = 2 * q(32) + b(16) /\ q(32) = 2 * q(64) + b(32) /\ q(64) = 2 * q(128) + b(64)
    BY <1>1, BitIsHalving
  <2> QED BY <2>1, <2>2, <2>3
<1> HIDE DEF q, b
<1>6. q(32) = 2 * (2 * b(128) + b(64)) + b(32)
  BY <1>2, <1>3, <1>4, <1>5
<1>7. q(8) = 2 * (2 * (2 * (2 * b(128) + b(64)) + b(32)) + b(16)) + b(8)
  BY <1>2, <1>3, <1>5, <1>6
<1>8. x = b(1) + 2 * b(2) + 4 * b(4) + 8 * q(8)
  BY <1>1, <1>2, <1>3, <1>5
<1>9. x = Digits(b(1), b(2), b(4), b(8), b(16), b(32), b(64), b(128))
  BY <1>2, <1>3, <1>7, <1>8 DEF Digits
<1> QED BY <1>9, Zenon DEF BitsOf, b

\* The bits of a word are those of its channels.
LEMMA BitsOfChannels ==
    ASSUME NEW x \in Nat, NEW value \in {1, 2, 4, 8, 16, 32, 64, 128}
    PROVE  /\ Filter!Bit(x, value) = Filter!Bit(Filter!Colour(x), value)
           /\ Filter!Bit(x, 256 * value) = Filter!Bit(Filter!Alpha(x), value)
<1>1. CASE value = 1
  BY <1>1 DEF Filter!Bit, Filter!Colour, Filter!Alpha
<1>2. CASE value = 2
  BY <1>2 DEF Filter!Bit, Filter!Colour, Filter!Alpha
<1>3. CASE value = 4
  BY <1>3 DEF Filter!Bit, Filter!Colour, Filter!Alpha
<1>4. CASE value = 8
  BY <1>4 DEF Filter!Bit, Filter!Colour, Filter!Alpha
<1>5. CASE value = 16
  BY <1>5 DEF Filter!Bit, Filter!Colour, Filter!Alpha
<1>6. CASE value = 32
  BY <1>6 DEF Filter!Bit, Filter!Colour, Filter!Alpha
<1>7. CASE value = 64
  BY <1>7 DEF Filter!Bit, Filter!Colour, Filter!Alpha
<1>8. CASE value = 128
  BY <1>8 DEF Filter!Bit, Filter!Colour, Filter!Alpha
<1> QED BY <1>1, <1>2, <1>3, <1>4, <1>5, <1>6, <1>7, <1>8

\* What And and Xor leave of a bit, and of a channel.
Carry(p, q, value) == (Filter!Bit(p, value) + Filter!Bit(q, value)) \div 2
Odd(p, q, value) == (Filter!Bit(p, value) + Filter!Bit(q, value)) % 2

CarryOctet(p, q) ==
    Digits(Carry(p, q, 1), Carry(p, q, 2), Carry(p, q, 4), Carry(p, q, 8),
           Carry(p, q, 16), Carry(p, q, 32), Carry(p, q, 64), Carry(p, q, 128))
OddOctet(p, q) ==
    Digits(Odd(p, q, 1), Odd(p, q, 2), Odd(p, q, 4), Odd(p, q, 8),
           Odd(p, q, 16), Odd(p, q, 32), Odd(p, q, 64), Odd(p, q, 128))

LEMMA AndByChannel ==
    ASSUME NEW a \in Nat, NEW b \in Nat
    PROVE  /\ Filter!And(a, b) = Filter!Pixel(CarryOctet(Filter!Alpha(a), Filter!Alpha(b)),
                                              CarryOctet(Filter!Colour(a), Filter!Colour(b)))
           /\ Filter!Xor(a, b) = Filter!Pixel(OddOctet(Filter!Alpha(a), Filter!Alpha(b)),
                                              OddOctet(Filter!Colour(a), Filter!Colour(b)))
<1> DEFINE Low(x) == Filter!Colour(x)
           High(x) == Filter!Alpha(x)
           A(value) == (Filter!Bit(a, value) + Filter!Bit(b, value)) \div 2
           X(value) == (Filter!Bit(a, value) + Filter!Bit(b, value)) % 2
<1>1. ASSUME NEW value \in {1, 2, 4, 8, 16, 32, 64, 128}
      PROVE  /\ A(value) = Carry(Low(a), Low(b), value) /\ A(256 * value) = Carry(High(a), High(b), value)
             /\ X(value) = Odd(Low(a), Low(b), value) /\ X(256 * value) = Odd(High(a), High(b), value)
  <2>1. /\ Filter!Bit(a, value) = Filter!Bit(Low(a), value)
        /\ Filter!Bit(a, 256 * value) = Filter!Bit(High(a), value)
        /\ Filter!Bit(b, value) = Filter!Bit(Low(b), value)
        /\ Filter!Bit(b, 256 * value) = Filter!Bit(High(b), value)
    BY BitsOfChannels
  <2> QED BY <2>1, Zenon DEF Carry, Odd
<1>2. /\ Filter!And(a, b) = Filter!Pixel(
            Digits(A(256 * 1), A(256 * 2), A(256 * 4), A(256 * 8),
                   A(256 * 16), A(256 * 32), A(256 * 64), A(256 * 128)),
            Digits(A(1), A(2), A(4), A(8), A(16), A(32), A(64), A(128)))
      /\ Filter!Xor(a, b) = Filter!Pixel(
            Digits(X(256 * 1), X(256 * 2), X(256 * 4), X(256 * 8),
                   X(256 * 16), X(256 * 32), X(256 * 64), X(256 * 128)),
            Digits(X(1), X(2), X(4), X(8), X(16), X(32), X(64), X(128)))
  BY Zenon DEF Filter!And, Filter!Xor, Filter!TwoBytes, Filter!Byte, Digits
<1> HIDE DEF Low, High, A, X
<1>3. Filter!And(a, b) = Filter!Pixel(CarryOctet(High(a), High(b)), CarryOctet(Low(a), Low(b)))
  BY <1>1, <1>2 DEF CarryOctet
<1>4. Filter!Xor(a, b) = Filter!Pixel(OddOctet(High(a), High(b)), OddOctet(Low(a), Low(b)))
  BY <1>1, <1>2 DEF OddOctet
<1> QED BY <1>3, <1>4 DEF Low, High

LEMMA DigitsInOctets ==
    ASSUME NEW b1, NEW b2, NEW b4, NEW b8, NEW b16, NEW b32, NEW b64, NEW b128,
           IsBit(b1), IsBit(b2), IsBit(b4), IsBit(b8), IsBit(b16), IsBit(b32), IsBit(b64), IsBit(b128)
    PROVE  Digits(b1, b2, b4, b8, b16, b32, b64, b128) \in Octets
BY DEF Digits, Octets, IsBit

LEMMA CarryAndOdd ==
    ASSUME NEW p \in Nat, NEW q \in Nat, NEW value \in Nat \ {0}
    PROVE  /\ IsBit(Carry(p, q, value)) /\ IsBit(Odd(p, q, value))
           /\ Filter!Bit(p, value) + Filter!Bit(q, value) = 2 * Carry(p, q, value) + Odd(p, q, value)
BY BitIsBit DEF Carry, Odd, IsBit

\* The two operators share out the sum.
LEMMA SumIsShared ==
    ASSUME NEW p \in Octets, NEW q \in Octets
    PROVE  /\ CarryOctet(p, q) \in Octets /\ OddOctet(p, q) \in Octets
           /\ p + q = 2 * CarryOctet(p, q) + OddOctet(p, q)
<1>1. p \in Nat /\ q \in Nat
  BY DEF Octets
<1> DEFINE P(value) == Filter!Bit(p, value)
           Q(value) == Filter!Bit(q, value)
           C(value) == Carry(p, q, value)
           O(value) == Odd(p, q, value)
<1>2. ASSUME NEW value \in Nat \ {0}
      PROVE  IsBit(C(value)) /\ IsBit(O(value)) /\ IsBit(P(value)) /\ IsBit(Q(value))
             /\ P(value) + Q(value) = 2 * C(value) + O(value)
  BY <1>1, BitIsBit, CarryAndOdd
<1> HIDE DEF P, Q, C, O
<1>3. CarryOctet(p, q) \in Octets /\ OddOctet(p, q) \in Octets
  <2>1. CarryOctet(p, q) \in Octets
    BY <1>2, DigitsInOctets DEF CarryOctet, C
  <2>2. OddOctet(p, q) \in Octets
    BY <1>2, DigitsInOctets DEF OddOctet, O
  <2> QED BY <2>1, <2>2
<1>4. /\ p = Digits(P(1), P(2), P(4), P(8), P(16), P(32), P(64), P(128))
      /\ q = Digits(Q(1), Q(2), Q(4), Q(8), Q(16), Q(32), Q(64), Q(128))
      /\ CarryOctet(p, q) = Digits(C(1), C(2), C(4), C(8), C(16), C(32), C(64), C(128))
      /\ OddOctet(p, q) = Digits(O(1), O(2), O(4), O(8), O(16), O(32), O(64), O(128))
  BY OctetIsItsBits, Zenon DEF BitsOf, CarryOctet, OddOctet, P, Q, C, O
<1>5. \A value \in {1, 2, 4, 8, 16, 32, 64, 128} :
         /\ P(value) \in Int /\ Q(value) \in Int /\ C(value) \in Int /\ O(value) \in Int
         /\ P(value) + Q(value) = 2 * C(value) + O(value)
  BY <1>2 DEF IsBit
<1>6. p + q = 2 * CarryOctet(p, q) + OddOctet(p, q)
  BY <1>4, <1>5 DEF Digits
<1> QED BY <1>3, <1>6

LEMMA ChannelsAreOctets ==
    ASSUME NEW x \in PixelWords
    PROVE  /\ Filter!Colour(x) \in Octets /\ Filter!Alpha(x) \in Octets /\ x \in Nat
           /\ x = Filter!Pixel(Filter!Alpha(x), Filter!Colour(x))
<1>1. x \in Nat /\ x < 65536
  BY DEF PixelWords
<1>2. x % 256 \in 0..255 /\ x \div 256 \in 0..255 /\ x = 256 * (x \div 256) + (x % 256)
  BY <1>1
<1> QED BY <1>1, <1>2 DEF Octets, Filter!Colour, Filter!Alpha, Filter!Pixel

LEMMA PixelHasChannels ==
    ASSUME NEW p \in Octets, NEW q \in Octets
    PROVE  /\ Filter!Pixel(p, q) \in PixelWords
           /\ Filter!Alpha(Filter!Pixel(p, q)) = p /\ Filter!Colour(Filter!Pixel(p, q)) = q
<1>1. p \in 0..255 /\ q \in 0..255
  BY DEF Octets
<1>2. 256 * p + q \in Nat /\ 256 * p + q < 65536
  BY <1>1
<1>3. (256 * p + q) \div 256 = p /\ (256 * p + q) % 256 = q
  BY <1>1
<1> QED BY <1>2, <1>3 DEF PixelWords, Filter!Colour, Filter!Alpha, Filter!Pixel

\* The mask of a byte keeps its lower seven bits.
LEMMA LowSevenBits ==
    ASSUME NEW h \in Octets
    PROVE  CarryOctet(h, 127) = h % 128
<1>1. h \in Nat /\ h \in Octets /\ h \in 0..255 /\ 127 \in Nat
  BY DEF Octets
<1> DEFINE H(value) == Filter!Bit(h, value)
<1>2. \A value \in {1, 2, 4, 8, 16, 32, 64, 128} : H(value) = 0 \/ H(value) = 1
  BY <1>1, BitIsBit DEF IsBit
<1>3. /\ Filter!Bit(127, 1) = 1 /\ Filter!Bit(127, 2) = 1 /\ Filter!Bit(127, 4) = 1 /\ Filter!Bit(127, 8) = 1
      /\ Filter!Bit(127, 16) = 1 /\ Filter!Bit(127, 32) = 1 /\ Filter!Bit(127, 64) = 1 /\ Filter!Bit(127, 128) = 0
  BY DEF Filter!Bit
<1>4. BitsOf(h) = h
  BY OctetIsItsBits
<1>5. h = Digits(H(1), H(2), H(4), H(8), H(16), H(32), H(64), H(128))
  BY <1>4, Zenon DEF BitsOf
<1> HIDE DEF H
<1>6. \A value \in {1, 2, 4, 8, 16, 32, 64} : Carry(h, 127, value) = H(value)
  <2>1. ASSUME NEW value \in {1, 2, 4, 8, 16, 32, 64} PROVE Carry(h, 127, value) = H(value)
    <3>1. Carry(h, 127, value) = (H(value) + 1) \div 2
      BY <1>3 DEF Carry, H
    <3>2. H(value) = 0 \/ H(value) = 1
      BY <1>2
    <3> QED BY <3>1, <3>2
  <2> QED BY <2>1
<1>7. Carry(h, 127, 128) = 0
  <2>1. Carry(h, 127, 128) = (H(128) + 0) \div 2
    BY <1>3 DEF Carry, H
  <2>2. H(128) = 0 \/ H(128) = 1
    BY <1>2
  <2> QED BY <2>1, <2>2
<1>8. CarryOctet(h, 127) = Digits(H(1), H(2), H(4), H(8), H(16), H(32), H(64), 0)
  BY <1>6, <1>7 DEF CarryOctet
<1>9. /\ CarryOctet(h, 127) + 128 * H(128) = h /\ CarryOctet(h, 127) \in Int
  BY <1>2, <1>5, <1>8 DEF Digits
<1>10. CarryOctet(h, 127) \in 0..127
  BY <1>2, <1>8 DEF Digits
<1> HIDE DEF CarryOctet
<1>11. H(128) \in {0, 1}
  BY <1>2
<1> QED BY <1>1, <1>9, <1>10, <1>11

FloorMean(p, q) == (p + q) \div 2

LEMMA FloorAvgByChannel ==
    ASSUME NEW a \in PixelWords, NEW b \in PixelWords
    PROVE  Filter!FloorAvg(a, b) = Filter!Pixel(FloorMean(Filter!Alpha(a), Filter!Alpha(b)),
                                                FloorMean(Filter!Colour(a), Filter!Colour(b)))
<1> DEFINE ca == CarryOctet(Filter!Alpha(a), Filter!Alpha(b))
           cc == CarryOctet(Filter!Colour(a), Filter!Colour(b))
           xa == OddOctet(Filter!Alpha(a), Filter!Alpha(b))
           xc == OddOctet(Filter!Colour(a), Filter!Colour(b))
           y == Filter!Xor(a, b) \div 2
           mask == Filter!Pixel(127, 127)
<1>1. /\ a \in Nat /\ b \in Nat
      /\ ca \in Octets /\ xa \in Octets /\ Filter!Alpha(a) + Filter!Alpha(b) = 2 * ca + xa
      /\ cc \in Octets /\ xc \in Octets /\ Filter!Colour(a) + Filter!Colour(b) = 2 * cc + xc
  BY ChannelsAreOctets, SumIsShared
<1>2. Filter!And(a, b) = Filter!Pixel(ca, cc) /\ Filter!Xor(a, b) = Filter!Pixel(xa, xc)
  BY <1>1, AndByChannel
<1> HIDE DEF ca, cc, xa, xc
<1>3. y = 128 * xa + xc \div 2 /\ y \in Nat
  BY <1>1, <1>2 DEF Octets, Filter!Pixel
<1>4. /\ Filter!Alpha(y) = xa \div 2 /\ Filter!Alpha(y) \in Octets /\ Filter!Alpha(y) % 128 = xa \div 2
  BY <1>1, <1>3 DEF Octets, Filter!Alpha
<1>5. Filter!Colour(y) \in Octets /\ Filter!Colour(y) % 128 = xc \div 2
  <2> HIDE DEF y
  <2>1. xa \in 0..255 /\ xc \in 0..255 /\ y = 128 * xa + xc \div 2
    BY <1>1, <1>3 DEF Octets
  <2>2. y % 256 \in 0..255 /\ (y % 256) % 128 = y % 128
    BY <1>3
  <2>3. y % 128 = xc \div 2
    BY <2>1
  <2> QED BY <2>2, <2>3 DEF Octets, Filter!Colour
<1>6. mask \in Nat /\ Filter!Alpha(mask) = 127 /\ Filter!Colour(mask) = 127
  BY DEF Filter!Alpha, Filter!Colour, Filter!Pixel
<1>7. Filter!And(y, mask) = Filter!Pixel(CarryOctet(Filter!Alpha(y), 127), CarryOctet(Filter!Colour(y), 127))
  <2> HIDE DEF y, mask
  <2> QED BY <1>3, <1>6, AndByChannel
<1>8. Filter!And(y, mask) = Filter!Pixel(xa \div 2, xc \div 2)
  BY <1>4, <1>5, <1>7, LowSevenBits
<1>9. Filter!FloorAvg(a, b) = Filter!Pixel(ca, cc) + Filter!Pixel(xa \div 2, xc \div 2)
  BY <1>2, <1>8 DEF Filter!FloorAvg
<1>10. /\ ca + xa \div 2 = FloorMean(Filter!Alpha(a), Filter!Alpha(b))
       /\ cc + xc \div 2 = FloorMean(Filter!Colour(a), Filter!Colour(b))
  BY <1>1 DEF FloorMean, Octets
<1>11. Filter!Pixel(ca, cc) + Filter!Pixel(xa \div 2, xc \div 2) = Filter!Pixel(ca + xa \div 2, cc + xc \div 2)
  BY <1>1 DEF Filter!Pixel, Octets
<1> QED BY <1>9, <1>10, <1>11

-----------------------------------------------------------------------------
(* PixelFilters: the average of two channels lies between them. *)

IsBetween(r, p, q) == r \in Octets /\ (p <= r \/ q <= r) /\ (r <= p \/ r <= q)

PixelBetween(c, a, b) ==
    /\ c \in PixelWords
    /\ IsBetween(Filter!Alpha(c), Filter!Alpha(a), Filter!Alpha(b))
    /\ IsBetween(Filter!Colour(c), Filter!Colour(a), Filter!Colour(b))

LEMMA PixelOfBetween ==
    ASSUME NEW a \in PixelWords, NEW b \in PixelWords, NEW p, NEW q,
           IsBetween(p, Filter!Alpha(a), Filter!Alpha(b)), IsBetween(q, Filter!Colour(a), Filter!Colour(b))
    PROVE  PixelBetween(Filter!Pixel(p, q), a, b)
<1>1. p \in Octets /\ q \in Octets
  BY DEF IsBetween
<1>2. /\ Filter!Pixel(p, q) \in PixelWords
      /\ Filter!Alpha(Filter!Pixel(p, q)) = p /\ Filter!Colour(Filter!Pixel(p, q)) = q
  BY <1>1, PixelHasChannels
<1> QED BY <1>2 DEF PixelBetween

LEMMA FloorMeanIsBetween ==
    ASSUME NEW p \in Octets, NEW q \in Octets
    PROVE  IsBetween(FloorMean(p, q), p, q)
BY DEF IsBetween, FloorMean, Octets

LEMMA FloorAvgIsBetween ==
    ASSUME NEW a \in PixelWords, NEW b \in PixelWords
    PROVE  PixelBetween(Filter!FloorAvg(a, b), a, b)
<1>1. /\ IsBetween(FloorMean(Filter!Alpha(a), Filter!Alpha(b)), Filter!Alpha(a), Filter!Alpha(b))
      /\ IsBetween(FloorMean(Filter!Colour(a), Filter!Colour(b)), Filter!Colour(a), Filter!Colour(b))
  BY ChannelsAreOctets, FloorMeanIsBetween
<1> QED BY <1>1, FloorAvgByChannel, PixelOfBetween

\* A fraction of a step, rounded, is none of it, all of it, or in between.
LEMMA RoundedFraction ==
    ASSUME NEW d \in Int, NEW w \in 0..255
    PROVE  LET r == (w * d + 128) \div 256
           IN /\ r \in Int
              /\ d \in Nat => 0 <= r /\ r <= d
              /\ d <= 0 => d <= r /\ r <= 0
<1> DEFINE m == w * d
<1>1. m \in Int
  OBVIOUS
<1>2. d \in Nat => 0 <= m /\ m <= 255 * d
  <2> SUFFICES ASSUME d \in Nat PROVE 0 <= m /\ m <= 255 * d
    OBVIOUS
  <2>1. 0 * d <= w * d /\ w * d <= 255 * d
    BY TimesIsMonotone
  <2> QED BY <2>1
<1>3. d <= 0 => 255 * d <= m /\ m <= 0
  <2> SUFFICES ASSUME d <= 0 PROVE 255 * d <= m /\ m <= 0
    OBVIOUS
  <2> DEFINE e == 0 - d
  <2>1. e \in Nat
    OBVIOUS
  <2>2. 0 * e <= w * e /\ w * e <= 255 * e
    BY <2>1, TimesIsMonotone
  <2>3. w * e = 0 - m
    BY <1>1
  <2> QED BY <1>1, <2>2, <2>3
<1> HIDE DEF m
<1>4. LET r == (m + 128) \div 256
      IN /\ r \in Int
         /\ d \in Nat => 0 <= r /\ r <= d
         /\ d <= 0 => d <= r /\ r <= 0
  BY <1>1, <1>2, <1>3
<1> QED BY <1>4 DEF m

LEMMA BlendIsBetween ==
    ASSUME NEW p \in Octets, NEW q \in Octets, NEW w \in 0..255
    PROVE  IsBetween(Filter!Blend(p, q, w), p, q)
<1> DEFINE d == (p + q + 1) \div 2 - p
           r == (w * d + 128) \div 256
<1>1. p \in 0..255 /\ q \in 0..255 /\ d \in Int
  BY DEF Octets
<1>2. /\ p <= q => d \in Nat /\ p + d <= q
      /\ q <= p => d <= 0 /\ q <= p + d
  BY <1>1
<1> HIDE DEF d
<1>3. /\ r \in Int
      /\ d \in Nat => 0 <= r /\ r <= d
      /\ d <= 0 => d <= r /\ r <= 0
  BY <1>1, RoundedFraction
<1> HIDE DEF r
<1>4. \/ p <= q /\ p <= p + r /\ p + r <= q
      \/ q <= p /\ q <= p + r /\ p + r <= p
  BY <1>1, <1>2, <1>3
<1>5. Filter!Blend(p, q, w) = Filter!Clamp(p + r, 0, 255)
  BY DEF Filter!Blend, r, d
<1>6. p + r \in 0..255
  BY <1>1, <1>3, <1>4
<1>7. Filter!Clamp(p + r, 0, 255) = p + r
  BY <1>3, <1>6, <1>1 DEF Filter!Clamp
<1> QED BY <1>1, <1>3, <1>4, <1>5, <1>6, <1>7 DEF IsBetween, Octets

LEMMA BlendTowardAvgIsBetween ==
    ASSUME NEW a \in PixelWords, NEW b \in PixelWords, NEW w \in 0..255
    PROVE  PixelBetween(Filter!BlendTowardAvg(a, b, w), a, b)
<1>1. /\ IsBetween(Filter!Blend(Filter!Alpha(a), Filter!Alpha(b), w), Filter!Alpha(a), Filter!Alpha(b))
      /\ IsBetween(Filter!Blend(Filter!Colour(a), Filter!Colour(b), w), Filter!Colour(a), Filter!Colour(b))
  BY ChannelsAreOctets, BlendIsBetween
<1> QED BY <1>1, PixelOfBetween DEF Filter!BlendTowardAvg

-----------------------------------------------------------------------------
(* PixelFilters: a sweep mixes each cell with a neighbour, or leaves it. *)

Textures == [Filter!Cells -> PixelWords]

Mixes(t, u) == u \in Textures /\ \A c \in Filter!Cells : \E d \in Filter!Cells : PixelBetween(u[c], t[c], t[d])

\* Every channel of t lies in its range in o.
InRange(o, t) ==
    \A c \in Filter!Cells :
        /\ \E d \in Filter!Cells : Filter!Colour(o[d]) <= Filter!Colour(t[c])
        /\ \E d \in Filter!Cells : Filter!Colour(o[d]) >= Filter!Colour(t[c])
        /\ \E d \in Filter!Cells : Filter!Alpha(o[d]) <= Filter!Alpha(t[c])
        /\ \E d \in Filter!Cells : Filter!Alpha(o[d]) >= Filter!Alpha(t[c])

LEMMA MixingStaysInRange ==
    ASSUME NEW o \in Textures, NEW t \in Textures, NEW u, Mixes(t, u), InRange(o, t)
    PROVE  u \in Textures /\ InRange(o, u)
<1>1. u \in Textures
  BY DEF Mixes
<1>2. ASSUME NEW c \in Filter!Cells
      PROVE  /\ \E d \in Filter!Cells : Filter!Colour(o[d]) <= Filter!Colour(u[c])
             /\ \E d \in Filter!Cells : Filter!Colour(o[d]) >= Filter!Colour(u[c])
             /\ \E d \in Filter!Cells : Filter!Alpha(o[d]) <= Filter!Alpha(u[c])
             /\ \E d \in Filter!Cells : Filter!Alpha(o[d]) >= Filter!Alpha(u[c])
  <2> DEFINE co(x) == Filter!Colour(x)
             al(x) == Filter!Alpha(x)
  <2>1. PICK e \in Filter!Cells : PixelBetween(u[c], t[c], t[e])
    BY DEF Mixes
  <2>2. /\ u[c] \in PixelWords /\ t[c] \in PixelWords /\ t[e] \in PixelWords
        /\ \A d \in Filter!Cells : o[d] \in PixelWords
    BY <1>1 DEF Textures
  <2>3. /\ co(u[c]) \in Int /\ co(t[c]) \in Int /\ co(t[e]) \in Int
        /\ al(u[c]) \in Int /\ al(t[c]) \in Int /\ al(t[e]) \in Int
        /\ \A d \in Filter!Cells : co(o[d]) \in Int /\ al(o[d]) \in Int
    <3>1. \A x \in PixelWords : co(x) \in Int /\ al(x) \in Int
      BY ChannelsAreOctets DEF Octets
    <3> HIDE DEF co, al
    <3> QED BY <2>2, <3>1
  <2>4. /\ co(t[c]) <= co(u[c]) \/ co(t[e]) <= co(u[c])
        /\ co(u[c]) <= co(t[c]) \/ co(u[c]) <= co(t[e])
        /\ al(t[c]) <= al(u[c]) \/ al(t[e]) <= al(u[c])
        /\ al(u[c]) <= al(t[c]) \/ al(u[c]) <= al(t[e])
    BY <2>1 DEF PixelBetween, IsBetween
  <2>5. \A x \in {c, e} :
          /\ \E d \in Filter!Cells : co(o[d]) <= co(t[x])
          /\ \E d \in Filter!Cells : co(o[d]) >= co(t[x])
          /\ \E d \in Filter!Cells : al(o[d]) <= al(t[x])
          /\ \E d \in Filter!Cells : al(o[d]) >= al(t[x])
    BY DEF InRange
  <2> HIDE DEF co, al
  <2>6. \E d \in Filter!Cells : co(o[d]) <= co(u[c])
    BY <2>3, <2>4, <2>5
  <2>7. \E d \in Filter!Cells : co(o[d]) >= co(u[c])
    BY <2>3, <2>4, <2>5
  <2>8. \E d \in Filter!Cells : al(o[d]) <= al(u[c])
    BY <2>3, <2>4, <2>5
  <2>9. \E d \in Filter!Cells : al(o[d]) >= al(u[c])
    BY <2>3, <2>4, <2>5
  <2> QED BY <2>6, <2>7, <2>8, <2>9 DEF co, al
<1> QED BY <1>1, <1>2 DEF InRange

LEMMA SamePixelBetween ==
    ASSUME NEW a \in PixelWords
    PROVE  PixelBetween(a, a, a)
BY ChannelsAreOctets DEF PixelBetween, IsBetween, Octets

LEMMA FloorSweepMixes ==
    ASSUME NEW t \in Textures, NEW dy, NEW dx
    PROVE  Mixes(t, Filter!Sweep(t, dy, dx, Filter!FloorAvg))
<1> DEFINE u == Filter!Sweep(t, dy, dx, Filter!FloorAvg)
<1>1. /\ DOMAIN u = Filter!Cells /\ u = [c \in Filter!Cells |-> u[c]]
      /\ \A c \in Filter!Cells :
            u[c] = LET n == <<c[1] + dy, c[2] + dx>>
                   IN IF n \in Filter!Cells THEN Filter!FloorAvg(t[c], t[n]) ELSE t[c]
  BY DEF Filter!Sweep
<1> HIDE DEF u
<1>2. ASSUME NEW c \in Filter!Cells PROVE \E d \in Filter!Cells : PixelBetween(u[c], t[c], t[d])
  <2>1. CASE <<c[1] + dy, c[2] + dx>> \in Filter!Cells
    BY <1>1, <2>1, FloorAvgIsBetween DEF Textures
  <2>2. CASE <<c[1] + dy, c[2] + dx>> \notin Filter!Cells
    BY <1>1, <2>2, SamePixelBetween DEF Textures
  <2> QED BY <2>1, <2>2
<1>3. u \in Textures
  BY <1>1, <1>2 DEF Textures, PixelBetween
<1> QED BY <1>2, <1>3 DEF Mixes, u

LEMMA BlendSweepMixes ==
    ASSUME NEW t \in Textures, NEW dy, NEW dx, NEW w \in 0..255
    PROVE  Mixes(t, Filter!Sweep(t, dy, dx, LAMBDA a, b : Filter!BlendTowardAvg(a, b, w)))
<1> DEFINE u == Filter!Sweep(t, dy, dx, LAMBDA a, b : Filter!BlendTowardAvg(a, b, w))
<1>1. /\ DOMAIN u = Filter!Cells /\ u = [c \in Filter!Cells |-> u[c]]
      /\ \A c \in Filter!Cells :
            u[c] = LET n == <<c[1] + dy, c[2] + dx>>
                   IN IF n \in Filter!Cells THEN Filter!BlendTowardAvg(t[c], t[n], w) ELSE t[c]
  BY DEF Filter!Sweep
<1> HIDE DEF u
<1>2. ASSUME NEW c \in Filter!Cells PROVE \E d \in Filter!Cells : PixelBetween(u[c], t[c], t[d])
  <2>1. CASE <<c[1] + dy, c[2] + dx>> \in Filter!Cells
    BY <1>1, <2>1, BlendTowardAvgIsBetween DEF Textures
  <2>2. CASE <<c[1] + dy, c[2] + dx>> \notin Filter!Cells
    BY <1>1, <2>2, SamePixelBetween DEF Textures
  <2> QED BY <2>1, <2>2
<1>3. u \in Textures
  BY <1>1, <1>2 DEF Textures, PixelBetween
<1> QED BY <1>2, <1>3 DEF Mixes, u

LEMMA FloorPassInRange ==
    ASSUME NEW o \in Textures, NEW t \in Textures, InRange(o, t)
    PROVE  Filter!Pass(t, Filter!FloorAvg) \in Textures /\ InRange(o, Filter!Pass(t, Filter!FloorAvg))
<1> DEFINE S(x, dy, dx) == Filter!Sweep(x, dy, dx, Filter!FloorAvg)
<1>1. ASSUME NEW x \in Textures, InRange(o, x), NEW dy, NEW dx
      PROVE  S(x, dy, dx) \in Textures /\ InRange(o, S(x, dy, dx))
  BY <1>1, FloorSweepMixes, MixingStaysInRange
<1>2. Filter!Pass(t, Filter!FloorAvg) = S(S(S(S(t, 0, 1), 0, -1), 1, 0), -1, 0)
  BY DEF Filter!Pass
<1> HIDE DEF S
<1> QED BY <1>1, <1>2

LEMMA BlendPassInRange ==
    ASSUME NEW o \in Textures, NEW t \in Textures, InRange(o, t), NEW w \in 0..255
    PROVE  LET u == Filter!Pass(t, LAMBDA a, b : Filter!BlendTowardAvg(a, b, w))
           IN u \in Textures /\ InRange(o, u)
<1> DEFINE S(x, dy, dx) == Filter!Sweep(x, dy, dx, LAMBDA a, b : Filter!BlendTowardAvg(a, b, w))
<1>1. ASSUME NEW x \in Textures, InRange(o, x), NEW dy, NEW dx
      PROVE  S(x, dy, dx) \in Textures /\ InRange(o, S(x, dy, dx))
  <2>1. Mixes(x, S(x, dy, dx))
    BY BlendSweepMixes
  <2> HIDE DEF S
  <2> QED BY <1>1, <2>1, MixingStaysInRange
<1>2. Filter!Pass(t, LAMBDA a, b : Filter!BlendTowardAvg(a, b, w)) = S(S(S(S(t, 0, 1), 0, -1), 1, 0), -1, 0)
  BY DEF Filter!Pass
<1> HIDE DEF S
<1> QED BY <1>1, <1>2

-----------------------------------------------------------------------------
(* PixelFilters: sums over the cells. *)

Picked(s) == CHOOSE x \in s : TRUE

\* g sums f up over the sets in D, an element at a time.
Sums(g, f, D) == g = [s \in D |-> IF s = {} THEN 0 ELSE f[Picked(s)] + g[s \ {Picked(s)}]]

SumsUp(f) == CHOOSE g : Sums(g, f, SUBSET DOMAIN f)

LEMMA ChannelSumIs ==
    ASSUME NEW t
    PROVE  LET f == [c \in Filter!Cells |-> Filter!Colour(t[c])]
           IN Filter!ComputeChannelSum(t) = SumsUp(f)[Filter!Cells]
<1> DEFINE f == [c \in Filter!Cells |-> Filter!Colour(t[c])]
<1>1. Filter!ComputeChannelSum(t) = Filter!SumFunction(f)
  BY DEF Filter!ComputeChannelSum
<1>2. DOMAIN f = Filter!Cells
  OBVIOUS
<1> HIDE DEF f
<1>3. Filter!SumFunction(f) = SumsUp(f)[DOMAIN f]
  BY DEF Filter!SumFunction, Filter!SumFunctionOnSet, Filter!FoldFunctionOnSet, Filter!MapThenFoldSet,
         SumsUp, Sums, Picked
<1> QED BY <1>1, <1>2, <1>3 DEF f

LEMMA LeastNumber ==
    ASSUME NEW S, S \subseteq Nat, S # {}
    PROVE  \E m \in S : \A x \in S : m <= x
<1>1. PICK m \in S : \A x \in S : ~(<<x, m>> \in OpToRel(<, Nat))
  BY NatLessThanWellFounded, WFMin
<1>2. ASSUME NEW x \in S PROVE m <= x
  <2>1. <<x, m>> \notin OpToRel(<, Nat)
    BY <1>1
  <2>2. m \in Nat /\ x \in Nat
    OBVIOUS
  <2>3. ~(x < m)
    BY <2>1, <2>2, Zenon DEF OpToRel
  <2> QED BY <2>2, <2>3
<1> QED BY <1>2

Small(S, n) == {s \in SUBSET S : Cardinality(s) <= n}

LEMMA SmallerSet ==
    ASSUME NEW S, IsFiniteSet(S), NEW s \in SUBSET S, s # {}
    PROVE  /\ Picked(s) \in s /\ s \ {Picked(s)} \in SUBSET S
           /\ Cardinality(s) \in Nat \ {0}
           /\ Cardinality(s \ {Picked(s)}) = Cardinality(s) - 1
<1>1. Picked(s) \in s
  BY DEF Picked
<1>2. IsFiniteSet(s)
  BY FS_Subset
<1>3. Cardinality(s) \in Nat /\ Cardinality(s) # 0
  BY <1>2, FS_CardinalityType, FS_EmptySet
<1>4. Cardinality(s \ {Picked(s)}) = Cardinality(s) - 1
  BY <1>1, <1>2, FS_RemoveElement
<1> QED BY <1>1, <1>3, <1>4

\* Sums over sets of n elements at most can be extended to sets with one more.
LEMMA SumsExtend ==
    ASSUME NEW S, IsFiniteSet(S), NEW f, NEW n \in Nat, NEW g, Sums(g, f, Small(S, n))
    PROVE  \E h : Sums(h, f, Small(S, n + 1))
<1> DEFINE rest(s) == s \ {Picked(s)}
           h == [s \in Small(S, n + 1) |-> IF s = {} THEN 0 ELSE f[Picked(s)] + g[rest(s)]]
<1>1. \A s \in Small(S, n + 1) : s # {} => rest(s) \in Small(S, n)
  <2>1. ASSUME NEW s \in Small(S, n + 1), s # {} PROVE rest(s) \in Small(S, n)
    <3>1. s \in SUBSET S /\ Cardinality(s) <= n + 1
      BY DEF Small
    <3>2. rest(s) \in SUBSET S /\ Cardinality(s) \in Nat /\ Cardinality(rest(s)) = Cardinality(s) - 1
      BY <2>1, <3>1, SmallerSet
    <3>3. Cardinality(rest(s)) <= n
      BY <3>1, <3>2
    <3> QED BY <3>2, <3>3 DEF Small
  <2> QED BY <2>1
<1>2. \A s \in Small(S, n) : s \in Small(S, n + 1)
  <2>1. ASSUME NEW s \in Small(S, n) PROVE s \in Small(S, n + 1)
    <3>1. s \in SUBSET S /\ Cardinality(s) <= n
      BY DEF Small
    <3>2. Cardinality(s) \in Nat
      BY <3>1, FS_Subset, FS_CardinalityType
    <3>3. Cardinality(s) <= n + 1
      BY <3>1, <3>2
    <3> QED BY <3>1, <3>3 DEF Small
  <2> QED BY <2>1
<1>3. \A s \in Small(S, n) : g[s] = IF s = {} THEN 0 ELSE f[Picked(s)] + g[rest(s)]
  BY DEF Sums
<1>4. \A s \in Small(S, n) : h[s] = g[s]
  BY <1>2, <1>3
<1>5. \A s \in Small(S, n + 1) : s # {} => h[rest(s)] = g[rest(s)]
  BY <1>1, <1>4
<1>6. Sums(h, f, Small(S, n + 1))
  <2>1. h = [s \in Small(S, n + 1) |-> IF s = {} THEN 0 ELSE f[Picked(s)] + h[rest(s)]]
    <3> DEFINE k == [s \in Small(S, n + 1) |-> IF s = {} THEN 0 ELSE f[Picked(s)] + h[rest(s)]]
    <3>1. \A s \in Small(S, n + 1) : h[s] = k[s]
      BY <1>5
    <3>2. h = [s \in Small(S, n + 1) |-> h[s]] /\ k = [s \in Small(S, n + 1) |-> k[s]]
      OBVIOUS
    <3> HIDE DEF h, k
    <3>3. h = k
      BY <3>1, <3>2
    <3> QED BY <3>3 DEF k
  <2> HIDE DEF h
  <2> QED BY <2>1 DEF Sums
<1> QED BY <1>6

LEMMA SumsExist ==
    ASSUME NEW S, IsFiniteSet(S), NEW f, DOMAIN f = S
    PROVE  Sums(SumsUp(f), f, SUBSET S)
<1> DEFINE P(n) == \E g : Sums(g, f, Small(S, n))
           B == {n \in Nat : ~P(n)}
<1>1. P(0)
  <2> DEFINE g == [s \in Small(S, 0) |-> 0]
  <2>1. \A s \in Small(S, 0) : s = {}
    <3>1. ASSUME NEW s \in Small(S, 0) PROVE s = {}
      <4>1. s \in SUBSET S /\ Cardinality(s) <= 0
        BY DEF Small
      <4>2. s # {} => Cardinality(s) \in Nat \ {0}
        BY <4>1, SmallerSet
      <4> QED BY <4>1, <4>2
    <3> QED BY <3>1
  <2>2. Sums(g, f, Small(S, 0))
    BY <2>1 DEF Sums
  <2> QED BY <2>2
<1>2. B = {}
  <2> SUFFICES ASSUME B # {} PROVE FALSE
    OBVIOUS
  <2>1. PICK m \in B : \A x \in B : m <= x
    <3>1. B \subseteq Nat
      OBVIOUS
    <3> HIDE DEF B
    <3> QED BY <3>1, LeastNumber
  <2>2. m \in Nat /\ ~P(m)
    OBVIOUS
  <2>3. m # 0
    BY <1>1, <2>2
  <2>4. m - 1 \in Nat /\ m - 1 \notin B /\ (m - 1) + 1 = m
    BY <2>1, <2>2, <2>3
  <2>5. P(m - 1)
    BY <2>4
  <2>6. P((m - 1) + 1)
    BY <2>4, <2>5, SumsExtend
  <2> QED BY <2>2, <2>4, <2>6
<1>3. Cardinality(S) \in Nat
  BY FS_CardinalityType
<1>4. P(Cardinality(S))
  BY <1>2, <1>3
<1>5. Small(S, Cardinality(S)) = SUBSET S
  BY FS_Subset DEF Small
<1>6. \E g : Sums(g, f, SUBSET S)
  BY <1>4, <1>5
<1> QED BY <1>6 DEF SumsUp

Minus(x, k, y) == 256 * x - k * y

LEMMA MinusAdds ==
    ASSUME NEW x \in Int, NEW y \in Int, NEW k \in Int, NEW u \in Int, NEW v \in Int
    PROVE  /\ Minus(x + u, k, y + v) = Minus(x, k, y) + Minus(u, k, v)
           /\ Minus(x, k, y) \in Int /\ Minus(u, k, v) \in Int
<1>1. k * (y + v) = k * y + k * v /\ k * y \in Int /\ k * v \in Int
  OBVIOUS
<1> QED BY <1>1 DEF Minus

\* The sum over n elements is off by n times what each of them is.
Rounded(x, k, y, low, high, n) ==
    x \in Int /\ y \in Int /\ low * n <= Minus(x, k, y) /\ Minus(x, k, y) <= high * n

LEMMA RoundedAdds ==
    ASSUME NEW x, NEW y, NEW k \in Int, NEW u, NEW v, NEW low \in Int, NEW high \in Int, NEW n \in Nat,
           Rounded(x, k, y, low, high, 1), Rounded(u, k, v, low, high, n - 1)
    PROVE  Rounded(x + u, k, y + v, low, high, n)
<1>1. x \in Int /\ y \in Int /\ u \in Int /\ v \in Int
  BY DEF Rounded
<1>2. /\ Minus(x + u, k, y + v) = Minus(x, k, y) + Minus(u, k, v)
      /\ Minus(x, k, y) \in Int /\ Minus(u, k, v) \in Int
  BY <1>1, MinusAdds
<1>3. \A b \in Int : b * n = b * 1 + b * (n - 1) /\ b * n \in Int /\ b * (n - 1) \in Int /\ b * 1 \in Int
  OBVIOUS
<1>4. /\ low * 1 <= Minus(x, k, y) /\ Minus(x, k, y) <= high * 1
      /\ low * (n - 1) <= Minus(u, k, v) /\ Minus(u, k, v) <= high * (n - 1)
  BY DEF Rounded
<1> DEFINE low1 == low * 1
           low2 == low * (n - 1)
           high1 == high * 1
           high2 == high * (n - 1)
<1>5. low1 \in Int /\ low2 \in Int /\ high1 \in Int /\ high2 \in Int /\ low * n = low1 + low2 /\ high * n = high1 + high2
  BY <1>3
<1>6. low1 <= Minus(x, k, y) /\ Minus(x, k, y) <= high1 /\ low2 <= Minus(u, k, v) /\ Minus(u, k, v) <= high2
  BY <1>4
<1> HIDE DEF low1, low2, high1, high2
<1>7. low * n <= Minus(x, k, y) + Minus(u, k, v) /\ Minus(x, k, y) + Minus(u, k, v) <= high * n
  BY <1>2, <1>5, <1>6
<1> QED BY <1>1, <1>2, <1>7 DEF Rounded

\* The sums of two functions: what holds of their elements, n-fold.
LEMMA SumsAreRounded ==
    ASSUME NEW S, IsFiniteSet(S), NEW k \in Int, NEW low \in Int, NEW high \in Int,
           NEW f, DOMAIN f = S, NEW g, DOMAIN g = S, \A c \in S : Rounded(g[c], k, f[c], low, high, 1)
    PROVE  Rounded(SumsUp(g)[S], k, SumsUp(f)[S], low, high, Cardinality(S))
<1> DEFINE F == SumsUp(f)
           G == SumsUp(g)
           rest(s) == s \ {Picked(s)}
           Bad(s) == ~Rounded(G[s], k, F[s], low, high, Cardinality(s))
           B == {n \in Nat : \E s \in SUBSET S : Cardinality(s) = n /\ Bad(s)}
<1>1. Sums(F, f, SUBSET S) /\ Sums(G, g, SUBSET S)
  BY SumsExist
<1> HIDE DEF F, G
<1>2. \A s \in SUBSET S : /\ F[s] = IF s = {} THEN 0 ELSE f[Picked(s)] + F[rest(s)]
                          /\ G[s] = IF s = {} THEN 0 ELSE g[Picked(s)] + G[rest(s)]
  BY <1>1 DEF Sums
<1>3. Rounded(0, k, 0, low, high, 0)
  <2>1. k * 0 = 0 /\ low * 0 = 0 /\ high * 0 = 0
    OBVIOUS
  <2> QED BY <2>1 DEF Rounded, Minus
<1>4. B = {}
  <2> SUFFICES ASSUME B # {} PROVE FALSE
    OBVIOUS
  <2>1. PICK m \in B : \A x \in B : m <= x
    <3>1. B \subseteq Nat
      OBVIOUS
    <3> HIDE DEF B
    <3> QED BY <3>1, LeastNumber
  <2>2. PICK s \in SUBSET S : Cardinality(s) = m /\ Bad(s)
    OBVIOUS
  <2>3. m \in Nat
    OBVIOUS
  <2>4. s # {}
    <3> SUFFICES ASSUME s = {} PROVE FALSE
      OBVIOUS
    <3>1. F[s] = 0 /\ G[s] = 0 /\ Cardinality(s) = 0
      BY <1>2, FS_EmptySet
    <3> QED BY <1>3, <2>2, <3>1
  <2>5. /\ Picked(s) \in S /\ rest(s) \in SUBSET S
        /\ m \in Nat \ {0} /\ Cardinality(rest(s)) = m - 1
    BY <2>2, <2>4, SmallerSet
  <2>6. m - 1 \in Nat /\ ~(m <= m - 1)
    BY <2>5
  <2>7. m - 1 \notin B
    <3> HIDE DEF B
    <3> QED BY <2>1, <2>6
  <2>8. ~Bad(rest(s))
    BY <2>5, <2>6, <2>7
  <2>9. Rounded(G[rest(s)], k, F[rest(s)], low, high, m - 1) /\ Rounded(g[Picked(s)], k, f[Picked(s)], low, high, 1)
    BY <2>5, <2>8
  <2>10. Rounded(g[Picked(s)] + G[rest(s)], k, f[Picked(s)] + F[rest(s)], low, high, m)
    BY <2>3, <2>9, RoundedAdds
  <2>11. Rounded(G[s], k, F[s], low, high, Cardinality(s))
    BY <1>2, <2>2, <2>4, <2>10
  <2> QED BY <2>2, <2>11
<1>5. S \in SUBSET S /\ Cardinality(S) \in Nat
  BY FS_CardinalityType
<1>6. ~Bad(S)
  BY <1>4, <1>5
<1> QED BY <1>6 DEF F, G

LEMMA CellsAreFinite ==
    /\ IsFiniteSet(Filter!Cells) /\ Cardinality(Filter!Cells) = Width * Height
    /\ Width * Height \in Nat
<1>1. Width \in Nat /\ Height \in Nat
  BY FilterAssumption DEF FilterAssumption
<1>2. /\ IsFiniteSet(1..Width) /\ Cardinality(1..Width) = Width
      /\ IsFiniteSet(1..Height) /\ Cardinality(1..Height) = Height
  BY <1>1, FS_Interval
<1>3. IsFiniteSet((1..Height) \X (1..Width)) /\ Cardinality((1..Height) \X (1..Width)) = Height * Width
  BY <1>2, FS_Product
<1>4. Height * Width = Width * Height /\ Width * Height \in Nat
  BY <1>1
<1> QED BY <1>3, <1>4 DEF Filter!Cells

\* Against the sum of zeros: no sum of channels is negative.
LEMMA ChannelSumIsNat ==
    ASSUME NEW t \in Textures
    PROVE  Filter!ComputeChannelSum(t) \in Nat
<1> DEFINE f == [c \in Filter!Cells |-> Filter!Colour(t[c])]
           z == [c \in Filter!Cells |-> 0]
<1>1. \A c \in Filter!Cells : Filter!Colour(t[c]) \in Octets
  BY ChannelsAreOctets DEF Textures
<1>2. \A c \in Filter!Cells : Rounded(z[c], -1, f[c], 0, 255, 1)
  <2>1. \A x \in Octets : Rounded(0, -1, x, 0, 255, 1)
    BY DEF Rounded, Minus, Octets
  <2> QED BY <1>1, <2>1
<1>3. DOMAIN f = Filter!Cells /\ DOMAIN z = Filter!Cells
  OBVIOUS
<1>4. Filter!ComputeChannelSum(t) = SumsUp(f)[Filter!Cells]
  BY ChannelSumIs
<1> HIDE DEF f, z
<1> DEFINE zeros == SumsUp(z)[Filter!Cells]
           total == SumsUp(f)[Filter!Cells]
           n == Cardinality(Filter!Cells)
<1>5. Rounded(zeros, -1, total, 0, 255, n)
  BY <1>2, <1>3, CellsAreFinite, SumsAreRounded
<1>6. Minus(zeros, -1, total) >= 0 /\ zeros \in Int /\ total \in Int
  <2>1. n \in Nat
    BY CellsAreFinite
  <2> HIDE DEF n, zeros, total
  <2> QED BY <1>5, <2>1 DEF Rounded, Minus
<1>7. \A d \in Filter!Cells : Rounded(z[d], 0, z[d], 0, 0, 1)
  BY DEF z, Rounded, Minus
<1>8. Rounded(zeros, 0, zeros, 0, 0, n)
  BY <1>3, <1>7, CellsAreFinite, SumsAreRounded
<1>9. zeros = 0
  <2>1. n \in Nat
    BY CellsAreFinite
  <2> HIDE DEF n, zeros
  <2> QED BY <1>8, <2>1 DEF Rounded, Minus
<1> HIDE DEF zeros, total
<1>10. total \in Nat
  BY <1>6, <1>9 DEF Minus
<1> QED BY <1>4, <1>10 DEF total

-----------------------------------------------------------------------------
(* PixelFilters: the correction gives the brightness back. *)

\* A pixel that is not cut off is its colour times the factor, rounded.
LEMMA CorrectedIsRounded ==
    ASSUME NEW colour \in Octets, NEW corr \in 205..319, Filter!Corrected(colour, corr) < 255
    PROVE  Rounded(Filter!Corrected(colour, corr), corr, colour, -127, 128, 1)
<1> DEFINE m == colour * corr
           r == (m + 128) \div 256
<1>1. colour \in Nat /\ corr \in Nat /\ m \in Nat /\ corr * colour = m
  BY DEF Octets
<1>2. Filter!Corrected(colour, corr) = Filter!Clamp(r, 0, 255)
  BY DEF Filter!Corrected
<1> HIDE DEF m
<1>3. r \in Nat /\ 256 * r <= m + 128 /\ m + 128 <= 256 * r + 255
  BY <1>1
<1> HIDE DEF r
<1>4. Filter!Clamp(r, 0, 255) = r
  BY <1>2, <1>3 DEF Filter!Clamp
<1>5. -127 <= 256 * r - m /\ 256 * r - m <= 128
  BY <1>1, <1>3
<1> QED BY <1>1, <1>2, <1>3, <1>4, <1>5 DEF Rounded, Minus

Divided(a, b) == a \div b \in Int /\ b * (a \div b) + (a % b) = a /\ a % b \in 0..b - 1

LEMMA DivisionIs ==
    ASSUME NEW a \in Int, NEW b \in Nat \ {0}
    PROVE  Divided(a, b)
BY SMT DEF Divided

\* The factor times the brightness after the blur is the one before it, rounded.
LEMMA FactorIs ==
    ASSUME NEW before \in Int, NEW after \in Nat \ {0}, Filter!SafeCorr(before, after) \in 205..319
    PROVE  LET m == Filter!SafeCorr(before, after) * after
           IN /\ m \in Int
              /\ 2 * (m - 256 * before) <= after /\ -after <= 2 * (m - 256 * before)
<1> DEFINE a == before * 256 + after \div 2
           corr == a \div after
           m == after * corr
<1>1. a \in Int /\ after \div 2 \in Nat /\ 2 * (after \div 2) <= after /\ after <= 2 * (after \div 2) + 1
      /\ a = before * 256 + after \div 2
  OBVIOUS
<1> HIDE DEF a
<1>2. corr \in Int /\ m + (a % after) = a /\ a % after \in 0..after - 1
  <2>1. a \div after \in Int /\ after * (a \div after) + (a % after) = a /\ a % after \in 0..after - 1
    <3>1. Divided(a, after)
      BY <1>1, DivisionIs
    <3> QED BY <3>1 DEF Divided
  <2> QED BY <2>1
<1>3. Filter!SafeCorr(before, after) = Filter!Clamp(corr, 204, 320)
  BY DEF Filter!SafeCorr, a
<1> HIDE DEF corr
<1>4. Filter!SafeCorr(before, after) = corr
  BY <1>2, <1>3 DEF Filter!Clamp
<1>5. m \in Int /\ corr * after = m
  BY <1>2
<1> HIDE DEF m
<1>6. 2 * (m - 256 * before) <= after /\ -after <= 2 * (m - 256 * before)
  BY <1>1, <1>2, <1>5
<1> QED BY <1>4, <1>5, <1>6

\* What is lost in all, from what the factor and the pixels lose.
LEMMA LossIsBounded ==
    ASSUME NEW before \in Int, NEW after \in Nat \ {0}, NEW now \in Int, NEW m \in Int, NEW n \in Nat,
           2 * (m - 256 * before) <= after, -after <= 2 * (m - 256 * before),
           -127 * n <= 256 * now - m, 256 * now - m <= 128 * n
    PROVE  2 * (now - before) \in (-(n + after \div 256 + 1))..(n + after \div 256 + 1)
<1>1. after \div 256 \in Nat /\ after < 256 * (after \div 256) + 256
  OBVIOUS
<1>2. 512 * (now - before) <= 256 * n + after /\ -(256 * n + after) <= 512 * (now - before)
  OBVIOUS
<1> DEFINE q == after \div 256
           lost == now - before
<1>3. q \in Nat /\ after < 256 * q + 256 /\ lost \in Int
      /\ 512 * lost <= 256 * n + after /\ -(256 * n + after) <= 512 * lost
  BY <1>1, <1>2
<1> HIDE DEF q, lost
<1>4. 2 * lost <= n + q + 1 /\ -(n + q + 1) <= 2 * lost
  BY <1>3
<1>5. 2 * lost \in (-(n + q + 1))..(n + q + 1)
  BY <1>3, <1>4
<1> QED BY <1>5 DEF q, lost

CorrectedTexture(t, corr) ==
    [c \in Filter!Cells |-> Filter!Pixel(Filter!Alpha(t[c]), Filter!Corrected(Filter!Colour(t[c]), corr))]

LEMMA CorrectedIsTexture ==
    ASSUME NEW t \in Textures, NEW corr \in 204..320
    PROVE  /\ CorrectedTexture(t, corr) \in Textures
           /\ \A c \in Filter!Cells :
                 Filter!Colour(CorrectedTexture(t, corr)[c]) = Filter!Corrected(Filter!Colour(t[c]), corr)
<1> DEFINE u == CorrectedTexture(t, corr)
<1>1. \A colour \in Octets : Filter!Corrected(colour, corr) \in Octets
  <2>1. ASSUME NEW colour \in Octets PROVE Filter!Corrected(colour, corr) \in Octets
    <3> DEFINE r == (colour * corr + 128) \div 256
    <3>1. r \in Int
      BY DEF Octets
    <3>2. Filter!Corrected(colour, corr) = Filter!Clamp(r, 0, 255)
      BY DEF Filter!Corrected
    <3> HIDE DEF r
    <3> QED BY <3>1, <3>2 DEF Filter!Clamp, Octets
  <2> QED BY <2>1
<1>2. ASSUME NEW c \in Filter!Cells
      PROVE  u[c] \in PixelWords /\ Filter!Colour(u[c]) = Filter!Corrected(Filter!Colour(t[c]), corr)
  <2>1. u[c] = Filter!Pixel(Filter!Alpha(t[c]), Filter!Corrected(Filter!Colour(t[c]), corr))
    BY DEF CorrectedTexture
  <2>2. Filter!Alpha(t[c]) \in Octets /\ Filter!Corrected(Filter!Colour(t[c]), corr) \in Octets
    BY <1>1, ChannelsAreOctets DEF Textures
  <2> QED BY <2>1, <2>2, PixelHasChannels
<1>3. u \in [Filter!Cells -> PixelWords]
  <2>1. u = [c \in Filter!Cells |-> u[c]]
    BY DEF CorrectedTexture
  <2> HIDE DEF u
  <2> QED BY <1>2, <2>1
<1> QED BY <1>2, <1>3 DEF Textures

LostWithin(u, before, after) ==
    LET bound == Width * Height + after \div 256 + 1
    IN 2 * (Filter!ComputeChannelSum(u) - before) \in (-bound)..bound

LEMMA CorrectionKeepsBrightness ==
    ASSUME NEW t \in Textures, NEW before \in Int, NEW corr \in 205..319, NEW after,
           after = Filter!ComputeChannelSum(t), after > 0, corr = Filter!SafeCorr(before, after),
           NEW u, u = CorrectedTexture(t, corr), \A c \in Filter!Cells : Filter!Colour(u[c]) < 255
    PROVE  LostWithin(u, before, after)
<1> DEFINE f == [c \in Filter!Cells |-> Filter!Colour(t[c])]
           g == [c \in Filter!Cells |-> Filter!Colour(u[c])]
           now == Filter!ComputeChannelSum(u)
           m == corr * after
           n == Width * Height
<1>1. \A c \in Filter!Cells : Rounded(g[c], corr, f[c], -127, 128, 1)
  <2>1. ASSUME NEW c \in Filter!Cells PROVE Rounded(Filter!Colour(u[c]), corr, Filter!Colour(t[c]), -127, 128, 1)
    <3>1. corr \in 204..320
      OBVIOUS
    <3>2. Filter!Colour(u[c]) = Filter!Corrected(Filter!Colour(t[c]), corr)
      BY <3>1, CorrectedIsTexture
    <3>3. Filter!Colour(t[c]) \in Octets
      BY ChannelsAreOctets DEF Textures
    <3>4. Filter!Corrected(Filter!Colour(t[c]), corr) < 255
      BY <3>2
    <3> QED BY <3>2, <3>3, <3>4, CorrectedIsRounded
  <2> QED BY <2>1
<1>2. /\ after = SumsUp(f)[Filter!Cells] /\ now = SumsUp(g)[Filter!Cells]
      /\ DOMAIN f = Filter!Cells /\ DOMAIN g = Filter!Cells
  BY ChannelSumIs
<1> HIDE DEF f, g, now
<1>3. corr \in Int
  OBVIOUS
<1>4. Rounded(now, corr, after, -127, 128, n)
  BY <1>1, <1>2, <1>3, CellsAreFinite, SumsAreRounded
<1>5. after \in Nat \ {0} /\ m \in Int /\ 2 * (m - 256 * before) <= after /\ -after <= 2 * (m - 256 * before)
  <2>1. after \in Nat \ {0}
    BY ChannelSumIsNat
  <2>2. Filter!SafeCorr(before, after) \in 205..319
    OBVIOUS
  <2> QED BY <2>1, <2>2, FactorIs
<1> HIDE DEF m
<1>6. n \in Nat
  BY CellsAreFinite
<1> HIDE DEF n
<1>7. now \in Int /\ -127 * n <= 256 * now - m /\ 256 * now - m <= 128 * n
  BY <1>4, <1>6 DEF Rounded, Minus, m
<1>8. 2 * (now - before) \in (-(n + after \div 256 + 1))..(n + after \div 256 + 1)
  BY <1>5, <1>6, <1>7, LossIsBounded
<1> QED BY <1>8 DEF n, now, LostWithin

\* Until the correction every channel is in its range, and before it the brightness is
\* that of the texture; with it the brightness is kept, and nothing comes after it.
FilterInv ==
    /\ texture \in Textures /\ locked \in Textures
    /\ weight \in 0..255 /\ pre \in Nat /\ post \in Nat
    /\ filter \in {"blur", "correct"} => InRange(locked, texture)
    /\ filter = "correct" => post = Filter!ComputeChannelSum(texture)
    /\ Filter!BrightnessIsKept

LEMMA FilterStarts == Filter!Init => FilterInv
<1> SUFFICES ASSUME Filter!Init PROVE FilterInv
  OBVIOUS
<1>1. /\ texture \in [Filter!Cells -> Pixels] /\ locked = texture
      /\ pre = Filter!ComputeChannelSum(texture) /\ post = pre
  BY DEF Filter!Init
<1>2. PICK strength \in Strengths : weight = strength % 256 /\ filter \in {"done", "blur"}
  BY DEF Filter!Init
<1>3. texture \in Textures
  <2>1. \A x \in Pixels : x \in Nat /\ x < 65536
    BY FilterAssumption DEF FilterAssumption
  <2>2. Pixels \subseteq PixelWords
    BY <2>1 DEF PixelWords
  <2> QED BY <1>1, <2>2 DEF Textures
<1>4. pre \in Nat
  BY <1>1, <1>3, ChannelSumIsNat
<1>5. weight \in 0..255
  <2>1. strength \in Int
    BY FilterAssumption DEF FilterAssumption
  <2> QED BY <1>2, <2>1
<1>6. InRange(locked, texture)
  <2>1. \A c \in Filter!Cells : Filter!Colour(texture[c]) \in Int /\ Filter!Alpha(texture[c]) \in Int
    BY <1>3, ChannelsAreOctets DEF Textures, Octets
  <2>2. \A c \in Filter!Cells : /\ Filter!Colour(texture[c]) <= Filter!Colour(texture[c])
                                /\ Filter!Colour(texture[c]) >= Filter!Colour(texture[c])
                                /\ Filter!Alpha(texture[c]) <= Filter!Alpha(texture[c])
                                /\ Filter!Alpha(texture[c]) >= Filter!Alpha(texture[c])
    BY <2>1
  <2> QED BY <1>1, <2>2 DEF InRange
<1>7. Filter!BrightnessIsKept
  <2> DEFINE now == Filter!ComputeChannelSum(texture)
             bound == Width * Height + post \div 256 + 1
  <2>1. now = pre
    BY <1>1
  <2> HIDE DEF now
  <2>2. 2 * (now - pre) = 0
    BY <1>4, <2>1
  <2>3. post > 0 => bound \in Nat
    <3> DEFINE n == Width * Height
    <3>1. n \in Nat
      BY CellsAreFinite
    <3> HIDE DEF n
    <3>2. post > 0 => n + post \div 256 + 1 \in Nat
      BY <1>1, <1>4, <3>1
    <3> QED BY <3>2 DEF n
  <2> HIDE DEF bound
  <2>4. post > 0 => 0 \in (-bound)..bound
    BY <2>3
  <2> QED BY <2>2, <2>4 DEF Filter!BrightnessIsKept, now, bound
<1> QED BY <1>1, <1>2, <1>3, <1>4, <1>5, <1>6, <1>7 DEF FilterInv

LEMMA BlurPassStep == FilterInv /\ Filter!BlurPass => FilterInv'
<1> SUFFICES ASSUME FilterInv, Filter!BlurPass PROVE FilterInv'
  OBVIOUS
<1>1. /\ filter = "blur" /\ filter' = filter /\ locked' = locked /\ weight' = weight
      /\ pre' = pre /\ post' = post /\ texture' = Filter!Pass(texture, Filter!FloorAvg)
  BY DEF Filter!BlurPass
<1>2. /\ texture \in Textures /\ locked \in Textures /\ InRange(locked, texture)
      /\ weight \in 0..255 /\ pre \in Nat /\ post \in Nat
  BY <1>1 DEF FilterInv
<1>3. texture' \in Textures /\ InRange(locked, texture')
  BY <1>1, <1>2, FloorPassInRange
<1>4. Textures' = Textures /\ InRange(locked, texture)' = InRange(locked, texture')
  BY <1>1 DEF Textures, InRange
<1>5. Filter!BrightnessIsKept'
  BY <1>1 DEF Filter!BrightnessIsKept
<1> QED BY <1>1, <1>2, <1>3, <1>4, <1>5 DEF FilterInv

LEMMA FractionalPassStep == FilterInv /\ Filter!FractionalPass => FilterInv'
<1> SUFFICES ASSUME FilterInv, Filter!FractionalPass PROVE FilterInv'
  OBVIOUS
<1>1. /\ filter = "blur" /\ filter' = "correct" /\ locked' = locked /\ weight' = weight
      /\ pre' = pre /\ post' = Filter!ComputeChannelSum(texture')
  BY DEF Filter!FractionalPass
<1>2. /\ texture \in Textures /\ locked \in Textures /\ InRange(locked, texture)
      /\ weight \in 0..255 /\ pre \in Nat
  BY <1>1 DEF FilterInv
<1>3. texture' = texture \/ texture' = Filter!Pass(texture, LAMBDA a, b : Filter!BlendTowardAvg(a, b, weight))
  BY Zenon DEF Filter!FractionalPass
<1>4. PICK u : u = texture'
  OBVIOUS
<1>5. u \in Textures /\ InRange(locked, u)
  <2>1. CASE u = texture
    BY <1>2, <2>1
  <2>2. CASE u = Filter!Pass(texture, LAMBDA a, b : Filter!BlendTowardAvg(a, b, weight))
    <3> DEFINE v == Filter!Pass(texture, LAMBDA a, b : Filter!BlendTowardAvg(a, b, weight))
    <3>1. v \in Textures /\ InRange(locked, v)
      BY <1>2, BlendPassInRange, Zenon
    <3>2. u = v
      BY <2>2, Zenon
    <3> HIDE DEF v
    <3> QED BY <3>1, <3>2
  <2> QED BY <1>3, <1>4, <2>1, <2>2, Zenon
<1>6. Textures' = Textures /\ InRange(locked, texture)' = InRange(locked, u)
  BY <1>1, <1>4 DEF Textures, InRange
<1>7. post' \in Nat /\ post' = Filter!ComputeChannelSum(texture)'
  <2>1. Filter!ComputeChannelSum(u) \in Nat
    BY <1>5, ChannelSumIsNat
  <2>2. Filter!ComputeChannelSum(texture)' = Filter!ComputeChannelSum(u) /\ post' = Filter!ComputeChannelSum(u)
    BY <1>1, <1>4 DEF Filter!ComputeChannelSum
  <2> QED BY <2>1, <2>2
<1>8. Filter!BrightnessIsKept'
  BY <1>1 DEF Filter!BrightnessIsKept
<1> QED BY <1>1, <1>2, <1>4, <1>5, <1>6, <1>7, <1>8 DEF FilterInv

LEMMA CorrectionStep == FilterInv /\ Filter!ApplyBrightnessCorrection => FilterInv'
<1> SUFFICES ASSUME FilterInv, Filter!ApplyBrightnessCorrection PROVE FilterInv'
  OBVIOUS
<1> DEFINE corr == Filter!SafeCorr(pre, post)
<1>1. /\ filter = "correct" /\ filter' = "done" /\ locked' = locked /\ weight' = weight
      /\ pre' = pre /\ post' = post /\ texture' = CorrectedTexture(texture, corr)
  BY DEF Filter!ApplyBrightnessCorrection, CorrectedTexture
<1>2. /\ texture \in Textures /\ locked \in Textures /\ post = Filter!ComputeChannelSum(texture)
      /\ weight \in 0..255 /\ pre \in Nat /\ post \in Nat
  BY <1>1 DEF FilterInv
<1>3. corr \in 204..320
  <2> DEFINE r == (pre * 256 + post \div 2) \div post
  <2>1. post # 0 => r \in Int
    BY <1>2
  <2>2. corr = IF post = 0 THEN 256 ELSE Filter!Clamp(r, 204, 320)
    BY DEF Filter!SafeCorr
  <2> HIDE DEF r, corr
  <2> QED BY <2>1, <2>2 DEF Filter!Clamp
<1> HIDE DEF corr
<1>4. PICK u : u = texture'
  OBVIOUS
<1>5. u = CorrectedTexture(texture, corr) /\ u \in Textures
  BY <1>1, <1>2, <1>3, <1>4, CorrectedIsTexture
<1>6. Filter!BrightnessIsKept'
  <2>1. ASSUME post > 0, corr \in 205..319, \A c \in Filter!Cells : Filter!Colour(u[c]) < 255
        PROVE  LostWithin(u, pre, post)
    <3>1. corr = Filter!SafeCorr(pre, post) /\ pre \in Int
      BY <1>2 DEF corr
    <3> QED BY <1>2, <1>5, <2>1, <3>1, CorrectionKeepsBrightness
  <2>2. Filter!ComputeChannelSum(texture)' = Filter!ComputeChannelSum(u)
    BY <1>4 DEF Filter!ComputeChannelSum
  <2>3. Filter!SafeCorr(pre, post)' = corr
    BY <1>1 DEF corr
  <2> QED BY <1>1, <1>4, <2>1, <2>2, <2>3 DEF Filter!BrightnessIsKept, LostWithin
<1> QED BY <1>1, <1>2, <1>4, <1>5, <1>6 DEF FilterInv, Textures

LEMMA FilterStep == FilterInv /\ [Filter!Next]_Filter!vars => FilterInv'
<1> SUFFICES ASSUME FilterInv, [Filter!Next]_Filter!vars PROVE FilterInv'
  OBVIOUS
<1>1. CASE Filter!BlurPass
  BY <1>1, BlurPassStep
<1>2. CASE Filter!FractionalPass
  BY <1>2, FractionalPassStep
<1>3. CASE Filter!ApplyBrightnessCorrection
  BY <1>3, CorrectionStep
<1>4. CASE UNCHANGED Filter!vars
  <2>1. UNCHANGED <<texture, locked, passes, weight, filter, pre, post>>
    BY <1>4 DEF Filter!vars
  <2>2. Textures' = Textures /\ InRange(locked, texture)' = InRange(locked, texture)
    BY <2>1 DEF Textures, InRange
  <2>3. Filter!BrightnessIsKept' = Filter!BrightnessIsKept
    BY <2>1 DEF Filter!BrightnessIsKept, Filter!ComputeChannelSum
  <2>4. Filter!ComputeChannelSum(texture)' = Filter!ComputeChannelSum(texture)
    BY <2>1 DEF Filter!ComputeChannelSum
  <2> QED BY <2>1, <2>2, <2>3, <2>4 DEF FilterInv
<1> QED BY <1>1, <1>2, <1>3, <1>4 DEF Filter!Next

LEMMA FilterIsFaithful == FilterInv => Filter!BlurStaysInRange /\ Filter!BrightnessIsKept
BY DEF FilterInv, InRange, Filter!BlurStaysInRange, Filter!Within

\* For textures of any size, with any words in them, and strengths of any size: before the
\* correction no channel of any cell has left the range it had in the locked texture, though
\* the packed average works on both channels at once and the weighted one rounds, and
\* where the correction cuts nothing off, the brightness is the one before the blur, up to
\* the rounding (lighting_quality_patch.cpp, BlurLockedTexture, ApplyBrightnessCorrection).
THEOREM BlurIsFaithful == ComponentsSpec => []BlurKeepsTheTexture
<1> DEFINE Inv == subject = "filter" => FilterInv
<1>1. ComponentsInit => Inv
  BY FilterStarts DEF ComponentsInit
<1>2. Inv /\ [ComponentsNext]_all => Inv'
  BY SubjectStays, SubjectSteps, FilterStep
<1>3. Inv => BlurKeepsTheTexture
  BY FilterIsFaithful DEF BlurKeepsTheTexture
<1> QED BY <1>1, <1>2, <1>3, PTL DEF ComponentsSpec

=============================================================================
