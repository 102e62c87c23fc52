------------------------ MODULE PatchLifecycleProofs ------------------------
(***************************************************************************)
(* Theorems about PatchLifecycle for every number of sites, every choice   *)
(* of data and anchored sites and every number of setting versions.        *)
(***************************************************************************)
EXTENDS PatchLifecycle, TLAPS

LEMMA EmptyLocations == <<>> \in Seq(Location)
OBVIOUS

LEMMA TypeInit == Init => TypeOK /\ IndexInv
<1> SUFFICES ASSUME Init PROVE TypeOK /\ IndexInv
    OBVIOUS
<1> USE LifecycleAssumption DEF LifecycleAssumption, Init
<1>1. MemTypes BY DEF MemTypes, Sites, Versions
<1>2. isEnabled \in BOOLEAN /\ patchedLocations \in Seq(Location) BY EmptyLocations
<1>3. maintainedWrites \in [Data -> Versions] BY DEF Versions
<1>4. setting \in 1..MaxVer OBVIOUS
<1>5. pendingReinstall \in BOOLEAN /\ settled \in BOOLEAN /\ started \in BOOLEAN OBVIOUS
<1>6. ControlTypes BY DEF ControlTypes, PcLabels
<1>7. LocalTypes BY EmptyLocations DEF LocalTypes, Versions
<1>8. GameTypes BY DEF GameTypes
<1>9. IndexInv BY DEF IndexInv
<1> QED
    BY <1>1, <1>2, <1>3, <1>4, <1>5, <1>6, <1>7, <1>8, <1>9 DEF TypeOK, PatchTypes, ReinstTypes

LEMMA TypeStep == TypeOK /\ IndexInv /\ [Next]_vars => TypeOK' /\ IndexInv'
<1> SUFFICES ASSUME TypeOK, IndexInv, [Next]_vars
             PROVE  TypeOK' /\ IndexInv'
    OBVIOUS
<1> USE LifecycleAssumption DEF LifecycleAssumption
<1>1. ASSUME NEW t \in Threads, InstallEntry(t) PROVE TypeOK' /\ IndexInv'
  <2>1. ControlTypes'
      BY <1>1 DEF InstallEntry, Goto, TypeOK, ControlTypes, PcLabels, Threads
  <2>2. tx' \in [Threads -> Seq(Location)]
      BY <1>1, EmptyLocations DEF InstallEntry, Goto, TypeOK, LocalTypes, PatchTypes,
         localVars
  <2>3. ver' \in [Threads -> Versions]
      BY <1>1 DEF InstallEntry, Goto, TypeOK, LocalTypes, ReinstTypes, Versions, localVars
  <2>4. ok' \in [Threads -> BOOLEAN]
      BY <1>1 DEF InstallEntry, Goto, TypeOK, LocalTypes, localVars
  <2>5. idx' \in [Threads -> Nat]
      BY <1>1 DEF InstallEntry, Goto, TypeOK, LocalTypes, PatchTypes, localVars
  <2>6. seen' \in [Threads -> [Data -> Versions]]
      BY <1>1 DEF InstallEntry, Goto, TypeOK, LocalTypes, MemTypes, localVars
  <2>7. IndexInv'
      BY <1>1 DEF InstallEntry, Goto, TypeOK, IndexInv, ControlTypes, LocalTypes,
         PatchTypes, Sites, localVars, Threads
  <2> QED
      BY <1>1, <2>1, <2>2, <2>3, <2>4, <2>5, <2>6, <2>7 DEF InstallEntry, Goto, TypeOK,
         MemTypes, PatchTypes, ReinstTypes, ControlTypes, LocalTypes, GameTypes, memVars,
         patchVars, reinstVars, localVars, gameVars
<1>2. ASSUME NEW t \in Threads, Query(t) PROVE TypeOK' /\ IndexInv'
  <2>1. ControlTypes'
      BY <1>2 DEF Query, Goto, WriteFailed, TypeOK, ControlTypes, PcLabels, Threads
  <2>2. ok' \in [Threads -> BOOLEAN]
      BY <1>2 DEF Query, Goto, WriteFailed, TypeOK, LocalTypes, localVars
  <2>3. idx' \in [Threads -> Nat]
    <3>1. idx' = idx \/ idx' = [idx EXCEPT ![t] = idx[t] + 1]
        BY <1>2 DEF Query, WriteFailed
    <3>2. idx[t] + 1 \in Nat
        BY DEF TypeOK, LocalTypes
    <3> QED BY <3>1, <3>2 DEF TypeOK, LocalTypes
  <2>4. saved' \in [Threads -> Versions]
    <3>1. saved' = saved \/ (idx[t] \in Sites /\ saved' = [saved EXCEPT ![t] = mem[idx[t]]])
        BY <1>2 DEF Query, TypeOK, LocalTypes, IndexInv, Sites
    <3> QED BY <3>1 DEF TypeOK, LocalTypes, MemTypes
  <2>5. IndexInv'
      BY <1>2 DEF Query, Goto, WriteFailed, TypeOK, IndexInv, ControlTypes, LocalTypes,
         PatchTypes, Sites, localVars, Threads
  <2> QED
      BY <1>2, <2>1, <2>2, <2>3, <2>4, <2>5 DEF Query, Goto, WriteFailed, TypeOK, MemTypes,
         PatchTypes, ReinstTypes, ControlTypes, LocalTypes, GameTypes, memVars, patchVars,
         reinstVars, localVars, gameVars
<1>3. ASSUME NEW t \in Threads, Push(t) PROVE TypeOK' /\ IndexInv'
  <2>1. ControlTypes'
      BY <1>3 DEF Push, Goto, TypeOK, ControlTypes, PcLabels, Threads
  <2>2. tx' \in [Threads -> Seq(Location)]
    <3>1. [site |-> idx[t], saved |-> saved[t]] \in Location
        BY <1>3 DEF Push, TypeOK, LocalTypes, IndexInv, Location
    <3>2. tx[t] \in Seq(Location)
        BY DEF TypeOK, LocalTypes
    <3>3. Append(tx[t], [site |-> idx[t], saved |-> saved[t]]) \in Seq(Location)
        BY <3>1, <3>2
    <3> QED BY <1>3, <3>3 DEF Push, TypeOK, LocalTypes
  <2>3. IndexInv'
      BY <1>3 DEF Push, Goto, TypeOK, IndexInv, ControlTypes, LocalTypes, PatchTypes, Sites,
         localVars, Threads
  <2> QED
      BY <1>3, <2>1, <2>2, <2>3 DEF Push, Goto, TypeOK, MemTypes, PatchTypes, ReinstTypes,
         ControlTypes, LocalTypes, GameTypes, memVars, patchVars, reinstVars, localVars,
         gameVars
<1>4. ASSUME NEW t \in Threads, Write(t) PROVE TypeOK' /\ IndexInv'
  <2>1. ControlTypes'
      BY <1>4 DEF Write, Goto, WriteFailed, TypeOK, ControlTypes, PcLabels, Threads
  <2>2. mem' \in [Sites -> Versions]
      BY <1>4 DEF Write, Goto, WriteFailed, TypeOK, MemTypes, LocalTypes, PatchTypes,
         IndexInv, Location, Versions
  <2>3. ok' \in [Threads -> BOOLEAN]
      BY <1>4 DEF Write, Goto, WriteFailed, TypeOK, LocalTypes, localVars
  <2>4. idx' \in [Threads -> Nat]
      BY <1>4 DEF Write, Goto, WriteFailed, TypeOK, LocalTypes, PatchTypes, localVars
  <2>5. IndexInv'
      BY <1>4 DEF Write, Goto, WriteFailed, TypeOK, IndexInv, ControlTypes, LocalTypes,
         PatchTypes, Sites, localVars, Threads
  <2> QED
      BY <1>4, <2>1, <2>2, <2>3, <2>4, <2>5 DEF Write, Goto, WriteFailed, TypeOK, MemTypes,
         PatchTypes, ReinstTypes, ControlTypes, LocalTypes, GameTypes, memVars, patchVars,
         reinstVars, localVars, gameVars
<1>5. ASSUME NEW t \in Threads, Verify(t) PROVE TypeOK' /\ IndexInv'
  <2>1. ControlTypes'
      BY <1>5 DEF Verify, Goto, TypeOK, ControlTypes, PcLabels, Threads
  <2>2. ok' \in [Threads -> BOOLEAN]
      BY <1>5 DEF Verify, Goto, TypeOK, LocalTypes, localVars
  <2>3. idx' \in [Threads -> Nat]
      BY <1>5 DEF Verify, Goto, TypeOK, LocalTypes, PatchTypes, localVars
  <2>4. IndexInv'
      BY <1>5 DEF Verify, Goto, TypeOK, IndexInv, ControlTypes, LocalTypes, PatchTypes,
         Sites, localVars, Threads
  <2> QED
      BY <1>5, <2>1, <2>2, <2>3, <2>4 DEF Verify, Goto, TypeOK, MemTypes, PatchTypes,
         ReinstTypes, ControlTypes, LocalTypes, GameTypes, memVars, patchVars, reinstVars,
         localVars, gameVars
<1>6. ASSUME NEW t \in Threads, Commit(t) PROVE TypeOK' /\ IndexInv'
  <2>1. ControlTypes'
      BY <1>6 DEF Commit, Goto, TypeOK, ControlTypes, PcLabels, Threads
  <2>2. patchedLocations' \in Seq(Location)
      BY <1>6 DEF Commit, Goto, TypeOK, PatchTypes, LocalTypes
  <2>3. IndexInv'
      BY <1>6 DEF Commit, Goto, TypeOK, IndexInv, ControlTypes, LocalTypes, PatchTypes,
         Sites, localVars, Threads
  <2> QED
      BY <1>6, <2>1, <2>2, <2>3 DEF Commit, Goto, TypeOK, MemTypes, PatchTypes, ReinstTypes,
         ControlTypes, LocalTypes, GameTypes, memVars, patchVars, reinstVars, localVars,
         gameVars
<1>7. ASSUME NEW t \in Threads, Maintain(t) PROVE TypeOK' /\ IndexInv'
  <2>1. ControlTypes'
      BY <1>7 DEF Maintain, Goto, TypeOK, ControlTypes, PcLabels, Threads
  <2>2. maintainedWrites' \in [Data -> Versions]
      BY <1>7 DEF Maintain, Goto, TypeOK, PatchTypes, LocalTypes, Versions
  <2>3. IndexInv'
      BY <1>7 DEF Maintain, Goto, TypeOK, IndexInv, ControlTypes, LocalTypes, PatchTypes,
         Sites, localVars, Threads
  <2> QED
      BY <1>7, <2>1, <2>2, <2>3 DEF Maintain, Goto, TypeOK, MemTypes, PatchTypes,
         ReinstTypes, ControlTypes, LocalTypes, GameTypes, memVars, patchVars, reinstVars,
         localVars, gameVars
<1>8. ASSUME NEW t \in Threads, Enable(t) PROVE TypeOK' /\ IndexInv'
  <2>1. ControlTypes'
      BY <1>8 DEF Enable, Goto, TypeOK, ControlTypes, PcLabels, Threads
  <2>2. IndexInv'
      BY <1>8 DEF Enable, Goto, TypeOK, IndexInv, ControlTypes, LocalTypes, PatchTypes,
         Sites, localVars, Threads
  <2> QED
      BY <1>8, <2>1, <2>2 DEF Enable, Goto, TypeOK, MemTypes, PatchTypes, ReinstTypes,
         ControlTypes, LocalTypes, GameTypes, memVars, patchVars, reinstVars, localVars,
         gameVars
<1>9. ASSUME NEW t \in Threads, RollbackLock(t) PROVE TypeOK' /\ IndexInv'
  <2>1. ControlTypes'
      BY <1>9 DEF RollbackLock, Goto, TypeOK, ControlTypes, PcLabels, Threads
  <2>2. idx' \in [Threads -> Nat]
    <3>1. idx' = idx \/ idx' = [idx EXCEPT ![t] = Len(tx[t])]
        BY <1>9 DEF RollbackLock
    <3>2. Len(tx[t]) \in Nat
        BY DEF TypeOK, LocalTypes
    <3> QED BY <3>1, <3>2 DEF TypeOK, LocalTypes
  <2>3. IndexInv'
      BY <1>9 DEF RollbackLock, Goto, TypeOK, IndexInv, ControlTypes, LocalTypes,
         PatchTypes, Sites, localVars, Threads
  <2> QED
      BY <1>9, <2>1, <2>2, <2>3 DEF RollbackLock, Goto, TypeOK, MemTypes, PatchTypes,
         ReinstTypes, ControlTypes, LocalTypes, GameTypes, memVars, patchVars, reinstVars,
         localVars, gameVars
<1>10. ASSUME NEW t \in Threads, RollbackStep(t) \/ RestoreStep(t) PROVE TypeOK' /\ IndexInv'
  <2>1. mem' \in [Sites -> Versions]
    <3>1. tx[t] \in Seq(Location) /\ idx[t] \in 1..Len(tx[t])
        BY <1>10 DEF RollbackStep, RestoreStep, RestoreOne, TypeOK, LocalTypes, IndexInv
    <3>2. tx[t][idx[t]] \in Location
        BY <3>1
    <3>3. tx[t][idx[t]].saved \in Versions
        BY <3>2 DEF Location
    <3> QED BY <1>10, <3>3 DEF RollbackStep, RestoreStep, RestoreOne, TypeOK, MemTypes
  <2>2. ok' \in [Threads -> BOOLEAN]
      BY <1>10 DEF RollbackStep, RestoreStep, RestoreOne, TypeOK, LocalTypes, localVars
  <2>3. idx' \in [Threads -> Nat]
    <3>1. idx[t] > 0 /\ idx' = [idx EXCEPT ![t] = @ - 1]
        BY <1>10 DEF RollbackStep, RestoreStep, RestoreOne
    <3>2. idx[t] - 1 \in Nat
        BY <3>1 DEF TypeOK, LocalTypes
    <3> QED BY <3>1, <3>2 DEF TypeOK, LocalTypes
  <2>4. IndexInv'
    <3>1. pc' = pc /\ tx' = tx /\ idx[t] > 0 /\ idx' = [idx EXCEPT ![t] = @ - 1]
        BY <1>10 DEF RollbackStep, RestoreStep, RestoreOne
    <3>2. pc[t] \in {"rollback", "restore"} /\ idx \in [Threads -> Nat] /\ tx[t] \in Seq(Location)
        BY <1>10 DEF RollbackStep, RestoreStep, TypeOK, LocalTypes
    <3> QED BY <3>1, <3>2 DEF IndexInv
  <2> QED
      BY <1>10, <2>1, <2>2, <2>3, <2>4 DEF RollbackStep, RestoreStep, RestoreOne, TypeOK, MemTypes, PatchTypes,
         ReinstTypes, ControlTypes, LocalTypes, GameTypes, memVars, patchVars, reinstVars,
         localVars, gameVars
<1>11. ASSUME NEW t \in Threads, RollbackDone(t) PROVE TypeOK' /\ IndexInv'
  <2>1. ControlTypes'
      BY <1>11 DEF RollbackDone, Goto, TypeOK, ControlTypes, PcLabels, Threads
  <2>2. IndexInv'
      BY <1>11 DEF RollbackDone, Goto, TypeOK, IndexInv, ControlTypes, LocalTypes,
         PatchTypes, Sites, localVars, Threads
  <2> QED
      BY <1>11, <2>1, <2>2 DEF RollbackDone, Goto, TypeOK, MemTypes, PatchTypes,
         ReinstTypes, ControlTypes, LocalTypes, GameTypes, memVars, patchVars, reinstVars,
         localVars, gameVars
<1>12. ASSUME NEW t \in Threads, UninstallEntry(t) PROVE TypeOK' /\ IndexInv'
  <2>1. ControlTypes'
      BY <1>12 DEF UninstallEntry, Goto, ReturnFromUninstall, TypeOK, ControlTypes,
         PcLabels, Threads
  <2>2. IndexInv'
      BY <1>12 DEF UninstallEntry, Goto, ReturnFromUninstall, TypeOK, IndexInv,
         ControlTypes, LocalTypes, PatchTypes, Sites, localVars, Threads
  <2> QED
      BY <1>12, <2>1, <2>2 DEF UninstallEntry, Goto, ReturnFromUninstall, TypeOK, MemTypes,
         PatchTypes, ReinstTypes, ControlTypes, LocalTypes, GameTypes, memVars, patchVars,
         reinstVars, localVars, gameVars
<1>13. ASSUME NEW t \in Threads, Clear(t) PROVE TypeOK' /\ IndexInv'
  <2>1. ControlTypes'
      BY <1>13 DEF Clear, Goto, TypeOK, ControlTypes, PcLabels, Threads
  <2>2. maintainedWrites' \in [Data -> Versions]
      BY <1>13 DEF Clear, Goto, TypeOK, PatchTypes, LocalTypes, Versions
  <2>3. IndexInv'
      BY <1>13 DEF Clear, Goto, TypeOK, IndexInv, ControlTypes, LocalTypes, PatchTypes,
         Sites, localVars, Threads
  <2> QED
      BY <1>13, <2>1, <2>2, <2>3 DEF Clear, Goto, TypeOK, MemTypes, PatchTypes, ReinstTypes,
         ControlTypes, LocalTypes, GameTypes, memVars, patchVars, reinstVars, localVars,
         gameVars
<1>14. ASSUME NEW t \in Threads, RestoreLock(t) PROVE TypeOK' /\ IndexInv'
  <2>1. ControlTypes'
      BY <1>14 DEF RestoreLock, Goto, TypeOK, ControlTypes, PcLabels, Threads
  <2>2. tx' \in [Threads -> Seq(Location)]
      BY <1>14, EmptyLocations DEF RestoreLock, Goto, TypeOK, LocalTypes, PatchTypes,
         localVars
  <2>3. ok' \in [Threads -> BOOLEAN]
      BY <1>14 DEF RestoreLock, Goto, TypeOK, LocalTypes, localVars
  <2>4. idx' \in [Threads -> Nat]
      BY <1>14 DEF RestoreLock, Goto, TypeOK, LocalTypes, PatchTypes, localVars
  <2>5. IndexInv'
      BY <1>14 DEF RestoreLock, Goto, TypeOK, IndexInv, ControlTypes, LocalTypes,
         PatchTypes, Sites, localVars, Threads
  <2> QED
      BY <1>14, <2>1, <2>2, <2>3, <2>4, <2>5 DEF RestoreLock, Goto, TypeOK, MemTypes,
         PatchTypes, ReinstTypes, ControlTypes, LocalTypes, GameTypes, memVars, patchVars,
         reinstVars, localVars, gameVars
<1>15. ASSUME NEW t \in Threads, RestoreDone(t) PROVE TypeOK' /\ IndexInv'
  <2>1. ControlTypes'
      BY <1>15 DEF RestoreDone, Goto, ReturnFromUninstall, TypeOK, ControlTypes, PcLabels,
         Threads
  <2>2. patchedLocations' \in Seq(Location)
      BY <1>15, EmptyLocations DEF RestoreDone, TypeOK, PatchTypes
  <2>3. IndexInv'
      BY <1>15 DEF RestoreDone, Goto, ReturnFromUninstall, TypeOK, IndexInv, ControlTypes,
         LocalTypes, PatchTypes, Sites, localVars, Threads
  <2> QED
      BY <1>15, <2>1, <2>2, <2>3 DEF RestoreDone, Goto, ReturnFromUninstall, TypeOK,
         MemTypes, PatchTypes, ReinstTypes, ControlTypes, LocalTypes, GameTypes, memVars,
         patchVars, reinstVars, localVars, gameVars
<1>16. ASSUME NEW t \in Threads, Disable(t) PROVE TypeOK' /\ IndexInv'
  <2>1. ControlTypes'
      BY <1>16 DEF Disable, Goto, ReturnFromUninstall, TypeOK, ControlTypes, PcLabels, Threads
  <2>2. IndexInv'
      BY <1>16 DEF Disable, Goto, ReturnFromUninstall, TypeOK, IndexInv, ControlTypes,
         LocalTypes, PatchTypes, Sites, localVars, Threads
  <2> QED
      BY <1>16, <2>1, <2>2 DEF Disable, Goto, ReturnFromUninstall, TypeOK, MemTypes,
         PatchTypes, ReinstTypes, ControlTypes, LocalTypes, GameTypes, memVars, patchVars,
         reinstVars, localVars, gameVars
<1>17. ASSUME LoadFromToml PROVE TypeOK' /\ IndexInv'
  <2>1. ControlTypes'
      BY <1>17 DEF LoadFromToml, Goto, Enter, MayEnter, Quiet, TypeOK, ControlTypes,
         PcLabels, Threads
  <2>2. setting' \in 1..MaxVer
      BY <1>17 DEF LoadFromToml, Goto, Enter, MayEnter, Quiet, TypeOK, ReinstTypes
  <2>3. IndexInv'
      BY <1>17 DEF LoadFromToml, Goto, Enter, MayEnter, Quiet, TypeOK, IndexInv,
         ControlTypes, LocalTypes, PatchTypes, Sites, localVars, Threads
  <2> QED
      BY <1>17, <2>1, <2>2, <2>3 DEF LoadFromToml, Goto, Enter, MayEnter, Quiet, TypeOK,
         MemTypes, PatchTypes, ReinstTypes, ControlTypes, LocalTypes, GameTypes, memVars,
         patchVars, reinstVars, localVars, gameVars
<1>18. ASSUME UpdateTest PROVE TypeOK' /\ IndexInv'
  <2>1. ControlTypes'
      BY <1>18 DEF UpdateTest, Goto, TypeOK, ControlTypes, PcLabels, Threads
  <2>2. IndexInv'
      BY <1>18 DEF UpdateTest, Goto, TypeOK, IndexInv, ControlTypes, LocalTypes, PatchTypes,
         Sites, localVars, Threads
  <2> QED
      BY <1>18, <2>1, <2>2 DEF UpdateTest, Goto, TypeOK, MemTypes, PatchTypes, ReinstTypes,
         ControlTypes, LocalTypes, GameTypes, memVars, patchVars, reinstVars, localVars,
         gameVars
<1>19. ASSUME UpdateConsume PROVE TypeOK' /\ IndexInv'
  <2>1. ControlTypes'
      BY <1>19 DEF UpdateConsume, Goto, TypeOK, ControlTypes, PcLabels, Threads
  <2>2. IndexInv'
      BY <1>19 DEF UpdateConsume, Goto, TypeOK, IndexInv, ControlTypes, LocalTypes,
         PatchTypes, Sites, localVars, Threads
  <2> QED
      BY <1>19, <2>1, <2>2 DEF UpdateConsume, Goto, TypeOK, MemTypes, PatchTypes,
         ReinstTypes, ControlTypes, LocalTypes, GameTypes, memVars, patchVars, reinstVars,
         localVars, gameVars
<1>20. ASSUME GuiToggle PROVE TypeOK' /\ IndexInv'
  <2>1. ControlTypes'
      BY <1>20 DEF GuiToggle, Goto, Enter, MayEnter, Quiet, TypeOK, ControlTypes, PcLabels,
         Threads
  <2>2. IndexInv'
      BY <1>20 DEF GuiToggle, Goto, Enter, MayEnter, Quiet, TypeOK, IndexInv, ControlTypes,
         LocalTypes, PatchTypes, Sites, localVars, Threads
  <2> QED
      BY <1>20, <2>1, <2>2 DEF GuiToggle, Goto, Enter, MayEnter, Quiet, TypeOK, MemTypes,
         PatchTypes, ReinstTypes, ControlTypes, LocalTypes, GameTypes, memVars, patchVars,
         reinstVars, localVars, gameVars
<1>21. ASSUME GuiChangeSetting PROVE TypeOK' /\ IndexInv'
  <2>1. ControlTypes'
      BY <1>21 DEF GuiChangeSetting, Goto, TypeOK, ControlTypes, PcLabels, Threads
  <2>2. setting' \in 1..MaxVer
      BY <1>21 DEF GuiChangeSetting, Goto, TypeOK, ReinstTypes
  <2>3. IndexInv'
      BY <1>21 DEF GuiChangeSetting, Goto, TypeOK, IndexInv, ControlTypes, LocalTypes,
         PatchTypes, Sites, localVars, Threads
  <2> QED
      BY <1>21, <2>1, <2>2, <2>3 DEF GuiChangeSetting, Goto, TypeOK, MemTypes, PatchTypes,
         ReinstTypes, ControlTypes, LocalTypes, GameTypes, memVars, patchVars, reinstVars,
         localVars, gameVars
<1>22. ASSUME GuiNotify PROVE TypeOK' /\ IndexInv'
  <2>1. ControlTypes'
      BY <1>22 DEF GuiNotify, Goto, TypeOK, ControlTypes, PcLabels, Threads
  <2>2. IndexInv'
      BY <1>22 DEF GuiNotify, Goto, TypeOK, IndexInv, ControlTypes, LocalTypes, PatchTypes,
         Sites, localVars, Threads
  <2> QED
      BY <1>22, <2>1, <2>2 DEF GuiNotify, Goto, TypeOK, MemTypes, PatchTypes, ReinstTypes,
         ControlTypes, LocalTypes, GameTypes, memVars, patchVars, reinstVars, localVars,
         gameVars
<1>23. ASSUME RefiredTest PROVE TypeOK' /\ IndexInv'
  <2>1. IndexInv'
      BY <1>23 DEF RefiredTest, TypeOK, IndexInv, ControlTypes, LocalTypes, PatchTypes,
         Sites, localVars, Threads
  <2> QED
      BY <1>23, <2>1 DEF RefiredTest, TypeOK, MemTypes, PatchTypes, ReinstTypes,
         ControlTypes, LocalTypes, GameTypes, memVars, patchVars, reinstVars, localVars,
         gameVars
<1>24. ASSUME RefiredLock PROVE TypeOK' /\ IndexInv'
  <2>1. IndexInv'
      BY <1>24 DEF RefiredLock, TypeOK, IndexInv, ControlTypes, LocalTypes, PatchTypes,
         Sites, localVars, Threads
  <2> QED
      BY <1>24, <2>1 DEF RefiredLock, TypeOK, MemTypes, PatchTypes, ReinstTypes,
         ControlTypes, LocalTypes, GameTypes, memVars, patchVars, reinstVars, localVars,
         gameVars
<1>25. ASSUME SafeReassert PROVE TypeOK' /\ IndexInv'
  <2>1. mem' \in [Sites -> Versions]
      BY <1>25 DEF SafeReassert, TypeOK, MemTypes, PatchTypes, GameTypes
  <2>2. IndexInv'
      BY <1>25 DEF SafeReassert, TypeOK, IndexInv, ControlTypes, LocalTypes, PatchTypes,
         Sites, localVars, Threads
  <2> QED
      BY <1>25, <2>1, <2>2 DEF SafeReassert, TypeOK, MemTypes, PatchTypes, ReinstTypes,
         ControlTypes, LocalTypes, GameTypes, memVars, patchVars, reinstVars, localVars,
         gameVars
<1>26. ASSUME RefiredDone PROVE TypeOK' /\ IndexInv'
  <2>1. IndexInv'
      BY <1>26 DEF RefiredDone, TypeOK, IndexInv, ControlTypes, LocalTypes, PatchTypes,
         Sites, localVars, Threads
  <2> QED
      BY <1>26, <2>1 DEF RefiredDone, TypeOK, MemTypes, PatchTypes, ReinstTypes,
         ControlTypes, LocalTypes, GameTypes, memVars, patchVars, reinstVars, localVars,
         gameVars
<1>27. ASSUME GameRegistrationPass PROVE TypeOK' /\ IndexInv'
  <2>1. mem' \in [Sites -> Versions]
      BY <1>27 DEF GameRegistrationPass, TypeOK, MemTypes, LocalTypes, PatchTypes, IndexInv,
         Location, Versions
  <2>2. IndexInv'
      BY <1>27 DEF GameRegistrationPass, TypeOK, IndexInv, ControlTypes, LocalTypes,
         PatchTypes, Sites, localVars, Threads
  <2> QED
      BY <1>27, <2>1, <2>2 DEF GameRegistrationPass, TypeOK, MemTypes, PatchTypes,
         ReinstTypes, ControlTypes, LocalTypes, GameTypes, memVars, patchVars, reinstVars,
         localVars, gameVars
<1>28. ASSUME DebounceElapses PROVE TypeOK' /\ IndexInv'
  <2>1. IndexInv'
      BY <1>28 DEF DebounceElapses, TypeOK, IndexInv, ControlTypes, LocalTypes, PatchTypes,
         Sites, localVars, Threads
  <2> QED
      BY <1>28, <2>1 DEF DebounceElapses, TypeOK, MemTypes, PatchTypes, ReinstTypes,
         ControlTypes, LocalTypes, GameTypes, memVars, patchVars, reinstVars, localVars,
         gameVars
<1>29. ASSUME PageChange PROVE TypeOK' /\ IndexInv'
  <2>1. page' \in [Sites -> Pages]
      BY <1>29 DEF PageChange, TypeOK, MemTypes
  <2>2. flips' \in 0..MaxFaultFlips
      BY <1>29 DEF PageChange, TypeOK, MemTypes
  <2>3. IndexInv'
      BY <1>29 DEF PageChange, TypeOK, IndexInv, ControlTypes, LocalTypes, PatchTypes,
         Sites, localVars, Threads
  <2> QED
      BY <1>29, <2>1, <2>2, <2>3 DEF PageChange, TypeOK, MemTypes, PatchTypes, ReinstTypes,
         ControlTypes, LocalTypes, GameTypes, memVars, patchVars, reinstVars, localVars,
         gameVars
<1>30. CASE UNCHANGED vars
    BY <1>30 DEF vars, TypeOK, IndexInv, MemTypes, PatchTypes, ReinstTypes, ControlTypes,
       LocalTypes, GameTypes, memVars, patchVars, reinstVars, localVars, gameVars
<1> QED
    BY <1>1, <1>2, <1>3, <1>4, <1>5, <1>6, <1>7, <1>8, <1>9, <1>10, <1>11, <1>12, <1>13, <1>14, <1>15, <1>16, <1>17, <1>18, <1>19, <1>20, <1>21, <1>22, <1>23, <1>24, <1>25, <1>26, <1>27, <1>28, <1>29, <1>30
    DEF Next, Install, Uninstall, Hook, Gui, OnSettingsRefired, World, RollbackStep, RestoreStep

\* Type correctness: whatever the threads, the game and the pages do, no step
\* indexes a transaction outside its bounds or tracks a site that is not one.
THEOREM TypeCorrect == Spec => []TypeOK
<1> QED
    BY TypeInit, TypeStep, PTL DEF Spec

-----------------------------------------------------------------------------
\* Appending to a transaction keeps what it tracks and tracks the new site.
LEMMA TracksAppend ==
    ASSUME NEW s \in Seq(Location), NEW loc \in Location
    PROVE  /\ Tracks(Append(s, loc), Len(Append(s, loc)), loc.site)
           /\ \A a \in Sites : Tracks(s, Len(s), a) =>
                 Tracks(Append(s, loc), Len(Append(s, loc)), a)
<1>1. Len(Append(s, loc)) = Len(s) + 1 /\ Append(s, loc)[Len(s) + 1] = loc
    OBVIOUS
<1>2. \A i \in 1..Len(s) : i \in 1..(Len(s) + 1) /\ Append(s, loc)[i] = s[i]
    OBVIOUS
<1>3. Len(s) \in Nat
    OBVIOUS
<1>4. Len(s) + 1 \in 1..(Len(s) + 1)
    BY <1>3
<1> QED BY <1>1, <1>2, <1>4 DEF Tracks

LEMMA OneAtATimeInit == Init => OneAtATime
BY DEF Init, OneAtATime, Busy, Threads

LEMMA OneAtATimeStep ==
    ASSUME Serialized, TypeOK, OneAtATime, [Next]_vars
    PROVE  OneAtATime'
<1> USE DEF OneAtATime, Busy, TypeOK, ControlTypes, Threads, Goto
<1>1. ASSUME NEW t \in Threads, Install(t) PROVE OneAtATime'
    BY <1>1 DEF Install, InstallEntry, Query, WriteFailed, Push, Write, Verify, Commit, Maintain,
       Enable, RollbackLock, RollbackStep, RestoreOne, RollbackDone
<1>2. ASSUME NEW t \in Threads, Uninstall(t) PROVE OneAtATime'
    BY <1>2 DEF Uninstall, UninstallEntry, ReturnFromUninstall, Clear, RestoreLock,
       RestoreStep, RestoreOne, RestoreDone, Disable
<1>3. CASE Hook
    BY <1>3 DEF Hook, LoadFromToml, UpdateTest, UpdateConsume, Enter, MayEnter, Quiet
<1>4. CASE Gui
    BY <1>4 DEF Gui, GuiToggle, GuiChangeSetting, GuiNotify, Enter, MayEnter, Quiet
<1>5. CASE OnSettingsRefired \/ World
    BY <1>5 DEF OnSettingsRefired, RefiredTest, RefiredLock, SafeReassert, RefiredDone,
       World, GameRegistrationPass, DebounceElapses, PageChange
<1>6. CASE UNCHANGED vars
    BY <1>6 DEF vars
<1> QED BY <1>1, <1>2, <1>3, <1>4, <1>5, <1>6 DEF Next

\* While a thread is inside a call, the other is at rest.
LEMMA OtherAtRest ==
    ASSUME OneAtATime, NEW t \in Threads, NEW u \in Threads, u # t, Busy(t)
    PROVE  pc[u] \in {"idle", "notify"}
BY DEF OneAtATime, Threads, Busy

\* Steps that touch neither the patch nor a call's locals and enter no phase.
LEMMA TrackingFrame ==
    ASSUME TypeOK, TrackingInv,
           UNCHANGED <<isEnabled, patchedLocations, tx, ok, idx>>,
           \A t \in Threads : \/ pc'[t] = pc[t]
                              \/ /\ pc'[t] \notin Installing \cup Uninstalling
                                 /\ pc[t] # "disable"
    PROVE  /\ \A t \in Threads : CallTracks(t)'
           /\ isEnabled' /\ (\A t \in Threads : pc'[t] # "disable") => TracksAll(patchedLocations)'
<1>1. ASSUME NEW t \in Threads PROVE CallTracks(t)'
  <2>1. CASE pc'[t] = pc[t]
    BY <2>1 DEF TrackingInv, CallTracks, TracksAll, Tracks
  <2>2. CASE pc'[t] \notin Installing \cup Uninstalling
    BY <2>2 DEF CallTracks, Installing, Uninstalling
  <2> QED BY <2>1, <2>2
<1>2. isEnabled' /\ (\A t \in Threads : pc'[t] # "disable") => TracksAll(patchedLocations)'
  <2> SUFFICES ASSUME isEnabled', \A t \in Threads : pc'[t] # "disable"
               PROVE  TracksAll(patchedLocations)'
      OBVIOUS
  <2>1. \A t \in Threads : pc[t] # "disable"
      OBVIOUS
  <2> QED BY <2>1 DEF TrackingInv, TracksAll, Tracks
<1> QED BY <1>1, <1>2

\* What a step of a thread inside a call has to establish: the other thread is
\* at rest and its part of the invariant is vacuous.
LEMMA TrackingOfOther ==
    ASSUME TypeOK, TrackingInv, NEW t \in Threads, Busy(t),
           \A u \in Threads \ {t} : pc'[u] = pc[u],
           CallTracks(t)',
           isEnabled' /\ pc'[t] # "disable" => TracksAll(patchedLocations)'
    PROVE  /\ \A u \in Threads : CallTracks(u)'
           /\ isEnabled' /\ (\A u \in Threads : pc'[u] # "disable") => TracksAll(patchedLocations)'
<1>1. ASSUME NEW u \in Threads, u # t PROVE CallTracks(u)'
  <2>1. pc'[u] \in {"idle", "notify"}
      BY <1>1, OtherAtRest DEF TrackingInv
  <2> QED BY <2>1 DEF CallTracks, Installing, Uninstalling
<1> QED BY <1>1

LEMMA TrackingStep ==
    ASSUME Serialized, TypeOK, IndexInv, TrackingInv, [Next]_vars
    PROVE  TrackingInv'
<1> DEFINE Goal ==
        /\ \A t \in Threads : CallTracks(t)'
        /\ isEnabled' /\ (\A t \in Threads : pc'[t] # "disable") => TracksAll(patchedLocations)'
<1> SUFFICES Goal
    BY OneAtATimeStep DEF TrackingInv
<1>1. ASSUME NEW t \in Threads, InstallEntry(t) PROVE Goal
  <2> USE <1>1 DEF InstallEntry, Goto, TypeOK, ControlTypes, LocalTypes, localVars, patchVars
  <2>1. CASE isEnabled \/ \E a \in Anchors : mem[a] # 0 \/ page[a] = "unmapped"
      BY <2>1, TrackingFrame DEF Installing, Uninstalling
  <2>2. CASE ~(isEnabled \/ \E a \in Anchors : mem[a] # 0 \/ page[a] = "unmapped")
    <3>1. CallTracks(t)'
        BY <2>2 DEF CallTracks, Sites, Installing, Uninstalling
    <3>2. Busy(t) /\ ~isEnabled' /\ \A u \in Threads \ {t} : pc'[u] = pc[u]
        BY <2>2 DEF Busy
    <3> QED BY <3>1, <3>2, TrackingOfOther
  <2> QED BY <2>1, <2>2
<1>2. ASSUME NEW t \in Threads, Query(t) PROVE Goal
  <2>1. /\ pc[t] = "query" /\ ~isEnabled /\ isEnabled' = isEnabled /\ tx' = tx
        /\ pc \in [Threads -> PcLabels] /\ ok \in [Threads -> BOOLEAN] /\ idx \in [Threads -> Nat]
      BY <1>2 DEF Query, patchVars, TrackingInv, CallTracks, Installing, TypeOK,
         ControlTypes, LocalTypes
  <2>2. ok[t] => \A a \in Sites : a < idx[t] => Tracks(tx[t], Len(tx[t]), a)
      BY <2>1 DEF TrackingInv, CallTracks
  <2>3. CallTracks(t)'
    <3>1. CASE idx[t] > NumSites /\ ok[t] /\ pc' = [pc EXCEPT ![t] = "commit"]
      <4>1. \A a \in Sites : a < idx[t]
          BY <2>1, <3>1, LifecycleAssumption DEF LifecycleAssumption, Sites
      <4> QED BY <2>1, <2>2, <3>1, <4>1 DEF CallTracks, TracksAll, Installing, Uninstalling
    <3>2. CASE pc' = [pc EXCEPT ![t] = "rollbacklock"]
        BY <2>1, <3>2 DEF CallTracks, Installing, Uninstalling
    <3>3. CASE WriteFailed(t)
        BY <2>1, <3>3 DEF WriteFailed, Goto, CallTracks, Installing, Uninstalling
    <3>4. CASE UNCHANGED <<ok, idx>> /\ pc' = [pc EXCEPT ![t] = "push"]
        BY <2>1, <2>2, <3>4 DEF CallTracks, Tracks, Installing, Uninstalling
    <3> QED BY <1>2, <3>1, <3>2, <3>3, <3>4 DEF Query, Goto
  <2>4. Busy(t) /\ ~isEnabled' /\ \A u \in Threads \ {t} : pc'[u] = pc[u]
      BY <1>2, <2>1 DEF Busy, Query, WriteFailed, Goto
  <2> QED BY <2>3, <2>4, TrackingOfOther
<1>3. ASSUME NEW t \in Threads, Push(t) PROVE Goal
  <2> USE <1>3 DEF Push, Goto, TypeOK, ControlTypes, LocalTypes, patchVars
  <2> DEFINE loc == [site |-> idx[t], saved |-> saved[t]]
  <2>1. loc \in Location /\ loc.site = idx[t] /\ tx[t] \in Seq(Location) /\ tx'[t] = Append(tx[t], loc)
      BY DEF IndexInv, Location
  <2>2. \A a \in Sites : a = idx[t] \/ Tracks(tx[t], Len(tx[t]), a) => Tracks(tx[t], Len(tx[t]), a)'
      BY <2>1, TracksAppend DEF Tracks
  <2>3. CallTracks(t)'
      BY <2>2 DEF CallTracks, TrackingInv, IndexInv, Sites, Installing, Uninstalling
  <2>4. Busy(t) /\ ~isEnabled' /\ \A u \in Threads \ {t} : pc'[u] = pc[u]
      BY DEF Busy, TrackingInv, CallTracks, Installing
  <2> QED BY <2>3, <2>4, TrackingOfOther
<1>4. ASSUME NEW t \in Threads, Write(t) PROVE Goal
  <2>1. /\ pc[t] = "write" /\ ~isEnabled /\ isEnabled' = isEnabled /\ tx' = tx
        /\ pc \in [Threads -> PcLabels] /\ ok \in [Threads -> BOOLEAN] /\ idx \in [Threads -> Nat]
      BY <1>4 DEF Write, patchVars, TrackingInv, CallTracks, Installing, TypeOK,
         ControlTypes, LocalTypes
  <2>2. ok[t] => \A a \in Sites : a <= idx[t] => Tracks(tx[t], Len(tx[t]), a)
      BY <2>1 DEF TrackingInv, CallTracks
  <2>3. CallTracks(t)'
    <3>1. CASE WriteFailed(t)
        BY <2>1, <3>1 DEF WriteFailed, Goto, CallTracks, Installing, Uninstalling
    <3>2. CASE UNCHANGED <<ok, idx>> /\ pc' = [pc EXCEPT ![t] = "verify"]
        BY <2>1, <2>2, <3>2 DEF CallTracks, Tracks, Installing, Uninstalling
    <3> QED BY <1>4, <3>1, <3>2 DEF Write, Goto
  <2>4. Busy(t) /\ ~isEnabled' /\ \A u \in Threads \ {t} : pc'[u] = pc[u]
      BY <1>4, <2>1 DEF Busy, Write, WriteFailed, Goto
  <2> QED BY <2>3, <2>4, TrackingOfOther
<1>5. ASSUME NEW t \in Threads, Verify(t) PROVE Goal
  <2>1. /\ pc[t] = "verify" /\ ~isEnabled /\ isEnabled' = isEnabled /\ tx' = tx
        /\ pc \in [Threads -> PcLabels] /\ ok \in [Threads -> BOOLEAN] /\ idx \in [Threads -> Nat]
        /\ pc' = [pc EXCEPT ![t] = "query"]
        /\ idx' = [idx EXCEPT ![t] = @ + 1]
        /\ ok'[t] => ok[t]
      BY <1>5 DEF Verify, Goto, patchVars, TrackingInv, CallTracks, Installing, TypeOK,
         ControlTypes, LocalTypes
  <2>2. ok[t] => \A a \in Sites : a <= idx[t] => Tracks(tx[t], Len(tx[t]), a)
      BY <2>1 DEF TrackingInv, CallTracks
  <2>3. CallTracks(t)'
    <3>1. \A a \in Sites : a < idx'[t] => a <= idx[t]
        BY <2>1, LifecycleAssumption DEF LifecycleAssumption, Sites
    <3> QED BY <2>1, <2>2, <3>1 DEF CallTracks, Tracks, Installing, Uninstalling
  <2>4. Busy(t) /\ ~isEnabled' /\ \A u \in Threads \ {t} : pc'[u] = pc[u]
      BY <2>1 DEF Busy
  <2> QED BY <2>3, <2>4, TrackingOfOther
<1>6. ASSUME NEW t \in Threads, Commit(t) PROVE Goal
  <2>1. /\ pc[t] = "commit" /\ ~isEnabled /\ TracksAll(tx[t]) /\ pc \in [Threads -> PcLabels]
      BY <1>6 DEF Commit, TrackingInv, CallTracks, Installing, TypeOK, ControlTypes
  <2>2. CallTracks(t)'
      BY <1>6, <2>1 DEF Commit, Goto, CallTracks, TracksAll, Tracks, Installing, Uninstalling
  <2>3. Busy(t) /\ ~isEnabled' /\ \A u \in Threads \ {t} : pc'[u] = pc[u]
      BY <1>6, <2>1 DEF Commit, Goto, Busy
  <2> QED BY <2>2, <2>3, TrackingOfOther
<1>7. ASSUME NEW t \in Threads, Maintain(t) PROVE Goal
  <2>1. /\ pc[t] = "maintain" /\ ~isEnabled /\ TracksAll(patchedLocations)
        /\ pc \in [Threads -> PcLabels]
      BY <1>7 DEF Maintain, TrackingInv, CallTracks, Installing, TypeOK, ControlTypes
  <2>2. CallTracks(t)'
      BY <1>7, <2>1 DEF Maintain, Goto, CallTracks, TracksAll, Tracks, Installing, Uninstalling
  <2>3. Busy(t) /\ ~isEnabled' /\ \A u \in Threads \ {t} : pc'[u] = pc[u]
      BY <1>7, <2>1 DEF Maintain, Goto, Busy
  <2> QED BY <2>2, <2>3, TrackingOfOther
<1>8. ASSUME NEW t \in Threads, Enable(t) PROVE Goal
  <2>1. pc[t] = "enable" /\ TracksAll(patchedLocations) /\ pc \in [Threads -> PcLabels]
      BY <1>8 DEF Enable, TrackingInv, CallTracks, TypeOK, ControlTypes
  <2>2. CallTracks(t)' /\ TracksAll(patchedLocations)'
      BY <1>8, <2>1 DEF Enable, Goto, CallTracks, TracksAll, Tracks, Installing, Uninstalling
  <2>3. Busy(t) /\ \A u \in Threads \ {t} : pc'[u] = pc[u]
      BY <1>8, <2>1 DEF Enable, Goto, Busy
  <2> QED BY <2>2, <2>3, TrackingOfOther
<1>9. ASSUME NEW t \in Threads, RollbackLock(t) \/ RollbackStep(t) \/ RollbackDone(t) PROVE Goal
  <2>1. /\ pc[t] \in {"rollbacklock", "rollback"} /\ ~isEnabled /\ isEnabled' = isEnabled
        /\ pc \in [Threads -> PcLabels]
        /\ \/ pc' = [pc EXCEPT ![t] = "rollback"]
           \/ pc' = [pc EXCEPT ![t] = "idle"]
           \/ pc' = pc /\ pc[t] = "rollback"
      BY <1>9 DEF RollbackLock, RollbackStep, RestoreOne, RollbackDone, Goto, patchVars,
         TrackingInv, CallTracks, Installing, TypeOK, ControlTypes
  <2>2. CallTracks(t)'
      BY <2>1 DEF CallTracks, Installing, Uninstalling
  <2>3. Busy(t) /\ ~isEnabled' /\ \A u \in Threads \ {t} : pc'[u] = pc[u]
      BY <2>1 DEF Busy
  <2> QED BY <2>2, <2>3, TrackingOfOther
<1>10. ASSUME NEW t \in Threads, UninstallEntry(t) PROVE Goal
  <2>1. CASE isEnabled
    <3>1. pc[t] = "uninstall" /\ TracksAll(patchedLocations)
      <4>1. pc[t] = "uninstall"
          BY <1>10 DEF UninstallEntry
      <4>2. \A u \in Threads : pc[u] # "disable"
          BY <4>1, OtherAtRest DEF TrackingInv, Busy
      <4> QED BY <2>1, <4>1, <4>2 DEF TrackingInv
    <3>2. CallTracks(t)' /\ TracksAll(patchedLocations)'
        BY <1>10, <2>1, <3>1 DEF UninstallEntry, Goto, patchVars, TypeOK, ControlTypes, CallTracks,
           TracksAll, Tracks, Installing, Uninstalling
    <3>3. Busy(t) /\ \A u \in Threads \ {t} : pc'[u] = pc[u]
        BY <1>10, <2>1 DEF UninstallEntry, Goto, Busy, TypeOK, ControlTypes
    <3> QED BY <3>2, <3>3, TrackingOfOther
  <2>2. CASE ~isEnabled
      BY <1>10, <2>2, TrackingFrame DEF UninstallEntry, ReturnFromUninstall, Goto, patchVars,
         localVars, TypeOK, ControlTypes, Installing, Uninstalling
  <2> QED BY <2>1, <2>2
<1>11. ASSUME NEW t \in Threads, Clear(t) \/ RestoreLock(t) \/ RestoreStep(t) PROVE Goal
  <2>1. /\ pc[t] \in {"clear", "lock", "restore"} /\ isEnabled /\ isEnabled' = isEnabled
        /\ pc \in [Threads -> PcLabels] /\ patchedLocations' = patchedLocations
        /\ \/ pc' = [pc EXCEPT ![t] = "lock"]
           \/ pc' = [pc EXCEPT ![t] = "restore"]
           \/ pc' = pc
      BY <1>11 DEF Clear, RestoreLock, RestoreStep, RestoreOne, Goto, patchVars,
         TrackingInv, CallTracks, Uninstalling, TypeOK, ControlTypes
  <2>2. \A u \in Threads : pc[u] # "disable"
      BY <2>1, OtherAtRest DEF TrackingInv, Busy
  <2>3. TracksAll(patchedLocations)'
      BY <2>1, <2>2 DEF TrackingInv, TracksAll, Tracks
  <2>4. CallTracks(t)'
      BY <2>1 DEF CallTracks, Installing, Uninstalling
  <2>5. Busy(t) /\ \A u \in Threads \ {t} : pc'[u] = pc[u]
      BY <2>1 DEF Busy
  <2> QED BY <2>3, <2>4, <2>5, TrackingOfOther
<1>12. ASSUME NEW t \in Threads, RestoreDone(t) PROVE Goal
  <2>1. pc[t] = "restore" /\ isEnabled /\ isEnabled' = isEnabled /\ pc \in [Threads -> PcLabels]
      BY <1>12 DEF RestoreDone, TrackingInv, CallTracks, Uninstalling, TypeOK, ControlTypes
  <2>2. \A u \in Threads : pc[u] # "disable"
      BY <2>1, OtherAtRest DEF TrackingInv, Busy
  <2>3. \/ pc' = [pc EXCEPT ![t] = "disable"]
        \/ /\ patchedLocations' = patchedLocations
           /\ pc' = [pc EXCEPT ![t] = "install"] \/ pc' = [pc EXCEPT ![t] = "idle"]
      BY <1>12 DEF RestoreDone, Goto, ReturnFromUninstall
  <2>4. pc'[t] # "disable" => TracksAll(patchedLocations)'
      BY <2>1, <2>2, <2>3 DEF TrackingInv, TracksAll, Tracks
  <2>5. CallTracks(t)'
      BY <2>1, <2>3 DEF CallTracks, Installing, Uninstalling
  <2>6. Busy(t) /\ \A u \in Threads \ {t} : pc'[u] = pc[u]
      BY <2>1, <2>3 DEF Busy
  <2> QED BY <2>4, <2>5, <2>6, TrackingOfOther
<1>13. ASSUME NEW t \in Threads, Disable(t) PROVE Goal
  <2>1. /\ pc[t] = "disable" /\ ~isEnabled' /\ pc \in [Threads -> PcLabels]
        /\ pc' = [pc EXCEPT ![t] = "install"] \/ pc' = [pc EXCEPT ![t] = "idle"]
      BY <1>13 DEF Disable, Goto, ReturnFromUninstall, TypeOK, ControlTypes
  <2>2. CallTracks(t)'
      BY <2>1 DEF CallTracks, Installing, Uninstalling
  <2>3. Busy(t) /\ \A u \in Threads \ {t} : pc'[u] = pc[u]
      BY <2>1 DEF Busy
  <2> QED BY <2>1, <2>2, <2>3, TrackingOfOther
<1>14. CASE Hook
    BY <1>14, TrackingFrame DEF Hook, LoadFromToml, UpdateTest, UpdateConsume, Enter, MayEnter,
       Quiet, Goto, patchVars, localVars, TypeOK, ControlTypes, Installing, Uninstalling
<1>15. CASE Gui
    BY <1>15, TrackingFrame DEF Gui, GuiToggle, GuiChangeSetting, GuiNotify, Enter, MayEnter,
       Quiet, Goto, patchVars, localVars, TypeOK, ControlTypes, Installing, Uninstalling
<1>16. CASE OnSettingsRefired \/ World
    BY <1>16, TrackingFrame DEF OnSettingsRefired, RefiredTest, RefiredLock, SafeReassert,
       RefiredDone, World, GameRegistrationPass, DebounceElapses, PageChange, patchVars, localVars
<1>17. CASE UNCHANGED vars
    BY <1>17, TrackingFrame DEF vars, patchVars, localVars
<1> QED
    BY <1>1, <1>2, <1>3, <1>4, <1>5, <1>6, <1>7, <1>8, <1>9, <1>10, <1>11, <1>12,
       <1>13, <1>14, <1>15, <1>16, <1>17
    DEF Next, Install, Uninstall

LEMMA TrackingInit == Init => TrackingInv
BY OneAtATimeInit DEF Init, TrackingInv, CallTracks, Installing, Uninstalling

\* A patch that stays enabled can still be undone, on any number of pages that
\* turn read-only or vanish at any time, provided calls do not overlap.
THEOREM FailedUninstallCanBeRetried ==
    ASSUME Serialized PROVE Spec => []EnabledCanBeUndone
<1>1. TypeOK /\ TrackingInv => EnabledCanBeUndone
  <2> SUFFICES ASSUME TypeOK, TrackingInv, Quiet, isEnabled
               PROVE  \A a \in Sites : \E i \in DOMAIN patchedLocations : patchedLocations[i].site = a
      BY DEF EnabledCanBeUndone
  <2>1. TracksAll(patchedLocations)
      BY DEF TrackingInv, Quiet
  <2>2. DOMAIN patchedLocations = 1..Len(patchedLocations)
      BY DEF TypeOK, PatchTypes
  <2> QED BY <2>1, <2>2 DEF TracksAll, Tracks
<1>2. TypeOK /\ IndexInv /\ TrackingInv /\ [Next]_vars => TypeOK' /\ IndexInv' /\ TrackingInv'
    BY TypeStep, TrackingStep
<1> QED
    BY <1>1, <1>2, TypeInit, TrackingInit, PTL DEF Spec

-----------------------------------------------------------------------------
LEMMA CleanInit == Init => CleanInv
BY DEF Init, CleanInv, CallIsClean, Installing, Uninstalling, Pristine, NothingMaintained,
   SavedPristine

\* Steps that leave the patch, the transactions and the pages alone, enter no
\* phase of a call, and at most put bytes of the game back.
LEMMA CleanFrame ==
    ASSUME TypeOK, CleanInv,
           UNCHANGED <<page, isEnabled, patchedLocations, maintainedWrites, tx, idx, saved>>,
           \A a \in Sites : mem'[a] = mem[a] \/ mem'[a] = 0,
           \A t \in Threads : \/ pc'[t] = pc[t]
                              \/ /\ pc[t] \notin Installing \cup Uninstalling
                                 /\ pc'[t] \notin Installing \cup Uninstalling,
           \A a \in gameTodo' : gamePc' = "reasserting" /\ maintainedWrites'[a] # 0
    PROVE  CleanInv'
<1>1. \A a \in Sites : mem'[a] # 0 => mem[a] # 0
    OBVIOUS
<1>2. ASSUME NEW t \in Threads PROVE CallIsClean(t)'
  <2>1. CASE pc'[t] = pc[t]
      BY <1>1, <2>1 DEF CleanInv, CallIsClean, DirtyTracked, Tracks, Pristine, NothingMaintained
  <2>2. CASE pc'[t] \notin Installing \cup Uninstalling
      BY <2>2 DEF CallIsClean, Installing, Uninstalling
  <2> QED BY <2>1, <2>2
<1>3. ~isEnabled' /\ (\A t \in Threads : pc'[t] \notin Installing) =>
          Pristine' /\ NothingMaintained'
    BY <1>1 DEF CleanInv, Pristine, NothingMaintained
<1> QED BY <1>1, <1>2, <1>3 DEF CleanInv, SavedPristine

\* A step of a thread inside a call that leaves the game thread alone.
LEMMA CleanOfOther ==
    ASSUME TypeOK, TrackingInv, CleanInv, NEW t \in Threads, Busy(t),
           \A u \in Threads \ {t} : pc'[u] = pc[u],
           UNCHANGED <<page, gamePc, gameTodo>>,
           \A a \in Sites : mem'[a] # 0 => page[a] = "fine",
           maintainedWrites' = maintainedWrites \/ MaintainedMutexFree,
           SavedPristine(patchedLocations)',
           \A u \in Threads : SavedPristine(tx[u])',
           CallIsClean(t)',
           ~isEnabled' /\ pc'[t] \notin Installing => Pristine' /\ NothingMaintained'
    PROVE  CleanInv'
<1>1. ASSUME NEW u \in Threads, u # t PROVE CallIsClean(u)'
  <2>1. pc'[u] \in {"idle", "notify"}
      BY <1>1, OtherAtRest DEF TrackingInv
  <2> QED BY <2>1 DEF CallIsClean, Installing, Uninstalling
<1>2. \A a \in gameTodo' : gamePc' = "reasserting" /\ maintainedWrites'[a] # 0
    BY DEF CleanInv, MaintainedMutexFree
<1> QED BY <1>1, <1>2 DEF CleanInv

LEMMA CleanStep ==
    ASSUME Serialized, MaxFaultFlips = 0,
           TypeOK, IndexInv, TrackingInv, CleanInv, [Next]_vars
    PROVE  CleanInv'
<1> USE DEF TypeOK, ControlTypes, LocalTypes
<1>1. ASSUME NEW t \in Threads, InstallEntry(t) PROVE CleanInv'
  <2> USE <1>1 DEF InstallEntry, Goto, memVars, patchVars, gameVars, localVars
  <2>1. CASE isEnabled \/ \E a \in Anchors : mem[a] # 0 \/ page[a] = "unmapped"
      BY <2>1, CleanFrame DEF Installing, Uninstalling, CleanInv
  <2>2. CASE ~(isEnabled \/ \E a \in Anchors : mem[a] # 0 \/ page[a] = "unmapped")
    <3>1. Busy(t) /\ pc[t] \notin Installing /\ \A u \in Threads \ {t} : pc'[u] = pc[u]
        BY <2>2 DEF Busy, Installing
    <3>2. \A u \in Threads : pc[u] \notin Installing
        BY <3>1, OtherAtRest DEF TrackingInv, Installing
    <3>3. Pristine /\ NothingMaintained
        BY <2>2, <3>2 DEF CleanInv
    <3>4. CallIsClean(t)'
        BY <2>2, <3>3 DEF CallIsClean, Pristine, NothingMaintained, DirtyTracked, Installing, Uninstalling
    <3>5. \A u \in Threads : SavedPristine(tx[u])'
      <4>1. tx' = [tx EXCEPT ![t] = <<>>]
          BY <2>2
      <4> QED BY <4>1 DEF CleanInv, SavedPristine
    <3>6. SavedPristine(patchedLocations)'
        BY <2>2 DEF CleanInv, SavedPristine
    <3>7. pc'[t] \in Installing /\ mem' = mem /\ UNCHANGED <<page, gamePc, gameTodo, maintainedWrites>>
        BY <2>2 DEF Installing
    <3> QED BY <3>1, <3>4, <3>5, <3>6, <3>7, CleanOfOther DEF CleanInv
  <2> QED BY <2>1, <2>2
<1>2. ASSUME NEW t \in Threads, Query(t) PROVE CleanInv'
  <2>1. /\ pc[t] = "query" /\ mem' = mem /\ tx' = tx
        /\ UNCHANGED <<page, gamePc, gameTodo, maintainedWrites, patchedLocations>>
      BY <1>2 DEF Query, memVars, patchVars, gameVars
  <2>2. /\ \A a \in Sites : a >= idx[t] => mem[a] = 0
        /\ DirtyTracked(tx[t], Len(tx[t])) /\ NothingMaintained
      BY <2>1 DEF CleanInv, CallIsClean, Installing
  <2>3. CallIsClean(t)' /\ pc'[t] \in Installing
    <3>1. CASE pc' = [pc EXCEPT ![t] = "commit"]
        BY <2>1, <2>2, <3>1 DEF CallIsClean, NothingMaintained, Installing
    <3>2. CASE pc' = [pc EXCEPT ![t] = "rollbacklock"]
        BY <2>1, <2>2, <3>2 DEF CallIsClean, NothingMaintained, DirtyTracked, Tracks, Installing
    <3>3. CASE WriteFailed(t)
      <4>1. \A a \in Sites : a >= idx[t] + 1 => a >= idx[t]
          BY DEF Sites
      <4> QED BY <2>1, <2>2, <3>3, <4>1 DEF WriteFailed, Goto, CallIsClean, NothingMaintained,
                 DirtyTracked, Tracks, Installing
    <3>4. CASE /\ idx[t] <= NumSites /\ idx' = idx /\ saved' = [saved EXCEPT ![t] = mem[idx[t]]]
               /\ pc' = [pc EXCEPT ![t] = "push"]
      <4>1. mem[idx[t]] = 0
          BY <2>1, <2>2, <3>4, LifecycleAssumption DEF LifecycleAssumption, IndexInv, Sites
      <4> QED BY <2>1, <2>2, <3>4, <4>1 DEF CallIsClean, NothingMaintained, DirtyTracked,
                 Tracks, Installing
    <3> QED BY <1>2, <3>1, <3>2, <3>3, <3>4 DEF Query, Goto
  <2>4. Busy(t) /\ \A u \in Threads \ {t} : pc'[u] = pc[u]
      BY <1>2, <2>1 DEF Busy, Query, WriteFailed, Goto
  <2>5. SavedPristine(patchedLocations)' /\ \A u \in Threads : SavedPristine(tx[u])'
      BY <2>1 DEF CleanInv, SavedPristine
  <2> QED BY <2>1, <2>3, <2>4, <2>5, CleanOfOther DEF CleanInv
<1>3. ASSUME NEW t \in Threads, Push(t) PROVE CleanInv'
  <2> DEFINE loc == [site |-> idx[t], saved |-> saved[t]]
  <2>1. /\ pc[t] = "push" /\ pc' = [pc EXCEPT ![t] = "write"] /\ mem' = mem /\ idx' = idx
        /\ tx' = [tx EXCEPT ![t] = Append(@, loc)]
        /\ UNCHANGED <<page, gamePc, gameTodo, maintainedWrites, patchedLocations>>
      BY <1>3 DEF Push, Goto, memVars, patchVars, gameVars
  <2>2. /\ \A a \in Sites : a >= idx[t] => mem[a] = 0
        /\ DirtyTracked(tx[t], Len(tx[t])) /\ NothingMaintained /\ saved[t] = 0
      BY <2>1 DEF CleanInv, CallIsClean, Installing
  <2>3. loc \in Location /\ loc.site = idx[t] /\ loc.saved = 0 /\ tx[t] \in Seq(Location)
      BY <2>1, <2>2 DEF IndexInv, Location
  <2>4. tx'[t] = Append(tx[t], loc) /\ idx'[t] = idx[t]
      BY <2>1
  <2>5. \A a \in Sites : a = idx[t] \/ Tracks(tx[t], Len(tx[t]), a) => Tracks(tx[t], Len(tx[t]), a)'
    <3>1. \A a \in Sites : a = idx[t] \/ Tracks(tx[t], Len(tx[t]), a) =>
              Tracks(Append(tx[t], loc), Len(Append(tx[t], loc)), a)
        BY <2>3, TracksAppend
    <3> QED BY <2>4, <3>1 DEF Tracks
  <2>6. idx[t] \in Sites
      BY <2>1 DEF IndexInv
  <2>7. Tracks(tx[t], Len(tx[t]), idx[t])'
      BY <2>1, <2>5, <2>6 DEF Tracks
  <2>8. CallIsClean(t)' /\ pc'[t] \in Installing
      BY <2>1, <2>2, <2>5, <2>7 DEF CallIsClean, NothingMaintained, DirtyTracked, Installing
  <2>9. SavedPristine(tx[t])'
      BY <2>1, <2>3 DEF CleanInv, SavedPristine
  <2>10. SavedPristine(patchedLocations)' /\ \A u \in Threads : SavedPristine(tx[u])'
      BY <2>1, <2>9 DEF CleanInv, SavedPristine
  <2>11. Busy(t) /\ \A u \in Threads \ {t} : pc'[u] = pc[u]
      BY <2>1 DEF Busy
  <2> QED BY <2>1, <2>8, <2>10, <2>11, CleanOfOther DEF CleanInv
<1>4. ASSUME NEW t \in Threads, Write(t) PROVE CleanInv'
  <2>1. /\ pc[t] = "write" /\ tx' = tx
        /\ UNCHANGED <<page, gamePc, gameTodo, maintainedWrites, patchedLocations>>
      BY <1>4 DEF Write, memVars, patchVars, gameVars
  <2>2. /\ \A a \in Sites : a >= idx[t] => mem[a] = 0
        /\ DirtyTracked(tx[t], Len(tx[t])) /\ NothingMaintained
        /\ Tracks(tx[t], Len(tx[t]), idx[t])
      BY <2>1 DEF CleanInv, CallIsClean, Installing
  <2>3. /\ CallIsClean(t)' /\ pc'[t] \in Installing
        /\ \A a \in Sites : mem'[a] # 0 => page[a] = "fine"
    <3>1. CASE WriteFailed(t) /\ mem' = mem
      <4>1. \A a \in Sites : a >= idx[t] + 1 => a >= idx[t]
          BY DEF Sites
      <4> QED BY <2>1, <2>2, <3>1, <4>1 DEF WriteFailed, Goto, CallIsClean, NothingMaintained,
                 DirtyTracked, Tracks, Installing, CleanInv
    <3>2. CASE /\ page[idx[t]] = "fine" /\ mem' = [mem EXCEPT ![idx[t]] = ver[t]]
               /\ idx' = idx /\ pc' = [pc EXCEPT ![t] = "verify"]
      <4>1. \A a \in Sites : a # idx[t] => mem'[a] = mem[a]
          BY <3>2 DEF MemTypes
      <4>2. \A a \in Sites : a > idx[t] => a >= idx[t] /\ a # idx[t]
          BY DEF Sites
      <4> QED BY <2>1, <2>2, <3>2, <4>1, <4>2 DEF CallIsClean, NothingMaintained,
                 DirtyTracked, Tracks, Installing, CleanInv
    <3> QED BY <1>4, <3>1, <3>2 DEF Write, Goto
  <2>4. Busy(t) /\ \A u \in Threads \ {t} : pc'[u] = pc[u]
      BY <1>4, <2>1 DEF Busy, Write, WriteFailed, Goto
  <2>5. SavedPristine(patchedLocations)' /\ \A u \in Threads : SavedPristine(tx[u])'
      BY <2>1 DEF CleanInv, SavedPristine
  <2> QED BY <2>1, <2>3, <2>4, <2>5, CleanOfOther
<1>5. ASSUME NEW t \in Threads, Verify(t) PROVE CleanInv'
  <2>1. /\ pc[t] = "verify" /\ pc' = [pc EXCEPT ![t] = "query"] /\ mem' = mem /\ tx' = tx
        /\ idx' = [idx EXCEPT ![t] = @ + 1]
        /\ UNCHANGED <<page, gamePc, gameTodo, maintainedWrites, patchedLocations>>
      BY <1>5 DEF Verify, Goto, memVars, patchVars, gameVars
  <2>2. /\ \A a \in Sites : a > idx[t] => mem[a] = 0
        /\ DirtyTracked(tx[t], Len(tx[t])) /\ NothingMaintained
      BY <2>1 DEF CleanInv, CallIsClean, Installing
  <2>3. CallIsClean(t)' /\ pc'[t] \in Installing
    <3>1. \A a \in Sites : a >= idx'[t] => a > idx[t]
        BY <2>1 DEF Sites
    <3> QED BY <2>1, <2>2, <3>1 DEF CallIsClean, NothingMaintained, DirtyTracked, Tracks, Installing
  <2>4. Busy(t) /\ \A u \in Threads \ {t} : pc'[u] = pc[u]
      BY <2>1 DEF Busy
  <2>5. SavedPristine(patchedLocations)' /\ \A u \in Threads : SavedPristine(tx[u])'
      BY <2>1 DEF CleanInv, SavedPristine
  <2> QED BY <2>1, <2>3, <2>4, <2>5, CleanOfOther DEF CleanInv
<1>6. ASSUME NEW t \in Threads, Commit(t) PROVE CleanInv'
  <2>1. /\ pc[t] = "commit" /\ pc' = [pc EXCEPT ![t] = "maintain"] /\ mem' = mem /\ tx' = tx
        /\ UNCHANGED <<page, gamePc, gameTodo, maintainedWrites>> /\ patchedLocations' = tx[t]
      BY <1>6 DEF Commit, Goto, memVars, gameVars, localVars
  <2>2. CallIsClean(t)' /\ pc'[t] \in Installing
      BY <2>1 DEF CleanInv, CallIsClean, NothingMaintained, Installing
  <2>3. Busy(t) /\ \A u \in Threads \ {t} : pc'[u] = pc[u]
      BY <2>1 DEF Busy
  <2>4. SavedPristine(patchedLocations)' /\ \A u \in Threads : SavedPristine(tx[u])'
      BY <2>1 DEF CleanInv, SavedPristine
  <2> QED BY <2>1, <2>2, <2>3, <2>4, CleanOfOther DEF CleanInv
<1>7. ASSUME NEW t \in Threads, Maintain(t) \/ Enable(t) PROVE CleanInv'
  <2>1. /\ pc[t] \in {"maintain", "enable"} /\ mem' = mem /\ tx' = tx
        /\ \/ pc' = [pc EXCEPT ![t] = "enable"]
           \/ pc' = [pc EXCEPT ![t] = "idle"] /\ isEnabled'
        /\ UNCHANGED <<page, gamePc, gameTodo, patchedLocations>>
        /\ maintainedWrites' = maintainedWrites \/ MaintainedMutexFree
      BY <1>7 DEF Maintain, Enable, Goto, memVars, gameVars, localVars
  <2>2. CallIsClean(t)' /\ (isEnabled' \/ pc'[t] \in Installing)
      BY <2>1 DEF CallIsClean, Installing, Uninstalling
  <2>3. Busy(t) /\ \A u \in Threads \ {t} : pc'[u] = pc[u]
      BY <2>1 DEF Busy
  <2>4. SavedPristine(patchedLocations)' /\ \A u \in Threads : SavedPristine(tx[u])'
      BY <2>1 DEF CleanInv, SavedPristine
  <2> QED BY <2>1, <2>2, <2>3, <2>4, CleanOfOther DEF CleanInv
<1>8. ASSUME NEW t \in Threads, RollbackLock(t) PROVE CleanInv'
  <2>1. /\ pc[t] = "rollbacklock" /\ mem' = mem /\ tx' = tx
        /\ UNCHANGED <<page, gamePc, gameTodo, maintainedWrites, patchedLocations>>
        /\ \/ tx[t] = <<>> /\ pc' = [pc EXCEPT ![t] = "idle"]
           \/ pc' = [pc EXCEPT ![t] = "rollback"] /\ idx' = [idx EXCEPT ![t] = Len(tx[t])]
      BY <1>8 DEF RollbackLock, Goto, memVars, patchVars, gameVars
  <2>2. DirtyTracked(tx[t], Len(tx[t])) /\ NothingMaintained
      BY <2>1 DEF CleanInv, CallIsClean, Installing
  <2>3. CallIsClean(t)'
      BY <2>1, <2>2 DEF CallIsClean, NothingMaintained, DirtyTracked, Tracks, Installing, Uninstalling
  <2>4. pc'[t] \notin Installing => Pristine' /\ NothingMaintained'
    <3>1. CASE tx[t] = <<>>
        BY <2>1, <2>2, <3>1 DEF DirtyTracked, Tracks, Pristine, NothingMaintained
    <3>2. CASE pc' = [pc EXCEPT ![t] = "rollback"]
        BY <3>2 DEF Installing
    <3> QED BY <2>1, <3>1, <3>2
  <2>5. Busy(t) /\ \A u \in Threads \ {t} : pc'[u] = pc[u]
      BY <2>1 DEF Busy
  <2>6. SavedPristine(patchedLocations)' /\ \A u \in Threads : SavedPristine(tx[u])'
      BY <2>1 DEF CleanInv, SavedPristine
  <2> QED BY <2>1, <2>3, <2>4, <2>5, <2>6, CleanOfOther DEF CleanInv
<1>9. ASSUME NEW t \in Threads, RollbackStep(t) \/ RestoreStep(t) PROVE CleanInv'
  <2> DEFINE loc == tx[t][idx[t]]
  <2>1. /\ pc[t] \in {"rollback", "restore"} /\ pc' = pc /\ tx' = tx
        /\ UNCHANGED <<page, isEnabled, gamePc, gameTodo, maintainedWrites, patchedLocations>>
        /\ idx[t] > 0 /\ idx' = [idx EXCEPT ![t] = @ - 1]
        /\ mem' = IF page[loc.site] = "fine" THEN [mem EXCEPT ![loc.site] = loc.saved] ELSE mem
      BY <1>9 DEF RollbackStep, RestoreStep, RestoreOne, patchVars, gameVars
  <2>2. DirtyTracked(tx[t], idx[t]) /\ NothingMaintained
      BY <2>1 DEF CleanInv, CallIsClean, Installing, Uninstalling
  <2>3. idx[t] \in 1..Len(tx[t]) /\ loc.saved = 0
      BY <2>1 DEF IndexInv, CleanInv, SavedPristine
  <2>4. \A a \in Sites : mem'[a] = mem[a] \/ mem'[a] = 0
      BY <2>1, <2>3 DEF MemTypes
  <2>5. \A a \in Sites : mem'[a] # 0 => a # loc.site
      BY <2>1, <2>3 DEF CleanInv, MemTypes
  <2>6. ASSUME NEW a \in Sites, mem'[a] # 0
        PROVE  \E i \in 1..(idx[t] - 1) : tx[t][i].site = a
    <3>1. PICK i \in 1..idx[t] : tx[t][i].site = a
        BY <2>2, <2>4, <2>6 DEF DirtyTracked, Tracks
    <3>2. i # idx[t]
        BY <2>5, <2>6, <3>1
    <3> QED BY <2>3, <3>1, <3>2
  <2>7. idx'[t] = idx[t] - 1 /\ tx'[t] = tx[t] /\ pc'[t] = pc[t]
      BY <2>1
  <2>8. DirtyTracked(tx[t], idx[t])'
      BY <2>6, <2>7 DEF DirtyTracked, Tracks
  <2>9. CallIsClean(t)'
      BY <2>1, <2>2, <2>7, <2>8 DEF CallIsClean, NothingMaintained
  <2>10. ~isEnabled' /\ pc'[t] \notin Installing => Pristine' /\ NothingMaintained'
      BY <2>1 DEF TrackingInv, CallTracks, Installing, Uninstalling
  <2>11. Busy(t) /\ \A u \in Threads \ {t} : pc'[u] = pc[u]
      BY <2>1 DEF Busy
  <2>12. SavedPristine(patchedLocations)' /\ \A u \in Threads : SavedPristine(tx[u])'
      BY <2>1 DEF CleanInv, SavedPristine
  <2>13. \A a \in Sites : mem'[a] # 0 => page[a] = "fine"
      BY <2>4 DEF CleanInv
  <2> QED BY <2>1, <2>9, <2>10, <2>11, <2>12, <2>13, CleanOfOther
<1>10. ASSUME NEW t \in Threads, RollbackDone(t) PROVE CleanInv'
  <2>1. /\ pc[t] = "rollback" /\ idx[t] = 0 /\ pc' = [pc EXCEPT ![t] = "idle"]
        /\ mem' = mem /\ tx' = tx
        /\ UNCHANGED <<page, gamePc, gameTodo, maintainedWrites, patchedLocations>>
      BY <1>10 DEF RollbackDone, Goto, memVars, patchVars, gameVars, localVars
  <2>2. Pristine' /\ NothingMaintained'
    <3>1. DirtyTracked(tx[t], 0) /\ NothingMaintained
        BY <2>1 DEF CleanInv, CallIsClean, Installing
    <3> QED BY <2>1, <3>1 DEF DirtyTracked, Tracks, Pristine, NothingMaintained
  <2>3. CallIsClean(t)'
      BY <2>1 DEF CallIsClean, Installing, Uninstalling
  <2>4. Busy(t) /\ \A u \in Threads \ {t} : pc'[u] = pc[u]
      BY <2>1 DEF Busy
  <2>5. SavedPristine(patchedLocations)' /\ \A u \in Threads : SavedPristine(tx[u])'
      BY <2>1 DEF CleanInv, SavedPristine
  <2> QED BY <2>1, <2>2, <2>3, <2>4, <2>5, CleanOfOther DEF CleanInv
<1>11. ASSUME NEW t \in Threads, UninstallEntry(t) PROVE CleanInv'
  <2>1. CASE isEnabled
    <3>1. /\ pc[t] = "uninstall" /\ pc' = [pc EXCEPT ![t] = "clear"] /\ mem' = mem /\ tx' = tx
          /\ isEnabled' = isEnabled
          /\ UNCHANGED <<page, gamePc, gameTodo, maintainedWrites, patchedLocations>>
        BY <1>11, <2>1 DEF UninstallEntry, Goto, memVars, patchVars, gameVars, localVars
    <3>2. CallIsClean(t)'
        BY <3>1 DEF CallIsClean, Installing, Uninstalling
    <3>3. Busy(t) /\ \A u \in Threads \ {t} : pc'[u] = pc[u]
        BY <3>1 DEF Busy
    <3>4. SavedPristine(patchedLocations)' /\ \A u \in Threads : SavedPristine(tx[u])'
        BY <3>1 DEF CleanInv, SavedPristine
    <3> QED BY <2>1, <3>1, <3>2, <3>3, <3>4, CleanOfOther DEF CleanInv
  <2>2. CASE ~isEnabled
      BY <1>11, <2>2, CleanFrame DEF UninstallEntry, ReturnFromUninstall, Goto, memVars, patchVars,
         gameVars, localVars, Installing, Uninstalling, CleanInv
  <2> QED BY <2>1, <2>2
<1>12. ASSUME NEW t \in Threads, Clear(t) PROVE CleanInv'
  <2>1. /\ pc[t] = "clear" /\ pc' = [pc EXCEPT ![t] = "lock"] /\ mem' = mem /\ tx' = tx
        /\ isEnabled /\ isEnabled' = isEnabled /\ MaintainedMutexFree
        /\ maintainedWrites' = [a \in Data |-> 0]
        /\ UNCHANGED <<page, gamePc, gameTodo, patchedLocations>>
      BY <1>12 DEF Clear, Goto, memVars, gameVars, localVars, TrackingInv, CallTracks, Uninstalling
  <2>2. CallIsClean(t)'
      BY <2>1 DEF CallIsClean, NothingMaintained
  <2>3. Busy(t) /\ \A u \in Threads \ {t} : pc'[u] = pc[u]
      BY <2>1 DEF Busy
  <2>4. SavedPristine(patchedLocations)' /\ \A u \in Threads : SavedPristine(tx[u])'
      BY <2>1 DEF CleanInv, SavedPristine
  <2> QED BY <2>1, <2>2, <2>3, <2>4, CleanOfOther DEF CleanInv
<1>13. ASSUME NEW t \in Threads, RestoreLock(t) PROVE CleanInv'
  <2>1. /\ pc[t] = "lock" /\ pc' = [pc EXCEPT ![t] = "restore"] /\ mem' = mem
        /\ tx' = [tx EXCEPT ![t] = patchedLocations]
        /\ idx' = [idx EXCEPT ![t] = Len(patchedLocations)]
        /\ isEnabled /\ isEnabled' = isEnabled
        /\ UNCHANGED <<page, gamePc, gameTodo, maintainedWrites, patchedLocations>>
      BY <1>13 DEF RestoreLock, Goto, memVars, patchVars, gameVars, TrackingInv, CallTracks, Uninstalling
  <2>2. TracksAll(patchedLocations) /\ NothingMaintained
    <3>1. \A u \in Threads : pc[u] # "disable"
        BY <2>1, OtherAtRest DEF TrackingInv, Busy
    <3> QED BY <2>1, <3>1 DEF TrackingInv, CleanInv, CallIsClean, Uninstalling
  <2>3. idx'[t] = Len(patchedLocations) /\ tx'[t] = patchedLocations /\ pc'[t] = "restore"
      BY <2>1
  <2>4. DirtyTracked(tx[t], idx[t])'
      BY <2>2, <2>3 DEF DirtyTracked, TracksAll, Tracks
  <2>5. CallIsClean(t)'
      BY <2>1, <2>2, <2>3, <2>4 DEF CallIsClean, NothingMaintained
  <2>6. Busy(t) /\ \A u \in Threads \ {t} : pc'[u] = pc[u]
      BY <2>1 DEF Busy
  <2>7. SavedPristine(patchedLocations)' /\ \A u \in Threads : SavedPristine(tx[u])'
      BY <2>1 DEF CleanInv, SavedPristine
  <2> QED BY <2>1, <2>5, <2>6, <2>7, CleanOfOther DEF CleanInv
<1>14. ASSUME NEW t \in Threads, RestoreDone(t) PROVE CleanInv'
  <2>1. /\ pc[t] = "restore" /\ idx[t] = 0 /\ mem' = mem /\ tx' = tx
        /\ isEnabled /\ isEnabled' = isEnabled
        /\ UNCHANGED <<page, gamePc, gameTodo, maintainedWrites>>
        /\ patchedLocations' \in {patchedLocations, <<>>}
        /\ \E l \in {"disable", "install", "idle"} : pc' = [pc EXCEPT ![t] = l]
      BY <1>14 DEF RestoreDone, ReturnFromUninstall, Goto, memVars, gameVars, localVars, TrackingInv,
         CallTracks, Uninstalling
  <2>2. Pristine' /\ NothingMaintained'
    <3>1. DirtyTracked(tx[t], 0) /\ NothingMaintained
        BY <2>1 DEF CleanInv, CallIsClean, Uninstalling
    <3> QED BY <2>1, <3>1 DEF DirtyTracked, Tracks, Pristine, NothingMaintained
  <2>3. CallIsClean(t)'
      BY <2>1, <2>2 DEF CallIsClean, Installing, Uninstalling
  <2>4. Busy(t) /\ \A u \in Threads \ {t} : pc'[u] = pc[u]
      BY <2>1 DEF Busy
  <2>5. SavedPristine(patchedLocations)' /\ \A u \in Threads : SavedPristine(tx[u])'
      BY <2>1 DEF CleanInv, SavedPristine
  <2> QED BY <2>1, <2>2, <2>3, <2>4, <2>5, CleanOfOther DEF CleanInv
<1>15. ASSUME NEW t \in Threads, Disable(t) PROVE CleanInv'
  <2>1. /\ pc[t] = "disable" /\ mem' = mem /\ tx' = tx
        /\ UNCHANGED <<page, gamePc, gameTodo, maintainedWrites, patchedLocations>>
        /\ \E l \in {"install", "idle"} : pc' = [pc EXCEPT ![t] = l]
      BY <1>15 DEF Disable, ReturnFromUninstall, Goto, memVars, gameVars, localVars
  <2>2. Pristine' /\ NothingMaintained'
      BY <2>1 DEF CleanInv, CallIsClean, Uninstalling, Pristine, NothingMaintained
  <2>3. CallIsClean(t)'
      BY <2>1 DEF CallIsClean, Installing, Uninstalling
  <2>4. Busy(t) /\ \A u \in Threads \ {t} : pc'[u] = pc[u]
      BY <2>1 DEF Busy
  <2>5. SavedPristine(patchedLocations)' /\ \A u \in Threads : SavedPristine(tx[u])'
      BY <2>1 DEF CleanInv, SavedPristine
  <2> QED BY <2>1, <2>2, <2>3, <2>4, <2>5, CleanOfOther DEF CleanInv
<1>16. CASE Hook
    BY <1>16, CleanFrame DEF Hook, LoadFromToml, UpdateTest, UpdateConsume, Enter, MayEnter, Quiet,
       Goto, memVars, patchVars, localVars, gameVars, Installing, Uninstalling, CleanInv
<1>17. CASE Gui
    BY <1>17, CleanFrame DEF Gui, GuiToggle, GuiChangeSetting, GuiNotify, Enter, MayEnter, Quiet,
       Goto, memVars, patchVars, localVars, gameVars, Installing, Uninstalling, CleanInv
<1>18. CASE RefiredTest \/ RefiredLock \/ RefiredDone
    BY <1>18, CleanFrame DEF RefiredTest, RefiredLock, RefiredDone, memVars, patchVars, localVars,
       CleanInv
<1>19. CASE SafeReassert
  <2>1. PICK a \in gameTodo :
           /\ gameTodo' = gameTodo \ {a}
           /\ mem' = IF page[a] = "fine" THEN [mem EXCEPT ![a] = maintainedWrites[a]] ELSE mem
      BY <1>19 DEF SafeReassert
  <2>2. /\ UNCHANGED <<page, isEnabled, patchedLocations, maintainedWrites, tx, idx, saved, pc, gamePc>>
        /\ gamePc = "reasserting" /\ a \in Data /\ maintainedWrites[a] # 0 /\ a \in Sites
      BY <1>19, LifecycleAssumption DEF SafeReassert, patchVars, localVars, LifecycleAssumption,
         GameTypes, CleanInv
  <2>3. \A b \in Sites : mem'[b] # 0 => page[b] = "fine"
      BY <2>1, <2>2 DEF CleanInv, MemTypes
  <2>4. ~NothingMaintained
      BY <2>2 DEF NothingMaintained
  <2>5. ASSUME NEW t \in Threads PROVE CallIsClean(t)'
    <3>1. pc[t] \notin (Installing \cup Uninstalling) \ {"enable", "clear"}
        BY <2>4 DEF CleanInv, CallIsClean
    <3> QED BY <2>2, <3>1 DEF CallIsClean, Installing, Uninstalling
  <2>6. isEnabled \/ ~(\A t \in Threads : pc[t] \notin Installing)
      BY <2>4 DEF CleanInv
  <2>7. SavedPristine(patchedLocations)' /\ \A u \in Threads : SavedPristine(tx[u])'
      BY <2>2 DEF CleanInv, SavedPristine
  <2>8. \A b \in gameTodo' : gamePc' = "reasserting" /\ maintainedWrites'[b] # 0
      BY <2>1, <2>2 DEF CleanInv
  <2> QED BY <2>2, <2>3, <2>5, <2>6, <2>7, <2>8 DEF CleanInv
<1>20. CASE GameRegistrationPass
    BY <1>20, CleanFrame DEF GameRegistrationPass, patchVars, localVars, CleanInv
<1>21. CASE DebounceElapses
    BY <1>21, CleanFrame DEF DebounceElapses, memVars, patchVars, localVars, gameVars, CleanInv
<1>22. ~PageChange
    BY DEF PageChange, MemTypes
<1>23. CASE UNCHANGED vars
    BY <1>23, CleanFrame DEF vars, memVars, patchVars, localVars, gameVars, CleanInv
<1> QED
    BY <1>1, <1>2, <1>3, <1>4, <1>5, <1>6, <1>7, <1>8, <1>9, <1>10, <1>11, <1>12, <1>13, <1>14,
       <1>15, <1>16, <1>17, <1>18, <1>19, <1>20, <1>21, <1>22, <1>23
    DEF Next, Install, Uninstall, OnSettingsRefired, World

\* A patch that is off has left nothing behind, whatever the number of sites,
\* wherever a write was refused and whenever the game re-fired its settings,
\* when calls do not overlap and page protections stay as they are.
THEOREM DisabledLeavesNoTrace ==
    ASSUME Serialized, MaxFaultFlips = 0 PROVE Spec => []DisabledIsPristine
<1>1. CleanInv => DisabledIsPristine
    BY DEF CleanInv, DisabledIsPristine, Quiet, Pristine, Installing
<1>2. TypeOK /\ IndexInv /\ TrackingInv /\ CleanInv /\ [Next]_vars
          => TypeOK' /\ IndexInv' /\ TrackingInv' /\ CleanInv'
    BY TypeStep, TrackingStep, CleanStep
<1> QED
    BY <1>1, <1>2, TypeInit, TrackingInit, CleanInit, PTL DEF Spec

LEMMA CurrentInit == Init => CurrentInv
BY EmptyLocations DEF Init, CurrentInv, CallIsCurrent, Fine, Quiet, Installing

\* Steps outside the calls: what a call has written stays, and a new setting is reported.
LEMMA CurrentFrame ==
    ASSUME CurrentInv,
           UNCHANGED <<page, isEnabled, patchedLocations, tx, ver, ok, idx>>,
           \A a \in Sites \ Data : mem'[a] = mem[a],
           setting' = setting \/ ChangeKnown', ChangeKnown => ChangeKnown',
           started => started', ~started' => Quiet',
           \A t \in Threads : \/ pc'[t] = pc[t]
                              \/ /\ pc'[t] \notin Installing \cup Uninstalling
                                 /\ pc[t] \in Uninstalling \cup {"uninstall"} => ~isEnabled
    PROVE  CurrentInv'
<1>1. \A n, v : Written(n, v) => \A a \in Sites \ Data : a < n => mem'[a] = v
    BY DEF Written
<1>2. ASSUME NEW t \in Threads PROVE CallIsCurrent(t)'
  <2>1. CallIsCurrent(t)
      BY DEF CurrentInv
  <2>2. CASE pc'[t] = pc[t]
      BY <2>1, <2>2 DEF CallIsCurrent, Written, Fine
  <2>3. CASE pc'[t] \notin Installing \cup Uninstalling
      BY <2>3 DEF CallIsCurrent, Installing, Uninstalling
  <2> QED BY <2>2, <2>3
<1>3. ASSUME isEnabled', ~ChangeKnown', \A t \in Threads : pc'[t] \notin Uninstalling \cup {"uninstall"}
      PROVE  Written(NumSites + 1, setting)'
  <2>1. isEnabled /\ ~ChangeKnown /\ setting' = setting
      BY <1>3
  <2>2. \A t \in Threads : pc[t] \notin Uninstalling \cup {"uninstall"}
      BY <1>3, <2>1
  <2> QED BY <2>1, <2>2 DEF CurrentInv, Written
<1>4. Fine(patchedLocations)'
    BY DEF CurrentInv, Fine
<1> QED BY <1>2, <1>3, <1>4 DEF CurrentInv

\* A step of the thread inside a call: the other one is at rest, and no change is
\* reported or taken up meanwhile.
LEMMA CurrentOfOther ==
    ASSUME TypeOK, OneAtATime, CurrentInv, NEW t \in Threads, Busy(t),
           \A u \in Threads \ {t} : pc'[u] = pc[u],
           UNCHANGED <<pendingReinstall, started>>, pc'[t] # "notify",
           Fine(patchedLocations)',
           (ChangeKnown' <=> ChangeKnown) => CallIsCurrent(t)',
           isEnabled' /\ (ChangeKnown' <=> ChangeKnown) /\ ~ChangeKnown
               /\ pc'[t] \notin Uninstalling \cup {"uninstall"} => Written(NumSites + 1, setting)'
    PROVE  CurrentInv'
<1>1. ChangeKnown' <=> ChangeKnown
  <2>1. pc'["gui"] = "notify" <=> pc["gui"] = "notify"
      BY DEF Threads, Busy
  <2> QED BY <2>1 DEF ChangeKnown
<1>2. started'
    BY DEF CurrentInv, Quiet, Busy
<1>3. ASSUME NEW u \in Threads, u # t PROVE CallIsCurrent(u)'
  <2>1. pc'[u] \in {"idle", "notify"}
      BY <1>3, OtherAtRest
  <2> QED BY <2>1 DEF CallIsCurrent, Installing
<1> QED BY <1>1, <1>2, <1>3 DEF CurrentInv

LEMMA CurrentStep ==
    ASSUME Serialized, MaxFaultFlips = 0,
           TypeOK, IndexInv, TrackingInv, CurrentInv, [Next]_vars
    PROVE  CurrentInv'
<1> USE DEF TypeOK, ControlTypes
<1>a. \A t \in Threads : CallIsCurrent(t) /\ CallTracks(t)
    BY DEF CurrentInv, TrackingInv
<1>b. OneAtATime /\ Fine(patchedLocations)
    BY DEF TrackingInv, CurrentInv
<1>c. \A t \in Threads : Busy(t) => started
    BY DEF CurrentInv, Quiet, Busy
<1>1. ASSUME NEW t \in Threads, InstallEntry(t) PROVE CurrentInv'
  <2>1. CASE isEnabled \/ \E a \in Anchors : mem[a] # 0 \/ page[a] = "unmapped"
    <3>1. /\ pc[t] = "install" /\ pc' = [pc EXCEPT ![t] = "idle"]
          /\ UNCHANGED <<mem, page, isEnabled, patchedLocations, tx, ver, ok, idx, setting,
                         pendingReinstall, started>>
        BY <1>1, <2>1 DEF InstallEntry, Goto, memVars, patchVars, reinstVars, localVars
    <3>2. started' /\ (ChangeKnown => ChangeKnown')
        BY <1>c, <3>1 DEF Busy, ChangeKnown
    <3> QED BY <3>1, <3>2, CurrentFrame DEF Installing, Uninstalling
  <2>2. CASE ~(isEnabled \/ \E a \in Anchors : mem[a] # 0 \/ page[a] = "unmapped")
    <3>1. /\ pc[t] = "install" /\ pc' = [pc EXCEPT ![t] = "query"] /\ ~isEnabled'
          /\ tx' = [tx EXCEPT ![t] = <<>>] /\ ver' = [ver EXCEPT ![t] = setting]
          /\ idx' = [idx EXCEPT ![t] = 1]
          /\ UNCHANGED <<mem, page, patchedLocations, setting, pendingReinstall, started>>
        BY <1>1, <2>2 DEF InstallEntry, Goto, memVars, patchVars, reinstVars
    <3>2. pc'[t] = "query" /\ tx'[t] = <<>> /\ ver'[t] = setting /\ idx'[t] = 1
        BY <3>1 DEF LocalTypes
    <3>3. CallIsCurrent(t)'
        BY <3>1, <3>2 DEF CallIsCurrent, Written, Fine, Sites
    <3>4. Busy(t) /\ Fine(patchedLocations)'
        BY <1>b, <3>1 DEF Busy, Fine
    <3> QED BY <1>b, <3>1, <3>3, <3>4, CurrentOfOther
  <2> QED BY <2>1, <2>2
<1>2. ASSUME NEW t \in Threads, Query(t) PROVE CurrentInv'
  <2>1. /\ pc[t] = "query" /\ ~isEnabled /\ idx[t] \in Nat /\ idx \in [Threads -> Nat]
        /\ ok \in [Threads -> BOOLEAN]
        /\ UNCHANGED <<mem, page, isEnabled, patchedLocations, tx, ver, setting,
                       pendingReinstall, started>>
      BY <1>2, <1>a DEF Query, memVars, patchVars, reinstVars, CallTracks, Installing, LocalTypes
  <2>2. /\ ok[t] => Written(idx[t], ver[t]) /\ Fine(tx[t])
        /\ ver[t] = setting \/ ChangeKnown
      BY <1>a, <2>1 DEF CallIsCurrent, Installing
  <2>3. ASSUME ChangeKnown' <=> ChangeKnown PROVE CallIsCurrent(t)'
    <3>1. CASE idx[t] > NumSites /\ ok[t] /\ pc' = [pc EXCEPT ![t] = "commit"]
      <4>1. \A a \in Sites : a < idx[t]
          BY <2>1, <3>1, LifecycleAssumption DEF LifecycleAssumption, Sites
      <4> QED BY <2>1, <2>2, <2>3, <3>1, <4>1 DEF CallIsCurrent, Written, Fine
    <3>2. CASE pc' = [pc EXCEPT ![t] = "rollbacklock"]
        BY <2>1, <2>2, <2>3, <3>2 DEF CallIsCurrent
    <3>3. CASE WriteFailed(t)
        BY <2>1, <2>2, <2>3, <3>3 DEF WriteFailed, Goto, CallIsCurrent
    <3>4. CASE UNCHANGED <<ok, idx>> /\ pc' = [pc EXCEPT ![t] = "push"]
        BY <2>1, <2>2, <2>3, <3>4 DEF CallIsCurrent, Written, Fine
    <3> QED BY <1>2, <3>1, <3>2, <3>3, <3>4 DEF Query, Goto
  <2>4. Busy(t) /\ pc'[t] # "notify" /\ \A u \in Threads \ {t} : pc'[u] = pc[u]
      BY <1>2, <2>1 DEF Busy, Query, WriteFailed, Goto
  <2>5. Fine(patchedLocations)'
      BY <1>b, <2>1 DEF Fine
  <2> QED BY <1>b, <2>1, <2>3, <2>4, <2>5, CurrentOfOther
<1>3. ASSUME NEW t \in Threads, Push(t) PROVE CurrentInv'
  <2> DEFINE loc == [site |-> idx[t], saved |-> saved[t]]
  <2>1. /\ pc[t] = "push" /\ pc' = [pc EXCEPT ![t] = "write"] /\ ~isEnabled
        /\ tx' = [tx EXCEPT ![t] = Append(@, loc)] /\ tx \in [Threads -> Seq(Location)]
        /\ UNCHANGED <<mem, page, isEnabled, patchedLocations, ver, ok, idx, setting,
                       pendingReinstall, started>>
      BY <1>3, <1>a DEF Push, Goto, memVars, patchVars, reinstVars, CallTracks, Installing, LocalTypes
  <2>2. /\ ok[t] => Written(idx[t], ver[t]) /\ Fine(tx[t])
        /\ ver[t] = setting \/ ChangeKnown
      BY <1>a, <2>1 DEF CallIsCurrent, Installing
  <2>3. tx'[t] = Append(tx[t], loc) /\ loc \in Location /\ tx[t] \in Seq(Location)
      BY <2>1 DEF IndexInv, Location, LocalTypes
  <2>4. \A i \in DOMAIN tx'[t] : (i \in DOMAIN tx[t] /\ tx'[t][i] = tx[t][i]) \/ tx'[t][i].site = idx[t]
      BY <2>3
  <2>5. ASSUME ChangeKnown' <=> ChangeKnown PROVE CallIsCurrent(t)'
      BY <2>1, <2>2, <2>4, <2>5 DEF CallIsCurrent, Written, Fine
  <2>6. Busy(t) /\ Fine(patchedLocations)'
      BY <1>b, <2>1 DEF Busy, Fine
  <2> QED BY <1>b, <2>1, <2>5, <2>6, CurrentOfOther
<1>4. ASSUME NEW t \in Threads, Write(t) PROVE CurrentInv'
  <2>1. /\ pc[t] = "write" /\ ~isEnabled /\ mem \in [Sites -> Versions]
        /\ idx[t] \in Sites /\ ok \in [Threads -> BOOLEAN]
        /\ UNCHANGED <<page, isEnabled, patchedLocations, tx, ver, setting,
                       pendingReinstall, started>>
      BY <1>4, <1>a DEF Write, patchVars, reinstVars, CallTracks, Installing, LocalTypes,
         MemTypes, IndexInv
  <2>2. /\ ok[t] => Written(idx[t], ver[t])
        /\ ok[t] => \A i \in DOMAIN tx[t] : tx[t][i].site # idx[t] => page[tx[t][i].site] = "fine"
        /\ ver[t] = setting \/ ChangeKnown
      BY <1>a, <2>1 DEF CallIsCurrent, Installing
  <2>3. ASSUME ChangeKnown' <=> ChangeKnown PROVE CallIsCurrent(t)'
    <3>1. CASE WriteFailed(t)
        BY <2>1, <2>2, <2>3, <3>1 DEF WriteFailed, Goto, CallIsCurrent
    <3>2. CASE /\ page[idx[t]] = "fine" /\ mem' = [mem EXCEPT ![idx[t]] = ver[t]]
               /\ pc' = [pc EXCEPT ![t] = "verify"] /\ UNCHANGED <<ok, idx>>
      <4>1. ok[t] => \A a \in Sites \ Data : a < idx[t] => mem'[a] = ver[t]
          BY <2>1, <2>2, <3>2 DEF Written
      <4>2. ok[t] => Fine(tx[t])
          BY <2>2, <3>2 DEF Fine
      <4> QED BY <2>1, <2>2, <2>3, <3>2, <4>1, <4>2 DEF CallIsCurrent, Written, Fine
    <3> QED BY <1>4, <3>1, <3>2 DEF Write, Goto
  <2>4. Busy(t) /\ pc'[t] # "notify" /\ \A u \in Threads \ {t} : pc'[u] = pc[u]
      BY <1>4, <2>1 DEF Busy, Write, WriteFailed, Goto
  <2>5. Fine(patchedLocations)'
      BY <1>b, <2>1 DEF Fine
  <2> QED BY <1>b, <2>1, <2>3, <2>4, <2>5, CurrentOfOther
<1>5. ASSUME NEW t \in Threads, Verify(t) PROVE CurrentInv'
  <2>1. /\ pc[t] = "verify" /\ pc' = [pc EXCEPT ![t] = "query"] /\ ~isEnabled
        /\ ok' = [ok EXCEPT ![t] = @ /\ mem[idx[t]] = ver[t]] /\ ok \in [Threads -> BOOLEAN]
        /\ idx' = [idx EXCEPT ![t] = @ + 1] /\ idx \in [Threads -> Nat] /\ idx[t] \in Sites
        /\ UNCHANGED <<mem, page, isEnabled, patchedLocations, tx, ver, setting,
                       pendingReinstall, started>>
      BY <1>5, <1>a DEF Verify, Goto, memVars, patchVars, reinstVars, CallTracks, Installing,
         LocalTypes, IndexInv
  <2>2. /\ ok[t] => Written(idx[t], ver[t]) /\ Fine(tx[t])
        /\ ver[t] = setting \/ ChangeKnown
      BY <1>a, <2>1 DEF CallIsCurrent, Installing
  <2>3. ok'[t] => \A a \in Sites \ Data : a < idx'[t] => mem[a] = ver[t]
    <3>1. ok'[t] => ok[t] /\ mem[idx[t]] = ver[t]
        BY <2>1
    <3>2. \A a \in Sites : a < idx'[t] => a < idx[t] \/ a = idx[t]
        BY <2>1 DEF Sites
    <3> QED BY <2>2, <3>1, <3>2 DEF Written
  <2>4. ASSUME ChangeKnown' <=> ChangeKnown PROVE CallIsCurrent(t)'
      BY <2>1, <2>2, <2>3, <2>4 DEF CallIsCurrent, Written, Fine
  <2>5. Busy(t) /\ Fine(patchedLocations)'
      BY <1>b, <2>1 DEF Busy, Fine
  <2> QED BY <1>b, <2>1, <2>4, <2>5, CurrentOfOther
<1>6. ASSUME NEW t \in Threads, Commit(t) \/ Maintain(t) PROVE CurrentInv'
  <2>1. /\ pc[t] \in {"commit", "maintain"} /\ ~isEnabled
        /\ UNCHANGED <<mem, page, isEnabled, tx, ver, setting, pendingReinstall, started>>
        /\ (pc[t] = "commit" /\ patchedLocations' = tx[t]) \/ patchedLocations' = patchedLocations
        /\ pc' = [pc EXCEPT ![t] = "maintain"] \/ pc' = [pc EXCEPT ![t] = "enable"]
      BY <1>6, <1>a DEF Commit, Maintain, Goto, memVars, reinstVars, localVars, CallTracks, Installing
  <2>2. /\ Written(NumSites + 1, ver[t])
        /\ ver[t] = setting \/ ChangeKnown
        /\ pc[t] = "commit" => Fine(tx[t])
      BY <1>a, <2>1 DEF CallIsCurrent, Installing
  <2>3. pc'[t] \in {"maintain", "enable"} /\ Busy(t) /\ \A u \in Threads \ {t} : pc'[u] = pc[u]
      BY <2>1 DEF Busy
  <2>4. ASSUME ChangeKnown' <=> ChangeKnown PROVE CallIsCurrent(t)'
      BY <2>1, <2>2, <2>3, <2>4 DEF CallIsCurrent, Written
  <2>5. Fine(patchedLocations)'
      BY <1>b, <2>1, <2>2 DEF Fine
  <2> QED BY <1>b, <2>1, <2>3, <2>4, <2>5, CurrentOfOther
<1>7. ASSUME NEW t \in Threads, Enable(t) PROVE CurrentInv'
  <2>1. /\ pc[t] = "enable" /\ pc' = [pc EXCEPT ![t] = "idle"]
        /\ UNCHANGED <<mem, page, patchedLocations, ver, setting, pendingReinstall, started>>
      BY <1>7 DEF Enable, Goto, memVars, reinstVars, localVars
  <2>2. /\ Written(NumSites + 1, ver[t])
        /\ ver[t] = setting \/ ChangeKnown
      BY <1>a, <2>1 DEF CallIsCurrent, Installing
  <2>3. ~ChangeKnown => Written(NumSites + 1, setting)'
      BY <2>1, <2>2 DEF Written
  <2>4. CallIsCurrent(t)'
      BY <2>1 DEF CallIsCurrent, Installing
  <2>5. Busy(t) /\ Fine(patchedLocations)'
      BY <1>b, <2>1 DEF Busy, Fine
  <2> QED BY <1>b, <2>1, <2>3, <2>4, <2>5, CurrentOfOther
<1>8. ASSUME NEW t \in Threads, RollbackLock(t) \/ RollbackStep(t) \/ RollbackDone(t) PROVE CurrentInv'
  <2>1. /\ pc[t] \in {"rollbacklock", "rollback"} /\ ~isEnabled
        /\ UNCHANGED <<page, isEnabled, patchedLocations, ver, setting, pendingReinstall, started>>
        /\ \/ pc' = [pc EXCEPT ![t] = "rollback"]
           \/ pc' = [pc EXCEPT ![t] = "idle"]
           \/ pc' = pc /\ pc[t] = "rollback"
      BY <1>8, <1>a DEF RollbackLock, RollbackStep, RestoreOne, RollbackDone, Goto, memVars, patchVars,
         reinstVars, localVars, CallTracks, Installing
  <2>2. ver[t] = setting \/ ChangeKnown
      BY <1>a, <2>1 DEF CallIsCurrent, Installing
  <2>3. pc'[t] \in {"rollback", "idle"} /\ Busy(t) /\ \A u \in Threads \ {t} : pc'[u] = pc[u]
      BY <2>1 DEF Busy
  <2>4. ASSUME ChangeKnown' <=> ChangeKnown PROVE CallIsCurrent(t)'
      BY <2>1, <2>2, <2>3, <2>4 DEF CallIsCurrent
  <2>5. Fine(patchedLocations)'
      BY <1>b, <2>1 DEF Fine
  <2> QED BY <1>b, <2>1, <2>3, <2>4, <2>5, CurrentOfOther
<1>9. ASSUME NEW t \in Threads, UninstallEntry(t) PROVE CurrentInv'
  <2>1. /\ pc[t] = "uninstall"
        /\ UNCHANGED <<mem, page, isEnabled, patchedLocations, tx, ver, ok, idx, setting,
                       pendingReinstall, started>>
        /\ \E l \in {"clear", "install", "idle"} :
              /\ pc' = [pc EXCEPT ![t] = l]
              /\ isEnabled => l = "clear"
      BY <1>9 DEF UninstallEntry, ReturnFromUninstall, Goto, memVars, patchVars, reinstVars, localVars
  <2>2. pc'[t] \in {"clear", "install", "idle"} /\ Busy(t) /\ \A u \in Threads \ {t} : pc'[u] = pc[u]
      BY <2>1 DEF Busy
  <2>3. CallIsCurrent(t)'
      BY <2>2 DEF CallIsCurrent, Installing
  <2>4. isEnabled' => pc'[t] \in Uninstalling
      BY <2>1 DEF Uninstalling
  <2>5. Fine(patchedLocations)'
      BY <1>b, <2>1 DEF Fine
  <2> QED BY <1>b, <2>1, <2>2, <2>3, <2>4, <2>5, CurrentOfOther
<1>10. ASSUME NEW t \in Threads, Clear(t) \/ RestoreLock(t) PROVE CurrentInv'
  <2>1. /\ pc[t] \in {"clear", "lock"}
        /\ UNCHANGED <<page, patchedLocations, setting, pendingReinstall, started>>
        /\ \/ pc' = [pc EXCEPT ![t] = "lock"]
           \/ /\ pc' = [pc EXCEPT ![t] = "restore"]
              /\ tx' = [tx EXCEPT ![t] = patchedLocations] /\ ok' = [ok EXCEPT ![t] = TRUE]
      BY <1>10 DEF Clear, RestoreLock, Goto, memVars, patchVars, reinstVars
  <2>2. pc'[t] \in {"lock", "restore"} /\ Busy(t) /\ \A u \in Threads \ {t} : pc'[u] = pc[u]
      BY <2>1 DEF Busy
  <2>3. pc'[t] = "restore" => tx'[t] = patchedLocations /\ ok'[t]
      BY <2>1 DEF LocalTypes
  <2>4. Fine(patchedLocations)'
      BY <1>b, <2>1 DEF Fine
  <2>5. CallIsCurrent(t)'
      BY <1>b, <2>1, <2>2, <2>3 DEF CallIsCurrent, Fine, Installing
  <2> QED BY <1>b, <2>1, <2>2, <2>4, <2>5, CurrentOfOther DEF Uninstalling
<1>11. ASSUME NEW t \in Threads, RestoreStep(t) PROVE CurrentInv'
  <2>1. /\ pc[t] = "restore" /\ pc' = pc /\ tx' = tx /\ idx[t] \in 1..Len(tx[t])
        /\ ok' = [ok EXCEPT ![t] = @ /\ page[tx[t][idx[t]].site] = "fine"]
        /\ UNCHANGED <<page, patchedLocations, setting, pendingReinstall, started>>
        /\ tx[t] \in Seq(Location) /\ ok \in [Threads -> BOOLEAN]
      BY <1>11 DEF RestoreStep, RestoreOne, patchVars, reinstVars, IndexInv, LocalTypes
  <2>2. Fine(tx[t]) /\ ok[t]
      BY <1>a, <2>1 DEF CallIsCurrent
  <2>3. ok'[t]
      BY <2>1, <2>2 DEF Fine
  <2>4. CallIsCurrent(t)' /\ Fine(patchedLocations)'
      BY <1>b, <2>1, <2>2, <2>3 DEF CallIsCurrent, Fine, Installing
  <2>5. Busy(t) /\ pc'[t] \in Uninstalling
      BY <2>1 DEF Busy, Uninstalling
  <2> QED BY <1>b, <2>1, <2>4, <2>5, CurrentOfOther
<1>12. ASSUME NEW t \in Threads, RestoreDone(t) PROVE CurrentInv'
  <2>1. pc[t] = "restore" /\ ok[t]
      BY <1>12, <1>a DEF RestoreDone, CallIsCurrent
  <2>2. /\ pc' = [pc EXCEPT ![t] = "disable"] /\ patchedLocations' = <<>>
        /\ UNCHANGED <<pendingReinstall, started>>
      BY <1>12, <2>1 DEF RestoreDone, Goto, reinstVars
  <2>3. CallIsCurrent(t)' /\ Fine(patchedLocations)'
      BY <2>2 DEF CallIsCurrent, Fine, Installing
  <2>4. Busy(t) /\ pc'[t] \in Uninstalling
      BY <2>1, <2>2 DEF Busy, Uninstalling
  <2> QED BY <1>b, <2>2, <2>3, <2>4, CurrentOfOther
<1>13. ASSUME NEW t \in Threads, Disable(t) PROVE CurrentInv'
  <2>1. /\ pc[t] = "disable" /\ ~isEnabled'
        /\ UNCHANGED <<page, patchedLocations, pendingReinstall, started>>
        /\ \E l \in {"install", "idle"} : pc' = [pc EXCEPT ![t] = l]
      BY <1>13 DEF Disable, ReturnFromUninstall, Goto, memVars, reinstVars
  <2>2. CallIsCurrent(t)' /\ Fine(patchedLocations)'
      BY <1>b, <2>1 DEF CallIsCurrent, Fine, Installing
  <2>3. Busy(t) /\ pc'[t] # "notify"
      BY <2>1 DEF Busy
  <2> QED BY <1>b, <2>1, <2>2, <2>3, CurrentOfOther
<1>14. CASE LoadFromToml
  <2>1. ~started /\ Quiet /\ started' /\ isEnabled' = isEnabled
        /\ UNCHANGED <<page, patchedLocations>>
      BY <1>14 DEF LoadFromToml, Enter, MayEnter, CurrentInv, memVars, patchVars
  <2>2. \A t \in Threads : pc'[t] \in {"idle", "install", "uninstall"}
      BY <1>14, <2>1 DEF LoadFromToml, Enter, Goto, Quiet
  <2>3. \A t \in Threads : CallIsCurrent(t)'
      BY <2>2 DEF CallIsCurrent, Installing
  <2>4. Fine(patchedLocations)' /\ ~isEnabled'
      BY <1>b, <2>1 DEF Fine, CurrentInv
  <2> QED BY <2>1, <2>3, <2>4 DEF CurrentInv
<1>15. CASE UpdateTest
  <2>1. /\ pc["hook"] = "idle" /\ pc' = [pc EXCEPT !["hook"] = "consume"] /\ started
        /\ UNCHANGED <<mem, page, isEnabled, patchedLocations, tx, ver, ok, idx, setting,
                       pendingReinstall, started>>
      BY <1>15 DEF UpdateTest, Goto, memVars, patchVars, reinstVars, localVars
  <2>2. ChangeKnown => ChangeKnown'
      BY <2>1 DEF ChangeKnown, Threads
  <2> QED BY <2>1, <2>2, CurrentFrame DEF Installing, Uninstalling
<1>16. CASE UpdateConsume
  <2>1. /\ pc["hook"] = "consume" /\ pc' = [pc EXCEPT !["hook"] = "uninstall"]
        /\ UNCHANGED <<page, patchedLocations, started>>
      BY <1>16 DEF UpdateConsume, Goto, memVars, patchVars
  <2>2. pc'["gui"] \in {"idle", "notify"} /\ pc'["hook"] = "uninstall" /\ started
      BY <1>b, <2>1 DEF OneAtATime, Threads, CurrentInv, Quiet
  <2>3. \A t \in Threads : CallIsCurrent(t)'
      BY <2>2 DEF Threads, CallIsCurrent, Installing
  <2>4. Fine(patchedLocations)' /\ ~(\A t \in Threads : pc'[t] \notin Uninstalling \cup {"uninstall"})
      BY <1>b, <2>1, <2>2 DEF Fine, Threads
  <2> QED BY <2>1, <2>2, <2>3, <2>4 DEF CurrentInv
<1>17. CASE GuiToggle
  <2>1. /\ UNCHANGED <<mem, page, isEnabled, patchedLocations, tx, ver, ok, idx, setting,
                       pendingReinstall, started>>
        /\ started /\ pc["gui"] = "idle"
        /\ \E l \in {"install", "uninstall"} : pc' = [pc EXCEPT !["gui"] = l]
      BY <1>17 DEF GuiToggle, Enter, MayEnter, Goto, memVars, patchVars, reinstVars, localVars
  <2>2. ChangeKnown => ChangeKnown'
      BY <2>1 DEF ChangeKnown
  <2> QED BY <2>1, <2>2, CurrentFrame DEF Installing, Uninstalling
<1>18. CASE GuiChangeSetting
  <2>1. /\ UNCHANGED <<mem, page, isEnabled, patchedLocations, tx, ver, ok, idx, started>>
        /\ started /\ pc["gui"] = "idle" /\ pc' = [pc EXCEPT !["gui"] = "notify"]
      BY <1>18 DEF GuiChangeSetting, Goto, memVars, patchVars, localVars
  <2>2. ChangeKnown'
      BY <2>1 DEF ChangeKnown, Threads
  <2> QED BY <2>1, <2>2, CurrentFrame DEF Installing, Uninstalling
<1>19. CASE GuiNotify
  <2>1. /\ UNCHANGED <<mem, page, isEnabled, patchedLocations, tx, ver, ok, idx, setting, started>>
        /\ pc["gui"] = "notify" /\ pc' = [pc EXCEPT !["gui"] = "idle"] /\ pendingReinstall'
      BY <1>19 DEF GuiNotify, Goto, memVars, patchVars, localVars
  <2>2. ChangeKnown' /\ started
      BY <2>1 DEF ChangeKnown, CurrentInv, Quiet, Threads
  <2> QED BY <2>1, <2>2, CurrentFrame DEF Installing, Uninstalling
<1>20. CASE OnSettingsRefired \/ GameRegistrationPass \/ DebounceElapses
  <2>1. UNCHANGED <<page, isEnabled, patchedLocations, tx, ver, ok, idx, setting,
                    pendingReinstall, started, pc>>
      BY <1>20 DEF OnSettingsRefired, RefiredTest, RefiredLock, SafeReassert, RefiredDone,
         GameRegistrationPass, DebounceElapses, memVars, patchVars, reinstVars, localVars
  <2>2. \A a \in Sites \ Data : mem'[a] = mem[a]
      BY <1>20 DEF OnSettingsRefired, RefiredTest, RefiredLock, SafeReassert, RefiredDone,
         GameRegistrationPass, DebounceElapses, memVars, MemTypes, GameTypes
  <2>3. (ChangeKnown => ChangeKnown') /\ (~started' => Quiet')
      BY <2>1 DEF ChangeKnown, CurrentInv, Quiet
  <2> QED BY <2>1, <2>2, <2>3, CurrentFrame
<1>21. ~PageChange
    BY DEF PageChange, MemTypes
<1>22. CASE UNCHANGED vars
  <2>1. UNCHANGED <<mem, page, isEnabled, patchedLocations, tx, ver, ok, idx, setting,
                    pendingReinstall, started, pc>>
      BY <1>22 DEF vars, memVars, patchVars, reinstVars, localVars
  <2>2. (ChangeKnown => ChangeKnown') /\ (~started' => Quiet')
      BY <2>1 DEF ChangeKnown, CurrentInv, Quiet
  <2> QED BY <2>1, <2>2, CurrentFrame
<1> QED
    BY <1>1, <1>2, <1>3, <1>4, <1>5, <1>6, <1>7, <1>8, <1>9, <1>10, <1>11, <1>12, <1>13, <1>14,
       <1>15, <1>16, <1>17, <1>18, <1>19, <1>20, <1>21, <1>22
    DEF Next, Install, Uninstall, Hook, Gui, World

\* A patch that is on, with no reinstall owed, runs the settings the user sees, however
\* changes of settings fall into an install or a reinstall under way, when calls do not
\* overlap and page protections stay as they are.
THEOREM EnabledRunsTheSettings ==
    ASSUME Serialized, MaxFaultFlips = 0 PROVE Spec => []EnabledIsCurrent
<1>1. TypeOK /\ CurrentInv => EnabledIsCurrent
  <2> SUFFICES ASSUME TypeOK, CurrentInv, Quiet, isEnabled, ~pendingReinstall
               PROVE  \A a \in Sites \ Data : mem[a] = setting
      BY DEF EnabledIsCurrent
  <2>1. ~ChangeKnown /\ \A t \in Threads : pc[t] \notin Uninstalling \cup {"uninstall"}
      BY DEF ChangeKnown, Quiet, Threads, Uninstalling
  <2>2. \A a \in Sites \ Data : a < NumSites + 1
      BY LifecycleAssumption DEF LifecycleAssumption, Sites
  <2> QED BY <2>1, <2>2 DEF CurrentInv, Written
<1>2. TypeOK /\ IndexInv /\ TrackingInv /\ CurrentInv /\ [Next]_vars
          => TypeOK' /\ IndexInv' /\ TrackingInv' /\ CurrentInv'
    BY TypeStep, TrackingStep, CurrentStep
<1> QED
    BY <1>1, <1>2, TypeInit, TrackingInit, CurrentInit, PTL DEF Spec

=============================================================================
