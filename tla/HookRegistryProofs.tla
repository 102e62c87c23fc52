------------------------- MODULE HookRegistryProofs -------------------------
(***************************************************************************)
(* Proofs about HookRegistry, for any threads, methods, patches, numbers   *)
(* of hooks and priorities: no hook of a removed patch runs, the first     *)
(* stopping hook by priority decides, originals do not lead back.          *)
(***************************************************************************)
EXTENDS HookRegistry, FiniteSetTheorems, TLAPS

-----------------------------------------------------------------------------
(* The lists. *)

\* What std::sort makes of a list: the same entries, in order.
LEMMA Sorting ==
    ASSUME NEW list \in Seq(HookEntry), NEW s \in SortHooks(list)
    PROVE  /\ s \in Seq(HookEntry) /\ Len(s) = Len(list) /\ Ordered(s)
           /\ \A i \in DOMAIN s : \E j \in DOMAIN list : s[i] = list[j]
<1>1. Ordered(s)
  BY DEF SortHooks
<1>2. PICK f \in [DOMAIN list -> DOMAIN list] : s = [i \in DOMAIN list |-> list[f[i]]]
  BY DEF SortHooks
<1>3. DOMAIN list = 1..Len(list) /\ Len(list) \in Nat
  OBVIOUS
<1>4. \A i \in 1..Len(list) : f[i] \in DOMAIN list /\ s[i] = list[f[i]] /\ list[f[i]] \in HookEntry
  BY <1>2, <1>3
<1>5. s \in [1..Len(list) -> HookEntry]
  BY <1>2, <1>3, <1>4
<1>6. s \in Seq(HookEntry) /\ Len(s) = Len(list) /\ DOMAIN s = 1..Len(list)
  BY <1>3, <1>5
<1>7. QED
  BY <1>1, <1>4, <1>6

\* What is left after remove_if: entries of the list, none of that name, in their order.
LEMMA Removing ==
    ASSUME NEW list \in Seq(HookEntry), NEW n, NEW s \in Without(list, n), Ordered(list)
    PROVE  /\ s \in Seq(HookEntry) /\ Len(s) <= Len(list) /\ Ordered(s)
           /\ \A i \in DOMAIN s : s[i].name # n /\ \E j \in DOMAIN list : s[i] = list[j]
<1> DEFINE kept == {i \in DOMAIN list : list[i].name # n}
           k == Cardinality(kept)
<1>1. DOMAIN list = 1..Len(list) /\ Len(list) \in Nat
  OBVIOUS
<1>2. k \in Nat /\ k <= Len(list)
  <2>1. IsFiniteSet(1..Len(list)) /\ Cardinality(1..Len(list)) = Len(list)
    BY <1>1, FS_Interval
  <2>2. kept \subseteq 1..Len(list)
    BY <1>1
  <2>3. IsFiniteSet(kept) /\ k <= Len(list)
    BY <2>1, <2>2, FS_Subset
  <2>4. QED
    BY <2>3, FS_CardinalityType
<1>3. PICK f \in [1..k -> kept] :
         /\ \A i, j \in DOMAIN f : i < j => f[i] < f[j]
         /\ s = [i \in DOMAIN f |-> list[f[i]]]
  BY DEF Without
<1> HIDE DEF k
<1>4. \A i \in 1..k : f[i] \in DOMAIN list /\ s[i] = list[f[i]] /\ list[f[i]] \in HookEntry /\ s[i].name # n
  BY <1>1, <1>3
<1>5. s \in [1..k -> HookEntry]
  BY <1>3, <1>4
<1>6. s \in Seq(HookEntry) /\ Len(s) = k /\ DOMAIN s = 1..k
  BY <1>2, <1>5
<1>7. Ordered(s)
  BY <1>3, <1>4, <1>6 DEF Ordered
<1>8. QED
  BY <1>2, <1>4, <1>6, <1>7

-----------------------------------------------------------------------------
(* The inductive invariant. *)

Inside == {"loop", "inhook", "bypass", "unlock"}

\* The lists are sorted and hold no hook of a removed patch.
ListsInOrder ==
    \A m \in Methods :
        /\ Ordered(hooks[m])
        /\ \A i \in DOMAIN hooks[m] : hooks[m][i].name \notin removed

\* Initialize runs once, before anything is attached; what a failed Cleanup leaves attached
\* keeps its trampolines.
DetoursFollow ==
    /\ initialized => attached
    /\ attached => initDone /\ originals = "trampoline"
    /\ \A t \in Threads : pc[t] = "commit" => /\ initDone /\ ~attached
                                             /\ \A u \in Threads : pc[u] = "commit" => u = t

\* How far the loop of Execute has come, and what it has gathered.
Gathered(list, last, skips) ==
    /\ \A i \in DOMAIN list : i < last => list[i].effect \in {"continue", "override"}
    /\ skips <=> \E i \in DOMAIN list : i < last /\ list[i].effect = "override"

LoopsInOrder == \A t \in Threads :
    /\ pc[t] = "execute" => ~skipOriginal[t]
    /\ pc[t] \in {"loop", "inhook", "bypass"} =>
        /\ pos[t] \in 1..Len(hooks[method[t]]) + 1
        /\ Gathered(hooks[method[t]], pos[t], skipOriginal[t])
    /\ pc[t] \in {"inhook", "bypass"} => pos[t] \in DOMAIN hooks[method[t]]
    /\ pc[t] = "unlock" => outcome[t] \in Verdicts(hooks[method[t]])

Inv == TypeOK /\ ListsInOrder /\ DetoursFollow /\ LoopsInOrder

LEMMA InvInit == Init => Inv
<1> SUFFICES ASSUME Init PROVE Inv
  OBVIOUS
<1>1. TypeOK
  <2>1. hooks \in [Methods -> Seq(HookEntry)] /\ \A m \in Methods : Len(hooks[m]) <= MaxHooks
    <3>1. <<>> \in Seq(HookEntry) /\ Len(<<>>) = 0
      OBVIOUS
    <3>2. QED
      BY <3>1, RegistryAssumption DEF Init, RegistryAssumption
  <2>2. pos \in [Threads -> 0..MaxHooks + 1]
    BY RegistryAssumption DEF Init, RegistryAssumption
  <2>3. \A t \in Threads : pc[t] \in {"loop", "inhook", "bypass", "unlock"} <=> owner = t
    BY RegistryAssumption DEF Init, RegistryAssumption
  <2>4. pc \in [Threads -> {"idle", "execute", "loop", "inhook", "bypass", "unlock", "original", "commit"}]
    BY DEF Init
  <2>5. QED
    BY <2>1, <2>2, <2>3, <2>4 DEF Init, TypeOK
<1>2. ListsInOrder /\ DetoursFollow /\ LoopsInOrder
  BY DEF Init, ListsInOrder, Ordered, DetoursFollow, LoopsInOrder
<1>3. QED
  BY <1>1, <1>2 DEF Inv

\* The mutex keeps lists still while a thread is inside Execute.
LEMMA NobodyInside ==
    ASSUME TypeOK, owner = "none", NEW t \in Threads
    PROVE  pc[t] \notin Inside
BY RegistryAssumption DEF TypeOK, Inside, RegistryAssumption

\* Verdicts, from the loop's point of view.
LEMMA NoStopper ==
    ASSUME NEW list \in Seq(HookEntry), NEW skips \in BOOLEAN, Gathered(list, Len(list) + 1, skips)
    PROVE  (IF skips THEN "overrideResult" ELSE "original") \in Verdicts(list)
<1>1. \A i \in DOMAIN list : i \in 1..Len(list) /\ i < Len(list) + 1
  OBVIOUS
<1>2. Stoppers(list) = {}
  BY <1>1 DEF Gathered, Stoppers
<1>3. skips <=> \E i \in DOMAIN list : list[i].effect = "override"
  BY <1>1 DEF Gathered
<1>4. QED
  BY <1>2, <1>3 DEF Verdicts

LEMMA FirstStopper ==
    ASSUME NEW list \in Seq(HookEntry), Ordered(list), NEW p \in DOMAIN list, NEW skips,
           Gathered(list, p, skips), list[p].effect \in {"skip", "block"}
    PROVE  (IF list[p].effect = "skip" THEN "S_OK" ELSE "E_FAIL") \in Verdicts(list)
<1>1. p \in Stoppers(list)
  BY DEF Stoppers
<1>2. ASSUME NEW j \in Stoppers(list) PROVE list[p].priority <= list[j].priority
  <2>1. j \in DOMAIN list /\ list[j].effect \in {"skip", "block"} /\ j \in Nat /\ p \in Nat
    BY DEF Stoppers
  <2>2. ~(j < p)
    BY <2>1 DEF Gathered
  <2>3. CASE p = j
    <3>0. list[p] \in HookEntry
      OBVIOUS
    <3>1. list[p].priority \in Nat
      BY <3>0, RegistryAssumption DEF HookEntry, RegistryAssumption
    <3>2. QED
      BY <2>3, <3>1
  <2>4. CASE p < j
    BY <2>1, <2>4 DEF Ordered
  <2>5. QED
    BY <2>1, <2>2, <2>3, <2>4
<1>3. p \in FirstStoppers(list)
  BY <1>1, <1>2 DEF FirstStoppers
<1>4. QED
  BY <1>1, <1>3 DEF Verdicts

\* One hook further.
LEMMA GatherNext ==
    ASSUME NEW list \in Seq(HookEntry), NEW p \in DOMAIN list, NEW skips \in BOOLEAN,
           Gathered(list, p, skips), list[p].effect \in {"continue", "override"}
    PROVE  Gathered(list, p + 1, skips \/ list[p].effect = "override")
<1>1. \A i \in DOMAIN list : i < p + 1 <=> i < p \/ i = p
  OBVIOUS
<1>2. QED
  BY <1>1 DEF Gathered

-----------------------------------------------------------------------------
(* Each action keeps it. *)

\* Register and UnregisterAll: nobody is inside, so only the lists are at stake.
LEMMA ListsChange ==
    ASSUME Inv, owner = "none", UNCHANGED <<owner, initVars, pc, callVars>>,
           hooks' \in [Methods -> Seq(HookEntry)], \A m \in Methods : Len(hooks'[m]) <= MaxHooks,
           removed' \subseteq Names, ListsInOrder'
    PROVE  Inv'
<1>1. TypeOK'
  BY DEF Inv, TypeOK, initVars, callVars
<1>2. DetoursFollow'
  BY DEF Inv, DetoursFollow, initVars
<1>3. LoopsInOrder'
  BY NobodyInside DEF Inv, LoopsInOrder, Inside, callVars
<1>4. QED
  BY <1>1, <1>2, <1>3 DEF Inv

LEMMA RegisterKeeps ==
    ASSUME Inv, NEW t \in Threads, NEW m \in Methods, NEW e \in HookEntry, Register(t, m, e)
    PROVE  Inv'
<1>1. /\ owner = "none" /\ Len(hooks[m]) < MaxHooks /\ removed' = removed \ {e.name}
      /\ UNCHANGED <<owner, initVars, pc, callVars>>
  BY DEF Register
<1>2. PICK s \in SortHooks(Append(hooks[m], e)) : hooks' = [hooks EXCEPT ![m] = s]
  BY DEF Register
<1>3. hooks \in [Methods -> Seq(HookEntry)] /\ hooks[m] \in Seq(HookEntry) /\ MaxHooks \in Nat
  BY RegistryAssumption DEF Inv, TypeOK, RegistryAssumption
<1>4. Append(hooks[m], e) \in Seq(HookEntry) /\ Len(Append(hooks[m], e)) = Len(hooks[m]) + 1
  BY <1>3
<1>5. /\ s \in Seq(HookEntry) /\ Len(s) = Len(hooks[m]) + 1 /\ Ordered(s)
      /\ \A i \in DOMAIN s : \E j \in DOMAIN Append(hooks[m], e) : s[i] = Append(hooks[m], e)[j]
  BY <1>2, <1>4, Sorting
<1>6. hooks' \in [Methods -> Seq(HookEntry)] /\ \A k \in Methods : Len(hooks'[k]) <= MaxHooks
  BY <1>1, <1>2, <1>3, <1>5 DEF Inv, TypeOK
<1>7. ASSUME NEW i \in DOMAIN s PROVE s[i].name \notin removed'
  <2>1. PICK j \in DOMAIN Append(hooks[m], e) : s[i] = Append(hooks[m], e)[j]
    BY <1>5
  <2>2. CASE j = Len(hooks[m]) + 1
    BY <1>1, <1>3, <2>1, <2>2
  <2>3. CASE j \in DOMAIN hooks[m]
    BY <1>1, <1>3, <2>1, <2>3 DEF Inv, ListsInOrder
  <2>4. QED
    BY <1>3, <1>4, <2>1, <2>2, <2>3
<1>8. ListsInOrder'
  BY <1>1, <1>2, <1>3, <1>5, <1>7 DEF Inv, ListsInOrder, Ordered
<1>9. QED
  BY <1>1, <1>6, <1>8, ListsChange DEF Inv, TypeOK

LEMMA UnregisterKeeps ==
    ASSUME Inv, NEW t \in Threads, NEW n \in Names, UnregisterAll(t, n)
    PROVE  Inv'
<1>1. /\ owner = "none" /\ removed' = removed \cup {n}
      /\ UNCHANGED <<owner, initVars, pc, callVars>>
  BY DEF UnregisterAll
<1>2. /\ hooks' \in [Methods -> UNION {Without(hooks[m], n) : m \in Methods}]
      /\ \A m \in Methods : hooks'[m] \in Without(hooks[m], n)
  BY DEF UnregisterAll, RemoveHooks
<1>3. ASSUME NEW m \in Methods
      PROVE  /\ hooks'[m] \in Seq(HookEntry) /\ Len(hooks'[m]) <= MaxHooks /\ Ordered(hooks'[m])
             /\ \A i \in DOMAIN hooks'[m] : hooks'[m][i].name \notin removed'
  <2>1. /\ hooks[m] \in Seq(HookEntry) /\ Len(hooks[m]) <= MaxHooks /\ Ordered(hooks[m]) /\ MaxHooks \in Nat
        /\ \A i \in DOMAIN hooks[m] : hooks[m][i].name \notin removed
    BY RegistryAssumption DEF Inv, TypeOK, ListsInOrder, RegistryAssumption
  <2>2. /\ hooks'[m] \in Seq(HookEntry) /\ Len(hooks'[m]) <= Len(hooks[m]) /\ Ordered(hooks'[m])
        /\ \A i \in DOMAIN hooks'[m] :
              hooks'[m][i].name # n /\ \E j \in DOMAIN hooks[m] : hooks'[m][i] = hooks[m][j]
    BY <1>2, <2>1, Removing
  <2>3. QED
    BY <1>1, <2>1, <2>2
<1>4. hooks' \in [Methods -> Seq(HookEntry)]
  BY <1>2, <1>3
<1>5. ListsInOrder'
  BY <1>3 DEF ListsInOrder, Ordered
<1>6. QED
  BY <1>1, <1>3, <1>4, <1>5, ListsChange DEF Inv, TypeOK

\* A step of a device call leaves the lists and the detours alone.
LEMMA CallKeeps ==
    ASSUME Inv, NEW t \in Threads,
           Execute(t) \/ \E m \in Methods : HookedCall(t, m)
    PROVE  TypeOK' /\ UNCHANGED <<hooks, removed, initVars>>
<1> USE RegistryAssumption DEF Inv, TypeOK, Goto, RegistryAssumption
<1>1. ASSUME NEW m \in Methods, HookedCall(t, m) PROVE TypeOK' /\ UNCHANGED <<hooks, removed, initVars>>
  BY <1>1 DEF HookedCall, regVars, initVars
<1>2. CASE ExecuteLock(t)
  BY <1>2 DEF ExecuteLock, initVars
<1>3. CASE LoopTest(t)
  BY <1>3 DEF LoopTest, regVars, initVars
<1>4. CASE CallOriginal(t)
  BY <1>4 DEF CallOriginal, regVars, initVars, callVars
<1>5. CASE HookReturns(t)
  <2>1. pos[t] + 1 \in 0..MaxHooks + 1
    BY <1>5 DEF HookReturns, LoopsInOrder
  <2>2. CASE UNCHANGED pos
    BY <1>5, <2>2 DEF HookReturns, regVars, initVars
  <2>3. CASE pos' = [pos EXCEPT ![t] = @ + 1]
    BY <1>5, <2>1, <2>3 DEF HookReturns, regVars, initVars
  <2>4. QED
    BY <1>5, <2>2, <2>3 DEF HookReturns
<1>6. CASE ExecuteUnlock(t)
  BY <1>6 DEF ExecuteUnlock, initVars, callVars
<1>7. CASE OriginalReturns(t)
  BY <1>7 DEF OriginalReturns, regVars, initVars
<1>8. QED
  BY <1>1, <1>2, <1>3, <1>4, <1>5, <1>6, <1>7 DEF Execute

LEMMA LoopsKept ==
    ASSUME Inv, NEW t \in Threads,
           Execute(t) \/ \E m \in Methods : HookedCall(t, m)
    PROVE  LoopsInOrder'
<1>1. TypeOK' /\ UNCHANGED <<hooks, removed, initVars>>
  BY CallKeeps
<1>2. method[t] \in Methods /\ hooks[method[t]] \in Seq(HookEntry) /\ skipOriginal[t] \in BOOLEAN
  BY DEF Inv, TypeOK
<1> DEFINE list == hooks[method[t]]
<1>3. \A u \in Threads \ {t} : /\ pc'[u] = pc[u] /\ method'[u] = method[u] /\ pos'[u] = pos[u]
                               /\ skipOriginal'[u] = skipOriginal[u] /\ outcome'[u] = outcome[u]
  BY DEF Execute, HookedCall, ExecuteLock, LoopTest, CallOriginal, HookReturns, ExecuteUnlock, OriginalReturns,
         Goto, callVars, Inv, TypeOK
<1>4. ASSUME /\ pc'[t] = "execute" => ~skipOriginal'[t]
             /\ pc'[t] \in {"loop", "inhook", "bypass"} =>
                  /\ pos'[t] \in 1..Len(hooks[method'[t]]) + 1
                  /\ Gathered(hooks[method'[t]], pos'[t], skipOriginal'[t])
             /\ pc'[t] \in {"inhook", "bypass"} => pos'[t] \in DOMAIN hooks[method'[t]]
             /\ pc'[t] = "unlock" => outcome'[t] \in Verdicts(hooks[method'[t]])
      PROVE  LoopsInOrder'
  BY <1>1, <1>3, <1>4 DEF Inv, LoopsInOrder
<1> HIDE DEF list
<1>p. pos \in [Threads -> Nat]
  <2>1. pos \in [Threads -> 0..MaxHooks + 1]
    BY DEF Inv, TypeOK
  <2>2. 0..MaxHooks + 1 \subseteq Nat
    BY RegistryAssumption DEF RegistryAssumption
  <2>3. QED
    BY <2>1, <2>2
<1>t. DOMAIN pc = Threads /\ pos \in [Threads -> Nat] /\ skipOriginal \in [Threads -> BOOLEAN]
      /\ DOMAIN outcome = Threads /\ DOMAIN method = Threads
  BY <1>p DEF Inv, TypeOK
<1>5. ASSUME NEW m \in Methods, HookedCall(t, m) PROVE LoopsInOrder'
  BY <1>4, <1>5, <1>t DEF HookedCall, Goto
<1>6. CASE ExecuteLock(t)
  <2>1. pc'[t] = "loop" /\ pos'[t] = 1 /\ method'[t] = method[t] /\ ~skipOriginal'[t]
    BY <1>6, <1>t DEF ExecuteLock, Goto, Inv, LoopsInOrder
  <2>2. Gathered(list, 1, FALSE) /\ 1 \in 1..Len(list) + 1
    BY <1>2 DEF Gathered, list
  <2>3. Gathered(list, pos'[t], skipOriginal'[t])
    BY <2>1, <2>2 DEF Gathered
  <2>4. QED
    BY <1>4, <2>1, <2>2, <2>3 DEF list
<1>7. CASE LoopTest(t)
  <2>1. /\ pc[t] = "loop" /\ method'[t] = method[t] /\ pos'[t] = pos[t] /\ skipOriginal'[t] = skipOriginal[t]
        /\ pos[t] \in 1..Len(list) + 1 /\ Gathered(list, pos[t], skipOriginal[t])
    BY <1>7 DEF LoopTest, Inv, LoopsInOrder, list
  <2>2. CASE pos[t] <= Len(list)
    <3>1. pc'[t] = "inhook" /\ pos[t] \in DOMAIN list
      BY <1>2, <1>7, <1>t, <2>1, <2>2 DEF LoopTest, Goto, list
    <3>2. QED
      BY <1>4, <2>1, <3>1 DEF list
  <2>3. CASE ~(pos[t] <= Len(list))
    <3>1. pc'[t] = "unlock" /\ outcome'[t] = IF skipOriginal[t] THEN "overrideResult" ELSE "original"
      BY <1>7, <1>t, <2>3 DEF LoopTest, Goto, list
    <3>2. pos[t] = Len(list) + 1
      BY <1>2, <2>1, <2>3 DEF list
    <3>3. outcome'[t] \in Verdicts(list)
      BY <1>2, <2>1, <3>1, <3>2, NoStopper DEF list
    <3>4. QED
      BY <1>4, <2>1, <3>1, <3>3 DEF list
  <2>4. QED
    BY <2>2, <2>3
<1>8. CASE CallOriginal(t)
  BY <1>4, <1>8, <1>t DEF CallOriginal, Goto, callVars, Inv, LoopsInOrder
<1>9. CASE HookReturns(t)
  <2>1. /\ method'[t] = method[t] /\ pos[t] \in DOMAIN list /\ Gathered(list, pos[t], skipOriginal[t])
        /\ Running(t) = list[pos[t]]
    BY <1>9 DEF HookReturns, Running, Inv, LoopsInOrder, list
  <2>2. CASE list[pos[t]].effect \in {"skip", "block"}
    <3>1. pc'[t] = "unlock" /\ outcome'[t] = IF list[pos[t]].effect = "skip" THEN "S_OK" ELSE "E_FAIL"
      BY <1>9, <1>t, <2>1, <2>2 DEF HookReturns, Goto
    <3>2. Ordered(list)
      BY <1>2 DEF Inv, ListsInOrder, list
    <3>3. outcome'[t] \in Verdicts(list)
      BY <1>2, <2>1, <2>2, <3>1, <3>2, FirstStopper DEF list
    <3>4. QED
      BY <1>4, <2>1, <3>1, <3>3 DEF list
  <2>3. CASE list[pos[t]].effect \in {"continue", "override"}
    <3>1. pc'[t] = "loop" /\ pos'[t] = pos[t] + 1
          /\ skipOriginal'[t] = (skipOriginal[t] \/ list[pos[t]].effect = "override")
      BY <1>9, <1>t, <2>1, <2>3 DEF HookReturns, Goto
    <3>2. Gathered(list, pos[t] + 1, skipOriginal[t] \/ list[pos[t]].effect = "override")
      BY <1>2, <2>1, <2>3, GatherNext DEF list
    <3>3. pos[t] + 1 \in 1..Len(list) + 1
      BY <1>2, <2>1 DEF list
    <3>4. Gathered(list, pos'[t], skipOriginal'[t])
      BY <3>1, <3>2
    <3>5. QED
      BY <1>4, <2>1, <3>1, <3>3, <3>4 DEF list
  <2>4. QED
    BY <1>9, <2>1, <2>2, <2>3 DEF HookReturns
<1>10. CASE ExecuteUnlock(t)
  BY <1>4, <1>10, <1>t DEF ExecuteUnlock, Goto
<1>11. CASE OriginalReturns(t)
  BY <1>4, <1>11, <1>t DEF OriginalReturns, Goto, Inv, DetoursFollow
<1>12. QED
  BY <1>5, <1>6, <1>7, <1>8, <1>9, <1>10, <1>11 DEF Execute

\* Initialize and Cleanup.
LEMMA DetoursKeep ==
    ASSUME Inv, NEW t \in Threads, Initialize(t) \/ Cleanup(t)
    PROVE  Inv'
<1>1. /\ UNCHANGED <<hooks, removed, owner, callVars>>
      /\ \A u \in Threads : pc'[u] # pc[u] => {pc[u], pc'[u]} \subseteq {"idle", "commit"}
  BY DEF Initialize, TakeOriginals, CommitDetours, Cleanup, Goto, regVars, Inv, TypeOK
<1>2. TypeOK'
  BY RegistryAssumption DEF Initialize, TakeOriginals, CommitDetours, Cleanup, Goto, regVars, initVars, callVars, Inv, TypeOK,
     RegistryAssumption
<1>p. DOMAIN pc = Threads
  BY DEF Inv, TypeOK
<1>3. DetoursFollow'
  <2>1. CASE TakeOriginals(t)
    BY <1>p, <2>1 DEF TakeOriginals, Goto, Inv, DetoursFollow
  <2>2. CASE CommitDetours(t)
    <3>1. \A u \in Threads : pc'[u] # "commit"
      BY <1>p, <2>2 DEF CommitDetours, Goto, Inv, DetoursFollow
    <3>2. (initialized' => attached') /\ (attached' => initDone' /\ originals' = "trampoline")
      BY <2>2 DEF CommitDetours, initVars, Inv, DetoursFollow
    <3>3. QED
      BY <3>1, <3>2 DEF DetoursFollow
  <2>3. CASE Cleanup(t)
    BY <2>3 DEF Cleanup, Inv, DetoursFollow
  <2>4. QED
    BY <2>1, <2>2, <2>3 DEF Initialize
<1>4. ListsInOrder'
  BY <1>1 DEF Inv, ListsInOrder, Ordered
<1>5. LoopsInOrder'
  BY <1>1 DEF Inv, LoopsInOrder, callVars
<1>6. QED
  BY <1>2, <1>3, <1>4, <1>5 DEF Inv

LEMMA InvStep == Inv /\ [Next]_vars => Inv'
<1> SUFFICES ASSUME Inv, [Next]_vars PROVE Inv'
  OBVIOUS
<1>1. ASSUME NEW t \in Threads, Execute(t) \/ \E m \in Methods : HookedCall(t, m) PROVE Inv'
  <2>1. TypeOK' /\ UNCHANGED <<hooks, removed, initVars>> /\ LoopsInOrder'
    BY <1>1, CallKeeps, LoopsKept
  <2>2. \A u \in Threads : pc'[u] = "commit" <=> pc[u] = "commit"
    BY <1>1 DEF Execute, HookedCall, ExecuteLock, LoopTest, CallOriginal, HookReturns, ExecuteUnlock, OriginalReturns,
       Goto, callVars, Inv, TypeOK
  <2>3. ListsInOrder' /\ DetoursFollow'
    BY <2>1, <2>2 DEF Inv, ListsInOrder, Ordered, DetoursFollow, initVars
  <2>4. QED
    BY <2>1, <2>3 DEF Inv
<1>2. CASE UNCHANGED vars
  <2>1. TypeOK'
    BY <1>2 DEF vars, regVars, initVars, callVars, Inv, TypeOK
  <2>2. ListsInOrder' /\ DetoursFollow'
    BY <1>2 DEF vars, regVars, initVars, Inv, ListsInOrder, Ordered, DetoursFollow
  <2>3. LoopsInOrder'
    BY <1>2 DEF vars, regVars, initVars, callVars, Inv, LoopsInOrder
  <2>4. QED
    BY <2>1, <2>2, <2>3 DEF Inv
<1>3. QED
  BY <1>1, <1>2, RegisterKeeps, UnregisterKeeps, DetoursKeep DEF Next

LEMMA InvHolds == Spec => []Inv
BY InvInit, InvStep, PTL DEF Spec

-----------------------------------------------------------------------------
(* The results. *)

\* Types, and g_registryMutex is held exactly by a thread inside an Execute function.
THEOREM TypeCorrect == Spec => []TypeOK
<1>1. Inv => TypeOK
  BY DEF Inv
<1>2. QED
  BY <1>1, InvHolds, PTL

\* Once UnregisterAll has returned, no hook of that patch runs, whatever calls are under
\* way on other threads.
THEOREM RemovedHooksAreGone == Spec => []NoHookAfterUnregister
<1>1. Inv => NoHookAfterUnregister
  BY DEF Inv, TypeOK, ListsInOrder, LoopsInOrder, NoHookAfterUnregister, Running
<1>2. QED
  BY <1>1, InvHolds, PTL

\* A device call ends as the first stopping hook by priority says, in whatever order the
\* patches came and went.
THEOREM PriorityDecides == Spec => []OutcomeFollowsPriority
<1>1. Inv => OutcomeFollowsPriority
  BY DEF Inv, LoopsInOrder, OutcomeFollowsPriority
<1>2. QED
  BY <1>1, InvHolds, PTL

\* While the detours are in, the original pointers are trampolines, also when the commit
\* of Initialize or of Cleanup failed.
THEOREM OriginalsDoBypass == Spec => []OriginalsBypass
<1>1. Inv => OriginalsBypass
  BY DEF Inv, DetoursFollow, OriginalsBypass
<1>2. QED
  BY <1>1, InvHolds, PTL

-----------------------------------------------------------------------------
(* A call's steps, counted: the part of DeviceCallsReturn that needs no fairness. *)

\* The steps left of a call, three for each hook that has not run yet; before the
\* mutex is taken the list may still grow, up to MaxHooks.
Remaining(t) ==
    LET left == 3 * (Len(hooks[method[t]]) + 1 - pos[t])
    IN  CASE pc[t] = "execute" -> 3 * MaxHooks + 4
          [] pc[t] = "loop" -> left + 3
          [] pc[t] = "inhook" -> left + 2
          [] pc[t] = "bypass" -> left + 1
          [] pc[t] = "unlock" -> 2
          [] pc[t] \in {"original", "commit"} -> 1
          [] OTHER -> 0

\* Every call has a number of steps left that MaxHooks bounds, and is over at none.
StepsAreBounded == \A t \in Threads :
    Remaining(t) \in 0..3 * MaxHooks + 4 /\ (Remaining(t) = 0 <=> pc[t] = "idle")

\* A call's own steps use them up, whatever its hooks answer; nobody else's step adds to them.
StepsRunOut == \A t \in Threads :
    /\ Execute(t) \/ CommitDetours(t) => Remaining(t)' < Remaining(t)
    /\ pc[t] # "idle" => Remaining(t)' <= Remaining(t)

\* The numbers behind Remaining: the position in a list that MaxHooks bounds.
LEMMA Positions ==
    ASSUME Inv, NEW t \in Threads
    PROVE  /\ MaxHooks \in Nat /\ Len(hooks[method[t]]) \in 0..MaxHooks /\ pos[t] \in Nat
           /\ pc[t] \in {"loop", "inhook", "bypass"} =>
                 pos[t] >= 1 /\ pos[t] <= Len(hooks[method[t]]) + 1
           /\ pc[t] \in {"inhook", "bypass"} => pos[t] <= Len(hooks[method[t]])
<1>1. MaxHooks \in Nat
  BY RegistryAssumption DEF RegistryAssumption
<1>2. method[t] \in Methods /\ hooks[method[t]] \in Seq(HookEntry) /\ pos[t] \in 0..MaxHooks + 1
  BY DEF Inv, TypeOK
<1>3. Len(hooks[method[t]]) \in Nat /\ Len(hooks[method[t]]) <= MaxHooks
  BY <1>2 DEF Inv, TypeOK
<1>4. QED
  BY <1>1, <1>2, <1>3 DEF Inv, LoopsInOrder

LEMMA RemainingIsBounded ==
    ASSUME Inv, NEW t \in Threads
    PROVE  Remaining(t) \in 0..3 * MaxHooks + 4 /\ (Remaining(t) = 0 <=> pc[t] = "idle")
<1>1. pc[t] \in {"idle", "execute", "loop", "inhook", "bypass", "unlock", "original", "commit"}
  BY DEF Inv, TypeOK
<1> DEFINE len == Len(hooks[method[t]])
<1>2. /\ MaxHooks \in Nat /\ len \in 0..MaxHooks /\ pos[t] \in Nat
      /\ pc[t] \in {"loop", "inhook", "bypass"} => pos[t] >= 1 /\ pos[t] <= len + 1
  BY Positions
<1>3. CASE pc[t] \in {"loop", "inhook", "bypass"}
  <2>1. PICK k \in 1..3 : Remaining(t) = 3 * (len + 1 - pos[t]) + k
    BY <1>3 DEF Remaining
  <2> HIDE DEF len
  <2>2. QED
    BY <1>2, <1>3, <2>1
<1>4. CASE pc[t] \in {"idle", "execute", "unlock", "original", "commit"}
  <2>1. Remaining(t) \in {0, 1, 2, 3 * MaxHooks + 4} /\ (Remaining(t) = 0 <=> pc[t] = "idle")
    BY <1>2, <1>4 DEF Remaining
  <2>2. QED
    BY <1>2, <2>1
<1>5. QED
  BY <1>1, <1>3, <1>4

\* A thread's own step.
LEMMA OwnStepShortens ==
    ASSUME Inv, NEW t \in Threads, Execute(t) \/ CommitDetours(t)
    PROVE  Remaining(t)' < Remaining(t)
<1> DEFINE len == Len(hooks[method[t]])
<1>t. /\ pc \in [Threads -> {"idle", "execute", "loop", "inhook", "bypass", "unlock", "original", "commit"}]
      /\ DOMAIN pos = Threads
  BY DEF Inv, TypeOK
<1>p. /\ MaxHooks \in Nat /\ len \in 0..MaxHooks /\ pos[t] \in Nat
      /\ pc[t] \in {"loop", "inhook", "bypass"} => pos[t] >= 1 /\ pos[t] <= len + 1
      /\ pc[t] \in {"inhook", "bypass"} => pos[t] <= len
  BY Positions
<1>1. CASE ExecuteLock(t)
  <2>1. pc[t] = "execute" /\ pc'[t] = "loop" /\ pos'[t] = 1 /\ UNCHANGED <<hooks, method>>
    BY <1>1, <1>t DEF ExecuteLock, Goto
  <2>2. Remaining(t) = 3 * MaxHooks + 4 /\ Remaining(t)' = 3 * (len + 1 - 1) + 3
    BY <2>1 DEF Remaining
  <2>3. QED
    BY <1>p, <2>2
<1>2. CASE LoopTest(t)
  <2>1. /\ pc[t] = "loop" /\ pc'[t] = (IF pos[t] <= len THEN "inhook" ELSE "unlock")
        /\ UNCHANGED <<hooks, method, pos>>
    BY <1>2, <1>t DEF LoopTest, Goto, regVars
  <2>2. Remaining(t) = 3 * (len + 1 - pos[t]) + 3
    BY <2>1 DEF Remaining
  <2>3. Remaining(t)' = IF pos[t] <= len THEN 3 * (len + 1 - pos[t]) + 2 ELSE 2
    BY <2>1 DEF Remaining
  <2>4. QED
    BY <1>p, <2>1, <2>2, <2>3
<1>3. CASE CallOriginal(t)
  <2>1. pc[t] = "inhook" /\ pc'[t] = "bypass" /\ UNCHANGED <<hooks, method, pos>>
    BY <1>3, <1>t DEF CallOriginal, Goto, regVars, callVars
  <2>2. Remaining(t) = 3 * (len + 1 - pos[t]) + 2 /\ Remaining(t)' = 3 * (len + 1 - pos[t]) + 1
    BY <2>1 DEF Remaining
  <2>3. QED
    BY <1>p, <2>2
<1>4. CASE HookReturns(t)
  <2>1. /\ pc[t] \in {"inhook", "bypass"} /\ UNCHANGED <<hooks, method>>
        /\ pc'[t] = "unlock" \/ (pc'[t] = "loop" /\ pos'[t] = pos[t] + 1)
    BY <1>4, <1>t DEF HookReturns, Goto, regVars
  <2>2. PICK k \in 1..2 : Remaining(t) = 3 * (len + 1 - pos[t]) + k
    BY <2>1 DEF Remaining
  <2>3. Remaining(t)' = 2 \/ Remaining(t)' = 3 * (len + 1 - (pos[t] + 1)) + 3
    BY <2>1 DEF Remaining
  <2> HIDE DEF len
  <2>4. QED
    BY <1>p, <2>1, <2>2, <2>3
<1>5. CASE ExecuteUnlock(t)
  <2>1. pc[t] = "unlock" /\ pc'[t] \in {"original", "idle"}
    BY <1>5, <1>t DEF ExecuteUnlock, Goto
  <2>2. QED
    BY <2>1 DEF Remaining
<1>6. CASE OriginalReturns(t)
  <2>1. pc[t] = "original" /\ pc'[t] = "idle"
    BY <1>6, <1>t DEF OriginalReturns, Goto, Inv, DetoursFollow
  <2>2. QED
    BY <2>1 DEF Remaining
<1>7. CASE CommitDetours(t)
  <2>1. pc[t] = "commit" /\ pc'[t] = "idle"
    BY <1>7, <1>t DEF CommitDetours, Goto
  <2>2. QED
    BY <2>1 DEF Remaining
<1>8. QED
  BY <1>1, <1>2, <1>3, <1>4, <1>5, <1>6, <1>7 DEF Execute

\* A step of another thread: the lists only change while nobody is inside.
LEMMA OthersLeaveIt ==
    ASSUME Inv, NEW t \in Threads, pc[t] # "idle", NEW u \in Threads, u # t \/ pc[u] = "idle",
           \/ \E m \in Methods : HookedCall(u, m) \/ \E e \in HookEntry : Register(u, m, e)
           \/ \E n \in Names : UnregisterAll(u, n)
           \/ Execute(u) \/ Initialize(u) \/ Cleanup(u)
    PROVE  Remaining(t)' = Remaining(t)
<1>t. DOMAIN pc = Threads /\ DOMAIN pos = Threads /\ DOMAIN method = Threads
  BY DEF Inv, TypeOK
<1>u. u # t
  OBVIOUS
<1>1. ASSUME NEW m \in Methods, NEW e \in HookEntry, Register(u, m, e) PROVE Remaining(t)' = Remaining(t)
  <2>1. owner = "none" /\ UNCHANGED <<pc, method, pos>>
    BY <1>1 DEF Register, callVars
  <2>2. pc[t] \notin Inside
    BY <2>1, NobodyInside DEF Inv
  <2>3. QED
    BY <2>1, <2>2 DEF Remaining, Inside
<1>2. ASSUME NEW n \in Names, UnregisterAll(u, n) PROVE Remaining(t)' = Remaining(t)
  <2>1. owner = "none" /\ UNCHANGED <<pc, method, pos>>
    BY <1>2 DEF UnregisterAll, callVars
  <2>2. pc[t] \notin Inside
    BY <2>1, NobodyInside DEF Inv
  <2>3. QED
    BY <2>1, <2>2 DEF Remaining, Inside
<1>3. ASSUME Execute(u) \/ (\E m \in Methods : HookedCall(u, m)) \/ Initialize(u) \/ Cleanup(u)
      PROVE  Remaining(t)' = Remaining(t)
  <2>1. UNCHANGED hooks
    BY <1>3, CallKeeps DEF Initialize, TakeOriginals, CommitDetours, Cleanup, regVars
  <2>2. pc'[t] = pc[t] /\ method'[t] = method[t] /\ pos'[t] = pos[t]
    BY <1>3, <1>t, <1>u DEF Execute, HookedCall, ExecuteLock, LoopTest, CallOriginal, HookReturns, ExecuteUnlock,
       OriginalReturns, Initialize, TakeOriginals, CommitDetours, Cleanup, Goto, callVars
  <2>3. QED
    BY <2>1, <2>2 DEF Remaining
<1>4. QED
  BY <1>1, <1>2, <1>3

\* A device call takes at most 3 * MaxHooks + 4 steps of its own thread, and no step of
\* another one, Register and Cleanup in the midst of it included, adds to them: what is
\* left of DeviceCallsReturn is that the thread is scheduled and gets the mutex.
THEOREM CallsAreBounded == Spec => []StepsAreBounded /\ [][StepsRunOut]_vars
<1>1. Inv => StepsAreBounded
  BY RemainingIsBounded DEF StepsAreBounded
<1>2. Inv' => StepsAreBounded'
  BY <1>1, PTL
<1>3. Inv /\ Inv' /\ [Next]_vars => [StepsRunOut]_vars
  <2> SUFFICES ASSUME Inv, Inv', Next, NEW t \in Threads
               PROVE  /\ Execute(t) \/ CommitDetours(t) => Remaining(t)' < Remaining(t)
                      /\ pc[t] # "idle" => Remaining(t)' <= Remaining(t)
    BY DEF StepsRunOut
  <2>1. Remaining(t) \in Nat /\ Remaining(t)' \in Nat
    BY <1>1, <1>2, RegistryAssumption DEF StepsAreBounded, RegistryAssumption
  <2>2. PICK u \in Threads :
           \/ \E m \in Methods : HookedCall(u, m) \/ \E e \in HookEntry : Register(u, m, e)
           \/ \E n \in Names : UnregisterAll(u, n)
           \/ Execute(u) \/ Initialize(u) \/ Cleanup(u)
    BY DEF Next
  <2>3. CASE u # t \/ pc[u] = "idle"
    <3>1. pc[t] # "idle" => Remaining(t)' = Remaining(t)
      BY <2>2, <2>3, OthersLeaveIt
    <3>2. QED
      BY <2>1, <3>1, OwnStepShortens
  <2>4. CASE u = t /\ pc[t] # "idle"
    <3>1. Execute(t) \/ CommitDetours(t)
      BY <2>2, <2>4 DEF HookedCall, Register, UnregisterAll, Initialize, TakeOriginals, Cleanup
    <3>2. QED
      BY <2>1, <3>1, OwnStepShortens
  <2>5. QED
    BY <2>3, <2>4
<1>4. QED
  BY <1>1, <1>3, InvHolds, PTL DEF Spec

=============================================================================
