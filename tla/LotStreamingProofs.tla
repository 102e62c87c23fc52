------------------------- MODULE LotStreamingProofs -------------------------
(***************************************************************************)
(* Theorems about LotStreaming for any number of lots, lists of any        *)
(* length, any values of objectsPerLot and any number of requests.         *)
(***************************************************************************)
EXTENDS LotStreaming, WellFoundedInduction, TLAPS

(* Invariants. *)

States == [next : Nat, startedDetailed : BOOLEAN, needsPost : BOOLEAN, objBegin : Nat]
Steps == {"none", "enter", "build", "save"}
Calls == [lot : Lots \cup {NoLot}, step : Steps, next : Nat, startedDetailed : BOOLEAN]

LotTypes ==
    /\ objects \in [Lots -> Seq({"large", "regular"})]
    /\ list \in [Lots -> Nat] /\ lists \in Nat
    /\ detailed \in [Lots -> BOOLEAN] /\ bulldozing \in [Lots -> BOOLEAN]
    /\ built \in [Lots -> SUBSET Nat] /\ wanted \subseteq Lots
    /\ g_state \in [Lots -> States]
    /\ call \in Calls
    /\ call.step = "none" => call = NoCall
    /\ call.step # "none" => call.lot \in Lots

\* A list's address is used once.  Whoever may go on with a stream finds its large
\* objects built, and so does the game after its call.
LotSound(l) ==
    /\ list[l] <= lists /\ (objects[l] # <<>> => list[l] > 0)
    /\ l \in wanted => l \in alive /\ ~bulldozing[l]
    /\ Known(l) => g_state[l].objBegin \in 1..lists
    /\ Known(l) /\ g_state[l].objBegin = list[l] => Large(objects[l]) \subseteq built[l]
    /\ l \in wanted /\ call.lot # l => Large(objects[l]) \subseteq built[l]

CallSound ==
    call.step \in {"build", "save"} /\ (call.next # 0 \/ call.step = "save") =>
        Large(objects[call.lot]) \subseteq built[call.lot]

ShellInv == LotTypes /\ (\A l \in Lots : LotSound(l)) /\ CallSound

\* What lies before the place where a stream goes on is built.
Reached(l, next) == \A i \in DOMAIN objects[l] : i <= next => i \in built[l]

LotReached(l) == Known(l) /\ g_state[l].objBegin = list[l] => Reached(l, g_state[l].next)
CallReached == call.step \in {"build", "save"} => Reached(call.lot, call.next)

SkipInv == (\A l \in Lots : LotReached(l)) /\ CallReached

\* A wanted stream has the level of detail it was asked for.  A lot whose objects are
\* still wanted is in a call, or else the detour is in and somebody will call it.
LotKept(l) ==
    /\ built[l] \subseteq DOMAIN objects[l]
    /\ l \in wanted /\ Known(l) /\ g_state[l].objBegin = list[l] =>
          g_state[l].startedDetailed = detailed[l]
    /\ l \in wanted /\ built[l] # DOMAIN objects[l] =>
          \/ call.lot = l
          \/ /\ entry = "detour"
             /\ (g_throttleActive /\ g_state[l].needsPost) \/ l \in posts \/ queue[l] > 0

CallKept ==
    call.step \in {"build", "save"} /\ call.lot \in wanted =>
        entry = "detour" /\ call.startedDetailed = detailed[call.lot]

Gates ==
    /\ queue \in [Lots -> Nat]
    /\ hook # "posting" => posts = {}
    /\ hook \in {"idle", "posting"} => entry = "detour" /\ g_throttleActive = TRUE
    /\ hook \notin {"idle", "posting"} => entry = "original"

KeepInv == (\A l \in Lots : LotKept(l)) /\ CallKept /\ Gates

-----------------------------------------------------------------------------
(* One window. *)

LEMMA MinIsLeast ==
    ASSUME NEW S, S \subseteq Nat, S # {}
    PROVE  Min(S) \in S /\ \A x \in S : Min(S) <= x
<1>1. PICK x \in S : \A y \in S : ~(<<y, x>> \in OpToRel(<, Nat))
    BY NatLessThanWellFounded, WFMin
<1>2. \A y \in S : x <= y
  <2> SUFFICES ASSUME NEW y \in S PROVE x <= y
      OBVIOUS
  <2>1. <<y, x>> \notin OpToRel(<, Nat)
      BY <1>1
  <2>2. x \in Nat /\ y \in Nat
      OBVIOUS
  <2>3. ~(y < x)
      BY <2>1, <2>2, Zenon DEF OpToRel
  <2> QED BY <2>2, <2>3
<1> QED BY <1>2 DEF Min

\* A window leaves no regular object behind before the place where it stops.
LEMMA WindowReaches ==
    ASSUME NEW s \in Seq({"large", "regular"}), NEW next \in Nat, NEW quota
    PROVE  /\ Window(s, next, quota) \subseteq DOMAIN s
           /\ Stop(s, next, quota) \in Nat
           /\ \A i \in DOMAIN s : next < i /\ i <= Stop(s, next, quota) =>
                 i \in Large(s) \cup Window(s, next, quota)
<1> DEFINE W == Window(s, next, quota)
           rest == Regular(s, next) \ W
<1>1. W \subseteq DOMAIN s /\ DOMAIN s = 1..Len(s) /\ Len(s) \in Nat
    BY DEF Window, Regular
<1>2. Stop(s, next, quota) = IF rest = {} THEN Len(s) ELSE Min(rest) - 1
    BY DEF Stop
<1>3. rest \subseteq 1..Len(s)
    BY <1>1 DEF Regular
<1>4. rest # {} => Min(rest) \in rest /\ \A i \in rest : Min(rest) <= i
  <2>1. rest \subseteq Nat
      BY <1>1, <1>3
  <2> HIDE DEF rest
  <2> QED BY <2>1, MinIsLeast
<1>5. \/ rest = {} /\ Stop(s, next, quota) = Len(s)
      \/ \E m \in rest : Stop(s, next, quota) = m - 1 /\ \A i \in rest : m <= i
    BY <1>2, <1>4, Zenon
<1>6. ASSUME NEW i \in DOMAIN s, next < i, i <= Stop(s, next, quota)
      PROVE  i \in Large(s) \cup W
  <2>1. i \notin rest
    <3>1. i \in Nat
        BY <1>1
    <3> HIDE DEF rest
    <3> QED BY <1>1, <1>3, <1>5, <1>6, <3>1
  <2> QED BY <1>6, <2>1 DEF Regular, Large
<1>7. Stop(s, next, quota) \in Nat
  <2> HIDE DEF rest
  <2> QED BY <1>1, <1>3, <1>5
<1> QED BY <1>1, <1>6, <1>7

\* What is left of a list when one object has gone.
LEMMA RemovalKeeps ==
    ASSUME LotTypes, NEW l \in Lots, NEW i \in DOMAIN objects[l], RemoveObject(l, i)
    PROVE  /\ objects' \in [Lots -> Seq({"large", "regular"})]
           /\ built' \in [Lots -> SUBSET Nat]
           /\ \A m \in Lots \ {l} : objects'[m] = objects[m] /\ built'[m] = built[m]
           /\ objects'[l] # <<>> => objects[l] # <<>>
           /\ Large(objects[l]) \subseteq built[l] => Large(objects'[l]) \subseteq built'[l]
           /\ built'[l] \subseteq DOMAIN objects'[l]
           /\ built[l] = DOMAIN objects[l] => built'[l] = DOMAIN objects'[l]
<1> DEFINE Old(j) == IF j < i THEN j ELSE j + 1
           kept == 1..(Len(objects[l]) - 1)
           left == [j \in kept |-> objects[l][Old(j)]]
           still == {j \in kept : Old(j) \in built[l]}
<1>1. objects[l] \in Seq({"large", "regular"}) /\ objects[l] # <<>>
    BY DEF LotTypes
<1>2. Len(objects[l]) \in Nat \ {0} /\ DOMAIN objects[l] = 1..Len(objects[l])
    BY <1>1
<1>3. objects' = [objects EXCEPT ![l] = left] /\ built' = [built EXCEPT ![l] = still]
    BY DEF RemoveObject
<1>4. \A j \in kept : Old(j) \in DOMAIN objects[l]
    BY <1>2
<1>5. left \in Seq({"large", "regular"})
  <2>1. \A j \in kept : objects[l][Old(j)] \in {"large", "regular"}
      BY <1>1, <1>2, <1>4
  <2>2. Len(objects[l]) - 1 \in Nat
      BY <1>2
  <2> HIDE DEF Old
  <2> QED BY <2>1, <2>2
<1>6. DOMAIN left = kept /\ still \subseteq kept /\ kept \subseteq Nat
    BY <1>2
<1>7. Large(objects[l]) \subseteq built[l] => Large(left) \subseteq still
    BY <1>4 DEF Large
<1>8. built[l] = DOMAIN objects[l] => still = kept
    BY <1>4
<1>9. objects'[l] = left /\ built'[l] = still
    BY <1>3 DEF LotTypes
<1> HIDE DEF left, still, kept, Old
<1>10. objects' \in [Lots -> Seq({"large", "regular"})] /\ built' \in [Lots -> SUBSET Nat]
    BY <1>3, <1>5, <1>6 DEF LotTypes
<1>11. \A m \in Lots \ {l} : objects'[m] = objects[m] /\ built'[m] = built[m]
    BY <1>3 DEF LotTypes
<1> QED BY <1>1, <1>6, <1>7, <1>8, <1>9, <1>10, <1>11

-----------------------------------------------------------------------------
(* Types. *)

LEMMA TypesInit == Init => LotTypes
BY DEF Init, LotTypes, NoState, NoCall, States, Calls, Steps

LEMMA TypesStep == ASSUME LotTypes, [Next]_vars PROVE LotTypes'
<1> USE DEF LotTypes
<1>1. NoCall \in Calls /\ NoState \in States /\ NoCall.step = "none"
    BY DEF NoCall, NoState, Calls, Steps, States
<1>2. ASSUME NEW l \in Lots, NEW s \in Lists[l], Load(l, s) PROVE LotTypes'
    BY <1>2, LotAssumption DEF Load, LotAssumption, stateVars
<1>3. ASSUME NEW l \in Lots, Free(l) PROVE LotTypes'
  <2>1. <<>> \in Seq({"large", "regular"})
      OBVIOUS
  <2> QED BY <1>3, <2>1 DEF Free, stateVars
<1>4. ASSUME NEW l \in Lots, ChangeDetail(l) \/ Bulldoze(l) PROVE LotTypes'
    BY <1>4 DEF ChangeDetail, Bulldoze, stateVars
<1>5. ASSUME NEW l \in Lots, NEW i \in DOMAIN objects[l], RemoveObject(l, i) PROVE LotTypes'
    BY <1>5, RemovalKeeps DEF RemoveObject, stateVars
<1>6. ASSUME NEW l \in Lots, Request(l) \/ RunPosted(l) PROVE LotTypes'
  <2>1. call' = [NoCall EXCEPT !.lot = l, !.step = "enter"]
        /\ wanted' \subseteq wanted \cup {l} /\ UNCHANGED <<lotVars, built, g_state>>
      BY <1>6 DEF Request, RunPosted, workVars, stateVars
  <2>2. call' \in Calls /\ call'.step = "enter" /\ call'.lot = l
      BY <2>1 DEF NoCall, Calls, Steps
  <2> QED BY <2>1, <2>2 DEF lotVars
<1>7. ASSUME Original PROVE LotTypes'
  <2>1. call.lot \in Lots /\ DOMAIN objects[call.lot] \subseteq Nat
      BY <1>7 DEF Original
  <2> QED BY <1>1, <1>7, <2>1 DEF Original, lotVars, stateVars
<1>8. ASSUME Bulldozed \/ GiveUp PROVE LotTypes'
    BY <1>1, <1>8 DEF Bulldozed, GiveUp, EraseState, lotVars, workVars
<1>9. ASSUME Lookup PROVE LotTypes'
  <2>1. call.lot \in Lots /\ UNCHANGED <<lotVars, built, wanted, g_state>>
      BY <1>9 DEF Lookup, workVars, stateVars
  <2>2. call' \in Calls /\ call'.step = "build" /\ call'.lot \in Lots
      BY <1>9, <2>1 DEF Lookup, Calls, Steps, States
  <2> QED BY <2>1, <2>2 DEF lotVars
<1>10. ASSUME BuildWindow PROVE LotTypes'
  <2> DEFINE l == call.lot
             s == objects[l]
  <2>1. l \in Lots /\ s \in Seq({"large", "regular"}) /\ call.next \in Nat
      BY <1>10 DEF BuildWindow, Calls
  <2>2. PICK k \in PerLot :
          /\ built' = [built EXCEPT ![l] = @ \cup Window(s, call.next, ClampPerLot(k))
                                             \cup (IF call.next = 0 THEN Large(s) ELSE {})]
          /\ call' = [call EXCEPT !.step = "save", !.next = Stop(s, @, ClampPerLot(k))]
      BY <1>10 DEF BuildWindow
  <2>3. /\ Window(s, call.next, ClampPerLot(k)) \subseteq Nat
        /\ Stop(s, call.next, ClampPerLot(k)) \in Nat
        /\ Large(s) \subseteq Nat
      BY <2>1, WindowReaches DEF Large
  <2>4. call' \in Calls /\ call'.step = "save" /\ call'.lot = l
      BY <2>1, <2>2, <2>3 DEF Calls, Steps
  <2>5. built' \in [Lots -> SUBSET Nat]
      BY <2>1, <2>2, <2>3
  <2>6. UNCHANGED <<lotVars, wanted, g_state>>
      BY <1>10 DEF BuildWindow, stateVars
  <2> QED BY <2>1, <2>4, <2>5, <2>6 DEF lotVars
<1>11. ASSUME SaveWindow PROVE LotTypes'
  <2>1. call.lot \in Lots
      BY <1>11 DEF SaveWindow
  <2>2. [next |-> call.next, startedDetailed |-> call.startedDetailed, needsPost |-> TRUE,
         objBegin |-> list[call.lot]] \in States
      BY <2>1 DEF States, Calls
  <2>3. g_state' \in [Lots -> States]
      BY <1>1, <1>11, <2>1, <2>2 DEF SaveWindow, EraseState
  <2> QED BY <1>1, <1>11, <2>3 DEF SaveWindow, lotVars, workVars
<1>12. ASSUME DrainPending PROVE LotTypes'
  <2>1. \A l \in Lots : [g_state[l] EXCEPT !.needsPost = FALSE] \in States
      BY DEF States
  <2>2. g_state' \in [Lots -> States]
      BY <1>12, <2>1 DEF DrainPending
  <2> QED BY <1>12, <2>2 DEF DrainPending, lotVars, workVars
<1>13. ASSUME NEW l \in Lots, Post(l) PROVE LotTypes'
    BY <1>1, <1>13 DEF Post, EraseState, lotVars, workVars, stateVars
<1>14. ASSUME Uninstalled \/ Install PROVE LotTypes'
    BY <1>1, <1>14 DEF Uninstalled, Install, ClearState, lotVars, workVars
<1>15. ASSUME \/ Uninstall \/ Installed \/ UNCHANGED vars
              \/ \E l \in Lots : DelayElapses(l)
       PROVE  LotTypes'
    BY <1>15 DEF Uninstall, Installed, DelayElapses, vars, lotVars, workVars, stateVars
<1> QED
    BY <1>2, <1>3, <1>4, <1>5, <1>6, <1>7, <1>8, <1>9, <1>10, <1>11, <1>12, <1>13, <1>14, <1>15
    DEF Next, Detour, HookThread, Game

-----------------------------------------------------------------------------
(* Large objects first. *)

LEMMA ShellInit == Init => ShellInv
<1> SUFFICES ASSUME Init PROVE ShellInv
    OBVIOUS
<1>1. ASSUME NEW l \in Lots PROVE LotSound(l)
    BY DEF Init, LotSound, Known
<1> QED BY <1>1, TypesInit DEF Init, ShellInv, CallSound, NoCall

\* A lot whose list and flags stay, whose objects stay built, whose state is kept or
\* forgotten, and for which no call ends.
LEMMA LotFrame ==
    ASSUME NEW l \in Lots, LotTypes, LotTypes', LotSound(l),
           UNCHANGED <<objects, list, lists>>,
           built[l] \subseteq built'[l],
           l \in wanted' => l \in wanted /\ l \in alive' /\ bulldozing'[l] = bulldozing[l],
           l \in wanted' /\ call'.lot # l => call.lot # l,
           \/ g_state'[l] \in {g_state[l], NoState}
           \/ g_state'[l].objBegin = g_state[l].objBegin /\ Known(l)
    PROVE  LotSound(l)'
<1>1. Known(l)' => Known(l) /\ g_state'[l].objBegin = g_state[l].objBegin
    BY DEF Known
<1> QED BY <1>1 DEF LotSound, LotTypes, Large

\* The same for the lots a step of the game is not about.
LEMMA LotOfOthers ==
    ASSUME NEW l \in Lots, LotTypes, LotTypes', LotSound(l),
           objects'[l] = objects[l], list'[l] = list[l], built'[l] = built[l],
           bulldozing'[l] = bulldozing[l], g_state'[l] = g_state[l], lists <= lists',
           l \in wanted' => l \in wanted, l \in alive => l \in alive',
           call'.lot # l => call.lot # l
    PROVE  LotSound(l)'
<1>1. Known(l)' => Known(l)
    BY DEF Known
<1> QED BY <1>1 DEF LotSound, LotTypes, Large, States

LEMMA ShellStep == ASSUME ShellInv, [Next]_vars PROVE ShellInv'
<1> USE DEF ShellInv
<1>a. LotTypes'
    BY TypesStep
<1>b. call = NoCall => \A l \in Lots : call.lot # l
    BY LotAssumption DEF LotAssumption, NoCall
<1>c. NoCall.step = "none" /\ NoState.next = 0
    BY DEF NoCall, NoState
<1> SUFFICES (\A l \in Lots : LotSound(l)') /\ CallSound'
    BY <1>a
<1> DEFINE Goal == (\A l \in Lots : LotSound(l)') /\ CallSound'
<1>1. ASSUME NEW l \in Lots, NEW s \in Lists[l], Load(l, s) PROVE Goal
  <2>1. /\ call' = call /\ call = NoCall /\ lists' = lists + 1 /\ alive \subseteq alive'
        /\ list' = [list EXCEPT ![l] = lists + 1] /\ wanted' = wanted \ {l} /\ g_state' = g_state
        /\ objects' = [objects EXCEPT ![l] = s] /\ built' = [built EXCEPT ![l] = {}]
        /\ bulldozing' = [bulldozing EXCEPT ![l] = FALSE]
      BY <1>1 DEF Load, stateVars
  <2>2. ASSUME NEW m \in Lots, m # l PROVE LotSound(m)'
    <3>1. /\ objects'[m] = objects[m] /\ list'[m] = list[m] /\ built'[m] = built[m]
          /\ bulldozing'[m] = bulldozing[m] /\ g_state'[m] = g_state[m] /\ lists <= lists'
        BY <2>1, <2>2 DEF LotTypes
    <3>2. call'.lot # m => call.lot # m
        BY <2>1, <2>2
    <3> QED BY <1>a, <2>1, <2>2, <3>1, <3>2, LotOfOthers
  <2>3. LotSound(l)'
    <3>1. list'[l] = lists + 1 /\ lists \in Nat /\ l \notin wanted'
        BY <2>1 DEF LotTypes
    <3>2. Known(l)' => g_state'[l].objBegin \in 1..lists
        BY <2>1 DEF LotSound, Known
    <3> QED BY <2>1, <3>1, <3>2 DEF LotSound
  <2> QED BY <1>c, <2>1, <2>2, <2>3 DEF CallSound
<1>2. ASSUME NEW l \in Lots, Free(l) PROVE Goal
  <2>1. /\ call' = call /\ call = NoCall /\ lists' = lists /\ alive' = alive \ {l}
        /\ list' = [list EXCEPT ![l] = 0] /\ wanted' = wanted \ {l} /\ g_state' = g_state
        /\ objects' = [objects EXCEPT ![l] = <<>>] /\ built' = [built EXCEPT ![l] = {}]
        /\ bulldozing' = bulldozing
      BY <1>2 DEF Free, stateVars
  <2>2. ASSUME NEW m \in Lots, m # l PROVE LotSound(m)'
    <3>1. /\ objects'[m] = objects[m] /\ list'[m] = list[m] /\ built'[m] = built[m]
          /\ bulldozing'[m] = bulldozing[m] /\ g_state'[m] = g_state[m] /\ lists <= lists'
        BY <2>1, <2>2 DEF LotTypes
    <3>2. call'.lot # m => call.lot # m
        BY <2>1, <2>2
    <3> QED BY <1>a, <2>1, <2>2, <3>1, <3>2, LotOfOthers
  <2>3. LotSound(l)'
    <3>1. list'[l] = 0 /\ objects'[l] = <<>> /\ lists \in Nat /\ l \notin wanted'
        BY <2>1 DEF LotTypes
    <3>2. Known(l)' => g_state'[l].objBegin \in 1..lists
        BY <2>1 DEF LotSound, Known
    <3> QED BY <2>1, <3>1, <3>2 DEF LotSound
  <2> QED BY <1>c, <2>1, <2>2, <2>3 DEF CallSound
<1>3. ASSUME NEW l \in Lots, ChangeDetail(l) \/ Bulldoze(l) PROVE Goal
  <2>1. /\ call' = call /\ call = NoCall /\ wanted' = wanted \ {l}
        /\ UNCHANGED <<objects, list, lists, alive, built, g_state>>
        /\ \A m \in Lots \ {l} : bulldozing'[m] = bulldozing[m]
      BY <1>3 DEF ChangeDetail, Bulldoze, stateVars, LotTypes
  <2>2. ASSUME NEW m \in Lots PROVE LotSound(m)'
    <3>1. m \in wanted' => m \in wanted /\ m \in alive' /\ bulldozing'[m] = bulldozing[m]
        BY <2>1 DEF LotSound
    <3> QED BY <1>a, <2>1, <3>1, LotFrame
  <2> QED BY <1>c, <2>1, <2>2 DEF CallSound
<1>4. ASSUME NEW l \in Lots, NEW i \in DOMAIN objects[l], RemoveObject(l, i) PROVE Goal
  <2>1. /\ call' = call /\ call = NoCall
        /\ UNCHANGED <<list, lists, alive, bulldozing, wanted, g_state>>
      BY <1>4 DEF RemoveObject, stateVars
  <2>2. /\ \A m \in Lots \ {l} : objects'[m] = objects[m] /\ built'[m] = built[m]
        /\ objects'[l] # <<>> => objects[l] # <<>>
        /\ Large(objects[l]) \subseteq built[l] => Large(objects'[l]) \subseteq built'[l]
      BY <1>4, RemovalKeeps
  <2>3. ASSUME NEW m \in Lots, m # l PROVE LotSound(m)'
    <3>1. /\ objects'[m] = objects[m] /\ list'[m] = list[m] /\ built'[m] = built[m]
          /\ bulldozing'[m] = bulldozing[m] /\ g_state'[m] = g_state[m] /\ lists <= lists'
        BY <2>1, <2>2, <2>3 DEF LotTypes
    <3>2. call'.lot # m => call.lot # m
        BY <2>1, <2>2, <2>3
    <3> QED BY <1>a, <2>1, <2>2, <2>3, <3>1, <3>2, LotOfOthers
  <2>4. LotSound(l)'
    <3>1. LotSound(l) /\ (Known(l)' <=> Known(l))
        BY <2>1 DEF Known
    <3> QED BY <2>1, <2>2, <3>1 DEF LotSound, Large
  <2> QED BY <1>c, <2>1, <2>3, <2>4 DEF CallSound
<1>5. ASSUME NEW l \in Lots, Request(l) PROVE Goal
  <2>1. /\ call = NoCall /\ call'.lot = l /\ call'.step = "enter" /\ wanted' = wanted \cup {l}
        /\ l \in alive /\ ~bulldozing[l]
        /\ UNCHANGED <<objects, list, lists, alive, bulldozing, built, g_state>>
      BY <1>5 DEF Request, lotVars, stateVars, NoCall
  <2>2. ASSUME NEW m \in Lots, m # l PROVE LotSound(m)'
      BY <1>a, <1>b, <2>1, <2>2, LotFrame DEF LotSound
  <2>3. LotSound(l)'
    <3>1. LotSound(l) /\ (Known(l)' <=> Known(l))
        BY <2>1 DEF Known
    <3> QED BY <2>1, <3>1 DEF LotSound, Large
  <2> QED BY <2>1, <2>2, <2>3 DEF CallSound
<1>6. ASSUME NEW l \in Lots, RunPosted(l) PROVE Goal
  <2>1. /\ call = NoCall /\ call'.step = "enter"
        /\ UNCHANGED <<objects, list, lists, alive, bulldozing, built, wanted, g_state>>
      BY <1>6 DEF RunPosted, lotVars, workVars, stateVars, NoCall
  <2>2. ASSUME NEW m \in Lots PROVE LotSound(m)'
      BY <1>a, <1>b, <2>1, LotFrame DEF LotSound
  <2> QED BY <2>1, <2>2 DEF CallSound
<1>7. ASSUME Original PROVE Goal
  <2>0. PICK l \in Lots : l = call.lot
      BY <1>7 DEF LotTypes, Original, Bulldozed, GiveUp, Lookup, BuildWindow, SaveWindow
  <2>1. /\ l \in Lots /\ call' = NoCall
        /\ built' = [built EXCEPT ![l] = DOMAIN objects[l]]
        /\ UNCHANGED <<objects, list, lists, alive, bulldozing, wanted, g_state>>
      BY <2>0, <1>7 DEF Original, lotVars, stateVars, LotTypes
  <2>2. ASSUME NEW m \in Lots, m # l PROVE LotSound(m)'
    <3>1. /\ objects'[m] = objects[m] /\ list'[m] = list[m] /\ built'[m] = built[m]
          /\ bulldozing'[m] = bulldozing[m] /\ g_state'[m] = g_state[m] /\ lists <= lists'
        BY <2>0, <2>1, <2>2 DEF LotTypes
    <3>2. call'.lot # m => call.lot # m
        BY <2>0, <2>1, <2>2
    <3> QED BY <2>0, <1>a, <2>1, <2>2, <3>1, <3>2, LotOfOthers
  <2>3. LotSound(l)'
    <3>1. LotSound(l) /\ (Known(l)' <=> Known(l))
        BY <2>0, <2>1 DEF Known
    <3>2. Large(objects'[l]) \subseteq built'[l]
        BY <2>0, <2>1 DEF Large, LotTypes
    <3> QED BY <2>0, <2>1, <3>1, <3>2 DEF LotSound
  <2> QED BY <2>0, <1>c, <2>1, <2>2, <2>3 DEF CallSound
<1>8. ASSUME Bulldozed \/ GiveUp PROVE Goal
  <2>0. PICK l \in Lots : l = call.lot
      BY <1>8 DEF LotTypes, Original, Bulldozed, GiveUp, Lookup, BuildWindow, SaveWindow
  <2>1. /\ l \in Lots /\ call' = NoCall
        /\ g_state' = [g_state EXCEPT ![l] = NoState]
        /\ UNCHANGED <<objects, list, lists, alive, bulldozing, wanted, built>>
      BY <2>0, <1>8 DEF Bulldozed, GiveUp, EraseState, lotVars, workVars, LotTypes
  <2>2. l \in wanted => Large(objects[l]) \subseteq built[l]
    <3>1. CASE bulldozing[l]
        BY <2>0, <2>1, <3>1 DEF LotSound
    <3>2. CASE call.step = "build" /\ call.next # 0
        BY <2>0, <3>2 DEF CallSound
    <3>3. CASE call.step = "build" /\ call.next = 0 /\ 0 >= Len(objects[l])
      <4>1. DOMAIN objects[l] = {}
          BY <2>0, <2>1, <3>3 DEF LotTypes
      <4> QED BY <2>0, <4>1 DEF Large
    <3> QED BY <2>0, <1>8, <3>1, <3>2, <3>3 DEF Bulldozed, GiveUp, Over
  <2>3. ASSUME NEW m \in Lots, m # l PROVE LotSound(m)'
    <3>1. /\ objects'[m] = objects[m] /\ list'[m] = list[m] /\ built'[m] = built[m]
          /\ bulldozing'[m] = bulldozing[m] /\ g_state'[m] = g_state[m] /\ lists <= lists'
        BY <2>0, <2>1, <2>3 DEF LotTypes
    <3>2. call'.lot # m => call.lot # m
        BY <2>0, <2>1, <2>3
    <3> QED BY <2>0, <1>a, <2>1, <2>3, <3>1, <3>2, LotOfOthers
  <2>4. LotSound(l)'
    <3>1. LotSound(l) /\ ~Known(l)'
        BY <2>0, <2>1 DEF Known, LotTypes
    <3> QED BY <2>0, <2>1, <2>2, <3>1 DEF LotSound, Large
  <2> QED BY <2>0, <1>c, <2>1, <2>3, <2>4 DEF CallSound
<1>9. ASSUME Lookup PROVE Goal
  <2>0. PICK l \in Lots : l = call.lot
      BY <1>9 DEF LotTypes, Original, Bulldozed, GiveUp, Lookup, BuildWindow, SaveWindow
  <2>1. /\ l \in Lots /\ call'.lot = l /\ call'.step = "build"
        /\ call'.next # 0 => Known(l) /\ g_state[l].objBegin = list[l]
        /\ UNCHANGED <<objects, list, lists, alive, bulldozing, wanted, built, g_state>>
      BY <2>0, <1>9 DEF Lookup, lotVars, workVars, stateVars, LotTypes
  <2>2. ASSUME NEW m \in Lots PROVE LotSound(m)'
      BY <2>0, <1>a, <2>1, LotFrame DEF LotSound
  <2>3. CallSound'
      BY <2>0, <2>1 DEF CallSound, LotSound, Large
  <2> QED BY <2>0, <2>2, <2>3
<1>10. ASSUME BuildWindow PROVE Goal
  <2>0. PICK l \in Lots : l = call.lot
      BY <1>10 DEF LotTypes, Original, Bulldozed, GiveUp, Lookup, BuildWindow, SaveWindow
  <2>1. /\ l \in Lots /\ call.step = "build" /\ call'.lot = l
        /\ UNCHANGED <<objects, list, lists, alive, bulldozing, wanted, g_state>>
      BY <2>0, <1>10 DEF BuildWindow, lotVars, stateVars, LotTypes
  <2>2. PICK W : built' = [built EXCEPT ![l] = @ \cup W \cup
                                            (IF call.next = 0 THEN Large(objects[l]) ELSE {})]
      BY <2>0, <1>10 DEF BuildWindow
  <2>3. ASSUME NEW m \in Lots PROVE LotSound(m)'
    <3>1. built[m] \subseteq built'[m]
        BY <2>0, <2>1, <2>2 DEF LotTypes
    <3> QED BY <2>0, <1>a, <2>1, <3>1, LotFrame DEF LotSound
  <2>4. CallSound'
    <3>1. built'[l] = built[l] \cup W \cup (IF call.next = 0 THEN Large(objects[l]) ELSE {})
        BY <2>0, <2>1, <2>2 DEF LotTypes
    <3>2. Large(objects[l]) \subseteq built'[l]
        BY <2>0, <2>1, <3>1 DEF CallSound
    <3> QED BY <2>0, <2>1, <3>2 DEF CallSound, Large
  <2> QED BY <2>0, <2>3, <2>4
<1>11. ASSUME SaveWindow PROVE Goal
  <2>0. PICK l \in Lots : l = call.lot
      BY <1>11 DEF LotTypes, Original, Bulldozed, GiveUp, Lookup, BuildWindow, SaveWindow
  <2>1. /\ l \in Lots /\ call.step = "save" /\ call' = NoCall
        /\ UNCHANGED <<objects, list, lists, alive, bulldozing, wanted, built>>
        /\ \A m \in Lots \ {l} : g_state'[m] = g_state[m]
      BY <2>0, <1>11 DEF SaveWindow, EraseState, lotVars, workVars, LotTypes
  <2>2. Large(objects[l]) \subseteq built[l]
      BY <2>0, <2>1 DEF CallSound
  <2>3. ASSUME NEW m \in Lots, m # l PROVE LotSound(m)'
    <3>1. /\ objects'[m] = objects[m] /\ list'[m] = list[m] /\ built'[m] = built[m]
          /\ bulldozing'[m] = bulldozing[m] /\ g_state'[m] = g_state[m] /\ lists <= lists'
        BY <2>0, <2>1, <2>3 DEF LotTypes
    <3>2. call'.lot # m => call.lot # m
        BY <2>0, <2>1, <2>3
    <3> QED BY <2>0, <1>a, <2>1, <2>3, <3>1, <3>2, LotOfOthers
  <2>4. Known(l)' => g_state'[l].objBegin \in 1..lists
    <3>1. CASE call.next < Len(objects[l])
      <4>1. g_state'[l].objBegin = list[l]
          BY <2>0, <1>11, <2>1, <3>1 DEF SaveWindow, LotTypes
      <4>2. objects[l] # <<>>
          BY <2>0, <2>1, <3>1 DEF LotTypes, Calls
      <4> QED BY <2>0, <2>1, <4>1, <4>2 DEF LotSound, LotTypes
    <3>2. CASE ~(call.next < Len(objects[l]))
        BY <2>0, <1>11, <2>1, <3>2 DEF SaveWindow, EraseState, Known, LotTypes
    <3> QED BY <2>0, <3>1, <3>2
  <2>5. LotSound(l)'
      BY <2>0, <2>1, <2>2, <2>4 DEF LotSound, Large
  <2> QED BY <2>0, <1>c, <2>1, <2>3, <2>5 DEF CallSound
<1>12. ASSUME NEW l \in Lots, Post(l) PROVE Goal
  <2>1. /\ UNCHANGED <<objects, list, lists, alive, bulldozing, wanted, built, call>>
        /\ g_state' = g_state \/ g_state' = [g_state EXCEPT ![l] = NoState]
      BY <1>12 DEF Post, EraseState, lotVars, workVars, stateVars
  <2>2. ASSUME NEW m \in Lots PROVE LotSound(m)'
    <3>1. g_state'[m] \in {g_state[m], NoState}
        BY <2>1 DEF LotTypes
    <3> QED BY <1>a, <2>1, <3>1, LotFrame DEF LotSound
  <2> QED BY <2>1, <2>2 DEF CallSound, Large
<1>13. ASSUME DrainPending PROVE Goal
  <2>1. UNCHANGED <<objects, list, lists, alive, bulldozing, wanted, built, call>>
      BY <1>13 DEF DrainPending, lotVars, workVars
  <2>2. ASSUME NEW m \in Lots PROVE LotSound(m)'
    <3>1. CASE m \in Due
      <4>1. g_state'[m].objBegin = g_state[m].objBegin /\ Known(m)
          BY <1>13, <3>1 DEF DrainPending, Due, Known, NoState, LotTypes, States
      <4> QED BY <1>a, <2>1, <4>1, LotFrame DEF LotSound
    <3>2. CASE m \notin Due
      <4>1. g_state'[m] = g_state[m]
          BY <1>13, <3>2 DEF DrainPending
      <4> QED BY <1>a, <2>1, <4>1, LotFrame DEF LotSound
    <3> QED BY <3>1, <3>2
  <2> QED BY <2>1, <2>2 DEF CallSound, Large
<1>14. ASSUME \/ Uninstall \/ Uninstalled \/ Install \/ Installed \/ UNCHANGED vars
              \/ \E l \in Lots : DelayElapses(l)
       PROVE  Goal
  <2>1. /\ UNCHANGED <<objects, list, lists, alive, bulldozing, wanted, built, call>>
        /\ g_state' = g_state \/ g_state' = [l \in Lots |-> NoState]
      BY <1>14 DEF Uninstall, Uninstalled, Install, Installed, ClearState, DelayElapses, vars,
         lotVars, workVars, stateVars
  <2>2. ASSUME NEW m \in Lots PROVE LotSound(m)'
    <3>1. g_state'[m] \in {g_state[m], NoState}
        BY <2>1
    <3> QED BY <1>a, <2>1, <3>1, LotFrame DEF LotSound
  <2> QED BY <2>1, <2>2 DEF CallSound, Large
<1> QED
    BY <1>1, <1>2, <1>3, <1>4, <1>5, <1>6, <1>7, <1>8, <1>9, <1>10, <1>11, <1>12, <1>13, <1>14
    DEF Next, Detour, HookThread, Game

\* Whenever the game's call has returned, the lot's large objects are in the scene,
\* whatever happened to its list, to the patch and to its level of detail meanwhile.
THEOREM ShellsComeFirst == Spec => []ShellsAreBuiltFirst
<1>1. ShellInv => ShellsAreBuiltFirst
    BY DEF ShellInv, LotTypes, LotSound, ShellsAreBuiltFirst
<1> QED BY <1>1, ShellInit, ShellStep, PTL DEF Spec

-----------------------------------------------------------------------------
(* Nothing is skipped. *)

LEMMA SkipInit == Init => SkipInv
BY DEF Init, SkipInv, LotReached, CallReached, Known, NoCall

LEMMA ReachedFrame ==
    ASSUME NEW l \in Lots, LotReached(l), list'[l] = list[l], objects'[l] = objects[l],
           built[l] \subseteq built'[l],
           \/ g_state'[l] \in {g_state[l], NoState}
           \/ /\ g_state'[l].objBegin = g_state[l].objBegin
              /\ g_state'[l].next = g_state[l].next /\ Known(l)
    PROVE  LotReached(l)'
<1>1. Known(l)' => /\ Known(l) /\ g_state'[l].objBegin = g_state[l].objBegin
                   /\ g_state'[l].next = g_state[l].next
    BY DEF Known
<1> QED BY <1>1 DEF LotReached, Reached

LEMMA SkipStep ==
    ASSUME "edit" \notin MidStream, ShellInv, SkipInv, [Next]_vars
    PROVE  SkipInv'
<1> USE DEF SkipInv
<1>a. LotTypes /\ LotTypes' /\ \A l \in Lots : LotSound(l) /\ LotReached(l)
    BY TypesStep DEF ShellInv
<1>c. NoCall.step = "none"
    BY DEF NoCall
<1> DEFINE Goal == SkipInv'
<1>1. ASSUME NEW l \in Lots, (\E s \in Lists[l] : Load(l, s)) \/ Free(l) PROVE Goal
  <2>1. /\ call' = call /\ call = NoCall /\ g_state' = g_state
        /\ \A m \in Lots \ {l} : objects'[m] = objects[m] /\ list'[m] = list[m] /\ built'[m] = built[m]
        /\ list'[l] \in {0, lists + 1}
      BY <1>1, <1>a DEF Load, Free, stateVars, LotTypes
  <2>2. ASSUME NEW m \in Lots, m # l PROVE LotReached(m)'
      BY <1>a, <2>1, <2>2, ReachedFrame
  <2>3. LotReached(l)'
    <3>1. Known(l)' => g_state'[l].objBegin \in 1..lists /\ lists \in Nat
        BY <1>a, <2>1 DEF LotSound, Known, LotTypes
    <3> QED BY <2>1, <3>1 DEF LotReached
  <2> QED BY <1>c, <2>1, <2>2, <2>3 DEF CallReached
<1>2. ASSUME NEW l \in Lots, NEW i \in DOMAIN objects[l], RemoveObject(l, i) PROVE Goal
  <2>1. /\ call' = call /\ call = NoCall /\ g_state' = g_state /\ list' = list /\ ~Known(l)
      BY <1>2 DEF RemoveObject, stateVars, Streaming
  <2>2. ASSUME NEW m \in Lots, m # l PROVE LotReached(m)'
      BY <1>2, <1>a, <2>1, <2>2, RemovalKeeps, ReachedFrame
  <2>3. LotReached(l)'
      BY <2>1 DEF LotReached, Known
  <2> QED BY <1>c, <2>1, <2>2, <2>3 DEF CallReached
<1>3. ASSUME NEW l \in Lots, ChangeDetail(l) \/ Bulldoze(l) \/ Request(l) \/ RunPosted(l) PROVE Goal
  <2>1. /\ UNCHANGED <<objects, list, built, g_state>>
        /\ call'.step \in {"none", "enter"}
      BY <1>3, <1>c DEF ChangeDetail, Bulldoze, Request, RunPosted, lotVars, workVars, stateVars, NoCall
  <2>2. \A m \in Lots : LotReached(m)'
      BY <1>a, <2>1, ReachedFrame
  <2> QED BY <2>1, <2>2 DEF CallReached
<1>4. ASSUME Original \/ Bulldozed \/ GiveUp PROVE Goal
  <2>0. PICK l \in Lots : l = call.lot
      BY <1>4, <1>a DEF LotTypes, Original, Bulldozed, GiveUp
  <2>1. /\ UNCHANGED <<objects, list>> /\ call' = NoCall
        /\ built' = built \/ built' = [built EXCEPT ![l] = DOMAIN objects[l]]
        /\ g_state' = g_state \/ g_state' = [g_state EXCEPT ![l] = NoState]
      BY <1>4, <2>0 DEF Original, Bulldozed, GiveUp, EraseState, lotVars, workVars, stateVars
  <2>2. ASSUME NEW m \in Lots, m # l PROVE LotReached(m)'
    <3>1. built'[m] = built[m] /\ g_state'[m] = g_state[m]
        BY <1>a, <2>1, <2>2 DEF LotTypes
    <3> QED BY <1>a, <2>1, <3>1, ReachedFrame
  <2>3. LotReached(l)'
    <3>1. CASE built' = built
      <4>1. g_state'[l] \in {g_state[l], NoState}
          BY <1>a, <2>1 DEF LotTypes
      <4> QED BY <1>a, <2>1, <3>1, <4>1, ReachedFrame
    <3>2. CASE built' = [built EXCEPT ![l] = DOMAIN objects[l]]
        BY <1>a, <2>1, <3>2 DEF LotReached, Reached, LotTypes
    <3> QED BY <2>1, <3>1, <3>2
  <2> QED BY <1>c, <2>1, <2>2, <2>3 DEF CallReached
<1>5. ASSUME Lookup PROVE Goal
  <2>0. PICK l \in Lots : l = call.lot
      BY <1>5, <1>a DEF LotTypes, Lookup
  <2>1. /\ UNCHANGED <<objects, list, built, g_state>> /\ call'.lot = l
        /\ \/ call'.next = 0
           \/ Known(l) /\ g_state[l].objBegin = list[l] /\ call'.next = g_state[l].next
      BY <1>5, <2>0 DEF Lookup, lotVars, workVars, stateVars
  <2>2. \A m \in Lots : LotReached(m)'
      BY <1>a, <2>1, ReachedFrame
  <2>3. \A i \in DOMAIN objects[l] : i <= call'.next => i \in built[l]
    <3>1. DOMAIN objects[l] = 1..Len(objects[l])
        BY <1>a DEF LotTypes
    <3> QED BY <1>a, <2>1, <3>1 DEF LotReached, Reached
  <2> QED BY <2>1, <2>2, <2>3 DEF CallReached, Reached
<1>6. ASSUME BuildWindow PROVE Goal
  <2>0. PICK l \in Lots : l = call.lot
      BY <1>6, <1>a DEF LotTypes, BuildWindow
  <2>1. PICK k \in PerLot :
          /\ built' = [built EXCEPT ![l] = @ \cup Window(objects[l], call.next, ClampPerLot(k))
                               \cup (IF call.next = 0 THEN Large(objects[l]) ELSE {})]
          /\ call' = [call EXCEPT !.step = "save", !.next = Stop(objects[l], @, ClampPerLot(k))]
      BY <1>6, <2>0 DEF BuildWindow
  <2>2. UNCHANGED <<objects, list, g_state>> /\ call.step = "build"
      BY <1>6 DEF BuildWindow, lotVars, stateVars
  <2>3. /\ built'[l] = built[l] \cup Window(objects[l], call.next, ClampPerLot(k))
                                \cup (IF call.next = 0 THEN Large(objects[l]) ELSE {})
        /\ call'.lot = l /\ call'.next = Stop(objects[l], call.next, ClampPerLot(k))
        /\ \A m \in Lots \ {l} : built'[m] = built[m]
        /\ objects[l] \in Seq({"large", "regular"}) /\ call.next \in Nat
      BY <1>a, <2>0, <2>1 DEF LotTypes, Calls
  <2>4. ASSUME NEW m \in Lots PROVE LotReached(m)'
    <3>1. built[m] \subseteq built'[m]
        BY <2>3
    <3> QED BY <1>a, <2>2, <3>1, ReachedFrame
  <2>5. Large(objects[l]) \subseteq built'[l]
      BY <2>0, <2>2, <2>3 DEF ShellInv, CallSound
  <2>6. ASSUME NEW i \in DOMAIN objects[l], i <= call'.next PROVE i \in built'[l]
    <3>1. CASE i <= call.next
        BY <2>0, <2>2, <2>3, <3>1 DEF CallReached, Reached
    <3>2. CASE call.next < i
      <4>1. i \in Large(objects[l]) \cup Window(objects[l], call.next, ClampPerLot(k))
          BY <2>3, <2>6, <3>2, WindowReaches
      <4> QED BY <2>3, <2>5, <4>1
    <3>3. i \in Nat
        BY <2>3
    <3> QED BY <2>3, <3>1, <3>2, <3>3
  <2> QED BY <2>2, <2>3, <2>4, <2>6 DEF CallReached, Reached
<1>7. ASSUME SaveWindow PROVE Goal
  <2>0. PICK l \in Lots : l = call.lot
      BY <1>7, <1>a DEF LotTypes, SaveWindow
  <2>1. /\ UNCHANGED <<objects, list, built>> /\ call' = NoCall /\ Reached(l, call.next)
        /\ \A m \in Lots \ {l} : g_state'[m] = g_state[m]
        /\ g_state'[l] = NoState \/ g_state'[l].next = call.next
      BY <1>7, <1>a, <2>0 DEF SaveWindow, EraseState, lotVars, workVars, CallReached, LotTypes
  <2>2. ASSUME NEW m \in Lots, m # l PROVE LotReached(m)'
      BY <1>a, <2>1, <2>2, ReachedFrame
  <2>3. LotReached(l)'
      BY <2>1 DEF LotReached, Known, Reached
  <2> QED BY <1>c, <2>1, <2>2, <2>3 DEF CallReached
<1>8. ASSUME NEW l \in Lots, Post(l) PROVE Goal
  <2>1. /\ UNCHANGED <<objects, list, built, call>>
        /\ g_state' = g_state \/ g_state' = [g_state EXCEPT ![l] = NoState]
      BY <1>8 DEF Post, EraseState, lotVars, workVars, stateVars
  <2>2. \A m \in Lots : g_state'[m] \in {g_state[m], NoState}
      BY <1>a, <2>1 DEF LotTypes
  <2>3. \A m \in Lots : LotReached(m)'
      BY <1>a, <2>1, <2>2, ReachedFrame
  <2> QED BY <2>1, <2>3 DEF CallReached, Reached
<1>9. ASSUME DrainPending PROVE Goal
  <2>1. UNCHANGED <<objects, list, built, call>>
      BY <1>9 DEF DrainPending, lotVars, workVars
  <2>2. ASSUME NEW m \in Lots PROVE LotReached(m)'
    <3>1. CASE m \in Due
      <4>1. g_state'[m].objBegin = g_state[m].objBegin /\ g_state'[m].next = g_state[m].next /\ Known(m)
          BY <1>9, <1>a, <3>1 DEF DrainPending, Due, Known, NoState, LotTypes, States
      <4> QED BY <1>a, <2>1, <4>1, ReachedFrame
    <3>2. CASE m \notin Due
      <4>1. g_state'[m] = g_state[m]
          BY <1>9, <3>2 DEF DrainPending
      <4> QED BY <1>a, <2>1, <4>1, ReachedFrame
    <3> QED BY <3>1, <3>2
  <2> QED BY <2>1, <2>2 DEF CallReached, Reached
<1>10. ASSUME \/ Uninstall \/ Uninstalled \/ Install \/ Installed \/ UNCHANGED vars
              \/ \E l \in Lots : DelayElapses(l)
       PROVE  Goal
  <2>1. /\ UNCHANGED <<objects, list, built, call>>
        /\ g_state' = g_state \/ g_state' = [l \in Lots |-> NoState]
      BY <1>10 DEF Uninstall, Uninstalled, Install, Installed, ClearState, DelayElapses, vars,
         lotVars, workVars, stateVars
  <2>2. \A m \in Lots : g_state'[m] \in {g_state[m], NoState}
      BY <2>1
  <2>3. \A m \in Lots : LotReached(m)'
      BY <1>a, <2>1, <2>2, ReachedFrame
  <2> QED BY <2>1, <2>3 DEF CallReached, Reached
<1> QED
    BY <1>1, <1>2, <1>3, <1>4, <1>5, <1>6, <1>7, <1>8, <1>9, <1>10
    DEF Next, Detour, HookThread, Game

\* A stream never goes on behind an object that is not built, however the setting of the
\* window's size changes, as long as no list is edited in place while it streams.
THEOREM NothingIsLeftBehind ==
    ASSUME "edit" \notin MidStream PROVE Spec => []NothingIsSkipped
<1>1. SkipInv => NothingIsSkipped
    BY DEF SkipInv, LotReached, Reached, NothingIsSkipped
<1>2. ShellInv /\ SkipInv /\ [Next]_vars => ShellInv' /\ SkipInv'
    BY ShellStep, SkipStep
<1> QED BY <1>1, <1>2, ShellInit, SkipInit, PTL DEF Spec

-----------------------------------------------------------------------------
(* Nothing is forgotten. *)

LEMMA KeepInit == Init => KeepInv
BY DEF Init, KeepInv, LotKept, CallKept, Gates, Known, NoCall

\* A lot whose list, state, postings and call stay as they are.
LEMMA KeptFrame ==
    ASSUME NEW l \in Lots, LotKept(l),
           objects'[l] = objects[l], list'[l] = list[l], built'[l] = built[l],
           g_state'[l] = g_state[l],
           l \in wanted' => l \in wanted /\ detailed'[l] = detailed[l],
           call.lot = l => call'.lot = l,
           UNCHANGED <<entry, g_throttleActive>>,
           l \in posts => l \in posts', queue[l] > 0 => queue'[l] > 0
    PROVE  LotKept(l)'
BY DEF LotKept, Known

\* Wanted objects that are not built keep the lot in the stream.
LEMMA WantedStreams ==
    ASSUME NEW l \in Lots, LotKept(l), LotTypes, l \in wanted, built[l] # DOMAIN objects[l]
    PROVE  Streaming(l)
<1>1. g_state[l].needsPost => Known(l)
    BY DEF Known, NoState
<1> QED BY <1>1 DEF LotKept, Streaming

LEMMA KeepStep ==
    ASSUME MidStream = {}, ShellInv, SkipInv, KeepInv, [Next]_vars
    PROVE  KeepInv'
<1> USE DEF KeepInv
<1>a. LotTypes /\ LotTypes' /\ \A l \in Lots : LotSound(l) /\ LotKept(l)
    BY TypesStep DEF ShellInv
<1>b. call = NoCall => \A l \in Lots : call.lot # l
    BY LotAssumption DEF LotAssumption, NoCall
<1>c. NoCall.step = "none" /\ NoState.needsPost = FALSE
    BY DEF NoCall, NoState
<1> DEFINE Goal == KeepInv'
<1>1. ASSUME NEW l \in Lots, \/ (\E s \in Lists[l] : Load(l, s)) \/ Free(l)
                             \/ ChangeDetail(l) \/ Bulldoze(l)
      PROVE  Goal
  <2>1. /\ call' = call /\ call = NoCall /\ g_state' = g_state /\ wanted' = wanted \ {l}
        /\ \A m \in Lots \ {l} : /\ objects'[m] = objects[m] /\ list'[m] = list[m]
                                 /\ built'[m] = built[m] /\ detailed'[m] = detailed[m]
        /\ built'[l] = {} \/ (built'[l] = built[l] /\ objects'[l] = objects[l])
        /\ UNCHANGED <<entry, g_throttleActive, hook, posts>>
      BY <1>1, <1>a DEF Load, Free, ChangeDetail, Bulldoze, stateVars, patchVars, LotTypes
  <2>2. queue' = queue \/ queue' = [queue EXCEPT ![l] = 0]
      BY <1>1 DEF Load, Free, ChangeDetail, Bulldoze
  <2>3. Gates'
      BY <2>1, <2>2 DEF Gates
  <2>4. \A m \in Lots \ {l} : queue'[m] = queue[m]
      BY <2>2 DEF Gates
  <2>5. ASSUME NEW m \in Lots, m # l PROVE LotKept(m)'
      BY <1>a, <2>1, <2>4, <2>5, KeptFrame
  <2>6. LotKept(l)'
      BY <1>a, <2>1 DEF LotKept
  <2> QED BY <1>c, <2>1, <2>3, <2>5, <2>6 DEF CallKept
<1>2. ASSUME NEW l \in Lots, NEW i \in DOMAIN objects[l], RemoveObject(l, i) PROVE Goal
  <2>1. /\ call' = call /\ call = NoCall /\ ~Streaming(l)
        /\ UNCHANGED <<g_state, list, detailed, wanted, entry, g_throttleActive, hook, posts, queue>>
      BY <1>2 DEF RemoveObject, stateVars, patchVars
  <2>2. /\ \A m \in Lots \ {l} : objects'[m] = objects[m] /\ built'[m] = built[m]
        /\ built'[l] \subseteq DOMAIN objects'[l]
        /\ built[l] = DOMAIN objects[l] => built'[l] = DOMAIN objects'[l]
      BY <1>2, <1>a, RemovalKeeps
  <2>3. ASSUME NEW m \in Lots, m # l PROVE LotKept(m)'
      BY <1>a, <2>1, <2>2, <2>3, KeptFrame
  <2>4. LotKept(l)'
    <3>1. l \in wanted => built[l] = DOMAIN objects[l]
        BY <1>a, <2>1, WantedStreams
    <3>2. ~Known(l)'
        BY <2>1 DEF Streaming, Known
    <3> QED BY <2>1, <2>2, <3>1, <3>2 DEF LotKept
  <2>5. Gates'
      BY <2>1 DEF Gates
  <2> QED BY <1>c, <2>1, <2>3, <2>4, <2>5 DEF CallKept
<1>3. ASSUME NEW l \in Lots, Request(l) PROVE Goal
  <2>1. /\ call = NoCall /\ call'.lot = l /\ call'.step = "enter" /\ wanted' = wanted \cup {l}
        /\ UNCHANGED <<objects, list, built, g_state, detailed, entry, g_throttleActive, hook,
                       posts, queue>>
        /\ Known(l) /\ g_state[l].objBegin = list[l] => g_state[l].startedDetailed = detailed[l]
      BY <1>3 DEF Request, lotVars, stateVars, patchVars, NoCall
  <2>2. ASSUME NEW m \in Lots, m # l PROVE LotKept(m)'
      BY <1>a, <1>b, <2>1, <2>2, KeptFrame
  <2>3. LotKept(l)'
      BY <1>a, <2>1 DEF LotKept, Known
  <2> QED BY <2>1, <2>2, <2>3 DEF CallKept, Gates
<1>4. ASSUME NEW l \in Lots, RunPosted(l) PROVE Goal
  <2>1. /\ call = NoCall /\ call'.lot = l /\ call'.step = "enter" /\ queue[l] > 0
        /\ queue' = [queue EXCEPT ![l] = @ - 1]
        /\ UNCHANGED <<objects, list, built, g_state, detailed, wanted, entry, g_throttleActive,
                       hook, posts>>
      BY <1>4 DEF RunPosted, lotVars, workVars, stateVars, patchVars, NoCall
  <2>2. queue' \in [Lots -> Nat] /\ \A m \in Lots \ {l} : queue'[m] = queue[m]
      BY <2>1 DEF Gates
  <2>3. ASSUME NEW m \in Lots, m # l PROVE LotKept(m)'
      BY <1>a, <1>b, <2>1, <2>2, <2>3, KeptFrame
  <2>4. LotKept(l)'
      BY <1>a, <2>1 DEF LotKept, Known
  <2> QED BY <2>1, <2>2, <2>3, <2>4 DEF CallKept, Gates
<1>5. ASSUME Original \/ Bulldozed \/ GiveUp PROVE Goal
  <2>0. PICK l \in Lots : l = call.lot
      BY <1>5, <1>a DEF LotTypes, Original, Bulldozed, GiveUp
  <2>1. /\ UNCHANGED <<objects, list, wanted, entry, g_throttleActive, hook, posts, queue>>
        /\ call' = NoCall
        /\ built' = built \/ built' = [built EXCEPT ![l] = DOMAIN objects[l]]
        /\ g_state' = g_state \/ g_state' = [g_state EXCEPT ![l] = NoState]
        /\ detailed' = detailed \/ (detailed' = [detailed EXCEPT ![l] = FALSE] /\ bulldozing[l])
      BY <1>5, <2>0 DEF Original, Bulldozed, GiveUp, EraseState, lotVars, workVars, stateVars, patchVars
  <2>2. ASSUME NEW m \in Lots, m # l PROVE LotKept(m)'
    <3>1. built'[m] = built[m] /\ g_state'[m] = g_state[m] /\ detailed'[m] = detailed[m]
        BY <1>a, <2>1, <2>2 DEF LotTypes
    <3> QED BY <1>a, <2>0, <2>1, <2>2, <3>1, KeptFrame
  <2>3. l \in wanted => built'[l] = DOMAIN objects[l]
    <3>1. CASE Original
        BY <1>a, <2>0, <3>1 DEF Original, LotTypes
    <3>2. CASE Bulldozed
        BY <1>a, <2>0, <3>2 DEF Bulldozed, LotSound
    <3>3. CASE GiveUp
      <4>1. SUFFICES ASSUME l \in wanted PROVE built'[l] = DOMAIN objects[l]
          OBVIOUS
      <4>2. call.step = "build" /\ built' = built /\ Over
          BY <3>3 DEF GiveUp, workVars
      <4>3. call.startedDetailed = detailed[l]
          BY <2>0, <4>1, <4>2 DEF CallKept
      <4>4. call.next >= Len(objects[l]) /\ call.next \in Nat
          BY <1>a, <2>0, <4>2, <4>3 DEF Over, LotTypes, Calls
      <4>5. DOMAIN objects[l] = 1..Len(objects[l]) /\ Len(objects[l]) \in Nat
          BY <1>a DEF LotTypes
      <4>6. DOMAIN objects[l] \subseteq built[l]
          BY <2>0, <4>2, <4>4, <4>5 DEF SkipInv, CallReached, Reached
      <4> QED BY <1>a, <4>2, <4>6 DEF LotKept
    <3> QED BY <1>5, <3>1, <3>2, <3>3
  <2>4. LotKept(l)'
    <3>1. built'[l] \subseteq DOMAIN objects[l]
        BY <1>a, <2>1 DEF LotKept, LotTypes
    <3>2. g_state'[l] = g_state[l] \/ ~Known(l)'
        BY <1>a, <2>1 DEF Known, LotTypes
    <3>3. l \in wanted => detailed' = detailed
        BY <1>a, <2>1 DEF LotSound
    <3>4. l \in wanted' /\ Known(l)' /\ g_state'[l].objBegin = list'[l] =>
             g_state'[l].startedDetailed = detailed'[l]
        BY <1>a, <2>1, <3>2, <3>3 DEF LotKept, Known
    <3> QED BY <2>1, <2>3, <3>1, <3>4 DEF LotKept
  <2> QED BY <1>c, <2>1, <2>2, <2>4 DEF CallKept, Gates
<1>6. ASSUME Lookup PROVE Goal
  <2>0. PICK l \in Lots : l = call.lot
      BY <1>6, <1>a DEF LotTypes, Lookup
  <2>1. /\ UNCHANGED <<objects, list, built, g_state, detailed, wanted, g_throttleActive, hook,
                       posts, queue>>
        /\ entry' = entry /\ entry = "detour" /\ call'.lot = l
        /\ \/ call'.startedDetailed = detailed[l]
           \/ /\ Known(l) /\ g_state[l].objBegin = list[l]
              /\ call'.startedDetailed = g_state[l].startedDetailed
      BY <1>6, <2>0 DEF Lookup, lotVars, workVars, stateVars, patchVars
  <2>2. \A m \in Lots : LotKept(m)'
      BY <1>a, <2>0, <2>1, KeptFrame
  <2>3. CallKept'
      BY <1>a, <2>1 DEF CallKept, LotKept
  <2> QED BY <2>1, <2>2, <2>3 DEF Gates
<1>7. ASSUME BuildWindow PROVE Goal
  <2>0. PICK l \in Lots : l = call.lot
      BY <1>7, <1>a DEF LotTypes, BuildWindow
  <2>1. PICK k \in PerLot :
          /\ built' = [built EXCEPT ![l] = @ \cup Window(objects[l], call.next, ClampPerLot(k))
                               \cup (IF call.next = 0 THEN Large(objects[l]) ELSE {})]
          /\ call' = [call EXCEPT !.step = "save", !.next = Stop(objects[l], @, ClampPerLot(k))]
      BY <1>7, <2>0 DEF BuildWindow
  <2>2. /\ UNCHANGED <<objects, list, g_state, detailed, wanted, entry, g_throttleActive, hook,
                       posts, queue>>
        /\ call.step = "build"
      BY <1>7 DEF BuildWindow, lotVars, stateVars, patchVars
  <2>3. /\ built'[l] = built[l] \cup Window(objects[l], call.next, ClampPerLot(k))
                                \cup (IF call.next = 0 THEN Large(objects[l]) ELSE {})
        /\ call'.lot = l /\ call'.startedDetailed = call.startedDetailed
        /\ \A m \in Lots \ {l} : built'[m] = built[m]
        /\ objects[l] \in Seq({"large", "regular"}) /\ call.next \in Nat
      BY <1>a, <2>0, <2>1 DEF LotTypes, Calls
  <2>4. ASSUME NEW m \in Lots, m # l PROVE LotKept(m)'
      BY <1>a, <2>0, <2>2, <2>3, <2>4, KeptFrame
  <2>5. LotKept(l)'
    <3>1. Window(objects[l], call.next, ClampPerLot(k)) \subseteq DOMAIN objects[l]
        BY <2>3, WindowReaches
    <3>2. built'[l] \subseteq DOMAIN objects[l]
        BY <1>a, <2>3, <3>1 DEF LotKept, Large
    <3> QED BY <1>a, <2>2, <2>3, <3>2 DEF LotKept, Known
  <2>6. CallKept'
      BY <2>0, <2>2, <2>3 DEF CallKept
  <2> QED BY <2>2, <2>4, <2>5, <2>6 DEF Gates
<1>8. ASSUME SaveWindow PROVE Goal
  <2>0. PICK l \in Lots : l = call.lot
      BY <1>8, <1>a DEF LotTypes, SaveWindow
  <2>1. /\ UNCHANGED <<objects, list, built, detailed, wanted, entry, g_throttleActive, hook,
                       posts, queue>>
        /\ call' = NoCall /\ call.step = "save"
        /\ \A m \in Lots \ {l} : g_state'[m] = g_state[m]
      BY <1>8, <1>a, <2>0 DEF SaveWindow, EraseState, lotVars, workVars, patchVars, LotTypes
  <2>2. ASSUME NEW m \in Lots, m # l PROVE LotKept(m)'
      BY <1>a, <2>0, <2>1, <2>2, KeptFrame
  <2>3. LotKept(l)'
    <3>1. CASE call.next < Len(objects[l])
      <4>1. g_state'[l].needsPost /\ g_state'[l].startedDetailed = call.startedDetailed
          BY <1>8, <1>a, <2>0, <3>1 DEF SaveWindow, LotTypes
      <4>2. l \in wanted => entry = "detour" /\ call.startedDetailed = detailed[l]
          BY <2>0, <2>1 DEF CallKept
      <4>3. entry = "detour" => g_throttleActive
          BY DEF Gates
      <4> QED BY <1>a, <2>1, <4>1, <4>2, <4>3 DEF LotKept
    <3>2. CASE ~(call.next < Len(objects[l]))
      <4>1. DOMAIN objects[l] = 1..Len(objects[l]) /\ Len(objects[l]) \in Nat /\ call.next \in Nat
          BY <1>a DEF LotTypes, Calls
      <4>2. DOMAIN objects[l] \subseteq built[l]
          BY <2>0, <2>1, <3>2, <4>1 DEF SkipInv, CallReached, Reached
      <4>3. ~Known(l)'
          BY <1>8, <1>a, <2>0, <3>2 DEF SaveWindow, EraseState, Known, LotTypes
      <4> QED BY <1>a, <2>1, <4>2, <4>3 DEF LotKept
    <3> QED BY <3>1, <3>2
  <2> QED BY <1>c, <2>1, <2>2, <2>3 DEF CallKept, Gates
<1>9. ASSUME DrainPending PROVE Goal
  <2>1. /\ UNCHANGED <<objects, list, built, detailed, wanted, call, entry, g_throttleActive, queue>>
        /\ hook = "idle" /\ hook' = "posting" /\ posts' = Due
      BY <1>9 DEF DrainPending, lotVars, workVars
  <2>2. ASSUME NEW m \in Lots PROVE LotKept(m)'
    <3>1. CASE m \in Due
      <4>1. /\ g_state'[m].objBegin = g_state[m].objBegin /\ Known(m) /\ m \in posts'
            /\ g_state'[m].startedDetailed = g_state[m].startedDetailed
          BY <1>9, <1>a, <3>1 DEF DrainPending, Due, Known, NoState, LotTypes, States
      <4>2. entry = "detour"
          BY <2>1 DEF Gates
      <4> QED BY <1>a, <2>1, <4>1, <4>2 DEF LotKept
    <3>2. CASE m \notin Due
      <4>1. g_state'[m] = g_state[m] /\ m \notin posts
          BY <1>9, <2>1, <3>2 DEF DrainPending, Gates
      <4> QED BY <1>a, <2>1, <4>1, KeptFrame
    <3> QED BY <3>1, <3>2
  <2> QED BY <2>1, <2>2 DEF CallKept, Gates
<1>10. ASSUME NEW l \in Lots, Post(l) PROVE Goal
  <2>1. /\ UNCHANGED <<objects, list, built, detailed, wanted, alive, call, entry, g_throttleActive>>
        /\ posts' = posts \ {l} /\ hook = "posting" /\ hook' = HookAfter(posts')
        /\ \/ /\ l \in alive /\ queue' = [queue EXCEPT ![l] = @ + 1] /\ g_state' = g_state
           \/ /\ l \notin alive /\ queue' = queue /\ g_state' = [g_state EXCEPT ![l] = NoState]
      BY <1>10 DEF Post, EraseState, lotVars, workVars, stateVars
  <2>2. Gates'
      BY <2>1 DEF Gates, HookAfter
  <2>3. ASSUME NEW m \in Lots, m # l PROVE LotKept(m)'
    <3>1. queue'[m] = queue[m] /\ g_state'[m] = g_state[m]
        BY <1>a, <2>1, <2>3 DEF Gates, LotTypes
    <3> QED BY <1>a, <2>1, <2>3, <3>1, KeptFrame
  <2>4. LotKept(l)'
    <3>1. CASE l \in alive
      <4>1. queue'[l] > 0 /\ entry = "detour" /\ g_state' = g_state
          BY <2>1, <3>1 DEF Gates
      <4> QED BY <1>a, <2>1, <4>1 DEF LotKept, Known
    <3>2. CASE l \notin alive
        BY <1>a, <2>1, <3>2 DEF LotSound, LotKept
    <3> QED BY <3>1, <3>2
  <2> QED BY <2>1, <2>2, <2>3, <2>4 DEF CallKept
<1>11. ASSUME Uninstall PROVE Goal
  <2>1. /\ UNCHANGED <<objects, list, built, detailed, wanted, g_state, call, g_throttleActive,
                       posts, queue>>
        /\ hook = "idle" /\ hook' = "uninstalled" /\ entry' = "original"
        /\ \A l \in wanted : ~Streaming(l)
      BY <1>11 DEF Uninstall, lotVars, workVars, stateVars
  <2>2. ASSUME NEW m \in Lots PROVE LotKept(m)'
    <3>1. m \in wanted => built[m] = DOMAIN objects[m]
        BY <1>a, <2>1, WantedStreams
    <3> QED BY <1>a, <2>1, <3>1 DEF LotKept, Known
  <2>3. call.lot \notin wanted
      BY <2>1 DEF Streaming
  <2> QED BY <2>1, <2>2, <2>3 DEF CallKept, Gates
<1>12. ASSUME Uninstalled \/ Install PROVE Goal
  <2>1. /\ UNCHANGED <<objects, list, built, detailed, wanted, call, entry, posts, queue>>
        /\ hook \in {"uninstalled", "off"} /\ hook' \in {"off", "installing"}
        /\ g_state' = [l \in Lots |-> NoState]
      BY <1>12 DEF Uninstalled, Install, ClearState, lotVars, workVars
  <2>2. entry = "original"
      BY <2>1 DEF Gates
  <2>3. \A m \in Lots : LotKept(m)'
      BY <1>a, <2>1, <2>2 DEF LotKept, Known
  <2> QED BY <2>1, <2>2, <2>3 DEF CallKept, Gates
<1>13. ASSUME Installed PROVE Goal
  <2>1. /\ UNCHANGED <<objects, list, built, detailed, wanted, g_state, call, posts, queue>>
        /\ hook = "installing" /\ hook' = "idle" /\ entry' = "detour" /\ g_throttleActive' = TRUE
      BY <1>13 DEF Installed, lotVars, workVars, stateVars
  <2>2. entry = "original"
      BY <2>1 DEF Gates
  <2>3. \A m \in Lots : LotKept(m)'
      BY <1>a, <2>1, <2>2 DEF LotKept, Known
  <2> QED BY <2>1, <2>2, <2>3 DEF CallKept, Gates
<1>14. ASSUME UNCHANGED vars \/ \E l \in Lots : DelayElapses(l) PROVE Goal
  <2>1. UNCHANGED <<objects, list, built, detailed, wanted, g_state, call, entry,
                    g_throttleActive, hook, posts, queue>>
      BY <1>14 DEF DelayElapses, vars, lotVars, workVars, stateVars, patchVars
  <2>2. \A m \in Lots : LotKept(m)'
      BY <1>a, <2>1, KeptFrame
  <2> QED BY <2>1, <2>2 DEF CallKept, Gates
<1> QED
    BY <1>1, <1>2, <1>3, <1>4, <1>5, <1>6, <1>7, <1>8, <1>9, <1>10, <1>11, <1>12, <1>13, <1>14
    DEF Next, Detour, HookThread, Game

\* A lot the game waits for is never dropped: until it is built, it is marked, being
\* posted, posted or in a call, when nothing happens to it in mid-stream.
THEOREM NoneIsForgotten ==
    ASSUME MidStream = {} PROVE Spec => []NothingIsForgotten
<1>1. ShellInv /\ KeepInv => NothingIsForgotten
    BY DEF ShellInv, LotTypes, KeepInv, LotKept, NothingIsForgotten
<1>2. ShellInv /\ SkipInv /\ KeepInv /\ [Next]_vars => ShellInv' /\ SkipInv' /\ KeepInv'
    BY ShellStep, SkipStep, KeepStep
<1> QED BY <1>1, <1>2, ShellInit, SkipInit, KeepInit, PTL DEF Spec

=============================================================================
