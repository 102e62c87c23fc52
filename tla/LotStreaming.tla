----------------------------- MODULE LotStreaming -----------------------------
(***************************************************************************)
(* The object throttle of the lot streaming patch: a lot's objects get     *)
(* their scene nodes a few at a time, in windows of                        *)
(* Detour_AddLotObjectsToScene, and the hook thread posts the next window  *)
(* when the delay has passed.                                              *)
(*                                                                         *)
(* The detour runs on the game's thread, one call at a time; DrainPending, *)
(* Install and Uninstall run on the hook thread, between any two steps of  *)
(* the detour.  g_stateMtx makes each access to g_state one step.          *)
(***************************************************************************)
EXTENDS Integers, Sequences, FiniteSetsExt

CONSTANTS
    Lots,
    NoLot,
    Lists,         \* for each lot the lists it may have: sequences of "large" and "regular"
    PerLot,        \* values of the setting objectsPerLot
    MidStream,     \* what may happen to a lot while it streams: "edit", "reinstall", "restart"
    MaxLists,      \* bound: how often a list is loaded
    MaxRequests    \* bound: how often the game asks for a lot

ASSUME LotAssumption ==
    /\ NoLot \notin Lots
    /\ \A l \in Lots : Lists[l] \subseteq Seq({"large", "regular"})
    /\ PerLot \subseteq Int
    /\ MidStream \subseteq {"edit", "reinstall", "restart"}
    /\ MaxLists \in Nat /\ MaxRequests \in Nat

VARIABLES
    objects, list, \* of each lot: mObjects, and the allocation its begin points to, 0 for null
    detailed, bulldozing, \* of each lot: the flags at 0xC1 and 0xC9
    alive,         \* lots whose memory can be read
    built,         \* of each lot: positions handed to UpdateObjectSceneNode since it was loaded
    wanted,        \* lots the game has asked for and not withdrawn
    g_state,       \* what is kept of each lot between windows
    elapsed,       \* lots whose delay has passed since lastWorkTick
    posts, queue,  \* lots the hook thread is posting; calls posted to each lot
    call,          \* the call of AddLotObjectsToScene under way
    entry, g_throttleActive, hook, \* what the entry leads to; DrainPending's gate; the hook thread
    lists, requests

lotVars == <<objects, list, detailed, bulldozing, alive, lists>>
workVars == <<built, wanted, requests>>
stateVars == <<g_state, elapsed>>
patchVars == <<entry, g_throttleActive, hook>>
vars == <<lotVars, workVars, stateVars, posts, queue, call, patchVars>>

NoState == [next |-> 0, startedDetailed |-> FALSE, needsPost |-> FALSE, objBegin |-> 0]
NoCall == [lot |-> NoLot, step |-> "none", next |-> 0, startedDetailed |-> FALSE]

Init ==
    /\ objects = [l \in Lots |-> <<>>] /\ list = [l \in Lots |-> 0]
    /\ detailed = [l \in Lots |-> FALSE] /\ bulldozing = [l \in Lots |-> FALSE]
    /\ alive = {}
    /\ built = [l \in Lots |-> {}] /\ wanted = {}
    /\ g_state = [l \in Lots |-> NoState] /\ elapsed = {}
    /\ posts = {} /\ queue = [l \in Lots |-> 0]
    /\ call = NoCall
    /\ entry = "detour" /\ g_throttleActive = TRUE /\ hook = "idle"
    /\ lists = 0 /\ requests = 0

-----------------------------------------------------------------------------
(* One window. *)

ClampPerLot(k) == IF k < 1 THEN 1 ELSE IF k > 256 THEN 256 ELSE k

Large(s) == {i \in DOMAIN s : s[i] = "large"}
Regular(s, next) == {i \in DOMAIN s : i > next /\ s[i] # "large"}

\* The regular objects of a window that starts after position next.
Window(s, next, quota) ==
    {i \in Regular(s, next) : Cardinality({j \in Regular(s, next) : j < i}) < quota}

\* Where it stops: before the next regular object, or at the end, so that no
\* window is posted for a tail of large objects.
Stop(s, next, quota) ==
    LET rest == Regular(s, next) \ Window(s, next, quota)
    IN  IF rest = {} THEN Len(s) ELSE Min(rest) - 1

-----------------------------------------------------------------------------
(* The game. *)

Known(l) == g_state[l] # NoState
Streaming(l) == Known(l) \/ call.lot = l \/ queue[l] > 0 \/ l \in posts

\* A lot is created, or its list is loaded anew at another address.
Load(l, s) ==
    /\ call = NoCall
    /\ lists < MaxLists
    /\ lists' = lists + 1
    /\ alive' = alive \cup {l}
    /\ objects' = [objects EXCEPT ![l] = s]
    /\ list' = [list EXCEPT ![l] = lists + 1]
    /\ bulldozing' = [bulldozing EXCEPT ![l] = FALSE]
    /\ built' = [built EXCEPT ![l] = {}]
    /\ wanted' = wanted \ {l}
    /\ UNCHANGED <<detailed, requests, stateVars, posts, queue, call, patchVars>>

\* The lot is freed; calls posted to it are dropped.
Free(l) ==
    /\ call = NoCall
    /\ l \in alive
    /\ alive' = alive \ {l}
    /\ objects' = [objects EXCEPT ![l] = <<>>]
    /\ list' = [list EXCEPT ![l] = 0]
    /\ built' = [built EXCEPT ![l] = {}]
    /\ wanted' = wanted \ {l}
    /\ queue' = [queue EXCEPT ![l] = 0]
    /\ UNCHANGED <<detailed, bulldozing, lists, requests, stateVars, posts, call, patchVars>>

\* A promotion or a demotion ends the game's interest in the stream under way.
ChangeDetail(l) ==
    /\ call = NoCall
    /\ l \in alive
    /\ detailed' = [detailed EXCEPT ![l] = ~@]
    /\ wanted' = wanted \ {l}
    /\ UNCHANGED <<objects, list, bulldozing, alive, lists, built, requests, stateVars, posts,
                   queue, call, patchVars>>

Bulldoze(l) ==
    /\ call = NoCall
    /\ l \in alive /\ ~bulldozing[l]
    /\ bulldozing' = [bulldozing EXCEPT ![l] = TRUE]
    /\ wanted' = wanted \ {l}
    /\ UNCHANGED <<objects, list, detailed, alive, lists, built, requests, stateVars, posts,
                   queue, call, patchVars>>

\* An object leaves the list, which keeps its address.
RemoveObject(l, i) ==
    /\ call = NoCall
    /\ i \in DOMAIN objects[l]
    /\ "edit" \in MidStream \/ ~Streaming(l)
    /\ LET Old(j) == IF j < i THEN j ELSE j + 1
           kept == 1..(Len(objects[l]) - 1)
       IN  /\ objects' = [objects EXCEPT ![l] = [j \in kept |-> objects[l][Old(j)]]]
           /\ built' = [built EXCEPT ![l] = {j \in kept : Old(j) \in built[l]}]
    /\ UNCHANGED <<list, detailed, bulldozing, alive, lists, wanted, requests, stateVars, posts,
                   queue, call, patchVars>>

\* The game asks for the lot's objects.  Asking again while the stream of the
\* other level of detail is still known is a "restart".
Request(l) ==
    /\ call = NoCall
    /\ requests < MaxRequests
    /\ l \in alive /\ ~bulldozing[l]
    /\ \/ "restart" \in MidStream \/ ~Known(l)
       \/ g_state[l].startedDetailed = detailed[l] \/ g_state[l].objBegin # list[l]
    /\ requests' = requests + 1
    /\ wanted' = wanted \cup {l}
    /\ call' = [NoCall EXCEPT !.lot = l, !.step = "enter"]
    /\ UNCHANGED <<lotVars, built, stateVars, posts, queue, patchVars>>

\* The game's thread takes a posted call.
RunPosted(l) ==
    /\ call = NoCall
    /\ queue[l] > 0
    /\ queue' = [queue EXCEPT ![l] = @ - 1]
    /\ call' = [NoCall EXCEPT !.lot = l, !.step = "enter"]
    /\ UNCHANGED <<lotVars, workVars, stateVars, posts, patchVars>>

-----------------------------------------------------------------------------
(* Detour_AddLotObjectsToScene. *)

EraseState(l) == g_state' = [g_state EXCEPT ![l] = NoState] /\ elapsed' = elapsed \ {l}

\* Without the detour the game's own function builds every object.
Original ==
    /\ call.step = "enter" /\ entry = "original"
    /\ built' = [built EXCEPT ![call.lot] = DOMAIN objects[call.lot]]
    /\ call' = NoCall
    /\ UNCHANGED <<lotVars, wanted, requests, stateVars, posts, queue, patchVars>>

Bulldozed ==
    LET l == call.lot
    IN  /\ call.step = "enter" /\ entry = "detour"
        /\ bulldozing[l]
        /\ detailed' = [detailed EXCEPT ![l] = FALSE]
        /\ EraseState(l)
        /\ call' = NoCall
        /\ UNCHANGED <<objects, list, bulldozing, alive, lists, workVars, posts, queue, patchVars>>

\* "Resume only on the same object list; a changed mObjects begin means
\* reload/reuse -> restart."
Lookup ==
    LET l == call.lot
        st == g_state[l]
    IN  /\ call.step = "enter" /\ entry = "detour"
        /\ ~bulldozing[l]
        /\ call' = IF Known(l) /\ st.objBegin = list[l]
                   THEN [lot |-> l, step |-> "build", next |-> st.next,
                         startedDetailed |-> st.startedDetailed]
                   ELSE [lot |-> l, step |-> "build", next |-> 0, startedDetailed |-> detailed[l]]
        /\ UNCHANGED <<lotVars, workVars, stateVars, posts, queue, patchVars>>

\* Demoted or promoted in mid-stream, or nothing is left.
Over ==
    \/ call.next # 0 /\ detailed[call.lot] # call.startedDetailed
    \/ call.next >= Len(objects[call.lot])

GiveUp ==
    /\ call.step = "build" /\ Over
    /\ EraseState(call.lot)
    /\ call' = NoCall
    /\ UNCHANGED <<lotVars, workVars, posts, queue, patchVars>>

\* Mutant of BuildWindow: large objects are throttled like the others.
BuildWindowThrottled ==
    LET l == call.lot
        s == [i \in DOMAIN objects[l] |-> "regular"]
    IN  /\ call.step = "build" /\ ~Over
        /\ \E k \in PerLot :
             /\ built' = [built EXCEPT ![l] = @ \cup Window(s, call.next, ClampPerLot(k))]
             /\ call' = [call EXCEPT !.step = "save", !.next = Stop(s, @, ClampPerLot(k))]
        /\ UNCHANGED <<lotVars, wanted, requests, stateVars, posts, queue, patchVars>>

\* Mutant of BuildWindow: it ends one position further on.
BuildWindowSkips ==
    LET l == call.lot
        s == objects[l]
    IN  /\ call.step = "build" /\ ~Over
        /\ \E k \in PerLot :
             /\ built' = [built EXCEPT ![l] = @ \cup Window(s, call.next, ClampPerLot(k))
                                                \cup (IF call.next = 0 THEN Large(s) ELSE {})]
             /\ call' = [call EXCEPT !.step = "save",
                                     !.next = Min({Len(s), Stop(s, @, ClampPerLot(k)) + 1})]
        /\ UNCHANGED <<lotVars, wanted, requests, stateVars, posts, queue, patchVars>>

\* The first window builds every large object, each window as many regular ones
\* as the setting says at that moment.
BuildWindow ==
    LET l == call.lot
        s == objects[l]
    IN  /\ call.step = "build" /\ ~Over
        /\ \E k \in PerLot :
             /\ built' = [built EXCEPT ![l] = @ \cup Window(s, call.next, ClampPerLot(k))
                                                \cup (IF call.next = 0 THEN Large(s) ELSE {})]
             /\ call' = [call EXCEPT !.step = "save", !.next = Stop(s, @, ClampPerLot(k))]
        /\ UNCHANGED <<lotVars, wanted, requests, stateVars, posts, queue, patchVars>>

\* Mutant of SaveWindow: a state that was posted before stays marked as posted.
SaveWindowMarked ==
    LET l == call.lot
    IN  /\ call.step = "save"
        /\ IF call.next < Len(objects[l])
           THEN /\ g_state' = [g_state EXCEPT ![l] =
                     [next |-> call.next, startedDetailed |-> call.startedDetailed,
                      needsPost |-> ~Known(l), objBegin |-> list[l]]]
                /\ elapsed' = elapsed \ {l}
           ELSE EraseState(l)
        /\ call' = NoCall
        /\ UNCHANGED <<lotVars, workVars, posts, queue, patchVars>>

\* Where to go on is kept, or forgotten when everything is built.
SaveWindow ==
    LET l == call.lot
    IN  /\ call.step = "save"
        /\ IF call.next < Len(objects[l])
           THEN /\ g_state' = [g_state EXCEPT ![l] =
                     [next |-> call.next, startedDetailed |-> call.startedDetailed,
                      needsPost |-> TRUE, objBegin |-> list[l]]]
                /\ elapsed' = elapsed \ {l}
           ELSE EraseState(l)
        /\ call' = NoCall
        /\ UNCHANGED <<lotVars, workVars, posts, queue, patchVars>>

-----------------------------------------------------------------------------
(* The hook thread: DrainPending, Uninstall and Install. *)

DelayElapses(l) ==
    /\ Known(l) /\ l \notin elapsed
    /\ elapsed' = elapsed \cup {l}
    /\ UNCHANGED <<lotVars, workVars, g_state, posts, queue, call, patchVars>>

Due == {l \in Lots : g_state[l].needsPost /\ l \in elapsed}

DrainPending ==
    /\ hook = "idle" /\ g_throttleActive
    /\ Due # {}
    /\ posts' = Due
    /\ g_state' = [l \in Lots |-> IF l \in Due THEN [g_state[l] EXCEPT !.needsPost = FALSE]
                                               ELSE g_state[l]]
    /\ hook' = "posting"
    /\ UNCHANGED <<lotVars, workVars, elapsed, queue, call, entry, g_throttleActive>>

HookAfter(rest) == IF rest = {} THEN "idle" ELSE "posting"

\* A lot that cannot be read any more is forgotten.
Post(l) ==
    /\ hook = "posting" /\ l \in posts
    /\ posts' = posts \ {l}
    /\ IF l \in alive
       THEN queue' = [queue EXCEPT ![l] = @ + 1] /\ UNCHANGED stateVars
       ELSE EraseState(l) /\ UNCHANGED queue
    /\ hook' = HookAfter(posts')
    /\ UNCHANGED <<lotVars, workVars, call, entry, g_throttleActive>>

\* RestoreAll takes the jump out ...
Uninstall ==
    /\ hook = "idle"
    /\ "reinstall" \in MidStream \/ \A l \in wanted : ~Streaming(l)
    /\ entry' = "original"
    /\ hook' = "uninstalled"
    /\ UNCHANGED <<lotVars, workVars, stateVars, posts, queue, call, g_throttleActive>>

ClearState ==
    g_state' = [l \in Lots |-> NoState] /\ elapsed' = {}

\* ... and then g_state is cleared.
Uninstalled ==
    /\ hook = "uninstalled"
    /\ g_throttleActive' = FALSE
    /\ ClearState
    /\ hook' = "off"
    /\ UNCHANGED <<lotVars, workVars, posts, queue, call, entry>>

Install ==
    /\ hook = "off"
    /\ ClearState
    /\ hook' = "installing"
    /\ UNCHANGED <<lotVars, workVars, posts, queue, call, entry, g_throttleActive>>

Installed ==
    /\ hook = "installing"
    /\ entry' = "detour"
    /\ g_throttleActive' = TRUE
    /\ hook' = "idle"
    /\ UNCHANGED <<lotVars, workVars, stateVars, posts, queue, call>>

-----------------------------------------------------------------------------
Detour == Original \/ Bulldozed \/ Lookup \/ GiveUp \/ BuildWindow \/ SaveWindow

Game(l) ==
    \/ \E s \in Lists[l] : Load(l, s)
    \/ Free(l) \/ ChangeDetail(l) \/ Bulldoze(l) \/ Request(l)
    \/ \E i \in DOMAIN objects[l] : RemoveObject(l, i)

HookThread == DrainPending \/ Uninstall \/ Uninstalled \/ Install \/ Installed

Next ==
    \/ Detour \/ HookThread
    \/ \E l \in Lots : Game(l) \/ RunPosted(l) \/ DelayElapses(l) \/ Post(l)

Spec == Init /\ [][Next]_vars

Fairness ==
    /\ WF_vars(Detour)
    /\ WF_vars(DrainPending)
    /\ \A l \in Lots : WF_vars(RunPosted(l)) /\ WF_vars(DelayElapses(l)) /\ WF_vars(Post(l))

FairSpec == Spec /\ Fairness

-----------------------------------------------------------------------------
(* Properties. *)

\* Every variable has its type; a lot that is known has passed at least one
\* object and has at least one left when its list is unchanged, however
\* objectsPerLot is set.
TypeOK ==
    /\ objects \in [Lots -> Seq({"large", "regular"})]
    /\ list \in [Lots -> 0..MaxLists]
    /\ detailed \in [Lots -> BOOLEAN] /\ bulldozing \in [Lots -> BOOLEAN]
    /\ alive \subseteq Lots /\ wanted \subseteq alive
    /\ \A l \in Lots : built[l] \subseteq DOMAIN objects[l]
    /\ \A l \in Lots : Known(l) => g_state[l].next > 0 /\ g_state[l].objBegin > 0
    /\ elapsed \subseteq {l \in Lots : Known(l)}
    /\ posts \subseteq Lots /\ (hook = "posting" <=> posts # {})
    /\ queue \in [Lots -> Nat]
    /\ call.lot \in Lots \cup {NoLot} /\ call.step \in {"none", "enter", "build", "save"}
    /\ entry \in {"detour", "original"} /\ g_throttleActive \in BOOLEAN
    /\ hook \in {"idle", "posting", "uninstalled", "off", "installing"}
    /\ lists \in 0..MaxLists /\ requests \in 0..MaxRequests

\* When the game's call returns, the lot's large objects are in the scene ("they
\* need them in the scene immediately"), however windows, reloads of the list
\* and later calls have followed one another.
ShellsAreBuiltFirst ==
    \A l \in wanted : call.lot # l => Large(objects[l]) \subseteq built[l]

\* Everything behind the place where a stream will go on has been built, if that
\* place is in the list the lot has now.
NothingIsSkipped ==
    \A l \in Lots : Known(l) /\ g_state[l].objBegin = list[l] =>
        \A i \in DOMAIN objects[l] : i <= g_state[l].next => i \in built[l]

\* A lot that the game waits for and that is not built is in somebody's hands:
\* marked for a post, being posted, posted, or in a call.
NothingIsForgotten ==
    \A l \in wanted : built[l] # DOMAIN objects[l] =>
        \/ g_throttleActive /\ g_state[l].needsPost
        \/ l \in posts \/ queue[l] > 0 \/ call.lot = l

\* Every lot the game asks for is completed, unless the game withdraws the request
\* ("building x objects/window and re-posting the rest cross-thread").
RequestsComplete ==
    \A l \in Lots : l \in wanted ~> l \notin wanted \/ built[l] = DOMAIN objects[l]

=============================================================================
