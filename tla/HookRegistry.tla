---------------------------- MODULE HookRegistry ----------------------------
(***************************************************************************)
(* The Direct3D hook registry: patches register prioritised hooks for      *)
(* device methods, and every device call of the game first runs the hooks  *)
(* of its method, under one non-recursive mutex that registering and       *)
(* unregistering take as well.                                             *)
(*                                                                         *)
(* The fifteen hooked methods have identical Register / Execute / Hooked   *)
(* functions that differ in their parameters only; Methods stands for any  *)
(* of them.  A hook is abstracted to what it does to the call.             *)
(***************************************************************************)
EXTENDS Integers, Sequences, FiniteSets

CONSTANTS
    Threads,     \* threads that call the device or install patches
    Methods,     \* the hooked device methods
    Names,       \* the patches' names
    Priorities,  \* numeric values of Priority
    MaxHooks     \* bound: hooks registered per method

\* "continue", "skip" and "block" are the HookResults; "override" is a hook that
\* sets ctx.skipOriginal and ctx.overrideResult and returns Continue.
Effects == {"continue", "skip", "block", "override"}
HookEntry == [name : Names, priority : Priorities, effect : Effects]

ASSUME RegistryAssumption ==
    /\ Priorities \subseteq Nat
    /\ MaxHooks \in Nat
    /\ "none" \notin Threads

VARIABLES
    hooks,       \* the vectors, one per method
    owner,       \* owner of g_registryMutex
    initDone,    \* g_deviceInitDone: the device's set-up, Initialize included, is run once
    initialized, \* g_initialized
    attached,    \* the detours are in the device's code
    originals,   \* what the Original_ pointers lead to
    pc, method, pos, skipOriginal, outcome, \* per thread: the device call it is in
    removed      \* names whose UnregisterAll has returned, until they register again

regVars == <<hooks, owner, removed>>
initVars == <<initDone, initialized, attached, originals>>
callVars == <<method, pos, skipOriginal, outcome>>
vars == <<regVars, initVars, pc, callVars>>

-----------------------------------------------------------------------------
Init ==
    /\ hooks = [m \in Methods |-> <<>>]
    /\ owner = "none"
    /\ initDone = FALSE
    /\ initialized = FALSE
    /\ attached = FALSE
    /\ originals = "null"
    /\ pc = [t \in Threads |-> "idle"]
    /\ method \in [Threads -> Methods]
    /\ pos = [t \in Threads |-> 0]
    /\ skipOriginal = [t \in Threads |-> FALSE]
    /\ outcome = [t \in Threads |-> "none"]
    /\ removed = {}

Goto(t, label) == pc' = [pc EXCEPT ![t] = label]

Ordered(list) ==
    \A i, j \in DOMAIN list : i < j => list[i].priority <= list[j].priority

\* std::sort: any ordered arrangement, equal priorities in any order.
SortHooks(list) ==
    LET places == DOMAIN list
        shuffles == {f \in [places -> places] : \A j \in places : \E i \in places : f[i] = j}
    IN  {s \in {[i \in places |-> list[f[i]]] : f \in shuffles} : Ordered(s)}

\* remove_if and erase: what is left of the list without a patch's hooks, in its order.
Without(list, n) ==
    LET kept == {i \in DOMAIN list : list[i].name # n}
        picks == {f \in [1..Cardinality(kept) -> kept] : \A i, j \in DOMAIN f : i < j => f[i] < f[j]}
    IN  {[i \in DOMAIN f |-> list[f[i]]] : f \in picks}

RemoveHooks(n) ==
    hooks' \in {h \in [Methods -> UNION {Without(hooks[m], n) : m \in Methods}] :
                   \A m \in Methods : h[m] \in Without(hooks[m], n)}

-----------------------------------------------------------------------------
(* Register and UnregisterAll, each one critical section. *)

\* Mutant of Register: no SortHooks after push_back.
RegisterUnsorted(t, m, e) ==
    /\ pc[t] = "idle"
    /\ owner = "none"
    /\ Len(hooks[m]) < MaxHooks
    /\ hooks' = [hooks EXCEPT ![m] = Append(@, e)]
    /\ removed' = removed \ {e.name}
    /\ UNCHANGED <<owner, initVars, pc, callVars>>

Register(t, m, e) ==
    /\ pc[t] = "idle"
    /\ owner = "none"
    /\ Len(hooks[m]) < MaxHooks
    /\ \E s \in SortHooks(Append(hooks[m], e)) : hooks' = [hooks EXCEPT ![m] = s]
    /\ removed' = removed \ {e.name}
    /\ UNCHANGED <<owner, initVars, pc, callVars>>

\* Mutant of UnregisterAll: the mutex is not taken.
UnregisterUnlocked(t, n) ==
    /\ pc[t] = "idle"
    /\ RemoveHooks(n)
    /\ removed' = removed \cup {n}
    /\ UNCHANGED <<owner, initVars, pc, callVars>>

UnregisterAll(t, n) ==
    /\ pc[t] = "idle"
    /\ owner = "none"
    /\ RemoveHooks(n)
    /\ removed' = removed \cup {n}
    /\ UNCHANGED <<owner, initVars, pc, callVars>>

-----------------------------------------------------------------------------
(* A device call through the detour. *)

HookedCall(t, m) ==
    /\ pc[t] = "idle"
    /\ attached
    /\ method' = [method EXCEPT ![t] = m]
    /\ skipOriginal' = [skipOriginal EXCEPT ![t] = FALSE]
    /\ outcome' = [outcome EXCEPT ![t] = "none"]
    /\ Goto(t, "execute")
    /\ UNCHANGED <<regVars, initVars, pos>>

\* Execute...Hooks takes the mutex for the whole loop.
ExecuteLock(t) ==
    /\ pc[t] = "execute"
    /\ owner = "none"
    /\ owner' = t
    /\ pos' = [pos EXCEPT ![t] = 1]
    /\ Goto(t, "loop")
    /\ UNCHANGED <<hooks, removed, initVars, method, skipOriginal, outcome>>

\* The loop test: the next hook's body starts, or the verdict is in.
LoopTest(t) ==
    /\ pc[t] = "loop"
    /\ IF pos[t] <= Len(hooks[method[t]])
       THEN /\ Goto(t, "inhook")
            /\ UNCHANGED outcome
       ELSE /\ Goto(t, "unlock")
            /\ outcome' = [outcome EXCEPT ![t] =
                              IF skipOriginal[t] THEN "overrideResult" ELSE "original"]
    /\ UNCHANGED <<regVars, initVars, method, pos, skipOriginal>>

\* A hook's body calls the device by CallOriginal..., which takes no mutex.
CallOriginal(t) ==
    /\ pc[t] = "inhook"
    /\ Goto(t, "bypass")
    /\ UNCHANGED <<regVars, initVars, callVars>>

Running(t) == hooks[method[t]][pos[t]]

HookReturns(t) ==
    /\ pc[t] \in {"inhook", "bypass"}
    /\ LET effect == Running(t).effect
       IN  \/ /\ effect \in {"skip", "block"}
              /\ skipOriginal' = [skipOriginal EXCEPT ![t] = TRUE]
              /\ outcome' = [outcome EXCEPT ![t] = IF effect = "skip" THEN "S_OK" ELSE "E_FAIL"]
              /\ Goto(t, "unlock")
              /\ UNCHANGED pos
           \/ /\ effect \in {"continue", "override"}
              /\ skipOriginal' = [skipOriginal EXCEPT ![t] = @ \/ effect = "override"]
              /\ pos' = [pos EXCEPT ![t] = @ + 1]
              /\ Goto(t, "loop")
              /\ UNCHANGED outcome
    /\ UNCHANGED <<regVars, initVars, method>>

\* The lock_guard's destructor, then the Hooked_ function's choice.
ExecuteUnlock(t) ==
    /\ pc[t] = "unlock"
    /\ owner' = "none"
    /\ Goto(t, IF outcome[t] = "original" THEN "original" ELSE "idle")
    /\ UNCHANGED <<hooks, removed, initVars, callVars>>

\* Mutant of OriginalReturns: the device is called instead of the original pointer.
OriginalThroughDevice(t) ==
    /\ pc[t] = "original"
    /\ outcome' = [outcome EXCEPT ![t] = "none"]
    /\ Goto(t, IF attached THEN "execute" ELSE "idle")
    /\ UNCHANGED <<regVars, initVars, method, pos, skipOriginal>>

\* An original pointer that still leads to the method's own code, when that code
\* has been patched, comes back into the detour with a new context.
OriginalReturns(t) ==
    /\ pc[t] = "original"
    /\ outcome' = [outcome EXCEPT ![t] = "none"]
    /\ Goto(t, IF attached /\ originals = "code" THEN "execute" ELSE "idle")
    /\ UNCHANGED <<regVars, initVars, method, pos, skipOriginal>>

-----------------------------------------------------------------------------
(* Internal::Initialize and Cleanup, without the mutex. *)

\* Mutant of TakeOriginals: no test of g_deviceInitDone.
TakeOriginalsAgain(t) ==
    /\ pc[t] = "idle"
    /\ ~initialized
    /\ initDone' = TRUE
    /\ originals' = "code"
    /\ Goto(t, "commit")
    /\ UNCHANGED <<regVars, initialized, attached, callVars>>

\* The end of the device's first set-up, on the thread that renders: Initialize reads the
\* pointers from the vtable, where they lead to the methods' own code.
TakeOriginals(t) ==
    /\ pc[t] = "idle"
    /\ ~initDone
    /\ ~initialized
    /\ initDone' = TRUE
    /\ originals' = "code"
    /\ Goto(t, "commit")
    /\ UNCHANGED <<regVars, initialized, attached, callVars>>

\* DetourTransactionCommit patches that code and makes the pointers trampolines,
\* or fails and leaves both alone.
CommitDetours(t) ==
    /\ pc[t] = "commit"
    /\ Goto(t, "idle")
    /\ \/ /\ attached' = TRUE
          /\ originals' = "trampoline"
          /\ initialized' = TRUE
          /\ UNCHANGED initDone
       \/ UNCHANGED initVars
    /\ UNCHANGED <<regVars, callVars>>

\* g_initialized is cleared whether or not the commit took the detours out.
Cleanup(t) ==
    /\ pc[t] = "idle"
    /\ initialized
    /\ \/ attached' = FALSE /\ originals' = "code"
       \/ UNCHANGED <<attached, originals>>
    /\ initialized' = FALSE
    /\ UNCHANGED <<regVars, initDone, pc, callVars>>

-----------------------------------------------------------------------------
Initialize(t) == TakeOriginals(t) \/ CommitDetours(t)

Execute(t) ==
    \/ ExecuteLock(t) \/ LoopTest(t) \/ CallOriginal(t) \/ HookReturns(t)
    \/ ExecuteUnlock(t) \/ OriginalReturns(t)

Next == \E t \in Threads :
    \/ \E m \in Methods : HookedCall(t, m) \/ \E e \in HookEntry : Register(t, m, e)
    \/ \E n \in Names : UnregisterAll(t, n)
    \/ Execute(t) \/ Initialize(t) \/ Cleanup(t)

Spec == Init /\ [][Next]_vars

\* A call goes on once it has begun, and a thread that waits for the mutex gets
\* it in the end: the critical sections are short and none is entered for ever.
Fairness == \A t \in Threads :
    /\ WF_vars(Execute(t))
    /\ WF_vars(CommitDetours(t))
    /\ SF_vars(ExecuteLock(t))

FairSpec == Spec /\ Fairness

-----------------------------------------------------------------------------
(* Properties. *)

\* Every variable has its type, and g_registryMutex is held across steps exactly
\* by a thread inside an Execute function.
TypeOK ==
    /\ owner \in Threads \cup {"none"}
    /\ \A t \in Threads : pc[t] \in {"loop", "inhook", "bypass", "unlock"} <=> owner = t
    /\ hooks \in [Methods -> Seq(HookEntry)]
    /\ \A m \in Methods : Len(hooks[m]) <= MaxHooks
    /\ initDone \in BOOLEAN
    /\ initialized \in BOOLEAN
    /\ attached \in BOOLEAN
    /\ originals \in {"null", "code", "trampoline"}
    /\ pc \in [Threads -> {"idle", "execute", "loop", "inhook", "bypass", "unlock",
                           "original", "commit"}]
    /\ method \in [Threads -> Methods]
    /\ pos \in [Threads -> 0..MaxHooks + 1]
    /\ skipOriginal \in [Threads -> BOOLEAN]
    /\ outcome \in [Threads -> {"none", "original", "overrideResult", "S_OK", "E_FAIL"}]
    /\ removed \subseteq Names

\* Once UnregisterAll(name) has returned, no hook of that name runs or is about
\* to: Uninstall may destroy what the hook captured.
NoHookAfterUnregister == \A t \in Threads :
    pc[t] \in {"inhook", "bypass"} => /\ pos[t] \in DOMAIN hooks[method[t]]
                                      /\ Running(t).name \notin removed

\* Under the mutex the outcome of a call is the one its registered hooks call
\* for, whatever registrations came before: among the hooks that skip or block,
\* one of the lowest priority number decides; without one, ctx decides.
Stoppers(list) == {i \in DOMAIN list : list[i].effect \in {"skip", "block"}}

FirstStoppers(list) ==
    {i \in Stoppers(list) : \A j \in Stoppers(list) : list[i].priority <= list[j].priority}

Verdicts(list) ==
    IF Stoppers(list) # {}
    THEN {IF list[i].effect = "skip" THEN "S_OK" ELSE "E_FAIL" : i \in FirstStoppers(list)}
    ELSE IF \E i \in DOMAIN list : list[i].effect = "override"
    THEN {"overrideResult"} ELSE {"original"}

OutcomeFollowsPriority == \A t \in Threads :
    pc[t] = "unlock" => outcome[t] \in Verdicts(hooks[method[t]])

\* A call that goes to the original never comes back into the detour, which
\* would recurse for ever: the pointers are trampolines while the detours are in,
\* those that a failed Cleanup has left in included.
OriginalsBypass == attached => originals = "trampoline"

\* Every device call returns, also one whose hooks call the device by the
\* CallOriginal functions: the registry never waits for itself.
DeviceCallsReturn ==
    \A t \in Threads : pc[t] # "idle" ~> pc[t] = "idle"

=============================================================================
