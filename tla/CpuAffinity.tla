------------------------------ MODULE CpuAffinity ------------------------------
(***************************************************************************)
(* The CPU optimization patch: Install confines the process to the fast    *)
(* cores of a hybrid processor and leaves a thread behind that gives the   *)
(* cores back; the hook of SetThreadIdealProcessor, on the game's threads, *)
(* moves what they ask for to a fast core and keeps a table of them.       *)
(***************************************************************************)
EXTENDS Integers, Sequences, FiniteSets

CONSTANTS
    Cores,      \* the logical processors, 0..n-1
    FastCores,  \* the sequence of those of core type 2, or of the first L3 group
    Masks,      \* process affinities the game may be started with
    Threads,    \* the game's threads that set an ideal processor
    MaxTracked, \* MAX_THREADS
    MaxInstalls  \* bound

VARIABLES
    hybrid,    \* IsHybridCPU; otherwise the processor is one of AMD's
    home,      \* the affinity the process was started with
    affinity,  \* and the one it has
    saved,     \* originalProcessAffinity, {} for 0
    due,       \* restore threads that still sleep
    pCores,    \* pCoreIndices, or l3Groups[0]
    install,   \* "off", "topology", "attach" or "on"
    instance,  \* the static pointer is set
    call,      \* of each thread: its SetThreadIdealProcessor in progress
    tracked,   \* the processor the table has for a thread, or NoCore
    ideal,     \* the thread's ideal processor, or NoCore
    installs,
    spoilt     \* history: no thread was made to restore, a restore failed, or Install
               \* saved the mask while a restore was due

NoCore == -1
NoCall == [pc |-> "none", requested |-> NoCore, final |-> NoCore]
vars == <<hybrid, home, affinity, saved, due, pCores, install, instance, call, tracked, ideal, installs, spoilt>>

Init ==
    /\ hybrid \in BOOLEAN
    /\ home \in Masks /\ affinity = home
    /\ saved = {} /\ due = 0
    /\ pCores = <<>>
    /\ install = "off" /\ instance = FALSE
    /\ call = [t \in Threads |-> NoCall]
    /\ tracked = [t \in Threads |-> NoCore]
    /\ ideal = [t \in Threads |-> NoCore]
    /\ installs = 0
    /\ spoilt = FALSE

-----------------------------------------------------------------------------
(* Install and Uninstall. *)

\* DetectIntelHybridViaCpuSets pins the thread to each core in turn; a core outside
\* the process's affinity cannot be pinned and is passed over.  DetectAmdL3Groups asks
\* the system.
Detected == IF hybrid THEN SelectSeq(FastCores, LAMBDA core : core \in affinity) ELSE FastCores

BeginInstall ==
    /\ install = "off" /\ install' = "topology"
    /\ installs < MaxInstalls /\ installs' = installs + 1
    /\ instance' = TRUE
    /\ pCores' = Detected
    /\ UNCHANGED <<hybrid, home, affinity, saved, due, call, tracked, ideal, spoilt>>

\* Mutant of Restrict: what is saved is the mask just set.
RestrictFirst ==
    /\ install = "topology" /\ install' = "attach"
    /\ \/ UNCHANGED <<saved, affinity, due, spoilt>>
       \/ /\ hybrid /\ pCores # <<>>
          /\ affinity' \in {affinity, {pCores[i] : i \in DOMAIN pCores}}
          /\ saved' = affinity'
          /\ due' \in {due, due + 1}
          /\ spoilt' = (spoilt \/ due > 0 \/ due' = due)
    /\ UNCHANGED <<hybrid, home, pCores, instance, call, tracked, ideal, installs>>

\* The Alder Lake fix: save, confine, and start the thread that restores.  Without fast
\* cores, or if the mask cannot be read, nothing is done; nobody looks at whether it could
\* be set, and whether there is a thread to restore it.
Restrict ==
    /\ install = "topology" /\ install' = "attach"
    /\ \/ UNCHANGED <<saved, affinity, due, spoilt>>
       \/ /\ hybrid /\ pCores # <<>>
          /\ saved' = affinity
          /\ affinity' \in {affinity, {pCores[i] : i \in DOMAIN pCores}}
          /\ due' \in {due, due + 1}
          /\ spoilt' = (spoilt \/ due > 0 \/ due' = due)
    /\ UNCHANGED <<hybrid, home, pCores, instance, call, tracked, ideal, installs>>

\* A missing function clears the instance; a failed attach or commit does not.
Attach ==
    /\ install = "attach"
    /\ \/ install' = "on" /\ UNCHANGED instance
       \/ install' = "off" /\ instance' \in {FALSE, instance}
    /\ UNCHANGED <<hybrid, home, affinity, saved, due, pCores, call, tracked, ideal, installs, spoilt>>

\* No thread is inside the hook; the table and the saved mask stay.
Uninstall ==
    /\ install = "on" /\ install' = "off"
    /\ \A t \in Threads : call[t] = NoCall
    /\ instance' = FALSE
    /\ UNCHANGED <<hybrid, home, affinity, saved, due, pCores, call, tracked, ideal, installs, spoilt>>

\* RestoreAffinityThread, after its five seconds; a refusal goes unnoticed.
RestoreAffinity ==
    /\ due > 0 /\ due' = due - 1
    /\ \/ saved # {} /\ affinity' = saved /\ UNCHANGED spoilt
       \/ UNCHANGED affinity /\ spoilt' = TRUE
    /\ UNCHANGED <<hybrid, home, saved, pCores, install, instance, call, tracked, ideal, installs>>

-----------------------------------------------------------------------------
(* The hook. *)

\* A processor outside the list is replaced by one of the list.
OptimizeThreadProcessor(requested) ==
    IF pCores = <<>> \/ \E i \in DOMAIN pCores : pCores[i] = requested THEN requested
    ELSE pCores[(requested % Len(pCores)) + 1]

SetIdeal(t, core) == ideal' = [ideal EXCEPT ![t] = core]

\* A thread asks; without the hook, or without an instance, it is simply served.
Ask(t) ==
    /\ call[t] = NoCall
    /\ \E requested \in Cores :
        IF install = "on" /\ instance
        THEN /\ call' = [call EXCEPT ![t] = [pc |-> "track", requested |-> requested,
                                             final |-> OptimizeThreadProcessor(requested)]]
             /\ UNCHANGED ideal
        ELSE SetIdeal(t, requested) /\ UNCHANGED call
    /\ UNCHANGED <<hybrid, home, affinity, saved, due, pCores, install, instance, tracked, installs, spoilt>>

\* Under threadsLock; a full table takes no new thread.
Track(t) ==
    /\ call[t].pc = "track"
    /\ tracked' = IF tracked[t] # NoCore \/ Cardinality({u \in Threads : tracked[u] # NoCore}) < MaxTracked
                  THEN [tracked EXCEPT ![t] = call[t].final] ELSE tracked
    /\ call' = [call EXCEPT ![t].pc = "set"]
    /\ UNCHANGED <<hybrid, home, affinity, saved, due, pCores, install, instance, ideal, installs, spoilt>>

CallOriginal(t) ==
    /\ call[t].pc = "set"
    /\ SetIdeal(t, call[t].final)
    /\ call' = [call EXCEPT ![t] = NoCall]
    /\ UNCHANGED <<hybrid, home, affinity, saved, due, pCores, install, instance, tracked, installs, spoilt>>

Next ==
    \/ BeginInstall \/ Restrict \/ Attach \/ Uninstall \/ RestoreAffinity
    \/ \E t \in Threads : Ask(t) \/ Track(t) \/ CallOriginal(t)

Spec == Init /\ [][Next]_vars

-----------------------------------------------------------------------------
\* Once no restore is due the process has all the cores it was started with, however
\* often the patch was installed, failed to install or was removed meanwhile, and whatever
\* masks could not be read or set, but for the three cases in which the code loses them: no
\* thread to restore, a restore refused, a mask saved while another restore was due
\* (cpu_optimization.cpp: "restrict process to P-cores during init, restore after 5s").
AffinityIsRestored == due = 0 /\ ~spoilt => affinity = home

=============================================================================
