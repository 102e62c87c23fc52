----------------------------- MODULE AdaptiveWait -----------------------------
(***************************************************************************)
(* The adaptive wait patch: the hooks in the game's import table that poll *)
(* for a while before they let the kernel block, and the budget of that    *)
(* spinning, which the waiting threads adapt without a lock.               *)
(***************************************************************************)
EXTENDS Integers

CONSTANTS
    Waiters,            \* the game's threads
    Handles,            \* as in KernelWait
    Calls,              \* what they ask for: [hook, handle, time, alertable]
    MaxCalls,           \* bound on their number
    MIN_SPIN_US, MAX_SPIN_US, START_US, \* the budget's bounds, and what Install sets
    ADAPT_INTERVAL,
    STABLE_LIMIT        \* intervals of an unchanged rate before a probe, 15 in the code

VARIABLES
    signalled, queued,  \* the event, and the callbacks of each thread
    isEnabled,
    hooked,             \* the hooks in the import table, of {"wait", "waitEx"}
    call,               \* of each thread
    calls,              \* how many there were
    spinBudgetUs, spinSuccesses, spinFailures,
    totalCalls,         \* modulo ADAPT_INTERVAL, which divides 2^32
    lastSuccessRate,    \* <<successes, waits>>
    stableIntervals     \* no further than STABLE_LIMIT

counters == <<spinBudgetUs, spinSuccesses, spinFailures, totalCalls, lastSuccessRate, stableIntervals>>
patch == <<isEnabled, hooked>>
vars == <<signalled, queued, patch, call, calls, counters>>

Idle == [pc |-> "game", handle |-> "null", time |-> "none", alertable |-> FALSE, result |-> "none",
         budget |-> START_US, successes |-> 0, total |-> 0]

Init ==
    /\ signalled \in BOOLEAN
    /\ queued = [w \in Waiters |-> FALSE]
    /\ isEnabled = FALSE /\ hooked = {}
    /\ call = [w \in Waiters |-> Idle]
    /\ calls = 0
    /\ spinBudgetUs = START_US
    /\ spinSuccesses = 0 /\ spinFailures = 0 /\ totalCalls = 0
    /\ lastSuccessRate = <<0, 1>> /\ stableIntervals = 0

-----------------------------------------------------------------------------
(* Install and Uninstall. *)

\* The counters go back first; either entry may be missing from the table, not both.
Install ==
    /\ ~isEnabled
    /\ spinBudgetUs' = START_US
    /\ spinSuccesses' = 0 /\ spinFailures' = 0 /\ totalCalls' = 0
    /\ lastSuccessRate' = <<1, 2>> /\ stableIntervals' = 0
    /\ \/ \E found \in (SUBSET {"wait", "waitEx"}) \ {{}} : isEnabled' = TRUE /\ hooked' = hooked \cup found
       \/ UNCHANGED patch
    /\ UNCHANGED <<signalled, queued, call, calls>>

\* The hooks stay in the table, and keep spinning.
Uninstall ==
    /\ isEnabled /\ isEnabled' = FALSE
    /\ UNCHANGED <<signalled, queued, hooked, call, calls, counters>>

-----------------------------------------------------------------------------
(* The kernel, and the rest of the game. *)

SetEvent == signalled' = TRUE /\ UNCHANGED <<queued, patch, call, calls, counters>>

QueueCallback(w) == queued' = [queued EXCEPT ![w] = TRUE] /\ UNCHANGED <<signalled, patch, call, calls, counters>>

\* Outcomes of one call of the original for this handle.
Outcomes(w, handle, time, alertable) ==
    (IF handle = "event" /\ signalled
     THEN {[result |-> "object", signalled |-> FALSE, queued |-> queued]} ELSE {})
    \cup (IF alertable /\ queued[w] /\ handle # "null"
          THEN {[result |-> "callback", signalled |-> signalled,
                 queued |-> [queued EXCEPT ![w] = FALSE]]} ELSE {})
    \cup (IF time # "endless" /\ ~(handle = "event" /\ signalled) /\ ~(alertable /\ queued[w]) /\ handle # "null"
          THEN {[result |-> "timeout", signalled |-> signalled, queued |-> queued]} ELSE {})
    \cup (IF handle = "null"
          THEN {[result |-> "failed", signalled |-> signalled, queued |-> queued]} ELSE {})

Original(w, time, alertable, next(_)) ==
    /\ \E o \in Outcomes(w, call[w].handle, time, alertable) :
        /\ signalled' = o.signalled /\ queued' = o.queued
        /\ next(o.result)
    /\ UNCHANGED patch

Go(w, c) == call' = [call EXCEPT ![w] = c] /\ UNCHANGED calls

-----------------------------------------------------------------------------
(* The hooks. *)

\* What TrySmartWait does with a call before it spins.  INVALID_HANDLE_VALUE is what
\* GetCurrentProcess returns: the kernel would wait for the process.
Route(handle, time, alertable) ==
    CASE handle \in {"null", "process"} -> "failed"
      [] time = "none" /\ handle = "thread" /\ ~alertable -> "timeout"
      [] ~alertable /\ time = "endless" /\ spinBudgetUs >= MIN_SPIN_US -> "poll"
      [] OTHER -> "kernel"

Wait(w) ==
    /\ call[w].pc = "game"
    /\ calls < MaxCalls /\ calls' = calls + 1
    /\ \E c \in Calls :
        LET route == IF c.hook \in hooked THEN Route(c.handle, c.time, c.alertable) ELSE "kernel"
        IN call' = [call EXCEPT ![w] = [Idle EXCEPT !.pc = route, !.handle = c.handle, !.time = c.time,
                                                    !.alertable = c.alertable]]
    /\ UNCHANGED <<signalled, queued, patch, counters>>

\* Answered without the kernel.
Answer(w) ==
    /\ call[w].pc \in {"failed", "timeout"}
    /\ Go(w, [call[w] EXCEPT !.pc = "return", !.result = call[w].pc])
    /\ UNCHANGED <<signalled, queued, patch, counters>>

\* Mutant of Poll: the signal a poll has taken is waited for again.
PollTwice(w) ==
    /\ call[w].pc = "poll"
    /\ Original(w, "none", FALSE, LAMBDA result : Go(w, [call[w] EXCEPT
        !.pc = IF result = "timeout" THEN "polled" ELSE "update"]))
    /\ spinSuccesses' = IF signalled /\ ~signalled' THEN spinSuccesses + 1 ELSE spinSuccesses
    /\ UNCHANGED <<spinBudgetUs, spinFailures, totalCalls, lastSuccessRate, stableIntervals>>

\* Asks the kernel without waiting; never alertable.
Poll(w) ==
    /\ call[w].pc = "poll"
    /\ Original(w, "none", FALSE, LAMBDA result : Go(w, [call[w] EXCEPT
        !.pc = IF result = "timeout" THEN "polled" ELSE "update",
        !.result = IF result = "timeout" THEN "none" ELSE result]))
    /\ spinSuccesses' = IF signalled /\ ~signalled' THEN spinSuccesses + 1 ELSE spinSuccesses
    /\ UNCHANGED <<spinBudgetUs, spinFailures, totalCalls, lastSuccessRate, stableIntervals>>

\* The budget is spent, or it is not and the thread pauses and polls again.
CheckBudget(w) ==
    /\ call[w].pc = "polled"
    /\ \/ /\ spinFailures' = spinFailures + 1
          /\ Go(w, [call[w] EXCEPT !.pc = "update"])
       \/ /\ UNCHANGED spinFailures
          /\ Go(w, [call[w] EXCEPT !.pc = "poll"])
    /\ UNCHANGED <<signalled, queued, patch, spinBudgetUs, spinSuccesses, totalCalls, lastSuccessRate, stableIntervals>>

\* After UpdateBudget a call that has its result returns, the others block.
Resume(c) == [c EXCEPT !.pc = IF c.result = "none" THEN "kernel" ELSE "return",
                       !.budget = START_US, !.successes = 0, !.total = 0]

\* The first part of UpdateBudget: at the end of an interval the counts are taken and
\* the budget is loaded.
CountCall(w) ==
    /\ call[w].pc = "update"
    /\ totalCalls' = (totalCalls + 1) % ADAPT_INTERVAL
    /\ LET due == totalCalls = 0
           total == spinSuccesses + spinFailures
       IN /\ spinSuccesses' = IF due THEN 0 ELSE spinSuccesses
          /\ spinFailures' = IF due THEN 0 ELSE spinFailures
          /\ Go(w, IF due /\ total > 0
                   THEN [call[w] EXCEPT !.pc = "adapt", !.budget = spinBudgetUs,
                                        !.successes = spinSuccesses, !.total = total]
                   ELSE Resume(call[w]))
    /\ UNCHANGED <<signalled, queued, patch, spinBudgetUs, lastSuccessRate, stableIntervals>>

\* successes / total compared with a number of hundredths.
Above(c, hundredths) == 100 * c.successes > hundredths * c.total
Below(c, hundredths) == 100 * c.successes < hundredths * c.total

Abs(x) == IF x < 0 THEN -x ELSE x

Steady(c) == 100 * Abs(c.successes * lastSuccessRate[2] - lastSuccessRate[1] * c.total)
                < 3 * c.total * lastSuccessRate[2]

Grown(budget, by) == IF budget + by < MAX_SPIN_US THEN budget + by ELSE MAX_SPIN_US

Probed(budget) ==
    LET less == (budget * 9) \div 10 IN IF less < MIN_SPIN_US THEN MIN_SPIN_US ELSE less

Adapted(c) ==
    CASE Above(c, 65) -> Grown(c.budget, 50)
      [] Above(c, 50) /\ ~Above(c, 65) -> Grown(c.budget, 25)
      [] Above(c, 35) /\ ~Above(c, 50) -> Grown(c.budget, 10)
      [] OTHER -> c.budget

\* The second part: what was loaded is adapted and stored, whatever happened meanwhile.
UpdateBudget(w) ==
    LET c == call[w]
    IN /\ c.pc = "adapt"
       /\ lastSuccessRate' = <<c.successes, c.total>>
       /\ \/ /\ Below(c, 30)
             /\ spinBudgetUs' = MIN_SPIN_US /\ stableIntervals' = 0
          \/ /\ ~Below(c, 30) /\ Steady(c) /\ c.budget > MIN_SPIN_US
             /\ LET probe == stableIntervals >= STABLE_LIMIT
                IN /\ spinBudgetUs' = IF probe THEN Probed(c.budget) ELSE c.budget
                   /\ stableIntervals' = IF probe THEN 0 ELSE stableIntervals + 1
          \/ /\ ~Below(c, 30) /\ ~(Steady(c) /\ c.budget > MIN_SPIN_US)
             /\ spinBudgetUs' = Adapted(c) /\ stableIntervals' = 0
       /\ Go(w, Resume(c))
       /\ UNCHANGED <<signalled, queued, patch, spinSuccesses, spinFailures, totalCalls>>

\* The wait the game asked for, with its own time and alertability.
Block(w) ==
    /\ call[w].pc = "kernel"
    /\ Original(w, call[w].time, call[w].alertable, LAMBDA result :
        Go(w, [call[w] EXCEPT !.pc = "return", !.result = result]))
    /\ UNCHANGED counters

Return(w) ==
    /\ call[w].pc = "return"
    /\ Go(w, Idle)
    /\ UNCHANGED <<signalled, queued, patch, counters>>

Next ==
    \/ Install \/ Uninstall \/ SetEvent
    \/ \E w \in Waiters :
        \/ QueueCallback(w) \/ Wait(w) \/ Answer(w) \/ Poll(w) \/ CheckBudget(w)
        \/ CountCall(w) \/ UpdateBudget(w) \/ Block(w) \/ Return(w)

Spec == Init /\ [][Next]_vars

-----------------------------------------------------------------------------
\* What the game sees of a call: it is over when its result is known.
KernelView(c) ==
    IF c.pc = "game" THEN [status |-> "idle", handle |-> "null", time |-> "none",
                           alertable |-> FALSE, result |-> "none"]
    ELSE [status |-> IF c.result = "none" THEN "waiting" ELSE "done",
          handle |-> c.handle, time |-> c.time, alertable |-> c.alertable, result |-> c.result]

Kernel == INSTANCE KernelWait WITH wait <- [w \in Waiters |-> KernelView(call[w])]

\* Spinning is invisible: with the hooks in the table a signal still ends exactly one
\* wait, no endless wait times out, and no callback runs in a wait that is not alertable
\* (adaptive_wait_patch.cpp, "preserve APC delivery").
ImplementsKernelWait == Kernel!Spec

=============================================================================
