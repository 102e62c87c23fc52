----------------------------- MODULE FrameLimiter -----------------------------
(***************************************************************************)
(* The precise smooth patch: the simulation thread waits in                *)
(* HookedIdleSimulationCycle, the render thread in                         *)
(* DelayAfterFramePresentation, and the patch manager's threads install,   *)
(* uninstall and retune the patch under their feet.                        *)
(*                                                                         *)
(* The clock counts small units.  Every period divides Cycle, so times are *)
(* kept relative: when the clock has come far enough, all of them are set  *)
(* back by Cycle.  A stamp long past becomes -Cycle, any other time 0; the *)
(* clock waits for a thread about to make a stamp of so old a time.        *)
(***************************************************************************)
EXTENDS Integers

CONSTANTS
    Cycle,       \* a common multiple of all periods
    Second,      \* performanceFrequency
    Settings,    \* what a user may choose: [tickOnce, cycle, frame, inactive], where the
                 \* three rates are given by their periods, 0 for "unlimited"
    Frequencies, \* what timerFrequency may be when it is read
    Reread       \* TRUE: timerFrequency may change between its two reads

VARIABLES
    clock,
    tickOnce, frameSimulate,
    idealCycle, idealFrame, idealInactive,
    previousCycle, previousFrame, \* the threads' last stamps
    patch,     \* "off", "half" or "on": how far Install has come
    sim, render \* each thread: where it is, and its locals

tuning == <<tickOnce, idealCycle, idealFrame, idealInactive>>
vars == <<clock, tuning, frameSimulate, previousCycle, previousFrame,
          patch, sim, render>>

InGame == [pc |-> "game", ideal |-> 0, target |-> 0, sleepUntil |-> 0, now |-> 0, begin |-> 0]

Init ==
    /\ clock = Cycle
    /\ tickOnce = FALSE /\ frameSimulate = TRUE
    /\ idealCycle = 0 /\ idealFrame = 0 /\ idealInactive = 0
    /\ previousCycle = -Cycle /\ previousFrame = -Cycle
    /\ patch = "off"
    /\ sim = InGame /\ render = InGame

-----------------------------------------------------------------------------
\* A sleep may end late, never early; then the thread spins.  UpdateTimerFrequency,
\* on the hook thread, may retune the sleep before any call.
SleepUntil(time) ==
    {(time \div h[1]) * h[2] : h \in {g \in Frequencies \X Frequencies : Reread \/ g[1] = g[2]}}

\* Mutant of Target: the thread is not asked to wait.
TargetNow(previous, ideal) == previous

Target(previous, ideal) == previous + ideal

\* The thread at its call, with the period it has read and the time it will wait for.
Waiting(previous, ideal, sleep) ==
    IF clock >= Target(previous, ideal)
    THEN [InGame EXCEPT !.pc = "after", !.ideal = ideal, !.now = clock]
    ELSE [InGame EXCEPT !.pc = IF sleep > clock THEN "sleep" ELSE "spin",
                        !.ideal = ideal, !.target = Target(previous, ideal), !.sleepUntil = sleep]

Woken(thread) == thread.pc = "sleep" /\ clock >= thread.sleepUntil
Spun(thread) == thread.pc = "spin" /\ clock >= thread.target

\* Mutant of Stamp: the time is rounded up.
StampNext(thread) == (thread.now \div thread.ideal + 1) * thread.ideal

\* Rounded down, "so that if we're running late the next cycle will occur earlier".
Stamp(thread) == (thread.now \div thread.ideal) * thread.ideal

-----------------------------------------------------------------------------
(* The simulation thread. *)

Simulates == UNCHANGED <<clock, tuning, previousFrame, patch, render>>

BusyWait == [InGame EXCEPT !.pc = "frame", !.begin = clock]

\* No limit, or the game does not idle: without tickOnce the call returns at once.
IdleUntimed ==
    /\ patch \in {"half", "on"} /\ sim.pc = "game"
    /\ tickOnce
    /\ sim' = BusyWait
    /\ Simulates /\ UNCHANGED <<frameSimulate, previousCycle>>

\* The period is read once, "so as to avoid a potential division-by-zero".
IdleTimed ==
    /\ patch \in {"half", "on"} /\ sim.pc = "game"
    /\ idealCycle # 0
    /\ \E sleep \in SleepUntil(Target(previousCycle, idealCycle)) :
        sim' = Waiting(previousCycle, idealCycle, sleep)
    /\ Simulates /\ UNCHANGED <<frameSimulate, previousCycle>>

SimWake ==
    /\ Woken(sim)
    /\ sim' = [sim EXCEPT !.pc = "spin", !.sleepUntil = 0]
    /\ Simulates /\ UNCHANGED <<frameSimulate, previousCycle>>

SimSpun ==
    /\ Spun(sim)
    /\ sim' = [InGame EXCEPT !.pc = "after", !.ideal = sim.ideal, !.now = clock]
    /\ Simulates /\ UNCHANGED <<frameSimulate, previousCycle>>

SimAfter ==
    /\ sim.pc = "after"
    /\ sim' = IF tickOnce THEN [BusyWait EXCEPT !.ideal = sim.ideal, !.now = clock]
              ELSE [sim EXCEPT !.pc = "stamp"]
    /\ Simulates /\ UNCHANGED <<frameSimulate, previousCycle>>

FrameWaited == [sim EXCEPT !.pc = "stamp", !.begin = 0]

\* Where no period was read, the time is not used for a stamp.
Polled == [sim EXCEPT !.now = IF sim.ideal = 0 THEN 0 ELSE clock]

\* BusyWaitForFrame: the exchange finds a frame.
FrameSeen ==
    /\ sim.pc = "frame" /\ frameSimulate
    /\ frameSimulate' = FALSE
    /\ sim' = FrameWaited
    /\ Simulates /\ UNCHANGED previousCycle

\* Or it does not: the loop is left if the game ends its simulation or no longer
\* idles, or after a second.
FramePoll ==
    /\ sim.pc = "frame" /\ ~frameSimulate
    /\ \/ sim' = FrameWaited
       \/ clock - sim.begin < Second /\ sim' = Polled
       \/ clock - sim.begin >= Second /\ sim' = [Polled EXCEPT !.pc = "stamp", !.begin = 0]
    /\ Simulates /\ UNCHANGED <<frameSimulate, previousCycle>>

SimReturn ==
    /\ sim.pc = "stamp"
    /\ previousCycle' = IF sim.ideal = 0 THEN previousCycle ELSE Stamp(sim)
    /\ sim' = InGame
    /\ Simulates /\ UNCHANGED frameSimulate

Sim == IdleUntimed \/ IdleTimed \/ SimWake \/ SimSpun \/ SimAfter \/ FrameSeen \/ FramePoll \/ SimReturn

-----------------------------------------------------------------------------
(* The render thread. *)

Renders == UNCHANGED <<clock, tuning, previousCycle, patch, sim>>

Present ==
    /\ patch = "on" /\ render.pc = "game"
    /\ frameSimulate' = (frameSimulate \/ tickOnce)
    /\ \E ideal \in {idealFrame, idealInactive} : \* whether the window is in front or not
          \/ ideal = 0 /\ UNCHANGED render
          \/ ideal # 0 /\ \E sleep \in SleepUntil(Target(previousFrame, ideal)) :
                            render' = Waiting(previousFrame, ideal, sleep)
    /\ Renders /\ UNCHANGED previousFrame

RenderWake ==
    /\ Woken(render)
    /\ render' = [render EXCEPT !.pc = "spin", !.sleepUntil = 0]
    /\ Renders /\ UNCHANGED <<frameSimulate, previousFrame>>

RenderSpun ==
    /\ Spun(render)
    /\ render' = [InGame EXCEPT !.pc = "after", !.ideal = render.ideal, !.now = clock]
    /\ Renders /\ UNCHANGED <<frameSimulate, previousFrame>>

RenderReturn ==
    /\ render.pc = "after"
    /\ previousFrame' = Stamp(render)
    /\ render' = InGame
    /\ Renders /\ UNCHANGED frameSimulate

Render == RenderWake \/ RenderSpun \/ RenderReturn

-----------------------------------------------------------------------------
(* Install and Uninstall, which take no notice of who is inside the hooks. *)

Patches == UNCHANGED <<clock, previousCycle, previousFrame, sim, render>>

\* The settings are taken over first; then the transaction writes the call, which
\* may fail, and the comparison.
Install ==
    /\ patch = "off" /\ patch' \in {"half", "off"}
    /\ frameSimulate' = TRUE
    /\ \E s \in Settings :
        /\ tickOnce' = s.tickOnce
        /\ idealCycle' = s.cycle /\ idealFrame' = s.frame /\ idealInactive' = s.inactive
    /\ Patches

\* A failed write rolls the first one back.
InstallRest ==
    /\ patch = "half" /\ patch' \in {"on", "off"}
    /\ UNCHANGED <<tuning, frameSimulate>> /\ Patches

Uninstall ==
    /\ patch = "on" /\ patch' = "off"
    /\ UNCHANGED <<tuning, frameSimulate>> /\ Patches

-----------------------------------------------------------------------------
Back(time, least) == IF time - Cycle < least THEN least ELSE time - Cycle
ThreadBack(t) ==
    IF t.pc = "game" THEN t
    ELSE [t EXCEPT !.target = Back(@, 0), !.sleepUntil = Back(@, 0), !.now = Back(@, 0), !.begin = Back(@, 0)]
StampsSoon(t) == t.pc \in {"after", "frame", "stamp"} /\ t.ideal # 0 /\ t.now < Cycle

Pass ==
    /\ clock < 2 * Cycle
    /\ clock' = clock + 1
    /\ UNCHANGED <<tuning, frameSimulate, previousCycle, previousFrame, patch, sim, render>>

SetBack ==
    /\ clock = 2 * Cycle /\ ~StampsSoon(sim) /\ ~StampsSoon(render)
    /\ clock' = Cycle
    /\ previousCycle' = Back(previousCycle, -Cycle) /\ previousFrame' = Back(previousFrame, -Cycle)
    /\ sim' = ThreadBack(sim) /\ render' = ThreadBack(render)
    /\ UNCHANGED <<tuning, frameSimulate, patch>>

Clock == Pass \/ SetBack

Next ==
    \/ Sim \/ Present \/ Render
    \/ Install \/ InstallRest \/ Uninstall
    \/ Clock

Spec == Init /\ [][Next]_vars

-----------------------------------------------------------------------------
\* Every limited cycle and every limited frame takes a slot of the time grid of its
\* own: the stamp it leaves is later than the one before, also when Install changes
\* the period while the thread waits (smooth_patch_precise.cpp, HookedIdleSimulationCycle
\* and DelayAfterFramePresentation).
TakesTurn ==
    /\ SimReturn /\ sim.ideal # 0 => previousCycle' > previousCycle
    /\ RenderReturn => previousFrame' > previousFrame

OneTurnPerSlot == [][TakesTurn]_vars

\* A wait is never longer than the period the thread has read, and no sleep is asked
\* for beyond its end, if the timer's frequency is the same in both of its reads (Reread
\* FALSE).
WaitsForItsPeriod ==
    \A call \in {<<sim, sim'>>, <<render, render'>>} :
        call[1].pc = "game" /\ call[2].pc \in {"sleep", "spin"} =>
            /\ call[2].target <= clock + call[2].ideal
            /\ call[2].sleepUntil <= call[2].target

WaitIsBounded == [][WaitsForItsPeriod]_vars

=============================================================================
