---------------------------- MODULE LightingHooks ----------------------------
(***************************************************************************)
(* The lighting quality patch: the values it writes into the game's data,  *)
(* and its two hooks, which the game's lighting threads run while the      *)
(* patch is installed, taken away and installed again with other settings. *)
(* What the blur does to a texture is the module PixelFilters.             *)
(***************************************************************************)
EXTENDS Integers, FiniteSets, Functions

CONSTANTS
    Threads,   \* the game's lighting threads
    Settings,  \* what a user may choose: [multiplier, walls, cap, soft, diagonal, wallBlur,
               \* edge, samples, adaptive, blur]; samples is 0 for off
    Colours,   \* what the game's own lighting may return
    Close,     \* two colours nearer than this agree
    MaxRefused,  \* bound: places at which one restoring may fail
    MaxInstalls  \* bound

VARIABLES
    chosen,    \* the user's settings
    data,      \* the game's data, by place
    undo,      \* patchedLocations: the places written, with their old values
    step,      \* how far Install or Uninstall is
    hooks,     \* the vector, as a set; it outlives a failed Install
    attached,  \* the hooks the game runs into
    original,  \* of each hook: whether its original is set, else null
    sampleCount, adaptive, blur, resolution, \* the globals the hooks read
    call,      \* of each thread: its call of a hook
    installs,
    forsaken       \* history: places whose restoring failed where nobody tries again

installed == <<chosen, data, undo, step, hooks, installs, forsaken>>
globals == <<attached, original, sampleCount, adaptive, blur, resolution>>
vars == <<installed, globals, call>>

HookNames == {"light", "finalize"}

Orig == [sub |-> 1, diag |-> 1, wall |-> 1024, cache |-> "jz", soft |-> 0,
         pow2 |-> 2048, occlusion |-> 0, blurs |-> 2, edge |-> "own"]

\* kMultiplierValues and so on: the settings are the values themselves.
Wanted(s) ==
    LET maxDim == IF s.cap THEN 4096 ELSE 2048
        wide == 1024 * s.walls
        new == [sub |-> 4 * s.multiplier, diag |-> 0, wall |-> IF wide > maxDim THEN maxDim ELSE wide,
                cache |-> "nop", soft |-> 1, pow2 |-> 4096, occlusion |-> 1,
                blurs |-> 2 + s.wallBlur, edge |-> s.edge]
        places == {"sub", "cache"} \cup (IF s.multiplier > 1 THEN {"diag"} ELSE {})
            \cup (IF s.walls > 1 THEN {"wall"} ELSE {}) \cup (IF s.soft THEN {"soft"} ELSE {})
            \cup (IF s.cap THEN {"pow2"} ELSE {}) \cup (IF s.diagonal THEN {"occlusion"} ELSE {})
            \cup (IF s.wallBlur > 0 THEN {"blurs"} ELSE {}) \cup (IF s.edge # "own" THEN {"edge"} ELSE {})
    IN Restrict(new, places)

NoCall == [pc |-> "game", hook |-> "light", total |-> 0, taken |-> 0, sum |-> 0,
           least |-> 0, most |-> 0, moved |-> FALSE]

Init ==
    /\ chosen \in Settings
    /\ data = Orig /\ undo = <<>>
    /\ step = "off"
    /\ hooks = {} /\ attached = {}
    /\ original = [h \in HookNames |-> FALSE]
    /\ sampleCount = 1 /\ adaptive = FALSE /\ blur = FALSE /\ resolution = FALSE
    /\ call = [t \in Threads |-> NoCall]
    /\ installs = 0
    /\ forsaken = {}

ChangeSettings ==
    /\ step \in {"off", "on"}
    /\ chosen' \in Settings
    /\ UNCHANGED <<data, undo, step, hooks, installs, forsaken, globals, call>>

-----------------------------------------------------------------------------
(* Install. *)

\* The memory with these values written to their places.
Put(values, memory) ==
    [place \in DOMAIN memory |-> IF place \in DOMAIN values THEN values[place] ELSE memory[place]]

\* ResolveAddresses has found every pattern the settings ask for; the transaction
\* commits, and the hooks are queued.
WriteData ==
    /\ step = "off" /\ step' = "attach"
    /\ installs < MaxInstalls /\ installs' = installs + 1
    /\ LET new == Wanted(chosen)
       IN data' = Put(new, data) /\ undo' = Restrict(data, DOMAIN new)
    /\ LET queued == {h \in HookNames : IF h = "light" THEN chosen.samples > 0 ELSE chosen.blur}
       IN /\ hooks' = hooks \cup queued
          /\ original' = [h \in HookNames |-> original[h] \/ h \in queued]
          /\ sampleCount' = IF "light" \in queued THEN chosen.samples ELSE sampleCount
          /\ blur' = IF "finalize" \in queued THEN TRUE ELSE blur
          /\ resolution' = (resolution \/ "finalize" \in queued)
    /\ adaptive' = chosen.adaptive
    /\ UNCHANGED <<chosen, forsaken, attached, call>>

Refusals(places) == {refused \in SUBSET places : Cardinality(refused) <= MaxRefused}

\* A missing pattern, a value that fails its test or a write that fails.  The rollback may
\* fail too, at some places: its result is not looked at, and the transaction is dropped.
FailToWrite ==
    /\ step = "off"
    /\ installs < MaxInstalls /\ installs' = installs + 1
    /\ \E refused \in Refusals(DOMAIN Wanted(chosen)) :
        /\ data' = Put(Restrict(Wanted(chosen), refused), data)
        /\ forsaken' = forsaken \cup refused
    /\ UNCHANGED <<chosen, undo, step, hooks, globals, call>>

\* Every place whose write succeeds is restored; the list is cleared if all are.
RestoreAll(refused) ==
    /\ data' = Put(Restrict(undo, DOMAIN undo \ refused), data)
    /\ undo' = IF refused = {} THEN <<>> ELSE undo

\* One transaction for all hooks in the vector.
AttachHooks ==
    /\ step = "attach" /\ step' = "on"
    /\ attached' = hooks
    /\ UNCHANGED <<chosen, data, undo, hooks, installs, forsaken, original, sampleCount, adaptive, blur, resolution, call>>

\* Mutant of AttachFails: the data stays written.
AttachFailsHalfway ==
    /\ step = "attach" /\ step' = "off"
    /\ hooks # {}
    /\ UNCHANGED <<chosen, data, undo, hooks, installs, forsaken, globals, call>>

\* The data is restored, as far as it can be written: the result is not looked at, and
\* the next Install overwrites the list.  The vector and the globals stay.
AttachFails ==
    /\ step = "attach" /\ step' = "off"
    /\ hooks # {}
    /\ \E refused \in Refusals(DOMAIN undo) : RestoreAll(refused) /\ forsaken' = forsaken \cup refused
    /\ UNCHANGED <<chosen, hooks, installs, globals, call>>

-----------------------------------------------------------------------------
(* Uninstall. *)

ClearGlobals ==
    /\ original' = [h \in HookNames |-> FALSE]
    /\ sampleCount' = 1 /\ adaptive' = FALSE /\ blur' = FALSE /\ resolution' = FALSE

\* The result of the removal is not looked at, nor whether a thread is inside a hook.
RemoveHooks ==
    /\ step = "on" /\ step' = "clear"
    /\ attached' \in {attached \ hooks, attached}
    /\ UNCHANGED <<chosen, data, undo, hooks, installs, forsaken, original, sampleCount, adaptive, blur, resolution, call>>

ClearHooks ==
    /\ step = "clear" /\ step' = "restore"
    /\ hooks' = {}
    /\ IF hooks # {} THEN ClearGlobals ELSE UNCHANGED <<original, sampleCount, adaptive, blur, resolution>>
    /\ UNCHANGED <<chosen, data, undo, installs, forsaken, attached, call>>

\* A place that cannot be restored leaves the patch enabled, without its hooks, and with
\* the list for another attempt.
RestoreData ==
    /\ step = "restore"
    /\ \E refused \in Refusals(DOMAIN undo) :
        /\ RestoreAll(refused)
        /\ step' = IF refused = {} THEN "off" ELSE "on"
    /\ UNCHANGED <<chosen, hooks, installs, forsaken, globals, call>>

-----------------------------------------------------------------------------
(* The hooks, on the game's threads. *)

Moves(t, next) == call' = [call EXCEPT ![t] = next] /\ UNCHANGED <<installed, globals>>

\* HookedLPWAL: without samples it only passes the call on.
EnterLight(t) ==
    /\ call[t] = NoCall /\ "light" \in attached
    /\ Moves(t, IF sampleCount <= 1 THEN [NoCall EXCEPT !.pc = "pass"]
                ELSE [NoCall EXCEPT !.pc = "sample", !.total = sampleCount])

\* Mutant of AfterSample: the early-out divides by the whole pattern.
AfterSampleWhole(c) ==
    IF c.taken = c.total \/ (c.taken = 2 /\ adaptive /\ c.least = c.most)
    THEN [c EXCEPT !.pc = "average"] ELSE c

\* Two samples that agree end an adaptive call.
AfterSample(c) ==
    LET apart == c.most - c.least
    IN CASE c.taken = 2 /\ adaptive /\ apart < Close -> [c EXCEPT !.pc = "average", !.total = 2]
         [] c.taken = c.total -> [c EXCEPT !.pc = "average"]
         [] OTHER -> c

\* The position is moved, the original called through its pointer, the colour added; with
\* the pointer null the process ends here, as in PassOn and BlurTextures.
Sample(t) ==
    /\ call[t].pc = "sample" /\ original["light"]
    /\ \E colour \in Colours :
        LET c == call[t]
            start == c.taken = 0
        IN Moves(t, AfterSample([c EXCEPT
            !.taken = @ + 1, !.sum = @ + colour, !.moved = TRUE,
            !.least = IF start \/ colour < @ THEN colour ELSE @,
            !.most = IF start \/ colour > @ THEN colour ELSE @]))

\* The position is copied back.
Average(t) ==
    /\ call[t].pc = "average"
    /\ Moves(t, [call[t] EXCEPT !.pc = "return", !.moved = FALSE])

\* HookedFinalizePrime: the strength and the pointer are tested, then the pointer is called.
EnterFinalize(t) ==
    /\ call[t] = NoCall /\ "finalize" \in attached
    /\ Moves(t, [NoCall EXCEPT !.hook = "finalize", !.pc = IF blur /\ resolution THEN "resolve" ELSE "pass"])

BlurTextures(t) ==
    /\ call[t].pc = "resolve" /\ resolution
    /\ Moves(t, [call[t] EXCEPT !.pc = "pass"])

PassOn(t) ==
    /\ call[t].pc = "pass" /\ original[call[t].hook]
    /\ Moves(t, NoCall)

Return(t) ==
    /\ call[t].pc = "return"
    /\ Moves(t, NoCall)

Next ==
    \/ ChangeSettings \/ WriteData \/ FailToWrite \/ AttachHooks \/ AttachFails
    \/ RemoveHooks \/ ClearHooks \/ RestoreData
    \/ \E t \in Threads :
        \/ EnterLight(t) \/ Sample(t) \/ Average(t) \/ Return(t)
        \/ EnterFinalize(t) \/ BlurTextures(t) \/ PassOn(t)

Spec == Init /\ [][Next]_vars

-----------------------------------------------------------------------------
\* What the patch has written can be taken back at every moment, and the patch that is
\* off has taken it back, whichever installations and removals failed, how far soever, and
\* whatever was chosen in between, but for places whose write failed while a failed
\* Install put them back (LightingQualityPatch::Install and Uninstall).
DataIsPutBack ==
    \A place \in DOMAIN Orig \ forsaken :
        /\ step = "off" => data[place] = Orig[place]
        /\ Put(undo, data)[place] = Orig[place]

\* The colour a call returns is an average of the samples it has taken, and the game's
\* surface is where it was, also when the call ended early or the patch changed meanwhile.
AverageOfSamples ==
    \A t \in Threads :
        LET c == call[t]
        IN c.pc = "return" =>
            /\ ~c.moved
            /\ c.least * c.total <= c.sum /\ c.sum <= c.most * c.total

=============================================================================
