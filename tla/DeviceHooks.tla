----------------------------- MODULE DeviceHooks -----------------------------
(***************************************************************************)
(* The hooks on the device the game creates, the overlay's frame inside    *)
(* HookedEndScene, the chain of window procedures, and the borderless      *)
(* window that CreateDevice, EndScene, Reset and the overlay drive.        *)
(*                                                                         *)
(* Any thread of the game may call EndScene.  Direct3D obliges the game to *)
(* create and reset a device while no thread is between BeginScene and     *)
(* EndScene.  The hook thread loads the saved mode.  BorderlessWindow's    *)
(* m_mutex makes each of its operations one step.                          *)
(***************************************************************************)
EXTENDS Integers

CONSTANTS
    Threads,       \* the game's threads
    Windows,
    None,
    ActiveModes,   \* BorderlessMode other than Disabled
    Overlay,       \* g_overlayEnabled
    ReapplyFrames, \* frames until the deferred reapply (60)
    Returns,       \* TRUE: a window may be handed over again after another one
    Reloads        \* TRUE: the saved mode may be loaded once there is a device

Modes == ActiveModes \cup {"Disabled"}

ASSUME DeviceAssumption ==
    /\ None \notin Windows /\ "none" \notin Windows /\ "stripped" \notin Windows
    /\ "Disabled" \notin ActiveModes
    /\ ReapplyFrames \in Nat \ {0}
    /\ Overlay \in BOOLEAN /\ Returns \in BOOLEAN /\ Reloads \in BOOLEAN

VARIABLES
    device,        \* what TestCooperativeLevel answers, "none" before CreateDevice
    focus, deviceWindow, \* its windows
    attached,      \* g_deviceHooksAttached
    inEndScene, deviceInitializing, deviceInitDone, imguiInitialized,
    wndProc,       \* GWLP_WNDPROC of each window
    original_WndProc,
    returned,      \* what SetWindowLongPtr has returned
    mode, hwnd,    \* BorderlessWindow: m_mode, m_hwnd,
    originalStyle, \* m_originalStyle, "none" for 0,
    wasApplied, countdown, \* m_wasApplied, m_reapplyCountdown
    savedMode,     \* the mode in S3SS.toml
    style,         \* the style of each window: its own, named by the window, or "stripped"
    alive,         \* what IsWindow answers
    past,          \* windows that m_hwnd has held and left
    pc             \* where each thread is in a hook

deviceVars == <<device, focus, deviceWindow, attached>>
frameVars == <<inEndScene, deviceInitializing, deviceInitDone, imguiInitialized>>
procVars == <<wndProc, original_WndProc, returned>>
modeVars == <<mode, savedMode>>
windowVars == <<hwnd, originalStyle, wasApplied, countdown, style, past>>
vars == <<deviceVars, frameVars, procVars, modeVars, windowVars, alive, pc>>

-----------------------------------------------------------------------------
\* The mode is the one PeekEnabledEarly has read.
Init ==
    /\ device = "none" /\ focus = None /\ deviceWindow = None
    /\ attached = FALSE
    /\ inEndScene = FALSE
    /\ deviceInitializing = FALSE /\ deviceInitDone = FALSE
    /\ imguiInitialized = FALSE
    /\ wndProc = [w \in Windows |-> "game"]
    /\ original_WndProc = "null" /\ returned = "null"
    /\ mode \in Modes
    /\ savedMode = mode
    /\ hwnd = None
    /\ originalStyle = "none"
    /\ wasApplied = FALSE
    /\ countdown = 0
    /\ style = [w \in Windows |-> w]
    /\ alive = Windows
    /\ past = {}
    /\ pc = [t \in Threads |-> "idle"]

Quiet == \A t \in Threads : pc[t] = "idle"
Goto(t, label) == pc' = [pc EXCEPT ![t] = label]

-----------------------------------------------------------------------------
(* BorderlessWindow. *)

StyleOf(w) == IF w \in alive THEN style[w] ELSE "none"

\* ApplyDecorationsOnly, ApplyMaximized or ApplyFullscreen on window w, whose
\* original style RemoveDecorations captures unless one was captured before.
Strip(w, captured) ==
    IF w \in alive
    THEN /\ originalStyle' = IF captured = "none" THEN style[w] ELSE captured
         /\ style' = [style EXCEPT ![w] = "stripped"]
         /\ wasApplied' = TRUE
    ELSE originalStyle' = captured /\ UNCHANGED <<style, wasApplied>>

RestoreWindowed ==
    IF hwnd \in alive /\ wasApplied
    THEN /\ style' = IF originalStyle = "none" THEN style
                     ELSE [style EXCEPT ![hwnd] = originalStyle]
         /\ wasApplied' = FALSE
         /\ UNCHANGED originalStyle
    ELSE UNCHANGED <<style, wasApplied, originalStyle>>

Apply ==
    /\ IF mode = "Disabled" THEN RestoreWindowed ELSE Strip(hwnd, originalStyle)
    /\ UNCHANGED <<hwnd, countdown, past>>

\* A first or a different window has its style captured; an active mode is
\* applied at once and again after ReapplyFrames frames.
SetWindowHandle(w) ==
    LET captured == IF originalStyle = "none" \/ w # hwnd THEN StyleOf(w) ELSE originalStyle
    IN  /\ hwnd' = w
        /\ past' = past \cup ({hwnd} \ {w, None})
        /\ IF mode = "Disabled"
           THEN originalStyle' = captured /\ UNCHANGED <<style, wasApplied, countdown>>
           ELSE Strip(w, captured) /\ countdown' = ReapplyFrames

\* Unless Returns, a device has one window, and not one that was left before.
MayUse(f, d) ==
    Returns \/ ((f = d \/ None \in {f, d}) /\ f \notin past /\ d \notin past)

-----------------------------------------------------------------------------
(* CreateDevice. *)

\* The game creates a device; a hook attaches EndScene and Reset, unless a
\* Detours transaction of another thread is open, in which case the next device
\* tries again.  A window that is gone never comes back.
CreateDevice(t, f, d) ==
    /\ Quiet
    /\ f \in alive \cup {None} /\ d \in alive \cup {None} /\ {f, d} # {None}
    /\ MayUse(f, d)
    /\ device' = "ok" /\ focus' = f /\ deviceWindow' = d
    /\ attached' \in {attached, TRUE}
    /\ Goto(t, "created")
    /\ UNCHANGED <<frameVars, procVars, modeVars, windowVars, alive>>

\* The window goes to BorderlessWindow right away when a mode is active.
HandOver(t) ==
    /\ pc[t] = "created"
    /\ Goto(t, "idle")
    /\ IF mode = "Disabled" THEN UNCHANGED windowVars
       ELSE SetWindowHandle(IF deviceWindow # None THEN deviceWindow ELSE focus)
    /\ UNCHANGED <<deviceVars, frameVars, procVars, modeVars, alive>>

-----------------------------------------------------------------------------
(* HookedEndScene.  A thread that finds g_inEndScene set only calls the original. *)

\* Mutant of EnterEndScene: g_inEndScene is tested, not exchanged.
EnterEndSceneTested(t) ==
    /\ pc[t] = "idle" /\ attached /\ device # "none"
    /\ ~inEndScene
    /\ Goto(t, "coop")
    /\ UNCHANGED <<deviceVars, frameVars, procVars, modeVars, windowVars, alive>>

EnterEndScene(t) ==
    /\ pc[t] = "idle" /\ attached /\ device # "none"
    /\ ~inEndScene
    /\ inEndScene' = TRUE
    /\ Goto(t, "coop")
    /\ UNCHANGED <<deviceVars, deviceInitializing, deviceInitDone, imguiInitialized,
                   procVars, modeVars, windowVars, alive>>

\* A lost device ends the frame; one that is not reset yet does not.
TestCooperativeLevel(t) ==
    /\ pc[t] = "coop"
    /\ inEndScene' = (device # "lost")
    /\ Goto(t, IF device = "lost" THEN "idle" ELSE IF deviceInitDone THEN "frame" ELSE "init")
    /\ UNCHANGED <<deviceVars, deviceInitializing, deviceInitDone, imguiInitialized,
                   procVars, modeVars, windowVars, alive>>

\* The compare-exchange of g_deviceInitializing.
ClaimInit(t) ==
    /\ pc[t] = "init"
    /\ deviceInitializing' = TRUE
    /\ inEndScene' = ~deviceInitializing
    /\ Goto(t, IF deviceInitializing THEN "idle" ELSE "window")
    /\ UNCHANGED <<deviceVars, deviceInitDone, imguiInitialized, procVars, modeVars,
                   windowVars, alive>>

\* The focus window, or else the swap chain's device window, goes to
\* BorderlessWindow; if the device does not answer, a later frame tries again.
FindWindow(t) ==
    /\ pc[t] = "window"
    /\ \/ /\ SetWindowHandle(IF focus # None THEN focus ELSE deviceWindow)
          /\ Goto(t, IF Overlay THEN "hookwnd" ELSE "finish")
          /\ UNCHANGED <<inEndScene, deviceInitializing>>
       \/ /\ deviceInitializing' = FALSE
          /\ inEndScene' = FALSE
          /\ Goto(t, "idle")
          /\ UNCHANGED windowVars
    /\ UNCHANGED <<deviceVars, deviceInitDone, imguiInitialized, procVars, modeVars, alive>>

\* SetWindowLongPtr puts HookedWndProc in place, or fails and returns null ...
HookWndProc(t) ==
    LET w == IF focus # None THEN focus ELSE deviceWindow
    IN  /\ pc[t] = "hookwnd"
        /\ \/ /\ w \in alive
              /\ wndProc' = [wndProc EXCEPT ![w] = "s3ss"]
              /\ returned' = wndProc[w]
           \/ returned' = "null" /\ UNCHANGED wndProc
        /\ Goto(t, "storewnd")
        /\ UNCHANGED <<deviceVars, frameVars, original_WndProc, modeVars, windowVars, alive>>

\* ... and what it returned is stored.
StoreWndProc(t) ==
    /\ pc[t] = "storewnd"
    /\ original_WndProc' = returned
    /\ Goto(t, "imgui")
    /\ UNCHANGED <<deviceVars, frameVars, wndProc, returned, modeVars, windowVars, alive>>

InitImGui(t) ==
    /\ pc[t] = "imgui"
    /\ imguiInitialized' = TRUE
    /\ Goto(t, "finish")
    /\ UNCHANGED <<deviceVars, inEndScene, deviceInitializing, deviceInitDone, procVars,
                   modeVars, windowVars, alive>>

\* Mutant of FinishInit: g_deviceInitDone is not set.
FinishInitAgain(t) ==
    /\ pc[t] = "finish"
    /\ deviceInitializing' = FALSE
    /\ Goto(t, "frame")
    /\ UNCHANGED <<deviceVars, inEndScene, deviceInitDone, imguiInitialized, procVars, modeVars,
                   windowVars, alive>>

\* The registry's Initialize, which follows, is modelled by HookRegistry.
FinishInit(t) ==
    /\ pc[t] = "finish"
    /\ deviceInitDone' = TRUE
    /\ deviceInitializing' = FALSE
    /\ Goto(t, "frame")
    /\ UNCHANGED <<deviceVars, inEndScene, imguiInitialized, procVars, modeVars, windowVars,
                   alive>>

-----------------------------------------------------------------------------
(* The rest of the frame. *)

AfterTick == IF imguiInitialized THEN "draw" ELSE "original"

\* Mutant of TickReapply: the frame on which the countdown ends is missed.
TickReapplyMissed(t) ==
    /\ pc[t] = "frame"
    /\ countdown' = IF countdown > 0 THEN countdown - 1 ELSE 0
    /\ Goto(t, AfterTick)
    /\ UNCHANGED <<deviceVars, frameVars, procVars, modeVars, hwnd, originalStyle, wasApplied,
                   style, past, alive>>

TickReapply(t) ==
    /\ pc[t] = "frame"
    /\ countdown' = IF countdown > 0 THEN countdown - 1 ELSE 0
    /\ Goto(t, IF countdown = 1 THEN "reapply" ELSE AfterTick)
    /\ UNCHANGED <<deviceVars, frameVars, procVars, modeVars, hwnd, originalStyle, wasApplied,
                   style, past, alive>>

\* Apply, after m_mutex has been released.
Reapply(t) ==
    /\ pc[t] = "reapply"
    /\ Apply
    /\ Goto(t, AfterTick)
    /\ UNCHANGED <<deviceVars, frameVars, procVars, modeVars, alive>>

\* The overlay is drawn; its combo box may call SetMode, which stores the mode,
SetMode(t, m) ==
    /\ pc[t] = "draw"
    /\ m # mode
    /\ mode' = m
    /\ Goto(t, "apply")
    /\ UNCHANGED <<deviceVars, frameVars, procVars, savedMode, windowVars, alive>>

\* applies it under a second lock,
ApplyMode(t) ==
    /\ pc[t] = "apply"
    /\ Apply
    /\ Goto(t, "save")
    /\ UNCHANGED <<deviceVars, frameVars, procVars, modeVars, alive>>

\* and saves, which may fail.
SaveMode(t) ==
    /\ pc[t] = "save"
    /\ savedMode' \in {mode, savedMode}
    /\ Goto(t, "original")
    /\ UNCHANGED <<deviceVars, frameVars, procVars, mode, windowVars, alive>>

Drawn(t) ==
    /\ pc[t] = "draw"
    /\ Goto(t, "original")
    /\ UNCHANGED <<deviceVars, frameVars, procVars, modeVars, windowVars, alive>>

\* original_EndScene, and g_inEndScene is cleared.
LeaveEndScene(t) ==
    /\ pc[t] = "original"
    /\ inEndScene' = FALSE
    /\ Goto(t, "idle")
    /\ UNCHANGED <<deviceVars, deviceInitializing, deviceInitDone, imguiInitialized, procVars,
                   modeVars, windowVars, alive>>

-----------------------------------------------------------------------------
(* HookedReset. *)

\* original_Reset fails, or succeeds and may give the windows their own style.
\* Reset is hooked together with EndScene.
ResetDevice(t) ==
    /\ Quiet /\ device # "none"
    /\ \/ /\ device' \in {"lost", "notreset"}
          /\ UNCHANGED <<style, pc>>
       \/ /\ device' = "ok"
          /\ style' \in {style, [w \in Windows |-> IF w \in {focus, deviceWindow} THEN w ELSE style[w]]}
          /\ Goto(t, IF attached THEN "reset" ELSE "idle")
    /\ UNCHANGED <<focus, deviceWindow, attached, frameVars, procVars, modeVars, hwnd,
                   originalStyle, wasApplied, countdown, past, alive>>

\* The borderless mode again, on the parameters' window if they name one.
AfterReset(t) ==
    /\ pc[t] = "reset"
    /\ Goto(t, "idle")
    /\ \/ mode = "Disabled" /\ UNCHANGED windowVars
       \/ mode # "Disabled" /\ deviceWindow # None /\ SetWindowHandle(deviceWindow)
       \/ mode # "Disabled" /\ Apply
    /\ UNCHANGED <<deviceVars, frameVars, procVars, modeVars, alive>>

-----------------------------------------------------------------------------
(* The hook thread, the game and Windows. *)

\* LoadAll puts the saved mode in place and applies nothing.
LoadMode ==
    /\ Reloads \/ device = "none"
    /\ mode' = savedMode
    /\ UNCHANGED <<deviceVars, frameVars, procVars, savedMode, windowVars, alive, pc>>

\* "The game may override our window position/size during its own startup
\* sequence after we apply": not later than the deferred reapply.
GameRestyles(w) ==
    /\ w \in alive
    /\ w = hwnd => countdown > 0
    /\ style' = [style EXCEPT ![w] = w]
    /\ UNCHANGED <<deviceVars, frameVars, procVars, modeVars, hwnd, originalStyle, wasApplied,
                   countdown, past, alive, pc>>

DeviceLost ==
    /\ \/ device = "ok" /\ device' = "lost"
       \/ device = "lost" /\ device' = "notreset"
    /\ UNCHANGED <<focus, deviceWindow, attached, frameVars, procVars, modeVars, windowVars,
                   alive, pc>>

DestroyWindow(w) ==
    /\ w \in alive
    /\ alive' = alive \ {w}
    /\ UNCHANGED <<deviceVars, frameVars, procVars, modeVars, windowVars, pc>>

-----------------------------------------------------------------------------
EndScene(t) ==
    \/ EnterEndScene(t) \/ TestCooperativeLevel(t) \/ ClaimInit(t) \/ FindWindow(t)
    \/ HookWndProc(t) \/ StoreWndProc(t) \/ InitImGui(t) \/ FinishInit(t)
    \/ TickReapply(t) \/ Reapply(t) \/ Drawn(t) \/ LeaveEndScene(t)
    \/ (\E m \in Modes : SetMode(t, m)) \/ ApplyMode(t) \/ SaveMode(t)

GameCall(t) ==
    \/ \E f, d \in Windows \cup {None} : CreateDevice(t, f, d)
    \/ HandOver(t) \/ ResetDevice(t) \/ AfterReset(t)

World == LoadMode \/ DeviceLost \/ \E w \in Windows : GameRestyles(w) \/ DestroyWindow(w)

Next == World \/ \E t \in Threads : EndScene(t) \/ GameCall(t)

Spec == Init /\ [][Next]_vars

-----------------------------------------------------------------------------
(* Properties. *)

InitLabels == {"window", "hookwnd", "storewnd", "imgui", "finish"}
FrameLabels == InitLabels \cup {"coop", "init", "frame", "reapply", "draw", "apply", "save", "original"}

\* Every variable has its type.
TypeOK ==
    /\ device \in {"none", "ok", "lost", "notreset"}
    /\ focus \in Windows \cup {None} /\ deviceWindow \in Windows \cup {None}
    /\ attached \in BOOLEAN
    /\ inEndScene \in BOOLEAN /\ deviceInitializing \in BOOLEAN
    /\ deviceInitDone \in BOOLEAN /\ imguiInitialized \in BOOLEAN
    /\ wndProc \in [Windows -> {"game", "s3ss"}]
    /\ original_WndProc \in {"null", "game", "s3ss"} /\ returned \in {"null", "game", "s3ss"}
    /\ mode \in Modes /\ savedMode \in Modes
    /\ hwnd \in Windows \cup {None}
    /\ originalStyle \in Windows \cup {"none", "stripped"}
    /\ wasApplied \in BOOLEAN
    /\ countdown \in 0..ReapplyFrames
    /\ style \in [Windows -> Windows \cup {"stripped"}]
    /\ alive \subseteq Windows /\ past \subseteq Windows
    /\ pc \in [Threads -> FrameLabels \cup {"idle", "created", "reset"}]

\* At most one thread is inside the overlay's frame, and every path out of it,
\* early returns included, leaves g_inEndScene and g_deviceInitializing as it
\* found them: a flag left set would end the overlay for the session.
FlagsFollowFrames ==
    /\ \A t, u \in Threads : pc[t] \in FrameLabels /\ pc[u] \in FrameLabels => t = u
    /\ inEndScene <=> \E t \in Threads : pc[t] \in FrameLabels
    /\ deviceInitializing <=> \E t \in Threads : pc[t] \in InitLabels

\* Whenever the game's thread can dispatch a message, a window that leads to
\* HookedWndProc has the game's procedure behind it: neither null nor
\* HookedWndProc itself, which would recurse for ever.
WndProcChainSound ==
    (\A t \in Threads : pc[t] # "storewnd") =>
        \A w \in Windows : wndProc[w] = "s3ss" => original_WndProc = "game"

\* What RestoreWindowed would write is the style the window had of itself
\* ("Restore original style but keep current size/position", qol.cpp:334).
CaptureBelongsToWindow == originalStyle \in {"none", hwnd}

Settled == \A t \in Threads : pc[t] \notin {"apply", "reapply", "created", "reset"}

\* With the mode Disabled the window has its title bar and borders ("Normal
\* windowed mode with title bar and borders", gui.cpp:775).
DisabledIsDecorated ==
    Settled /\ mode = "Disabled" /\ hwnd \in alive => style[hwnd] = hwnd

\* With a mode active and the deferred reapply over, the window is borderless,
\* whatever the game did to it since ("Schedule a deferred reapply", qol.cpp:202).
ActiveIsApplied ==
    Settled /\ mode # "Disabled" /\ countdown = 0 /\ hwnd \in alive => style[hwnd] = "stripped"

\* The three together: whatever windows come and go and whoever changes the mode, the
\* window's style is the one the mode asks for, and the way back is not lost.
StyleFollowsMode == CaptureBelongsToWindow /\ DisabledIsDecorated /\ ActiveIsApplied

=============================================================================
