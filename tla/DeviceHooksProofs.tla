-------------------------- MODULE DeviceHooksProofs --------------------------
(***************************************************************************)
(* Proofs about DeviceHooks for any number of threads and windows: the     *)
(* flags of the overlay's frame are always given back, the chain of window *)
(* procedures ends at the game's, the style follows the borderless mode.   *)
(***************************************************************************)
EXTENDS DeviceHooks, TLAPS

Labels == FrameLabels \cup {"idle", "created", "reset"}

FlagsType ==
    /\ inEndScene \in BOOLEAN
    /\ deviceInitializing \in BOOLEAN
    /\ pc \in [Threads -> Labels]

\* Inductive: which thread is where decides both flags.
FlagsInv == FlagsType /\ FlagsFollowFrames

\* A thread that is in the frame, or enters an empty one, leaves the flags as
\* its next label demands.
LEMMA FrameStep ==
    ASSUME FlagsInv, NEW t \in Threads, NEW label \in Labels,
           pc[t] \in FrameLabels \/ ~inEndScene,
           Goto(t, label),
           inEndScene' \in BOOLEAN, deviceInitializing' \in BOOLEAN,
           inEndScene' <=> label \in FrameLabels,
           deviceInitializing' <=> label \in InitLabels
    PROVE  FlagsInv'
<1>1. \A u \in Threads : pc'[u] = IF u = t THEN label ELSE pc[u]
  BY DEF FlagsInv, FlagsType, Goto
<1>2. \A u \in Threads : u # t => pc[u] \notin FrameLabels
  BY DEF FlagsInv, FlagsFollowFrames
<1>3. InitLabels \subseteq FrameLabels
  BY DEF FrameLabels
<1>4. FlagsType'
  BY DEF FlagsInv, FlagsType, Goto
<1>5. FlagsFollowFrames'
  <2>1. \A u \in Threads : pc'[u] \in FrameLabels => u = t
    BY <1>1, <1>2
  <2>2. inEndScene' <=> \E u \in Threads : pc'[u] \in FrameLabels
    BY <1>1, <2>1
  <2>3. deviceInitializing' <=> \E u \in Threads : pc'[u] \in InitLabels
    BY <1>1, <2>1, <1>3
  <2> QED BY <2>1, <2>2, <2>3 DEF FlagsFollowFrames
<1> QED BY <1>4, <1>5 DEF FlagsInv

\* A thread outside the frame that stays outside touches neither flag.
LEMMA OutsideStep ==
    ASSUME FlagsInv, NEW t \in Threads, NEW label \in {"idle", "created", "reset"},
           pc[t] \notin FrameLabels,
           Goto(t, label),
           UNCHANGED <<inEndScene, deviceInitializing>>
    PROVE  FlagsInv'
<1>1. \A u \in Threads : pc'[u] = IF u = t THEN label ELSE pc[u]
  BY DEF FlagsInv, FlagsType, Goto
<1>2. label \notin FrameLabels /\ label \in Labels
  BY DEF FrameLabels, InitLabels, Labels
<1>3. InitLabels \subseteq FrameLabels
  BY DEF FrameLabels
<1>4. FlagsType'
  BY <1>2 DEF FlagsInv, FlagsType, Goto
<1>5. \A u \in Threads : /\ pc'[u] \in FrameLabels <=> pc[u] \in FrameLabels
                         /\ pc'[u] \in InitLabels <=> pc[u] \in InitLabels
  BY <1>1, <1>2, <1>3
<1>6. FlagsFollowFrames'
  BY <1>5 DEF FlagsInv, FlagsFollowFrames
<1> QED BY <1>4, <1>6 DEF FlagsInv

\* Neither the flags nor the labels change.
LEMMA FlagsFrame ==
    ASSUME FlagsInv, UNCHANGED <<inEndScene, deviceInitializing, pc>>
    PROVE  FlagsInv'
BY DEF FlagsInv, FlagsType, FlagsFollowFrames

\* The same for the three ways a label demands the flags.
LEMMA ToInit ==
    ASSUME FlagsInv, NEW t \in Threads, NEW label \in InitLabels,
           pc[t] \in FrameLabels, Goto(t, label),
           inEndScene' = TRUE, deviceInitializing' = TRUE
    PROVE  FlagsInv'
<1>1. label \in Labels /\ label \in FrameLabels
  BY DEF Labels, FrameLabels
<1>2. (inEndScene' <=> label \in FrameLabels) /\ (deviceInitializing' <=> label \in InitLabels)
  BY <1>1
<1>3. inEndScene' \in BOOLEAN /\ deviceInitializing' \in BOOLEAN
  OBVIOUS
<1> QED BY <1>1, <1>2, <1>3, FrameStep

LEMMA ToFrame ==
    ASSUME FlagsInv, NEW t \in Threads, NEW label \in FrameLabels \ InitLabels,
           pc[t] \in FrameLabels \/ ~inEndScene, Goto(t, label),
           inEndScene' = TRUE, deviceInitializing' = FALSE
    PROVE  FlagsInv'
<1>1. label \in Labels
  BY DEF Labels
<1>2. (inEndScene' <=> label \in FrameLabels) /\ (deviceInitializing' <=> label \in InitLabels)
  OBVIOUS
<1>3. inEndScene' \in BOOLEAN /\ deviceInitializing' \in BOOLEAN
  OBVIOUS
<1> QED BY <1>1, <1>2, <1>3, FrameStep

LEMMA ToIdle ==
    ASSUME FlagsInv, NEW t \in Threads,
           pc[t] \in FrameLabels, Goto(t, "idle"),
           inEndScene' = FALSE, deviceInitializing' = FALSE
    PROVE  FlagsInv'
<1>1. "idle" \in Labels /\ "idle" \notin FrameLabels /\ "idle" \notin InitLabels
  BY DEF Labels, FrameLabels, InitLabels
<1>2. (inEndScene' <=> "idle" \in FrameLabels) /\ (deviceInitializing' <=> "idle" \in InitLabels)
  BY <1>1
<1>3. inEndScene' \in BOOLEAN /\ deviceInitializing' \in BOOLEAN
  OBVIOUS
<1> QED BY <1>1, <1>2, <1>3, FrameStep

\* What the flags are while a thread is in the frame.
LEMMA InInit ==
    ASSUME FlagsInv, NEW t \in Threads, pc[t] \in InitLabels
    PROVE  pc[t] \in FrameLabels /\ inEndScene = TRUE /\ deviceInitializing = TRUE
BY DEF FlagsInv, FlagsType, FlagsFollowFrames, FrameLabels

LEMMA InFrame ==
    ASSUME FlagsInv, NEW t \in Threads, pc[t] \in FrameLabels \ InitLabels
    PROVE  inEndScene = TRUE /\ deviceInitializing = FALSE
<1>1. InitLabels \subseteq FrameLabels
  BY DEF FrameLabels
<1> QED BY <1>1 DEF FlagsInv, FlagsType, FlagsFollowFrames

LEMMA FlagsInit == Init => FlagsInv
BY DEF Init, FlagsInv, FlagsType, FlagsFollowFrames, Labels, FrameLabels, InitLabels

LEMMA EndSceneKeepsFlags ==
    ASSUME FlagsInv, NEW t \in Threads, EndScene(t)
    PROVE  FlagsInv'
<1>i. {"window", "hookwnd", "storewnd", "imgui", "finish"} \subseteq InitLabels
  BY DEF InitLabels
<1>f. {"coop", "init", "frame", "reapply", "draw", "apply", "save", "original"}
        \subseteq FrameLabels \ InitLabels
  BY DEF FrameLabels, InitLabels
<1>1. CASE EnterEndScene(t)
  <2>1. deviceInitializing = FALSE /\ ~inEndScene
    BY <1>1 DEF EnterEndScene, FlagsInv, FlagsType, FlagsFollowFrames, FrameLabels
  <2>2. Goto(t, "coop") /\ inEndScene' = TRUE /\ deviceInitializing' = FALSE
    BY <1>1, <2>1 DEF EnterEndScene
  <2> QED BY <2>1, <2>2, <1>f, ToFrame
<1>2. CASE TestCooperativeLevel(t)
  <2>1. pc[t] \in FrameLabels /\ inEndScene = TRUE /\ deviceInitializing = FALSE
    BY <1>2, <1>f, InFrame DEF TestCooperativeLevel
  <2>2. \/ Goto(t, "idle") /\ inEndScene' = FALSE /\ deviceInitializing' = FALSE
        \/ Goto(t, "frame") /\ inEndScene' = TRUE /\ deviceInitializing' = FALSE
        \/ Goto(t, "init") /\ inEndScene' = TRUE /\ deviceInitializing' = FALSE
    BY <1>2, <2>1 DEF TestCooperativeLevel
  <2> QED BY <2>1, <2>2, <1>f, ToFrame, ToIdle
<1>3. CASE ClaimInit(t)
  <2>1. pc[t] \in FrameLabels /\ inEndScene = TRUE /\ deviceInitializing = FALSE
    BY <1>3, <1>f, InFrame DEF ClaimInit
  <2>2. Goto(t, "window") /\ inEndScene' = TRUE /\ deviceInitializing' = TRUE
    BY <1>3, <2>1 DEF ClaimInit
  <2> QED BY <2>1, <2>2, <1>i, ToInit
<1>4. CASE FindWindow(t)
  <2>1. pc[t] \in FrameLabels /\ inEndScene = TRUE /\ deviceInitializing = TRUE
    BY <1>4, <1>i, InInit DEF FindWindow
  <2>2. \/ Goto(t, "hookwnd") /\ inEndScene' = TRUE /\ deviceInitializing' = TRUE
        \/ Goto(t, "finish") /\ inEndScene' = TRUE /\ deviceInitializing' = TRUE
        \/ Goto(t, "idle") /\ inEndScene' = FALSE /\ deviceInitializing' = FALSE
    BY <1>4, <2>1 DEF FindWindow
  <2> QED BY <2>1, <2>2, <1>i, ToIdle, ToInit
<1>5. CASE HookWndProc(t)
  <2>1. pc[t] \in FrameLabels /\ inEndScene = TRUE /\ deviceInitializing = TRUE
    BY <1>5, <1>i, InInit DEF HookWndProc
  <2>2. Goto(t, "storewnd") /\ inEndScene' = TRUE /\ deviceInitializing' = TRUE
    BY <1>5, <2>1 DEF HookWndProc, frameVars
  <2> QED BY <2>1, <2>2, <1>i, ToInit
<1>6. CASE StoreWndProc(t)
  <2>1. pc[t] \in FrameLabels /\ inEndScene = TRUE /\ deviceInitializing = TRUE
    BY <1>6, <1>i, InInit DEF StoreWndProc
  <2>2. Goto(t, "imgui") /\ inEndScene' = TRUE /\ deviceInitializing' = TRUE
    BY <1>6, <2>1 DEF StoreWndProc, frameVars
  <2> QED BY <2>1, <2>2, <1>i, ToInit
<1>7. CASE InitImGui(t)
  <2>1. pc[t] \in FrameLabels /\ inEndScene = TRUE /\ deviceInitializing = TRUE
    BY <1>7, <1>i, InInit DEF InitImGui
  <2>2. Goto(t, "finish") /\ inEndScene' = TRUE /\ deviceInitializing' = TRUE
    BY <1>7, <2>1 DEF InitImGui
  <2> QED BY <2>1, <2>2, <1>i, ToInit
<1>8. CASE FinishInit(t)
  <2>1. pc[t] \in FrameLabels /\ inEndScene = TRUE /\ deviceInitializing = TRUE
    BY <1>8, <1>i, InInit DEF FinishInit
  <2>2. Goto(t, "frame") /\ inEndScene' = TRUE /\ deviceInitializing' = FALSE
    BY <1>8, <2>1 DEF FinishInit
  <2> QED BY <2>1, <2>2, <1>f, ToFrame
<1>9. CASE TickReapply(t)
  <2>1. pc[t] \in FrameLabels /\ inEndScene = TRUE /\ deviceInitializing = FALSE
    BY <1>9, <1>f, InFrame DEF TickReapply
  <2>2. \/ Goto(t, "reapply") /\ inEndScene' = TRUE /\ deviceInitializing' = FALSE
        \/ Goto(t, "draw") /\ inEndScene' = TRUE /\ deviceInitializing' = FALSE
        \/ Goto(t, "original") /\ inEndScene' = TRUE /\ deviceInitializing' = FALSE
    BY <1>9, <2>1 DEF TickReapply, AfterTick, frameVars
  <2> QED BY <2>1, <2>2, <1>f, ToFrame
<1>10. CASE Reapply(t)
  <2>1. pc[t] \in FrameLabels /\ inEndScene = TRUE /\ deviceInitializing = FALSE
    BY <1>10, <1>f, InFrame DEF Reapply
  <2>2. \/ Goto(t, "draw") /\ inEndScene' = TRUE /\ deviceInitializing' = FALSE
        \/ Goto(t, "original") /\ inEndScene' = TRUE /\ deviceInitializing' = FALSE
    BY <1>10, <2>1 DEF Reapply, AfterTick, frameVars
  <2> QED BY <2>1, <2>2, <1>f, ToFrame
<1>11. CASE Drawn(t)
  <2>1. pc[t] \in FrameLabels /\ inEndScene = TRUE /\ deviceInitializing = FALSE
    BY <1>11, <1>f, InFrame DEF Drawn
  <2>2. Goto(t, "original") /\ inEndScene' = TRUE /\ deviceInitializing' = FALSE
    BY <1>11, <2>1 DEF Drawn, frameVars
  <2> QED BY <2>1, <2>2, <1>f, ToFrame
<1>12. CASE LeaveEndScene(t)
  <2>1. pc[t] \in FrameLabels /\ inEndScene = TRUE /\ deviceInitializing = FALSE
    BY <1>12, <1>f, InFrame DEF LeaveEndScene
  <2>2. Goto(t, "idle") /\ inEndScene' = FALSE /\ deviceInitializing' = FALSE
    BY <1>12, <2>1 DEF LeaveEndScene
  <2> QED BY <2>1, <2>2, ToIdle
<1>13. CASE \E m \in Modes : SetMode(t, m)
  <2>1. pc[t] \in FrameLabels /\ inEndScene = TRUE /\ deviceInitializing = FALSE
    BY <1>13, <1>f, InFrame DEF SetMode
  <2>2. Goto(t, "apply") /\ inEndScene' = TRUE /\ deviceInitializing' = FALSE
    BY <1>13, <2>1 DEF SetMode, frameVars
  <2> QED BY <2>1, <2>2, <1>f, ToFrame
<1>14. CASE ApplyMode(t)
  <2>1. pc[t] \in FrameLabels /\ inEndScene = TRUE /\ deviceInitializing = FALSE
    BY <1>14, <1>f, InFrame DEF ApplyMode
  <2>2. Goto(t, "save") /\ inEndScene' = TRUE /\ deviceInitializing' = FALSE
    BY <1>14, <2>1 DEF ApplyMode, frameVars
  <2> QED BY <2>1, <2>2, <1>f, ToFrame
<1>15. CASE SaveMode(t)
  <2>1. pc[t] \in FrameLabels /\ inEndScene = TRUE /\ deviceInitializing = FALSE
    BY <1>15, <1>f, InFrame DEF SaveMode
  <2>2. Goto(t, "original") /\ inEndScene' = TRUE /\ deviceInitializing' = FALSE
    BY <1>15, <2>1 DEF SaveMode, frameVars
  <2> QED BY <2>1, <2>2, <1>f, ToFrame
<1> QED BY <1>1, <1>2, <1>3, <1>4, <1>5, <1>6, <1>7, <1>8, <1>9, <1>10, <1>11, <1>12,
           <1>13, <1>14, <1>15 DEF EndScene

LEMMA GameKeepsFlags ==
    ASSUME FlagsInv, NEW t \in Threads, GameCall(t)
    PROVE  FlagsInv'
<1> USE DEF FrameLabels, InitLabels
<1>1. CASE \E f, d \in Windows \cup {None} : CreateDevice(t, f, d)
  BY <1>1, OutsideStep DEF CreateDevice, Quiet, frameVars
<1>2. CASE HandOver(t)
  BY <1>2, OutsideStep DEF HandOver, frameVars
<1>3. CASE ResetDevice(t)
  <2>1. CASE UNCHANGED pc
    BY <1>3, <2>1, FlagsFrame DEF ResetDevice, frameVars
  <2>2. CASE Goto(t, IF attached THEN "reset" ELSE "idle")
    BY <1>3, <2>2, OutsideStep DEF ResetDevice, Quiet, frameVars
  <2> QED BY <1>3, <2>1, <2>2 DEF ResetDevice
<1>4. CASE AfterReset(t)
  BY <1>4, OutsideStep DEF AfterReset, frameVars
<1> QED BY <1>1, <1>2, <1>3, <1>4 DEF GameCall

LEMMA FlagsStep == FlagsInv /\ [Next]_vars => FlagsInv'
<1> SUFFICES ASSUME FlagsInv, [Next]_vars PROVE FlagsInv'
  OBVIOUS
<1>1. CASE World
  <2>1. UNCHANGED <<inEndScene, deviceInitializing, pc>>
    BY <1>1 DEF World, LoadMode, DeviceLost, GameRestyles, DestroyWindow, frameVars
  <2> QED BY <2>1, FlagsFrame
<1>2. CASE \E t \in Threads : EndScene(t) \/ GameCall(t)
  BY <1>2, EndSceneKeepsFlags, GameKeepsFlags
<1>3. CASE UNCHANGED vars
  BY <1>3, FlagsFrame DEF vars, frameVars
<1> QED BY <1>1, <1>2, <1>3 DEF Next

\* However many threads call EndScene, whenever the device is lost, reset or
\* created again, and whatever query fails, at most one thread is in the
\* overlay's frame and no early return of HookedEndScene (d3d9_hook.cpp:67)
\* keeps g_inEndScene or g_deviceInitializing.
THEOREM FlagsAreGivenBack == Spec => []FlagsFollowFrames
<1>1. FlagsInv => FlagsFollowFrames
  BY DEF FlagsInv
<1> QED BY FlagsInit, FlagsStep, <1>1, PTL DEF Spec

-----------------------------------------------------------------------------
(* The window procedure. *)

\* The initialisation is run through once: until its thread has hooked the window every
\* procedure is the game's, and while it waits to store what it got, that is the game's.
ChainInv ==
    /\ deviceInitDone \in BOOLEAN
    /\ wndProc \in [Windows -> {"game", "s3ss"}]
    /\ deviceInitDone => \A t \in Threads : pc[t] \notin InitLabels \cup {"init"}
    /\ ~deviceInitDone /\ (\A t \in Threads : pc[t] \notin {"storewnd", "imgui", "finish"}) =>
          \A w \in Windows : wndProc[w] = "game"
    /\ \A t \in Threads : pc[t] = "storewnd" =>
          \A w \in Windows : wndProc[w] = "s3ss" => returned = "game"
    /\ WndProcChainSound

\* A step of another kind leaves the chain alone.
LEMMA ChainFrame ==
    ASSUME FlagsInv, ChainInv, NEW t \in Threads, NEW label,
           UNCHANGED procVars, UNCHANGED deviceInitDone,
           UNCHANGED pc \/ Goto(t, label),
           pc[t] \notin {"storewnd", "imgui", "finish"}, label \notin InitLabels \cup {"init"}
    PROVE  ChainInv'
<1>1. \A u \in Threads : pc'[u] = pc[u] \/ (u = t /\ pc'[u] = label)
  BY DEF FlagsInv, FlagsType, Goto
<1>2. \A u \in Threads : u # t => pc'[u] = pc[u]
  BY DEF FlagsInv, FlagsType, Goto
<1>3. \A u \in Threads : pc'[u] \in {"storewnd", "imgui", "finish"} => pc'[u] = pc[u]
  BY <1>1 DEF InitLabels
<1>4. \A u \in Threads : pc[u] \in {"storewnd", "imgui", "finish"} => pc'[u] = pc[u]
  BY <1>2
<1>5. UNCHANGED <<wndProc, original_WndProc, returned, deviceInitDone>>
  BY DEF procVars
<1>6. deviceInitDone' => \A u \in Threads : pc'[u] \notin InitLabels \cup {"init"}
  BY <1>1, <1>5 DEF ChainInv
<1>7. ~deviceInitDone' /\ (\A u \in Threads : pc'[u] \notin {"storewnd", "imgui", "finish"}) =>
          \A w \in Windows : wndProc'[w] = "game"
  BY <1>4, <1>5 DEF ChainInv
<1>8. \A u \in Threads : pc'[u] = "storewnd" =>
          \A w \in Windows : wndProc'[w] = "s3ss" => returned' = "game"
  BY <1>3, <1>5 DEF ChainInv
<1>9. WndProcChainSound'
  BY <1>4, <1>5 DEF ChainInv, WndProcChainSound
<1>10. QED
  BY <1>5, <1>6, <1>7, <1>8, <1>9 DEF ChainInv

LEMMA ChainInit == Init => ChainInv
BY DEF Init, ChainInv, WndProcChainSound, InitLabels

\* The steps of the initialisation; its thread is alone in the frame.
LEMMA EndSceneKeepsChain ==
    ASSUME FlagsInv, ChainInv, NEW t \in Threads, EndScene(t)
    PROVE  ChainInv'
<1>a. ASSUME NEW label, Goto(t, label)
      PROVE  /\ pc'[t] = label
             /\ \A u \in Threads : u # t => pc'[u] = pc[u]
  BY <1>a DEF FlagsInv, FlagsType, Goto
<1>b. pc[t] \in FrameLabels => \A u \in Threads : u # t => pc[u] \notin FrameLabels
  BY DEF FlagsInv, FlagsFollowFrames
<1>c. InitLabels \cup {"init"} \subseteq FrameLabels
      /\ {"storewnd", "imgui", "finish"} \subseteq InitLabels
  BY DEF FrameLabels, InitLabels
<1>1. CASE TestCooperativeLevel(t)
  <2>1. pc[t] = "coop" /\ UNCHANGED procVars /\ UNCHANGED deviceInitDone
    BY <1>1 DEF TestCooperativeLevel
  <2>2. CASE Goto(t, "init") /\ ~deviceInitDone
    <3>1. UNCHANGED <<wndProc, original_WndProc, returned>>
      BY <2>1 DEF procVars
    <3>2. \A u \in Threads : pc[u] \notin {"storewnd", "imgui", "finish"}
      BY <2>1, <1>b, <1>c DEF FrameLabels
    <3>3. \A u \in Threads : pc'[u] \notin {"storewnd", "imgui", "finish"}
      BY <3>2, <2>2, <1>a
    <3>4. QED
      BY <3>1, <3>2, <3>3, <2>1, <2>2 DEF ChainInv, WndProcChainSound
  <2>3. CASE Goto(t, "idle") \/ Goto(t, "frame")
    BY <2>1, <2>3, ChainFrame DEF InitLabels
  <2>4. QED
    BY <1>1, <2>2, <2>3 DEF TestCooperativeLevel, ChainInv
<1>2. CASE ClaimInit(t) \/ FindWindow(t)
  <2>1. pc[t] \in {"init", "window"} /\ UNCHANGED procVars /\ UNCHANGED deviceInitDone
    BY <1>2 DEF ClaimInit, FindWindow
  <2>2. \E label \in {"idle", "window", "hookwnd", "finish"} : Goto(t, label)
    BY <1>2 DEF ClaimInit, FindWindow
  <2>3. UNCHANGED <<wndProc, original_WndProc, returned>>
    BY <2>1 DEF procVars
  <2>4. ~deviceInitDone
    BY <2>1 DEF ChainInv, InitLabels
  <2>5. \A u \in Threads : pc[u] \notin {"storewnd", "imgui", "finish"}
    BY <2>1, <1>b, <1>c DEF FrameLabels, InitLabels
  <2>6. \A w \in Windows : wndProc[w] = "game"
    BY <2>4, <2>5 DEF ChainInv
  <2>7. QED
    <3>1. ~deviceInitDone' /\ \A w \in Windows : wndProc'[w] = "game"
      BY <2>1, <2>3, <2>4, <2>6
    <3>2. QED
      BY <3>1, <2>3, <2>1 DEF ChainInv, WndProcChainSound
<1>3. CASE HookWndProc(t)
  <2>1. pc[t] = "hookwnd" /\ UNCHANGED deviceInitDone /\ Goto(t, "storewnd")
    BY <1>3 DEF HookWndProc, frameVars
  <2>2. ~deviceInitDone
    BY <2>1 DEF ChainInv, InitLabels
  <2>3. \A u \in Threads : pc[u] \notin {"storewnd", "imgui", "finish"}
    BY <2>1, <1>b, <1>c DEF FrameLabels, InitLabels
  <2>4. \A w \in Windows : wndProc[w] = "game"
    BY <2>2, <2>3 DEF ChainInv
  <2>5. /\ wndProc' \in [Windows -> {"game", "s3ss"}]
        /\ \A w \in Windows : wndProc'[w] = "s3ss" => returned' = "game"
    BY <1>3, <2>4 DEF HookWndProc, ChainInv
  <2>6. pc'[t] = "storewnd"
    BY <2>1, <1>a
  <2>7. QED
    BY <2>1, <2>2, <2>5, <2>6 DEF ChainInv, WndProcChainSound
<1>4. CASE StoreWndProc(t)
  <2>1. pc[t] = "storewnd" /\ UNCHANGED <<deviceInitDone, wndProc, returned>>
        /\ original_WndProc' = returned /\ Goto(t, "imgui")
    BY <1>4 DEF StoreWndProc, frameVars
  <2>2. ~deviceInitDone
    BY <2>1 DEF ChainInv, InitLabels
  <2>3. \A w \in Windows : wndProc'[w] = "s3ss" => original_WndProc' = "game" /\ returned' = "game"
    BY <2>1 DEF ChainInv
  <2>4. pc'[t] = "imgui"
    BY <2>1, <1>a
  <2>5. QED
    BY <2>1, <2>2, <2>3, <2>4 DEF ChainInv, WndProcChainSound
<1>5. CASE InitImGui(t)
  <2>1. pc[t] = "imgui" /\ UNCHANGED procVars /\ UNCHANGED deviceInitDone /\ Goto(t, "finish")
    BY <1>5 DEF InitImGui
  <2>2. ~deviceInitDone
    BY <2>1 DEF ChainInv, InitLabels
  <2>3. \A u \in Threads : pc[u] # "storewnd" /\ pc'[u] # "storewnd"
    BY <2>1, <1>a, <1>b, <1>c DEF FrameLabels, InitLabels
  <2>4. UNCHANGED <<wndProc, original_WndProc, returned>>
    BY <2>1 DEF procVars
  <2>5. pc'[t] = "finish"
    BY <2>1, <1>a
  <2>6. QED
    BY <2>1, <2>2, <2>3, <2>4, <2>5 DEF ChainInv, WndProcChainSound
<1>6. CASE FinishInit(t)
  <2>1. pc[t] = "finish" /\ UNCHANGED procVars /\ deviceInitDone' = TRUE /\ Goto(t, "frame")
    BY <1>6 DEF FinishInit
  <2>2. \A u \in Threads : pc[u] # "storewnd"
    BY <2>1, <1>b, <1>c DEF FrameLabels, InitLabels
  <2>3. \A u \in Threads : pc'[u] \notin InitLabels \cup {"init"}
    BY <2>1, <1>a, <1>b, <1>c DEF FrameLabels, InitLabels
  <2>4. UNCHANGED <<wndProc, original_WndProc, returned>>
    BY <2>1 DEF procVars
  <2>5. QED
    BY <2>1, <2>2, <2>3, <2>4 DEF ChainInv, WndProcChainSound, InitLabels
<1>7. CASE \/ EnterEndScene(t) \/ TickReapply(t) \/ Reapply(t) \/ Drawn(t) \/ LeaveEndScene(t)
           \/ (\E m \in Modes : SetMode(t, m)) \/ ApplyMode(t) \/ SaveMode(t)
  <2>1. /\ pc[t] \in {"idle", "frame", "reapply", "draw", "original", "apply", "save"}
        /\ UNCHANGED procVars /\ UNCHANGED deviceInitDone
    BY <1>7 DEF EnterEndScene, TickReapply, Reapply, Drawn, LeaveEndScene, SetMode, ApplyMode, SaveMode,
                frameVars
  <2>2. \E label \in {"coop", "reapply", "draw", "original", "idle", "apply", "save"} : Goto(t, label)
    BY <1>7 DEF EnterEndScene, TickReapply, Reapply, Drawn, LeaveEndScene, SetMode, ApplyMode, SaveMode,
                AfterTick
  <2>3. QED
    BY <2>1, <2>2, ChainFrame DEF InitLabels
<1>8. QED
  BY <1>1, <1>2, <1>3, <1>4, <1>5, <1>6, <1>7 DEF EndScene

LEMMA ChainStep == FlagsInv /\ ChainInv /\ [Next]_vars => ChainInv'
<1> SUFFICES ASSUME FlagsInv, ChainInv, [Next]_vars PROVE ChainInv'
  OBVIOUS
<1>1. CASE UNCHANGED <<procVars, deviceInitDone, pc>>
  BY <1>1 DEF procVars, ChainInv, WndProcChainSound
<1>2. CASE World \/ UNCHANGED vars
  BY <1>1, <1>2 DEF World, LoadMode, DeviceLost, GameRestyles, DestroyWindow, vars, frameVars
<1>3. ASSUME NEW t \in Threads, GameCall(t) PROVE ChainInv'
  <2>1. UNCHANGED <<procVars, deviceInitDone>>
    BY <1>3 DEF GameCall, CreateDevice, HandOver, ResetDevice, AfterReset, frameVars
  <2>2. /\ pc[t] \in {"idle", "created", "reset"}
        /\ UNCHANGED pc \/ \E label \in {"created", "idle", "reset"} : Goto(t, label)
    BY <1>3 DEF GameCall, CreateDevice, HandOver, ResetDevice, AfterReset, Quiet
  <2>3. QED
    BY <1>1, <2>1, <2>2, ChainFrame DEF InitLabels
<1>4. QED
  BY <1>2, <1>3, EndSceneKeepsChain DEF Next

\* However often devices are created and lost and whatever fails, HookedWndProc has the
\* game's window procedure behind it whenever a message can reach it.
THEOREM ProcedureIsTheGames == Spec => []WndProcChainSound
<1>1. ChainInv => WndProcChainSound
  BY DEF ChainInv
<1>2. QED
  BY FlagsInit, FlagsStep, ChainInit, ChainStep, <1>1, PTL DEF Spec

-----------------------------------------------------------------------------
(* The window's style, for a game that comes back to no window and a mode that is *)
(* loaded in time.                                                                 *)

WindowTypes ==
    /\ hwnd \in Windows \cup {None}
    /\ alive \subseteq Windows /\ past \subseteq Windows
    /\ wasApplied \in BOOLEAN /\ attached \in BOOLEAN
    /\ countdown \in Nat
    /\ style \in [Windows -> Windows \cup {"stripped"}]
    /\ \A w \in Windows : style[w] \in {w, "stripped"}

\* The device's windows are one, and not one that was left.
OneWindow ==
    /\ focus \in Windows \cup {None} /\ deviceWindow \in Windows \cup {None}
    /\ focus \notin past /\ deviceWindow \notin past /\ hwnd \notin past
    /\ focus = deviceWindow \/ None \in {focus, deviceWindow}
    /\ device # "none" => {focus, deviceWindow} # {None}

\* Only a window that BorderlessWindow holds or has held is stripped; of the one it holds
\* the style of its own is known, and that it has to be restored.
StripsAreKnown ==
    /\ \A w \in Windows : w \notin past /\ w # hwnd => style[w] = w
    /\ CaptureBelongsToWindow
    /\ hwnd # None /\ style[hwnd] = "stripped" => wasApplied /\ originalStyle = hwnd

\* Before the first device, and before EndScene and Reset are hooked.
BeforeDevice ==
    /\ device = "none" => hwnd = None /\ \A t \in Threads : pc[t] = "idle"
    /\ ~attached => /\ \A t \in Threads : pc[t] \in {"idle", "created"}
                    /\ hwnd = None \/ countdown > 0

\* Who is about to make good what the style does not show yet.
StyleIsDue ==
    hwnd \in alive =>
        /\ mode = "Disabled" /\ style[hwnd] = "stripped" => \E t \in Threads : pc[t] = "apply"
        /\ mode # "Disabled" /\ countdown = 0 /\ style[hwnd] # "stripped" =>
              \E t \in Threads : pc[t] \in {"apply", "reapply", "reset"}

WindowInv == WindowTypes /\ OneWindow /\ StripsAreKnown /\ BeforeDevice /\ StyleIsDue

LEMMA WindowInit == Init => WindowInv
<1> SUFFICES ASSUME Init PROVE WindowInv
  OBVIOUS
<1>1. WindowTypes
  BY DeviceAssumption DEF Init, WindowTypes, DeviceAssumption
<1>2. OneWindow
  BY DEF Init, OneWindow
<1>3. StripsAreKnown
  BY DEF Init, StripsAreKnown, CaptureBelongsToWindow
<1>4. BeforeDevice
  BY DEF Init, BeforeDevice
<1>5. StyleIsDue
  BY DeviceAssumption DEF Init, StyleIsDue, DeviceAssumption
<1>6. QED
  BY <1>1, <1>2, <1>3, <1>4, <1>5 DEF WindowInv

\* BorderlessWindow is given the device's window.
LEMMA SetHandleKeeps ==
    ASSUME WindowTypes, OneWindow, StripsAreKnown,
           NEW w \in {focus, deviceWindow} \ {None}, SetWindowHandle(w),
           UNCHANGED <<device, focus, deviceWindow, attached, alive, mode>>
    PROVE  /\ WindowTypes' /\ OneWindow' /\ StripsAreKnown'
           /\ hwnd' = w
           /\ mode # "Disabled" => countdown' > 0
           /\ mode = "Disabled" => /\ UNCHANGED <<style, countdown>>
                                   /\ hwnd' = hwnd \/ style[w] # "stripped"
<1>1. w \in Windows /\ w \notin past /\ w # None /\ w # "none" /\ w # "stripped"
  BY DeviceAssumption DEF OneWindow, DeviceAssumption
<1>2. hwnd' = w /\ past' = past \cup ({hwnd} \ {w, None})
  BY DEF SetWindowHandle
<1>3. w # hwnd => style[w] = w
  BY <1>1 DEF StripsAreKnown
<1>4. past' \subseteq Windows /\ w \notin past'
  BY <1>1, <1>2 DEF WindowTypes
<1>5. OneWindow'
  BY <1>1, <1>2, <1>4, DeviceAssumption DEF OneWindow, DeviceAssumption
<1> DEFINE captured == IF originalStyle = "none" \/ w # hwnd THEN StyleOf(w) ELSE originalStyle
<1>6. captured \in {"none", w}
  <2>1. CASE w = hwnd /\ originalStyle # "none"
    BY <2>1 DEF StripsAreKnown, CaptureBelongsToWindow
  <2>2. CASE w = hwnd /\ originalStyle = "none"
    <3>1. style[w] # "stripped"
      BY <1>1, <2>2 DEF StripsAreKnown
    <3>2. style[w] = w
      BY <1>1, <3>1 DEF WindowTypes
    <3>3. QED
      BY <2>2, <3>2 DEF StyleOf
  <2>3. CASE w # hwnd
    BY <2>3, <1>3 DEF StyleOf
  <2>4. QED
    BY <2>1, <2>2, <2>3
<1>7. captured = "none" => style[w] = w
  <2>1. CASE w = hwnd
    <3>1. ASSUME captured = "none" PROVE originalStyle = "none"
      BY <2>1, <3>1
    <3>2. captured = "none" => style[w] # "stripped"
      BY <1>1, <2>1, <3>1 DEF StripsAreKnown
    <3>3. QED
      BY <1>1, <3>2 DEF WindowTypes
  <2>2. QED
    BY <2>1, <1>3
<1>8. CASE mode = "Disabled"
  <2>1. originalStyle' = captured /\ UNCHANGED <<style, wasApplied, countdown>>
    BY <1>8 DEF SetWindowHandle
  <2>2. WindowTypes'
    BY <2>1, <1>1, <1>2, <1>4 DEF WindowTypes
  <2>3. style'[w] = "stripped" => wasApplied' /\ originalStyle' = w
    <3>1. CASE w = hwnd
      BY <3>1, <2>1, <1>1, <1>6, <1>7 DEF StripsAreKnown
    <3>2. CASE w # hwnd
      BY <3>2, <2>1, <1>1, <1>3
    <3>3. QED
      BY <3>1, <3>2
  <2>4. \A v \in Windows : v \notin past' /\ v # w => style'[v] = v
    BY <2>1, <1>2, DeviceAssumption DEF StripsAreKnown, DeviceAssumption
  <2>5. StripsAreKnown'
    BY <2>1, <2>3, <2>4, <1>2, <1>6 DEF StripsAreKnown, CaptureBelongsToWindow
  <2>6. QED
    BY <2>1, <2>2, <2>5, <1>1, <1>2, <1>3, <1>5, <1>8
<1>9. CASE mode # "Disabled"
  <2>1. Strip(w, captured) /\ countdown' = ReapplyFrames
    BY <1>9 DEF SetWindowHandle
  <2>2. countdown' \in Nat /\ countdown' > 0
    BY <2>1, DeviceAssumption DEF DeviceAssumption
  <2> HIDE DEF captured
  <2>3. originalStyle' \in {"none", w}
    BY <2>1, <1>6, <1>7 DEF Strip
  <2>4. /\ style' \in [Windows -> Windows \cup {"stripped"}]
        /\ \A v \in Windows : v # w => style'[v] = style[v]
        /\ style'[w] \in {style[w], "stripped"}
        /\ wasApplied' \in BOOLEAN
        /\ wasApplied => wasApplied'
    BY <2>1, <1>1 DEF Strip, WindowTypes
  <2>5. WindowTypes'
    BY <2>2, <2>4, <1>1, <1>2, <1>4 DEF WindowTypes
  <2>6. style'[w] = "stripped" => wasApplied' /\ originalStyle' = w
    <3>1. CASE w \in alive
      BY <3>1, <2>1, <2>4, <1>6, <1>7 DEF Strip, WindowTypes
    <3>2. CASE w \notin alive
      <4>1. originalStyle' = captured /\ UNCHANGED <<style, wasApplied>>
        BY <3>2, <2>1 DEF Strip
      <4>2. style[w] = "stripped" => w = hwnd /\ captured # "none"
        BY <1>1, <1>3, <1>7
      <4>3. QED
        BY <4>1, <4>2, <1>1, <1>6 DEF StripsAreKnown
    <3>3. QED
      BY <3>1, <3>2
  <2>7. \A v \in Windows : v \notin past' /\ v # w => style'[v] = v
    BY <2>4, <1>2, DeviceAssumption DEF StripsAreKnown, DeviceAssumption
  <2>8. StripsAreKnown'
    BY <2>3, <2>6, <2>7, <1>2 DEF StripsAreKnown, CaptureBelongsToWindow
  <2>9. QED
    BY <2>2, <2>5, <2>8, <1>2, <1>5, <1>9
<1>10. QED
  BY <1>8, <1>9

\* Apply gives the window it holds the style the mode asks for.
LEMMA ApplyKeeps ==
    ASSUME WindowTypes, OneWindow, StripsAreKnown, Apply,
           UNCHANGED <<device, focus, deviceWindow, attached, alive, mode>>
    PROVE  /\ WindowTypes' /\ OneWindow' /\ StripsAreKnown'
           /\ UNCHANGED <<hwnd, countdown>>
           /\ hwnd \in alive => /\ mode = "Disabled" => style'[hwnd] # "stripped"
                                /\ mode # "Disabled" => style'[hwnd] = "stripped"
<1>1. UNCHANGED <<hwnd, countdown, past>>
  BY DEF Apply
<1>2. OneWindow'
  BY <1>1 DEF OneWindow
<1>3. hwnd \in alive => hwnd \in Windows /\ hwnd # None /\ hwnd # "stripped" /\ hwnd # "none"
  BY DeviceAssumption DEF WindowTypes, DeviceAssumption
<1>4. CASE hwnd \notin alive
  <2>1. UNCHANGED <<style, wasApplied, originalStyle>>
    BY <1>4 DEF Apply, RestoreWindowed, Strip
  <2>2. QED
    BY <1>1, <1>2, <1>4, <2>1 DEF WindowTypes, StripsAreKnown, CaptureBelongsToWindow
<1>5. CASE hwnd \in alive /\ mode = "Disabled"
  <2>1. CASE wasApplied
    <3>1. /\ style' = IF originalStyle = "none" THEN style ELSE [style EXCEPT ![hwnd] = originalStyle]
          /\ wasApplied' = FALSE /\ UNCHANGED originalStyle
      BY <1>5, <2>1 DEF Apply, RestoreWindowed
    <3>2. CASE originalStyle = "none"
      <4>1. style[hwnd] # "stripped"
        BY <3>2, <1>3, <1>5 DEF StripsAreKnown
      <4>2. UNCHANGED style
        BY <3>1, <3>2
      <4>3. QED
        BY <3>1, <4>1, <4>2, <1>1, <1>2, <1>5 DEF WindowTypes, StripsAreKnown, CaptureBelongsToWindow
    <3>3. CASE originalStyle = hwnd
      <4>1. style' = [style EXCEPT ![hwnd] = hwnd]
        BY <3>1, <3>3, <1>3, <1>5
      <4>2. /\ style' \in [Windows -> Windows \cup {"stripped"}] /\ style'[hwnd] = hwnd
            /\ \A v \in Windows : v # hwnd => style'[v] = style[v]
        BY <4>1, <1>3, <1>5 DEF WindowTypes
      <4>3. WindowTypes'
        BY <3>1, <4>2, <1>1 DEF WindowTypes
      <4>4. StripsAreKnown'
        BY <3>1, <4>2, <1>1, <1>3, <1>5 DEF StripsAreKnown, CaptureBelongsToWindow
      <4>5. QED
        BY <4>2, <4>3, <4>4, <1>1, <1>2, <1>3, <1>5
    <3>4. QED
      BY <3>2, <3>3 DEF StripsAreKnown, CaptureBelongsToWindow
  <2>2. CASE ~wasApplied
    <3>1. UNCHANGED <<style, wasApplied, originalStyle>>
      BY <1>5, <2>2 DEF Apply, RestoreWindowed
    <3>2. style[hwnd] # "stripped"
      BY <2>2, <1>3, <1>5 DEF StripsAreKnown
    <3>3. QED
      BY <3>1, <3>2, <1>1, <1>2, <1>5 DEF WindowTypes, StripsAreKnown, CaptureBelongsToWindow
  <2>3. QED
    BY <2>1, <2>2
<1>6. CASE hwnd \in alive /\ mode # "Disabled"
  <2>1. /\ originalStyle' = IF originalStyle = "none" THEN style[hwnd] ELSE originalStyle
        /\ style' = [style EXCEPT ![hwnd] = "stripped"]
        /\ wasApplied' = TRUE
    BY <1>6 DEF Apply, Strip
  <2>2. /\ style' \in [Windows -> Windows \cup {"stripped"}] /\ style'[hwnd] = "stripped"
        /\ \A v \in Windows : v # hwnd => style'[v] = style[v]
    BY <2>1, <1>3, <1>6 DEF WindowTypes
  <2>3. originalStyle' = hwnd
    <3>1. CASE originalStyle = "none"
      <4>1. style[hwnd] # "stripped"
        BY <3>1, <1>3, <1>6 DEF StripsAreKnown
      <4>2. QED
        BY <2>1, <3>1, <4>1, <1>3, <1>6 DEF WindowTypes
    <3>2. QED
      BY <2>1, <3>1 DEF StripsAreKnown, CaptureBelongsToWindow
  <2>4. WindowTypes'
    BY <2>1, <2>2, <1>1 DEF WindowTypes
  <2>5. StripsAreKnown'
    BY <2>1, <2>2, <2>3, <1>1 DEF StripsAreKnown, CaptureBelongsToWindow
  <2>6. QED
    BY <2>2, <2>4, <2>5, <1>1, <1>2, <1>6
<1>7. QED
  BY <1>4, <1>5, <1>6

\* What is due stays due, if the one it is due from does not move.
LEMMA DueFrame ==
    ASSUME FlagsInv, StyleIsDue, NEW t \in Threads, NEW label,
           UNCHANGED <<hwnd, mode, style, countdown>>, alive' \subseteq alive,
           UNCHANGED pc \/ (Goto(t, label) /\ pc[t] \notin {"apply", "reapply", "reset"})
    PROVE  StyleIsDue'
<1>1. \A u \in Threads : pc[u] \in {"apply", "reapply", "reset"} => pc'[u] = pc[u]
  BY DEF FlagsInv, FlagsType, Goto
<1>2. QED
  BY <1>1 DEF StyleIsDue

\* A thread in a frame or behind a Reset finds the hooks attached to a device.
LEMMA HookedInUse ==
    ASSUME BeforeDevice, NEW t \in Threads, pc[t] \notin {"idle", "created"}
    PROVE  attached /\ device # "none"
BY DEF BeforeDevice

LEMMA EndSceneKeepsWindow ==
    ASSUME FlagsInv, WindowInv, NEW t \in Threads, EndScene(t)
    PROVE  WindowInv'
<1>1. UNCHANGED <<device, focus, deviceWindow, attached, alive>>
  BY DEF EndScene, EnterEndScene, TestCooperativeLevel, ClaimInit, FindWindow, HookWndProc, StoreWndProc,
         InitImGui, FinishInit, TickReapply, Reapply, Drawn, LeaveEndScene, SetMode, ApplyMode, SaveMode,
         deviceVars
<1>2. attached /\ device # "none"
  <2>1. CASE EnterEndScene(t)
    BY <2>1 DEF EnterEndScene
  <2>2. CASE ~EnterEndScene(t)
    <3>1. pc[t] \notin {"idle", "created"}
      BY <2>2 DEF EndScene, TestCooperativeLevel, ClaimInit, FindWindow, HookWndProc, StoreWndProc,
             InitImGui, FinishInit, TickReapply, Reapply, Drawn, LeaveEndScene, SetMode, ApplyMode, SaveMode
    <3>2. QED
      BY <3>1, HookedInUse DEF WindowInv
  <2>3. QED
    BY <2>1, <2>2
<1>3. BeforeDevice'
  BY <1>1, <1>2 DEF BeforeDevice
<1>4. ASSUME UNCHANGED windowVars PROVE WindowTypes' /\ OneWindow' /\ StripsAreKnown'
  BY <1>1, <1>4 DEF WindowInv, WindowTypes, OneWindow, StripsAreKnown, CaptureBelongsToWindow, windowVars
<1>a. ASSUME NEW label, Goto(t, label) PROVE pc'[t] = label
  BY <1>a DEF FlagsInv, FlagsType, Goto
<1>5. CASE \/ EnterEndScene(t) \/ TestCooperativeLevel(t) \/ ClaimInit(t) \/ HookWndProc(t) \/ StoreWndProc(t)
           \/ InitImGui(t) \/ FinishInit(t) \/ Drawn(t) \/ LeaveEndScene(t) \/ SaveMode(t)
  <2>1. UNCHANGED windowVars /\ UNCHANGED mode /\ pc[t] \notin {"apply", "reapply", "reset"}
    BY <1>5 DEF EnterEndScene, TestCooperativeLevel, ClaimInit, HookWndProc, StoreWndProc,
         InitImGui, FinishInit, Drawn, LeaveEndScene, SaveMode, modeVars
  <2>2. \E label \in Labels : Goto(t, label)
    BY <1>5 DEF EnterEndScene, TestCooperativeLevel, ClaimInit, HookWndProc, StoreWndProc,
         InitImGui, FinishInit, Drawn, LeaveEndScene, SaveMode, Labels, FrameLabels, InitLabels
  <2>3. UNCHANGED <<hwnd, mode, style, countdown>>
    BY <2>1 DEF windowVars
  <2>4. StyleIsDue'
    BY <2>1, <2>2, <2>3, <1>1, DueFrame DEF WindowInv
  <2>5. QED
    BY <2>1, <2>4, <1>3, <1>4 DEF WindowInv
<1>6. CASE FindWindow(t)
  <2>1. pc[t] = "window" /\ UNCHANGED mode
    BY <1>6 DEF FindWindow, modeVars
  <2>2. CASE Goto(t, "idle") /\ UNCHANGED windowVars
    <3>1. UNCHANGED <<hwnd, mode, style, countdown>>
      BY <2>1, <2>2 DEF windowVars
    <3>2. StyleIsDue'
      BY <2>1, <2>2, <3>1, <1>1, DueFrame DEF WindowInv
    <3>3. QED
      BY <2>2, <3>2, <1>3, <1>4 DEF WindowInv
  <2>3. CASE /\ SetWindowHandle(IF focus # None THEN focus ELSE deviceWindow)
             /\ \E label \in {"hookwnd", "finish"} : Goto(t, label)
    <3> DEFINE w == IF focus # None THEN focus ELSE deviceWindow
    <3>1. w \in {focus, deviceWindow} \ {None}
      BY <1>2 DEF WindowInv, OneWindow
    <3>2. SetWindowHandle(w)
      BY <2>3
    <3> HIDE DEF w
    <3>3. /\ WindowTypes' /\ OneWindow' /\ StripsAreKnown'
          /\ hwnd' = w
          /\ mode # "Disabled" => countdown' > 0
          /\ mode = "Disabled" => /\ UNCHANGED <<style, countdown>>
                                  /\ hwnd' = hwnd \/ style[w] # "stripped"
      BY <3>1, <3>2, <1>1, <2>1, SetHandleKeeps DEF WindowInv
    <3>4. \A u \in Threads : pc[u] = "apply" => pc'[u] = "apply"
      BY <2>1, <2>3 DEF FlagsInv, FlagsType, Goto
    <3>5. StyleIsDue'
      <4>1. CASE mode = "Disabled"
        <5>1. style'[w] = style[w]
          BY <3>3, <4>1
        <5>2. w \in alive /\ style[w] = "stripped" => \E u \in Threads : pc'[u] = "apply"
          BY <3>3, <3>4, <4>1 DEF WindowInv, StyleIsDue
        <5>3. QED
          BY <5>1, <5>2, <3>3, <4>1, <1>1, <2>1 DEF StyleIsDue
      <4>2. CASE mode # "Disabled"
        <5>1. countdown' # 0
          BY <3>3, <4>2 DEF WindowTypes
        <5>2. QED
          BY <5>1, <4>2, <2>1 DEF StyleIsDue
      <4>3. QED
        BY <4>1, <4>2
    <3>6. QED
      BY <3>3, <3>5, <1>3 DEF WindowInv
  <2>4. QED
    BY <1>6, <2>2, <2>3 DEF FindWindow
<1>7. CASE TickReapply(t)
  <2>1. /\ pc[t] = "frame" /\ UNCHANGED <<mode, hwnd, originalStyle, wasApplied, style, past>>
        /\ countdown' = (IF countdown > 0 THEN countdown - 1 ELSE 0)
        /\ Goto(t, IF countdown = 1 THEN "reapply" ELSE AfterTick)
    BY <1>7 DEF TickReapply, modeVars
  <2>2. countdown \in Nat
    BY DEF WindowInv, WindowTypes
  <2>3. countdown' \in Nat /\ (countdown' = 0 => countdown = 0 \/ pc'[t] = "reapply")
    BY <2>1, <2>2, <1>a
  <2>4. WindowTypes' /\ OneWindow' /\ StripsAreKnown'
    BY <2>1, <2>3, <1>1 DEF WindowInv, WindowTypes, OneWindow, StripsAreKnown, CaptureBelongsToWindow
  <2>5. \A u \in Threads : pc[u] \in {"apply", "reapply", "reset"} => pc'[u] = pc[u]
    BY <2>1 DEF FlagsInv, FlagsType, Goto
  <2>6. StyleIsDue'
    BY <2>1, <2>3, <2>5, <1>1 DEF WindowInv, StyleIsDue
  <2>7. QED
    BY <2>4, <2>6, <1>3 DEF WindowInv
<1>8. CASE Reapply(t) \/ ApplyMode(t)
  <2>1. Apply /\ UNCHANGED mode
    BY <1>8 DEF Reapply, ApplyMode, modeVars
  <2>2. /\ WindowTypes' /\ OneWindow' /\ StripsAreKnown'
        /\ UNCHANGED <<hwnd, countdown>>
        /\ hwnd \in alive => /\ mode = "Disabled" => style'[hwnd] # "stripped"
                             /\ mode # "Disabled" => style'[hwnd] = "stripped"
    BY <2>1, <1>1, ApplyKeeps DEF WindowInv
  <2>3. StyleIsDue'
    BY <2>1, <2>2, <1>1 DEF StyleIsDue
  <2>4. QED
    BY <2>2, <2>3, <1>3 DEF WindowInv
<1>9. CASE \E m \in Modes : SetMode(t, m)
  <2>1. UNCHANGED windowVars /\ Goto(t, "apply")
    BY <1>9 DEF SetMode
  <2>2. pc'[t] = "apply"
    BY <2>1, <1>a
  <2>3. QED
    BY <2>1, <2>2, <1>3, <1>4 DEF WindowInv, StyleIsDue
<1>10. QED
  BY <1>5, <1>6, <1>7, <1>8, <1>9 DEF EndScene

LEMMA GameKeepsWindow ==
    ASSUME Returns = FALSE, FlagsInv, WindowInv, NEW t \in Threads, GameCall(t)
    PROVE  WindowInv'
<1>a. ASSUME NEW label, Goto(t, label)
      PROVE  \A u \in Threads : pc'[u] = IF u = t THEN label ELSE pc[u]
  BY <1>a DEF FlagsInv, FlagsType, Goto
<1>1. ASSUME NEW f \in Windows \cup {None}, NEW d \in Windows \cup {None}, CreateDevice(t, f, d)
      PROVE  WindowInv'
  <2>1. /\ f # None \/ d # None
        /\ f = d \/ None \in {f, d}
        /\ f \notin past /\ d \notin past
        /\ device' = "ok" /\ focus' = f /\ deviceWindow' = d
        /\ attached' \in {attached, TRUE} /\ Goto(t, "created") /\ pc[t] = "idle"
        /\ UNCHANGED <<windowVars, mode, alive>>
    BY <1>1 DEF CreateDevice, MayUse, Quiet, modeVars
  <2>2. UNCHANGED <<hwnd, originalStyle, wasApplied, countdown, style, past>>
    BY <2>1 DEF windowVars
  <2>3. WindowTypes' /\ StripsAreKnown'
    BY <2>1, <2>2 DEF WindowInv, WindowTypes, StripsAreKnown, CaptureBelongsToWindow
  <2>4. OneWindow'
    BY <2>1, <2>2 DEF WindowInv, OneWindow
  <2>5. BeforeDevice'
    <3>1. ~attached' => ~attached
      BY <2>1
    <3>2. device' # "none"
      BY <2>1
    <3>3. ~attached' => \A u \in Threads : pc'[u] \in {"idle", "created"}
      BY <3>1, <2>1, <1>a DEF WindowInv, BeforeDevice
    <3>4. ~attached' => hwnd' = None \/ countdown' > 0
      BY <3>1, <2>2 DEF WindowInv, BeforeDevice
    <3>5. QED
      BY <3>2, <3>3, <3>4 DEF BeforeDevice
  <2>6. StyleIsDue'
    BY <2>1, <2>2, DueFrame DEF WindowInv
  <2>7. QED
    BY <2>3, <2>4, <2>5, <2>6 DEF WindowInv
<1>2. CASE HandOver(t)
  <2>1. pc[t] = "created" /\ Goto(t, "idle")
        /\ UNCHANGED <<device, focus, deviceWindow, attached, mode, alive>>
    BY <1>2 DEF HandOver, deviceVars, modeVars
  <2>2. device # "none"
    BY <2>1 DEF WindowInv, BeforeDevice
  <2>3. CASE UNCHANGED windowVars
    <3>1. UNCHANGED <<hwnd, originalStyle, wasApplied, countdown, style, past>>
      BY <2>3 DEF windowVars
    <3>2. WindowTypes' /\ OneWindow' /\ StripsAreKnown'
      BY <2>1, <3>1 DEF WindowInv, WindowTypes, OneWindow, StripsAreKnown, CaptureBelongsToWindow
    <3>3. BeforeDevice'
      BY <2>1, <3>1, <1>a DEF WindowInv, BeforeDevice
    <3>4. StyleIsDue'
      BY <2>1, <3>1, DueFrame DEF WindowInv
    <3>5. QED
      BY <3>2, <3>3, <3>4 DEF WindowInv
  <2>4. CASE mode # "Disabled" /\ SetWindowHandle(IF deviceWindow # None THEN deviceWindow ELSE focus)
    <3> DEFINE w == IF deviceWindow # None THEN deviceWindow ELSE focus
    <3>1. w \in {focus, deviceWindow} \ {None}
      BY <2>2 DEF WindowInv, OneWindow
    <3>2. SetWindowHandle(w)
      BY <2>4
    <3> HIDE DEF w
    <3>3. WindowTypes' /\ OneWindow' /\ StripsAreKnown' /\ countdown' > 0
      BY <3>1, <3>2, <2>1, <2>4, SetHandleKeeps DEF WindowInv
    <3>4. StyleIsDue'
      BY <3>3, <2>1, <2>4 DEF StyleIsDue, WindowTypes
    <3>5. BeforeDevice'
      BY <3>3, <2>1, <2>2, <1>a DEF WindowInv, BeforeDevice
    <3>6. QED
      BY <3>3, <3>4, <3>5 DEF WindowInv
  <2>5. QED
    BY <1>2, <2>3, <2>4 DEF HandOver
<1>3. CASE ResetDevice(t)
  <2>1. /\ device # "none" /\ device' # "none"
        /\ pc[t] = "idle"
        /\ UNCHANGED <<focus, deviceWindow, attached, mode, hwnd, originalStyle, wasApplied, countdown,
                       past, alive>>
    BY <1>3 DEF ResetDevice, Quiet, modeVars
  <2>2. OneWindow'
    BY <2>1 DEF WindowInv, OneWindow
  <2>3. CASE UNCHANGED <<style, pc>>
    <3>1. WindowTypes' /\ StripsAreKnown'
      BY <2>1, <2>3 DEF WindowInv, WindowTypes, StripsAreKnown, CaptureBelongsToWindow
    <3>2. BeforeDevice' /\ StyleIsDue'
      BY <2>1, <2>3 DEF WindowInv, BeforeDevice, StyleIsDue
    <3>3. QED
      BY <2>2, <3>1, <3>2 DEF WindowInv
  <2>4. CASE /\ style' \in {style, [w \in Windows |-> IF w \in {focus, deviceWindow} THEN w ELSE style[w]]}
             /\ Goto(t, IF attached THEN "reset" ELSE "idle")
    <3>1. /\ style' \in [Windows -> Windows \cup {"stripped"}]
          /\ \A w \in Windows : style'[w] \in {w, style[w]}
      BY <2>4 DEF WindowInv, WindowTypes
    <3>2. \A w \in Windows : style'[w] \in {w, "stripped"} /\ (style'[w] = "stripped" => style[w] = "stripped")
      BY <3>1, DeviceAssumption DEF WindowInv, WindowTypes, DeviceAssumption
    <3>3. WindowTypes'
      BY <2>1, <3>1, <3>2 DEF WindowInv, WindowTypes
    <3>4. \A w \in Windows : w \notin past' /\ w # hwnd' => style'[w] = w
      BY <2>1, <3>1 DEF WindowInv, StripsAreKnown
    <3>5. hwnd # None => hwnd \in Windows
      BY DEF WindowInv, WindowTypes
    <3>6. StripsAreKnown'
      BY <2>1, <3>2, <3>4, <3>5 DEF WindowInv, StripsAreKnown, CaptureBelongsToWindow
    <3>7. BeforeDevice'
      BY <2>1, <2>4, <1>a DEF WindowInv, BeforeDevice
    <3>8. StyleIsDue'
      <4>1. SUFFICES ASSUME hwnd \in alive PROVE StyleIsDue'
        BY <2>1 DEF StyleIsDue
      <4>2. hwnd \in Windows /\ hwnd # None
        BY <4>1, DeviceAssumption DEF WindowInv, WindowTypes, DeviceAssumption
      <4>3. mode = "Disabled" => style'[hwnd] # "stripped"
        <5>1. \A u \in Threads : pc[u] = "idle"
          BY <1>3 DEF ResetDevice, Quiet
        <5>2. mode = "Disabled" => style[hwnd] # "stripped"
          BY <5>1, <4>1 DEF WindowInv, StyleIsDue
        <5>3. QED
          BY <5>2, <3>2, <4>2
      <4>4. mode # "Disabled" /\ countdown = 0 => attached
        BY <4>2 DEF WindowInv, BeforeDevice
      <4>5. attached => pc'[t] = "reset"
        BY <2>4, <1>a
      <4>6. QED
        BY <2>1, <4>3, <4>4, <4>5 DEF StyleIsDue
    <3>9. QED
      BY <2>2, <3>3, <3>6, <3>7, <3>8 DEF WindowInv
  <2>5. QED
    BY <1>3, <2>3, <2>4 DEF ResetDevice
<1>4. CASE AfterReset(t)
  <2>1. pc[t] = "reset" /\ Goto(t, "idle")
        /\ UNCHANGED <<device, focus, deviceWindow, attached, mode, alive>>
    BY <1>4 DEF AfterReset, deviceVars, modeVars
  <2>2. attached /\ device # "none"
    BY <2>1, HookedInUse DEF WindowInv
  <2>3. BeforeDevice'
    BY <2>1, <2>2 DEF BeforeDevice
  <2>4. CASE mode = "Disabled" /\ UNCHANGED windowVars
    <3>1. UNCHANGED <<hwnd, originalStyle, wasApplied, countdown, style, past>>
      BY <2>4 DEF windowVars
    <3>2. WindowTypes' /\ OneWindow' /\ StripsAreKnown'
      BY <2>1, <3>1 DEF WindowInv, WindowTypes, OneWindow, StripsAreKnown, CaptureBelongsToWindow
    <3>3. \A u \in Threads : pc[u] = "apply" => pc'[u] = "apply"
      BY <2>1, <1>a
    <3>4. StyleIsDue'
      BY <2>1, <2>4, <3>1, <3>3 DEF WindowInv, StyleIsDue
    <3>5. QED
      BY <2>3, <3>2, <3>4 DEF WindowInv
  <2>5. CASE mode # "Disabled" /\ deviceWindow # None /\ SetWindowHandle(deviceWindow)
    <3>1. WindowTypes' /\ OneWindow' /\ StripsAreKnown' /\ countdown' > 0
      BY <2>1, <2>5, SetHandleKeeps DEF WindowInv
    <3>2. StyleIsDue'
      BY <3>1, <2>1, <2>5 DEF StyleIsDue, WindowTypes
    <3>3. QED
      BY <2>3, <3>1, <3>2 DEF WindowInv
  <2>6. CASE mode # "Disabled" /\ Apply
    <3>1. /\ WindowTypes' /\ OneWindow' /\ StripsAreKnown'
          /\ UNCHANGED <<hwnd, countdown>>
          /\ hwnd \in alive => style'[hwnd] = "stripped"
      BY <2>1, <2>6, ApplyKeeps DEF WindowInv
    <3>2. StyleIsDue'
      BY <3>1, <2>1, <2>6 DEF StyleIsDue
    <3>3. QED
      BY <2>3, <3>1, <3>2 DEF WindowInv
  <2>7. QED
    BY <1>4, <2>4, <2>5, <2>6 DEF AfterReset
<1>5. QED
  BY <1>1, <1>2, <1>3, <1>4 DEF GameCall

LEMMA WorldKeepsWindow ==
    ASSUME Reloads = FALSE, FlagsInv, WindowInv, World
    PROVE  WindowInv'
<1>1. CASE LoadMode
  <2>1. device = "none" /\ UNCHANGED <<device, focus, deviceWindow, attached, hwnd, originalStyle, wasApplied,
                                       countdown, style, past, alive, pc>>
    BY <1>1 DEF LoadMode, deviceVars, windowVars
  <2>2. hwnd = None /\ None \notin alive
    BY <2>1, DeviceAssumption DEF WindowInv, BeforeDevice, WindowTypes, DeviceAssumption
  <2>3. QED
    BY <2>1, <2>2 DEF WindowInv, WindowTypes, OneWindow, StripsAreKnown, CaptureBelongsToWindow, BeforeDevice,
                      StyleIsDue
<1>2. CASE DeviceLost
  <2>1. device # "none" /\ device' # "none"
        /\ UNCHANGED <<focus, deviceWindow, attached, mode, hwnd, originalStyle, wasApplied,
                       countdown, style, past, alive, pc>>
    BY <1>2 DEF DeviceLost, modeVars, windowVars
  <2>2. QED
    BY <2>1 DEF WindowInv, WindowTypes, OneWindow, StripsAreKnown, CaptureBelongsToWindow, BeforeDevice,
                StyleIsDue
<1>3. ASSUME NEW w \in Windows, GameRestyles(w) PROVE WindowInv'
  <2>1. /\ w = hwnd => countdown > 0
        /\ style' = [style EXCEPT ![w] = w]
        /\ UNCHANGED <<device, focus, deviceWindow, attached, mode, hwnd, originalStyle, wasApplied,
                       countdown, past, alive, pc>>
    BY <1>3 DEF GameRestyles, deviceVars, modeVars
  <2>2. /\ style' \in [Windows -> Windows \cup {"stripped"}]
        /\ \A v \in Windows : style'[v] = IF v = w THEN w ELSE style[v]
    BY <2>1 DEF WindowInv, WindowTypes
  <2>3. w # "stripped" /\ w # None
    BY DeviceAssumption DEF DeviceAssumption
  <2>4. hwnd \in alive => hwnd \in Windows
    BY DEF WindowInv, WindowTypes
  <2>5. hwnd # None => hwnd \in Windows
    BY DEF WindowInv, WindowTypes
  <2>6. WindowTypes' /\ OneWindow' /\ BeforeDevice'
    BY <2>1, <2>2 DEF WindowInv, WindowTypes, OneWindow, BeforeDevice
  <2>7. StripsAreKnown'
    BY <2>1, <2>2, <2>3, <2>5 DEF WindowInv, StripsAreKnown, CaptureBelongsToWindow
  <2>8. StyleIsDue'
    <3>1. CASE w = hwnd
      <4>1. countdown' # 0
        BY <2>1, <3>1 DEF WindowInv, WindowTypes
      <4>2. hwnd' \in alive' => style'[hwnd'] # "stripped"
        BY <2>1, <2>2, <2>3, <3>1
      <4>3. QED
        BY <4>1, <4>2 DEF StyleIsDue
    <3>2. CASE w # hwnd
      <4>1. hwnd \in alive => style'[hwnd] = style[hwnd]
        BY <3>2, <2>2, <2>4
      <4>2. QED
        BY <4>1, <2>1 DEF WindowInv, StyleIsDue
    <3>3. QED
      BY <3>1, <3>2
  <2>9. QED
    BY <2>6, <2>7, <2>8 DEF WindowInv
<1>4. ASSUME NEW w \in Windows, DestroyWindow(w) PROVE WindowInv'
  <2>1. /\ alive' = alive \ {w}
        /\ UNCHANGED <<device, focus, deviceWindow, attached, mode, hwnd, originalStyle, wasApplied,
                       countdown, style, past, pc>>
    BY <1>4 DEF DestroyWindow, deviceVars, modeVars, windowVars
  <2>2. QED
    BY <2>1 DEF WindowInv, WindowTypes, OneWindow, StripsAreKnown, CaptureBelongsToWindow, BeforeDevice,
                StyleIsDue
<1>5. QED
  BY <1>1, <1>2, <1>3, <1>4 DEF World

LEMMA WindowStep ==
    ASSUME Returns = FALSE, Reloads = FALSE, FlagsInv, WindowInv, [Next]_vars
    PROVE  WindowInv'
<1>1. CASE UNCHANGED vars
  BY <1>1 DEF vars, deviceVars, modeVars, windowVars, WindowInv, WindowTypes, OneWindow, StripsAreKnown,
              CaptureBelongsToWindow, BeforeDevice, StyleIsDue
<1>2. QED
  BY <1>1, WorldKeepsWindow, EndSceneKeepsWindow, GameKeepsWindow DEF Next

\* Whatever windows come and go, whenever the device is lost or reset and whoever changes
\* the mode, the window's style is the one the mode asks for and can be restored, if the
\* game comes back to no window it has left and the mode is loaded before the device.
THEOREM StyleIsTheModes ==
    ASSUME Returns = FALSE, Reloads = FALSE PROVE Spec => []StyleFollowsMode
<1>1. ASSUME FlagsInv, WindowInv PROVE StyleFollowsMode
  <2>1. CaptureBelongsToWindow
    BY <1>1 DEF WindowInv, StripsAreKnown
  <2>2. hwnd \in alive => hwnd \in Windows
    BY <1>1 DEF WindowInv, WindowTypes
  <2>3. DisabledIsDecorated
    BY <1>1, <2>2 DEF WindowInv, WindowTypes, StyleIsDue, DisabledIsDecorated, Settled
  <2>4. ActiveIsApplied
    BY <1>1 DEF WindowInv, StyleIsDue, ActiveIsApplied, Settled
  <2>5. QED
    BY <2>1, <2>3, <2>4 DEF StyleFollowsMode
<1>2. FlagsInv /\ WindowInv /\ [Next]_vars => WindowInv'
  BY WindowStep
<1>3. FlagsInv /\ WindowInv => StyleFollowsMode
  BY <1>1
<1>4. QED
  BY FlagsInit, FlagsStep, WindowInit, <1>2, <1>3, PTL DEF Spec

=============================================================================
