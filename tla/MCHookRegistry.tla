--------------------------- MODULE MCHookRegistry ---------------------------
(***************************************************************************)
(* Small instances of HookRegistry for TLC.                                *)
(***************************************************************************)
EXTENDS HookRegistry

CONSTANTS game, loader, mirror, tint, draw

TwoThreads == {game, loader}
OneMethod == {draw}
TwoNames == {mirror, tint}
TwoPriorities == {25, 50}

=============================================================================
