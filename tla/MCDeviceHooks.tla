---------------------------- MODULE MCDeviceHooks ----------------------------
(***************************************************************************)
(* Small instances of DeviceHooks for TLC.  The reapply comes after two    *)
(* frames instead of 60.                                                   *)
(***************************************************************************)
EXTENDS DeviceHooks

CONSTANTS render, loader, first, second

TwoThreads == {render, loader}
TwoWindows == {first, second}
OneMode == {"Fullscreen"}

=============================================================================
