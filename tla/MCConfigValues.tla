--------------------------- MODULE MCConfigValues ---------------------------
(***************************************************************************)
(* A small instance of ConfigValues for TLC.  The capacities 256 and 65536 *)
(* are scaled to 8 and 16; the game has a value of its own for one key.    *)
(***************************************************************************)
EXTENDS ConfigValues

CONSTANTS shadows, unknown

TwoKeys == {shadows, unknown}
OneStock == [n \in TwoKeys |-> IF n = shadows THEN 1 ELSE None]
AllLengths == {2, 20}

=============================================================================
