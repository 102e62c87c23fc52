--------------------------- MODULE MCSettingsStore ---------------------------
(***************************************************************************)
(* Small instances of SettingsStore for TLC.                               *)
(***************************************************************************)
EXTENDS SettingsStore, TLC

CONSTANTS fog, fps, low, high, stock, number, text

TwoNames == {fog, fps}
TwoValues == {stock, high}
ThreeValues == {stock, low, high}

\* A number waits for a switch in vain and is rounded for an integer, in two ways; the
\* type of a text is not known, and a registered setting reads it as nothing.
TwoForeign == {number, text}
OneNumber == {number}
ConvertsNumbers ==
    [n \in TwoNames |-> [e \in TwoForeign |-> IF n = fps /\ e = number THEN high ELSE None]]
ReadsAll ==
    [n \in TwoNames |-> [e \in TwoForeign |-> IF n = fps /\ e = text THEN None ELSE stock]]
ConvertsNothing == [n \in TwoNames |-> [e \in TwoForeign |-> None]]
ReadsNumbers == [n \in TwoNames |-> [e \in TwoForeign |-> IF e = number THEN high ELSE None]]
NameSymmetry == Permutations(TwoNames)

=============================================================================
