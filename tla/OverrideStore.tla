---------------------------- MODULE OverrideStore ----------------------------
(***************************************************************************)
(* What the settings store promises its user: the overrides asked for are  *)
(* in effect until the user changes them, a save keeps exactly those, and  *)
(* a restart brings back exactly what was kept.  Nothing else may change   *)
(* either of them.  What is kept of a setting may have several readings,   *)
(* when it was not written by a save.                                      *)
(***************************************************************************)
EXTENDS Integers

CONSTANTS
    Names,     \* the game's settings
    Values,    \* what a setting may hold
    None,      \* no override
    MaxEdits   \* bound: how many requests a user makes

Overrides == [Names -> Values \cup {None}]
NoOverrides == [n \in Names |-> None]

Readings == {read \in SUBSET (Values \cup {None}) : read # {}}

VARIABLES
    wish,  \* the overrides in effect, or about to be once the game registers
    kept,  \* of each setting, what a restart may bring back
    base,  \* the defaults known to "Reset to Default"
    edits  \* requests made so far

vars == <<wish, kept, base, edits>>

Init ==
    /\ kept \in [Names -> Readings]
    /\ wish \in Overrides /\ \A n \in Names : wish[n] \in kept[n]
    /\ base = NoOverrides
    /\ edits = 0

Request ==
    /\ edits < MaxEdits
    /\ edits' = edits + 1

Edit(n, v) ==
    /\ Request
    /\ wish' = [wish EXCEPT ![n] = v]
    /\ UNCHANGED <<kept, base>>

Clear(n) ==
    /\ Request
    /\ wish' = [wish EXCEPT ![n] = None]
    /\ UNCHANGED <<kept, base>>

Merge(over, under) == [n \in Names |-> IF over[n] # None THEN over[n] ELSE under[n]]

ResetAll ==
    /\ Request
    /\ wish' = Merge(base, wish)
    /\ UNCHANGED <<kept, base>>

LearnDefaults ==
    /\ base' \in Overrides
    /\ UNCHANGED <<wish, kept, edits>>

Save ==
    /\ kept' = [n \in Names |-> {wish[n]}]
    /\ UNCHANGED <<wish, base, edits>>

\* A load goes from setting to setting.
Load ==
    /\ \E read \in Overrides :
        /\ \A n \in Names : read[n] \in kept[n] \cup {None}
        /\ wish' = Merge(read, wish)
    /\ UNCHANGED <<kept, base, edits>>

Restart ==
    /\ wish' \in Overrides /\ \A n \in Names : wish'[n] \in kept[n]
    /\ base' = NoOverrides
    /\ UNCHANGED <<kept, edits>>

Next ==
    \/ \E n \in Names : Clear(n) \/ \E v \in Values : Edit(n, v)
    \/ ResetAll \/ LearnDefaults \/ Save \/ Load \/ Restart

Spec == Init /\ [][Next]_vars

=============================================================================
