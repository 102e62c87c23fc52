----------------------------- MODULE Preferences -----------------------------
(***************************************************************************)
(* What S3SS promises of the switches it keeps: they change when the user  *)
(* changes one, a save keeps all of them as they are, reading the file     *)
(* back or starting the game again brings back exactly what was kept.      *)
(***************************************************************************)
EXTENDS Integers

CONSTANT Prefs \* the switches: patches that may be on, options that may be set

VARIABLES
    current, \* what is in force now, or will be when start-up has finished
    kept,    \* what the next start of the game brings
    edits    \* how often the user has changed something

vars == <<current, kept, edits>>

Init ==
    /\ kept \in [Prefs -> BOOLEAN]
    /\ current = kept
    /\ edits = 0

Change(x) ==
    /\ current' = [current EXCEPT ![x] = ~current[x]]
    /\ edits' = edits + 1
    /\ UNCHANGED kept

\* The user changes something that is not a switch.
ChangeElsewhere == edits' = edits + 1 /\ UNCHANGED <<current, kept>>

Save == kept' = current /\ UNCHANGED <<current, edits>>

\* A reload of some switches, or of all of them at a restart.
BringBack(S) ==
    /\ current' = [x \in Prefs |-> IF x \in S THEN kept[x] ELSE current[x]]
    /\ UNCHANGED <<kept, edits>>

Next ==
    \/ \E x \in Prefs : Change(x)
    \/ ChangeElsewhere
    \/ Save
    \/ \E S \in SUBSET Prefs : BringBack(S)

Spec == Init /\ [][Next]_vars

=============================================================================
