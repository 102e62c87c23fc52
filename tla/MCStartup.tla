------------------------------ MODULE MCStartup ------------------------------
(***************************************************************************)
(* A small instance of Startup for TLC: a patch that is on by default and  *)
(* one that is not, config files of four kinds beside none and a broken    *)
(* one, two old files.                                                     *)
(***************************************************************************)
EXTENDS Startup

CONSTANTS texture, lots

AllPatches == {texture, lots}
DefaultPatches == {lots}

Table(t, l, o, b, h) ==
    [x \in Prefs |-> CASE x = texture -> t [] x = lots -> l [] x = "disable_overlay" -> o
                      [] x = "borderless" -> b [] x = "disable_hooks" -> h]

\* One that SaveAll wrote, one of a version without the patch that is on by default,
\* and two that switch off what is on by default, the overlay, and the hooks or the
\* frame of the window.
Files == {Table(TRUE, TRUE, FALSE, FALSE, FALSE), Table(TRUE, Unset, FALSE, TRUE, FALSE),
          Table(FALSE, FALSE, TRUE, FALSE, TRUE), Table(FALSE, FALSE, TRUE, TRUE, FALSE)}

\* The old file never had an entry for the overlay.
OldFiles == {Table(TRUE, FALSE, Unset, TRUE, FALSE), Table(FALSE, Unset, Unset, Unset, TRUE)}

=============================================================================
