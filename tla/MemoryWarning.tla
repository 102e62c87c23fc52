---------------------------- MODULE MemoryWarning ----------------------------
(***************************************************************************)
(* The memory monitor: Update on the hook thread, the warning and the      *)
(* widgets on the overlay's thread.  No mutex guards the monitor's fields. *)
(*                                                                         *)
(* Memory and thresholds are measured in steps of 0.1 GB, the time of the  *)
(* overlay style in calls of Update; both are small numbers here.          *)
(***************************************************************************)
EXTENDS Integers

CONSTANTS
    Levels,     \* the memory the process may use
    Thresholds, \* what the slider offers
    Duration,   \* m_WARNING_DISPLAY_DURATION, in calls of Update
    MaxClicks,  \* bound: uses of the widgets
    Overlapped  \* TRUE: Update may run in the middle of ResetWarning

VARIABLES
    memory,    \* the process's virtual size
    threshold, \* m_warningThresholdGB
    enabled,   \* m_enabled
    modal,     \* m_warningStyle is Modal
    hasWarned, dismissed, \* m_hasWarned, m_warningDismissed
    timeLeft,  \* m_warningDisplayTime
    pressing,  \* ResetWarning has cleared the flag and not yet marked the dismissal
    clicks,
    quiet      \* TRUE from a dismissal until the monitor may warn again

monitor == <<threshold, enabled, modal>>
warning == <<hasWarned, dismissed, timeLeft>>
vars == <<memory, monitor, warning, pressing, clicks, quiet>>

Init ==
    /\ memory \in Levels
    /\ threshold \in Thresholds
    /\ enabled \in BOOLEAN
    /\ modal \in BOOLEAN
    /\ hasWarned = FALSE /\ dismissed = FALSE /\ timeLeft = 0
    /\ pressing = FALSE /\ clicks = 0 /\ quiet = FALSE

\* m_currentMemoryGB < m_warningThresholdGB * 0.9f
WellBelow == 10 * memory < 9 * threshold

UpdateMayRun == pressing => Overlapped

UpdateDisabled ==
    /\ UpdateMayRun /\ ~enabled
    /\ hasWarned' = FALSE /\ dismissed' = FALSE
    /\ quiet' = FALSE
    /\ UNCHANGED <<memory, monitor, timeLeft, pressing, clicks>>

Warn(warned, time) ==
    /\ hasWarned' = warned
    /\ timeLeft' = IF time > 0 THEN time - 1 ELSE time
    /\ quiet' = (quiet /\ ~WellBelow)
    /\ UNCHANGED <<memory, monitor, pressing, clicks>>

\* Mutant of UpdateEnabled: a warning that was dismissed does not count.
UpdateAgain ==
    /\ UpdateMayRun /\ enabled
    /\ dismissed' = (dismissed /\ ~WellBelow)
    /\ LET warned == hasWarned /\ ~WellBelow
       IN \/ ~warned /\ memory >= threshold /\ Warn(TRUE, Duration)
          \/ (warned \/ memory < threshold) /\ Warn(warned, timeLeft)

\* The resets, the decision to warn, and one step of the display's time.
UpdateEnabled ==
    /\ UpdateMayRun /\ enabled
    /\ dismissed' = (dismissed /\ ~WellBelow)
    /\ LET warned == hasWarned /\ ~WellBelow
           due == ~warned /\ ~dismissed' /\ memory >= threshold
       IN \/ due /\ Warn(TRUE, Duration)
          \/ ~due /\ Warn(warned, timeLeft)

ShouldShowWarning == hasWarned /\ (modal \/ timeLeft > 0)

Click ==
    /\ ~pressing
    /\ clicks < MaxClicks
    /\ clicks' = clicks + 1

\* The OK button of the modal dialog: ResetWarning, which Update may interrupt.
PressOK ==
    /\ Click
    /\ modal /\ ShouldShowWarning
    /\ hasWarned' = FALSE
    /\ pressing' = TRUE
    /\ UNCHANGED <<memory, monitor, dismissed, timeLeft, quiet>>

Dismiss ==
    /\ pressing /\ pressing' = FALSE
    /\ timeLeft' = 0 /\ dismissed' = TRUE
    /\ quiet' = TRUE
    /\ UNCHANGED <<memory, monitor, hasWarned, clicks>>

\* The slider forgets that there was a warning, not that it was dismissed.
SetWarningThreshold(gigabytes) ==
    /\ Click
    /\ threshold' = gigabytes
    /\ hasWarned' = FALSE
    /\ UNCHANGED <<memory, enabled, modal, dismissed, timeLeft, pressing, quiet>>

SetEnabled ==
    /\ Click
    /\ enabled' = ~enabled
    /\ UNCHANGED <<memory, threshold, modal, warning, pressing, quiet>>

SetWarningStyle ==
    /\ Click
    /\ modal' = ~modal
    /\ UNCHANGED <<memory, threshold, enabled, warning, pressing, quiet>>

\* "Load Settings": the file may hold anything; the warning in progress stays.
LoadFromToml ==
    /\ Click
    /\ threshold' \in Thresholds /\ enabled' \in BOOLEAN /\ modal' \in BOOLEAN
    /\ UNCHANGED <<memory, warning, pressing, quiet>>

\* The game allocates and frees.
UseMemory ==
    /\ memory' \in Levels
    /\ UNCHANGED <<monitor, warning, pressing, clicks, quiet>>

Update == UpdateDisabled \/ UpdateEnabled

Next ==
    \/ Update
    \/ PressOK \/ Dismiss \/ SetEnabled \/ SetWarningStyle \/ LoadFromToml
    \/ \E t \in Thresholds : SetWarningThreshold(t)
    \/ UseMemory

Spec == Init /\ [][Next]_vars

-----------------------------------------------------------------------------
\* A dialog the user has dismissed stays away until Update has seen the memory
\* well below the threshold, or the monitor switched off, however the memory,
\* the threshold and the style change meanwhile (qol.cpp, "Mark as dismissed
\* until memory drops below threshold").
DismissalLasts == quiet => ~ShouldShowWarning

=============================================================================
