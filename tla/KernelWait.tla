------------------------------ MODULE KernelWait ------------------------------
(***************************************************************************)
(* What the game expects of WaitForSingleObject and WaitForSingleObjectEx, *)
(* for one event that resets itself: a signal ends one wait, an endless    *)
(* wait never times out, and only an alertable one runs the callbacks      *)
(* queued for its thread.                                                  *)
(***************************************************************************)
CONSTANTS
    Waiters,  \* the game's threads
    Handles   \* what they wait for: "event", "thread" and "process" (their own), "null"

VARIABLES
    signalled, \* the event
    queued,    \* of each thread: a callback is queued
    wait       \* of each thread: [status, handle, time, alertable, result]

vars == <<signalled, queued, wait>>

Times == {"none", "some", "endless"}

Idle == [status |-> "idle", handle |-> "null", time |-> "none", alertable |-> FALSE, result |-> "none"]

Init ==
    /\ signalled \in BOOLEAN
    /\ queued = [w \in Waiters |-> FALSE]
    /\ wait = [w \in Waiters |-> Idle]

SetEvent == signalled' = TRUE /\ UNCHANGED <<queued, wait>>

QueueCallback(w) == queued' = [queued EXCEPT ![w] = TRUE] /\ UNCHANGED <<signalled, wait>>

Begin(w) ==
    /\ wait[w].status = "idle"
    /\ \E handle \in Handles, time \in Times, alertable \in BOOLEAN :
        wait' = [wait EXCEPT ![w] = [status |-> "waiting", handle |-> handle, time |-> time,
                                     alertable |-> alertable, result |-> "none"]]
    /\ UNCHANGED <<signalled, queued>>

Finish(w, result) ==
    wait' = [wait EXCEPT ![w] = [@ EXCEPT !.status = "done", !.result = result]]

\* Everything a wait may end with, and what it takes with it.
End(w) ==
    /\ wait[w].status = "waiting"
    /\ \/ /\ wait[w].handle = "event" /\ signalled
          /\ signalled' = FALSE
          /\ Finish(w, "object") /\ UNCHANGED queued
       \/ /\ wait[w].alertable /\ queued[w] /\ wait[w].handle # "null"
          /\ queued' = [queued EXCEPT ![w] = FALSE]
          /\ Finish(w, "callback") /\ UNCHANGED signalled
       \/ /\ wait[w].time # "endless" /\ wait[w].handle # "null"
          /\ ~(wait[w].handle = "event" /\ signalled)
          /\ ~(wait[w].alertable /\ queued[w])
          /\ Finish(w, "timeout") /\ UNCHANGED <<signalled, queued>>
       \/ /\ wait[w].handle = "null"
          /\ Finish(w, "failed") /\ UNCHANGED <<signalled, queued>>

Leave(w) ==
    /\ wait[w].status = "done"
    /\ wait' = [wait EXCEPT ![w] = Idle]
    /\ UNCHANGED <<signalled, queued>>

Next ==
    \/ SetEvent
    \/ \E w \in Waiters : QueueCallback(w) \/ Begin(w) \/ End(w) \/ Leave(w)

Spec == Init /\ [][Next]_vars

=============================================================================
