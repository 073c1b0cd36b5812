-------------------------------- MODULE Link --------------------------------
(***************************************************************************)
(* What the connectivity monitor promises to those who upload, stated      *)
(* without probes, counters, channels or goroutines (the comment on type   *)
(* Monitor in internal/connectivity/monitor.go): a machine of three states *)
(* and uploads that run on a context which the OFFLINE period revokes in   *)
(* the same step. Connectivity implements it.                              *)
(***************************************************************************)
CONSTANT Workers      \* the goroutines that upload

VARIABLES
    state,            \* "ONLINE", "OFFLINE" or "RECONNECTING"
    running           \* the workers whose upload holds a live context

vars == <<state, running>>

Init == state = "ONLINE" /\ running = {}

\* The connection is lost, while online or while the queue drains: every
\* upload loses its context at once.
Lose ==
    /\ state \in {"ONLINE", "RECONNECTING"}
    /\ state' = "OFFLINE"
    /\ running' = {}

\* The connection is back: the queue starts to drain.
Return ==
    /\ state = "OFFLINE"
    /\ state' = "RECONNECTING"
    /\ UNCHANGED running

\* The queue is drained.
Drained ==
    /\ state = "RECONNECTING"
    /\ state' = "ONLINE"
    /\ UNCHANGED running

\* An upload begins on a live context, never while OFFLINE.
Begin(w) ==
    /\ state # "OFFLINE"
    /\ running' = running \cup {w}
    /\ UNCHANGED state

\* An upload is over.
End(w) ==
    /\ w \in running
    /\ running' = running \ {w}
    /\ UNCHANGED state

Next == Lose \/ Return \/ Drained \/ \E w \in Workers : Begin(w) \/ End(w)

Spec == Init /\ [][Next]_vars
=============================================================================
