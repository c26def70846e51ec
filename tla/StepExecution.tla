---------------------------- MODULE StepExecution ----------------------------
(***************************************************************************)
(* What the mission engine promises about the steps of one mission,        *)
(* whatever workers come and go: a step is in the hands of at most one     *)
(* worker, a worker has at most one step in hand, and a step that was      *)
(* carried to its end is never taken up again.  This is the reason of      *)
(* being of ProjectStore.claim_step ("anti-double-execution").             *)
(* MissionEngine implements this specification.                            *)
(***************************************************************************)
CONSTANTS Workers, Steps

VARIABLES
    inHand,      \* the pairs <<worker, step>> being carried out
    completed    \* the steps carried to their end

vars == <<inHand, completed>>

Init == inHand = {} /\ completed = {}

\* A worker takes up a step nobody has in hand and nobody completed.
Begin(w, s) ==
    /\ s \notin completed
    /\ \A p \in inHand : p[1] # w /\ p[2] # s
    /\ inHand' = inHand \cup {<<w, s>>}
    /\ UNCHANGED completed

\* The worker that has the step in hand completes it.
Complete(w, s) ==
    /\ <<w, s>> \in inHand
    /\ inHand' = inHand \ {<<w, s>>}
    /\ completed' = completed \cup {s}

\* Workers drop their steps: failure, refusal, budget pause, timeout, crash.
Drop ==
    /\ inHand' \in SUBSET inHand
    /\ UNCHANGED completed

Next ==
    \/ \E w \in Workers, s \in Steps : Begin(w, s) \/ Complete(w, s)
    \/ Drop

Spec == Init /\ [][Next]_vars

=============================================================================
