--------------------------- MODULE MCMissionEngine ---------------------------
(* MissionEngine on a small instance: two steps, the second one guarded.   *)
EXTENDS MissionEngine, TLC

CONSTANTS w1, w2, w3

TwoWorkers == {w1, w2}
ThreeWorkers == {w1, w2, w3}

\* WRITE_LOCAL, then NETWORK: the second step needs a human's yes.
RisingLevels == <<1, 3>>

AnyWorker == Permutations(ThreeWorkers)

=============================================================================
