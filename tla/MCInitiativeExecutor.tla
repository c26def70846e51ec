------------------------ MODULE MCInitiativeExecutor ------------------------
(* InitiativeExecutor with a handful of requests, interchangeable.         *)
EXTENDS InitiativeExecutor, TLC

CONSTANTS r1, r2, r3, r4

FourRequests == {r1, r2, r3, r4}

AnyRequest == Permutations(FourRequests)

=============================================================================
