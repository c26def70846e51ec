-------------------------------- MODULE Routines --------------------------------
(***************************************************************************)
(* One routine of Jarvis, its runs and the store that keeps them           *)
(* (engine/background/routines.py), with the loop of the scheduler that    *)
(* fires it.                                                               *)
(*                                                                         *)
(* fire_routine never gives the event loop up, so that only the death of   *)
(* the process, an exception of the broadcast or a save that fails (it is  *)
(* swallowed) come between its three saves.  The store keeps every run in  *)
(* memory and the last History of them on disk.                            *)
(***************************************************************************)
EXTENDS Naturals, Sequences

CONSTANTS
    History,     \* _RUNS_HISTORY, 200
    CatchUpMax   \* ROUTINES_CATCH_UP_MAX, 3

ASSUME RoutineAssumption == History \in Nat \ {0} /\ CatchUpMax \in Nat

VARIABLES
    policy,   \* concurrency_policy of the routine: "skip", "coalesce" or "enqueue"
    loop,     \* the loop: "catchUp", "waiting", "dead" (an exception), "off" (no process)
    runs,     \* the last History runs in memory, oldest first
    buried,   \* an older run in memory is active
    disk,     \* the runs in the file
    missed,   \* firings the loop still has to catch up with
    bit,      \* history: flips with every dispatch
    mishap    \* history: a firing was cut short, or a save failed

routineVars == <<policy, loop, runs, buried, disk, missed, bit, mishap>>

\* "other" is a run of another routine.
RunState == {"pending", "running", "success", "skipped", "other"}

\* The stages fire_routine saves, in their order; none is saved before the first.
RunStages == <<"pending", "running", "success">>

-----------------------------------------------------------------------------
(* Vocabulary *)

IsActive(run) == run \in {"pending", "running"}

AnyActive(rs) == \E i \in 1 .. Len(rs) : IsActive(rs[i])

\* active_run_for.
ActiveRun == buried \/ AnyActive(runs)

\* mutant: the history is not cut
Untrimmed(rs) == rs

LastRuns(rs) == SubSeq(rs, IF Len(rs) > History THEN Len(rs) - History + 1 ELSE 1, Len(rs))

With(run) == LastRuns(Append(runs, run))

\* A run is added in memory.
Adds(run) ==
    /\ runs' = With(run)
    /\ buried' = (buried \/ (Len(runs) = History /\ IsActive(runs[1])))

\* The file after the saves up to stage k, each of which may have failed.
Saved(k) == {disk} \union {With(RunStages[i]) : i \in 1 .. k}

Dispatches == loop = "catchUp" \/ loop = "waiting"

\* The policy lets a firing start a run of its own.
StartsRun == policy = "enqueue" \/ ~ActiveRun

\* mutant: the outcome is not stored in the run that was dispatched
LeftRunning == "running"

Outcome == "success"

-----------------------------------------------------------------------------
(* Firings *)

RoutineInit ==
    /\ policy \in {"skip", "coalesce", "enqueue"}
    /\ loop = "off" /\ runs = <<>> /\ buried = FALSE /\ disk = <<>>
    /\ missed = 0 /\ bit = FALSE /\ mishap = FALSE

\* What comes next in the loop: the next run to catch up with, or the wait.
Proceeds ==
    /\ missed' = IF missed = 0 THEN 0 ELSE missed - 1
    /\ loop' = IF missed <= 1 THEN "waiting" ELSE "catchUp"

\* A run that is dispatched to the channel and is over at once.
FireRuns ==
    /\ Dispatches /\ StartsRun
    /\ Adds(Outcome)
    /\ disk' \in Saved(2) \union {With(Outcome)}
    /\ mishap' = (mishap \/ disk' \in {With("pending"), With("running")} \ {With(Outcome)})
    /\ bit' = ~bit
    /\ Proceeds
    /\ UNCHANGED policy

\* skip_if_active stores a run that says so; coalesce adds a line to the active run.
FireYields ==
    /\ Dispatches /\ ~StartsRun
    /\ IF policy = "skip"
       THEN /\ Adds("skipped")
            /\ disk' \in {disk, With("pending"), With("skipped")}
            /\ mishap' = (mishap \/ disk' = With("pending"))
       ELSE /\ disk' \in {disk, runs}
            /\ UNCHANGED <<runs, buried, mishap>>
    /\ Proceeds
    /\ UNCHANGED <<policy, bit>>

\* wake_engine or broadcast raises: the task of the loop ends, the run stays running.
FireRaises ==
    /\ Dispatches /\ StartsRun
    /\ Adds("running")
    /\ disk' \in Saved(2)
    /\ loop' = "dead" /\ missed' = 0 /\ mishap' = TRUE
    /\ UNCHANGED <<policy, bit>>

\* The process dies between two saves of a firing.
FireDies ==
    /\ Dispatches /\ StartsRun
    /\ disk' \in Saved(2)
    /\ loop' = "off" /\ runs' = <<>> /\ buried' = FALSE /\ missed' = 0 /\ mishap' = TRUE
    /\ UNCHANGED <<policy, bit>>

\* Another routine stores a run; not in the middle of catching up, which is one step of
\* the event loop.
OtherFires ==
    /\ loop \in {"waiting", "dead"}
    /\ Adds("other")
    /\ disk' \in {disk, With("other")}
    /\ UNCHANGED <<policy, loop, missed, bit, mishap>>

-----------------------------------------------------------------------------
(* The process *)

ProcessStops ==
    /\ loop # "off"
    /\ loop' = "off" /\ runs' = <<>> /\ buried' = FALSE /\ missed' = 0
    /\ UNCHANGED <<policy, disk, bit, mishap>>

\* The store loads the file.  An interval routine that catches up fires at once for what
\* it missed since its last finished run; at least two intervals must have gone by.
ProcessStarts ==
    /\ loop = "off"
    /\ runs' = disk /\ buried' = FALSE
    /\ missed' \in IF \E i \in 1 .. Len(disk) : disk[i] = "success" THEN 0 .. CatchUpMax ELSE {0}
    /\ loop' = IF missed' = 0 THEN "waiting" ELSE "catchUp"
    /\ UNCHANGED <<policy, disk, bit, mishap>>

\* A torn file (write_text is not atomic) is loaded as no runs.
FileTorn ==
    /\ loop = "off"
    /\ disk' = <<>>
    /\ UNCHANGED <<policy, loop, runs, buried, missed, bit, mishap>>

RoutineNext ==
    \/ FireRuns \/ FireYields \/ FireRaises \/ FireDies \/ OtherFires
    \/ ProcessStops \/ ProcessStarts \/ FileTorn

RoutineSpec == RoutineInit /\ [][RoutineNext]_routineVars

\* The loop sleeps for its interval and fires.
RoutineFires == FireRuns \/ FireYields \/ FireRaises \/ FireDies

RoutineFairness == WF_routineVars(RoutineFires)

-----------------------------------------------------------------------------
(* Properties *)

RoutineTypeOK ==
    /\ policy \in {"skip", "coalesce", "enqueue"}
    /\ loop \in {"catchUp", "waiting", "dead", "off"}
    /\ Len(runs) <= History /\ Len(disk) <= History
    /\ \A i \in 1 .. Len(runs) : runs[i] \in RunState
    /\ \A i \in 1 .. Len(disk) : disk[i] \in RunState
    /\ buried \in BOOLEAN /\ bit \in BOOLEAN /\ mishap \in BOOLEAN
    /\ missed \in 0 .. CatchUpMax

\* Between firings no run of the routine is active, over stops, restarts and the runs of
\* other routines, unless a firing was cut short or a save failed: otherwise the policy
\* skip_if_active would skip for ever.
NoRunLeftActive == ~mishap => ~ActiveRun /\ ~AnyActive(disk)

\* A routine whose loop runs dispatches again and again (bit does not keep its value b),
\* unless a mishap left a run active.
RoutineFiresAgain ==
    \A b \in BOOLEAN : []<>(bit # b \/ mishap \/ loop \in {"off", "dead"})

=============================================================================
