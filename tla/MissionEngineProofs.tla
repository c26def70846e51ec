------------------------- MODULE MissionEngineProofs -------------------------
(***************************************************************************)
(* Theorems about MissionEngine, for any number of workers and of steps.   *)
(*                                                                         *)
(* The argument has three layers.  TypeOK is inductive together with       *)
(* "a carried step is a step of the plan".  StepShape then reduces the     *)
(* actions of the engine to four effects on the steps in hand: a worker    *)
(* takes one up, completes one, gives one back, or nobody gains any.  The  *)
(* lease invariant and the refinement of StepExecution only look at these  *)
(* four.  Consent has an invariant of its own, layered on top, and so have *)
(* the copies of the project (KnownDone), the slots of who waits, and a    *)
(* mission with a patient operator (PatientInv).  The last two sections    *)
(* prove what the liveness properties need beside fairness: StepsLeft, a   *)
(* rank of the places of run, only ever decreases, and in a calm mission   *)
(* the last save of a worker is a terminal one.                            *)
(***************************************************************************)
EXTENDS MissionEngine, GovernanceProofs

-----------------------------------------------------------------------------
(* Types *)

\* A worker carries a step of the plan, never the place after the last one.
CarriedIsAStep == \A w \in Workers : Carrying(w) => CurrentStep(w) \in Steps

TypeInv == TypeOK /\ CarriedIsAStep

LEMMA BlankType ==
    ASSUME NEW place \in Place
    PROVE  Blank(place) \in WorkerTask
BY ConstantsAssumption
   DEF Blank, WorkerTask, ProjectStatus, StepStatus, MAX_TRIES, Steps

LEMMA SpawnedType ==
    ASSUME NEW image \in ProjectImage
    PROVE  Spawned(image) \in WorkerTask
<1>1. Blank("spawned") \in WorkerTask
  BY BlankType DEF Place
<1>. QED BY <1>1 DEF Spawned, ProjectImage, WorkerTask

LEMMA StepToType ==
    ASSUME TypeOK, NEW w \in Workers, NEW st \in StepStatus
    PROVE  StepTo(w, st) \in WorkerTask /\ StepTo(w, st).at = worker[w].at
<1>1. worker[w] \in WorkerTask
  BY DEF TypeOK
<1>2. StepTo(w, st) \in WorkerTask
  BY <1>1 DEF StepTo, WorkerTask
<1>3. StepTo(w, st).at = worker[w].at
  BY <1>1 DEF StepTo, WorkerTask
<1>. QED BY <1>2, <1>3

LEMMA KillFlaggedType ==
    ASSUME TypeOK, NEW w \in Workers
    PROVE  KillFlagged(w) \in [Workers -> WorkerTask]
BY DEF KillFlagged, WorkerTask, TypeOK

\* Init establishes the types.
LEMMA InitType == Init => TypeInv
<1>. SUFFICES ASSUME Init PROVE TypeInv
  OBVIOUS
<1>1. Blank("unborn") \in WorkerTask
  BY BlankType DEF Place
<1>2. TypeOK
  BY <1>1, ConstantsAssumption
     DEF Init, TypeOK, ProjectImage, ProjectStatus, StepStatus
<1>3. CarriedIsAStep
  BY DEF Init, CarriedIsAStep, Carrying, Blank
<1>. QED BY <1>2, <1>3 DEF TypeInv

\* The operations of the orchestrator keep the types.
LEMMA OrchestrationType == TypeInv /\ Orchestration => TypeInv'
<1>. SUFFICES ASSUME TypeInv, Orchestration PROVE TypeInv'
  OBVIOUS
<1>. USE DEF TypeInv
<1>1. ASSUME NEW w \in Workers, LaunchMission(w) PROVE TypeInv'
  <2>1. Spawned(disk) \in WorkerTask
    BY SpawnedType DEF TypeOK
  <2>2. Spawned(disk).pc = "spawned"
    BY DEF Spawned, Blank
  <2>. QED BY <1>1, <2>1, <2>2 DEF LaunchMission, Becomes, TypeOK, CarriedIsAStep, Carrying, CurrentStep
<1>2. ASSUME NEW w \in Workers, NEW image \in ProjectImage, Relaunch(w, image) PROVE TypeInv'
  <2>1. Spawned(image) \in WorkerTask /\ Spawned(image).pc = "spawned"
    BY SpawnedType DEF Spawned, Blank
  <2>. DEFINE flagged == IF registry = NoWorker THEN worker ELSE KillFlagged(registry)
  <2>2. flagged \in [Workers -> WorkerTask]
    BY KillFlaggedType DEF TypeOK
  <2>3. \A v \in Workers : flagged[v].pc = worker[v].pc /\ flagged[v].at = worker[v].at
    BY DEF TypeOK, KillFlagged, WorkerTask
  <2>4. worker' = [flagged EXCEPT ![w] = Spawned(image)]
    BY <1>2 DEF Relaunch
  <2>. HIDE DEF flagged
  <2>. QED BY <1>2, <2>1, <2>2, <2>3, <2>4 DEF Relaunch, TypeOK, CarriedIsAStep, Carrying, CurrentStep
<1>3. ASSUME NEW w \in Workers, RetryProject(w) PROVE TypeInv'
  <2>1. [status |-> "running", steps |-> [s \in Steps |-> ResetStep(disk.steps[s])]]
            \in ProjectImage
    BY DEF TypeOK, ProjectImage, ResetStep, StepStatus, ProjectStatus
  <2>. QED BY <1>2, <1>3, <2>1 DEF RetryProject
<1>4. ASSUME NEW w \in Workers, ResumeProject(w) PROVE TypeInv'
  <2>1. [disk EXCEPT !.status = "running"] \in ProjectImage
    BY DEF TypeOK, ProjectImage, ProjectStatus
  <2>. QED BY <1>2, <1>4, <2>1 DEF ResumeProject
<1>5. CASE RefusePlan
  BY <1>5 DEF RefusePlan, TypeOK, ProjectImage, ProjectStatus, CarriedIsAStep, Carrying, CurrentStep
<1>6. CASE Kill \/ ResumeRefused
  <2>1. registry \in Workers /\ worker' = KillFlagged(registry)
    BY <1>6 DEF Kill, ResumeRefused, TypeOK
  <2>2. worker' \in [Workers -> WorkerTask]
    BY <2>1, KillFlaggedType
  <2>3. \A v \in Workers : worker'[v].pc = worker[v].pc /\ worker'[v].at = worker[v].at
    BY <2>1 DEF TypeOK, KillFlagged, WorkerTask
  <2>. QED BY <1>6, <2>2, <2>3 DEF Kill, ResumeRefused, TypeOK, CarriedIsAStep, Carrying, CurrentStep
<1>7. ASSUME NEW S \in SUBSET Steps, ResetSteps(S) PROVE TypeInv'
  BY <1>7 DEF ResetSteps, TypeOK, ProjectImage, StepStatus, CarriedIsAStep, Carrying, CurrentStep
<1>8. ASSUME NEW s \in Steps, NEW verdict \in {"yes", "no"}, ResolveApproval(s, verdict)
      PROVE TypeInv'
  BY <1>8 DEF ResolveApproval, TypeOK, WorkerTask, CarriedIsAStep, Carrying, CurrentStep
<1>. QED BY <1>1, <1>3, <1>4, <1>5, <1>6, <1>7, <1>8 DEF Orchestration

\* The variables other than worker and holder go on having their types.
RestTyped ==
    /\ disk' \in ProjectImage
    /\ claims' \in [Steps -> Workers \cup {NoWorker}]
    /\ registry' \in Workers \cup {NoWorker}
    /\ pending' \in [Steps -> Workers \cup {NoWorker}]
    /\ completed' \subseteq Steps
    /\ consent' \subseteq Workers \X Steps
    /\ lessons' \subseteq Workers

\* A worker that becomes a well-typed task keeps the types.
LEMMA BecomesType ==
    ASSUME TypeInv, NEW w \in Workers, NEW task \in WorkerTask, Becomes(w, task),
           task.pc \in {"approval", "llm", "verify"} => task.at \in Steps,
           holder' \in {holder, NoWorker, w}, RestTyped
    PROVE  TypeInv'
<1>1. worker' \in [Workers -> WorkerTask]
  BY DEF Becomes, TypeInv, TypeOK
<1>2. TypeOK'
  BY <1>1 DEF TypeInv, TypeOK, RestTyped
<1>3. CarriedIsAStep'
  BY DEF CarriedIsAStep, Carrying, CurrentStep, Becomes, TypeInv, TypeOK
<1>. QED BY <1>2, <1>3 DEF TypeInv

\* Going on to the next step keeps the types.
LEMMA AdvanceType ==
    ASSUME TypeInv, NEW w \in Workers, NEW task \in WorkerTask, worker[w].at \in Steps,
           Advance(w, task), RestTyped
    PROVE  TypeInv'
<1>. DEFINE next == [task EXCEPT !.pc = "walk", !.at = worker[w].at + 1]
<1>1. worker[w].at + 1 \in 1..(NSteps + 1)
  BY ConstantsAssumption DEF Steps
<1>2. next \in WorkerTask /\ next.pc = "walk"
  BY <1>1 DEF WorkerTask, Place
<1>3. Becomes(w, next) /\ holder' = w
  BY DEF Advance
<1>. HIDE DEF next
<1>. QED BY <1>2, <1>3, BecomesType

\* So does leaving the for loop.
LEMMA FinishType ==
    ASSUME TypeInv, NEW w \in Workers, NEW task \in WorkerTask, NEW st \in ProjectStatus,
           Finish(w, task, st), RestTyped
    PROVE  TypeInv'
<1>. DEFINE next == [task EXCEPT !.pc = "publish", !.status = st]
<1>1. next \in WorkerTask /\ next.pc = "publish"
  BY DEF WorkerTask, Place
<1>2. Becomes(w, next) /\ holder' = NoWorker
  BY DEF Finish
<1>. HIDE DEF next
<1>. QED BY <1>1, <1>2, BecomesType

\* What SaveProject writes is a project image.
LEMMA SaveType ==
    ASSUME NEW task \in WorkerTask, SaveProject(task)
    PROVE  disk' \in ProjectImage
BY DEF SaveProject, WorkerTask, ProjectImage

\* Calling the LLM keeps the types.
LEMMA BeginLlmType ==
    ASSUME TypeInv, NEW w \in Workers, worker[w].at \in Steps, BeginLlm(w),
           disk' \in ProjectImage => RestTyped
    PROVE  TypeInv'
<1>. DEFINE run == StepTo(w, "running")
            task == [run EXCEPT !.pc = "llm", !.tries = 0]
<1>1. run \in WorkerTask /\ run.at = worker[w].at
  BY StepToType DEF StepStatus, TypeInv
<1>2. Becomes(w, task) /\ SaveProject(task) /\ holder' = NoWorker
  BY DEF BeginLlm
<1>. HIDE DEF run
<1>3. 0 \in 0..(MAX_TRIES - 1)
  BY DEF MAX_TRIES
<1>4. task \in WorkerTask
  BY <1>1, <1>3 DEF WorkerTask, Place
<1>5. task.at = worker[w].at
  BY <1>1 DEF WorkerTask
<1>. HIDE DEF task
<1>. QED BY <1>2, <1>4, <1>5, SaveType, BecomesType

\* Asking for an approval keeps the types.
LEMMA AwaitApprovalType ==
    ASSUME TypeInv, NEW w \in Workers, worker[w].at \in Steps, AwaitApproval(w),
           disk' \in ProjectImage /\ pending' \in [Steps -> Workers \cup {NoWorker}]
               => RestTyped
    PROVE  TypeInv'
<1>. DEFINE waiting == StepTo(w, "waiting_approval")
            task == [waiting EXCEPT !.pc = "approval", !.answer = "none"]
<1>1. waiting \in WorkerTask /\ waiting.at = worker[w].at
  BY StepToType DEF StepStatus, TypeInv
<1>2. /\ Becomes(w, task) /\ SaveProject(task) /\ holder' = NoWorker
      /\ pending' \in [Steps -> Workers \cup {NoWorker}]
  BY DEF AwaitApproval, TypeInv, TypeOK
<1>. HIDE DEF waiting
<1>3. task \in WorkerTask /\ task.at = worker[w].at
  BY <1>1 DEF WorkerTask, Place
<1>. HIDE DEF task
<1>. QED BY <1>2, <1>3, SaveType, BecomesType

\* A step that fails, is skipped or completed keeps the types.
LEMMA StepEndType ==
    ASSUME TypeInv, NEW w \in Workers, worker[w].at \in Steps,
           FailStep(w) \/ SkipStep(w) \/ CompleteStep(w),
           disk' \in ProjectImage => RestTyped
    PROVE  TypeInv'
<1>1. /\ StepTo(w, "failed") \in WorkerTask
      /\ StepTo(w, "skipped") \in WorkerTask
      /\ StepTo(w, "done") \in WorkerTask
  BY StepToType DEF StepStatus, TypeInv
<1>2. CASE FailStep(w)
  BY <1>1, <1>2, SaveType, FinishType DEF FailStep, ProjectStatus
<1>3. CASE SkipStep(w)
  BY <1>1, <1>3, SaveType, AdvanceType DEF SkipStep
<1>4. CASE CompleteStep(w)
  BY <1>1, <1>4, SaveType, AdvanceType DEF CompleteStep
<1>. QED BY <1>2, <1>3, <1>4

\* What a worker does in its turn of the event loop keeps the types.
LEMMA ProgressType == ASSUME NEW w \in Workers PROVE TypeInv /\ Progress(w) => TypeInv'
<1>. SUFFICES ASSUME TypeInv, Progress(w) PROVE TypeInv'
  OBVIOUS
<1>a. /\ TypeOK
      /\ worker[w] \in WorkerTask
      /\ Carrying(w) => worker[w].at \in Steps
  BY DEF TypeInv, TypeOK, CarriedIsAStep, CurrentStep
<1>b. UNCHANGED <<disk, claims, registry, pending, completed, consent, lessons>> => RestTyped
  BY <1>a DEF RestTyped, TypeOK
<1>1. CASE StartRun(w)
  <2>. DEFINE task == [worker[w] EXCEPT !.status = "running", !.pc = "setup"]
  <2>1. task \in WorkerTask /\ task.pc = "setup"
    BY <1>a DEF WorkerTask, ProjectStatus, Place
  <2>2. Becomes(w, task) /\ SaveProject(task) /\ holder' = holder
    BY <1>1 DEF StartRun
  <2>. HIDE DEF task
  <2>3. RestTyped
    BY <1>1, <1>a, <2>1, <2>2, SaveType DEF StartRun, RestTyped, TypeOK
  <2>. QED BY <2>1, <2>2, <2>3, BecomesType
<1>2. CASE SetupDone(w)
  <2>. DEFINE task == [worker[w] EXCEPT !.pc = "walk"]
  <2>1. task \in WorkerTask /\ task.pc = "walk"
    BY <1>a DEF WorkerTask, Place
  <2>2. Becomes(w, task) /\ holder' = w /\ RestTyped
    BY <1>2, <1>b DEF SetupDone
  <2>. HIDE DEF task
  <2>. QED BY <2>1, <2>2, BecomesType
<1>3. CASE SkipSettled(w)
  BY <1>3, <1>a, <1>b, AdvanceType DEF SkipSettled, AtStep, CurrentStep
<1>4. CASE ObserveKill(w)
  BY <1>4, <1>a, <1>b, FinishType DEF ObserveKill, ProjectStatus
<1>5. CASE LoopEnds(w)
  BY <1>5, <1>a, <1>b, FinishType DEF LoopEnds, ProjectStatus
<1>6. CASE ClaimRefused(w)
  BY <1>6, <1>a, <1>b, AdvanceType, FinishType
     DEF ClaimRefused, AtStep, CurrentStep, ProjectStatus
<1>7. CASE ClaimStep(w)
  <2>1. /\ worker[w].at \in Steps
        /\ claims' \in [Steps -> Workers \cup {NoWorker}]
        /\ UNCHANGED <<registry, completed, consent, lessons>>
    BY <1>7, <1>a DEF ClaimStep, AtStep, CurrentStep, TypeOK
  <2>2. disk' \in ProjectImage /\ pending' \in [Steps -> Workers \cup {NoWorker}]
            => RestTyped
    BY <2>1, <1>a DEF RestTyped, TypeOK
  <2>3. CASE FailStep(w) /\ UNCHANGED pending
    BY <2>1, <2>2, <2>3, <1>a, StepEndType DEF TypeOK
  <2>4. CASE AwaitApproval(w)
    BY <2>1, <2>2, <2>4, AwaitApprovalType
  <2>5. CASE BeginLlm(w) /\ UNCHANGED pending
    BY <2>1, <2>2, <2>5, <1>a, BeginLlmType DEF TypeOK
  <2>. QED BY <1>7, <2>3, <2>4, <2>5 DEF ClaimStep
<1>8. CASE ApprovalGranted(w)
  BY <1>8, <1>a, BeginLlmType DEF ApprovalGranted, Suspended, Carrying, RestTyped, TypeOK
<1>9. CASE ApprovalDenied(w)
  BY <1>9, <1>a, StepEndType DEF ApprovalDenied, Suspended, Carrying, RestTyped, TypeOK
<1>10. CASE ApprovalTimeout(w)
  BY <1>10, <1>a, StepEndType DEF ApprovalTimeout, Suspended, Carrying, RestTyped, TypeOK
<1>11. CASE BudgetStop(w)
  <2>. DEFINE stopped == StepTo(w, "pending")
              task == [stopped EXCEPT !.status = "paused"]
  <2>1. stopped \in WorkerTask
    BY <1>a, StepToType DEF StepStatus
  <2>2. SaveProject(task) /\ Advance(w, task)
    BY <1>11 DEF BudgetStop
  <2>. HIDE DEF stopped
  <2>3. task \in WorkerTask
    BY <2>1 DEF WorkerTask, ProjectStatus
  <2>. HIDE DEF task
  <2>4. RestTyped
    BY <1>11, <1>a, <2>2, <2>3, SaveType DEF BudgetStop, ReleaseStepClaim, RestTyped, TypeOK
  <2>. QED BY <1>11, <1>a, <2>2, <2>3, <2>4, AdvanceType DEF BudgetStop, Suspended, Carrying
<1>12. CASE LlmFails(w)
  BY <1>12, <1>a, StepEndType DEF LlmFails, Suspended, Carrying, RestTyped, TypeOK
<1>13. CASE LlmReturns(w)
  <2>. DEFINE task == [worker[w] EXCEPT !.pc = "verify"]
  <2>1. task \in WorkerTask /\ task.at \in Steps
    BY <1>13, <1>a DEF LlmReturns, Suspended, Carrying, WorkerTask, Place
  <2>2. Becomes(w, task) /\ holder' = holder /\ RestTyped
    BY <1>13, <1>b DEF LlmReturns
  <2>. HIDE DEF task
  <2>. QED BY <2>1, <2>2, BecomesType
<1>14. CASE LlmReturnsFusion(w)
  <2>1. completed' \subseteq Steps
    BY <1>14, <1>a DEF LlmReturnsFusion, Suspended, Carrying, CompleteStep, CurrentStep, TypeOK
  <2>. QED BY <1>14, <1>a, <2>1, StepEndType DEF LlmReturnsFusion, Suspended, Carrying, RestTyped, TypeOK
<1>15. CASE Verified(w)
  <2>1. completed' \subseteq Steps
    BY <1>15, <1>a DEF Verified, Suspended, Carrying, CompleteStep, CurrentStep, TypeOK
  <2>. QED BY <1>15, <1>a, <2>1, StepEndType DEF Verified, Suspended, Carrying, RestTyped, TypeOK
<1>16. CASE NotVerifiedRetry(w)
  <2>. DEFINE task == [worker[w] EXCEPT !.pc = "llm", !.tries = worker[w].tries + 1]
  <2>1. worker[w].tries + 1 \in 0..(MAX_TRIES - 1)
    BY <1>16, <1>a DEF NotVerifiedRetry, TriesLeft, WorkerTask, MAX_TRIES
  <2>2. task \in WorkerTask /\ task.at \in Steps
    BY <1>16, <1>a, <2>1 DEF NotVerifiedRetry, Suspended, Carrying, WorkerTask, Place
  <2>3. Becomes(w, task) /\ holder' = holder /\ RestTyped
    BY <1>16, <1>b DEF NotVerifiedRetry
  <2>. HIDE DEF task
  <2>. QED BY <2>2, <2>3, BecomesType
<1>17. CASE NotVerifiedFails(w)
  BY <1>17, <1>a, StepEndType DEF NotVerifiedFails, Suspended, Carrying, RestTyped, TypeOK
<1>18. CASE VerifierRaises(w)
  BY <1>18, <1>a, <1>b, FinishType DEF VerifierRaises, ProjectStatus
<1>19. CASE HandleMissionCompleted(w)
  <2>. DEFINE task == [worker[w] EXCEPT !.pc = "closing"]
  <2>1. task \in WorkerTask /\ task.pc = "closing"
    BY <1>a DEF WorkerTask, Place
  <2>2. Becomes(w, task) /\ holder' = holder /\ RestTyped
    BY <1>19, <1>a DEF HandleMissionCompleted, RestTyped, TypeOK
  <2>. HIDE DEF task
  <2>. QED BY <2>1, <2>2, BecomesType
<1>20. CASE FinalSave(w)
  <2>1. Blank("gone") \in WorkerTask /\ Blank("gone").pc = "gone"
    BY BlankType DEF Place, Blank
  <2>2. Becomes(w, Blank("gone")) /\ holder' = holder
    BY <1>20 DEF FinalSave
  <2>3. RestTyped
    BY <1>20, <1>a, SaveType DEF FinalSave, RestTyped, TypeOK
  <2>. QED BY <2>1, <2>2, <2>3, BecomesType
<1>. QED BY <1>1, <1>2, <1>3, <1>4, <1>5, <1>6, <1>7, <1>8, <1>9, <1>10,
       <1>11, <1>12, <1>13, <1>14, <1>15, <1>16, <1>17, <1>18, <1>19, <1>20 DEF Progress

\* An interrupted worker keeps the types.
LEMMA InterruptionType == ASSUME NEW w \in Workers PROVE TypeInv /\ Interruption(w) => TypeInv'
<1>. SUFFICES ASSUME TypeInv, Interruption(w) PROVE TypeInv'
  OBVIOUS
<1>1. RestTyped /\ holder' = holder
  BY DEF Interruption, SetupFails, MissionTimeout, RestTyped, TypeInv, TypeOK
<1>2. Blank("gone") \in WorkerTask /\ Blank("gone").pc = "gone"
  BY BlankType DEF Place, Blank
<1>. DEFINE task == [worker[w] EXCEPT !.pc = "closing"]
<1>3. task \in WorkerTask /\ task.pc = "closing"
  BY DEF WorkerTask, Place, TypeInv, TypeOK
<1>4. Becomes(w, Blank("gone")) \/ Becomes(w, task)
  BY DEF Interruption, SetupFails, MissionTimeout
<1>. HIDE DEF task
<1>. QED BY <1>1, <1>2, <1>3, <1>4, BecomesType

\* A crash keeps the types.
LEMMA CrashType == TypeInv /\ Crash => TypeInv'
<1>. SUFFICES ASSUME TypeInv, Crash PROVE TypeInv'
  OBVIOUS
<1>1. Blank("gone") \in WorkerTask /\ Blank("gone").pc = "gone"
  BY BlankType DEF Place, Blank
<1>2. worker' \in [Workers -> WorkerTask]
  BY <1>1 DEF Crash, TypeInv, TypeOK
<1>3. CarriedIsAStep'
  BY <1>1 DEF Crash, CarriedIsAStep, Carrying, CurrentStep, Alive, TypeInv, TypeOK
<1>. QED BY <1>2, <1>3 DEF Crash, TypeInv, TypeOK

LEMMA NextType == TypeInv /\ [Next]_vars => TypeInv'
<1>. SUFFICES ASSUME TypeInv, [Next]_vars PROVE TypeInv'
  OBVIOUS
<1>1. CASE UNCHANGED vars
  BY <1>1 DEF vars, TypeInv, TypeOK, CarriedIsAStep, Carrying, CurrentStep
<1>. QED BY <1>1, OrchestrationType, ProgressType, InterruptionType, CrashType DEF Next

\* Every variable keeps its type, whatever the operator, the workers, the timeouts and
\* the crashes do: in particular no worker walks past the end of the plan and no step is
\* verified more than _VERIFICATION_MAX_RETRIES times.
THEOREM TypeCorrect == Spec => [](TypeOK /\ CarriedIsAStep)
<1>1. TypeInv => TypeOK /\ CarriedIsAStep
  BY DEF TypeInv
<1>. QED BY InitType, NextType, <1>1, PTL DEF Spec

-----------------------------------------------------------------------------
(* The effect of a step of the engine on the steps in hand *)

\* Who has a step in hand afterwards had that step in hand before.
NobodyGains ==
    \A v \in Workers : Carrying(v)' => Carrying(v) /\ worker'[v].at = worker[v].at

OthersKeep(w) == \A v \in Workers \ {w} : worker'[v] = worker[v]

\* w, not killed, claims the unclaimed step it is at, and has it in hand unless the gate
\* refuses it.
TakesUp(w) ==
    /\ worker[w].at \in Steps /\ ~Carrying(w) /\ ~worker[w].killed
    /\ Unclaimed(worker[w].at)
    /\ claims' = [claims EXCEPT ![worker[w].at] = w]
    /\ Carrying(w)' => worker'[w].at = worker[w].at
    /\ OthersKeep(w)
    /\ completed' = completed

Completes(w) ==
    /\ Carrying(w) /\ ~Carrying(w)'
    /\ completed' = completed \cup {worker[w].at}
    /\ OthersKeep(w)
    /\ claims' = claims

GivesBack(w) ==
    /\ Carrying(w) /\ ~Carrying(w)'
    /\ claims' = [claims EXCEPT ![worker[w].at] = NoWorker]
    /\ OthersKeep(w)
    /\ completed' = completed

StepEffect ==
    \/ NobodyGains /\ UNCHANGED <<claims, completed>>
    \/ \E w \in Workers : TakesUp(w) \/ Completes(w) \/ GivesBack(w)

\* A worker that changes its own task only, and no longer has a step in hand or has the
\* same one as before, gains nothing.
LEMMA BecomesGains ==
    ASSUME TypeOK, NEW w \in Workers, NEW task, Becomes(w, task),
           task.pc \in {"approval", "llm", "verify"} => Carrying(w) /\ task.at = worker[w].at
    PROVE  NobodyGains /\ OthersKeep(w)
BY DEF TypeOK, Becomes, NobodyGains, OthersKeep, Carrying

\* After Advance and Finish the worker has no step in hand.
LEMMA LeavingHand ==
    ASSUME TypeOK, NEW w \in Workers, NEW task \in WorkerTask, NEW st,
           Advance(w, task) \/ Finish(w, task, st)
    PROVE  ~Carrying(w)' /\ NobodyGains /\ OthersKeep(w)
<1>1. CASE Advance(w, task)
  <2>. DEFINE next == [task EXCEPT !.pc = "walk", !.at = worker[w].at + 1]
  <2>1. Becomes(w, next)
    BY <1>1 DEF Advance
  <2>2. next.pc = "walk"
    BY DEF WorkerTask
  <2>. HIDE DEF next
  <2>. QED BY <2>1, <2>2, BecomesGains DEF Becomes, Carrying, TypeOK
<1>2. CASE Finish(w, task, st)
  <2>. DEFINE next == [task EXCEPT !.pc = "publish", !.status = st]
  <2>1. Becomes(w, next)
    BY <1>2 DEF Finish
  <2>2. next.pc = "publish"
    BY DEF WorkerTask
  <2>. HIDE DEF next
  <2>. QED BY <2>1, <2>2, BecomesGains DEF Becomes, Carrying, TypeOK
<1>. QED BY <1>1, <1>2

LEMMA StepEndLeavesHand ==
    ASSUME TypeOK, NEW w \in Workers, FailStep(w) \/ SkipStep(w) \/ CompleteStep(w)
    PROVE  ~Carrying(w)' /\ NobodyGains /\ OthersKeep(w)
<1>1. /\ StepTo(w, "failed") \in WorkerTask
      /\ StepTo(w, "skipped") \in WorkerTask
      /\ StepTo(w, "done") \in WorkerTask
  BY StepToType DEF StepStatus
<1>. QED BY <1>1, LeavingHand DEF FailStep, SkipStep, CompleteStep

\* After BeginLlm and AwaitApproval the worker has the step it is at in hand.
LEMMA KeepsHand ==
    ASSUME TypeOK, NEW w \in Workers, BeginLlm(w) \/ AwaitApproval(w)
    PROVE  /\ worker'[w].at = worker[w].at /\ OthersKeep(w)
           /\ BeginLlm(w) => worker'[w].pc = "llm"
           /\ AwaitApproval(w) => worker'[w].pc = "approval" /\ worker'[w].answer = "none"
<1>1. \A st \in StepStatus : StepTo(w, st) \in WorkerTask /\ StepTo(w, st).at = worker[w].at
  BY StepToType
<1>2. CASE BeginLlm(w)
  <2>. DEFINE run == StepTo(w, "running")
              task == [run EXCEPT !.pc = "llm", !.tries = 0]
  <2>1. run \in WorkerTask /\ run.at = worker[w].at
    BY <1>1 DEF StepStatus
  <2>2. Becomes(w, task)
    BY <1>2 DEF BeginLlm
  <2>. HIDE DEF run
  <2>3. task.at = worker[w].at /\ task.pc = "llm"
    BY <2>1 DEF WorkerTask
  <2>. HIDE DEF task
  <2>4. ~AwaitApproval(w)
    <3>1. worker'[w].pc = "llm"
      BY <2>2, <2>3 DEF Becomes, TypeOK
    <3>2. ASSUME AwaitApproval(w) PROVE worker'[w].pc = "approval"
      BY <1>1, <3>2 DEF AwaitApproval, Becomes, TypeOK, WorkerTask, StepStatus
    <3>. QED BY <3>1, <3>2
  <2>. QED BY <2>2, <2>3, <2>4 DEF Becomes, OthersKeep, TypeOK
<1>3. CASE AwaitApproval(w)
  <2>. DEFINE waiting == StepTo(w, "waiting_approval")
              task == [waiting EXCEPT !.pc = "approval", !.answer = "none"]
  <2>1. waiting \in WorkerTask /\ waiting.at = worker[w].at
    BY <1>1 DEF StepStatus
  <2>2. Becomes(w, task)
    BY <1>3 DEF AwaitApproval
  <2>. HIDE DEF waiting
  <2>3. task.at = worker[w].at /\ task.pc = "approval" /\ task.answer = "none"
    BY <2>1 DEF WorkerTask
  <2>. HIDE DEF task
  <2>4. ~BeginLlm(w)
    <3>1. worker'[w].pc = "approval"
      BY <2>2, <2>3 DEF Becomes, TypeOK
    <3>2. ASSUME BeginLlm(w) PROVE worker'[w].pc = "llm"
      BY <1>2, <3>2
    <3>. QED BY <3>1, <3>2
  <2>. QED BY <2>2, <2>3, <2>4 DEF Becomes, OthersKeep, TypeOK
<1>. QED BY <1>2, <1>3

\* The orchestrator's operations put no step into anybody's hands.
LEMMA OrchestrationEffect ==
    ASSUME TypeInv, Orchestration
    PROVE  NobodyGains /\ UNCHANGED <<claims, completed>>
<1>1. ASSUME NEW w \in Workers, LaunchMission(w) \/ RetryProject(w) \/ ResumeProject(w)
      PROVE  NobodyGains /\ UNCHANGED <<claims, completed>>
  <2>1. PICK image : \/ Becomes(w, Spawned(image))
                     \/ worker' = [IF registry = NoWorker THEN worker ELSE KillFlagged(registry)
                                     EXCEPT ![w] = Spawned(image)]
    BY <1>1 DEF LaunchMission, RetryProject, ResumeProject, Relaunch
  <2>2. Spawned(image).pc = "spawned"
    BY DEF Spawned, Blank
  <2>3. \A v \in Workers \ {w} : worker'[v].pc = worker[v].pc /\ worker'[v].at = worker[v].at
    BY <2>1 DEF Becomes, KillFlagged, TypeInv, TypeOK, WorkerTask
  <2>4. worker'[w] = Spawned(image)
    BY <2>1 DEF Becomes, KillFlagged, TypeInv, TypeOK
  <2>5. NobodyGains
    BY <2>2, <2>3, <2>4 DEF NobodyGains, Carrying
  <2>. QED BY <1>1, <2>5 DEF LaunchMission, RetryProject, ResumeProject, Relaunch
<1>2. CASE RefusePlan
  BY <1>2 DEF RefusePlan, NobodyGains, Carrying
<1>3. CASE Kill \/ ResumeRefused
  <2>1. registry \in Workers /\ worker' = KillFlagged(registry)
    BY <1>3 DEF Kill, ResumeRefused, TypeInv, TypeOK
  <2>2. \A v \in Workers : worker'[v].pc = worker[v].pc /\ worker'[v].at = worker[v].at
    BY <2>1 DEF TypeInv, TypeOK, KillFlagged, WorkerTask
  <2>. QED BY <1>3, <2>2 DEF Kill, ResumeRefused, NobodyGains, Carrying
<1>4. ASSUME NEW S \in SUBSET Steps, ResetSteps(S)
      PROVE  NobodyGains /\ UNCHANGED <<claims, completed>>
  BY <1>4 DEF ResetSteps, NobodyGains, Carrying
<1>5. ASSUME NEW s \in Steps, NEW verdict \in {"yes", "no"}, ResolveApproval(s, verdict)
      PROVE  NobodyGains /\ UNCHANGED <<claims, completed>>
  BY <1>5 DEF ResolveApproval, NobodyGains, Carrying, TypeInv, TypeOK, WorkerTask
<1>. QED BY <1>1, <1>2, <1>3, <1>4, <1>5 DEF Orchestration

\* Each move of a worker is one of the four effects.
LEMMA ProgressEffect ==
    ASSUME TypeInv, NEW w \in Workers, Progress(w)
    PROVE  StepEffect
<1>. DEFINE Quiet == NobodyGains /\ UNCHANGED <<claims, completed>>
<1>a. TypeOK /\ worker[w] \in WorkerTask
  BY DEF TypeInv, TypeOK
<1>b. ASSUME NEW place \in Place, Becomes(w, [worker[w] EXCEPT !.pc = place]),
             place \in {"approval", "llm", "verify"} => Carrying(w)
      PROVE  NobodyGains
  <2>. DEFINE task == [worker[w] EXCEPT !.pc = place]
  <2>1. task.pc = place /\ task.at = worker[w].at
    BY <1>a DEF WorkerTask
  <2>2. Becomes(w, task)
    BY <1>b
  <2>. HIDE DEF task
  <2>. QED BY <1>a, <1>b, <2>1, <2>2, BecomesGains
<1>1. StartRun(w) => Quiet
  <2>. SUFFICES ASSUME StartRun(w) PROVE Quiet
    OBVIOUS
  <2>. DEFINE task == [worker[w] EXCEPT !.status = "running", !.pc = "setup"]
  <2>1. task.pc = "setup"
    BY <1>a DEF WorkerTask
  <2>2. Becomes(w, task)
    BY DEF StartRun
  <2>. HIDE DEF task
  <2>. QED BY <1>a, <2>1, <2>2, BecomesGains DEF StartRun
<1>2. SetupDone(w) => Quiet
  BY <1>b DEF SetupDone, Place
<1>3. SkipSettled(w) => Quiet
  BY <1>a, LeavingHand DEF SkipSettled
<1>4. ObserveKill(w) => Quiet
  BY <1>a, LeavingHand DEF ObserveKill
<1>5. LoopEnds(w) => Quiet
  BY <1>a, LeavingHand DEF LoopEnds
<1>6. ClaimRefused(w) => Quiet
  BY <1>a, LeavingHand DEF ClaimRefused
<1>7. ClaimStep(w) => TakesUp(w)
  <2>. SUFFICES ASSUME ClaimStep(w) PROVE TakesUp(w)
    OBVIOUS
  <2>1. /\ worker[w].at \in Steps /\ ~Carrying(w) /\ ~worker[w].killed
        /\ Unclaimed(worker[w].at)
        /\ claims' = [claims EXCEPT ![worker[w].at] = w]
        /\ completed' = completed
    BY DEF ClaimStep, KillSeen, AtStep, Walking, CurrentStep, Carrying
  <2>2. FailStep(w) \/ AwaitApproval(w) \/ BeginLlm(w)
    BY DEF ClaimStep
  <2>3. OthersKeep(w) /\ (Carrying(w)' => worker'[w].at = worker[w].at)
    BY <1>a, <2>2, KeepsHand, StepEndLeavesHand
  <2>. QED BY <2>1, <2>3 DEF TakesUp
<1>8. ApprovalGranted(w) => Quiet
  <2>. SUFFICES ASSUME ApprovalGranted(w) PROVE Quiet
    OBVIOUS
  <2>1. worker'[w].at = worker[w].at /\ OthersKeep(w) /\ Carrying(w)
    BY <1>a, KeepsHand DEF ApprovalGranted, Suspended, Carrying
  <2>. QED BY <2>1 DEF ApprovalGranted, NobodyGains, OthersKeep, Carrying
<1>9. ApprovalDenied(w) => Quiet
  BY <1>a, StepEndLeavesHand DEF ApprovalDenied
<1>10. ApprovalTimeout(w) => Quiet
  BY <1>a, StepEndLeavesHand DEF ApprovalTimeout
<1>11. BudgetStop(w) => GivesBack(w)
  <2>. SUFFICES ASSUME BudgetStop(w) PROVE GivesBack(w)
    OBVIOUS
  <2>. DEFINE stopped == StepTo(w, "pending")
              task == [stopped EXCEPT !.status = "paused"]
  <2>1. stopped \in WorkerTask
    BY <1>a, StepToType DEF StepStatus
  <2>2. Advance(w, task)
    BY DEF BudgetStop
  <2>. HIDE DEF stopped
  <2>3. task \in WorkerTask
    BY <2>1 DEF WorkerTask, ProjectStatus
  <2>. HIDE DEF task
  <2>4. ~Carrying(w)' /\ OthersKeep(w)
    BY <1>a, <2>2, <2>3, LeavingHand
  <2>. QED BY <2>4
       DEF BudgetStop, Suspended, Carrying, ReleaseStepClaim, CurrentStep, GivesBack
<1>12. LlmFails(w) => Quiet
  BY <1>a, StepEndLeavesHand DEF LlmFails
<1>13. LlmReturns(w) => Quiet
  BY <1>b DEF LlmReturns, Suspended, Carrying, Place
<1>14. LlmReturnsFusion(w) => Completes(w)
  <2>. SUFFICES ASSUME LlmReturnsFusion(w) PROVE Completes(w)
    OBVIOUS
  <2>1. ~Carrying(w)' /\ OthersKeep(w)
    BY <1>a, StepEndLeavesHand DEF LlmReturnsFusion
  <2>. QED BY <2>1 DEF LlmReturnsFusion, CompleteStep, Suspended, Carrying, CurrentStep, Completes
<1>15. Verified(w) => Completes(w)
  <2>. SUFFICES ASSUME Verified(w) PROVE Completes(w)
    OBVIOUS
  <2>1. ~Carrying(w)' /\ OthersKeep(w)
    BY <1>a, StepEndLeavesHand DEF Verified
  <2>. QED BY <2>1 DEF Verified, CompleteStep, Suspended, Carrying, CurrentStep, Completes
<1>16. NotVerifiedRetry(w) => Quiet
  <2>. SUFFICES ASSUME NotVerifiedRetry(w) PROVE Quiet
    OBVIOUS
  <2>. DEFINE task == [worker[w] EXCEPT !.pc = "llm", !.tries = worker[w].tries + 1]
  <2>1. task.at = worker[w].at
    BY <1>a DEF WorkerTask
  <2>2. Becomes(w, task) /\ Carrying(w)
    BY DEF NotVerifiedRetry, Suspended, Carrying
  <2>. HIDE DEF task
  <2>. QED BY <1>a, <2>1, <2>2, BecomesGains DEF NotVerifiedRetry
<1>17. NotVerifiedFails(w) => Quiet
  BY <1>a, StepEndLeavesHand DEF NotVerifiedFails
<1>18. VerifierRaises(w) => Quiet
  BY <1>a, LeavingHand DEF VerifierRaises
<1>19. HandleMissionCompleted(w) => Quiet
  BY <1>b DEF HandleMissionCompleted, Place
<1>20. FinalSave(w) => Quiet
  <2>. SUFFICES ASSUME FinalSave(w) PROVE Quiet
    OBVIOUS
  <2>1. Blank("gone").pc = "gone"
    BY DEF Blank
  <2>. QED BY <1>a, <2>1, BecomesGains DEF FinalSave
<1>. QED BY <1>1, <1>2, <1>3, <1>4, <1>5, <1>6, <1>7, <1>8, <1>9, <1>10,
       <1>11, <1>12, <1>13, <1>14, <1>15, <1>16, <1>17, <1>18, <1>19, <1>20 DEF Progress, StepEffect

\* So is each step of the engine.
LEMMA StepShape ==
    ASSUME TypeInv, [Next]_vars
    PROVE  StepEffect
<1>1. ASSUME NEW w \in Workers, Interruption(w) PROVE StepEffect
  <2>1. Blank("gone").pc = "gone"
    BY DEF Blank
  <2>. DEFINE task == [worker[w] EXCEPT !.pc = "closing"]
  <2>2. task.pc = "closing"
    BY DEF TypeInv, TypeOK, WorkerTask
  <2>3. Becomes(w, Blank("gone")) \/ Becomes(w, task)
    BY <1>1 DEF Interruption, SetupFails, MissionTimeout
  <2>. HIDE DEF task
  <2>4. NobodyGains
    BY <2>1, <2>2, <2>3, BecomesGains DEF TypeInv
  <2>. QED BY <1>1, <2>4 DEF Interruption, SetupFails, MissionTimeout, StepEffect
<1>2. CASE Crash
  <2>1. Blank("gone").pc = "gone"
    BY DEF Blank
  <2>. QED BY <1>2, <2>1 DEF Crash, NobodyGains, Carrying, Alive, StepEffect
<1>3. CASE UNCHANGED vars
  BY <1>3 DEF vars, NobodyGains, Carrying, StepEffect
<1>. QED BY <1>1, <1>2, <1>3, OrchestrationEffect, ProgressEffect DEF Next, StepEffect

-----------------------------------------------------------------------------
(* The lease: a carried step is claimed, a completed step stays claimed *)

CompletedStaysClaimed == \A s \in completed : claims[s] # NoWorker

LeaseInv ==
    /\ CarriedStepIsClaimed
    /\ CompletedNeverRerun
    /\ CompletedStaysClaimed

LEMMA InitLease == Init => LeaseInv
BY DEF Init, LeaseInv, CarriedStepIsClaimed, CompletedNeverRerun, CompletedStaysClaimed,
       Carrying, Blank

LEMMA NextLease == TypeInv /\ LeaseInv /\ [Next]_vars => LeaseInv'
<1>. SUFFICES ASSUME TypeInv, LeaseInv, [Next]_vars PROVE LeaseInv'
  OBVIOUS
<1>a. /\ completed \subseteq Steps
      /\ claims \in [Steps -> Workers \cup {NoWorker}]
      /\ NoWorker \notin Workers
      /\ \A v \in Workers : Carrying(v) =>
            /\ worker[v].at \in Steps
            /\ claims[worker[v].at] = v
            /\ worker[v].at \notin completed
      /\ \A s \in completed : claims[s] # NoWorker
  BY ConstantsAssumption
     DEF TypeInv, TypeOK, LeaseInv, CarriedStepIsClaimed, CompletedNeverRerun,
         CompletedStaysClaimed, CurrentStep
<1>b. SUFFICES
        /\ \A v \in Workers : Carrying(v)' =>
              /\ worker'[v].at \in Steps
              /\ claims'[worker'[v].at] = v
              /\ worker'[v].at \notin completed'
        /\ \A s \in completed' : claims'[s] # NoWorker
  BY DEF LeaseInv, CarriedStepIsClaimed, CompletedNeverRerun, CompletedStaysClaimed,
         CurrentStep
<1>c. ASSUME NEW w \in Workers, OthersKeep(w), NEW v \in Workers \ {w}
      PROVE  worker'[v] = worker[v] /\ (Carrying(v)' <=> Carrying(v))
  BY <1>c DEF OthersKeep, Carrying
<1>1. CASE NobodyGains /\ UNCHANGED <<claims, completed>>
  BY <1>1, <1>a DEF NobodyGains
<1>2. ASSUME NEW w \in Workers, TakesUp(w)
      PROVE  /\ \A v \in Workers : Carrying(v)' =>
                   /\ worker'[v].at \in Steps
                   /\ claims'[worker'[v].at] = v
                   /\ worker'[v].at \notin completed'
             /\ \A s \in completed' : claims'[s] # NoWorker
  <2>1. worker[w].at \notin completed
    BY <1>2, <1>a DEF TakesUp, Unclaimed
  <2>2. ASSUME NEW v \in Workers, Carrying(v)'
        PROVE  /\ worker'[v].at \in Steps
               /\ claims'[worker'[v].at] = v
               /\ worker'[v].at \notin completed'
    <3>1. CASE v = w
      BY <1>2, <2>1, <2>2, <3>1, <1>a DEF TakesUp
    <3>2. CASE v # w
      BY <1>2, <2>2, <3>2, <1>a, <1>c DEF TakesUp, Unclaimed
    <3>. QED BY <3>1, <3>2
  <2>. QED BY <1>2, <2>2, <1>a DEF TakesUp
<1>3. ASSUME NEW w \in Workers, Completes(w)
      PROVE  /\ \A v \in Workers : Carrying(v)' =>
                   /\ worker'[v].at \in Steps
                   /\ claims'[worker'[v].at] = v
                   /\ worker'[v].at \notin completed'
             /\ \A s \in completed' : claims'[s] # NoWorker
  BY <1>3, <1>a, <1>c DEF Completes
<1>4. ASSUME NEW w \in Workers, GivesBack(w)
      PROVE  /\ \A v \in Workers : Carrying(v)' =>
                   /\ worker'[v].at \in Steps
                   /\ claims'[worker'[v].at] = v
                   /\ worker'[v].at \notin completed'
             /\ \A s \in completed' : claims'[s] # NoWorker
  BY <1>4, <1>a, <1>c DEF GivesBack
<1>. QED BY <1>1, <1>2, <1>3, <1>4, StepShape DEF StepEffect

LEMMA LeaseCorrect == Spec => [](TypeInv /\ LeaseInv)
BY InitType, InitLease, NextType, NextLease, PTL DEF Spec

\* Whatever workers retry, resume, kill, timeout and crash leave running on a mission, a
\* step is in the hands of at most one of them, the one whose claim is in
\* step_claims.json (ProjectStore.claim_step).
THEOREM StepsAreLeased == Spec => []CarriedStepIsClaimed
<1>1. TypeInv /\ LeaseInv => CarriedStepIsClaimed
  BY DEF LeaseInv
<1>. QED BY LeaseCorrect, <1>1, PTL

\* A step that was completed is never carried out again, although retry and reset-steps
\* may show it PENDING: its claim is never given back.
THEOREM NoStepRunsTwice == Spec => []CompletedNeverRerun
<1>1. TypeInv /\ LeaseInv => CompletedNeverRerun
  BY DEF LeaseInv
<1>. QED BY LeaseCorrect, <1>1, PTL

\* A killed worker may finish the step in hand, it takes up no other
\* (WorkerAgent.kill, read at line 329 between two steps).
THEOREM KillIsHeeded == Spec => KilledTakesNoStep
<1>1. TypeInv /\ [Next]_vars =>
        [\A w \in Workers : worker[w].killed /\ ~Carrying(w) => ~Carrying(w)']_vars
  <2>. SUFFICES ASSUME TypeInv, [Next]_vars, NEW w \in Workers,
                       worker[w].killed, ~Carrying(w)
                PROVE  ~Carrying(w)'
    OBVIOUS
  <2>1. CASE NobodyGains
    BY <2>1 DEF NobodyGains
  <2>2. ASSUME NEW v \in Workers, TakesUp(v) \/ Completes(v) \/ GivesBack(v)
        PROVE  ~Carrying(w)'
    BY <2>2 DEF TakesUp, Completes, GivesBack, OthersKeep, Carrying
  <2>. QED BY <2>1, <2>2, StepShape DEF StepEffect
<1>. QED BY InitType, NextType, <1>1, PTL DEF Spec, KilledTakesNoStep

-----------------------------------------------------------------------------
(* MissionEngine implements StepExecution *)

LEMMA InitRefines == Init => Exec!Init
BY DEF Init, Exec!Init, InHand, Carrying, Blank

LEMMA StepRefines ==
    TypeInv /\ LeaseInv /\ [Next]_vars => [Exec!Next]_(Exec!vars)
<1>. SUFFICES ASSUME TypeInv, LeaseInv, [Next]_vars PROVE [Exec!Next]_(Exec!vars)
  OBVIOUS
<1>a. /\ claims \in [Steps -> Workers \cup {NoWorker}]
      /\ NoWorker \notin Workers
      /\ \A v \in Workers : Carrying(v) =>
            worker[v].at \in Steps /\ claims[worker[v].at] = v
      /\ \A s \in completed : claims[s] # NoWorker
  BY ConstantsAssumption
     DEF TypeInv, TypeOK, LeaseInv, CarriedStepIsClaimed, CompletedStaysClaimed, CurrentStep
<1>b. \A v \in Workers, s \in Steps :
        /\ <<v, s>> \in InHand <=> Carrying(v) /\ worker[v].at = s
        /\ <<v, s>> \in InHand' <=> Carrying(v)' /\ worker'[v].at = s
  BY DEF InHand, CurrentStep
<1>c. InHand \subseteq Workers \X Steps /\ InHand' \subseteq Workers \X Steps
  BY DEF InHand
<1>1. CASE NobodyGains /\ UNCHANGED <<claims, completed>>
  <2>1. InHand' \in SUBSET InHand
    BY <1>1, <1>b, <1>c DEF NobodyGains
  <2>. QED BY <1>1, <2>1 DEF Exec!Next, Exec!Drop
<1>2. ASSUME NEW w \in Workers, TakesUp(w) PROVE Exec!Next
  <2>. DEFINE s == worker[w].at
  <2>1. /\ s \in Steps /\ ~Carrying(w) /\ claims[s] = NoWorker /\ completed' = completed
        /\ Carrying(w)' => worker'[w].at = s
    BY <1>2 DEF TakesUp, Unclaimed
  <2>2. \A v \in Workers \ {w} :
           worker'[v].at = worker[v].at /\ (Carrying(v)' <=> Carrying(v))
    BY <1>2 DEF TakesUp, OthersKeep, Carrying
  <2>. HIDE DEF s
  <2>3. CASE Carrying(w)'
    <3>1. InHand' = InHand \cup {<<w, s>>}
      BY <2>1, <2>2, <2>3, <1>b, <1>c
    <3>2. s \notin completed
      BY <2>1, <1>a
    <3>3. \A p \in InHand : p[1] # w /\ p[2] # s
      BY <2>1, <1>a, <1>b, <1>c
    <3>. QED BY <2>1, <3>1, <3>2, <3>3 DEF Exec!Next, Exec!Begin
  <2>4. CASE ~Carrying(w)'
    <3>1. InHand' \in SUBSET InHand
      BY <2>2, <2>4, <1>b, <1>c
    <3>. QED BY <2>1, <3>1 DEF Exec!Next, Exec!Drop
  <2>. QED BY <2>3, <2>4
<1>3. ASSUME NEW w \in Workers, Completes(w) PROVE Exec!Next
  <2>. DEFINE s == worker[w].at
  <2>1. s \in Steps /\ Carrying(w) /\ ~Carrying(w)' /\ completed' = completed \cup {s}
    BY <1>3, <1>a DEF Completes
  <2>2. \A v \in Workers \ {w} :
           worker'[v].at = worker[v].at /\ (Carrying(v)' <=> Carrying(v))
    BY <1>3 DEF Completes, OthersKeep, Carrying
  <2>3. \A u \in Steps : <<w, u>> \in InHand <=> u = s
    BY <2>1, <1>b
  <2>. HIDE DEF s
  <2>4. InHand' = InHand \ {<<w, s>>}
    BY <2>1, <2>2, <2>3, <1>b, <1>c
  <2>5. <<w, s>> \in InHand
    BY <2>1, <2>3
  <2>. QED BY <2>1, <2>4, <2>5 DEF Exec!Next, Exec!Complete
<1>4. ASSUME NEW w \in Workers, GivesBack(w) PROVE Exec!Next
  <2>1. ~Carrying(w)' /\ completed' = completed
    BY <1>4 DEF GivesBack
  <2>2. \A v \in Workers \ {w} :
           worker'[v].at = worker[v].at /\ (Carrying(v)' <=> Carrying(v))
    BY <1>4 DEF GivesBack, OthersKeep, Carrying
  <2>3. InHand' \in SUBSET InHand
    BY <2>1, <2>2, <1>b, <1>c
  <2>. QED BY <2>1, <2>3 DEF Exec!Next, Exec!Drop
<1>. QED BY <1>1, <1>2, <1>3, <1>4, StepShape DEF StepEffect

\* The claims of ProjectStore make the engine an implementation of StepExecution: no two
\* workers on one step, one step per worker, no completed step taken up again.
THEOREM EngineImplementsStepExecution == Spec => ImplementsStepExecution
<1>1. Init => Exec!Init
  BY InitRefines
<1>2. TypeInv /\ LeaseInv /\ [Next]_vars => [Exec!Next]_(Exec!vars)
  BY StepRefines
<1>. QED BY LeaseCorrect, <1>1, <1>2, PTL DEF Spec, ImplementsStepExecution, Exec!Spec

-----------------------------------------------------------------------------
(* Consent: a guarded step runs only after a human's yes *)

\* A worker whose answer is yes owes it to a human, who said it for this step.
YesIsConsent ==
    \A w \in Workers : worker[w].pc = "approval" /\ worker[w].answer = "yes"
        => <<w, CurrentStep(w)>> \in consent

ConsentInv == ConsentBeforeExecution /\ YesIsConsent

\* How v comes to execute a step: it was executing it, or was told yes about it, or the
\* step needs no human.
ExecutesLegally(v) ==
    worker'[v].pc \in {"llm", "verify"} =>
        /\ worker'[v].at = worker[v].at
        /\ \/ worker[v].pc \in {"llm", "verify"}
           \/ worker[v].pc = "approval" /\ worker[v].answer = "yes"
           \/ worker[v].at \notin Guarded

\* How v comes to hold a yes: it held it, or a human just said it.
AnsweredLegally(v) ==
    worker'[v].pc = "approval" /\ worker'[v].answer = "yes" =>
        /\ worker'[v].at = worker[v].at
        /\ \/ worker[v].pc = "approval" /\ worker[v].answer = "yes"
           \/ <<v, worker[v].at>> \in consent'

Legal == \A v \in Workers : ExecutesLegally(v) /\ AnsweredLegally(v)

LEMMA LeavingIsLegal ==
    ASSUME NEW w \in Workers, OthersKeep(w), ~Carrying(w)'
    PROVE  Legal
BY DEF OthersKeep, Carrying, Legal, ExecutesLegally, AnsweredLegally

\* The gate lets a worker call the LLM at once only for a step that is not guarded.
LEMMA UngatedIsUnguarded ==
    ASSUME TypeInv, NEW s \in Steps, NEW mode \in ApprovalMode, NEW exhausted \in BOOLEAN,
           LET decision == Gate(Level[s], FALSE, mode, BudgetEnabled, exhausted)
           IN decision # "refused" /\ ~NeedsApproval(s, decision)
    PROVE  s \notin Guarded
<1>. DEFINE decision == Gate(Level[s], FALSE, mode, BudgetEnabled, exhausted)
<1>1. Level[s] \in AccessLevel /\ BudgetEnabled \in BOOLEAN /\ FALSE \in BOOLEAN
  BY ConstantsAssumption
<1>2. decision \in GateDecision
  BY <1>1, GateIsMostRestrictive
<1>3. decision = "auto" /\ s \notin Flagged
  BY <1>2 DEF GateDecision, NeedsApproval
<1>4. Level[s] <= AUTO_MAX_LEVEL
  BY <1>1, <1>3, AutoOnlyWhenAllAgree
<1>. QED BY <1>1, <1>3, <1>4 DEF Guarded, AccessLevel, AUTO_MAX_LEVEL, EXECUTE_CODE

LEMMA OrchestrationLegal ==
    ASSUME TypeInv, Orchestration
    PROVE  consent \subseteq consent' /\ Legal
<1>1. ASSUME NEW w \in Workers, LaunchMission(w) \/ RetryProject(w) \/ ResumeProject(w)
      PROVE  consent' = consent /\ Legal
  <2>1. PICK image : \/ Becomes(w, Spawned(image))
                     \/ worker' = [IF registry = NoWorker THEN worker ELSE KillFlagged(registry)
                                     EXCEPT ![w] = Spawned(image)]
    BY <1>1 DEF LaunchMission, RetryProject, ResumeProject, Relaunch
  <2>2. Spawned(image).pc = "spawned"
    BY DEF Spawned, Blank
  <2>3. \A v \in Workers \ {w} : /\ worker'[v].pc = worker[v].pc
                                /\ worker'[v].at = worker[v].at
                                /\ worker'[v].answer = worker[v].answer
    BY <2>1 DEF Becomes, KillFlagged, TypeInv, TypeOK, WorkerTask
  <2>4. worker'[w] = Spawned(image)
    BY <2>1 DEF Becomes, KillFlagged, TypeInv, TypeOK
  <2>5. Legal
    BY <2>2, <2>3, <2>4 DEF Legal, ExecutesLegally, AnsweredLegally
  <2>. QED BY <1>1, <2>5 DEF LaunchMission, RetryProject, ResumeProject, Relaunch
<1>2. CASE RefusePlan
  BY <1>2 DEF RefusePlan, Legal, ExecutesLegally, AnsweredLegally
<1>3. CASE Kill \/ ResumeRefused
  <2>1. registry \in Workers /\ worker' = KillFlagged(registry)
    BY <1>3 DEF Kill, ResumeRefused, TypeInv, TypeOK
  <2>2. \A v \in Workers : /\ worker'[v].pc = worker[v].pc
                          /\ worker'[v].at = worker[v].at
                          /\ worker'[v].answer = worker[v].answer
    BY <2>1 DEF TypeInv, TypeOK, KillFlagged, WorkerTask
  <2>. QED BY <1>3, <2>2 DEF Kill, ResumeRefused, Legal, ExecutesLegally, AnsweredLegally
<1>4. ASSUME NEW S \in SUBSET Steps, ResetSteps(S)
      PROVE  consent' = consent /\ Legal
  BY <1>4 DEF ResetSteps, Legal, ExecutesLegally, AnsweredLegally
<1>5. ASSUME NEW s \in Steps, NEW verdict \in {"yes", "no"}, ResolveApproval(s, verdict)
      PROVE  consent \subseteq consent' /\ Legal
  <2>. DEFINE waiting == worker[pending[s]].pc = "approval" /\ worker[pending[s]].at = s
  <2>1. CASE ~waiting
    BY <1>5, <2>1 DEF ResolveApproval, CurrentStep, Legal, ExecutesLegally, AnsweredLegally
  <2>2. CASE waiting
    <3>1. pending[s] \in Workers
      BY <1>5 DEF ResolveApproval, TypeInv, TypeOK
    <3>2. worker' = [worker EXCEPT ![pending[s]].answer = verdict]
      BY <1>5, <2>2 DEF ResolveApproval, CurrentStep
    <3>3. consent' = IF verdict = "yes" THEN consent \cup {<<pending[s], s>>} ELSE consent
      BY <1>5, <2>2 DEF ResolveApproval, CurrentStep
    <3>4. \A v \in Workers : worker'[v].pc = worker[v].pc /\ worker'[v].at = worker[v].at
      BY <3>1, <3>2 DEF TypeInv, TypeOK, WorkerTask
    <3>5. /\ \A v \in Workers \ {pending[s]} : worker'[v].answer = worker[v].answer
          /\ worker'[pending[s]].answer = verdict
      BY <3>1, <3>2 DEF TypeInv, TypeOK, WorkerTask
    <3>. QED BY <2>2, <3>1, <3>3, <3>4, <3>5 DEF Legal, ExecutesLegally, AnsweredLegally
  <2>. QED BY <2>1, <2>2
<1>. QED BY <1>1, <1>2, <1>3, <1>4, <1>5 DEF Orchestration

LEMMA ProgressLegal ==
    ASSUME TypeInv, NEW w \in Workers, Progress(w)
    PROVE  consent' = consent /\ Legal
<1>a. TypeOK /\ worker[w] \in WorkerTask
  BY DEF TypeInv, TypeOK
<1>b. consent' = consent
  BY DEF Progress, StartRun, SetupDone, SkipSettled, ObserveKill, LoopEnds, ClaimRefused,
         ClaimStep, ApprovalGranted, ApprovalDenied, ApprovalTimeout, BudgetStop, LlmFails,
         LlmReturns, LlmReturnsFusion, Verified, NotVerifiedRetry, NotVerifiedFails,
         VerifierRaises, HandleMissionCompleted, FinalSave
<1>. SUFFICES Legal
  BY <1>b
\* The moves after which the worker has nothing in hand.
<1>1. ASSUME \/ SkipSettled(w) \/ ObserveKill(w) \/ LoopEnds(w) \/ ClaimRefused(w)
             \/ VerifierRaises(w)
      PROVE  Legal
  <2>1. ~Carrying(w)' /\ OthersKeep(w)
    BY <1>1, <1>a, LeavingHand
       DEF SkipSettled, ObserveKill, LoopEnds, ClaimRefused, VerifierRaises
  <2>. QED BY <2>1, LeavingIsLegal
<1>2. ASSUME \/ ApprovalDenied(w) \/ ApprovalTimeout(w) \/ LlmFails(w)
             \/ LlmReturnsFusion(w) \/ Verified(w) \/ NotVerifiedFails(w)
      PROVE  Legal
  <2>1. ~Carrying(w)' /\ OthersKeep(w)
    BY <1>2, <1>a, StepEndLeavesHand
       DEF ApprovalDenied, ApprovalTimeout, LlmFails, LlmReturnsFusion, Verified,
           NotVerifiedFails
  <2>. QED BY <2>1, LeavingIsLegal
<1>3. CASE BudgetStop(w)
  <2>. DEFINE stopped == StepTo(w, "pending")
              task == [stopped EXCEPT !.status = "paused"]
  <2>1. stopped \in WorkerTask
    BY <1>a, StepToType DEF StepStatus
  <2>2. Advance(w, task)
    BY <1>3 DEF BudgetStop
  <2>. HIDE DEF stopped
  <2>3. task \in WorkerTask
    BY <2>1 DEF WorkerTask, ProjectStatus
  <2>. HIDE DEF task
  <2>4. ~Carrying(w)' /\ OthersKeep(w)
    BY <1>a, <2>2, <2>3, LeavingHand
  <2>. QED BY <2>4, LeavingIsLegal
<1>4. CASE StartRun(w)
  <2>. DEFINE task == [worker[w] EXCEPT !.status = "running", !.pc = "setup"]
  <2>1. task.pc = "setup"
    BY <1>a DEF WorkerTask
  <2>2. Becomes(w, task)
    BY <1>4 DEF StartRun
  <2>. HIDE DEF task
  <2>. QED BY <1>a, <2>1, <2>2, LeavingIsLegal DEF Becomes, OthersKeep, Carrying, TypeOK
<1>5. ASSUME SetupDone(w) \/ HandleMissionCompleted(w) \/ FinalSave(w)
      PROVE  Legal
  <2>1. PICK task \in WorkerTask : Becomes(w, task) /\ task.pc \in {"walk", "closing", "gone"}
    <3>1. CASE SetupDone(w)
      BY <1>a, <3>1 DEF SetupDone, WorkerTask, Place
    <3>2. CASE HandleMissionCompleted(w)
      BY <1>a, <3>2 DEF HandleMissionCompleted, WorkerTask, Place
    <3>3. CASE FinalSave(w)
      <4>1. Blank("gone") \in WorkerTask /\ Blank("gone").pc = "gone"
        BY BlankType DEF Place, Blank
      <4>. QED BY <3>3, <4>1 DEF FinalSave
    <3>. QED BY <1>5, <3>1, <3>2, <3>3
  <2>. QED BY <1>a, <2>1, LeavingIsLegal DEF Becomes, OthersKeep, Carrying, TypeOK
\* The moves that keep or take the step in hand.
<1>6. CASE ClaimStep(w)
  <2>1. PICK mode \in ApprovalMode, exhausted \in BOOLEAN :
           LET s == worker[w].at
               decision == Gate(Level[s], FALSE, mode, BudgetEnabled, exhausted)
           IN \/ FailStep(w)
              \/ AwaitApproval(w)
              \/ decision # "refused" /\ ~NeedsApproval(s, decision) /\ BeginLlm(w)
    BY <1>6 DEF ClaimStep, CurrentStep
  <2>2. worker[w].at \in Steps
    BY <1>6 DEF ClaimStep, AtStep, CurrentStep
  <2>3. CASE FailStep(w)
    BY <1>a, <2>3, StepEndLeavesHand, LeavingIsLegal
  <2>4. CASE AwaitApproval(w)
    <3>1. OthersKeep(w) /\ worker'[w].pc = "approval" /\ worker'[w].answer = "none"
      BY <1>a, <2>4, KeepsHand
    <3>. QED BY <3>1 DEF OthersKeep, Legal, ExecutesLegally, AnsweredLegally
  <2>5. CASE BeginLlm(w) /\ worker[w].at \notin Guarded
    <3>1. OthersKeep(w) /\ worker'[w].pc = "llm" /\ worker'[w].at = worker[w].at
      BY <1>a, <2>5, KeepsHand
    <3>. QED BY <2>5, <3>1 DEF OthersKeep, Legal, ExecutesLegally, AnsweredLegally
  <2>. QED BY <2>1, <2>2, <2>3, <2>4, <2>5, UngatedIsUnguarded
<1>7. CASE ApprovalGranted(w)
  <2>1. /\ OthersKeep(w) /\ worker'[w].pc = "llm" /\ worker'[w].at = worker[w].at
        /\ worker[w].pc = "approval" /\ worker[w].answer = "yes"
    BY <1>7, <1>a, KeepsHand DEF ApprovalGranted, Suspended
  <2>. QED BY <2>1 DEF OthersKeep, Legal, ExecutesLegally, AnsweredLegally
<1>8. CASE LlmReturns(w) \/ NotVerifiedRetry(w)
  <2>1. PICK task : /\ Becomes(w, task) /\ task.at = worker[w].at
                    /\ task.pc \in {"llm", "verify"}
    <3>1. CASE LlmReturns(w)
      <4>. DEFINE next == [worker[w] EXCEPT !.pc = "verify"]
      <4>1. next.at = worker[w].at /\ next.pc = "verify"
        BY <1>a DEF WorkerTask
      <4>2. Becomes(w, next)
        BY <3>1 DEF LlmReturns
      <4>. HIDE DEF next
      <4>. QED BY <4>1, <4>2
    <3>2. CASE NotVerifiedRetry(w)
      <4>. DEFINE next == [worker[w] EXCEPT !.pc = "llm", !.tries = worker[w].tries + 1]
      <4>1. next.at = worker[w].at /\ next.pc = "llm"
        BY <1>a DEF WorkerTask
      <4>2. Becomes(w, next)
        BY <3>2 DEF NotVerifiedRetry
      <4>. HIDE DEF next
      <4>. QED BY <4>1, <4>2
    <3>. QED BY <1>8, <3>1, <3>2
  <2>2. worker[w].pc \in {"llm", "verify"}
    BY <1>8 DEF LlmReturns, NotVerifiedRetry, Suspended
  <2>. QED BY <1>a, <2>1, <2>2
       DEF Becomes, OthersKeep, Legal, ExecutesLegally, AnsweredLegally, TypeOK
<1>. QED BY <1>1, <1>2, <1>3, <1>4, <1>5, <1>6, <1>7, <1>8 DEF Progress

LEMMA NextLegal ==
    ASSUME TypeInv, [Next]_vars
    PROVE  consent \subseteq consent' /\ Legal
<1>1. ASSUME NEW w \in Workers, Interruption(w) PROVE consent' = consent /\ Legal
  <2>1. PICK task : Becomes(w, task) /\ task.pc \in {"closing", "gone"}
    <3>1. Blank("gone").pc = "gone"
      BY DEF Blank
    <3>2. [worker[w] EXCEPT !.pc = "closing"].pc = "closing"
      BY DEF TypeInv, TypeOK, WorkerTask
    <3>. QED BY <1>1, <3>1, <3>2 DEF Interruption, SetupFails, MissionTimeout
  <2>2. ~Carrying(w)' /\ OthersKeep(w)
    BY <2>1 DEF Becomes, OthersKeep, Carrying, TypeInv, TypeOK
  <2>. QED BY <1>1, <2>2, LeavingIsLegal DEF Interruption, SetupFails, MissionTimeout
<1>2. CASE Crash
  <2>1. Blank("gone").pc = "gone"
    BY DEF Blank
  <2>. QED BY <1>2, <2>1 DEF Crash, Legal, ExecutesLegally, AnsweredLegally
<1>3. CASE UNCHANGED vars
  BY <1>3 DEF vars, Legal, ExecutesLegally, AnsweredLegally
<1>. QED BY <1>1, <1>2, <1>3, OrchestrationLegal, ProgressLegal DEF Next

LEMMA NextConsent == TypeInv /\ ConsentInv /\ [Next]_vars => ConsentInv'
<1>. SUFFICES ASSUME TypeInv, ConsentInv, [Next]_vars PROVE ConsentInv'
  OBVIOUS
<1>1. consent \subseteq consent' /\ Legal
  BY NextLegal
<1>2. ConsentBeforeExecution'
  BY <1>1 DEF ConsentInv, ConsentBeforeExecution, YesIsConsent, CurrentStep, Legal,
              ExecutesLegally, Guarded
<1>3. YesIsConsent'
  BY <1>1 DEF ConsentInv, YesIsConsent, CurrentStep, Legal, AnsweredLegally
<1>. QED BY <1>2, <1>3 DEF ConsentInv

\* No step flagged by the plan, and none above AUTO_MAX_LEVEL, is ever worked on without
\* a human having said yes to that worker for that step, whatever timeouts, late answers
\* and relaunches happen (_execute_step, lines 458-482; Governance.gate).
THEOREM ConsentCorrect == Spec => []ConsentBeforeExecution
<1>1. Init => ConsentInv
  BY DEF Init, ConsentInv, ConsentBeforeExecution, YesIsConsent, Blank
<1>2. ConsentInv => ConsentBeforeExecution
  BY DEF ConsentInv
<1>. QED BY InitType, NextType, NextConsent, <1>1, <1>2, PTL DEF Spec

-----------------------------------------------------------------------------
(* The event loop moves one worker at a time *)

\* Becomes, Advance and Finish replace w's task and nobody else's; the steps are those of
\* the task that is given.
LEMMA TaskReplaced ==
    ASSUME TypeOK, NEW w \in Workers, NEW task \in WorkerTask, NEW st \in ProjectStatus,
           Becomes(w, task) \/ Advance(w, task) \/ Finish(w, task, st)
    PROVE  OthersKeep(w) /\ worker'[w].steps = task.steps
<1>1. CASE Becomes(w, task)
  BY <1>1 DEF Becomes, OthersKeep, TypeOK
<1>2. CASE Advance(w, task)
  <2>. DEFINE next == [task EXCEPT !.pc = "walk", !.at = worker[w].at + 1]
  <2>1. next.steps = task.steps /\ Becomes(w, next)
    BY <1>2 DEF WorkerTask, Advance
  <2>. HIDE DEF next
  <2>. QED BY <2>1 DEF Becomes, OthersKeep, TypeOK
<1>3. CASE Finish(w, task, st)
  <2>. DEFINE next == [task EXCEPT !.pc = "publish", !.status = st]
  <2>1. next.steps = task.steps /\ Becomes(w, next)
    BY <1>3 DEF WorkerTask, Finish
  <2>. HIDE DEF next
  <2>. QED BY <2>1 DEF Becomes, OthersKeep, TypeOK
<1>. QED BY <1>1, <1>2, <1>3

\* How w's copy of the steps changes, and what state.json becomes of it: w's copy stays
\* and may be saved, or its step takes the status st and the copy is saved, or the task is
\* gone and its copy may be saved.
Copies(w) ==
    /\ OthersKeep(w)
    /\ \/ worker'[w].steps = worker[w].steps
       \/ worker'[w].steps = [s \in Steps |-> "pending"] /\ ~Alive(w)'
    /\ disk'.steps \in {disk.steps, worker[w].steps}

Saves(w, st) ==
    /\ OthersKeep(w)
    /\ worker'[w].steps = [worker[w].steps EXCEPT ![worker[w].at] = st]
    /\ disk'.steps = worker'[w].steps

LEMMA StepSaved ==
    ASSUME TypeOK, NEW w \in Workers
    PROVE  /\ FailStep(w) => Saves(w, "failed")
           /\ SkipStep(w) => Saves(w, "skipped")
           /\ CompleteStep(w) => Saves(w, "done")
           /\ BeginLlm(w) => Saves(w, "running")
           /\ AwaitApproval(w) => Saves(w, "waiting_approval")
<1>1. ASSUME NEW st \in StepStatus
      PROVE  /\ StepTo(w, st) \in WorkerTask
             /\ StepTo(w, st).steps = [worker[w].steps EXCEPT ![worker[w].at] = st]
  BY <1>1, StepToType DEF StepTo, TypeOK, WorkerTask
<1>2. ASSUME NEW st \in StepStatus, SaveProject(StepTo(w, st)),
             Advance(w, StepTo(w, st)) \/ Finish(w, StepTo(w, st), "failed")
      PROVE  Saves(w, st)
  <2>1. OthersKeep(w) /\ worker'[w].steps = StepTo(w, st).steps
    BY <1>1, <1>2, TaskReplaced DEF ProjectStatus
  <2>. QED BY <1>1, <1>2, <2>1 DEF Saves, SaveProject
<1>3. FailStep(w) => Saves(w, "failed")
  BY <1>2 DEF FailStep, StepStatus
<1>4. SkipStep(w) => Saves(w, "skipped")
  BY <1>2 DEF SkipStep, StepStatus
<1>5. CompleteStep(w) => Saves(w, "done")
  BY <1>2 DEF CompleteStep, StepStatus
<1>6. ASSUME NEW st \in StepStatus, NEW task \in WorkerTask, task.steps = StepTo(w, st).steps,
             Becomes(w, task), SaveProject(task)
      PROVE  Saves(w, st)
  <2>1. OthersKeep(w) /\ worker'[w].steps = task.steps
    BY <1>6, TaskReplaced DEF ProjectStatus
  <2>. QED BY <1>1, <1>6, <2>1 DEF Saves, SaveProject
<1>7. BeginLlm(w) => Saves(w, "running")
  <2>. SUFFICES ASSUME BeginLlm(w) PROVE Saves(w, "running")
    OBVIOUS
  <2>. DEFINE run == StepTo(w, "running")
              task == [run EXCEPT !.pc = "llm", !.tries = 0]
  <2>1. run \in WorkerTask
    BY <1>1 DEF StepStatus
  <2>2. Becomes(w, task) /\ SaveProject(task)
    BY DEF BeginLlm
  <2>. HIDE DEF run
  <2>3. task \in WorkerTask /\ task.steps = run.steps
    <3>1. 0 \in 0..(MAX_TRIES - 1)
      BY DEF MAX_TRIES
    <3>. QED BY <2>1, <3>1 DEF WorkerTask, Place
  <2>. HIDE DEF task
  <2>. QED BY <1>6, <2>2, <2>3 DEF run, StepStatus
<1>8. AwaitApproval(w) => Saves(w, "waiting_approval")
  <2>. SUFFICES ASSUME AwaitApproval(w) PROVE Saves(w, "waiting_approval")
    OBVIOUS
  <2>. DEFINE waiting == StepTo(w, "waiting_approval")
              task == [waiting EXCEPT !.pc = "approval", !.answer = "none"]
  <2>1. waiting \in WorkerTask
    BY <1>1 DEF StepStatus
  <2>2. Becomes(w, task) /\ SaveProject(task)
    BY DEF AwaitApproval
  <2>. HIDE DEF waiting
  <2>3. task \in WorkerTask /\ task.steps = waiting.steps
    BY <2>1 DEF WorkerTask, Place
  <2>. HIDE DEF task
  <2>. QED BY <1>6, <2>2, <2>3 DEF waiting, StepStatus
<1>. QED BY <1>3, <1>4, <1>5, <1>7, <1>8

\* w has its step in hand, or is about to take it up.
AtWork(w) == Carrying(w) \/ worker[w].steps[worker[w].at] \notin Settled

\* Each move of a worker copies or saves; only the completion of a step saves a DONE.
LEMMA ProgressSaves ==
    ASSUME TypeInv, NEW w \in Workers, Progress(w)
    PROVE  \/ Copies(w) /\ completed' = completed
           \/ /\ AtWork(w)
              /\ \E st \in StepStatus \ {"done"} : Saves(w, st) /\ completed' = completed
           \/ AtWork(w) /\ Saves(w, "done") /\ completed' = completed \cup {worker[w].at}
<1>a. TypeOK /\ worker[w] \in WorkerTask
  BY DEF TypeInv, TypeOK
<1>b. ASSUME NEW task \in WorkerTask, task.steps = worker[w].steps, NEW st \in ProjectStatus,
             Becomes(w, task) \/ Advance(w, task) \/ Finish(w, task, st),
             disk' = disk \/ SaveProject(task)
      PROVE  Copies(w)
  <2>1. OthersKeep(w) /\ worker'[w].steps = worker[w].steps
    BY <1>a, <1>b, TaskReplaced
  <2>. QED BY <1>b, <2>1 DEF Copies, SaveProject
<1>1. ASSUME \/ SkipSettled(w) \/ ObserveKill(w) \/ LoopEnds(w) \/ ClaimRefused(w)
             \/ VerifierRaises(w)
      PROVE  Copies(w) /\ completed' = completed
  <2>1. /\ disk' = disk /\ completed' = completed
        /\ \E st \in ProjectStatus : Advance(w, worker[w]) \/ Finish(w, worker[w], st)
    BY <1>1 DEF SkipSettled, ObserveKill, LoopEnds, ClaimRefused, VerifierRaises, ProjectStatus
  <2>. QED BY <1>a, <1>b, <2>1
<1>2. CASE StartRun(w)
  <2>. DEFINE task == [worker[w] EXCEPT !.status = "running", !.pc = "setup"]
  <2>1. task \in WorkerTask /\ task.steps = worker[w].steps
    BY <1>a DEF WorkerTask, Place, ProjectStatus
  <2>2. Becomes(w, task) /\ SaveProject(task) /\ completed' = completed
    BY <1>2 DEF StartRun
  <2>. HIDE DEF task
  <2>. QED BY <1>b, <2>1, <2>2 DEF ProjectStatus
<1>3. ASSUME NEW place \in Place, Becomes(w, [worker[w] EXCEPT !.pc = place]), disk' = disk
      PROVE  Copies(w)
  <2>. DEFINE task == [worker[w] EXCEPT !.pc = place]
  <2>1. task \in WorkerTask /\ task.steps = worker[w].steps
    BY <1>a DEF WorkerTask
  <2>2. Becomes(w, task)
    BY <1>3
  <2>. HIDE DEF task
  <2>. QED BY <1>b, <1>3, <2>1, <2>2 DEF ProjectStatus
<1>4. ASSUME SetupDone(w) \/ LlmReturns(w) \/ HandleMissionCompleted(w)
      PROVE  Copies(w) /\ completed' = completed
  BY <1>3, <1>4 DEF SetupDone, LlmReturns, HandleMissionCompleted, Place
<1>5. CASE NotVerifiedRetry(w)
  <2>. DEFINE task == [worker[w] EXCEPT !.pc = "llm", !.tries = worker[w].tries + 1]
  <2>1. worker[w].tries + 1 \in 0..(MAX_TRIES - 1)
    BY <1>a, <1>5 DEF NotVerifiedRetry, TriesLeft, WorkerTask, MAX_TRIES
  <2>2. task \in WorkerTask /\ task.steps = worker[w].steps
    BY <1>a, <2>1 DEF WorkerTask, Place
  <2>3. Becomes(w, task) /\ disk' = disk /\ completed' = completed
    BY <1>5 DEF NotVerifiedRetry
  <2>. HIDE DEF task
  <2>. QED BY <1>b, <2>2, <2>3 DEF ProjectStatus
<1>6. CASE FinalSave(w)
  <2>1. /\ Blank("gone") \in WorkerTask /\ Blank("gone").steps = [s \in Steps |-> "pending"]
        /\ Blank("gone").pc = "gone"
    BY BlankType DEF Blank, Place
  <2>2. Becomes(w, Blank("gone")) /\ disk'.steps = worker[w].steps /\ completed' = completed
    BY <1>6 DEF FinalSave, SaveProject
  <2>3. OthersKeep(w) /\ worker'[w].steps = Blank("gone").steps
    BY <1>a, <2>1, <2>2, TaskReplaced DEF ProjectStatus
  <2>4. ~Alive(w)'
    BY <1>a, <2>1, <2>2 DEF Becomes, Alive, TypeOK
  <2>. QED BY <2>1, <2>2, <2>3, <2>4 DEF Copies
<1>7. CASE ClaimStep(w)
  <2>1. /\ completed' = completed /\ (FailStep(w) \/ AwaitApproval(w) \/ BeginLlm(w))
        /\ AtWork(w)
    BY <1>7 DEF ClaimStep, AtWork, CurrentStep
  <2>. QED BY <1>a, <2>1, StepSaved DEF StepStatus
<1>8. ASSUME \/ ApprovalGranted(w) \/ ApprovalDenied(w) \/ ApprovalTimeout(w) \/ LlmFails(w)
             \/ NotVerifiedFails(w)
      PROVE  AtWork(w) /\ \E st \in StepStatus \ {"done"} : Saves(w, st) /\ completed' = completed
  <2>1. /\ completed' = completed /\ (BeginLlm(w) \/ SkipStep(w) \/ FailStep(w))
        /\ AtWork(w)
    BY <1>8 DEF ApprovalGranted, ApprovalDenied, ApprovalTimeout, LlmFails, NotVerifiedFails,
                Suspended, AtWork, Carrying
  <2>. QED BY <1>a, <2>1, StepSaved DEF StepStatus
<1>9. CASE BudgetStop(w)
  <2>. DEFINE stopped == StepTo(w, "pending")
              task == [stopped EXCEPT !.status = "paused"]
  <2>1. /\ stopped \in WorkerTask
        /\ stopped.steps = [worker[w].steps EXCEPT ![worker[w].at] = "pending"]
    BY <1>a, StepToType DEF StepTo, StepStatus, WorkerTask
  <2>2. Advance(w, task) /\ SaveProject(task) /\ completed' = completed
    BY <1>9 DEF BudgetStop
  <2>. HIDE DEF stopped
  <2>3. task \in WorkerTask /\ task.steps = stopped.steps
    BY <2>1 DEF WorkerTask, ProjectStatus
  <2>. HIDE DEF task
  <2>4. OthersKeep(w) /\ worker'[w].steps = task.steps
    BY <1>a, <2>2, <2>3, TaskReplaced DEF ProjectStatus
  <2>5. AtWork(w)
    BY <1>9 DEF BudgetStop, Suspended, AtWork, Carrying
  <2>. QED BY <2>1, <2>2, <2>3, <2>4, <2>5 DEF Saves, SaveProject, StepStatus
<1>10. ASSUME LlmReturnsFusion(w) \/ Verified(w)
       PROVE  AtWork(w) /\ Saves(w, "done") /\ completed' = completed \cup {worker[w].at}
  <2>1. CompleteStep(w) /\ AtWork(w)
    BY <1>10 DEF LlmReturnsFusion, Verified, Suspended, AtWork, Carrying
  <2>. QED BY <1>a, <2>1, StepSaved DEF CompleteStep, CurrentStep
<1>. QED BY <1>1, <1>2, <1>b, <1>4, <1>5, <1>6, <1>7, <1>8, <1>9, <1>10 DEF Progress

-----------------------------------------------------------------------------
(* A DONE is never invented *)

DoneWithin(steps, done) == \A s \in Steps : steps[s] = "done" => s \in done

\* Neither state.json nor any worker's copy of the project invents a DONE.
KnownDone ==
    /\ DoneWithin(disk.steps, completed)
    /\ \A w \in Workers : DoneWithin(worker[w].steps, completed)

LEMMA NextKnownDone == TypeInv /\ KnownDone /\ [Next]_vars => KnownDone'
<1>. SUFFICES ASSUME TypeInv, KnownDone, [Next]_vars PROVE KnownDone'
  OBVIOUS
<1>a. TypeOK /\ \A v \in Workers : worker[v].steps \in [Steps -> StepStatus]
  BY DEF TypeInv, TypeOK, WorkerTask
<1>b. \A done : DoneWithin([s \in Steps |-> "pending"], done)
  BY DEF DoneWithin
<1>1. ASSUME NEW w \in Workers, Progress(w) PROVE KnownDone'
  <2>1. CASE Copies(w) /\ completed' = completed
    BY <1>b, <2>1 DEF Copies, OthersKeep, KnownDone, DoneWithin
  <2>2. ASSUME NEW st \in StepStatus, Saves(w, st), completed \subseteq completed',
               st = "done" => worker[w].at \in completed'
        PROVE  KnownDone'
    <3>1. DoneWithin(worker'[w].steps, completed')
      BY <1>a, <2>2 DEF Saves, KnownDone, DoneWithin
    <3>. QED BY <2>2, <3>1 DEF Saves, OthersKeep, KnownDone, DoneWithin
  <2>3. CASE Saves(w, "done") /\ completed' = completed \cup {worker[w].at}
    BY <2>2, <2>3 DEF StepStatus
  <2>. QED BY <1>1, <2>1, <2>2, <2>3, ProgressSaves
<1>2. ASSUME Orchestration PROVE KnownDone'
  <2>a. completed' = completed
    BY <1>2, OrchestrationEffect
  <2>1. ASSUME NEW w \in Workers, LaunchMission(w) \/ RetryProject(w) \/ ResumeProject(w)
        PROVE  KnownDone'
    <3>1. PICK image : /\ DoneWithin(image.steps, completed)
                       /\ disk' = image \/ disk' = disk
                       /\ \/ Becomes(w, Spawned(image))
                          \/ worker' = [IF registry = NoWorker THEN worker ELSE KillFlagged(registry)
                                          EXCEPT ![w] = Spawned(image)]
      <4>1. CASE LaunchMission(w)
        BY <4>1 DEF LaunchMission, KnownDone
      <4>2. CASE RetryProject(w)
        <5>. DEFINE image == [status |-> "running",
                              steps |-> [s \in Steps |-> ResetStep(disk.steps[s])]]
        <5>1. DoneWithin(image.steps, completed)
          BY DEF KnownDone, DoneWithin, ResetStep
        <5>. QED BY <4>2, <5>1 DEF RetryProject, Relaunch
      <4>3. CASE ResumeProject(w)
        <5>. DEFINE image == [disk EXCEPT !.status = "running"]
        <5>1. image.steps = disk.steps
          BY DEF TypeInv, TypeOK, ProjectImage
        <5>. QED BY <4>3, <5>1 DEF ResumeProject, Relaunch, KnownDone
      <4>. QED BY <2>1, <4>1, <4>2, <4>3
    <3>2. Spawned(image).steps = image.steps
      BY DEF Spawned, Blank
    <3>3. /\ worker'[w] = Spawned(image)
          /\ \A v \in Workers \ {w} : worker'[v].steps = worker[v].steps
      BY <3>1 DEF Becomes, KillFlagged, TypeInv, TypeOK, WorkerTask
    <3>. QED BY <2>a, <3>1, <3>2, <3>3 DEF KnownDone
  <2>2. CASE RefusePlan
    BY <2>a, <2>2 DEF RefusePlan, KnownDone, TypeInv, TypeOK, ProjectImage
  <2>3. CASE Kill \/ ResumeRefused
    <3>1. registry \in Workers /\ worker' = KillFlagged(registry) /\ disk' = disk
      BY <2>3 DEF Kill, ResumeRefused, TypeInv, TypeOK
    <3>2. \A v \in Workers : worker'[v].steps = worker[v].steps
      BY <3>1 DEF TypeInv, TypeOK, KillFlagged, WorkerTask
    <3>. QED BY <2>a, <3>1, <3>2 DEF KnownDone
  <2>4. ASSUME NEW S \in SUBSET Steps, ResetSteps(S) PROVE KnownDone'
    <3>1. disk'.steps = [s \in Steps |-> IF s \in S THEN "pending" ELSE disk.steps[s]]
      BY <2>4 DEF ResetSteps, TypeInv, TypeOK, ProjectImage
    <3>2. worker' = worker
      BY <2>4 DEF ResetSteps
    <3>. QED BY <2>a, <3>1, <3>2 DEF KnownDone, DoneWithin
  <2>5. ASSUME NEW s \in Steps, NEW verdict \in {"yes", "no"}, ResolveApproval(s, verdict)
        PROVE  KnownDone'
    <3>1. \A v \in Workers : worker'[v].steps = worker[v].steps
      BY <2>5 DEF ResolveApproval, TypeInv, TypeOK, WorkerTask
    <3>2. disk' = disk
      BY <2>5 DEF ResolveApproval
    <3>. QED BY <2>a, <3>1, <3>2 DEF KnownDone
  <2>. QED BY <1>2, <2>1, <2>2, <2>3, <2>4, <2>5 DEF Orchestration
<1>3. ASSUME NEW w \in Workers, Interruption(w) PROVE KnownDone'
  <2>1. PICK task \in WorkerTask :
           Becomes(w, task) /\ task.steps \in {worker[w].steps, [s \in Steps |-> "pending"]}
    <3>1. Blank("gone") \in WorkerTask /\ Blank("gone").steps = [s \in Steps |-> "pending"]
      BY BlankType DEF Blank, Place
    <3>2. /\ [worker[w] EXCEPT !.pc = "closing"] \in WorkerTask
          /\ [worker[w] EXCEPT !.pc = "closing"].steps = worker[w].steps
      BY <1>a DEF TypeOK, WorkerTask, Place
    <3>. QED BY <1>3, <3>1, <3>2 DEF Interruption, SetupFails, MissionTimeout
  <2>2. OthersKeep(w) /\ worker'[w].steps = task.steps
    BY <1>a, <2>1, TaskReplaced DEF ProjectStatus
  <2>3. UNCHANGED <<disk, completed>>
    BY <1>3 DEF Interruption, SetupFails, MissionTimeout
  <2>. QED BY <1>b, <2>1, <2>2, <2>3 DEF OthersKeep, KnownDone
<1>4. CASE Crash
  <2>1. Blank("gone").steps = [s \in Steps |-> "pending"]
    BY DEF Blank
  <2>2. \A v \in Workers : worker'[v] \in {worker[v], Blank("gone")}
    BY <1>4 DEF Crash
  <2>3. UNCHANGED <<disk, completed>>
    BY <1>4 DEF Crash
  <2>. QED BY <1>b, <2>1, <2>2, <2>3 DEF KnownDone
<1>5. CASE UNCHANGED vars
  BY <1>5 DEF vars, KnownDone
<1>. QED BY <1>1, <1>2, <1>3, <1>4, <1>5 DEF Next

\* However stale the copy of the project that a worker saves over state.json, it shows no
\* step DONE that was not completed (ProjectStore.save_project writes the whole project).
THEOREM NoDoneIsInvented == Spec => []DoneOnDiskWasCompleted
<1>1. Init => KnownDone
  BY DEF Init, KnownDone, DoneWithin, Blank
<1>2. KnownDone => DoneOnDiskWasCompleted
  BY DEF KnownDone, DoneWithin, DoneOnDiskWasCompleted
<1>. QED BY InitType, NextType, NextKnownDone, <1>1, <1>2, PTL DEF Spec

-----------------------------------------------------------------------------
(* Who waits can be reached *)

\* v waits for an answer that has not come.
Waits(v) == worker[v].pc = "approval" /\ worker[v].answer = "none"

\* Nobody begins to wait, and who still waits does so at the same step.
NobodyBegins == \A v \in Workers : Waits(v)' => Waits(v) /\ worker'[v].at = worker[v].at

LEMMA OrchestrationWaits ==
    ASSUME TypeInv, WaitingWorkerIsReachable, Orchestration
    PROVE  WaitingWorkerIsReachable'
<1>1. ASSUME NEW w \in Workers, LaunchMission(w) \/ RetryProject(w) \/ ResumeProject(w)
      PROVE  NobodyBegins /\ pending' = pending
  <2>1. PICK image : \/ Becomes(w, Spawned(image))
                     \/ worker' = [IF registry = NoWorker THEN worker ELSE KillFlagged(registry)
                                     EXCEPT ![w] = Spawned(image)]
    BY <1>1 DEF LaunchMission, RetryProject, ResumeProject, Relaunch
  <2>2. Spawned(image).pc = "spawned"
    BY DEF Spawned, Blank
  <2>3. \A v \in Workers \ {w} : /\ worker'[v].pc = worker[v].pc
                                /\ worker'[v].at = worker[v].at
                                /\ worker'[v].answer = worker[v].answer
    BY <2>1 DEF Becomes, KillFlagged, TypeInv, TypeOK, WorkerTask
  <2>4. worker'[w] = Spawned(image)
    BY <2>1 DEF Becomes, KillFlagged, TypeInv, TypeOK
  <2>. QED BY <1>1, <2>2, <2>3, <2>4
       DEF LaunchMission, RetryProject, ResumeProject, Relaunch, NobodyBegins, Waits
<1>2. CASE Kill \/ ResumeRefused
  <2>1. registry \in Workers /\ worker' = KillFlagged(registry) /\ pending' = pending
    BY <1>2 DEF Kill, ResumeRefused, TypeInv, TypeOK
  <2>2. \A v \in Workers : /\ worker'[v].pc = worker[v].pc
                          /\ worker'[v].at = worker[v].at
                          /\ worker'[v].answer = worker[v].answer
    BY <2>1 DEF TypeInv, TypeOK, KillFlagged, WorkerTask
  <2>. QED BY <2>1, <2>2 DEF WaitingWorkerIsReachable, CurrentStep
<1>3. CASE RefusePlan \/ \E S \in SUBSET Steps : ResetSteps(S)
  BY <1>3 DEF RefusePlan, ResetSteps, WaitingWorkerIsReachable, CurrentStep
\* The slot that is emptied is the slot of whoever gets the answer, or of nobody who waits.
<1>4. ASSUME NEW s \in Steps, NEW verdict \in {"yes", "no"}, ResolveApproval(s, verdict)
      PROVE  WaitingWorkerIsReachable'
  <2>1. pending' = [pending EXCEPT ![s] = NoWorker] /\ pending[s] \in Workers
    BY <1>4 DEF ResolveApproval, TypeInv, TypeOK
  <2>2. /\ NobodyBegins
        /\ \A v \in Workers : pending[s] = v /\ worker[v].at = s => ~Waits(v)'
    <3>0. PICK w \in Workers : w = pending[s]
      BY <2>1
    <3>1. CASE worker[w].pc = "approval" /\ worker[w].at = s
      <4>1. worker' = [worker EXCEPT ![w].answer = verdict]
        BY <1>4, <3>0, <3>1 DEF ResolveApproval, CurrentStep
      <4>2. \A v \in Workers : worker'[v].pc = worker[v].pc /\ worker'[v].at = worker[v].at
        BY <2>1, <4>1 DEF TypeInv, TypeOK, WorkerTask
      <4>3. /\ \A v \in Workers \ {w} : worker'[v].answer = worker[v].answer
            /\ worker'[w].answer = verdict
        BY <2>1, <4>1 DEF TypeInv, TypeOK, WorkerTask
      <4>. QED BY <3>0, <3>1, <4>2, <4>3 DEF NobodyBegins, Waits
    <3>2. CASE ~(worker[w].pc = "approval" /\ worker[w].at = s)
      <4>1. worker' = worker
        BY <1>4, <3>0, <3>2 DEF ResolveApproval, CurrentStep
      <4>. QED BY <3>0, <3>2, <4>1 DEF NobodyBegins, Waits
    <3>. QED BY <3>1, <3>2
  <2>. SUFFICES ASSUME NEW v \in Workers, Waits(v)' PROVE pending'[worker'[v].at] = v
    BY DEF WaitingWorkerIsReachable, Waits, CurrentStep
  <2>3. worker'[v].at = worker[v].at /\ pending[worker[v].at] = v
    BY <2>2 DEF NobodyBegins, WaitingWorkerIsReachable, Waits, CurrentStep
  <2>4. worker[v].at # s
    BY <2>2, <2>3
  <2>. QED BY <2>1, <2>3, <2>4 DEF TypeInv, TypeOK
<1>5. NobodyBegins /\ pending' = pending => WaitingWorkerIsReachable'
  BY DEF NobodyBegins, WaitingWorkerIsReachable, Waits, CurrentStep
<1>. QED BY <1>1, <1>2, <1>3, <1>4, <1>5 DEF Orchestration

\* A worker is put to wait only by the claim of its step, and then in the slot of that step.
LEMMA WaitsByClaim ==
    ASSUME TypeInv, NEW w \in Workers, Progress(w)
    PROVE  /\ OthersKeep(w)
           /\ \/ ~Waits(w)' /\ pending' = pending
              \/ ~Waits(w)' /\ Carrying(w) /\ pending' = [pending EXCEPT ![worker[w].at] = NoWorker]
              \/ /\ Unclaimed(worker[w].at) /\ worker[w].at \in Steps
                 /\ worker'[w].at = worker[w].at
                 /\ pending' = [pending EXCEPT ![worker[w].at] = w]
<1>a. TypeOK /\ worker[w] \in WorkerTask
  BY DEF TypeInv, TypeOK
<1>1. ASSUME \/ SkipSettled(w) \/ ObserveKill(w) \/ LoopEnds(w) \/ ClaimRefused(w)
             \/ VerifierRaises(w)
      PROVE  OthersKeep(w) /\ ~Carrying(w)' /\ pending' = pending
  BY <1>1, <1>a, LeavingHand
     DEF SkipSettled, ObserveKill, LoopEnds, ClaimRefused, VerifierRaises
<1>2. ASSUME \/ ApprovalDenied(w) \/ LlmFails(w)
             \/ LlmReturnsFusion(w) \/ Verified(w) \/ NotVerifiedFails(w)
      PROVE  OthersKeep(w) /\ ~Carrying(w)' /\ pending' = pending
  BY <1>2, <1>a, StepEndLeavesHand
     DEF ApprovalDenied, LlmFails, LlmReturnsFusion, Verified, NotVerifiedFails
<1>3. CASE ApprovalTimeout(w)
  <2>1. OthersKeep(w) /\ ~Carrying(w)'
    BY <1>3, <1>a, StepEndLeavesHand DEF ApprovalTimeout
  <2>2. Carrying(w) /\ pending' = [pending EXCEPT ![worker[w].at] = NoWorker]
    BY <1>3 DEF ApprovalTimeout, Suspended, Carrying, CurrentStep
  <2>. QED BY <2>1, <2>2 DEF Carrying, Waits
<1>4. CASE BudgetStop(w)
  <2>1. \E st \in StepStatus \ {"done"} : Advance(w, [StepTo(w, st) EXCEPT !.status = "paused"])
    BY <1>4 DEF BudgetStop, StepStatus
  <2>2. PICK st \in StepStatus : Advance(w, [StepTo(w, st) EXCEPT !.status = "paused"])
    BY <2>1
  <2>3. StepTo(w, st) \in WorkerTask
    BY <1>a, StepToType
  <2>4. [StepTo(w, st) EXCEPT !.status = "paused"] \in WorkerTask
    BY <2>3 DEF WorkerTask, ProjectStatus
  <2>5. OthersKeep(w) /\ ~Carrying(w)'
    BY <1>a, <2>2, <2>4, LeavingHand
  <2>. QED BY <1>4, <2>5 DEF BudgetStop, Carrying, Waits
<1>5. ASSUME NEW task, Becomes(w, task), task.pc # "approval", pending' = pending
      PROVE  OthersKeep(w) /\ ~Waits(w)'
  BY <1>a, <1>5 DEF Becomes, OthersKeep, Waits, TypeOK
<1>6. CASE StartRun(w)
  <2>. DEFINE task == [worker[w] EXCEPT !.status = "running", !.pc = "setup"]
  <2>1. task.pc = "setup"
    BY <1>a DEF WorkerTask
  <2>2. Becomes(w, task) /\ pending' = pending
    BY <1>6 DEF StartRun
  <2>. HIDE DEF task
  <2>. QED BY <1>5, <2>1, <2>2
<1>7. CASE NotVerifiedRetry(w)
  <2>. DEFINE task == [worker[w] EXCEPT !.pc = "llm", !.tries = worker[w].tries + 1]
  <2>1. task.pc = "llm"
    BY <1>a DEF WorkerTask
  <2>2. Becomes(w, task) /\ pending' = pending
    BY <1>7 DEF NotVerifiedRetry
  <2>. HIDE DEF task
  <2>. QED BY <1>5, <2>1, <2>2
<1>8. ASSUME SetupDone(w) \/ LlmReturns(w) \/ HandleMissionCompleted(w) \/ FinalSave(w)
      PROVE  OthersKeep(w) /\ ~Waits(w)' /\ pending' = pending
  <2>1. PICK task : Becomes(w, task) /\ task.pc \in {"walk", "verify", "closing", "gone"}
    <3>1. \A place \in Place : [worker[w] EXCEPT !.pc = place].pc = place
      BY <1>a DEF WorkerTask
    <3>2. Blank("gone").pc = "gone"
      BY DEF Blank
    <3>. QED BY <1>8, <3>1, <3>2 DEF SetupDone, LlmReturns, HandleMissionCompleted, FinalSave, Place
  <2>2. pending' = pending
    BY <1>8 DEF SetupDone, LlmReturns, HandleMissionCompleted, FinalSave
  <2>. QED BY <1>5, <2>1, <2>2
<1>9. CASE ApprovalGranted(w)
  <2>1. OthersKeep(w) /\ worker'[w].pc = "llm" /\ pending' = pending
    BY <1>9, <1>a, KeepsHand DEF ApprovalGranted
  <2>. QED BY <2>1 DEF Waits
<1>10. CASE ClaimStep(w)
  <2>1. /\ Unclaimed(worker[w].at) /\ worker[w].at \in Steps
        /\ \/ (FailStep(w) \/ BeginLlm(w)) /\ pending' = pending
           \/ AwaitApproval(w)
    BY <1>10 DEF ClaimStep, AtStep, CurrentStep
  <2>2. CASE (FailStep(w) \/ BeginLlm(w)) /\ pending' = pending
    BY <1>a, <2>2, StepEndLeavesHand, KeepsHand DEF Carrying, Waits
  <2>3. CASE AwaitApproval(w)
    <3>1. OthersKeep(w) /\ worker'[w].at = worker[w].at
      BY <1>a, <2>3, KeepsHand
    <3>. QED BY <2>1, <2>3, <3>1 DEF AwaitApproval, CurrentStep
  <2>. QED BY <2>1, <2>2, <2>3
<1>11. ~Carrying(w)' => ~Waits(w)'
  BY DEF Carrying, Waits
<1>. QED BY <1>1, <1>2, <1>3, <1>4, <1>6, <1>7, <1>8, <1>9, <1>10, <1>11 DEF Progress

\* The claims keep the slots apart: who waits holds the claim of its step, so that nobody
\* else claims that step, or gives up waiting at it.
LEMMA NextWaits ==
    TypeInv /\ LeaseInv /\ WaitingWorkerIsReachable /\ [Next]_vars => WaitingWorkerIsReachable'
<1>. SUFFICES ASSUME TypeInv, LeaseInv, WaitingWorkerIsReachable, [Next]_vars
              PROVE  WaitingWorkerIsReachable'
  OBVIOUS
<1>a. \A v \in Workers : Carrying(v) => worker[v].at \in Steps /\ claims[worker[v].at] = v
  BY DEF LeaseInv, CarriedStepIsClaimed, CurrentStep
<1>b. \A v \in Workers : Waits(v) => Carrying(v) /\ pending[worker[v].at] = v
  BY DEF WaitingWorkerIsReachable, Waits, Carrying, CurrentStep
<1>1. ASSUME NEW w \in Workers, Progress(w) PROVE WaitingWorkerIsReachable'
  <2>. SUFFICES ASSUME NEW v \in Workers, Waits(v)' PROVE pending'[worker'[v].at] = v
    BY DEF WaitingWorkerIsReachable, Waits, CurrentStep
  <2>a. /\ OthersKeep(w) /\ pending \in [Steps -> Workers \cup {NoWorker}]
        /\ NoWorker \notin Workers
    BY <1>1, WaitsByClaim, ConstantsAssumption DEF TypeInv, TypeOK
  <2>b. ASSUME v # w PROVE worker'[v] = worker[v] /\ Waits(v)
    BY <2>a, <2>b DEF OthersKeep, Waits
  <2>1. CASE ~Waits(w)' /\ pending' = pending
    BY <1>b, <2>1, <2>b
  <2>2. CASE ~Waits(w)' /\ Carrying(w) /\ pending' = [pending EXCEPT ![worker[w].at] = NoWorker]
    <3>1. v # w /\ worker[v].at # worker[w].at
      BY <1>a, <1>b, <2>2, <2>b
    <3>. QED BY <1>b, <2>2, <2>a, <2>b, <3>1
  <2>3. CASE /\ Unclaimed(worker[w].at) /\ worker[w].at \in Steps
             /\ worker'[w].at = worker[w].at
             /\ pending' = [pending EXCEPT ![worker[w].at] = w]
    <3>1. v # w => worker[v].at # worker[w].at
      BY <1>a, <1>b, <2>3, <2>a, <2>b DEF Unclaimed
    <3>. QED BY <1>b, <2>3, <2>a, <2>b, <3>1
  <2>. QED BY <1>1, <2>1, <2>2, <2>3, WaitsByClaim
<1>2. ASSUME NEW w \in Workers, Interruption(w) PROVE WaitingWorkerIsReachable'
  <2>1. PICK task : Becomes(w, task) /\ task.pc \in {"closing", "gone"}
    <3>1. Blank("gone").pc = "gone"
      BY DEF Blank
    <3>2. [worker[w] EXCEPT !.pc = "closing"].pc = "closing"
      BY DEF TypeInv, TypeOK, WorkerTask
    <3>. QED BY <1>2, <3>1, <3>2 DEF Interruption, SetupFails, MissionTimeout
  <2>2. ~Waits(w)' /\ OthersKeep(w)
    BY <2>1 DEF Becomes, OthersKeep, Waits, TypeInv, TypeOK
  <2>3. pending' = pending
    BY <1>2 DEF Interruption, SetupFails, MissionTimeout
  <2>. QED BY <2>2, <2>3 DEF OthersKeep, WaitingWorkerIsReachable, Waits, CurrentStep
<1>3. CASE Crash
  <2>1. Blank("gone").pc = "gone"
    BY DEF Blank
  <2>2. \A v \in Workers : worker'[v].pc # "approval"
    BY <1>3, <2>1 DEF Crash, Alive
  <2>. QED BY <2>2 DEF WaitingWorkerIsReachable
<1>4. CASE UNCHANGED vars
  BY <1>4 DEF vars, WaitingWorkerIsReachable, CurrentStep
<1>. QED BY <1>1, <1>2, <1>3, <1>4, OrchestrationWaits DEF Next

\* A worker that waits for an approval is in the slot of its step until an answer reaches
\* it: no other worker's request, timeout or answer takes the slot away
\* (orchestrator._pending_approvals, lines 232 and 248).
THEOREM WaitingIsReachable == Spec => []WaitingWorkerIsReachable
<1>1. Init => WaitingWorkerIsReachable
  BY DEF Init, WaitingWorkerIsReachable, Blank
<1>. QED BY InitType, InitLease, NextType, NextLease, NextWaits, <1>1, PTL DEF Spec

-----------------------------------------------------------------------------
(* A patient operator *)

\* With a patient operator at most one worker is alive, from its creation on the copy of
\* the project in its hands is the one of state.json, and what it works on is not DONE.
OneAlive == \A v, w \in Workers : Alive(v) /\ Alive(w) => v = w

HoldsCurrentSteps == \A w \in Workers : Alive(w) => disk.steps = worker[w].steps

AtSetupOrWork(w) == worker[w].pc = "setup" \/ Carrying(w)

HoldsCurrentStatus ==
    \A w \in Workers : AtSetupOrWork(w) => disk.status = worker[w].status

NotDoneYet == \A w \in Workers : Carrying(w) => worker[w].steps[worker[w].at] # "done"

PatientInv == OneAlive /\ HoldsCurrentSteps /\ HoldsCurrentStatus /\ NotDoneYet

\* No step is taken out of DONE on disk.
KeepsDone == \A s \in Steps : disk.steps[s] = "done" => disk'.steps[s] = "done"

\* w ends its step or its mission, or is at work with its status saved.
Reported(w) ==
    AtSetupOrWork(w)' =>
        /\ disk'.status = worker'[w].status
        /\ Carrying(w)' => worker'[w].steps[worker'[w].at] # "done"

LEMMA LeavesPlace ==
    ASSUME TypeOK, NEW w \in Workers, NEW task \in WorkerTask, NEW st \in ProjectStatus,
           Advance(w, task) \/ Finish(w, task, st)
    PROVE  worker'[w].pc \in {"walk", "publish"}
<1>1. CASE Advance(w, task)
  <2>. DEFINE next == [task EXCEPT !.pc = "walk", !.at = worker[w].at + 1]
  <2>1. next.pc = "walk" /\ Becomes(w, next)
    BY <1>1 DEF WorkerTask, Advance
  <2>. HIDE DEF next
  <2>. QED BY <2>1 DEF Becomes, TypeOK
<1>2. CASE Finish(w, task, st)
  <2>. DEFINE next == [task EXCEPT !.pc = "publish", !.status = st]
  <2>1. next.pc = "publish" /\ Becomes(w, next)
    BY <1>2 DEF WorkerTask, Finish
  <2>. HIDE DEF next
  <2>. QED BY <2>1 DEF Becomes, TypeOK
<1>. QED BY <1>1, <1>2

\* What BeginLlm and AwaitApproval save is what the worker goes on with.
LEMMA WorkReported ==
    ASSUME TypeInv, NEW w \in Workers, worker[w].at \in Steps, BeginLlm(w) \/ AwaitApproval(w)
    PROVE  Reported(w)
<1>1. PICK st \in {"running", "waiting_approval"} :
         \E task : /\ Becomes(w, task) /\ SaveProject(task)
                   /\ task.steps = StepTo(w, st).steps /\ task.at = worker[w].at
  <2>1. \A st \in StepStatus : StepTo(w, st) \in WorkerTask /\ StepTo(w, st).at = worker[w].at
    BY StepToType DEF TypeInv
  <2>2. CASE BeginLlm(w)
    <3>. DEFINE run == StepTo(w, "running")
                task == [run EXCEPT !.pc = "llm", !.tries = 0]
    <3>1. run \in WorkerTask /\ run.at = worker[w].at
      BY <2>1 DEF StepStatus
    <3>2. Becomes(w, task) /\ SaveProject(task)
      BY <2>2 DEF BeginLlm
    <3>. HIDE DEF run
    <3>3. task.steps = run.steps /\ task.at = run.at
      BY <3>1 DEF WorkerTask
    <3>. HIDE DEF task
    <3>. QED BY <3>1, <3>2, <3>3 DEF run
  <2>3. CASE AwaitApproval(w)
    <3>. DEFINE waiting == StepTo(w, "waiting_approval")
                task == [waiting EXCEPT !.pc = "approval", !.answer = "none"]
    <3>1. waiting \in WorkerTask /\ waiting.at = worker[w].at
      BY <2>1 DEF StepStatus
    <3>2. Becomes(w, task) /\ SaveProject(task)
      BY <2>3 DEF AwaitApproval
    <3>. HIDE DEF waiting
    <3>3. task.steps = waiting.steps /\ task.at = waiting.at
      BY <3>1 DEF WorkerTask
    <3>. HIDE DEF task
    <3>. QED BY <3>1, <3>2, <3>3 DEF waiting
  <2>. QED BY <2>2, <2>3
<1>2. PICK task : /\ Becomes(w, task) /\ SaveProject(task)
                  /\ task.steps = StepTo(w, st).steps /\ task.at = worker[w].at
  BY <1>1
<1>3. StepTo(w, st).steps[worker[w].at] = st
  BY DEF StepTo, TypeInv, TypeOK, WorkerTask
<1>4. worker'[w] = task /\ disk'.status = task.status
  BY <1>2 DEF Becomes, SaveProject, TypeInv, TypeOK
<1>. QED BY <1>2, <1>3, <1>4 DEF Reported

LEMMA ProgressReports ==
    ASSUME TypeInv, HoldsCurrentStatus, NotDoneYet, NEW w \in Workers, Progress(w)
    PROVE  Alive(w) /\ Reported(w)
<1>a. TypeOK /\ worker[w] \in WorkerTask
  BY DEF TypeInv, TypeOK
<1>b. Alive(w)
  BY DEF Progress, StartRun, SetupDone, SkipSettled, ObserveKill, LoopEnds, ClaimRefused,
         ClaimStep, ApprovalGranted, ApprovalDenied, ApprovalTimeout, BudgetStop, LlmFails,
         LlmReturns, LlmReturnsFusion, Verified, NotVerifiedRetry, NotVerifiedFails,
         VerifierRaises, HandleMissionCompleted, FinalSave, Suspended, AtStep, Walking, Alive
<1>. SUFFICES Reported(w)
  BY <1>b
<1>c. worker'[w].pc \in {"walk", "publish", "closing", "gone"} => Reported(w)
  BY DEF Reported, AtSetupOrWork, Carrying
<1>d. \A st \in StepStatus : StepTo(w, st) \in WorkerTask
  BY <1>a, StepToType
<1>1. ASSUME \/ SkipSettled(w) \/ ObserveKill(w) \/ LoopEnds(w) \/ ClaimRefused(w)
             \/ VerifierRaises(w)
      PROVE  Reported(w)
  <2>1. \E st \in ProjectStatus : Advance(w, worker[w]) \/ Finish(w, worker[w], st)
    BY <1>1 DEF SkipSettled, ObserveKill, LoopEnds, ClaimRefused, VerifierRaises, ProjectStatus
  <2>. QED BY <1>a, <1>c, <2>1, LeavesPlace
<1>2. ASSUME FailStep(w) \/ SkipStep(w) \/ CompleteStep(w) PROVE Reported(w)
  <2>1. PICK st \in StepStatus, status \in ProjectStatus :
           Advance(w, StepTo(w, st)) \/ Finish(w, StepTo(w, st), status)
    <3>1. CASE FailStep(w)
      BY <3>1 DEF FailStep, StepStatus, ProjectStatus
    <3>2. CASE SkipStep(w)
      BY <3>2 DEF SkipStep, StepStatus, ProjectStatus
    <3>3. CASE CompleteStep(w)
      BY <3>3 DEF CompleteStep, StepStatus, ProjectStatus
    <3>. QED BY <1>2, <3>1, <3>2, <3>3
  <2>. QED BY <1>a, <1>c, <1>d, <2>1, LeavesPlace
<1>3. ASSUME \/ ApprovalDenied(w) \/ ApprovalTimeout(w) \/ LlmFails(w)
             \/ LlmReturnsFusion(w) \/ Verified(w) \/ NotVerifiedFails(w)
      PROVE  Reported(w)
  BY <1>2, <1>3 DEF ApprovalDenied, ApprovalTimeout, LlmFails, LlmReturnsFusion, Verified,
                    NotVerifiedFails
<1>4. CASE BudgetStop(w)
  <2>. DEFINE stopped == StepTo(w, "pending")
              task == [stopped EXCEPT !.status = "paused"]
  <2>1. stopped \in WorkerTask
    BY <1>d DEF StepStatus
  <2>2. Advance(w, task)
    BY <1>4 DEF BudgetStop
  <2>. HIDE DEF stopped
  <2>3. task \in WorkerTask
    BY <2>1 DEF WorkerTask, ProjectStatus
  <2>. HIDE DEF task
  <2>4. \A st \in ProjectStatus : worker'[w].pc \in {"walk", "publish"}
    BY <1>a, <2>2, <2>3, LeavesPlace
  <2>. QED BY <1>c, <2>4 DEF ProjectStatus
<1>5. CASE StartRun(w)
  <2>. DEFINE task == [worker[w] EXCEPT !.status = "running", !.pc = "setup"]
  <2>1. task.pc = "setup"
    BY <1>a DEF WorkerTask
  <2>2. Becomes(w, task) /\ disk'.status = task.status
    BY <1>5 DEF StartRun, SaveProject
  <2>. HIDE DEF task
  <2>. QED BY <1>a, <2>1, <2>2 DEF Becomes, TypeOK, Reported, Carrying
<1>6. ASSUME SetupDone(w) \/ HandleMissionCompleted(w) \/ FinalSave(w) PROVE Reported(w)
  <2>1. PICK task : Becomes(w, task) /\ task.pc \in {"walk", "closing", "gone"}
    <3>1. \A place \in Place : [worker[w] EXCEPT !.pc = place].pc = place
      BY <1>a DEF WorkerTask
    <3>2. Blank("gone").pc = "gone"
      BY DEF Blank
    <3>. QED BY <1>6, <3>1, <3>2 DEF SetupDone, HandleMissionCompleted, FinalSave, Place
  <2>. QED BY <1>a, <1>c, <2>1 DEF Becomes, TypeOK
<1>7. ASSUME ClaimStep(w) \/ ApprovalGranted(w) PROVE Reported(w)
  <2>1. FailStep(w) \/ BeginLlm(w) \/ AwaitApproval(w)
    BY <1>7 DEF ClaimStep, ApprovalGranted
  <2>2. worker[w].at \in Steps
    <3>1. ClaimStep(w) => worker[w].at \in Steps
      BY DEF ClaimStep, AtStep, CurrentStep
    <3>2. ApprovalGranted(w) => Carrying(w)
      BY DEF ApprovalGranted, Suspended, Carrying
    <3>. QED BY <1>7, <3>1, <3>2 DEF TypeInv, CarriedIsAStep, CurrentStep
  <2>. QED BY <1>2, <2>1, <2>2, WorkReported
<1>8. ASSUME LlmReturns(w) \/ NotVerifiedRetry(w) PROVE Reported(w)
  <2>1. PICK task : /\ Becomes(w, task) /\ task.at = worker[w].at
                    /\ task.steps = worker[w].steps /\ task.status = worker[w].status
    <3>1. CASE LlmReturns(w)
      <4>. DEFINE next == [worker[w] EXCEPT !.pc = "verify"]
      <4>1. next.at = worker[w].at /\ next.steps = worker[w].steps /\ next.status = worker[w].status
        BY <1>a DEF WorkerTask
      <4>2. Becomes(w, next)
        BY <3>1 DEF LlmReturns
      <4>. HIDE DEF next
      <4>. QED BY <4>1, <4>2
    <3>2. CASE NotVerifiedRetry(w)
      <4>. DEFINE next == [worker[w] EXCEPT !.pc = "llm", !.tries = worker[w].tries + 1]
      <4>1. next.at = worker[w].at /\ next.steps = worker[w].steps /\ next.status = worker[w].status
        BY <1>a DEF WorkerTask
      <4>2. Becomes(w, next)
        BY <3>2 DEF NotVerifiedRetry
      <4>. HIDE DEF next
      <4>. QED BY <4>1, <4>2
    <3>. QED BY <1>8, <3>1, <3>2
  <2>2. Carrying(w) /\ disk' = disk
    BY <1>8 DEF LlmReturns, NotVerifiedRetry, Suspended, Carrying
  <2>3. disk.status = worker[w].status /\ worker[w].steps[worker[w].at] # "done"
    BY <2>2 DEF HoldsCurrentStatus, AtSetupOrWork, NotDoneYet
  <2>4. worker'[w] = task
    BY <2>1 DEF Becomes, TypeInv, TypeOK
  <2>. QED BY <2>1, <2>2, <2>3, <2>4 DEF Reported
<1>. QED BY <1>1, <1>3, <1>4, <1>5, <1>6, <1>7, <1>8 DEF Progress

\* Nobody moves, and the copies of the project stay as they are.
SamePlaces ==
    \A v \in Workers : /\ worker'[v].pc = worker[v].pc /\ worker'[v].at = worker[v].at
                       /\ worker'[v].steps = worker[v].steps
                       /\ worker'[v].status = worker[v].status

LEMMA SamePlacesKeep ==
    ASSUME PatientInv, SamePlaces, disk' = disk \/ \A w \in Workers : ~Alive(w)
    PROVE  PatientInv'
<1>1. \A v \in Workers : /\ Alive(v)' <=> Alive(v)
                         /\ Carrying(v)' <=> Carrying(v)
                         /\ AtSetupOrWork(v)' <=> AtSetupOrWork(v)
                         /\ AtSetupOrWork(v) => Alive(v)
  BY DEF SamePlaces, Alive, Carrying, AtSetupOrWork
<1>. QED BY <1>1 DEF PatientInv, OneAlive, HoldsCurrentSteps, HoldsCurrentStatus, NotDoneYet,
                    SamePlaces

\* The worker that moves is the one that is alive.
LEMMA MoverKeeps ==
    ASSUME PatientInv, NEW w \in Workers, Alive(w), OthersKeep(w), Reported(w),
           Alive(w)' => disk'.steps = worker'[w].steps
    PROVE  PatientInv'
<1>1. \A v \in Workers \ {w} : ~Alive(v) /\ worker'[v] = worker[v]
  BY DEF PatientInv, OneAlive, OthersKeep
<1>2. \A v \in Workers \ {w} : ~Alive(v)' /\ ~Carrying(v)' /\ ~AtSetupOrWork(v)'
  BY <1>1 DEF Alive, Carrying, AtSetupOrWork
<1>3. Carrying(w)' => AtSetupOrWork(w)'
  BY DEF AtSetupOrWork
<1>4. OneAlive' /\ HoldsCurrentSteps'
  BY <1>2 DEF OneAlive, HoldsCurrentSteps
<1>5. HoldsCurrentStatus' /\ NotDoneYet'
  BY <1>2, <1>3 DEF HoldsCurrentStatus, NotDoneYet, Reported
<1>. QED BY <1>4, <1>5 DEF PatientInv

LEMMA ProgressPatient ==
    ASSUME TypeInv, PatientInv, NEW w \in Workers, Progress(w)
    PROVE  PatientInv' /\ KeepsDone
<1>1. Alive(w) /\ Reported(w)
  BY ProgressReports DEF PatientInv
<1>2. disk.steps = worker[w].steps /\ worker[w].steps \in [Steps -> StepStatus]
  BY <1>1 DEF PatientInv, HoldsCurrentSteps, TypeInv, TypeOK, WorkerTask
<1>3. CASE Copies(w)
  <2>1. disk'.steps = disk.steps /\ OthersKeep(w) /\ (Alive(w)' => worker'[w].steps = worker[w].steps)
    BY <1>2, <1>3 DEF Copies
  <2>. QED BY <1>1, <1>2, <2>1, MoverKeeps DEF KeepsDone
<1>4. ASSUME NEW st \in StepStatus, Saves(w, st), AtWork(w)
      PROVE  PatientInv' /\ KeepsDone
  <2>1. /\ disk'.steps = worker'[w].steps /\ OthersKeep(w)
        /\ worker'[w].steps = [worker[w].steps EXCEPT ![worker[w].at] = st]
    BY <1>4 DEF Saves
  <2>2. worker[w].steps[worker[w].at] # "done"
    BY <1>4 DEF AtWork, Settled, PatientInv, NotDoneYet
  <2>3. KeepsDone
    BY <1>2, <2>1, <2>2 DEF KeepsDone
  <2>. QED BY <1>1, <2>1, <2>3, MoverKeeps
<1>. QED BY <1>3, <1>4, ProgressSaves DEF StepStatus

LEMMA OrchestrationPatient ==
    ASSUME TypeInv, PatientInv, Orchestration, \A v \in Workers : ~Alive(v)
    PROVE  PatientInv' /\ (KeepsDone \/ \E S \in SUBSET Steps : ResetSteps(S))
<1>1. ASSUME NEW w \in Workers, LaunchMission(w) \/ RetryProject(w) \/ ResumeProject(w)
      PROVE  PatientInv' /\ KeepsDone
  <2>1. PICK image : /\ disk'.steps = image.steps
                     /\ \A s \in Steps : disk.steps[s] = "done" => image.steps[s] = "done"
                     /\ \/ Becomes(w, Spawned(image))
                        \/ worker' = [IF registry = NoWorker THEN worker ELSE KillFlagged(registry)
                                        EXCEPT ![w] = Spawned(image)]
    <3>1. CASE LaunchMission(w)
      BY <3>1 DEF LaunchMission
    <3>2. CASE RetryProject(w)
      <4>. DEFINE image == [status |-> "running",
                            steps |-> [s \in Steps |-> ResetStep(disk.steps[s])]]
      <4>1. \A s \in Steps : disk.steps[s] = "done" => image.steps[s] = "done"
        BY DEF ResetStep
      <4>. QED BY <3>2, <4>1 DEF RetryProject, Relaunch
    <3>3. CASE ResumeProject(w)
      <4>. DEFINE image == [disk EXCEPT !.status = "running"]
      <4>1. image.steps = disk.steps
        BY DEF TypeInv, TypeOK, ProjectImage
      <4>. QED BY <3>3, <4>1 DEF ResumeProject, Relaunch
    <3>. QED BY <1>1, <3>1, <3>2, <3>3
  <2>2. Spawned(image).pc = "spawned" /\ Spawned(image).steps = image.steps
    BY DEF Spawned, Blank
  <2>3. /\ worker'[w] = Spawned(image)
        /\ \A v \in Workers \ {w} : worker'[v].pc = worker[v].pc
    BY <2>1 DEF Becomes, KillFlagged, TypeInv, TypeOK, WorkerTask
  <2>4. /\ \A v \in Workers \ {w} : ~Alive(v)' /\ ~Carrying(v)' /\ ~AtSetupOrWork(v)'
        /\ ~Carrying(w)' /\ ~AtSetupOrWork(w)'
    BY <2>2, <2>3 DEF Alive, Carrying, AtSetupOrWork
  <2>5. PatientInv'
    BY <2>1, <2>2, <2>3, <2>4
       DEF PatientInv, OneAlive, HoldsCurrentSteps, HoldsCurrentStatus, NotDoneYet
  <2>. QED BY <2>1, <2>5 DEF KeepsDone
<1>2. CASE RefusePlan
  <2>1. SamePlaces /\ disk'.steps = disk.steps
    BY <1>2 DEF RefusePlan, SamePlaces, TypeInv, TypeOK, ProjectImage
  <2>. QED BY <2>1, SamePlacesKeep DEF KeepsDone
<1>3. CASE Kill \/ ResumeRefused
  <2>1. registry \in Workers /\ worker' = KillFlagged(registry) /\ disk' = disk
    BY <1>3 DEF Kill, ResumeRefused, TypeInv, TypeOK
  <2>2. SamePlaces
    BY <2>1 DEF SamePlaces, TypeInv, TypeOK, KillFlagged, WorkerTask
  <2>. QED BY <2>1, <2>2, SamePlacesKeep DEF KeepsDone
<1>4. ASSUME NEW S \in SUBSET Steps, ResetSteps(S) PROVE PatientInv'
  <2>1. SamePlaces
    BY <1>4 DEF ResetSteps, SamePlaces
  <2>. QED BY <2>1, SamePlacesKeep
<1>5. ASSUME NEW s \in Steps, NEW verdict \in {"yes", "no"}, ResolveApproval(s, verdict)
      PROVE  PatientInv' /\ KeepsDone
  <2>1. SamePlaces /\ disk' = disk
    BY <1>5 DEF ResolveApproval, SamePlaces, TypeInv, TypeOK, WorkerTask
  <2>. QED BY <2>1, SamePlacesKeep DEF KeepsDone
<1>. QED BY <1>1, <1>2, <1>3, <1>4, <1>5 DEF Orchestration

LEMMA NextPatient ==
    ASSUME TypeInv, PatientInv, [PatientNext]_vars
    PROVE  PatientInv' /\ (KeepsDone \/ \E S \in SUBSET Steps : ResetSteps(S))
<1>1. CASE Kill
  <2>1. registry \in Workers /\ worker' = KillFlagged(registry) /\ disk' = disk
    BY <1>1 DEF Kill, TypeInv, TypeOK
  <2>2. SamePlaces
    BY <2>1 DEF SamePlaces, TypeInv, TypeOK, KillFlagged, WorkerTask
  <2>. QED BY <2>1, <2>2, SamePlacesKeep DEF KeepsDone
<1>2. ASSUME NEW s \in Steps, NEW verdict \in {"yes", "no"}, ResolveApproval(s, verdict)
      PROVE  PatientInv' /\ KeepsDone
  <2>1. SamePlaces /\ disk' = disk
    BY <1>2 DEF ResolveApproval, SamePlaces, TypeInv, TypeOK, WorkerTask
  <2>. QED BY <2>1, SamePlacesKeep DEF KeepsDone
<1>3. ASSUME NEW w \in Workers, Interruption(w) PROVE PatientInv' /\ KeepsDone
  <2>1. disk' = disk /\ Alive(w)
    BY <1>3 DEF Interruption, SetupFails, MissionTimeout, Suspended, Carrying, Alive
  <2>2. PICK task : /\ Becomes(w, task)
                    /\ \/ task.pc = "gone"
                       \/ task.pc = "closing" /\ task.steps = worker[w].steps
    <3>1. Blank("gone").pc = "gone"
      BY DEF Blank
    <3>2. /\ [worker[w] EXCEPT !.pc = "closing"].pc = "closing"
          /\ [worker[w] EXCEPT !.pc = "closing"].steps = worker[w].steps
      BY DEF TypeInv, TypeOK, WorkerTask
    <3>. QED BY <1>3, <3>1, <3>2 DEF Interruption, SetupFails, MissionTimeout
  <2>3. worker'[w] = task /\ OthersKeep(w)
    BY <2>2 DEF Becomes, OthersKeep, TypeInv, TypeOK
  <2>4. Reported(w)
    BY <2>2, <2>3 DEF Reported, AtSetupOrWork, Carrying
  <2>5. Alive(w)' => disk'.steps = worker'[w].steps
    BY <2>1, <2>2, <2>3 DEF Alive, PatientInv, HoldsCurrentSteps
  <2>. QED BY <2>1, <2>3, <2>4, <2>5, MoverKeeps DEF KeepsDone
<1>4. CASE Crash
  <2>1. Blank("gone").pc = "gone"
    BY DEF Blank
  <2>2. \A v \in Workers : ~Alive(v)' /\ ~Carrying(v)' /\ ~AtSetupOrWork(v)'
    BY <1>4, <2>1 DEF Crash, Alive, Carrying, AtSetupOrWork
  <2>. QED BY <1>4, <2>2
       DEF Crash, KeepsDone, PatientInv, OneAlive, HoldsCurrentSteps, HoldsCurrentStatus, NotDoneYet
<1>5. CASE UNCHANGED vars
  BY <1>5, SamePlacesKeep DEF vars, SamePlaces, KeepsDone
<1>. QED BY <1>1, <1>2, <1>3, <1>4, <1>5, ProgressPatient, OrchestrationPatient DEF PatientNext

LEMMA PatientIsNext == PatientNext => Next
BY DEF PatientNext, Next, Orchestration

LEMMA InitPatient == Init => PatientInv
BY DEF Init, PatientInv, OneAlive, HoldsCurrentSteps, HoldsCurrentStatus, NotDoneYet,
       AtSetupOrWork, Alive, Carrying, Blank

\* When the operator waits for a worker to be gone before relaunching, a crash at any
\* moment finds in state.json what the worker knew, save the step in hand (save_project's
\* calls in run and _execute_step).
THEOREM StateJsonKeepsUp == PatientSpec => []StateJsonIsCurrent
<1>1. TypeInv /\ PatientInv /\ [PatientNext]_vars => TypeInv' /\ PatientInv'
  BY NextType, NextPatient, PatientIsNext
<1>2. PatientInv => StateJsonIsCurrent
  BY DEF PatientInv, HoldsCurrentSteps, HoldsCurrentStatus, AtSetupOrWork, StateJsonIsCurrent
<1>. QED BY InitType, InitPatient, <1>1, <1>2, PTL DEF PatientSpec

\* Then nothing but reset-steps takes a step out of DONE in state.json: no retry, resume,
\* pause, failure, timeout or crash (retry_project, lines 139-147).
THEOREM DoneStaysDone == PatientSpec => DoneIsDurable
<1>1. TypeInv /\ PatientInv /\ [PatientNext]_vars => TypeInv' /\ PatientInv'
  BY NextType, NextPatient, PatientIsNext
<1>2. TypeInv /\ PatientInv /\ [PatientNext]_vars =>
        [\A s \in Steps : disk.steps[s] = "done" /\ disk'.steps[s] # "done"
            => \E S \in SUBSET Steps : ResetSteps(S)]_vars
  BY NextPatient DEF KeepsDone
<1>. QED BY InitType, InitPatient, <1>1, <1>2, PTL DEF PatientSpec, DoneIsDurable

-----------------------------------------------------------------------------
(* A run wears out: the part of EveryRunEnds that needs no fairness *)

\* The event loop is kept by nobody but a worker between two steps, and every worker that
\* is there keeps it: the loop is never lost, and no two workers walk at once.
LoopIsInHands == \A w \in Workers : worker[w].pc = "walk" <=> holder = w

\* The most actions that one step of the plan can take, from one walk to the next.
StepRoom == 2 * MAX_TRIES + 2

\* How many actions a worker has left at most, from where it is.
StepsLeft(task) ==
    LET after == StepRoom * (NSteps + 1 - task.at) IN
    CASE task.pc = "gone"     -> 0
      [] task.pc = "closing"  -> 1
      [] task.pc = "publish"  -> 2
      [] task.pc = "verify"   -> after + 2 * (MAX_TRIES - task.tries) + 1
      [] task.pc = "llm"      -> after + 2 * (MAX_TRIES - task.tries) + 2
      [] task.pc = "approval" -> after + StepRoom + 1
      [] task.pc = "walk"     -> after + StepRoom + 2
      [] task.pc = "setup"    -> StepRoom * (NSteps + 1) + 3
      [] task.pc = "spawned"  -> StepRoom * (NSteps + 1) + 4
      [] task.pc = "unborn"   -> StepRoom * (NSteps + 1) + 5

\* The places where a task can be after it was at old, in the order of run.
ComesAfter(new, old) ==
    \/ new.pc = "gone" /\ old.pc # "gone"
    \/ new.pc = "closing" /\ old.pc \notin {"gone", "closing"}
    \/ new.pc = "publish" /\ old.pc \notin {"gone", "closing", "publish"}
    \/ new.pc = "walk" /\ old.pc = "setup"
    \/ new.pc = "walk" /\ old.pc \in {"walk", "approval", "llm", "verify"} /\ new.at = old.at + 1
    \/ new.pc = "approval" /\ old.pc = "walk" /\ new.at = old.at
    \/ new.pc = "llm" /\ old.pc \in {"walk", "approval"} /\ new.at = old.at
    \/ new.pc = "llm" /\ old.pc = "verify" /\ new.at = old.at /\ new.tries = old.tries + 1
    \/ new.pc = "verify" /\ old.pc = "llm" /\ new.at = old.at /\ new.tries = old.tries
    \/ new.pc = "setup" /\ old.pc = "spawned"
    \/ new.pc = "spawned" /\ old.pc = "unborn"

LEMMA ComingAfterIsNearer ==
    ASSUME NEW old \in WorkerTask, NEW new \in WorkerTask
    PROVE  /\ StepsLeft(old) \in Nat
           /\ ComesAfter(new, old) => StepsLeft(new) < StepsLeft(old)
           /\ new.pc = old.pc /\ new.at = old.at /\ new.tries = old.tries
                => StepsLeft(new) = StepsLeft(old)
<1>. DEFINE after(task) == 6 * (NSteps + 1 - task.at)
<1>1. \A task \in WorkerTask :
        task.at \in 1..(NSteps + 1) /\ task.tries \in 0..1 /\ task.pc \in Place
  BY DEF WorkerTask, MAX_TRIES
<1>2. ASSUME NEW task \in WorkerTask
      PROVE  /\ task.pc = "gone"     => StepsLeft(task) = 0
             /\ task.pc = "closing"  => StepsLeft(task) = 1
             /\ task.pc = "publish"  => StepsLeft(task) = 2
             /\ task.pc = "verify"   => StepsLeft(task) = after(task) + 5 - 2 * task.tries
             /\ task.pc = "llm"      => StepsLeft(task) = after(task) + 6 - 2 * task.tries
             /\ task.pc = "approval" => StepsLeft(task) = after(task) + 7
             /\ task.pc = "walk"     => StepsLeft(task) = after(task) + 8
             /\ task.pc = "setup"    => StepsLeft(task) = 6 * (NSteps + 1) + 3
             /\ task.pc = "spawned"  => StepsLeft(task) = 6 * (NSteps + 1) + 4
             /\ task.pc = "unborn"   => StepsLeft(task) = 6 * (NSteps + 1) + 5
  BY <1>1, ConstantsAssumption DEF StepsLeft, StepRoom, MAX_TRIES
<1>3. NSteps \in Nat
  BY ConstantsAssumption
<1>4. StepsLeft(old) \in Nat
  BY <1>1, <1>2, <1>3 DEF Place
<1>5. ASSUME ComesAfter(new, old) PROVE StepsLeft(new) < StepsLeft(old)
  BY <1>1, <1>2, <1>3, <1>5 DEF Place, ComesAfter
<1>6. ASSUME new.pc = old.pc, new.at = old.at, new.tries = old.tries
      PROVE  StepsLeft(new) = StepsLeft(old)
  BY <1>6 DEF StepsLeft
<1>. QED BY <1>4, <1>5, <1>6

\* w goes further on, alone, and has the loop afterwards if it walks.
TakesTurn(w) ==
    /\ ComesAfter(worker'[w], worker[w]) /\ OthersKeep(w)
    /\ holder' = IF worker'[w].pc = "walk" THEN w ELSE NoWorker

\* Advance and Finish go on from a step in hand, or from the walk.
LEMMA LeavingTakesTurn ==
    ASSUME TypeOK, NEW w \in Workers, NEW task \in WorkerTask, NEW st \in ProjectStatus,
           worker[w].pc \in {"walk", "approval", "llm", "verify"},
           Advance(w, task) \/ Finish(w, task, st)
    PROVE  TakesTurn(w)
<1>1. CASE Advance(w, task)
  <2>. DEFINE next == [task EXCEPT !.pc = "walk", !.at = worker[w].at + 1]
  <2>1. next.pc = "walk" /\ next.at = worker[w].at + 1 /\ Becomes(w, next) /\ holder' = w
    BY <1>1 DEF WorkerTask, Advance
  <2>. HIDE DEF next
  <2>2. worker'[w] = next /\ OthersKeep(w)
    BY <2>1 DEF Becomes, OthersKeep, TypeOK
  <2>. QED BY <2>1, <2>2 DEF TakesTurn, ComesAfter
<1>2. CASE Finish(w, task, st)
  <2>. DEFINE next == [task EXCEPT !.pc = "publish", !.status = st]
  <2>1. next.pc = "publish" /\ Becomes(w, next) /\ holder' = NoWorker
    BY <1>2 DEF WorkerTask, Finish
  <2>. HIDE DEF next
  <2>2. worker'[w] = next /\ OthersKeep(w)
    BY <2>1 DEF Becomes, OthersKeep, TypeOK
  <2>. QED BY <2>1, <2>2 DEF TakesTurn, ComesAfter
<1>. QED BY <1>1, <1>2

\* Every action of a worker, its interruptions too, is a turn of it.
LEMMA ProgressTakesTurn ==
    ASSUME TypeInv, NEW w \in Workers, Progress(w) \/ Interruption(w)
    PROVE  TakesTurn(w)
<1>a. TypeOK /\ worker[w] \in WorkerTask
  BY DEF TypeInv, TypeOK
<1>b. \A st \in StepStatus : StepTo(w, st) \in WorkerTask
  BY <1>a, StepToType
<1>1. ASSUME \/ SkipSettled(w) \/ ObserveKill(w) \/ LoopEnds(w) \/ ClaimRefused(w)
             \/ VerifierRaises(w)
      PROVE  TakesTurn(w)
  <2>1. \E st \in ProjectStatus : Advance(w, worker[w]) \/ Finish(w, worker[w], st)
    BY <1>1 DEF SkipSettled, ObserveKill, LoopEnds, ClaimRefused, VerifierRaises, ProjectStatus
  <2>2. worker[w].pc \in {"walk", "verify"}
    BY <1>1 DEF SkipSettled, ObserveKill, LoopEnds, ClaimRefused, VerifierRaises, AtStep,
                Walking, Suspended
  <2>. QED BY <1>a, <2>1, <2>2, LeavingTakesTurn
<1>2. ASSUME worker[w].pc \in {"walk", "approval", "llm", "verify"},
             FailStep(w) \/ SkipStep(w) \/ CompleteStep(w)
      PROVE  TakesTurn(w)
  <2>1. PICK st \in StepStatus, status \in ProjectStatus :
           Advance(w, StepTo(w, st)) \/ Finish(w, StepTo(w, st), status)
    <3>1. CASE FailStep(w)
      BY <3>1 DEF FailStep, StepStatus, ProjectStatus
    <3>2. CASE SkipStep(w)
      BY <3>2 DEF SkipStep, StepStatus, ProjectStatus
    <3>3. CASE CompleteStep(w)
      BY <3>3 DEF CompleteStep, StepStatus, ProjectStatus
    <3>. QED BY <1>2, <3>1, <3>2, <3>3
  <2>. QED BY <1>a, <1>b, <1>2, <2>1, LeavingTakesTurn
<1>3. ASSUME \/ ApprovalDenied(w) \/ ApprovalTimeout(w) \/ LlmFails(w)
             \/ LlmReturnsFusion(w) \/ Verified(w) \/ NotVerifiedFails(w)
      PROVE  TakesTurn(w)
  BY <1>2, <1>3 DEF ApprovalDenied, ApprovalTimeout, LlmFails, LlmReturnsFusion, Verified,
                    NotVerifiedFails, Suspended
<1>4. CASE BudgetStop(w)
  <2>. DEFINE stopped == StepTo(w, "pending")
              task == [stopped EXCEPT !.status = "paused"]
  <2>1. stopped \in WorkerTask
    BY <1>b DEF StepStatus
  <2>2. Advance(w, task) /\ worker[w].pc = "llm"
    BY <1>4 DEF BudgetStop, Suspended
  <2>. HIDE DEF stopped
  <2>3. task \in WorkerTask
    BY <2>1 DEF WorkerTask, ProjectStatus
  <2>. HIDE DEF task
  <2>. QED BY <1>a, <2>2, <2>3, LeavingTakesTurn DEF ProjectStatus
<1>5. ASSUME ClaimStep(w) \/ ApprovalGranted(w) PROVE TakesTurn(w)
  <2>1. worker[w].pc \in {"walk", "approval"} /\ (AwaitApproval(w) => worker[w].pc = "walk")
    <3>1. ClaimStep(w) => worker[w].pc = "walk"
      BY DEF ClaimStep, AtStep, Walking
    <3>2. ApprovalGranted(w) => worker[w].pc = "approval" /\ BeginLlm(w)
      BY DEF ApprovalGranted, Suspended
    <3>3. BeginLlm(w) => ~AwaitApproval(w)
      BY <1>a, KeepsHand
    <3>. QED BY <1>5, <3>1, <3>2, <3>3
  <2>2. FailStep(w) \/ BeginLlm(w) \/ AwaitApproval(w)
    BY <1>5 DEF ClaimStep, ApprovalGranted
  <2>3. BeginLlm(w) \/ AwaitApproval(w) => holder' = NoWorker
    BY DEF BeginLlm, AwaitApproval
  <2>. QED BY <1>a, <1>2, <2>1, <2>2, <2>3, KeepsHand DEF TakesTurn, ComesAfter
<1>6. ASSUME \/ StartRun(w) \/ SetupDone(w) \/ LlmReturns(w) \/ NotVerifiedRetry(w)
             \/ HandleMissionCompleted(w) \/ FinalSave(w) \/ SetupFails(w) \/ MissionTimeout(w)
      PROVE  TakesTurn(w)
  <2>1. holder = NoWorker
    BY <1>6 DEF StartRun, SetupDone, LlmReturns, NotVerifiedRetry, HandleMissionCompleted,
                FinalSave, SetupFails, MissionTimeout, Suspended, LoopFree
  <2>2. PICK task : /\ Becomes(w, task) /\ ComesAfter(task, worker[w])
                    /\ holder' = IF task.pc = "walk" THEN w ELSE holder
    <3>1. CASE StartRun(w)
      <4>. DEFINE next == [worker[w] EXCEPT !.status = "running", !.pc = "setup"]
      <4>1. next.pc = "setup"
        BY <1>a DEF WorkerTask
      <4>2. Becomes(w, next) /\ worker[w].pc = "spawned" /\ holder' = holder
        BY <3>1 DEF StartRun, Suspended
      <4>. HIDE DEF next
      <4>. QED BY <4>1, <4>2 DEF ComesAfter
    <3>2. \A place \in Place : /\ [worker[w] EXCEPT !.pc = place].pc = place
                               /\ [worker[w] EXCEPT !.pc = place].at = worker[w].at
                               /\ [worker[w] EXCEPT !.pc = place].tries = worker[w].tries
      BY <1>a DEF WorkerTask
    <3>3. CASE SetupDone(w)
      BY <3>2, <3>3 DEF SetupDone, Suspended, ComesAfter, Place
    <3>4. CASE LlmReturns(w)
      BY <3>2, <3>4 DEF LlmReturns, Suspended, ComesAfter, Place
    <3>5. CASE NotVerifiedRetry(w)
      <4>. DEFINE next == [worker[w] EXCEPT !.pc = "llm", !.tries = worker[w].tries + 1]
      <4>1. next.pc = "llm" /\ next.at = worker[w].at /\ next.tries = worker[w].tries + 1
        BY <1>a DEF WorkerTask
      <4>. QED BY <3>5, <4>1 DEF NotVerifiedRetry, Suspended, ComesAfter
    <3>6. CASE HandleMissionCompleted(w)
      BY <3>2, <3>6 DEF HandleMissionCompleted, Suspended, ComesAfter, Place
    <3>7. Blank("gone").pc = "gone"
      BY DEF Blank
    <3>8. CASE FinalSave(w) \/ SetupFails(w)
      BY <3>7, <3>8 DEF FinalSave, SetupFails, Suspended, ComesAfter
    <3>9. CASE MissionTimeout(w)
      BY <3>2, <3>7, <3>9 DEF MissionTimeout, Suspended, Carrying, ComesAfter, Place
    <3>. QED BY <1>6, <3>1, <3>3, <3>4, <3>5, <3>6, <3>8, <3>9
  <2>3. worker'[w] = task /\ OthersKeep(w)
    BY <1>a, <2>2 DEF Becomes, OthersKeep, TypeOK
  <2>. QED BY <2>1, <2>2, <2>3 DEF TakesTurn
<1>. QED BY <1>1, <1>3, <1>4, <1>5, <1>6 DEF Progress, Interruption

\* v stays where it is, or it is the new worker.
StaysOrIsSpawned(v) ==
    \/ /\ worker'[v].pc = worker[v].pc /\ worker'[v].at = worker[v].at
       /\ worker'[v].tries = worker[v].tries /\ worker'[v].status = worker[v].status
    \/ worker[v].pc = "unborn" /\ worker'[v].pc = "spawned"

LEMMA OrchestrationMoves ==
    ASSUME TypeInv, Orchestration
    PROVE  holder' = holder /\ \A v \in Workers : StaysOrIsSpawned(v)
<1>1. holder' = holder
  BY DEF Orchestration, LaunchMission, RetryProject, ResumeProject, Relaunch, RefusePlan, Kill,
         ResumeRefused, ResetSteps, ResolveApproval
<1>2. ASSUME NEW w \in Workers, LaunchMission(w) \/ RetryProject(w) \/ ResumeProject(w)
      PROVE  \A v \in Workers : StaysOrIsSpawned(v)
  <2>1. worker[w].pc = "unborn"
    BY <1>2 DEF LaunchMission, NeverLaunched, RetryProject, ResumeProject, Relaunch
  <2>2. PICK image : \/ Becomes(w, Spawned(image))
                     \/ worker' = [IF registry = NoWorker THEN worker ELSE KillFlagged(registry)
                                     EXCEPT ![w] = Spawned(image)]
    BY <1>2 DEF LaunchMission, RetryProject, ResumeProject, Relaunch
  <2>3. Spawned(image).pc = "spawned"
    BY DEF Spawned, Blank
  <2>4. \A v \in Workers \ {w} : /\ worker'[v].pc = worker[v].pc /\ worker'[v].at = worker[v].at
                                 /\ worker'[v].tries = worker[v].tries
                                 /\ worker'[v].status = worker[v].status
    BY <2>2 DEF Becomes, KillFlagged, TypeInv, TypeOK, WorkerTask
  <2>5. worker'[w] = Spawned(image)
    BY <2>2 DEF Becomes, KillFlagged, TypeInv, TypeOK
  <2>. QED BY <2>1, <2>3, <2>4, <2>5, <1>1 DEF StaysOrIsSpawned
<1>3. CASE Kill \/ ResumeRefused
  <2>1. registry \in Workers /\ worker' = KillFlagged(registry)
    BY <1>3 DEF Kill, ResumeRefused, TypeInv, TypeOK
  <2>2. \A v \in Workers : /\ worker'[v].pc = worker[v].pc /\ worker'[v].at = worker[v].at
                           /\ worker'[v].tries = worker[v].tries
                           /\ worker'[v].status = worker[v].status
    BY <2>1 DEF TypeInv, TypeOK, KillFlagged, WorkerTask
  <2>. QED BY <1>1, <2>2 DEF StaysOrIsSpawned
<1>4. ASSUME RefusePlan \/ (\E S \in SUBSET Steps : ResetSteps(S))
      PROVE  \A v \in Workers : StaysOrIsSpawned(v)
  BY <1>4 DEF RefusePlan, ResetSteps, StaysOrIsSpawned
<1>5. ASSUME NEW s \in Steps, NEW verdict \in {"yes", "no"}, ResolveApproval(s, verdict)
      PROVE  \A v \in Workers : StaysOrIsSpawned(v)
  BY <1>5 DEF ResolveApproval, TypeInv, TypeOK, WorkerTask, StaysOrIsSpawned
<1>. QED BY <1>1, <1>2, <1>3, <1>4, <1>5 DEF Orchestration

\* In a step of the system one worker takes a turn, or no walk begins or ends, or all end.
LEMMA NextMoves ==
    ASSUME TypeInv, LoopIsInHands, [Next]_vars
    PROVE  /\ LoopIsInHands'
           /\ \A v \in Workers : StaysOrIsSpawned(v) \/ ComesAfter(worker'[v], worker[v])
           /\ \A v \in Workers :
                Progress(v) \/ Interruption(v) => ComesAfter(worker'[v], worker[v])
<1>1. \A v \in Workers : Progress(v) \/ Interruption(v) => ComesAfter(worker'[v], worker[v])
  BY ProgressTakesTurn DEF TakesTurn
<1>2. ASSUME NEW w \in Workers, Progress(w) \/ Interruption(w)
      PROVE  LoopIsInHands' /\ \A v \in Workers : StaysOrIsSpawned(v) \/ ComesAfter(worker'[v], worker[v])
  <2>1. TakesTurn(w)
    BY <1>2, ProgressTakesTurn
  <2>2. holder \in {NoWorker, w}
    BY <1>2 DEF Progress, Interruption, StartRun, SetupDone, SkipSettled, ObserveKill, LoopEnds,
          ClaimRefused, ClaimStep, ApprovalGranted, ApprovalDenied, ApprovalTimeout, BudgetStop,
          LlmFails, LlmReturns, LlmReturnsFusion, Verified, NotVerifiedRetry, NotVerifiedFails,
          VerifierRaises, HandleMissionCompleted, FinalSave, SetupFails, MissionTimeout,
          Suspended, LoopFree, AtStep, Walking
  <2>3. \A v \in Workers \ {w} : worker'[v] = worker[v] /\ worker[v].pc # "walk"
    BY <2>1, <2>2, ConstantsAssumption DEF TakesTurn, OthersKeep, LoopIsInHands
  <2>. QED BY <2>1, <2>3, ConstantsAssumption DEF TakesTurn, LoopIsInHands, StaysOrIsSpawned
<1>3. CASE Orchestration
  <2>1. holder' = holder /\ \A v \in Workers : StaysOrIsSpawned(v)
    BY <1>3, OrchestrationMoves
  <2>2. \A v \in Workers : worker'[v].pc = "walk" <=> worker[v].pc = "walk"
    BY <2>1 DEF StaysOrIsSpawned
  <2>. QED BY <1>1, <2>1, <2>2 DEF LoopIsInHands
<1>4. CASE Crash
  <2>1. Blank("gone").pc = "gone"
    BY DEF Blank
  <2>2. \A v \in Workers : worker'[v] = IF Alive(v) THEN Blank("gone") ELSE worker[v]
    BY <1>4 DEF Crash
  <2>3. \A v \in Workers : /\ worker'[v].pc # "walk"
                           /\ StaysOrIsSpawned(v) \/ ComesAfter(worker'[v], worker[v])
    BY <2>1, <2>2 DEF Alive, StaysOrIsSpawned, ComesAfter
  <2>4. holder' = NoWorker
    BY <1>4 DEF Crash
  <2>. QED BY <1>1, <2>3, <2>4, ConstantsAssumption DEF LoopIsInHands
<1>5. CASE UNCHANGED vars
  BY <1>1, <1>5 DEF vars, LoopIsInHands, StaysOrIsSpawned
<1>. QED BY <1>1, <1>2, <1>3, <1>4, <1>5 DEF Next

LEMMA InitLoop == Init => LoopIsInHands
BY ConstantsAssumption DEF Init, LoopIsInHands, Blank

\* Between two awaits the event loop is kept by the one worker that walks, and it comes
\* back with every outcome of a step, every interruption and every crash: no path of
\* _execute_step leaves the mission with a loop that nobody has.
THEOREM LoopIsNeverLost == Spec => []LoopIsInHands
BY InitType, InitLoop, NextType, NextMoves, PTL DEF Spec

\* Whatever the others do, a run only goes forward: each action of the worker takes it
\* closer to its end, and no kill, answer, retry, resume, edit of the steps or crash ever
\* gives it more to do.  A worker so takes fewer than StepRoom * (NSteps + 1) + 5 actions.
RunsOnlyForward ==
    [][\A w \in Workers :
        /\ StepsLeft(worker'[w]) <= StepsLeft(worker[w])
        /\ Progress(w) \/ Interruption(w) => StepsLeft(worker'[w]) < StepsLeft(worker[w])]_vars

\* What EveryRunEnds needs beside fairness: the rank is a number and it only sinks, for
\* any number of workers and steps and however long the operators go on.
THEOREM RunsWearOut ==
    Spec => [](\A w \in Workers : StepsLeft(worker[w]) \in Nat) /\ RunsOnlyForward
<1>1. TypeInv => \A w \in Workers : StepsLeft(worker[w]) \in Nat
  BY ComingAfterIsNearer DEF TypeInv, TypeOK
<1>2. ASSUME TypeInv, TypeInv', LoopIsInHands, [Next]_vars, NEW w \in Workers
      PROVE  /\ StepsLeft(worker'[w]) <= StepsLeft(worker[w])
             /\ Progress(w) \/ Interruption(w)
                  => StepsLeft(worker'[w]) < StepsLeft(worker[w])
  <2>1. worker[w] \in WorkerTask /\ worker'[w] \in WorkerTask
    BY <1>2 DEF TypeInv, TypeOK
  <2>2. /\ StepsLeft(worker[w]) \in Nat /\ StepsLeft(worker'[w]) \in Nat
        /\ ComesAfter(worker'[w], worker[w])
             => StepsLeft(worker'[w]) < StepsLeft(worker[w])
        /\ worker'[w].pc = worker[w].pc /\ worker'[w].at = worker[w].at
             /\ worker'[w].tries = worker[w].tries
             => StepsLeft(worker'[w]) = StepsLeft(worker[w])
    BY <2>1, ComingAfterIsNearer
  <2>3. /\ StaysOrIsSpawned(w) \/ ComesAfter(worker'[w], worker[w])
        /\ Progress(w) \/ Interruption(w) => ComesAfter(worker'[w], worker[w])
    BY <1>2, NextMoves
  <2>. QED BY <2>2, <2>3 DEF StaysOrIsSpawned, ComesAfter
<1>3. TypeInv /\ TypeInv' /\ LoopIsInHands /\ [Next]_vars =>
        [\A w \in Workers :
            /\ StepsLeft(worker'[w]) <= StepsLeft(worker[w])
            /\ Progress(w) \/ Interruption(w)
                 => StepsLeft(worker'[w]) < StepsLeft(worker[w])]_vars
  BY <1>2
<1>. QED BY InitType, InitLoop, NextType, NextMoves, <1>1, <1>3, PTL DEF Spec, RunsOnlyForward

-----------------------------------------------------------------------------
(* A calm mission settles: the part of MissionSettles that needs no fairness *)

\* Who is out of the for loop has ended its mission.
EndsAreTerminal ==
    \A w \in Workers : worker[w].pc \in {"publish", "closing"} => worker[w].status \in Terminal

\* w comes out of the for loop with a terminal status, and leaves it in state.json.
EndsInOrder(w) ==
    /\ worker'[w].pc \in {"publish", "closing"} => worker'[w].status \in Terminal
    /\ worker'[w].pc = "gone" => disk'.status \in Terminal

LEMMA LeavingEndsInOrder ==
    ASSUME TypeOK, NEW w \in Workers, NEW task \in WorkerTask, NEW st \in Terminal,
           Advance(w, task) \/ Finish(w, task, st)
    PROVE  EndsInOrder(w)
<1>1. CASE Advance(w, task)
  <2>. DEFINE next == [task EXCEPT !.pc = "walk", !.at = worker[w].at + 1]
  <2>1. next.pc = "walk" /\ Becomes(w, next)
    BY <1>1 DEF WorkerTask, Advance
  <2>. HIDE DEF next
  <2>. QED BY <2>1 DEF Becomes, TypeOK, EndsInOrder
<1>2. CASE Finish(w, task, st)
  <2>. DEFINE next == [task EXCEPT !.pc = "publish", !.status = st]
  <2>1. next.pc = "publish" /\ next.status = st /\ Becomes(w, next)
    BY <1>2 DEF WorkerTask, Finish
  <2>. HIDE DEF next
  <2>. QED BY <2>1 DEF Becomes, TypeOK, EndsInOrder
<1>. QED BY <1>1, <1>2

LEMMA ProgressEndsInOrder ==
    ASSUME TypeInv, EndsAreTerminal, NEW w \in Workers, Progress(w)
    PROVE  EndsInOrder(w)
<1>a. TypeOK /\ worker[w] \in WorkerTask
  BY DEF TypeInv, TypeOK
<1>b. \A st \in StepStatus : StepTo(w, st) \in WorkerTask
  BY <1>a, StepToType
<1>c. worker'[w].pc \notin {"publish", "closing", "gone"} => EndsInOrder(w)
  BY DEF EndsInOrder
<1>1. ASSUME \/ SkipSettled(w) \/ ObserveKill(w) \/ LoopEnds(w) \/ ClaimRefused(w)
             \/ VerifierRaises(w)
      PROVE  EndsInOrder(w)
  <2>1. \E st \in Terminal : Advance(w, worker[w]) \/ Finish(w, worker[w], st)
    BY <1>1 DEF SkipSettled, ObserveKill, LoopEnds, ClaimRefused, VerifierRaises, Terminal
  <2>. QED BY <1>a, <2>1, LeavingEndsInOrder
<1>2. ASSUME FailStep(w) \/ SkipStep(w) \/ CompleteStep(w) PROVE EndsInOrder(w)
  <2>1. PICK st \in StepStatus : \/ Advance(w, StepTo(w, st))
                                 \/ Finish(w, StepTo(w, st), "failed")
    <3>1. CASE FailStep(w)
      BY <3>1 DEF FailStep, StepStatus
    <3>2. CASE SkipStep(w)
      BY <3>2 DEF SkipStep, StepStatus
    <3>3. CASE CompleteStep(w)
      BY <3>3 DEF CompleteStep, StepStatus
    <3>. QED BY <1>2, <3>1, <3>2, <3>3
  <2>2. "failed" \in Terminal
    BY DEF Terminal
  <2>. QED BY <1>a, <1>b, <2>1, <2>2, LeavingEndsInOrder
<1>3. ASSUME \/ ApprovalDenied(w) \/ ApprovalTimeout(w) \/ LlmFails(w)
             \/ LlmReturnsFusion(w) \/ Verified(w) \/ NotVerifiedFails(w)
      PROVE  EndsInOrder(w)
  BY <1>2, <1>3 DEF ApprovalDenied, ApprovalTimeout, LlmFails, LlmReturnsFusion, Verified,
                    NotVerifiedFails
<1>4. CASE BudgetStop(w)
  <2>. DEFINE stopped == StepTo(w, "pending")
              task == [stopped EXCEPT !.status = "paused"]
  <2>1. stopped \in WorkerTask
    BY <1>b DEF StepStatus
  <2>2. Advance(w, task)
    BY <1>4 DEF BudgetStop
  <2>. HIDE DEF stopped
  <2>3. task \in WorkerTask
    BY <2>1 DEF WorkerTask, ProjectStatus
  <2>. HIDE DEF task
  <2>. QED BY <1>a, <2>2, <2>3, LeavingEndsInOrder DEF Terminal
<1>5. CASE ClaimStep(w) \/ ApprovalGranted(w)
  <2>1. FailStep(w) \/ BeginLlm(w) \/ AwaitApproval(w)
    BY <1>5 DEF ClaimStep, ApprovalGranted
  <2>. QED BY <1>a, <1>c, <1>2, <2>1, KeepsHand
<1>6. CASE StartRun(w)
  <2>. DEFINE next == [worker[w] EXCEPT !.status = "running", !.pc = "setup"]
  <2>1. next.pc = "setup" /\ Becomes(w, next)
    BY <1>a, <1>6 DEF WorkerTask, StartRun
  <2>. HIDE DEF next
  <2>. QED BY <1>a, <1>c, <2>1 DEF Becomes, TypeOK
<1>7. CASE SetupDone(w) \/ LlmReturns(w) \/ NotVerifiedRetry(w)
  <2>1. PICK task : Becomes(w, task) /\ task.pc \in {"walk", "verify", "llm"}
    <3>1. /\ [worker[w] EXCEPT !.pc = "walk"].pc = "walk"
          /\ [worker[w] EXCEPT !.pc = "verify"].pc = "verify"
          /\ [worker[w] EXCEPT !.pc = "llm", !.tries = worker[w].tries + 1].pc = "llm"
      BY <1>a DEF WorkerTask
    <3>. QED BY <1>7, <3>1 DEF SetupDone, LlmReturns, NotVerifiedRetry
  <2>. QED BY <1>a, <1>c, <2>1 DEF Becomes, TypeOK
<1>8. CASE HandleMissionCompleted(w)
  <2>. DEFINE next == [worker[w] EXCEPT !.pc = "closing"]
  <2>1. next.pc = "closing" /\ next.status = worker[w].status /\ Becomes(w, next)
    BY <1>a, <1>8 DEF WorkerTask, HandleMissionCompleted
  <2>. HIDE DEF next
  <2>2. worker[w].status \in Terminal
    BY <1>8 DEF HandleMissionCompleted, Suspended, EndsAreTerminal
  <2>. QED BY <1>a, <2>1, <2>2 DEF Becomes, TypeOK, EndsInOrder
<1>9. CASE FinalSave(w)
  <2>1. disk'.status = worker[w].status /\ worker[w].status \in Terminal
    BY <1>9 DEF FinalSave, SaveProject, Suspended, EndsAreTerminal
  <2>2. Blank("gone").pc = "gone"
    BY DEF Blank
  <2>. QED BY <1>a, <1>9, <2>1, <2>2 DEF FinalSave, Becomes, TypeOK, EndsInOrder
<1>. QED BY <1>1, <1>3, <1>4, <1>5, <1>6, <1>7, <1>8, <1>9 DEF Progress

\* While the process stays up, Docker starts and the mission timeout does not strike, a
\* worker that leaves has just written a terminal status.
LeavesTerminal ==
    [][\A w \in Workers : Alive(w) /\ ~Alive(w)' => disk'.status \in Terminal]_vars

LEMMA CalmKeeps ==
    ASSUME TypeInv, EndsAreTerminal, [CalmNext]_vars
    PROVE  /\ EndsAreTerminal'
           /\ \A w \in Workers : Alive(w) /\ ~Alive(w)' => disk'.status \in Terminal
<1>1. ASSUME NEW w \in Workers, Progress(w)
      PROVE  /\ EndsAreTerminal'
             /\ \A v \in Workers : Alive(v) /\ ~Alive(v)' => disk'.status \in Terminal
  <2>1. EndsInOrder(w) /\ TakesTurn(w)
    BY <1>1, ProgressEndsInOrder, ProgressTakesTurn
  <2>2. \A v \in Workers \ {w} : worker'[v] = worker[v]
    BY <2>1 DEF TakesTurn, OthersKeep
  <2>3. worker'[w].pc # "unborn"
    BY <2>1 DEF TakesTurn, ComesAfter
  <2>. QED BY <2>1, <2>2, <2>3 DEF EndsInOrder, EndsAreTerminal, Alive
<1>2. CASE Orchestration
  <2>1. \A v \in Workers : StaysOrIsSpawned(v)
    BY <1>2, OrchestrationMoves
  <2>. QED BY <2>1 DEF StaysOrIsSpawned, EndsAreTerminal, Alive
<1>3. CASE UNCHANGED vars
  BY <1>3 DEF vars, EndsAreTerminal, Alive
<1>. QED BY <1>1, <1>2, <1>3 DEF CalmNext

LEMMA CalmIsNext == CalmNext => Next
BY DEF CalmNext, Next

LEMMA InitEnds == Init => EndsAreTerminal
BY DEF Init, EndsAreTerminal, Blank

\* What MissionSettles asks beside fairness: no path through the for loop, a budget pause
\* included, takes a worker of a calm mission to its end with another last save than a
\* terminal one, for any number of workers and steps.
THEOREM CalmRunsEndTerminal == CalmSpec => []EndsAreTerminal /\ LeavesTerminal
<1>1. TypeInv /\ EndsAreTerminal /\ [CalmNext]_vars => TypeInv' /\ EndsAreTerminal'
  BY NextType, CalmKeeps, CalmIsNext
<1>2. TypeInv /\ EndsAreTerminal /\ [CalmNext]_vars =>
        [\A w \in Workers : Alive(w) /\ ~Alive(w)' => disk'.status \in Terminal]_vars
  BY CalmKeeps
<1>. QED BY InitType, InitEnds, <1>1, <1>2, PTL DEF CalmSpec, LeavesTerminal

=============================================================================
