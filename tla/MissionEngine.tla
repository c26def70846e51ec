---------------------------- MODULE MissionEngine ----------------------------
(***************************************************************************)
(* One mission (Project) of Jarvis OS: the orchestrator that launches,     *)
(* kills, retries and resumes it (engine/mission/orchestrator.py), the     *)
(* worker tasks that walk its steps (engine/mission/worker_agent.py) and   *)
(* the two files they share (engine/mission/project_store.py):             *)
(* state.json, written whole from each worker's own copy of the project,   *)
(* and step_claims.json.                                                   *)
(*                                                                         *)
(* Everything runs on one asyncio event loop.  A coroutine keeps the loop  *)
(* until it awaits something that really suspends; "holder" is the worker  *)
(* that is between two such awaits, and every other action needs the loop  *)
(* to be free.  Only a crash of the process does not.                      *)
(***************************************************************************)
EXTENDS Naturals, FiniteSets, Governance

CONSTANTS
    Workers,        \* the worker tasks that may ever be created (bounds retries)
    NoWorker,       \* nobody
    NSteps,         \* number of steps of the plan
    Level,          \* access_level of each step
    Flagged,        \* the steps with requires_approval
    BudgetEnabled,  \* settings.budget_enabled
    IsFusion        \* a Fusion 360 mission: its steps are not verified

Steps == 1..NSteps

MAX_TRIES == 2      \* _VERIFICATION_MAX_RETRIES

ASSUME ConstantsAssumption ==
    /\ NSteps \in Nat \ {0}
    /\ NoWorker \notin Workers
    /\ Level \in [Steps -> AccessLevel]
    /\ Flagged \subseteq Steps
    /\ BudgetEnabled \in BOOLEAN
    /\ IsFusion \in BOOLEAN

VARIABLES
    disk,       \* state.json: status and steps
    claims,     \* step_claims.json
    registry,   \* orchestrator._workers[project_id]
    pending,    \* orchestrator._pending_approvals, one slot per step
    worker,     \* the worker tasks
    holder,     \* who keeps the event loop
    completed,  \* history: steps some worker carried to DONE
    consent,    \* history: <<worker, step>> a human said yes to
    lessons     \* history: workers whose mission end produced a lesson

vars == <<disk, claims, registry, pending, worker, holder,
          completed, consent, lessons>>

-----------------------------------------------------------------------------
(* Types *)

StepStatus == {"pending", "running", "done", "failed", "waiting_approval", "skipped"}
ProjectStatus == {"planning", "running", "paused", "done", "failed", "killed"}
Terminal == {"done", "failed", "killed"}
Settled == {"done", "skipped"}

ProjectImage == [status : ProjectStatus, steps : [Steps -> StepStatus]]

\* Where a worker task is suspended.  "walk" is the only place where it is
\* not: it holds the loop, between two steps.
Place == {"unborn", "spawned", "setup", "walk", "approval", "llm", "verify",
          "publish", "closing", "gone"}
WorkerTask == [pc : Place, status : ProjectStatus, steps : [Steps -> StepStatus],
               at : 1..(NSteps + 1), tries : 0..(MAX_TRIES - 1),
               killed : BOOLEAN, answer : {"none", "yes", "no"}]

Blank(place) ==
    [pc |-> place, status |-> "planning", steps |-> [s \in Steps |-> "pending"],
     at |-> 1, tries |-> 0, killed |-> FALSE, answer |-> "none"]

-----------------------------------------------------------------------------
(* Vocabulary *)

LoopFree == holder = NoWorker

Suspended(w, place) == LoopFree /\ worker[w].pc = place

Alive(w) == worker[w].pc \notin {"unborn", "gone"}

\* The worker has its current step in hand (claimed and not yet left).
Carrying(w) == worker[w].pc \in {"approval", "llm", "verify"}

CurrentStep(w) == worker[w].at

\* The worker's project with its current step in status st.
StepTo(w, st) == [worker[w] EXCEPT !.steps[worker[w].at] = st]

\* ProjectStore.save_project: the whole in-memory project replaces state.json.
SaveProject(task) == disk' = [status |-> task.status, steps |-> task.steps]

Becomes(w, task) == worker' = [worker EXCEPT ![w] = task]

\* To the next step of the for loop, without leaving the event loop.
Advance(w, task) ==
    /\ Becomes(w, [task EXCEPT !.pc = "walk", !.at = worker[w].at + 1])
    /\ holder' = w

\* Out of the for loop, to the finally clause: the status is terminal, so the
\* task awaits bus.publish(MissionCompleted).
Finish(w, task, status) ==
    /\ Becomes(w, [task EXCEPT !.pc = "publish", !.status = status])
    /\ holder' = NoWorker

-----------------------------------------------------------------------------
(* Launching, killing, retrying, resuming: the orchestrator's operations.   *)
(* None of them awaits anything, so each is one step of the event loop.     *)

Init ==
    /\ disk = [status |-> "planning", steps |-> [s \in Steps |-> "pending"]]
    /\ claims = [s \in Steps |-> NoWorker]
    /\ registry = NoWorker
    /\ pending = [s \in Steps |-> NoWorker]
    /\ worker = [w \in Workers |-> Blank("unborn")]
    /\ holder = NoWorker
    /\ completed = {} /\ consent = {} /\ lessons = {}

NeverLaunched == \A w \in Workers : worker[w].pc = "unborn"

\* WorkerAgent(project=...) and create_task: the task owns the project image.
Spawned(image) ==
    [Blank("spawned") EXCEPT !.status = image.status, !.steps = image.steps]

\* kill(): cooperative, the flag is read between two steps.
KillFlagged(w) == [worker EXCEPT ![w].killed = worker[w].pc # "gone"]

\* create_and_run, every step has a success criterion.
LaunchMission(w) ==
    /\ LoopFree /\ NeverLaunched /\ disk.status = "planning"
    /\ Becomes(w, Spawned(disk))
    /\ registry' = w
    /\ UNCHANGED <<disk, claims, pending, holder, completed, consent, lessons>>

\* create_and_run, validate_step raises: the plan is kept on disk as FAILED.
RefusePlan ==
    /\ LoopFree /\ NeverLaunched /\ disk.status = "planning"
    /\ disk' = [disk EXCEPT !.status = "failed"]
    /\ UNCHANGED <<claims, registry, pending, worker, holder, completed, consent, lessons>>

Kill ==
    /\ LoopFree /\ registry # NoWorker
    /\ worker' = KillFlagged(registry)
    /\ UNCHANGED <<disk, claims, registry, pending, holder, completed, consent, lessons>>

\* The previous worker is told to stop, the project is run again from image by a
\* new worker.  Claims and pending approvals stay as they are.
Relaunch(w, image) ==
    /\ worker[w].pc = "unborn"
    /\ disk' = image
    /\ worker' = [IF registry = NoWorker THEN worker ELSE KillFlagged(registry)
                    EXCEPT ![w] = Spawned(image)]
    /\ registry' = w
    /\ UNCHANGED <<claims, pending, holder, completed, consent, lessons>>

\* mutant: every step goes back to PENDING
ResetEveryStep(st) == "pending"

\* retry_project resets the steps that were cut short or failed.
ResetStep(st) == IF st \in {"running", "failed"} THEN "pending" ELSE st

\* retry_project: whatever the status.  Before any launch it stands for a retry
\* of a plan whose process died between its first save and its launch.
RetryProject(w) ==
    /\ LoopFree
    /\ Relaunch(w, [status |-> "running",
                    steps |-> [s \in Steps |-> ResetStep(disk.steps[s])]])

IsResumable ==
    disk.status = "paused" /\ \E s \in Steps : disk.steps[s] = "pending"

ResumeProject(w) ==
    /\ LoopFree /\ IsResumable
    /\ Relaunch(w, [disk EXCEPT !.status = "running"])

\* resume_project kills the running worker before it looks at the status.
ResumeRefused ==
    /\ LoopFree /\ ~IsResumable /\ registry # NoWorker
    /\ worker' = KillFlagged(registry)
    /\ UNCHANGED <<disk, claims, registry, pending, holder, completed, consent, lessons>>

\* POST /api/projects/{id}/reset-steps edits state.json under everybody's feet.
ResetSteps(S) ==
    /\ LoopFree
    /\ disk' = [disk EXCEPT !.steps = [s \in Steps |->
                    IF s \in S THEN "pending" ELSE disk.steps[s]]]
    /\ UNCHANGED <<claims, registry, pending, worker, holder, completed, consent, lessons>>

\* resolve_approval: the slot is emptied, and the answer reaches whoever waits
\* on that future (nobody if its worker is gone).
ResolveApproval(s, verdict) ==
    /\ LoopFree /\ pending[s] # NoWorker
    /\ LET w == pending[s]
           waiting == worker[w].pc = "approval" /\ CurrentStep(w) = s
       IN /\ worker' = IF waiting THEN [worker EXCEPT ![w].answer = verdict] ELSE worker
          /\ consent' = IF waiting /\ verdict = "yes" THEN consent \cup {<<w, s>>}
                                                     ELSE consent
    /\ pending' = [pending EXCEPT ![s] = NoWorker]
    /\ UNCHANGED <<disk, claims, registry, holder, completed, lessons>>

-----------------------------------------------------------------------------
(* WorkerAgent.run: start, environment, for loop *)

StartRun(w) ==
    /\ Suspended(w, "spawned")
    /\ LET task == [worker[w] EXCEPT !.status = "running", !.pc = "setup"]
       IN Becomes(w, task) /\ SaveProject(task)
    /\ UNCHANGED <<claims, registry, pending, holder, completed, consent, lessons>>

\* _setup_environment: Docker is probed and started, the loop may run others.
SetupDone(w) ==
    /\ Suspended(w, "setup")
    /\ Becomes(w, [worker[w] EXCEPT !.pc = "walk"])
    /\ holder' = w
    /\ UNCHANGED <<disk, claims, registry, pending, completed, consent, lessons>>

\* DockerExecutor.start raises outside of run's try: the task is gone, nothing saved.
SetupFails(w) ==
    /\ Suspended(w, "setup")
    /\ Becomes(w, Blank("gone"))
    /\ UNCHANGED <<disk, claims, registry, pending, holder, completed, consent, lessons>>

Walking(w) == holder = w /\ worker[w].pc = "walk"

AtStep(w) == Walking(w) /\ CurrentStep(w) \in Steps

\* mutant: the flag is never read
KillIgnored(w) == FALSE

KillSeen(w) == worker[w].killed

SkipSettled(w) ==
    /\ AtStep(w)
    /\ worker[w].steps[CurrentStep(w)] \in Settled
    /\ Advance(w, worker[w])
    /\ UNCHANGED <<disk, claims, registry, pending, completed, consent, lessons>>

ObserveKill(w) ==
    /\ AtStep(w)
    /\ worker[w].steps[CurrentStep(w)] \notin Settled
    /\ KillSeen(w)
    /\ Finish(w, worker[w], "killed")
    /\ UNCHANGED <<disk, claims, registry, pending, completed, consent, lessons>>

\* The for loop's else: the mission is DONE, whatever its steps became.
LoopEnds(w) ==
    /\ Walking(w) /\ CurrentStep(w) \notin Steps
    /\ Finish(w, worker[w], "done")
    /\ UNCHANGED <<disk, claims, registry, pending, completed, consent, lessons>>

-----------------------------------------------------------------------------
(* WorkerAgent._execute_step up to its first suspension *)

\* mutant: claim_step always succeeds
ClaimAlways(s) == TRUE

Unclaimed(s) == claims[s] = NoWorker

\* claim_step returns False: the step is left as it is, FAILED stops the mission.
ClaimRefused(w) ==
    /\ AtStep(w)
    /\ worker[w].steps[CurrentStep(w)] \notin Settled
    /\ ~KillSeen(w)
    /\ ~Unclaimed(CurrentStep(w))
    /\ IF worker[w].steps[CurrentStep(w)] = "failed"
       THEN Finish(w, worker[w], "failed")
       ELSE Advance(w, worker[w])
    /\ UNCHANGED <<disk, claims, registry, pending, completed, consent, lessons>>

\* mutant: FAILED is not saved before the finally clause
FailStepUnsaved(w) == UNCHANGED disk /\ Finish(w, StepTo(w, "failed"), "failed")

\* A step that ended FAILED: saved by _execute_step, then run makes the mission
\* FAILED in memory.
FailStep(w) ==
    LET task == StepTo(w, "failed")
    IN SaveProject(task) /\ Finish(w, task, "failed")

\* mutant: the plan's flag is forgotten
NeedsApprovalGateOnly(s, decision) == decision \in {"approval", "dry_run"}

\* Approval by the gate or by the plan's flag.
NeedsApproval(s, decision) == decision \in {"approval", "dry_run"} \/ s \in Flagged

\* _request_approval: a new future takes the slot of the step.
AwaitApproval(w) ==
    LET task == [StepTo(w, "waiting_approval") EXCEPT !.pc = "approval", !.answer = "none"]
    IN /\ Becomes(w, task) /\ SaveProject(task)
       /\ pending' = [pending EXCEPT ![CurrentStep(w)] = w]
       /\ holder' = NoWorker

\* _execute_with_verification, first try: RUNNING is saved, the LLM is called.
BeginLlm(w) ==
    LET task == [StepTo(w, "running") EXCEPT !.pc = "llm", !.tries = 0]
    IN Becomes(w, task) /\ SaveProject(task) /\ holder' = NoWorker

\* The step is claimed and gated; the operator may have changed the category's
\* mode and the budget may have run out at any moment.
ClaimStep(w) ==
    LET s == CurrentStep(w) IN
    /\ AtStep(w)
    /\ worker[w].steps[s] \notin Settled
    /\ ~KillSeen(w)
    /\ Unclaimed(s)
    /\ claims' = [claims EXCEPT ![s] = w]
    /\ \E mode \in ApprovalMode, exhausted \in BOOLEAN :
         LET decision == Gate(Level[s], FALSE, mode, BudgetEnabled, exhausted) IN
         \/ /\ decision = "refused"
            /\ FailStep(w)
            /\ UNCHANGED pending
         \/ /\ decision # "refused" /\ NeedsApproval(s, decision)
            /\ AwaitApproval(w)
         \/ /\ decision # "refused" /\ ~NeedsApproval(s, decision)
            /\ BeginLlm(w)
            /\ UNCHANGED pending
    /\ UNCHANGED <<registry, completed, consent, lessons>>

-----------------------------------------------------------------------------
(* The suspended step: approval, LLM, verification *)

\* The human said yes: the step runs.
ApprovalGranted(w) ==
    /\ Suspended(w, "approval") /\ worker[w].answer = "yes"
    /\ BeginLlm(w)
    /\ UNCHANGED <<claims, registry, pending, completed, consent, lessons>>

\* mutant: a step that was not executed counts as DONE
SkipStepAsDone(w) ==
    LET task == StepTo(w, "done") IN SaveProject(task) /\ Advance(w, task)

\* The step is left unexecuted, SKIPPED.
SkipStep(w) ==
    LET task == StepTo(w, "skipped") IN SaveProject(task) /\ Advance(w, task)

ApprovalDenied(w) ==
    /\ Suspended(w, "approval") /\ worker[w].answer = "no"
    /\ SkipStep(w)
    /\ UNCHANGED <<claims, registry, pending, completed, consent, lessons>>

\* mutant: the wait for an approval has no timeout
ApprovalTimeoutNever(w) == FALSE /\ UNCHANGED vars

\* wait_for(shield(future), 600) gives up, possibly with an answer on its way: the
\* slot of the step is emptied and the request counts as refused.
ApprovalTimeout(w) ==
    /\ Suspended(w, "approval")
    /\ pending' = [pending EXCEPT ![CurrentStep(w)] = NoWorker]
    /\ SkipStep(w)
    /\ UNCHANGED <<claims, registry, completed, consent, lessons>>

\* The step passed: verified, or exempted from verification.
CompleteStep(w) ==
    LET task == StepTo(w, "done")
    IN /\ SaveProject(task) /\ Advance(w, task)
       /\ completed' = completed \cup {CurrentStep(w)}

\* mutant: every claim of the mission is given back
ReleaseAllClaims(s) == claims' = [t \in Steps |-> NoWorker]

\* The claim of a budget-paused step is given back.
ReleaseStepClaim(s) == claims' = [claims EXCEPT ![s] = NoWorker]

\* reserve refuses: pause_for_budget saves the project PAUSED with the step PENDING
\* and releases the claim; _execute_step returns and the for loop goes on.
BudgetStop(w) ==
    /\ Suspended(w, "llm") /\ BudgetEnabled
    /\ LET task == [StepTo(w, "pending") EXCEPT !.status = "paused"]
       IN SaveProject(task) /\ Advance(w, task)
    /\ ReleaseStepClaim(CurrentStep(w))
    /\ UNCHANGED <<registry, pending, completed, consent, lessons>>

\* The LLM loop raises or lasts more than 300 s.
LlmFails(w) ==
    /\ Suspended(w, "llm")
    /\ FailStep(w)
    /\ UNCHANGED <<claims, registry, pending, completed, consent, lessons>>

LlmReturns(w) ==
    /\ Suspended(w, "llm") /\ ~IsFusion
    /\ Becomes(w, [worker[w] EXCEPT !.pc = "verify"])
    /\ UNCHANGED <<disk, claims, registry, pending, holder, completed, consent, lessons>>

\* Fusion missions skip the verifier.
LlmReturnsFusion(w) ==
    /\ Suspended(w, "llm") /\ IsFusion
    /\ CompleteStep(w)
    /\ UNCHANGED <<claims, registry, pending, consent, lessons>>

Verified(w) ==
    /\ Suspended(w, "verify")
    /\ CompleteStep(w)
    /\ UNCHANGED <<claims, registry, pending, consent, lessons>>

\* mutant: one try too many
TriesLeftOffByOne(w) == worker[w].tries < MAX_TRIES

TriesLeft(w) == worker[w].tries + 1 < MAX_TRIES

NotVerifiedRetry(w) ==
    /\ Suspended(w, "verify") /\ TriesLeft(w)
    /\ Becomes(w, [worker[w] EXCEPT !.pc = "llm", !.tries = worker[w].tries + 1])
    /\ UNCHANGED <<disk, claims, registry, pending, holder, completed, consent, lessons>>

NotVerifiedFails(w) ==
    /\ Suspended(w, "verify") /\ ~TriesLeft(w)
    /\ FailStep(w)
    /\ UNCHANGED <<claims, registry, pending, completed, consent, lessons>>

\* An exception nobody caught below run: the mission is FAILED in memory, its
\* step stays RUNNING.
VerifierRaises(w) ==
    /\ Suspended(w, "verify")
    /\ Finish(w, worker[w], "failed")
    /\ UNCHANGED <<disk, claims, registry, pending, completed, consent, lessons>>

-----------------------------------------------------------------------------
(* The finally clause of run, the mission timeout, the crash *)

\* MissionCompleted reaches _on_mission_completed, which loads the project from disk;
\* Reflexion.reflect writes a lesson only about a terminal project.  That its LLM call
\* succeeds is taken for granted.  Then Docker is stopped.
HandleMissionCompleted(w) ==
    /\ Suspended(w, "publish")
    /\ lessons' = IF disk.status \in Terminal THEN lessons \cup {w} ELSE lessons
    /\ Becomes(w, [worker[w] EXCEPT !.pc = "closing"])
    /\ UNCHANGED <<disk, claims, registry, pending, holder, completed, consent>>

\* mutant: the last state of the mission is not saved
FinalSaveLost(w) ==
    /\ Suspended(w, "closing")
    /\ Becomes(w, Blank("gone"))
    /\ UNCHANGED <<disk, claims, registry, pending, holder, completed, consent, lessons>>

FinalSave(w) ==
    /\ Suspended(w, "closing")
    /\ SaveProject(worker[w])
    /\ Becomes(w, Blank("gone"))
    /\ UNCHANGED <<claims, registry, pending, holder, completed, consent, lessons>>

\* asyncio.wait_for(worker.run(), timeout_minutes * 60) cancels the task where it is
\* suspended.  Inside the try, a step in hand: the finally clause stops Docker and saves
\* the project, still RUNNING or PAUSED.  Outside of it, or in the finally clause of a
\* mission that had ended: nothing more is saved.  A pending approval keeps its slot, and
\* the claim is kept.
MissionTimeout(w) ==
    /\ LoopFree
    /\ \/ /\ Carrying(w)
          /\ Becomes(w, [worker[w] EXCEPT !.pc = "closing"])
       \/ /\ \/ worker[w].pc \in {"setup", "publish"}
             \/ worker[w].pc = "closing" /\ worker[w].status \in Terminal
          /\ Becomes(w, Blank("gone"))
    /\ UNCHANGED <<disk, claims, registry, pending, holder, completed, consent, lessons>>

\* The process dies, even between two saves of a worker that holds the loop, and is
\* started again: the files stay, nothing restarts the mission.
Crash ==
    /\ \E w \in Workers : Alive(w)
    /\ worker' = [w \in Workers |-> IF Alive(w) THEN Blank("gone") ELSE worker[w]]
    /\ registry' = NoWorker
    /\ pending' = [s \in Steps |-> NoWorker]
    /\ holder' = NoWorker
    /\ UNCHANGED <<disk, claims, completed, consent, lessons>>

-----------------------------------------------------------------------------

\* What the event loop does for a worker by itself.
Progress(w) ==
    \/ StartRun(w) \/ SetupDone(w)
    \/ SkipSettled(w) \/ ObserveKill(w) \/ LoopEnds(w)
    \/ ClaimRefused(w) \/ ClaimStep(w)
    \/ ApprovalGranted(w) \/ ApprovalDenied(w) \/ ApprovalTimeout(w)
    \/ BudgetStop(w) \/ LlmFails(w) \/ LlmReturns(w) \/ LlmReturnsFusion(w)
    \/ Verified(w) \/ NotVerifiedRetry(w) \/ NotVerifiedFails(w) \/ VerifierRaises(w)
    \/ HandleMissionCompleted(w) \/ FinalSave(w)

Interruption(w) == SetupFails(w) \/ MissionTimeout(w)

Orchestration ==
    \/ \E w \in Workers : LaunchMission(w) \/ RetryProject(w) \/ ResumeProject(w)
    \/ RefusePlan \/ Kill \/ ResumeRefused
    \/ \E S \in SUBSET Steps : ResetSteps(S)
    \/ \E s \in Steps, verdict \in {"yes", "no"} : ResolveApproval(s, verdict)

Next ==
    \/ Orchestration
    \/ \E w \in Workers : Progress(w) \/ Interruption(w)
    \/ Crash

Spec == Init /\ [][Next]_vars

\* asyncio resumes every ready task, and each wait of a worker is bounded by a
\* timeout (600 s for an approval, 300 s for the LLM, 60 s for a verification command).
FairSpec == Spec /\ \A w \in Workers : WF_vars(Progress(w))

\* The same system while the process stays up, Docker starts and the mission timeout
\* does not strike.
CalmNext == Orchestration \/ \E w \in Workers : Progress(w)
CalmSpec ==
    /\ Init /\ [][CalmNext]_vars
    /\ \A w \in Workers : WF_vars(Progress(w))

\* The same system with a patient operator, who relaunches the mission or edits its
\* steps only when no worker of it is alive.
PatientNext ==
    \/ Orchestration /\ \A w \in Workers : ~Alive(w)
    \/ Kill
    \/ \E s \in Steps, verdict \in {"yes", "no"} : ResolveApproval(s, verdict)
    \/ \E w \in Workers : Progress(w) \/ Interruption(w)
    \/ Crash
PatientSpec == Init /\ [][PatientNext]_vars

-----------------------------------------------------------------------------
(* Properties *)

\* Every variable stays in its type; in particular the verification tries of a step
\* never exceed _VERIFICATION_MAX_RETRIES (worker_agent.py, line 497).
TypeOK ==
    /\ disk \in ProjectImage
    /\ claims \in [Steps -> Workers \cup {NoWorker}]
    /\ registry \in Workers \cup {NoWorker}
    /\ pending \in [Steps -> Workers \cup {NoWorker}]
    /\ worker \in [Workers -> WorkerTask]
    /\ holder \in Workers \cup {NoWorker}
    /\ completed \subseteq Steps
    /\ consent \subseteq Workers \X Steps
    /\ lessons \subseteq Workers

\* A worker that waits for an approval, an LLM answer or a verdict about a step owns
\* the claim of that step: however many workers retry, resume and kill have left
\* running on the mission, no two of them carry the same step
\* (ProjectStore.claim_step; WorkerAgent._execute_step, line 433).
CarriedStepIsClaimed ==
    \A w \in Workers : Carrying(w) =>
        /\ CurrentStep(w) \in Steps
        /\ claims[CurrentStep(w)] = w

\* A step that some worker brought to DONE is never taken up again by any worker, even
\* when retry or reset-steps puts it back to PENDING on disk.
CompletedNeverRerun ==
    \A w \in Workers : Carrying(w) => CurrentStep(w) \notin completed

\* Steps that must have a human's yes: the plan says so, or their risk is above
\* AUTO_MAX_LEVEL.
Guarded == Flagged \cup {s \in Steps : Level[s] > AUTO_MAX_LEVEL}

\* The LLM never works on a guarded step unless a human said yes to this very worker
\* for this very step: late answers, timeouts and answers to other requests do not
\* open it (_execute_step, lines 458-482; orchestrator.resolve_approval).
ConsentBeforeExecution ==
    \A w \in Workers :
        worker[w].pc \in {"llm", "verify"} /\ CurrentStep(w) \in Guarded
            => <<w, CurrentStep(w)>> \in consent

\* A step is DONE in state.json only if a worker completed it: no stale copy saved by
\* an old worker can invent a DONE.
DoneOnDiskWasCompleted ==
    \A s \in Steps : disk.steps[s] = "done" => s \in completed

\* A worker that waits for an answer can still get it: its future holds the slot of its
\* step, no other request and no other timeout took it away
\* (orchestrator._pending_approvals, lines 232 and 248).
WaitingWorkerIsReachable ==
    \A w \in Workers :
        worker[w].pc = "approval" /\ worker[w].answer = "none"
            => pending[CurrentStep(w)] = w

\* Once killed, a worker may finish the step in hand but takes up no other.
KilledTakesNoStep ==
    [][\A w \in Workers :
        worker[w].killed /\ ~Carrying(w) => ~Carrying(w)']_vars

\* With a patient operator, a DONE step of state.json stays DONE unless reset-steps is
\* called: retry, resume, pause, failure, timeout and crash keep what was achieved
\* (retry_project, lines 139-147; resume_project's "sans reinitialiser").  With an
\* impatient one the older worker's copy overwrites the newer one.
DoneIsDurable ==
    [][\A s \in Steps :
        disk.steps[s] = "done" /\ disk'.steps[s] # "done"
            => \E S \in SUBSET Steps : ResetSteps(S)]_vars

\* With a patient operator, state.json holds what the worker knows of its steps wherever
\* the worker can be suspended or die, and the mission's status too until the finally
\* clause: a crash there loses no more than the step in hand (save_project's calls in
\* run and _execute_step).
StateJsonIsCurrent ==
    \A w \in Workers :
        /\ Alive(w) /\ worker[w].pc # "spawned" => disk.steps = worker[w].steps
        /\ worker[w].pc = "setup" \/ Carrying(w) => disk.status = worker[w].status

\* The steps as StepExecution sees them.
InHand == {p \in Workers \X Steps : Carrying(p[1]) /\ CurrentStep(p[1]) = p[2]}
Exec == INSTANCE StepExecution WITH inHand <- InHand

\* The claims make the engine an implementation of StepExecution.
ImplementsStepExecution == Exec!Spec

\* Every task the event loop was given ends.
EveryRunEnds ==
    \A w \in Workers : worker[w].pc = "spawned" ~> worker[w].pc = "gone"

\* Without interruption, a launched mission ends up terminal on disk, and stays so once
\* the operator stops relaunching it: the last save of every worker is a terminal one.
MissionSettles ==
    <>[](registry # NoWorker => disk.status \in Terminal)

-----------------------------------------------------------------------------
(* What the documents say and the code does not do *)

\* "met le projet en pause au lieu de le tuer" (worker_agent.py, line 210): a project
\* paused for its budget leaves the pause only when an operator relaunches it.
BudgetStopPauses ==
    [][disk.status = "paused" /\ disk'.status # "paused" => registry' # registry]_vars

\* "Une etape non verifiee bloque la progression" (CDC_jarvis_evolution.md, line 138):
\* a worker takes up a step only when every earlier one is DONE or SKIPPED, also after
\* a crash and a retry.
UnverifiedStepBlocks ==
    \A w \in Workers : Carrying(w) =>
        \A s \in 1..(CurrentStep(w) - 1) : worker[w].steps[s] \in Settled

\* "Toute mission terminee produit une lecon" (CDC_jarvis_evolution.md, line 169): when
\* the end of a mission has been published, its lesson is written.
LessonAfterCompletion ==
    \A w \in Workers :
        worker[w].pc = "closing" /\ worker[w].status \in Terminal => w \in lessons

\* "refuse de lancer un plan dont un step n'a pas de success_criterion"
\* (orchestrator.py, line 62): a refused plan is never given to a worker.
RefusedPlanNeverRuns ==
    [][NeverLaunched /\ disk.status = "failed" => NeverLaunched']_vars

=============================================================================
