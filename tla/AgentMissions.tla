---------------------------- MODULE AgentMissions ----------------------------
(***************************************************************************)
(* One agent mission of globex-fedex and the HTTP requests of its admins:  *)
(* run, resume, pause, cancel, delete, edit the workflow, approve, reject  *)
(* (services/agent_mission_service.py), over the rows of PostgreSQL.       *)
(*                                                                         *)
(* Requests run in threads, each in a transaction of its own (READ         *)
(* COMMITTED, no version column, no SELECT FOR UPDATE).  A request reads   *)
(* the committed rows once, works on what it read, and writes at its       *)
(* commit.  The row lock its first flush takes only orders the writers,    *)
(* which the order of the commits already does.  Suspending or             *)
(* reactivating an account commits in the middle of the request, which     *)
(* then shows the others a mission that is running.                        *)
(***************************************************************************)
EXTENDS Naturals, FiniteSets

CONSTANTS
    AgentRequests,  \* the requests of the admins; it bounds their number
    Assistant,      \* the chat assistant that files a question (create_tool_approval)
    MaxTasks        \* tasks of the longest workflow

ASSUME MaxTasksAssumption == MaxTasks \in Nat \ {0}

ASSUME AssistantAssumption == Assistant \notin AgentRequests

VARIABLES
    mission,    \* status column of the mission, "deleted" once its row is gone
    step,       \* status column of the steps, "none" where there is no row
    approval,   \* status column of the approval request of each step
    tasks,      \* tasks of the workflow, 1 in direct mode
    direct,     \* the mission has no workflow
    require,    \* require_approval_sensitive
    request,    \* the requests
    effects,    \* history: <<r, s>>, r did what the question of step s asked for
    edited,     \* history: the workflow was replaced under steps or under a run
    raced,      \* history: pairs of runs, or of answers to one question, that overlapped
    outage      \* history: the server died

agentVars == <<mission, step, approval, tasks, direct, require, request, effects,
               edited, raced, outage>>

Order == 1 .. MaxTasks

\* The row that request r stored for task i; the question about it has the same name.
StepId == (AgentRequests \union {Assistant}) \X Order

AgentMissionStatus == {"draft", "running", "paused", "waiting_permission",
                       "completed", "failed", "cancelled", "deleted"}

AgentStepStatus == {"none", "running", "waiting_approval", "completed", "failed", "skipped"}

ApprovalStatus == {"none", "pending", "approved", "rejected"}

Verb == {"none", "run", "approve", "reject", "pause", "cancel", "delete", "edit"}

\* A request that is "lost" was rolled back or killed before its last commit.
Stage == {"unborn", "working", "acted", "done", "lost"}

\* What a request carries from its read to its commit: the status it read, the question
\* it answers, the workflow and the flag it read, the rows it deletes, the rows it resets,
\* the orders it takes for settled and for completed, its next task, its own rows, and the
\* one it committed as running.
AgentRequest ==
    [verb : Verb, stage : Stage, seen : AgentMissionStatus, on : SUBSET StepId,
     tasks : Order, direct : BOOLEAN, require : BOOLEAN,
     doomed : SUBSET StepId, reset : SUBSET StepId, settled : SUBSET Order,
     done : SUBSET Order, next : 1 .. MaxTasks + 1,
     own : [Order -> AgentStepStatus], stored : SUBSET Order]

NewRequest ==
    [verb |-> "none", stage |-> "unborn", seen |-> "draft", on |-> {},
     tasks |-> 1, direct |-> FALSE, require |-> FALSE, doomed |-> {}, reset |-> {},
     settled |-> {}, done |-> {}, next |-> 1, own |-> [i \in Order |-> "none"], stored |-> {}]

-----------------------------------------------------------------------------
(* Vocabulary *)

StepsIn(statuses) == {s \in StepId : step[s] \in statuses}

OrdersIn(statuses) == {s[2] : s \in StepsIn(statuses)}

Pending == {s \in StepId : approval[s] = "pending"}

InFlight(r) == request[r].stage \in {"working", "acted"}

Working(r, verb) == request[r].verb = verb /\ request[r].stage = "working"

Unborn(r) == request[r].stage = "unborn"

Opened(verb) == [NewRequest EXCEPT !.verb = verb, !.stage = "working", !.seen = mission]

Becomes(r, new) == request' = [request EXCEPT ![r] = new]

Moves(r, stage) == request' = [request EXCEPT ![r].stage = stage]

\* What a request carried is gone with it.
Over(stage) == [NewRequest EXCEPT !.stage = stage]

Ends(r, stage) == Becomes(r, Over(stage))

\* mutant: the outcome of an answer is written on its step alone
KeepsStatus(r, status) == UNCHANGED mission

\* The ORM writes a status only where it differs from the one that was read.
Writes(r, status) == mission' = IF request[r].seen = status THEN mission ELSE status

Meets(r, rivals) == raced' = raced \union {{q, r} : q \in {p \in rivals : InFlight(p)}}

Runs == {r \in AgentRequests : request[r].verb = "run"}

AnswersTo(s) == {r \in AgentRequests : request[r].on = {s}}

\* The rows as the flush of r leaves them.
StepsAfter(r) ==
    [s \in StepId |-> IF s \in request[r].doomed THEN "none"
                      ELSE IF s[1] = r /\ request[r].own[s[2]] # "none"
                      THEN request[r].own[s[2]] ELSE step[s]]

\* mutant: deleting a step leaves its question
KeepsQuestions(r) ==
    [s \in StepId |-> IF s[1] = r /\ request[r].own[s[2]] = "waiting_approval"
                      THEN "pending" ELSE approval[s]]

\* Deleting a step deletes its question (ON DELETE CASCADE); storing a step that waits
\* files one.
ApprovalsAfter(r) ==
    [s \in StepId |-> IF s \in request[r].doomed THEN "none"
                      ELSE IF s[1] = r /\ request[r].own[s[2]] = "waiting_approval"
                      THEN "pending" ELSE approval[s]]

\* An UPDATE that finds its row gone rolls the request back (StaleDataError).
RowsGone(r) ==
    \/ mission = "deleted"
    \/ \E i \in request[r].stored : step[<<r, i>>] = "none"
    \/ \E s \in request[r].reset : step[s] = "none"
    \/ \E s \in request[r].on : step[s] = "none"

-----------------------------------------------------------------------------
(* run_mission and resume_mission *)

AgentInit ==
    /\ \/ /\ mission = "draft" /\ tasks = MaxTasks /\ direct = FALSE /\ require \in BOOLEAN
          /\ step = [s \in StepId |-> "none"] /\ approval = [s \in StepId |-> "none"]
       \/ /\ mission = "waiting_permission" /\ tasks = 1 /\ direct = TRUE /\ require = TRUE
          /\ step = [s \in StepId |-> IF s = <<Assistant, 1>> THEN "waiting_approval" ELSE "none"]
          /\ approval = [s \in StepId |-> IF s = <<Assistant, 1>> THEN "pending" ELSE "none"]
    /\ request = [r \in AgentRequests |-> NewRequest]
    /\ effects = {} /\ edited = FALSE /\ raced = {} /\ outage = FALSE

\* mutant: a cancelled mission is not refused
RunnableStates == {"draft", "failed", "paused", "waiting_permission", "cancelled"}

\* run_mission refuses cancelled, completed and running missions; resume_mission is the
\* same function after a check that the mission is paused.
Runnable == {"draft", "failed", "paused", "waiting_permission"}

\* The rows a run deletes before its first task: all it read, unless it resumes a paused
\* mission or runs one that waits for permission.
DoomedSteps == IF mission \in {"paused", "waiting_permission"} THEN {}
               ELSE {s \in StepId : step[s] # "none"}

RunMission(r) ==
    /\ Unborn(r) /\ mission \in Runnable
    /\ Becomes(r, [Opened("run") EXCEPT
           !.tasks = tasks, !.direct = direct, !.require = require,
           !.doomed = DoomedSteps,
           !.reset = IF mission = "failed" THEN StepsIn({"failed", "running"}) ELSE {},
           !.settled = IF mission = "paused" THEN OrdersIn({"completed", "waiting_approval"})
                       ELSE {},
           !.done = IF mission = "paused" THEN OrdersIn({"completed"}) ELSE {}])
    /\ Meets(r, Runs)
    /\ UNCHANGED <<mission, step, approval, tasks, direct, require, effects, edited, outage>>

\* A run is at task i once it has dealt with the tasks before it.
AtTask(r, i) == Working(r, "run") /\ request[r].next = i /\ i <= request[r].tasks

\* mutant: a resumed run takes a task that was under way for completed
SkipsStarted(r, i) == ~request[r].direct /\ i \in OrdersIn({"running", "completed"})

\* A resumed workflow passes the tasks that were settled when it read the mission and
\* that have a completed row: the rows it read, or the current ones after a commit.
Skips(r, i) ==
    /\ ~request[r].direct
    /\ i \in request[r].settled
    /\ i \in IF request[r].stored = {} THEN request[r].done ELSE OrdersIn({"completed"})

\* A run without a workflow stores the schema of its mission, where that is not what it
\* read: it may replace a workflow that came meanwhile.
Replans(r) ==
    \/ UNCHANGED <<tasks, direct>>
    \/ request[r].direct /\ tasks' = 1 /\ direct' = TRUE

\* The task is analysed, is out of the agent's role, cannot be chained to the one before,
\* or acts without a commit; the row goes from running to completed.
TaskCompletes(r, i) ==
    /\ AtTask(r, i)
    /\ Becomes(r, [request[r] EXCEPT
           !.own = IF Skips(r, i) THEN @ ELSE [@ EXCEPT ![i] = "completed"],
           !.next = i + 1])
    /\ UNCHANGED <<mission, step, approval, tasks, direct, require, effects, edited, raced, outage>>

\* _handle_step_output: a sensitive tool asks, the step waits and the loop is left.
TaskAsks(r, i) ==
    /\ AtTask(r, i) /\ request[r].require /\ ~Skips(r, i) /\ request[r].own[i] = "none"
    /\ Becomes(r, [request[r] EXCEPT !.own[i] = "waiting_approval", !.next = request[r].tasks + 1])
    /\ UNCHANGED <<mission, step, approval, tasks, direct, require, effects, edited, raced, outage>>

\* suspend_user and reactivate_user commit the session: the mission shows as running, the
\* rows so far are stored, and what the session holds is read afresh afterwards; the
\* workflow stays as it was parsed.
TaskCommits(r, i) ==
    /\ AtTask(r, i) /\ ~request[r].require /\ ~Skips(r, i) /\ request[r].own[i] = "none"
    /\ ~RowsGone(r)
    /\ mission' = "running"
    /\ step' = [StepsAfter(r) EXCEPT ![<<r, i>>] = "running"]
    /\ approval' = ApprovalsAfter(r)
    /\ Becomes(r, [request[r] EXCEPT !.own[i] = "running", !.stored = {i},
                                     !.doomed = {}, !.reset = {}, !.require = require])
    /\ Replans(r)
    /\ UNCHANGED <<require, effects, edited, raced, outage>>

Asked(r) == \E i \in Order : request[r].own[i] = "waiting_approval"

\* The only commit of most runs.
RunEnds(r) ==
    /\ Working(r, "run") /\ request[r].next > request[r].tasks /\ ~RowsGone(r)
    /\ mission' = IF Asked(r) THEN "waiting_permission" ELSE "completed"
    /\ step' = StepsAfter(r)
    /\ approval' = ApprovalsAfter(r)
    /\ Replans(r) /\ Ends(r, "done")
    /\ UNCHANGED <<require, effects, edited, raced, outage>>

\* Any exception of a task or of the delivery of the results: the mission is failed, the
\* row of the task stays as it was stored, running.
RunFails(r) ==
    /\ Working(r, "run") /\ ~RowsGone(r) /\ ~Asked(r)
    /\ LET i == request[r].next
           rows == StepsAfter(r)
       IN  step' = IF i > request[r].tasks THEN rows ELSE [rows EXCEPT ![<<r, i>>] = "running"]
    /\ mission' = "failed"
    /\ approval' = ApprovalsAfter(r)
    /\ Replans(r) /\ Ends(r, "done")
    /\ UNCHANGED <<require, effects, edited, raced, outage>>

-----------------------------------------------------------------------------
(* approve_request and reject_request *)

\* mutant: the status of the request is not looked at
AnyQuestion == {s \in StepId : approval[s] # "none"}

\* Only a pending question is answered; the status of its mission is not looked at.
Answerable == Pending

Approve(r, s) ==
    /\ Unborn(r) /\ s \in Answerable
    /\ Becomes(r, [Opened("approve") EXCEPT !.on = {s}])
    /\ Meets(r, AnswersTo(s))
    /\ UNCHANGED <<mission, step, approval, tasks, direct, require, effects, edited, outage>>

Reject(r, s) ==
    /\ Unborn(r) /\ s \in Answerable
    /\ Becomes(r, [Opened("reject") EXCEPT !.on = {s}])
    /\ Meets(r, AnswersTo(s))
    /\ UNCHANGED <<mission, step, approval, tasks, direct, require, effects, edited, outage>>

\* A mail, a support reply or another tool of the assistant: nothing is stored yet.
AnswerActs(r) ==
    /\ Working(r, "approve")
    /\ effects' = effects \union {<<r, s>> : s \in request[r].on}
    /\ Moves(r, "acted")
    /\ UNCHANGED <<mission, step, approval, tasks, direct, require, edited, raced, outage>>

\* An account is suspended or reactivated: its commit stores the answer, not the outcome.
\* Where the task is executed again (the last branch) it also stores both rows as running.
\* The mission's row is read afresh afterwards, so that any outcome is then written.
AnswerCommits(r) ==
    /\ Working(r, "approve") /\ ~RowsGone(r)
    /\ \E s \in request[r].on, again \in BOOLEAN :
         /\ approval' = [approval EXCEPT ![s] = "approved"]
         /\ step' = IF again THEN [step EXCEPT ![s] = "running"] ELSE step
         /\ mission' = IF again THEN "running" ELSE mission
         /\ effects' = effects \union {<<r, s>>}
    /\ Becomes(r, [request[r] EXCEPT !.stage = "acted", !.seen = "running"])
    /\ UNCHANGED <<tasks, direct, require, edited, raced, outage>>

\* The step of the question takes the outcome of the action.
OutcomeForStep(r, status) ==
    step' = [s \in StepId |-> IF s \in request[r].on THEN status ELSE step[s]]

\* The whole mission is over with the answered step, whatever tasks it has left.
\* "completed" also stands for an action that changed nothing, "failed" for an account
\* that is gone or a tool that failed.
AnswerEnds(r) ==
    /\ request[r].verb = "approve" /\ InFlight(r) /\ ~RowsGone(r)
    /\ \E status \in {"completed", "failed"} : OutcomeForStep(r, status) /\ Writes(r, status)
    /\ approval' = [s \in StepId |-> IF s \in request[r].on THEN "approved" ELSE approval[s]]
    /\ Ends(r, "done")
    /\ UNCHANGED <<tasks, direct, require, effects, edited, raced, outage>>

RejectEnds(r) ==
    /\ Working(r, "reject") /\ ~RowsGone(r)
    /\ OutcomeForStep(r, "skipped") /\ Writes(r, "failed")
    /\ approval' = [s \in StepId |-> IF s \in request[r].on THEN "rejected" ELSE approval[s]]
    /\ Ends(r, "done")
    /\ UNCHANGED <<tasks, direct, require, effects, edited, raced, outage>>

-----------------------------------------------------------------------------
(* pause, cancel, delete, edit; rollbacks and the death of the server *)

\* The states each of the short requests accepts.
Accepts(verb) ==
    CASE verb = "pause"  -> {"running"}
      [] verb = "cancel" -> AgentMissionStatus \ {"completed", "cancelled", "deleted"}
      [] verb = "delete" -> {"draft", "failed", "cancelled"}
      [] verb = "edit"   -> AgentMissionStatus \ {"cancelled", "deleted"}

ShortRequest(r, verb) ==
    /\ Unborn(r) /\ mission \in Accepts(verb)
    /\ Becomes(r, Opened(verb))
    /\ UNCHANGED <<mission, step, approval, tasks, direct, require, effects, edited, raced, outage>>

\* pause_mission and cancel_mission change the status column and nothing else: neither
\* the run in flight nor the questions are told.
PauseEnds(r) ==
    /\ Working(r, "pause") /\ ~RowsGone(r)
    /\ mission' = "paused" /\ Ends(r, "done")
    /\ UNCHANGED <<step, approval, tasks, direct, require, effects, edited, raced, outage>>

CancelEnds(r) ==
    /\ Working(r, "cancel") /\ ~RowsGone(r)
    /\ mission' = "cancelled" /\ Ends(r, "done")
    /\ UNCHANGED <<step, approval, tasks, direct, require, effects, edited, raced, outage>>

DeleteEnds(r) ==
    /\ Working(r, "delete")
    /\ mission' = "deleted"
    /\ step' = [s \in StepId |-> "none"] /\ approval' = [s \in StepId |-> "none"]
    /\ Ends(r, "done")
    /\ UNCHANGED <<tasks, direct, require, effects, edited, raced, outage>>

\* update_mission_workflow replaces workflow and flag, and refuses a mission that is running
\* or completed; generate_plan leaves no workflow.  Both leave the steps and the runs.
EditEnds(r) ==
    /\ Working(r, "edit") /\ ~RowsGone(r)
    /\ \/ tasks' = 1 /\ direct' = TRUE /\ UNCHANGED require
       \/ /\ request[r].seen \notin {"running", "completed"}
          /\ tasks' \in Order /\ direct' = FALSE /\ require' \in BOOLEAN
    /\ edited' = (edited \/ (\E s \in StepId : step[s] # "none") \/ (\E q \in Runs : InFlight(q)))
    /\ Ends(r, "done")
    /\ UNCHANGED <<mission, step, approval, effects, raced, outage>>

\* A commit that finds its rows gone, or an exception while an answer is carried out.
RequestFails(r) ==
    /\ InFlight(r) /\ (RowsGone(r) \/ request[r].verb = "approve")
    /\ request[r].verb # "delete"
    /\ Ends(r, "lost")
    /\ UNCHANGED <<mission, step, approval, tasks, direct, require, effects, edited, raced, outage>>

\* The server dies once: what its requests had not committed is rolled back.
ServerDies ==
    /\ ~outage /\ outage' = TRUE
    /\ \E r \in AgentRequests : InFlight(r)
    /\ request' = [r \in AgentRequests |-> IF InFlight(r) THEN Over("lost") ELSE request[r]]
    /\ UNCHANGED <<mission, step, approval, tasks, direct, require, effects, edited, raced>>

AgentProgress(r) ==
    \/ \E i \in Order : TaskCompletes(r, i) \/ TaskAsks(r, i) \/ TaskCommits(r, i)
    \/ RunEnds(r) \/ RunFails(r)
    \/ AnswerActs(r) \/ AnswerCommits(r) \/ AnswerEnds(r) \/ RejectEnds(r)
    \/ PauseEnds(r) \/ CancelEnds(r) \/ DeleteEnds(r) \/ EditEnds(r)
    \/ RequestFails(r)

AgentNext ==
    \/ \E r \in AgentRequests :
         \/ RunMission(r)
         \/ \E s \in StepId : Approve(r, s) \/ Reject(r, s)
         \/ \E verb \in {"pause", "cancel", "delete", "edit"} : ShortRequest(r, verb)
         \/ AgentProgress(r)
    \/ ServerDies

AgentSpec == AgentInit /\ [][AgentNext]_agentVars

\* A thread that serves a request is not stopped before its end: the calls it makes to
\* LLMs and SMTP have timeouts.
AgentFairness == \A r \in AgentRequests : WF_agentVars(AgentProgress(r))

-----------------------------------------------------------------------------
(* Properties *)

AgentTypeOK ==
    /\ mission \in AgentMissionStatus
    /\ step \in [StepId -> AgentStepStatus]
    /\ approval \in [StepId -> ApprovalStatus]
    /\ tasks \in Order
    /\ direct \in BOOLEAN /\ require \in BOOLEAN
    /\ request \in [AgentRequests -> AgentRequest]
    /\ effects \in SUBSET (AgentRequests \X StepId)
    /\ edited \in BOOLEAN /\ outage \in BOOLEAN
    /\ raced \in SUBSET (SUBSET AgentRequests)

\* A question that can still be answered is about a step that waits for the answer:
\* whatever ran, failed, was paused or was deleted meanwhile, approve_request never
\* finds the step of a pending question in another state.
QuestionHasItsStep == \A s \in Pending : step[s] = "waiting_approval"

\* A mission that waits for permission has a question an admin can answer; the one
\* exception is an answer that was stored by the commit of an account action and whose
\* outcome is still to be written, or was lost with its request.
WaitingHasQuestion ==
    mission = "waiting_permission" =>
        \/ Pending # {}
        \/ \E s \in StepId : approval[s] = "approved" /\ step[s] = "waiting_approval"

\* What a question asks for is done twice only by two answers that overlapped, or when
\* the first answer was rolled back after it had acted.
ActsOncePerQuestion ==
    \A x, y \in effects :
        x[2] = y[2] /\ x[1] # y[1] =>
            \/ {x[1], y[1]} \in raced
            \/ request[x[1]].stage = "lost" \/ request[y[1]].stage = "lost"

\* A mission completed by a run alone (no question answered, nothing overlapped, no
\* workflow replaced under way) has a completed step for each task, also after pauses,
\* failures, restarts and runs anew.
CompletedRanEveryTask ==
    /\ mission = "completed" /\ ~edited /\ raced = {}
    /\ \A s \in StepId : approval[s] \notin {"approved", "rejected"}
    => \A i \in 1 .. tasks : i \in OrdersIn({"completed"})

Latecomer(r) ==
    \/ request[r].seen \notin {"completed", "cancelled"}
    \/ request[r].verb \in {"approve", "reject", "delete"}

\* A mission that was completed or cancelled changes its status again only through a
\* request that had read it before, an answer to a question that was left pending, or
\* a deletion that had read it cancelled.
OverStaysOver ==
    [][mission' # mission /\ mission \in {"completed", "cancelled"} =>
          \E r \in AgentRequests : request'[r] # request[r] /\ Latecomer(r)]_agentVars

\* A mission does not stay running for ever: its run or its answer takes it out of there,
\* unless the server died or the request was rolled back after a commit on the way.
RunningEnds ==
    []<>(\/ mission # "running" \/ outage
         \/ \E r \in AgentRequests : request[r].stage = "lost")

=============================================================================
