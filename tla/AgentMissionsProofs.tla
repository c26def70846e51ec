-------------------------- MODULE AgentMissionsProofs --------------------------
(***************************************************************************)
(* Theorems about AgentMissions, for any number of requests and tasks.     *)
(*                                                                         *)
(* A row belongs to the run that stored it: nobody else ever files a       *)
(* question about it, so that a question is asked once.  From there        *)
(* QuestionHasItsStep is about what one commit writes, ActsOncePerQuestion *)
(* about two requests that carry the same question, and WaitingHasQuestion *)
(* about the last question asked, which nobody carries who read the        *)
(* mission in another state.  CompletedRanEveryTask follows a run along    *)
(* its tasks, each of which it completed or found settled.  At the end,    *)
(* ActionsLeft ranks what a request has left to do, which only decreases.  *)
(***************************************************************************)
EXTENDS AgentMissions, TLAPS

(* What requests become *)

LEMMA OrderType == 1 \in Order /\ Order \subseteq Nat /\ \A i \in Order : i + 1 \in 1 .. MaxTasks + 1
BY MaxTasksAssumption DEF Order

LEMMA NewType == NewRequest \in AgentRequest /\ 1 \in 1 .. MaxTasks + 1
<1>1. 1 \in 1 .. MaxTasks + 1
  BY MaxTasksAssumption
<1>. QED BY <1>1, OrderType
         DEF NewRequest, AgentRequest, Verb, Stage, AgentMissionStatus, AgentStepStatus

LEMMA TaskNumbers ==
    ASSUME AgentTypeOK, NEW r \in AgentRequests
    PROVE  /\ request[r].tasks \in Nat /\ request[r].next \in Nat
           /\ request[r].tasks + 1 \in 1 .. MaxTasks + 1
<1>1. request[r] \in AgentRequest
  BY DEF AgentTypeOK
<1>2. request[r].tasks \in Order /\ request[r].next \in 1 .. MaxTasks + 1
  BY <1>1 DEF AgentRequest
<1>3. request[r].tasks \in Nat /\ request[r].tasks + 1 \in 1 .. MaxTasks + 1
  BY <1>2, OrderType
<1>4. request[r].next \in Nat
  BY <1>2, MaxTasksAssumption
<1>. QED BY <1>3, <1>4

LEMMA OverIs ==
    ASSUME NEW stage \in Stage
    PROVE  /\ Over(stage) \in AgentRequest
           /\ Over(stage).stage = stage /\ Over(stage).verb = "none"
           /\ Over(stage).on = {} /\ Over(stage).doomed = {} /\ Over(stage).seen = "draft"
           /\ Over(stage).own = [i \in Order |-> "none"]
<1>1. NewRequest \in AgentRequest
  BY NewType
<1>2. Over(stage) \in AgentRequest
  BY <1>1 DEF Over, AgentRequest
<1>. QED BY <1>2 DEF Over, NewRequest

LEMMA OpenedIs ==
    ASSUME AgentTypeOK, NEW verb \in Verb
    PROVE  /\ Opened(verb) \in AgentRequest
           /\ Opened(verb).stage = "working" /\ Opened(verb).verb = verb
           /\ Opened(verb).on = {} /\ Opened(verb).doomed = {} /\ Opened(verb).seen = mission
           /\ Opened(verb).own = [i \in Order |-> "none"]
<1>1. NewRequest \in AgentRequest
  BY NewType
<1>2. Opened(verb) \in AgentRequest
  BY <1>1 DEF Opened, AgentRequest, Stage, AgentTypeOK
<1>. QED BY <1>2 DEF Opened, NewRequest

\* A request becomes what it is given, the others stay as they are.
LEMMA BecomesThat ==
    ASSUME AgentTypeOK, NEW r \in AgentRequests, NEW new \in AgentRequest, Becomes(r, new)
    PROVE  /\ request' \in [AgentRequests -> AgentRequest]
           /\ request'[r] = new /\ \A q \in AgentRequests \ {r} : request'[q] = request[q]
BY DEF Becomes, AgentTypeOK

\* The requests that begin.
LEMMA BeginsRun ==
    ASSUME AgentTypeOK, NEW r \in AgentRequests, RunMission(r)
    PROVE  /\ request' \in [AgentRequests -> AgentRequest]
           /\ \A q \in AgentRequests \ {r} : request'[q] = request[q]
           /\ request'[r].stage = "working" /\ request'[r].verb = "run"
           /\ request'[r].seen = mission /\ request'[r].on = {}
           /\ request'[r].doomed \subseteq {s \in StepId : step[s] # "none"}
           /\ request'[r].own = [i \in Order |-> "none"]
<1>. DEFINE open == Opened("run")
<1>1. /\ open \in AgentRequest /\ open.stage = "working" /\ open.verb = "run"
      /\ open.on = {} /\ open.seen = mission /\ open.own = [i \in Order |-> "none"]
  BY OpenedIs DEF Verb
<1>. HIDE DEF open
<1>2. PICK doomed, reset, settled, done :
        /\ doomed = DoomedSteps
        /\ reset = IF mission = "failed" THEN StepsIn({"failed", "running"}) ELSE {}
        /\ settled = IF mission = "paused" THEN OrdersIn({"completed", "waiting_approval"}) ELSE {}
        /\ done = IF mission = "paused" THEN OrdersIn({"completed"}) ELSE {}
        /\ Becomes(r, [open EXCEPT !.tasks = tasks, !.direct = direct, !.require = require,
                                   !.doomed = doomed, !.reset = reset, !.settled = settled,
                                   !.done = done])
  BY DEF RunMission, open
<1>3. /\ doomed \subseteq {s \in StepId : step[s] # "none"} /\ reset \subseteq StepId
      /\ settled \subseteq Order /\ done \subseteq Order
  BY <1>2 DEF DoomedSteps, StepsIn, OrdersIn, StepId
<1>. DEFINE new == [open EXCEPT !.tasks = tasks, !.direct = direct, !.require = require,
                                !.doomed = doomed, !.reset = reset, !.settled = settled,
                                !.done = done]
<1>4. /\ new \in AgentRequest /\ new.stage = "working" /\ new.verb = "run" /\ new.on = {}
      /\ new.seen = mission /\ new.doomed = doomed /\ new.own = [i \in Order |-> "none"]
  BY <1>1, <1>3 DEF AgentRequest, AgentTypeOK
<1>5. Becomes(r, new)
  BY <1>2
<1>. HIDE DEF new
<1>. QED BY <1>3, <1>4, <1>5, BecomesThat

LEMMA BeginsAnswer ==
    ASSUME AgentTypeOK, NEW r \in AgentRequests, NEW s \in StepId, Approve(r, s) \/ Reject(r, s)
    PROVE  /\ request' \in [AgentRequests -> AgentRequest]
           /\ \A q \in AgentRequests \ {r} : request'[q] = request[q]
           /\ request'[r].stage = "working" /\ request'[r].verb \in {"approve", "reject"}
           /\ request'[r].seen = mission /\ request'[r].on = {s}
           /\ request'[r].doomed = {} /\ request'[r].own = [i \in Order |-> "none"]
<1>1. PICK verb \in {"approve", "reject"} : Becomes(r, [Opened(verb) EXCEPT !.on = {s}])
  BY DEF Approve, Reject
<1>. DEFINE new == [Opened(verb) EXCEPT !.on = {s}]
<1>2. /\ new \in AgentRequest /\ new.stage = "working" /\ new.verb = verb /\ new.on = {s}
      /\ new.seen = mission /\ new.doomed = {} /\ new.own = [i \in Order |-> "none"]
  BY OpenedIs, verb \in Verb DEF AgentRequest, Verb
<1>3. Becomes(r, new)
  BY <1>1
<1>. HIDE DEF new
<1>. QED BY <1>2, <1>3, BecomesThat

LEMMA BeginsShort ==
    ASSUME AgentTypeOK, NEW r \in AgentRequests, NEW verb \in {"pause", "cancel", "delete", "edit"},
           ShortRequest(r, verb)
    PROVE  /\ request' \in [AgentRequests -> AgentRequest]
           /\ \A q \in AgentRequests \ {r} : request'[q] = request[q]
           /\ request'[r].stage = "working" /\ request'[r].verb = verb
           /\ request'[r].seen = mission /\ request'[r].on = {}
           /\ request'[r].doomed = {} /\ request'[r].own = [i \in Order |-> "none"]
<1>1. Becomes(r, Opened(verb)) /\ verb \in Verb
  BY DEF ShortRequest, Verb
<1>. QED BY <1>1, OpenedIs, BecomesThat

\* The tasks of a run change its own rows and its next task.
TaskMoves(r) ==
    /\ request' \in [AgentRequests -> AgentRequest]
    /\ \A q \in AgentRequests \ {r} : request'[q] = request[q]
    /\ request[r].stage = "working" /\ request[r].verb = "run"
    /\ request'[r].stage = "working" /\ request'[r].verb = "run"
    /\ request'[r].seen = request[r].seen /\ request'[r].on = request[r].on
    /\ request'[r].doomed \subseteq request[r].doomed

LEMMA CompletesMoves ==
    ASSUME AgentTypeOK, NEW r \in AgentRequests, NEW i \in Order, TaskCompletes(r, i)
    PROVE  /\ TaskMoves(r)
           /\ request[r].next <= request[r].tasks
           /\ \A j \in Order : request'[r].own[j] \in {request[r].own[j], "completed"}
<1>. DEFINE own == IF Skips(r, i) THEN request[r].own ELSE [request[r].own EXCEPT ![i] = "completed"]
            new == [request[r] EXCEPT !.own = own, !.next = i + 1]
<1>1. request[r] \in AgentRequest
  BY DEF AgentTypeOK
<1>2. request[r].own \in [Order -> AgentStepStatus]
  BY <1>1 DEF AgentRequest
<1>3. own \in [Order -> AgentStepStatus] /\ \A j \in Order : own[j] \in {request[r].own[j], "completed"}
  BY <1>2 DEF AgentStepStatus
<1>4. Becomes(r, new)
  BY DEF TaskCompletes
<1>. HIDE DEF own
<1>5. /\ new \in AgentRequest /\ new.stage = request[r].stage /\ new.verb = request[r].verb
      /\ new.seen = request[r].seen /\ new.on = request[r].on /\ new.doomed = request[r].doomed
      /\ new.own = own
  BY <1>1, <1>3, OrderType DEF AgentRequest
<1>. HIDE DEF new
<1>6. request[r].stage = "working" /\ request[r].verb = "run" /\ request[r].next <= request[r].tasks
  BY DEF TaskCompletes, AtTask, Working
<1>. QED BY <1>3, <1>4, <1>5, <1>6, BecomesThat DEF TaskMoves

LEMMA AsksMoves ==
    ASSUME AgentTypeOK, NEW r \in AgentRequests, NEW i \in Order, TaskAsks(r, i)
    PROVE  TaskMoves(r) /\ request'[r].next > request'[r].tasks
<1>. DEFINE own == [request[r].own EXCEPT ![i] = "waiting_approval"]
            new == [request[r] EXCEPT !.own = own, !.next = request[r].tasks + 1]
<1>1. request[r] \in AgentRequest
  BY DEF AgentTypeOK
<1>2. own \in [Order -> AgentStepStatus]
  BY <1>1 DEF AgentRequest, AgentStepStatus
<1>3. /\ request[r].tasks + 1 \in 1 .. MaxTasks + 1
      /\ request[r].tasks + 1 > request[r].tasks
  BY TaskNumbers
<1>4. Becomes(r, new)
  BY <1>1 DEF TaskAsks, AgentRequest
<1>. HIDE DEF own
<1>5. /\ new \in AgentRequest /\ new.stage = request[r].stage /\ new.verb = request[r].verb
      /\ new.seen = request[r].seen /\ new.on = request[r].on /\ new.doomed = request[r].doomed
      /\ new.next = request[r].tasks + 1 /\ new.tasks = request[r].tasks
  BY <1>1, <1>2, <1>3 DEF AgentRequest
<1>. HIDE DEF new
<1>6. request[r].stage = "working" /\ request[r].verb = "run"
  BY DEF TaskAsks, AtTask, Working
<1>7. /\ request' \in [AgentRequests -> AgentRequest] /\ request'[r] = new
      /\ \A q \in AgentRequests \ {r} : request'[q] = request[q]
  BY <1>4, <1>5, BecomesThat
<1>. QED BY <1>3, <1>5, <1>6, <1>7 DEF TaskMoves

LEMMA CommitsMoves ==
    ASSUME AgentTypeOK, NEW r \in AgentRequests, NEW i \in Order, TaskCommits(r, i)
    PROVE  /\ TaskMoves(r) /\ request[r].next <= request[r].tasks /\ request'[r] # request[r]
           /\ \A j \in Order : request'[r].own[j] \in {request[r].own[j], "running"}
<1>. DEFINE own == [request[r].own EXCEPT ![i] = "running"]
            new == [request[r] EXCEPT !.own = own, !.stored = {i}, !.doomed = {}, !.reset = {},
                                      !.require = require]
<1>1. request[r] \in AgentRequest
  BY DEF AgentTypeOK
<1>2. /\ own \in [Order -> AgentStepStatus] /\ own[i] = "running"
      /\ \A j \in Order : own[j] \in {request[r].own[j], "running"}
  BY <1>1 DEF AgentRequest, AgentStepStatus
<1>3. Becomes(r, new) /\ request[r].own[i] = "none"
  BY <1>1 DEF TaskCommits, AgentRequest
<1>. HIDE DEF own
<1>4. /\ new \in AgentRequest /\ new.stage = request[r].stage /\ new.verb = request[r].verb
      /\ new.seen = request[r].seen /\ new.on = request[r].on /\ new.doomed = {}
      /\ new.own = own
  BY <1>1, <1>2 DEF AgentRequest, AgentTypeOK
<1>. HIDE DEF new
<1>5. request[r].stage = "working" /\ request[r].verb = "run" /\ request[r].next <= request[r].tasks
  BY DEF TaskCommits, AtTask, Working
<1>6. /\ request' \in [AgentRequests -> AgentRequest] /\ request'[r] = new
      /\ \A q \in AgentRequests \ {r} : request'[q] = request[q]
  BY <1>3, <1>4, BecomesThat
<1>7. request'[r] # request[r]
  BY <1>2, <1>3, <1>4, <1>6
<1>. QED BY <1>2, <1>4, <1>5, <1>6, <1>7 DEF TaskMoves

\* An answer that acts is the same answer.
LEMMA AnswerMoves ==
    ASSUME AgentTypeOK, NEW r \in AgentRequests, AnswerActs(r) \/ AnswerCommits(r)
    PROVE  /\ request' \in [AgentRequests -> AgentRequest]
           /\ \A q \in AgentRequests \ {r} : request'[q] = request[q]
           /\ request[r].stage = "working" /\ request[r].verb = "approve"
           /\ request'[r].stage = "acted" /\ request'[r].verb = "approve"
           /\ request'[r].on = request[r].on /\ request'[r].doomed = request[r].doomed
           /\ request'[r].own = request[r].own
           /\ request'[r].seen \in {request[r].seen, "running"}
<1>1. request[r] \in AgentRequest
  BY DEF AgentTypeOK
<1>2. request[r].stage = "working" /\ request[r].verb = "approve"
  BY DEF AnswerActs, AnswerCommits, Working
<1>3. CASE AnswerActs(r)
  <2>. DEFINE new == [request[r] EXCEPT !.stage = "acted"]
  <2>1. /\ new \in AgentRequest /\ new.stage = "acted" /\ new.verb = request[r].verb
        /\ new.seen = request[r].seen /\ new.on = request[r].on
        /\ new.doomed = request[r].doomed /\ new.own = request[r].own
    BY <1>1 DEF AgentRequest, Stage
  <2>2. Becomes(r, new)
    BY <1>1, <1>3 DEF AnswerActs, Moves, Becomes
  <2>. HIDE DEF new
  <2>. QED BY <1>2, <2>1, <2>2, BecomesThat
<1>4. CASE AnswerCommits(r)
  <2>. DEFINE new == [request[r] EXCEPT !.stage = "acted", !.seen = "running"]
  <2>1. /\ new \in AgentRequest /\ new.stage = "acted" /\ new.verb = request[r].verb
        /\ new.seen = "running" /\ new.on = request[r].on
        /\ new.doomed = request[r].doomed /\ new.own = request[r].own
    BY <1>1 DEF AgentRequest, Stage, AgentMissionStatus
  <2>2. Becomes(r, new)
    BY <1>1, <1>4 DEF AnswerCommits
  <2>. HIDE DEF new
  <2>. QED BY <1>2, <2>1, <2>2, BecomesThat
<1>. QED BY <1>3, <1>4

LEMMA EndsOver ==
    ASSUME AgentTypeOK, NEW r \in AgentRequests, NEW stage \in {"done", "lost"}, Ends(r, stage)
    PROVE  /\ request' \in [AgentRequests -> AgentRequest]
           /\ \A q \in AgentRequests \ {r} : request'[q] = request[q]
           /\ request'[r].stage = stage /\ request'[r].verb = "none" /\ request'[r].on = {}
           /\ request'[r].doomed = {} /\ request'[r].own = [i \in Order |-> "none"]
<1>1. stage \in Stage
  BY DEF Stage
<1>. QED BY <1>1, OverIs, BecomesThat DEF Ends

-----------------------------------------------------------------------------
(* Types *)

LEMMA RowsType ==
    ASSUME AgentTypeOK, NEW r \in AgentRequests
    PROVE  /\ StepsAfter(r) \in [StepId -> AgentStepStatus]
           /\ ApprovalsAfter(r) \in [StepId -> ApprovalStatus]
           /\ \A i \in Order : <<r, i>> \in StepId
<1>1. \A s \in StepId : request[r].own[s[2]] \in AgentStepStatus
  BY DEF AgentTypeOK, AgentRequest, StepId
<1>. QED BY <1>1 DEF StepsAfter, ApprovalsAfter, AgentTypeOK, ApprovalStatus, AgentStepStatus, StepId

LEMMA MeetsType ==
    ASSUME AgentTypeOK, NEW r \in AgentRequests, NEW rivals \in SUBSET AgentRequests, Meets(r, rivals)
    PROVE  raced' \in SUBSET (SUBSET AgentRequests)
BY DEF Meets, AgentTypeOK

LEMMA ReplansType ==
    ASSUME AgentTypeOK, NEW r \in AgentRequests, Replans(r)
    PROVE  tasks' \in Order /\ direct' \in BOOLEAN
<1>1. CASE UNCHANGED <<tasks, direct>>
  BY <1>1 DEF AgentTypeOK
<1>2. CASE tasks' = 1 /\ direct' = TRUE
  BY <1>2, OrderType
<1>. QED BY <1>1, <1>2 DEF Replans

\* The steps of a run that is under way.
LEMMA RunType ==
    ASSUME AgentTypeOK, NEW r \in AgentRequests,
           \/ RunMission(r) \/ RunEnds(r) \/ RunFails(r)
           \/ \E i \in Order : TaskCompletes(r, i) \/ TaskAsks(r, i) \/ TaskCommits(r, i)
    PROVE  AgentTypeOK'
<1>. USE DEF AgentTypeOK
<1>1. CASE RunMission(r)
  <2>1. raced' \in SUBSET (SUBSET AgentRequests)
    BY <1>1, MeetsType DEF RunMission, Runs
  <2>2. request' \in [AgentRequests -> AgentRequest]
    BY <1>1, BeginsRun
  <2>. QED BY <1>1, <2>1, <2>2 DEF RunMission
<1>2. CASE RunEnds(r)
  <2>1. request' \in [AgentRequests -> AgentRequest]
    BY <1>2, EndsOver DEF RunEnds
  <2>2. tasks' \in Order /\ direct' \in BOOLEAN
    BY <1>2, ReplansType DEF RunEnds
  <2>. QED BY <1>2, <2>1, <2>2, RowsType DEF RunEnds, AgentMissionStatus
<1>3. CASE RunFails(r)
  <2>1. request' \in [AgentRequests -> AgentRequest]
    BY <1>3, EndsOver DEF RunFails
  <2>2. step' \in [StepId -> AgentStepStatus]
    BY <1>3, RowsType DEF RunFails, AgentStepStatus
  <2>3. tasks' \in Order /\ direct' \in BOOLEAN
    BY <1>3, ReplansType DEF RunFails
  <2>. QED BY <1>3, <2>1, <2>2, <2>3, RowsType DEF RunFails, AgentMissionStatus
<1>4. ASSUME NEW i \in Order, TaskCompletes(r, i) \/ TaskAsks(r, i) PROVE AgentTypeOK'
  <2>1. request' \in [AgentRequests -> AgentRequest]
    BY <1>4, CompletesMoves, AsksMoves DEF TaskMoves
  <2>. QED BY <1>4, <2>1 DEF TaskCompletes, TaskAsks
<1>5. ASSUME NEW i \in Order, TaskCommits(r, i) PROVE AgentTypeOK'
  <2>1. request' \in [AgentRequests -> AgentRequest]
    BY <1>5, CommitsMoves DEF TaskMoves
  <2>2. step' \in [StepId -> AgentStepStatus]
    BY <1>5, RowsType DEF TaskCommits, AgentStepStatus
  <2>3. tasks' \in Order /\ direct' \in BOOLEAN
    BY <1>5, ReplansType DEF TaskCommits
  <2>. QED BY <1>5, <2>1, <2>2, <2>3, RowsType DEF TaskCommits, AgentMissionStatus
<1>. QED BY <1>1, <1>2, <1>3, <1>4, <1>5

LEMMA AnswerType ==
    ASSUME AgentTypeOK, NEW r \in AgentRequests,
           \/ \E s \in StepId : Approve(r, s) \/ Reject(r, s)
           \/ AnswerActs(r) \/ AnswerCommits(r) \/ AnswerEnds(r) \/ RejectEnds(r)
    PROVE  AgentTypeOK'
<1>. USE DEF AgentTypeOK
<1>0. request[r].on \subseteq StepId
  BY DEF AgentRequest
<1>1. ASSUME NEW s \in StepId, Approve(r, s) \/ Reject(r, s) PROVE AgentTypeOK'
  <2>1. raced' \in SUBSET (SUBSET AgentRequests)
    BY <1>1, MeetsType DEF Approve, Reject, AnswersTo
  <2>2. request' \in [AgentRequests -> AgentRequest]
    BY <1>1, BeginsAnswer
  <2>. QED BY <1>1, <2>1, <2>2 DEF Approve, Reject
<1>2. CASE AnswerActs(r)
  <2>1. request' \in [AgentRequests -> AgentRequest]
    BY <1>2, AnswerMoves
  <2>. QED BY <1>0, <1>2, <2>1 DEF AnswerActs
<1>3. CASE AnswerCommits(r)
  <2>1. request' \in [AgentRequests -> AgentRequest]
    BY <1>3, AnswerMoves
  <2>2. PICK s \in request[r].on, again \in BOOLEAN :
         /\ approval' = [approval EXCEPT ![s] = "approved"]
         /\ step' = IF again THEN [step EXCEPT ![s] = "running"] ELSE step
         /\ mission' = IF again THEN "running" ELSE mission
         /\ effects' = effects \union {<<r, s>>}
    BY <1>3 DEF AnswerCommits
  <2>3. /\ approval' \in [StepId -> ApprovalStatus] /\ step' \in [StepId -> AgentStepStatus]
        /\ mission' \in AgentMissionStatus /\ effects' \in SUBSET (AgentRequests \X StepId)
    BY <1>0, <2>2 DEF ApprovalStatus, AgentStepStatus, AgentMissionStatus
  <2>. QED BY <1>3, <2>1, <2>3 DEF AnswerCommits
<1>4. CASE AnswerEnds(r) \/ RejectEnds(r)
  <2>1. request' \in [AgentRequests -> AgentRequest]
    BY <1>4, EndsOver DEF AnswerEnds, RejectEnds
  <2>2. PICK status \in {"completed", "failed", "skipped"} : OutcomeForStep(r, status)
    BY <1>4 DEF AnswerEnds, RejectEnds
  <2>3. step' \in [StepId -> AgentStepStatus]
    BY <2>2 DEF OutcomeForStep, AgentStepStatus
  <2>4. mission' \in AgentMissionStatus
    BY <1>4 DEF AnswerEnds, RejectEnds, Writes, AgentMissionStatus
  <2>5. approval' \in [StepId -> ApprovalStatus]
    BY <1>4 DEF AnswerEnds, RejectEnds, ApprovalStatus
  <2>. QED BY <1>4, <2>1, <2>3, <2>4, <2>5 DEF AnswerEnds, RejectEnds
<1>. QED BY <1>1, <1>2, <1>3, <1>4

LEMMA DiesOver ==
    ASSUME AgentTypeOK, ServerDies
    PROVE  /\ request' \in [AgentRequests -> AgentRequest]
           /\ \A r \in AgentRequests : ~InFlight(r) => request'[r] = request[r]
           /\ \A r \in AgentRequests : InFlight(r) =>
                 /\ request'[r].stage = "lost" /\ request'[r].verb = "none" /\ request'[r].on = {}
                 /\ request'[r].doomed = {} /\ request'[r].own = [i \in Order |-> "none"]
<1>1. "lost" \in Stage
  BY DEF Stage
<1>. QED BY <1>1, OverIs DEF ServerDies, AgentTypeOK

LEMMA OtherType ==
    ASSUME AgentTypeOK,
           \/ ServerDies
           \/ \E r \in AgentRequests :
                \/ \E verb \in {"pause", "cancel", "delete", "edit"} : ShortRequest(r, verb)
                \/ PauseEnds(r) \/ CancelEnds(r) \/ DeleteEnds(r) \/ EditEnds(r) \/ RequestFails(r)
    PROVE  AgentTypeOK'
<1>. USE DEF AgentTypeOK
<1>1. CASE ServerDies
  <2>1. request' \in [AgentRequests -> AgentRequest]
    BY <1>1, DiesOver
  <2>. QED BY <1>1, <2>1 DEF ServerDies
<1>2. ASSUME NEW r \in AgentRequests, NEW verb \in {"pause", "cancel", "delete", "edit"},
             ShortRequest(r, verb)
      PROVE  AgentTypeOK'
  <2>1. request' \in [AgentRequests -> AgentRequest]
    BY <1>2, BeginsShort
  <2>. QED BY <1>2, <2>1 DEF ShortRequest
<1>3. ASSUME NEW r \in AgentRequests,
             PauseEnds(r) \/ CancelEnds(r) \/ DeleteEnds(r) \/ EditEnds(r) \/ RequestFails(r)
      PROVE  AgentTypeOK'
  <2>1. request' \in [AgentRequests -> AgentRequest]
    BY <1>3, EndsOver DEF PauseEnds, CancelEnds, DeleteEnds, EditEnds, RequestFails
  <2>2. edited' \in BOOLEAN
    BY <1>3, Zenon DEF PauseEnds, CancelEnds, DeleteEnds, EditEnds, RequestFails
  <2>3. /\ tasks' \in Order /\ direct' \in BOOLEAN /\ require' \in BOOLEAN
    <3>1. CASE EditEnds(r)
      <4>1. CASE tasks' = 1 /\ direct' = TRUE /\ UNCHANGED require
        BY <4>1, OrderType
      <4>2. CASE tasks' \in Order /\ direct' = FALSE /\ require' \in BOOLEAN
        BY <4>2
      <4>. QED BY <3>1, <4>1, <4>2 DEF EditEnds
    <3>. QED BY <1>3, <3>1 DEF PauseEnds, CancelEnds, DeleteEnds, RequestFails
  <2>. QED BY <1>3, <2>1, <2>2, <2>3
           DEF PauseEnds, CancelEnds, DeleteEnds, EditEnds, RequestFails, AgentMissionStatus,
               AgentStepStatus, ApprovalStatus
<1>. QED BY <1>1, <1>2, <1>3

LEMMA AgentNextType ==
    ASSUME AgentTypeOK, [AgentNext]_agentVars
    PROVE  AgentTypeOK'
<1>1. CASE UNCHANGED agentVars
  BY <1>1 DEF agentVars, AgentTypeOK
<1>. QED BY <1>1, RunType, AnswerType, OtherType DEF AgentNext, AgentProgress

\* The rows of a mission, its requests and the history keep their types, for any number of
\* requests and tasks.
THEOREM AgentTypeCorrect == AgentSpec => []AgentTypeOK
<1>1. AgentInit => AgentTypeOK
  <2>1. NewRequest \in AgentRequest /\ MaxTasks \in Order /\ 1 \in Order
    BY NewType, MaxTasksAssumption DEF Order
  <2>. QED BY <2>1 DEF AgentInit, AgentTypeOK, AgentMissionStatus, AgentStepStatus, ApprovalStatus
<1>. QED BY <1>1, AgentNextType, PTL DEF AgentSpec

-----------------------------------------------------------------------------
(* The invariant *)

\* The rows of a run are there once it has begun, its questions once it is done.
OwnRows ==
    \A s \in StepId : s[1] \in AgentRequests =>
        /\ approval[s] # "none" => request[s[1]].stage = "done"
        /\ step[s] # "none" => request[s[1]].stage # "unborn"
        /\ \A r \in AgentRequests : s \in request[r].on => request[s[1]].stage = "done"
        /\ \A x \in effects : x[2] = s => request[s[1]].stage = "done"

\* What a request may carry.
Carried ==
    \A r \in AgentRequests :
        /\ \A i \in Order : request[r].own[i] = "waiting_approval" =>
              request[r].verb = "run" /\ request[r].next > request[r].tasks
        /\ \A s \in request[r].doomed : s[1] # r
        /\ request[r].on # {} => InFlight(r) /\ request[r].verb \in {"approve", "reject"}
        /\ \A s, t \in request[r].on : s = t
        /\ request[r].verb \in {"run", "pause", "cancel"} =>
              request[r].seen \notin {"completed", "cancelled"}
        /\ request[r].verb \in {"approve", "reject"} => request[r].on # {}

\* Two requests that carry one question are known to overlap.
Rivals ==
    \A q, r \in AgentRequests : q # r =>
        \A s \in request[q].on \cap request[r].on : {q, r} \in raced

\* A request that acted still carries its question, has stored its answer, or was lost;
\* whoever carries the same question overlapped it.
Acted ==
    \A x \in effects :
        /\ request[x[1]].stage \in {"acted", "done", "lost"}
        /\ request[x[1]].stage = "acted" => x[2] \in request[x[1]].on
        /\ request[x[1]].stage = "done" => approval[x[2]] # "pending"
        /\ request[x[1]].stage # "lost" =>
              \A q \in AgentRequests \ {x[1]} : x[2] \in request[q].on => {q, x[1]} \in raced

\* A question that keeps the mission waiting: who carries it will write an outcome.
Held(k) ==
    /\ step[k] = "waiting_approval" /\ approval[k] \in {"pending", "approved"}
    /\ \A q \in AgentRequests : k \in request[q].on =>
          request[q].seen \in {"waiting_permission", "running"}

SomeHeld == mission = "waiting_permission" => \E k \in StepId : Held(k)

AgentInv ==
    OwnRows /\ Carried /\ Rivals /\ Acted /\ SomeHeld /\ QuestionHasItsStep /\ ActsOncePerQuestion

-----------------------------------------------------------------------------
(* A request begins *)

AgentBegins(r) ==
    /\ request[r].stage = "unborn" /\ \A q \in AgentRequests \ {r} : request'[q] = request[q]
    /\ request'[r].stage = "working" /\ request'[r].seen = mission
    /\ request'[r].own = [i \in Order |-> "none"]
    /\ request'[r].doomed \subseteq {s \in StepId : step[s] # "none"}
    /\ \/ /\ request'[r].on = {} /\ request'[r].verb \notin {"approve", "reject"}
          /\ request'[r].verb \in {"run", "pause", "cancel"} => mission \notin {"completed", "cancelled"}
       \/ /\ request'[r].verb \in {"approve", "reject"}
          /\ \E s \in Pending : request'[r].on = {s} /\ Meets(r, AnswersTo(s))
    /\ raced \subseteq raced'
    /\ UNCHANGED <<mission, step, approval, effects>>

LEMMA BeginsLikeThat ==
    ASSUME AgentTypeOK, NEW r \in AgentRequests,
           \/ RunMission(r)
           \/ \E s \in StepId : Approve(r, s) \/ Reject(r, s)
           \/ \E verb \in {"pause", "cancel", "delete", "edit"} : ShortRequest(r, verb)
    PROVE  AgentBegins(r)
<1>1. CASE RunMission(r)
  <2>1. request[r].stage = "unborn" /\ mission \notin {"completed", "cancelled"} /\ raced \subseteq raced'
    BY <1>1 DEF RunMission, Unborn, Runnable, Meets
  <2>2. UNCHANGED <<mission, step, approval, effects>>
    BY <1>1 DEF RunMission
  <2>. QED BY <1>1, <2>1, <2>2, BeginsRun DEF AgentBegins
<1>2. ASSUME NEW s \in StepId, Approve(r, s) \/ Reject(r, s) PROVE AgentBegins(r)
  <2>1. request[r].stage = "unborn" /\ s \in Pending /\ Meets(r, AnswersTo(s)) /\ raced \subseteq raced'
    BY <1>2 DEF Approve, Reject, Unborn, Answerable, Meets
  <2>2. UNCHANGED <<mission, step, approval, effects>>
    BY <1>2 DEF Approve, Reject
  <2>. QED BY <1>2, <2>1, <2>2, BeginsAnswer DEF AgentBegins
<1>3. ASSUME NEW verb \in {"pause", "cancel", "delete", "edit"}, ShortRequest(r, verb)
      PROVE  AgentBegins(r)
  <2>1. request[r].stage = "unborn" /\ mission \in Accepts(verb)
    BY <1>3 DEF ShortRequest, Unborn
  <2>2. verb \in {"pause", "cancel"} => mission \notin {"completed", "cancelled"}
    BY <2>1 DEF Accepts
  <2>3. UNCHANGED <<mission, step, approval, effects, raced>>
    BY <1>3 DEF ShortRequest
  <2>. QED BY <1>3, <2>1, <2>2, <2>3, BeginsShort DEF AgentBegins
<1>. QED BY <1>1, <1>2, <1>3

LEMMA BeginsKeeps ==
    ASSUME AgentTypeOK, AgentInv, NEW r \in AgentRequests, AgentBegins(r)
    PROVE  AgentInv'
<1>. USE DEF AgentInv
<1>1. /\ request[r].stage = "unborn" /\ \A q \in AgentRequests \ {r} : request'[q] = request[q]
      /\ request'[r].stage = "working" /\ request'[r].seen = mission
      /\ request'[r].own = [i \in Order |-> "none"]
      /\ request'[r].doomed \subseteq {s \in StepId : step[s] # "none"}
      /\ raced \subseteq raced'
      /\ UNCHANGED <<mission, step, approval, effects>>
  BY DEF AgentBegins
<1>2. /\ request'[r].on \subseteq Pending /\ \A s, t \in request'[r].on : s = t
      /\ \A s \in request'[r].on : Meets(r, AnswersTo(s))
      /\ request'[r].verb \in {"run", "pause", "cancel"} => mission \notin {"completed", "cancelled"}
      /\ request'[r].verb \in {"approve", "reject"} <=> request'[r].on # {}
  BY DEF AgentBegins
<1>3. Pending \subseteq StepId /\ \A s \in Pending : approval[s] = "pending"
  BY DEF Pending
<1>4. OwnRows'
  BY <1>1, <1>2, <1>3 DEF OwnRows
<1>5. Carried'
  BY <1>1, <1>2 DEF Carried, OwnRows, InFlight
<1>6. ASSUME NEW q \in AgentRequests \ {r}, NEW s \in request'[r].on, s \in request[q].on
      PROVE  {q, r} \in raced' /\ {r, q} \in raced'
  <2>1. q \in AnswersTo(s) /\ InFlight(q)
    BY <1>6 DEF Carried, AnswersTo
  <2>2. {q, r} \in raced'
    BY <1>2, <1>6, <2>1 DEF Meets
  <2>3. {r, q} = {q, r}
    OBVIOUS
  <2>. QED BY <2>2, <2>3
<1>7. Rivals'
  BY <1>1, <1>6 DEF Rivals
<1>8. Acted'
  <2>. SUFFICES ASSUME NEW x \in effects
                PROVE  /\ request'[x[1]].stage \in {"acted", "done", "lost"}
                       /\ request'[x[1]].stage = "acted" => x[2] \in request'[x[1]].on
                       /\ request'[x[1]].stage = "done" => approval[x[2]] # "pending"
                       /\ request'[x[1]].stage # "lost" =>
                             \A q \in AgentRequests \ {x[1]} :
                                 x[2] \in request'[q].on => {q, x[1]} \in raced'
    BY <1>1 DEF Acted
  <2>1. x[1] \in AgentRequests \ {r} /\ request'[x[1]] = request[x[1]]
    BY <1>1 DEF Acted, AgentTypeOK
  <2>2. ASSUME x[2] \in request'[r].on, request[x[1]].stage # "lost" PROVE {r, x[1]} \in raced'
    <3>1. request[x[1]].stage = "acted"
      BY <1>2, <1>3, <2>2 DEF Acted
    <3>. QED BY <1>6, <2>1, <2>2, <3>1 DEF Acted
  <2>. QED BY <1>1, <2>1, <2>2 DEF Acted
<1>9. SomeHeld'
  BY <1>1 DEF SomeHeld, Held
<1>10. QuestionHasItsStep'
  BY <1>1 DEF QuestionHasItsStep, Pending
<1>11. ActsOncePerQuestion'
  <2>1. \A x \in effects : request'[x[1]] = request[x[1]]
    BY <1>1 DEF Acted, AgentTypeOK
  <2>. QED BY <1>1, <2>1 DEF ActsOncePerQuestion
<1>. QED BY <1>4, <1>5, <1>7, <1>8, <1>9, <1>10, <1>11

-----------------------------------------------------------------------------
(* A request goes on or ends *)

\* What the steps of a request in flight do to the requests: its tasks move on, or it is
\* over and carries nothing any more.
GoesOn(r) ==
    /\ InFlight(r) /\ \A q \in AgentRequests \ {r} : request'[q] = request[q]
    /\ request'[r].on \subseteq request[r].on /\ request'[r].doomed \subseteq request[r].doomed
    /\ \A i \in Order : request'[r].own[i] = "waiting_approval" =>
          request'[r].verb = "run" /\ request'[r].next > request'[r].tasks
    /\ \/ TaskMoves(r)
       \/ /\ request'[r].stage \in {"done", "lost"} /\ request'[r].verb = "none"
          /\ request'[r].on = {}
    /\ UNCHANGED <<effects, raced>>

\* And to the rows: questions come from the run that ends, and a pending one is about a
\* step that waits.
FilesOwn(r) ==
    \A s \in StepId :
        /\ approval'[s] # "none" =>
              \/ approval[s] # "none" \/ s \in request[r].on
              \/ s[1] = r /\ request'[r].stage = "done"
        /\ step'[s] # "none" => step[s] # "none" \/ s \in request[r].on \/ s[1] = r
        /\ approval'[s] = "pending" =>
              /\ approval[s] = "pending" \/ s[1] = r
              /\ step'[s] = "waiting_approval"
              /\ request'[r].stage = "done" => s \notin request[r].on

LEMMA ProceedsKeeps ==
    ASSUME AgentTypeOK, AgentInv, NEW r \in AgentRequests, GoesOn(r), FilesOwn(r), SomeHeld'
    PROVE  AgentInv'
<1>. USE DEF AgentInv
<1>1. /\ InFlight(r) /\ \A q \in AgentRequests \ {r} : request'[q] = request[q]
      /\ request'[r].on \subseteq request[r].on
      /\ UNCHANGED <<effects, raced>>
  BY DEF GoesOn
<1>2. /\ request[r].stage \in {"working", "acted"}
      /\ request'[r].stage \in {"working", "done", "lost"}
      /\ request'[r].stage = "working" => request[r].stage = "working"
  BY DEF GoesOn, TaskMoves, InFlight
<1>3. \A q \in AgentRequests : request[q].stage \in {"done", "lost"} => request'[q] = request[q]
  BY <1>1, <1>2
<1>4. \A x \in effects : x[1] \in AgentRequests /\ x[2] \in StepId /\ x = <<x[1], x[2]>>
  BY DEF AgentTypeOK
<1>5. OwnRows'
  <2>. SUFFICES ASSUME NEW s \in StepId, s[1] \in AgentRequests
                PROVE  /\ approval'[s] # "none" => request'[s[1]].stage = "done"
                       /\ step'[s] # "none" => request'[s[1]].stage # "unborn"
                       /\ \A q \in AgentRequests : s \in request'[q].on =>
                             request'[s[1]].stage = "done"
                       /\ \A x \in effects' : x[2] = s => request'[s[1]].stage = "done"
    BY DEF OwnRows
  <2>1. request[s[1]].stage = "done" => request'[s[1]].stage = "done"
    BY <1>3
  <2>2. approval'[s] # "none" => request'[s[1]].stage = "done"
    BY <2>1 DEF OwnRows, FilesOwn
  <2>3. step'[s] # "none" => request'[s[1]].stage # "unborn"
    BY <1>1, <1>2 DEF OwnRows, FilesOwn
  <2>4. \A q \in AgentRequests : s \in request'[q].on => request'[s[1]].stage = "done"
    BY <1>1, <2>1 DEF OwnRows
  <2>5. \A x \in effects' : x[2] = s => request'[s[1]].stage = "done"
    BY <1>1, <2>1 DEF OwnRows
  <2>. QED BY <2>2, <2>3, <2>4, <2>5
<1>6. Carried'
  BY <1>1, <1>2 DEF Carried, GoesOn, TaskMoves, InFlight
<1>7. Rivals'
  BY <1>1 DEF Rivals
<1>8. Acted'
  <2>. SUFFICES ASSUME NEW x \in effects
                PROVE  /\ request'[x[1]].stage \in {"acted", "done", "lost"}
                       /\ request'[x[1]].stage = "acted" => x[2] \in request'[x[1]].on
                       /\ request'[x[1]].stage = "done" => approval'[x[2]] # "pending"
                       /\ request'[x[1]].stage # "lost" =>
                             \A q \in AgentRequests \ {x[1]} :
                                 x[2] \in request'[q].on => {q, x[1]} \in raced'
    BY <1>1 DEF Acted
  <2>1. approval'[x[2]] = "pending" => approval[x[2]] = "pending"
    BY <1>2, <1>4 DEF OwnRows, FilesOwn
  <2>2. request'[x[1]].stage # "lost" => request[x[1]].stage # "lost"
    BY <1>3, <1>4
  <2>3. \A q \in AgentRequests : x[2] \in request'[q].on => x[2] \in request[q].on
    BY <1>1
  <2>4. CASE x[1] = r
    <3>1. request[r].stage = "acted" /\ x[2] \in request[r].on
      BY <1>2, <2>4 DEF Acted
    <3>2. request'[r].stage \in {"done", "lost"}
      BY <1>2, <3>1
    <3>3. request'[r].stage = "done" => approval'[x[2]] # "pending"
      BY <1>4, <3>1 DEF FilesOwn
    <3>. QED BY <1>1, <2>2, <2>3, <2>4, <3>2, <3>3 DEF Acted
  <2>5. CASE x[1] # r
    BY <1>1, <1>4, <2>1, <2>3, <2>5 DEF Acted
  <2>. QED BY <2>4, <2>5
<1>9. QuestionHasItsStep'
  BY DEF FilesOwn, QuestionHasItsStep, Pending
<1>10. ActsOncePerQuestion'
  <2>. SUFFICES ASSUME NEW x \in effects, NEW y \in effects, x[2] = y[2], x[1] # y[1]
                PROVE  \/ {x[1], y[1]} \in raced
                       \/ request'[x[1]].stage = "lost" \/ request'[y[1]].stage = "lost"
    BY <1>1 DEF ActsOncePerQuestion
  <2>. QED BY <1>3, <1>4 DEF ActsOncePerQuestion
<1>. QED BY <1>5, <1>6, <1>7, <1>8, <1>9, <1>10

\* A request over keeps a question held.
LEMMA StillHeld ==
    ASSUME AgentTypeOK, SomeHeld, NEW r \in AgentRequests, GoesOn(r),
           mission' = "waiting_permission" => mission = "waiting_permission",
           \A k \in StepId : mission' = "waiting_permission" /\ Held(k) =>
              step'[k] = step[k] /\ approval'[k] = approval[k]
    PROVE  SomeHeld'
<1>. SUFFICES ASSUME mission' = "waiting_permission"
              PROVE  \E k \in StepId : Held(k)'
  BY DEF SomeHeld
<1>1. PICK k \in StepId : Held(k)
  BY DEF SomeHeld
<1>2. \A q \in AgentRequests : k \in request'[q].on =>
         k \in request[q].on /\ request'[q].seen = request[q].seen
  BY DEF GoesOn, TaskMoves
<1>3. step'[k] = step[k] /\ approval'[k] = approval[k]
  BY <1>1
<1>. QED BY <1>1, <1>2, <1>3 DEF Held

LEMMA TaskProceeds ==
    ASSUME AgentTypeOK, AgentInv, NEW r \in AgentRequests, NEW i \in Order,
           TaskCompletes(r, i) \/ TaskAsks(r, i) \/ TaskCommits(r, i)
    PROVE  GoesOn(r)
<1>1. TaskMoves(r)
  BY CompletesMoves, AsksMoves, CommitsMoves
<1>2. \A j \in Order : request'[r].own[j] = "waiting_approval" =>
         request'[r].verb = "run" /\ request'[r].next > request'[r].tasks
  <2>1. request[r].tasks \in Nat /\ request[r].next \in Nat
    BY TaskNumbers
  <2>2. CASE TaskAsks(r, i)
    BY <2>2, AsksMoves DEF TaskMoves
  <2>3. CASE TaskCompletes(r, i) \/ TaskCommits(r, i)
    <3>1. /\ request[r].next <= request[r].tasks
          /\ \A j \in Order : request'[r].own[j] \in {request[r].own[j], "completed", "running"}
      BY <2>3, CompletesMoves, CommitsMoves
    <3>2. \A j \in Order : request[r].own[j] # "waiting_approval"
      BY <2>1, <3>1 DEF AgentInv, Carried
    <3>. QED BY <3>1, <3>2
  <2>. QED BY <2>2, <2>3
<1>3. UNCHANGED <<effects, raced>>
  BY DEF TaskCompletes, TaskAsks, TaskCommits
<1>. QED BY <1>1, <1>2, <1>3 DEF GoesOn, TaskMoves, InFlight

LEMMA EndProceeds ==
    ASSUME AgentTypeOK, AgentInv, NEW r \in AgentRequests, NEW stage \in {"done", "lost"},
           InFlight(r), Ends(r, stage), UNCHANGED <<effects, raced>>
    PROVE  GoesOn(r) /\ request'[r].stage = stage
BY EndsOver DEF GoesOn

\* The rows of a run that is under way are no other request's.
LEMMA NotFiledYet ==
    ASSUME AgentInv, NEW r \in AgentRequests, request[r].stage = "working"
    PROVE  \A s \in StepId : s[1] = r =>
              approval[s] = "none" /\ \A q \in AgentRequests : s \notin request[q].on
BY DEF AgentInv, OwnRows

LEMMA RunKeeps ==
    ASSUME AgentTypeOK, AgentInv, NEW r \in AgentRequests,
           \/ RunEnds(r) \/ RunFails(r)
           \/ \E i \in Order : TaskCompletes(r, i) \/ TaskAsks(r, i) \/ TaskCommits(r, i)
    PROVE  AgentInv'
<1>1. request[r].stage = "working"
  BY DEF RunEnds, RunFails, TaskCompletes, TaskAsks, TaskCommits, AtTask, Working
<1>2. ASSUME NEW i \in Order, TaskCompletes(r, i) \/ TaskAsks(r, i) PROVE AgentInv'
  <2>1. GoesOn(r) /\ UNCHANGED <<mission, step, approval>>
    BY <1>2, TaskProceeds DEF TaskCompletes, TaskAsks
  <2>2. request'[r].stage = "working"
    BY <1>2, CompletesMoves, AsksMoves DEF TaskMoves
  <2>3. FilesOwn(r)
    BY <2>1, <2>2 DEF FilesOwn, AgentInv, QuestionHasItsStep, Pending
  <2>4. SomeHeld'
    BY <2>1, StillHeld DEF AgentInv
  <2>. QED BY <2>1, <2>3, <2>4, ProceedsKeeps
<1>3. ASSUME NEW i \in Order, TaskCommits(r, i) PROVE AgentInv'
  <2>1. GoesOn(r) /\ request'[r].stage = "working" /\ request[r].next <= request[r].tasks
    BY <1>3, TaskProceeds, CommitsMoves DEF TaskMoves
  <2>2. /\ mission' = "running" /\ step' = [StepsAfter(r) EXCEPT ![<<r, i>>] = "running"]
        /\ approval' = ApprovalsAfter(r)
    BY <1>3 DEF TaskCommits
  <2>3. \A s \in StepId : s[1] = r => request[r].own[s[2]] # "waiting_approval"
    <3>1. request[r].tasks \in Nat /\ request[r].next \in Nat
      BY TaskNumbers
    <3>2. \A j \in Order : request[r].own[j] # "waiting_approval"
      BY <2>1, <3>1 DEF AgentInv, Carried
    <3>. QED BY <3>2 DEF StepId
  <2>4. FilesOwn(r)
    <3>. SUFFICES ASSUME NEW s \in StepId
                  PROVE  /\ approval'[s] # "none" => approval[s] # "none"
                         /\ step'[s] # "none" => step[s] # "none" \/ s[1] = r
                         /\ approval'[s] = "pending" =>
                               approval[s] = "pending" /\ step'[s] = "waiting_approval"
      BY <2>1 DEF FilesOwn
    <3>1. approval'[s] = IF s \in request[r].doomed THEN "none" ELSE approval[s]
      BY <2>2, <2>3 DEF ApprovalsAfter
    <3>2. /\ step'[s] # "none" => step[s] # "none" \/ s[1] = r
          /\ s[1] # r /\ s \notin request[r].doomed => step'[s] = step[s]
      BY <2>2, RowsType DEF StepsAfter
    <3>. QED BY <1>1, <3>1, <3>2, NotFiledYet DEF AgentInv, QuestionHasItsStep, Pending
  <2>5. SomeHeld'
    BY <2>2 DEF SomeHeld
  <2>. QED BY <2>1, <2>4, <2>5, ProceedsKeeps
<1>4. CASE RunEnds(r)
  <2>1. GoesOn(r) /\ request'[r].stage = "done"
    BY <1>1, <1>4, EndProceeds DEF RunEnds, InFlight
  <2>2. step' = StepsAfter(r) /\ approval' = ApprovalsAfter(r)
    BY <1>4 DEF RunEnds
  <2>3. FilesOwn(r)
    <3>. SUFFICES ASSUME NEW s \in StepId
                  PROVE  /\ approval'[s] # "none" => approval[s] # "none" \/ s[1] = r
                         /\ step'[s] # "none" => step[s] # "none" \/ s[1] = r
                         /\ approval'[s] = "pending" =>
                               /\ approval[s] = "pending" \/ s[1] = r
                               /\ step'[s] = "waiting_approval" /\ s \notin request[r].on
      BY <2>1 DEF FilesOwn
    <3>1. approval'[s] = IF s \in request[r].doomed THEN "none"
                         ELSE IF s[1] = r /\ request[r].own[s[2]] = "waiting_approval"
                         THEN "pending" ELSE approval[s]
      BY <2>2 DEF ApprovalsAfter
    <3>2. step'[s] = IF s \in request[r].doomed THEN "none"
                     ELSE IF s[1] = r /\ request[r].own[s[2]] # "none"
                     THEN request[r].own[s[2]] ELSE step[s]
      BY <2>2 DEF StepsAfter
    <3>3. s \notin request[r].on
      BY <1>4 DEF RunEnds, Working, AgentInv, Carried
    <3>4. s[1] = r => approval[s] = "none"
      BY <1>1, NotFiledYet
    <3>5. approval[s] = "pending" => step[s] = "waiting_approval"
      BY DEF AgentInv, QuestionHasItsStep, Pending
    <3>. QED BY <3>1, <3>2, <3>3, <3>4, <3>5
  <2>4. SomeHeld'
    <3>. SUFFICES ASSUME mission' = "waiting_permission" PROVE \E k \in StepId : Held(k)'
      BY DEF SomeHeld
    <3>1. PICK i \in Order : request[r].own[i] = "waiting_approval"
      BY <1>4 DEF RunEnds, Asked
    <3>. DEFINE k == <<r, i>>
    <3>2. k \in StepId /\ k[1] = r /\ k[2] = i
      BY RowsType
    <3>. HIDE DEF k
    <3>3. k \notin request[r].doomed
      BY <3>2 DEF AgentInv, Carried
    <3>4. step'[k] = "waiting_approval" /\ approval'[k] = "pending"
      BY <2>2, <3>1, <3>2, <3>3 DEF StepsAfter, ApprovalsAfter
    <3>5. \A q \in AgentRequests : k \notin request'[q].on
      BY <1>1, <2>1, <3>2, NotFiledYet DEF GoesOn
    <3>. QED BY <3>2, <3>4, <3>5 DEF Held
  <2>. QED BY <2>1, <2>3, <2>4, ProceedsKeeps
<1>5. CASE RunFails(r)
  <2>1. GoesOn(r) /\ request'[r].stage = "done"
    BY <1>1, <1>5, EndProceeds DEF RunFails, InFlight
  <2>2. approval' = ApprovalsAfter(r) /\ mission' = "failed" /\ ~Asked(r)
    BY <1>5 DEF RunFails
  <2>3. \A s \in StepId : s[1] = r => request[r].own[s[2]] # "waiting_approval"
    BY <2>2 DEF Asked, StepId
  <2>4. FilesOwn(r)
    <3>. SUFFICES ASSUME NEW s \in StepId
                  PROVE  /\ approval'[s] # "none" => approval[s] # "none"
                         /\ step'[s] # "none" => step[s] # "none" \/ s[1] = r
                         /\ approval'[s] = "pending" =>
                               /\ approval[s] = "pending" /\ step'[s] = "waiting_approval"
                               /\ s \notin request[r].on
      BY <2>1 DEF FilesOwn
    <3>1. approval'[s] = IF s \in request[r].doomed THEN "none" ELSE approval[s]
      BY <2>2, <2>3 DEF ApprovalsAfter
    <3>2. /\ step'[s] # "none" => step[s] # "none" \/ s[1] = r
          /\ s[1] # r /\ s \notin request[r].doomed => step'[s] = step[s]
      BY <1>5, RowsType DEF RunFails, StepsAfter
    <3>3. s \notin request[r].on
      BY <1>5 DEF RunFails, Working, AgentInv, Carried
    <3>. QED BY <1>1, <3>1, <3>2, <3>3, NotFiledYet DEF AgentInv, QuestionHasItsStep, Pending
  <2>5. SomeHeld'
    BY <2>2 DEF SomeHeld
  <2>. QED BY <2>1, <2>4, <2>5, ProceedsKeeps
<1>. QED BY <1>2, <1>3, <1>4, <1>5

\* An answer that acted is on the list of those that did.
LEMMA ActsKeeps ==
    ASSUME AgentTypeOK, AgentInv, NEW r \in AgentRequests, AnswerActs(r) \/ AnswerCommits(r)
    PROVE  AgentInv'
<1>. USE DEF AgentInv
<1>1. PICK s \in request[r].on :
        /\ effects' = effects \union {<<r, s>>}
        /\ \/ UNCHANGED <<mission, step, approval>>
           \/ /\ approval' = [approval EXCEPT ![s] = "approved"]
              /\ \/ step' = [step EXCEPT ![s] = "running"] /\ mission' = "running"
                 \/ UNCHANGED <<mission, step>>
  <2>1. CASE AnswerActs(r)
    <3>1. PICK s \in request[r].on : \A t \in request[r].on : t = s
      BY <2>1 DEF AnswerActs, Working, Carried
    <3>2. {<<r, t>> : t \in request[r].on} = {<<r, s>>}
      BY <3>1
    <3>. QED BY <2>1, <3>2 DEF AnswerActs
  <2>2. CASE AnswerCommits(r)
    BY <2>2 DEF AnswerCommits
  <2>. QED BY <2>1, <2>2
<1>2. /\ request' \in [AgentRequests -> AgentRequest]
      /\ \A q \in AgentRequests \ {r} : request'[q] = request[q]
      /\ request[r].stage = "working" /\ request'[r].stage = "acted"
      /\ request[r].verb = "approve" /\ request'[r].verb = "approve"
      /\ request'[r].on = request[r].on /\ request'[r].doomed = request[r].doomed
      /\ request'[r].own = request[r].own
      /\ request'[r].seen \in {request[r].seen, "running"}
  BY AnswerMoves
<1>3. UNCHANGED raced
  BY DEF AnswerActs, AnswerCommits
<1>4. s \in StepId /\ \A t \in request[r].on : t = s
  BY <1>1 DEF AgentTypeOK, AgentRequest, Carried
<1>5. /\ \A q \in AgentRequests : request'[q].on = request[q].on
      /\ \A q \in AgentRequests : request[q].stage \in {"done", "lost"} => request'[q] = request[q]
  BY <1>2
<1>6. \A x \in effects : x[1] \in AgentRequests \ {r} /\ request'[x[1]] = request[x[1]]
  BY <1>2 DEF AgentTypeOK, Acted
<1>7. s[1] \in AgentRequests => request[s[1]].stage = "done"
  BY <1>1, <1>4 DEF OwnRows
<1>8. \A t \in StepId \ {s} : step'[t] = step[t] /\ approval'[t] = approval[t]
  BY <1>1 DEF AgentTypeOK
<1>9. approval'[s] \in {approval[s], "approved"}
  BY <1>1, <1>4 DEF AgentTypeOK
<1>10. OwnRows'
  <2>. SUFFICES ASSUME NEW t \in StepId, t[1] \in AgentRequests
                PROVE  /\ approval'[t] # "none" => request'[t[1]].stage = "done"
                       /\ step'[t] # "none" => request'[t[1]].stage # "unborn"
                       /\ \A q \in AgentRequests : t \in request'[q].on =>
                             request'[t[1]].stage = "done"
                       /\ \A x \in effects' : x[2] = t => request'[t[1]].stage = "done"
    BY DEF OwnRows
  <2>1. CASE t = s
    BY <1>5, <1>7, <2>1
  <2>2. CASE t # s
    <3>1. step'[t] # "none" => request'[t[1]].stage # "unborn"
      BY <1>2, <1>8, <2>2 DEF OwnRows
    <3>. QED BY <1>1, <1>5, <1>8, <2>2, <3>1 DEF OwnRows
  <2>. QED BY <2>1, <2>2
<1>11. Carried'
  BY <1>2, <1>3 DEF Carried, InFlight
<1>12. Rivals'
  BY <1>3, <1>5 DEF Rivals
<1>13. Acted'
  <2>. SUFFICES ASSUME NEW x \in effects'
                PROVE  /\ request'[x[1]].stage \in {"acted", "done", "lost"}
                       /\ request'[x[1]].stage = "acted" => x[2] \in request'[x[1]].on
                       /\ request'[x[1]].stage = "done" => approval'[x[2]] # "pending"
                       /\ request'[x[1]].stage # "lost" =>
                             \A q \in AgentRequests \ {x[1]} :
                                 x[2] \in request'[q].on => {q, x[1]} \in raced'
    BY DEF Acted
  <2>1. CASE x = <<r, s>>
    BY <1>1, <1>2, <1>3, <1>5, <2>1 DEF Rivals
  <2>2. CASE x \in effects
    <3>1. x[2] \in StepId
      BY <2>2 DEF AgentTypeOK
    <3>2. approval[x[2]] # "pending" => approval'[x[2]] # "pending"
      BY <1>8, <1>9, <3>1
    <3>. QED BY <1>3, <1>5, <1>6, <2>2, <3>2 DEF Acted
  <2>. QED BY <1>1, <2>1, <2>2
<1>14. SomeHeld'
  <2>. SUFFICES ASSUME mission' = "waiting_permission" PROVE \E k \in StepId : Held(k)'
    BY DEF SomeHeld
  <2>1. UNCHANGED <<mission, step>> /\ \A t \in StepId : approval'[t] \in {approval[t], "approved"}
    BY <1>1, <1>8, <1>9
  <2>2. PICK k \in StepId : Held(k)
    BY <2>1 DEF SomeHeld
  <2>3. \A q \in AgentRequests : k \in request'[q].on =>
           request'[q].seen \in {"waiting_permission", "running"}
    BY <1>2, <1>5, <2>2 DEF Held
  <2>. QED BY <2>1, <2>2, <2>3 DEF Held
<1>15. QuestionHasItsStep'
  BY <1>1, <1>4, <1>8 DEF QuestionHasItsStep, Pending, AgentTypeOK
<1>16. ActsOncePerQuestion'
  <2>. SUFFICES ASSUME NEW x \in effects', NEW y \in effects', x[2] = y[2], x[1] # y[1]
                PROVE  \/ {x[1], y[1]} \in raced
                       \/ request'[x[1]].stage = "lost" \/ request'[y[1]].stage = "lost"
    BY <1>3 DEF ActsOncePerQuestion
  <2>1. ASSUME NEW z \in effects, z[2] = s
        PROVE  request'[z[1]].stage = "lost" \/ ({r, z[1]} \in raced /\ {z[1], r} \in raced)
    <3>1. {r, z[1]} = {z[1], r}
      OBVIOUS
    <3>. QED BY <1>1, <1>6, <2>1, <3>1 DEF Acted
  <2>2. CASE x \in effects /\ y \in effects
    BY <1>6, <2>2 DEF ActsOncePerQuestion
  <2>3. CASE x = <<r, s>> /\ y \in effects
    BY <2>1, <2>3
  <2>4. CASE x \in effects /\ y = <<r, s>>
    BY <2>1, <2>4
  <2>. QED BY <1>1, <2>2, <2>3, <2>4
<1>. QED BY <1>10, <1>11, <1>12, <1>13, <1>14, <1>15, <1>16

LEMMA OutcomeKeeps ==
    ASSUME AgentTypeOK, AgentInv, NEW r \in AgentRequests, AnswerEnds(r) \/ RejectEnds(r)
    PROVE  AgentInv'
<1>. DEFINE on == request[r].on
<1>1. GoesOn(r) /\ request'[r].stage = "done"
  BY EndProceeds DEF AnswerEnds, RejectEnds, Working, InFlight
<1>2. PICK status \in {"completed", "failed", "skipped"}, answer \in {"approved", "rejected"} :
        /\ step' = [s \in StepId |-> IF s \in on THEN status ELSE step[s]]
        /\ approval' = [s \in StepId |-> IF s \in on THEN answer ELSE approval[s]]
  BY DEF AnswerEnds, RejectEnds, OutcomeForStep
<1>3. PICK outcome \in {"completed", "failed"} : Writes(r, outcome)
  BY DEF AnswerEnds, RejectEnds
<1>4. FilesOwn(r)
  BY <1>2 DEF FilesOwn, AgentInv, QuestionHasItsStep, Pending
<1>5. ASSUME NEW k \in StepId, mission' = "waiting_permission", Held(k)
      PROVE  step'[k] = step[k] /\ approval'[k] = approval[k]
  <2>1. request[r].seen = outcome
    BY <1>3, <1>5 DEF Writes
  <2>2. k \notin on
    BY <1>5, <2>1 DEF Held
  <2>. QED BY <1>2, <2>2
<1>6. SomeHeld'
  BY <1>1, <1>3, <1>5, StillHeld DEF Writes, AgentInv
<1>. QED BY <1>1, <1>4, <1>6, ProceedsKeeps

\* The short requests and those that fail.
LEMMA ShortKeeps ==
    ASSUME AgentTypeOK, AgentInv, NEW r \in AgentRequests,
           PauseEnds(r) \/ CancelEnds(r) \/ DeleteEnds(r) \/ EditEnds(r) \/ RequestFails(r)
    PROVE  AgentInv'
<1>1. GoesOn(r)
  BY EndProceeds
     DEF PauseEnds, CancelEnds, DeleteEnds, EditEnds, RequestFails, Working, InFlight
<1>2. request'[r].stage = "done" => request[r].on = {}
  <2>1. CASE RequestFails(r)
    <3>1. Ends(r, "lost")
      BY <2>1 DEF RequestFails
    <3>. QED BY <3>1, EndsOver
  <2>2. CASE ~RequestFails(r)
    BY <2>2 DEF PauseEnds, CancelEnds, DeleteEnds, EditEnds, Working, AgentInv, Carried
  <2>. QED BY <2>1, <2>2
<1>3. \/ UNCHANGED <<step, approval>>
      \/ /\ step' = [s \in StepId |-> "none"] /\ approval' = [s \in StepId |-> "none"]
         /\ mission' = "deleted"
  BY DEF PauseEnds, CancelEnds, DeleteEnds, EditEnds, RequestFails
<1>4. FilesOwn(r)
  BY <1>2, <1>3 DEF FilesOwn, AgentInv, QuestionHasItsStep, Pending
<1>5. mission' = "waiting_permission" => UNCHANGED <<mission, step, approval>>
  BY DEF PauseEnds, CancelEnds, DeleteEnds, EditEnds, RequestFails
<1>6. SomeHeld'
  BY <1>1, <1>5, StillHeld DEF AgentInv
<1>. QED BY <1>1, <1>4, <1>6, ProceedsKeeps

LEMMA DiesKeeps ==
    ASSUME AgentTypeOK, AgentInv, ServerDies
    PROVE  AgentInv'
<1>. USE DEF AgentInv
<1>1. /\ \A q \in AgentRequests :
            \/ request'[q] = request[q] /\ ~InFlight(q)
            \/ /\ InFlight(q) /\ request'[q].stage = "lost" /\ request'[q].verb = "none"
               /\ request'[q].on = {} /\ request'[q].doomed = {}
               /\ request'[q].own = [i \in Order |-> "none"]
      /\ UNCHANGED <<mission, step, approval, effects, raced>>
  BY DiesOver DEF ServerDies
<1>2. \A q \in AgentRequests : request'[q].on = {}
  BY <1>1 DEF Carried
<1>3. \A q \in AgentRequests :
        /\ request[q].stage = "done" => request'[q].stage = "done"
        /\ request[q].stage = "lost" => request'[q].stage = "lost"
        /\ request'[q].stage = "done" => request[q].stage = "done"
        /\ request'[q].stage # "acted"
        /\ request'[q].stage = "unborn" => request[q].stage = "unborn"
  BY <1>1 DEF InFlight
<1>4. \A x \in effects : x[1] \in AgentRequests
  BY DEF AgentTypeOK
<1>5. OwnRows'
  BY <1>1, <1>2, <1>3 DEF OwnRows
<1>6. Carried'
  BY <1>1, <1>2 DEF Carried
<1>7. Rivals'
  BY <1>2 DEF Rivals
<1>8. Acted'
  <2>. SUFFICES ASSUME NEW x \in effects
                PROVE  /\ request'[x[1]].stage \in {"acted", "done", "lost"}
                       /\ request'[x[1]].stage = "done" => approval[x[2]] # "pending"
    BY <1>1, <1>2, <1>3, <1>4 DEF Acted
  <2>1. x[1] \in AgentRequests /\ request[x[1]].stage \in {"acted", "done", "lost"}
    BY <1>4 DEF Acted
  <2>. QED BY <1>1, <1>3, <2>1 DEF Acted
<1>9. SomeHeld' /\ QuestionHasItsStep'
  BY <1>1, <1>2 DEF SomeHeld, Held, QuestionHasItsStep, Pending
<1>10. ActsOncePerQuestion'
  BY <1>1, <1>3, <1>4 DEF ActsOncePerQuestion
<1>. QED BY <1>5, <1>6, <1>7, <1>8, <1>9, <1>10

LEMMA AgentStep ==
    ASSUME AgentTypeOK, AgentInv, [AgentNext]_agentVars
    PROVE  AgentInv'
<1>1. CASE UNCHANGED agentVars
  BY <1>1 DEF agentVars, AgentInv, OwnRows, Carried, InFlight, Rivals, Acted, SomeHeld, Held,
              QuestionHasItsStep, Pending, ActsOncePerQuestion
<1>2. CASE ServerDies
  BY <1>2, DiesKeeps
<1>3. ASSUME NEW r \in AgentRequests, NEW s \in StepId, Approve(r, s) \/ Reject(r, s)
      PROVE  AgentInv'
  BY <1>3, BeginsLikeThat, BeginsKeeps
<1>4. ASSUME NEW r \in AgentRequests, NEW verb \in {"pause", "cancel", "delete", "edit"},
             ShortRequest(r, verb)
      PROVE  AgentInv'
  BY <1>4, BeginsLikeThat, BeginsKeeps
<1>5. ASSUME NEW r \in AgentRequests, RunMission(r) PROVE AgentInv'
  BY <1>5, BeginsLikeThat, BeginsKeeps
<1>6. ASSUME NEW r \in AgentRequests, AgentProgress(r) PROVE AgentInv'
  BY <1>6, RunKeeps, ActsKeeps, OutcomeKeeps, ShortKeeps DEF AgentProgress
<1>. QED BY <1>1, <1>2, <1>3, <1>4, <1>5, <1>6 DEF AgentNext

LEMMA AgentStarts == AgentInit => AgentInv
<1>. SUFFICES ASSUME AgentInit PROVE AgentInv
  OBVIOUS
<1>1. \A r \in AgentRequests : request[r] = NewRequest
  BY DEF AgentInit
<1>2. /\ NewRequest.stage = "unborn" /\ NewRequest.on = {} /\ NewRequest.doomed = {}
      /\ NewRequest.verb = "none" /\ NewRequest.own = [i \in Order |-> "none"]
  BY DEF NewRequest
<1>3. effects = {}
  BY DEF AgentInit
<1>4. Carried /\ Rivals /\ Acted /\ ActsOncePerQuestion
  BY <1>1, <1>2, <1>3 DEF Carried, Rivals, Acted, ActsOncePerQuestion
<1>5. <<Assistant, 1>> \in StepId
  BY OrderType DEF StepId
<1>6. OwnRows
  BY <1>1, <1>2, <1>3, AssistantAssumption DEF AgentInit, OwnRows
<1>7. QuestionHasItsStep
  BY DEF AgentInit, QuestionHasItsStep, Pending
<1>8. SomeHeld
  <2>1. mission = "waiting_permission" => Held(<<Assistant, 1>>)
    BY <1>1, <1>2, <1>5 DEF AgentInit, Held
  <2>. QED BY <1>5, <2>1 DEF SomeHeld
<1>. QED BY <1>4, <1>6, <1>7, <1>8 DEF AgentInv

LEMMA AgentHolds == AgentSpec => [](AgentTypeOK /\ AgentInv)
<1>1. (AgentTypeOK /\ AgentInv) /\ [AgentNext]_agentVars => (AgentTypeOK /\ AgentInv)'
  BY AgentNextType, AgentStep
<1>. QED BY <1>1, AgentStarts, AgentTypeCorrect, PTL DEF AgentSpec

\* Whatever ran, failed, was paused, deleted or lost meanwhile, a question that can be
\* answered is about a step that waits: approve_request needs no check of the step.
THEOREM QuestionsHaveTheirStep == AgentSpec => []QuestionHasItsStep
BY AgentHolds, PTL DEF AgentInv

\* A mission that waits for permission has a question to answer, or one whose answer was
\* stored before its outcome: no order of the commits takes its last question away.
THEOREM WaitingIsAnswerable == AgentSpec => []WaitingHasQuestion
<1>1. SomeHeld => WaitingHasQuestion
  BY DEF SomeHeld, Held, WaitingHasQuestion, Pending
<1>. QED BY <1>1, AgentHolds, PTL DEF AgentInv

\* What a question asks for is done twice only by answers that overlapped, or after an
\* answer that was rolled back: answering one after the other is safe.
THEOREM QuestionsActOnce == AgentSpec => []ActsOncePerQuestion
BY AgentHolds, PTL DEF AgentInv

\* Who changes the status of a mission, and what it had read.
LEMMA ChangesMission ==
    ASSUME AgentTypeOK, AgentInv, AgentNext, mission' # mission
    PROVE  \E r \in AgentRequests : request'[r] # request[r] /\ Latecomer(r)
<1>1. PICK r \in AgentRequests : AgentProgress(r)
  BY DEF AgentNext, RunMission, Approve, Reject, ShortRequest, ServerDies
<1>2. \A s \in {"done", "lost"} : Ends(r, s) => request'[r].stage = s
  BY EndsOver
<1>3. request[r].verb \in {"run", "pause", "cancel"} =>
         request[r].seen \notin {"completed", "cancelled"}
  BY DEF AgentInv, Carried
<1>4. ASSUME NEW i \in Order, TaskCommits(r, i)
      PROVE  request'[r] # request[r] /\ request[r].verb = "run"
  BY <1>4, CommitsMoves DEF TaskMoves
<1>5. ASSUME RunEnds(r) \/ RunFails(r) \/ PauseEnds(r) \/ CancelEnds(r)
      PROVE  request'[r] # request[r] /\ request[r].verb \in {"run", "pause", "cancel"}
  BY <1>2, <1>5 DEF RunEnds, RunFails, PauseEnds, CancelEnds, Working
<1>6. ASSUME AnswerCommits(r)
      PROVE  request'[r] # request[r] /\ request[r].verb = "approve"
  BY <1>6, AnswerMoves
<1>7. ASSUME AnswerEnds(r) \/ RejectEnds(r) \/ DeleteEnds(r)
      PROVE  request'[r] # request[r] /\ request[r].verb \in {"approve", "reject", "delete"}
  BY <1>2, <1>7 DEF AnswerEnds, RejectEnds, DeleteEnds, Working, InFlight
<1>8. \/ \E i \in Order : TaskCommits(r, i)
      \/ RunEnds(r) \/ RunFails(r) \/ PauseEnds(r) \/ CancelEnds(r) \/ AnswerCommits(r)
      \/ AnswerEnds(r) \/ RejectEnds(r) \/ DeleteEnds(r)
  BY <1>1 DEF AgentProgress, TaskCompletes, TaskAsks, AnswerActs, EditEnds, RequestFails
<1>. QED BY <1>3, <1>4, <1>5, <1>6, <1>7, <1>8 DEF Latecomer

\* A mission that was completed or cancelled comes to life again only through a request
\* that had read it before, an answer to a question left pending, or its deletion.
THEOREM OverStays == AgentSpec => OverStaysOver
<1>1. AgentTypeOK /\ AgentInv /\ [AgentNext]_agentVars =>
        [mission' # mission /\ mission \in {"completed", "cancelled"} =>
            \E r \in AgentRequests : request'[r] # request[r] /\ Latecomer(r)]_agentVars
  BY ChangesMission DEF agentVars
<1>. QED BY <1>1, AgentHolds, PTL DEF AgentSpec, OverStaysOver

-----------------------------------------------------------------------------
(* What a completed mission ran *)

\* Two runs under way are known to overlap.
RunsMeet ==
    \A p, q \in AgentRequests : p # q /\ Working(p, "run") /\ Working(q, "run") => {p, q} \in raced

\* A question has a row; a mission without a workflow has one task.
Rows == (\A s \in StepId : approval[s] # "none" => step[s] # "none") /\ (direct => tasks = 1)

\* Nothing overlapped, replaced the workflow or was answered, and the mission is there.
Calm ==
    /\ ~edited /\ raced = {} /\ mission # "deleted"
    /\ \A s \in StepId : approval[s] \notin {"approved", "rejected"}

\* A run that is alone works on the mission's workflow.
Planned ==
    \A r \in AgentRequests : Working(r, "run") /\ ~edited /\ raced = {} =>
        request[r].tasks = tasks /\ request[r].direct = direct

\* What a run has done of its tasks: each was completed, or settled before the run began.
Settling(r) ==
    /\ \A i \in Order : i < request[r].next /\ ~Asked(r) =>
          request[r].own[i] = "completed" \/ i \in request[r].settled
    /\ request[r].done \subseteq request[r].settled
    /\ request[r].settled # {} => request[r].doomed = {}
    /\ \A i \in Order : step[<<r, i>>] = "completed" => request[r].own[i] = "completed"

\* The rows that others completed for task i.
Elders(r, i) == {s \in StepId : s[1] # r /\ s[2] = i /\ step[s] = "completed"}

\* What a run takes for completed still is.
Relied(r) ==
    \A i \in request[r].settled :
        \/ i \in request[r].done
        \/ i < request[r].next /\ ~Asked(r) /\ request[r].own[i] # "completed"
        => Elders(r, i) # {}

CompletionInv ==
    /\ RunsMeet /\ Rows /\ Planned /\ CompletedRanEveryTask
    /\ \A r \in AgentRequests : Working(r, "run") => Settling(r) /\ (Calm => Relied(r))

\* The plan of a run is the one it read.
SamePlan(r) ==
    /\ request'[r].tasks = request[r].tasks /\ request'[r].direct = request[r].direct
    /\ request'[r].settled = request[r].settled /\ request'[r].done = request[r].done

LEMMA RunReads ==
    ASSUME AgentTypeOK, NEW r \in AgentRequests, RunMission(r)
    PROVE  /\ request'[r].tasks = tasks /\ request'[r].direct = direct /\ request'[r].next = 1
           /\ request'[r].settled # {} => request'[r].doomed = {}
           /\ request'[r].done \subseteq request'[r].settled /\ request'[r].settled \subseteq Order
           /\ \A i \in request'[r].done : \E s \in StepId : s[2] = i /\ step[s] = "completed"
<1>. DEFINE open == Opened("run")
<1>1. open \in AgentRequest /\ open.next = 1
  BY OpenedIs, NewType DEF Verb, Opened, NewRequest, AgentRequest
<1>. HIDE DEF open
<1>2. PICK doomed, reset, settled, done :
        /\ doomed = DoomedSteps
        /\ reset = IF mission = "failed" THEN StepsIn({"failed", "running"}) ELSE {}
        /\ settled = IF mission = "paused" THEN OrdersIn({"completed", "waiting_approval"}) ELSE {}
        /\ done = IF mission = "paused" THEN OrdersIn({"completed"}) ELSE {}
        /\ Becomes(r, [open EXCEPT !.tasks = tasks, !.direct = direct, !.require = require,
                                   !.doomed = doomed, !.reset = reset, !.settled = settled,
                                   !.done = done])
  BY DEF RunMission, open
<1>3. /\ doomed \subseteq StepId /\ reset \subseteq StepId
      /\ settled \subseteq Order /\ done \subseteq settled
      /\ settled # {} => doomed = {}
  BY <1>2 DEF DoomedSteps, StepsIn, OrdersIn, StepId
<1>4. \A i \in done : \E s \in StepId : s[2] = i /\ step[s] = "completed"
  BY <1>2 DEF StepsIn, OrdersIn
<1>. DEFINE new == [open EXCEPT !.tasks = tasks, !.direct = direct, !.require = require,
                                !.doomed = doomed, !.reset = reset, !.settled = settled,
                                !.done = done]
<1>5. /\ new \in AgentRequest /\ new.tasks = tasks /\ new.direct = direct /\ new.next = 1
      /\ new.doomed = doomed /\ new.settled = settled /\ new.done = done
  BY <1>1, <1>3 DEF AgentRequest, AgentTypeOK
<1>6. Becomes(r, new)
  BY <1>2
<1>. HIDE DEF new
<1>. QED BY <1>3, <1>4, <1>5, <1>6, BecomesThat

LEMMA CompletesTask ==
    ASSUME AgentTypeOK, NEW r \in AgentRequests, NEW i \in Order, TaskCompletes(r, i)
    PROVE  /\ SamePlan(r) /\ request'[r].doomed = request[r].doomed
           /\ i = request[r].next /\ request'[r].next = i + 1 /\ i <= request[r].tasks
           /\ \A j \in Order \ {i} : request'[r].own[j] = request[r].own[j]
           /\ IF Skips(r, i) THEN request'[r].own[i] = request[r].own[i]
                             ELSE request'[r].own[i] = "completed"
<1>. DEFINE own == IF Skips(r, i) THEN request[r].own ELSE [request[r].own EXCEPT ![i] = "completed"]
            new == [request[r] EXCEPT !.own = own, !.next = i + 1]
<1>1. request[r] \in AgentRequest
  BY DEF AgentTypeOK
<1>2. request[r].own \in [Order -> AgentStepStatus]
  BY <1>1 DEF AgentRequest
<1>3. /\ own \in [Order -> AgentStepStatus]
      /\ \A j \in Order \ {i} : own[j] = request[r].own[j]
      /\ own[i] = IF Skips(r, i) THEN request[r].own[i] ELSE "completed"
  BY <1>2 DEF AgentStepStatus
<1>4. Becomes(r, new)
  BY DEF TaskCompletes
<1>. HIDE DEF own
<1>5. /\ new \in AgentRequest /\ new.tasks = request[r].tasks /\ new.direct = request[r].direct
      /\ new.settled = request[r].settled /\ new.done = request[r].done
      /\ new.doomed = request[r].doomed /\ new.own = own /\ new.next = i + 1
  BY <1>1, <1>3, OrderType DEF AgentRequest
<1>. HIDE DEF new
<1>6. i = request[r].next /\ i <= request[r].tasks
  BY DEF TaskCompletes, AtTask
<1>7. request'[r] = new
  BY <1>4, <1>5, BecomesThat
<1>. QED BY <1>3, <1>5, <1>6, <1>7 DEF SamePlan

LEMMA AsksTask ==
    ASSUME AgentTypeOK, NEW r \in AgentRequests, NEW i \in Order, TaskAsks(r, i)
    PROVE  /\ SamePlan(r) /\ request'[r].doomed = request[r].doomed /\ Asked(r)'
           /\ request[r].own[i] = "none"
           /\ \A j \in Order \ {i} : request'[r].own[j] = request[r].own[j]
<1>. DEFINE own == [request[r].own EXCEPT ![i] = "waiting_approval"]
            new == [request[r] EXCEPT !.own = own, !.next = request[r].tasks + 1]
<1>1. request[r] \in AgentRequest
  BY DEF AgentTypeOK
<1>2. /\ own \in [Order -> AgentStepStatus] /\ own[i] = "waiting_approval"
      /\ \A j \in Order \ {i} : own[j] = request[r].own[j]
  BY <1>1 DEF AgentRequest, AgentStepStatus
<1>3. request[r].tasks + 1 \in 1 .. MaxTasks + 1
  BY TaskNumbers
<1>4. Becomes(r, new) /\ request[r].own[i] = "none"
  BY <1>1 DEF TaskAsks, AgentRequest
<1>. HIDE DEF own
<1>5. /\ new \in AgentRequest /\ new.tasks = request[r].tasks /\ new.direct = request[r].direct
      /\ new.settled = request[r].settled /\ new.done = request[r].done
      /\ new.doomed = request[r].doomed /\ new.own = own
  BY <1>1, <1>2, <1>3 DEF AgentRequest
<1>. HIDE DEF new
<1>6. request'[r] = new
  BY <1>4, <1>5, BecomesThat
<1>. QED BY <1>2, <1>4, <1>5, <1>6 DEF SamePlan, Asked

LEMMA CommitsTask ==
    ASSUME AgentTypeOK, NEW r \in AgentRequests, NEW i \in Order, TaskCommits(r, i)
    PROVE  /\ SamePlan(r) /\ request'[r].doomed = {} /\ request'[r].next = request[r].next
           /\ i = request[r].next
           /\ request[r].own[i] = "none" /\ request'[r].own[i] = "running"
           /\ \A j \in Order \ {i} : request'[r].own[j] = request[r].own[j]
<1>. DEFINE own == [request[r].own EXCEPT ![i] = "running"]
            new == [request[r] EXCEPT !.own = own, !.stored = {i}, !.doomed = {}, !.reset = {},
                                      !.require = require]
<1>1. request[r] \in AgentRequest
  BY DEF AgentTypeOK
<1>2. /\ own \in [Order -> AgentStepStatus] /\ own[i] = "running"
      /\ \A j \in Order \ {i} : own[j] = request[r].own[j]
  BY <1>1 DEF AgentRequest, AgentStepStatus
<1>3. Becomes(r, new) /\ request[r].own[i] = "none" /\ i = request[r].next
  BY <1>1 DEF TaskCommits, AgentRequest, AtTask
<1>. HIDE DEF own
<1>4. /\ new \in AgentRequest /\ new.tasks = request[r].tasks /\ new.direct = request[r].direct
      /\ new.settled = request[r].settled /\ new.done = request[r].done
      /\ new.doomed = {} /\ new.own = own /\ new.next = request[r].next
  BY <1>1, <1>2 DEF AgentRequest, AgentTypeOK
<1>. HIDE DEF new
<1>5. request'[r] = new
  BY <1>3, <1>4, BecomesThat
<1>. QED BY <1>2, <1>3, <1>4, <1>5 DEF SamePlan

\* What a run does to itself, and what the others do meanwhile.
TaskStep(q) == \E i \in Order : TaskCompletes(q, i) \/ TaskAsks(q, i) \/ TaskCommits(q, i)

OtherStep(r) ==
    \/ RunMission(r)
    \/ \E s \in StepId : Approve(r, s) \/ Reject(r, s)
    \/ \E verb \in {"pause", "cancel", "delete", "edit"} : ShortRequest(r, verb)
    \/ AgentProgress(r)

Apart(q) == request'[q] = request[q] /\ \E r \in AgentRequests \ {q} : OtherStep(r)

LEMMA EndsAreOver ==
    ASSUME AgentTypeOK, NEW r \in AgentRequests,
           \/ RunEnds(r) \/ RunFails(r) \/ AnswerEnds(r) \/ RejectEnds(r) \/ PauseEnds(r)
           \/ CancelEnds(r) \/ DeleteEnds(r) \/ EditEnds(r) \/ RequestFails(r)
    PROVE  request'[r].verb = "none" /\ \A q \in AgentRequests \ {r} : request'[q] = request[q]
<1>1. Ends(r, "done") \/ Ends(r, "lost")
  BY DEF RunEnds, RunFails, AnswerEnds, RejectEnds, PauseEnds, CancelEnds, DeleteEnds, EditEnds,
         RequestFails
<1>. QED BY <1>1, EndsOver

LEMMA RunsGoOn ==
    ASSUME AgentTypeOK, AgentNext, NEW q \in AgentRequests, Working(q, "run")'
    PROVE  RunMission(q) \/ (Working(q, "run") /\ (TaskStep(q) \/ Apart(q)))
<1>1. ~ServerDies
  <2>1. \A r \in AgentRequests : ServerDies => request'[r].stage # "working"
    <3>1. Over("lost").stage = "lost"
      BY OverIs DEF Stage
    <3>. QED BY <3>1 DEF ServerDies, AgentTypeOK, InFlight
  <2>. QED BY <2>1 DEF Working
<1>2. PICK r \in AgentRequests : OtherStep(r)
  BY <1>1 DEF AgentNext, OtherStep
<1>3. CASE r = q
  <2>1. \A s \in StepId : ~Approve(q, s) /\ ~Reject(q, s)
    BY BeginsAnswer DEF Working
  <2>2. \A verb \in {"pause", "cancel", "delete", "edit"} : ~ShortRequest(q, verb)
    BY BeginsShort DEF Working
  <2>3. ~AnswerActs(q) /\ ~AnswerCommits(q)
    BY AnswerMoves DEF Working
  <2>4. AgentProgress(q) => TaskStep(q)
    BY <2>3, EndsAreOver DEF Working, AgentProgress, TaskStep
  <2>5. TaskStep(q) => Working(q, "run")
    BY DEF TaskStep, TaskCompletes, TaskAsks, TaskCommits, AtTask
  <2>. QED BY <1>2, <1>3, <2>1, <2>2, <2>4, <2>5 DEF OtherStep
<1>4. CASE r # q
  <2>1. request'[q] = request[q]
    <3>1. CASE RunMission(r)
      BY <1>4, <3>1, BeginsRun
    <3>2. ASSUME NEW s \in StepId, Approve(r, s) \/ Reject(r, s) PROVE request'[q] = request[q]
      BY <1>4, <3>2, BeginsAnswer
    <3>3. ASSUME NEW verb \in {"pause", "cancel", "delete", "edit"}, ShortRequest(r, verb)
          PROVE  request'[q] = request[q]
      BY <1>4, <3>3, BeginsShort
    <3>4. CASE TaskStep(r)
      BY <1>4, <3>4, CompletesMoves, AsksMoves, CommitsMoves DEF TaskStep, TaskMoves
    <3>5. CASE AnswerActs(r) \/ AnswerCommits(r)
      BY <1>4, <3>5, AnswerMoves
    <3>6. AgentProgress(r) => TaskStep(r) \/ AnswerActs(r) \/ AnswerCommits(r) \/ request'[q] = request[q]
      BY <1>4, EndsAreOver DEF AgentProgress, TaskStep
    <3>. QED BY <1>2, <3>1, <3>2, <3>3, <3>4, <3>5, <3>6 DEF OtherStep
  <2>. QED BY <1>2, <1>4, <2>1 DEF Apart, Working
<1>. QED BY <1>3, <1>4

\* Who works on the same mission meanwhile completes none of the run's rows, and leaves the
\* completed ones where nothing overlaps, edits or answers.
LEMMA ApartKeeps ==
    ASSUME AgentTypeOK, AgentInv, CompletionInv, NEW q \in AgentRequests, Working(q, "run"), Apart(q)
    PROVE  /\ \A i \in Order : step'[<<q, i>>] = "completed" => step[<<q, i>>] = "completed"
           /\ ~edited' /\ raced' = {} => ~edited /\ raced = {} /\ UNCHANGED <<tasks, direct>>
           /\ Calm' => Calm /\ \A s \in StepId : step[s] = "completed" => step'[s] = "completed"
<1>1. PICK r \in AgentRequests \ {q} : OtherStep(r)
  BY DEF Apart
<1>2. CASE RunMission(r)
  <2>1. {q, r} \in raced'
    BY <1>2 DEF RunMission, Meets, Runs, Working, InFlight
  <2>. QED BY <1>2, <2>1 DEF RunMission, Calm
<1>3. CASE \/ \E s \in StepId : Approve(r, s) \/ Reject(r, s)
           \/ \E verb \in {"pause", "cancel", "delete", "edit"} : ShortRequest(r, verb)
           \/ AnswerActs(r) \/ RequestFails(r)
  <2>1. UNCHANGED <<mission, step, approval, tasks, direct, edited>> /\ raced \subseteq raced'
    BY <1>3 DEF Approve, Reject, ShortRequest, AnswerActs, RequestFails, Meets
  <2>. QED BY <2>1 DEF Calm
<1>4. CASE TaskStep(r) \/ RunEnds(r) \/ RunFails(r)
  <2>1. Working(r, "run") /\ UNCHANGED <<raced, edited>>
    BY <1>4 DEF TaskStep, TaskCompletes, TaskAsks, TaskCommits, AtTask, RunEnds, RunFails
  <2>2. {q, r} \in raced'
    BY <2>1 DEF CompletionInv, RunsMeet
  <2>3. \A i \in Order : <<q, i>> \in StepId /\ StepsAfter(r)[<<q, i>>] \in {"none", step[<<q, i>>]}
    BY DEF StepsAfter, StepId
  <2>4. \A i \in Order : step'[<<q, i>>] \in {"none", step[<<q, i>>]}
    <3>1. CASE RunEnds(r)
      BY <2>3, <3>1 DEF RunEnds
    <3>2. CASE RunFails(r)
      BY <2>3, <3>2, RowsType DEF RunFails
    <3>3. ASSUME NEW j \in Order, TaskCommits(r, j)
          PROVE  \A i \in Order : step'[<<q, i>>] \in {"none", step[<<q, i>>]}
      BY <2>3, <3>3, RowsType DEF TaskCommits
    <3>4. ASSUME NEW j \in Order, TaskCompletes(r, j) \/ TaskAsks(r, j)
          PROVE  \A i \in Order : step'[<<q, i>>] \in {"none", step[<<q, i>>]}
      BY <3>4 DEF TaskCompletes, TaskAsks
    <3>. QED BY <1>4, <3>1, <3>2, <3>3, <3>4 DEF TaskStep
  <2>. QED BY <2>2, <2>4 DEF Calm
<1>5. CASE AnswerCommits(r) \/ AnswerEnds(r) \/ RejectEnds(r)
  <2>1. PICK k \in StepId : k \in request[r].on
    <3>1. request[r].on # {} /\ request[r].on \in SUBSET StepId
      BY <1>5 DEF AnswerCommits, AnswerEnds, RejectEnds, Working, AgentInv, Carried, AgentTypeOK,
                  AgentRequest
    <3>. QED BY <3>1
  <2>2. \A s \in request[r].on : s = k
    BY <2>1 DEF AgentInv, Carried
  <2>3. approval'[k] \in {"approved", "rejected"}
    BY <1>5, <2>1, <2>2 DEF AnswerCommits, AnswerEnds, RejectEnds, AgentTypeOK
  <2>4. \A i \in Order : <<q, i>> \in StepId /\ <<q, i>> \notin request[r].on
    BY NotFiledYet DEF Working, StepId
  <2>5. \A i \in Order : step'[<<q, i>>] = step[<<q, i>>]
    BY <1>5, <2>4 DEF AnswerCommits, AnswerEnds, RejectEnds, OutcomeForStep, AgentTypeOK
  <2>6. UNCHANGED <<tasks, direct, edited, raced>>
    BY <1>5 DEF AnswerCommits, AnswerEnds, RejectEnds
  <2>. QED BY <2>3, <2>5, <2>6 DEF Calm
<1>6. CASE PauseEnds(r) \/ CancelEnds(r)
  BY <1>6 DEF PauseEnds, CancelEnds, Calm, RowsGone
<1>7. CASE DeleteEnds(r)
  BY <1>7 DEF DeleteEnds, Calm, StepId
<1>8. CASE EditEnds(r)
  BY <1>8 DEF EditEnds, Calm, Runs, InFlight, Working
<1>. QED BY <1>1, <1>2, <1>3, <1>4, <1>5, <1>6, <1>7, <1>8 DEF OtherStep, AgentProgress, TaskStep

LEMMA RunsMeetStep ==
    ASSUME AgentTypeOK, CompletionInv, AgentNext
    PROVE  RunsMeet'
<1>. SUFFICES ASSUME NEW p \in AgentRequests, NEW q \in AgentRequests, p # q,
                     Working(p, "run")', Working(q, "run")'
              PROVE  {p, q} \in raced'
  BY DEF RunsMeet
<1>1. ASSUME NEW a \in AgentRequests, NEW b \in AgentRequests, a # b, RunMission(a),
             Working(b, "run")'
      PROVE  {a, b} \in raced'
  <2>1. request'[b] = request[b]
    BY <1>1, BeginsRun
  <2>2. {b, a} \in raced'
    BY <1>1, <2>1 DEF RunMission, Meets, Runs, Working, InFlight
  <2>3. {b, a} = {a, b}
    OBVIOUS
  <2>. QED BY <2>2, <2>3
<1>2. CASE Working(p, "run") /\ Working(q, "run")
  <2>1. raced \subseteq raced'
    <3>1. ASSUME NEW r \in AgentRequests, AgentProgress(r) PROVE raced' = raced
      BY <3>1 DEF AgentProgress, TaskCompletes, TaskAsks, TaskCommits, RunEnds, RunFails,
                  AnswerActs, AnswerCommits, AnswerEnds, RejectEnds, PauseEnds, CancelEnds,
                  DeleteEnds, EditEnds, RequestFails
    <3>2. ASSUME NEW r \in AgentRequests, NEW rivals, Meets(r, rivals) PROVE raced \subseteq raced'
      BY <3>2 DEF Meets
    <3>. QED BY <3>1, <3>2 DEF AgentNext, RunMission, Approve, Reject, ShortRequest, ServerDies
  <2>. QED BY <1>2, <2>1 DEF CompletionInv, RunsMeet
<1>3. CASE RunMission(p)
  BY <1>1, <1>3
<1>4. CASE RunMission(q)
  <2>1. {q, p} \in raced' /\ {q, p} = {p, q}
    BY <1>1, <1>4
  <2>. QED BY <2>1
<1>. QED BY <1>2, <1>3, <1>4, RunsGoOn

LEMMA RowsStep ==
    ASSUME AgentTypeOK, CompletionInv, AgentNext
    PROVE  Rows'
<1>1. (\A s \in StepId : approval[s] # "none" => step[s] # "none") /\ (direct => tasks = 1)
  BY DEF CompletionInv, Rows
<1>2. ASSUME NEW r \in AgentRequests, NEW rows \in [StepId -> AgentStepStatus],
             \A s \in StepId : rows[s] \in {StepsAfter(r)[s], "running"},
             step' = rows, approval' = ApprovalsAfter(r)
      PROVE  \A s \in StepId : approval'[s] # "none" => step'[s] # "none"
  BY <1>1, <1>2 DEF ApprovalsAfter, StepsAfter
<1>3. ASSUME NEW r \in AgentRequests, Replans(r) PROVE direct' => tasks' = 1
  BY <1>1, <1>3 DEF Replans
<1>4. ASSUME NEW r \in AgentRequests, RunEnds(r) \/ RunFails(r) PROVE Rows'
  <2>1. step' \in [StepId -> AgentStepStatus] /\ \A s \in StepId : step'[s] \in {StepsAfter(r)[s], "running"}
    BY <1>4, RowsType DEF RunEnds, RunFails, AgentStepStatus
  <2>2. Replans(r) /\ approval' = ApprovalsAfter(r)
    BY <1>4 DEF RunEnds, RunFails
  <2>. QED BY <1>2, <1>3, <2>1, <2>2 DEF Rows
<1>5. ASSUME NEW r \in AgentRequests, NEW i \in Order, TaskCommits(r, i) PROVE Rows'
  <2>1. step' \in [StepId -> AgentStepStatus] /\ \A s \in StepId : step'[s] \in {StepsAfter(r)[s], "running"}
    BY <1>5, RowsType DEF TaskCommits, AgentStepStatus
  <2>2. Replans(r) /\ approval' = ApprovalsAfter(r)
    BY <1>5 DEF TaskCommits
  <2>. QED BY <1>2, <1>3, <2>1, <2>2 DEF Rows
<1>6. ASSUME NEW r \in AgentRequests, AnswerCommits(r) \/ AnswerEnds(r) \/ RejectEnds(r) PROVE Rows'
  <2>1. UNCHANGED <<tasks, direct>> /\ \A s \in request[r].on : step[s] # "none"
    BY <1>6 DEF AnswerCommits, AnswerEnds, RejectEnds, RowsGone
  <2>2. \A s \in StepId : /\ step[s] # "none" => step'[s] # "none"
                          /\ approval'[s] # "none" => approval[s] # "none" \/ s \in request[r].on
    BY <1>6 DEF AnswerCommits, AnswerEnds, RejectEnds, OutcomeForStep, AgentTypeOK
  <2>. QED BY <1>1, <2>1, <2>2 DEF Rows
<1>7. ASSUME NEW r \in AgentRequests, DeleteEnds(r) PROVE Rows'
  BY <1>1, <1>7 DEF DeleteEnds, Rows
<1>8. ASSUME NEW r \in AgentRequests, EditEnds(r) PROVE Rows'
  BY <1>1, <1>8 DEF EditEnds, Rows
<1>9. CASE UNCHANGED <<step, approval, tasks, direct>>
  BY <1>1, <1>9 DEF Rows
<1>. QED BY <1>4, <1>5, <1>6, <1>7, <1>8, <1>9
         DEF AgentNext, AgentProgress, RunMission, Approve, Reject, ShortRequest, ServerDies,
             TaskCompletes, TaskAsks, AnswerActs, PauseEnds, CancelEnds, RequestFails

LEMMA PlannedStep ==
    ASSUME AgentTypeOK, AgentInv, CompletionInv, AgentNext
    PROVE  Planned'
<1>. SUFFICES ASSUME NEW q \in AgentRequests, Working(q, "run")', ~edited', raced' = {}
              PROVE  request'[q].tasks = tasks' /\ request'[q].direct = direct'
  BY DEF Planned
<1>1. CASE RunMission(q)
  BY <1>1, RunReads DEF RunMission
<1>2. CASE Working(q, "run") /\ TaskStep(q)
  <2>1. UNCHANGED <<edited, raced>>
    BY <1>2 DEF TaskStep, TaskCompletes, TaskAsks, TaskCommits
  <2>2. request[q].tasks = tasks /\ request[q].direct = direct /\ (direct => tasks = 1)
    BY <1>2, <2>1 DEF CompletionInv, Planned, Rows
  <2>3. SamePlan(q)
    BY <1>2, CompletesTask, AsksTask, CommitsTask DEF TaskStep
  <2>4. UNCHANGED <<tasks, direct>> \/ Replans(q)
    BY <1>2 DEF TaskStep, TaskCompletes, TaskAsks, TaskCommits
  <2>. QED BY <2>2, <2>3, <2>4 DEF SamePlan, Replans
<1>3. CASE Working(q, "run") /\ Apart(q)
  <2>1. ~edited /\ raced = {} /\ UNCHANGED <<tasks, direct>>
    BY <1>3, ApartKeeps
  <2>. QED BY <1>3, <2>1 DEF CompletionInv, Planned, Apart
<1>. QED BY <1>1, <1>2, <1>3, RunsGoOn

LEMMA SettlingStep ==
    ASSUME AgentTypeOK, AgentInv, CompletionInv, AgentNext,
           NEW q \in AgentRequests, Working(q, "run")'
    PROVE  Settling(q)'
<1>1. \A i \in Order : <<q, i>> \in StepId
  BY DEF StepId
<1>2. CASE RunMission(q)
  <2>1. \A i \in Order : step[<<q, i>>] = "none"
    BY <1>1, <1>2 DEF RunMission, Unborn, AgentInv, OwnRows
  <2>2. \A i \in Order : ~(i < 1)
    BY MaxTasksAssumption DEF Order
  <2>. QED BY <1>2, <2>1, <2>2, RunReads DEF Settling, RunMission
<1>3. CASE Working(q, "run") /\ Apart(q)
  BY <1>3, ApartKeeps DEF CompletionInv, Settling, Apart, Asked
<1>4. CASE Working(q, "run") /\ TaskStep(q)
  <2>1. PICK i \in Order : TaskCompletes(q, i) \/ TaskAsks(q, i) \/ TaskCommits(q, i)
    BY <1>4 DEF TaskStep
  <2>2. Settling(q) /\ SamePlan(q) /\ (request'[q].doomed = request[q].doomed \/ request'[q].doomed = {})
    BY <1>4, <2>1, CompletesTask, AsksTask, CommitsTask DEF CompletionInv
  <2>3. /\ request'[q].done \subseteq request'[q].settled
        /\ request'[q].settled # {} => request'[q].doomed = {}
    BY <2>2 DEF Settling, SamePlan
  <2>4. \A j \in Order : step'[<<q, j>>] = "completed" => request'[q].own[j] = "completed"
    <3>1. CASE TaskCompletes(q, i)
      <4>1. step' = step
        BY <3>1 DEF TaskCompletes
      <4>. QED BY <2>2, <3>1, <4>1, CompletesTask DEF Settling
    <3>2. CASE TaskAsks(q, i)
      <4>1. step' = step
        BY <3>2 DEF TaskAsks
      <4>. QED BY <2>2, <3>2, <4>1, AsksTask DEF Settling
    <3>3. CASE TaskCommits(q, i)
      <4>1. \A j \in Order \ {i} :
              step'[<<q, j>>] \in {"none", request[q].own[j], step[<<q, j>>]}
        BY <1>1, <3>3, RowsType DEF TaskCommits, StepsAfter
      <4>2. step'[<<q, i>>] = "running"
        BY <1>1, <3>3, RowsType DEF TaskCommits
      <4>. QED BY <2>2, <3>3, <4>1, <4>2, CommitsTask DEF Settling
    <3>. QED BY <2>1, <3>1, <3>2, <3>3
  <2>5. \A j \in Order : j < request'[q].next /\ ~Asked(q)' =>
           request'[q].own[j] = "completed" \/ j \in request'[q].settled
    <3>1. CASE TaskAsks(q, i)
      BY <3>1, AsksTask
    <3>2. CASE TaskCommits(q, i)
      <4>1. request[q].next \in Nat /\ ~(i < request[q].next)
        BY <3>2, TaskNumbers, CommitsTask
      <4>2. \A j \in Order \ {i} : request'[q].own[j] = request[q].own[j]
        BY <3>2, CommitsTask
      <4>3. Asked(q) => Asked(q)'
        BY <3>2, <4>2, CommitsTask DEF Asked
      <4>. QED BY <2>2, <3>2, <4>1, <4>2, <4>3, CommitsTask DEF Settling, SamePlan
    <3>3. CASE TaskCompletes(q, i)
      <4>1. request[q].next \in Nat /\ request[q].tasks \in Nat /\ i = request[q].next
            /\ i <= request[q].tasks
        BY <3>3, TaskNumbers, CompletesTask
      <4>2. ~Asked(q)
        BY <4>1 DEF AgentInv, Carried, Asked
      <4>3. \A j \in Order : j < request'[q].next => j < request[q].next \/ j = i
        BY <3>3, <4>1, CompletesTask, OrderType
      <4>4. request'[q].own[i] = "completed" \/ i \in request[q].settled
        BY <3>3, CompletesTask DEF Skips
      <4>. QED BY <2>2, <3>3, <4>2, <4>3, <4>4, CompletesTask DEF Settling, SamePlan
    <3>. QED BY <2>1, <3>1, <3>2, <3>3
  <2>. QED BY <2>3, <2>4, <2>5 DEF Settling
<1>. QED BY <1>2, <1>3, <1>4, RunsGoOn

LEMMA ReliedStep ==
    ASSUME AgentTypeOK, AgentInv, CompletionInv, AgentNext,
           NEW q \in AgentRequests, Working(q, "run")', Calm'
    PROVE  Relied(q)'
<1>. SUFFICES ASSUME NEW i \in Order, i \in request'[q].settled,
                     \/ i \in request'[q].done
                     \/ i < request'[q].next /\ ~Asked(q)' /\ request'[q].own[i] # "completed"
              PROVE  Elders(q, i)' # {}
  <2>1. request'[q] \in AgentRequest
    BY AgentNextType DEF AgentTypeOK
  <2>. QED BY <2>1 DEF Relied, AgentRequest
<1>1. CASE RunMission(q)
  <2>1. i \in request'[q].done
    BY <1>1, RunReads DEF Order
  <2>2. PICK s \in StepId : s[2] = i /\ step[s] = "completed"
    BY <1>1, <2>1, RunReads
  <2>3. s[1] # q
    BY <1>1, <2>2 DEF RunMission, Unborn, AgentInv, OwnRows
  <2>. QED BY <1>1, <2>2, <2>3 DEF RunMission, Elders
<1>2. CASE Working(q, "run") /\ Apart(q)
  <2>1. Calm /\ \A s \in StepId : step[s] = "completed" => step'[s] = "completed"
    BY <1>2, ApartKeeps
  <2>2. Relied(q) /\ request'[q] = request[q]
    BY <1>2, <2>1 DEF CompletionInv, Apart
  <2>3. Elders(q, i) # {}
    BY <2>2 DEF Relied, Asked
  <2>. QED BY <2>1, <2>3 DEF Elders
<1>3. CASE Working(q, "run") /\ TaskStep(q)
  <2>1. PICK j \in Order : TaskCompletes(q, j) \/ TaskAsks(q, j) \/ TaskCommits(q, j)
    BY <1>3 DEF TaskStep
  <2>2. /\ Settling(q) /\ (Calm => Relied(q)) /\ SamePlan(q)
        /\ i \in request[q].settled /\ request[q].doomed = {}
    BY <1>3, <2>1, CompletesTask, AsksTask, CommitsTask DEF CompletionInv, SamePlan, Settling
  <2>3. Calm
    <3>1. UNCHANGED <<edited, raced>> /\ mission # "deleted"
      BY <2>1 DEF TaskCompletes, TaskAsks, TaskCommits, Calm, RowsGone
    <3>2. \A s \in StepId : approval'[s] \in {approval[s], "pending"}
      BY <2>1, <2>2 DEF TaskCompletes, TaskAsks, TaskCommits, ApprovalsAfter
    <3>3. \A s \in StepId : approval[s] \notin {"approved", "rejected"}
      <4>. SUFFICES ASSUME NEW s \in StepId, approval[s] \in {"approved", "rejected"} PROVE FALSE
        OBVIOUS
      <4>1. approval'[s] = "pending"
        BY <3>2 DEF Calm
      <4>2. s[1] = q
        BY <2>1, <2>2, <4>1 DEF TaskCompletes, TaskAsks, TaskCommits, ApprovalsAfter
      <4>. QED BY <1>3, <4>2, NotFiledYet DEF Working
    <3>. QED BY <3>1, <3>3 DEF Calm
  <2>4. \A s \in StepId : s[1] # q => step'[s] = step[s]
    <3>1. \A s \in StepId : s[1] # q => StepsAfter(q)[s] = step[s]
      BY <2>2 DEF StepsAfter
    <3>2. CASE TaskCommits(q, j)
      BY <3>1, <3>2, RowsType DEF TaskCommits
    <3>3. CASE TaskCompletes(q, j) \/ TaskAsks(q, j)
      BY <3>3 DEF TaskCompletes, TaskAsks
    <3>. QED BY <2>1, <3>2, <3>3
  <2>5. Elders(q, i) # {}
    <3>1. CASE i \in request[q].done
      BY <2>2, <2>3, <3>1 DEF Relied
    <3>2. CASE i \notin request[q].done
      <4>1. /\ i < request'[q].next /\ ~Asked(q)' /\ request'[q].own[i] # "completed"
        BY <2>2, <3>2 DEF SamePlan
      <4>2. CASE TaskAsks(q, j)
        BY <4>1, <4>2, AsksTask
      <4>3. CASE TaskCommits(q, j)
        <5>1. request[q].next \in Nat /\ i # j /\ i < request[q].next
          BY <4>1, <4>3, TaskNumbers, CommitsTask
        <5>2. Asked(q) => Asked(q)'
          BY <4>3, CommitsTask DEF Asked
        <5>. QED BY <2>2, <2>3, <4>1, <4>3, <5>1, <5>2, CommitsTask DEF Relied
      <4>4. CASE TaskCompletes(q, j)
        <5>1. request[q].next \in Nat /\ request[q].tasks \in Nat /\ j = request[q].next
              /\ j <= request[q].tasks
          BY <4>4, TaskNumbers, CompletesTask
        <5>2. ~Asked(q)
          BY <5>1 DEF AgentInv, Carried, Asked
        <5>3. CASE i # j
          <6>1. i < request[q].next
            BY <4>1, <4>4, <5>1, <5>3, CompletesTask, OrderType
          <6>. QED BY <2>2, <2>3, <4>1, <4>4, <5>2, <5>3, <6>1, CompletesTask DEF Relied
        <5>4. CASE i = j
          <6>1. Skips(q, i) /\ request[q].own[i] # "completed"
            BY <4>1, <4>4, <5>4, CompletesTask
          <6>2. i \in OrdersIn({"completed"})
            BY <3>2, <6>1 DEF Skips
          <6>3. PICK s \in StepId : s[2] = i /\ step[s] = "completed"
            BY <6>2 DEF OrdersIn, StepsIn
          <6>4. s[1] # q
            <7>1. s = <<s[1], s[2]>>
              BY DEF StepId
            <7>. QED BY <2>2, <6>1, <6>3, <7>1 DEF Settling
          <6>. QED BY <6>3, <6>4 DEF Elders
        <5>. QED BY <5>3, <5>4
      <4>. QED BY <2>1, <4>2, <4>3, <4>4
    <3>. QED BY <3>1, <3>2
  <2>. QED BY <2>4, <2>5 DEF Elders
<1>. QED BY <1>1, <1>2, <1>3, RunsGoOn

\* The run that completes the mission leaves a completed row for each task.
LEMMA RunCompletes ==
    ASSUME AgentTypeOK, AgentInv, CompletionInv, NEW r \in AgentRequests, RunEnds(r),
           ~Asked(r), ~edited, raced = {},
           \A s \in StepId : approval'[s] \notin {"approved", "rejected"},
           NEW i \in 1 .. tasks'
    PROVE  i \in OrdersIn({"completed"})'
<1>1. /\ Working(r, "run") /\ request[r].next > request[r].tasks /\ mission # "deleted"
      /\ step' = StepsAfter(r) /\ approval' = ApprovalsAfter(r) /\ Replans(r)
  BY DEF RunEnds, RowsGone
<1>2. request[r].tasks = tasks'
  BY <1>1 DEF CompletionInv, Planned, Rows, Replans
<1>3. i \in Order /\ i < request[r].next /\ <<r, i>> \in StepId
  <2>1. request[r].tasks \in Order /\ request[r].tasks \in Nat /\ request[r].next \in Nat
    BY TaskNumbers DEF AgentTypeOK, AgentRequest
  <2>2. i \in Order
    BY <1>2, <2>1, MaxTasksAssumption DEF Order
  <2>. QED BY <1>1, <1>2, <2>1, <2>2 DEF StepId
<1>4. Settling(r) /\ (Calm => Relied(r))
  BY <1>1 DEF CompletionInv
<1>5. CASE request[r].own[i] = "completed"
  <2>1. <<r, i>> \notin request[r].doomed
    BY DEF AgentInv, Carried
  <2>2. step'[<<r, i>>] = "completed"
    BY <1>1, <1>3, <1>5, <2>1 DEF StepsAfter
  <2>. QED BY <1>3, <2>2 DEF OrdersIn, StepsIn
<1>6. CASE request[r].own[i] # "completed"
  <2>1. i \in request[r].settled /\ request[r].doomed = {}
    BY <1>3, <1>4, <1>6 DEF Settling
  <2>2. \A s \in StepId : approval[s] \notin {"approved", "rejected"}
    <3>1. \A s \in StepId : s[1] = r => approval[s] = "none"
      BY <1>1, NotFiledYet DEF Working
    <3>2. \A s \in StepId : s[1] # r => approval'[s] = approval[s]
      BY <1>1, <2>1 DEF ApprovalsAfter
    <3>. QED BY <3>1, <3>2
  <2>3. PICK s \in Elders(r, i) : TRUE
    BY <1>1, <1>3, <1>4, <1>6, <2>1, <2>2 DEF Calm, Relied
  <2>4. s \in StepId /\ s[2] = i /\ step'[s] = "completed"
    BY <1>1, <2>1, <2>3 DEF Elders, StepsAfter
  <2>. QED BY <2>4 DEF OrdersIn, StepsIn
<1>. QED BY <1>5, <1>6

LEMMA CompletedStep ==
    ASSUME AgentTypeOK, AgentInv, CompletionInv, AgentNext
    PROVE  CompletedRanEveryTask'
<1>. SUFFICES ASSUME mission' = "completed", ~edited', raced' = {},
                     \A s \in StepId : approval'[s] \notin {"approved", "rejected"},
                     NEW i \in 1 .. tasks'
              PROVE  i \in OrdersIn({"completed"})'
  BY DEF CompletedRanEveryTask
<1>1. ASSUME NEW r \in AgentRequests, RunEnds(r) PROVE i \in OrdersIn({"completed"})'
  BY <1>1, RunCompletes DEF RunEnds
<1>2. ASSUME NEW r \in AgentRequests, AnswerCommits(r) \/ AnswerEnds(r) \/ RejectEnds(r) PROVE FALSE
  <2>1. request[r].on # {} /\ request[r].on \in SUBSET StepId
    BY <1>2 DEF AnswerCommits, AnswerEnds, RejectEnds, Working, AgentInv, Carried, AgentTypeOK,
                AgentRequest
  <2>2. \A s, k \in request[r].on : s = k
    BY DEF AgentInv, Carried
  <2>3. \A k \in request[r].on : approval'[k] \in {"approved", "rejected"}
    BY <1>2, <2>1, <2>2 DEF AnswerCommits, AnswerEnds, RejectEnds, AgentTypeOK
  <2>. QED BY <2>1, <2>3
<1>3. ASSUME NEW r \in AgentRequests, EditEnds(r) PROVE FALSE
  <2>1. ~edited /\ mission = "completed" /\ raced = {} /\ \A s \in StepId : step[s] = "none"
    BY <1>3 DEF EditEnds
  <2>2. \A s \in StepId : approval[s] = "none"
    BY <2>1 DEF CompletionInv, Rows
  <2>3. 1 \in 1 .. tasks
    BY OrderType DEF AgentTypeOK, Order
  <2>4. 1 \in OrdersIn({"completed"})
    BY <2>1, <2>2, <2>3 DEF CompletionInv, CompletedRanEveryTask
  <2>. QED BY <2>1, <2>4 DEF OrdersIn, StepsIn
<1>4. CASE /\ UNCHANGED <<mission, step, approval, tasks, edited>> /\ raced \subseteq raced'
  BY <1>4 DEF CompletionInv, CompletedRanEveryTask, OrdersIn, StepsIn
<1>5. CASE ServerDies
  BY <1>4, <1>5 DEF ServerDies
<1>6. ASSUME NEW r \in AgentRequests, OtherStep(r) PROVE i \in OrdersIn({"completed"})'
  <2>1. CASE AgentProgress(r)
    BY <1>1, <1>2, <1>3, <1>4, <2>1
       DEF AgentProgress, TaskCompletes, TaskAsks, TaskCommits, RunFails, AnswerActs, PauseEnds,
           CancelEnds, DeleteEnds, RequestFails
  <2>2. CASE ~AgentProgress(r)
    BY <1>4, <1>6, <2>2 DEF OtherStep, RunMission, Approve, Reject, ShortRequest, Meets
  <2>. QED BY <2>1, <2>2
<1>. QED BY <1>5, <1>6 DEF AgentNext, OtherStep

LEMMA CompletionStep ==
    ASSUME AgentTypeOK, AgentInv, CompletionInv, [AgentNext]_agentVars
    PROVE  CompletionInv'
<1>1. CASE AgentNext
  BY <1>1, RunsMeetStep, RowsStep, PlannedStep, CompletedStep, SettlingStep, ReliedStep
     DEF CompletionInv
<1>2. CASE UNCHANGED agentVars
  BY <1>2 DEF agentVars, CompletionInv, RunsMeet, Rows, Planned, CompletedRanEveryTask, Working,
              Settling, Calm, Relied, Elders, Asked, OrdersIn, StepsIn
<1>. QED BY <1>1, <1>2

\* A mission that its runs alone completed has a completed step for each task of its
\* workflow, for any number of requests and tasks, also after pauses, failures and restarts.
THEOREM CompletedDidEverything == AgentSpec => []CompletedRanEveryTask
<1>1. AgentInit => CompletionInv
  <2>. SUFFICES ASSUME AgentInit PROVE CompletionInv
    OBVIOUS
  <2>1. \A r \in AgentRequests : ~Working(r, "run")
    BY DEF AgentInit, Working, NewRequest
  <2>2. Rows /\ mission # "completed"
    BY DEF AgentInit, Rows
  <2>. QED BY <2>1, <2>2 DEF CompletionInv, RunsMeet, Planned, CompletedRanEveryTask
<1>2. CompletionInv => CompletedRanEveryTask
  BY DEF CompletionInv
<1>. QED BY <1>1, <1>2, CompletionStep, AgentHolds, PTL DEF AgentSpec

-----------------------------------------------------------------------------
(* A request wears out: the part of RunningEnds that needs no fairness *)

\* How many actions a request has left at most: a task of a run takes two, its commit and
\* its end, an answer two and any other request one.
ActionsLeft(req) ==
    LET uncommitted == req.next \in Order /\ req.own[req.next] = "none" IN
    CASE req.stage = "unborn" -> 2 * MaxTasks + 3
      [] req.stage = "working" /\ req.verb = "run" ->
           2 * (MaxTasks + 1 - req.next) + (IF uncommitted THEN 2 ELSE 1)
      [] req.stage = "working" /\ req.verb # "run" -> 2
      [] req.stage = "acted" -> 1
      [] req.stage \in {"done", "lost"} -> 0

LEMMA ActionsLeftIs ==
    ASSUME NEW req \in AgentRequest
    PROVE  /\ ActionsLeft(req) \in 0 .. 2 * MaxTasks + 3
           /\ req.stage = "unborn" => ActionsLeft(req) = 2 * MaxTasks + 3
           /\ req.stage # "unborn" => ActionsLeft(req) < 2 * MaxTasks + 3
           /\ req.stage = "working" /\ req.verb = "run" =>
                /\ ActionsLeft(req) > 2 * (MaxTasks + 1 - req.next)
                /\ ActionsLeft(req) <= 2 * (MaxTasks + 1 - req.next) + 2
                /\ req.next \in Order =>
                     ActionsLeft(req) = 2 * (MaxTasks + 1 - req.next)
                                          + (IF req.own[req.next] = "none" THEN 2 ELSE 1)
           /\ req.stage = "working" /\ req.verb # "run" => ActionsLeft(req) = 2
           /\ req.stage = "acted" => ActionsLeft(req) = 1
           /\ req.stage \in {"done", "lost"} => ActionsLeft(req) = 0
<1>1. /\ req.next \in 1 .. MaxTasks + 1 /\ MaxTasks \in Nat \ {0}
      /\ req.stage \in {"unborn", "working", "acted", "done", "lost"}
  BY MaxTasksAssumption DEF AgentRequest, Stage
<1>. QED BY <1>1 DEF ActionsLeft, Order

\* A request that does something has less to do.
LEMMA ProgressWears ==
    ASSUME AgentTypeOK, AgentTypeOK', NEW r \in AgentRequests, AgentProgress(r)
    PROVE  /\ ActionsLeft(request'[r]) < ActionsLeft(request[r])
           /\ \A q \in AgentRequests \ {r} : request'[q] = request[q]
<1>a. request[r] \in AgentRequest /\ request'[r] \in AgentRequest
  BY DEF AgentTypeOK
<1>b. /\ request[r].next \in 1 .. MaxTasks + 1 /\ request'[r].next \in 1 .. MaxTasks + 1
      /\ request[r].tasks \in Nat /\ MaxTasks \in Nat
  BY <1>a, TaskNumbers, MaxTasksAssumption DEF AgentRequest
<1>1. ASSUME NEW i \in Order, TaskCompletes(r, i) \/ TaskAsks(r, i) \/ TaskCommits(r, i)
      PROVE  ActionsLeft(request'[r]) < ActionsLeft(request[r])
  <2>1. i = request[r].next /\ i <= request[r].tasks /\ i \in Nat
    BY <1>1, OrderType DEF TaskCompletes, TaskAsks, TaskCommits, AtTask
  <2>2. TaskMoves(r)
    BY <1>1, CompletesMoves, AsksMoves, CommitsMoves
  <2>3. /\ ActionsLeft(request[r]) = 2 * (MaxTasks + 1 - i)
                                       + (IF request[r].own[i] = "none" THEN 2 ELSE 1)
        /\ ActionsLeft(request'[r]) <= 2 * (MaxTasks + 1 - request'[r].next) + 2
        /\ ActionsLeft(request[r]) \in Nat /\ ActionsLeft(request'[r]) \in Nat
    BY <1>a, <2>1, <2>2, ActionsLeftIs, MaxTasksAssumption DEF TaskMoves
  <2>4. CASE TaskCompletes(r, i)
    <3>1. request'[r].next = i + 1
      BY <2>4, CompletesTask
    <3>. QED BY <1>b, <2>1, <2>3, <3>1
  <2>5. CASE TaskAsks(r, i)
    <3>1. request'[r].next > request[r].tasks
      BY <2>5, AsksMoves, AsksTask DEF SamePlan
    <3>. QED BY <1>b, <2>1, <2>3, <3>1
  <2>6. CASE TaskCommits(r, i)
    <3>1. request'[r].next = i /\ request[r].own[i] = "none" /\ request'[r].own[i] = "running"
      BY <2>1, <2>6, CommitsTask
    <3>2. ActionsLeft(request'[r]) = 2 * (MaxTasks + 1 - i) + 1
      BY <1>a, <2>2, <3>1, ActionsLeftIs DEF TaskMoves
    <3>. QED BY <1>b, <2>1, <2>3, <3>1, <3>2
  <2>. QED BY <1>1, <2>4, <2>5, <2>6
<1>2. ASSUME AnswerActs(r) \/ AnswerCommits(r)
      PROVE  ActionsLeft(request'[r]) < ActionsLeft(request[r])
  <2>1. /\ request[r].stage = "working" /\ request[r].verb # "run" /\ request'[r].stage = "acted"
    BY <1>2, AnswerMoves
  <2>2. ActionsLeft(request[r]) = 2 /\ ActionsLeft(request'[r]) = 1
    BY <1>a, <2>1, ActionsLeftIs
  <2>. QED BY <2>2
<1>3. ASSUME \/ RunEnds(r) \/ RunFails(r) \/ AnswerEnds(r) \/ RejectEnds(r) \/ PauseEnds(r)
             \/ CancelEnds(r) \/ DeleteEnds(r) \/ EditEnds(r) \/ RequestFails(r)
      PROVE  ActionsLeft(request'[r]) < ActionsLeft(request[r])
  <2>1. Ends(r, "done") \/ Ends(r, "lost")
    BY <1>3 DEF RunEnds, RunFails, AnswerEnds, RejectEnds, PauseEnds, CancelEnds, DeleteEnds,
                EditEnds, RequestFails
  <2>2. request'[r].stage \in {"done", "lost"}
    BY <2>1, EndsOver
  <2>3. request[r].stage \in {"working", "acted"}
    BY <1>3 DEF RunEnds, RunFails, AnswerEnds, RejectEnds, PauseEnds, CancelEnds, DeleteEnds,
                EditEnds, RequestFails, Working, InFlight
  <2>4. ActionsLeft(request'[r]) = 0
    BY <1>a, <2>2, ActionsLeftIs
  <2>5. ActionsLeft(request[r]) > 0
    BY <1>a, <1>b, <2>3, ActionsLeftIs
  <2>. QED BY <2>4, <2>5
<1>4. \A q \in AgentRequests \ {r} : request'[q] = request[q]
  <2>1. (\E i \in Order : TaskCompletes(r, i) \/ TaskAsks(r, i) \/ TaskCommits(r, i))
          => TaskMoves(r)
    BY CompletesMoves, AsksMoves, CommitsMoves
  <2>. QED BY <2>1, AnswerMoves, EndsAreOver DEF AgentProgress, TaskMoves
<1>. QED BY <1>1, <1>2, <1>3, <1>4 DEF AgentProgress

\* No admin gives a request of another one more to do, and what a request does itself
\* brings it to its end: run_mission's loop over the tasks passes each once, however often
\* pauses, edits and answers change the rows under it.
RequestsOnlyForward ==
    [][\A r \in AgentRequests :
        /\ ActionsLeft(request'[r]) <= ActionsLeft(request[r])
        /\ AgentProgress(r) => ActionsLeft(request'[r]) < ActionsLeft(request[r])]_agentVars

LEMMA NextWears ==
    ASSUME AgentTypeOK, AgentTypeOK', [AgentNext]_agentVars, NEW r \in AgentRequests
    PROVE  /\ ActionsLeft(request'[r]) <= ActionsLeft(request[r])
           /\ AgentProgress(r) => ActionsLeft(request'[r]) < ActionsLeft(request[r])
<1>a. /\ request[r] \in AgentRequest /\ request'[r] \in AgentRequest
      /\ ActionsLeft(request[r]) \in Nat /\ ActionsLeft(request'[r]) \in Nat
  <2>1. request[r] \in AgentRequest /\ request'[r] \in AgentRequest
    BY DEF AgentTypeOK
  <2>. QED BY <2>1, ActionsLeftIs, MaxTasksAssumption
<1>b. request'[r] = request[r] => ActionsLeft(request'[r]) <= ActionsLeft(request[r])
  BY <1>a
<1>1. AgentProgress(r) => ActionsLeft(request'[r]) < ActionsLeft(request[r])
  BY ProgressWears
<1>2. ASSUME NEW q \in AgentRequests, OtherStep(q)
      PROVE  ActionsLeft(request'[r]) <= ActionsLeft(request[r])
  <2>1. CASE AgentProgress(q)
    BY <1>a, <1>b, <2>1, ProgressWears
  <2>2. CASE ~AgentProgress(q)
    <3>1. /\ request[q].stage = "unborn" /\ request'[q].stage = "working"
          /\ \A p \in AgentRequests \ {q} : request'[p] = request[p]
      <4>1. CASE RunMission(q)
        BY <4>1, BeginsRun DEF RunMission, Unborn
      <4>2. ASSUME NEW s \in StepId, Approve(q, s) \/ Reject(q, s)
            PROVE  /\ request[q].stage = "unborn" /\ request'[q].stage = "working"
                   /\ \A p \in AgentRequests \ {q} : request'[p] = request[p]
        BY <4>2, BeginsAnswer DEF Approve, Reject, Unborn
      <4>3. ASSUME NEW verb \in {"pause", "cancel", "delete", "edit"}, ShortRequest(q, verb)
            PROVE  /\ request[q].stage = "unborn" /\ request'[q].stage = "working"
                   /\ \A p \in AgentRequests \ {q} : request'[p] = request[p]
        BY <4>3, BeginsShort DEF ShortRequest, Unborn
      <4>. QED BY <1>2, <2>2, <4>1, <4>2, <4>3 DEF OtherStep
    <3>2. CASE q = r
      <4>1. /\ ActionsLeft(request[r]) = 2 * MaxTasks + 3
            /\ ActionsLeft(request'[r]) < 2 * MaxTasks + 3
        BY <1>a, <3>1, <3>2, ActionsLeftIs
      <4>. QED BY <1>a, <4>1
    <3>3. CASE q # r
      BY <1>b, <3>1, <3>3
    <3>. QED BY <3>2, <3>3
  <2>. QED BY <2>1, <2>2
<1>3. CASE ServerDies
  <2>1. request'[r] = request[r] \/ request'[r].stage = "lost"
    BY <1>3, DiesOver
  <2>2. request'[r].stage = "lost" => ActionsLeft(request'[r]) = 0
    BY <1>a, ActionsLeftIs
  <2>. QED BY <1>a, <1>b, <2>1, <2>2, <1>1
<1>4. CASE UNCHANGED agentVars
  BY <1>1, <1>4, <1>b DEF agentVars
<1>. QED BY <1>1, <1>2, <1>3, <1>4 DEF AgentNext, OtherStep

\* A request takes a bounded number of actions, whatever the other admins do: what
\* RunningEnds asks beside the fairness of its thread.
THEOREM RequestsWearOut ==
    AgentSpec =>
        [](\A r \in AgentRequests : ActionsLeft(request[r]) \in 0 .. 2 * MaxTasks + 3)
        /\ RequestsOnlyForward
<1>1. AgentTypeOK => \A r \in AgentRequests : ActionsLeft(request[r]) \in 0 .. 2 * MaxTasks + 3
  BY ActionsLeftIs DEF AgentTypeOK
<1>2. AgentTypeOK /\ AgentTypeOK' /\ [AgentNext]_agentVars =>
        [\A r \in AgentRequests :
            /\ ActionsLeft(request'[r]) <= ActionsLeft(request[r])
            /\ AgentProgress(r) => ActionsLeft(request'[r]) < ActionsLeft(request[r])]_agentVars
  BY NextWears
<1>. QED BY <1>1, <1>2, AgentTypeCorrect, PTL DEF AgentSpec, RequestsOnlyForward

=============================================================================
