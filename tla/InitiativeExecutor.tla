-------------------------- MODULE InitiativeExecutor --------------------------
(***************************************************************************)
(* One proactive initiative of Jarvis OS and the HTTP requests that act on *)
(* its status: run and confirm (engine/proactive/executor.py), approve,    *)
(* reject and dismiss (interfaces/api/proactive.py), over the one line of  *)
(* a JSONL file that holds it (engine/proactive/store.py).  Rectify only   *)
(* rewrites the texts of the initiative, which are abstracted here.        *)
(*                                                                         *)
(* All requests share one event loop: what a request does between two      *)
(* awaits that suspend is one step, and other requests run while it waits  *)
(* for Gmail or for the planner of a mission.                              *)
(***************************************************************************)
EXTENDS Naturals, FiniteSets

CONSTANT Requests   \* the requests that run, confirm or suspend; it bounds their number

VARIABLES
    kind,       \* type of the initiative
    status,     \* its status in the JSONL file
    recent,     \* its file is within the 7 days the store looks at
    never,      \* the approval categories in mode NEVER
    request,    \* the requests
    mailed,     \* history: requests whose mail has left
    launched,   \* history: requests whose mission was launched
    refused,    \* history: the initiative was rejected or dismissed
    crashed     \* history: the process died and was started again

vars == <<kind, status, recent, never, request, mailed, launched, refused, crashed>>

\* Types that the executor handles in the same way share a name: "info" stands for
\* reminder, suggestion, alert and info.
InitiativeType == {"draft_response", "auto_task", "info"}

Status == {"pending", "in_progress", "awaiting_confirm", "done", "failed",
           "approved", "rejected", "dismissed"}

Category == {"email_send", "agent_mission"}

\* Where a request is suspended: "sending" its mail has not left, "sent" it has and the
\* answer of Gmail is awaited, "planning" the mission's planner works.
Request == [verb : {"none", "run", "confirm", "approve"},
            pc   : {"unborn", "sending", "sent", "planning", "over"}]

NoRequest == [verb |-> "none", pc |-> "unborn"]

-----------------------------------------------------------------------------
(* Vocabulary *)

Fresh(r) == request[r].pc = "unborn"

\* update_status: silently nothing once the file is older than 7 days.
SetStatus(st) == status' = IF recent THEN st ELSE status

\* The request r gets as far as pc in its first turn of the event loop.
Reaches(r, verb, pc) == request' = [request EXCEPT ![r] = [verb |-> verb, pc |-> pc]]

MovesTo(r, pc) == request' = [request EXCEPT ![r].pc = pc]

At(r, pc) == request[r].pc = pc

-----------------------------------------------------------------------------
(* run and confirm *)

Init ==
    /\ kind \in InitiativeType
    /\ status = "pending" /\ recent = TRUE
    /\ never \in SUBSET Category
    /\ request = [r \in Requests |-> NoRequest]
    /\ mailed = {} /\ launched = {}
    /\ refused = FALSE /\ crashed = FALSE

\* mutant: the initiative is marked only when its mission was launched
MarkInProgressLate == UNCHANGED status

\* run marks the initiative before it does anything that suspends.
MarkInProgress == SetStatus("in_progress")

\* run on an AUTO_TASK: the reservation on scope initiative:<id> has no limit and never
\* refuses, then create_and_run waits for the planner.
RunMission(r) ==
    /\ Fresh(r) /\ recent /\ status = "pending" /\ kind = "auto_task"
    /\ MarkInProgress
    /\ Reaches(r, "run", "planning")
    /\ UNCHANGED <<kind, recent, never, mailed, launched, refused, crashed>>

\* run on a DRAFT_RESPONSE shows the draft and asks for the second confirmation; on an
\* INFO it is all there is to do.  Nothing suspends.
RunAtOnce(r) ==
    /\ Fresh(r) /\ recent /\ status = "pending" /\ kind # "auto_task"
    /\ SetStatus(IF kind = "draft_response" THEN "awaiting_confirm" ELSE "done")
    /\ Reaches(r, "run", "over")
    /\ UNCHANGED <<kind, recent, never, mailed, launched, refused, crashed>>

\* mutant: confirm only asks that the initiative be still open
ConfirmableWhileOpen == status \in {"pending", "in_progress", "awaiting_confirm"}

Confirmable == status = "awaiting_confirm"

\* mutant: the status of the answer is what is stored
ConfirmBlockedAsAnswered ==
    /\ recent /\ Confirmable /\ "email_send" \in never
    /\ SetStatus("blocked")
    /\ UNCHANGED <<kind, recent, never, request, mailed, launched, refused, crashed>>

\* confirm, category email_send in mode NEVER: nothing is sent.
ConfirmBlocked ==
    /\ recent /\ Confirmable /\ "email_send" \in never
    /\ SetStatus("failed")
    /\ UNCHANGED <<kind, recent, never, request, mailed, launched, refused, crashed>>

Confirm(r) ==
    /\ Fresh(r) /\ recent /\ Confirmable /\ "email_send" \notin never
    /\ Reaches(r, "confirm", "sending")
    /\ UNCHANGED <<kind, status, recent, never, mailed, launched, refused, crashed>>

-----------------------------------------------------------------------------
(* The other routes *)

\* approve on a DRAFT_RESPONSE sends the mail, whatever the status.
ApproveMail(r) ==
    /\ Fresh(r) /\ recent /\ kind = "draft_response"
    /\ Reaches(r, "approve", "sending")
    /\ UNCHANGED <<kind, status, recent, never, mailed, launched, refused, crashed>>

\* approve on an AUTO_TASK leaves create_and_run to a task and marks at once.
ApproveMission(r) ==
    /\ Fresh(r) /\ recent /\ kind = "auto_task"
    /\ SetStatus("approved")
    /\ Reaches(r, "approve", "planning")
    /\ UNCHANGED <<kind, recent, never, mailed, launched, refused, crashed>>

ApproveInfo ==
    /\ recent /\ kind = "info"
    /\ SetStatus("approved")
    /\ UNCHANGED <<kind, recent, never, request, mailed, launched, refused, crashed>>

\* reject and dismiss, whatever the status.
Refuse(st) ==
    /\ recent
    /\ SetStatus(st)
    /\ refused' = TRUE
    /\ UNCHANGED <<kind, recent, never, request, mailed, launched, crashed>>

-----------------------------------------------------------------------------
(* What the suspended requests wait for *)

MailLeaves(r) ==
    /\ At(r, "sending")
    /\ MovesTo(r, "sent")
    /\ mailed' = mailed \cup {r}
    /\ UNCHANGED <<kind, status, recent, never, launched, refused, crashed>>

\* Gmail answers; a mail that approve sent ends up "approved".
SendEnds(r) ==
    /\ At(r, "sent")
    /\ SetStatus(IF request[r].verb = "approve" THEN "approved" ELSE "done")
    /\ MovesTo(r, "over")
    /\ UNCHANGED <<kind, recent, never, mailed, launched, refused, crashed>>

\* mutant: a failed confirm may be tried again
SendFailureReopens(r) ==
    SetStatus(IF request[r].verb = "approve" THEN "approved" ELSE "awaiting_confirm")

\* approve marks all the same.
SendFailureStatus(r) ==
    SetStatus(IF request[r].verb = "approve" THEN "approved" ELSE "failed")

\* send_gmail_draft raises, before the mail left or after (no answer within 30 s).
SendFails(r) ==
    /\ At(r, "sending") \/ At(r, "sent")
    /\ SendFailureStatus(r)
    /\ MovesTo(r, "over")
    /\ UNCHANGED <<kind, recent, never, mailed, launched, refused, crashed>>

\* The Google libraries are missing (ImportError): the draft is left to be copied.
SendUnavailable(r) ==
    /\ At(r, "sending")
    /\ SetStatus(IF request[r].verb = "approve" THEN "approved" ELSE "done")
    /\ MovesTo(r, "over")
    /\ UNCHANGED <<kind, recent, never, mailed, launched, refused, crashed>>

\* create_and_run has launched a worker; run marks the initiative a second time, the
\* task of approve writes nothing.
MissionLaunched(r) ==
    /\ At(r, "planning")
    /\ launched' = launched \cup {r}
    /\ IF request[r].verb = "run" THEN SetStatus("in_progress") ELSE UNCHANGED status
    /\ MovesTo(r, "over")
    /\ UNCHANGED <<kind, recent, never, mailed, refused, crashed>>

\* mutant: a mission that was not launched may be run again
PlanningFailureReopens(r) ==
    IF request[r].verb = "run" THEN SetStatus("pending") ELSE UNCHANGED status

PlanningFailureStatus(r) ==
    IF request[r].verb = "run" THEN SetStatus("failed") ELSE UNCHANGED status

\* The planner or the validation of its plan raises.
PlanningFails(r) ==
    /\ At(r, "planning")
    /\ PlanningFailureStatus(r)
    /\ MovesTo(r, "over")
    /\ UNCHANGED <<kind, recent, never, mailed, launched, refused, crashed>>

-----------------------------------------------------------------------------
(* The world around *)

\* The operator edits the mode of one category.
ChangeModes ==
    /\ \E c \in Category : never' \in {never \cup {c}, never \ {c}}
    /\ UNCHANGED <<kind, status, recent, request, mailed, launched, refused, crashed>>

\* The 7 days are over: get_by_id finds nothing, updates write nothing.
Age ==
    /\ recent
    /\ recent' = FALSE
    /\ UNCHANGED <<kind, status, never, request, mailed, launched, refused, crashed>>

\* The requests in flight are lost, the file stays.
Crash ==
    /\ \E r \in Requests : request[r].pc \notin {"unborn", "over"}
    /\ request' = [r \in Requests |->
                      IF Fresh(r) THEN request[r] ELSE [request[r] EXCEPT !.pc = "over"]]
    /\ crashed' = TRUE
    /\ UNCHANGED <<kind, status, recent, never, mailed, launched, refused>>

Handlers(r) ==
    \/ RunMission(r) \/ RunAtOnce(r) \/ Confirm(r)
    \/ ApproveMail(r) \/ ApproveMission(r)
    \/ MailLeaves(r) \/ SendEnds(r) \/ SendFails(r) \/ SendUnavailable(r)
    \/ MissionLaunched(r) \/ PlanningFails(r)

Next ==
    \/ \E r \in Requests : Handlers(r)
    \/ ConfirmBlocked \/ ApproveInfo \/ Refuse("rejected") \/ Refuse("dismissed")
    \/ ChangeModes \/ Age \/ Crash

Spec == Init /\ [][Next]_vars

-----------------------------------------------------------------------------
(* Properties *)

TypeOK ==
    /\ kind \in InitiativeType
    /\ status \in Status
    /\ recent \in BOOLEAN
    /\ never \in SUBSET Category
    /\ request \in [Requests -> Request]
    /\ mailed \subseteq Requests
    /\ launched \subseteq Requests
    /\ refused \in BOOLEAN
    /\ crashed \in BOOLEAN

Accepted(verb) == {r \in Requests : request[r].verb = verb}

\* However many run requests come, at any moment and around whatever other requests,
\* at most one gets past the test of "pending": an initiative is not run twice, and no
\* two missions come from run (executor.run, lines 82-85).
RunActsOnce ==
    \A r1, r2 \in Accepted("run") : r1 = r2

\* A mail that confirm sent was shown as a draft by run before: no single request to the
\* executor sends a mail (executor.py, line 14; confirm, line 102).
ConfirmedMailWasShown ==
    Accepted("confirm") # {} => Accepted("run") # {}

\* When the mail of a confirm has left and that confirm has returned, the initiative can
\* not be confirmed again, short of a crash between the two: a second mail by confirm
\* needs two confirms in flight together, or that crash (executor._send_email, lines 166-186).
SentIsClosed ==
    \A r \in mailed :
        request[r].verb = "confirm" /\ At(r, "over") /\ recent /\ ~crashed
            => ~Confirmable

\* Once rejected or dismissed, an initiative is never again acted upon by a new run or
\* confirm, although requests already in flight overwrite its status with their own.
RefusalIsFinal ==
    [][refused =>
        \A verb \in {"run", "confirm"} : Accepted(verb)' = Accepted(verb)]_vars

-----------------------------------------------------------------------------
(* What the documents say and the code does not do *)

\* "ApprovalMode.NEVER bloque l'action sans exception" (executor.py, line 10): no mail
\* leaves a request that was received while email_send was in mode NEVER, no mission one
\* received while agent_mission was.  Stated on the acceptance of the request, so that a
\* mode changed while it waits is no counterexample.
NeverModeBlocks ==
    [][\A r \in Requests :
        /\ ~At(r, "sending") /\ At(r, "sending")' => "email_send" \notin never
        /\ ~At(r, "planning") /\ At(r, "planning")' => "agent_mission" \notin never]_vars

=============================================================================
