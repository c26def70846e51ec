----------------------- MODULE InitiativeExecutorProofs -----------------------
(***************************************************************************)
(* Proofs about InitiativeExecutor, for any number of requests.            *)
(***************************************************************************)
EXTENDS InitiativeExecutor, TLAPS

USE DEF At, Fresh

\* A request that was not received yet is no run, no confirm and no approve.
FreshIsNobody == \A r \in Requests : Fresh(r) => request[r].verb = "none"

TypeInv == TypeOK /\ FreshIsNobody

\* The initial state has it.
LEMMA InitType == Init => TypeInv
<1>. SUFFICES ASSUME Init
              PROVE  TypeInv
  OBVIOUS
<1>1. NoRequest \in Request
  BY DEF NoRequest, Request
<1>2. TypeOK
  BY <1>1 DEF Init, TypeOK, Status
<1>3. FreshIsNobody
  BY DEF Init, FreshIsNobody, NoRequest
<1>. QED BY <1>2, <1>3 DEF TypeInv

\* Every step keeps it.
LEMMA NextType == TypeInv /\ [Next]_vars => TypeInv'
<1>. SUFFICES ASSUME TypeInv, [Next]_vars
              PROVE  TypeInv'
  OBVIOUS
<1>. USE DEF TypeInv, TypeOK, FreshIsNobody
<1>1. ASSUME NEW r \in Requests, Handlers(r)
      PROVE  TypeInv'
  <2>. USE DEF Request, Reaches, MovesTo, SetStatus, Status
  <2>1. CASE RunMission(r)       BY <2>1 DEF RunMission, MarkInProgress
  <2>2. CASE RunAtOnce(r)        BY <2>2 DEF RunAtOnce
  <2>3. CASE Confirm(r)          BY <2>3 DEF Confirm
  <2>4. CASE ApproveMail(r)      BY <2>4 DEF ApproveMail
  <2>5. CASE ApproveMission(r)   BY <2>5 DEF ApproveMission
  <2>6. CASE MailLeaves(r)       BY <2>6 DEF MailLeaves
  <2>7. CASE SendEnds(r)         BY <2>7 DEF SendEnds
  <2>8. CASE SendFails(r)        BY <2>8 DEF SendFails, SendFailureStatus
  <2>9. CASE SendUnavailable(r)  BY <2>9 DEF SendUnavailable
  <2>10. CASE MissionLaunched(r) BY <2>10 DEF MissionLaunched
  <2>11. CASE PlanningFails(r)   BY <2>11 DEF PlanningFails, PlanningFailureStatus
  <2>. QED BY <1>1, <2>1, <2>2, <2>3, <2>4, <2>5, <2>6, <2>7, <2>8, <2>9, <2>10, <2>11
           DEF Handlers
<1>2. CASE ConfirmBlocked        BY <1>2 DEF ConfirmBlocked, SetStatus, Status
<1>3. CASE ApproveInfo           BY <1>3 DEF ApproveInfo, SetStatus, Status
<1>4. ASSUME NEW st \in {"rejected", "dismissed"}, Refuse(st)
      PROVE  TypeInv'
  BY <1>4 DEF Refuse, SetStatus, Status
<1>5. CASE ChangeModes           BY <1>5 DEF ChangeModes
<1>6. CASE Age                   BY <1>6 DEF Age
<1>7. CASE Crash
  <2>1. request' \in [Requests -> Request] /\ FreshIsNobody'
    BY <1>7 DEF Crash, Request
  <2>. QED BY <1>7, <2>1 DEF Crash
<1>8. CASE UNCHANGED vars        BY <1>8 DEF vars
<1>. QED BY <1>1, <1>2, <1>3, <1>4, <1>5, <1>6, <1>7, <1>8 DEF Next

\* Every variable keeps its type, whatever requests come in whatever order.
THEOREM ExecutorTypeCorrect == Spec => []TypeOK
<1>1. TypeInv => TypeOK
  BY DEF TypeInv
<1>. QED BY InitType, NextType, <1>1, PTL DEF Spec

-----------------------------------------------------------------------------
(* The argument: "pending" and "awaiting_confirm" are never entered again.  *)

Closed == status \notin {"pending", "awaiting_confirm"}

\* Only a request whose mail has left is counted as mailed.
MailHasLeft == \A r \in mailed : request[r].pc \in {"sent", "over"}

\* The confirms SentIsClosed is about.
Returned == {r \in mailed : /\ request[r].verb = "confirm"
                            /\ request[r].pc = "over"
                            /\ recent /\ ~crashed}

\* Once run has been accepted the initiative is not pending; only run makes it
\* confirmable; once refused, or once a confirmed mail has left, it is closed.
ProtocolInv ==
    /\ RunActsOnce
    /\ ConfirmedMailWasShown
    /\ Accepted("run") # {} => status # "pending"
    /\ Confirmable => Accepted("run") # {}
    /\ refused /\ recent => Closed
    /\ Returned # {} => ~Confirmable
    /\ MailHasLeft

\* What a step other than run and confirm may do: nobody new is accepted by run or
\* confirm, and either the initiative is closed or its status stays, and then no refusal
\* comes and no confirm returns.
Closes ==
    /\ \A verb \in {"run", "confirm"} : Accepted(verb)' = Accepted(verb)
    /\ recent' => recent
    /\ \/ Closed'
       \/ UNCHANGED <<status, refused>> /\ Returned' \subseteq Returned
    /\ MailHasLeft'

\* Every step closes or is one of the three handlers.
LEMMA StepShape ==
    ASSUME TypeInv, MailHasLeft, [Next]_vars
    PROVE  \/ Closes
           \/ \E r \in Requests : RunMission(r) \/ RunAtOnce(r) \/ Confirm(r)
<1>. USE DEF TypeInv, TypeOK, FreshIsNobody, Accepted, MailHasLeft, Closed, Returned
<1>1. ASSUME NEW r \in Requests, Handlers(r),
             ~RunMission(r), ~RunAtOnce(r), ~Confirm(r)
      PROVE  Closes
  <2>. USE DEF Closes, Request, Reaches, MovesTo, SetStatus
  <2>1. CASE ApproveMail(r)      BY <2>1 DEF ApproveMail
  <2>2. CASE ApproveMission(r)   BY <2>2 DEF ApproveMission
  <2>3. CASE MailLeaves(r)       BY <2>3 DEF MailLeaves
  <2>4. CASE SendEnds(r)         BY <2>4 DEF SendEnds
  <2>5. CASE SendFails(r)        BY <2>5 DEF SendFails, SendFailureStatus
  <2>6. CASE SendUnavailable(r)  BY <2>6 DEF SendUnavailable
  <2>7. CASE MissionLaunched(r)  BY <2>7 DEF MissionLaunched
  <2>8. CASE PlanningFails(r)    BY <2>8 DEF PlanningFails, PlanningFailureStatus
  <2>. QED BY <1>1, <2>1, <2>2, <2>3, <2>4, <2>5, <2>6, <2>7, <2>8 DEF Handlers
<1>2. CASE ConfirmBlocked        BY <1>2 DEF ConfirmBlocked, Closes, SetStatus
<1>3. CASE ApproveInfo           BY <1>3 DEF ApproveInfo, Closes, SetStatus
<1>4. ASSUME NEW st \in {"rejected", "dismissed"}, Refuse(st)
      PROVE  Closes
  BY <1>4 DEF Refuse, Closes, SetStatus
<1>5. CASE ChangeModes           BY <1>5 DEF ChangeModes, Closes
<1>6. CASE Age                   BY <1>6 DEF Age, Closes
<1>7. CASE Crash
  <2>1. \A r \in Requests : request'[r].verb = request[r].verb
    BY <1>7 DEF Crash, Request
  <2>2. MailHasLeft'
    BY <1>7 DEF Crash, Request
  <2>. QED BY <1>7, <2>1, <2>2 DEF Crash, Closes
<1>8. CASE UNCHANGED vars        BY <1>8 DEF vars, Closes
<1>. QED BY <1>1, <1>2, <1>3, <1>4, <1>5, <1>6, <1>7, <1>8 DEF Next

\* The initial state is pending and nothing was accepted.
LEMMA InitProtocol == Init => ProtocolInv
BY DEF Init, ProtocolInv, RunActsOnce, ConfirmedMailWasShown, Accepted, Confirmable,
       Returned, MailHasLeft, NoRequest

\* A run is accepted: it was the first one, and no mail was confirmed before it.
LEMMA RunAccepted ==
    ASSUME TypeInv, ProtocolInv, NEW r \in Requests, RunMission(r) \/ RunAtOnce(r)
    PROVE  ProtocolInv' /\ ~refused
<1>. USE DEF TypeInv, TypeOK, Accepted, Request
<1>1. /\ recent /\ status = "pending" /\ recent' = recent
      /\ status' \in {"in_progress", "awaiting_confirm", "done"}
      /\ request' = [request EXCEPT ![r] = request'[r]]
      /\ Fresh(r) /\ request'[r].verb = "run"
      /\ UNCHANGED <<mailed, refused, crashed>>
  BY DEF RunMission, RunAtOnce, MarkInProgress, SetStatus, Reaches
<1>2. Accepted("run") = {} /\ Accepted("confirm") = {} /\ ~refused
  BY <1>1 DEF ProtocolInv, ConfirmedMailWasShown, Closed
<1>3. Accepted("run")' = {r} /\ Accepted("confirm")' = {}
  BY <1>1, <1>2
<1>4. Returned' = {}
  BY <1>1, <1>2, <1>3 DEF Returned
<1>5. MailHasLeft'
  <2>1. r \notin mailed
    BY <1>1 DEF ProtocolInv, MailHasLeft
  <2>. QED BY <1>1, <2>1 DEF ProtocolInv, MailHasLeft
<1>. QED BY <1>1, <1>2, <1>3, <1>4, <1>5
         DEF ProtocolInv, RunActsOnce, ConfirmedMailWasShown, Confirmable, Closed

\* A confirm is accepted: a run was accepted before it, and its mail has not left.
LEMMA ConfirmAccepted ==
    ASSUME TypeInv, ProtocolInv, NEW r \in Requests, Confirm(r)
    PROVE  ProtocolInv' /\ ~refused
<1>. USE DEF TypeInv, TypeOK, FreshIsNobody, Accepted, Request
<1>1. /\ recent /\ Confirmable /\ Fresh(r)
      /\ request' = [request EXCEPT ![r] = [verb |-> "confirm", pc |-> "sending"]]
      /\ UNCHANGED <<status, recent, mailed, refused, crashed>>
  BY DEF Confirm, Reaches
<1>2. Accepted("run")' = Accepted("run") /\ Accepted("run") # {}
  BY <1>1 DEF ProtocolInv
<1>3. r \notin mailed /\ MailHasLeft'
  BY <1>1 DEF ProtocolInv, MailHasLeft
<1>4. Returned' = Returned
  BY <1>1, <1>3 DEF Returned
<1>. QED BY <1>1, <1>2, <1>3, <1>4
         DEF ProtocolInv, RunActsOnce, ConfirmedMailWasShown, Confirmable, Closed

\* Every step keeps the protocol.
LEMMA NextProtocol == TypeInv /\ ProtocolInv /\ [Next]_vars => ProtocolInv'
<1>. SUFFICES ASSUME TypeInv, ProtocolInv, [Next]_vars
              PROVE  ProtocolInv'
  OBVIOUS
<1>1. CASE Closes
  BY <1>1 DEF Closes, ProtocolInv, RunActsOnce, ConfirmedMailWasShown, Confirmable, Closed
<1>. QED BY <1>1, StepShape, RunAccepted, ConfirmAccepted DEF ProtocolInv

\* The two together hold for ever.
LEMMA ProtocolCorrect == Spec => [](TypeInv /\ ProtocolInv)
BY InitType, NextType, InitProtocol, NextProtocol, PTL DEF Spec

\* At most one run is accepted, however many come and whatever the other requests do.
THEOREM RunsOnce == Spec => []RunActsOnce
<1>1. ProtocolInv => RunActsOnce
  BY DEF ProtocolInv
<1>. QED BY <1>1, ProtocolCorrect, PTL

\* No mail is confirmed that run had not shown.
THEOREM ShownBeforeConfirmed == Spec => []ConfirmedMailWasShown
<1>1. ProtocolInv => ConfirmedMailWasShown
  BY DEF ProtocolInv
<1>. QED BY <1>1, ProtocolCorrect, PTL

\* After a confirmed mail has left and its request has returned, no other confirm is
\* accepted, short of a crash.
THEOREM SentStaysClosed == Spec => []SentIsClosed
<1>1. TypeInv /\ ProtocolInv => SentIsClosed
  BY DEF ProtocolInv, TypeInv, TypeOK, SentIsClosed, Returned
<1>. QED BY <1>1, ProtocolCorrect, PTL

\* After reject or dismiss no run and no confirm is accepted.
THEOREM RefusalHolds == Spec => RefusalIsFinal
<1>1. ASSUME TypeInv, ProtocolInv, [Next]_vars, refused
      PROVE  \A verb \in {"run", "confirm"} : Accepted(verb)' = Accepted(verb)
  BY <1>1, StepShape, RunAccepted, ConfirmAccepted DEF ProtocolInv, Closes
<1>2. TypeInv /\ ProtocolInv /\ [Next]_vars =>
        [refused => \A verb \in {"run", "confirm"} : Accepted(verb)' = Accepted(verb)]_vars
  BY <1>1
<1>. QED BY <1>2, ProtocolCorrect, PTL DEF Spec, RefusalIsFinal

=============================================================================
