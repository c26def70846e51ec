---------------------------- MODULE SupportTickets ----------------------------
(***************************************************************************)
(* One support ticket of globex-fedex and the requests that work on it: a  *)
(* client who writes, admins and employees who reply, assign, escalate,    *)
(* close or set the status (routes/support.py, routes/employee.py,         *)
(* admin_agent_tools.py, gpt/tool_ticket_handlers.py,                      *)
(* admin_client/tickets/tickets_service.py).  The handlers differ in which *)
(* status they refuse and which they move.                                 *)
(***************************************************************************)
EXTENDS FiniteSets

CONSTANTS
    Letters,   \* the requests; it bounds their number
    NoLetter   \* no request

VARIABLES
    ticket,      \* support_tickets.status
    escalation,  \* the platform notification of the escalation is stored (unique key)
    letter,      \* the requests
    closer,      \* history: the request that closed the ticket
    mixed        \* history: pairs of requests that overlapped

ticketVars == <<ticket, escalation, letter, closer, mixed>>

TicketStatus == {"open", "pending", "resolved", "closed", "escalated"}

LetterVerb == {"none", "message", "reply", "agentReply", "escalate", "set"}

\* What a request carries: the status it read, the one it sets, whether it read that the
\* notification is stored.
Letter == [verb : LetterVerb, at : {"unborn", "reading", "sent"}, seen : TicketStatus,
           target : TicketStatus, notified : BOOLEAN]

BlankLetter == [verb |-> "none", at |-> "unborn", seen |-> "open", target |-> "open",
                notified |-> FALSE]

Writing == {q \in Letters : letter[q].at = "reading"}

TicketInit ==
    /\ ticket = "open" /\ escalation = FALSE
    /\ letter = [q \in Letters |-> BlankLetter]
    /\ closer = NoLetter /\ mixed = {}

-----------------------------------------------------------------------------

\* mutant: escalate_ticket does not look whether the ticket is closed
RefusesNoEscalation(verb) == IF verb \in {"message", "agentReply"} THEN {"closed"} ELSE {}

\* The status each handler refuses: the replies over HTTP, the assignment and the changes
\* of status refuse none.
Refused(verb) == IF verb \in {"message", "agentReply", "escalate"} THEN {"closed"} ELSE {}

\* The status each handler leaves, from the one it read: a client's message takes a ticket
\* out of "resolved", an answer of the staff (and assigning it) out of "open".
StatusAfter(verb, seen, target) ==
    CASE verb = "message" /\ seen = "resolved" -> "pending"
      [] verb \in {"reply", "agentReply"} /\ seen = "open" -> "pending"
      [] verb = "escalate" -> "escalated"
      [] verb = "set" -> target
      [] OTHER -> seen

\* The schema of the HTTP requests lets no one set "escalated": only the tool does.
Settable == TicketStatus \ {"escalated"}

Escalates(q) == letter[q].verb = "escalate"

LetterBegins(q, verb, target) ==
    /\ letter[q].at = "unborn" /\ ticket \notin Refused(verb)
    /\ letter' = [letter EXCEPT ![q] = [verb |-> verb, at |-> "reading", seen |-> ticket,
                                        target |-> target, notified |-> escalation]]
    /\ mixed' = mixed \union {{p, q} : p \in Writing}
    /\ UNCHANGED <<ticket, escalation, closer>>

\* The commit writes the status where it differs from the one that was read.  A second
\* notification of the escalation conflicts with the first.
LetterEnds(q) ==
    /\ letter[q].at = "reading"
    /\ LET seen  == letter[q].seen
           after == StatusAfter(letter[q].verb, seen, letter[q].target)
       IN  /\ Escalates(q) => (letter[q].notified <=> escalation)
           /\ escalation' = (escalation \/ Escalates(q))
           /\ ticket' = IF after = seen THEN ticket ELSE after
           /\ closer' = IF after # seen /\ after = "closed" THEN q ELSE closer
    /\ letter' = [letter EXCEPT ![q] = [BlankLetter EXCEPT !.verb = letter[q].verb, !.at = "sent"]]
    /\ UNCHANGED mixed

LetterFails(q) ==
    /\ letter[q].at = "reading"
    /\ letter' = [letter EXCEPT ![q] = [BlankLetter EXCEPT !.at = "sent"]]
    /\ UNCHANGED <<ticket, escalation, closer, mixed>>

TicketNext ==
    \E q \in Letters :
        \/ \E verb \in LetterVerb \ {"none", "set"} : LetterBegins(q, verb, "open")
        \/ \E status \in Settable : LetterBegins(q, "set", status)
        \/ LetterEnds(q) \/ LetterFails(q)

TicketSpec == TicketInit /\ [][TicketNext]_ticketVars

-----------------------------------------------------------------------------
(* Properties *)

TicketTypeOK ==
    /\ ticket \in TicketStatus /\ escalation \in BOOLEAN
    /\ letter \in [Letters -> Letter]
    /\ closer \in Letters \union {NoLetter}
    /\ mixed \in SUBSET (SUBSET Letters)

\* A closed ticket is left closed by every request but one that sets its status, unless
\* that request and the one that closed the ticket were under way together.
ClosedStaysClosed ==
    [][\A q \in Letters :
         ticket = "closed" /\ ticket' # "closed" /\ letter'[q] # letter[q] =>
             letter[q].verb = "set" \/ {q, closer} \in mixed]_ticketVars

=============================================================================
