------------------------- MODULE ClientServicesProofs -------------------------
(***************************************************************************)
(* Theorems about Preferences and SupportTickets, for any number of        *)
(* requests, and about ShipmentWatch, for any number of webhook threads    *)
(* and events.                                                             *)
(*                                                                         *)
(* In the first two a request decides on what it has read, so that each    *)
(* argument is about the requests that are under way when the row changes: *)
(* whatever was read before the change is known to overlap with it.  In    *)
(* the third a thread commits what differs from what it loaded: the        *)
(* invariants say of each thread what it loaded and which events it holds. *)
(***************************************************************************)
EXTENDS Preferences, SupportTickets, ShipmentWatch, WellFoundedInduction, TLAPS

(* Preferences: types *)

LEMMA FilesType ==
    ASSUME PreferenceTypeOK, NEW q \in Forms, Filed(q)
    PROVE  form' \in [Forms -> Form]
BY DEF PreferenceTypeOK, Filed, BlankForm, Form

LEMMA ReadsType ==
    ASSUME PreferenceTypeOK, NEW q \in Forms, NEW on \in SUBSET Forms,
           NEW verb \in {"submit", "approve", "reject", "edit"}, Reads(q, verb, on)
    PROVE  PreferenceTypeOK'
<1>1. [verb |-> verb, at |-> "reading", on |-> on] \in Form
  BY DEF Form, PreferenceTypeOK
<1>2. form' \in [Forms -> Form]
  BY <1>1 DEF Reads, PreferenceTypeOK
<1>3. clashed' \in SUBSET (SUBSET Forms)
  BY DEF Reads, PreferenceTypeOK, Filling
<1>. QED BY <1>2, <1>3 DEF Reads, PreferenceTypeOK

LEMMA PreferenceNextType ==
    ASSUME PreferenceTypeOK, [PreferenceNext]_preferenceVars
    PROVE  PreferenceTypeOK'
<1>1. ASSUME NEW q \in Forms, Submit(q) PROVE PreferenceTypeOK'
  BY <1>1, ReadsType DEF Submit, Replaced
<1>2. ASSUME NEW q \in Forms, NEW s \in Forms, Approval(q, s) PROVE PreferenceTypeOK'
  BY <1>2, ReadsType, {s} \in SUBSET Forms DEF Approval
<1>3. ASSUME NEW q \in Forms, NEW s \in Forms, Refusal(q, s) PROVE PreferenceTypeOK'
  BY <1>3, ReadsType, {s} \in SUBSET Forms DEF Refusal
<1>4. ASSUME NEW q \in Forms, AdminEdit(q) PROVE PreferenceTypeOK'
  BY <1>4, ReadsType, {} \in SUBSET Forms DEF AdminEdit
<1>5. ASSUME NEW q \in Forms, SubmitEnds(q) PROVE PreferenceTypeOK'
  BY <1>5, FilesType DEF SubmitEnds, PreferenceTypeOK, SubmissionStatus
<1>6. ASSUME NEW q \in Forms, SubmitBlocked(q) PROVE PreferenceTypeOK'
  BY <1>6, FilesType DEF SubmitBlocked, PreferenceTypeOK, SubmissionStatus
<1>7. ASSUME NEW q \in Forms, ApproveEnds(q) PROVE PreferenceTypeOK'
  <2>1. form[q].on \subseteq Forms
    BY DEF PreferenceTypeOK, Form
  <2>. QED BY <1>7, <2>1, FilesType DEF ApproveEnds, PreferenceTypeOK, SubmissionStatus
<1>8. ASSUME NEW q \in Forms, RejectionEnds(q) PROVE PreferenceTypeOK'
  BY <1>8, FilesType DEF RejectionEnds, PreferenceTypeOK, SubmissionStatus
<1>9. ASSUME NEW q \in Forms, AdminEditEnds(q) PROVE PreferenceTypeOK'
  BY <1>9, FilesType DEF AdminEditEnds, PreferenceTypeOK
<1>10. ASSUME NEW q \in Forms, FormFails(q) PROVE PreferenceTypeOK'
  BY <1>10, FilesType DEF FormFails, PreferenceTypeOK
<1>11. CASE UNCHANGED preferenceVars
  BY <1>11 DEF preferenceVars, PreferenceTypeOK
<1>. QED BY <1>1, <1>2, <1>3, <1>4, <1>5, <1>6, <1>7, <1>8, <1>9, <1>10, <1>11
         DEF PreferenceNext

\* The rows of a user's preferences keep their types, for any number of requests.
THEOREM PreferenceTypeCorrect == PreferenceSpec => []PreferenceTypeOK
<1>1. PreferenceInit => PreferenceTypeOK
  BY DEF PreferenceInit, PreferenceTypeOK, BlankForm, Form, SubmissionStatus
<1>. QED BY <1>1, PreferenceNextType, PTL DEF PreferenceSpec

-----------------------------------------------------------------------------
(* Preferences: what waits and what is in force *)

\* Two requests under way are known to overlap.
FormsClash == \A p, q \in Filling : p # q => {p, q} \in clashed

\* A submission that has a row, or that somebody read, was stored by a request that is over.
Stored ==
    /\ \A s \in Forms : submission[s] # "none" => form[s].at = "over"
    /\ \A q \in Forms : \A s \in form[q].on : form[s].at = "over"

\* A submission that waits, and that a newer one under way has not read, was stored while
\* the newer one was under way.
LatePending ==
    \A q \in Forms : IsAt(q, "submit") =>
        \A s \in Forms : submission[s] = "pending" /\ s \notin form[q].on => {s, q} \in clashed

\* The submission in force was decided; who still believes it pending was under way when
\* it was approved.
Decided == inForce # Default => inForce \in Forms /\ submission[inForce] \notin {"none", "pending"}

LateDecision == inForce # Default => \A q \in Filling : inForce \in form[q].on => {q, approver} \in clashed

PreferenceInv ==
    FormsClash /\ Stored /\ LatePending /\ Decided /\ LateDecision /\ OnePending /\ InForceIsApproved

\* The requests that read: all they have read is stored and waits.
Opening(q) ==
    \E verb \in {"submit", "approve", "reject", "edit"}, on \in SUBSET Replaced :
        Reads(q, verb, on) /\ (verb = "submit" => on = Replaced)

LEMMA OpeningReads ==
    ASSUME PreferenceTypeOK, NEW q \in Forms,
           \/ Submit(q) \/ AdminEdit(q)
           \/ \E s \in Forms : Approval(q, s) \/ Refusal(q, s)
    PROVE  Opening(q)
<1>1. ASSUME NEW s \in Forms, submission[s] = "pending" PROVE {s} \in SUBSET Replaced
  BY <1>1 DEF Replaced
<1>2. CASE Submit(q)
  BY <1>2 DEF Submit, Opening
<1>3. CASE AdminEdit(q)
  BY <1>3, {} \in SUBSET Replaced DEF AdminEdit, Opening
<1>4. ASSUME NEW s \in Forms, Approval(q, s) \/ Refusal(q, s) PROVE Opening(q)
  <2>1. submission[s] = "pending" /\ (Reads(q, "approve", {s}) \/ Reads(q, "reject", {s}))
    BY <1>4 DEF Approval, Refusal, Reviewable
  <2>. QED BY <1>1, <2>1 DEF Opening
<1>. QED BY <1>2, <1>3, <1>4

LEMMA OpeningMeets ==
    ASSUME PreferenceTypeOK, NEW q \in Forms, Opening(q)
    PROVE  /\ q \notin Filling /\ Filling' = Filling \union {q} /\ form[q].at = "unborn"
           /\ clashed \subseteq clashed'
           /\ \A p \in Filling : {p, q} \in clashed'
           /\ \A p \in Forms \ {q} : form'[p] = form[p]
           /\ form'[q].at = "reading" /\ form'[q].on \subseteq Replaced
           /\ form'[q].verb = "submit" => form'[q].on = Replaced
           /\ UNCHANGED <<submission, inForce, approver>>
<1>1. PICK verb \in {"submit", "approve", "reject", "edit"}, on \in SUBSET Replaced :
         Reads(q, verb, on) /\ (verb = "submit" => on = Replaced)
  BY DEF Opening
<1>2. /\ form[q].at = "unborn"
      /\ form' = [form EXCEPT ![q] = [verb |-> verb, at |-> "reading", on |-> on]]
      /\ clashed' = clashed \union {{p, q} : p \in Filling}
      /\ UNCHANGED <<submission, inForce, approver>>
  BY <1>1 DEF Reads
<1>3. form'[q].at = "reading" /\ form'[q].verb = verb /\ form'[q].on = on
  BY <1>2 DEF PreferenceTypeOK
<1>4. \A p \in Forms \ {q} : form'[p] = form[p]
  BY <1>2 DEF PreferenceTypeOK
<1>5. q \notin Filling /\ Filling' = Filling \union {q}
  BY <1>2, <1>3, <1>4 DEF Filling
<1>. QED BY <1>1, <1>2, <1>3, <1>4, <1>5

LEMMA FiledOver ==
    ASSUME PreferenceTypeOK, NEW q \in Forms, Filed(q)
    PROVE  /\ form'[q].at = "over" /\ form'[q].verb = "none" /\ form'[q].on = {}
           /\ \A p \in Forms \ {q} : form'[p] = form[p]
           /\ Filling' = Filling \ {q}
<1>1. /\ form'[q].at = "over" /\ form'[q].verb = "none" /\ form'[q].on = {}
      /\ \A p \in Forms \ {q} : form'[p] = form[p]
  BY DEF Filed, BlankForm, PreferenceTypeOK
<1>. QED BY <1>1 DEF Filling

\* Whatever ends, the requests that are still under way met it.
LEMMA PreferenceStep ==
    ASSUME PreferenceTypeOK, PreferenceInv, [PreferenceNext]_preferenceVars
    PROVE  PreferenceInv'
<1>. USE DEF PreferenceInv
<1>1. ASSUME NEW q \in Forms, Opening(q) PROVE PreferenceInv'
  <2>1. FormsClash'
    <3>1. \A p \in Filling : {p, q} = {q, p}
      OBVIOUS
    <3>. QED BY <1>1, <3>1, OpeningMeets DEF FormsClash
  <2>2. Stored'
    <3>1. \A s \in Forms : form[s].at = "over" => form'[s].at = "over"
      BY <1>1, OpeningMeets
    <3>2. \A s \in form'[q].on : form[s].at = "over" /\ s \in Forms
      BY <1>1, OpeningMeets DEF Stored, Replaced
    <3>3. \A p \in Forms : \A s \in form[p].on : s \in Forms
      BY DEF PreferenceTypeOK, Form
    <3>. QED BY <1>1, <3>1, <3>2, <3>3, OpeningMeets DEF Stored
  <2>3. LatePending'
    BY <1>1, OpeningMeets DEF LatePending, IsAt, Replaced
  <2>4. Decided' /\ OnePending' /\ InForceIsApproved'
    BY <1>1, OpeningMeets DEF Decided, OnePending, InForceIsApproved
  <2>5. LateDecision'
    <3>1. inForce # Default => inForce \notin form'[q].on
      BY <1>1, OpeningMeets DEF Decided, Replaced
    <3>2. \A p \in Filling : p \in Forms /\ p # q /\ form'[p] = form[p]
      BY <1>1, OpeningMeets DEF Filling
    <3>. QED BY <1>1, <3>1, <3>2, OpeningMeets DEF LateDecision
  <2>. QED BY <2>1, <2>2, <2>3, <2>4, <2>5
<1>2. ASSUME NEW q \in Forms, Filed(q), clashed' = clashed
      PROVE  FormsClash' /\ (\A p \in Filling' : p # q /\ p \in Filling /\ form'[p] = form[p])
  BY <1>2, FiledOver DEF FormsClash, Filling
<1>3. ASSUME NEW q \in Forms, Filed(q), form[q].at # "over",
             \A s \in Forms \ {q} : submission'[s] # "none" => submission[s] # "none" \/ s \in form[q].on
      PROVE  Stored'
  <2>1. \A s \in Forms : form[s].at = "over" => form'[s].at = "over"
    BY <1>3, FiledOver
  <2>2. \A p \in Forms : form'[p].on \subseteq form[p].on /\ form[p].on \subseteq Forms
    BY <1>3, FiledOver DEF PreferenceTypeOK, Form
  <2>. QED BY <1>3, <2>1, <2>2, FiledOver DEF Stored
<1>4. ASSUME NEW q \in Forms, SubmitEnds(q) PROVE PreferenceInv'
  <2>1. /\ Filed(q) /\ clashed' = clashed /\ UNCHANGED <<inForce, approver>>
        /\ q \in Filling /\ IsAt(q, "submit")
        /\ submission'[q] = "pending" /\ submission[q] = "none"
        /\ \A s \in Forms \ {q} : submission'[s] = IF s \in form[q].on THEN "rejected" ELSE submission[s]
    BY <1>4 DEF SubmitEnds, IsAt, Filling, Stored, PreferenceTypeOK
  <2>2. FormsClash' /\ Stored'
    BY <1>2, <1>3, <2>1 DEF Filling
  <2>3. LatePending'
    <3>. SUFFICES ASSUME NEW p \in Forms, IsAt(p, "submit")', NEW s \in Forms,
                         submission'[s] = "pending", s \notin form'[p].on
                  PROVE  {s, p} \in clashed'
      BY DEF LatePending
    <3>1. p # q /\ p \in Filling /\ form'[p] = form[p] /\ IsAt(p, "submit")
      BY <2>1, FiledOver DEF IsAt, Filling
    <3>2. CASE s = q
      BY <2>1, <3>1, <3>2 DEF FormsClash
    <3>3. CASE s # q
      BY <2>1, <3>1, <3>3 DEF LatePending
    <3>. QED BY <3>2, <3>3
  <2>4. Decided' /\ InForceIsApproved'
    <3>1. inForce # Default => inForce \in Forms /\ inForce # q
      BY <2>1 DEF Decided
    <3>2. inForce # Default /\ inForce \in form[q].on => {q, approver} \in clashed
      BY <2>1 DEF LateDecision
    <3>. QED BY <2>1, <3>1, <3>2 DEF Decided, InForceIsApproved
  <2>5. LateDecision'
    BY <1>2, <2>1 DEF LateDecision
  <2>6. OnePending'
    <3>1. \A s \in Forms \ {q} : submission'[s] = "pending" => {s, q} \in clashed
      BY <2>1 DEF LatePending
    <3>2. \A s \in Forms : {s, q} = {q, s}
      OBVIOUS
    <3>. QED BY <2>1, <3>1, <3>2 DEF OnePending
  <2>. QED BY <2>2, <2>3, <2>4, <2>5, <2>6
<1>5. ASSUME NEW q \in Forms, ApproveEnds(q) PROVE PreferenceInv'
  <2>1. /\ Filed(q) /\ clashed' = clashed /\ q \in Filling /\ approver' = q
        /\ submission' = [s \in Forms |-> IF s \in form[q].on THEN "approved" ELSE submission[s]]
        /\ form[q].on \subseteq Forms
    BY <1>5 DEF ApproveEnds, IsAt, Filling, PreferenceTypeOK, Form
  <2>2. PICK s \in form[q].on : inForce' = s
    BY <1>5 DEF ApproveEnds
  <2>3. FormsClash' /\ Stored'
    BY <1>2, <1>3, <2>1 DEF Filling
  <2>4. LatePending' /\ OnePending'
    BY <1>2, <2>1, FiledOver DEF LatePending, IsAt, OnePending
  <2>5. Decided' /\ InForceIsApproved'
    BY <2>1, <2>2 DEF Decided, InForceIsApproved
  <2>6. LateDecision'
    BY <1>2, <2>1 DEF LateDecision, FormsClash
  <2>. QED BY <2>3, <2>4, <2>5, <2>6
<1>6. ASSUME NEW q \in Forms, RejectionEnds(q) PROVE PreferenceInv'
  <2>1. /\ Filed(q) /\ clashed' = clashed /\ q \in Filling /\ UNCHANGED <<inForce, approver>>
        /\ submission' = [s \in Forms |-> IF s \in form[q].on THEN "rejected" ELSE submission[s]]
    BY <1>6 DEF RejectionEnds, IsAt, Filling
  <2>2. FormsClash' /\ Stored'
    BY <1>2, <1>3, <2>1 DEF Filling
  <2>3. LatePending' /\ OnePending'
    BY <1>2, <2>1, FiledOver DEF LatePending, IsAt, OnePending
  <2>4. Decided' /\ InForceIsApproved' /\ LateDecision'
    BY <1>2, <2>1 DEF Decided, InForceIsApproved, LateDecision
  <2>. QED BY <2>2, <2>3, <2>4
<1>7. ASSUME NEW q \in Forms, SubmitBlocked(q) PROVE PreferenceInv'
  <2>1. /\ Filed(q) /\ clashed' = clashed /\ UNCHANGED <<inForce, approver>>
        /\ form[q].at = "unborn" /\ submission[q] = "none"
        /\ submission' = [submission EXCEPT ![q] = "auto_blocked"]
    BY <1>7 DEF SubmitBlocked, Stored
  <2>2. /\ submission'[q] = "auto_blocked"
        /\ \A s \in Forms \ {q} : submission'[s] = submission[s]
    BY <2>1 DEF PreferenceTypeOK
  <2>3. FormsClash' /\ Stored'
    BY <1>2, <1>3, <2>1, <2>2
  <2>4. LatePending' /\ OnePending'
    BY <1>2, <2>1, <2>2, FiledOver DEF LatePending, IsAt, OnePending
  <2>5. Decided' /\ InForceIsApproved' /\ LateDecision'
    BY <1>2, <2>1, <2>2 DEF Decided, InForceIsApproved, LateDecision
  <2>. QED BY <2>3, <2>4, <2>5
<1>8. ASSUME NEW q \in Forms, AdminEditEnds(q) \/ FormFails(q) PROVE PreferenceInv'
  <2>1. /\ Filed(q) /\ clashed' = clashed /\ submission' = submission /\ q \in Filling
        /\ inForce' = Default \/ UNCHANGED <<inForce, approver>>
    BY <1>8 DEF AdminEditEnds, FormFails, IsAt, Filling
  <2>2. FormsClash' /\ Stored'
    BY <1>2, <1>3, <2>1 DEF Filling
  <2>3. LatePending' /\ OnePending'
    BY <1>2, <2>1, FiledOver DEF LatePending, IsAt, OnePending
  <2>4. Decided' /\ InForceIsApproved' /\ LateDecision'
    BY <1>2, <2>1 DEF Decided, InForceIsApproved, LateDecision
  <2>. QED BY <2>2, <2>3, <2>4
<1>9. CASE UNCHANGED preferenceVars
  BY <1>9 DEF preferenceVars, FormsClash, Stored, LatePending, IsAt, Decided, LateDecision,
              Filling, OnePending, InForceIsApproved
<1>. QED BY <1>1, <1>4, <1>5, <1>6, <1>7, <1>8, <1>9, OpeningReads DEF PreferenceNext

LEMMA PreferenceHolds == PreferenceSpec => []PreferenceInv
<1>1. PreferenceInit => PreferenceInv
  BY DEF PreferenceInit, PreferenceInv, FormsClash, Stored, LatePending, IsAt, Decided,
         LateDecision, Filling, OnePending, InForceIsApproved, BlankForm
<1>. QED BY <1>1, PreferenceStep, PreferenceTypeCorrect, PTL DEF PreferenceSpec

\* Two submissions wait together only if their requests overlapped, however many requests
\* there are.
THEOREM OnePendingUnlessTogether == PreferenceSpec => []OnePending
<1>1. PreferenceInv => OnePending
  BY DEF PreferenceInv
<1>. QED BY <1>1, PreferenceHolds, PTL

\* What is in force is approved, unless the approval overlapped another request, however
\* many requests there are.
THEOREM ForceIsApproved == PreferenceSpec => []InForceIsApproved
<1>1. PreferenceInv => InForceIsApproved
  BY DEF PreferenceInv
<1>. QED BY <1>1, PreferenceHolds, PTL

-----------------------------------------------------------------------------
(* Support tickets *)

\* A request on a ticket keeps the types.
LEMMA TicketNextType ==
    ASSUME TicketTypeOK, [TicketNext]_ticketVars
    PROVE  TicketTypeOK'
<1>1. ASSUME NEW q \in Letters, NEW verb \in LetterVerb, NEW target \in TicketStatus,
             LetterBegins(q, verb, target)
      PROVE  TicketTypeOK'
  <2>1. [verb |-> verb, at |-> "reading", seen |-> ticket, target |-> target,
         notified |-> escalation] \in Letter
    BY DEF Letter, TicketTypeOK
  <2>2. letter' \in [Letters -> Letter]
    BY <1>1, <2>1 DEF LetterBegins, TicketTypeOK
  <2>3. mixed' \in SUBSET (SUBSET Letters)
    BY <1>1 DEF LetterBegins, TicketTypeOK, Writing
  <2>. QED BY <1>1, <2>2, <2>3 DEF LetterBegins, TicketTypeOK
<1>2. ASSUME NEW q \in Letters, LetterEnds(q) PROVE TicketTypeOK'
  <2>1. letter[q] \in Letter
    BY DEF TicketTypeOK
  <2>2. [BlankLetter EXCEPT !.verb = letter[q].verb, !.at = "sent"] \in Letter
    BY <2>1 DEF BlankLetter, Letter, TicketStatus
  <2>3. letter' \in [Letters -> Letter]
    BY <1>2, <2>2 DEF LetterEnds, TicketTypeOK
  <2>4. StatusAfter(letter[q].verb, letter[q].seen, letter[q].target) \in TicketStatus
    BY <2>1 DEF StatusAfter, Letter, TicketStatus, LetterVerb
  <2>. QED BY <1>2, <2>3, <2>4 DEF LetterEnds, TicketTypeOK, Escalates
<1>3. ASSUME NEW q \in Letters, LetterFails(q) PROVE TicketTypeOK'
  BY <1>3 DEF LetterFails, TicketTypeOK, BlankLetter, Letter, LetterVerb, TicketStatus
<1>4. CASE UNCHANGED ticketVars
  BY <1>4 DEF ticketVars, TicketTypeOK
<1>. QED BY <1>1, <1>2, <1>3, <1>4
         DEF TicketNext, LetterVerb, Settable, TicketStatus

\* The row of a ticket and its requests keep their types, for any number of requests.
THEOREM TicketTypeCorrect == TicketSpec => []TicketTypeOK
<1>1. TicketInit => TicketTypeOK
  <2>1. BlankLetter \in Letter
    BY DEF BlankLetter, Letter, LetterVerb, TicketStatus
  <2>. QED BY <2>1 DEF TicketInit, TicketTypeOK, TicketStatus
<1>. QED BY <1>1, TicketNextType, PTL DEF TicketSpec

\* Two requests under way are known to overlap.
LettersCross == \A p, q \in Writing : p # q => {p, q} \in mixed

\* Who read the ticket closed sets its status or replies over HTTP.
ReadClosed == \A q \in Writing : letter[q].seen = "closed" => letter[q].verb \in {"reply", "set"}

\* Who has not read the ticket closed was under way when it was closed.
LateLetters == ticket = "closed" => \A q \in Writing : letter[q].seen # "closed" => {q, closer} \in mixed

TicketInv == LettersCross /\ ReadClosed /\ LateLetters

LEMMA TicketStep ==
    ASSUME TicketTypeOK, TicketInv, [TicketNext]_ticketVars
    PROVE  TicketInv'
<1>. USE DEF TicketInv
<1>1. ASSUME NEW q \in Letters, NEW verb \in LetterVerb, NEW target \in TicketStatus,
             LetterBegins(q, verb, target), verb # "none"
      PROVE  TicketInv'
  <2>1. /\ letter[q].at = "unborn" /\ (ticket = "closed" => verb \in {"reply", "set"})
        /\ mixed' = mixed \union {{p, q} : p \in Writing} /\ UNCHANGED <<ticket, closer>>
    BY <1>1 DEF LetterBegins, Refused, LetterVerb
  <2>2. /\ letter'[q].at = "reading" /\ letter'[q].seen = ticket /\ letter'[q].verb = verb
        /\ \A p \in Letters \ {q} : letter'[p] = letter[p]
    BY <1>1 DEF LetterBegins, TicketTypeOK
  <2>3. Writing' = Writing \union {q} /\ (\A p \in Writing : p \in Letters \ {q})
    BY <2>1, <2>2 DEF Writing
  <2>4. \A p \in Writing : {p, q} = {q, p} /\ {p, q} \in mixed'
    BY <2>1
  <2>5. LettersCross'
    BY <2>1, <2>3, <2>4 DEF LettersCross
  <2>6. ReadClosed' /\ LateLetters'
    BY <2>1, <2>2, <2>3 DEF ReadClosed, LateLetters
  <2>. QED BY <2>5, <2>6
<1>2. ASSUME NEW q \in Letters, LetterEnds(q) \/ LetterFails(q) PROVE TicketInv'
  <2>1. /\ letter'[q].at = "sent" /\ \A p \in Letters \ {q} : letter'[p] = letter[p]
        /\ letter[q].at = "reading" /\ mixed' = mixed
    <3>1. letter[q].at = "reading" /\ mixed' = mixed
      BY <1>2 DEF LetterEnds, LetterFails
    <3>2. \E new \in {[BlankLetter EXCEPT !.verb = letter[q].verb, !.at = "sent"],
                     [BlankLetter EXCEPT !.at = "sent"]} : letter' = [letter EXCEPT ![q] = new]
      BY <1>2 DEF LetterEnds, LetterFails
    <3>3. \A new \in {[BlankLetter EXCEPT !.verb = letter[q].verb, !.at = "sent"],
                     [BlankLetter EXCEPT !.at = "sent"]} : new.at = "sent"
      BY DEF BlankLetter
    <3>. QED BY <3>1, <3>2, <3>3 DEF TicketTypeOK
  <2>2. \A p \in Writing' : p \in Writing /\ p # q /\ letter'[p] = letter[p]
    BY <2>1 DEF Writing
  <2>3. LettersCross' /\ ReadClosed'
    BY <2>1, <2>2 DEF LettersCross, ReadClosed
  <2>4. ticket' = "closed" => closer' = q \/ (ticket = "closed" /\ closer' = closer)
    BY <1>2 DEF LetterEnds, LetterFails
  <2>5. \A p \in Writing' : {p, q} \in mixed'
    BY <2>1, <2>2 DEF LettersCross, Writing
  <2>6. LateLetters'
    BY <2>1, <2>2, <2>4, <2>5 DEF LateLetters
  <2>. QED BY <2>3, <2>6
<1>3. CASE UNCHANGED ticketVars
  BY <1>3 DEF ticketVars, LettersCross, ReadClosed, LateLetters, Writing
<1>. QED BY <1>1, <1>2, <1>3 DEF TicketNext, LetterVerb, Settable, TicketStatus

\* What takes a ticket out of "closed".
LEMMA WhoReopens ==
    ASSUME TicketTypeOK, TicketInv, TicketNext, ticket = "closed", ticket' # "closed",
           NEW q \in Letters, letter'[q] # letter[q]
    PROVE  letter[q].verb = "set" \/ {q, closer} \in mixed
<1>1. PICK p \in Letters : LetterEnds(p)
  BY DEF TicketNext, LetterBegins, LetterFails
<1>2. p = q
  BY <1>1 DEF LetterEnds, TicketTypeOK
<1>3. StatusAfter(letter[q].verb, letter[q].seen, letter[q].target) # letter[q].seen /\ q \in Writing
  BY <1>1, <1>2 DEF LetterEnds, Writing
<1>4. CASE letter[q].seen = "closed"
  <2>1. letter[q].verb \in {"reply", "set"}
    BY <1>3, <1>4 DEF TicketInv, ReadClosed
  <2>2. letter[q].verb # "reply"
    BY <1>3, <1>4 DEF StatusAfter
  <2>. QED BY <2>1, <2>2
<1>5. CASE letter[q].seen # "closed"
  BY <1>3, <1>5 DEF TicketInv, LateLetters
<1>. QED BY <1>4, <1>5

\* A closed ticket stays closed but for who sets its status and who overlapped the closing,
\* however many requests there are.
THEOREM ClosedTicketsStayClosed == TicketSpec => ClosedStaysClosed
<1>1. TicketInit => TicketInv
  BY DEF TicketInit, TicketInv, LettersCross, ReadClosed, LateLetters, Writing, BlankLetter
<1>2. TicketTypeOK /\ TicketInv /\ [TicketNext]_ticketVars =>
        [\A q \in Letters :
           ticket = "closed" /\ ticket' # "closed" /\ letter'[q] # letter[q] =>
               letter[q].verb = "set" \/ {q, closer} \in mixed]_ticketVars
  BY WhoReopens
<1>. QED BY <1>1, <1>2, TicketStep, TicketTypeCorrect, PTL DEF TicketSpec, ClosedStaysClosed

-----------------------------------------------------------------------------
(* ShipmentWatch: types *)

LEMMA LeastExists ==
    ASSUME NEW ids, ids \subseteq Nat, ids # {}
    PROVE  \E x \in ids : \A y \in ids : x <= y
<1>1. PICK x \in ids : \A y \in ids : <<y, x>> \notin OpToRel(<, Nat)
  BY NatLessThanWellFounded, WFMin, Zenon
<1>2. \A y \in ids : ~(y < x)
  BY <1>1, Zenon DEF OpToRel
<1>. QED BY <1>2

LEMMA MinIsLeast ==
    ASSUME NEW ids \in SUBSET EventId, ids # {}
    PROVE  Min(ids) \in ids /\ \A y \in ids : Min(ids) <= y
<1>1. ids \subseteq Nat
  BY WatchAssumption DEF EventId
<1>2. \E x \in ids : \A y \in ids : x <= y
  BY <1>1, LeastExists
<1>. QED BY <1>2 DEF Min

LEMMA MaxIsGreatest ==
    ASSUME NEW ids \in SUBSET EventId, ids # {}
    PROVE  Max(ids) \in ids /\ \A y \in ids : y <= Max(ids)
<1>. DEFINE above == {z \in Nat : \A y \in ids : y <= z}
<1>1. MaxEvents \in above
  BY WatchAssumption DEF EventId
<1>2. PICK x \in above : \A z \in above : x <= z
  BY <1>1, LeastExists
<1>3. x \in ids
  <2>1. SUFFICES ASSUME x \notin ids PROVE FALSE
    OBVIOUS
  <2>2. \A y \in ids : y \in Nat /\ 1 <= y /\ y < x
    BY <1>2, <2>1, WatchAssumption DEF EventId
  <2>3. x - 1 \in above
    BY <1>2, <2>2
  <2>. QED BY <1>2, <2>3
<1>4. \A y \in ids : x >= y
  BY <1>2, WatchAssumption DEF EventId
<1>5. Max(ids) \in ids /\ \A y \in ids : Max(ids) >= y
  BY <1>3, <1>4 DEF Max
<1>. QED BY <1>5, WatchAssumption DEF EventId

LEMMA GreatestIsGreatest ==
    ASSUME NEW ids \in SUBSET EventId
    PROVE  /\ Greatest(ids) \in ids \union {0} /\ Greatest(ids) \in 0 .. MaxEvents
           /\ \A y \in ids : y <= Greatest(ids)
<1>1. CASE ids = {}
  BY <1>1, WatchAssumption DEF Greatest
<1>2. CASE ids # {}
  <2>1. Greatest(ids) = Max(ids)
    BY <1>2 DEF Greatest
  <2>2. Greatest(ids) \in ids /\ \A y \in ids : y <= Greatest(ids)
    BY <1>2, <2>1, MaxIsGreatest
  <2>3. ids \subseteq 0 .. MaxEvents
    BY DEF EventId
  <2>. QED BY <2>2, <2>3
<1>. QED BY <1>1, <1>2

LEMMA RowsAreTyped == ASSUME WatchTypeOK PROVE StoredRow \in Row
BY DEF WatchTypeOK, StoredRow, Row

LEMMA NoRowIsARow == NoRow \in Row
<1>1. (CHOOSE c \in Wishes : TRUE) \in Wishes
  BY WatchAssumption
<1>. QED BY <1>1, WatchAssumption DEF NoRow, Row, NoCursor

LEMMA HoldingIsAThread ==
    ASSUME NEW row \in Row, NEW a \in {"idle", "asking", "loaded", "status", "telling", "posting"}
    PROVE  Holding(a, row) \in WatchThread
BY DEF Holding, WatchThread

LEMMA IdleIsAThread == Idle \in WatchThread
BY NoRowIsARow, HoldingIsAThread DEF Idle

LEMMA MailsAreFew ==
    ASSUME NEW row \in Row, NEW n \in MailsSent(row)
    PROVE  n \in {0, 1} /\ row.counted + n \in 0 .. MailCap
BY WatchAssumption DEF MailsSent, LimitReached, Row

LEMMA EventMailsAreFew ==
    ASSUME NEW row \in Row, NEW e, NEW n \in EventMails(row, e)
    PROVE  n \in {0, 1} /\ row.counted + n \in 0 .. MailCap
BY MailsAreFew, WatchAssumption DEF EventMails, Row

LEMMA ToldRow ==
    ASSUME NEW row \in Row, NEW e \in EventId, NEW ends \in BOOLEAN, NEW n \in EventMails(row, e)
    PROVE  /\ AfterTelling(row, e, ends, n) \in Row
           /\ AfterTelling(row, e, ends, n).active = (row.active /\ ~ends)
           /\ AfterTelling(row, e, ends, n).cursor = e
           /\ AfterTelling(row, e, ends, n).counted = row.counted + n
           /\ AfterTelling(row, e, ends, n).choice = row.choice
<1>1. row.counted + n \in 0 .. MailCap
  BY EventMailsAreFew
<1>2. e \in NoCursor .. MaxEvents
  BY WatchAssumption DEF EventId, NoCursor
<1>. QED BY <1>1, <1>2 DEF AfterTelling, Row

LEMMA PlacedRow ==
    ASSUME NEW row \in Row, NEW from \in NoCursor .. MaxEvents
    PROVE  /\ PlacedAt(row, from) \in Row /\ PlacedAt(row, from).cursor = from
           /\ PlacedAt(row, from).active = row.active
           /\ PlacedAt(row, from).counted = row.counted
           /\ PlacedAt(row, from).choice = row.choice
BY DEF PlacedAt, Row

LEMMA RenewedRow ==
    ASSUME NEW row \in Row, NEW wish \in Wishes
    PROVE  /\ Renewed(row, wish) \in Row /\ Renewed(row, wish).active = TRUE
           /\ Renewed(row, wish).cursor = row.cursor /\ Renewed(row, wish).counted = 0
           /\ Renewed(row, wish).choice = wish
<1>1. 0 \in 0 .. MailCap
  BY WatchAssumption
<1>. QED BY <1>1 DEF Renewed, Row

LEMMA StatusRow ==
    ASSUME NEW row \in Row, NEW ends \in BOOLEAN, NEW n \in {0} \union MailsSent(row)
    PROVE  /\ AfterStatus(row, ends, n) \in Row
           /\ AfterStatus(row, ends, n).active = (row.active /\ ~ends)
           /\ AfterStatus(row, ends, n).cursor = row.cursor
           /\ AfterStatus(row, ends, n).counted = row.counted + n
           /\ AfterStatus(row, ends, n).choice = row.choice
<1>1. row.counted + n \in 0 .. MailCap /\ row.counted \in Nat
  BY MailsAreFew, WatchAssumption DEF Row
<1>. QED BY <1>1 DEF AfterStatus, Row

Others(t) == \A u \in Threads \ {t} : thread'[u] = thread[u]

\* What the threads become when one of them changes.
LEMMA ThreadsSet ==
    ASSUME WatchTypeOK, NEW t \in Threads, NEW state \in WatchThread, Sets(t, state)
    PROVE  thread' \in [Threads -> WatchThread] /\ thread'[t] = state /\ Others(t)
BY DEF WatchTypeOK, Sets, Others

LEMMA ScansTaken ==
    ASSUME WatchTypeOK, NEW n \in 0 .. MaxEvents - lastId
    PROVE  /\ lastId + n \in lastId .. MaxEvents /\ lastId + n \in 0 .. MaxEvents
           /\ lastId + 1 .. lastId + n \in SUBSET EventId
           /\ lastId + 1 .. lastId + n \subseteq 1 .. lastId + n
           /\ 1 .. lastId \subseteq 1 .. lastId + n
           /\ \A z \in 1 .. lastId : z \notin lastId + 1 .. lastId + n
BY WatchAssumption DEF WatchTypeOK, EventId

-----------------------------------------------------------------------------
(* ShipmentWatch: what a step does to its thread *)

\* A step of t that leaves the rows of its session and the stored columns alone.
Keeps(t) ==
    /\ thread' \in [Threads -> WatchThread] /\ Others(t)
    /\ UNCHANGED <<active, cursor, counted, choice, visible, noted, declined, passed, outrun>>

LEMMA LoadEffect ==
    ASSUME WatchTypeOK, NEW p \in Threads, CycleLoads(p)
    PROVE  Keeps(p) /\ thread'[p] = Loaded("loaded") /\ UNCHANGED <<lastId, mailed>>
<1>1. Loaded("loaded") \in WatchThread
  BY RowsAreTyped, HoldingIsAThread DEF Loaded
<1>. QED BY <1>1, ThreadsSet DEF CycleLoads, Keeps

\* t inserts the events new, as its session has it from then on.
Inserts(t, new, from, left) ==
    /\ thread'[t].loaded = thread[t].loaded /\ thread'[t].flushed = thread[t].flushed
    /\ thread'[t].now = PlacedAt(thread[t].now, from)
    /\ thread'[t].told = thread[t].told
    /\ thread'[t].own = thread[t].own \union new
    /\ thread'[t].left = left

LEMMA SyncEffect ==
    ASSUME WatchTypeOK, NEW t \in Threads, CycleSyncs(t)
    PROVE  /\ Keeps(t) /\ mailed' = mailed
           /\ \E n \in 0 .. MaxEvents - lastId :
                LET new  == lastId + 1 .. lastId + n
                    seen == visible \union thread[t].own \union new
                    from == Start(thread[t].now, seen)
                IN  /\ lastId' = lastId + n /\ from \in NoCursor .. MaxEvents
                    /\ Inserts(t, new, from, IF thread[t].now.cursor = NoCursor
                                             THEN IdsUpTo(from) ELSE thread[t].left)
                    /\ thread'[t].todo = {e \in seen : e > from}
                    /\ thread'[t].at = IF thread'[t].todo = {} THEN "status" ELSE "telling"
<1>. USE WatchAssumption
<1>0. PICK n \in 0 .. MaxEvents - lastId :
         LET new  == lastId + 1 .. lastId + n
             seen == visible \union thread[t].own \union new
             from == Start(thread[t].now, seen)
             todo == EventsAfterCursor(from, seen)
         IN  /\ lastId' = lastId + n
             /\ Sets(t, [thread[t] EXCEPT
                           !.at = IF todo = {} THEN "status" ELSE "telling",
                           !.now = PlacedAt(@, from), !.own = @ \union new, !.todo = todo,
                           !.left = IF thread[t].now.cursor = NoCursor THEN IdsUpTo(from) ELSE @])
  BY DEF CycleSyncs
<1>. DEFINE new  == lastId + 1 .. lastId + n
            seen == visible \union thread[t].own \union new
            from == Start(thread[t].now, seen)
            todo == {e \in seen : e > from}
            at   == IF todo = {} THEN "status" ELSE "telling"
            left == IF thread[t].now.cursor = NoCursor THEN IdsUpTo(from) ELSE thread[t].left
            state == [thread[t] EXCEPT !.at = at, !.now = PlacedAt(@, from), !.own = @ \union new,
                                       !.todo = todo, !.left = left]
<1>1. Sets(t, state) /\ lastId' = lastId + n
  BY <1>0 DEF EventsAfterCursor
<1>2. thread[t] \in WatchThread /\ thread[t].now \in Row
  BY DEF WatchTypeOK, WatchThread
<1>3. new \in SUBSET EventId /\ seen \in SUBSET EventId
  BY <1>2, ScansTaken DEF WatchTypeOK, WatchThread
<1>4. from \in NoCursor .. MaxEvents
  BY <1>2, <1>3, GreatestIsGreatest DEF Start, Row, NoCursor
<1>5. at \in {"status", "telling"} /\ left \in SUBSET EventId /\ todo \in SUBSET EventId
  BY <1>2, <1>3 DEF WatchThread, IdsUpTo
<1>. HIDE DEF new, from, todo, at, left
<1>6. /\ state \in WatchThread /\ state.at = at /\ state.todo = todo /\ state.left = left
      /\ state.own = thread[t].own \union new /\ state.told = thread[t].told
      /\ state.loaded = thread[t].loaded /\ state.flushed = thread[t].flushed
      /\ state.now = PlacedAt(thread[t].now, from)
  <2>1. PlacedAt(thread[t].now, from) \in Row
    BY <1>2, <1>4, PlacedRow
  <2>. QED BY <1>2, <1>3, <1>5, <2>1 DEF WatchThread
<1>. HIDE DEF state
<1>7. thread' \in [Threads -> WatchThread] /\ thread'[t] = state /\ Others(t)
  BY <1>1, <1>6, ThreadsSet
<1>8. Keeps(t) /\ mailed' = mailed
  BY <1>7 DEF Keeps, CycleSyncs
<1>9. Inserts(t, new, from, left) /\ thread'[t].todo = todo /\ thread'[t].at = at
  BY <1>6, <1>7 DEF Inserts
<1>. QED BY <1>1, <1>4, <1>8, <1>9 DEF new, from, todo, at, left

\* Nothing but the row of its session changes, for a thread that has nothing to tell.
Waits(t) ==
    /\ thread'[t].at = "telling"
    /\ thread'[t].loaded = thread[t].loaded /\ thread'[t].flushed = thread[t].flushed
    /\ thread'[t].own = thread[t].own /\ thread'[t].todo = thread[t].todo
    /\ thread'[t].told = thread[t].told /\ thread'[t].left = thread[t].left

LEMMA StatusSets ==
    ASSUME WatchTypeOK, NEW t \in Threads, NEW ends \in BOOLEAN,
           NEW n \in {0} \union MailsSent(thread[t].now),
           Sets(t, [thread[t] EXCEPT !.at = "telling", !.now = AfterStatus(@, ends, n)])
    PROVE  /\ thread' \in [Threads -> WatchThread] /\ Others(t) /\ Waits(t)
           /\ thread'[t].now = AfterStatus(thread[t].now, ends, n)
<1>. DEFINE row == AfterStatus(thread[t].now, ends, n)
            state == [thread[t] EXCEPT !.at = "telling", !.now = row]
<1>1. thread[t] \in WatchThread /\ thread[t].now \in Row
  BY DEF WatchTypeOK, WatchThread
<1>2. row \in Row
  BY <1>1, StatusRow
<1>3. Sets(t, state)
  OBVIOUS
<1>. HIDE DEF row
<1>4. /\ state \in WatchThread /\ state.at = "telling" /\ state.now = row
      /\ state.loaded = thread[t].loaded /\ state.flushed = thread[t].flushed
      /\ state.own = thread[t].own /\ state.todo = thread[t].todo
      /\ state.told = thread[t].told /\ state.left = thread[t].left
  BY <1>1, <1>2 DEF WatchThread
<1>. HIDE DEF state
<1>5. thread' \in [Threads -> WatchThread] /\ thread'[t] = state /\ Others(t)
  BY <1>3, <1>4, ThreadsSet
<1>. QED BY <1>4, <1>5 DEF row, Waits

LEMMA StatusEffect ==
    ASSUME WatchTypeOK, NEW t \in Threads, StatusTold(t)
    PROVE  /\ Keeps(t) /\ Waits(t) /\ lastId' = lastId
           /\ \E ends \in BOOLEAN, n \in {0} \union MailsSent(thread[t].now) :
                /\ thread'[t].now = AfterStatus(thread[t].now, ends, n)
                /\ mailed' = mailed + n
<1>1. PICK n \in {0} \union MailsSent(thread[t].now), delivered \in BOOLEAN :
        /\ Sets(t, [thread[t] EXCEPT !.at = "telling",
                      !.now = AfterStatus(@, delivered /\ ~DemoMode, n)])
        /\ mailed' = mailed + n
  BY DEF StatusTold
<1>2. (delivered /\ ~DemoMode) \in BOOLEAN
  OBVIOUS
<1>3. /\ thread' \in [Threads -> WatchThread] /\ Others(t) /\ Waits(t)
      /\ thread'[t].now = AfterStatus(thread[t].now, delivered /\ ~DemoMode, n)
  BY <1>1, <1>2, StatusSets
<1>. QED BY <1>1, <1>2, <1>3 DEF StatusTold, Keeps

LEMMA DeactivateEffect ==
    ASSUME WatchTypeOK, NEW p \in Threads, CycleDeactivates(p)
    PROVE  /\ Keeps(p) /\ Waits(p) /\ UNCHANGED <<lastId, mailed>>
           /\ thread'[p].now = AfterStatus(thread[p].now, TRUE, 0)
<1>1. Sets(p, [thread[p] EXCEPT !.at = "telling", !.now = AfterStatus(@, TRUE, 0)])
  BY DEF CycleDeactivates
<1>2. /\ thread' \in [Threads -> WatchThread] /\ Others(p) /\ Waits(p)
      /\ thread'[p].now = AfterStatus(thread[p].now, TRUE, 0)
  BY <1>1, StatusSets
<1>. QED BY <1>2 DEF CycleDeactivates, Keeps

LEMMA WaitEffect ==
    ASSUME WatchTypeOK, NEW t \in Threads,
           Sets(t, [thread[t] EXCEPT !.at = "telling"])
    PROVE  /\ thread' \in [Threads -> WatchThread] /\ Others(t) /\ Waits(t)
           /\ thread'[t].now = thread[t].now
<1>. DEFINE state == [thread[t] EXCEPT !.at = "telling"]
<1>1. thread[t] \in WatchThread
  BY DEF WatchTypeOK
<1>2. /\ state \in WatchThread /\ state.at = "telling" /\ state.now = thread[t].now
      /\ state.loaded = thread[t].loaded /\ state.flushed = thread[t].flushed
      /\ state.own = thread[t].own /\ state.todo = thread[t].todo
      /\ state.told = thread[t].told /\ state.left = thread[t].left
  BY <1>1 DEF WatchThread
<1>. HIDE DEF state
<1>3. thread' \in [Threads -> WatchThread] /\ thread'[t] = state /\ Others(t)
  BY <1>2, ThreadsSet DEF state
<1>. QED BY <1>2, <1>3 DEF Waits

\* t tells e, the first event it has to tell, with n mails.
TellsEvent(t, e, ends, n) ==
    /\ e \in thread[t].todo /\ e \in EventId /\ \A y \in thread[t].todo : e <= y
    /\ ends \in BOOLEAN /\ n \in EventMails(thread[t].now, e) /\ mailed' = mailed + n
    /\ thread'[t].at = thread[t].at /\ thread'[t].flushed = thread[t].flushed
    /\ thread'[t].loaded = thread[t].loaded /\ thread'[t].left = thread[t].left
    /\ thread'[t].own = thread[t].own /\ thread'[t].todo = thread[t].todo \ {e}
    /\ thread'[t].told = thread[t].told \union {e}
    /\ thread'[t].now = AfterTelling(thread[t].now, e, ends, n)

LEMMA TellEffect ==
    ASSUME WatchTypeOK, NEW t \in Threads, CycleTells(t)
    PROVE  /\ Keeps(t) /\ lastId' = lastId
           /\ \E e \in EventId, ends \in BOOLEAN, n \in {0, 1} : TellsEvent(t, e, ends, n)
<1>. DEFINE e == Min(thread[t].todo)
            ends == IsDelivery(e) /\ ~DemoMode
<1>1. thread[t] \in WatchThread /\ thread[t].now \in Row
  BY DEF WatchTypeOK, WatchThread
<1>2. e \in thread[t].todo /\ e \in EventId /\ \A y \in thread[t].todo : e <= y
  BY <1>1, MinIsLeast DEF CycleTells, WatchThread
<1>3. PICK n \in EventMails(thread[t].now, e) :
        /\ Sets(t, [thread[t] EXCEPT !.todo = @ \ {e}, !.told = @ \union {e},
                      !.now = AfterTelling(@, e, ends, n)])
        /\ mailed' = mailed + n
  BY DEF CycleTells
<1>4. ends \in BOOLEAN /\ n \in {0, 1}
  BY <1>1, EventMailsAreFew
<1>. HIDE DEF e, ends
<1>. DEFINE row == AfterTelling(thread[t].now, e, ends, n)
            state == [thread[t] EXCEPT !.todo = @ \ {e}, !.told = @ \union {e}, !.now = row]
<1>5. row \in Row
  BY <1>1, <1>2, <1>4, ToldRow
<1>6. Sets(t, state)
  BY <1>3
<1>. HIDE DEF row
<1>7. /\ state \in WatchThread /\ state.at = thread[t].at /\ state.now = row
      /\ state.loaded = thread[t].loaded /\ state.flushed = thread[t].flushed
      /\ state.own = thread[t].own /\ state.todo = thread[t].todo \ {e}
      /\ state.told = thread[t].told \union {e} /\ state.left = thread[t].left
  BY <1>1, <1>2, <1>5 DEF WatchThread
<1>. HIDE DEF state
<1>8. thread' \in [Threads -> WatchThread] /\ thread'[t] = state /\ Others(t)
  BY <1>6, <1>7, ThreadsSet
<1>9. TellsEvent(t, e, ends, n)
  BY <1>2, <1>3, <1>4, <1>7, <1>8 DEF row, TellsEvent
<1>10. Keeps(t) /\ lastId' = lastId
  BY <1>8 DEF Keeps, CycleTells
<1>. QED BY <1>2, <1>4, <1>9, <1>10

\* What h holds when it posts the next event: the row as it changed it, or the stored one.
Holds(h, held) ==
    /\ held \in WatchThread /\ held.at = "posting" /\ held.own = thread[h].own
    /\ \/ /\ held = thread[h] /\ thread[h].told # {}
       \/ /\ ~(thread[h].at = "posting" /\ thread[h].told # {})
          /\ held.loaded = StoredRow /\ held.now = StoredRow /\ held.flushed = {}
          /\ held.todo = {} /\ held.told = {} /\ held.left = {}

\* h posts the event e, which it tells with n mails or to nobody.
Posts(h, held, e, n) ==
    /\ thread'[h].at = "posting" /\ thread'[h].loaded = held.loaded
    /\ thread'[h].flushed = held.flushed /\ thread'[h].todo = held.todo
    /\ thread'[h].left = held.left /\ thread'[h].own = held.own \union {e}
    /\ mailed' = mailed + n
    /\ \/ thread'[h].told = held.told /\ thread'[h].now = held.now /\ n = 0
       \/ /\ e > held.now.cursor /\ n \in EventMails(held.now, e)
          /\ thread'[h].told = held.told \union {e}
          /\ thread'[h].now = AfterTelling(held.now, e, FALSE, n)

LEMMA HookEffect ==
    ASSUME WatchTypeOK, NEW h \in Threads, HookPosts(h)
    PROVE  /\ Keeps(h) /\ lastId' = lastId + 1 /\ lastId + 1 \in EventId
           /\ \E held \in WatchThread, n \in {0, 1} :
                Holds(h, held) /\ Posts(h, held, lastId + 1, n)
<1>. DEFINE e == lastId + 1
            held == InHand(h)
<1>1. /\ lastId' = lastId + 1
      /\ \/ /\ e > held.now.cursor
            /\ \E n \in EventMails(held.now, e) :
                 /\ Sets(h, [held EXCEPT !.own = @ \union {e}, !.told = @ \union {e},
                                         !.now = AfterTelling(@, e, FALSE, n)])
                 /\ mailed' = mailed + n
         \/ Sets(h, [held EXCEPT !.own = @ \union {e}]) /\ mailed' = mailed
  BY DEF HookPosts
<1>0. UNCHANGED <<active, cursor, counted, choice, visible, noted, declined, passed, outrun>>
  BY DEF HookPosts
<1>2. e \in EventId /\ mailed \in Nat
  <2>1. lastId < MaxEvents
    BY DEF HookPosts
  <2>. QED BY <2>1, WatchAssumption DEF WatchTypeOK, EventId
<1>3. Holds(h, held)
  <2>1. CASE thread[h].at = "posting" /\ thread[h].told # {}
    BY <2>1 DEF Holds, InHand, WatchTypeOK
  <2>2. CASE ~(thread[h].at = "posting" /\ thread[h].told # {})
    <3>1. Loaded("posting") \in WatchThread /\ thread[h].own \in SUBSET EventId
      BY RowsAreTyped, HoldingIsAThread DEF Loaded, WatchTypeOK, WatchThread
    <3>2. held = [at |-> "posting", loaded |-> StoredRow, now |-> StoredRow, flushed |-> {},
                  own |-> thread[h].own, todo |-> {}, told |-> {}, left |-> {}]
      BY <2>2 DEF InHand, Loaded, Holding
    <3>. QED BY <2>2, <3>1, <3>2, RowsAreTyped DEF Holds, WatchThread
  <2>. QED BY <2>1, <2>2
<1>. HIDE DEF e, held
<1>4. held \in WatchThread /\ held.now \in Row /\ held.at = "posting"
  BY <1>3 DEF Holds, WatchThread
<1>5. CASE Sets(h, [held EXCEPT !.own = @ \union {e}]) /\ mailed' = mailed
  <2>. DEFINE state == [held EXCEPT !.own = @ \union {e}]
  <2>1. /\ state \in WatchThread /\ state.at = "posting" /\ state.now = held.now
        /\ state.loaded = held.loaded /\ state.flushed = held.flushed
        /\ state.own = held.own \union {e} /\ state.todo = held.todo
        /\ state.told = held.told /\ state.left = held.left
    BY <1>2, <1>4 DEF WatchThread
  <2>2. Sets(h, state)
    BY <1>5
  <2>. HIDE DEF state
  <2>3. thread' \in [Threads -> WatchThread] /\ thread'[h] = state /\ Others(h)
    BY <2>1, <2>2, ThreadsSet
  <2>4. mailed' = mailed + 0
    BY <1>2, <1>5
  <2>6. Posts(h, held, e, 0)
    BY <2>1, <2>3, <2>4 DEF Posts
  <2>5. Keeps(h) /\ lastId' = lastId + 1 /\ lastId + 1 \in EventId
    BY <1>0, <1>1, <1>2, <2>3 DEF Keeps, e
  <2>. QED BY <1>3, <1>4, <2>5, <2>6 DEF e
<1>6. ASSUME e > held.now.cursor, NEW n \in EventMails(held.now, e), mailed' = mailed + n,
             Sets(h, [held EXCEPT !.own = @ \union {e}, !.told = @ \union {e},
                                  !.now = AfterTelling(@, e, FALSE, n)])
      PROVE  /\ Keeps(h) /\ lastId' = lastId + 1 /\ lastId + 1 \in EventId
             /\ n \in {0, 1} /\ Holds(h, held) /\ Posts(h, held, lastId + 1, n)
  <2>. DEFINE row == AfterTelling(held.now, e, FALSE, n)
              state == [held EXCEPT !.own = @ \union {e}, !.told = @ \union {e}, !.now = row]
  <2>1. row \in Row /\ n \in {0, 1}
    BY <1>2, <1>4, ToldRow, EventMailsAreFew
  <2>2. Sets(h, state)
    BY <1>6
  <2>. HIDE DEF row
  <2>3. /\ state \in WatchThread /\ state.at = "posting" /\ state.now = row
        /\ state.loaded = held.loaded /\ state.flushed = held.flushed
        /\ state.own = held.own \union {e} /\ state.todo = held.todo
        /\ state.told = held.told \union {e} /\ state.left = held.left
    BY <1>2, <1>4, <2>1 DEF WatchThread
  <2>. HIDE DEF state
  <2>4. thread' \in [Threads -> WatchThread] /\ thread'[h] = state /\ Others(h)
    BY <2>2, <2>3, ThreadsSet
  <2>5. Posts(h, held, e, n)
    <3>1. e > held.now.cursor /\ n \in EventMails(held.now, e) /\ mailed' = mailed + n
      BY <1>6
    <3>. QED BY <2>3, <2>4, <3>1 DEF Posts, row
  <2>6. Keeps(h) /\ lastId' = lastId + 1 /\ lastId + 1 \in EventId
    BY <1>0, <1>1, <1>2, <2>4 DEF Keeps, e
  <2>. QED BY <1>3, <2>1, <2>5, <2>6 DEF e
<1>. QED BY <1>1, <1>4, <1>5, <1>6

LEMMA TrackingEffect ==
    ASSUME WatchTypeOK, NEW h \in Threads, TrackingSyncs(h)
    PROVE  /\ Keeps(h) /\ mailed' = mailed /\ thread'[h].at = "telling"
           /\ thread'[h].loaded = StoredRow /\ thread'[h].now = StoredRow
           /\ thread'[h].flushed = {} /\ thread'[h].todo = {} /\ thread'[h].told = {}
           /\ thread'[h].left = {}
           /\ \E n \in 0 .. MaxEvents - lastId :
                lastId' = lastId + n /\ thread'[h].own = lastId + 1 .. lastId + n
<1>1. PICK n \in 1 .. MaxEvents - lastId :
        /\ lastId' = lastId + n
        /\ Sets(h, [Loaded("telling") EXCEPT !.own = lastId + 1 .. lastId + n])
  BY DEF TrackingSyncs
<1>2. n \in 0 .. MaxEvents - lastId
  BY WatchAssumption DEF WatchTypeOK
<1>. DEFINE new == lastId + 1 .. lastId + n
            state == [Loaded("telling") EXCEPT !.own = new]
<1>3. new \in SUBSET EventId
  BY <1>2, ScansTaken
<1>. HIDE DEF new
<1>4. /\ state \in WatchThread /\ state.at = "telling" /\ state.now = StoredRow
      /\ state.loaded = StoredRow /\ state.flushed = {} /\ state.own = new
      /\ state.todo = {} /\ state.told = {} /\ state.left = {}
  BY <1>3, RowsAreTyped DEF Loaded, Holding, WatchThread
<1>. HIDE DEF state
<1>5. thread' \in [Threads -> WatchThread] /\ thread'[h] = state /\ Others(h)
  BY <1>1, <1>4, ThreadsSet DEF state, new
<1>. QED BY <1>1, <1>2, <1>4, <1>5 DEF TrackingSyncs, Keeps, new

LEMMA SubscribeEffect ==
    ASSUME WatchTypeOK, ClientSubscribes
    PROVE  /\ Client \in Threads /\ Keeps(Client) /\ mailed' = 0 /\ lastId' = lastId
           /\ thread'[Client].at = "asking" /\ thread'[Client].loaded = StoredRow
           /\ thread'[Client].own = {} /\ thread'[Client].todo = {} /\ thread'[Client].told = {}
           /\ thread'[Client].left = IdsUpTo(cursor)
           /\ thread'[Client].now.cursor = cursor /\ thread'[Client].now.counted = 0
           /\ "counted" \in thread'[Client].flushed \/ counted = 0
<1>. DEFINE after(wish) == Renewed(StoredRow, wish)
            wrote(wish) == {column \in {"active", "counted", "choice"} :
                              after(wish)[column] # StoredRow[column]}
<1>1. PICK wish \in Wishes :
        Sets(Client, [Loaded("asking") EXCEPT !.now = after(wish), !.left = IdsUpTo(cursor),
                                              !.flushed = wrote(wish)])
  BY DEF ClientSubscribes
<1>2. /\ after(wish) \in Row /\ after(wish).cursor = cursor /\ after(wish).counted = 0
      /\ StoredRow.counted = counted
  <2>1. StoredRow.counted = counted /\ StoredRow.cursor = cursor
    BY DEF StoredRow
  <2>. QED BY <2>1, RowsAreTyped, RenewedRow
<1>3. wrote(wish) \in SUBSET {"active", "counted", "choice"} /\ IdsUpTo(cursor) \in SUBSET EventId
  BY DEF IdsUpTo
<1>4. "counted" \in wrote(wish) \/ counted = 0
  BY <1>2
<1>. HIDE DEF after, wrote
<1>. DEFINE state == [Loaded("asking") EXCEPT !.now = after(wish), !.left = IdsUpTo(cursor),
                                              !.flushed = wrote(wish)]
<1>5. /\ state \in WatchThread /\ state.at = "asking" /\ state.now = after(wish)
      /\ state.loaded = StoredRow /\ state.flushed = wrote(wish) /\ state.own = {}
      /\ state.todo = {} /\ state.told = {} /\ state.left = IdsUpTo(cursor)
  BY <1>2, <1>3, RowsAreTyped DEF Loaded, Holding, WatchThread
<1>. HIDE DEF state
<1>6. Client \in Threads
  BY DEF Threads
<1>7. thread' \in [Threads -> WatchThread] /\ thread'[Client] = state /\ Others(Client)
  BY <1>1, <1>5, <1>6, ThreadsSet DEF state
<1>. QED BY <1>2, <1>4, <1>5, <1>6, <1>7 DEF ClientSubscribes, Keeps

LEMMA BaselineEffect ==
    ASSUME WatchTypeOK, ClientBaselines
    PROVE  /\ Client \in Threads /\ Keeps(Client) /\ mailed' = mailed
           /\ thread'[Client].at = "loaded" /\ thread'[Client].todo = thread[Client].todo
           /\ thread'[Client].loaded = thread[Client].loaded
           /\ thread'[Client].flushed = thread[Client].flushed
           /\ thread'[Client].told = thread[Client].told
           /\ \E n \in 0 .. MaxEvents - lastId, from \in 0 .. MaxEvents :
                /\ lastId' = lastId + n
                /\ from = Greatest(visible \union (lastId + 1 .. lastId + n))
                /\ thread'[Client].own = lastId + 1 .. lastId + n
                /\ thread'[Client].now = PlacedAt(thread[Client].now, from)
                /\ thread'[Client].left = thread[Client].left \union IdsUpTo(from)
<1>1. PICK n \in 0 .. MaxEvents - lastId :
        LET new  == lastId + 1 .. lastId + n
            from == Greatest(visible \union new)
        IN  /\ lastId' = lastId + n
            /\ Sets(Client, [thread[Client] EXCEPT !.at = "loaded", !.own = new,
                               !.now = PlacedAt(@, from), !.left = @ \union IdsUpTo(from)])
  BY DEF ClientBaselines
<1>. DEFINE new == lastId + 1 .. lastId + n
            from == Greatest(visible \union new)
            row  == PlacedAt(thread[Client].now, from)
            state == [thread[Client] EXCEPT !.at = "loaded", !.own = new, !.now = row,
                                            !.left = @ \union IdsUpTo(from)]
<1>2. Client \in Threads /\ thread[Client] \in WatchThread /\ thread[Client].now \in Row
  BY DEF Threads, WatchTypeOK, WatchThread
<1>3. new \in SUBSET EventId /\ from \in 0 .. MaxEvents /\ IdsUpTo(from) \in SUBSET EventId
  <2>1. new \in SUBSET EventId
    BY ScansTaken
  <2>. QED BY <2>1, GreatestIsGreatest DEF WatchTypeOK, IdsUpTo
<1>4. Sets(Client, state) /\ lastId' = lastId + n
  BY <1>1
<1>. HIDE DEF new, from
<1>5. row \in Row
  BY <1>2, <1>3, PlacedRow, WatchAssumption DEF NoCursor
<1>. HIDE DEF row
<1>6. /\ state \in WatchThread /\ state.at = "loaded" /\ state.now = row
      /\ state.loaded = thread[Client].loaded /\ state.flushed = thread[Client].flushed
      /\ state.own = new /\ state.todo = thread[Client].todo
      /\ state.told = thread[Client].told
      /\ state.left = thread[Client].left \union IdsUpTo(from)
  BY <1>2, <1>3, <1>5 DEF WatchThread
<1>. HIDE DEF state
<1>7. thread' \in [Threads -> WatchThread] /\ thread'[Client] = state /\ Others(Client)
  BY <1>2, <1>4, <1>6, ThreadsSet
<1>8. Keeps(Client) /\ mailed' = mailed
  BY <1>7 DEF Keeps, ClientBaselines
<1>9. from = Greatest(visible \union (lastId + 1 .. lastId + n))
  BY DEF from, new
<1>10. row = PlacedAt(thread[Client].now, from)
  BY DEF row
<1>11. new = lastId + 1 .. lastId + n
  BY DEF new
<1>. QED BY <1>2, <1>3, <1>4, <1>6, <1>7, <1>8, <1>9, <1>10, <1>11

LEMMA EndEffect ==
    ASSUME WatchTypeOK, NEW t \in Threads, Sets(t, Idle)
    PROVE  /\ thread' \in [Threads -> WatchThread] /\ Others(t) /\ thread'[t] = Idle
           /\ IsIdle(t)' /\ thread'[t].loaded = NoRow /\ thread'[t].now = NoRow
           /\ thread'[t].flushed = {} /\ thread'[t].own = {} /\ thread'[t].todo = {}
           /\ thread'[t].told = {} /\ thread'[t].left = {}
<1>1. thread' \in [Threads -> WatchThread] /\ Others(t) /\ thread'[t] = Idle
  BY IdleIsAThread, ThreadsSet
<1>. QED BY <1>1 DEF Idle, Holding, IsIdle

-----------------------------------------------------------------------------
(* ShipmentWatch: types *)

\* What the commit of t writes and to which columns.
LEMMA CommitEffect ==
    ASSUME WatchTypeOK, NEW t \in Threads, Commits(t)
    PROVE  /\ thread' \in [Threads -> WatchThread] /\ Others(t) /\ thread'[t] = Idle
           /\ active' \in BOOLEAN /\ cursor' \in NoCursor .. MaxEvents
           /\ counted' \in 0 .. MailCap /\ choice' \in Wishes
           /\ active' = Written(t, "active", active)
           /\ cursor' = Written(t, "cursor", cursor)
           /\ counted' = Written(t, "counted", counted)
           /\ choice' = Written(t, "choice", choice)
           /\ visible' = visible \union thread[t].own /\ thread[t].todo = {}
           /\ noted' = noted \union (thread[t].told \intersect Asks(thread[t].now.choice))
           /\ declined' = declined \union (thread[t].told \ Asks(thread[t].now.choice))
           /\ passed' = passed \union thread[t].left
           /\ outrun' = outrun \union Overtakes(t)
           /\ UNCHANGED <<lastId, mailed, met, subscribed>>
<1>1. thread' \in [Threads -> WatchThread] /\ Others(t) /\ thread'[t] = Idle
  BY EndEffect DEF Commits
<1>2. thread[t].now \in Row
  BY DEF WatchTypeOK, WatchThread
<1>3. /\ Written(t, "active", active) \in BOOLEAN
      /\ Written(t, "cursor", cursor) \in NoCursor .. MaxEvents
      /\ Written(t, "counted", counted) \in 0 .. MailCap
      /\ Written(t, "choice", choice) \in Wishes
  <2>1. /\ thread[t].now["active"] \in BOOLEAN /\ thread[t].now["choice"] \in Wishes
        /\ thread[t].now["cursor"] \in NoCursor .. MaxEvents
        /\ thread[t].now["counted"] \in 0 .. MailCap
    BY <1>2 DEF Row
  <2>. QED BY <2>1 DEF Written, WatchTypeOK
<1>. QED BY <1>1, <1>3 DEF Commits

LEMMA KeepsType ==
    ASSUME WatchTypeOK, NEW t \in Threads, Keeps(t), lastId' \in 0 .. MaxEvents, mailed' \in Nat,
           met' \in BOOLEAN, subscribed' \in 0 .. MaxSubscriptions
    PROVE  WatchTypeOK'
BY DEF WatchTypeOK, Keeps

LEMMA WatchNextType ==
    ASSUME WatchTypeOK, [WatchNext]_watchVars
    PROVE  WatchTypeOK'
<1>. USE WatchAssumption
<1>0. /\ lastId \in 0 .. MaxEvents /\ mailed \in Nat /\ met \in BOOLEAN
      /\ subscribed \in 0 .. MaxSubscriptions /\ counted \in 0 .. MailCap
  BY DEF WatchTypeOK
<1>1. ASSUME NEW p \in Threads, CycleLoads(p) PROVE WatchTypeOK'
  <2>1. met' \in BOOLEAN /\ subscribed' = subscribed
    BY <1>1 DEF CycleLoads
  <2>. QED BY <1>0, <1>1, <2>1, LoadEffect, KeepsType
<1>2. ASSUME NEW t \in Threads, CycleSyncs(t) PROVE WatchTypeOK'
  <2>1. met' = met /\ subscribed' = subscribed
    BY <1>2 DEF CycleSyncs
  <2>2. lastId' \in 0 .. MaxEvents
    BY <1>2, SyncEffect, ScansTaken
  <2>. QED BY <1>0, <1>2, <2>1, <2>2, SyncEffect, KeepsType
<1>3. ASSUME NEW t \in Threads, FedexUnavailable(t) PROVE WatchTypeOK'
  <2>1. Keeps(t) /\ UNCHANGED <<lastId, mailed, met, subscribed>>
    BY <1>3, WaitEffect DEF FedexUnavailable, Keeps
  <2>. QED BY <1>0, <2>1, KeepsType
<1>4. ASSUME NEW p \in Threads, CycleDeactivates(p) PROVE WatchTypeOK'
  <2>1. met' = met /\ subscribed' = subscribed
    BY <1>4 DEF CycleDeactivates
  <2>. QED BY <1>0, <1>4, <2>1, DeactivateEffect, KeepsType
<1>5. ASSUME NEW t \in Threads, CycleTells(t) PROVE WatchTypeOK'
  <2>1. met' = met /\ subscribed' = subscribed
    BY <1>5 DEF CycleTells
  <2>2. PICK n \in {0, 1} : mailed' = mailed + n
    BY <1>5, TellEffect DEF TellsEvent
  <2>. QED BY <1>0, <1>5, <2>1, <2>2, TellEffect, KeepsType
<1>6. ASSUME NEW t \in Threads, StatusTold(t) PROVE WatchTypeOK'
  <2>1. met' = met /\ subscribed' = subscribed
    BY <1>6 DEF StatusTold
  <2>2. thread[t].now \in Row
    BY DEF WatchTypeOK, WatchThread
  <2>3. mailed' \in Nat
    BY <1>0, <1>6, <2>2, StatusEffect, MailsAreFew
  <2>. QED BY <1>0, <1>6, <2>1, <2>3, StatusEffect, KeepsType
<1>7. ASSUME NEW h \in Threads, HookPosts(h) PROVE WatchTypeOK'
  <2>1. met' \in BOOLEAN /\ subscribed' = subscribed
    BY <1>7 DEF HookPosts
  <2>2. PICK n \in {0, 1} : mailed' = mailed + n
    BY <1>7, HookEffect DEF Posts
  <2>3. lastId' \in 0 .. MaxEvents
    BY <1>7, HookEffect DEF EventId
  <2>. QED BY <1>0, <1>7, <2>1, <2>2, <2>3, HookEffect, KeepsType
<1>8. ASSUME NEW h \in Threads, TrackingSyncs(h) PROVE WatchTypeOK'
  <2>1. met' \in BOOLEAN /\ subscribed' = subscribed
    BY <1>8 DEF TrackingSyncs
  <2>2. lastId' \in 0 .. MaxEvents
    BY <1>8, TrackingEffect, ScansTaken
  <2>. QED BY <1>0, <1>8, <2>1, <2>2, TrackingEffect, KeepsType
<1>9. CASE ClientSubscribes
  <2>1. met' \in BOOLEAN /\ subscribed' \in 0 .. MaxSubscriptions
    BY <1>0, <1>9 DEF ClientSubscribes
  <2>. QED BY <1>0, <1>9, <2>1, SubscribeEffect, KeepsType
<1>10. CASE ClientBaselines
  <2>1. met' = met /\ subscribed' = subscribed
    BY <1>10 DEF ClientBaselines
  <2>2. lastId' \in 0 .. MaxEvents
    BY <1>10, BaselineEffect, ScansTaken
  <2>. QED BY <1>0, <1>10, <2>1, <2>2, BaselineEffect, KeepsType
<1>11. CASE SubscriptionUnanswered
  <2>1. Client \in Threads
    BY DEF Threads
  <2>2. Keeps(Client) /\ UNCHANGED <<lastId, mailed, met, subscribed>>
    BY <1>11, <2>1, WaitEffect DEF SubscriptionUnanswered, Keeps
  <2>. QED BY <1>0, <2>1, <2>2, KeepsType
<1>12. CASE ClientStops
  BY <1>12 DEF ClientStops, WatchTypeOK
<1>13. ASSUME NEW t \in Threads, Commits(t) PROVE WatchTypeOK'
  <2>1. /\ thread[t].own \in SUBSET EventId /\ thread[t].told \in SUBSET EventId
        /\ thread[t].left \in SUBSET EventId /\ Overtakes(t) \in SUBSET EventId
    BY DEF WatchTypeOK, WatchThread, Overtakes
  <2>. QED BY <1>13, <2>1, CommitEffect DEF WatchTypeOK
<1>14. ASSUME NEW t \in Threads, RollsBack(t) PROVE WatchTypeOK'
  <2>1. thread' \in [Threads -> WatchThread]
    BY <1>14, EndEffect DEF RollsBack
  <2>. QED BY <1>0, <1>14, <2>1 DEF RollsBack, WatchTypeOK
<1>15. CASE UNCHANGED watchVars
  BY <1>15 DEF watchVars, WatchTypeOK
<1>. QED BY <1>1, <1>2, <1>3, <1>4, <1>5, <1>6, <1>7, <1>8, <1>9, <1>10, <1>11, <1>12, <1>13,
            <1>14, <1>15 DEF WatchNext, WatchStep

\* The fields of the watch and of its threads have their types, whatever the cycles, the
\* requests and the client do.
THEOREM WatchTypeCorrect == WatchSpec => []WatchTypeOK
<1>1. WatchInit => WatchTypeOK
  <2>1. WatchInit => thread \in [Threads -> WatchThread]
    BY IdleIsAThread DEF WatchInit
  <2>2. WatchInit => /\ active \in BOOLEAN /\ cursor \in NoCursor .. MaxEvents
                     /\ counted \in 0 .. MailCap /\ lastId \in 0 .. MaxEvents
                     /\ mailed \in Nat /\ subscribed \in 0 .. MaxSubscriptions
    BY WatchAssumption DEF WatchInit, NoCursor
  <2>3. WatchInit => /\ choice \in Wishes /\ visible \in SUBSET EventId
                     /\ noted \in SUBSET EventId /\ declined \in SUBSET EventId
                     /\ passed \in SUBSET EventId /\ outrun \in SUBSET EventId
                     /\ met \in BOOLEAN
    BY DEF WatchInit
  <2>. QED BY <2>1, <2>2, <2>3 DEF WatchTypeOK
<1>. QED BY <1>1, WatchNextType, PTL DEF WatchSpec

-----------------------------------------------------------------------------
(* ShipmentWatch: who makes a watch active again *)

\* A thread other than the client's ends the watch or leaves it as it loaded it.
Sober ==
    \A t \in Threads \ {Client} :
      (thread[t].now.active => thread[t].loaded.active) /\ thread[t].flushed = {}

\* One thread changes, in a way that leaves it sober.
LEMMA SoberStays ==
    ASSUME Sober, NEW t \in Threads, Others(t),
           t # Client => /\ thread'[t].now.active => thread'[t].loaded.active
                         /\ thread'[t].flushed = {}
    PROVE  Sober'
BY DEF Sober, Others

LEMMA SoberStep ==
    ASSUME WatchTypeOK, Sober, [WatchNext]_watchVars
    PROVE  Sober'
<1>0. \A t \in Threads : thread[t].now \in Row /\ thread[t].now.active \in BOOLEAN
  BY DEF WatchTypeOK, WatchThread, Row
<1>1. ASSUME NEW t \in Threads, Sets(t, Idle) PROVE Sober'
  BY <1>1, SoberStays, EndEffect
<1>2. ASSUME NEW p \in Threads, CycleLoads(p) PROVE Sober'
  BY <1>2, SoberStays, LoadEffect DEF Keeps, Loaded, Holding
<1>3. ASSUME NEW t \in Threads, CycleSyncs(t) PROVE Sober'
  <2>1. PICK from \in NoCursor .. MaxEvents :
          /\ Others(t) /\ thread'[t].now = PlacedAt(thread[t].now, from)
          /\ thread'[t].loaded = thread[t].loaded /\ thread'[t].flushed = thread[t].flushed
    BY <1>3, SyncEffect DEF Keeps, Inserts
  <2>2. thread'[t].now.active = thread[t].now.active
    BY <1>0, <2>1, PlacedRow
  <2>. QED BY <2>1, <2>2, SoberStays DEF Sober
<1>4. ASSUME NEW t \in Threads, FedexUnavailable(t) PROVE Sober'
  BY <1>4, WaitEffect, SoberStays DEF FedexUnavailable, Waits, Sober
<1>5. ASSUME NEW t \in Threads, Others(t), Waits(t), NEW ends \in BOOLEAN,
             NEW n \in {0} \union MailsSent(thread[t].now),
             thread'[t].now = AfterStatus(thread[t].now, ends, n)
      PROVE  Sober'
  <2>1. thread'[t].now.active => thread[t].now.active
    BY <1>0, <1>5, StatusRow
  <2>. QED BY <1>5, <2>1, SoberStays DEF Waits, Sober
<1>6. ASSUME NEW p \in Threads, CycleDeactivates(p) PROVE Sober'
  BY <1>5, <1>6, DeactivateEffect DEF Keeps
<1>7. ASSUME NEW t \in Threads, StatusTold(t) PROVE Sober'
  BY <1>5, <1>7, StatusEffect DEF Keeps
<1>8. ASSUME NEW t \in Threads, CycleTells(t) PROVE Sober'
  <2>1. PICK e \in EventId, ends \in BOOLEAN, n \in {0, 1} : TellsEvent(t, e, ends, n)
    BY <1>8, TellEffect
  <2>2. thread'[t].now.active => thread[t].now.active
    BY <1>0, <2>1, ToldRow DEF TellsEvent
  <2>. QED BY <1>8, <2>1, <2>2, TellEffect, SoberStays DEF TellsEvent, Keeps, Sober
<1>9. ASSUME NEW h \in Threads, HookPosts(h) PROVE Sober'
  <2>1. /\ Keeps(h) /\ lastId + 1 \in EventId
        /\ \E held \in WatchThread, n \in {0, 1} :
             Holds(h, held) /\ Posts(h, held, lastId + 1, n)
    BY <1>9, HookEffect
  <2>2. PICK held \in WatchThread, n \in {0, 1} :
          Holds(h, held) /\ Posts(h, held, lastId + 1, n)
    BY <2>1
  <2>3. held.now \in Row
    BY DEF WatchThread
  <2>4. thread'[h].now.active => held.now.active
    <3>1. ASSUME NEW m \in EventMails(held.now, lastId + 1)
          PROVE  AfterTelling(held.now, lastId + 1, FALSE, m).active => held.now.active
      BY <2>1, <2>3, ToldRow, FALSE \in BOOLEAN
    <3>. QED BY <2>2, <3>1 DEF Posts
  <2>5. h # Client => (held.now.active => held.loaded.active) /\ held.flushed = {}
    BY <2>2 DEF Holds, Sober
  <2>6. thread'[h].loaded = held.loaded /\ thread'[h].flushed = held.flushed
    BY <2>2 DEF Posts
  <2>. QED BY <2>1, <2>4, <2>5, <2>6, SoberStays DEF Keeps
<1>10. ASSUME NEW h \in Threads, TrackingSyncs(h) PROVE Sober'
  BY <1>10, TrackingEffect, SoberStays DEF Keeps
<1>11. CASE ClientSubscribes
  BY <1>11, SubscribeEffect, SoberStays DEF Keeps
<1>12. CASE ClientBaselines
  BY <1>12, BaselineEffect, SoberStays DEF Keeps
<1>13. CASE SubscriptionUnanswered
  <2>1. Client \in Threads
    BY DEF Threads
  <2>. QED BY <1>13, <2>1, WaitEffect, SoberStays DEF SubscriptionUnanswered
<1>14. CASE ClientStops \/ UNCHANGED watchVars
  BY <1>14 DEF ClientStops, watchVars, Sober
<1>. QED BY <1>1, <1>2, <1>3, <1>4, <1>6, <1>7, <1>8, <1>9, <1>10, <1>11, <1>12, <1>13, <1>14
         DEF WatchNext, WatchStep, Commits, RollsBack

\* A step that makes the watch active is the commit of a subscription.
LEMMA WhoRevives ==
    ASSUME WatchTypeOK, Sober, [WatchNext]_watchVars, ~active, active'
    PROVE  thread'[Client] # thread[Client]
<1>1. PICK t \in Threads : Commits(t)
  BY DEF WatchNext, WatchStep, CycleLoads, FedexUnavailable, CycleDeactivates, CycleSyncs,
         CycleTells, StatusTold, HookPosts, TrackingSyncs, RollsBack, ClientSubscribes,
         ClientBaselines, SubscriptionUnanswered, ClientStops, watchVars
<1>2. thread[t].now.active \in BOOLEAN /\ thread[t].loaded.active \in BOOLEAN
  BY DEF WatchTypeOK, WatchThread, Row
<1>4. active' = IF thread[t].now.active = thread[t].loaded.active /\ "active" \notin thread[t].flushed
                THEN active ELSE thread[t].now.active
  BY <1>1 DEF Commits, Written
<1>5. t = Client
  BY <1>2, <1>4, Zenon DEF Sober
<1>6. thread'[t].at = "idle" /\ thread[t].at \in {"telling", "posting"}
  BY <1>1, EndEffect DEF Commits, IsIdle
<1>. QED BY <1>5, <1>6

\* A stopped watch is made active again by its client only, however many threads work on it.
THEOREM StoppedStaysStopped == WatchSpec => OnlyAClientRevives
<1>1. WatchInit => Sober
  <2>1. Idle.flushed = {} /\ Idle.now = Idle.loaded
    BY DEF Idle, Holding
  <2>. QED BY <2>1 DEF WatchInit, Sober
<1>2. WatchTypeOK /\ Sober /\ [WatchNext]_watchVars =>
        [~active /\ active' => thread'[Client] # thread[Client]]_watchVars
  BY WhoRevives
<1>. QED BY <1>1, <1>2, SoberStep, WatchTypeCorrect, PTL DEF WatchSpec, OnlyAClientRevives

-----------------------------------------------------------------------------
(* ShipmentWatch: the mails of a subscription *)

\* What t, alone with the watch, knows of the mails that left.
Counts(t) ==
    /\ Alone(t) /\ thread[t].loaded.counted = counted /\ mailed <= thread[t].now.counted
    /\ thread[t].at = "posting" /\ thread[t].told = {} =>
         thread[t].now.counted = thread[t].loaded.counted

Counted ==
    ~met => /\ \A t \in Threads : ~IsIdle(t) => Counts(t)
            /\ (\A t \in Threads : IsIdle(t)) => mailed <= counted

\* A step of t that leaves it at work and loaded with the counter as it is stored.
LEMMA CountedStays ==
    ASSUME Counted, NEW t \in Threads, Keeps(t), ~IsIdle(t)',
           \/ met' = (met \/ ~Alone(t))
           \/ met' = met /\ ~IsIdle(t),
           ~met /\ Alone(t) =>
              /\ thread'[t].loaded.counted = counted /\ mailed' <= thread'[t].now.counted
              /\ thread'[t].at = "posting" /\ thread'[t].told = {} =>
                   thread'[t].now.counted = thread'[t].loaded.counted
    PROVE  Counted'
<1>. SUFFICES ASSUME ~met'
              PROVE  /\ \A u \in Threads : ~IsIdle(u)' => Counts(u)'
                     /\ (\A u \in Threads : IsIdle(u)') => mailed' <= counted'
  BY DEF Counted
<1>1. ~met /\ Alone(t)
  <2>1. CASE met' = (met \/ ~Alone(t))
    BY <2>1, Zenon
  <2>2. CASE met' = met /\ ~IsIdle(t)
    BY <2>2 DEF Counted, Counts
  <2>. QED BY <2>1, <2>2
<1>2. \A u \in Threads \ {t} : IsIdle(u)'
  BY <1>1 DEF Alone, Keeps, Others, IsIdle
<1>3. Alone(t)' /\ counted' = counted
  BY <1>2 DEF Alone, Keeps
<1>4. Counts(t)'
  BY <1>1, <1>3 DEF Counts
<1>. QED BY <1>2, <1>4

\* The transaction of t ends and leaves no more mails than are counted.
LEMMA CountedEnds ==
    ASSUME Counted, NEW t \in Threads, Others(t), IsIdle(t)', ~IsIdle(t), met' = met,
           ~met => mailed' <= counted'
    PROVE  Counted'
<1>. SUFFICES ASSUME ~met' PROVE \A u \in Threads : IsIdle(u)'
  BY DEF Counted
<1>1. Alone(t)
  BY DEF Counted, Counts
<1>. QED BY <1>1 DEF Alone, Others, IsIdle

LEMMA CountedStep ==
    ASSUME WatchTypeOK, Counted, [WatchNext]_watchVars
    PROVE  Counted'
<1>0. /\ counted \in Nat /\ mailed \in Nat
      /\ \A t \in Threads : /\ thread[t].now \in Row /\ thread[t].now.counted \in Nat
                            /\ thread[t].loaded.counted \in Nat
  BY WatchAssumption DEF WatchTypeOK, WatchThread, Row
<1>1. ASSUME NEW p \in Threads, CycleLoads(p) PROVE Counted'
  <2>1. /\ Keeps(p) /\ thread'[p].at = "loaded" /\ thread'[p].loaded.counted = counted
        /\ thread'[p].now.counted = counted /\ mailed' = mailed
    BY <1>1, LoadEffect DEF Loaded, Holding, StoredRow
  <2>2. met' = (met \/ ~Alone(p)) /\ IsIdle(p)
    BY <1>1 DEF CycleLoads
  <2>3. ~met /\ Alone(p) => mailed <= counted
    BY <2>2 DEF Counted, Alone
  <2>. QED BY <2>1, <2>2, <2>3, CountedStays DEF IsIdle
<1>2. ASSUME NEW t \in Threads, Keeps(t), ~IsIdle(t), met' = met, mailed' \in Int,
             thread'[t].at \in {"loaded", "status", "telling"},
             thread'[t].loaded = thread[t].loaded,
             mailed' - mailed <= thread'[t].now.counted - thread[t].now.counted,
             thread'[t].now.counted \in Int
      PROVE  Counted'
  <2>1. ~met => Counts(t)
    BY <1>2 DEF Counted
  <2>2. ~met => thread'[t].loaded.counted = counted /\ mailed' <= thread'[t].now.counted
    BY <1>0, <1>2, <2>1 DEF Counts
  <2>. QED BY <1>2, <2>2, CountedStays DEF IsIdle
<1>3. ASSUME NEW t \in Threads, CycleSyncs(t) PROVE Counted'
  <2>1. PICK from \in NoCursor .. MaxEvents :
          /\ Keeps(t) /\ thread'[t].now = PlacedAt(thread[t].now, from)
          /\ thread'[t].loaded = thread[t].loaded /\ mailed' = mailed
          /\ thread'[t].at \in {"status", "telling"}
    BY <1>3, SyncEffect DEF Inserts
  <2>2. thread'[t].now.counted = thread[t].now.counted
    BY <1>0, <2>1, PlacedRow
  <2>3. met' = met /\ ~IsIdle(t)
    BY <1>3 DEF CycleSyncs, IsIdle
  <2>. QED BY <1>0, <1>2, <2>1, <2>2, <2>3
<1>4. ASSUME NEW t \in Threads, FedexUnavailable(t) PROVE Counted'
  <2>1. Keeps(t) /\ Waits(t) /\ thread'[t].now = thread[t].now
    BY <1>4, WaitEffect DEF FedexUnavailable, Keeps
  <2>2. met' = met /\ ~IsIdle(t) /\ mailed' = mailed
    BY <1>4 DEF FedexUnavailable, IsIdle
  <2>. QED BY <1>0, <1>2, <2>1, <2>2 DEF Waits
<1>5. ASSUME NEW t \in Threads, Keeps(t), Waits(t), ~IsIdle(t), met' = met,
             NEW ends \in BOOLEAN, NEW n \in {0} \union MailsSent(thread[t].now),
             mailed' = mailed + n, thread'[t].now = AfterStatus(thread[t].now, ends, n)
      PROVE  Counted'
  <2>1. thread'[t].now.counted = thread[t].now.counted + n /\ n \in {0, 1}
    BY <1>0, <1>5, StatusRow, MailsAreFew
  <2>. QED BY <1>0, <1>2, <1>5, <2>1 DEF Waits
<1>6. ASSUME NEW p \in Threads, CycleDeactivates(p) PROVE Counted'
  <2>1. met' = met /\ ~IsIdle(p)
    BY <1>6 DEF CycleDeactivates, IsIdle
  <2>2. Keeps(p) /\ Waits(p) /\ mailed' = mailed + 0
    <3>1. Keeps(p) /\ Waits(p) /\ mailed' = mailed
      BY <1>6, DeactivateEffect
    <3>. QED BY <1>0, <3>1
  <2>3. thread'[p].now = AfterStatus(thread[p].now, TRUE, 0)
    BY <1>6, DeactivateEffect
  <2>. QED BY <1>5, <2>1, <2>2, <2>3
<1>7. ASSUME NEW t \in Threads, StatusTold(t) PROVE Counted'
  <2>1. met' = met /\ ~IsIdle(t)
    BY <1>7 DEF StatusTold, IsIdle
  <2>. QED BY <1>5, <1>7, <2>1, StatusEffect
<1>8. ASSUME NEW t \in Threads, CycleTells(t) PROVE Counted'
  <2>1. PICK e \in EventId, ends \in BOOLEAN, n \in {0, 1} : TellsEvent(t, e, ends, n)
    BY <1>8, TellEffect
  <2>2. thread'[t].now.counted = thread[t].now.counted + n
    BY <1>0, <2>1, ToldRow DEF TellsEvent
  <2>3. met' = met /\ ~IsIdle(t) /\ thread[t].at = "telling"
    BY <1>8 DEF CycleTells, IsIdle
  <2>4. Keeps(t)
    BY <1>8, TellEffect
  <2>. QED BY <1>0, <1>2, <2>1, <2>2, <2>3, <2>4 DEF TellsEvent
<1>9. ASSUME NEW h \in Threads, HookPosts(h) PROVE Counted'
  <2>1. Keeps(h) /\ lastId + 1 \in EventId
    BY <1>9, HookEffect
  <2>2. PICK held \in WatchThread, n \in {0, 1} :
          Holds(h, held) /\ Posts(h, held, lastId + 1, n)
    BY <1>9, HookEffect
  <2>3. held.now \in Row /\ held.now.counted \in Nat
    BY WatchAssumption DEF WatchThread, Row
  <2>4. ASSUME NEW m \in EventMails(held.now, lastId + 1)
        PROVE  AfterTelling(held.now, lastId + 1, FALSE, m).counted = held.now.counted + m
    BY <2>1, <2>3, ToldRow, FALSE \in BOOLEAN
  <2>5. mailed' = mailed + n /\ thread'[h].now.counted = held.now.counted + n
    <3>1. CASE thread'[h].now = held.now /\ n = 0
      BY <2>2, <2>3, <3>1 DEF Posts
    <3>2. CASE /\ n \in EventMails(held.now, lastId + 1)
               /\ thread'[h].now = AfterTelling(held.now, lastId + 1, FALSE, n)
      BY <2>2, <2>4, <3>2 DEF Posts
    <3>. QED BY <2>2, <3>1, <3>2 DEF Posts
  <2>6. met' = (met \/ ~Alone(h)) /\ (thread[h].at = "posting" \/ IsIdle(h))
    BY <1>9 DEF HookPosts
  <2>7. /\ thread'[h].loaded = held.loaded /\ thread'[h].at = "posting"
        /\ thread'[h].told = {} => held.told = {} /\ thread'[h].now = held.now
    BY <2>2 DEF Posts
  <2>8. \/ held = thread[h] /\ thread[h].told # {}
        \/ /\ ~(thread[h].at = "posting" /\ thread[h].told # {})
           /\ held.now = StoredRow /\ held.loaded = StoredRow
           /\ held.now.counted = counted /\ held.loaded.counted = counted
    BY <2>2 DEF Holds, StoredRow
  <2>11. mailed <= held.now.counted => mailed' <= thread'[h].now.counted
    BY <1>0, <2>3, <2>5
  <2>9. ASSUME ~met, Alone(h)
        PROVE  held.loaded.counted = counted /\ mailed <= held.now.counted
    <3>1. CASE IsIdle(h)
      <4>1. mailed <= counted
        BY <2>9, <3>1 DEF Counted, Alone
      <4>2. held # thread[h]
        BY <2>2, <3>1 DEF IsIdle, Holds
      <4>. QED BY <2>8, <4>1, <4>2
    <3>2. CASE ~IsIdle(h)
      <4>1. Counts(h)
        BY <2>9, <3>2 DEF Counted
      <4>2. mailed <= thread[h].now.counted /\ thread[h].loaded.counted = counted
        BY <4>1 DEF Counts
      <4>3. thread[h].told = {} => mailed <= counted
        BY <2>6, <3>2, <4>1, <4>2 DEF Counts
      <4>4. thread[h].at = "posting"
        BY <2>6, <3>2
      <4>. QED BY <2>8, <4>2, <4>3, <4>4
    <3>. QED BY <3>1, <3>2
  <2>10. thread'[h].told = {} => thread'[h].now.counted = thread'[h].loaded.counted
    BY <2>2, <2>7, <2>8
  <2>. QED BY <2>1, <2>6, <2>7, <2>9, <2>10, <2>11, CountedStays DEF IsIdle
<1>10. ASSUME NEW h \in Threads, TrackingSyncs(h) PROVE Counted'
  <2>1. /\ Keeps(h) /\ thread'[h].at = "telling" /\ thread'[h].loaded.counted = counted
        /\ thread'[h].now.counted = counted /\ mailed' = mailed
    BY <1>10, TrackingEffect DEF StoredRow
  <2>2. met' = (met \/ ~Alone(h)) /\ IsIdle(h)
    BY <1>10 DEF TrackingSyncs
  <2>3. ~met /\ Alone(h) => mailed <= counted
    BY <2>2 DEF Counted, Alone
  <2>. QED BY <2>1, <2>2, <2>3, CountedStays DEF IsIdle
<1>11. CASE ClientSubscribes
  <2>1. /\ Client \in Threads /\ Keeps(Client) /\ thread'[Client].at = "asking"
        /\ thread'[Client].loaded.counted = counted /\ thread'[Client].now.counted = 0
        /\ mailed' = 0
    BY <1>11, SubscribeEffect DEF StoredRow
  <2>2. met' = (met \/ ~Alone(Client))
    BY <1>11 DEF ClientSubscribes
  <2>. QED BY <2>1, <2>2, CountedStays DEF IsIdle
<1>12. CASE ClientBaselines
  <2>1. /\ Client \in Threads /\ Keeps(Client) /\ thread'[Client].at = "loaded"
        /\ thread'[Client].loaded = thread[Client].loaded /\ mailed' = mailed
        /\ \E from \in 0 .. MaxEvents : thread'[Client].now = PlacedAt(thread[Client].now, from)
    BY <1>12, BaselineEffect
  <2>2. thread'[Client].now.counted = thread[Client].now.counted
    <3>1. PICK from \in 0 .. MaxEvents : thread'[Client].now = PlacedAt(thread[Client].now, from)
      BY <2>1
    <3>2. from \in NoCursor .. MaxEvents
      BY WatchAssumption DEF NoCursor
    <3>. QED BY <1>0, <2>1, <3>1, <3>2, PlacedRow
  <2>3. met' = met /\ ~IsIdle(Client)
    BY <1>12 DEF ClientBaselines, IsIdle
  <2>. QED BY <1>0, <1>2, <2>1, <2>2, <2>3
<1>13. CASE SubscriptionUnanswered
  <2>1. Client \in Threads
    BY DEF Threads
  <2>2. Keeps(Client) /\ Waits(Client) /\ thread'[Client].now = thread[Client].now
    BY <1>13, <2>1, WaitEffect DEF SubscriptionUnanswered, Keeps
  <2>3. met' = met /\ ~IsIdle(Client) /\ mailed' = mailed
    BY <1>13 DEF SubscriptionUnanswered, IsIdle
  <2>. QED BY <1>0, <1>2, <2>1, <2>2, <2>3 DEF Waits
<1>14. CASE ClientStops \/ UNCHANGED watchVars
  BY <1>14 DEF ClientStops, watchVars, Counted, Counts, Alone, IsIdle
<1>15. ASSUME NEW t \in Threads, Commits(t) PROVE Counted'
  <2>1. /\ Others(t) /\ IsIdle(t)' /\ mailed' = mailed /\ met' = met
        /\ counted' = Written(t, "counted", counted)
    BY <1>15, CommitEffect, EndEffect DEF Commits
  <2>2. ~IsIdle(t)
    BY <1>15 DEF Commits, IsIdle
  <2>3. ~met => Counts(t)
    BY <2>2 DEF Counted
  <2>4. \/ counted' = counted /\ thread[t].now.counted = thread[t].loaded.counted
        \/ counted' = thread[t].now.counted
    BY <2>1 DEF Written
  <2>5. ~met => mailed' <= counted'
    BY <2>1, <2>3, <2>4 DEF Counts
  <2>. QED BY <2>1, <2>2, <2>5, CountedEnds
<1>16. ASSUME NEW t \in Threads, RollsBack(t) PROVE Counted'
  <2>1. Others(t) /\ IsIdle(t)' /\ mailed' <= counted' /\ met' = met /\ ~IsIdle(t)
    BY <1>0, <1>16, EndEffect DEF RollsBack
  <2>. QED BY <2>1, CountedEnds
<1>. QED BY <1>1, <1>3, <1>4, <1>6, <1>7, <1>8, <1>9, <1>10, <1>11, <1>12, <1>13, <1>14, <1>15,
            <1>16 DEF WatchNext, WatchStep

\* The mails of a subscription stay within the cap of the client, those of events, of a new
\* status and of the subscription itself together, unless two threads counted them at the
\* same time; a transaction that is rolled back forgets the mails it sent.
THEOREM MailsStayWithinCap == WatchSpec => []MailsWithinCap
<1>1. WatchInit => Counted
  <2>1. Idle.at = "idle"
    BY DEF Idle, Holding
  <2>. QED BY <2>1 DEF WatchInit, Counted, IsIdle
<1>2. WatchTypeOK /\ Counted => MailsWithinCap
  <2>. SUFFICES ASSUME WatchTypeOK, Counted, ~met PROVE mailed <= MailCap
    BY DEF MailsWithinCap
  <2>1. counted \in 0 .. MailCap /\ \A t \in Threads : thread[t].now.counted \in 0 .. MailCap
    BY DEF WatchTypeOK, WatchThread, Row
  <2>2. \/ mailed <= counted
        \/ \E t \in Threads : mailed <= thread[t].now.counted
    BY DEF Counted, Counts
  <2>. QED BY <2>1, <2>2, WatchAssumption DEF WatchTypeOK
<1>. QED BY <1>1, <1>2, CountedStep, WatchTypeCorrect, PTL DEF WatchSpec

-----------------------------------------------------------------------------
(* ShipmentWatch: what the cursor leaves behind *)

Covered(e) == e \in outrun \union passed \union noted \union declined

\* The events that t sees.
Mine(t) == visible \union thread[t].own

\* The ids of events were taken once, each by one thread.
OwnIds(t) ==
    /\ visible \subseteq 1 .. lastId /\ thread[t].own \subseteq 1 .. lastId
    /\ thread[t].own \intersect visible = {}
    /\ \A u \in Threads \ {t} : thread[t].own \intersect thread[u].own = {}

\* The cursors of t lie at events it sees, between those it told and those it will tell.
Places(t) ==
    /\ thread[t].now.cursor \in Mine(t) \union {NoCursor, 0}
    /\ thread[t].loaded.cursor \in visible \union {NoCursor, 0}
    /\ thread[t].loaded.cursor <= thread[t].now.cursor
    /\ thread[t].todo \subseteq Mine(t) /\ thread[t].told \subseteq 1 .. lastId
    /\ thread[t].at # "telling" => thread[t].todo = {}
    /\ thread[t].at = "asking" => thread[t].own = {} /\ thread[t].told = {}
    /\ \A x \in thread[t].told : x <= thread[t].now.cursor
    /\ \A x \in thread[t].todo : x > thread[t].now.cursor

\* When t commits, e needs no notification any more, or has it.
Answered(t, e) ==
    e \in thread[t].told \union thread[t].left \union Overtakes(t) \/ Covered(e)

\* The cursor of t passes no event but those answered, nor will it.
Accounted(t) ==
    /\ \A e \in Mine(t) : e <= thread[t].now.cursor => Answered(t, e)
    /\ \A x \in thread[t].todo : \A e \in Mine(t) :
         e <= x => e \in thread[t].todo \/ Answered(t, e)

CursorInv ==
    /\ cursor \in visible \union {NoCursor, 0}
    /\ \A e \in visible : e <= cursor => Covered(e)
    /\ \A t \in Threads : OwnIds(t) /\ Places(t) /\ Accounted(t)

LEMMA IdsAreNumbers ==
    /\ MaxEvents \in Nat /\ EventId \subseteq Nat /\ \A e \in EventId : e > 0
    /\ NoCursor \in Int /\ NoCursor < 0 /\ \A e \in EventId : e > NoCursor
BY WatchAssumption DEF EventId, NoCursor

\* What the types say of a thread.
LEMMA ThreadFacts ==
    ASSUME WatchTypeOK, NEW t \in Threads
    PROVE  /\ thread[t].own \in SUBSET EventId /\ thread[t].todo \in SUBSET EventId
           /\ thread[t].told \in SUBSET EventId /\ thread[t].left \in SUBSET EventId
           /\ thread[t].now \in Row /\ thread[t].loaded \in Row
           /\ thread[t].now.cursor \in Int /\ thread[t].loaded.cursor \in Int
           /\ cursor \in Int /\ visible \in SUBSET EventId /\ lastId \in Nat
           /\ Overtakes(t) \in SUBSET EventId
<1>1. thread[t] \in WatchThread /\ thread[t].now \in Row /\ thread[t].loaded \in Row
  BY DEF WatchTypeOK, WatchThread
<1>2. thread[t].now.cursor \in Int /\ thread[t].loaded.cursor \in Int
  BY <1>1, IdsAreNumbers DEF Row
<1>3. Overtakes(t) \in SUBSET EventId
  BY <1>1 DEF Overtakes, WatchThread
<1>. QED BY <1>1, <1>2, <1>3, IdsAreNumbers DEF WatchTypeOK, WatchThread

\* What t overtakes stays overtaken while it takes higher ids.
LEMMA OvertakesGrow ==
    ASSUME WatchTypeOK, WatchTypeOK', NEW t \in Threads, lastId <= lastId',
           thread[t].own \subseteq thread'[t].own,
           \A e \in thread'[t].own \ thread[t].own : e > lastId,
           \/ t \notin Hooks
           \/ thread'[t].told = thread[t].told /\ thread'[t].loaded = thread[t].loaded
           \/ /\ thread[t].told \subseteq thread'[t].told /\ thread'[t].loaded = thread[t].loaded
              /\ thread[t].told \subseteq 1 .. lastId
              /\ \A e \in thread'[t].told \ thread[t].told : e > lastId
    PROVE  Overtakes(t) \subseteq Overtakes(t)'
<1>. USE IdsAreNumbers
<1>0. /\ thread[t].own \in SUBSET EventId /\ thread[t].told \in SUBSET EventId /\ lastId \in Nat
      /\ thread'[t].own \in SUBSET EventId /\ thread'[t].told \in SUBSET EventId
      /\ lastId' \in Nat /\ thread[t].loaded.cursor \in Int
  <2>1. thread'[t].own \in SUBSET EventId /\ thread'[t].told \in SUBSET EventId /\ lastId' \in Nat
    BY DEF WatchTypeOK, WatchThread
  <2>. QED BY <2>1, ThreadFacts
<1>. SUFFICES ASSUME NEW e \in Overtakes(t) PROVE e \in Overtakes(t)'
  OBVIOUS
<1>1. CASE e \in thread[t].own /\ \E x \in EventId \ thread[t].own : e < x /\ x <= lastId
  <2>1. PICK x \in EventId \ thread[t].own : e < x /\ x <= lastId
    BY <1>1
  <2>2. x \notin thread'[t].own /\ x <= lastId' /\ e \in thread'[t].own
    BY <1>0, <1>1, <2>1
  <2>. QED BY <2>1, <2>2 DEF Overtakes
<1>2. CASE /\ t \in Hooks /\ e \in EventId \ thread[t].told
           /\ thread[t].loaded.cursor < e /\ e < Greatest(thread[t].told)
  <2>1. CASE thread'[t].told = thread[t].told /\ thread'[t].loaded = thread[t].loaded
    BY <1>2, <2>1 DEF Overtakes
  <2>2. CASE /\ thread[t].told \subseteq thread'[t].told /\ thread'[t].loaded = thread[t].loaded
             /\ thread[t].told \subseteq 1 .. lastId
             /\ \A x \in thread'[t].told \ thread[t].told : x > lastId
    <3>. DEFINE g == Greatest(thread[t].told)
                h == Greatest(thread'[t].told)
    <3>1. g \in thread[t].told \union {0} /\ g \in Nat
      BY <1>0, GreatestIsGreatest
    <3>2. h \in Nat /\ \A y \in thread'[t].told : y <= h
      <4>1. thread'[t].told \in SUBSET EventId
        BY <1>0
      <4>2. h \in 0 .. MaxEvents /\ \A y \in thread'[t].told : y <= h
        BY <4>1, GreatestIsGreatest
      <4>. QED BY <4>2
    <3>3. e < g
      BY <1>2
    <3>. HIDE DEF g, h
    <3>4. g \in thread[t].told /\ g <= lastId
      BY <1>2, <2>2, <3>1, <3>3
    <3>5. e \notin thread'[t].told /\ e < h /\ thread'[t].loaded.cursor < e
      BY <1>0, <1>2, <2>2, <3>1, <3>2, <3>3, <3>4
    <3>6. e < Greatest(thread'[t].told)
      BY <3>5 DEF h
    <3>. QED BY <1>2, <3>5, <3>6 DEF Overtakes
  <2>. QED BY <1>2, <2>1, <2>2
<1>. QED BY <1>1, <1>2 DEF Overtakes

\* A step of t that takes no id below those taken leaves the others as they are.
LEMMA OthersStay ==
    ASSUME WatchTypeOK, WatchTypeOK', CursorInv, NEW t \in Threads, Keeps(t),
           lastId <= lastId',
           \A e \in thread'[t].own : e <= lastId' /\ (e \in thread[t].own \/ lastId < e),
           Places(t)', Accounted(t)'
    PROVE  CursorInv'
<1>. USE IdsAreNumbers
<1>0. /\ lastId \in Nat /\ lastId' \in Nat /\ visible \subseteq EventId
      /\ thread'[t].own \in SUBSET EventId
      /\ \A u \in Threads : thread[u].own \in SUBSET EventId
  <2>1. thread'[t].own \in SUBSET EventId /\ lastId' \in Nat
    BY DEF WatchTypeOK, WatchThread
  <2>2. \A u \in Threads : thread[u].own \in SUBSET EventId
    BY ThreadFacts
  <2>. QED BY <2>1, <2>2 DEF WatchTypeOK
<1>1. /\ visible' = visible /\ cursor' = cursor /\ \A u \in Threads \ {t} : thread'[u] = thread[u]
      /\ \A e : Covered(e) <=> Covered(e)'
  BY DEF Keeps, Others, Covered
<1>2. /\ cursor \in visible \union {NoCursor, 0} /\ \A e \in visible : e <= cursor => Covered(e)
      /\ \A u \in Threads : OwnIds(u) /\ Places(u) /\ Accounted(u)
  BY DEF CursorInv
<1>3. visible \subseteq 1 .. lastId /\ \A u \in Threads : thread[u].own \subseteq 1 .. lastId
  BY <1>2 DEF OwnIds
<1>4. visible \subseteq 1 .. lastId' /\ \A u \in Threads : thread'[u].own \subseteq 1 .. lastId'
  <2>1. thread'[t].own \subseteq 1 .. lastId'
    <3>1. ASSUME NEW e \in thread'[t].own PROVE e \in 1 .. lastId'
      <4>1. e \in Nat /\ e > 0
        BY <1>0
      <4>2. e <= lastId'
        OBVIOUS
      <4>. QED BY <1>0, <4>1, <4>2
    <3>. QED BY <3>1
  <2>2. 1 .. lastId \subseteq 1 .. lastId'
    BY <1>0
  <2>. QED BY <1>1, <1>3, <2>1, <2>2
<1>5. OwnIds(t)'
  BY <1>0, <1>1, <1>2, <1>3, <1>4 DEF OwnIds
<1>6. ASSUME NEW u \in Threads \ {t} PROVE OwnIds(u)' /\ Places(u)' /\ Accounted(u)'
  <2>1. OwnIds(u) /\ Places(u) /\ Accounted(u) /\ OwnIds(t) /\ thread'[u] = thread[u]
    BY <1>1, <1>2
  <2>2. OwnIds(u)'
    <3>1. thread'[u].own \intersect thread'[t].own = {}
      BY <1>0, <1>3, <2>1 DEF OwnIds
    <3>. QED BY <1>1, <1>4, <2>1, <3>1 DEF OwnIds
  <2>3. Places(u)'
    <3>1. thread'[u].told \subseteq 1 .. lastId'
      BY <1>0, <2>1 DEF Places
    <3>. QED BY <1>1, <2>1, <3>1 DEF Places, Mine
  <2>4. Overtakes(u) \subseteq Overtakes(u)'
    BY <2>1, OvertakesGrow
  <2>5. \A e : Answered(u, e) => Answered(u, e)'
    BY <1>1, <2>1, <2>4 DEF Answered
  <2>6. Mine(u)' = Mine(u)
    BY <1>1, <2>1 DEF Mine
  <2>. QED BY <2>1, <2>2, <2>3, <2>5, <2>6 DEF Accounted
<1>. QED BY <1>1, <1>2, <1>5, <1>6 DEF CursorInv

\* A thread that holds the row as it is stored has told nothing and owes nothing.
LEMMA FreshStands ==
    ASSUME WatchTypeOK, WatchTypeOK', CursorInv, NEW t \in Threads, Keeps(t),
           \A e \in thread'[t].own : lastId < e,
           thread'[t].at = "asking" => thread'[t].own = {},
           thread'[t].todo = {}, thread'[t].told = {},
           thread'[t].now.cursor = cursor, thread'[t].loaded.cursor = cursor
    PROVE  Places(t)' /\ Accounted(t)'
<1>. USE IdsAreNumbers
<1>1. /\ visible' = visible /\ cursor \in Int /\ lastId \in Nat /\ visible \subseteq EventId
      /\ \A e : Covered(e) <=> Covered(e)'
  BY ThreadFacts DEF Keeps, Covered
<1>2. /\ cursor \in visible \union {NoCursor, 0} /\ \A e \in visible : e <= cursor => Covered(e)
      /\ visible \subseteq 1 .. lastId
  BY DEF CursorInv, OwnIds
<1>3. Places(t)'
  BY <1>1, <1>2 DEF Places, Mine
<1>4. cursor <= lastId
  BY <1>1, <1>2
<1>5. thread'[t].own \in SUBSET EventId
  BY DEF WatchTypeOK, WatchThread
<1>6. ASSUME NEW e \in visible' \union thread'[t].own, e <= cursor PROVE Covered(e)'
  <2>1. e \in visible
    BY <1>1, <1>4, <1>5, <1>6
  <2>. QED BY <1>1, <1>2, <1>6, <2>1
<1>. QED BY <1>3, <1>6 DEF Accounted, Mine, Answered

\* A thread whose cursor and events stay as they are.
LEMMA WaitingStands ==
    ASSUME WatchTypeOK, WatchTypeOK', CursorInv, NEW t \in Threads, Keeps(t), Waits(t),
           thread'[t].now.cursor = thread[t].now.cursor, lastId' = lastId
    PROVE  Places(t)' /\ Accounted(t)'
<1>1. visible' = visible /\ \A e : Covered(e) <=> Covered(e)'
  BY DEF Keeps, Covered
<1>2. Places(t) /\ Accounted(t)
  BY DEF CursorInv
<1>3. Places(t)'
  BY <1>1, <1>2 DEF Places, Mine, Waits
<1>4. Overtakes(t)' = Overtakes(t)
  BY DEF Overtakes, Waits
<1>5. \A e : Answered(t, e) => Answered(t, e)'
  BY <1>1, <1>4 DEF Answered, Waits
<1>. QED BY <1>1, <1>2, <1>3, <1>5 DEF Accounted, Mine, Waits

LEMMA SyncStands ==
    ASSUME WatchTypeOK, WatchTypeOK', CursorInv, NEW t \in Threads, CycleSyncs(t)
    PROVE  Places(t)' /\ Accounted(t)'
<1>. USE IdsAreNumbers
<1>1. PICK n \in 0 .. MaxEvents - lastId :
        LET new  == lastId + 1 .. lastId + n
            seen == visible \union thread[t].own \union new
            from == Start(thread[t].now, seen)
        IN  /\ lastId' = lastId + n /\ from \in NoCursor .. MaxEvents
            /\ Inserts(t, new, from, IF thread[t].now.cursor = NoCursor
                                     THEN IdsUpTo(from) ELSE thread[t].left)
            /\ thread'[t].todo = {e \in seen : e > from}
            /\ thread'[t].at = IF thread'[t].todo = {} THEN "status" ELSE "telling"
  BY SyncEffect
<1>. DEFINE new  == lastId + 1 .. lastId + n
            seen == visible \union thread[t].own \union new
            from == Start(thread[t].now, seen)
<1>2. /\ thread'[t].now = PlacedAt(thread[t].now, from) /\ from \in NoCursor .. MaxEvents
      /\ thread'[t].loaded = thread[t].loaded /\ thread'[t].told = thread[t].told
      /\ thread'[t].own = thread[t].own \union new /\ lastId' = lastId + n
      /\ thread'[t].left = IF thread[t].now.cursor = NoCursor THEN IdsUpTo(from) ELSE thread[t].left
      /\ thread'[t].todo = {e \in seen : e > from}
      /\ thread'[t].at = IF thread'[t].todo = {} THEN "status" ELSE "telling"
  BY <1>1 DEF Inserts
<1>3. visible' = visible /\ Keeps(t) /\ \A e : Covered(e) <=> Covered(e)'
  BY SyncEffect DEF Keeps, Covered
<1>4. /\ Places(t) /\ Accounted(t) /\ OwnIds(t)
      /\ thread[t].own \in SUBSET EventId /\ thread[t].told \in SUBSET EventId
      /\ visible \in SUBSET EventId /\ lastId \in Nat /\ thread[t].now \in Row
      /\ thread[t].now.cursor \in Int /\ thread[t].loaded.cursor \in Int
  BY ThreadFacts DEF CursorInv
<1>5. /\ new \in SUBSET EventId /\ \A e \in new : e > lastId
      /\ lastId <= lastId' /\ 1 .. lastId \subseteq 1 .. lastId'
  BY <1>2, <1>4, ScansTaken
<1>6. seen = visible' \union thread'[t].own /\ seen \in SUBSET EventId
  BY <1>2, <1>3, <1>4, <1>5
<1>7. thread'[t].now.cursor = from /\ from \in Int
  BY <1>2, <1>4, PlacedRow
<1>8. \/ /\ thread[t].now.cursor = NoCursor /\ from \in seen \union {0}
         /\ \A e \in seen : e <= from
      \/ thread[t].now.cursor # NoCursor /\ from = thread[t].now.cursor
  BY <1>6, GreatestIsGreatest DEF Start
<1>. HIDE DEF new, seen, from
<1>9. thread[t].now.cursor <= from
  BY <1>4, <1>6, <1>7, <1>8
<1>10. Places(t)'
  <2>1. from \in seen \union {NoCursor, 0}
    BY <1>4, <1>6, <1>8, <1>2, <1>3 DEF Places, Mine
  <2>2. thread'[t].told \subseteq 1 .. lastId' /\ thread'[t].loaded.cursor \in visible' \union {NoCursor, 0}
    BY <1>2, <1>3, <1>4, <1>5 DEF Places
  <2>3. /\ thread'[t].loaded.cursor <= from /\ \A x \in thread'[t].told : x <= from
        /\ \A x \in thread'[t].todo : x > from
    BY <1>2, <1>4, <1>7, <1>9 DEF Places
  <2>4. thread'[t].todo \subseteq seen
    BY <1>2
  <2>. QED BY <1>2, <1>6, <1>7, <2>1, <2>2, <2>3, <2>4 DEF Places, Mine
<1>11. Overtakes(t) \subseteq Overtakes(t)'
  BY <1>2, <1>5, OvertakesGrow
<1>12. ASSUME NEW e \in seen, e <= from PROVE Answered(t, e)'
  <2>0. e \in EventId
    BY <1>6
  <2>1. CASE thread[t].now.cursor = NoCursor
    <3>1. e \in thread'[t].left
      BY <1>2, <1>12, <2>0, <2>1 DEF IdsUpTo
    <3>. QED BY <3>1 DEF Answered
  <2>2. CASE thread[t].now.cursor # NoCursor
    <3>1. from = thread[t].now.cursor /\ thread'[t].left = thread[t].left
      BY <1>2, <1>8, <2>2
    <3>2. from <= lastId
      BY <1>4, <3>1 DEF Places, Mine, OwnIds
    <3>3. e \in Mine(t)
      <4>1. e <= lastId
        <5>1. e \in Int /\ from \in Int /\ lastId \in Int
          BY <1>4, <1>7, <2>0, WatchAssumption DEF EventId
        <5>. QED BY <1>12, <3>2, <5>1
      <4>2. e \notin new
        BY <1>4, <1>5, <2>0, <4>1
      <4>. QED BY <1>12, <4>2 DEF Mine, seen
    <3>4. Answered(t, e)
      BY <1>4, <1>12, <3>1, <3>3 DEF Accounted
    <3>. QED BY <1>2, <1>3, <1>11, <3>1, <3>4 DEF Answered
  <2>. QED BY <2>1, <2>2
<1>13. \A e \in seen : e > from \/ e <= from
  <2>1. from \in Int /\ \A e \in seen : e \in Int
    BY <1>6, <1>7, WatchAssumption DEF EventId
  <2>. QED BY <2>1
<1>. QED BY <1>2, <1>6, <1>7, <1>10, <1>12, <1>13 DEF Accounted, Mine

LEMMA TellStands ==
    ASSUME WatchTypeOK, WatchTypeOK', CursorInv, NEW t \in Threads, CycleTells(t)
    PROVE  Places(t)' /\ Accounted(t)'
<1>. USE IdsAreNumbers
<1>1. PICK e \in EventId, ends \in BOOLEAN, n \in {0, 1} : TellsEvent(t, e, ends, n)
  BY TellEffect
<1>2. /\ visible' = visible /\ Keeps(t) /\ lastId' = lastId /\ thread[t].at = "telling"
      /\ \A x : Covered(x) <=> Covered(x)'
  BY TellEffect DEF Keeps, Covered, CycleTells
<1>3. /\ Places(t) /\ Accounted(t) /\ thread[t].now \in Row /\ thread[t].now.cursor \in Int
      /\ thread[t].loaded.cursor \in Int /\ thread[t].told \in SUBSET EventId
      /\ thread[t].todo \in SUBSET EventId /\ lastId \in Nat /\ OwnIds(t)
      /\ Mine(t) \subseteq EventId
  BY ThreadFacts DEF CursorInv, Mine
<1>4. /\ e \in thread[t].todo /\ \A y \in thread[t].todo : e <= y
      /\ thread'[t].at = thread[t].at /\ thread'[t].loaded = thread[t].loaded
      /\ thread'[t].own = thread[t].own /\ thread'[t].todo = thread[t].todo \ {e}
      /\ thread'[t].told = thread[t].told \union {e} /\ thread'[t].left = thread[t].left
  BY <1>1 DEF TellsEvent
<1>0. e \in Int /\ \A x \in thread[t].todo : x \in Int
  <2>1. thread[t].todo \in SUBSET EventId
    BY <1>3
  <2>. QED BY <2>1, WatchAssumption DEF EventId
<1>5. thread'[t].now.cursor = e
  <2>1. /\ thread'[t].now = AfterTelling(thread[t].now, e, ends, n)
        /\ n \in EventMails(thread[t].now, e)
    BY <1>1 DEF TellsEvent
  <2>2. thread[t].now \in Row
    BY <1>3
  <2>. QED BY <2>1, <2>2, ToldRow
<1>6. Mine(t)' = Mine(t) /\ e \in Mine(t) /\ thread[t].now.cursor < e /\ e \in 1 .. lastId
  BY <1>2, <1>3, <1>4 DEF Mine, Places, OwnIds
<1>7. Places(t)'
  <2>1. \A x \in thread'[t].told : x <= e
    BY <1>3, <1>4, <1>6 DEF Places
  <2>2. \A x \in thread'[t].todo : x > e
    BY <1>0, <1>4
  <2>3. thread'[t].loaded.cursor <= e
    BY <1>3, <1>4, <1>6 DEF Places
  <2>. QED BY <1>2, <1>3, <1>4, <1>5, <1>6, <2>1, <2>2, <2>3 DEF Places
<1>8. t \notin Hooks
  BY ThreadsAreDistinct DEF CycleTells
<1>9. Overtakes(t) \subseteq Overtakes(t)'
  BY <1>2, <1>3, <1>4, <1>8, OvertakesGrow
<1>10. \A x : Answered(t, x) => Answered(t, x)'
  BY <1>2, <1>4, <1>9 DEF Answered
<1>11. Answered(t, e)'
  BY <1>4 DEF Answered
<1>12. ASSUME NEW x \in Mine(t), x <= e PROVE Answered(t, x)'
  <2>1. x \in thread[t].todo \/ Answered(t, x)
    BY <1>3, <1>4, <1>12 DEF Accounted
  <2>2. x \in thread[t].todo => x = e
    BY <1>0, <1>4, <1>12
  <2>. QED BY <1>10, <1>11, <2>1, <2>2
<1>13. ASSUME NEW x \in thread'[t].todo, NEW y \in Mine(t), y <= x
       PROVE  y \in thread'[t].todo \/ Answered(t, y)'
  <2>1. y \in thread[t].todo \/ Answered(t, y)
    BY <1>3, <1>4, <1>13 DEF Accounted
  <2>. QED BY <1>4, <1>10, <1>11, <2>1
<1>. QED BY <1>5, <1>6, <1>7, <1>12, <1>13 DEF Accounted

\* An event of u that is below an id of another transaction is overtaken when u commits.
LEMMA Overtaken ==
    ASSUME WatchTypeOK, NEW u \in Threads, NEW e \in thread[u].own,
           NEW y \in EventId \ thread[u].own, y <= lastId, e <= y
    PROVE  e \in Overtakes(u)
<1>1. thread[u].own \in SUBSET EventId
  BY ThreadFacts
<1>2. e \in EventId /\ e # y
  BY <1>1
<1>3. e < y
  BY <1>2, WatchAssumption DEF EventId
<1>. QED BY <1>3 DEF Overtakes

\* The stored cursor passes no event of t but those that it overtook or that are covered.
LEMMA StoredAccounts ==
    ASSUME WatchTypeOK, CursorInv, NEW t \in Threads, NEW e \in Mine(t), e <= cursor
    PROVE  Covered(e) \/ (e \in Overtakes(t) /\ e \in thread[t].own /\ cursor \in visible)
<1>1. /\ cursor \in visible \union {NoCursor, 0} /\ OwnIds(t) /\ visible \subseteq EventId
      /\ thread[t].own \subseteq EventId
  BY ThreadFacts DEF CursorInv
<1>2. CASE e \in visible
  BY <1>2 DEF CursorInv
<1>3. CASE e \in thread[t].own
  <2>1. e \in Int /\ e > 0
    <3>1. e \in EventId
      BY <1>1, <1>3
    <3>. QED BY <3>1, WatchAssumption DEF EventId
  <2>2. cursor \in visible
    BY <1>1, <2>1, IdsAreNumbers
  <2>3. cursor \in EventId \ thread[t].own /\ cursor <= lastId
    <3>1. cursor <= lastId
      BY <1>1, <2>2 DEF OwnIds, WatchTypeOK
    <3>. QED BY <1>1, <2>2, <3>1 DEF OwnIds
  <2>. QED BY <1>3, <2>2, <2>3, Overtaken
<1>. QED BY <1>2, <1>3 DEF Mine

LEMMA HookStands ==
    ASSUME WatchTypeOK, WatchTypeOK', CursorInv, NEW h \in Threads, HookPosts(h)
    PROVE  Places(h)' /\ Accounted(h)'
<1>. DEFINE e == lastId + 1
<1>1. PICK held \in WatchThread, n \in {0, 1} : Holds(h, held) /\ Posts(h, held, e, n)
  BY HookEffect
<1>2. /\ Keeps(h) /\ visible' = visible /\ lastId' = e /\ e \in EventId /\ h \in Hooks
      /\ \A x : Covered(x) <=> Covered(x)'
  BY HookEffect DEF Keeps, Covered, HookPosts
<1>3. /\ Places(h) /\ Accounted(h) /\ OwnIds(h) /\ thread[h].own \in SUBSET EventId
      /\ visible \in SUBSET EventId /\ lastId \in Nat /\ cursor \in Int
      /\ cursor \in visible \union {NoCursor, 0}
  BY ThreadFacts DEF CursorInv
<1>4. /\ held.now \in Row /\ held.now.cursor \in Int /\ held.loaded.cursor \in Int
      /\ held.told \in SUBSET EventId
  BY IdsAreNumbers DEF WatchThread, Row
<1>5. /\ thread'[h].at = "posting" /\ thread'[h].loaded = held.loaded
      /\ thread'[h].todo = held.todo /\ thread'[h].left = held.left
      /\ thread'[h].own = thread[h].own \union {e}
  BY <1>1 DEF Posts, Holds
<1>6. \/ thread'[h].told = held.told /\ thread'[h].now.cursor = held.now.cursor
      \/ /\ e > held.now.cursor /\ thread'[h].told = held.told \union {e}
         /\ thread'[h].now.cursor = e
  <2>. HIDE DEF e
  <2>1. ASSUME NEW m \in EventMails(held.now, e)
        PROVE  AfterTelling(held.now, e, FALSE, m).cursor = e
    <3>1. held.now \in Row /\ e \in EventId
      BY <1>2, <1>4
    <3>. QED BY <3>1, ToldRow, FALSE \in BOOLEAN
  <2>2. CASE thread'[h].told = held.told /\ thread'[h].now = held.now /\ n = 0
    BY <2>2
  <2>3. CASE /\ e > held.now.cursor /\ n \in EventMails(held.now, e)
             /\ thread'[h].told = held.told \union {e}
             /\ thread'[h].now = AfterTelling(held.now, e, FALSE, n)
    BY <2>1, <2>3
  <2>. QED BY <1>1, <2>2, <2>3 DEF Posts
<1>7. \/ held = thread[h] /\ thread[h].told # {} /\ thread[h].at = "posting"
      \/ /\ held.loaded.cursor = cursor /\ held.now.cursor = cursor
         /\ held.todo = {} /\ held.told = {}
  BY <1>1 DEF Holds, StoredRow
<1>8. /\ held.now.cursor \in Mine(h) \union {NoCursor, 0}
      /\ held.loaded.cursor \in visible \union {NoCursor, 0}
      /\ held.loaded.cursor <= held.now.cursor /\ held.todo = {} /\ held.told \subseteq 1 .. lastId
      /\ \A x \in held.told : x <= held.now.cursor
  BY <1>3, <1>7 DEF Places, Mine
<1>9. Mine(h)' = Mine(h) \union {e} /\ Mine(h) \subseteq 1 .. lastId /\ Mine(h) \subseteq EventId
  BY <1>2, <1>3, <1>5 DEF Mine, OwnIds
<1>10. held.now.cursor <= lastId
  BY <1>3, <1>8, <1>9, IdsAreNumbers
<1>11. thread'[h].told \subseteq held.told \union {e} /\ thread'[h].told \in SUBSET EventId
  BY <1>2, <1>4, <1>6
<1>12. Places(h)'
  <2>1. thread'[h].told \subseteq 1 .. lastId'
    BY <1>2, <1>3, <1>8, <1>11
  <2>2. /\ \A x \in thread'[h].told : x <= thread'[h].now.cursor
        /\ thread'[h].loaded.cursor <= thread'[h].now.cursor
        /\ thread'[h].now.cursor \in Mine(h) \union {e, NoCursor, 0}
    BY <1>3, <1>4, <1>5, <1>6, <1>8, <1>10
  <2>. QED BY <1>2, <1>5, <1>8, <1>9, <2>1, <2>2 DEF Places
<1>13. ASSUME NEW x \in Mine(h), x <= held.now.cursor
       PROVE  x \in held.told \union held.left \union Overtakes(h)' \/ Covered(x)
  <2>1. CASE held = thread[h] /\ thread[h].told # {} /\ thread[h].at = "posting"
    <3>1. Answered(h, x)
      BY <1>3, <1>13, <2>1 DEF Accounted
    <3>2. Overtakes(h) \subseteq Overtakes(h)'
      <4>1. /\ thread[h].told \subseteq thread'[h].told /\ thread[h].told \subseteq 1 .. lastId
            /\ thread'[h].loaded = thread[h].loaded
            /\ \A y \in thread'[h].told \ thread[h].told : y > lastId
        BY <1>3, <1>5, <1>6, <1>8, <1>11, <2>1
      <4>2. /\ lastId <= lastId' /\ thread[h].own \subseteq thread'[h].own
            /\ \A y \in thread'[h].own \ thread[h].own : y > lastId
        BY <1>2, <1>3, <1>5
      <4>. QED BY <4>1, <4>2, OvertakesGrow
    <3>. QED BY <2>1, <3>1, <3>2 DEF Answered
  <2>2. CASE held.now.cursor = cursor
    <3>1. Covered(x) \/ (x \in thread[h].own /\ cursor \in visible)
      BY <1>13, <2>2, StoredAccounts
    <3>2. ASSUME x \in thread[h].own, cursor \in visible PROVE x \in Overtakes(h)'
      <4>1. cursor \in EventId \ thread'[h].own /\ cursor <= lastId' /\ x \in thread'[h].own
        BY <1>2, <1>3, <1>5, <3>2 DEF OwnIds
      <4>2. x < cursor
        BY <1>3, <1>5, <1>13, <2>2, <3>2, <4>1, WatchAssumption DEF EventId
      <4>. QED BY <4>1, <4>2 DEF Overtakes
    <3>. QED BY <3>1, <3>2
  <2>. QED BY <1>7, <2>1, <2>2
<1>. HIDE DEF e
<1>14. ASSUME NEW x \in Mine(h)', x <= thread'[h].now.cursor PROVE Answered(h, x)'
  <2>1. x \in Int /\ x > 0 /\ x \in EventId /\ e \in Int
    BY <1>2, <1>9, IdsAreNumbers
  <2>2. CASE x \in Mine(h) /\ x <= held.now.cursor
    BY <1>2, <1>5, <1>6, <1>13, <2>2 DEF Answered
  <2>3. CASE x = e
    <3>1. x \in thread'[h].told
      BY <1>6, <1>10, <1>14, <2>3, <1>3, <1>4 DEF e
    <3>. QED BY <3>1 DEF Answered
  <2>4. CASE x \in Mine(h) /\ x > held.now.cursor
    <3>1. /\ thread'[h].told = held.told \union {e} /\ thread'[h].now.cursor = e
          /\ held.loaded.cursor < x /\ x \notin held.told
      BY <1>4, <1>6, <1>8, <1>14, <2>1, <2>4
    <3>2. x < e
      BY <1>3, <1>9, <2>1, <2>4 DEF e
    <3>3. x < Greatest(thread'[h].told)
      BY <1>11, <2>1, <3>1, <3>2, GreatestIsGreatest
    <3>4. x \in Overtakes(h)'
      BY <1>2, <1>5, <2>1, <3>1, <3>2, <3>3 DEF Overtakes
    <3>. QED BY <3>4 DEF Answered
  <2>. QED BY <1>4, <1>9, <2>1, <2>2, <2>3, <2>4
<1>. QED BY <1>5, <1>8, <1>12, <1>14 DEF Accounted

LEMMA BaselineStands ==
    ASSUME WatchTypeOK, WatchTypeOK', CursorInv, ClientBaselines
    PROVE  /\ Places(Client)' /\ Accounted(Client)' /\ lastId <= lastId'
           /\ \A e \in thread'[Client].own : e <= lastId' /\ lastId < e
<1>0. /\ Client \in Threads /\ Keeps(Client) /\ visible' = visible
      /\ thread'[Client].at = "loaded" /\ thread'[Client].todo = thread[Client].todo
      /\ thread'[Client].loaded = thread[Client].loaded
      /\ thread'[Client].told = thread[Client].told
      /\ thread[Client].at = "asking"
  BY BaselineEffect DEF Keeps, ClientBaselines
<1>1. PICK n \in 0 .. MaxEvents - lastId, from \in 0 .. MaxEvents :
        /\ lastId' = lastId + n
        /\ from = Greatest(visible \union (lastId + 1 .. lastId + n))
        /\ thread'[Client].own = lastId + 1 .. lastId + n
        /\ thread'[Client].now = PlacedAt(thread[Client].now, from)
        /\ thread'[Client].left = thread[Client].left \union IdsUpTo(from)
  BY BaselineEffect
<1>. DEFINE seen == visible \union (lastId + 1 .. lastId + n)
<1>2. /\ Places(Client) /\ thread[Client].now \in Row /\ lastId \in Nat
      /\ thread[Client].loaded.cursor \in Int /\ visible \in SUBSET EventId
      /\ thread[Client].todo = {} /\ thread[Client].told = {}
  BY <1>0, ThreadFacts DEF CursorInv, Places
<1>3. /\ lastId + 1 .. lastId + n \in SUBSET EventId
      /\ \A e \in lastId + 1 .. lastId + n : e <= lastId' /\ lastId < e
      /\ lastId <= lastId' /\ n \in Nat
  <2>1. lastId + 1 .. lastId + n \in SUBSET EventId
    BY ScansTaken
  <2>2. n \in Nat
    BY WatchAssumption DEF WatchTypeOK
  <2>. QED BY <1>1, <1>2, <2>1, <2>2
<1>4. /\ seen \in SUBSET EventId /\ seen = Mine(Client)' /\ from = Greatest(seen)
  BY <1>0, <1>1, <1>2, <1>3 DEF Mine
<1>. HIDE DEF seen
<1>5. from \in seen \union {0} /\ \A e \in seen : e <= from
  BY <1>4, GreatestIsGreatest
<1>6. thread'[Client].now.cursor = from
  <2>1. from \in NoCursor .. MaxEvents
    BY WatchAssumption DEF NoCursor
  <2>. QED BY <1>1, <1>2, <2>1, PlacedRow
<1>7. thread[Client].loaded.cursor <= from
  <2>1. visible \subseteq seen
    BY <1>0, <1>4 DEF Mine
  <2>2. thread[Client].loaded.cursor \in visible \union {NoCursor, 0} /\ from \in Nat
    BY <1>2 DEF Places
  <2>3. CASE thread[Client].loaded.cursor \in visible
    BY <1>5, <2>1, <2>3
  <2>4. CASE thread[Client].loaded.cursor \in {NoCursor, 0}
    BY <2>2, <2>4 DEF NoCursor
  <2>. QED BY <2>2, <2>3, <2>4
<1>8. Places(Client)'
  BY <1>0, <1>2, <1>4, <1>5, <1>6, <1>7 DEF Places
<1>9. ASSUME NEW e \in seen, e <= from PROVE Answered(Client, e)'
  BY <1>1, <1>4, <1>9 DEF Answered, IdsUpTo
<1>10. Accounted(Client)'
  BY <1>0, <1>2, <1>4, <1>6, <1>9 DEF Accounted
<1>. QED BY <1>1, <1>3, <1>8, <1>10

\* A thread whose transaction ended holds nothing.
LEMMA IdleStands ==
    ASSUME NEW t \in Threads, thread'[t] = Idle, visible' \subseteq 1 .. lastId'
    PROVE  OwnIds(t)' /\ Places(t)' /\ Accounted(t)'
<1>1. /\ thread'[t].own = {} /\ thread'[t].todo = {} /\ thread'[t].told = {}
      /\ thread'[t].now.cursor = NoCursor /\ thread'[t].loaded.cursor = NoCursor
  BY DEF Idle, Holding, NoRow
<1>2. \A e \in visible' : ~(e <= NoCursor)
  BY DEF NoCursor
<1>3. Places(t)'
  BY <1>1 DEF Places, NoCursor
<1>. QED BY <1>1, <1>2, <1>3 DEF OwnIds, Accounted, Mine

\* What a commit of u makes visible or moves the cursor past is covered.
LEMMA CommitCovers ==
    ASSUME WatchTypeOK, CursorInv, NEW u \in Threads, Commits(u)
    PROVE  /\ \A e : Covered(e) => Covered(e)'
           /\ \A e : Answered(u, e) => Covered(e)'
           /\ cursor' \in visible' \union {NoCursor, 0}
           /\ \A e \in visible' : e <= cursor' => Covered(e)'
<1>1. /\ cursor' = cursor \/ cursor' = thread[u].now.cursor
      /\ visible' = visible \union thread[u].own
      /\ noted' = noted \union (thread[u].told \intersect Asks(thread[u].now.choice))
      /\ declined' = declined \union (thread[u].told \ Asks(thread[u].now.choice))
      /\ passed' = passed \union thread[u].left /\ outrun' = outrun \union Overtakes(u)
  BY CommitEffect DEF Written
<1>2. /\ Places(u) /\ Accounted(u) /\ cursor \in visible \union {NoCursor, 0}
  BY DEF CursorInv
<1>3. (\A e : Covered(e) => Covered(e)') /\ \A e : Answered(u, e) => Covered(e)'
  BY <1>1 DEF Covered, Answered
<1>4. CASE cursor' = cursor
  <2>1. ASSUME NEW e \in visible', e <= cursor PROVE Covered(e)'
    <3>1. Covered(e) \/ e \in Overtakes(u)
      BY <1>1, <2>1, StoredAccounts DEF Mine
    <3>. QED BY <1>3, <3>1 DEF Answered
  <2>. QED BY <1>1, <1>2, <1>3, <1>4, <2>1
<1>5. CASE cursor' = thread[u].now.cursor
  BY <1>1, <1>2, <1>3, <1>5 DEF Mine, Places, Accounted
<1>. QED BY <1>1, <1>4, <1>5

LEMMA CommitKeepsOrder ==
    ASSUME WatchTypeOK, CursorInv, NEW u \in Threads, Commits(u)
    PROVE  CursorInv'
<1>1. /\ Others(u) /\ thread'[u] = Idle /\ lastId' = lastId
      /\ visible' = visible \union thread[u].own
  BY CommitEffect
<1>2. \A t \in Threads : OwnIds(t) /\ Places(t) /\ Accounted(t)
  BY DEF CursorInv
<1>3. visible' \subseteq 1 .. lastId'
  BY <1>1, <1>2 DEF OwnIds
<1>4. OwnIds(u)' /\ Places(u)' /\ Accounted(u)'
  BY <1>1, <1>3, IdleStands
<1>5. ASSUME NEW t \in Threads \ {u} PROVE OwnIds(t)' /\ Places(t)' /\ Accounted(t)'
  <2>1. /\ thread'[t] = thread[t] /\ OwnIds(t) /\ Places(t) /\ Accounted(t) /\ OwnIds(u)
        /\ thread[t].own \intersect thread[u].own = {} /\ Mine(t) \intersect thread[u].own = {}
    BY <1>1, <1>2 DEF Others, OwnIds, Mine
  <2>2. /\ Mine(t)' = Mine(t) \union thread[u].own /\ Overtakes(t)' = Overtakes(t)
        /\ Mine(t) \subseteq EventId /\ Mine(t) \subseteq 1 .. lastId
        /\ thread[u].own \subseteq EventId
    BY <1>1, <2>1, ThreadFacts DEF Mine, Overtakes, OwnIds
  <2>3. OwnIds(t)'
    <3>1. ASSUME NEW w \in Threads \ {t} PROVE thread'[t].own \intersect thread'[w].own = {}
      <4>1. w # u => thread'[w] = thread[w]
        BY <1>1 DEF Others
      <4>2. thread'[u].own = {}
        BY <1>1 DEF Idle, Holding
      <4>. QED BY <2>1, <4>1, <4>2 DEF OwnIds
    <3>. QED BY <1>1, <1>3, <2>1, <3>1 DEF OwnIds
  <2>4. Places(t)'
    BY <1>1, <2>1, <2>2 DEF Places
  <2>5. \A e : Answered(t, e) => Answered(t, e)'
    BY <2>1, <2>2, CommitCovers DEF Answered
  <2>6. ASSUME NEW e \in thread[u].own, NEW y \in Mine(t), e <= y PROVE Answered(t, e)'
    <3>1. y \in EventId \ thread[u].own /\ y <= lastId
      BY <2>1, <2>2 DEF WatchTypeOK
    <3>2. e \in Overtakes(u)
      BY <2>6, <3>1, Overtaken
    <3>. QED BY <3>2, CommitCovers DEF Answered
  <2>7. ASSUME NEW e \in thread[u].own, e <= thread[t].now.cursor PROVE Answered(t, e)'
    <3>1. e \in EventId
      BY <2>2
    <3>2. e > 0
      BY <3>1, WatchAssumption DEF EventId
    <3>3. thread[t].now.cursor \in Mine(t)
      BY <2>1, <2>7, <3>1, <3>2, WatchAssumption DEF Places, NoCursor, EventId
    <3>. QED BY <2>6, <2>7, <3>3
  <2>8. Accounted(t)'
    <3>1. ASSUME NEW e \in Mine(t)', e <= thread'[t].now.cursor PROVE Answered(t, e)'
      BY <2>1, <2>2, <2>5, <2>7, <3>1 DEF Accounted
    <3>2. ASSUME NEW x \in thread'[t].todo, NEW e \in Mine(t)', e <= x
          PROVE  e \in thread'[t].todo \/ Answered(t, e)'
      <4>1. x \in Mine(t) /\ x \in thread[t].todo
        BY <2>1, <3>2 DEF Places
      <4>. QED BY <2>1, <2>2, <2>5, <2>6, <3>2, <4>1 DEF Accounted
    <3>. QED BY <3>1, <3>2 DEF Accounted
  <2>. QED BY <2>3, <2>4, <2>8
<1>. QED BY <1>4, <1>5, CommitCovers DEF CursorInv

LEMMA CursorStep ==
    ASSUME WatchTypeOK, CursorInv, [WatchNext]_watchVars
    PROVE  CursorInv'
<1>0. WatchTypeOK'
  BY WatchNextType
<1>. USE <1>0
<1>1. \A t \in Threads : /\ thread[t].own \in SUBSET EventId /\ thread[t].own \subseteq 1 .. lastId
                         /\ lastId \in Nat
  BY ThreadFacts DEF CursorInv, OwnIds
<1>2. ASSUME NEW p \in Threads, CycleLoads(p) PROVE CursorInv'
  <2>1. /\ Keeps(p) /\ lastId' = lastId /\ thread'[p].at = "loaded" /\ thread'[p].own = {}
        /\ thread'[p].todo = {} /\ thread'[p].told = {}
        /\ thread'[p].now.cursor = cursor /\ thread'[p].loaded.cursor = cursor
    BY <1>2, LoadEffect DEF Loaded, Holding, StoredRow
  <2>2. Places(p)' /\ Accounted(p)'
    BY <2>1, FreshStands
  <2>3. lastId <= lastId'
    BY <1>1, <2>1
  <2>. QED BY <2>1, <2>2, <2>3, OthersStay
<1>3. ASSUME NEW t \in Threads, CycleSyncs(t) PROVE CursorInv'
  <2>1. PICK n \in 0 .. MaxEvents - lastId :
          /\ lastId' = lastId + n /\ thread'[t].own = thread[t].own \union (lastId + 1 .. lastId + n)
    BY <1>3, SyncEffect DEF Inserts
  <2>2. /\ lastId <= lastId'
        /\ \A e \in thread'[t].own : e <= lastId' /\ (e \in thread[t].own \/ lastId < e)
    BY <1>1, <2>1, WatchAssumption DEF WatchTypeOK
  <2>. QED BY <1>3, <2>2, SyncEffect, SyncStands, OthersStay
<1>4. ASSUME NEW t \in Threads, Keeps(t), Waits(t), lastId' = lastId,
             thread'[t].now.cursor = thread[t].now.cursor
      PROVE  CursorInv'
  <2>1. Places(t)' /\ Accounted(t)'
    BY <1>4, WaitingStands
  <2>2. /\ lastId <= lastId' /\ thread'[t].own = thread[t].own
        /\ \A e \in thread[t].own : e <= lastId'
    BY <1>1, <1>4 DEF Waits
  <2>. QED BY <1>4, <2>1, <2>2, OthersStay
<1>5. ASSUME NEW t \in Threads, FedexUnavailable(t) PROVE CursorInv'
  BY <1>4, <1>5, WaitEffect DEF FedexUnavailable, Keeps
<1>6. ASSUME NEW p \in Threads, CycleDeactivates(p) PROVE CursorInv'
  <2>1. AfterStatus(thread[p].now, TRUE, 0).cursor = thread[p].now.cursor
    BY ThreadFacts, StatusRow
  <2>. QED BY <1>4, <1>6, <2>1, DeactivateEffect
<1>7. ASSUME NEW t \in Threads, StatusTold(t) PROVE CursorInv'
  <2>1. \A ends \in BOOLEAN, n \in {0} \union MailsSent(thread[t].now) :
          AfterStatus(thread[t].now, ends, n).cursor = thread[t].now.cursor
    BY ThreadFacts, StatusRow
  <2>. QED BY <1>4, <1>7, <2>1, StatusEffect
<1>8. ASSUME NEW t \in Threads, CycleTells(t) PROVE CursorInv'
  <2>1. Keeps(t) /\ lastId' = lastId /\ thread'[t].own = thread[t].own
    BY <1>8, TellEffect DEF TellsEvent
  <2>2. lastId <= lastId' /\ \A e \in thread[t].own : e <= lastId'
    BY <1>1, <2>1
  <2>. QED BY <1>8, <2>1, <2>2, TellStands, OthersStay
<1>9. ASSUME NEW h \in Threads, HookPosts(h) PROVE CursorInv'
  <2>1. /\ Keeps(h) /\ lastId' = lastId + 1
        /\ thread'[h].own = thread[h].own \union {lastId + 1}
    BY <1>9, HookEffect DEF Posts, Holds
  <2>2. /\ lastId <= lastId'
        /\ \A e \in thread'[h].own : e <= lastId' /\ (e \in thread[h].own \/ lastId < e)
    BY <1>1, <2>1
  <2>. QED BY <1>9, <2>1, <2>2, HookStands, OthersStay
<1>10. ASSUME NEW h \in Threads, TrackingSyncs(h) PROVE CursorInv'
  <2>1. PICK n \in 0 .. MaxEvents - lastId :
          lastId' = lastId + n /\ thread'[h].own = lastId + 1 .. lastId + n
    BY <1>10, TrackingEffect
  <2>2. /\ Keeps(h) /\ thread'[h].at = "telling" /\ thread'[h].todo = {} /\ thread'[h].told = {}
        /\ thread'[h].now.cursor = cursor /\ thread'[h].loaded.cursor = cursor
    BY <1>10, TrackingEffect DEF StoredRow
  <2>3. lastId <= lastId' /\ \A e \in thread'[h].own : e <= lastId' /\ lastId < e
    BY <1>1, <2>1, WatchAssumption DEF WatchTypeOK
  <2>4. Places(h)' /\ Accounted(h)'
    BY <2>2, <2>3, FreshStands
  <2>. QED BY <2>2, <2>3, <2>4, OthersStay
<1>11. CASE ClientSubscribes
  <2>1. /\ Client \in Threads /\ Keeps(Client) /\ lastId' = lastId /\ thread'[Client].own = {}
        /\ thread'[Client].todo = {} /\ thread'[Client].told = {}
        /\ thread'[Client].now.cursor = cursor /\ thread'[Client].loaded.cursor = cursor
    BY <1>11, SubscribeEffect DEF StoredRow
  <2>2. Places(Client)' /\ Accounted(Client)'
    BY <2>1, FreshStands
  <2>3. lastId <= lastId'
    BY <1>1, <2>1
  <2>. QED BY <2>1, <2>2, <2>3, OthersStay
<1>12. CASE ClientBaselines
  <2>1. Client \in Threads /\ Keeps(Client)
    BY <1>12, BaselineEffect
  <2>. QED BY <1>12, <2>1, BaselineStands, OthersStay
<1>13. CASE SubscriptionUnanswered
  <2>1. Client \in Threads
    BY DEF Threads
  <2>. QED BY <1>4, <1>13, <2>1, WaitEffect DEF SubscriptionUnanswered, Keeps
<1>14. CASE ClientStops \/ UNCHANGED watchVars
  BY <1>14 DEF ClientStops, watchVars, CursorInv, OwnIds, Places, Accounted, Answered, Mine,
               Covered, Overtakes
<1>15. ASSUME NEW t \in Threads, Commits(t) PROVE CursorInv'
  BY <1>15, CommitKeepsOrder
<1>16. ASSUME NEW t \in Threads, RollsBack(t) PROVE CursorInv'
  <2>1. /\ Others(t) /\ thread'[t] = Idle
        /\ UNCHANGED <<cursor, lastId, visible, noted, declined, passed, outrun>>
    BY <1>16, EndEffect DEF RollsBack
  <2>2. \A u \in Threads : OwnIds(u) /\ Places(u) /\ Accounted(u)
    BY DEF CursorInv
  <2>3. OwnIds(t)' /\ Places(t)' /\ Accounted(t)'
    BY <2>1, <2>2, IdleStands DEF OwnIds
  <2>4. ASSUME NEW u \in Threads \ {t} PROVE OwnIds(u)' /\ Places(u)' /\ Accounted(u)'
    <3>1. thread'[u] = thread[u] /\ thread'[t].own = {}
      BY <2>1 DEF Others, Idle, Holding
    <3>2. OwnIds(u)'
      BY <2>1, <2>2, <3>1 DEF OwnIds, Others
    <3>. QED BY <2>1, <2>2, <3>1, <3>2 DEF Places, Accounted, Answered, Mine, Covered, Overtakes
  <2>5. \A e : Covered(e)' <=> Covered(e)
    BY <2>1 DEF Covered
  <2>. QED BY <2>1, <2>3, <2>4, <2>5 DEF CursorInv
<1>. QED BY <1>2, <1>3, <1>5, <1>6, <1>7, <1>8, <1>9, <1>10, <1>11, <1>12, <1>13, <1>14, <1>15,
            <1>16 DEF WatchNext, WatchStep

-----------------------------------------------------------------------------
(* ShipmentWatch: the events a client does not ask for *)

\* What t, alone with the watch, knows of the cursor and of the preferences.
Knows(t) ==
    /\ Alone(t) /\ thread[t].loaded.cursor = cursor /\ thread[t].loaded.choice = choice
    /\ IF t = Client THEN IdsUpTo(cursor) \subseteq thread[t].left
                     ELSE thread[t].now.choice = choice

Unwanted ==
    ~met =>
      /\ \A e \in declined : e \in passed \/ (e <= cursor /\ e \notin Asks(choice))
      /\ \A t \in Threads : ~IsIdle(t) => Knows(t)

\* A step of t that leaves it at work and knowing.
LEMMA UnwantedStays ==
    ASSUME Unwanted, NEW t \in Threads, Keeps(t), ~IsIdle(t)',
           \/ met' = (met \/ ~Alone(t))
           \/ met' = met /\ ~IsIdle(t),
           ~met /\ Alone(t) =>
              /\ thread'[t].loaded.cursor = cursor /\ thread'[t].loaded.choice = choice
              /\ IF t = Client THEN IdsUpTo(cursor) \subseteq thread'[t].left
                               ELSE thread'[t].now.choice = choice
    PROVE  Unwanted'
<1>. SUFFICES ASSUME ~met'
              PROVE  /\ \A e \in declined' : e \in passed' \/ (e <= cursor' /\ e \notin Asks(choice)')
                     /\ \A u \in Threads : ~IsIdle(u)' => Knows(u)'
  BY DEF Unwanted
<1>1. ~met /\ Alone(t)
  <2>1. CASE met' = (met \/ ~Alone(t))
    BY <2>1, Zenon
  <2>2. CASE met' = met /\ ~IsIdle(t)
    BY <2>2 DEF Unwanted, Knows
  <2>. QED BY <2>1, <2>2
<1>2. \A u \in Threads \ {t} : IsIdle(u)'
  BY <1>1 DEF Alone, Keeps, Others, IsIdle
<1>3. /\ Alone(t)' /\ cursor' = cursor /\ choice' = choice /\ declined' = declined
      /\ passed' = passed
  BY <1>2 DEF Alone, Keeps
<1>4. Knows(t)'
  BY <1>1, <1>3 DEF Knows
<1>. QED BY <1>1, <1>2, <1>3, <1>4 DEF Unwanted, Asks

\* A thread at work that keeps what it loaded, what it leaves behind and its preferences.
LEMMA KnowsOn ==
    ASSUME Unwanted, NEW t \in Threads, Keeps(t), ~IsIdle(t), ~IsIdle(t)', met' = met,
           thread'[t].loaded = thread[t].loaded,
           thread'[t].now.choice = thread[t].now.choice,
           \/ thread[t].left \subseteq thread'[t].left
           \/ Knows(t) => IdsUpTo(cursor) = {}
    PROVE  Unwanted'
<1>1. ~met => Knows(t)
  BY DEF Unwanted
<1>. QED BY <1>1, UnwantedStays DEF Knows

\* Alone with the watch, t stores its cursor and its preferences as it has them.
LEMMA UnwantedEnds ==
    ASSUME WatchTypeOK, CursorInv, Unwanted, NEW t \in Threads, Commits(t)
    PROVE  Unwanted'
<1>1. /\ Others(t) /\ met' = met /\ cursor' = Written(t, "cursor", cursor)
      /\ choice' = Written(t, "choice", choice) /\ passed' = passed \union thread[t].left
      /\ declined' = declined \union (thread[t].told \ Asks(thread[t].now.choice))
      /\ IsIdle(t)' /\ ~IsIdle(t)
  BY CommitEffect, EndEffect DEF Commits, IsIdle
<1>. SUFFICES ASSUME ~met'
              PROVE  /\ \A e \in declined' : e \in passed' \/ (e <= cursor' /\ e \notin Asks(choice)')
                     /\ \A u \in Threads : ~IsIdle(u)' => Knows(u)'
  BY DEF Unwanted
<1>2. /\ Alone(t) /\ thread[t].loaded.cursor = cursor /\ thread[t].loaded.choice = choice
      /\ IF t = Client THEN IdsUpTo(cursor) \subseteq thread[t].left
                       ELSE thread[t].now.choice = choice
      /\ \A e \in declined : e \in passed \/ (e <= cursor /\ e \notin Asks(choice))
  BY <1>1 DEF Unwanted, Knows
<1>3. /\ Places(t) /\ thread[t].now.cursor \in Int /\ cursor \in Int
      /\ declined \in SUBSET EventId /\ thread[t].told \in SUBSET EventId
  BY ThreadFacts DEF CursorInv, WatchTypeOK
<1>4. cursor' = thread[t].now.cursor /\ choice' = thread[t].now.choice
  BY <1>1, <1>2 DEF Written
<1>5. cursor <= cursor' /\ \A e \in thread[t].told : e <= cursor'
  BY <1>2, <1>3, <1>4 DEF Places
<1>6. Asks(choice)' = Asks(thread[t].now.choice)
  BY <1>4 DEF Asks
<1>7. ASSUME NEW e \in declined PROVE e \in passed' \/ (e <= cursor' /\ e \notin Asks(choice)')
  <2>1. e \in Int /\ e \in EventId
    BY <1>3, WatchAssumption DEF EventId
  <2>2. CASE t = Client
    BY <1>1, <1>2, <2>1, <2>2 DEF IdsUpTo
  <2>3. CASE t # Client
    BY <1>1, <1>2, <1>3, <1>4, <1>5, <1>6, <2>1, <2>3
  <2>. QED BY <2>2, <2>3
<1>8. \A e \in thread[t].told \ Asks(thread[t].now.choice) : e <= cursor' /\ e \notin Asks(choice)'
  BY <1>5, <1>6
<1>9. \A u \in Threads : IsIdle(u)'
  BY <1>1, <1>2 DEF Alone, Others, IsIdle
<1>. QED BY <1>1, <1>7, <1>8, <1>9

LEMMA UnwantedStep ==
    ASSUME WatchTypeOK, CursorInv, Unwanted, [WatchNext]_watchVars
    PROVE  Unwanted'
<1>0. \A t \in Threads : thread[t].now \in Row
  BY ThreadFacts
<1>1. ASSUME NEW p \in Threads, CycleLoads(p) PROVE Unwanted'
  <2>1. /\ Keeps(p) /\ thread'[p].at = "loaded" /\ thread'[p].loaded.cursor = cursor
        /\ thread'[p].loaded.choice = choice /\ thread'[p].now.choice = choice
    BY <1>1, LoadEffect DEF Loaded, Holding, StoredRow
  <2>2. met' = (met \/ ~Alone(p)) /\ p # Client
    BY <1>1, ThreadsAreDistinct DEF CycleLoads
  <2>. QED BY <2>1, <2>2, UnwantedStays DEF IsIdle
<1>2. ASSUME NEW t \in Threads, CycleSyncs(t) PROVE Unwanted'
  <2>1. PICK from \in NoCursor .. MaxEvents :
          /\ Keeps(t) /\ thread'[t].now = PlacedAt(thread[t].now, from)
          /\ thread'[t].loaded = thread[t].loaded /\ thread'[t].at \in {"status", "telling"}
          /\ thread'[t].left = IF thread[t].now.cursor = NoCursor THEN IdsUpTo(from)
                                                                  ELSE thread[t].left
    BY <1>2, SyncEffect DEF Inserts
  <2>2. thread'[t].now.choice = thread[t].now.choice
    BY <1>0, <2>1, PlacedRow
  <2>3. met' = met /\ ~IsIdle(t)
    BY <1>2 DEF CycleSyncs, IsIdle
  <2>4. thread[t].now.cursor = NoCursor /\ Knows(t) => IdsUpTo(cursor) = {}
    <3>1. thread[t].now.cursor = NoCursor /\ Knows(t) => cursor <= NoCursor
      BY DEF CursorInv, Places, Knows
    <3>2. cursor <= NoCursor => \A e \in EventId : ~(e <= cursor)
      BY ThreadFacts, WatchAssumption DEF EventId, NoCursor
    <3>. QED BY <3>1, <3>2 DEF IdsUpTo
  <2>5. thread[t].left \subseteq thread'[t].left \/ (Knows(t) => IdsUpTo(cursor) = {})
    BY <2>1, <2>4
  <2>. QED BY <2>1, <2>2, <2>3, <2>5, KnowsOn DEF IsIdle
<1>3. ASSUME NEW t \in Threads, Keeps(t), Waits(t), ~IsIdle(t), met' = met,
             thread'[t].now.choice = thread[t].now.choice
      PROVE  Unwanted'
  BY <1>3, KnowsOn DEF Waits, IsIdle
<1>4. ASSUME NEW t \in Threads, FedexUnavailable(t) PROVE Unwanted'
  <2>1. Keeps(t) /\ Waits(t) /\ thread'[t].now = thread[t].now /\ met' = met /\ ~IsIdle(t)
    BY <1>4, WaitEffect DEF FedexUnavailable, Keeps, IsIdle
  <2>. QED BY <1>3, <2>1
<1>5. ASSUME NEW p \in Threads, CycleDeactivates(p) PROVE Unwanted'
  <2>1. AfterStatus(thread[p].now, TRUE, 0).choice = thread[p].now.choice
    BY <1>0, StatusRow
  <2>2. met' = met /\ ~IsIdle(p)
    BY <1>5 DEF CycleDeactivates, IsIdle
  <2>. QED BY <1>3, <1>5, <2>1, <2>2, DeactivateEffect
<1>6. ASSUME NEW t \in Threads, StatusTold(t) PROVE Unwanted'
  <2>1. \A ends \in BOOLEAN, n \in {0} \union MailsSent(thread[t].now) :
          AfterStatus(thread[t].now, ends, n).choice = thread[t].now.choice
    BY <1>0, StatusRow
  <2>2. met' = met /\ ~IsIdle(t)
    BY <1>6 DEF StatusTold, IsIdle
  <2>. QED BY <1>3, <1>6, <2>1, <2>2, StatusEffect
<1>7. ASSUME NEW t \in Threads, CycleTells(t) PROVE Unwanted'
  <2>1. PICK e \in EventId, ends \in BOOLEAN, n \in {0, 1} : TellsEvent(t, e, ends, n)
    BY <1>7, TellEffect
  <2>2. thread'[t].now.choice = thread[t].now.choice
    BY <1>0, <2>1, ToldRow DEF TellsEvent
  <2>3. met' = met /\ ~IsIdle(t) /\ thread[t].at = "telling" /\ Keeps(t)
    BY <1>7, TellEffect DEF CycleTells, IsIdle
  <2>. QED BY <2>1, <2>2, <2>3, KnowsOn DEF TellsEvent, IsIdle
<1>8. ASSUME NEW h \in Threads, HookPosts(h) PROVE Unwanted'
  <2>1. Keeps(h) /\ lastId + 1 \in EventId
    BY <1>8, HookEffect
  <2>2. PICK held \in WatchThread, n \in {0, 1} :
          Holds(h, held) /\ Posts(h, held, lastId + 1, n)
    BY <1>8, HookEffect
  <2>3. ASSUME NEW m \in EventMails(held.now, lastId + 1)
        PROVE  AfterTelling(held.now, lastId + 1, FALSE, m).choice = held.now.choice
    <3>1. held.now \in Row
      BY DEF WatchThread
    <3>. QED BY <2>1, <3>1, ToldRow, FALSE \in BOOLEAN
  <2>4. thread'[h].now.choice = held.now.choice
    <3>1. CASE thread'[h].now = held.now
      BY <3>1
    <3>2. CASE /\ n \in EventMails(held.now, lastId + 1)
               /\ thread'[h].now = AfterTelling(held.now, lastId + 1, FALSE, n)
      BY <2>3, <3>2
    <3>. QED BY <2>2, <3>1, <3>2 DEF Posts
  <2>5. met' = (met \/ ~Alone(h)) /\ h # Client
    BY <1>8, ThreadsAreDistinct DEF HookPosts
  <2>6. thread'[h].loaded = held.loaded /\ thread'[h].at = "posting"
    BY <2>2 DEF Posts
  <2>7. ~met => /\ held.loaded.cursor = cursor /\ held.loaded.choice = choice
                /\ held.now.choice = choice
    <3>1. CASE held = thread[h]
      <4>1. ~IsIdle(h)
        BY <2>2, <3>1 DEF Holds, IsIdle
      <4>. QED BY <2>5, <3>1, <4>1 DEF Unwanted, Knows
    <3>2. CASE held.loaded = StoredRow /\ held.now = StoredRow
      BY <3>2 DEF StoredRow
    <3>. QED BY <2>2, <3>1, <3>2 DEF Holds
  <2>. QED BY <2>1, <2>4, <2>5, <2>6, <2>7, UnwantedStays DEF IsIdle
<1>9. ASSUME NEW h \in Threads, TrackingSyncs(h) PROVE Unwanted'
  <2>1. /\ Keeps(h) /\ thread'[h].at = "telling" /\ thread'[h].loaded.cursor = cursor
        /\ thread'[h].loaded.choice = choice /\ thread'[h].now.choice = choice
    BY <1>9, TrackingEffect DEF StoredRow
  <2>2. met' = (met \/ ~Alone(h)) /\ h # Client
    BY <1>9, ThreadsAreDistinct DEF TrackingSyncs
  <2>. QED BY <2>1, <2>2, UnwantedStays DEF IsIdle
<1>10. CASE ClientSubscribes
  <2>1. /\ Client \in Threads /\ Keeps(Client) /\ thread'[Client].at = "asking"
        /\ thread'[Client].loaded.cursor = cursor /\ thread'[Client].loaded.choice = choice
        /\ thread'[Client].left = IdsUpTo(cursor)
    BY <1>10, SubscribeEffect DEF StoredRow
  <2>2. met' = (met \/ ~Alone(Client))
    BY <1>10 DEF ClientSubscribes
  <2>. QED BY <2>1, <2>2, UnwantedStays DEF IsIdle
<1>11. CASE ClientBaselines
  <2>1. /\ Client \in Threads /\ Keeps(Client) /\ thread'[Client].at = "loaded"
        /\ thread'[Client].loaded = thread[Client].loaded
        /\ thread[Client].left \subseteq thread'[Client].left
        /\ \E from \in 0 .. MaxEvents : thread'[Client].now = PlacedAt(thread[Client].now, from)
    BY <1>11, BaselineEffect
  <2>2. thread'[Client].now.choice = thread[Client].now.choice
    <3>1. PICK from \in 0 .. MaxEvents : thread'[Client].now = PlacedAt(thread[Client].now, from)
      BY <2>1
    <3>2. from \in NoCursor .. MaxEvents
      BY WatchAssumption DEF NoCursor
    <3>. QED BY <1>0, <2>1, <3>1, <3>2, PlacedRow
  <2>3. met' = met /\ ~IsIdle(Client)
    BY <1>11 DEF ClientBaselines, IsIdle
  <2>. QED BY <2>1, <2>2, <2>3, KnowsOn DEF IsIdle
<1>12. CASE SubscriptionUnanswered
  <2>1. Client \in Threads
    BY DEF Threads
  <2>2. /\ Keeps(Client) /\ Waits(Client) /\ thread'[Client].now = thread[Client].now
        /\ met' = met /\ ~IsIdle(Client)
    BY <1>12, <2>1, WaitEffect DEF SubscriptionUnanswered, Keeps, IsIdle
  <2>. QED BY <1>3, <2>1, <2>2
<1>13. CASE ClientStops \/ UNCHANGED watchVars
  BY <1>13 DEF ClientStops, watchVars, Unwanted, Knows, Alone, IsIdle, Asks
<1>14. ASSUME NEW t \in Threads, Commits(t) PROVE Unwanted'
  BY <1>14, UnwantedEnds
<1>15. ASSUME NEW t \in Threads, RollsBack(t) PROVE Unwanted'
  <2>1. /\ Others(t) /\ IsIdle(t)' /\ ~IsIdle(t)
        /\ UNCHANGED <<cursor, choice, declined, passed, met>>
    BY <1>15, EndEffect DEF RollsBack
  <2>2. ~met => Alone(t)
    BY <2>1 DEF Unwanted, Knows
  <2>3. ~met => \A u \in Threads : IsIdle(u)'
    BY <2>1, <2>2 DEF Alone, Others, IsIdle
  <2>. QED BY <2>1, <2>3 DEF Unwanted, Asks
<1>. QED BY <1>1, <1>2, <1>4, <1>5, <1>6, <1>7, <1>8, <1>9, <1>10, <1>11, <1>12, <1>13, <1>14,
            <1>15 DEF WatchNext, WatchStep

\* The cursor never goes past a visible event that the client asks to be notified of and is
\* not, unless a higher id overtook the event or a subscription left it behind, for any
\* number of webhook threads, events and subscriptions.
THEOREM NothingIsLeftBehind == WatchSpec => []CursorLeavesNothing
<1>1. WatchInit => CursorInv
  <2>. SUFFICES ASSUME WatchInit PROVE CursorInv
    OBVIOUS
  <2>1. \A t \in Threads : thread[t] = Idle
    BY DEF WatchInit
  <2>2. \A t \in Threads : /\ thread[t].own = {} /\ thread[t].todo = {} /\ thread[t].told = {}
                           /\ thread[t].now.cursor = NoCursor
                           /\ thread[t].loaded.cursor = NoCursor
    <3>1. /\ Idle.own = {} /\ Idle.todo = {} /\ Idle.told = {}
          /\ Idle.now.cursor = NoCursor /\ Idle.loaded.cursor = NoCursor
      BY DEF Idle, Holding, NoRow
    <3>. QED BY <2>1, <3>1
  <2>3. cursor \in {NoCursor, 0} /\ visible = {}
    BY DEF WatchInit
  <2>. QED BY <2>2, <2>3 DEF CursorInv, OwnIds, Places, Accounted, Mine, NoCursor
<1>2. WatchInit => Unwanted
  <2>1. Idle.at = "idle"
    BY DEF Idle, Holding
  <2>. QED BY <2>1 DEF WatchInit, Unwanted, IsIdle
<1>3. CursorInv /\ Unwanted => CursorLeavesNothing
  BY DEF CursorInv, Covered, Unwanted, CursorLeavesNothing, Settled
<1>. QED BY <1>1, <1>2, <1>3, CursorStep, UnwantedStep, WatchTypeCorrect, PTL DEF WatchSpec

=============================================================================
