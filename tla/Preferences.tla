------------------------------ MODULE Preferences ------------------------------
(***************************************************************************)
(* The AI preferences of one user of globex-fedex: a client submits them,  *)
(* an admin approves or rejects the submission, and what was approved is   *)
(* in force (preference_service.py and its routes).  Each submission has   *)
(* the name of the request that stored it.  Requests read the committed    *)
(* rows and write at their commit the columns that differ from what they   *)
(* read.                                                                   *)
(***************************************************************************)
EXTENDS FiniteSets

CONSTANTS
    Forms,     \* the requests of the client and of the admins; it bounds their number
    Default    \* the preferences no submission gave, those an admin typed included

VARIABLES
    submission,  \* preference_submissions.status of each submission
    inForce,     \* users.response_preferences
    form,        \* the requests
    clashed,     \* history: pairs of requests that overlapped
    approver     \* history: the request that put in force what is in force

preferenceVars == <<submission, inForce, form, clashed, approver>>

SubmissionStatus == {"none", "pending", "approved", "rejected", "auto_blocked"}

\* What a request carries: the submissions it is about.
Form == [verb : {"none", "submit", "approve", "reject", "edit"},
         at : {"unborn", "reading", "over"}, on : SUBSET Forms]

BlankForm == [verb |-> "none", at |-> "unborn", on |-> {}]

Filling == {q \in Forms : form[q].at = "reading"}

Reads(q, verb, on) ==
    /\ form[q].at = "unborn"
    /\ form' = [form EXCEPT ![q] = [verb |-> verb, at |-> "reading", on |-> on]]
    /\ clashed' = clashed \union {{p, q} : p \in Filling}
    /\ UNCHANGED <<submission, inForce, approver>>

IsAt(q, verb) == form[q].verb = verb /\ form[q].at = "reading"

Filed(q) == form' = [form EXCEPT ![q] = [BlankForm EXCEPT !.at = "over"]]

PreferenceInit ==
    /\ submission = [s \in Forms |-> "none"] /\ inForce = Default
    /\ form = [q \in Forms |-> BlankForm]
    /\ clashed = {} /\ approver = Default

-----------------------------------------------------------------------------

\* mutant: the submissions that wait are left alone
LeavesPending == {}

\* The submissions a new one replaces.
Replaced == {s \in Forms : submission[s] = "pending"}

Submit(q) == Reads(q, "submit", Replaced)

\* submit_user_preferences: those it read as pending are rejected, the new one waits.
SubmitEnds(q) ==
    /\ IsAt(q, "submit")
    /\ submission' = [s \in Forms |-> IF s = q THEN "pending"
                                      ELSE IF s \in form[q].on THEN "rejected" ELSE submission[s]]
    /\ Filed(q)
    /\ UNCHANGED <<inForce, clashed, approver>>

\* The text is refused by the policy: a row of its own, and nothing else.
SubmitBlocked(q) ==
    /\ form[q].at = "unborn"
    /\ submission' = [submission EXCEPT ![q] = "auto_blocked"]
    /\ Filed(q)
    /\ UNCHANGED <<inForce, clashed, approver>>

\* mutant: a submission that was approved can be decided again
DecidedAgain == {"pending", "approved"}

\* approve_submission and reject_submission refuse what is not pending.
Reviewable == {"pending"}

Approval(q, s) == submission[s] \in Reviewable /\ Reads(q, "approve", {s})

ApproveEnds(q) ==
    /\ IsAt(q, "approve")
    /\ submission' = [s \in Forms |-> IF s \in form[q].on THEN "approved" ELSE submission[s]]
    /\ \E s \in form[q].on : inForce' = s
    /\ approver' = q
    /\ Filed(q)
    /\ UNCHANGED clashed

Refusal(q, s) == submission[s] \in Reviewable /\ Reads(q, "reject", {s})

RejectionEnds(q) ==
    /\ IsAt(q, "reject")
    /\ submission' = [s \in Forms |-> IF s \in form[q].on THEN "rejected" ELSE submission[s]]
    /\ Filed(q)
    /\ UNCHANGED <<inForce, clashed, approver>>

\* update_user_admin types preferences; those that are equal to what it read are not written.
AdminEdit(q) == Reads(q, "edit", {})

AdminEditEnds(q) ==
    /\ IsAt(q, "edit")
    /\ \/ inForce' = Default /\ approver' = Default
       \/ UNCHANGED <<inForce, approver>>
    /\ Filed(q)
    /\ UNCHANGED <<submission, clashed>>

\* The policy refuses the text after all, or the database fails.
FormFails(q) ==
    /\ q \in Filling /\ Filed(q)
    /\ UNCHANGED <<submission, inForce, clashed, approver>>

PreferenceNext ==
    \E q \in Forms :
        \/ Submit(q) \/ SubmitEnds(q) \/ SubmitBlocked(q)
        \/ \E s \in Forms : Approval(q, s) \/ Refusal(q, s)
        \/ ApproveEnds(q) \/ RejectionEnds(q)
        \/ AdminEdit(q) \/ AdminEditEnds(q) \/ FormFails(q)

PreferenceSpec == PreferenceInit /\ [][PreferenceNext]_preferenceVars

-----------------------------------------------------------------------------
(* Properties *)

PreferenceTypeOK ==
    /\ submission \in [Forms -> SubmissionStatus]
    /\ inForce \in Forms \union {Default} /\ approver \in Forms \union {Default}
    /\ form \in [Forms -> Form]
    /\ clashed \in SUBSET (SUBSET Forms)

\* Two submissions of a user wait for review only where the requests that stored them
\* overlapped: get_preferences_state and the admin's list rely on one.
OnePending ==
    \A s, t \in Forms :
        submission[s] = "pending" /\ submission[t] = "pending" /\ s # t => {s, t} \in clashed

\* The submission in force is an approved one, unless another request (a refusal, a newer
\* submission) was under way together with its approval and rejected it.
InForceIsApproved ==
    inForce # Default =>
        \/ submission[inForce] = "approved"
        \/ \E q \in Forms : {q, approver} \in clashed

=============================================================================
