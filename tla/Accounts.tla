------------------------------- MODULE Accounts -------------------------------
(***************************************************************************)
(* One account of globex-fedex: its status, its sessions and its login     *)
(* challenges (routes/auth.py, two_factor_service.py, qr_login_service.py, *)
(* the account routes of routes/admin.py and suspend_user).                *)
(*                                                                         *)
(* As in AgentMissions a request reads the committed rows, works, and      *)
(* writes at its commit the columns that differ from what it read.  Every  *)
(* request checks the status first, so that a suspension in the middle of  *)
(* a login is what this module is about.                                   *)
(***************************************************************************)
EXTENDS FiniteSets

CONSTANTS
    Calls,    \* the requests; it bounds their number
    Legacy,   \* the session row that the account overview may create
    Nobody    \* no request

ASSUME NobodyIsNoCall == Nobody \notin Calls /\ Legacy \notin Calls

VARIABLES
    account,     \* users.status, "gone" once the row is deleted
    link,        \* an activation token is stored
    twoFactor,   \* is_two_factor_active
    session,     \* the row of user_sessions of each login: "none", "open", "closed"
    challenge,   \* logins whose row of login_otp_challenges is there
    call,        \* the requests
    suspender,   \* history: the suspend_user the current status comes from
    opener,      \* history: the request that opened each session
    answered,    \* history: <<c, v>>, request v opened a session for challenge c
    crossed      \* history: pairs of requests that overlapped

accountVars == <<account, link, twoFactor, session, challenge, call, suspender, opener,
                 answered, crossed>>

SessionId == Calls \union {Legacy}

UserStatus == {"pending", "invited", "active", "suspended"}

CallVerb == {"none", "login", "verify", "overview", "logout", "suspend", "status", "delete"}

\* A call has not begun, has read, has read the status a second time, or is over.
CallStage == {"unborn", "reading", "cleared", "over"}

\* What a request carries: the status it read, the one it is to write, whether it clears
\* the link, the sessions and the challenges it read.
Call == [verb : CallVerb, at : CallStage, seen : UserStatus, target : UserStatus,
         clears : BOOLEAN, sessions : SUBSET SessionId, challenges : SUBSET Calls]

NewCall == [verb |-> "none", at |-> "unborn", seen |-> "active", target |-> "active",
            clears |-> FALSE, sessions |-> {}, challenges |-> {}]

-----------------------------------------------------------------------------
(* Vocabulary *)

OpenSessions == {s \in SessionId : session[s] = "open"}

Flying == {q \in Calls : call[q].at \in {"reading", "cleared"}}

Reading(q, verb) == call[q].verb = verb /\ call[q].at = "reading"

Begins(q, new) ==
    /\ call[q].at = "unborn" /\ account # "gone"
    /\ call' = [call EXCEPT ![q] = [new EXCEPT !.at = "reading", !.seen = account]]
    /\ crossed' = crossed \union {{p, q} : p \in Flying}

Finishes(q) == call' = [call EXCEPT ![q] = [NewCall EXCEPT !.at = "over"]]

\* get_current_user: the bearer of an open session whose account is not suspended.  No
\* token names the legacy row.
Bearer == account # "suspended" /\ OpenSessions \ {Legacy} # {}

Opens(q, s) ==
    /\ session' = [session EXCEPT ![s] = "open"]
    /\ opener' = [opener EXCEPT ![s] = q]
    /\ Finishes(q)

Closes(ids) == session' = [s \in SessionId |-> IF s \in ids THEN "closed" ELSE session[s]]

-----------------------------------------------------------------------------
(* Logins *)

\* register, register_employee and invite_user.
AccountInit ==
    /\ \/ account \in {"active", "pending"} /\ link = FALSE
       \/ account = "invited" /\ link = TRUE
    /\ twoFactor \in BOOLEAN
    /\ session = [s \in SessionId |-> "none"] /\ challenge = {}
    /\ call = [q \in Calls |-> NewCall]
    /\ suspender = Nobody /\ opener = [s \in SessionId |-> Nobody]
    /\ answered = {} /\ crossed = {}

\* login, login_with_google and login_with_qr refuse all but active accounts.
Admitted == {"active"}

Login(q) ==
    /\ account \in Admitted
    /\ Begins(q, [NewCall EXCEPT !.verb = "login", !.challenges = challenge])
    /\ UNCHANGED <<account, link, twoFactor, session, challenge, suspender, opener, answered>>

\* create_login_challenge replaces the challenges it read; deleting one that is gone
\* already is only a warning.
LoginChallenges(q) ==
    /\ Reading(q, "login") /\ twoFactor /\ account # "gone"
    /\ challenge' = (challenge \ call[q].challenges) \union {q}
    /\ Finishes(q)
    /\ UNCHANGED <<account, link, twoFactor, session, suspender, opener, answered, crossed>>

\* _issue_session_token: a password login without 2FA, or a Google or QR login.
LoginOpens(q) ==
    /\ Reading(q, "login") /\ account # "gone"
    /\ Opens(q, q)
    /\ UNCHANGED <<account, link, twoFactor, challenge, suspender, answered, crossed>>

\* verify_login_challenge with the right code.
Verify(q, c) ==
    /\ c \in challenge
    /\ Begins(q, [NewCall EXCEPT !.verb = "verify", !.challenges = {c}])
    /\ UNCHANGED <<account, link, twoFactor, session, challenge, suspender, opener, answered>>

\* mutant: the challenge is not deleted when it is answered
KeepsChallenge(q) == challenge

\* Its commit deletes the challenge; another request may have deleted it before.
AfterVerify(q) == challenge \ call[q].challenges

\* The commit expires what the session holds: verify_2fa then reads the status afresh.
VerifySpends(q) ==
    /\ Reading(q, "verify")
    /\ challenge' = AfterVerify(q)
    /\ IF account \in {"suspended", "gone"} THEN Finishes(q)
       ELSE call' = [call EXCEPT ![q].at = "cleared"]
    /\ UNCHANGED <<account, link, twoFactor, session, suspender, opener, answered, crossed>>

VerifyOpens(q) ==
    /\ call[q].verb = "verify" /\ call[q].at = "cleared" /\ account # "gone"
    /\ answered' = answered \union {<<c, q>> : c \in call[q].challenges}
    /\ Opens(q, q)
    /\ UNCHANGED <<account, link, twoFactor, challenge, suspender, crossed>>

\* A challenge that expired, or whose last attempt was wrong, is deleted.
ChallengeSpent(c) ==
    /\ c \in challenge
    /\ challenge' = challenge \ {c}
    /\ UNCHANGED <<account, link, twoFactor, session, call, suspender, opener, answered, crossed>>

-----------------------------------------------------------------------------
(* Requests of the bearer of a session *)

\* account_overview, between get_current_user and _ensure_active_session_for_user.
Overview(q) ==
    /\ Bearer /\ Begins(q, [NewCall EXCEPT !.verb = "overview"])
    /\ UNCHANGED <<account, link, twoFactor, session, challenge, suspender, opener, answered>>

\* It looks for an open session; where all were closed meanwhile it goes on.
OverviewFinds(q) ==
    /\ Reading(q, "overview")
    /\ IF OpenSessions # {} THEN Finishes(q)
       ELSE call' = [call EXCEPT ![q].at = "cleared",
                                 ![q].sessions = {s \in {Legacy} : session[s] # "none"}]
    /\ UNCHANGED <<account, link, twoFactor, session, challenge, suspender, opener, answered, crossed>>

\* It stores the legacy session anew, or opens the stored one again.  token_id is unique:
\* one of two first inserts fails (CallFails).
OverviewRevives(q) ==
    /\ call[q].verb = "overview" /\ call[q].at = "cleared" /\ account # "gone"
    /\ session[Legacy] # "none" => Legacy \in call[q].sessions
    /\ Opens(q, Legacy)
    /\ UNCHANGED <<account, link, twoFactor, challenge, suspender, answered, crossed>>

LogoutAll(q) ==
    /\ Bearer /\ Begins(q, [NewCall EXCEPT !.verb = "logout", !.sessions = OpenSessions])
    /\ UNCHANGED <<account, link, twoFactor, session, challenge, suspender, opener, answered>>

LogoutEnds(q) ==
    /\ Reading(q, "logout") /\ account # "gone"
    /\ Closes(call[q].sessions) /\ Finishes(q)
    /\ UNCHANGED <<account, link, twoFactor, challenge, suspender, opener, answered, crossed>>

-----------------------------------------------------------------------------
(* Requests of an admin, and the activation link *)

\* suspend_user, also called by the rule scan, the AI scan and agent missions.
Suspend(q) ==
    /\ account # "suspended"
    /\ Begins(q, [NewCall EXCEPT !.verb = "suspend", !.sessions = OpenSessions])
    /\ UNCHANGED <<account, link, twoFactor, session, challenge, suspender, opener, answered>>

\* mutant: suspending leaves the sessions open
SuspendKeeps(q) == {}

SuspendCloses(q) == call[q].sessions

SuspendEnds(q) ==
    /\ Reading(q, "suspend") /\ account # "gone"
    /\ account' = "suspended" /\ suspender' = q
    /\ Closes(SuspendCloses(q)) /\ Finishes(q)
    /\ UNCHANGED <<link, twoFactor, challenge, opener, answered, crossed>>

\* update_user_admin writes any status and reactivate_user "active"; validate_employee
\* and reset_employee_password write "active" and clear the link.
AdminSets(q, status, clears) ==
    /\ clears => status = "active"
    /\ Begins(q, [NewCall EXCEPT !.verb = "status", !.target = status, !.clears = clears])
    /\ UNCHANGED <<account, link, twoFactor, session, challenge, suspender, opener, answered>>

\* activate_account.
Activate(q) ==
    /\ link /\ account # "active"
    /\ Begins(q, [NewCall EXCEPT !.verb = "status", !.target = "active", !.clears = TRUE])
    /\ UNCHANGED <<account, link, twoFactor, session, challenge, suspender, opener, answered>>

\* The sessions are left as they are, whatever the status becomes.
StatusEnds(q) ==
    /\ Reading(q, "status") /\ account # "gone"
    /\ IF call[q].seen = call[q].target THEN UNCHANGED <<account, suspender>>
       ELSE account' = call[q].target /\ suspender' = Nobody
    /\ link' = (link /\ ~call[q].clears)
    /\ Finishes(q)
    /\ UNCHANGED <<twoFactor, session, challenge, opener, answered, crossed>>

\* delete_account, delete_user_admin, reject_employee.
Delete(q) ==
    /\ Begins(q, [NewCall EXCEPT !.verb = "delete"])
    /\ UNCHANGED <<account, link, twoFactor, session, challenge, suspender, opener, answered>>

\* ON DELETE CASCADE.
DeleteAccountEnds(q) ==
    /\ Reading(q, "delete") /\ account # "gone"
    /\ account' = "gone" /\ link' = FALSE /\ challenge' = {} /\ suspender' = Nobody
    /\ session' = [s \in SessionId |-> "none"]
    /\ Finishes(q)
    /\ UNCHANGED <<twoFactor, opener, answered, crossed>>

\* The row is gone, an insert conflicts, the mail server or the database fails: the
\* request is rolled back.
CallFails(q) ==
    /\ q \in Flying
    /\ Finishes(q)
    /\ UNCHANGED <<account, link, twoFactor, session, challenge, suspender, opener, answered, crossed>>

AccountNext ==
    \E q \in Calls :
        \/ Login(q) \/ LoginChallenges(q) \/ LoginOpens(q)
        \/ \E c \in Calls : Verify(q, c)
        \/ VerifySpends(q) \/ VerifyOpens(q) \/ ChallengeSpent(q)
        \/ Overview(q) \/ OverviewFinds(q) \/ OverviewRevives(q)
        \/ LogoutAll(q) \/ LogoutEnds(q)
        \/ Suspend(q) \/ SuspendEnds(q)
        \/ \E status \in UserStatus, clears \in BOOLEAN : AdminSets(q, status, clears)
        \/ Activate(q) \/ StatusEnds(q)
        \/ Delete(q) \/ DeleteAccountEnds(q) \/ CallFails(q)

AccountSpec == AccountInit /\ [][AccountNext]_accountVars

-----------------------------------------------------------------------------
(* Properties *)

AccountTypeOK ==
    /\ account \in UserStatus \union {"gone"}
    /\ link \in BOOLEAN /\ twoFactor \in BOOLEAN
    /\ session \in [SessionId -> {"none", "open", "closed"}]
    /\ challenge \in SUBSET Calls
    /\ call \in [Calls -> Call]
    /\ suspender \in Calls \union {Nobody}
    /\ opener \in [SessionId -> Calls \union {Nobody}]
    /\ answered \in SUBSET (Calls \X Calls)
    /\ crossed \in SUBSET (SUBSET Calls)

\* While an account is suspended by suspend_user it has no open session, except one that a
\* request opened which was under way together with the suspension: the legacy session
\* the overview opens again included.
SuspendedHasNoSession ==
    account = "suspended" /\ suspender # Nobody =>
        \A s \in OpenSessions : {opener[s], suspender} \in crossed

\* A login challenge opens one session; two only for two answers that were under way at
\* the same time.
ChallengeOpensOnce ==
    \A x, y \in answered : x[1] = y[1] /\ x[2] # y[2] => {x[2], y[2]} \in crossed

=============================================================================
