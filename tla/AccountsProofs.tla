---------------------------- MODULE AccountsProofs ----------------------------
(***************************************************************************)
(* Theorems about Accounts, for any number of requests.                    *)
(*                                                                         *)
(* Two requests that are under way together are a pair of crossed.  All    *)
(* else follows from who is under way when: a session that is still open   *)
(* after a suspension was opened by a request that was under way with it,  *)
(* and a challenge that was answered twice was read twice before.          *)
(***************************************************************************)
EXTENDS Accounts, TLAPS

LEMMA AccountInitType == AccountInit => AccountTypeOK
<1>1. NewCall \in Call
  BY DEF NewCall, Call, CallVerb, CallStage, UserStatus
<1>. QED BY <1>1 DEF AccountInit, AccountTypeOK, UserStatus

\* What a request that begins or finishes writes is a request.
LEMMA BeginsType ==
    ASSUME AccountTypeOK, NEW q \in Calls, NEW new \in Call, Begins(q, new)
    PROVE  call' \in [Calls -> Call] /\ crossed' \in SUBSET (SUBSET Calls)
<1>1. [new EXCEPT !.at = "reading", !.seen = account] \in Call
  BY DEF Begins, AccountTypeOK, Call, CallStage
<1>2. Flying \subseteq Calls
  BY DEF Flying
<1>. QED BY <1>1, <1>2 DEF Begins, AccountTypeOK

LEMMA FinishesType ==
    ASSUME AccountTypeOK, NEW q \in Calls, Finishes(q)
    PROVE  call' \in [Calls -> Call]
BY DEF Finishes, AccountTypeOK, NewCall, Call, CallVerb, CallStage, UserStatus

\* Every request keeps the types.
LEMMA AccountNextType == AccountTypeOK /\ [AccountNext]_accountVars => AccountTypeOK'
<1>. SUFFICES ASSUME AccountTypeOK, [AccountNext]_accountVars
              PROVE  AccountTypeOK'
  OBVIOUS
<1>. USE DEF AccountTypeOK
<1>u. CASE UNCHANGED accountVars
  BY <1>u DEF accountVars
<1>. SUFFICES ASSUME NEW q \in Calls,
                     \/ Login(q) \/ LoginChallenges(q) \/ LoginOpens(q)
                     \/ \E c \in Calls : Verify(q, c)
                     \/ VerifySpends(q) \/ VerifyOpens(q) \/ ChallengeSpent(q)
                     \/ Overview(q) \/ OverviewFinds(q) \/ OverviewRevives(q)
                     \/ LogoutAll(q) \/ LogoutEnds(q)
                     \/ Suspend(q) \/ SuspendEnds(q)
                     \/ \E status \in UserStatus, clears \in BOOLEAN : AdminSets(q, status, clears)
                     \/ Activate(q) \/ StatusEnds(q)
                     \/ Delete(q) \/ DeleteAccountEnds(q) \/ CallFails(q)
              PROVE  AccountTypeOK'
  BY <1>u DEF AccountNext
<1>n. NewCall \in Call
  BY DEF NewCall, Call, CallVerb, CallStage, UserStatus
<1>o. OpenSessions \in SUBSET SessionId
  BY DEF OpenSessions
<1>. USE <1>n, <1>o
<1>1. CASE Login(q)
  <2>1. [NewCall EXCEPT !.verb = "login", !.challenges = challenge] \in Call
    BY DEF Call, CallVerb
  <2>. QED BY <1>1, <2>1, BeginsType DEF Login
<1>2. CASE LoginChallenges(q)
  BY <1>2, FinishesType DEF LoginChallenges
<1>3. CASE LoginOpens(q)
  BY <1>3, FinishesType DEF LoginOpens, Opens, SessionId
<1>4. ASSUME NEW c \in Calls, Verify(q, c) PROVE AccountTypeOK'
  <2>. DEFINE new == [NewCall EXCEPT !.verb = "verify", !.challenges = {c}]
  <2>1. new \in Call /\ Begins(q, new)
    BY <1>4 DEF Verify, Call, CallVerb
  <2>. HIDE DEF new
  <2>2. call' \in [Calls -> Call] /\ crossed' \in SUBSET (SUBSET Calls)
    BY <2>1, BeginsType
  <2>. QED BY <1>4, <2>2 DEF Verify
<1>5. CASE VerifySpends(q)
  <2>1. call' \in [Calls -> Call]
    BY <1>5, FinishesType DEF VerifySpends, Call, CallStage
  <2>. QED BY <1>5, <2>1 DEF VerifySpends, AfterVerify
<1>6. CASE VerifyOpens(q)
  <2>1. call[q].challenges \subseteq Calls
    BY DEF Call
  <2>. QED BY <1>6, <2>1, FinishesType DEF VerifyOpens, Opens, SessionId
<1>7. CASE ChallengeSpent(q)
  BY <1>7 DEF ChallengeSpent
<1>8. CASE Overview(q)
  <2>1. [NewCall EXCEPT !.verb = "overview"] \in Call
    BY DEF Call, CallVerb
  <2>. QED BY <1>8, <2>1, BeginsType DEF Overview
<1>9. CASE OverviewFinds(q)
  <2>1. {s \in {Legacy} : session[s] # "none"} \subseteq SessionId
    BY DEF SessionId
  <2>2. call' \in [Calls -> Call]
    BY <1>9, <2>1, FinishesType DEF OverviewFinds, Call, CallStage
  <2>. QED BY <1>9, <2>2 DEF OverviewFinds
<1>10. CASE OverviewRevives(q)
  BY <1>10, FinishesType DEF OverviewRevives, Opens, SessionId
<1>11. CASE LogoutAll(q)
  <2>1. [NewCall EXCEPT !.verb = "logout", !.sessions = OpenSessions] \in Call
    BY DEF Call, CallVerb
  <2>. QED BY <1>11, <2>1, BeginsType DEF LogoutAll
<1>12. CASE LogoutEnds(q)
  BY <1>12, FinishesType DEF LogoutEnds, Closes
<1>13. CASE Suspend(q)
  <2>1. [NewCall EXCEPT !.verb = "suspend", !.sessions = OpenSessions] \in Call
    BY DEF Call, CallVerb
  <2>. QED BY <1>13, <2>1, BeginsType DEF Suspend
<1>14. CASE SuspendEnds(q)
  BY <1>14, FinishesType DEF SuspendEnds, Closes, UserStatus
<1>15. ASSUME NEW status \in UserStatus, NEW clears \in BOOLEAN, AdminSets(q, status, clears)
       PROVE  AccountTypeOK'
  <2>. DEFINE new == [NewCall EXCEPT !.verb = "status", !.target = status, !.clears = clears]
  <2>1. new \in Call /\ Begins(q, new)
    BY <1>15 DEF AdminSets, Call, CallVerb
  <2>. HIDE DEF new
  <2>2. call' \in [Calls -> Call] /\ crossed' \in SUBSET (SUBSET Calls)
    BY <2>1, BeginsType
  <2>. QED BY <1>15, <2>2 DEF AdminSets
<1>16. CASE Activate(q)
  <2>1. [NewCall EXCEPT !.verb = "status", !.target = "active", !.clears = TRUE] \in Call
    BY DEF Call, CallVerb, UserStatus
  <2>. QED BY <1>16, <2>1, BeginsType DEF Activate
<1>17. CASE StatusEnds(q)
  BY <1>17, FinishesType DEF StatusEnds, Call
<1>18. CASE Delete(q)
  <2>1. [NewCall EXCEPT !.verb = "delete"] \in Call
    BY DEF Call, CallVerb
  <2>. QED BY <1>18, <2>1, BeginsType DEF Delete
<1>19. CASE DeleteAccountEnds(q)
  BY <1>19, FinishesType DEF DeleteAccountEnds
<1>20. CASE CallFails(q)
  BY <1>20, FinishesType DEF CallFails
<1>. QED BY <1>1, <1>2, <1>3, <1>4, <1>5, <1>6, <1>7, <1>8, <1>9, <1>10, <1>11, <1>12, <1>13,
            <1>14, <1>15, <1>16, <1>17, <1>18, <1>19, <1>20

\* Every variable keeps its type, whatever requests come in whatever order.
THEOREM AccountTypeCorrect == AccountSpec => []AccountTypeOK
BY AccountInitType, AccountNextType, PTL DEF AccountSpec

-----------------------------------------------------------------------------
(* Who is under way together *)

\* Two requests under way are known to overlap.
Overlap == \A p, q \in Flying : p # q => {p, q} \in crossed

\* The requests that may go on to open a session without a look at the status.
Openers == {o \in Flying : call[o].verb \in {"login", "overview"} \/ call[o].at = "cleared"}

\* A session that a suspension under way has not read was opened under its eyes.
LateSessions ==
    \A q \in Calls : Reading(q, "suspend") =>
        \A s \in OpenSessions \ call[q].sessions : {opener[s], q} \in crossed

\* A request that may still open a session of a suspended account was under way when the
\* account was suspended.
LateOpeners ==
    account = "suspended" /\ suspender # Nobody =>
        \A o \in Openers : {o, suspender} \in crossed

SessionInv == Overlap /\ LateSessions /\ LateOpeners /\ SuspendedHasNoSession

\* A challenge carries the name of a login that is over, and an answered one is gone.
OldChallenges ==
    /\ \A c \in challenge : call[c].at = "over"
    /\ \A q \in Calls : \A c \in call[q].challenges : call[c].at = "over"
    /\ \A x \in answered : /\ call[x[1]].at = "over" /\ call[x[2]].at = "over"
                           /\ x[1] \notin challenge

\* An answer that has passed the check has deleted its challenge.
SpentIsGone ==
    \A v \in Calls : call[v].verb = "verify" /\ call[v].at = "cleared" =>
        call[v].challenges \intersect challenge = {}

\* Whoever is about to answer a challenge that was answered overlapped that answer.
Contenders ==
    \A v \in Flying : call[v].verb = "verify" =>
        \A x \in answered : x[1] \in call[v].challenges => {x[2], v} \in crossed

ChallengeInv == Overlap /\ OldChallenges /\ SpentIsGone /\ Contenders /\ ChallengeOpensOnce

-----------------------------------------------------------------------------
(* Steps: a request begins, or one that is under way goes on *)

\* All a beginning does besides Begins is bounded by what the request could read.
Beginning(q) ==
    \E new \in Call :
        /\ Begins(q, new)
        /\ account = "suspended" => new.verb \notin {"login", "overview"}
        /\ new.verb = "suspend" => new.sessions = OpenSessions
        /\ new.challenges \subseteq challenge
        /\ UNCHANGED <<account, session, challenge, suspender, opener, answered>>

Continuing(q) ==
    \/ LoginChallenges(q) \/ LoginOpens(q) \/ VerifySpends(q) \/ VerifyOpens(q)
    \/ OverviewFinds(q) \/ OverviewRevives(q) \/ LogoutEnds(q) \/ SuspendEnds(q)
    \/ StatusEnds(q) \/ DeleteAccountEnds(q) \/ CallFails(q)

\* Every step is one of these, or spends a challenge.
LEMMA StepKinds ==
    ASSUME AccountTypeOK, AccountNext
    PROVE  \E q \in Calls : Beginning(q) \/ Continuing(q) \/ ChallengeSpent(q)
<1>1. PICK q \in Calls :
        \/ Login(q) \/ LoginChallenges(q) \/ LoginOpens(q)
        \/ \E c \in Calls : Verify(q, c)
        \/ VerifySpends(q) \/ VerifyOpens(q) \/ ChallengeSpent(q)
        \/ Overview(q) \/ OverviewFinds(q) \/ OverviewRevives(q)
        \/ LogoutAll(q) \/ LogoutEnds(q)
        \/ Suspend(q) \/ SuspendEnds(q)
        \/ \E status \in UserStatus, clears \in BOOLEAN : AdminSets(q, status, clears)
        \/ Activate(q) \/ StatusEnds(q)
        \/ Delete(q) \/ DeleteAccountEnds(q) \/ CallFails(q)
  BY DEF AccountNext
<1>n. NewCall \in Call /\ NewCall.challenges = {}
  BY DEF NewCall, Call, CallVerb, CallStage, UserStatus
<1>o. OpenSessions \in SUBSET SessionId /\ challenge \in SUBSET Calls
  BY DEF OpenSessions, AccountTypeOK
<1>2. CASE Login(q)
  <2>. DEFINE new == [NewCall EXCEPT !.verb = "login", !.challenges = challenge]
  <2>1. new \in Call /\ new.verb = "login" /\ new.challenges = challenge
    BY <1>n, <1>o DEF Call, CallVerb
  <2>2. Begins(q, new) /\ account # "suspended"
    BY <1>2 DEF Login, Admitted
  <2>. HIDE DEF new
  <2>. QED BY <1>2, <2>1, <2>2 DEF Beginning, Login
<1>3. ASSUME NEW c \in Calls, Verify(q, c) PROVE Beginning(q)
  <2>. DEFINE new == [NewCall EXCEPT !.verb = "verify", !.challenges = {c}]
  <2>1. new \in Call /\ new.verb = "verify" /\ new.challenges = {c}
    BY <1>n DEF Call, CallVerb
  <2>2. Begins(q, new) /\ c \in challenge
    BY <1>3 DEF Verify
  <2>. HIDE DEF new
  <2>. QED BY <1>3, <2>1, <2>2 DEF Beginning, Verify
<1>4. CASE Overview(q)
  <2>. DEFINE new == [NewCall EXCEPT !.verb = "overview"]
  <2>1. new \in Call /\ new.verb = "overview" /\ new.challenges = {}
    BY <1>n DEF Call, CallVerb
  <2>2. Begins(q, new) /\ account # "suspended"
    BY <1>4 DEF Overview, Bearer
  <2>. HIDE DEF new
  <2>. QED BY <1>4, <2>1, <2>2 DEF Beginning, Overview
<1>5. CASE LogoutAll(q)
  <2>. DEFINE new == [NewCall EXCEPT !.verb = "logout", !.sessions = OpenSessions]
  <2>1. new \in Call /\ new.verb = "logout" /\ new.challenges = {}
    BY <1>n, <1>o DEF Call, CallVerb
  <2>2. Begins(q, new)
    BY <1>5 DEF LogoutAll
  <2>. HIDE DEF new
  <2>. QED BY <1>5, <2>1, <2>2 DEF Beginning, LogoutAll
<1>6. CASE Suspend(q)
  <2>. DEFINE new == [NewCall EXCEPT !.verb = "suspend", !.sessions = OpenSessions]
  <2>1. /\ new \in Call /\ new.verb = "suspend" /\ new.challenges = {}
        /\ new.sessions = OpenSessions
    BY <1>n, <1>o DEF Call, CallVerb
  <2>2. Begins(q, new)
    BY <1>6 DEF Suspend
  <2>. HIDE DEF new
  <2>. QED BY <1>6, <2>1, <2>2 DEF Beginning, Suspend
<1>7. ASSUME NEW status \in UserStatus, NEW clears \in BOOLEAN, AdminSets(q, status, clears)
      PROVE  Beginning(q)
  <2>. DEFINE new == [NewCall EXCEPT !.verb = "status", !.target = status, !.clears = clears]
  <2>1. new \in Call /\ new.verb = "status" /\ new.challenges = {}
    BY <1>n DEF Call, CallVerb
  <2>2. Begins(q, new)
    BY <1>7 DEF AdminSets
  <2>. HIDE DEF new
  <2>. QED BY <1>7, <2>1, <2>2 DEF Beginning, AdminSets
<1>8. CASE Activate(q)
  <2>. DEFINE new == [NewCall EXCEPT !.verb = "status", !.target = "active", !.clears = TRUE]
  <2>1. new \in Call /\ new.verb = "status" /\ new.challenges = {}
    BY <1>n DEF Call, CallVerb, UserStatus
  <2>2. Begins(q, new)
    BY <1>8 DEF Activate
  <2>. HIDE DEF new
  <2>. QED BY <1>8, <2>1, <2>2 DEF Beginning, Activate
<1>9. CASE Delete(q)
  <2>. DEFINE new == [NewCall EXCEPT !.verb = "delete"]
  <2>1. new \in Call /\ new.verb = "delete" /\ new.challenges = {}
    BY <1>n DEF Call, CallVerb
  <2>2. Begins(q, new)
    BY <1>9 DEF Delete
  <2>. HIDE DEF new
  <2>. QED BY <1>9, <2>1, <2>2 DEF Beginning, Delete
<1>. QED BY <1>1, <1>2, <1>3, <1>4, <1>5, <1>6, <1>7, <1>8, <1>9 DEF Continuing

\* What a beginning does to the requests.
LEMMA BeginningMeets ==
    ASSUME AccountTypeOK, NEW q \in Calls, Beginning(q)
    PROVE  /\ q \notin Flying /\ Flying' = Flying \union {q}
           /\ crossed \subseteq crossed'
           /\ \A p \in Flying : {p, q} \in crossed'
           /\ \A p \in Calls \ {q} : call'[p] = call[p]
           /\ call'[q].at = "reading" /\ call[q].at = "unborn"
           /\ account = "suspended" => call'[q].verb \notin {"login", "overview"}
           /\ call'[q].verb = "suspend" => call'[q].sessions = OpenSessions
           /\ call'[q].challenges \subseteq challenge
<1>1. PICK new \in Call :
        /\ Begins(q, new)
        /\ account = "suspended" => new.verb \notin {"login", "overview"}
        /\ new.verb = "suspend" => new.sessions = OpenSessions
        /\ new.challenges \subseteq challenge
  BY DEF Beginning
<1>2. /\ call[q].at = "unborn"
      /\ call' = [call EXCEPT ![q] = [new EXCEPT !.at = "reading", !.seen = account]]
      /\ crossed' = crossed \union {{p, q} : p \in Flying}
  BY <1>1 DEF Begins
<1>3. /\ call'[q].at = "reading" /\ call'[q].verb = new.verb
      /\ call'[q].sessions = new.sessions /\ call'[q].challenges = new.challenges
  BY <1>2 DEF AccountTypeOK, Call
<1>4. \A p \in Calls \ {q} : call'[p] = call[p]
  BY <1>2 DEF AccountTypeOK
<1>5. Flying' = Flying \union {q} /\ q \notin Flying
  BY <1>2, <1>3, <1>4 DEF Flying
<1>. QED BY <1>1, <1>2, <1>3, <1>4, <1>5

\* What the end of a request does to it.
LEMMA FinishesOver ==
    ASSUME AccountTypeOK, NEW q \in Calls, Finishes(q)
    PROVE  /\ call'[q].at = "over" /\ call'[q].verb = "none" /\ call'[q].challenges = {}
           /\ \A p \in Calls \ {q} : call'[p] = call[p]
BY DEF Finishes, AccountTypeOK, NewCall

\* A request that goes on finishes, or has passed the check of its status.
LEMMA ContinuingEnds ==
    ASSUME AccountTypeOK, NEW q \in Calls, Continuing(q)
    PROVE  /\ q \in Flying /\ Flying' \subseteq Flying /\ crossed' = crossed
           /\ \A p \in Calls \ {q} : call'[p] = call[p]
           /\ call[q].at # "over"
           /\ \/ Finishes(q)
              \/ /\ call'[q].at = "cleared" /\ call[q].at = "reading"
                 /\ call'[q].verb = call[q].verb /\ call[q].verb \in {"verify", "overview"}
                 /\ call'[q].challenges = call[q].challenges
                 /\ (VerifySpends(q) /\ account # "suspended") \/ OverviewFinds(q)
<1>1. /\ q \in Flying /\ crossed' = crossed
      /\ \/ Finishes(q)
         \/ VerifySpends(q) /\ call' = [call EXCEPT ![q].at = "cleared"] /\ account # "suspended"
         \/ OverviewFinds(q) /\ \E ids \in SUBSET SessionId :
                call' = [call EXCEPT ![q].at = "cleared", ![q].sessions = ids]
  <2>1. {s \in {Legacy} : session[s] # "none"} \in SUBSET SessionId
    BY DEF SessionId
  <2>. QED BY <2>1
           DEF Continuing, LoginChallenges, LoginOpens, VerifySpends, VerifyOpens, OverviewFinds,
               OverviewRevives, LogoutEnds, SuspendEnds, StatusEnds, DeleteAccountEnds, CallFails,
               Reading, Opens, Flying
<1>2. CASE Finishes(q)
  BY <1>1, <1>2, FinishesOver DEF Flying
<1>3. ASSUME NEW ids \in SUBSET SessionId, call[q].at = "reading",
             \/ call' = [call EXCEPT ![q].at = "cleared"]
             \/ call' = [call EXCEPT ![q].at = "cleared", ![q].sessions = ids]
      PROVE  /\ \A p \in Calls \ {q} : call'[p] = call[p]
             /\ call'[q].at = "cleared" /\ call'[q].verb = call[q].verb
             /\ call'[q].challenges = call[q].challenges
             /\ Flying' \subseteq Flying
  <2>1. \A p \in Calls \ {q} : call'[p] = call[p]
    BY <1>3 DEF AccountTypeOK
  <2>2. /\ call'[q].at = "cleared" /\ call'[q].verb = call[q].verb
        /\ call'[q].challenges = call[q].challenges
    BY <1>3 DEF AccountTypeOK, Call
  <2>. QED BY <1>3, <2>1, <2>2 DEF Flying
<1>4. CASE VerifySpends(q) /\ call' = [call EXCEPT ![q].at = "cleared"] /\ account # "suspended"
  <2>1. call[q].at = "reading" /\ call[q].verb = "verify"
    BY <1>4 DEF VerifySpends, Reading
  <2>. QED BY <1>1, <1>3, <1>4, <2>1
<1>5. CASE OverviewFinds(q) /\ \E ids \in SUBSET SessionId :
               call' = [call EXCEPT ![q].at = "cleared", ![q].sessions = ids]
  <2>1. call[q].at = "reading" /\ call[q].verb = "overview"
    BY <1>5 DEF OverviewFinds, Reading
  <2>. QED BY <1>1, <1>3, <1>5, <2>1
<1>. QED BY <1>1, <1>2, <1>4, <1>5

LEMMA OverlapStep ==
    ASSUME AccountTypeOK, Overlap, [AccountNext]_accountVars
    PROVE  Overlap'
<1>1. ASSUME NEW q \in Calls, Beginning(q) PROVE Overlap'
  <2>1. \A p \in Flying : {p, q} = {q, p}
    OBVIOUS
  <2>. QED BY <1>1, <2>1, BeginningMeets DEF Overlap
<1>2. ASSUME NEW q \in Calls, Continuing(q) PROVE Overlap'
  BY <1>2, ContinuingEnds DEF Overlap
<1>3. ASSUME NEW q \in Calls, ChallengeSpent(q) PROVE Overlap'
  BY <1>3 DEF ChallengeSpent, Overlap, Flying
<1>4. CASE UNCHANGED accountVars
  BY <1>4 DEF accountVars, Overlap, Flying
<1>. QED BY <1>1, <1>2, <1>3, <1>4, StepKinds

-----------------------------------------------------------------------------
(* Sessions and suspensions *)

\* The requests that open a session, and the session they open.
OpensASession(q) ==
    \E s \in SessionId : Opens(q, s) /\ q \in Openers /\ UNCHANGED <<account, suspender>>

\* What a request that goes on may do to the sessions and to the status.
LEMMA ContinuingShape ==
    ASSUME AccountTypeOK, NEW q \in Calls, Continuing(q)
    PROVE  \/ OpensASession(q)
           \/ SuspendEnds(q)
           \/ /\ OpenSessions' \subseteq OpenSessions /\ opener' = opener
              /\ (account' = account /\ suspender' = suspender) \/ suspender' = Nobody
<1>1. CASE LoginOpens(q)
  BY <1>1 DEF LoginOpens, OpensASession, Reading, Openers, Flying, SessionId
<1>2. CASE VerifyOpens(q)
  BY <1>2 DEF VerifyOpens, OpensASession, Openers, Flying, SessionId
<1>3. CASE OverviewRevives(q)
  BY <1>3 DEF OverviewRevives, OpensASession, Openers, Flying, SessionId
<1>4. CASE LogoutEnds(q)
  BY <1>4 DEF LogoutEnds, Closes, OpenSessions
<1>5. CASE StatusEnds(q)
  BY <1>5 DEF StatusEnds, OpenSessions
<1>6. CASE DeleteAccountEnds(q)
  BY <1>6 DEF DeleteAccountEnds, OpenSessions
<1>7. CASE LoginChallenges(q) \/ VerifySpends(q) \/ OverviewFinds(q) \/ CallFails(q)
  BY <1>7 DEF LoginChallenges, VerifySpends, OverviewFinds, CallFails, OpenSessions
<1>. QED BY <1>1, <1>2, <1>3, <1>4, <1>5, <1>6, <1>7 DEF Continuing

\* The openers are as before but for a request that passed the check of its status.
LEMMA OpenersStep ==
    ASSUME AccountTypeOK, NEW q \in Calls, Continuing(q)
    PROVE  Openers' \subseteq Openers \/ (account # "suspended" /\ VerifySpends(q))
<1>1. \A o \in Openers' \ {q} : o \in Openers
  BY ContinuingEnds DEF Openers, Flying
<1>2. CASE q \notin Openers'
  BY <1>1, <1>2
<1>3. CASE q \in Openers'
  <2>1. ~Finishes(q)
    BY <1>3, FinishesOver DEF Openers, Flying
  <2>2. CASE OverviewFinds(q)
    BY <1>1, <2>2, ContinuingEnds DEF OverviewFinds, Reading, Openers
  <2>. QED BY <2>1, <2>2, ContinuingEnds
<1>. QED BY <1>2, <1>3

\* A session of a suspended account is opened under the eyes of its suspender.
LEMMA SessionStep ==
    ASSUME AccountTypeOK, SessionInv, [AccountNext]_accountVars
    PROVE  SessionInv'
<1>. USE DEF SessionInv
<1>0. Overlap'
  BY OverlapStep
<1>1. ASSUME NEW q \in Calls, Beginning(q) PROVE SessionInv'
  <2>1. UNCHANGED <<account, session, suspender, opener>>
    BY <1>1 DEF Beginning
  <2>2. LateSessions'
    BY <1>1, <2>1, BeginningMeets DEF LateSessions, Reading, OpenSessions
  <2>3. LateOpeners'
    BY <1>1, <2>1, BeginningMeets DEF LateOpeners, Openers, Flying
  <2>4. SuspendedHasNoSession'
    BY <1>1, <2>1, BeginningMeets DEF SuspendedHasNoSession, OpenSessions
  <2>. QED BY <1>0, <2>2, <2>3, <2>4
<1>2. ASSUME NEW q \in Calls, Continuing(q), OpensASession(q) PROVE SessionInv'
  <2>1. PICK s \in SessionId : Opens(q, s) /\ q \in Openers /\ UNCHANGED <<account, suspender>>
    BY <1>2 DEF OpensASession
  <2>2. /\ OpenSessions' \subseteq OpenSessions \union {s} /\ opener'[s] = q
        /\ \A t \in SessionId \ {s} : opener'[t] = opener[t]
        /\ Finishes(q)
    BY <2>1 DEF Opens, OpenSessions, AccountTypeOK
  <2>3. LateSessions'
    <3>. SUFFICES ASSUME NEW p \in Calls, Reading(p, "suspend")',
                         NEW t \in OpenSessions' \ call'[p].sessions
                  PROVE  {opener'[t], p} \in crossed'
      BY DEF LateSessions
    <3>1. p # q /\ call'[p] = call[p] /\ p \in Flying /\ q \in Flying /\ crossed' = crossed
      BY <1>2, <2>2, FinishesOver, ContinuingEnds DEF Reading, Flying
    <3>2. CASE t = s
      BY <2>2, <3>1, <3>2 DEF Overlap
    <3>3. CASE t # s
      BY <2>2, <3>1, <3>3 DEF LateSessions, Reading, OpenSessions
    <3>. QED BY <3>2, <3>3
  <2>4. LateOpeners'
    BY <1>2, <2>1, <2>2, FinishesOver, ContinuingEnds DEF LateOpeners, Openers, Flying
  <2>5. SuspendedHasNoSession'
    BY <1>2, <2>1, <2>2, ContinuingEnds DEF SuspendedHasNoSession, LateOpeners, OpenSessions
  <2>. QED BY <1>0, <2>3, <2>4, <2>5
<1>3. ASSUME NEW q \in Calls, Continuing(q), SuspendEnds(q) PROVE SessionInv'
  <2>1. /\ account' = "suspended" /\ suspender' = q /\ Finishes(q) /\ opener' = opener
        /\ Reading(q, "suspend")
        /\ OpenSessions' \subseteq OpenSessions \ call[q].sessions
    BY <1>3 DEF SuspendEnds, SuspendCloses, Closes, OpenSessions
  <2>2. LateSessions'
    BY <1>3, <2>1, FinishesOver, ContinuingEnds DEF LateSessions, Reading
  <2>3. LateOpeners'
    BY <1>3, <2>1, FinishesOver, ContinuingEnds DEF LateOpeners, Openers, Flying, Overlap
  <2>4. SuspendedHasNoSession'
    BY <1>3, <2>1, ContinuingEnds DEF SuspendedHasNoSession, LateSessions
  <2>. QED BY <1>0, <2>2, <2>3, <2>4
<1>4. ASSUME NEW q \in Calls, Continuing(q),
             OpenSessions' \subseteq OpenSessions, opener' = opener,
             (account' = account /\ suspender' = suspender) \/ suspender' = Nobody
      PROVE  SessionInv'
  <2>1. LateSessions'
    BY <1>4, FinishesOver, ContinuingEnds DEF LateSessions, Reading
  <2>2. LateOpeners'
    BY <1>4, OpenersStep, ContinuingEnds DEF LateOpeners
  <2>3. SuspendedHasNoSession'
    BY <1>4, ContinuingEnds DEF SuspendedHasNoSession
  <2>. QED BY <1>0, <2>1, <2>2, <2>3
<1>5. CASE (\E q \in Calls : ChallengeSpent(q)) \/ UNCHANGED accountVars
  BY <1>0, <1>5 DEF ChallengeSpent, accountVars, LateSessions, LateOpeners, Openers, Flying,
                    SuspendedHasNoSession, OpenSessions, Reading
<1>. QED BY <1>1, <1>2, <1>3, <1>4, <1>5, StepKinds, ContinuingShape

\* No session of an account stays open through its suspension unless it was opened by a
\* request that was under way with the suspension, for any number of requests.
THEOREM SuspensionClosesSessions == AccountSpec => []SuspendedHasNoSession
<1>1. AccountInit => SessionInv
  BY DEF AccountInit, SessionInv, Overlap, LateSessions, LateOpeners, SuspendedHasNoSession,
         Flying, Openers, Reading, OpenSessions, NewCall
<1>2. SessionInv => SuspendedHasNoSession
  BY DEF SessionInv
<1>. QED BY <1>1, <1>2, SessionStep, AccountTypeCorrect, PTL DEF AccountSpec

-----------------------------------------------------------------------------
(* Challenges and answers *)

\* What a request that goes on may do to the challenges and to the answers.
LEMMA ChallengeShape ==
    ASSUME AccountTypeOK, NEW q \in Calls, Continuing(q)
    PROVE  \/ VerifyOpens(q)
           \/ LoginChallenges(q)
           \/ VerifySpends(q) /\ answered' = answered /\ challenge' = challenge \ call[q].challenges
           \/ /\ ~VerifySpends(q)
              /\ answered' = answered /\ challenge' \subseteq challenge
BY DEF Continuing, LoginOpens, OverviewFinds, OverviewRevives, LogoutEnds, SuspendEnds,
       StatusEnds, DeleteAccountEnds, CallFails, VerifySpends, AfterVerify

\* A request that is over stays so.
LEMMA OldOverlapStays ==
    ASSUME AccountTypeOK, NEW q \in Calls, Beginning(q) \/ Continuing(q)
    PROVE  \A c \in Calls : call[c].at = "over" => call'[c].at = "over"
<1>1. call[q].at # "over" /\ \A p \in Calls \ {q} : call'[p] = call[p]
  BY BeginningMeets, ContinuingEnds
<1>. QED BY <1>1

\* What a step that ends no request anew must respect for the names of challenges.
LEMMA OldKept ==
    ASSUME AccountTypeOK, AccountTypeOK', OldChallenges,
           \A c \in Calls : call[c].at = "over" => call'[c].at = "over",
           \A p \in Calls : call'[p].challenges \subseteq call[p].challenges \union challenge,
           \A c \in challenge' \ challenge :
               call'[c].at = "over" /\ \A x \in answered' : x[1] # c,
           \A x \in answered' \ answered :
               call'[x[1]].at = "over" /\ call'[x[2]].at = "over" /\ x[1] \notin challenge'
    PROVE  OldChallenges'
<1>1. \A c \in challenge' : call'[c].at = "over"
  BY DEF OldChallenges, AccountTypeOK
<1>2. ASSUME NEW p \in Calls, NEW c \in call'[p].challenges PROVE call'[c].at = "over"
  <2>1. c \in Calls /\ c \in call[p].challenges \union challenge
    BY DEF AccountTypeOK, Call
  <2>. QED BY <2>1 DEF OldChallenges
<1>3. ASSUME NEW x \in answered'
      PROVE  call'[x[1]].at = "over" /\ call'[x[2]].at = "over" /\ x[1] \notin challenge'
  <2>1. x[1] \in Calls /\ x[2] \in Calls
    BY DEF AccountTypeOK
  <2>2. CASE x \in answered
    BY <2>1, <2>2 DEF OldChallenges
  <2>. QED BY <2>2
<1>. QED BY <1>1, <1>2, <1>3 DEF OldChallenges

\* Whoever answers a challenge second overlapped the first answer.
LEMMA ChallengeStep ==
    ASSUME AccountTypeOK, ChallengeInv, [AccountNext]_accountVars
    PROVE  ChallengeInv'
<1>. USE DEF ChallengeInv
<1>0. Overlap' /\ AccountTypeOK'
  BY OverlapStep, AccountNextType
<1>1. ASSUME NEW q \in Calls, Beginning(q) PROVE ChallengeInv'
  <2>1. UNCHANGED <<challenge, answered>>
    BY <1>1 DEF Beginning
  <2>2. OldChallenges'
    BY <1>0, <1>1, <2>1, BeginningMeets, OldOverlapStays, OldKept
  <2>3. SpentIsGone'
    BY <1>1, <2>1, BeginningMeets DEF SpentIsGone
  <2>4. Contenders'
    <3>1. \A x \in answered : x[1] \notin call'[q].challenges
      BY <1>1, BeginningMeets DEF OldChallenges
    <3>2. \A v \in Flying : v # q /\ v \in Calls /\ call'[v] = call[v]
      BY <1>1, BeginningMeets DEF Flying
    <3>3. Flying' = Flying \union {q} /\ crossed \subseteq crossed'
      BY <1>1, BeginningMeets
    <3>. QED BY <2>1, <3>1, <3>2, <3>3 DEF Contenders
  <2>5. ChallengeOpensOnce'
    BY <1>1, <2>1, BeginningMeets DEF ChallengeOpensOnce
  <2>. QED BY <1>0, <2>2, <2>3, <2>4, <2>5
<1>2. ASSUME NEW q \in Calls, Continuing(q) PROVE ChallengeInv'
  <2>1. /\ \A p \in Calls \ {q} : call'[p] = call[p]
        /\ call[q].at # "over" /\ crossed' = crossed
        /\ Flying' \subseteq Flying /\ q \in Flying
        /\ call'[q].challenges \subseteq call[q].challenges
        /\ call'[q].verb \in {call[q].verb, "none"}
    BY <1>2, ContinuingEnds, FinishesOver
  <2>2. CASE VerifyOpens(q)
    <3>1. /\ Finishes(q) /\ challenge' = challenge
          /\ answered' = answered \union {<<c, q>> : c \in call[q].challenges}
          /\ call[q].verb = "verify" /\ call[q].at = "cleared"
      BY <2>2 DEF VerifyOpens, Opens
    <3>2. /\ call'[q].at = "over" /\ call'[q].verb = "none" /\ call'[q].challenges = {}
      BY <3>1, FinishesOver
    <3>3. OldChallenges'
      <4>1. \A c \in call[q].challenges : c # q /\ call'[c].at = "over" /\ c \notin challenge
        <5>1. call[q].challenges \subseteq Calls
          BY DEF AccountTypeOK, Call
        <5>. QED BY <2>1, <3>1, <5>1 DEF OldChallenges, SpentIsGone
      <4>. QED BY <1>0, <1>2, <2>1, <3>1, <3>2, <4>1, OldOverlapStays, OldKept
    <3>4. SpentIsGone'
      BY <2>1, <3>1, <3>2 DEF SpentIsGone
    <3>5. Contenders'
      <4>. SUFFICES ASSUME NEW v \in Flying', call'[v].verb = "verify",
                           NEW x \in answered', x[1] \in call'[v].challenges
                    PROVE  {x[2], v} \in crossed'
        BY DEF Contenders
      <4>1. v # q /\ v \in Flying /\ call'[v] = call[v] /\ v \in Calls
        BY <2>1, <3>2 DEF Flying
      <4>. QED BY <2>1, <3>1, <4>1 DEF Contenders, Overlap
    <3>6. ChallengeOpensOnce'
      <4>. SUFFICES ASSUME NEW x \in answered', NEW y \in answered', x[1] = y[1], x[2] # y[2]
                    PROVE  {x[2], y[2]} \in crossed'
        BY DEF ChallengeOpensOnce
      <4>1. CASE x \in answered /\ y \in answered
        BY <2>1, <4>1 DEF ChallengeOpensOnce
      <4>2. CASE x \in answered /\ y \notin answered
        BY <2>1, <3>1, <4>2 DEF Contenders
      <4>3. CASE x \notin answered /\ y \in answered
        <5>1. {y[2], q} \in crossed /\ x[2] = q
          BY <2>1, <3>1, <4>3 DEF Contenders
        <5>2. {y[2], q} = {q, y[2]}
          OBVIOUS
        <5>. QED BY <2>1, <5>1, <5>2
      <4>4. CASE x \notin answered /\ y \notin answered
        BY <3>1, <4>4
      <4>. QED BY <4>1, <4>2, <4>3, <4>4
    <3>. QED BY <1>0, <3>3, <3>4, <3>5, <3>6
  <2>3. CASE LoginChallenges(q)
    <3>1. /\ Finishes(q) /\ challenge' \subseteq challenge \union {q} /\ answered' = answered
      BY <2>3 DEF LoginChallenges
    <3>2. /\ call'[q].at = "over" /\ call'[q].verb = "none" /\ call'[q].challenges = {}
      BY <3>1, FinishesOver
    <3>3. OldChallenges'
      <4>1. \A x \in answered : x[1] # q
        BY <2>1 DEF OldChallenges
      <4>. QED BY <1>0, <1>2, <2>1, <3>1, <3>2, <4>1, OldOverlapStays, OldKept
    <3>4. SpentIsGone'
      BY <2>1, <3>1, <3>2 DEF SpentIsGone, OldChallenges
    <3>5. Contenders' /\ ChallengeOpensOnce'
      BY <2>1, <3>1, <3>2 DEF Contenders, ChallengeOpensOnce, Flying
    <3>. QED BY <1>0, <3>3, <3>4, <3>5
  <2>4. ASSUME answered' = answered, challenge' \subseteq challenge,
               call'[q].at = "cleared" /\ call'[q].verb = "verify" =>
                   call'[q].challenges \intersect challenge' = {}
        PROVE  ChallengeInv'
    <3>1. OldChallenges'
      BY <1>0, <1>2, <2>1, <2>4, OldOverlapStays, OldKept
    <3>2. SpentIsGone'
      BY <2>1, <2>4 DEF SpentIsGone
    <3>3. Contenders' /\ ChallengeOpensOnce'
      BY <2>1, <2>4 DEF Contenders, ChallengeOpensOnce, Flying
    <3>. QED BY <1>0, <3>1, <3>2, <3>3
  <2>5. CASE VerifySpends(q) /\ answered' = answered /\ challenge' = challenge \ call[q].challenges
    BY <2>1, <2>4, <2>5
  <2>6. CASE /\ ~VerifySpends(q)
             /\ answered' = answered /\ challenge' \subseteq challenge
    <3>1. ~(call'[q].at = "cleared" /\ call'[q].verb = "verify")
      BY <1>2, <2>6, ContinuingEnds, FinishesOver DEF OverviewFinds, Reading
    <3>. QED BY <2>4, <2>6, <3>1
  <2>. QED BY <1>2, <2>2, <2>3, <2>5, <2>6, ChallengeShape
<1>3. CASE (\E q \in Calls : ChallengeSpent(q)) \/ UNCHANGED accountVars
  BY <1>0, <1>3 DEF ChallengeSpent, accountVars, OldChallenges, SpentIsGone, Contenders,
                    ChallengeOpensOnce, Flying
<1>. QED BY <1>1, <1>2, <1>3, StepKinds

\* A login challenge opens a second session only for an answer that was under way together
\* with the first, for any number of requests.
THEOREM ChallengesOpenOnce == AccountSpec => []ChallengeOpensOnce
<1>1. AccountInit => ChallengeInv
  BY DEF AccountInit, ChallengeInv, Overlap, OldChallenges, SpentIsGone, Contenders,
         ChallengeOpensOnce, Flying, NewCall
<1>2. ChallengeInv => ChallengeOpensOnce
  BY DEF ChallengeInv
<1>. QED BY <1>1, <1>2, ChallengeStep, AccountTypeCorrect, PTL DEF AccountSpec

=============================================================================
