-------------------------------- MODULE SkillLab --------------------------------
(***************************************************************************)
(* The Skill Lab of Jarvis: the pipeline synthesis, sandbox test, human    *)
(* promotion (capabilities/skills/lab.py), the SQL lifecycle it updates    *)
(* (lifecycle.py) and the directories candidates/ and installed/, which    *)
(* the installer and the improve tool write too.                           *)
(*                                                                         *)
(* Every handler runs on one event loop.  A proposal gives it up twice:    *)
(* while the LLM writes the skill and while the sandbox runs; between the  *)
(* two the files are written and the record is created at once.  A skill   *)
(* is known by the name the LLM chose, and so is its directory: proposals  *)
(* for the same name share the directory and the record.                   *)
(***************************************************************************)
EXTENDS FiniteSets

CONSTANTS
    Skills,     \* names a skill can be given
    Proposals,  \* runs of the pipeline; a version of the code has the name of its run
    Events,     \* events skill_candidate_proposal of the kernel
    NoEvent,    \* the source of a proposal of a tool or of the capability engine
    NoCode,     \* a directory that is not there
    Foreign     \* code the Lab never saw: downloaded or improved in place

ASSUME LabAssumption ==
    /\ NoEvent \notin Events
    /\ NoCode \notin Proposals /\ Foreign \notin Proposals /\ NoCode # Foreign

VARIABLES
    record,     \* table skills: status and source event of each name
    candidate,  \* candidates/: the version in the directory of each name
    installed,  \* installed/: likewise
    proposal,   \* the runs of the pipeline
    green,      \* history: the versions whose own test passed
    hasty,      \* history: versions promoted before a verdict of their own run
    overlapped, \* history: pairs of runs that overlapped
    taken,      \* history: events whose proposal met a name that had a record
    cut         \* history: names whose run was cut by a crash or a cancellation

labVars == <<record, candidate, installed, proposal, green, hasty, overlapped, taken, cut>>

SkillStatus == {"none", "candidate", "sandboxed_pass", "sandboxed_fail", "active", "rejected"}

Source == Events \union {NoEvent}

Code == Proposals \union {NoCode, Foreign}

ProposalStage == {"unborn", "synthesizing", "testing", "tested", "over"}

\* Where a run is, the event it comes from, the names it works on (none before the
\* synthesis), the version its sandbox read.
Proposal == [at : ProposalStage, source : Source, names : SUBSET Skills,
             read : Proposals \union {NoCode}]

NewProposal == [at |-> "unborn", source |-> NoEvent, names |-> {}, read |-> NoCode]

-----------------------------------------------------------------------------
(* Vocabulary *)

Underway == {p \in Proposals : proposal[p].at \in {"synthesizing", "testing", "tested"}}

TestsOf(n) == {p \in Underway : n \in proposal[p].names}

WroteFor(e) == {p \in Proposals : proposal[p].source = e /\ proposal[p].names # {}}

SetStatus(n, status) == record' = [record EXCEPT ![n].status = status]

EndsEarly(ps) ==
    /\ proposal' = [p \in Proposals |-> IF p \in ps THEN [proposal[p] EXCEPT !.at = "over"]
                                        ELSE proposal[p]]
    /\ cut' = cut \union UNION {proposal[p].names : p \in ps}

-----------------------------------------------------------------------------
(* The pipeline *)

\* The process may start with names that an earlier one rejected.
LabInit ==
    /\ record \in [Skills -> [status : {"none", "rejected"}, source : {NoEvent}]]
    /\ candidate = [n \in Skills |-> NoCode]
    /\ installed = [n \in Skills |-> NoCode]
    /\ proposal = [p \in Proposals |-> NewProposal]
    /\ green = {} /\ hasty = {} /\ overlapped = {} /\ taken = {} /\ cut = {}

\* mutant: the scan does not ask whether the event was proposed
NeverProposed(e) == FALSE

\* has_been_proposed_for_event.
HasBeenProposed(e) == \E n \in Skills : record[n].status # "none" /\ record[n].source = e

\* scan_kernel (nightly or over HTTP) for an event it has not proposed; a tool, or the
\* capability engine, without an event.
ProposalBegins(p, source) ==
    /\ proposal[p].at = "unborn"
    /\ source # NoEvent => ~HasBeenProposed(source)
    /\ proposal' = [proposal EXCEPT ![p] = [NewProposal EXCEPT !.at = "synthesizing",
                                                               !.source = source]]
    /\ overlapped' = overlapped \union {{p, q} : q \in Underway}
    /\ UNCHANGED <<record, candidate, installed, green, hasty, taken, cut>>

\* propose_skill_candidate writes the directory, whatever is in it; create_candidate
\* leaves a record that is there as it is, its source and its status included.
Synthesizes(p, n) ==
    /\ proposal[p].at = "synthesizing"
    /\ candidate' = [candidate EXCEPT ![n] = p]
    /\ IF record[n].status = "none"
       THEN record' = [record EXCEPT ![n] = [status |-> "candidate", source |-> proposal[p].source]]
            /\ UNCHANGED taken
       ELSE taken' = taken \union {proposal[p].source} /\ UNCHANGED record
    /\ proposal' = [proposal EXCEPT ![p].at = "testing", ![p].names = {n}]
    /\ UNCHANGED <<installed, green, hasty, overlapped, cut>>

\* The LLM is down or its answer has no name.
SynthesisFails(p) ==
    /\ proposal[p].at = "synthesizing"
    /\ proposal' = [proposal EXCEPT ![p].at = "over"]
    /\ UNCHANGED <<record, candidate, installed, green, hasty, overlapped, taken, cut>>

\* The sandbox reads the directory some time after it was written.
SandboxReads(p) ==
    /\ proposal[p].at = "testing"
    /\ \E n \in proposal[p].names :
         proposal' = [proposal EXCEPT ![p].at = "tested", ![p].read = candidate[n]]
    /\ UNCHANGED <<record, candidate, installed, green, hasty, overlapped, taken, cut>>

\* mutant: an error of the sandbox is raised before the result is marked
ErrorUnmarked(n, code, passed) ==
    IF code # NoCode /\ passed THEN "sandboxed_pass" ELSE record[n].status

\* mark_sandbox_result, whatever the status was; a directory that is gone, a timeout and
\* an error of the infrastructure are failures.
Judged(n, code, passed) ==
    IF code # NoCode /\ passed THEN "sandboxed_pass" ELSE "sandboxed_fail"

Verdict(p, passed) ==
    /\ proposal[p].at = "tested"
    /\ LET code == proposal[p].read
       IN  /\ \E n \in proposal[p].names : SetStatus(n, Judged(n, code, passed))
           /\ green' = IF passed /\ code # NoCode THEN green \union {code} ELSE green
    /\ proposal' = [proposal EXCEPT ![p].at = "over", ![p].read = NoCode]
    /\ UNCHANGED <<candidate, installed, hasty, overlapped, taken, cut>>

-----------------------------------------------------------------------------
(* The human, the other writers of installed/, crashes *)

\* mutant: the verdict is not looked at
AnyCandidate(n) == candidate[n] # NoCode /\ installed[n] = NoCode

\* promote refuses what did not pass, what is gone, and what would overwrite a skill.
Promotable(n) ==
    /\ record[n].status = "sandboxed_pass"
    /\ candidate[n] # NoCode /\ installed[n] = NoCode

\* The directory is moved, then the record is marked: a crash may come between the two.
Promote(n, marked) ==
    /\ Promotable(n)
    /\ installed' = [installed EXCEPT ![n] = candidate[n]]
    /\ candidate' = [candidate EXCEPT ![n] = NoCode]
    /\ hasty' = hasty \union {p \in Proposals \cap {candidate[n]} : proposal[p].at # "over"}
    /\ IF marked THEN SetStatus(n, "active") /\ UNCHANGED <<proposal, cut>>
       ELSE /\ UNCHANGED record
            /\ EndsEarly(Underway)
    /\ UNCHANGED <<green, overlapped, taken>>

\* reject looks at no status.
LabReject(n, deleteFiles) ==
    /\ IF record[n].status = "none" THEN UNCHANGED record ELSE SetStatus(n, "rejected")
    /\ candidate' = IF deleteFiles THEN [candidate EXCEPT ![n] = NoCode] ELSE candidate
    /\ UNCHANGED <<installed, proposal, green, hasty, overlapped, taken, cut>>

\* installer.install, import_from_standard; improve_skill for a skill that is there.
InstallsForeign(n) ==
    /\ installed' = [installed EXCEPT ![n] = Foreign]
    /\ UNCHANGED <<record, candidate, proposal, green, hasty, overlapped, taken, cut>>

\* uninstall, and install when a download fails, remove the directory; no record changes.
RemovesInstalled(n) ==
    /\ installed[n] # NoCode
    /\ installed' = [installed EXCEPT ![n] = NoCode]
    /\ UNCHANGED <<record, candidate, proposal, green, hasty, overlapped, taken, cut>>

\* A tool call that is cancelled, or the death of the process, ends runs where they are.
Cut(ps) ==
    /\ ps # {} /\ ps \subseteq Underway
    /\ EndsEarly(ps)
    /\ UNCHANGED <<record, candidate, installed, green, hasty, overlapped, taken>>

LabNext ==
    \/ \E p \in Proposals :
         \/ \E source \in Source : ProposalBegins(p, source)
         \/ \E n \in Skills : Synthesizes(p, n)
         \/ SynthesisFails(p) \/ SandboxReads(p)
         \/ \E passed \in BOOLEAN : Verdict(p, passed)
    \/ \E n \in Skills :
         \/ \E b \in BOOLEAN : Promote(n, b) \/ LabReject(n, b)
         \/ InstallsForeign(n) \/ RemovesInstalled(n)
    \/ \E ps \in {Underway} \union {{p} : p \in Underway} : Cut(ps)

LabSpec == LabInit /\ [][LabNext]_labVars

-----------------------------------------------------------------------------
(* Properties *)

LabTypeOK ==
    /\ record \in [Skills -> [status : SkillStatus, source : Source]]
    /\ candidate \in [Skills -> Proposals \union {NoCode}]
    /\ installed \in [Skills -> Code]
    /\ proposal \in [Proposals -> Proposal]
    /\ green \in SUBSET Proposals /\ hasty \in SUBSET Proposals
    /\ overlapped \in SUBSET (SUBSET Proposals)
    /\ taken \in SUBSET Source /\ cut \in SUBSET Skills

\* What the Lab installed passed the test, unless it was promoted before its own verdict
\* came (over the verdict on an older version of the same name), its run was cut, or two
\* runs overlapped, so that the verdict was about what the other one had written.
InstalledWasTested ==
    \A n \in Skills :
        installed[n] \in Proposals =>
            \/ installed[n] \in green \/ installed[n] \in hasty \/ n \in cut
            \/ \E q \in Proposals : {installed[n], q} \in overlapped

\* An event is turned into code once, over scans, rejections, promotions and crashes, but
\* for scans that overlapped and events whose skill was given a name already in use.
EventProposedOnce ==
    \A e \in Events : \A p, q \in WroteFor(e) : p = q \/ {p, q} \in overlapped \/ e \in taken

\* A candidate that waits for its verdict is being tested: nothing else ever tests it.
CandidateIsJudged ==
    \A n \in Skills : record[n].status = "candidate" => TestsOf(n) # {} \/ n \in cut

=============================================================================
