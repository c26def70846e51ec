-------------------------- MODULE JarvisServicesProofs --------------------------
(***************************************************************************)
(* Theorems about the services of Jarvis: SkillLab, for any number of      *)
(* names, runs and events; Routines, for every length of the history and   *)
(* every bound of the catch-up; BudgetGuard, for any number of workers and *)
(* projects and all limits.                                                *)
(*                                                                         *)
(* An event that was turned into code has a record, so that the scan does  *)
(* not take it again, or its run met a taken name.  A version in a         *)
(* candidate's directory was written by a run of that name: whoever judges *)
(* it without having written it was under way with the run that did.       *)
(*                                                                         *)
(* What the missions cost, and what the calls granted to them may still    *)
(* cost, stay together below the limit and one call for each worker.  The  *)
(* sums are folds over sets: a smallest set that violates a fact takes the *)
(* place of an induction.                                                  *)
(***************************************************************************)
EXTENDS SkillLab, Routines, BudgetGuard, SequenceTheorems, FiniteSetTheorems,
        WellFoundedInduction, TLAPS

(* SkillLab *)

(* Types *)

\* A run that changes one of its fields is a run.
LEMMA EndsEarlyType ==
    ASSUME LabTypeOK, NEW ps \in SUBSET Underway, EndsEarly(ps)
    PROVE  proposal' \in [Proposals -> Proposal] /\ cut' \in SUBSET Skills
<1>1. \A p \in Proposals : [proposal[p] EXCEPT !.at = "over"] \in Proposal
  BY DEF LabTypeOK, Proposal, ProposalStage
<1>2. \A p \in ps : p \in Proposals /\ proposal[p].names \subseteq Skills
  BY DEF LabTypeOK, Proposal, Underway
<1>. QED BY <1>1, <1>2 DEF EndsEarly, LabTypeOK

\* A run that goes on is a run.
LEMMA GoesOnType ==
    ASSUME NEW run \in Proposal, NEW at \in ProposalStage
    PROVE  /\ \A ns \in SUBSET Skills : [run EXCEPT !.at = at, !.names = ns] \in Proposal
           /\ \A code \in Proposals \union {NoCode} : [run EXCEPT !.at = at, !.read = code] \in Proposal
BY DEF Proposal

LEMMA SetStatusType ==
    ASSUME LabTypeOK, NEW n \in Skills, NEW status \in SkillStatus, SetStatus(n, status)
    PROVE  record' \in [Skills -> [status : SkillStatus, source : Source]]
BY DEF LabTypeOK, SetStatus

LEMMA LabNextType ==
    ASSUME LabTypeOK, [LabNext]_labVars
    PROVE  LabTypeOK'
<1>. USE DEF LabTypeOK
<1>1. ASSUME NEW p \in Proposals, NEW source \in Source, ProposalBegins(p, source)
      PROVE  LabTypeOK'
  <2>. DEFINE new == [NewProposal EXCEPT !.at = "synthesizing", !.source = source]
  <2>1. new \in Proposal
    BY DEF NewProposal, Proposal, ProposalStage
  <2>2. proposal' = [proposal EXCEPT ![p] = new]
    BY <1>1 DEF ProposalBegins
  <2>. HIDE DEF new
  <2>3. proposal' \in [Proposals -> Proposal]
    BY <2>1, <2>2
  <2>4. overlapped' \in SUBSET (SUBSET Proposals)
    BY <1>1 DEF ProposalBegins, Underway
  <2>. QED BY <1>1, <2>3, <2>4 DEF ProposalBegins
<1>2. ASSUME NEW p \in Proposals, NEW n \in Skills, Synthesizes(p, n) PROVE LabTypeOK'
  <2>. DEFINE new == [proposal[p] EXCEPT !.at = "testing", !.names = {n}]
  <2>1. new \in Proposal
    BY proposal[p] \in Proposal, {n} \in SUBSET Skills, GoesOnType DEF ProposalStage
  <2>2. proposal' = [proposal EXCEPT ![p] = new]
    BY <1>2 DEF Synthesizes
  <2>. HIDE DEF new
  <2>3. proposal' \in [Proposals -> Proposal]
    BY <2>1, <2>2
  <2>4. proposal[p].source \in Source
    BY DEF Proposal
  <2>5. record' \in [Skills -> [status : SkillStatus, source : Source]] /\ taken' \in SUBSET Source
    BY <1>2, <2>4 DEF Synthesizes, SkillStatus
  <2>. QED BY <1>2, <2>3, <2>5 DEF Synthesizes
<1>3. ASSUME NEW p \in Proposals, SynthesisFails(p) PROVE LabTypeOK'
  <2>1. [proposal[p] EXCEPT !.at = "over"] \in Proposal
    BY DEF Proposal, ProposalStage
  <2>. QED BY <1>3, <2>1 DEF SynthesisFails
<1>4. ASSUME NEW p \in Proposals, SandboxReads(p) PROVE LabTypeOK'
  <2>1. PICK n \in proposal[p].names :
           proposal' = [proposal EXCEPT ![p].at = "tested", ![p].read = candidate[n]]
    BY <1>4 DEF SandboxReads
  <2>2. n \in Skills
    BY DEF Proposal
  <2>. DEFINE new == [proposal[p] EXCEPT !.at = "tested", !.read = candidate[n]]
  <2>3. new \in Proposal
    BY <2>2, proposal[p] \in Proposal, GoesOnType DEF ProposalStage
  <2>4. proposal' = [proposal EXCEPT ![p] = new]
    BY <2>1
  <2>. HIDE DEF new
  <2>5. proposal' \in [Proposals -> Proposal]
    BY <2>3, <2>4
  <2>. QED BY <1>4, <2>5 DEF SandboxReads
<1>5. ASSUME NEW p \in Proposals, NEW passed \in BOOLEAN, Verdict(p, passed) PROVE LabTypeOK'
  <2>. DEFINE new == [proposal[p] EXCEPT !.at = "over", !.read = NoCode]
  <2>1. new \in Proposal
    BY proposal[p] \in Proposal, GoesOnType DEF ProposalStage
  <2>2. proposal' = [proposal EXCEPT ![p] = new]
    BY <1>5 DEF Verdict
  <2>. HIDE DEF new
  <2>3. proposal' \in [Proposals -> Proposal]
    BY <2>1, <2>2
  <2>4. PICK n \in proposal[p].names : SetStatus(n, Judged(n, proposal[p].read, passed))
    BY <1>5 DEF Verdict
  <2>5. n \in Skills /\ Judged(n, proposal[p].read, passed) \in SkillStatus
    BY DEF Proposal, Judged, SkillStatus
  <2>6. green' \in SUBSET Proposals
    BY <1>5 DEF Verdict, Proposal
  <2>7. record' \in [Skills -> [status : SkillStatus, source : Source]]
    BY <2>4, <2>5, SetStatusType
  <2>. QED BY <1>5, <2>3, <2>6, <2>7 DEF Verdict
<1>6. ASSUME NEW n \in Skills, NEW marked \in BOOLEAN, Promote(n, marked) PROVE LabTypeOK'
  <2>1. proposal' \in [Proposals -> Proposal] /\ cut' \in SUBSET Skills
    BY <1>6, EndsEarlyType DEF Promote
  <2>2. record' \in [Skills -> [status : SkillStatus, source : Source]]
    BY <1>6, SetStatusType DEF Promote, SkillStatus
  <2>. QED BY <1>6, <2>1, <2>2 DEF Promote, Code
<1>7. ASSUME NEW n \in Skills, NEW deleteFiles \in BOOLEAN, LabReject(n, deleteFiles)
      PROVE  LabTypeOK'
  BY <1>7, SetStatusType DEF LabReject, SkillStatus
<1>8. ASSUME NEW n \in Skills, InstallsForeign(n) \/ RemovesInstalled(n) PROVE LabTypeOK'
  BY <1>8 DEF InstallsForeign, RemovesInstalled, Code
<1>9. ASSUME NEW ps \in SUBSET Underway, Cut(ps) PROVE LabTypeOK'
  BY <1>9, EndsEarlyType DEF Cut
<1>10. CASE UNCHANGED labVars
  BY <1>10 DEF labVars
<1>. QED BY <1>1, <1>2, <1>3, <1>4, <1>5, <1>6, <1>7, <1>8, <1>9, <1>10 DEF LabNext, Cut

\* Records, directories and runs keep their types, for any number of names and runs.
THEOREM LabTypeCorrect == LabSpec => []LabTypeOK
<1>1. LabInit => LabTypeOK
  <2>1. NewProposal \in Proposal
    BY DEF NewProposal, Proposal, ProposalStage, Source
  <2>. QED BY <2>1 DEF LabInit, LabTypeOK, SkillStatus, Source, Code
<1>. QED BY <1>1, LabNextType, PTL DEF LabSpec

-----------------------------------------------------------------------------
(* The invariant *)

\* Two runs under way are known to overlap.
RunsOverlap == \A p, q \in Underway : p # q => {p, q} \in overlapped

\* An event that was turned into code has a record; a run under way for the same event
\* overlapped the run that did.
Remembered ==
    \A e \in Events : e \in taken \/
        /\ WroteFor(e) # {} => HasBeenProposed(e)
        /\ \A q \in Underway : proposal[q].source = e =>
              \A p \in WroteFor(e) \ {q} : {p, q} \in overlapped

\* A run has at most one name, and none before its synthesis.
Named ==
    \A p \in Proposals :
        /\ proposal[p].at \in {"unborn", "synthesizing"} => proposal[p].names = {}
        /\ \A n, m \in proposal[p].names : n = m

\* A version in a directory was written by a run of that name.
InPlace == \A n \in Skills : candidate[n] \in Proposals => proposal[candidate[n]].names = {n}

\* A run whose version is still in the directory has tested that version.
ReadOwn ==
    \A p \in Proposals : proposal[p].at = "tested" =>
        \A n \in proposal[p].names : candidate[n] = p => proposal[p].read = p

\* A run whose version is no longer in the directory overlapped the run that wrote there.
Overwritten ==
    \A p \in Underway : \A n \in proposal[p].names :
        candidate[n] \in Proposals \ {p} => {candidate[n], p} \in overlapped

\* The reasons for which a version may be installed.
Excused(p, n) ==
    p \in green \/ n \in cut \/ \E q \in Proposals : {p, q} \in overlapped

\* A candidate that may be promoted passed, or waits for its verdict, or is excused.
Vouched ==
    \A n \in Skills : record[n].status = "sandboxed_pass" /\ candidate[n] \in Proposals =>
        proposal[candidate[n]].at # "over" \/ Excused(candidate[n], n)

LabInv ==
    /\ RunsOverlap /\ Remembered /\ EventProposedOnce
    /\ Named /\ CandidateIsJudged
    /\ InPlace /\ ReadOwn /\ Overwritten /\ Vouched /\ InstalledWasTested

-----------------------------------------------------------------------------
(* Steps *)

\* What a run becomes where it is ended.
LEMMA PipelineEnds ==
    ASSUME LabTypeOK, NEW ps \in SUBSET Underway, EndsEarly(ps)
    PROVE  /\ \A p \in Proposals : /\ proposal'[p].names = proposal[p].names
                                  /\ proposal'[p].source = proposal[p].source
                                  /\ proposal'[p].read = proposal[p].read
           /\ \A p \in ps : proposal'[p].at = "over" /\ proposal[p].names \subseteq cut'
           /\ \A p \in Proposals \ ps : proposal'[p] = proposal[p]
           /\ Underway' = Underway \ ps /\ cut \subseteq cut'
<1>1. \A p \in Proposals : proposal'[p] = IF p \in ps THEN [proposal[p] EXCEPT !.at = "over"]
                                          ELSE proposal[p]
  BY DEF EndsEarly
<1>2. /\ \A p \in Proposals : /\ proposal'[p].names = proposal[p].names
                             /\ proposal'[p].source = proposal[p].source
                             /\ proposal'[p].read = proposal[p].read
      /\ \A p \in ps : proposal'[p].at = "over"
      /\ \A p \in Proposals \ ps : proposal'[p] = proposal[p]
  BY <1>1 DEF LabTypeOK, Proposal, Underway
<1>. QED BY <1>2 DEF Underway, EndsEarly

\* What the steps that neither begin a run nor write a version leave as it is.
Quiet ==
    /\ \A p \in Proposals : /\ proposal'[p].names = proposal[p].names
                           /\ proposal'[p].source = proposal[p].source
                           /\ \/ proposal'[p].at = proposal[p].at
                              \/ proposal'[p].at \in {"tested", "over"}
    /\ Underway' \subseteq Underway /\ overlapped' = overlapped /\ taken' = taken
    /\ \A n \in Skills : record[n].status # "none" =>
           record'[n].status # "none" /\ record'[n].source = record[n].source

LEMMA QuietKeeps ==
    ASSUME LabTypeOK, Quiet, RunsOverlap, Remembered, EventProposedOnce, Named
    PROVE  RunsOverlap' /\ Remembered' /\ EventProposedOnce' /\ Named'
<1>1. RunsOverlap'
  BY DEF Quiet, RunsOverlap
<1>2. \A e \in Events : WroteFor(e)' = WroteFor(e) /\ (HasBeenProposed(e) => HasBeenProposed(e)')
  BY DEF Quiet, WroteFor, HasBeenProposed
<1>3. \A p \in Underway' : p \in Underway /\ proposal'[p].source = proposal[p].source
  BY DEF Quiet, Underway
<1>4. Remembered'
  <2>. SUFFICES ASSUME NEW e \in Events, e \notin taken'
                PROVE  /\ WroteFor(e)' # {} => HasBeenProposed(e)'
                       /\ \A q \in Underway' : proposal'[q].source = e =>
                             \A p \in WroteFor(e)' \ {q} : {p, q} \in overlapped'
    BY DEF Remembered
  <2>. QED BY <1>2, <1>3 DEF Quiet, Remembered
<1>5. EventProposedOnce'
  BY <1>2 DEF Quiet, EventProposedOnce
<1>6. Named'
  BY DEF Quiet, Named
<1>. QED BY <1>1, <1>4, <1>5, <1>6

\* The status of a name may change, the record stays.
LEMMA SetStatusKeeps ==
    ASSUME LabTypeOK, NEW n \in Skills, NEW status \in SkillStatus, SetStatus(n, status)
    PROVE  /\ record'[n].status = status
           /\ \A m \in Skills : record'[m].source = record[m].source
           /\ \A m \in Skills \ {n} : record'[m] = record[m]
BY DEF SetStatus, LabTypeOK

\* Nor do they put a version in a directory; the excuses stay.
LeftAlone ==
    /\ \A n \in Skills : candidate'[n] \in {candidate[n], NoCode}
    /\ green \subseteq green' /\ hasty \subseteq hasty' /\ cut \subseteq cut'
    /\ \A p \in Proposals : proposal'[p].at = "tested" =>
           \/ proposal[p].at = "tested" /\ proposal'[p].read = proposal[p].read
           \/ \A n \in proposal[p].names : proposal'[p].read = candidate[n]

LEMMA CalmKeeps ==
    ASSUME LabTypeOK, Quiet, LeftAlone, InPlace, ReadOwn, Overwritten
    PROVE  InPlace' /\ ReadOwn' /\ Overwritten'
<1>1. \A n \in Skills : candidate'[n] \in Proposals => candidate'[n] = candidate[n]
  BY LabAssumption DEF LeftAlone
<1>2. \A p \in Proposals : proposal'[p].names = proposal[p].names /\ proposal[p].names \subseteq Skills
  BY DEF Quiet, LabTypeOK, Proposal
<1>3. InPlace'
  BY <1>1, <1>2 DEF InPlace
<1>4. ReadOwn'
  BY <1>1, <1>2 DEF LeftAlone, ReadOwn
<1>5. Overwritten'
  BY <1>1, <1>2 DEF Quiet, Overwritten, Underway
<1>. QED BY <1>3, <1>4, <1>5

LEMMA KeepsInstalled ==
    ASSUME LabTypeOK, Quiet, LeftAlone, InstalledWasTested,
           \A n \in Skills : installed'[n] \in {installed[n], NoCode, Foreign}
    PROVE  InstalledWasTested'
<1>1. \A n \in Skills : installed'[n] \in Proposals => installed'[n] = installed[n]
  BY LabAssumption
<1>. QED BY <1>1 DEF Quiet, LeftAlone, InstalledWasTested

\* A run that fails before it wrote anything.
LEMMA FailureKeeps ==
    ASSUME LabTypeOK, LabInv, NEW p \in Proposals, SynthesisFails(p)
    PROVE  LabInv'
<1>. USE DEF LabInv
<1>1. /\ proposal'[p].names = proposal[p].names /\ proposal'[p].source = proposal[p].source
      /\ proposal'[p].at = "over" /\ proposal[p].names = {} /\ proposal[p].at = "synthesizing"
      /\ \A q \in Proposals \ {p} : proposal'[q] = proposal[q]
      /\ UNCHANGED <<record, candidate, installed, green, hasty, overlapped, taken, cut>>
  BY DEF SynthesisFails, LabTypeOK, Proposal, Named
<1>2. Quiet /\ LeftAlone
  BY <1>1 DEF Quiet, LeftAlone, Underway
<1>3. CandidateIsJudged'
  BY <1>1 DEF CandidateIsJudged, TestsOf, Underway
<1>4. Vouched'
  <2>1. \A n \in Skills : candidate[n] # p
    BY <1>1 DEF InPlace
  <2>. QED BY <1>1, <2>1 DEF Vouched, Excused
<1>. QED BY <1>1, <1>2, <1>3, <1>4, QuietKeeps, CalmKeeps, KeepsInstalled

\* The sandbox reads what the directory holds.
LEMMA ReadingKeeps ==
    ASSUME LabTypeOK, LabInv, NEW p \in Proposals, SandboxReads(p)
    PROVE  LabInv'
<1>. USE DEF LabInv
<1>1. PICK n \in proposal[p].names :
         proposal' = [proposal EXCEPT ![p].at = "tested", ![p].read = candidate[n]]
  BY DEF SandboxReads
<1>2. /\ proposal'[p].names = proposal[p].names /\ proposal'[p].source = proposal[p].source
      /\ proposal'[p].at = "tested" /\ proposal'[p].read = candidate[n]
      /\ proposal[p].at = "testing"
      /\ \A q \in Proposals \ {p} : proposal'[q] = proposal[q]
      /\ UNCHANGED <<record, candidate, installed, green, hasty, overlapped, taken, cut>>
  BY <1>1 DEF SandboxReads, LabTypeOK, Proposal
<1>3. \A m \in proposal[p].names : m = n
  BY DEF Named
<1>4. Quiet /\ LeftAlone
  BY <1>2, <1>3 DEF Quiet, LeftAlone, Underway
<1>5. CandidateIsJudged' /\ Vouched'
  BY <1>2 DEF CandidateIsJudged, TestsOf, Underway, Vouched, Excused
<1>. QED BY <1>2, <1>4, <1>5, QuietKeeps, CalmKeeps, KeepsInstalled

\* A verdict is about the version the sandbox read, and marks whatever is there now.
LEMMA VerdictKeeps ==
    ASSUME LabTypeOK, LabInv, NEW p \in Proposals, NEW passed \in BOOLEAN, Verdict(p, passed)
    PROVE  LabInv'
<1>. USE DEF LabInv
<1>1. PICK n \in proposal[p].names : SetStatus(n, Judged(n, proposal[p].read, passed))
  BY DEF Verdict
<1>2. /\ n \in Skills /\ proposal[p].at = "tested" /\ p \in Underway
      /\ proposal[p].read \in Proposals \union {NoCode}
      /\ \A m \in proposal[p].names : m = n
  BY DEF Verdict, Underway, LabTypeOK, Proposal, Named
<1>3. /\ proposal'[p].names = proposal[p].names /\ proposal'[p].source = proposal[p].source
      /\ proposal'[p].at = "over"
      /\ \A q \in Proposals \ {p} : proposal'[q] = proposal[q]
      /\ UNCHANGED <<candidate, installed, hasty, overlapped, taken, cut>>
  BY DEF Verdict, LabTypeOK, Proposal
<1>4. /\ Judged(n, proposal[p].read, passed) \in SkillStatus
      /\ record'[n].status \in {"sandboxed_pass", "sandboxed_fail"}
      /\ \A m \in Skills : record'[m].source = record[m].source
      /\ \A m \in Skills \ {n} : record'[m] = record[m]
  <2>1. Judged(n, proposal[p].read, passed) \in {"sandboxed_pass", "sandboxed_fail"}
    BY DEF Judged
  <2>. QED BY <1>1, <1>2, <2>1, SetStatusKeeps DEF SkillStatus
<1>5. /\ green \subseteq green'
      /\ record'[n].status = "sandboxed_pass" => proposal[p].read \in green'
  <2>1. record'[n].status = Judged(n, proposal[p].read, passed)
    BY <1>1, <1>2, <1>4, SetStatusKeeps
  <2>. QED BY <2>1 DEF Verdict, Judged
<1>6. Quiet /\ LeftAlone
  BY <1>3, <1>4, <1>5 DEF Quiet, LeftAlone, Underway
<1>7. CandidateIsJudged'
  BY <1>2, <1>3, <1>4 DEF CandidateIsJudged, TestsOf, Underway
<1>8. Vouched'
  <2>. SUFFICES ASSUME NEW m \in Skills, record'[m].status = "sandboxed_pass",
                       candidate[m] \in Proposals
                PROVE  proposal'[candidate[m]].at # "over" \/ Excused(candidate[m], m)'
    <3>1. candidate' = candidate
      BY <1>3
    <3>. QED BY <3>1 DEF Vouched, Excused
  <2>1. CASE m = n /\ candidate[m] = p
    BY <1>2, <1>3, <1>5, <2>1 DEF ReadOwn, Excused
  <2>2. CASE m = n /\ candidate[m] # p
    BY <1>2, <1>3, <2>2 DEF Overwritten, Excused
  <2>3. CASE m # n
    <3>1. candidate[m] # p
      BY <1>2, <2>3 DEF InPlace
    <3>. QED BY <1>3, <1>4, <1>5, <2>3, <3>1 DEF Vouched, Excused
  <2>. QED BY <2>1, <2>2, <2>3
<1>. QED BY <1>3, <1>6, <1>7, <1>8, QuietKeeps, CalmKeeps, KeepsInstalled

\* Runs that are cut leave their names among the excuses.
LEMMA EndingKeeps ==
    ASSUME LabTypeOK, LabInv, NEW ps \in SUBSET Underway, EndsEarly(ps),
           record' = record \/ \E n \in Skills : SetStatus(n, "active"),
           \A n \in Skills : candidate'[n] \in {candidate[n], NoCode},
           \A n \in Skills : record'[n].status = "sandboxed_pass" => record[n].status = "sandboxed_pass",
           hasty \subseteq hasty', UNCHANGED <<green, overlapped, taken>>
    PROVE  Quiet /\ LeftAlone /\ CandidateIsJudged' /\ Vouched'
<1>. USE DEF LabInv
<1>1. /\ \A n \in Skills : record[n].status # "none" =>
            record'[n].status # "none" /\ record'[n].source = record[n].source
      /\ \A n \in Skills : record'[n].status = "candidate" => record[n].status = "candidate"
  BY SetStatusKeeps DEF SkillStatus
<1>2. Quiet /\ LeftAlone
  <2>1. \A p \in Proposals : proposal'[p].at = proposal[p].at \/ proposal'[p].at = "over"
    BY PipelineEnds
  <2>2. \A p \in Proposals : proposal'[p].names = proposal[p].names
                          /\ proposal'[p].source = proposal[p].source
                          /\ proposal'[p].read = proposal[p].read
    BY PipelineEnds
  <2>3. Underway' \subseteq Underway /\ cut \subseteq cut'
    BY PipelineEnds
  <2>. QED BY <1>1, <2>1, <2>2, <2>3 DEF Quiet, LeftAlone
<1>3. CandidateIsJudged'
  <2>. SUFFICES ASSUME NEW n \in Skills, record[n].status = "candidate", n \notin cut'
                PROVE  TestsOf(n)' # {}
    BY <1>1 DEF CandidateIsJudged
  <2>1. PICK p \in Underway : n \in proposal[p].names
    BY PipelineEnds DEF CandidateIsJudged, TestsOf
  <2>2. p \notin ps /\ p \in Proposals
    BY <2>1, PipelineEnds DEF Underway
  <2>. QED BY <2>1, <2>2, PipelineEnds DEF TestsOf
<1>4. Vouched'
  <2>. SUFFICES ASSUME NEW n \in Skills, NEW p \in Proposals,
                       record[n].status = "sandboxed_pass", candidate[n] = p
                PROVE  proposal'[p].at # "over" \/ Excused(p, n)'
    <3>1. \A n \in Skills : candidate'[n] \in Proposals => candidate'[n] = candidate[n]
      BY LabAssumption
    <3>. QED BY <3>1 DEF Vouched, Excused
  <2>1. CASE p \in ps
    BY <2>1, PipelineEnds DEF InPlace, Excused
  <2>2. CASE p \notin ps
    <3>1. proposal[p].at # "over" \/ Excused(p, n)
      BY DEF Vouched
    <3>2. proposal'[p] = proposal[p] /\ cut \subseteq cut'
      BY <2>2, PipelineEnds
    <3>. QED BY <3>1, <3>2 DEF Excused
  <2>. QED BY <2>1, <2>2
<1>. QED BY <1>2, <1>3, <1>4

LEMMA CutKeeps ==
    ASSUME LabTypeOK, LabInv, NEW ps \in SUBSET Underway, Cut(ps)
    PROVE  LabInv'
BY EndingKeeps, QuietKeeps, CalmKeeps, KeepsInstalled DEF Cut, LabInv

\* A promotion moves the version whose name has passed.
LEMMA PromoteKeeps ==
    ASSUME LabTypeOK, LabInv, NEW n \in Skills, NEW marked \in BOOLEAN, Promote(n, marked)
    PROVE  LabInv'
<1>. USE DEF LabInv
<1>1. /\ record[n].status = "sandboxed_pass" /\ installed'[n] = candidate[n]
      /\ \A m \in Skills \ {n} : installed'[m] = installed[m]
      /\ candidate'[n] = NoCode /\ \A m \in Skills \ {n} : candidate'[m] = candidate[m]
      /\ hasty' = hasty \union {p \in Proposals \cap {candidate[n]} : proposal[p].at # "over"}
      /\ UNCHANGED <<green, overlapped, taken>>
  BY DEF Promote, Promotable, LabTypeOK
<1>2. Quiet /\ LeftAlone /\ CandidateIsJudged' /\ Vouched'
  <2>1. CASE marked
    <3>1. SetStatus(n, "active") /\ UNCHANGED <<proposal, cut>>
      BY <2>1 DEF Promote
    <3>2. /\ record'[n].status = "active"
          /\ \A m \in Skills : record'[m].source = record[m].source
          /\ \A m \in Skills \ {n} : record'[m] = record[m]
      BY <3>1, SetStatusKeeps DEF SkillStatus
    <3>3. Quiet /\ LeftAlone
      BY <1>1, <3>1, <3>2 DEF Quiet, LeftAlone, Underway
    <3>4. CandidateIsJudged'
      BY <3>1, <3>2 DEF CandidateIsJudged, TestsOf, Underway
    <3>5. Vouched'
      <4>. SUFFICES ASSUME NEW m \in Skills \ {n}, NEW p \in Proposals,
                           record[m].status = "sandboxed_pass", candidate[m] = p
                    PROVE  proposal[p].at # "over" \/ Excused(p, m)
        BY <1>1, <3>1, <3>2 DEF Vouched, Excused
      <4>. QED BY DEF Vouched
    <3>. QED BY <3>3, <3>4, <3>5
  <2>2. CASE ~marked
    <3>1. record' = record /\ EndsEarly(Underway)
      BY <2>2 DEF Promote
    <3>. QED BY <1>1, <3>1, EndingKeeps
  <2>. QED BY <2>1, <2>2
<1>3. InstalledWasTested'
  <2>. SUFFICES ASSUME NEW m \in Skills, NEW p \in Proposals, installed'[m] = p
                PROVE  p \in hasty' \/ Excused(p, m)'
    BY DEF InstalledWasTested, Excused
  <2>1. green \subseteq green' /\ hasty \subseteq hasty' /\ cut \subseteq cut' /\ overlapped' = overlapped
    BY <1>2 DEF Quiet, LeftAlone
  <2>2. CASE m = n
    <3>1. proposal[p].at # "over" \/ Excused(p, m)
      BY <1>1, <2>2 DEF Vouched
    <3>. QED BY <1>1, <2>1, <2>2, <3>1 DEF Excused
  <2>3. CASE m # n
    BY <1>1, <2>1, <2>3 DEF InstalledWasTested, Excused
  <2>. QED BY <2>2, <2>3
<1>. QED BY <1>2, <1>3, QuietKeeps, CalmKeeps

\* A rejection marks the record, if there is one.
LEMMA RejectKeeps ==
    ASSUME LabTypeOK, LabInv, NEW n \in Skills, NEW deleteFiles \in BOOLEAN, LabReject(n, deleteFiles)
    PROVE  LabInv'
<1>. USE DEF LabInv
<1>1. /\ \A m \in Skills : candidate'[m] \in {candidate[m], NoCode}
      /\ UNCHANGED <<installed, proposal, green, hasty, overlapped, taken, cut>>
  BY DEF LabReject, LabTypeOK
<1>2. /\ \A m \in Skills : record'[m].source = record[m].source
      /\ \A m \in Skills : record'[m].status \in {record[m].status, "rejected"}
  BY SetStatusKeeps DEF LabReject, SkillStatus
<1>3. Quiet /\ LeftAlone
  BY <1>1, <1>2 DEF Quiet, LeftAlone, Underway
<1>4. CandidateIsJudged'
  BY <1>1, <1>2 DEF CandidateIsJudged, TestsOf, Underway
<1>5. Vouched'
  <2>. SUFFICES ASSUME NEW m \in Skills, NEW p \in Proposals,
                       record[m].status = "sandboxed_pass", candidate[m] = p
                PROVE  proposal[p].at # "over" \/ Excused(p, m)
    <3>1. \A m \in Skills : candidate'[m] \in Proposals => candidate'[m] = candidate[m]
      BY <1>1, LabAssumption
    <3>. QED BY <1>1, <1>2, <3>1 DEF Vouched, Excused
  <2>. QED BY DEF Vouched
<1>. QED BY <1>1, <1>3, <1>4, <1>5, QuietKeeps, CalmKeeps, KeepsInstalled

\* What others install or remove is not the Lab's.
LEMMA OthersKeep ==
    ASSUME LabTypeOK, LabInv, NEW n \in Skills, InstallsForeign(n) \/ RemovesInstalled(n)
    PROVE  LabInv'
<1>. USE DEF LabInv
<1>1. /\ \A m \in Skills : installed'[m] \in {installed[m], NoCode, Foreign}
      /\ UNCHANGED <<record, candidate, proposal, green, hasty, overlapped, taken, cut>>
  BY DEF InstallsForeign, RemovesInstalled, LabTypeOK
<1>2. Quiet /\ LeftAlone
  BY <1>1 DEF Quiet, LeftAlone, Underway
<1>3. CandidateIsJudged' /\ Vouched'
  BY <1>1 DEF CandidateIsJudged, TestsOf, Underway, Vouched, Excused
<1>. QED BY <1>1, <1>2, <1>3, QuietKeeps, CalmKeeps, KeepsInstalled

\* A run begins: the scan takes no event that has a record.
LEMMA BeginKeeps ==
    ASSUME LabTypeOK, LabInv, NEW p \in Proposals, NEW source \in Source, ProposalBegins(p, source)
    PROVE  LabInv'
<1>. USE DEF LabInv
<1>1. /\ proposal[p].at = "unborn" /\ proposal[p].names = {}
      /\ source # NoEvent => ~HasBeenProposed(source)
      /\ overlapped' = overlapped \union {{p, q} : q \in Underway}
      /\ UNCHANGED <<record, candidate, installed, green, hasty, taken, cut>>
  BY DEF ProposalBegins, Named
<1>2. /\ proposal'[p].at = "synthesizing" /\ proposal'[p].source = source
      /\ proposal'[p].names = {}
      /\ \A q \in Proposals \ {p} : proposal'[q] = proposal[q]
  <2>. DEFINE new == [NewProposal EXCEPT !.at = "synthesizing", !.source = source]
  <2>1. new.at = "synthesizing" /\ new.source = source /\ new.names = {}
    BY DEF NewProposal
  <2>2. proposal' = [proposal EXCEPT ![p] = new]
    BY DEF ProposalBegins
  <2>. HIDE DEF new
  <2>. QED BY <2>1, <2>2 DEF LabTypeOK
<1>3. Underway' = Underway \union {p} /\ p \notin Underway
  BY <1>1, <1>2 DEF Underway
<1>4. \A q \in Underway : {q, p} \in overlapped' /\ {p, q} \in overlapped'
  <2>1. \A q \in Underway : {p, q} = {q, p}
    OBVIOUS
  <2>. QED BY <1>1, <2>1
<1>5. overlapped \subseteq overlapped'
  BY <1>1
<1>6. RunsOverlap'
  BY <1>3, <1>4, <1>5 DEF RunsOverlap
<1>7. \A e \in Events : WroteFor(e)' = WroteFor(e) /\ (HasBeenProposed(e)' <=> HasBeenProposed(e))
  BY <1>1, <1>2 DEF WroteFor, HasBeenProposed
<1>8. Remembered'
  <2>. SUFFICES ASSUME NEW e \in Events, e \notin taken'
                PROVE  /\ WroteFor(e)' # {} => HasBeenProposed(e)'
                       /\ \A q \in Underway' : proposal'[q].source = e =>
                             \A r \in WroteFor(e)' \ {q} : {r, q} \in overlapped'
    BY DEF Remembered
  <2>1. /\ WroteFor(e) # {} => HasBeenProposed(e)
        /\ \A q \in Underway : proposal[q].source = e =>
              \A r \in WroteFor(e) \ {q} : {r, q} \in overlapped
    BY <1>1 DEF Remembered
  <2>2. source = e => WroteFor(e) = {}
    BY <1>1, <2>1, LabAssumption
  <2>3. \A q \in Underway : proposal'[q].source = proposal[q].source
    BY <1>2, <1>3 DEF Underway
  <2>. QED BY <1>2, <1>3, <1>5, <1>7, <2>1, <2>2, <2>3
<1>9. EventProposedOnce'
  BY <1>1, <1>5, <1>7 DEF EventProposedOnce
<1>10. Named'
  BY <1>2 DEF Named
<1>11. CandidateIsJudged'
  <2>1. \A n \in Skills : TestsOf(n) \subseteq TestsOf(n)'
    BY <1>2, <1>3 DEF TestsOf, Underway
  <2>. QED BY <1>1, <2>1 DEF CandidateIsJudged
<1>12. \A n \in Skills : candidate[n] # p
  BY <1>1 DEF InPlace
<1>13. InPlace' /\ ReadOwn' /\ Overwritten'
  BY <1>1, <1>2, <1>3, <1>5, <1>12 DEF InPlace, ReadOwn, Overwritten, Underway
<1>14. Vouched' /\ InstalledWasTested'
  <2>1. \A r \in Proposals, n \in Skills : Excused(r, n) => Excused(r, n)'
    BY <1>1, <1>5 DEF Excused
  <2>2. Vouched'
    <3>. SUFFICES ASSUME NEW n \in Skills, NEW r \in Proposals,
                         record[n].status = "sandboxed_pass", candidate[n] = r
                  PROVE  proposal'[r].at # "over" \/ Excused(r, n)'
      BY <1>1 DEF Vouched, Excused
    <3>. QED BY <1>2, <1>12, <2>1 DEF Vouched
  <2>3. InstalledWasTested'
    BY <1>1, <1>5 DEF InstalledWasTested
  <2>. QED BY <2>2, <2>3
<1>. QED BY <1>6, <1>8, <1>9, <1>10, <1>11, <1>13, <1>14

\* A run writes its version under a name: the record is new, or the name was taken.
LEMMA SynthesisKeeps ==
    ASSUME LabTypeOK, LabInv, NEW p \in Proposals, NEW n \in Skills, Synthesizes(p, n)
    PROVE  LabInv'
<1>. USE DEF LabInv
<1>1. /\ proposal[p].at = "synthesizing" /\ proposal[p].names = {}
      /\ candidate'[n] = p /\ \A m \in Skills \ {n} : candidate'[m] = candidate[m]
      /\ UNCHANGED <<installed, green, hasty, overlapped, cut>>
  BY DEF Synthesizes, Named, LabTypeOK
<1>2. /\ proposal'[p].at = "testing" /\ proposal'[p].names = {n}
      /\ proposal'[p].source = proposal[p].source
      /\ \A q \in Proposals \ {p} : proposal'[q] = proposal[q]
  BY DEF Synthesizes, LabTypeOK, Proposal
<1>3. /\ \A m \in Skills \ {n} : record'[m] = record[m]
      /\ \/ /\ record[n].status = "none" /\ taken' = taken
            /\ record'[n].status = "candidate" /\ record'[n].source = proposal[p].source
         \/ record' = record /\ taken' = taken \union {proposal[p].source}
  BY DEF Synthesizes, LabTypeOK
<1>4. Underway' = Underway /\ p \in Underway
  BY <1>1, <1>2 DEF Underway
<1>5. RunsOverlap' /\ Named'
  BY <1>1, <1>2, <1>4 DEF RunsOverlap, Named
<1>6. \A e \in Events : /\ HasBeenProposed(e) => HasBeenProposed(e)'
                        /\ e # proposal[p].source => WroteFor(e)' = WroteFor(e)
                        /\ e = proposal[p].source => WroteFor(e)' = WroteFor(e) \union {p}
  BY <1>1, <1>2, <1>3 DEF HasBeenProposed, WroteFor
<1>7. ASSUME NEW e \in Events, e = proposal[p].source, e \notin taken' PROVE HasBeenProposed(e)'
  BY <1>3, <1>7 DEF HasBeenProposed
<1>8. taken \subseteq taken'
  BY <1>3
<1>9. \A q \in Underway : proposal'[q].source = proposal[q].source /\ q \in Proposals
  BY <1>2 DEF Underway
<1>10. Remembered'
  <2>. SUFFICES ASSUME NEW e \in Events, e \notin taken'
                PROVE  /\ WroteFor(e)' # {} => HasBeenProposed(e)'
                       /\ \A q \in Underway' : proposal'[q].source = e =>
                             \A r \in WroteFor(e)' \ {q} : {r, q} \in overlapped'
    BY DEF Remembered
  <2>1. /\ WroteFor(e) # {} => HasBeenProposed(e)
        /\ \A q \in Underway : proposal[q].source = e =>
              \A r \in WroteFor(e) \ {q} : {r, q} \in overlapped
    BY <1>8 DEF Remembered
  <2>2. \A q \in Underway \ {p} : {p, q} \in overlapped
    BY <1>4 DEF RunsOverlap
  <2>. QED BY <1>1, <1>4, <1>6, <1>7, <1>9, <2>1, <2>2
<1>11. EventProposedOnce'
  <2>. SUFFICES ASSUME NEW e \in Events, NEW q \in WroteFor(e)', NEW r \in WroteFor(e)',
                       q # r, e \notin taken'
                PROVE  {q, r} \in overlapped
    BY <1>1 DEF EventProposedOnce
  <2>1. CASE q \in WroteFor(e) /\ r \in WroteFor(e)
    BY <1>8, <2>1 DEF EventProposedOnce
  <2>2. ASSUME NEW x \in WroteFor(e), x # p, e = proposal[p].source
        PROVE  {x, p} \in overlapped /\ {p, x} \in overlapped
    <3>1. {x, p} \in overlapped
      BY <1>4, <1>8, <2>2 DEF Remembered
    <3>2. {p, x} = {x, p}
      OBVIOUS
    <3>. QED BY <3>1, <3>2
  <2>. QED BY <1>6, <2>1, <2>2
<1>12. CandidateIsJudged'
  <2>1. \A m \in Skills : TestsOf(m) \subseteq TestsOf(m)'
    BY <1>1, <1>2, <1>4 DEF TestsOf, Underway
  <2>2. p \in TestsOf(n)'
    BY <1>2, <1>4 DEF TestsOf
  <2>. QED BY <1>1, <1>3, <2>1, <2>2 DEF CandidateIsJudged
<1>13. \A m \in Skills : candidate[m] # p
  BY <1>1 DEF InPlace
<1>14. InPlace' /\ ReadOwn'
  <2>1. InPlace'
    BY <1>1, <1>2, <1>13 DEF InPlace
  <2>2. \A q \in Proposals : proposal[q].names \subseteq Skills
    BY DEF LabTypeOK, Proposal
  <2>3. ReadOwn'
    BY <1>1, <1>2, <2>2 DEF ReadOwn
  <2>. QED BY <2>1, <2>3
<1>15. Overwritten'
  <2>. SUFFICES ASSUME NEW q \in Underway, NEW m \in proposal'[q].names,
                       candidate'[m] \in Proposals \ {q}
                PROVE  {candidate'[m], q} \in overlapped
    BY <1>1, <1>4 DEF Overwritten
  <2>1. m \in Skills /\ q \in Proposals
    BY <1>2, <1>9 DEF LabTypeOK, Proposal
  <2>2. CASE q = p
    BY <1>1, <1>2, <2>2
  <2>3. CASE q # p /\ m = n
    BY <1>1, <1>4, <2>3 DEF RunsOverlap
  <2>4. CASE q # p /\ m # n
    BY <1>1, <1>2, <2>1, <2>4 DEF Overwritten
  <2>. QED BY <2>2, <2>3, <2>4
<1>16. Vouched'
  <2>. SUFFICES ASSUME NEW m \in Skills, NEW r \in Proposals,
                       record'[m].status = "sandboxed_pass", candidate'[m] = r
                PROVE  proposal'[r].at # "over" \/ Excused(r, m)
    BY <1>1 DEF Vouched, Excused
  <2>1. CASE m = n
    BY <1>1, <1>2, <2>1
  <2>2. CASE m # n
    <3>1. record'[m] = record[m] /\ candidate[m] = r /\ r # p /\ proposal'[r] = proposal[r]
      BY <1>1, <1>2, <1>3, <1>13, <2>2
    <3>. QED BY <3>1 DEF Vouched
  <2>. QED BY <2>1, <2>2
<1>17. InstalledWasTested'
  BY <1>1 DEF InstalledWasTested
<1>. QED BY <1>5, <1>10, <1>11, <1>12, <1>14, <1>15, <1>16, <1>17

-----------------------------------------------------------------------------
(* Theorems *)

LEMMA LabStep ==
    ASSUME LabTypeOK, LabInv, [LabNext]_labVars
    PROVE  LabInv'
<1>1. ASSUME NEW ps \in {Underway} \union {{p} : p \in Underway}, Cut(ps) PROVE LabInv'
  BY <1>1, CutKeeps DEF Cut
<1>2. CASE UNCHANGED labVars
  <2>1. Underway' = Underway /\ \A n : TestsOf(n)' = TestsOf(n)
    BY <1>2 DEF labVars, Underway, TestsOf
  <2>2. \A e : WroteFor(e)' = WroteFor(e) /\ (HasBeenProposed(e)' <=> HasBeenProposed(e))
    BY <1>2 DEF labVars, WroteFor, HasBeenProposed
  <2>. QED BY <1>2, <2>1, <2>2
           DEF labVars, LabInv, RunsOverlap, Remembered, EventProposedOnce, Named,
               CandidateIsJudged, InPlace, ReadOwn, Overwritten, Vouched, Excused,
               InstalledWasTested
<1>. QED BY <1>1, <1>2, BeginKeeps, SynthesisKeeps, FailureKeeps, ReadingKeeps, VerdictKeeps,
            PromoteKeeps, RejectKeeps, OthersKeep DEF LabNext

LEMMA LabHolds == LabSpec => []LabInv
<1>1. LabInit => LabInv
  <2>. SUFFICES ASSUME LabInit PROVE LabInv
    OBVIOUS
  <2>1. /\ \A p \in Proposals : proposal[p].at = "unborn" /\ proposal[p].names = {}
        /\ \A n \in Skills : /\ record[n].status \in {"none", "rejected"}
                            /\ candidate[n] \notin Proposals /\ installed[n] \notin Proposals
    BY LabAssumption DEF LabInit, NewProposal
  <2>2. Underway = {} /\ \A e \in Events : WroteFor(e) = {}
    BY <2>1 DEF Underway, WroteFor
  <2>3. RunsOverlap /\ Remembered /\ EventProposedOnce /\ Overwritten
    BY <2>2 DEF RunsOverlap, Remembered, EventProposedOnce, Overwritten
  <2>4. Named /\ CandidateIsJudged /\ InPlace /\ ReadOwn /\ Vouched /\ InstalledWasTested
    BY <2>1 DEF Named, CandidateIsJudged, InPlace, ReadOwn, Vouched, InstalledWasTested
  <2>. QED BY <2>3, <2>4 DEF LabInv
<1>. QED BY <1>1, LabStep, LabTypeCorrect, PTL DEF LabSpec

\* An event is turned into code once, but for scans that overlapped and names that were
\* taken, however many runs, names and events there are.
THEOREM EventsAreProposedOnce == LabSpec => []EventProposedOnce
<1>1. LabInv => EventProposedOnce
  BY DEF LabInv
<1>. QED BY <1>1, LabHolds, PTL

\* A candidate without a verdict is under test, but for names whose run was cut.
THEOREM CandidatesAreJudged == LabSpec => []CandidateIsJudged
<1>1. LabInv => CandidateIsJudged
  BY DEF LabInv
<1>. QED BY <1>1, LabHolds, PTL

\* What the Lab installs passed its test, but for the versions promoted before their own
\* verdict, names whose run was cut and runs that overlapped.
THEOREM InstalledPassed == LabSpec => []InstalledWasTested
<1>1. LabInv => InstalledWasTested
  BY DEF LabInv
<1>. QED BY <1>1, LabHolds, PTL

-----------------------------------------------------------------------------
(* Routines *)

(* The history *)

\* A list of runs as long as the store keeps it.
Kept == {rs \in Seq(RunState) : Len(rs) <= History}

\* A run added to a list that is kept leaves one: its runs are the old ones and the new one.
LEMMA WithIsKept ==
    ASSUME runs \in Kept, NEW run \in RunState
    PROVE  /\ With(run) \in Kept
           /\ ~AnyActive(runs) /\ ~IsActive(run) => ~AnyActive(With(run))
<1>. DEFINE rs   == Append(runs, run)
            from == IF Len(rs) > History THEN Len(rs) - History + 1 ELSE 1
<1>1. /\ runs \in Seq(RunState) /\ Len(runs) \in Nat /\ Len(runs) <= History /\ History \in Nat \ {0}
  BY RoutineAssumption DEF Kept
<1>2. /\ rs \in Seq(RunState) /\ Len(rs) = Len(runs) + 1
      /\ \A i \in 1 .. Len(runs) : rs[i] = runs[i]
      /\ rs[Len(runs) + 1] = run
  BY <1>1
<1>3. from \in Nat /\ from >= 1 /\ from <= Len(rs) /\ Len(rs) - from + 1 <= History
  BY <1>1, <1>2
<1>4. With(run) = SubSeq(rs, from, Len(rs))
  BY DEF With, LastRuns
<1>. HIDE DEF from, rs
<1>5. /\ SubSeq(rs, from, Len(rs)) \in Seq(RunState)
      /\ Len(SubSeq(rs, from, Len(rs))) = Len(rs) - from + 1
      /\ \A i \in 1 .. Len(rs) - from + 1 : SubSeq(rs, from, Len(rs))[i] = rs[from + i - 1]
  BY <1>1, <1>2, <1>3, SubSeqProperties
<1>6. With(run) \in Kept
  BY <1>3, <1>4, <1>5 DEF Kept
<1>7. ASSUME ~AnyActive(runs), ~IsActive(run) PROVE ~AnyActive(With(run))
  <2>1. \A i \in 1 .. Len(rs) : ~IsActive(rs[i])
    BY <1>1, <1>2, <1>7 DEF AnyActive
  <2>2. \A i \in 1 .. Len(rs) - from + 1 : from + i - 1 \in 1 .. Len(rs)
    BY <1>1, <1>2, <1>3
  <2>. QED BY <1>4, <1>5, <2>1, <2>2, <1>2, <1>3, <1>1 DEF AnyActive
<1>. QED BY <1>6, <1>7

-----------------------------------------------------------------------------
(* Types *)

\* The type invariant, with the lists as sequences.
RoutineTypeInv == RoutineTypeOK /\ runs \in Kept /\ disk \in Kept

LEMMA KeptTyped ==
    \A rs \in Kept : Len(rs) <= History /\ \A i \in 1 .. Len(rs) : rs[i] \in RunState
BY DEF Kept

\* What a firing may leave in the file.
LEMMA SavedType ==
    ASSUME RoutineTypeInv
    PROVE  Saved(2) \subseteq Kept /\ Saved(2) = {disk, With("pending"), With("running")}
<1>1. Saved(2) = {disk} \union {With(RunStages[i]) : i \in {1, 2}}
  BY 1 .. 2 = {1, 2} DEF Saved
<1>2. Saved(2) = {disk, With("pending"), With("running")}
  BY <1>1 DEF RunStages
<1>. QED BY <1>2, WithIsKept DEF RoutineTypeInv, RunState

LEMMA AddsType ==
    ASSUME runs \in Kept, NEW run \in RunState, Adds(run)
    PROVE  runs' \in Kept /\ buried' \in BOOLEAN
<1>1. runs' = With(run) /\ buried' \in BOOLEAN
  BY Zenon DEF Adds
<1>. QED BY <1>1, WithIsKept

LEMMA RoutineNextType ==
    ASSUME RoutineTypeInv, [RoutineNext]_routineVars
    PROVE  RoutineTypeInv'
<1>. USE DEF RoutineTypeInv
<1>1. /\ runs \in Kept /\ disk \in Kept /\ <<>> \in Kept
      /\ \A run \in RunState : With(run) \in Kept
  BY WithIsKept, RoutineAssumption DEF Kept
<1>2. /\ policy \in {"skip", "coalesce", "enqueue"} /\ buried \in BOOLEAN
      /\ bit \in BOOLEAN /\ mishap \in BOOLEAN /\ missed \in 0 .. CatchUpMax
      /\ loop \in {"catchUp", "waiting", "dead", "off"} /\ CatchUpMax \in Nat
  BY RoutineAssumption DEF RoutineTypeOK
<1>3. SUFFICES /\ runs' \in Kept /\ disk' \in Kept
               /\ policy' \in {"skip", "coalesce", "enqueue"} /\ buried' \in BOOLEAN
               /\ bit' \in BOOLEAN /\ mishap' \in BOOLEAN /\ missed' \in 0 .. CatchUpMax
               /\ loop' \in {"catchUp", "waiting", "dead", "off"}
  BY <1>3, KeptTyped DEF RoutineTypeOK
<1>4. "pending" \in RunState /\ "running" \in RunState /\ "success" \in RunState
      /\ "skipped" \in RunState /\ "other" \in RunState
  BY DEF RunState
<1>5. CASE FireRuns
  <2>1. mishap' \in BOOLEAN /\ bit' \in BOOLEAN
    BY <1>5, Zenon DEF FireRuns
  <2>2. runs' \in Kept /\ buried' \in BOOLEAN
    BY <1>1, <1>4, <1>5, AddsType DEF FireRuns, Outcome
  <2>3. disk' \in Kept
    BY <1>1, <1>4, <1>5, SavedType DEF FireRuns, Outcome
  <2>. QED BY <1>2, <1>5, <2>1, <2>2, <2>3 DEF FireRuns, Proceeds
<1>6. CASE FireYields
  <2>1. mishap' \in BOOLEAN
    BY <1>2, <1>6, Zenon DEF FireYields
  <2>2. runs' \in Kept /\ buried' \in BOOLEAN
    BY <1>1, <1>2, <1>4, <1>6, AddsType DEF FireYields
  <2>3. disk' \in Kept
    BY <1>1, <1>4, <1>6 DEF FireYields
  <2>. QED BY <1>2, <1>6, <2>1, <2>2, <2>3 DEF FireYields, Proceeds
<1>7. CASE FireRaises
  BY <1>1, <1>2, <1>4, <1>7, SavedType, AddsType DEF FireRaises
<1>8. CASE FireDies
  <2>1. disk' \in Kept
    BY <1>8, SavedType DEF FireDies
  <2>2. /\ UNCHANGED <<policy, bit>> /\ loop' = "off" /\ runs' = <<>> /\ missed' = 0
        /\ buried' \in BOOLEAN /\ mishap' \in BOOLEAN
    BY <1>8, Zenon DEF FireDies
  <2>. QED BY <1>1, <1>2, <2>1, <2>2
<1>9. CASE OtherFires
  BY <1>1, <1>2, <1>4, <1>9, AddsType DEF OtherFires
<1>10. CASE ProcessStarts
  <2>1. missed' \in 0 .. CatchUpMax
    BY <1>2, <1>10 DEF ProcessStarts
  <2>2. loop' \in {"catchUp", "waiting"}
    BY <1>10 DEF ProcessStarts
  <2>3. UNCHANGED <<policy, disk, bit, mishap>> /\ runs' = disk /\ buried' = FALSE
    BY <1>10 DEF ProcessStarts
  <2>. QED BY <1>1, <1>2, <2>1, <2>2, <2>3
<1>11. CASE ProcessStops \/ FileTorn
  <2>1. /\ UNCHANGED <<policy, bit, mishap>> /\ loop' \in {"off", loop}
        /\ runs' \in {runs, <<>>} /\ disk' \in {disk, <<>>}
        /\ buried' \in BOOLEAN /\ missed' \in {missed, 0}
    BY <1>2, <1>11, Zenon DEF ProcessStops, FileTorn
  <2>. QED BY <1>1, <1>2, <2>1
<1>12. CASE UNCHANGED routineVars
  <2>1. UNCHANGED <<policy, loop, runs, buried, disk, missed, bit, mishap>>
    BY <1>12 DEF routineVars
  <2>. QED BY <1>1, <1>2, <2>1
<1>. QED BY <1>5, <1>6, <1>7, <1>8, <1>9, <1>10, <1>11, <1>12 DEF RoutineNext

LEMMA RoutineTyped == RoutineSpec => []RoutineTypeInv
<1>1. RoutineInit => RoutineTypeInv
  <2>1. <<>> \in Kept /\ Len(<<>>) <= History /\ \A i \in 1 .. Len(<<>>) : <<>>[i] \in RunState
    BY RoutineAssumption DEF Kept
  <2>2. FALSE \in BOOLEAN /\ 0 \in 0 .. CatchUpMax
    BY RoutineAssumption
  <2>. QED BY <2>1, <2>2 DEF RoutineInit, RoutineTypeInv, RoutineTypeOK
<1>. QED BY <1>1, RoutineNextType, PTL DEF RoutineSpec

\* The routine, its runs and its file keep their types; memory and file never hold more
\* than the history, whatever its length.
THEOREM RoutineTypeCorrect == RoutineSpec => []RoutineTypeOK
<1>1. RoutineTypeInv => RoutineTypeOK
  BY DEF RoutineTypeInv
<1>. QED BY <1>1, RoutineTyped, PTL

-----------------------------------------------------------------------------
(* Active runs *)

\* Without a mishap a firing leaves the last of its runs, which is over.
LEMMA NoActiveStep ==
    ASSUME RoutineTypeInv, NoRunLeftActive, [RoutineNext]_routineVars
    PROVE  NoRunLeftActive'
<1>. SUFFICES ASSUME ~mishap'
              PROVE  ~buried' /\ ~AnyActive(runs') /\ ~AnyActive(disk')
  BY DEF NoRunLeftActive, ActiveRun
<1>1. mishap => mishap'
  BY DEF RoutineNext, FireRuns, FireYields, FireRaises, FireDies, OtherFires, ProcessStops,
         ProcessStarts, FileTorn, routineVars
<1>2. ~mishap /\ ~buried /\ ~AnyActive(runs) /\ ~AnyActive(disk) /\ runs \in Kept
  BY <1>1 DEF NoRunLeftActive, ActiveRun, RoutineTypeInv
<1>3. /\ ~AnyActive(With("success")) /\ ~AnyActive(With("other")) /\ ~AnyActive(<<>>)
  BY <1>2, WithIsKept DEF RoutineTypeInv, RunState, IsActive, AnyActive
<1>4. Len(runs) = History => ~IsActive(runs[1])
  BY <1>2, RoutineAssumption DEF AnyActive, Kept
<1>5. CASE FireRuns
  <2>1. disk' \in {disk, With("success")}
    BY <1>5, SavedType DEF FireRuns, Outcome
  <2>. QED BY <1>2, <1>3, <1>4, <1>5, <2>1 DEF FireRuns, Adds, Outcome
<1>6. CASE FireYields
  BY <1>2, <1>6 DEF FireYields, StartsRun, ActiveRun
<1>7. CASE FireRaises \/ FireDies
  BY <1>7 DEF FireRaises, FireDies
<1>8. CASE OtherFires
  BY <1>2, <1>3, <1>4, <1>8 DEF OtherFires, Adds
<1>9. CASE ProcessStops \/ ProcessStarts \/ FileTorn
  BY <1>2, <1>3, <1>9 DEF ProcessStops, ProcessStarts, FileTorn
<1>10. CASE UNCHANGED routineVars
  BY <1>2, <1>10 DEF routineVars
<1>. QED BY <1>5, <1>6, <1>7, <1>8, <1>9, <1>10 DEF RoutineNext

\* Between firings no run of the routine is active, unless there was a mishap, whatever
\* the length of the history and the number of runs to catch up with.
THEOREM RoutinesAreLeftIdle == RoutineSpec => []NoRunLeftActive
<1>1. RoutineInit => NoRunLeftActive
  BY DEF RoutineInit, NoRunLeftActive, ActiveRun, AnyActive
<1>. QED BY <1>1, NoActiveStep, RoutineTyped, PTL DEF RoutineSpec

-----------------------------------------------------------------------------
(* Sums over finite sets *)

LEMMA LeastNumber ==
    ASSUME NEW ns, ns \subseteq Nat, ns # {}
    PROVE  \E x \in ns : \A y \in ns : x <= y
<1>1. PICK x \in ns : \A y \in ns : <<y, x>> \notin OpToRel(<, Nat)
  BY NatLessThanWellFounded, WFMin, Zenon
<1>2. \A y \in ns : ~(y < x)
  BY <1>1, Zenon DEF OpToRel
<1>. QED BY <1>2

\* Among subsets of a finite set there is one that contains no other: what takes the place
\* of an induction over finite sets.
LEMMA MinimalSubset ==
    ASSUME NEW S, IsFiniteSet(S), NEW sets \in SUBSET (SUBSET S), sets # {}
    PROVE  \E T \in sets : \A U \in sets : U \subseteq T => U = T
<1>1. \A T \in sets : IsFiniteSet(T) /\ Cardinality(T) \in Nat
  BY FS_Subset, FS_CardinalityType
<1>. DEFINE sizes == {Cardinality(T) : T \in sets}
<1>2. sizes \subseteq Nat /\ sizes # {}
  BY <1>1
<1>3. PICK n \in sizes : \A m \in sizes : n <= m
  BY <1>2, LeastNumber
<1>4. PICK T \in sets : Cardinality(T) = n
  BY <1>3
<1>5. ASSUME NEW U \in sets, U \subseteq T PROVE U = T
  <2>1. Cardinality(U) <= Cardinality(T) /\ (Cardinality(T) = Cardinality(U) => T = U)
    BY <1>1, <1>5, FS_Subset
  <2>2. Cardinality(T) <= Cardinality(U)
    BY <1>3, <1>4
  <2>. QED BY <1>1, <2>1, <2>2
<1>. QED BY <1>5

\* The element that the fold takes out first.
First(s) == CHOOSE i \in s : TRUE

\* What the fold computes from the sums g of the smaller sets.
SumStep(g, f, s) == IF s = {} THEN 0 ELSE f[First(s)] + g[s \ {First(s)}]

IsSums(g, f, sets) == g = [s \in sets |-> SumStep(g, f, s)]

UpTo(ids, n) == {s \in SUBSET ids : Cardinality(s) <= n}

LEMMA FirstIsIn == \A s : s # {} => First(s) \in s
BY DEF First

LEMMA RestIsSmaller ==
    ASSUME NEW ids, IsFiniteSet(ids), NEW n \in Nat, NEW s \in UpTo(ids, n + 1), s # {}
    PROVE  s \ {First(s)} \in UpTo(ids, n)
<1>1. IsFiniteSet(s) /\ Cardinality(s) \in Nat /\ Cardinality(s) <= n + 1
  BY FS_Subset, FS_CardinalityType DEF UpTo
<1>2. Cardinality(s \ {First(s)}) = Cardinality(s) - 1
  BY <1>1, FirstIsIn, FS_RemoveElement
<1>. QED BY <1>1, <1>2 DEF UpTo

\* The sums of all subsets exist.
LEMMA SumsExist ==
    ASSUME NEW ids, IsFiniteSet(ids), NEW f
    PROVE  \E g : IsSums(g, f, SUBSET ids)
<1>. DEFINE P(n) == \E g : IsSums(g, f, UpTo(ids, n))
<1>1. P(0)
  <2>. DEFINE g == [s \in UpTo(ids, 0) |-> 0]
  <2>1. \A s \in UpTo(ids, 0) : s = {}
    <3>. SUFFICES ASSUME NEW s \in UpTo(ids, 0) PROVE s = {} OBVIOUS
    <3>1. IsFiniteSet(s) /\ Cardinality(s) \in Nat /\ Cardinality(s) <= 0
      BY FS_Subset, FS_CardinalityType DEF UpTo
    <3>. QED BY <3>1, FS_EmptySet
  <2>2. IsSums(g, f, UpTo(ids, 0))
    BY <2>1 DEF IsSums, SumStep
  <2>. QED BY <2>2
<1>2. ASSUME NEW n \in Nat, P(n) PROVE P(n + 1)
  <2>1. PICK h : IsSums(h, f, UpTo(ids, n))
    BY <1>2
  <2>. DEFINE g == [s \in UpTo(ids, n + 1) |-> SumStep(h, f, s)]
  <2>2. \A s \in UpTo(ids, n) : s \in UpTo(ids, n + 1) /\ g[s] = h[s]
    <3>. SUFFICES ASSUME NEW s \in UpTo(ids, n) PROVE s \in UpTo(ids, n + 1) /\ g[s] = h[s] OBVIOUS
    <3>1. Cardinality(s) \in Nat /\ Cardinality(s) <= n
      BY FS_Subset, FS_CardinalityType DEF UpTo
    <3>2. s \in UpTo(ids, n + 1)
      BY <3>1 DEF UpTo
    <3>. QED BY <2>1, <3>2 DEF IsSums
  <2>3. \A s \in UpTo(ids, n + 1) : SumStep(h, f, s) = SumStep(g, f, s)
    BY <2>2, RestIsSmaller DEF SumStep
  <2>4. IsSums(g, f, UpTo(ids, n + 1))
    BY <2>3 DEF IsSums
  <2>. QED BY <2>4
<1>. HIDE DEF P
<1>3. \A n \in Nat : P(n)
  <2>. DEFINE bad == {n \in Nat : ~P(n)}
  <2>. SUFFICES ASSUME bad # {} PROVE FALSE OBVIOUS
  <2>1. PICK n \in bad : \A m \in bad : n <= m
    BY LeastNumber
  <2>2. n # 0 /\ n - 1 \in Nat /\ n - 1 \notin bad
    BY <1>1, <2>1
  <2>3. P((n - 1) + 1)
    BY <1>2, <2>2
  <2>. QED BY <2>2, <2>3
<1>4. Cardinality(ids) \in Nat /\ UpTo(ids, Cardinality(ids)) = SUBSET ids
  BY FS_CardinalityType, FS_Subset DEF UpTo
<1>. QED BY <1>3, <1>4 DEF P

LEMMA FoldIsSums ==
    ASSUME NEW ids, IsFiniteSet(ids), NEW f
    PROVE  \E g : IsSums(g, f, SUBSET ids) /\ SumOver(f, ids) = g[ids]
<1>. DEFINE Sums(h) == h = [s \in SUBSET ids |->
                              IF s = {} THEN 0
                              ELSE f[CHOOSE i \in s : TRUE] + h[s \ {CHOOSE i \in s : TRUE}]]
            g == CHOOSE h : Sums(h)
<1>1. SumOver(f, ids) = g[ids]
  BY DEF SumOver, MapThenFoldSet
<1>2. \A h : Sums(h) <=> IsSums(h, f, SUBSET ids)
  BY DEF IsSums, SumStep, First
<1>. HIDE DEF Sums
<1>3. Sums(g)
  BY <1>2, SumsExist
<1>. QED BY <1>1, <1>2, <1>3

\* Two tables of sums agree.
LEMMA SumsAgree ==
    ASSUME NEW S, NEW T \in SUBSET S, IsFiniteSet(S), NEW f, NEW g, NEW h,
           IsSums(g, f, SUBSET S), IsSums(h, f, SUBSET T)
    PROVE  \A t \in SUBSET T : g[t] = h[t]
<1>. DEFINE bad == {t \in SUBSET T : g[t] # h[t]}
<1>. SUFFICES ASSUME bad # {} PROVE FALSE OBVIOUS
<1>0. bad \in SUBSET (SUBSET T)
  OBVIOUS
<1>. HIDE DEF bad
<1>1. IsFiniteSet(T)
  BY FS_Subset DEF bad
<1>2. PICK t \in bad : \A u \in bad : u \subseteq t => u = t
  BY <1>0, <1>1, MinimalSubset
<1>3. g[t] = SumStep(g, f, t) /\ h[t] = SumStep(h, f, t)
  BY DEF bad, IsSums
<1>4. t # {}
  BY <1>2, <1>3 DEF bad, SumStep
<1>5. t \ {First(t)} \in SUBSET T /\ t \ {First(t)} # t /\ t \ {First(t)} \subseteq t
  BY <1>4, FirstIsIn DEF bad
<1>6. g[t \ {First(t)}] = h[t \ {First(t)}]
  BY <1>2, <1>5 DEF bad
<1>. QED BY <1>2, <1>3, <1>4, <1>6 DEF bad, SumStep

\* The equation of the fold.
LEMMA SumEquation ==
    ASSUME NEW ids, IsFiniteSet(ids), NEW f
    PROVE  SumOver(f, ids) = IF ids = {} THEN 0
                             ELSE f[First(ids)] + SumOver(f, ids \ {First(ids)})
<1>. DEFINE rest == ids \ {First(ids)}
<1>1. rest \in SUBSET ids /\ IsFiniteSet(rest)
  BY FS_Subset
<1>2. PICK g : IsSums(g, f, SUBSET ids) /\ SumOver(f, ids) = g[ids]
  BY FoldIsSums
<1>3. PICK h : IsSums(h, f, SUBSET rest) /\ SumOver(f, rest) = h[rest]
  BY <1>1, FoldIsSums
<1>. HIDE DEF rest
<1>4. g[rest] = h[rest]
  BY <1>1, <1>2, <1>3, SumsAgree
<1>5. g[ids] = SumStep(g, f, ids)
  BY <1>2 DEF IsSums
<1>. QED BY <1>2, <1>3, <1>4, <1>5 DEF SumStep, rest

LEMMA SumOfNone == \A f : SumOver(f, {}) = 0
BY SumEquation, FS_EmptySet

\* A sum of natural numbers is one.
LEMMA SumIsNat ==
    ASSUME NEW S, IsFiniteSet(S), NEW f, \A i \in S : f[i] \in Nat
    PROVE  SumOver(f, S) \in Nat
<1>. DEFINE bad == {t \in SUBSET S : SumOver(f, t) \notin Nat}
<1>. SUFFICES ASSUME bad # {} PROVE FALSE OBVIOUS
<1>0. bad \in SUBSET (SUBSET S)
  OBVIOUS
<1>. HIDE DEF bad
<1>2. PICK t \in bad : \A u \in bad : u \subseteq t => u = t
  BY <1>0, MinimalSubset
<1>3. IsFiniteSet(t)
  BY FS_Subset DEF bad
<1>4. t # {}
  <2>1. SumOver(f, {}) \in Nat /\ SumOver(f, t) \notin Nat
    BY SumOfNone DEF bad
  <2>. QED BY <2>1, Zenon
<1>5. First(t) \in t /\ t \ {First(t)} \notin bad
  BY <1>2, <1>4, FirstIsIn DEF bad
<1>6. SumOver(f, t) = f[First(t)] + SumOver(f, t \ {First(t)})
  BY <1>3, <1>4, SumEquation DEF bad
<1>. QED BY <1>2, <1>5, <1>6 DEF bad

\* Any element may be taken out first.
LEMMA SumTakesOut ==
    ASSUME NEW S, IsFiniteSet(S), NEW f, \A i \in S : f[i] \in Nat, NEW x \in S
    PROVE  SumOver(f, S) = f[x] + SumOver(f, S \ {x})
<1>. DEFINE bad == {t \in SUBSET S : \E y \in t : SumOver(f, t) # f[y] + SumOver(f, t \ {y})}
<1>. SUFFICES ASSUME bad # {} PROVE FALSE OBVIOUS
<1>0. bad \in SUBSET (SUBSET S)
  OBVIOUS
<1>. HIDE DEF bad
<1>2. PICK t \in bad : \A u \in bad : u \subseteq t => u = t
  BY <1>0, MinimalSubset
<1>. DEFINE c == First(t)
<1>3. PICK y \in t : SumOver(f, t) # f[y] + SumOver(f, t \ {y})
  BY <1>2 DEF bad
<1>4. IsFiniteSet(t) /\ c \in t
  BY FS_Subset, FirstIsIn DEF bad
<1>5. SumOver(f, t) = f[c] + SumOver(f, t \ {c})
  BY <1>4, SumEquation DEF bad
<1>6. c # y
  BY <1>3, <1>5 DEF bad
<1>7. t \ {c} \notin bad /\ t \ {y} \notin bad /\ t \ {c} \in SUBSET S /\ t \ {y} \in SUBSET S
  BY <1>2, <1>4 DEF bad
<1>. HIDE DEF c
<1>8. /\ SumOver(f, t \ {c}) = f[y] + SumOver(f, (t \ {c}) \ {y})
      /\ SumOver(f, t \ {y}) = f[c] + SumOver(f, (t \ {y}) \ {c})
  <2>1. /\ \A z \in t \ {c} : SumOver(f, t \ {c}) = f[z] + SumOver(f, (t \ {c}) \ {z})
        /\ \A z \in t \ {y} : SumOver(f, t \ {y}) = f[z] + SumOver(f, (t \ {y}) \ {z})
    BY <1>7 DEF bad
  <2>2. y \in t \ {c} /\ c \in t \ {y}
    BY <1>4, <1>6
  <2>. QED BY <2>1, <2>2
<1>9. (t \ {c}) \ {y} = (t \ {y}) \ {c} /\ IsFiniteSet((t \ {c}) \ {y})
  BY <1>4, FS_Subset DEF bad
<1>10. SumOver(f, (t \ {c}) \ {y}) \in Nat
  <2>1. \A i \in (t \ {c}) \ {y} : f[i] \in Nat
    BY DEF bad
  <2>. QED BY <1>9, <2>1, SumIsNat, Zenon
<1>11. f[c] \in Nat /\ f[y] \in Nat
  BY <1>4 DEF bad
<1>. DEFINE rest == SumOver(f, (t \ {c}) \ {y})
<1>12. SumOver(f, t \ {c}) = f[y] + rest /\ SumOver(f, t \ {y}) = f[c] + rest
  BY <1>8, <1>9, Zenon
<1>13. rest \in Nat
  BY <1>10
<1>. HIDE DEF rest
<1>14. SumOver(f, t) = f[c] + (f[y] + rest) /\ SumOver(f, t) # f[y] + (f[c] + rest)
  BY <1>3, <1>5, <1>12, Zenon
<1>. QED BY <1>11, <1>13, <1>14

\* A sum depends on what is summed only.
LEMMA SumOfEquals ==
    ASSUME NEW S, IsFiniteSet(S), NEW f, NEW g, \A i \in S : f[i] = g[i]
    PROVE  SumOver(f, S) = SumOver(g, S)
<1>. DEFINE bad == {t \in SUBSET S : SumOver(f, t) # SumOver(g, t)}
<1>. SUFFICES ASSUME bad # {} PROVE FALSE OBVIOUS
<1>0. bad \in SUBSET (SUBSET S)
  OBVIOUS
<1>. HIDE DEF bad
<1>2. PICK t \in bad : \A u \in bad : u \subseteq t => u = t
  BY <1>0, MinimalSubset
<1>3. IsFiniteSet(t)
  BY FS_Subset DEF bad
<1>4. t # {}
  BY <1>2, <1>3, SumEquation DEF bad
<1>5. First(t) \in t /\ t \ {First(t)} \notin bad
  BY <1>2, <1>4, FirstIsIn DEF bad
<1>6. /\ SumOver(f, t) = f[First(t)] + SumOver(f, t \ {First(t)})
      /\ SumOver(g, t) = g[First(t)] + SumOver(g, t \ {First(t)})
  BY <1>3, <1>4, SumEquation DEF bad
<1>. QED BY <1>2, <1>5, <1>6 DEF bad

\* A sum is no larger than so many times the largest number in it.
LEMMA SumIsBounded ==
    ASSUME NEW S, IsFiniteSet(S), NEW m \in Nat, NEW f, \A i \in S : f[i] \in 0 .. m
    PROVE  SumOver(f, S) <= Cardinality(S) * m
<1>. DEFINE bad == {t \in SUBSET S : ~(SumOver(f, t) <= Cardinality(t) * m)}
<1>. SUFFICES ASSUME bad # {} PROVE FALSE
  OBVIOUS
<1>0. bad \in SUBSET (SUBSET S)
  OBVIOUS
<1>. HIDE DEF bad
<1>2. PICK t \in bad : \A u \in bad : u \subseteq t => u = t
  BY <1>0, MinimalSubset
<1>3. IsFiniteSet(t) /\ Cardinality(t) \in Nat
  BY FS_Subset, FS_CardinalityType DEF bad
<1>4. t # {}
  <2>1. SumOver(f, {}) <= Cardinality({}) * m
    BY SumOfNone, FS_EmptySet
  <2>2. ~(SumOver(f, t) <= Cardinality(t) * m)
    BY DEF bad
  <2>. QED BY <2>1, <2>2, Zenon
<1>5. First(t) \in t /\ t \ {First(t)} \notin bad
  BY <1>2, <1>4, FirstIsIn DEF bad
<1>6. SumOver(f, t) = f[First(t)] + SumOver(f, t \ {First(t)})
  BY <1>3, <1>4, SumEquation DEF bad
<1>7. /\ IsFiniteSet(t \ {First(t)})
      /\ Cardinality(t \ {First(t)}) = Cardinality(t) - 1
  BY <1>3, <1>5, FS_RemoveElement DEF bad
<1>8. SumOver(f, t \ {First(t)}) \in Nat /\ f[First(t)] \in 0 .. m
  BY <1>5, <1>7, SumIsNat DEF bad
<1>9. SumOver(f, t \ {First(t)}) <= (Cardinality(t) - 1) * m
  BY <1>5, <1>7 DEF bad
<1>10. (Cardinality(t) - 1) * m = Cardinality(t) * m - m /\ Cardinality(t) * m \in Nat
  BY <1>3
<1>11. SumOver(f, t) <= Cardinality(t) * m
  BY <1>6, <1>8, <1>9, <1>10
<1>. QED BY <1>2, <1>11 DEF bad

\* Where two functions differ in one place, so do their sums.
LEMMA SumChangesAt ==
    ASSUME NEW S, IsFiniteSet(S), NEW f, NEW g, NEW x \in S,
           \A i \in S : f[i] \in Nat /\ g[i] \in Nat, \A i \in S \ {x} : f[i] = g[i]
    PROVE  SumOver(g, S) + f[x] = SumOver(f, S) + g[x]
<1>1. IsFiniteSet(S \ {x})
  BY FS_Subset
<1>2. SumOver(f, S) = f[x] + SumOver(f, S \ {x}) /\ SumOver(g, S) = g[x] + SumOver(g, S \ {x})
  BY SumTakesOut
<1>3. SumOver(f, S \ {x}) = SumOver(g, S \ {x})
  BY <1>1, SumOfEquals
<1>4. SumOver(f, S \ {x}) \in Nat
  <2>1. \A i \in S \ {x} : f[i] \in Nat
    OBVIOUS
  <2>. QED BY <1>1, <2>1, SumIsNat
<1>5. f[x] \in Nat /\ g[x] \in Nat
  OBVIOUS
<1>. QED BY <1>2, <1>3, <1>4, <1>5

-----------------------------------------------------------------------------
(* BudgetGuard *)

LEMMA ProjectsAreFinite == IsFiniteSet(Projects) /\ \A p \in Payers : ProjectOf[p] \in Projects
<1>1. [p \in Payers |-> ProjectOf[p]] \in Surjection(Payers, Projects)
  BY DEF Surjection, Projects
<1>. QED BY <1>1, FS_Surjection, BudgetAssumption DEF Projects

LEMMA BudgetTypeStep ==
    ASSUME BudgetTypeOK, [BudgetNext]_budgetVars
    PROVE  BudgetTypeOK'
<1>. USE BudgetAssumption, ProjectsAreFinite DEF BudgetTypeOK
<1>1. ASSUME NEW p \in Payers, AsksGlobal(p) PROVE BudgetTypeOK'
  BY <1>1 DEF AsksGlobal, Warns, Scope
<1>2. ASSUME NEW p \in Payers, AsksProject(p) PROVE BudgetTypeOK'
  <2>1. warned' \in SUBSET Scope
    BY <1>2 DEF AsksProject, Warns, Scope
  <2>2. payer' \in [Payers -> {"idle", "granted", "refused", "calling"}]
    BY <1>2 DEF AsksProject
  <2>3. toSpend' \in [Payers -> 0 .. MaxCost]
    BY <1>2 DEF AsksProject
  <2>. QED BY <1>2, <2>1, <2>2, <2>3 DEF AsksProject
<1>3. ASSUME NEW p \in Payers, CallEnds(p) PROVE BudgetTypeOK'
  BY <1>3 DEF CallEnds
<1>4. ASSUME NEW p \in Payers, NEW cost \in 1 .. MaxCost, CallCosts(p, cost) PROVE BudgetTypeOK'
  <2>1. /\ usage' \in [Projects \union {Elsewhere} -> Nat] /\ ledger' \in [Projects -> Nat]
    BY <1>4 DEF CallCosts, Recorded
  <2>2. toSpend' \in [Payers -> 0 .. MaxCost]
    BY <1>4 DEF CallCosts
  <2>. QED BY <1>4, <2>1, <2>2 DEF CallCosts
<1>5. ASSUME NEW cost \in 1 .. MaxElsewhere, ElsewhereCosts(cost) PROVE BudgetTypeOK'
  BY <1>5 DEF ElsewhereCosts
<1>6. CASE MonthTurns
  BY <1>6 DEF MonthTurns
<1>7. CASE Restarts
  BY <1>7 DEF Restarts, Seeded
<1>8. CASE SeedFails
  BY <1>8 DEF SeedFails
<1>9. CASE UNCHANGED budgetVars
  BY <1>9 DEF budgetVars
<1>10. CASE LogBreaksOrMends
  BY <1>10 DEF LogBreaksOrMends
<1>. QED BY <1>1, <1>2, <1>3, <1>4, <1>5, <1>6, <1>7, <1>8, <1>9, <1>10 DEF BudgetNext

LEMMA BudgetInitTypes == BudgetInit => BudgetTypeOK
<1>. SUFFICES ASSUME BudgetInit PROVE BudgetTypeOK
  OBVIOUS
<1>1. 0 \in 0 .. MaxCost
  BY BudgetAssumption
<1>2. /\ toSpend \in [Payers -> 0 .. MaxCost]
      /\ payer \in [Payers -> {"idle", "granted", "refused", "calling"}]
  BY <1>1 DEF BudgetInit
<1>. QED BY <1>2 DEF BudgetInit, BudgetTypeOK

\* Every variable of the budget guard stays in its type (BudgetGuard, engine/budget.py).
THEOREM BudgetTypeCorrect == BudgetSpec => []BudgetTypeOK
<1>. QED BY BudgetInitTypes, BudgetTypeStep, PTL DEF BudgetSpec

Crew(i) == {p \in Payers : ProjectOf[p] = i}

\* What the calls under way, or granted by the first question, can still cost.
Granted == [p \in Payers |-> IF payer[p] = "granted" THEN MaxCost ELSE toSpend[p]]

MonthBound == MonthlyLimit - Estimate + Cardinality(Payers) * MaxCost

ProjectBound(i) == ProjectLimit - Estimate + Cardinality(Crew(i)) * MaxCost

\* What the missions cost and can still cost with the calls they were granted.
MonthHolds == SumOver(usage, Projects) + SumOver(Granted, Payers) <= MonthBound

\* The same of a project; its ledger never lags behind the log.
ProjectHolds(i) ==
    /\ usage[i] <= ledger[i]
    /\ usage[i] + SumOver(toSpend, Crew(i)) <= ProjectBound(i)

BudgetInv == (~blind => MonthHolds) /\ (~seedFailed => \A i \in Projects : ProjectHolds(i))

LEMMA CrewFacts ==
    ASSUME NEW i
    PROVE  IsFiniteSet(Crew(i)) /\ Cardinality(Crew(i)) * MaxCost \in Nat
<1>1. IsFiniteSet(Crew(i)) /\ Cardinality(Crew(i)) \in Nat
  BY BudgetAssumption, FS_Subset, FS_CardinalityType DEF Crew
<1>. QED BY <1>1, BudgetAssumption

LEMMA BoundFacts ==
    /\ MonthBound \in Int /\ MonthlyLimit - Estimate + Cardinality(Payers) * MaxCost = MonthBound
    /\ Cardinality(Payers) * MaxCost \in Nat /\ Cardinality(Payers) * MaxCost <= MonthBound
    /\ \A i : ProjectBound(i) \in Int /\ Cardinality(Crew(i)) * MaxCost <= ProjectBound(i)
<1>1. Cardinality(Payers) * MaxCost \in Nat
  BY BudgetAssumption, FS_CardinalityType
<1>2. \A i : ProjectBound(i) \in Int /\ Cardinality(Crew(i)) * MaxCost <= ProjectBound(i)
  BY CrewFacts, BudgetAssumption DEF ProjectBound
<1>. QED BY <1>1, <1>2, BudgetAssumption DEF MonthBound

\* Calls cost no more together than so many times the most that one may cost.
LEMMA CallsAreBounded ==
    ASSUME NEW f \in [Payers -> 0 .. MaxCost]
    PROVE  /\ SumOver(f, Payers) \in 0 .. Cardinality(Payers) * MaxCost
           /\ \A i : SumOver(f, Crew(i)) \in 0 .. Cardinality(Crew(i)) * MaxCost
<1>1. \A p \in Payers : f[p] \in 0 .. MaxCost /\ f[p] \in Nat
  BY BudgetAssumption
<1>2. SumOver(f, Payers) \in Nat /\ SumOver(f, Payers) <= Cardinality(Payers) * MaxCost
  BY <1>1, BudgetAssumption, SumIsNat, SumIsBounded
<1>3. ASSUME NEW i PROVE SumOver(f, Crew(i)) \in 0 .. Cardinality(Crew(i)) * MaxCost
  <2>1. \A p \in Crew(i) : f[p] \in 0 .. MaxCost /\ f[p] \in Nat
    BY <1>1 DEF Crew
  <2>2. SumOver(f, Crew(i)) \in Nat
    BY <2>1, CrewFacts, SumIsNat
  <2>3. SumOver(f, Crew(i)) <= Cardinality(Crew(i)) * MaxCost
    BY <2>1, CrewFacts, SumIsBounded, BudgetAssumption
  <2>. QED BY <2>2, <2>3, CrewFacts
<1>. QED BY <1>2, <1>3, BoundFacts

LEMMA CallChanges ==
    ASSUME NEW f \in [Payers -> 0 .. MaxCost], NEW g \in [Payers -> 0 .. MaxCost],
           NEW p \in Payers, \A q \in Payers \ {p} : g[q] = f[q]
    PROVE  /\ SumOver(g, Payers) + f[p] = SumOver(f, Payers) + g[p]
           /\ SumOver(g, Crew(ProjectOf[p])) + f[p] = SumOver(f, Crew(ProjectOf[p])) + g[p]
           /\ \A i : i # ProjectOf[p] => SumOver(g, Crew(i)) = SumOver(f, Crew(i))
<1>1. \A q \in Payers : f[q] \in Nat /\ g[q] \in Nat
  BY BudgetAssumption
<1>2. SumOver(g, Payers) + f[p] = SumOver(f, Payers) + g[p]
  BY <1>1, SumChangesAt, BudgetAssumption
<1>3. SumOver(g, Crew(ProjectOf[p])) + f[p] = SumOver(f, Crew(ProjectOf[p])) + g[p]
  <2>1. p \in Crew(ProjectOf[p]) /\ \A q \in Crew(ProjectOf[p]) : q \in Payers
    BY DEF Crew
  <2>. QED BY <1>1, <2>1, SumChangesAt, CrewFacts
<1>4. ASSUME NEW i, i # ProjectOf[p] PROVE SumOver(g, Crew(i)) = SumOver(f, Crew(i))
  <2>1. \A q \in Crew(i) : g[q] = f[q]
    BY <1>4 DEF Crew
  <2>. QED BY <2>1, SumOfEquals, CrewFacts
<1>. QED BY <1>2, <1>3, <1>4

LEMMA UsageFacts ==
    ASSUME BudgetTypeOK
    PROVE  /\ SumOver(usage, Projects) \in Nat
           /\ MonthTotal = usage[Elsewhere] + SumOver(usage, Projects)
           /\ SumOver(usage, Projects) <= MonthTotal
<1>1. \A i \in Projects \union {Elsewhere} : usage[i] \in Nat
  BY DEF BudgetTypeOK
<1>2. SumOver(usage, Projects) \in Nat
  BY <1>1, ProjectsAreFinite, SumIsNat
<1>3. IsFiniteSet(Projects \union {Elsewhere}) /\ (Projects \union {Elsewhere}) \ {Elsewhere} = Projects
  BY ProjectsAreFinite, FS_AddElement, BudgetAssumption
<1>4. MonthTotal = usage[Elsewhere] + SumOver(usage, (Projects \union {Elsewhere}) \ {Elsewhere})
  BY <1>1, <1>3, SumTakesOut DEF MonthTotal
<1>. QED BY <1>1, <1>2, <1>3, <1>4


LEMMA GrantedTypes ==
    /\ BudgetTypeOK => Granted \in [Payers -> 0 .. MaxCost] /\ toSpend \in [Payers -> 0 .. MaxCost]
    /\ BudgetTypeOK' => Granted' \in [Payers -> 0 .. MaxCost] /\ toSpend' \in [Payers -> 0 .. MaxCost]
BY BudgetAssumption DEF Granted, BudgetTypeOK

LEMMA UsageTypes ==
    /\ BudgetTypeOK => SumOver(usage, Projects) \in Nat
    /\ BudgetTypeOK' => SumOver(usage', Projects) \in Nat
<1>1. BudgetTypeOK => \A i \in Projects : usage[i] \in Nat
  BY DEF BudgetTypeOK
<1>2. BudgetTypeOK' => \A i \in Projects : usage'[i] \in Nat
  BY DEF BudgetTypeOK
<1>. QED BY <1>1, <1>2, SumIsNat, ProjectsAreFinite

\* A step that writes nothing in the log and grants nothing.
LEMMA MonthKept ==
    ASSUME BudgetTypeOK, BudgetTypeOK', MonthHolds, NEW p \in Payers,
           SumOver(usage', Projects) = SumOver(usage, Projects),
           \A q \in Payers \ {p} : Granted'[q] = Granted[q], Granted'[p] <= Granted[p]
    PROVE  MonthHolds'
<1>1. SumOver(Granted', Payers) + Granted[p] = SumOver(Granted, Payers) + Granted'[p]
  BY GrantedTypes, CallChanges
<1>2. Granted[p] \in Nat /\ Granted'[p] \in Nat
  BY GrantedTypes, BudgetAssumption
<1>3. SumOver(Granted, Payers) \in Nat /\ SumOver(Granted', Payers) \in Nat
  BY GrantedTypes, CallsAreBounded, BoundFacts
<1>. QED BY <1>1, <1>2, <1>3, UsageTypes, BoundFacts DEF MonthHolds, MonthBound

\* When the first question is answered yes from a log that can be read, whatever calls are under way fit.
LEMMA MonthGranted ==
    ASSUME BudgetTypeOK, BudgetTypeOK', usage' = usage, readable, Fits("global")
    PROVE  MonthHolds'
<1>1. SumOver(usage, Projects) <= MonthlyLimit - Estimate
  <2>1. MonthTotal + Estimate <= MonthlyLimit
    BY DEF Fits, Paid, GlobalSpent, LimitOf
  <2>2. MonthTotal \in Nat
    BY UsageFacts DEF BudgetTypeOK
  <2>. QED BY <2>1, <2>2, UsageFacts, BudgetAssumption
<1>2. SumOver(Granted', Payers) \in 0 .. Cardinality(Payers) * MaxCost
  BY GrantedTypes, CallsAreBounded
<1>. QED BY <1>1, <1>2, UsageTypes, BoundFacts, BudgetAssumption DEF MonthHolds, MonthBound

\* Nobody may spend any more: a restart, or the log of a new month.
LEMMA MonthCleared ==
    ASSUME BudgetTypeOK, BudgetTypeOK', MonthHolds, usage' = usage,
           \A q \in Payers : Granted'[q] = 0
    PROVE  MonthHolds'
<1>1. SumOver(Granted', Payers) <= Cardinality(Payers) * 0
  <2>1. \A q \in Payers : Granted'[q] \in 0 .. 0
    OBVIOUS
  <2>. QED BY <2>1, SumIsBounded, BudgetAssumption
<1>2. SumOver(Granted', Payers) = 0
  BY <1>1, GrantedTypes, CallsAreBounded, BoundFacts, BudgetAssumption, FS_CardinalityType
<1>3. SumOver(Granted, Payers) \in Nat
  BY GrantedTypes, CallsAreBounded, BoundFacts
<1>. QED BY <1>2, <1>3, UsageTypes, BoundFacts DEF MonthHolds, MonthBound

LEMMA MonthStep ==
    ASSUME BudgetTypeOK, BudgetTypeOK', ~blind => MonthHolds, ~blind',
           [BudgetNext]_budgetVars
    PROVE  MonthHolds'
<1>0. ~MonthTurns => MonthHolds
  <2>. SUFFICES ASSUME ~MonthTurns, blind PROVE blind'
    OBVIOUS
  <2>. QED BY DEF BudgetNext, AsksGlobal, AsksProject, CallEnds, CallCosts, ElsewhereCosts,
                  LogBreaksOrMends, Restarts, SeedFails, budgetVars
<1>1. ASSUME NEW p \in Payers, AsksGlobal(p), MonthHolds PROVE MonthHolds'
  <2>0. readable
    BY <1>1 DEF AsksGlobal, BudgetTypeOK
  <2>1. CASE Fits("global")
    BY <1>1, <2>0, <2>1, MonthGranted DEF AsksGlobal
  <2>2. CASE ~Fits("global")
    <3>1. Granted' = Granted
      BY <1>1, <2>2 DEF AsksGlobal, Granted, BudgetTypeOK
    <3>. QED BY <1>1, <3>1 DEF AsksGlobal, MonthHolds, MonthBound
  <2>. QED BY <2>1, <2>2
<1>2. ASSUME NEW p \in Payers, AsksProject(p), MonthHolds PROVE MonthHolds'
  <2>1. \A q \in Payers \ {p} : Granted'[q] = Granted[q]
    BY <1>2 DEF AsksProject, Granted, BudgetTypeOK
  <2>2. Granted'[p] <= Granted[p]
    BY <1>2, BudgetAssumption DEF AsksProject, Granted, BudgetTypeOK
  <2>. QED BY <1>2, <2>1, <2>2, MonthKept DEF AsksProject
<1>3. ASSUME NEW p \in Payers, CallEnds(p), MonthHolds PROVE MonthHolds'
  <2>1. \A q \in Payers \ {p} : Granted'[q] = Granted[q]
    BY <1>3 DEF CallEnds, Granted, BudgetTypeOK
  <2>2. Granted'[p] <= Granted[p]
    BY <1>3, BudgetAssumption DEF CallEnds, Granted, BudgetTypeOK
  <2>. QED BY <1>3, <2>1, <2>2, MonthKept DEF CallEnds
<1>4. ASSUME NEW p \in Payers, NEW cost \in 1 .. MaxCost, CallCosts(p, cost), MonthHolds PROVE MonthHolds'
  <2>1. \A q \in Payers \ {p} : Granted'[q] = Granted[q]
    BY <1>4 DEF CallCosts, Granted, BudgetTypeOK
  <2>2. Granted'[p] = Granted[p] - cost /\ Granted[p] \in Nat
    BY <1>4, BudgetAssumption DEF CallCosts, Granted, BudgetTypeOK
  <2>3. SumOver(Granted', Payers) + Granted[p] = SumOver(Granted, Payers) + Granted'[p]
    BY <2>1, GrantedTypes, CallChanges
  <2>4. SumOver(usage', Projects) + usage[ProjectOf[p]] = SumOver(usage, Projects) + usage'[ProjectOf[p]]
    <3>1. /\ \A i \in Projects : usage[i] \in Nat /\ usage'[i] \in Nat
          /\ \A i \in Projects \ {ProjectOf[p]} : usage[i] = usage'[i]
      BY <1>4 DEF CallCosts, BudgetTypeOK
    <3>. QED BY <3>1, SumChangesAt, ProjectsAreFinite
  <2>5. usage'[ProjectOf[p]] = usage[ProjectOf[p]] + cost /\ usage[ProjectOf[p]] \in Nat
    BY <1>4, ProjectsAreFinite DEF CallCosts, BudgetTypeOK
  <2>6. SumOver(Granted, Payers) \in Nat /\ SumOver(Granted', Payers) \in Nat
    BY GrantedTypes, CallsAreBounded, BoundFacts
  <2>7. SumOver(usage', Projects) + SumOver(Granted', Payers)
          = SumOver(usage, Projects) + SumOver(Granted, Payers)
    BY <2>2, <2>3, <2>4, <2>5, <2>6, UsageTypes
  <2>. QED BY <1>4, <2>7 DEF MonthHolds, MonthBound
<1>5. ASSUME NEW cost \in 1 .. MaxElsewhere, ElsewhereCosts(cost), MonthHolds PROVE MonthHolds'
  <2>1. \A i \in Projects : usage'[i] = usage[i]
    BY <1>5, BudgetAssumption DEF ElsewhereCosts, BudgetTypeOK
  <2>2. SumOver(usage', Projects) = SumOver(usage, Projects)
    BY <2>1, SumOfEquals, ProjectsAreFinite
  <2>. QED BY <1>5, <2>2 DEF ElsewhereCosts, MonthHolds, MonthBound, Granted
<1>6. CASE MonthTurns
  <2>1. \A i \in Projects : usage'[i] \in 0 .. 0
    BY <1>6 DEF MonthTurns
  <2>2. SumOver(usage', Projects) <= Cardinality(Projects) * 0 /\ Cardinality(Projects) \in Nat
    BY <2>1, SumIsBounded, ProjectsAreFinite, FS_CardinalityType
  <2>3. SumOver(usage', Projects) = 0
    BY <2>2, UsageTypes
  <2>4. SumOver(Granted', Payers) \in 0 .. Cardinality(Payers) * MaxCost
    BY GrantedTypes, CallsAreBounded
  <2>. QED BY <2>3, <2>4, BoundFacts DEF MonthHolds, MonthBound
<1>7. ASSUME Restarts, MonthHolds PROVE MonthHolds'
  BY <1>7, MonthCleared, BudgetAssumption DEF Restarts, Granted
<1>8. ASSUME SeedFails, MonthHolds PROVE MonthHolds'
  BY <1>8, MonthCleared, BudgetAssumption DEF SeedFails, Granted
<1>9. ASSUME UNCHANGED budgetVars, MonthHolds PROVE MonthHolds'
  BY <1>9 DEF budgetVars, MonthHolds, MonthBound, Granted
<1>10. ASSUME LogBreaksOrMends, MonthHolds PROVE MonthHolds'
  BY <1>10 DEF LogBreaksOrMends, MonthHolds, MonthBound, Granted
<1>. QED BY <1>0, <1>1, <1>2, <1>3, <1>4, <1>5, <1>6, <1>7, <1>8, <1>9, <1>10 DEF BudgetNext

LEMMA ProjectHoldsNext ==
    ASSUME NEW i \in Projects
    PROVE  ProjectHolds(i)' <=> /\ usage'[i] <= ledger'[i]
                                /\ usage'[i] + SumOver(toSpend', Crew(i)) <= ProjectBound(i)
BY DEF ProjectHolds, ProjectBound, Crew

\* A step that costs nothing and lets nobody of the project spend more.
LEMMA ProjectKept ==
    ASSUME BudgetTypeOK, BudgetTypeOK', NEW i \in Projects, ProjectHolds(i),
           usage'[i] = usage[i], usage'[i] <= ledger'[i],
           SumOver(toSpend', Crew(i)) <= SumOver(toSpend, Crew(i))
    PROVE  ProjectHolds(i)'
<1>1. SumOver(toSpend, Crew(i)) \in Nat /\ SumOver(toSpend', Crew(i)) \in Nat
  BY GrantedTypes, CallsAreBounded, CrewFacts
<1>2. usage[i] \in Nat
  BY DEF BudgetTypeOK
<1>. QED BY <1>1, <1>2, BoundFacts, ProjectHoldsNext DEF ProjectHolds

\* Where what was spent leaves room for the estimate, whatever calls are under way fit.
LEMMA ProjectRoom ==
    ASSUME BudgetTypeOK', NEW i \in Projects, usage'[i] <= ledger'[i],
           usage'[i] <= ProjectLimit - Estimate
    PROVE  ProjectHolds(i)'
<1>1. SumOver(toSpend', Crew(i)) \in 0 .. Cardinality(Crew(i)) * MaxCost
  BY GrantedTypes, CallsAreBounded
<1>2. usage'[i] \in Nat
  BY DEF BudgetTypeOK
<1>. QED BY <1>1, <1>2, CrewFacts, BudgetAssumption, ProjectHoldsNext DEF ProjectBound

LEMMA ProjectStep ==
    ASSUME BudgetTypeOK, BudgetTypeOK', [BudgetNext]_budgetVars, ~seedFailed',
           NEW i \in Projects, ~seedFailed => ProjectHolds(i)
    PROVE  ProjectHolds(i)'
<1>. USE DEF BudgetTypeOK
<1>1. ASSUME NEW p \in Payers, AsksGlobal(p) PROVE ProjectHolds(i)'
  BY <1>1, ProjectHoldsNext DEF AsksGlobal, ProjectHolds
<1>2. ASSUME NEW p \in Payers, AsksProject(p) PROVE ProjectHolds(i)'
  <2>0. ProjectHolds(i)
    BY <1>2 DEF AsksProject
  <2>1. CASE i = ProjectOf[p] /\ Fits(i)
    <3>1. usage[i] <= ProjectLimit - Estimate
      BY <2>0, <2>1, BudgetAssumption DEF Fits, Paid, LimitOf, ProjectHolds
    <3>. QED BY <1>2, <2>0, <3>1, ProjectRoom DEF AsksProject, ProjectHolds
  <2>2. CASE i = ProjectOf[p] /\ ~Fits(i)
    BY <1>2, <2>0, <2>2, ProjectHoldsNext DEF AsksProject, ProjectHolds
  <2>3. CASE i # ProjectOf[p]
    <3>1. \A q \in Payers \ {p} : toSpend'[q] = toSpend[q]
      BY <1>2 DEF AsksProject
    <3>2. SumOver(toSpend', Crew(i)) = SumOver(toSpend, Crew(i))
      BY <2>3, <3>1, GrantedTypes, CallChanges
    <3>. QED BY <1>2, <2>0, <3>2, ProjectHoldsNext DEF AsksProject, ProjectHolds
  <2>. QED BY <2>1, <2>2, <2>3
<1>3. ASSUME NEW p \in Payers, CallEnds(p) PROVE ProjectHolds(i)'
  <2>1. \A q \in Payers \ {p} : toSpend'[q] = toSpend[q]
    BY <1>3 DEF CallEnds
  <2>2. toSpend'[p] = 0 /\ toSpend[p] \in Nat
    BY <1>3, BudgetAssumption DEF CallEnds
  <2>3. SumOver(toSpend', Crew(i)) \in Nat /\ SumOver(toSpend, Crew(i)) \in Nat
    BY GrantedTypes, CallsAreBounded, CrewFacts
  <2>4. CASE i = ProjectOf[p]
    <3>1. SumOver(toSpend', Crew(i)) + toSpend[p] = SumOver(toSpend, Crew(i)) + toSpend'[p]
      BY <2>1, <2>4, GrantedTypes, CallChanges
    <3>2. SumOver(toSpend', Crew(i)) <= SumOver(toSpend, Crew(i))
      BY <2>2, <2>3, <3>1
    <3>. QED BY <1>3, <3>2, ProjectKept DEF CallEnds, ProjectHolds
  <2>5. CASE i # ProjectOf[p]
    <3>1. SumOver(toSpend', Crew(i)) = SumOver(toSpend, Crew(i))
      BY <2>1, <2>5, GrantedTypes, CallChanges
    <3>. QED BY <1>3, <3>1, ProjectHoldsNext DEF CallEnds, ProjectHolds
  <2>. QED BY <2>4, <2>5
<1>4. ASSUME NEW p \in Payers, NEW cost \in 1 .. MaxCost, CallCosts(p, cost) PROVE ProjectHolds(i)'
  <2>0. ProjectHolds(i)
    BY <1>4 DEF CallCosts
  <2>1. \A q \in Payers \ {p} : toSpend'[q] = toSpend[q]
    BY <1>4 DEF CallCosts
  <2>2. toSpend'[p] = toSpend[p] - cost /\ toSpend[p] \in Nat
    BY <1>4, BudgetAssumption DEF CallCosts
  <2>3. CASE i = ProjectOf[p]
    <3>1. SumOver(toSpend', Crew(i)) \in Nat /\ SumOver(toSpend, Crew(i)) \in Nat
      BY GrantedTypes, CallsAreBounded, CrewFacts
    <3>5. SumOver(toSpend', Crew(i)) + toSpend[p] = SumOver(toSpend, Crew(i)) + toSpend'[p]
      BY <2>1, <2>3, GrantedTypes, CallChanges
    <3>2. SumOver(toSpend', Crew(i)) = SumOver(toSpend, Crew(i)) - cost
      BY <2>2, <3>1, <3>5
    <3>3. usage'[i] = usage[i] + cost /\ ledger'[i] = ledger[i] + cost
      BY <1>4, <2>3 DEF CallCosts, Recorded
    <3>4. usage[i] \in Nat /\ ledger[i] \in Nat
      OBVIOUS
    <3>. QED BY <2>0, <3>1, <3>2, <3>3, <3>4, ProjectHoldsNext DEF ProjectHolds
  <2>4. CASE i # ProjectOf[p]
    <3>1. SumOver(toSpend', Crew(i)) = SumOver(toSpend, Crew(i))
      BY <2>1, <2>4, GrantedTypes, CallChanges
    <3>2. usage'[i] = usage[i] /\ ledger'[i] = ledger[i]
      BY <1>4, <2>4 DEF CallCosts, Recorded
    <3>. QED BY <2>0, <3>1, <3>2, ProjectHoldsNext DEF ProjectHolds
  <2>. QED BY <2>3, <2>4
<1>5. ASSUME NEW cost \in 1 .. MaxElsewhere, ElsewhereCosts(cost) PROVE ProjectHolds(i)'
  <2>1. usage'[i] = usage[i] /\ ledger' = ledger /\ toSpend' = toSpend /\ seedFailed' = seedFailed
    BY <1>5, BudgetAssumption DEF ElsewhereCosts
  <2>. QED BY <2>1, ProjectHoldsNext DEF ProjectHolds
<1>6. CASE MonthTurns
  <2>1. usage'[i] = 0 /\ ledger'[i] \in Nat
    BY <1>6 DEF MonthTurns
  <2>. QED BY <2>1, ProjectRoom, BudgetAssumption
<1>7. CASE Restarts
  <2>1. usage'[i] = usage[i] /\ ledger'[i] = usage[i] /\ usage[i] \in Nat
    BY <1>7 DEF Restarts, Seeded
  <2>2. \A q \in Crew(i) : toSpend'[q] \in 0 .. 0
    BY <1>7 DEF Restarts, Crew
  <2>3. SumOver(toSpend', Crew(i)) <= Cardinality(Crew(i)) * 0 /\ Cardinality(Crew(i)) \in Nat
    BY <2>2, SumIsBounded, CrewFacts, FS_CardinalityType
  <2>4. SumOver(toSpend', Crew(i)) \in Nat /\ SumOver(toSpend, Crew(i)) \in Nat
    BY GrantedTypes, CallsAreBounded, CrewFacts
  <2>5. SumOver(toSpend', Crew(i)) <= SumOver(toSpend, Crew(i))
    BY <2>3, <2>4
  <2>. QED BY <1>7, <2>1, <2>5, ProjectKept DEF Restarts
<1>8. CASE SeedFails
  BY <1>8 DEF SeedFails
<1>9. CASE UNCHANGED budgetVars
  BY <1>9, ProjectHoldsNext DEF budgetVars, ProjectHolds
<1>10. CASE LogBreaksOrMends
  BY <1>10, ProjectHoldsNext DEF LogBreaksOrMends, ProjectHolds
<1>. QED BY <1>1, <1>2, <1>3, <1>4, <1>5, <1>6, <1>7, <1>8, <1>9, <1>10 DEF BudgetNext

LEMMA BudgetInitHolds == BudgetInit => BudgetInv
<1>. SUFFICES ASSUME BudgetInit PROVE BudgetInv
  OBVIOUS
<1>1. BudgetTypeOK
  BY BudgetInitTypes
<1>2. SumOver(usage, Projects) = 0
  <2>1. \A i \in Projects : usage[i] \in 0 .. 0
    BY DEF BudgetInit
  <2>2. SumOver(usage, Projects) <= Cardinality(Projects) * 0 /\ Cardinality(Projects) \in Nat
    BY <2>1, SumIsBounded, ProjectsAreFinite, FS_CardinalityType
  <2>. QED BY <1>1, <2>2, UsageTypes
<1>3. SumOver(Granted, Payers) \in 0 .. Cardinality(Payers) * MaxCost
  BY <1>1, GrantedTypes, CallsAreBounded
<1>4. MonthHolds
  BY <1>2, <1>3, BoundFacts DEF MonthHolds
<1>5. ASSUME NEW i \in Projects PROVE ProjectHolds(i)
  <2>1. SumOver(toSpend, Crew(i)) \in 0 .. Cardinality(Crew(i)) * MaxCost
    BY <1>1, GrantedTypes, CallsAreBounded
  <2>2. usage[i] = 0 /\ ledger[i] = 0
    BY DEF BudgetInit
  <2>. QED BY <2>1, <2>2, BoundFacts, CrewFacts DEF ProjectHolds
<1>. QED BY <1>4, <1>5 DEF BudgetInv

LEMMA BudgetInvariant == BudgetSpec => []BudgetInv
<1>1. BudgetTypeOK /\ BudgetTypeOK' /\ BudgetInv /\ [BudgetNext]_budgetVars => BudgetInv'
  BY MonthStep, ProjectStep DEF BudgetInv
<1>. QED BY <1>1, BudgetInitHolds, BudgetTypeCorrect, PTL DEF BudgetSpec

\* However many workers ask at the same time, the missions of a month go over the monthly
\* limit by no more than one call for each worker (reserve, which books nothing), unless
\* reserve was asked that month while the log could not be read (_global_spent says 0.0).
THEOREM MissionsKeepNearTheLimit == BudgetSpec => []MissionsStayNearTheLimit
<1>1. BudgetTypeOK /\ BudgetInv => MissionsStayNearTheLimit
  <2>. SUFFICES ASSUME BudgetTypeOK, BudgetInv PROVE MissionsStayNearTheLimit
    OBVIOUS
  <2>1. SumOver(Granted, Payers) \in Nat
    BY GrantedTypes, CallsAreBounded, BoundFacts
  <2>2. MonthHolds => SumOver(usage, Projects)
                        <= MonthlyLimit - Estimate + Cardinality(Payers) * MaxCost
    BY <2>1, UsageTypes, BoundFacts DEF MonthHolds
  <2>. QED BY <2>2 DEF BudgetInv, MissionsStayNearTheLimit
<1>. QED BY <1>1, BudgetInvariant, BudgetTypeCorrect, PTL

\* What the log says of a project stays as near to its limit, although reserve looks at a
\* ledger in memory that a restart rebuilds (_seed_from_history) and a new month leaves as it is.
THEOREM ProjectKeepsNearItsLimit == BudgetSpec => []ProjectStaysNearItsLimit
<1>1. BudgetTypeOK /\ BudgetInv => ProjectStaysNearItsLimit
  <2>. SUFFICES ASSUME BudgetTypeOK, BudgetInv, ~seedFailed, NEW i \in Projects
                PROVE  usage[i] <= ProjectLimit - Estimate
                         + Cardinality({p \in Payers : ProjectOf[p] = i}) * MaxCost
    BY DEF ProjectStaysNearItsLimit
  <2>1. SumOver(toSpend, Crew(i)) \in Nat
    BY GrantedTypes, CallsAreBounded, CrewFacts
  <2>2. usage[i] \in Nat
    BY DEF BudgetTypeOK
  <2>3. usage[i] <= ProjectBound(i)
    BY <2>1, <2>2, BoundFacts DEF BudgetInv, ProjectHolds
  <2>. QED BY <2>3 DEF ProjectBound, Crew
<1>. QED BY <1>1, BudgetInvariant, BudgetTypeCorrect, PTL

================================================================================
