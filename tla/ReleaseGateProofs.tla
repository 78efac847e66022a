-------------------------- MODULE ReleaseGateProofs --------------------------
(***************************************************************************)
(* The gate's safety for any number of users, candidates, requests,        *)
(* submissions and items of evidence, any verifiers and any overlay.       *)
(***************************************************************************)
EXTENDS ReleaseGate, PolicyProofs

-----------------------------------------------------------------------------
(* What compilePolicy gives createCandidate.                               *)

BareRequirement ==
  [ id : RequirementIds, kinds : SUBSET EvidenceKinds, minimum : IndependenceLevels ]

LEMMA CatalogueTyped == Catalogue \subseteq BareRequirement
<1>1. \A r \in Catalogue : r.id \in RequirementIds
  BY DEF RequirementIds, Catalogue, CapabilityCatalogue, PackCatalogue
<1>2. \A r \in Catalogue : r.kinds \subseteq EvidenceKinds
  <2>1. \A r \in Baseline : r.kinds \subseteq EvidenceKinds
    BY DEF Baseline, Req, EvidenceKinds
  <2>2. \A rule \in CapabilityRules : rule[2].kinds \subseteq EvidenceKinds
    BY DEF CapabilityRules, Req, EvidenceKinds
  <2>3. \A rule \in PackRules : rule[2].kinds \subseteq EvidenceKinds
    BY DEF PackRules, Req, EvidenceKinds
  <2> QED
    BY <2>1, <2>2, <2>3 DEF Catalogue, CapabilityCatalogue, PackCatalogue
<1>3. \A r \in Catalogue : r.minimum \in IndependenceLevels
  <2>1. \A r \in Baseline : r.minimum \in IndependenceLevels
    BY DEF Baseline, Req, IndependenceLevels
  <2>2. \A rule \in CapabilityRules : rule[2].minimum \in IndependenceLevels
    BY DEF CapabilityRules, Req, IndependenceLevels
  <2>3. \A rule \in PackRules : rule[2].minimum \in IndependenceLevels
    BY DEF PackRules, Req, IndependenceLevels
  <2> QED
    BY <2>1, <2>2, <2>3 DEF Catalogue, CapabilityCatalogue, PackCatalogue
<1>4. \A r \in Catalogue : r = [ id |-> r.id, kinds |-> r.kinds, minimum |-> r.minimum ]
  BY CatalogueShape DEF Req
<1> QED
  BY <1>1, <1>2, <1>3, <1>4 DEF BareRequirement

LEMMA LayerTyped ==
  ASSUME NEW source \in Sources, NEW reqs, reqs \subseteq Catalogue
  PROVE  From(source, reqs) \subseteq Requirement
  BY CatalogueTyped DEF From, Stamped, Requirement, BareRequirement

\* The frozen policy is well formed, separates duties where it must, lists what
\* is new, and demands nothing that is not in the catalogue.
LEMMA FrozenPolicyFacts ==
  ASSUME NEW sub \in Submission, NEW previous
  PROVE  LET policy == FrozenPolicy(sub, previous)
         IN  /\ policy \in GatePolicy
             /\ ElevatedRisk(policy.risk) \/ ForceSeparate => policy.separate
             /\ policy.added = sub.caps \ previous
             /\ Demands(policy.requirements) \subseteq Catalogue
             /\ Baseline \subseteq Demands(policy.requirements)
<1> DEFINE in == [ pack |-> sub.pack, dataClass |-> sub.dataClass, separate |-> sub.separate,
                   caps |-> sub.caps, prev |-> previous, orgPacks |-> OrgPacks,
                   orgReqs |-> {}, force |-> ForceSeparate ]
           policy == FrozenPolicy(sub, previous)
<1>1. policy = CompilePolicy(in)
  BY DEF FrozenPolicy
<1>2. in.orgReqs = {} /\ in.caps = sub.caps /\ in.prev = previous /\ in.force = ForceSeparate
      /\ in.separate = sub.separate
  OBVIOUS
<1> HIDE DEF in, policy
<1>3. /\ Demands(CompileRequirements(in)) \subseteq Catalogue
      /\ Baseline \subseteq Demands(CompileRequirements(in))
  BY <1>2, CompiledDemands, RulesInCatalogue
<1>4. CompileRequirements(in) \subseteq Requirement
  <2> DEFINE declared == UNION { ByCapability(c) : c \in in.caps }
             new      == UNION { ByCapability(c) : c \in Added(in) }
             overlay  == UNION { PackRequirements(p) : p \in in.orgPacks }
  <2>1. declared \subseteq Catalogue /\ new \subseteq Catalogue /\ overlay \subseteq Catalogue
    BY RulesInCatalogue
  <2>2. /\ From("baseline", Baseline) \subseteq Requirement
        /\ From("pack", PackRequirements(in.pack)) \subseteq Requirement
        /\ From("capability", declared) \subseteq Requirement
        /\ From("semantic_diff", new) \subseteq Requirement
        /\ From("organization", overlay) \subseteq Requirement
    BY <2>1, LayerTyped, RulesInCatalogue DEF Sources
  <2> QED
    BY <1>2, <2>2 DEF CompileRequirements, Override
<1>5. InferRisk(in.caps, in.pack, in.dataClass) \in Risks
  BY DEF InferRisk, Risks
<1>6. SeparateApprover(in) \in BOOLEAN /\ Added(in) \in SUBSET Capabilities
  BY <1>2, GateAssumption DEF SeparateApprover, ElevatedRisk, Added, Submission
<1> QED
  BY <1>1, <1>2, <1>3, <1>4, <1>5, <1>6
     DEF CompilePolicy, GatePolicy, SeparateApprover, Added, policy

-----------------------------------------------------------------------------
(* Types.  What a request has in hand depends on the statement it is at.   *)

CreatePcs   == { "baseline", "insert" }
EvidencePcs == { "lock evidence", "resolve verifier", "record" }
DecisionPcs == { "lock decision", "authorize", "read evidence", "sign" }

RequestTyped(r) ==
  /\ req[r].pc # "idle" => req[r].user \in Users /\ req[r].cand \in Candidates
  /\ req[r].pc \in CreatePcs => req[r].submission \in Submissions
  /\ req[r].pc = "insert" => req[r].policy \in GatePolicy
  /\ req[r].pc \in EvidencePcs => req[r].item \in Items
  /\ req[r].pc = "record" => req[r].grade \in IndependenceLevels
  /\ req[r].pc \in EvidencePcs \cup DecisionPcs => row[req[r].cand] # None

TypeInv == TypeOK /\ \A r \in Requests : RequestTyped(r)

LEMMA IdleTyped == Idle \in Request
  BY DEF Idle, Request

LEMMA TypeInit == Init => TypeInv
<1> SUFFICES ASSUME Init PROVE TypeInv
  OBVIOUS
<1>1. \A r \in Requests : RequestTyped(r)
  BY DEF Init, Idle, RequestTyped, CreatePcs, EvidencePcs, DecisionPcs
<1>2. TypeOK
  BY IdleTyped, GateAssumption DEF Init, TypeOK
<1> QED
  BY <1>1, <1>2 DEF TypeInv

\* A request that ends is typed, and so are those that it leaves alone.
LEMMA FinishTyped ==
  ASSUME TypeInv, NEW r \in Requests, Finish(r),
         \A c \in Candidates : row[c] # None => row'[c] # None
  PROVE  req' \in [Requests -> Request] /\ \A q \in Requests : RequestTyped(q)'
<1>1. req' \in [Requests -> Request]
  BY IdleTyped DEF TypeInv, TypeOK, Finish
<1>2. ASSUME NEW q \in Requests PROVE RequestTyped(q)'
  <2>1. CASE q = r
    BY <2>1 DEF TypeInv, TypeOK, Finish, Idle, RequestTyped, CreatePcs, EvidencePcs, DecisionPcs
  <2>2. CASE q # r
    <3>1. req'[q] = req[q] /\ req[q] \in Request /\ RequestTyped(q)
      BY <2>2 DEF TypeInv, TypeOK, Finish
    <3>2. req[q].pc \in EvidencePcs \cup DecisionPcs => req[q].cand \in Candidates
      BY <3>1 DEF RequestTyped, EvidencePcs, DecisionPcs
    <3> QED
      BY <3>1, <3>2 DEF RequestTyped
  <2> QED
    BY <2>1, <2>2
<1> QED
  BY <1>1, <1>2

LEMMA ReleaseTyped ==
  ASSUME TypeInv, NEW r \in Requests, Release(r)
  PROVE  lock' \in [Candidates -> Requests \cup {None}]
  BY DEF TypeInv, TypeOK, Release

\* Only request r moves on, to a typed record; the candidates stay.
LEMMA MoveTyped ==
  ASSUME TypeInv, NEW r \in Requests, NEW next \in Request,
         req' = [ req EXCEPT ![r] = next ], row' = row, RequestTyped(r)'
  PROVE  req' \in [Requests -> Request] /\ \A q \in Requests : RequestTyped(q)'
<1>1. \A q \in Requests : q # r => req'[q] = req[q] /\ RequestTyped(q)
  BY DEF TypeInv, TypeOK
<1>2. \A q \in Requests : q # r => RequestTyped(q)'
  BY <1>1 DEF RequestTyped
<1> QED
  BY <1>2 DEF TypeInv, TypeOK

LEMMA BeginTyped ==
  ASSUME TypeInv, NEW u \in Users, NEW c \in Candidates, NEW first \in Request
  PROVE  [ first EXCEPT !.user = u, !.cand = c, !.held = {role[u]} ] \in Request
<1>1. {role[u]} \in SUBSET Roles
  BY DEF TypeInv, TypeOK
<1> QED
  BY <1>1 DEF Request

LEMMA TypeStep == TypeInv /\ [Next]_vars => TypeInv'
<1> SUFFICES ASSUME TypeInv, [Next]_vars PROVE TypeInv'
  OBVIOUS
<1> USE DEF tables, members
<1>1. ASSUME NEW r \in Requests, BeginCreate(r) PROVE TypeInv'
  <2> PICK u \in Users, c \in Candidates, sub \in Submissions :
        /\ Begin(r, u, c, [ Idle EXCEPT !.pc = "baseline", !.submission = sub ])
        /\ earlier' = [ earlier EXCEPT ![c] = Started ]
    BY <1>1 DEF BeginCreate
  <2> DEFINE next == [ [ Idle EXCEPT !.pc = "baseline", !.submission = sub ]
                       EXCEPT !.user = u, !.cand = c, !.held = {role[u]} ]
  <2>1. next \in Request
    <3>1. [ Idle EXCEPT !.pc = "baseline", !.submission = sub ] \in Request
      BY IdleTyped DEF Request
    <3> QED
      BY <3>1, BeginTyped
  <2>2. req' = [ req EXCEPT ![r] = next ] /\ UNCHANGED << row, ledger, approval, receipt, lock, members >>
    BY <1>1 DEF BeginCreate, Begin
  <2>3. RequestTyped(r)'
    BY <2>2 DEF TypeInv, TypeOK, RequestTyped, Idle, CreatePcs, EvidencePcs, DecisionPcs
  <2>4. Started \subseteq Candidates
    BY DEF Started, Existing, Creating, At, TypeInv, RequestTyped
  <2> QED
    BY <2>1, <2>2, <2>3, <2>4, MoveTyped DEF TypeInv, TypeOK
<1>2. ASSUME NEW r \in Requests, BeginEvidence(r) PROVE TypeInv'
  <2> PICK u \in Users, c \in Existing, item \in Items :
        Begin(r, u, c, [ Idle EXCEPT !.pc = "lock evidence", !.item = item ])
    BY <1>2 DEF BeginEvidence
  <2> DEFINE next == [ [ Idle EXCEPT !.pc = "lock evidence", !.item = item ]
                       EXCEPT !.user = u, !.cand = c, !.held = {role[u]} ]
  <2>1. next \in Request
    <3>1. [ Idle EXCEPT !.pc = "lock evidence", !.item = item ] \in Request
      BY IdleTyped DEF Request
    <3> QED
      BY <3>1, BeginTyped DEF Existing
  <2>2. req' = [ req EXCEPT ![r] = next ] /\ UNCHANGED << tables, lock, members >>
    BY <1>2 DEF BeginEvidence, Begin
  <2>3. RequestTyped(r)'
    BY <2>2 DEF TypeInv, TypeOK, RequestTyped, Idle, CreatePcs, EvidencePcs, DecisionPcs, Existing
  <2> QED
    BY <2>1, <2>2, <2>3, MoveTyped DEF TypeInv, TypeOK
<1>3. ASSUME NEW r \in Requests, BeginDecide(r) PROVE TypeInv'
  <2> PICK u \in Users, c \in Existing, shown \in Existing :
        Begin(r, u, c, [ Idle EXCEPT !.pc = "lock decision", !.policy = row[shown].policy ])
    BY <1>3 DEF BeginDecide
  <2> DEFINE next == [ [ Idle EXCEPT !.pc = "lock decision", !.policy = row[shown].policy ]
                       EXCEPT !.user = u, !.cand = c, !.held = {role[u]} ]
  <2>1. row[shown].policy \in GatePolicy
    BY DEF TypeInv, TypeOK, Existing, CandidateRow
  <2>2. next \in Request
    <3>1. [ Idle EXCEPT !.pc = "lock decision", !.policy = row[shown].policy ] \in Request
      BY <2>1, IdleTyped DEF Request
    <3> QED
      BY <3>1, BeginTyped DEF Existing
  <2>3. req' = [ req EXCEPT ![r] = next ] /\ UNCHANGED << tables, lock, members >>
    BY <1>3 DEF BeginDecide, Begin
  <2>4. RequestTyped(r)'
    BY <2>3 DEF TypeInv, TypeOK, RequestTyped, Idle, CreatePcs, EvidencePcs, DecisionPcs, Existing
  <2> QED
    BY <2>2, <2>3, <2>4, MoveTyped DEF TypeInv, TypeOK
<1>4. ASSUME NEW r \in Requests, ReadBaseline(r) PROVE TypeInv'
  <2> DEFINE policy == FrozenPolicy(req[r].submission, PreviousCapabilities)
             next == [ req[r] EXCEPT !.pc = "insert", !.policy = policy ]
  <2>1. policy \in GatePolicy
    BY <1>4, GateAssumption, FrozenPolicyFacts
       DEF ReadBaseline, At, TypeInv, RequestTyped, CreatePcs
  <2> HIDE DEF policy
  <2>2. next \in Request
    BY <2>1 DEF TypeInv, TypeOK, Request
  <2>3. req' = [ req EXCEPT ![r] = next ] /\ UNCHANGED << tables, lock, members >>
    BY <1>4 DEF ReadBaseline, TypeInv, TypeOK, Request, policy
  <2>4. RequestTyped(r)'
    <3>1. req'[r] = next
      BY <2>3 DEF TypeInv, TypeOK
    <3>2. /\ next.pc = "insert" /\ next.policy = policy /\ next.user = req[r].user
          /\ next.cand = req[r].cand /\ next.submission = req[r].submission
      BY DEF TypeInv, TypeOK, Request
    <3> QED
      BY <1>4, <2>1, <3>1, <3>2
         DEF ReadBaseline, At, TypeInv, RequestTyped, CreatePcs, EvidencePcs, DecisionPcs
  <2> QED
    BY <2>2, <2>3, <2>4, MoveTyped DEF TypeInv, TypeOK
<1>5. ASSUME NEW r \in Requests, InsertCandidate(r) PROVE TypeInv'
  <2> DEFINE c == req[r].cand
             new == [ creator |-> req[r].user, version |-> req[r].submission.version,
                      caps |-> req[r].submission.caps, policy |-> req[r].policy, status |-> "frozen" ]
  <2>1. /\ req[r].user \in Users /\ c \in Candidates
        /\ req[r].submission \in Submission /\ req[r].policy \in GatePolicy
    BY <1>5, GateAssumption DEF InsertCandidate, At, TypeInv, RequestTyped, CreatePcs
  <2>2. new \in CandidateRow
    BY <2>1 DEF CandidateRow, Submission
  <2>3. ArtifactFreeze(req[r].user) \in EvidenceRow
    BY <2>1 DEF ArtifactFreeze, EvidenceRow, EvidenceKinds, Outcomes, IndependenceLevels,
       RequirementIds, Baseline, Req
  <2>4. row' \in [Candidates -> CandidateRow \cup {None}] /\ ledger' \in [Candidates -> Seq(EvidenceRow)]
    <3>1. << ArtifactFreeze(req[r].user) >> \in Seq(EvidenceRow)
      BY <2>3
    <3> QED
      BY <1>5, <2>1, <2>2, <3>1 DEF InsertCandidate, TypeInv, TypeOK
  <2>5. \A d \in Candidates : row[d] # None => row'[d] # None
    BY <1>5, <2>2, NoneAssumption DEF InsertCandidate, TypeInv, TypeOK
  <2>6. Finish(r)
    BY <1>5 DEF InsertCandidate
  <2> QED
    BY <1>5, <2>4, <2>5, <2>6, FinishTyped DEF InsertCandidate, TypeInv, TypeOK
<1>6. ASSUME NEW r \in Requests, LockForEvidence(r) PROVE TypeInv'
  <2> DEFINE next == [ req[r] EXCEPT !.pc = "resolve verifier" ]
  <2>1. next \in Request
    BY DEF TypeInv, TypeOK, Request
  <2>2. req' = [ req EXCEPT ![r] = next ] /\ UNCHANGED << tables, members >>
    BY <1>6 DEF LockForEvidence, Advance, TypeInv, TypeOK, Request
  <2>3. RequestTyped(r)'
    BY <1>6, <2>2
       DEF LockForEvidence, At, TypeInv, TypeOK, RequestTyped, Request, CreatePcs, EvidencePcs, DecisionPcs
  <2> QED
    BY <1>6, <2>1, <2>2, <2>3, MoveTyped DEF TypeInv, TypeOK, LockForEvidence, Acquire
<1>7. ASSUME NEW r \in Requests, ResolveVerifier(r) PROVE TypeInv'
  <2> DEFINE grade == Grade(req[r].user, req[r].item, row[req[r].cand].creator)
             next == [ req[r] EXCEPT !.pc = "record", !.grade = grade ]
  <2>1. grade \in IndependenceLevels
    BY <1>7, GateAssumption 
       DEF ResolveVerifier, At, TypeInv, RequestTyped, EvidencePcs, Grade, IndependenceLevels, Item
  <2> HIDE DEF grade
  <2>2. next \in Request
    BY <2>1 DEF TypeInv, TypeOK, Request
  <2>3. req' = [ req EXCEPT ![r] = next ] /\ UNCHANGED << tables, lock, members >>
    BY <1>7 DEF ResolveVerifier, TypeInv, TypeOK, Request, grade
  <2>4. RequestTyped(r)'
    <3>1. req'[r] = next
      BY <2>3 DEF TypeInv, TypeOK
    <3>2. /\ next.pc = "record" /\ next.grade = grade /\ next.user = req[r].user
          /\ next.cand = req[r].cand /\ next.item = req[r].item
      BY DEF TypeInv, TypeOK, Request
    <3>3. /\ req[r].pc = "resolve verifier" /\ req[r].item \in Items
          /\ req[r].user \in Users /\ req[r].cand \in Candidates /\ row[req[r].cand] # None
      BY <1>7 DEF ResolveVerifier, At, TypeInv, RequestTyped, EvidencePcs
    <3> HIDE DEF next
    <3> QED
      BY <2>1, <2>3, <3>1, <3>2, <3>3 DEF RequestTyped, CreatePcs, EvidencePcs, DecisionPcs
  <2> QED
    BY <2>2, <2>3, <2>4, MoveTyped DEF TypeInv, TypeOK
<1>8. ASSUME NEW r \in Requests, InsertEvidence(r) PROVE TypeInv'
  <2> DEFINE c == req[r].cand
             item == req[r].item
             new == [ requirement |-> item.requirement, kind |-> item.kind,
                      outcome |-> GroundedOutcome(item), independence |-> req[r].grade,
                      scanClean |-> item.scanClean, by |-> req[r].user, verifier |-> item.verifier ]
  <2>1. c \in Candidates /\ req[r].user \in Users /\ item \in Item /\ req[r].grade \in IndependenceLevels
    BY <1>8, GateAssumption DEF InsertEvidence, At, TypeInv, RequestTyped, EvidencePcs
  <2>2. GroundedOutcome(item) \in Outcomes
    BY <2>1 DEF GroundedOutcome, Item, Outcomes
  <2>3. new \in EvidenceRow
    BY <2>1, <2>2 DEF EvidenceRow, Item
  <2>4. ledger' \in [Candidates -> Seq(EvidenceRow)]
    BY <1>8, <2>1, <2>3 DEF InsertEvidence, TypeInv, TypeOK
  <2> QED
    BY <1>8, <2>4, FinishTyped, ReleaseTyped DEF InsertEvidence, TypeInv, TypeOK
<1>9. ASSUME NEW r \in Requests, LockForDecision(r) PROVE TypeInv'
  <2> DEFINE next == [ req[r] EXCEPT !.pc = "authorize" ]
  <2>1. next \in Request
    BY DEF TypeInv, TypeOK, Request
  <2>2. req' = [ req EXCEPT ![r] = next ] /\ UNCHANGED << tables, members >>
    BY <1>9 DEF LockForDecision, Advance, TypeInv, TypeOK, Request
  <2>3. RequestTyped(r)'
    BY <1>9, <2>2
       DEF LockForDecision, At, TypeInv, TypeOK, RequestTyped, Request, CreatePcs, EvidencePcs, DecisionPcs
  <2> QED
    BY <1>9, <2>1, <2>2, <2>3, MoveTyped DEF TypeInv, TypeOK, LockForDecision, Acquire
<1>10. ASSUME NEW r \in Requests, CheckAuthority(r) PROVE TypeInv'
  <2> DEFINE next == [ req[r] EXCEPT !.pc = "read evidence" ]
  <2>1. next \in Request
    BY DEF TypeInv, TypeOK, Request
  <2>2. req' = [ req EXCEPT ![r] = next ] /\ UNCHANGED << tables, lock, members >>
    BY <1>10 DEF CheckAuthority, Advance, TypeInv, TypeOK, Request
  <2>3. RequestTyped(r)'
    BY <1>10, <2>2
       DEF CheckAuthority, At, TypeInv, TypeOK, RequestTyped, Request, CreatePcs, EvidencePcs, DecisionPcs
  <2> QED
    BY <2>1, <2>2, <2>3, MoveTyped DEF TypeInv, TypeOK
<1>11. ASSUME NEW r \in Requests, ReadEvidence(r) PROVE TypeInv'
  <2> DEFINE next == [ req[r] EXCEPT !.pc = "sign", !.read = ledger[req[r].cand] ]
  <2>1. req[r].cand \in Candidates
    BY <1>11 DEF ReadEvidence, At, TypeInv, RequestTyped
  <2>2. next \in Request
    BY <2>1 DEF TypeInv, TypeOK, Request
  <2>3. req' = [ req EXCEPT ![r] = next ] /\ UNCHANGED << tables, lock, members >>
    BY <1>11 DEF ReadEvidence, TypeInv, TypeOK, Request
  <2>4. RequestTyped(r)'
    <3>1. req'[r] = next
      BY <2>3 DEF TypeInv, TypeOK
    <3>2. next.pc = "sign" /\ next.user = req[r].user /\ next.cand = req[r].cand
      BY DEF TypeInv, TypeOK, Request
    <3> QED
      BY <1>11, <2>3, <3>1, <3>2
         DEF ReadEvidence, At, TypeInv, RequestTyped, CreatePcs, EvidencePcs, DecisionPcs
  <2> QED
    BY <2>2, <2>3, <2>4, MoveTyped DEF TypeInv, TypeOK
<1>12. ASSUME NEW r \in Requests, CommitDecision(r) PROVE TypeInv'
  <2> DEFINE c == req[r].cand
             verdict == Verdict(row[c].policy.requirements, ToSet(req[r].read))
  <2>1. c \in Candidates /\ req[r].user \in Users /\ row[c] \in CandidateRow /\ row[c] # None
    BY <1>12 DEF CommitDecision, At, TypeInv, TypeOK, RequestTyped, DecisionPcs
  <2>2. verdict \in { "RELEASE", "BLOCK" } /\ req[r].read \in Seq(EvidenceRow)
    BY DEF Verdict, TypeInv, TypeOK, Request
  <2>3. [ row[c] EXCEPT !.status = FinalStatus(verdict) ] \in CandidateRow
    BY <2>1 DEF CandidateRow, FinalStatus
  <2>4. row' = [ row EXCEPT ![c] = [ row[c] EXCEPT !.status = FinalStatus(verdict) ] ]
    BY <1>12, <2>1 DEF CommitDecision, TypeInv, TypeOK, CandidateRow
  <2>5. receipt' = [ receipt EXCEPT ![c] = [ verdict |-> verdict, evidence |-> req[r].read ] ]
        /\ approval' = [ approval EXCEPT ![c] = req[r].user ]
    BY <1>12 DEF CommitDecision
  <2> HIDE DEF verdict
  <2>6. /\ row' \in [Candidates -> CandidateRow \cup {None}]
        /\ receipt' \in [Candidates -> Receipt \cup {None}]
        /\ approval' \in [Candidates -> Users \cup {None}]
    BY <2>1, <2>2, <2>3, <2>4, <2>5 DEF TypeInv, TypeOK, Receipt
  <2>7. \A d \in Candidates : row[d] # None => row'[d] # None
    BY <2>1, <2>3, <2>4, NoneAssumption DEF TypeInv, TypeOK
  <2> QED
    BY <1>12, <2>6, <2>7, FinishTyped, ReleaseTyped DEF CommitDecision, TypeInv, TypeOK
<1>13. ASSUME NEW r \in Requests, Rollback(r) PROVE TypeInv'
  <2>1. earlier' \in [Candidates -> SUBSET Candidates]
    BY <1>13 DEF Rollback, NeverCreated, TypeInv, TypeOK
  <2> QED
    BY <1>13, <2>1, FinishTyped, ReleaseTyped DEF Rollback, TypeInv, TypeOK
<1>14. ASSUME NEW u \in Users, NEW rl \in Roles, ChangeRole(u, rl) PROVE TypeInv'
  <2>1. req' \in [Requests -> Request]
    <3>1. \A q \in Requests : [ req[q] EXCEPT !.held = @ \cup {rl} ] \in Request
      BY DEF TypeInv, TypeOK, Request
    <3> QED
      BY <1>14, <3>1 DEF ChangeRole, TypeInv, TypeOK
  <2>2. \A q \in Requests : 
          /\ req'[q].pc = req[q].pc /\ req'[q].user = req[q].user /\ req'[q].cand = req[q].cand
          /\ req'[q].submission = req[q].submission /\ req'[q].policy = req[q].policy
          /\ req'[q].item = req[q].item /\ req'[q].grade = req[q].grade
    BY <1>14 DEF ChangeRole, TypeInv, TypeOK, Request
  <2>3. \A q \in Requests : RequestTyped(q)'
    BY <1>14, <2>2 DEF ChangeRole, TypeInv, RequestTyped
  <2> QED
    BY <1>14, <2>1, <2>3 DEF ChangeRole, TypeInv, TypeOK
<1>15. ASSUME NEW v \in Verifiers, DisableVerifier(v) PROVE TypeInv'
  BY <1>15 DEF DisableVerifier, TypeInv, TypeOK, RequestTyped
<1>16. CASE UNCHANGED vars
  BY <1>16 DEF vars, TypeInv, TypeOK, RequestTyped
<1> QED
  BY <1>1, <1>2, <1>3, <1>4, <1>5, <1>6, <1>7, <1>8, <1>9, <1>10, <1>11, <1>12, <1>13, <1>14,
     <1>15, <1>16 DEF Next, Proceed, Refuse, Abort

(* Every table row, lock and request has the shape the code gives it. *)
THEOREM TypeCorrect == Spec => []TypeOK
<1>1. Spec => []TypeInv
  BY TypeInit, TypeStep, PTL DEF Spec
<1> QED
  BY <1>1, PTL DEF TypeInv

-----------------------------------------------------------------------------
(* The inductive invariant.  A request past its FOR UPDATE holds the row   *)
(* lock of a frozen candidate, so what it has read of that candidate is    *)
(* still so; and the tables of a candidate are written together.           *)

LockedPcs == { "resolve verifier", "record", "authorize", "read evidence", "sign" }
AuthorizedPcs == { "read evidence", "sign" }

HoldsLock(r) ==
  req[r].pc \in LockedPcs => lock[req[r].cand] = r /\ Frozen(req[r].cand)

ReadIsCurrent(r) == req[r].pc = "sign" => req[r].read = ledger[req[r].cand]

IsAuthorized(r) ==
  req[r].pc \in AuthorizedPcs =>
    /\ SeparationOfDuties(req[r].user, req[r].cand)
    /\ \E rl \in req[r].held : RoleCanApproveRisk(rl, row[req[r].cand].policy.risk)

RoleWasHeld(r) == req[r].pc # "idle" => role[req[r].user] \in req[r].held

CreatesAlone(r) ==
  req[r].pc \in CreatePcs =>
    /\ row[req[r].cand] = None
    /\ \A q \in Requests \ {r} : req[q].cand # req[r].cand

PolicySound(policy) == ElevatedRisk(policy.risk) \/ ForceSeparate => policy.separate

CompiledSoundly(r) == req[r].pc = "insert" => PolicySound(req[r].policy)

RequestInv(r) ==
  /\ HoldsLock(r)
  /\ ReadIsCurrent(r)
  /\ IsAuthorized(r)
  /\ RoleWasHeld(r)
  /\ CreatesAlone(r)
  /\ CompiledSoundly(r)

\* A candidate is absent, or frozen and undecided, or decided in every table.
Absent(c) == row[c] = None /\ approval[c] = None /\ receipt[c] = None

Open(c) == row[c] # None /\ Frozen(c) /\ approval[c] = None /\ receipt[c] = None

Closed(c) ==
  /\ row[c] # None
  /\ receipt[c] # None
  /\ approval[c] \in Users
  /\ SeparationOfDuties(approval[c], c)
  /\ receipt[c].evidence = ledger[c]
  /\ receipt[c].verdict = Verdict(row[c].policy.requirements, ToSet(ledger[c]))
  /\ row[c].status = FinalStatus(receipt[c].verdict)

CandidateInv(c) ==
  /\ Absent(c) \/ Open(c) \/ Closed(c)
  /\ row[c] # None => PolicySound(row[c].policy)

GateInv ==
  /\ \A r \in Requests : RequestInv(r)
  /\ \A c \in Candidates : CandidateInv(c)

LEMMA GateInit == Init => GateInv
<1> SUFFICES ASSUME Init PROVE GateInv
  OBVIOUS
<1>1. ASSUME NEW r \in Requests PROVE RequestInv(r)
  <2>1. req[r].pc = "idle"
    BY DEF Init, Idle
  <2> QED
    BY <2>1 DEF RequestInv, HoldsLock, ReadIsCurrent, IsAuthorized, RoleWasHeld, CreatesAlone,
       CompiledSoundly, LockedPcs, AuthorizedPcs, CreatePcs
<1>2. ASSUME NEW c \in Candidates PROVE CandidateInv(c)
  BY DEF Init, CandidateInv, Absent
<1> QED
  BY <1>1, <1>2 DEF GateInv

\* A frozen candidate is open: what is decided is no longer frozen.
LEMMA FrozenIsOpen ==
  ASSUME TypeInv, GateInv, NEW c \in Candidates, row[c] # None, Frozen(c)
  PROVE  Open(c)
<1>1. ~Closed(c)
  BY DEF Closed, Frozen, FinalStatus
<1> QED
  BY <1>1 DEF GateInv, CandidateInv, Absent

\* A candidate that a step does not write keeps its invariant.
LEMMA UntouchedCandidate ==
  ASSUME NEW c \in Candidates, CandidateInv(c), row'[c] = row[c], ledger'[c] = ledger[c],
         approval'[c] = approval[c], receipt'[c] = receipt[c]
  PROVE  CandidateInv(c)'
  BY DEF CandidateInv, Absent, Open, Closed, Frozen, SeparationOfDuties, PolicySound

\* What a step of r does to another request q: nothing, as long as r writes
\* only rows that it has locked or is creating.
LEMMA OtherRequest ==
  ASSUME TypeInv, GateInv, NEW r \in Requests, NEW q \in Requests, q # r,
         req'[q] = req[q], role' = role,
         \A p \in Requests : p # r => req'[p] = req[p],
         req[q].pc \in CreatePcs => req'[r].cand # req[q].cand,
         \A c \in Candidates : lock[c] = q => lock'[c] = q,
         \A c \in Candidates :
           \/ row'[c] = row[c] /\ ledger'[c] = ledger[c]
           \/ lock[c] = r /\ row[c] # None
           \/ req[r].pc \in CreatePcs /\ c = req[r].cand
  PROVE  RequestInv(q)'
<1>1. RequestInv(q) /\ RequestInv(r) /\ RequestTyped(q) /\ RequestTyped(r)
  BY DEF GateInv, TypeInv
<1> DEFINE c == req[q].cand
<1>2. ASSUME req[q].pc \in LockedPcs
      PROVE  c \in Candidates /\ row[c] # None /\ lock[c] = q /\ row'[c] = row[c] /\ ledger'[c] = ledger[c]
  <2>1. c \in Candidates /\ row[c] # None
    BY <1>1, <1>2 DEF RequestTyped, LockedPcs, EvidencePcs, DecisionPcs
  <2>2. lock[c] = q
    BY <1>1, <1>2 DEF RequestInv, HoldsLock
  <2>3. ~(req[r].pc \in CreatePcs /\ c = req[r].cand)
    BY <1>1, <2>1 DEF RequestInv, CreatesAlone
  <2> QED
    BY <2>1, <2>2, <2>3
<1>3. ASSUME req[q].pc \in CreatePcs
      PROVE  row'[c] = None
  <2>1. c \in Candidates /\ row[c] = None /\ req[r].cand # c
    BY <1>1, <1>3 DEF RequestTyped, RequestInv, CreatesAlone, CreatePcs
  <2> QED
    BY <2>1
<1>4. HoldsLock(q)'
  BY <1>1, <1>2 DEF RequestInv, HoldsLock, Frozen
<1>5. ReadIsCurrent(q)'
  BY <1>1, <1>2 DEF RequestInv, ReadIsCurrent, LockedPcs
<1>6. IsAuthorized(q)'
  BY <1>1, <1>2 DEF RequestInv, IsAuthorized, LockedPcs, AuthorizedPcs, SeparationOfDuties
<1>7. RoleWasHeld(q)'
  BY <1>1 DEF RequestInv, RoleWasHeld
<1>8. CreatesAlone(q)'
  BY <1>1, <1>3 DEF RequestInv, CreatesAlone
<1>9. CompiledSoundly(q)'
  BY <1>1 DEF RequestInv, CompiledSoundly
<1> QED
  BY <1>4, <1>5, <1>6, <1>7, <1>8, <1>9 DEF RequestInv

\* A request that ends holds whatever idle requests hold, which is nothing.
LEMMA IdleRequest ==
  ASSUME TypeInv, NEW r \in Requests, Finish(r)
  PROVE  RequestInv(r)' /\ req'[r].cand = None /\ \A p \in Requests : p # r => req'[p] = req[p]
<1>1. req'[r] = Idle /\ \A p \in Requests : p # r => req'[p] = req[p]
  BY DEF Finish, TypeInv, TypeOK
<1>2. req'[r].pc = "idle" /\ req'[r].cand = None
  BY <1>1 DEF Idle
<1> QED
  BY <1>1, <1>2 DEF RequestInv, HoldsLock, ReadIsCurrent, IsAuthorized, RoleWasHeld, CreatesAlone,
     CompiledSoundly, LockedPcs, AuthorizedPcs, CreatePcs

\* The end of a request changes no other, whether it writes its candidate or not.
LEMMA FinishKeeps ==
  ASSUME TypeInv, GateInv, NEW r \in Requests, Finish(r), role' = role,
         lock' = lock \/ Release(r),
         \A c \in Candidates :
           \/ row'[c] = row[c] /\ ledger'[c] = ledger[c]
           \/ lock[c] = r /\ row[c] # None
           \/ req[r].pc \in CreatePcs /\ c = req[r].cand
  PROVE  \A q \in Requests : RequestInv(q)'
<1>1. RequestInv(r)' /\ req'[r].cand = None /\ \A p \in Requests : p # r => req'[p] = req[p]
  BY IdleRequest
<1>2. ASSUME NEW q \in Requests, q # r PROVE RequestInv(q)'
  <2>1. req[q].pc \in CreatePcs => req'[r].cand # req[q].cand
    BY <1>1, NoneAssumption DEF TypeInv, RequestTyped, CreatePcs
  <2>2. \A c \in Candidates : lock[c] = q => lock'[c] = q
    BY <1>2 DEF Release, TypeInv, TypeOK
  <2> QED
    BY <1>1, <1>2, <2>1, <2>2, OtherRequest
<1> QED
  BY <1>1, <1>2

\* A request that moves on without writing changes no other and no candidate.
LEMMA MoveKeeps ==
  ASSUME TypeInv, GateInv, NEW r \in Requests, NEW next \in Request,
         req' = [ req EXCEPT ![r] = next ], UNCHANGED tables, role' = role,
         \A q \in Requests \ {r} : req[q].pc \in CreatePcs => next.cand # req[q].cand,
         lock' = lock \/ (CanLock(next.cand) /\ Acquire(r, next.cand)),
         RequestInv(r)'
  PROVE  GateInv'
<1>1. req'[r] = next /\ \A p \in Requests : p # r => req'[p] = req[p]
  BY DEF TypeInv, TypeOK
<1>2. ASSUME NEW q \in Requests, q # r PROVE RequestInv(q)'
  <2>1. \A c \in Candidates : lock[c] = q => lock'[c] = q
    BY <1>2, NoneAssumption DEF CanLock, Acquire, TypeInv, TypeOK
  <2>2. row' = row /\ ledger' = ledger
    BY DEF tables
  <2>3. req[q].pc \in CreatePcs => req'[r].cand # req[q].cand
    BY <1>1, <1>2
  <2>4. \A c \in Candidates :
          \/ row'[c] = row[c] /\ ledger'[c] = ledger[c]
          \/ lock[c] = r /\ row[c] # None
          \/ req[r].pc \in CreatePcs /\ c = req[r].cand
    BY <2>2
  <2>5. req'[q] = req[q] /\ \A p \in Requests : p # r => req'[p] = req[p]
    BY <1>1, <1>2
  <2> QED
    BY <1>2, <2>1, <2>3, <2>4, <2>5, OtherRequest
<1>3. ASSUME NEW c \in Candidates PROVE CandidateInv(c)'
  BY UntouchedCandidate DEF tables, GateInv
<1> QED
  BY <1>2, <1>3 DEF GateInv

LEMMA GateStep == TypeInv /\ TypeInv' /\ GateInv /\ [Next]_vars => GateInv'
<1> SUFFICES ASSUME TypeInv, TypeInv', GateInv, [Next]_vars PROVE GateInv'
  OBVIOUS
<1>a. ASSUME NEW r \in Requests
      PROVE  /\ RequestInv(r) /\ RequestTyped(r) /\ req[r] \in Request
             /\ \A q \in Requests \ {r} : req[q].pc \in CreatePcs => req[r].cand # req[q].cand
  BY DEF GateInv, TypeInv, TypeOK, RequestInv, CreatesAlone
<1>1. ASSUME NEW r \in Requests, BeginCreate(r) PROVE GateInv'
  <2> PICK u \in Users, c \in Candidates, sub \in Submissions :
        /\ FreshId(c)
        /\ Begin(r, u, c, [ Idle EXCEPT !.pc = "baseline", !.submission = sub ])
    BY <1>1 DEF BeginCreate
  <2> DEFINE next == [ [ Idle EXCEPT !.pc = "baseline", !.submission = sub ]
                       EXCEPT !.user = u, !.cand = c, !.held = {role[u]} ]
  <2>1. /\ next.pc = "baseline" /\ next.user = u /\ next.cand = c /\ next.held = {role[u]}
    BY DEF Idle
  <2>2. req' = [ req EXCEPT ![r] = next ] /\ UNCHANGED << row, ledger, approval, receipt, lock, members >>
    BY <1>1 DEF BeginCreate, Begin
  <2> HIDE DEF next
  <2>3. req'[r] = next /\ \A q \in Requests : q # r => req'[q] = req[q]
    BY <2>2 DEF TypeInv, TypeOK
  <2>4. row[c] = None /\ \A q \in Requests : req[q].cand # c
    BY DEF FreshId, Existing
  <2>5. RequestInv(r)'
    BY <2>1, <2>2, <2>3, <2>4
       DEF RequestInv, HoldsLock, ReadIsCurrent, IsAuthorized, RoleWasHeld, CreatesAlone,
       CompiledSoundly, LockedPcs, AuthorizedPcs, CreatePcs, members
  <2>6. ASSUME NEW q \in Requests, q # r PROVE RequestInv(q)'
    <3>1. row' = row /\ ledger' = ledger /\ lock' = lock /\ role' = role
      BY <2>2 DEF members
    <3>2. req'[r].cand # req[q].cand /\ req'[q] = req[q]
      BY <2>1, <2>3, <2>4, <2>6
    <3> QED
      BY <2>3, <2>6, <3>1, <3>2, OtherRequest
  <2>7. ASSUME NEW d \in Candidates PROVE CandidateInv(d)'
    BY <2>2, UntouchedCandidate DEF GateInv
  <2> QED
    BY <2>5, <2>6, <2>7 DEF GateInv
<1>2. ASSUME NEW r \in Requests, NEW u \in Users, NEW c \in Existing, NEW first \in Request,
             first.pc \in { "lock evidence", "lock decision" },
             Begin(r, u, c, first), UNCHANGED << tables, lock, members >>
      PROVE  GateInv'
  <2> DEFINE next == [ first EXCEPT !.user = u, !.cand = c, !.held = {role[u]} ]
  <2>1. /\ next.pc = first.pc /\ next.user = u /\ next.cand = c /\ next.held = {role[u]}
        /\ next \in Request
    BY BeginTyped DEF Existing, Request
  <2>2. req' = [ req EXCEPT ![r] = next ]
    BY <1>2 DEF Begin
  <2> HIDE DEF next
  <2>3. req'[r] = next
    BY <2>2 DEF TypeInv, TypeOK
  <2>4. RequestInv(r)'
    BY <1>2, <2>1, <2>3
       DEF RequestInv, HoldsLock, ReadIsCurrent, IsAuthorized, RoleWasHeld, CreatesAlone,
       CompiledSoundly, LockedPcs, AuthorizedPcs, CreatePcs, members
  <2>5. \A q \in Requests \ {r} : req[q].pc \in CreatePcs => next.cand # req[q].cand
    BY <2>1, <1>a DEF RequestInv, CreatesAlone, Existing
  <2> QED
    <3>1. UNCHANGED tables /\ lock' = lock /\ role' = role
      BY <1>2 DEF members
    <3> QED
      BY <2>1, <2>2, <2>4, <2>5, <3>1, MoveKeeps
<1>3. ASSUME NEW r \in Requests, BeginEvidence(r) \/ BeginDecide(r) PROVE GateInv'
  <2>1. CASE BeginEvidence(r)
    <3> PICK u \in Users, c \in Existing, item \in Items :
          Begin(r, u, c, [ Idle EXCEPT !.pc = "lock evidence", !.item = item ])
      BY <2>1 DEF BeginEvidence
    <3>1. [ Idle EXCEPT !.pc = "lock evidence", !.item = item ] \in Request
      BY IdleTyped DEF Request
    <3>2. [ Idle EXCEPT !.pc = "lock evidence", !.item = item ].pc = "lock evidence"
      BY DEF Idle
    <3> QED
      BY <1>2, <2>1, <3>1, <3>2 DEF BeginEvidence
  <2>2. CASE BeginDecide(r)
    <3> PICK u \in Users, c \in Existing, shown \in Existing :
          Begin(r, u, c, [ Idle EXCEPT !.pc = "lock decision", !.policy = row[shown].policy ])
      BY <2>2 DEF BeginDecide
    <3>1. row[shown].policy \in GatePolicy
      BY DEF TypeInv, TypeOK, Existing, CandidateRow
    <3>2. [ Idle EXCEPT !.pc = "lock decision", !.policy = row[shown].policy ] \in Request
      BY <3>1, IdleTyped DEF Request
    <3>3. [ Idle EXCEPT !.pc = "lock decision", !.policy = row[shown].policy ].pc = "lock decision"
      BY DEF Idle
    <3> QED
      BY <1>2, <2>2, <3>2, <3>3 DEF BeginDecide
  <2> QED
    BY <1>3, <2>1, <2>2
<1>4. ASSUME NEW r \in Requests, NEW next \in Request, req' = [ req EXCEPT ![r] = next ],
             UNCHANGED tables, role' = role,
             lock' = lock \/ (CanLock(next.cand) /\ Acquire(r, next.cand)),
             next.cand = req[r].cand, RequestInv(r)'
      PROVE  GateInv'
  <2>1. \A q \in Requests \ {r} : req[q].pc \in CreatePcs => next.cand # req[q].cand
    BY <1>4, <1>a
  <2> QED
    BY <1>4, <2>1, MoveKeeps
<1>5. ASSUME NEW r \in Requests, ReadBaseline(r) PROVE GateInv'
  <2> DEFINE policy == FrozenPolicy(req[r].submission, PreviousCapabilities)
             next == [ req[r] EXCEPT !.pc = "insert", !.policy = policy ]
  <2>1. /\ policy \in GatePolicy
        /\ PolicySound(policy)
    BY <1>5, GateAssumption, FrozenPolicyFacts
       DEF ReadBaseline, At, TypeInv, RequestTyped, CreatePcs, PolicySound
  <2> HIDE DEF policy
  <2>2. /\ next \in Request /\ next.pc = "insert" /\ next.policy = policy
        /\ next.user = req[r].user /\ next.cand = req[r].cand /\ next.held = req[r].held
    BY <2>1 DEF TypeInv, TypeOK, Request
  <2>3. req' = [ req EXCEPT ![r] = next ] /\ UNCHANGED tables /\ lock' = lock /\ role' = role
    BY <1>5 DEF ReadBaseline, TypeInv, TypeOK, Request, policy, members
  <2> HIDE DEF next
  <2>4. req'[r] = next /\ \A q \in Requests \ {r} : req'[q] = req[q]
    BY <2>3 DEF TypeInv, TypeOK
  <2>5. RequestInv(r)'
    <3>1. req[r].pc = "baseline" /\ row' = row
      BY <1>5, <2>3 DEF ReadBaseline, At, tables
    <3>2. CreatesAlone(r)' /\ RoleWasHeld(r)'
      BY <1>a, <2>2, <2>3, <2>4, <3>1 DEF RequestInv, CreatesAlone, RoleWasHeld, CreatePcs
    <3> QED
      BY <2>1, <2>2, <2>4, <3>2
         DEF RequestInv, HoldsLock, ReadIsCurrent, IsAuthorized, CompiledSoundly, LockedPcs, AuthorizedPcs
  <2> QED
    BY <1>4, <2>2, <2>3, <2>5
<1>6. ASSUME NEW r \in Requests, InsertCandidate(r) PROVE GateInv'
  <2> PICK c \in Candidates : c = req[r].cand
    BY <1>6 DEF InsertCandidate, At, TypeInv, RequestTyped
  <2> DEFINE new == [ creator |-> req[r].user, version |-> req[r].submission.version,
                      caps |-> req[r].submission.caps, policy |-> req[r].policy, status |-> "frozen" ]
  <2>1. /\ req[r].pc = "insert" /\ c \in Candidates /\ row[c] = None /\ PolicySound(req[r].policy)
    BY <1>6, <1>a DEF InsertCandidate, At, RequestTyped, RequestInv, CreatesAlone, CompiledSoundly, CreatePcs
  <2>2. /\ row' = [ row EXCEPT ![c] = new ] /\ Finish(r) /\ role' = role /\ lock' = lock
        /\ UNCHANGED << approval, receipt >>
        /\ \A d \in Candidates : d # c => row'[d] = row[d] /\ ledger'[d] = ledger[d]
    BY <1>6 DEF InsertCandidate, members, TypeInv, TypeOK
  <2>3. \A q \in Requests : RequestInv(q)'
    <3>1. \A d \in Candidates :
            \/ row'[d] = row[d] /\ ledger'[d] = ledger[d]
            \/ lock[d] = r /\ row[d] # None
            \/ req[r].pc \in CreatePcs /\ d = req[r].cand
      BY <2>1, <2>2 DEF CreatePcs
    <3> QED
      BY <2>2, <3>1, FinishKeeps
  <2>4. CandidateInv(c)'
    <3>1. row'[c] = new
      BY <2>1, <2>2 DEF TypeInv, TypeOK
    <3>2. new # None
      BY <2>1, <3>1, NoneAssumption, <1>6, GateAssumption
         DEF TypeInv, TypeOK, RequestTyped, CandidateRow, CreatePcs, Submission
    <3>3. approval'[c] = None /\ receipt'[c] = None
      BY <2>1, <2>2 DEF GateInv, CandidateInv, Absent, Open, Closed
    <3>4. new.status = "frozen" /\ new.policy = req[r].policy
      OBVIOUS
    <3> HIDE DEF new
    <3> QED
      BY <2>1, <3>1, <3>2, <3>3, <3>4 DEF CandidateInv, Open, Frozen, PolicySound
  <2>5. ASSUME NEW d \in Candidates, d # c PROVE CandidateInv(d)'
    BY <2>2, <2>5, UntouchedCandidate DEF GateInv
  <2> QED
    BY <2>3, <2>4, <2>5 DEF GateInv
<1>7. ASSUME NEW r \in Requests, LockForEvidence(r) \/ LockForDecision(r) PROVE GateInv'
  <2> DEFINE pc == IF At(r, "lock evidence") THEN "resolve verifier" ELSE "authorize"
             next == [ req[r] EXCEPT !.pc = pc ]
  <2>1. /\ next \in Request /\ next.pc = pc /\ pc \in { "resolve verifier", "authorize" }
        /\ next.user = req[r].user /\ next.cand = req[r].cand /\ next.held = req[r].held
    BY DEF TypeInv, TypeOK, Request
  <2>2. /\ req' = [ req EXCEPT ![r] = next ] /\ UNCHANGED tables /\ role' = role
        /\ CanLock(req[r].cand) /\ Acquire(r, req[r].cand) /\ Frozen(req[r].cand)
        /\ req[r].pc # "idle"
    BY <1>7 DEF LockForEvidence, LockForDecision, MayRecord, MayDecide, Advance, At, members,
       TypeInv, TypeOK, Request
  <2> HIDE DEF next, pc
  <2>3. req'[r] = next
    BY <2>2 DEF TypeInv, TypeOK
  <2>4. lock'[req[r].cand] = r /\ row' = row
    BY <2>2, <1>a DEF Acquire, TypeInv, TypeOK, RequestTyped, tables
  <2>5. RequestInv(r)'
    BY <1>a, <2>1, <2>2, <2>3, <2>4
       DEF RequestInv, HoldsLock, ReadIsCurrent, IsAuthorized, RoleWasHeld, CreatesAlone,
       CompiledSoundly, Frozen, AuthorizedPcs, CreatePcs
  <2> QED
    BY <1>4, <2>1, <2>2, <2>5
<1>8. ASSUME NEW r \in Requests, ResolveVerifier(r) PROVE GateInv'
  <2> DEFINE grade == Grade(req[r].user, req[r].item, row[req[r].cand].creator)
             next == [ req[r] EXCEPT !.pc = "record", !.grade = grade ]
  <2>1. req' = [ req EXCEPT ![r] = next ] /\ UNCHANGED tables /\ lock' = lock /\ role' = role
    BY <1>8 DEF ResolveVerifier, TypeInv, TypeOK, Request, members
  <2>2. /\ next.pc = "record" /\ next.user = req[r].user /\ next.cand = req[r].cand
        /\ next.held = req[r].held
    BY DEF TypeInv, TypeOK, Request
  <2> HIDE DEF next
  <2>3. req'[r] = next /\ req[r].pc = "resolve verifier" /\ row' = row
    BY <1>8, <2>1 DEF TypeInv, TypeOK, ResolveVerifier, At, tables
  <2>4. next \in Request
    BY <2>3 DEF TypeInv, TypeOK
  <2>5. RequestInv(r)'
    <3>1. HoldsLock(r)'
      <4>1. lock[req[r].cand] = r /\ row[req[r].cand].status = "frozen"
        BY <1>a, <2>3 DEF RequestInv, HoldsLock, Frozen, LockedPcs
      <4>2. lock' = lock /\ row' = row /\ req'[r].cand = req[r].cand
        BY <2>1, <2>2, <2>3
      <4> QED
        BY <4>1, <4>2 DEF HoldsLock, Frozen
    <3>2. RoleWasHeld(r)'
      BY <1>a, <2>1, <2>2, <2>3 DEF RequestInv, RoleWasHeld
    <3> QED
      BY <2>2, <2>3, <3>1, <3>2
         DEF RequestInv, ReadIsCurrent, IsAuthorized, CreatesAlone, CompiledSoundly, AuthorizedPcs, CreatePcs
  <2> QED
    BY <1>4, <2>1, <2>2, <2>4, <2>5
<1>9. ASSUME NEW r \in Requests, InsertEvidence(r) PROVE GateInv'
  <2> PICK c \in Candidates : c = req[r].cand
    BY <1>9 DEF InsertEvidence, At, TypeInv, RequestTyped
  <2>1. req[r].pc = "record" /\ c \in Candidates /\ lock[c] = r /\ row[c] # None /\ Frozen(c)
    BY <1>9, <1>a
       DEF InsertEvidence, At, RequestTyped, RequestInv, HoldsLock, LockedPcs, EvidencePcs
  <2>2. /\ UNCHANGED << row, approval, receipt, role >> /\ Release(r) /\ Finish(r)
        /\ \A d \in Candidates : d # c => ledger'[d] = ledger[d]
    BY <1>9 DEF InsertEvidence, members, TypeInv, TypeOK
  <2>3. \A q \in Requests : RequestInv(q)'
    <3>1. \A d \in Candidates :
            \/ row'[d] = row[d] /\ ledger'[d] = ledger[d]
            \/ lock[d] = r /\ row[d] # None
            \/ req[r].pc \in CreatePcs /\ d = req[r].cand
      BY <2>1, <2>2
    <3> QED
      BY <2>2, <3>1, FinishKeeps
  <2>4. CandidateInv(c)'
    BY <2>1, <2>2, FrozenIsOpen DEF GateInv, CandidateInv, Open, Frozen, PolicySound
  <2>5. ASSUME NEW d \in Candidates, d # c PROVE CandidateInv(d)'
    BY <2>2, <2>5, UntouchedCandidate DEF GateInv
  <2> QED
    BY <2>3, <2>4, <2>5 DEF GateInv
<1>10. ASSUME NEW r \in Requests, CheckAuthority(r) PROVE GateInv'
  <2> DEFINE next == [ req[r] EXCEPT !.pc = "read evidence" ]
  <2>1. req' = [ req EXCEPT ![r] = next ] /\ UNCHANGED tables /\ lock' = lock /\ role' = role
    BY <1>10 DEF CheckAuthority, Advance, TypeInv, TypeOK, Request, members
  <2>2. /\ next.pc = "read evidence" /\ next.user = req[r].user /\ next.cand = req[r].cand
        /\ next.held = req[r].held
    BY DEF TypeInv, TypeOK, Request
  <2> HIDE DEF next
  <2>3. /\ req'[r] = next /\ req[r].pc = "authorize" /\ row' = row
        /\ MayApprove(req[r].user, req[r].cand)
    BY <1>10, <2>1 DEF TypeInv, TypeOK, CheckAuthority, At, tables
  <2>4. next \in Request
    BY <2>3 DEF TypeInv, TypeOK
  <2>5. IsAuthorized(r)'
    BY <1>a, <2>2, <2>3 DEF IsAuthorized, MayApprove, RequestInv, RoleWasHeld, SeparationOfDuties
  <2>6. RequestInv(r)'
    <3>1. HoldsLock(r)'
      <4>1. lock[req[r].cand] = r /\ row[req[r].cand].status = "frozen"
        BY <1>a, <2>3 DEF RequestInv, HoldsLock, Frozen, LockedPcs
      <4>2. lock' = lock /\ row' = row /\ req'[r].cand = req[r].cand
        BY <2>1, <2>2, <2>3
      <4> QED
        BY <4>1, <4>2 DEF HoldsLock, Frozen
    <3>2. RoleWasHeld(r)'
      BY <1>a, <2>1, <2>2, <2>3 DEF RequestInv, RoleWasHeld
    <3> QED
      BY <2>2, <2>3, <2>5, <3>1, <3>2
         DEF RequestInv, ReadIsCurrent, CreatesAlone, CompiledSoundly, CreatePcs
  <2> QED
    BY <1>4, <2>1, <2>2, <2>4, <2>6
<1>11. ASSUME NEW r \in Requests, ReadEvidence(r) PROVE GateInv'
  <2> DEFINE next == [ req[r] EXCEPT !.pc = "sign", !.read = ledger[req[r].cand] ]
  <2>1. req' = [ req EXCEPT ![r] = next ] /\ UNCHANGED tables /\ lock' = lock /\ role' = role
    BY <1>11 DEF ReadEvidence, TypeInv, TypeOK, Request, members
  <2>2. /\ next.pc = "sign" /\ next.user = req[r].user /\ next.cand = req[r].cand
        /\ next.held = req[r].held /\ next.read = ledger[req[r].cand]
    BY DEF TypeInv, TypeOK, Request
  <2> HIDE DEF next
  <2>3. req'[r] = next /\ req[r].pc = "read evidence" /\ row' = row /\ ledger' = ledger
    BY <1>11, <2>1 DEF TypeInv, TypeOK, ReadEvidence, At, tables
  <2>4. next \in Request
    BY <2>3 DEF TypeInv, TypeOK
  <2>5. IsAuthorized(r)' /\ ReadIsCurrent(r)'
    BY <1>a, <2>2, <2>3 DEF IsAuthorized, ReadIsCurrent, RequestInv, SeparationOfDuties, AuthorizedPcs
  <2>6. RequestInv(r)'
    <3>1. HoldsLock(r)'
      <4>1. lock[req[r].cand] = r /\ row[req[r].cand].status = "frozen"
        BY <1>a, <2>3 DEF RequestInv, HoldsLock, Frozen, LockedPcs
      <4>2. lock' = lock /\ row' = row /\ req'[r].cand = req[r].cand
        BY <2>1, <2>2, <2>3
      <4> QED
        BY <4>1, <4>2 DEF HoldsLock, Frozen
    <3>2. RoleWasHeld(r)'
      BY <1>a, <2>1, <2>2, <2>3 DEF RequestInv, RoleWasHeld
    <3> QED
      BY <2>2, <2>3, <2>5, <3>1, <3>2 DEF RequestInv, CreatesAlone, CompiledSoundly, CreatePcs
  <2> QED
    BY <1>4, <2>1, <2>2, <2>4, <2>6
<1>12. ASSUME NEW r \in Requests, CommitDecision(r) PROVE GateInv'
  <2> PICK c \in Candidates : c = req[r].cand
    BY <1>12 DEF CommitDecision, At, TypeInv, RequestTyped
  <2> DEFINE verdict == Verdict(row[c].policy.requirements, ToSet(req[r].read))
  <2>1. /\ req[r].pc = "sign" /\ c \in Candidates /\ lock[c] = r /\ row[c] # None /\ Frozen(c)
        /\ req[r].read = ledger[c] /\ SeparationOfDuties(req[r].user, c) /\ req[r].user \in Users
    BY <1>12, <1>a
       DEF CommitDecision, At, RequestTyped, RequestInv, HoldsLock, ReadIsCurrent, IsAuthorized,
       LockedPcs, AuthorizedPcs, DecisionPcs
  <2>2. /\ row' = [ row EXCEPT ![c].status = FinalStatus(verdict) ]
        /\ receipt' = [ receipt EXCEPT ![c] = [ verdict |-> verdict, evidence |-> req[r].read ] ]
        /\ approval' = [ approval EXCEPT ![c] = req[r].user ]
        /\ Release(r) /\ Finish(r) /\ UNCHANGED << ledger, role >>
    BY <1>12 DEF CommitDecision, members
  <2> HIDE DEF verdict
  <2>3. \A d \in Candidates : d # c => /\ row'[d] = row[d] /\ ledger'[d] = ledger[d]
                                     /\ approval'[d] = approval[d] /\ receipt'[d] = receipt[d]
    BY <2>2 DEF TypeInv, TypeOK
  <2>4. \A q \in Requests : RequestInv(q)'
    <3>1. \A d \in Candidates :
            \/ row'[d] = row[d] /\ ledger'[d] = ledger[d]
            \/ lock[d] = r /\ row[d] # None
            \/ req[r].pc \in CreatePcs /\ d = req[r].cand
      BY <2>1, <2>3
    <3> QED
      BY <2>2, <3>1, FinishKeeps
  <2>5. CandidateInv(c)'
    <3>1. row[c] \in CandidateRow
      BY <2>1 DEF TypeInv, TypeOK
    <3>2. /\ row'[c] = [ row[c] EXCEPT !.status = FinalStatus(verdict) ]
          /\ receipt'[c] = [ verdict |-> verdict, evidence |-> ledger[c] ]
          /\ approval'[c] = req[r].user /\ ledger'[c] = ledger[c]
      BY <2>1, <2>2 DEF TypeInv, TypeOK
    <3>3. /\ row'[c].policy = row[c].policy /\ row'[c].creator = row[c].creator
          /\ row'[c].status = FinalStatus(verdict)
      BY <3>1, <3>2 DEF CandidateRow
    <3>4. row'[c] # None /\ receipt'[c] # None
      <4>1. row'[c] \in CandidateRow
        BY <3>1, <3>2 DEF CandidateRow, FinalStatus
      <4>2. receipt'[c] \in Receipt
        BY <2>1, <3>2 DEF Receipt, TypeInv, TypeOK, Verdict, verdict
      <4> QED
        BY <4>1, <4>2, NoneAssumption
    <3>5. Closed(c)'
      BY <2>1, <3>2, <3>3, <3>4 DEF Closed, SeparationOfDuties, verdict
    <3>6. PolicySound(row[c].policy)
      BY <2>1 DEF GateInv, CandidateInv
    <3> QED
      BY <3>3, <3>5, <3>6 DEF CandidateInv, PolicySound
  <2>6. ASSUME NEW d \in Candidates, d # c PROVE CandidateInv(d)'
    BY <2>3, <2>6, UntouchedCandidate DEF GateInv
  <2> QED
    BY <2>4, <2>5, <2>6 DEF GateInv
<1>13. ASSUME NEW r \in Requests, Rollback(r) PROVE GateInv'
  <2>1. UNCHANGED << row, ledger, approval, receipt, role >> /\ Release(r) /\ Finish(r)
    BY <1>13 DEF Rollback, members
  <2>2. \A q \in Requests : RequestInv(q)'
    BY <2>1, FinishKeeps
  <2>3. ASSUME NEW d \in Candidates PROVE CandidateInv(d)'
    BY <2>1, UntouchedCandidate DEF GateInv
  <2> QED
    BY <2>2, <2>3 DEF GateInv
<1>14. ASSUME NEW u \in Users, NEW rl \in Roles, ChangeRole(u, rl) PROVE GateInv'
  <2>1. UNCHANGED << row, ledger, approval, receipt, lock >> /\ role' = [ role EXCEPT ![u] = rl ]
    BY <1>14 DEF ChangeRole, tables
  <2>2. \A q \in Requests :
          /\ req'[q].pc = req[q].pc /\ req'[q].user = req[q].user /\ req'[q].cand = req[q].cand
          /\ req'[q].policy = req[q].policy /\ req'[q].read = req[q].read
          /\ req[q].held \subseteq req'[q].held
          /\ req[q].user = u => rl \in req'[q].held
    <3>1. ASSUME NEW q \in Requests
          PROVE  /\ req[q] \in Request
                 /\ req'[q] = IF req[q].user = u THEN [ req[q] EXCEPT !.held = @ \cup {rl} ] ELSE req[q]
      BY <1>14 DEF ChangeRole, TypeInv, TypeOK
    <3>2. ASSUME NEW q \in Requests, req[q].user = u
          PROVE  req[q].held \subseteq req'[q].held /\ rl \in req'[q].held
      <4>1. req[q] \in Request /\ req'[q] = [ req[q] EXCEPT !.held = req[q].held \cup {rl} ]
        BY <3>1, <3>2
      <4>2. req'[q].held = req[q].held \cup {rl}
        BY <4>1 DEF Request
      <4> QED
        BY <4>2
    <3>3. ASSUME NEW q \in Requests, req[q].user # u PROVE req'[q] = req[q]
      BY <3>1, <3>3
    <3>4. ASSUME NEW q \in Requests
          PROVE  /\ req'[q].pc = req[q].pc /\ req'[q].user = req[q].user /\ req'[q].cand = req[q].cand
                 /\ req'[q].policy = req[q].policy /\ req'[q].read = req[q].read
      BY <3>1 DEF Request
    <3> QED
      BY <3>2, <3>3, <3>4
  <2>3. ASSUME NEW q \in Requests PROVE RequestInv(q)'
    <3>1. RoleWasHeld(q)'
      BY <2>1, <2>2, <1>a DEF RequestInv, RoleWasHeld, RequestTyped, TypeInv, TypeOK
    <3>2. IsAuthorized(q)'
      BY <2>1, <2>2, <1>a DEF RequestInv, IsAuthorized, SeparationOfDuties
    <3>3. HoldsLock(q)' /\ ReadIsCurrent(q)' /\ CreatesAlone(q)' /\ CompiledSoundly(q)'
      BY <2>1, <2>2, <1>a
         DEF RequestInv, HoldsLock, ReadIsCurrent, CreatesAlone, CompiledSoundly, Frozen
    <3> QED
      BY <3>1, <3>2, <3>3 DEF RequestInv
  <2>4. ASSUME NEW d \in Candidates PROVE CandidateInv(d)'
    BY <2>1, UntouchedCandidate DEF GateInv
  <2> QED
    BY <2>3, <2>4 DEF GateInv
<1>15. ASSUME UNCHANGED << row, ledger, approval, receipt, lock, role, req >> PROVE GateInv'
  BY <1>15 DEF GateInv, RequestInv, HoldsLock, ReadIsCurrent, IsAuthorized, RoleWasHeld, CreatesAlone,
     CompiledSoundly, CandidateInv, Absent, Open, Closed, Frozen, SeparationOfDuties, PolicySound
<1>16. ASSUME NEW v \in Verifiers, DisableVerifier(v) PROVE GateInv'
  BY <1>15, <1>16 DEF DisableVerifier, tables
<1>17. CASE UNCHANGED vars
  BY <1>15, <1>17 DEF vars
<1> QED
  BY <1>1, <1>3, <1>5, <1>6, <1>7, <1>8, <1>9, <1>10, <1>11, <1>12, <1>13, <1>14, <1>16, <1>17
     DEF Next, Proceed, Refuse, Abort

LEMMA GateInvariant == Spec => [](TypeInv /\ GateInv)
<1>1. Spec => []TypeInv
  BY TypeInit, TypeStep, PTL DEF Spec
<1>2. Init => GateInv
  BY GateInit
<1> QED
  BY <1>1, <1>2, GateStep, PTL DEF Spec

-----------------------------------------------------------------------------
(* Decisions.                                                              *)

(* A receipt covers all the evidence there will ever be, and its verdict is the
   policy's on exactly that evidence. *)
THEOREM ReceiptIsCompleteHolds == Spec => []ReceiptIsComplete
<1>1. ASSUME GateInv PROVE ReceiptIsComplete
  BY <1>1 DEF GateInv, CandidateInv, Absent, Open, Closed, ReceiptIsComplete, Decided
<1> QED
  BY <1>1, GateInvariant, PTL

(* The candidate, its approval and its receipt tell the same story. *)
THEOREM TablesAgreeHolds == Spec => []TablesAgree
<1>1. ASSUME GateInv PROVE TablesAgree
  <2> SUFFICES ASSUME NEW c \in Candidates
               PROVE  /\ Decided(c) <=> approval[c] # None
                      /\ Decided(c) <=> c \in Existing /\ ~Frozen(c)
                      /\ Released(c) <=> Decided(c) /\ receipt[c].verdict = "RELEASE"
    BY DEF TablesAgree
  <2>1. CASE Absent(c)
    BY <2>1 DEF Absent, Decided, Existing, Released
  <2>2. CASE Open(c)
    BY <2>2 DEF Open, Decided, Existing, Frozen, Released
  <2>3. CASE Closed(c)
    BY <2>3, NoneAssumption DEF Closed, Decided, Existing, Frozen, Released, FinalStatus
  <2> QED
    BY <1>1, <2>1, <2>2, <2>3 DEF GateInv, CandidateInv
<1> QED
  BY <1>1, GateInvariant, PTL

(* Nobody decides their own candidate when its risk is high or critical or the
   deployment demands a separate approver. *)
THEOREM FourEyesHolds == Spec => []FourEyes
<1>1. ASSUME GateInv PROVE FourEyes
  BY <1>1 DEF GateInv, CandidateInv, Absent, Open, Closed, FourEyes, Decided, PolicySound,
     SeparationOfDuties
<1> QED
  BY <1>1, GateInvariant, PTL

\* The only writers: a request that creates, records or decides its candidate.
LEMMA Writers ==
  ASSUME TypeInv, [Next]_vars, NEW c \in Candidates,
         << row[c], ledger[c], approval[c], receipt[c] >>' # << row[c], ledger[c], approval[c], receipt[c] >>
  PROVE  \E r \in Requests : 
           /\ req[r].cand = c
           /\ InsertCandidate(r) \/ InsertEvidence(r) \/ CommitDecision(r)
<1> USE DEF tables, members
<1>1. ASSUME NEW r \in Requests,
             \/ BeginCreate(r) \/ BeginEvidence(r) \/ BeginDecide(r) \/ ReadBaseline(r)
             \/ LockForEvidence(r) \/ ResolveVerifier(r) \/ LockForDecision(r) \/ CheckAuthority(r)
             \/ ReadEvidence(r) \/ Rollback(r)
      PROVE  FALSE
  BY <1>1 DEF BeginCreate, BeginEvidence, BeginDecide, ReadBaseline, LockForEvidence, ResolveVerifier,
     LockForDecision, CheckAuthority, ReadEvidence, Rollback
<1>2. ASSUME NEW r \in Requests, InsertCandidate(r) \/ InsertEvidence(r) \/ CommitDecision(r)
      PROVE  req[r].cand = c
  BY <1>2 DEF InsertCandidate, InsertEvidence, CommitDecision, TypeInv, TypeOK
<1>3. ASSUME NEW u \in Users, NEW rl \in Roles, ChangeRole(u, rl) PROVE FALSE
  BY <1>3 DEF ChangeRole
<1>4. ASSUME NEW v \in Verifiers, DisableVerifier(v) PROVE FALSE
  BY <1>4 DEF DisableVerifier
<1>5. CASE UNCHANGED vars
  BY <1>5 DEF vars
<1> QED
  BY <1>1, <1>2, <1>3, <1>4, <1>5 DEF Next, Proceed, Refuse, Abort

\* A request that is about to write has an undecided candidate.
LEMMA WritersAreUndecided ==
  ASSUME TypeInv, GateInv, NEW r \in Requests,
         InsertCandidate(r) \/ InsertEvidence(r) \/ CommitDecision(r)
  PROVE  req[r].cand \in Candidates /\ ~Decided(req[r].cand)
<1>1. RequestInv(r) /\ RequestTyped(r) /\ req[r].pc \in { "insert", "record", "sign" }
  BY DEF GateInv, TypeInv, InsertCandidate, InsertEvidence, CommitDecision, At
<1>2. req[r].cand \in Candidates /\ CandidateInv(req[r].cand)
  BY <1>1 DEF RequestTyped, GateInv
<1>3. CASE req[r].pc = "insert"
  BY <1>1, <1>2, <1>3
     DEF RequestInv, CreatesAlone, CreatePcs, CandidateInv, Absent, Open, Closed, Decided
<1>4. CASE req[r].pc \in { "record", "sign" }
  <2>1. Frozen(req[r].cand) /\ row[req[r].cand] # None
    BY <1>1, <1>4 DEF RequestInv, HoldsLock, LockedPcs, RequestTyped, EvidencePcs, DecisionPcs
  <2> QED
    BY <1>2, <2>1, FrozenIsOpen DEF Open, Decided
<1> QED
  BY <1>1, <1>2, <1>3, <1>4

(* A decision is final. *)
THEOREM DecidedForGoodHolds == Spec => DecidedForGood
<1> DEFINE Kept == \A c \in Candidates : Decided(c) =>
                     << row[c], ledger[c], approval[c], receipt[c] >>'
                       = << row[c], ledger[c], approval[c], receipt[c] >>
<1>1. TypeInv /\ GateInv /\ [Next]_vars => [Kept]_vars
  BY Writers, WritersAreUndecided
<1> HIDE DEF Kept
<1>2. Spec => [][Kept]_vars
  BY <1>1, GateInvariant, PTL DEF Spec
<1> QED
  BY <1>2 DEF DecidedForGood, Kept

(* The approver had the authority at some instant while the request ran. *)
THEOREM ApproverHadAuthorityHolds == Spec => ApproverHadAuthority
<1> DEFINE Authorized ==
      \A c \in Candidates : ~Decided(c) /\ Decided(c)' =>
        \E r \in Requests :
          /\ req[r].cand = c
          /\ req[r].user = approval'[c]
          /\ \E rl \in req[r].held : RoleCanApproveRisk(rl, row[c].policy.risk)
<1>1. ASSUME TypeInv, GateInv, [Next]_vars PROVE Authorized
  <2> SUFFICES ASSUME NEW c \in Candidates, ~Decided(c), Decided(c)'
               PROVE  \E r \in Requests :
                        /\ req[r].cand = c
                        /\ req[r].user = approval'[c]
                        /\ \E rl \in req[r].held : RoleCanApproveRisk(rl, row[c].policy.risk)
    OBVIOUS
  <2>1. receipt'[c] # receipt[c]
    BY DEF Decided
  <2>2. PICK r \in Requests : /\ req[r].cand = c
                              /\ InsertCandidate(r) \/ InsertEvidence(r) \/ CommitDecision(r)
    BY <1>1, <2>1, Writers
  <2>3. CommitDecision(r)
    BY <2>1, <2>2 DEF InsertCandidate, InsertEvidence
  <2>4. approval'[c] = req[r].user
    BY <1>1, <2>2, <2>3 DEF CommitDecision, TypeInv, TypeOK
  <2>5. \E rl \in req[r].held : RoleCanApproveRisk(rl, row[c].policy.risk)
    BY <1>1, <2>2, <2>3 DEF CommitDecision, At, GateInv, RequestInv, IsAuthorized, AuthorizedPcs
  <2> QED
    BY <2>2, <2>4, <2>5
<1>2. TypeInv /\ GateInv /\ [Next]_vars => [Authorized]_vars
  BY <1>1
<1> HIDE DEF Authorized
<1>3. Spec => [][Authorized]_vars
  BY <1>2, GateInvariant, PTL DEF Spec
<1> QED
  BY <1>3 DEF ApproverHadAuthority, Authorized

-----------------------------------------------------------------------------
(* Evidence.  What a ledger holds answers its plan, is graded by who sent  *)
(* it, and is grounded where the server knows better than the caller.      *)

Planned(requirement, kind, policy) ==
  \E q \in policy.requirements : q.id = requirement /\ kind \in q.kinds

RequestEvidence(r) ==
  /\ req[r].pc \in { "resolve verifier", "record" } =>
       Planned(req[r].item.requirement, req[r].item.kind, row[req[r].cand].policy)
  /\ req[r].pc = "record" =>
       req[r].grade = Grade(req[r].user, req[r].item, row[req[r].cand].creator)
  /\ req[r].pc = "insert" =>
       /\ Demands(req[r].policy.requirements) \subseteq Catalogue
       /\ Baseline \subseteq Demands(req[r].policy.requirements)

Genuine(e, c) ==
  /\ Planned(e.requirement, e.kind, row[c].policy)
  /\ e.independence = Grade(e.by, e, row[c].creator)
  /\ e.requirement = "HF-CAP-001" /\ ~e.scanClean => e.outcome = "fail"

CandidateEvidence(c) ==
  row[c] # None =>
    /\ Demands(row[c].policy.requirements) \subseteq Catalogue
    /\ \A e \in ToSet(ledger[c]) : Genuine(e, c)

EvidenceInv ==
  /\ \A r \in Requests : RequestEvidence(r)
  /\ \A c \in Candidates : CandidateEvidence(c)

LEMMA ToSetAppend ==
  ASSUME NEW S, NEW s \in Seq(S), NEW e
  PROVE  ToSet(Append(s, e)) = ToSet(s) \cup {e}
<1>1. /\ DOMAIN s = 1 .. Len(s) /\ Len(s) \in Nat
      /\ DOMAIN Append(s, e) = 1 .. Len(s) + 1
      /\ \A i \in 1 .. Len(s) : Append(s, e)[i] = s[i]
      /\ Append(s, e)[Len(s) + 1] = e
  OBVIOUS
<1>2. \A i \in 1 .. Len(s) + 1 : i \in 1 .. Len(s) \/ i = Len(s) + 1
  BY <1>1
<1>3. Len(s) + 1 \in 1 .. Len(s) + 1 /\ \A i \in 1 .. Len(s) : i \in 1 .. Len(s) + 1
  BY <1>1
<1>4. ToSet(Append(s, e)) \subseteq ToSet(s) \cup {e}
  BY <1>1, <1>2 DEF ToSet
<1>5. ToSet(s) \cup {e} \subseteq ToSet(Append(s, e))
  BY <1>1, <1>3 DEF ToSet
<1> QED
  BY <1>4, <1>5

\* What is frozen with a candidate never changes, and it stays released.
LEMMA PlanIsFixed ==
  ASSUME TypeInv, GateInv, [Next]_vars, NEW c \in Candidates, row[c] # None
  PROVE  /\ row'[c] # None /\ row'[c].policy = row[c].policy /\ row'[c].creator = row[c].creator
         /\ row'[c].caps = row[c].caps /\ row'[c].version = row[c].version
         /\ Released(c) => Released(c)'
<1>1. CASE row'[c] = row[c]
  BY <1>1 DEF Released, Existing
<1>2. CASE row'[c] # row[c]
  <2>1. PICK r \in Requests : /\ req[r].cand = c
                              /\ InsertCandidate(r) \/ InsertEvidence(r) \/ CommitDecision(r)
    BY <1>2, Writers
  <2>2. CommitDecision(r)
    BY <1>2, <2>1 DEF InsertCandidate, InsertEvidence, At, GateInv, RequestInv, CreatesAlone, CreatePcs
  <2>3. /\ row[c] \in CandidateRow /\ ~Released(c)
        /\ \E status \in { "released", "blocked" } : row'[c] = [ row[c] EXCEPT !.status = status ]
    BY <2>1, <2>2, WritersAreUndecided, FrozenIsOpen
       DEF CommitDecision, At, TypeInv, TypeOK, GateInv, RequestInv, HoldsLock, LockedPcs, Frozen,
       Released, FinalStatus
  <2>4. \A status \in { "released", "blocked" } : [ row[c] EXCEPT !.status = status ] \in CandidateRow
    BY <2>3 DEF CandidateRow
  <2> QED
    BY <2>3, <2>4, NoneAssumption DEF CandidateRow
<1> QED
  BY <1>1, <1>2

SameRequest(q) ==
  /\ req'[q].pc = req[q].pc /\ req'[q].user = req[q].user /\ req'[q].cand = req[q].cand
  /\ req'[q].item = req[q].item /\ req'[q].policy = req[q].policy
  /\ req'[q].grade = req[q].grade /\ req'[q].submission = req[q].submission

\* A request is where it was, or at a first or last statement, or it moved.
LEMMA Moves ==
  ASSUME TypeInv, [Next]_vars, NEW q \in Requests
  PROVE  \/ SameRequest(q)
         \/ req'[q].pc \in { "idle", "baseline", "lock evidence", "lock decision" }
         \/ ReadBaseline(q) \/ LockForEvidence(q) \/ ResolveVerifier(q)
         \/ LockForDecision(q) \/ CheckAuthority(q) \/ ReadEvidence(q)
<1>1. ASSUME NEW r \in Requests, NEW u, NEW c, NEW first \in Request, Begin(r, u, c, first),
             first.pc \in { "baseline", "lock evidence", "lock decision" }
      PROVE  SameRequest(q) \/ req'[q].pc \in { "baseline", "lock evidence", "lock decision" }
  BY <1>1 DEF Begin, TypeInv, TypeOK, SameRequest, Request
<1>2. ASSUME NEW r \in Requests, BeginCreate(r) \/ BeginEvidence(r) \/ BeginDecide(r)
      PROVE  SameRequest(q) \/ req'[q].pc \in { "baseline", "lock evidence", "lock decision" }
  <2>1. CASE BeginCreate(r)
    <3> PICK u \in Users, c \in Candidates, sub \in Submissions :
          Begin(r, u, c, [ Idle EXCEPT !.pc = "baseline", !.submission = sub ])
      BY <2>1 DEF BeginCreate
    <3>1. [ Idle EXCEPT !.pc = "baseline", !.submission = sub ] \in Request
      BY IdleTyped DEF Request
    <3>2. [ Idle EXCEPT !.pc = "baseline", !.submission = sub ].pc = "baseline"
      BY DEF Idle
    <3> QED
      BY <1>1, <3>1, <3>2
  <2>2. CASE BeginEvidence(r)
    <3> PICK u \in Users, c \in Existing, item \in Items :
          Begin(r, u, c, [ Idle EXCEPT !.pc = "lock evidence", !.item = item ])
      BY <2>2 DEF BeginEvidence
    <3>1. [ Idle EXCEPT !.pc = "lock evidence", !.item = item ] \in Request
      BY IdleTyped DEF Request
    <3>2. [ Idle EXCEPT !.pc = "lock evidence", !.item = item ].pc = "lock evidence"
      BY DEF Idle
    <3> QED
      BY <1>1, <3>1, <3>2
  <2>3. CASE BeginDecide(r)
    <3> PICK u \in Users, c \in Existing, shown \in Existing :
          Begin(r, u, c, [ Idle EXCEPT !.pc = "lock decision", !.policy = row[shown].policy ])
      BY <2>3 DEF BeginDecide
    <3>1. row[shown].policy \in GatePolicy
      BY DEF TypeInv, TypeOK, Existing, CandidateRow
    <3>2. [ Idle EXCEPT !.pc = "lock decision", !.policy = row[shown].policy ] \in Request
      BY <3>1, IdleTyped DEF Request
    <3>3. [ Idle EXCEPT !.pc = "lock decision", !.policy = row[shown].policy ].pc = "lock decision"
      BY DEF Idle
    <3> QED
      BY <1>1, <3>2, <3>3
  <2> QED
    BY <1>2, <2>1, <2>2, <2>3
<1>3. ASSUME NEW r \in Requests, q # r,
             \/ ReadBaseline(r) \/ LockForEvidence(r) \/ ResolveVerifier(r)
             \/ LockForDecision(r) \/ CheckAuthority(r) \/ ReadEvidence(r)
      PROVE  SameRequest(q)
  BY <1>3 DEF ReadBaseline, LockForEvidence, ResolveVerifier, LockForDecision, CheckAuthority,
     ReadEvidence, Advance, TypeInv, TypeOK, SameRequest
<1>4. ASSUME NEW r \in Requests,
             InsertCandidate(r) \/ InsertEvidence(r) \/ CommitDecision(r) \/ Rollback(r)
      PROVE  SameRequest(q) \/ req'[q].pc = "idle"
  <2>1. req' = [ req EXCEPT ![r] = Idle ]
    BY <1>4 DEF InsertCandidate, InsertEvidence, CommitDecision, Rollback, Finish
  <2> QED
    BY <2>1 DEF TypeInv, TypeOK, SameRequest, Idle
<1>5. ASSUME NEW u \in Users, NEW rl \in Roles, ChangeRole(u, rl) PROVE SameRequest(q)
  <2>1. /\ req[q] \in Request
        /\ req'[q] = IF req[q].user = u THEN [ req[q] EXCEPT !.held = @ \cup {rl} ] ELSE req[q]
    BY <1>5 DEF ChangeRole, TypeInv, TypeOK
  <2> QED
    BY <2>1 DEF Request, SameRequest
<1>6. ASSUME UNCHANGED req PROVE SameRequest(q)
  BY <1>6 DEF SameRequest
<1> QED
  BY <1>2, <1>3, <1>4, <1>5, <1>6 DEF Next, Proceed, Refuse, Abort, DisableVerifier, vars

LEMMA EvidenceInit == Init => EvidenceInv
<1> SUFFICES ASSUME Init PROVE EvidenceInv
  OBVIOUS
<1>1. \A r \in Requests : req[r].pc = "idle"
  BY DEF Init, Idle
<1>2. \A c \in Candidates : row[c] = None
  BY DEF Init
<1> QED
  BY <1>1, <1>2 DEF EvidenceInv, RequestEvidence, CandidateEvidence

LEMMA RequestEvidenceStep ==
  ASSUME TypeInv, GateInv, EvidenceInv, [Next]_vars, NEW q \in Requests
  PROVE  RequestEvidence(q)'
<1>1. RequestEvidence(q) /\ RequestTyped(q) /\ RequestInv(q)
  BY DEF EvidenceInv, TypeInv, GateInv
<1>2. ASSUME SameRequest(q) PROVE RequestEvidence(q)'
  <2>1. CASE req[q].pc \in { "resolve verifier", "record" }
    <3> PICK c \in Candidates : c = req[q].cand
      BY <2>1, <1>1 DEF RequestTyped
    <3>1. row[c] # None
      BY <1>1, <2>1 DEF RequestTyped, EvidencePcs
    <3>2. row'[c].policy = row[c].policy /\ row'[c].creator = row[c].creator
      BY <3>1, PlanIsFixed
    <3> QED
      BY <1>1, <1>2, <2>1, <3>2 DEF RequestEvidence, SameRequest, Planned
  <2>2. CASE req[q].pc \notin { "resolve verifier", "record" }
    BY <1>1, <1>2, <2>2 DEF RequestEvidence, SameRequest
  <2> QED
    BY <2>1, <2>2
<1>3. CASE req'[q].pc \in { "idle", "baseline", "lock evidence", "lock decision" }
  BY <1>3 DEF RequestEvidence
<1>4. CASE ReadBaseline(q)
  <2> DEFINE policy == FrozenPolicy(req[q].submission, PreviousCapabilities)
  <2>1. /\ Demands(policy.requirements) \subseteq Catalogue
        /\ Baseline \subseteq Demands(policy.requirements)
    BY <1>1, <1>4, GateAssumption, FrozenPolicyFacts DEF ReadBaseline, At, RequestTyped, CreatePcs
  <2>2. req'[q].pc = "insert" /\ req'[q].policy = policy
    BY <1>4 DEF ReadBaseline, TypeInv, TypeOK, Request
  <2> HIDE DEF policy
  <2> QED
    BY <2>1, <2>2 DEF RequestEvidence
<1>5. CASE LockForEvidence(q)
  <2> PICK c \in Candidates : c = req[q].cand
    BY <1>1, <1>5 DEF RequestTyped, LockForEvidence, At
  <2>1. Planned(req[q].item.requirement, req[q].item.kind, row[c].policy)
    BY <1>5 DEF LockForEvidence, MayRecord, Admissible, Planned
  <2>2. /\ req'[q].pc = "resolve verifier" /\ req'[q].item = req[q].item /\ req'[q].cand = c
        /\ row' = row
    BY <1>5 DEF LockForEvidence, Advance, TypeInv, TypeOK, Request, tables
  <2> QED
    BY <2>1, <2>2 DEF RequestEvidence, Planned
<1>6. CASE ResolveVerifier(q)
  <2>1. req[q].pc = "resolve verifier" /\ row' = row
    BY <1>6 DEF ResolveVerifier, At, tables
  <2>2. /\ req'[q].pc = "record" /\ req'[q].item = req[q].item /\ req'[q].cand = req[q].cand
        /\ req'[q].user = req[q].user
        /\ req'[q].grade = Grade(req[q].user, req[q].item, row[req[q].cand].creator)
    BY <1>6 DEF ResolveVerifier, TypeInv, TypeOK, Request
  <2>3. req'[q].grade = Grade(req'[q].user, req'[q].item, row'[req'[q].cand].creator)
    BY <2>1, <2>2
  <2> QED
    BY <1>1, <2>1, <2>2, <2>3 DEF RequestEvidence, Planned, Grade
<1>7. CASE LockForDecision(q) \/ CheckAuthority(q) \/ ReadEvidence(q)
  <2>1. req'[q].pc \in { "authorize", "read evidence", "sign" }
    <3>1. ASSUME NEW pc \in { "authorize", "read evidence" }, Advance(q, pc)
          PROVE  req'[q].pc = pc
      BY <3>1 DEF Advance, TypeInv, TypeOK, Request
    <3>2. ReadEvidence(q) => req'[q].pc = "sign"
      BY DEF ReadEvidence, TypeInv, TypeOK, Request
    <3> QED
      BY <1>7, <3>1, <3>2 DEF LockForDecision, CheckAuthority
  <2> QED
    BY <2>1 DEF RequestEvidence
<1> QED
  BY <1>2, <1>3, <1>4, <1>5, <1>6, <1>7, Moves

LEMMA CandidateEvidenceStep ==
  ASSUME TypeInv, GateInv, EvidenceInv, [Next]_vars, NEW c \in Candidates
  PROVE  CandidateEvidence(c)'
<1>1. CandidateEvidence(c)
  BY DEF EvidenceInv
<1>2. ASSUME row[c] # None, ledger'[c] = ledger[c] PROVE CandidateEvidence(c)'
  <2>1. row'[c].policy = row[c].policy /\ row'[c].creator = row[c].creator
    BY <1>2, PlanIsFixed
  <2> QED
    BY <1>1, <1>2, <2>1 DEF CandidateEvidence, Genuine, Planned, Grade
<1>3. CASE row'[c] = None
  BY <1>3 DEF CandidateEvidence
<1>4. ASSUME row'[c] # row[c] \/ ledger'[c] # ledger[c],
             row[c] = None \/ ledger'[c] # ledger[c]
      PROVE  CandidateEvidence(c)'
  <2>1. PICK r \in Requests : /\ req[r].cand = c
                              /\ InsertCandidate(r) \/ InsertEvidence(r) \/ CommitDecision(r)
    BY <1>4, Writers
  <2>2. RequestEvidence(r) /\ RequestTyped(r) /\ RequestInv(r)
    BY DEF EvidenceInv, TypeInv, GateInv
  <2>3. CASE InsertCandidate(r)
    <3> PICK first : first = ArtifactFreeze(req[r].user)
      OBVIOUS
    <3>1. /\ row'[c].policy = req[r].policy /\ row'[c].creator = req[r].user
          /\ ledger'[c] = << first >>
      BY <2>1, <2>3 DEF InsertCandidate, TypeInv, TypeOK
    <3>2. /\ Demands(req[r].policy.requirements) \subseteq Catalogue
          /\ Baseline \subseteq Demands(req[r].policy.requirements)
      BY <2>2, <2>3 DEF InsertCandidate, At, RequestEvidence
    <3>3. Planned("HF-ART-001", "deterministic_test", req[r].policy)
      <4>1. PICK q \in req[r].policy.requirements :
              Demand(q) = Req("HF-ART-001", {"deterministic_test", "static_analysis"}, "self")
        BY <3>2 DEF Demands, Baseline
      <4>2. q.id = "HF-ART-001" /\ "deterministic_test" \in q.kinds
        BY <4>1 DEF Demand, Req
      <4> QED
        BY <4>2 DEF Planned
    <3>4. ToSet(ledger'[c]) = { first }
      BY <3>1 DEF ToSet
    <3>5. Genuine(first, c)'
      <4>1. first.independence = Grade(first.by, first, req[r].user)
        BY DEF Grade, ArtifactFreeze
      <4>2. first.requirement = "HF-ART-001" /\ first.kind = "deterministic_test" /\ first.scanClean
        BY DEF ArtifactFreeze
      <4>3. row'[c].policy = req[r].policy /\ row'[c].creator = req[r].user
        BY <3>1
      <4> QED
        BY <3>3, <4>1, <4>2, <4>3 DEF Genuine, Planned, Grade, ArtifactFreeze
    <3> QED
      BY <3>1, <3>2, <3>4, <3>5 DEF CandidateEvidence
  <2>4. CASE InsertEvidence(r)
    <3> DEFINE item == req[r].item
               new == [ requirement |-> item.requirement, kind |-> item.kind,
                        outcome |-> GroundedOutcome(item), independence |-> req[r].grade,
                        scanClean |-> item.scanClean, by |-> req[r].user, verifier |-> item.verifier ]
    <3>1. row' = row /\ ledger'[c] = Append(ledger[c], new) /\ ledger[c] \in Seq(EvidenceRow)
      BY <2>1, <2>4 DEF InsertEvidence, TypeInv, TypeOK
    <3>2. /\ Planned(item.requirement, item.kind, row[c].policy)
          /\ req[r].grade = Grade(req[r].user, item, row[c].creator)
      BY <2>1, <2>2, <2>4 DEF InsertEvidence, At, RequestEvidence
    <3>3. Genuine(new, c)
      <4>1. /\ new.requirement = item.requirement /\ new.kind = item.kind
            /\ new.outcome = GroundedOutcome(item) /\ new.independence = req[r].grade
            /\ new.scanClean = item.scanClean /\ new.by = req[r].user /\ new.verifier = item.verifier
        OBVIOUS
      <4> HIDE DEF new
      <4> QED
        BY <3>2, <4>1 DEF Genuine, Grade, GroundedOutcome
    <3>4. row[c] # None
      BY <2>1, <2>2, <2>4 DEF InsertEvidence, At, RequestTyped, EvidencePcs
    <3>5. \A e \in ToSet(ledger[c]) \cup {new} : Genuine(e, c)
      BY <1>1, <3>3, <3>4 DEF CandidateEvidence
    <3> HIDE DEF new
    <3>6. ToSet(ledger'[c]) = ToSet(ledger[c]) \cup {new}
      BY <3>1, ToSetAppend
    <3> QED
      BY <1>1, <3>1, <3>4, <3>5, <3>6 DEF CandidateEvidence, Genuine, Planned, Grade
  <2>5. CASE CommitDecision(r)
    <3>1. row[c] # None /\ ledger' = ledger
      BY <2>1, <2>2, <2>5 DEF CommitDecision, At, RequestTyped, DecisionPcs
    <3> QED
      BY <1>4, <3>1
  <2> QED
    BY <2>1, <2>3, <2>4, <2>5
<1> QED
  BY <1>2, <1>3, <1>4

LEMMA EvidenceInvariant == Spec => []EvidenceInv
<1>1. TypeInv /\ GateInv /\ EvidenceInv /\ [Next]_vars => EvidenceInv'
  BY RequestEvidenceStep, CandidateEvidenceStep DEF EvidenceInv
<1> QED
  BY <1>1, EvidenceInit, GateInvariant, PTL DEF Spec

\* The ledger of a released candidate meets every requirement of its plan.
LEMMA ReleasedIsReady ==
  ASSUME TypeInv, GateInv, EvidenceInv, NEW c \in Candidates, Released(c)
  PROVE  /\ row[c] \in CandidateRow /\ row[c] # None
         /\ \A e \in ToSet(ledger[c]) : e \in EvidenceRow /\ Genuine(e, c)
         /\ \A q \in row[c].policy.requirements : EvaluateRequirement(q, ToSet(ledger[c])) = "pass"
<1>1. row[c] # None /\ row[c].status = "released"
  BY DEF Released, Existing
<1>2. Closed(c)
  BY <1>1 DEF GateInv, CandidateInv, Absent, Open, Frozen
<1>3. Verdict(row[c].policy.requirements, ToSet(ledger[c])) = "RELEASE"
  BY <1>1, <1>2 DEF Closed, FinalStatus, Verdict
<1>4. \A e \in ToSet(ledger[c]) : e \in EvidenceRow
  BY DEF ToSet, TypeInv, TypeOK
<1> QED
  BY <1>1, <1>3, <1>4 DEF TypeInv, TypeOK, EvidenceInv, CandidateEvidence, Verdict, GateReady

(* A bad capability scan blocks its candidate for good. *)
THEOREM BadScanBlocksHolds == Spec => []BadScanBlocks
<1>1. ASSUME TypeInv, GateInv, EvidenceInv PROVE BadScanBlocks
  <2> SUFFICES ASSUME NEW c \in Candidates, Released(c), NEW e \in ToSet(ledger[c]),
                      e.requirement = "HF-CAP-001", ~e.scanClean
               PROVE  FALSE
    BY DEF BadScanBlocks
  <2>1. e \in EvidenceRow /\ Genuine(e, c)
    BY <1>1, ReleasedIsReady
  <2>2. PICK q \in row[c].policy.requirements : q.id = "HF-CAP-001" /\ e.kind \in q.kinds
    BY <2>1 DEF Genuine, Planned
  <2>3. q.minimum = "self"
    <3>1. Demand(q) \in Catalogue /\ Demand(q).id = "HF-CAP-001" /\ Demand(q).minimum = q.minimum
      BY <1>1, <2>2, ReleasedIsReady DEF EvidenceInv, CandidateEvidence, Demands, Demand
    <3>2. \E b \in Baseline : b.id = "HF-CAP-001" /\ b.minimum = "self"
      BY DEF Baseline, Req
    <3> QED
      BY <3>1, <3>2, CatalogueIdsUnique, RulesInCatalogue
  <2>4. IndependenceSatisfies(e.independence, q.minimum)
    <3>1. \A level \in IndependenceLevels : IndependenceRank[level] >= IndependenceRank["self"]
      BY DEF IndependenceLevels, IndependenceRank
    <3> QED
      BY <2>1, <2>3, <3>1 DEF IndependenceSatisfies, EvidenceRow
  <2>5. e \in Eligible(q, ToSet(ledger[c])) /\ e.outcome = "fail"
    BY <2>1, <2>2, <2>4 DEF Eligible, Genuine
  <2>6. EvaluateRequirement(q, ToSet(ledger[c])) = "pass"
    BY <1>1, ReleasedIsReady
  <2> QED
    BY <2>5, <2>6 DEF EvaluateRequirement
<1> QED
  BY <1>1, GateInvariant, EvidenceInvariant, PTL

(* Independence in a released candidate was earned. *)
THEOREM IndependenceIsEarnedHolds == Spec => []IndependenceIsEarned
<1>1. ASSUME TypeInv, GateInv, EvidenceInv PROVE IndependenceIsEarned
  <2> SUFFICES ASSUME NEW c \in Candidates, Released(c), NEW q \in row[c].policy.requirements
               PROVE  \E e \in ToSet(ledger[c]) :
                        /\ Establishes(e)
                        /\ e.kind \in q.kinds
                        /\ q.minimum = "independent" =>
                             e.verifier # None /\ VerifierTrust[e.verifier] = "independent"
                        /\ q.minimum = "same_team" => e.verifier # None \/ e.by # row[c].creator
    BY DEF IndependenceIsEarned
  <2>1. PICK e \in Eligible(q, ToSet(ledger[c])) : Establishes(e)
    BY <1>1, ReleasedIsReady DEF EvaluateRequirement
  <2>2. /\ e \in ToSet(ledger[c]) /\ e.kind \in q.kinds
        /\ IndependenceSatisfies(e.independence, q.minimum)
    BY DEF Eligible
  <2>3. /\ e.independence = Grade(e.by, e, row[c].creator)
        /\ e.verifier # None => VerifierTrust[e.verifier] \in { "same_team", "independent" }
    BY <1>1, <2>2, ReleasedIsReady, GateAssumption DEF Genuine, EvidenceRow
  <2>4. /\ ~IndependenceSatisfies("self", "same_team")
        /\ ~IndependenceSatisfies("self", "independent")
        /\ ~IndependenceSatisfies("same_team", "independent")
    BY DEF IndependenceSatisfies, IndependenceRank
  <2> QED
    BY <2>1, <2>2, <2>3, <2>4 DEF Grade
<1> QED
  BY <1>1, GateInvariant, EvidenceInvariant, PTL

-----------------------------------------------------------------------------
(* Baselines.                                                              *)

Trusted == UNION { row[d].caps : d \in { x \in Existing : Released(x) } }

ListsNew(r) ==
  req[r].pc = "insert" => req[r].submission.caps \ Trusted \subseteq req[r].policy.added

BaselineInv == NewAuthorityIsListed /\ \A r \in Requests : ListsNew(r)

LEMMA TrustedGrows ==
  ASSUME TypeInv, GateInv, [Next]_vars
  PROVE  Trusted \subseteq Trusted'
<1> SUFFICES ASSUME NEW d \in Candidates, Released(d) PROVE Released(d)' /\ row'[d].caps = row[d].caps
  BY DEF Trusted, Existing, Released
<1> QED
  BY PlanIsFixed DEF Released, Existing

(* Whatever baseline createCandidate read, authority that no other released
   candidate has is listed as newly added. *)
THEOREM NewAuthorityIsListedHolds == Spec => []NewAuthorityIsListed
<1>1. Init => BaselineInv
  <2>1. Init => NewAuthorityIsListed
    BY DEF Init, NewAuthorityIsListed, Existing
  <2>2. Init => \A r \in Requests : ListsNew(r)
    BY DEF Init, ListsNew, Idle
  <2> QED
    BY <2>1, <2>2 DEF BaselineInv
<1>2. ASSUME TypeInv, GateInv, BaselineInv, [Next]_vars, NEW q \in Requests PROVE ListsNew(q)'
  <2>1. CASE SameRequest(q)
    BY <1>2, <2>1, TrustedGrows DEF BaselineInv, ListsNew, SameRequest
  <2>2. CASE ReadBaseline(q)
    <3> DEFINE policy == FrozenPolicy(req[q].submission, PreviousCapabilities)
    <3>1. policy.added = req[q].submission.caps \ PreviousCapabilities
      BY <1>2, <2>2, GateAssumption, FrozenPolicyFacts
         DEF ReadBaseline, At, TypeInv, RequestTyped, CreatePcs
    <3>2. PreviousCapabilities \subseteq Trusted
      BY DEF PreviousCapabilities, Latest, Trusted
    <3>3. req'[q].policy = policy /\ req'[q].submission = req[q].submission
      BY <1>2, <2>2 DEF ReadBaseline, TypeInv, TypeOK, Request
    <3> HIDE DEF policy
    <3> QED
      BY <1>2, <3>1, <3>2, <3>3, TrustedGrows DEF ListsNew
  <2>3. CASE \/ req'[q].pc \in { "idle", "baseline", "lock evidence", "lock decision" }
             \/ LockForEvidence(q) \/ ResolveVerifier(q)
             \/ LockForDecision(q) \/ CheckAuthority(q) \/ ReadEvidence(q)
    <3>1. ASSUME NEW pc \in { "resolve verifier", "authorize", "read evidence" }, Advance(q, pc)
          PROVE  req'[q].pc = pc
      BY <1>2, <3>1 DEF Advance, TypeInv, TypeOK, Request
    <3>2. ReadEvidence(q) => req'[q].pc = "sign"
      BY <1>2 DEF ReadEvidence, TypeInv, TypeOK, Request
    <3>3. ASSUME ResolveVerifier(q) PROVE req'[q].pc = "record"
      <4>1. PICK grade : req' = [ req EXCEPT ![q].pc = "record", ![q].grade = grade ]
        BY <3>3 DEF ResolveVerifier
      <4> QED
        BY <1>2, <4>1 DEF TypeInv, TypeOK, Request
    <3>4. req'[q].pc # "insert"
      BY <2>3, <3>1, <3>2, <3>3 DEF LockForEvidence, LockForDecision, CheckAuthority
    <3> QED
      BY <3>4 DEF ListsNew
  <2> QED
    BY <1>2, <2>1, <2>2, <2>3, Moves
<1>3. ASSUME TypeInv, GateInv, BaselineInv, [Next]_vars PROVE NewAuthorityIsListed'
  <2> SUFFICES ASSUME NEW c \in Candidates, row'[c] # None
               PROVE  row'[c].caps \ (UNION { row'[d].caps : d \in { x \in Existing' \ {c} : Released(x)' } })
                        \subseteq row'[c].policy.added
    BY DEF NewAuthorityIsListed, Existing
  <2> DEFINE before == UNION { row[d].caps : d \in { x \in Existing \ {c} : Released(x) } }
             after  == UNION { row'[d].caps : d \in { x \in Existing' \ {c} : Released(x)' } }
  <2>1. before \subseteq after
    <3>1. ASSUME NEW d \in Candidates, d # c, Released(d) PROVE Released(d)' /\ row'[d].caps = row[d].caps
      BY <1>3, <3>1, PlanIsFixed DEF Released, Existing
    <3> QED
      BY <3>1 DEF Released, Existing
  <2>2. CASE row[c] # None
    <3>1. row[c].caps \ before \subseteq row[c].policy.added
      BY <1>3, <2>2 DEF BaselineInv, NewAuthorityIsListed, Existing
    <3>2. row'[c].caps = row[c].caps /\ row'[c].policy = row[c].policy
      BY <1>3, <2>2, PlanIsFixed
    <3> QED
      BY <2>1, <3>1, <3>2
  <2>3. CASE row[c] = None
    <3>1. PICK r \in Requests : /\ req[r].cand = c
                                /\ InsertCandidate(r) \/ InsertEvidence(r) \/ CommitDecision(r)
      BY <1>3, <2>3, Writers
    <3>2. InsertCandidate(r)
      <4>1. req[r].pc \notin { "record", "sign" }
        BY <1>3, <2>3, <3>1 DEF TypeInv, RequestTyped, EvidencePcs, DecisionPcs
      <4> QED
        BY <3>1, <4>1 DEF InsertEvidence, CommitDecision, At
    <3>3. row'[c].caps = req[r].submission.caps /\ row'[c].policy = req[r].policy
      BY <1>3, <3>1, <3>2 DEF InsertCandidate, TypeInv, TypeOK
    <3>4. req[r].submission.caps \ Trusted \subseteq req[r].policy.added
      BY <1>3, <3>2 DEF InsertCandidate, At, BaselineInv, ListsNew
    <3>5. Trusted \subseteq before
      BY <2>3 DEF Trusted, Existing
    <3> QED
      BY <2>1, <3>3, <3>4, <3>5
  <2> QED
    BY <2>2, <2>3
<1>4. TypeInv /\ GateInv /\ BaselineInv /\ [Next]_vars => BaselineInv'
  BY <1>2, <1>3 DEF BaselineInv
<1>5. BaselineInv => NewAuthorityIsListed
  BY DEF BaselineInv
<1> QED
  BY <1>1, <1>4, <1>5, GateInvariant, PTL DEF Spec

-----------------------------------------------------------------------------
(* The gate implements the release authority.                              *)

LEMMA SameVerdict ==
  ASSUME NEW requirements, NEW rows
  PROVE  Authority!Verdict(requirements, Authority!ToSet(rows)) = Verdict(requirements, ToSet(rows))
<1>1. Authority!ToSet(rows) = ToSet(rows)
  BY DEF Authority!ToSet, ToSet
<1>2. \A q : Authority!EvaluateRequirement(q, ToSet(rows)) = EvaluateRequirement(q, ToSet(rows))
  BY DEF Authority!EvaluateRequirement, Authority!Eligible, Authority!Establishes,
     Authority!IndependenceSatisfies, Authority!IndependenceRank,
     EvaluateRequirement, Eligible, Establishes, IndependenceSatisfies, IndependenceRank
<1> QED
  BY <1>1, <1>2 DEF Authority!Verdict, Authority!GateReady, Verdict, GateReady

LEMMA AuthorityInit == Init => Authority!AInit
  BY DEF Init, Authority!AInit, Dossier, Decision

LEMMA FreezeStep ==
  ASSUME TypeInv, GateInv, NEW r \in Requests, InsertCandidate(r)
  PROVE  Authority!ANext
<1> PICK c \in Candidates : c = req[r].cand
  BY DEF InsertCandidate, At, TypeInv, RequestTyped
<1> DEFINE new == [ creator |-> req[r].user, version |-> req[r].submission.version,
                    caps |-> req[r].submission.caps, policy |-> req[r].policy, status |-> "frozen" ]
<1>1. row[c] = None /\ receipt[c] = None
  BY WritersAreUndecided
     DEF InsertCandidate, At, GateInv, RequestInv, CreatesAlone, CreatePcs, Decided
<1>2. /\ row' = [ row EXCEPT ![c] = new ] /\ receipt' = receipt /\ approval' = approval
      /\ ledger' = [ ledger EXCEPT ![c] = << ArtifactFreeze(req[r].user) >> ]
  BY DEF InsertCandidate
<1>3. new \in CandidateRow
  BY GateAssumption DEF InsertCandidate, At, TypeInv, RequestTyped, CreatePcs, CandidateRow, Submission
<1>4. Dossier[c] = None /\ Dossier'[c] # None
  <2>1. row'[c] = new
    BY <1>2 DEF TypeInv, TypeOK
  <2> HIDE DEF new
  <2>2. [ creator |-> new.creator, requirements |-> new.policy.requirements,
          separate |-> new.policy.separate ] \in DossierRow
    BY <1>3 DEF CandidateRow, GatePolicy, DossierRow
  <2> QED
    BY <1>1, <1>3, <2>1, <2>2, NoneAssumption DEF Dossier
<1>5. \A d \in Candidates : d # c => Dossier'[d] = Dossier[d]
  BY <1>2 DEF Dossier, TypeInv, TypeOK
<1>6. Authority!ChangesOnlyAt(Dossier, Dossier', c)
  <2>1. Dossier = [ d \in Candidates |-> Dossier[d] ] /\ Dossier' = [ d \in Candidates |-> Dossier'[d] ]
    BY DEF Dossier
  <2> QED
    BY <1>5, <2>1 DEF Authority!ChangesOnlyAt
<1>7. Authority!ChangesOnlyAt(ledger, ledger', c)
  BY <1>2 DEF Authority!ChangesOnlyAt, TypeInv, TypeOK
<1>8. Decision' = Decision
  <2>1. \A d \in Candidates : receipt[d] # None => row'[d] = row[d]
    BY <1>1, <1>2 DEF TypeInv, TypeOK
  <2> QED
    BY <1>2, <2>1 DEF Decision
<1> QED
  BY <1>4, <1>6, <1>7, <1>8 DEF Authority!ANext, Authority!Freeze

LEMMA AttachStep ==
  ASSUME TypeInv, GateInv, EvidenceInv, NEW r \in Requests, InsertEvidence(r)
  PROVE  Authority!ANext
<1> PICK c \in Candidates : c = req[r].cand
  BY DEF InsertEvidence, At, TypeInv, RequestTyped
<1> PICK new : new = [ requirement |-> req[r].item.requirement, kind |-> req[r].item.kind,
                       outcome |-> GroundedOutcome(req[r].item), independence |-> req[r].grade,
                       scanClean |-> req[r].item.scanClean, by |-> req[r].user,
                       verifier |-> req[r].item.verifier ]
  OBVIOUS
<1>1. row[c] # None /\ Open(c)
  <2>1. row[c] # None /\ Frozen(c)
    BY DEF InsertEvidence, At, TypeInv, RequestTyped, EvidencePcs, GateInv, RequestInv, HoldsLock, LockedPcs
  <2> QED
    BY <2>1, FrozenIsOpen
<1>2. /\ ledger' = [ ledger EXCEPT ![c] = Append(ledger[c], new) ]
      /\ UNCHANGED << row, approval, receipt >>
  BY DEF InsertEvidence
<1>3. Planned(new.requirement, new.kind, row[c].policy)
  BY DEF InsertEvidence, At, EvidenceInv, RequestEvidence
<1>4. Dossier[c] # None /\ Dossier[c].requirements = row[c].policy.requirements
  <2>1. [ creator |-> row[c].creator, requirements |-> row[c].policy.requirements,
          separate |-> row[c].policy.separate ] \in DossierRow
    BY <1>1 DEF TypeInv, TypeOK, CandidateRow, GatePolicy, DossierRow
  <2> QED
    BY <1>1, <2>1, NoneAssumption DEF Dossier
<1>5. Decision[c] = None
  BY <1>1 DEF Open, Decision
<1>6. Authority!Answers(new, Dossier[c].requirements)
  BY <1>3, <1>4 DEF Authority!Answers, Planned
<1>7. /\ ledger'[c] = Append(ledger[c], new) /\ Len(ledger'[c]) = Len(ledger[c]) + 1
      /\ ledger'[c][Len(ledger'[c])] = new
  BY <1>2 DEF TypeInv, TypeOK
<1>8. UNCHANGED << Dossier, Decision >>
  BY <1>2 DEF Dossier, Decision
<1>9. Authority!Attach(c)
  BY <1>2, <1>4, <1>5, <1>6, <1>7, <1>8 DEF Authority!Attach, Authority!Undecided
<1> QED
  BY <1>9 DEF Authority!ANext

LEMMA DecideStep ==
  ASSUME TypeInv, GateInv, NEW r \in Requests, CommitDecision(r)
  PROVE  Authority!ANext
<1> PICK c \in Candidates : c = req[r].cand
  BY DEF CommitDecision, At, TypeInv, RequestTyped
<1> PICK u \in Users : u = req[r].user
  BY DEF CommitDecision, At, TypeInv, RequestTyped
<1> DEFINE verdict == Verdict(row[c].policy.requirements, ToSet(ledger[c]))
           status == IF verdict = "RELEASE" THEN "released" ELSE "blocked"
<1>1. /\ row[c] # None /\ Open(c) /\ row[c] \in CandidateRow
      /\ req[r].read = ledger[c] /\ SeparationOfDuties(u, c)
  <2>1. /\ row[c] # None /\ Frozen(c)
        /\ req[r].read = ledger[c] /\ SeparationOfDuties(u, c)
    BY DEF CommitDecision, At, TypeInv, RequestTyped, DecisionPcs, GateInv, RequestInv, HoldsLock,
       LockedPcs, ReadIsCurrent, IsAuthorized, AuthorizedPcs
  <2> QED
    BY <2>1, FrozenIsOpen DEF TypeInv, TypeOK
<1>2. /\ row' = [ row EXCEPT ![c].status = status ]
      /\ receipt' = [ receipt EXCEPT ![c] = [ verdict |-> verdict, evidence |-> ledger[c] ] ]
      /\ approval' = [ approval EXCEPT ![c] = u ]
      /\ ledger' = ledger
  BY <1>1 DEF CommitDecision, FinalStatus
<1> HIDE DEF verdict, status
<1>3. /\ row'[c] = [ row[c] EXCEPT !.status = status ] /\ approval'[c] = u
      /\ receipt'[c] = [ verdict |-> verdict, evidence |-> ledger[c] ]
      /\ \A d \in Candidates : d # c => /\ row'[d] = row[d] /\ receipt'[d] = receipt[d]
                                     /\ approval'[d] = approval[d]
  BY <1>2 DEF TypeInv, TypeOK
<1>4. /\ row'[c].policy = row[c].policy /\ row'[c].creator = row[c].creator
      /\ row'[c].status = status /\ row'[c] # None
  <2>1. row'[c] \in CandidateRow
    BY <1>1, <1>3 DEF CandidateRow, status
  <2> QED
    BY <1>1, <1>3, <2>1, NoneAssumption DEF CandidateRow
<1>5. /\ Dossier[c] # None /\ Dossier[c].requirements = row[c].policy.requirements
      /\ Dossier[c].separate = row[c].policy.separate /\ Dossier[c].creator = row[c].creator
  <2>1. [ creator |-> row[c].creator, requirements |-> row[c].policy.requirements,
          separate |-> row[c].policy.separate ] \in DossierRow
    BY <1>1 DEF CandidateRow, GatePolicy, DossierRow
  <2> QED
    BY <1>1, <2>1, NoneAssumption DEF Dossier
<1>6. Dossier' = Dossier
  BY <1>1, <1>3, <1>4 DEF Dossier
<1>7. Decision[c] = None
  BY <1>1 DEF Open, Decision
<1>8. receipt'[c] # None
  <2>1. [ verdict |-> verdict, evidence |-> ledger[c] ] \in Receipt
    BY DEF Receipt, TypeInv, TypeOK, Verdict, verdict
  <2> QED
    BY <1>3, <2>1, NoneAssumption
<1>9. Decision' = [ Decision EXCEPT ![c] =
        [ verdict |-> verdict, approver |-> u, evidence |-> ledger[c], status |-> status ] ]
  <2>1. Decision'[c] = [ verdict |-> verdict, approver |-> u, evidence |-> ledger[c], status |-> status ]
    <3>1. receipt'[c].verdict = verdict /\ receipt'[c].evidence = ledger[c]
      BY <1>3
    <3>2. Decision'[c] = [ verdict |-> receipt'[c].verdict, approver |-> approval'[c],
                           evidence |-> receipt'[c].evidence, status |-> row'[c].status ]
      BY <1>8 DEF Decision
    <3> QED
      BY <1>3, <1>4, <3>1, <3>2
  <2>2. \A d \in Candidates : d # c => Decision'[d] = Decision[d]
    BY <1>3 DEF Decision
  <2>3. Decision = [ d \in Candidates |-> Decision[d] ] /\ Decision' = [ d \in Candidates |-> Decision'[d] ]
    BY DEF Decision
  <2> QED
    BY <2>1, <2>2, <2>3
<1>10. Authority!Verdict(Dossier[c].requirements, Authority!ToSet(ledger[c])) = verdict
  BY <1>5, SameVerdict DEF verdict
<1>11. Authority!Decide(c, u)
  BY <1>1, <1>2, <1>5, <1>6, <1>7, <1>9, <1>10
     DEF Authority!Decide, Authority!Undecided, SeparationOfDuties, status
<1> QED
  BY <1>11 DEF Authority!ANext

(* Requests, locks and transactions implement the release authority. *)
THEOREM GateImplementsAuthority == Spec => ImplementsAuthority
<1>1. ASSUME TypeInv, GateInv, EvidenceInv, [Next]_vars PROVE [Authority!ANext]_(Authority!avars)
  <2>1. CASE \E r \in Requests : InsertCandidate(r) \/ InsertEvidence(r) \/ CommitDecision(r)
    BY <1>1, <2>1, FreezeStep, AttachStep, DecideStep
  <2>2. CASE ~\E r \in Requests : InsertCandidate(r) \/ InsertEvidence(r) \/ CommitDecision(r)
    <3>1. \A c \in Candidates : /\ row'[c] = row[c] /\ ledger'[c] = ledger[c]
                                /\ approval'[c] = approval[c] /\ receipt'[c] = receipt[c]
      BY <1>1, <2>2, Writers
    <3>2. ledger' = ledger
      BY <1>1, <3>1, TypeStep DEF TypeInv, TypeOK
    <3>3. Dossier' = Dossier /\ Decision' = Decision
      BY <3>1 DEF Dossier, Decision
    <3> QED
      BY <3>2, <3>3 DEF Authority!avars
  <2> QED
    BY <2>1, <2>2
<1> QED
  BY <1>1, AuthorityInit, GateInvariant, EvidenceInvariant, PTL
     DEF Spec, ImplementsAuthority, Authority!ASpec
=============================================================================
