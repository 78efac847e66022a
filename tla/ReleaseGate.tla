----------------------------- MODULE ReleaseGate -----------------------------
(***************************************************************************)
(* The gate service of one workspace and repository                        *)
(* (src/lib/gate/service.server.ts): createCandidate, recordEvidence and   *)
(* decideRelease as requests that run concurrently on several server       *)
(* processes against one Postgres database.                                *)
(*                                                                         *)
(* A request is a sequence of statements; every action below is one        *)
(* statement (or a run of them that no other request can tell apart) and   *)
(* requests interleave between them.  Transactions are READ COMMITTED:     *)
(* a statement reads what is committed when it runs, SELECT ... FOR UPDATE *)
(* waits for the row's holder and then reads the row afresh, and writes    *)
(* become visible at COMMIT.  The writes of one transaction are therefore  *)
(* part of the action that commits them, and Rollback stands for every way *)
(* a transaction ends without them: a database error, a signing failure, a *)
(* lost connection, the crash of its process.                              *)
(*                                                                         *)
(* Rows of gate_plans are written with their candidate and never changed,  *)
(* so a candidate's plan is a field of its row.  Policy hashes are the     *)
(* policies themselves: sha256 of the canonical form is taken as injective.*)
(***************************************************************************)
EXTENDS Policy, SequencesExt

CONSTANTS
  Users,            \* people with an account
  Candidates,       \* ids createCandidate may draw; each is drawn once
  Requests,         \* slots for concurrently running requests
  Versions,         \* version labels
  Submissions,      \* what a creator may submit
  Items,            \* what a caller of recordEvidence may submit
  Verifiers,        \* registered verifier principals
  VerifierTrust,    \* verifier -> "same_team" | "independent"
  VerifierKinds,    \* verifier -> the kinds it is registered for
  OrgPacks,         \* HODGEFORM_REQUIRED_POLICY_PACKS
  ForceSeparate,    \* HODGEFORM_REQUIRE_SEPARATE_APPROVER
  InitialRoles,     \* user -> role when the model starts
  RoleChanges,      \* bound: the <<user, role>> assignments that may happen
  MaxEvidence,      \* bound: no evidence is submitted beyond this many rows
  None

Roles == { "owner", "admin", "member", "none" }

Submission ==
  [ version : Versions, pack : Packs, dataClass : DataClasses,
    separate : BOOLEAN, caps : SUBSET Capabilities ]

\* An item of evidence: scanClean says that the payload is a complete scan of
\* the frozen artifact that detects no undeclared capability.
Item ==
  [ requirement : RequirementIds, kind : EvidenceKinds, outcome : Outcomes,
    scanClean : BOOLEAN, verifier : Verifiers \cup {None} ]

ASSUME GateAssumption ==
  /\ Submissions \subseteq Submission
  /\ Items \subseteq Item
  /\ VerifierTrust \in [Verifiers -> {"same_team", "independent"}]
  /\ VerifierKinds \in [Verifiers -> SUBSET EvidenceKinds]
  /\ OrgPacks \subseteq Packs
  /\ ForceSeparate \in BOOLEAN
  /\ InitialRoles \in [Users -> Roles]
  /\ RoleChanges \subseteq Users \X Roles
  /\ MaxEvidence \in Nat

-----------------------------------------------------------------------------
(* The rows of the tables.                                                 *)

Requirement ==
  [ id : RequirementIds, kinds : SUBSET EvidenceKinds, minimum : IndependenceLevels,
    source : Sources ]

GatePolicy ==
  [ risk : Risks, added : SUBSET Capabilities, requirements : SUBSET Requirement,
    separate : BOOLEAN ]

\* release_candidates with its gate_plans row.  The statuses "draft" and
\* "evaluating" of the schema are never committed.
CandidateRow ==
  [ creator : Users, version : Versions, caps : SUBSET Capabilities,
    policy : GatePolicy, status : { "frozen", "released", "blocked" } ]

EvidenceRow ==
  [ requirement : RequirementIds, kind : EvidenceKinds, outcome : Outcomes,
    independence : IndependenceLevels, scanClean : BOOLEAN, by : Users,
    verifier : Verifiers \cup {None} ]

Receipt == [ verdict : { "RELEASE", "BLOCK" }, evidence : Seq(EvidenceRow) ]

\* What the release authority (below) keeps of a candidate.
DossierRow == [ creator : Users, requirements : SUBSET Requirement, separate : BOOLEAN ]

\* None marks what is absent, so it is none of the things that can be present.
ASSUME NoneAssumption ==
  None \notin Users \cup Requests \cup Candidates \cup Verifiers
              \cup CandidateRow \cup Receipt \cup DossierRow

VARIABLES
  row,       \* release_candidates and gate_plans: candidate -> row, or None
  earlier,   \* created_at, the transaction's start: candidate -> those created before it
  ledger,    \* evidence_receipts: candidate -> its rows, in commit order
  approval,  \* approvals: candidate -> who approved it, or None
  receipt,   \* release_receipts: candidate -> signed receipt, or None
  lock,      \* row locks: candidate -> the request that holds its row, or None
  role,      \* workspace_members: user -> role, "none" when no member
  disabled,  \* verifier_principals with disabled_at set
  req        \* request slot -> what the request is doing

tables  == << row, earlier, ledger, approval, receipt >>
members == << role, disabled >>
vars    == << row, earlier, ledger, approval, receipt, lock, role, disabled, req >>

\* What the caller sent (submission, item, policy: the one that was confirmed)
\* and what the request has read so far (policy: the one that was compiled,
\* grade, read).  held is history, used by properties alone: the roles that the
\* user had at some instant since the request began.
Idle ==
  [ pc |-> "idle", user |-> None, cand |-> None, submission |-> None, item |-> None,
    policy |-> None, grade |-> None, read |-> << >>, held |-> {} ]

Init ==
  /\ row      = [ c \in Candidates |-> None ]
  /\ earlier  = [ c \in Candidates |-> {} ]
  /\ ledger   = [ c \in Candidates |-> << >> ]
  /\ approval = [ c \in Candidates |-> None ]
  /\ receipt  = [ c \in Candidates |-> None ]
  /\ lock     = [ c \in Candidates |-> None ]
  /\ role     = InitialRoles
  /\ disabled = {}
  /\ req      = [ r \in Requests |-> Idle ]

-----------------------------------------------------------------------------
(* Requests and row locks.                                                 *)

\* A request starts by resolving its workspace; only a member resolves to
\* this one.  The result is not looked at again inside the transaction.
Begin(r, u, c, first) ==
  /\ req[r] = Idle
  /\ role[u] # "none"
  /\ req' = [ req EXCEPT ![r] = [ first EXCEPT !.user = u, !.cand = c, !.held = {role[u]} ] ]

At(r, pc) == req[r].pc = pc

Advance(r, pc) == req' = [ req EXCEPT ![r].pc = pc ]

Finish(r) == req' = [ req EXCEPT ![r] = Idle ]

\* Faults, here and below: what a plausible mistake would put in the place of
\* the definition that follows; they show which properties would notice it.
NoRowLock(c) == TRUE

\* SELECT ... FOR UPDATE returns at once on a free row, and waits otherwise.
CanLock(c) == lock[c] = None

Acquire(r, c) == lock' = [ lock EXCEPT ![c] = r ]

Release(r) == lock' = [ c \in Candidates |-> IF lock[c] = r THEN None ELSE lock[c] ]

Existing == { c \in Candidates : row[c] # None }

AnyStatus(c) == c \in Existing

Frozen(c) == row[c].status = "frozen"

NeverCreated(c) ==
  [ d \in Candidates |-> IF d = c THEN {} ELSE earlier[d] \ {c} ]

\* The transaction ends without its writes.
Rollback(r) ==
  /\ earlier' = IF At(r, "baseline") \/ At(r, "insert") THEN NeverCreated(req[r].cand) ELSE earlier
  /\ Release(r)
  /\ Finish(r)
  /\ UNCHANGED << row, ledger, approval, receipt, members >>

-----------------------------------------------------------------------------
(* createCandidate                                                         *)

Creating == { q \in Requests : At(q, "baseline") \/ At(q, "insert") }

\* Ids are random: no other request works with c, and it never existed.
FreshId(c) == c \notin Existing /\ \A q \in Requests : req[q].cand # c

\* The candidates whose creation has begun.
Started == Existing \cup { req[q].cand : q \in Creating }

BeginCreate(r) ==
  /\ \E u \in Users, c \in Candidates, sub \in Submissions :
       /\ FreshId(c)
       /\ Begin(r, u, c, [ Idle EXCEPT !.pc = "baseline", !.submission = sub ])
       /\ earlier' = [ earlier EXCEPT ![c] = Started ]
  /\ UNCHANGED << row, ledger, approval, receipt, lock, members >>

\* status='released' order by created_at desc limit 1
Released(c) == c \in Existing /\ row[c].status = "released"

\* Of a set of candidates, the one that all others were created before.
Latest(cands) == { c \in cands : cands \ {c} \subseteq earlier[c] }

PreviousSubmitted == UNION { row[c].caps : c \in Latest(Existing) }

PreviousCapabilities ==
  UNION { row[c].caps : c \in Latest({ c \in Existing : Released(c) }) }

FrozenPolicy(sub, previous) ==
  CompilePolicy([ pack |-> sub.pack, dataClass |-> sub.dataClass, separate |-> sub.separate,
                  caps |-> sub.caps, prev |-> previous, orgPacks |-> OrgPacks,
                  orgReqs |-> {}, force |-> ForceSeparate ])

ReadBaseline(r) ==
  /\ At(r, "baseline")
  /\ req' = [ req EXCEPT ![r].pc = "insert",
       ![r].policy = FrozenPolicy(req[r].submission, PreviousCapabilities) ]
  /\ UNCHANGED << tables, lock, members >>

\* unique (tenant_id, repository_id, version)
VersionFree(version) == \A c \in Existing : row[c].version # version

\* The row createCandidate adds itself: the server's own artifact check.
ArtifactFreeze(u) ==
  [ requirement |-> "HF-ART-001", kind |-> "deterministic_test", outcome |-> "pass",
    independence |-> "self", scanClean |-> TRUE, by |-> u, verifier |-> None ]

\* Inserts the candidate, its plan and the first row of evidence; COMMIT.
InsertCandidate(r) ==
  LET c == req[r].cand  sub == req[r].submission
  IN  /\ At(r, "insert")
      /\ VersionFree(sub.version)
      /\ row' = [ row EXCEPT ![c] =
           [ creator |-> req[r].user, version |-> sub.version, caps |-> sub.caps,
             policy |-> req[r].policy, status |-> "frozen" ] ]
      /\ ledger' = [ ledger EXCEPT ![c] = << ArtifactFreeze(req[r].user) >> ]
      /\ Finish(r)
      /\ UNCHANGED << earlier, approval, receipt, lock, members >>

-----------------------------------------------------------------------------
(* recordEvidence                                                          *)

BeginEvidence(r) ==
  /\ \E u \in Users, c \in Existing, item \in Items :
       /\ Len(ledger[c]) < MaxEvidence
       /\ Begin(r, u, c, [ Idle EXCEPT !.pc = "lock evidence", !.item = item ])
  /\ UNCHANGED << tables, lock, members >>

\* The requirement belongs to the frozen plan and admits the kind; no kind of
\* proof is admitted without a verifier adapter.
Admissible(item, policy) ==
  /\ \E q \in policy.requirements : q.id = item.requirement /\ item.kind \in q.kinds
  /\ item.kind # "formal_proof"

MayRecordUnplanned(c, item) == Frozen(c)

MayRecord(c, item) == Frozen(c) /\ Admissible(item, row[c].policy)

LockForEvidence(r) ==
  LET c == req[r].cand
  IN  /\ At(r, "lock evidence")
      /\ CanLock(c)
      /\ MayRecord(c, req[r].item)
      /\ Acquire(r, c)
      /\ Advance(r, "resolve verifier")
      /\ UNCHANGED << tables, members >>

VerifierUsable(item) ==
  item.verifier # None =>
    /\ item.verifier \notin disabled
    /\ item.kind \in VerifierKinds[item.verifier]

GradeAsTeammate(u, item, creator) ==
  IF item.verifier # None THEN VerifierTrust[item.verifier] ELSE "same_team"

\* Independence is derived from the token's principal, never from the caller.
Grade(u, item, creator) ==
  IF item.verifier # None THEN VerifierTrust[item.verifier]
  ELSE IF u = creator THEN "self" ELSE "same_team"

IndependenceBacked(item) ==
  item.kind = "independent_verifier" =>
    item.verifier # None /\ VerifierTrust[item.verifier] = "independent"

VerifierAccepted(item) == VerifierUsable(item) /\ IndependenceBacked(item)

ResolveVerifier(r) ==
  LET item == req[r].item
  IN  /\ At(r, "resolve verifier")
      /\ VerifierAccepted(item)
      /\ req' = [ req EXCEPT ![r].pc = "record",
           ![r].grade = Grade(req[r].user, item, row[req[r].cand].creator) ]
      /\ UNCHANGED << tables, lock, members >>

ClaimedOutcome(item) == item.outcome

\* A capability inventory that is incomplete, scans another artifact or leaves
\* a detected capability undeclared is a failure whatever its caller says.
GroundedOutcome(item) ==
  IF item.requirement = "HF-CAP-001" /\ ~item.scanClean THEN "fail" ELSE item.outcome

InsertEvidence(r) ==
  LET c == req[r].cand  item == req[r].item
  IN  /\ At(r, "record")
      /\ ledger' = [ ledger EXCEPT ![c] = Append(@,
           [ requirement |-> item.requirement, kind |-> item.kind,
             outcome |-> GroundedOutcome(item), independence |-> req[r].grade,
             scanClean |-> item.scanClean, by |-> req[r].user, verifier |-> item.verifier ]) ]
      /\ Release(r)
      /\ Finish(r)
      /\ UNCHANGED << row, earlier, approval, receipt, members >>

-----------------------------------------------------------------------------
(* decideRelease                                                           *)

\* The approver confirms the policy hash of a candidate that was shown to them.
BeginDecide(r) ==
  /\ \E u \in Users, c \in Existing, shown \in Existing :
       Begin(r, u, c, [ Idle EXCEPT !.pc = "lock decision", !.policy = row[shown].policy ])
  /\ UNCHANGED << tables, lock, members >>

MayDecideUnconfirmed(c, confirmed) == Frozen(c)

MayDecide(c, confirmed) == Frozen(c) /\ row[c].policy = confirmed

LockForDecision(r) ==
  LET c == req[r].cand
  IN  /\ At(r, "lock decision")
      /\ CanLock(c)
      /\ MayDecide(c, req[r].policy)
      /\ Acquire(r, c)
      /\ Advance(r, "authorize")
      /\ UNCHANGED << tables, members >>

RoleCanApproveRisk(rl, risk) ==
  /\ rl # "none"
  /\ ElevatedRisk(risk) => rl \in {"owner", "admin"}

SeparationOfDuties(u, c) == row[c].policy.separate => u # row[c].creator

MayApproveInAnyRole(u, c) == SeparationOfDuties(u, c)

MayApprove(u, c) ==
  RoleCanApproveRisk(role[u], row[c].policy.risk) /\ SeparationOfDuties(u, c)

\* requireReleaseAuthority reads the role on another connection of the pool:
\* it takes no lock, and what it reads is not looked at again.
CheckAuthority(r) ==
  LET c == req[r].cand
  IN  /\ At(r, "authorize")
      /\ MayApprove(req[r].user, c)
      /\ Advance(r, "read evidence")
      /\ UNCHANGED << tables, lock, members >>

ReadEvidence(r) ==
  /\ At(r, "read evidence")
  /\ req' = [ req EXCEPT ![r].pc = "sign", ![r].read = ledger[req[r].cand] ]
  /\ UNCHANGED << tables, lock, members >>

UntranslatedStatus(verdict) == verdict

FinalStatus(verdict) == IF verdict = "RELEASE" THEN "released" ELSE "blocked"

\* unique (candidate_id) on approvals and release_receipts
UndecidedRow(c) == approval[c] = None /\ receipt[c] = None

\* Evaluates the evidence that was read, signs, inserts the approval and the
\* receipt, sets the final status; COMMIT.
CommitDecision(r) ==
  LET c       == req[r].cand
      read    == req[r].read
      verdict == Verdict(row[c].policy.requirements, ToSet(read))
  IN  /\ At(r, "sign")
      /\ UndecidedRow(c)
      /\ approval' = [ approval EXCEPT ![c] = req[r].user ]
      /\ receipt'  = [ receipt EXCEPT ![c] = [ verdict |-> verdict, evidence |-> read ] ]
      /\ row'      = [ row EXCEPT ![c].status = FinalStatus(verdict) ]
      /\ Release(r)
      /\ Finish(r)
      /\ UNCHANGED << earlier, ledger, members >>

-----------------------------------------------------------------------------
(* Requests that fail.                                                     *)

\* The check of the statement a request has reached fails, and the request
\* ends with an error.
Refused(r) ==
  LET c == req[r].cand
  IN  \/ At(r, "insert") /\ ~VersionFree(req[r].submission.version)
      \/ At(r, "lock evidence") /\ CanLock(c) /\ ~MayRecord(c, req[r].item)
      \/ At(r, "resolve verifier") /\ ~VerifierAccepted(req[r].item)
      \/ At(r, "lock decision") /\ CanLock(c) /\ ~MayDecide(c, req[r].policy)
      \/ At(r, "authorize") /\ ~MayApprove(req[r].user, c)
      \/ At(r, "sign") /\ ~UndecidedRow(c)

Refuse(r) == Refused(r) /\ Rollback(r)

\* The database, the signer or the process fails under the request, anywhere.
Abort(r) == req[r] # Idle /\ Rollback(r)

-----------------------------------------------------------------------------
(* What the rest of the server does to this workspace meanwhile.           *)

\* setWorkspaceMemberRole, removeWorkspaceMember, acceptWorkspaceInvite
ChangeRole(u, rl) ==
  /\ << u, rl >> \in RoleChanges
  /\ role[u] # rl
  /\ role' = [ role EXCEPT ![u] = rl ]
  /\ req' = [ r \in Requests |->
                IF req[r].user = u THEN [ req[r] EXCEPT !.held = @ \cup {rl} ] ELSE req[r] ]
  /\ UNCHANGED << tables, lock, disabled >>

DisableVerifier(v) ==
  /\ v \notin disabled
  /\ disabled' = disabled \cup {v}
  /\ UNCHANGED << tables, lock, role, req >>

-----------------------------------------------------------------------------

\* What a running request does next when nothing fails under it.
Proceed(r) ==
  \/ ReadBaseline(r) \/ InsertCandidate(r)
  \/ LockForEvidence(r) \/ ResolveVerifier(r) \/ InsertEvidence(r)
  \/ LockForDecision(r) \/ CheckAuthority(r) \/ ReadEvidence(r) \/ CommitDecision(r)
  \/ Refuse(r)

Next ==
  \/ \E r \in Requests :
       BeginCreate(r) \/ BeginEvidence(r) \/ BeginDecide(r) \/ Proceed(r) \/ Abort(r)
  \/ \E u \in Users, rl \in Roles : ChangeRole(u, rl)
  \/ \E v \in Verifiers : DisableVerifier(v)

Spec == Init /\ [][Next]_vars

-----------------------------------------------------------------------------
(* Types.                                                                  *)

Request ==
  [ pc : { "idle", "baseline", "insert", "lock evidence", "resolve verifier", "record",
           "lock decision", "authorize", "read evidence", "sign" },
    user : Users \cup {None}, cand : Candidates \cup {None},
    submission : Submissions \cup {None}, item : Items \cup {None},
    policy : GatePolicy \cup {None}, grade : IndependenceLevels \cup {None},
    read : Seq(EvidenceRow), held : SUBSET Roles ]

\* Every table row, lock and request has the shape the code gives it.
TypeOK ==
  /\ row \in [Candidates -> CandidateRow \cup {None}]
  /\ earlier \in [Candidates -> SUBSET Candidates]
  /\ ledger \in [Candidates -> Seq(EvidenceRow)]
  /\ approval \in [Candidates -> Users \cup {None}]
  /\ receipt \in [Candidates -> Receipt \cup {None}]
  /\ lock \in [Candidates -> Requests \cup {None}]
  /\ role \in [Users -> Roles]
  /\ disabled \subseteq Verifiers
  /\ req \in [Requests -> Request]

-----------------------------------------------------------------------------
(* Safety.                                                                 *)

Decided(c) == receipt[c] # None

\* The signed receipt of a decided candidate covers all the evidence there
\* will ever be for it, and its verdict is the policy's verdict on exactly that
\* evidence: no row slips in between decideRelease's read and its commit.
ReceiptIsComplete ==
  \A c \in Candidates : Decided(c) =>
    /\ receipt[c].evidence = ledger[c]
    /\ receipt[c].verdict = Verdict(row[c].policy.requirements, ToSet(ledger[c]))

\* The three tables decideRelease writes tell the same story: a candidate
\* has left "frozen" exactly when it has a receipt, exactly when someone
\* approved it, and it is "released" exactly when the receipt says RELEASE.
TablesAgree ==
  \A c \in Candidates :
    /\ Decided(c) <=> approval[c] # None
    /\ Decided(c) <=> c \in Existing /\ ~Frozen(c)
    /\ Released(c) <=> Decided(c) /\ receipt[c].verdict = "RELEASE"

\* A decision is final: afterwards no request changes the candidate, its
\* evidence, its approval or its receipt.
DecidedForGood ==
  [][ \A c \in Candidates : Decided(c) =>
        << row[c], ledger[c], approval[c], receipt[c] >>'
          = << row[c], ledger[c], approval[c], receipt[c] >> ]_vars

\* Four eyes: nobody decides their own candidate when its risk is high or
\* critical or the deployment demands a separate approver, whatever the
\* creator's intent said.
FourEyes ==
  \A c \in Candidates :
    /\ Decided(c)
    /\ ElevatedRisk(row[c].policy.risk) \/ ForceSeparate
    => approval[c] # row[c].creator

\* The role check is not in the decision's transaction, so the approver may
\* be demoted before the commit.  What still holds: at some instant while the
\* request ran, its user had a role that may approve the candidate's risk.
ApproverHadAuthority ==
  [][ \A c \in Candidates : ~Decided(c) /\ Decided(c)' =>
        \E r \in Requests :
          /\ req[r].cand = c
          /\ req[r].user = approval'[c]
          /\ \E rl \in req[r].held : RoleCanApproveRisk(rl, row[c].policy.risk) ]_vars

\* A capability scan that is incomplete, of another artifact, or that found
\* undeclared authority blocks its candidate for good, whatever outcome its
\* caller claimed and whatever other evidence is added (README.md:85).
BadScanBlocks ==
  \A c \in Candidates : Released(c) =>
    \A e \in ToSet(ledger[c]) : e.requirement = "HF-CAP-001" => e.scanClean

\* Independence in a released candidate was earned: a requirement that asks for
\* independent evidence has a passing row of a registered independent verifier,
\* and one that asks for the team's has one that is not the creator's own word.
IndependenceIsEarned ==
  \A c \in Candidates : Released(c) =>
    \A q \in row[c].policy.requirements :
      \E e \in ToSet(ledger[c]) :
        /\ Establishes(e)
        /\ e.kind \in q.kinds
        /\ q.minimum = "independent" =>
             e.verifier # None /\ VerifierTrust[e.verifier] = "independent"
        /\ q.minimum = "same_team" => e.verifier # None \/ e.by # row[c].creator

\* However stale the baseline that createCandidate read, authority that no
\* other released candidate has is listed as newly added.
NewAuthorityIsListed ==
  \A c \in Existing :
    LET trusted == UNION { row[d].caps : d \in { x \in Existing \ {c} : Released(x) } }
    IN  row[c].caps \ trusted \subseteq row[c].policy.added

\* docs/TRUST_PROTOCOL.md says that an obligation without proof stays missing
\* and that evidence bound to one requirement never becomes proof for another.
PassIsBoundToRequirement ==
  \A c \in Candidates : Released(c) =>
    \A q \in row[c].policy.requirements :
      \E e \in ToSet(ledger[c]) : e.requirement = q.id /\ Establishes(e)

-----------------------------------------------------------------------------
(* The abstract specification.                                             *)

Dossier ==
  [ c \in Candidates |->
      IF row[c] = None THEN None
      ELSE [ creator      |-> row[c].creator,
             requirements |-> row[c].policy.requirements,
             separate     |-> row[c].policy.separate ] ]

Decision ==
  [ c \in Candidates |->
      IF receipt[c] = None THEN None
      ELSE [ verdict  |-> receipt[c].verdict,
             approver |-> approval[c],
             evidence |-> receipt[c].evidence,
             status   |-> row[c].status ] ]

Authority ==
  INSTANCE ReleaseAuthority WITH dossier <- Dossier, evidence <- ledger, decision <- Decision

\* Requests, locks and transactions implement the release authority's promise:
\* each commit is one abstract step, everything else is invisible.
ImplementsAuthority == Authority!ASpec

=============================================================================
