------------------------------- MODULE Policy -------------------------------
(***************************************************************************)
(* The policy compiler of HodgeForm (src/lib/gate/policy.ts).              *)
(*                                                                         *)
(* compilePolicy turns an author's intent, the capabilities a candidate    *)
(* declares and the organization's overlay into the requirements that are  *)
(* frozen with the candidate; evaluateRequirement says whether a set of    *)
(* evidence rows meets one of them.  Both are pure, so this module has no  *)
(* variables: PolicyRevision explores its inputs, PolicyProofs proves it, and    *)
(* ReleaseGate calls it.                                                   *)
(*                                                                         *)
(* A requirement keeps what a decision can depend on: its id, the kinds of *)
(* evidence it admits, the least independence and the layer it came from.  *)
(* Titles, reasons and the constant field "blocking" are left out.         *)
(***************************************************************************)
EXTENDS Naturals

Capabilities ==
  { "network.outbound", "filesystem.read", "filesystem.write",
    "shell.execute", "database.read", "database.write",
    "external_action.send_message", "external_action.email",
    "payment.execute", "secrets.read", "data.pii", "data.phi" }

Packs == { "basic", "networked", "code-execution", "action-taking", "high-risk" }
DataClasses == { "public", "internal", "confidential", "regulated" }
Risks == { "low", "medium", "high", "critical" }
EvidenceKinds ==
  { "deterministic_test", "sandbox_run", "static_analysis", "llm_evaluation",
    "independent_verifier", "formal_proof", "human_approval" }
IndependenceLevels == { "self", "same_team", "independent", "formal" }
Outcomes == { "pass", "fail", "inconclusive" }
Sources == { "baseline", "pack", "capability", "semantic_diff", "organization" }

IndependenceRank ==
  [ self |-> 0, same_team |-> 1, independent |-> 2, formal |-> 3 ]

IndependenceSatisfies(actual, required) ==
  IndependenceRank[actual] >= IndependenceRank[required]

-----------------------------------------------------------------------------
(* The requirement catalogue.                                              *)

Req(id, kinds, minimum) == [ id |-> id, kinds |-> kinds, minimum |-> minimum ]

Baseline ==
  { Req("HF-ART-001", {"deterministic_test", "static_analysis"}, "self"),
    Req("HF-CAP-001", {"static_analysis", "deterministic_test"}, "self"),
    Req("HF-REG-001", {"deterministic_test", "sandbox_run"}, "self") }

\* What each capability demands; those that only read demand nothing.
CapabilityRules ==
  { << "network.outbound", Req("HF-NET-001", {"sandbox_run", "deterministic_test", "static_analysis"}, "self") >>,
    << "filesystem.write", Req("HF-FS-001", {"sandbox_run", "deterministic_test"}, "self") >>,
    << "filesystem.write", Req("HF-FS-002", {"sandbox_run", "static_analysis"}, "same_team") >>,
    << "shell.execute", Req("HF-CODE-001", {"sandbox_run", "static_analysis", "independent_verifier"}, "same_team") >>,
    << "database.write", Req("HF-DB-001", {"deterministic_test", "sandbox_run"}, "same_team") >>,
    << "external_action.send_message", Req("HF-ACT-001", {"deterministic_test", "sandbox_run", "independent_verifier"}, "same_team") >>,
    << "external_action.email", Req("HF-ACT-002", {"deterministic_test", "sandbox_run"}, "same_team") >>,
    << "payment.execute", Req("HF-PAY-001", {"deterministic_test", "independent_verifier"}, "independent") >>,
    << "secrets.read", Req("HF-SEC-001", {"deterministic_test", "sandbox_run", "independent_verifier"}, "same_team") >>,
    << "data.pii", Req("HF-DATA-001", {"deterministic_test", "independent_verifier"}, "same_team") >>,
    << "data.phi", Req("HF-DATA-002", {"deterministic_test", "independent_verifier"}, "independent") >> }

ByCapability(c) == { rule[2] : rule \in { x \in CapabilityRules : x[1] = c } }

\* What each pack adds; "basic" adds nothing.
PackRules ==
  { << "networked", Req("HF-INJ-001", {"deterministic_test", "sandbox_run", "llm_evaluation"}, "self") >>,
    << "code-execution", Req("HF-RES-001", {"sandbox_run", "deterministic_test"}, "self") >>,
    << "action-taking", Req("HF-IRR-001", {"deterministic_test", "independent_verifier"}, "same_team") >>,
    << "high-risk", Req("HF-IND-001", {"independent_verifier"}, "independent") >>,
    << "high-risk", Req("HF-ADV-001", {"sandbox_run", "independent_verifier", "llm_evaluation"}, "same_team") >> }

PackRequirements(pack) == { rule[2] : rule \in { x \in PackRules : x[1] = pack } }

RequirementIds ==
  { r.id : r \in Baseline } \cup { rule[2].id : rule \in CapabilityRules \cup PackRules }

-----------------------------------------------------------------------------
(* Risk.  An intent is a record [pack, dataClass, separate, caps, prev,    *)
(* orgPacks, orgReqs, force]: the author's choices, the declared           *)
(* capabilities, those of the previous release, and the overlay.           *)

CriticalCapabilities == { "payment.execute", "data.phi" }
HighCapabilities ==
  { "shell.execute", "filesystem.write", "database.write", "secrets.read",
    "external_action.send_message", "external_action.email" }

InferRisk(caps, pack, dataClass) ==
  IF pack = "high-risk" \/ caps \cap CriticalCapabilities # {} THEN "critical"
  ELSE IF caps \cap HighCapabilities # {} THEN "high"
  ELSE IF "network.outbound" \in caps \/ dataClass \in {"confidential", "regulated"}
       THEN "medium"
  ELSE "low"

ElevatedRisk(risk) == risk \in {"high", "critical"}

\* The command line's "auto" pack; the server only ever sees its result.
RecommendPolicyPack(caps) ==
  IF caps \cap CriticalCapabilities # {} THEN "high-risk"
  ELSE IF caps \cap {"shell.execute", "filesystem.write"} # {} THEN "code-execution"
  ELSE IF caps \cap {"database.write", "external_action.send_message",
                     "external_action.email"} # {} THEN "action-taking"
  ELSE IF "network.outbound" \in caps THEN "networked"
  ELSE "basic"

-----------------------------------------------------------------------------
(* Compilation.                                                            *)

Stamped(source, r) ==
  [ id |-> r.id, kinds |-> r.kinds, minimum |-> r.minimum, source |-> source ]

From(source, reqs) == { Stamped(source, r) : r \in reqs }

\* Faults: the definition that follows with an earlier layer lost.
KeepLater(earlier, later) == IF later = {} THEN earlier ELSE later

\* dedupe keeps the last of the requirements that share an id.
Override(earlier, later) ==
  { r \in earlier : \A s \in later : s.id # r.id } \cup later

\* Fault: the whole authority of a candidate is reported as new.
AddedOnlyAtFirst(in) == IF in.prev = {} THEN in.caps ELSE {}

Added(in) == in.caps \ in.prev

\* Fault: only new authority is obliged, on the strength of the old release.
CompileTheDiffOnly(in) ==
  LET pack   == Override(From("baseline", Baseline), From("pack", PackRequirements(in.pack)))
      diffed == Override(pack, From("semantic_diff", UNION { ByCapability(c) : c \in Added(in) }))
  IN  Override(diffed, From("organization", UNION { PackRequirements(p) : p \in in.orgPacks }))

CompileRequirements(in) ==
  LET pack     == Override(From("baseline", Baseline), From("pack", PackRequirements(in.pack)))
      declared == Override(pack, From("capability", UNION { ByCapability(c) : c \in in.caps }))
      diffed   == Override(declared, From("semantic_diff", UNION { ByCapability(c) : c \in Added(in) }))
      overlaid == Override(diffed, From("organization", UNION { PackRequirements(p) : p \in in.orgPacks }))
  IN  Override(overlaid, in.orgReqs)

\* Fault: the risk does not force a second person.
SeparateAsRequested(in) == in.force \/ in.separate

SeparateApprover(in) ==
  \/ in.force
  \/ ElevatedRisk(InferRisk(in.caps, in.pack, in.dataClass))
  \/ in.separate

CompilePolicy(in) ==
  [ risk         |-> InferRisk(in.caps, in.pack, in.dataClass),
    added        |-> Added(in),
    requirements |-> CompileRequirements(in),
    separate     |-> SeparateApprover(in) ]

SemanticObligations(policy) ==
  { r.id : r \in { q \in policy.requirements : q.source = "semantic_diff" } }

-----------------------------------------------------------------------------
(* Evaluation.  A row of evidence is a record with at least the fields     *)
(* kind, outcome and independence.                                         *)

Eligible(r, rows) ==
  { e \in rows : e.kind \in r.kinds /\ IndependenceSatisfies(e.independence, r.minimum) }

\* An opinion of a model may refute, it never establishes.
Establishes(e) == e.outcome = "pass" /\ e.kind # "llm_evaluation"

EvaluateRequirement(r, rows) ==
  LET eligible == Eligible(r, rows)
  IN  IF \E e \in eligible : e.outcome = "fail" THEN "fail"
      ELSE IF \E e \in eligible : Establishes(e) THEN "pass"
      ELSE "missing"

GateReady(requirements, rows) ==
  \A r \in requirements : EvaluateRequirement(r, rows) = "pass"

Verdict(requirements, rows) ==
  IF GateReady(requirements, rows) THEN "RELEASE" ELSE "BLOCK"

\* What a requirement demands, whatever layer it came from.
Demand(r) == [ id |-> r.id, kinds |-> r.kinds, minimum |-> r.minimum ]
Demands(requirements) == { Demand(r) : r \in requirements }
=============================================================================
