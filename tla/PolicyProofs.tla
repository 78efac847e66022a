---------------------------- MODULE PolicyProofs ----------------------------
(***************************************************************************)
(* What the policy compiler and the evaluator guarantee for every intent   *)
(* and every set of evidence.                                              *)
(***************************************************************************)
EXTENDS Policy, TLAPS

-----------------------------------------------------------------------------
(* Evaluation.                                                             *)

(* An opinion of a model never satisfies a requirement: whatever passes has an
   eligible passing row of another kind (README.md:20, SECURITY.md:12). *)
THEOREM ModelOpinionNeverSuffices ==
  ASSUME NEW r, NEW rows, EvaluateRequirement(r, rows) = "pass"
  PROVE  \E e \in Eligible(r, rows) : e.outcome = "pass" /\ e.kind # "llm_evaluation"
  BY DEF EvaluateRequirement, Establishes

(* A counterexample is final: once an eligible row fails a requirement, no
   further evidence makes it pass again. *)
THEOREM FailureIsFinal ==
  ASSUME NEW r, NEW rows, NEW more, rows \subseteq more,
         EvaluateRequirement(r, rows) = "fail"
  PROVE  EvaluateRequirement(r, more) = "fail"
<1>1. \E e \in Eligible(r, rows) : e.outcome = "fail"
  BY DEF EvaluateRequirement
<1>2. Eligible(r, rows) \subseteq Eligible(r, more)
  BY DEF Eligible
<1> QED
  BY <1>1, <1>2 DEF EvaluateRequirement

(* A blocked requirement set stays blocked by a failure: a candidate that has a
   failing requirement is never ready again. *)
THEOREM FailureBlocks ==
  ASSUME NEW requirements, NEW r \in requirements, NEW rows, NEW more,
         rows \subseteq more, EvaluateRequirement(r, rows) = "fail"
  PROVE  Verdict(requirements, more) = "BLOCK"
<1>1. EvaluateRequirement(r, more) = "fail"
  BY FailureIsFinal
<1> QED
  BY <1>1 DEF Verdict, GateReady

(* No evidence, no release: a gate that demands something is not ready on
   nothing (docs/PRODUCT_MANIFESTO.md:138). *)
THEOREM NoEvidenceNoRelease ==
  ASSUME NEW requirements, requirements # {}
  PROVE  Verdict(requirements, {}) = "BLOCK"
<1>1. \A r : EvaluateRequirement(r, {}) = "missing"
  BY DEF EvaluateRequirement, Eligible
<1> QED
  BY <1>1 DEF Verdict, GateReady

-----------------------------------------------------------------------------
(* Compilation.  The layers draw from one catalogue in which an id occurs  *)
(* once, so that overriding an earlier layer cannot change a demand.       *)

CapabilityCatalogue == { rule[2] : rule \in CapabilityRules }
PackCatalogue == { rule[2] : rule \in PackRules }
Catalogue == Baseline \cup CapabilityCatalogue \cup PackCatalogue

BaselineIds == { "HF-ART-001", "HF-CAP-001", "HF-REG-001" }
CapabilityIds ==
  { "HF-NET-001", "HF-FS-001", "HF-FS-002", "HF-CODE-001", "HF-DB-001", "HF-ACT-001",
    "HF-ACT-002", "HF-PAY-001", "HF-SEC-001", "HF-DATA-001", "HF-DATA-002" }
PackIds == { "HF-INJ-001", "HF-RES-001", "HF-IRR-001", "HF-IND-001", "HF-ADV-001" }

LEMMA IdsByLayer ==
  /\ \A r \in Baseline : r.id \in BaselineIds
  /\ \A r \in CapabilityCatalogue : r.id \in CapabilityIds
  /\ \A r \in PackCatalogue : r.id \in PackIds
<1>1. \A r \in Baseline : r.id \in BaselineIds
  BY DEF Baseline, BaselineIds, Req
<1>2. \A rule \in CapabilityRules : rule[2].id \in CapabilityIds
  BY DEF CapabilityRules, CapabilityIds, Req
<1>3. \A rule \in PackRules : rule[2].id \in PackIds
  BY DEF PackRules, PackIds, Req
<1> QED
  BY <1>1, <1>2, <1>3 DEF CapabilityCatalogue, PackCatalogue

LEMMA IdsUniqueInLayer ==
  /\ \A q, r \in Baseline : q.id = r.id => q = r
  /\ \A q, r \in CapabilityCatalogue : q.id = r.id => q = r
  /\ \A q, r \in PackCatalogue : q.id = r.id => q = r
<1>1. \A q, r \in Baseline : q.id = r.id => q = r
  BY DEF Baseline, Req
<1>2. \A q, r \in CapabilityRules : q[2].id = r[2].id => q[2] = r[2]
  BY SMTT(30) DEF CapabilityRules, Req
<1>3. \A q, r \in PackRules : q[2].id = r[2].id => q[2] = r[2]
  BY DEF PackRules, Req
<1> QED
  BY <1>1, <1>2, <1>3 DEF CapabilityCatalogue, PackCatalogue

\* An id names one requirement, whichever layer it is taken from.
LEMMA CatalogueIdsUnique ==
  \A q, r \in Catalogue : q.id = r.id => q = r
<1>1. \A i \in BaselineIds : i \notin CapabilityIds /\ i \notin PackIds
  BY DEF BaselineIds, CapabilityIds, PackIds
<1>2. \A i \in CapabilityIds : i \notin PackIds
  BY DEF CapabilityIds, PackIds
<1> QED
  BY <1>1, <1>2, IdsByLayer, IdsUniqueInLayer DEF Catalogue

LEMMA CatalogueShape ==
  \A r \in Catalogue : r = Req(r.id, r.kinds, r.minimum)
<1>1. \A r \in Baseline : r = Req(r.id, r.kinds, r.minimum)
  BY DEF Baseline, Req
<1>2. \A rule \in CapabilityRules : rule[2] = Req(rule[2].id, rule[2].kinds, rule[2].minimum)
  BY DEF CapabilityRules, Req
<1>3. \A rule \in PackRules : rule[2] = Req(rule[2].id, rule[2].kinds, rule[2].minimum)
  BY DEF PackRules, Req
<1> QED
  BY <1>1, <1>2, <1>3 DEF Catalogue, CapabilityCatalogue, PackCatalogue

\* Stamping a layer with its source changes none of its demands.
LEMMA LayerDemands ==
  ASSUME NEW source, NEW reqs, reqs \subseteq Catalogue
  PROVE  Demands(From(source, reqs)) = reqs
<1>1. \A r \in reqs : Demand(Stamped(source, r)) = r
  BY CatalogueShape DEF Demand, Stamped, Req
<1> QED
  BY <1>1 DEF Demands, From

\* A layer that overrides another one hides no demand of it.
LEMMA OverrideDemands ==
  ASSUME NEW earlier, NEW later,
         Demands(earlier) \subseteq Catalogue, Demands(later) \subseteq Catalogue
  PROVE  Demands(Override(earlier, later)) = Demands(earlier) \cup Demands(later)
<1>1. \A q, r : Demand(q).id = q.id /\ Demand(r).id = r.id
  BY DEF Demand
<1>2. \A q \in earlier, r \in later : q.id = r.id => Demand(q) = Demand(r)
  BY <1>1, CatalogueIdsUnique DEF Demands
<1> QED
  BY <1>2 DEF Demands, Override

LEMMA RulesInCatalogue ==
  /\ Baseline \subseteq Catalogue
  /\ \A p : PackRequirements(p) \subseteq Catalogue
  /\ \A c : ByCapability(c) \subseteq Catalogue
  BY DEF Catalogue, CapabilityCatalogue, PackCatalogue, PackRequirements, ByCapability

(* The compiled gate demands the baseline, the pack, every declared capability
   and every pack the organization requires: all of it, nothing else, and
   independently of the release it is compared with (docs/POLICY_PACKS.md:13-17). *)
THEOREM CompiledDemands ==
  ASSUME NEW i, i.orgReqs = {}
  PROVE  Demands(CompileRequirements(i)) =
           Baseline \cup PackRequirements(i.pack)
             \cup (UNION { ByCapability(c) : c \in i.caps })
             \cup (UNION { PackRequirements(p) : p \in i.orgPacks })
<1> DEFINE declared == UNION { ByCapability(c) : c \in i.caps }
           new      == UNION { ByCapability(c) : c \in Added(i) }
           overlay  == UNION { PackRequirements(p) : p \in i.orgPacks }
           two   == Override(From("baseline", Baseline), From("pack", PackRequirements(i.pack)))
           three == Override(two, From("capability", declared))
           four  == Override(three, From("semantic_diff", new))
           five  == Override(four, From("organization", overlay))
<1>1. declared \subseteq Catalogue /\ new \subseteq Catalogue /\ overlay \subseteq Catalogue
  BY RulesInCatalogue
<1>2. new \subseteq declared
  BY DEF Added
<1>3. Demands(two) = Baseline \cup PackRequirements(i.pack)
  BY RulesInCatalogue, LayerDemands, OverrideDemands
<1>4. Demands(three) = Demands(two) \cup declared
  BY <1>1, <1>3, RulesInCatalogue, LayerDemands, OverrideDemands
<1>5. Demands(four) = Demands(three) \cup new
  BY <1>1, <1>3, <1>4, RulesInCatalogue, LayerDemands, OverrideDemands
<1>6. Demands(five) = Demands(four) \cup overlay
  BY <1>1, <1>3, <1>4, <1>5, RulesInCatalogue, LayerDemands, OverrideDemands
<1>7. CompileRequirements(i) = five
  BY DEF CompileRequirements, Override
<1> QED
  BY <1>2, <1>3, <1>4, <1>5, <1>6, <1>7

(* A gate that was compiled is never ready without evidence. *)
THEOREM CompiledGateNeedsEvidence ==
  ASSUME NEW i, i.orgReqs = {}
  PROVE  Verdict(CompileRequirements(i), {}) = "BLOCK"
<1>1. Demands(CompileRequirements(i)) # {}
  BY CompiledDemands DEF Baseline
<1>2. CompileRequirements(i) # {}
  BY <1>1 DEF Demands
<1> QED
  BY <1>2, NoEvidenceNoRelease

=============================================================================
