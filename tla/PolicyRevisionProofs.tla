------------------------ MODULE PolicyRevisionProofs ------------------------
(***************************************************************************)
(* The properties of the policy compiler that the runs check on bounded    *)
(* revisions, for every number of capabilities and every overlay.          *)
(***************************************************************************)
EXTENDS PolicyRevision, PolicyProofs

-----------------------------------------------------------------------------
(* The properties of the runs, for every bound.                            *)

IntentOK == in \in Intents

LEMMA IntentOKHolds == Spec => []IntentOK
<1>1. Init => IntentOK
  BY DEF Init, IntentOK, Intents, Baselines, DataClasses, Capabilities
<1>2. IntentOK /\ [Next]_vars => IntentOK'
  <2> SUFFICES ASSUME IntentOK, [Next]_vars PROVE IntentOK'
    OBVIOUS
  <2>1. ASSUME NEW c \in Capabilities, GainCapability(c) PROVE IntentOK'
    BY <2>1 DEF IntentOK, Intents, GainCapability, RecommendPolicyPack, Packs
  <2>2. ASSUME NEW p \in PackOverlays, RequirePack(p) PROVE IntentOK'
    BY <2>2, OverlayAssumption DEF IntentOK, Intents, RequirePack
  <2>3. CASE RequireSeparateApprover
    BY <2>3 DEF IntentOK, Intents, RequireSeparateApprover
  <2>4. CASE LeavePackToAuto
    BY <2>4 DEF IntentOK, Intents, LeavePackToAuto, RecommendPolicyPack, Packs
  <2>5. CASE UNCHANGED vars
    BY <2>5 DEF IntentOK, vars
  <2> QED
    BY <2>1, <2>2, <2>3, <2>4, <2>5 DEF Next
<1> QED
  BY <1>1, <1>2, PTL DEF Spec

(* A baseline that is stale when a candidate is frozen loses no obligation. *)
THEOREM BaselineOnlyExplainsHolds == Spec => []BaselineOnlyExplains
<1>1. ASSUME IntentOK PROVE BaselineOnlyExplains
  <2> SUFFICES ASSUME NEW prev \in Baselines \cup { in.caps }
               PROVE  Demands(CompileRequirements(in))
                        = Demands(CompileRequirements([ in EXCEPT !.prev = prev ]))
    BY DEF BaselineOnlyExplains
  <2> DEFINE other == [ in EXCEPT !.prev = prev ]
  <2>1. /\ other.pack = in.pack /\ other.caps = in.caps
        /\ other.orgPacks = in.orgPacks /\ other.orgReqs = {} /\ in.orgReqs = {}
    BY <1>1 DEF IntentOK, Intents
  <2> HIDE DEF other
  <2>2. Demands(CompileRequirements(other)) = Demands(CompileRequirements(in))
    BY <2>1, CompiledDemands
  <2> QED
    BY <2>2 DEF other
<1> QED
  BY <1>1, IntentOKHolds, PTL

\* With the pack fixed, risk is monotone in the declared capabilities.
LEMMA RiskIsMonotone ==
  ASSUME NEW caps, NEW more, caps \subseteq more, NEW pack, NEW dataClass
  PROVE  RiskRank[InferRisk(caps, pack, dataClass)] <= RiskRank[InferRisk(more, pack, dataClass)]
<1>1. \A a, b \in { "low", "medium", "high", "critical" } : 
        /\ RiskRank["low"] <= RiskRank[b] 
        /\ RiskRank[a] <= RiskRank["critical"]
        /\ a # "critical" => RiskRank[a] <= RiskRank["high"]
        /\ RiskRank[a] <= RiskRank[a]
  BY DEF RiskRank
<1> QED
  BY <1>1 DEF InferRisk

\* The risk of the recommended pack is that of the capabilities alone.
LEMMA RecommendationKeepsRisk ==
  ASSUME NEW caps, NEW dataClass
  PROVE  InferRisk(caps, RecommendPolicyPack(caps), dataClass) = InferRisk(caps, "basic", dataClass)
BY DEF InferRisk, RecommendPolicyPack

\* While the pack is left to "auto", it is the one recommended for the capabilities.
PackFollows == auto \in BOOLEAN /\ (auto => in.pack = RecommendPolicyPack(in.caps))

LEMMA PackFollowsHolds == Spec => []PackFollows
<1>1. Init => PackFollows
  BY DEF Init, PackFollows
<1>2. IntentOK /\ PackFollows /\ [Next]_vars => PackFollows'
  <2> SUFFICES ASSUME IntentOK, PackFollows, [Next]_vars PROVE PackFollows'
    OBVIOUS
  <2>1. ASSUME NEW c \in Capabilities, GainCapability(c) PROVE PackFollows'
    BY <2>1 DEF IntentOK, Intents, PackFollows, GainCapability
  <2>2. ASSUME NEW p \in PackOverlays, RequirePack(p) PROVE PackFollows'
    BY <2>2 DEF IntentOK, Intents, PackFollows, RequirePack
  <2>3. CASE RequireSeparateApprover
    BY <2>3 DEF IntentOK, Intents, PackFollows, RequireSeparateApprover
  <2>4. CASE LeavePackToAuto
    BY <2>4 DEF IntentOK, Intents, PackFollows, LeavePackToAuto
  <2>5. CASE UNCHANGED vars
    BY <2>5 DEF PackFollows, vars
  <2> QED
    BY <2>1, <2>2, <2>3, <2>4, <2>5 DEF Next
<1> QED
  BY <1>1, <1>2, IntentOKHolds, PTL DEF Spec

(* Gaining authority, leaving the pack to "auto" or a stricter overlay never lowers what
   the server demands, nor the risk and the approval that follow from it. *)
THEOREM BarNeverFallsHolds == Spec => BarNeverFalls
<1> DEFINE old == CompilePolicy(in)
           new == CompilePolicy(in')
           Bar == /\ PackFreeDemands(in) \subseteq Demands(new.requirements)
                  /\ in'.pack = in.pack => Demands(old.requirements) \subseteq Demands(new.requirements)
                  /\ \/ in.pack = "high-risk" /\ auto' # auto
                     \/ /\ RiskRank[old.risk] <= RiskRank[new.risk]
                        /\ old.separate => new.separate
<1>1. ASSUME IntentOK, PackFollows, PackFollows', Next PROVE Bar
  <2>1. /\ in'.dataClass = in.dataClass
        /\ in.caps \subseteq in'.caps /\ in.orgPacks \subseteq in'.orgPacks
        /\ in.orgReqs = {} /\ in'.orgReqs = {}
        /\ in'.separate = in.separate /\ (in.force => in'.force)
        /\ \/ auto' = auto /\ (auto \/ in'.pack = in.pack)
           \/ ~auto /\ auto'
    <3>1. ASSUME NEW c \in Capabilities, GainCapability(c) PROVE <2>1
      BY <1>1, <3>1 DEF IntentOK, Intents, PackFollows, GainCapability
    <3>2. ASSUME NEW p \in PackOverlays, RequirePack(p) PROVE <2>1
      BY <1>1, <3>2 DEF IntentOK, Intents, RequirePack
    <3>3. CASE RequireSeparateApprover
      BY <1>1, <3>3 DEF IntentOK, Intents, RequireSeparateApprover
    <3>4. CASE LeavePackToAuto
      BY <1>1, <3>4 DEF IntentOK, Intents, LeavePackToAuto
    <3> QED
      BY <1>1, <3>1, <3>2, <3>3, <3>4 DEF Next
  <2>2. PackFreeDemands(in) \subseteq Demands(new.requirements)
    <3> DEFINE bare == [ in EXCEPT !.pack = "basic" ]
    <3>1. /\ bare.pack = "basic" /\ bare.caps = in.caps
          /\ bare.orgPacks = in.orgPacks /\ bare.orgReqs = {}
      BY <1>1 DEF IntentOK, Intents
    <3>2. PackRequirements("basic") = {}
      BY DEF PackRequirements, PackRules
    <3> HIDE DEF bare
    <3>3. Demands(CompileRequirements(bare)) \subseteq Demands(CompileRequirements(in'))
      BY <2>1, <3>1, <3>2, CompiledDemands
    <3> QED
      BY <3>3 DEF bare, PackFreeDemands, CompilePolicy
  <2>3. in'.pack = in.pack => Demands(old.requirements) \subseteq Demands(new.requirements)
    <3>1. in'.pack = in.pack
            => Demands(CompileRequirements(in)) \subseteq Demands(CompileRequirements(in'))
      BY <2>1, CompiledDemands
    <3> QED
      BY <3>1 DEF CompilePolicy
  <2>4. in.pack # "high-risk" \/ auto' = auto
          => \E pack : /\ InferRisk(in.caps, in.pack, in.dataClass) = InferRisk(in.caps, pack, in.dataClass)
                       /\ \/ InferRisk(in'.caps, in'.pack, in'.dataClass)
                                = InferRisk(in'.caps, pack, in.dataClass)
                          \/ in'.pack = "high-risk"
    <3>1. CASE in'.pack = in.pack
      BY <2>1, <3>1
    <3>2. CASE auto /\ auto'
      BY <1>1, <2>1, <3>2, RecommendationKeepsRisk DEF PackFollows
    <3>3. CASE in.pack # "high-risk"
      <4>1. InferRisk(in.caps, in.pack, in.dataClass) = InferRisk(in.caps, "basic", in.dataClass)
        BY <3>3 DEF InferRisk
      <4>2. in'.pack # "high-risk" => InferRisk(in'.caps, in'.pack, in'.dataClass)
                                         = InferRisk(in'.caps, "basic", in.dataClass)
        BY <2>1 DEF InferRisk
      <4> QED
        BY <4>1, <4>2
    <3> QED
      BY <1>1, <2>1, <3>1, <3>2, <3>3 DEF PackFollows
  <2>5. in.pack # "high-risk" \/ auto' = auto
          => /\ RiskRank[InferRisk(in.caps, in.pack, in.dataClass)]
                  <= RiskRank[InferRisk(in'.caps, in'.pack, in'.dataClass)]
             /\ ElevatedRisk(InferRisk(in.caps, in.pack, in.dataClass))
                  => ElevatedRisk(InferRisk(in'.caps, in'.pack, in'.dataClass))
    <3>1. SUFFICES ASSUME in.pack # "high-risk" \/ auto' = auto
                   PROVE  /\ RiskRank[InferRisk(in.caps, in.pack, in.dataClass)]
                               <= RiskRank[InferRisk(in'.caps, in'.pack, in'.dataClass)]
                          /\ ElevatedRisk(InferRisk(in.caps, in.pack, in.dataClass))
                               => ElevatedRisk(InferRisk(in'.caps, in'.pack, in'.dataClass))
      OBVIOUS
    <3>2. PICK pack : /\ InferRisk(in.caps, in.pack, in.dataClass) = InferRisk(in.caps, pack, in.dataClass)
                      /\ \/ InferRisk(in'.caps, in'.pack, in'.dataClass)
                               = InferRisk(in'.caps, pack, in.dataClass)
                         \/ in'.pack = "high-risk"
      BY <2>4, <3>1
    <3>3. /\ ElevatedRisk(InferRisk(in.caps, pack, in.dataClass))
              => ElevatedRisk(InferRisk(in'.caps, pack, in.dataClass))
          /\ ElevatedRisk("critical")
      BY <2>1 DEF ElevatedRisk, InferRisk
    <3>4. in'.pack = "high-risk" => InferRisk(in'.caps, in'.pack, in'.dataClass) = "critical"
      BY DEF InferRisk
    <3>5. /\ RiskRank[InferRisk(in.caps, pack, in.dataClass)]
               <= RiskRank[InferRisk(in'.caps, pack, in.dataClass)]
          /\ RiskRank[InferRisk(in.caps, pack, in.dataClass)] <= RiskRank["critical"]
      BY <2>1, RiskIsMonotone DEF RiskRank, InferRisk
    <3> QED
      BY <3>2, <3>3, <3>4, <3>5
  <2>6. /\ old.risk = InferRisk(in.caps, in.pack, in.dataClass)
        /\ new.risk = InferRisk(in'.caps, in'.pack, in'.dataClass)
    BY DEF CompilePolicy
  <2>7. in.pack # "high-risk" \/ auto' = auto => (old.separate => new.separate)
    BY <2>1, <2>5 DEF CompilePolicy, SeparateApprover
  <2> HIDE DEF old, new
  <2> QED
    BY <2>2, <2>3, <2>5, <2>6, <2>7
<1>2. IntentOK /\ PackFollows /\ PackFollows' /\ [Next]_vars => [Bar]_vars
  BY <1>1
<1> HIDE DEF Bar
<1>3. Spec => [][Bar]_vars
  BY <1>2, IntentOKHolds, PackFollowsHolds, PTL DEF Spec
<1> QED
  BY <1>3 DEF BarNeverFalls, Bar

(* What is attributed to the semantic diff are the requirements of the newly added
   capabilities: no later layer has their ids, and no other layer has their source. *)
THEOREM DiffIsExplainedHolds == Spec => []DiffIsExplained
<1>1. ASSUME IntentOK PROVE DiffIsExplained
  <2> DEFINE declared == UNION { ByCapability(c) : c \in in.caps }
             added    == UNION { ByCapability(c) : c \in Added(in) }
             overlay  == UNION { PackRequirements(p) : p \in in.orgPacks }
             two   == Override(From("baseline", Baseline), From("pack", PackRequirements(in.pack)))
             three == Override(two, From("capability", declared))
             four  == Override(three, From("semantic_diff", added))
             five  == Override(four, From("organization", overlay))
  <2>1. CompileRequirements(in) = five
    BY <1>1 DEF IntentOK, Intents, CompileRequirements, Override
  <2>2. \A q \in added, r \in overlay : q.id # r.id
    <3>1. added \subseteq CapabilityCatalogue /\ overlay \subseteq PackCatalogue
      BY DEF CapabilityCatalogue, PackCatalogue, ByCapability, PackRequirements
    <3>2. \A i \in CapabilityIds : i \notin PackIds
      BY DEF CapabilityIds, PackIds
    <3> QED
      BY <3>1, <3>2, IdsByLayer
  <2>3. \A source, reqs : \A r \in From(source, reqs) :
          r.source = source /\ \E q \in reqs : r.id = q.id
    BY DEF From, Stamped
  <2>4. \A r \in three : r.source # "semantic_diff"
    BY <2>3 DEF Override
  <2>5. \A r \in five : r.source = "semantic_diff" => r \in From("semantic_diff", added)
    BY <2>3, <2>4 DEF Override
  <2>6. From("semantic_diff", added) \subseteq five
    BY <2>2, <2>3 DEF Override
  <2>7. SemanticObligations(CompilePolicy(in)) = { r.id : r \in From("semantic_diff", added) }
    <3>1. CompilePolicy(in).requirements = five
      BY <2>1 DEF CompilePolicy
    <3>2. { q \in five : q.source = "semantic_diff" } = From("semantic_diff", added)
      BY <2>3, <2>5, <2>6
    <3> QED
      BY <3>1, <3>2 DEF SemanticObligations
  <2>8. { r.id : r \in From("semantic_diff", added) } = { r.id : r \in added }
    <3>1. \A r : Stamped("semantic_diff", r).id = r.id
      BY DEF Stamped
    <3> HIDE DEF added
    <3> QED
      BY <3>1 DEF From
  <2> QED
    BY <2>7, <2>8 DEF DiffIsExplained, Added
<1> QED
  BY <1>1, IntentOKHolds, PTL
=============================================================================
