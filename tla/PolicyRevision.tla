--------------------------- MODULE PolicyRevision ---------------------------
(***************************************************************************)
(* Explores the inputs of the policy compiler as the revisions an author   *)
(* and an organization make of what is submitted next: the candidate gains *)
(* a capability, its author leaves the pack to "auto", the organization    *)
(* requires another pack or a separate approver.                           *)
(*                                                                         *)
(* "auto" is not stored with a candidate.  Every submission of the command *)
(* line and of the page resolves it again from the capabilities of that    *)
(* moment, so the pack that the server sees follows the capabilities.      *)
(***************************************************************************)
EXTENDS Policy, FiniteSets

CONSTANTS
  MaxCapabilities, \* bound: how many capabilities are declared at most
  PackOverlays     \* bound: the packs the organization may come to require

ASSUME OverlayAssumption == PackOverlays \subseteq Packs

VARIABLES
  in,    \* the compiler's input
  auto   \* whether the author leaves the pack to the recommendation

vars == << in, auto >>

\* What createCandidate passes to compilePolicy: it never passes requirements
\* of the organization's own, only packs.
Intents ==
  [ pack : Packs, dataClass : DataClasses, separate : BOOLEAN,
    caps : SUBSET Capabilities, prev : SUBSET Capabilities,
    orgPacks : SUBSET Packs, orgReqs : {{}}, force : BOOLEAN ]

Baselines == { {}, {"network.outbound", "shell.execute"}, {"data.phi"} }

Init ==
  \E pack \in Packs, dataClass \in {"internal", "regulated"}, prev \in Baselines :
    /\ auto \in BOOLEAN
    /\ auto => pack = RecommendPolicyPack({})
    /\ in = [ pack |-> pack, dataClass |-> dataClass, separate |-> FALSE, caps |-> {},
              prev |-> prev, orgPacks |-> {}, orgReqs |-> {}, force |-> FALSE ]

GainCapability(c) ==
  /\ UNCHANGED auto
  /\ in' = [ in EXCEPT !.caps = @ \cup {c},
                       !.pack = IF auto THEN RecommendPolicyPack(in.caps \cup {c}) ELSE @ ]

LeavePackToAuto ==
  /\ ~auto
  /\ auto' = TRUE
  /\ in' = [ in EXCEPT !.pack = RecommendPolicyPack(in.caps) ]

RequirePack(p) == in' = [ in EXCEPT !.orgPacks = @ \cup {p} ] /\ UNCHANGED auto

RequireSeparateApprover == in' = [ in EXCEPT !.force = TRUE ] /\ UNCHANGED auto

Next ==
  \/ \E c \in Capabilities \ in.caps : Cardinality(in.caps) < MaxCapabilities /\ GainCapability(c)
  \/ LeavePackToAuto
  \/ \E p \in PackOverlays \ in.orgPacks : RequirePack(p)
  \/ ~in.force /\ RequireSeparateApprover

Spec == Init /\ [][Next]_vars

-----------------------------------------------------------------------------

RiskRank == [ low |-> 0, medium |-> 1, high |-> 2, critical |-> 3 ]

\* What is demanded whatever pack is submitted.
PackFreeDemands(i) == Demands(CompileRequirements([ i EXCEPT !.pack = "basic" ]))

\* What the server demands never falls: no revision, a change of the recommended
\* pack included, loses or weakens an obligation of the baseline, of a declared
\* capability or of the organization (docs/POLICY_PACKS.md:13-17); only the pack's
\* own obligations go, and only when the pack changes (from "networked" to
\* "code-execution" on a gain of shell.execute, say).  The risk never falls, and
\* a second pair of eyes stays required, unless the author gives up the pack
\* "high-risk" for "auto".
BarNeverFalls ==
  [][ LET old == CompilePolicy(in)  new == CompilePolicy(in')
      IN  /\ PackFreeDemands(in) \subseteq Demands(new.requirements)
          /\ in'.pack = in.pack => Demands(old.requirements) \subseteq Demands(new.requirements)
          /\ \/ in.pack = "high-risk" /\ auto' # auto
             \/ /\ RiskRank[old.risk] <= RiskRank[new.risk]
                /\ old.separate => new.separate ]_vars

\* What a candidate must meet does not depend on the release it is compared
\* with: a baseline that is stale when the candidate is frozen can change the
\* explanation of an obligation, not the obligation.
BaselineOnlyExplains ==
  \A prev \in Baselines \cup { in.caps } :
    Demands(CompileRequirements(in))
      = Demands(CompileRequirements([ in EXCEPT !.prev = prev ]))

\* The obligations attributed to the semantic diff are those of the newly
\* added capabilities, all of them and no others, through every override.
DiffIsExplained ==
  SemanticObligations(CompilePolicy(in))
    = { r.id : r \in UNION { ByCapability(c) : c \in in.caps \ in.prev } }
=============================================================================
