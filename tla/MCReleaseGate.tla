--------------------------- MODULE MCReleaseGate ---------------------------
(***************************************************************************)
(* Small instances of ReleaseGate.  Alice creates, Bob is the second pair  *)
(* of eyes; the verifiers are one of each trust level.                     *)
(***************************************************************************)
EXTENDS ReleaseGate

CONSTANTS alice, bob, team, lab, v1, v2

MCUsers == { alice, bob }
MCVerifiers == { team, lab }
MCTrust == [ v \in MCVerifiers |-> IF v = lab THEN "independent" ELSE "same_team" ]
MCKinds ==
  [ v \in MCVerifiers |->
      IF v = lab THEN { "deterministic_test", "independent_verifier" }
      ELSE { "sandbox_run", "independent_verifier" } ]

Submit(version, pack, caps) ==
  [ version |-> version, pack |-> pack, dataClass |-> "internal",
    separate |-> FALSE, caps |-> caps ]

\* Low risk, high risk with a same-team requirement, and critical risk with an
\* independent one.
LowRisk  == Submit(v1, "basic", {})
HighRisk == Submit(v1, "basic", {"filesystem.write"})
Critical == Submit(v1, "basic", {"payment.execute"})

Evidence(requirement, kind, outcome, scanClean, verifier) ==
  [ requirement |-> requirement, kind |-> kind, outcome |-> outcome,
    scanClean |-> scanClean, verifier |-> verifier ]

DecisionItems ==
  { Evidence("HF-CAP-001", "static_analysis", "pass", FALSE, None),
    Evidence("HF-FS-002", "sandbox_run", "pass", TRUE, None),
    Evidence("HF-PAY-001", "deterministic_test", "pass", TRUE, None),
    Evidence("HF-PAY-001", "independent_verifier", "pass", TRUE, lab),
    Evidence("HF-PAY-001", "independent_verifier", "pass", TRUE, team) }

AllOwners == [ u \in Users |-> "owner" ]
Alice == { alice }
BobDemoted == { << bob, "member" >>, << bob, "owner" >>, << bob, "none" >> }

NoEvidence == {}
NoRoleChange == {}

DecisionSubmissions == { LowRisk, HighRisk, Critical }
Symmetric == Permutations(Requests)
=============================================================================
