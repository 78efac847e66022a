--------------------------- MODULE MCGateClients ---------------------------
(***************************************************************************)
(* A small instance of GateClients: two candidates that may be frozen with *)
(* one policy, evidence that blocks its candidate, and one account behind  *)
(* the browser and the token of the command line.                          *)
(***************************************************************************)
EXTENDS GateClients

CONSTANTS alice, v1, v2

MCUsers == { alice }
NoVerifiers == {}
NoTrust == [ v \in NoVerifiers |-> "same_team" ]
NoKinds == [ v \in NoVerifiers |-> {} ]
Owners == [ u \in Users |-> "owner" ]
Nothing == {}

Submit(version, caps) ==
  [ version |-> version, pack |-> "basic", dataClass |-> "internal",
    separate |-> FALSE, caps |-> caps ]

\* Either may come first, so that the second candidate has more authority than
\* the first or less, and they share some; one policy for both.
TwoPolicies ==
  { Submit(v1, {"network.outbound"}), Submit(v2, {"network.outbound", "filesystem.read"}) }
OnePolicy   == { Submit(v1, {}), Submit(v2, {}) }

Scan(clean) ==
  [ requirement |-> "HF-CAP-001", kind |-> "static_analysis", outcome |-> "pass",
    scanClean |-> clean, verifier |-> None ]

MCItems == { Scan(FALSE) }

Symmetric == Permutations(Candidates) \cup Permutations(Loads)
=============================================================================
