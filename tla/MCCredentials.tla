--------------------------- MODULE MCCredentials ---------------------------
(* Instances of Credentials for TLC: an owner and a member of a workspace. *)
EXTENDS Credentials, TLC

CONSTANTS alice, bob

OwnerAndMember == [ u \in {alice, bob} |-> IF u = alice THEN "owner" ELSE "member" ]

\* The member is made an admin, removed, and invited back.
MemberComesAndGoes == { << bob, "admin" >>, << bob, "none" >>, << bob, "member" >> }

\* Ids that are drawn at random, and request slots, are interchangeable.
Symmetric == Permutations(Requests) \cup Permutations(Tokens) \cup Permutations(Verifiers)
=============================================================================
