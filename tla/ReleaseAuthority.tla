-------------------------- MODULE ReleaseAuthority --------------------------
(***************************************************************************)
(* What the release authority promises, without requests, locks or tables: *)
(* a candidate is frozen once with the requirements it must meet;          *)
(* admissible evidence accumulates while it is undecided; one decision     *)
(* ends it, computed from all the evidence there is at that instant, made  *)
(* by someone other than the creator where the policy asks for it; and     *)
(* nothing about the candidate changes afterwards.                         *)
(*                                                                         *)
(* ReleaseGate implements this with row locks and transactions.            *)
(***************************************************************************)
EXTENDS Policy, SequencesExt

CONSTANTS
  Candidates,  \* ids of release candidates
  Users,       \* the people who create and decide them
  None         \* the absence of a dossier or a decision

VARIABLES
  dossier,   \* candidate -> [creator, requirements, separate], or None
  evidence,  \* candidate -> the rows attached to it, in order
  decision   \* candidate -> [verdict, approver, evidence, status], or None

avars == << dossier, evidence, decision >>

AInit ==
  /\ dossier  = [ c \in Candidates |-> None ]
  /\ evidence = [ c \in Candidates |-> << >> ]
  /\ decision = [ c \in Candidates |-> None ]

\* Only candidate c's entry of f changes.
ChangesOnlyAt(f, g, c) == g = [ f EXCEPT ![c] = g[c] ]

Undecided(c) == dossier[c] # None /\ decision[c] = None

Answers(row, requirements) ==
  \E r \in requirements : r.id = row.requirement /\ row.kind \in r.kinds

Freeze(c) ==
  /\ dossier[c] = None
  /\ dossier'[c] # None
  /\ ChangesOnlyAt(dossier, dossier', c)
  /\ ChangesOnlyAt(evidence, evidence', c)
  /\ UNCHANGED decision

Attach(c) ==
  /\ Undecided(c)
  /\ Len(evidence'[c]) = Len(evidence[c]) + 1
  /\ LET row == evidence'[c][Len(evidence'[c])]
     IN  /\ Answers(row, dossier[c].requirements)
         /\ evidence' = [ evidence EXCEPT ![c] = Append(@, row) ]
  /\ UNCHANGED << dossier, decision >>

Decide(c, u) ==
  /\ Undecided(c)
  /\ dossier[c].separate => u # dossier[c].creator
  /\ LET verdict == Verdict(dossier[c].requirements, ToSet(evidence[c]))
     IN  decision' = [ decision EXCEPT ![c] =
           [ verdict  |-> verdict,
             approver |-> u,
             evidence |-> evidence[c],
             status   |-> IF verdict = "RELEASE" THEN "released" ELSE "blocked" ] ]
  /\ UNCHANGED << dossier, evidence >>

ANext ==
  \E c \in Candidates :
    \/ Freeze(c)
    \/ Attach(c)
    \/ \E u \in Users : Decide(c, u)

ASpec == AInit /\ [][ANext]_avars
=============================================================================
