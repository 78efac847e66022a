-------------------------- MODULE GateClientsProofs --------------------------
(***************************************************************************)
(* The clients of the gate use it as it is: what a browser and the command *)
(* line do to it are steps of ReleaseGate (ClientsUseTheGate), so all that *)
(* is proved of the gate holds beside them.  On top of it, for any number  *)
(* of candidates and of loads in flight, what a receipt that verifies, a   *)
(* page that is shown, a policy that is approved and a submission that     *)
(* reports success stand for.                                              *)
(*                                                                         *)
(* The clients' invariant (ClientInv) says of each load what it has read   *)
(* so far and why that stays true: what it has read of a decided candidate *)
(* is final, and of evidence it has a prefix (LoadInv).                    *)
(***************************************************************************)
EXTENDS GateClients, ReleaseGateProofs, SequenceTheorems

LoadCall ==
  [ cand : Candidates, reload : BOOLEAN, done : 0 .. 3,
    status : { "frozen", "released", "blocked", None }, evidence : Seq(EvidenceRow),
    receipt : Receipt \cup {None} ]

CliState ==
  [ pc : { "ready", "creating", "created", "posting", "done", "failed" },
    cand : Candidates \cup {None}, scans : BOOLEAN ]

ClientTypes ==
  /\ selected \in Candidates \cup {None}
  /\ loads \in [ Loads -> LoadCall \cup {None} ]
  /\ act \in Act \cup {None}
  /\ cli \in CliState

\* Every receipt is signed by one of the two keys.
KeyInv ==
  /\ key \in Keys
  /\ signedBy \in [ Candidates -> Keys \cup {None} ]
  /\ \A c \in Candidates : Decided(c) => signedBy[c] \in Keys

\* What load l has read: the status before the evidence before the receipt.
LoadInv(l) ==
  loads[l] # None =>
    LET c == loads[l].cand IN
    /\ c \in Existing
    /\ loads[l].done >= 1 /\ loads[l].status # "frozen" =>
         Decided(c) /\ loads[l].status = row[c].status
    /\ loads[l].done >= 2 =>
         /\ IsPrefix(loads[l].evidence, ledger[c])
         /\ loads[l].status # "frozen" => loads[l].evidence = ledger[c]
    /\ loads[l].done = 3 =>
         /\ loads[l].receipt = None \/ loads[l].receipt = receipt[c]
         /\ loads[l].status # "frozen" => loads[l].receipt = receipt[c]

\* The page reloads once for a form, and is busy as long as it does.
ReloadInv ==
  /\ \A l \in Loads : loads[l] # None /\ loads[l].reload => act # None /\ act.pc = "reloading"
  /\ \A l, k \in Loads :
       loads[l] # None /\ loads[l].reload /\ loads[k] # None /\ loads[k].reload => l = k

PageInv == details # None => details.cand \in Existing /\ PageIsConsistent

\* While the browser's request runs, the form waits for it; a decision carries
\* the policy of the candidate that was on the page.
RunningInv ==
  req[Web].pc # "idle" =>
    /\ act # None
    /\ act.pc = "running"
    /\ act.cand = req[Web].cand
    /\ req[Web].pc \in DecisionPcs =>
         /\ act.saw \in Existing
         /\ req[Web].policy = row[act.saw].policy
         /\ req[Web].pc # "lock decision" => row[req[Web].cand].policy = req[Web].policy

\* A form that has succeeded is about a candidate that exists.
FormInv ==
  /\ RunningInv
  /\ act # None /\ act.pc # "running" => act.cand \in Existing

\* The command line creates, then posts, and decides nothing.
SubmitInv ==
  /\ req[Cli].pc # "idle" =>
       /\ req[Cli].cand = cli.cand
       /\ \/ cli.pc = "creating" /\ req[Cli].pc \in CreatePcs
          \/ /\ cli.pc = "posting" /\ req[Cli].pc \in EvidencePcs
             /\ req[Cli].item.requirement = "HF-CAP-001"
  /\ cli.pc \in { "created", "posting" } => cli.cand \in Existing
  /\ SubmittedWithItsScan

\* A request at no statement is an empty slot.
IdleInv == \A r \in Requests : req[r].pc = "idle" => req[r] = Idle

ClientInv ==
  /\ IdleInv /\ ClientTypes /\ KeyInv /\ ReloadInv /\ PageInv /\ FormInv /\ SubmitInv
  /\ \A l \in Loads : LoadInv(l)

-----------------------------------------------------------------------------
(* The gate under its clients.                                             *)

LEMMA ClientSlots == Web \in Requests /\ Cli \in Requests /\ \A r \in Requests : r = Web \/ r = Cli
BY ClientAssumption

LEMMA StepsOfTheGate == [CNext]_cvars => [Next]_vars
<1> SUFFICES ASSUME [CNext]_cvars PROVE [Next]_vars
  OBVIOUS
<1>1. CASE Serve
  BY <1>1 DEF Serve, Next
<1>2. CASE Create \/ AddEvidence \/ Decide \/ SubmitCandidate \/ PostScan
  BY <1>2, ClientSlots DEF Create, AddEvidence, Decide, SubmitCandidate, PostScan, Next
<1>3. CASE RotateKey \/ ReloadAfter \/ SelectCreated \/ (\E c \in Candidates : Select(c))
  BY <1>3 DEF RotateKey, ReloadAfter, SelectCreated, Select
<1>4. ASSUME NEW l \in Loads, ReadStatement(l) \/ Arrive(l) \/ LoadFails(l) PROVE [Next]_vars
  BY <1>4 DEF ReadStatement, Arrive, LoadFails, Settled
<1>5. CASE UNCHANGED cvars
  BY <1>5 DEF cvars
<1> QED
  BY <1>1, <1>2, <1>3, <1>4, <1>5 DEF CNext

\* The browser and the command line do nothing to the gate that is not a step of
\* ReleaseGate: the page of gates.tsx and candidate submit of hodgeform.mjs:61 only
\* call createCandidate, recordEvidence and decideRelease.
THEOREM ClientsUseTheGate == CSpec => Spec
<1>1. CInit => Init
  BY DEF CInit
<1> QED
  BY <1>1, StepsOfTheGate, PTL DEF CSpec, Spec

\* What ReleaseAuthority promises holds of the gate with its clients: nothing that a
\* page or a script does, however late it is answered, freezes, records or decides
\* otherwise.
THEOREM ClientsImplementAuthority == CSpec => ImplementsAuthority
BY ClientsUseTheGate, GateImplementsAuthority

\* A step of the gate leaves what has been written.
LEMMA PrefixMeans ==
  ASSUME NEW S, NEW s \in Seq(S), NEW t \in Seq(S)
  PROVE  IsPrefix(s, t) <=> Len(s) <= Len(t) /\ \A i \in 1 .. Len(s) : s[i] = t[i]
<1>1. Len(s) \in Nat /\ Len(t) \in Nat
  BY LenProperties
<1>2. SUFFICES ASSUME Len(s) <= Len(t)
               PROVE  SubSeq(s, 1, Len(s)) = SubSeq(t, 1, Len(s)) <=> \A i \in 1 .. Len(s) : s[i] = t[i]
  BY DEF IsPrefix
<1>3. SubSeq(s, 1, Len(s)) = s
  BY SubSeqFull
<1>4. /\ SubSeq(t, 1, Len(s)) \in Seq(S)
      /\ Len(SubSeq(t, 1, Len(s))) = Len(s)
      /\ \A i \in 1 .. Len(s) : SubSeq(t, 1, Len(s))[i] = t[i]
  <2>1. \A i \in 1 .. Len(s) : t[i] \in S
    BY <1>1, <1>2, ElementOfSeq
  <2>2. 1 \in 1 .. Len(t) + 1 /\ Len(s) \in 1 - 1 .. Len(t)
    BY <1>1, <1>2
  <2>3. Len(s) - 1 + 1 = Len(s)
    BY <1>1
  <2> QED
    BY <1>1, <2>1, <2>2, <2>3, SubSeqProperties
<1> DEFINE u == SubSeq(t, 1, Len(s))
<1>5. u \in Seq(S) /\ Len(u) = Len(s) /\ \A i \in 1 .. Len(s) : u[i] = t[i]
  BY <1>4
<1> HIDE DEF u
<1>6. s = u <=> \A i \in 1 .. Len(s) : s[i] = t[i]
  BY <1>1, <1>5, SeqEqual
<1> QED
  BY <1>3, <1>6 DEF u

LEMMA LedgerGrows ==
  ASSUME TypeInv, TypeInv', GateInv, [Next]_vars, NEW c \in Candidates, row[c] # None
  PROVE  /\ ledger[c] \in Seq(EvidenceRow) /\ ledger'[c] \in Seq(EvidenceRow)
         /\ ToSet(ledger[c]) \subseteq ToSet(ledger'[c])
         /\ Len(ledger[c]) <= Len(ledger'[c])
         /\ \A i \in 1 .. Len(ledger[c]) : ledger'[c][i] = ledger[c][i]
<1>1. ledger[c] \in Seq(EvidenceRow) /\ ledger'[c] \in Seq(EvidenceRow)
  BY DEF TypeInv, TypeOK
<1>2. Len(ledger[c]) \in Nat
  BY <1>1, LenProperties
<1>3. CASE ledger'[c] = ledger[c]
  BY <1>1, <1>2, <1>3
<1>4. CASE ledger'[c] # ledger[c]
  <2>1. PICK r \in Requests : /\ req[r].cand = c
                              /\ InsertCandidate(r) \/ InsertEvidence(r) \/ CommitDecision(r)
    BY <1>4, Writers
  <2>2. InsertEvidence(r)
    BY <1>4, <2>1 DEF InsertCandidate, CommitDecision, At, GateInv, RequestInv, CreatesAlone, CreatePcs
  <2>3. PICK e : ledger' = [ ledger EXCEPT ![c] = Append(@, e) ]
    BY <2>1, <2>2 DEF InsertEvidence
  <2>4. ledger'[c] = Append(ledger[c], e)
    BY <2>3 DEF TypeInv, TypeOK
  <2>5. ToSet(ledger[c]) \subseteq ToSet(ledger'[c])
    BY <1>1, <2>4, ToSetAppend
  <2>6. Len(ledger'[c]) = Len(ledger[c]) + 1 /\ \A i \in 1 .. Len(ledger[c]) : ledger'[c][i] = ledger[c][i]
    BY <1>1, <2>4
  <2> QED
    BY <1>1, <1>2, <2>5, <2>6
<1> QED
  BY <1>3, <1>4

\* What a step of the gate leaves of a candidate that exists.
LEMMA GateLeaves ==
  ASSUME TypeInv, TypeInv', GateInv, [Next]_vars, NEW c \in Candidates, c \in Existing
  PROVE  /\ c \in Existing'
         /\ row'[c].policy = row[c].policy
         /\ ToSet(ledger[c]) \subseteq ToSet(ledger'[c])
         /\ \A s \in Seq(EvidenceRow) : IsPrefix(s, ledger[c]) => IsPrefix(s, ledger'[c])
         /\ Decided(c) => row'[c] = row[c] /\ ledger'[c] = ledger[c] /\ receipt'[c] = receipt[c]
<1>1. row[c] # None
  BY DEF Existing
<1>2. row'[c] # None /\ row'[c].policy = row[c].policy
  BY <1>1, PlanIsFixed
<1>3. ASSUME NEW s \in Seq(EvidenceRow), IsPrefix(s, ledger[c]) PROVE IsPrefix(s, ledger'[c])
  <2>1. /\ ledger[c] \in Seq(EvidenceRow) /\ ledger'[c] \in Seq(EvidenceRow)
        /\ Len(ledger[c]) <= Len(ledger'[c])
        /\ \A i \in 1 .. Len(ledger[c]) : ledger'[c][i] = ledger[c][i]
    BY <1>1, LedgerGrows
  <2>2. Len(s) <= Len(ledger[c]) /\ \A i \in 1 .. Len(s) : s[i] = ledger[c][i]
    BY <1>3, <2>1, PrefixMeans
  <2>3. Len(s) \in Nat /\ Len(ledger[c]) \in Nat /\ Len(ledger'[c]) \in Nat
    BY <2>1, LenProperties
  <2>4. Len(s) <= Len(ledger'[c]) /\ \A i \in 1 .. Len(s) : s[i] = ledger'[c][i]
    BY <2>1, <2>2, <2>3
  <2> QED
    BY <2>1, <2>4, PrefixMeans
<1>4. Decided(c) => row'[c] = row[c] /\ ledger'[c] = ledger[c] /\ receipt'[c] = receipt[c]
  BY Writers, WritersAreUndecided
<1> QED
  BY <1>1, <1>2, <1>3, <1>4, LedgerGrows DEF Existing

-----------------------------------------------------------------------------
(* What the service does to a request, and how a request begins.           *)

LEMMA IdleFacts == Idle.pc = "idle" /\ Idle.cand = None
BY DEF Idle

\* Of the service's steps only these write.
LEMMA CommittedBy ==
  ASSUME NEW r \in Requests, Proceed(r) \/ Abort(r), Committed
  PROVE  InsertCandidate(r) \/ InsertEvidence(r) \/ CommitDecision(r)
<1> USE DEF tables, members
<1>1. \/ ReadBaseline(r) \/ LockForEvidence(r) \/ ResolveVerifier(r)
      \/ LockForDecision(r) \/ CheckAuthority(r) \/ ReadEvidence(r) \/ Rollback(r)
      => FALSE
  BY DEF Committed, ReadBaseline, LockForEvidence, ResolveVerifier, LockForDecision, CheckAuthority,
     ReadEvidence, Rollback
<1> QED
  BY <1>1 DEF Proceed, Refuse, Abort

\* A request goes on with what its caller has sent, and it ends, or stays within its kind.
GoesOn(r) ==
  /\ req'[r].cand = req[r].cand /\ req'[r].item = req[r].item
  /\ \/ req[r].pc \in CreatePcs /\ req'[r].pc \in CreatePcs
     \/ req[r].pc \in EvidencePcs /\ req'[r].pc \in EvidencePcs
     \/ /\ req[r].pc \in DecisionPcs /\ req'[r].pc \in DecisionPcs
        /\ req'[r].policy = req[r].policy
        /\ req[r].pc = "lock decision" => row[req[r].cand].policy = req[r].policy

LEMMA ServedRequest ==
  ASSUME TypeInv, IdleInv, NEW r \in Requests, Proceed(r) \/ Abort(r)
  PROVE  /\ req[r].pc # "idle"
         /\ \A q \in Requests \ {r} : req'[q] = req[q]
         /\ req'[r] = Idle \/ GoesOn(r)
<1>1. req \in [ Requests -> Request ] /\ req[r] \in Request
  BY DEF TypeInv, TypeOK
<1>2. CASE InsertCandidate(r) \/ InsertEvidence(r) \/ CommitDecision(r)
  BY <1>1, <1>2 DEF InsertCandidate, InsertEvidence, CommitDecision, Finish, At
<1>3. CASE ReadBaseline(r)
  <2>1. /\ req[r].pc = "baseline" /\ req'[r].pc = "insert"
        /\ req'[r].cand = req[r].cand /\ req'[r].item = req[r].item
        /\ \A q \in Requests \ {r} : req'[q] = req[q]
    BY <1>1, <1>3 DEF ReadBaseline, At, Request
  <2> QED
    BY <2>1 DEF GoesOn, CreatePcs
<1>4. CASE LockForEvidence(r)
  <2>1. /\ req[r].pc = "lock evidence" /\ req'[r].pc = "resolve verifier"
        /\ req'[r].cand = req[r].cand /\ req'[r].item = req[r].item
        /\ \A q \in Requests \ {r} : req'[q] = req[q]
    BY <1>1, <1>4 DEF LockForEvidence, Advance, At, Request
  <2> QED
    BY <2>1 DEF GoesOn, EvidencePcs
<1>5. CASE ResolveVerifier(r)
  <2>1. /\ req[r].pc = "resolve verifier" /\ req'[r].pc = "record"
        /\ req'[r].cand = req[r].cand /\ req'[r].item = req[r].item
        /\ \A q \in Requests \ {r} : req'[q] = req[q]
    BY <1>1, <1>5 DEF ResolveVerifier, At, Request
  <2> QED
    BY <2>1 DEF GoesOn, EvidencePcs
<1>6. CASE LockForDecision(r)
  <2>1. /\ req[r].pc = "lock decision" /\ req'[r].pc = "authorize"
        /\ req'[r].cand = req[r].cand /\ req'[r].item = req[r].item /\ req'[r].policy = req[r].policy
        /\ row[req[r].cand].policy = req[r].policy
        /\ \A q \in Requests \ {r} : req'[q] = req[q]
    BY <1>1, <1>6 DEF LockForDecision, MayDecide, Advance, At, Request
  <2> QED
    BY <2>1 DEF GoesOn, DecisionPcs
<1>7. CASE CheckAuthority(r)
  <2>1. /\ req[r].pc = "authorize" /\ req'[r].pc = "read evidence"
        /\ req'[r].cand = req[r].cand /\ req'[r].item = req[r].item /\ req'[r].policy = req[r].policy
        /\ \A q \in Requests \ {r} : req'[q] = req[q]
    BY <1>1, <1>7 DEF CheckAuthority, Advance, At, Request
  <2> QED
    BY <2>1 DEF GoesOn, DecisionPcs
<1>8. CASE ReadEvidence(r)
  <2>1. /\ req[r].pc = "read evidence" /\ req'[r].pc = "sign"
        /\ req'[r].cand = req[r].cand /\ req'[r].item = req[r].item /\ req'[r].policy = req[r].policy
        /\ \A q \in Requests \ {r} : req'[q] = req[q]
    BY <1>1, <1>8 DEF ReadEvidence, At, Request
  <2> QED
    BY <2>1 DEF GoesOn, DecisionPcs
<1>9. CASE Refuse(r) \/ Abort(r)
  <2>1. Rollback(r) /\ req[r].pc # "idle"
    <3>1. ASSUME Abort(r) PROVE req[r].pc # "idle"
      BY <3>1 DEF Abort, IdleInv
    <3> QED
      BY <1>9, <3>1 DEF Refuse, Refused, Abort, At
  <2> QED
    BY <1>1, <2>1 DEF Rollback, Finish
<1> QED
  BY <1>2, <1>3, <1>4, <1>5, <1>6, <1>7, <1>8, <1>9 DEF Proceed

\* A request begins, at a fresh candidate or at one that exists.
LEMMA Begun ==
  ASSUME TypeInv, NEW r \in Requests, BeginCreate(r) \/ BeginEvidence(r) \/ BeginDecide(r)
  PROVE  /\ req[r].pc = "idle"
         /\ \A q \in Requests \ {r} : req'[q] = req[q]
         /\ req'[r].cand \in Candidates
         /\ BeginCreate(r) => req'[r].pc = "baseline"
         /\ BeginEvidence(r) => req'[r].pc = "lock evidence" /\ req'[r].cand \in Existing
         /\ BeginDecide(r) => req'[r].pc = "lock decision" /\ req'[r].cand \in Existing
         /\ UNCHANGED << row, ledger, receipt >>
<1> USE DEF tables, members
<1>1. req \in [ Requests -> Request ]
  BY DEF TypeInv, TypeOK
<1>2. ASSUME BeginCreate(r)
      PROVE  /\ req[r] = Idle /\ \A q \in Requests \ {r} : req'[q] = req[q]
             /\ req'[r].cand \in Candidates /\ req'[r].pc = "baseline"
             /\ UNCHANGED << row, ledger, receipt >>
  <2> PICK u \in Users, c \in Candidates, sub \in Submissions :
        Begin(r, u, c, [ Idle EXCEPT !.pc = "baseline", !.submission = sub ])
    BY <1>2 DEF BeginCreate
  <2> QED
    BY <1>1, <1>2 DEF Begin, Idle, BeginCreate
<1>3. ASSUME BeginEvidence(r)
      PROVE  /\ req[r] = Idle /\ \A q \in Requests \ {r} : req'[q] = req[q]
             /\ req'[r].cand \in Existing /\ req'[r].pc = "lock evidence"
             /\ UNCHANGED << row, ledger, receipt >>
  <2> PICK u \in Users, c \in Existing, item \in Items :
        Begin(r, u, c, [ Idle EXCEPT !.pc = "lock evidence", !.item = item ])
    BY <1>3 DEF BeginEvidence
  <2> QED
    BY <1>1, <1>3 DEF Begin, Idle, BeginEvidence
<1>4. ASSUME BeginDecide(r)
      PROVE  /\ req[r] = Idle /\ \A q \in Requests \ {r} : req'[q] = req[q]
             /\ req'[r].cand \in Existing /\ req'[r].pc = "lock decision"
             /\ UNCHANGED << row, ledger, receipt >>
  <2> PICK u \in Users, c \in Existing, shown \in Existing :
        Begin(r, u, c, [ Idle EXCEPT !.pc = "lock decision", !.policy = row[shown].policy ])
    BY <1>4 DEF BeginDecide
  <2> QED
    BY <1>1, <1>4 DEF Begin, Idle, BeginDecide
<1>5. Existing \subseteq Candidates
  BY DEF Existing
<1> QED
  BY <1>2, <1>3, <1>4, <1>5, IdleFacts

-----------------------------------------------------------------------------
(* The clients' invariant, part by part.                                   *)

LEMMA ClientInit == CInit => ClientInv
<1> SUFFICES ASSUME CInit PROVE ClientInv
  OBVIOUS
<1>1. \A r \in Requests : req[r] = Idle
  BY DEF CInit, Init
<1>2. ClientTypes
  BY DEF CInit, ClientTypes, CliState
<1>3. KeyInv
  BY DEF CInit, Init, InitKeys, KeyInv, Keys, Decided
<1>4. FormInv
  BY <1>1, ClientSlots, IdleFacts DEF FormInv, RunningInv, CInit
<1>5. SubmitInv
  BY <1>1, ClientSlots, IdleFacts DEF SubmitInv, SubmittedWithItsScan, CInit
<1>6. ReloadInv /\ PageInv /\ \A l \in Loads : LoadInv(l)
  BY DEF CInit, ReloadInv, PageInv, LoadInv
<1> QED
  BY <1>1, <1>2, <1>3, <1>4, <1>5, <1>6 DEF ClientInv, IdleInv

\* Under a step of the gate a load that has not moved stands as it stood.
LEMMA LoadKept ==
  ASSUME TypeInv, TypeInv', GateInv, [Next]_vars, ClientTypes, NEW l \in Loads, LoadInv(l),
         loads'[l] = loads[l]
  PROVE  LoadInv(l)'
<1> SUFFICES ASSUME loads[l] # None PROVE LoadInv(l)'
  BY DEF LoadInv
<1> DEFINE x == loads[l]
           c == loads[l].cand
<1>1. x \in LoadCall /\ loads'[l] = x
  BY DEF ClientTypes
<1>2. c \in Candidates /\ c \in Existing
  BY DEF LoadInv, Existing
<1>3. /\ c \in Existing'
      /\ \A s \in Seq(EvidenceRow) : IsPrefix(s, ledger[c]) => IsPrefix(s, ledger'[c])
      /\ Decided(c) => row'[c] = row[c] /\ ledger'[c] = ledger[c] /\ receipt'[c] = receipt[c]
  BY <1>2, GateLeaves
<1>4. x.evidence \in Seq(EvidenceRow) /\ x.done \in 0 .. 3
  BY <1>1 DEF LoadCall
<1>5. x.status # "frozen" /\ x.done >= 1 =>
        Decided(c) /\ Decided(c)' /\ x.status = row'[c].status
  BY <1>3 DEF LoadInv, Decided
<1>6. x.done >= 2 =>
        /\ IsPrefix(x.evidence, ledger'[c])
        /\ x.status # "frozen" => x.evidence = ledger'[c]
  BY <1>3, <1>4, <1>5 DEF LoadInv
<1>7. x.done = 3 =>
        /\ x.receipt = None \/ x.receipt = receipt'[c]
        /\ x.status # "frozen" => x.receipt = receipt'[c]
  BY <1>3, <1>4, <1>5 DEF LoadInv, Decided
<1> QED
  BY <1>1, <1>3, <1>5, <1>6, <1>7 DEF LoadInv

\* And so does the page.
LEMMA PageKept ==
  ASSUME TypeInv, TypeInv', GateInv, [Next]_vars, PageInv, details' = details
  PROVE  PageInv'
<1> SUFFICES ASSUME details # None PROVE PageInv'
  BY DEF PageInv
<1>1. details.cand \in Candidates /\ details.cand \in Existing
  BY DEF PageInv, Existing
<1>2. details.cand \in Existing' /\ row'[details.cand].policy = row[details.cand].policy
  BY <1>1, GateLeaves
<1> QED
  BY <1>2 DEF PageInv, PageIsConsistent

\* What is known of a step: the invariants before it, and the gate's after it.
Known == TypeInv /\ TypeInv' /\ GateInv /\ [Next]_vars /\ ClientInv

LEMMA ExistingStays ==
  ASSUME Known, NEW c \in Existing
  PROVE  c \in Existing' /\ c \in Candidates /\ row'[c].policy = row[c].policy
                         /\ ToSet(ledger[c]) \subseteq ToSet(ledger'[c])
<1>1. c \in Candidates
  BY DEF Existing
<1> QED
  BY <1>1, GateLeaves DEF Known

\* A submission that has succeeded, with the scan in the ledger, has succeeded for good.
LEMMA SuccessKept ==
  ASSUME Known, cli' = cli
  PROVE  /\ cli'.pc \in { "created", "posting" } => cli'.cand \in Existing'
         /\ SubmittedWithItsScan'
BY ExistingStays DEF Known, ClientInv, SubmitInv, SubmittedWithItsScan

\* An insertion inserts.
LEMMA Inserted ==
  ASSUME TypeInv, NEW r \in Requests, InsertCandidate(r)
  PROVE  req[r].cand \in Existing'
<1>1. RequestTyped(r) /\ req[r].pc = "insert" /\ req[r].cand \in Candidates
  BY DEF TypeInv, RequestTyped, InsertCandidate, At
<1>2. /\ req[r].user \in Users /\ req[r].submission \in Submission
      /\ req[r].policy \in GatePolicy
  BY <1>1, GateAssumption DEF RequestTyped, CreatePcs
<1>3. [ creator |-> req[r].user, version |-> req[r].submission.version,
        caps |-> req[r].submission.caps, policy |-> req[r].policy, status |-> "frozen" ] # None
  BY <1>2, NoneAssumption DEF CandidateRow, Submission
<1> QED
  BY <1>1, <1>3 DEF InsertCandidate, TypeInv, TypeOK, Existing

LEMMA ServeKeeps == ASSUME Known, Serve PROVE ClientInv'
<1>1. PICK r \in Requests : Proceed(r) \/ Abort(r)
  BY DEF Serve
<1>2. /\ req[r].pc # "idle"
      /\ \A q \in Requests \ {r} : req'[q] = req[q]
      /\ req'[r] = Idle \/ GoesOn(r)
  BY <1>1, ServedRequest DEF Known, ClientInv
<1>3. req'[r].pc = "idle" => req'[r] = Idle
  BY <1>2 DEF GoesOn, CreatePcs, EvidencePcs, DecisionPcs
<1>4. UNCHANGED << selected, loads, details, key >>
  BY DEF Serve, Sign
<1>5. PICK ok \in BOOLEAN :
        /\ ok => Committed
        /\ act' = IF ~Ends(Web) THEN act ELSE IF ok THEN [ act EXCEPT !.pc = "ok" ] ELSE None
        /\ cli' = IF ~Ends(Cli) THEN cli
                  ELSE [ cli EXCEPT !.pc = IF ok THEN AfterSuccess(cli) ELSE "failed" ]
  BY DEF Serve, Answer
<1>6. \A q \in Requests : Ends(q) => q = r
  BY <1>2 DEF Ends
<1>7. Ends(Web) => act \in Act
  BY <1>2, <1>6, ClientSlots DEF Known, ClientInv, ClientTypes, FormInv, RunningInv
<1>8. IdleInv'
  BY <1>2, <1>3 DEF Known, ClientInv, IdleInv
<1>9. ClientTypes'
  <2>1. act' \in Act \cup {None}
    BY <1>5, <1>7 DEF Act, Known, ClientInv, ClientTypes
  <2>2. cli' \in CliState
    BY <1>5 DEF CliState, AfterSuccess, Known, ClientInv, ClientTypes
  <2> QED
    BY <1>4, <2>1, <2>2 DEF Known, ClientInv, ClientTypes
<1>10. KeyInv'
  BY <1>4 DEF Serve, Sign, KeyInv, Decided, Known, ClientInv
<1>11. ReloadInv'
  <2>1. ASSUME NEW l \in Loads, loads[l] # None, loads[l].reload PROVE act' # None /\ act'.pc = "reloading"
    <3>1. act # None /\ act.pc = "reloading"
      BY <2>1 DEF Known, ClientInv, ReloadInv
    <3>2. req[Web].pc = "idle"
      BY <3>1 DEF Known, ClientInv, FormInv, RunningInv
    <3>3. ~Ends(Web)
      BY <1>2, <1>6, <3>2, ClientSlots
    <3> QED
      BY <1>5, <3>1, <3>3
  <2> QED
    BY <1>4, <2>1 DEF Known, ClientInv, ReloadInv
<1>12. PageInv'
  BY <1>4, PageKept DEF Known, ClientInv
<1>13. RunningInv'
  <2> SUFFICES ASSUME req'[Web].pc # "idle" PROVE RunningInv'
    BY DEF RunningInv
  <2>1. ~Ends(Web) /\ act' = act
    BY <1>5, IdleFacts DEF Ends
  <2>2. /\ req[Web].pc # "idle"
        /\ req'[Web].cand = req[Web].cand
        /\ req'[Web].pc \in DecisionPcs =>
             /\ req[Web].pc \in DecisionPcs
             /\ req'[Web].policy = req[Web].policy
             /\ \/ req'[Web].pc = req[Web].pc
                \/ row[req[Web].cand].policy = req[Web].policy
    <3>1. CASE r = Web
      <4>1. GoesOn(Web)
        BY <1>2, <3>1, IdleFacts
      <4>2. CASE req[Web].pc \in DecisionPcs
        <5>1. \/ req[Web].pc = "lock decision" /\ row[req[Web].cand].policy = req[Web].policy
              \/ req[Web].pc # "lock decision" /\ row[req[Web].cand].policy = req[Web].policy
          BY <1>2, <3>1, <4>1, <4>2 DEF GoesOn, FormInv, RunningInv, Known, ClientInv, CreatePcs, EvidencePcs, DecisionPcs
        <5> QED
          BY <1>2, <3>1, <4>1, <4>2, <5>1 DEF GoesOn, CreatePcs, EvidencePcs, DecisionPcs
      <4>3. CASE req[Web].pc \notin DecisionPcs
        BY <1>2, <3>1, <4>1, <4>3 DEF GoesOn, CreatePcs, EvidencePcs, DecisionPcs
      <4> QED
        BY <4>2, <4>3
    <3>2. CASE r # Web
      BY <1>2, <3>2, ClientSlots
    <3> QED
      BY <3>1, <3>2
  <2>3. /\ act # None /\ act.pc = "running" /\ act.cand = req[Web].cand
        /\ req[Web].pc \in DecisionPcs =>
             /\ act.saw \in Existing
             /\ req[Web].policy = row[act.saw].policy
             /\ req[Web].pc # "lock decision" => row[req[Web].cand].policy = req[Web].policy
    BY <2>2 DEF FormInv, RunningInv, Known, ClientInv
  <2>4. req[Web].pc \in DecisionPcs =>
          /\ act.saw \in Existing' /\ row'[act.saw].policy = row[act.saw].policy
          /\ row'[req[Web].cand].policy = row[req[Web].cand].policy
    <3>1. req[Web].pc \in DecisionPcs => req[Web].cand \in Existing
      BY ClientSlots DEF Known, TypeInv, RequestTyped, Existing, DecisionPcs
    <3> QED
      BY <2>3, <3>1, ExistingStays
  <2> QED
    BY <2>1, <2>2, <2>3, <2>4 DEF RunningInv
<1>14. FormInv'
  <2> SUFFICES ASSUME act' # None, act'.pc # "running" PROVE act'.cand \in Existing'
    BY <1>13 DEF FormInv
  <2>1. CASE ~Ends(Web)
    BY <1>5, <2>1, ExistingStays DEF Known, ClientInv, FormInv
  <2>2. CASE Ends(Web)
    <3>1. ok /\ act'.cand = act.cand /\ act.cand = req[Web].cand /\ r = Web
      BY <1>2, <1>5, <1>6, <1>7, <2>2, ClientSlots DEF Act, Known, ClientInv, FormInv, RunningInv
    <3>2. InsertCandidate(Web) \/ InsertEvidence(Web) \/ CommitDecision(Web)
      BY <1>1, <1>5, <3>1, CommittedBy
    <3>3. CASE InsertCandidate(Web)
      BY <3>1, <3>3, Inserted, ClientSlots DEF Known
    <3>4. CASE InsertEvidence(Web) \/ CommitDecision(Web)
      <4>1. req[Web].pc \in { "record", "sign" } /\ RequestTyped(Web)
        BY <3>4, ClientSlots DEF InsertEvidence, CommitDecision, At, Known, TypeInv
      <4>2. req[Web].cand \in Existing
        BY <4>1 DEF RequestTyped, Existing, EvidencePcs, DecisionPcs
      <4> QED
        BY <3>1, <4>2, ExistingStays
    <3> QED
      BY <3>2, <3>3, <3>4
  <2> QED
    BY <2>1, <2>2
<1>15. SubmitInv'
  <2>1. CASE r # Cli
    <3>1. req'[Cli] = req[Cli] /\ cli' = cli
      BY <1>2, <1>5, <1>6, <2>1, ClientSlots
    <3> QED
      BY <3>1, SuccessKept DEF SubmitInv, Known, ClientInv
  <2>2. CASE r = Cli
    <3>1. /\ req[Cli].cand = cli.cand
          /\ \/ cli.pc = "creating" /\ req[Cli].pc \in CreatePcs
             \/ /\ cli.pc = "posting" /\ req[Cli].pc \in EvidencePcs
                /\ req[Cli].item.requirement = "HF-CAP-001"
      BY <1>2, <2>2 DEF SubmitInv, Known, ClientInv
    <3>2. CASE ~Ends(Cli)
      <4>1. GoesOn(Cli) /\ cli' = cli
        BY <1>2, <1>5, <2>2, <3>2, IdleFacts DEF Ends
      <4>2. /\ req'[Cli].cand = req[Cli].cand /\ req'[Cli].item = req[Cli].item
            /\ req[Cli].pc \in CreatePcs => req'[Cli].pc \in CreatePcs
            /\ req[Cli].pc \in EvidencePcs => req'[Cli].pc \in EvidencePcs
        BY <4>1 DEF GoesOn, CreatePcs, EvidencePcs, DecisionPcs
      <4> QED
        BY <3>1, <4>1, <4>2, SuccessKept DEF SubmitInv
    <3>3. CASE Ends(Cli)
      <4>1. /\ req'[Cli].pc = "idle"
            /\ cli'.pc = IF ok THEN AfterSuccess(cli) ELSE "failed"
            /\ cli'.cand = cli.cand /\ cli'.scans = cli.scans
        BY <1>5, <3>3, IdleFacts DEF Ends, Known, ClientInv, ClientTypes, CliState
      <4>2. CASE ~ok
        BY <4>1, <4>2 DEF SubmitInv, SubmittedWithItsScan
      <4>3. CASE ok
        <5>1. InsertCandidate(Cli) \/ InsertEvidence(Cli) \/ CommitDecision(Cli)
          BY <1>1, <1>5, <2>2, <4>3, CommittedBy
        <5>2. cli.cand \in Candidates
          BY <1>2, <2>2, <3>1, ClientSlots DEF Known, TypeInv, RequestTyped
        <5>3. CASE cli.pc = "creating"
          <6>1. InsertCandidate(Cli)
            BY <3>1, <5>1, <5>3 DEF InsertEvidence, CommitDecision, At, CreatePcs
          <6>2. cli.cand \in Existing'
            BY <3>1, <6>1, Inserted, ClientSlots DEF Known
          <6>3. cli'.pc = IF cli.scans THEN "created" ELSE "done"
            BY <4>1, <4>3, <5>3 DEF AfterSuccess
          <6> QED
            BY <4>1, <5>2, <6>2, <6>3 DEF SubmitInv, SubmittedWithItsScan, Existing
        <5>4. CASE cli.pc = "posting"
          <6>1. InsertEvidence(Cli) /\ req[Cli].item.requirement = "HF-CAP-001"
            BY <3>1, <5>1, <5>4 DEF InsertCandidate, CommitDecision, At, EvidencePcs
          <6>2. PICK e : /\ e.requirement = "HF-CAP-001"
                         /\ ledger' = [ ledger EXCEPT ![cli.cand] = Append(@, e) ]
            BY <3>1, <6>1 DEF InsertEvidence
          <6>3. e \in ToSet(ledger'[cli.cand])
            <7>1. ledger[cli.cand] \in Seq(EvidenceRow) /\ ledger'[cli.cand] = Append(ledger[cli.cand], e)
              BY <5>2, <6>2 DEF Known, TypeInv, TypeOK
            <7> QED
              BY <7>1, ToSetAppend
          <6>4. cli'.pc = "done"
            BY <4>1, <4>3, <5>4 DEF AfterSuccess
          <6>5. cli.cand \in Existing'
            BY <5>4, ExistingStays DEF SubmitInv, Known, ClientInv
          <6> QED
            BY <4>1, <6>2, <6>3, <6>4, <6>5 DEF SubmitInv, SubmittedWithItsScan
        <5> QED
          BY <3>1, <5>3, <5>4
      <4> QED
        BY <4>2, <4>3
    <3> QED
      BY <3>2, <3>3
  <2> QED
    BY <2>1, <2>2
<1>16. \A l \in Loads : LoadInv(l)'
  BY <1>4, LoadKept DEF Known, ClientInv
<1> QED
  BY <1>8, <1>9, <1>10, <1>11, <1>12, <1>13, <1>14, <1>15, <1>16 DEF ClientInv

\* A form is submitted: the page was not busy, so nothing is being reloaded.
LEMMA FormBegins == ASSUME Known, Create \/ AddEvidence \/ Decide PROVE ClientInv'
<1>1. /\ act = None
      /\ UNCHANGED << key, signedBy, selected, loads, details, cli >>
      /\ BeginCreate(Web) \/ BeginEvidence(Web) \/ BeginDecide(Web)
  BY DEF Create, AddEvidence, Decide, FormsVisible, keyVars
<1>2. /\ req'[Web].pc # "idle" /\ req'[Web].cand \in Candidates /\ req'[Cli] = req[Cli]
      /\ req[Web].pc = "idle"
      /\ ~Decide => req'[Web].pc \notin DecisionPcs
      /\ Decide => req'[Web].pc = "lock decision"
      /\ UNCHANGED << row, ledger, receipt >>
  <2>1. /\ req'[Web].pc = "lock decision" <=> BeginDecide(Web)
        /\ req'[Web].pc \in { "baseline", "lock evidence", "lock decision" }
        /\ req'[Web].cand \in Candidates /\ req'[Cli] = req[Cli] /\ req[Web].pc = "idle"
        /\ UNCHANGED << row, ledger, receipt >>
    <3>1. BeginCreate(Web) => req'[Web].pc = "baseline"
      BY Begun, ClientSlots DEF Known
    <3>2. BeginEvidence(Web) => req'[Web].pc = "lock evidence"
      BY Begun, ClientSlots DEF Known
    <3>3. BeginDecide(Web) => req'[Web].pc = "lock decision"
      BY Begun, ClientSlots DEF Known
    <3>4. req'[Web].cand \in Candidates /\ req[Web].pc = "idle" /\ UNCHANGED << row, ledger, receipt >>
      BY <1>1, Begun, ClientSlots DEF Known
    <3>5. req'[Cli] = req[Cli]
      BY <1>1, Begun, ClientSlots, ClientAssumption DEF Known
    <3> QED
      BY <1>1, <3>1, <3>2, <3>3, <3>4, <3>5
  <2>2. ~Decide => BeginCreate(Web) \/ BeginEvidence(Web)
    BY DEF Create, AddEvidence
  <2>3. ~Decide => req'[Web].pc # "lock decision"
    BY <2>2, Begun, ClientSlots DEF Known
  <2>4. Decide => BeginDecide(Web)
    BY DEF Decide
  <2> QED
    BY <2>1, <2>3, <2>4 DEF DecisionPcs
<1>3. /\ act' \in Act /\ act' # None /\ act'.pc = "running" /\ act'.cand = req'[Web].cand
      /\ Decide => act'.saw \in Existing /\ req'[Web].policy = row[act'.saw].policy
  <2>1. ~Create => details # None /\ details.cand \in Existing /\ details.cand \in Candidates
    BY DEF AddEvidence, Decide, FormsVisible, PageInv, Existing, Known, ClientInv
  <2>2. PICK kind \in { "create", "evidence", "decide" } :
          /\ Submits(kind)
          /\ kind = "create" <=> Create
          /\ Decide => kind = "decide"
    <3>1. CASE Create
      <4>1. ~Decide
        <5>1. BeginCreate(Web)
          BY <3>1 DEF Create
        <5> QED
          BY <5>1, Begun, ClientSlots DEF Known, Decide
      <4> QED
        BY <3>1, <4>1 DEF Create
    <3>2. CASE ~Create
      BY <3>2 DEF AddEvidence, Decide
    <3> QED
      BY <3>1, <3>2
  <2>3. act' \in Act
    BY <1>2, <2>1, <2>2 DEF Act, Submits
  <2>4. Decide => act'.saw = details.cand /\ ~Create /\ req'[Web].policy = row[details.cand].policy
    BY <2>2 DEF Submits, Decide
  <2> QED
    BY <2>1, <2>2, <2>3, <2>4, ClientAssumption DEF Submits
<1>4. IdleInv'
  BY <1>2, ClientSlots DEF IdleInv, Known, ClientInv
<1>5. ClientTypes' /\ KeyInv'
  BY <1>1, <1>2, <1>3 DEF ClientTypes, KeyInv, Decided, Known, ClientInv
<1>6. ReloadInv'
  BY <1>1 DEF ReloadInv, Known, ClientInv
<1>7. PageInv'
  BY <1>1, PageKept DEF Known, ClientInv
<1>8. FormInv'
  BY <1>2, <1>3 DEF FormInv, RunningInv, Existing
<1>9. SubmitInv'
  BY <1>1, <1>2, SuccessKept DEF SubmitInv, Known, ClientInv
<1>10. \A l \in Loads : LoadInv(l)'
  BY <1>1, LoadKept DEF Known, ClientInv
<1> QED
  BY <1>4, <1>5, <1>6, <1>7, <1>8, <1>9, <1>10 DEF ClientInv

\* The command line submits, or posts its scan.
LEMMA SubmissionGoesOn == ASSUME Known, SubmitCandidate \/ PostScan PROVE ClientInv'
<1>1. /\ UNCHANGED << key, signedBy, selected, loads, details, act >>
      /\ BeginCreate(Cli) \/ BeginEvidence(Cli)
  BY DEF SubmitCandidate, PostScan, keyVars
<1>2. /\ req'[Web] = req[Web] /\ req'[Cli].cand \in Candidates
      /\ UNCHANGED << row, ledger, receipt >>
      /\ BeginCreate(Cli) => req'[Cli].pc = "baseline"
      /\ BeginEvidence(Cli) => req'[Cli].pc = "lock evidence"
  BY <1>1, Begun, ClientSlots, ClientAssumption DEF Known
<1>3. IdleInv'
  BY <1>1, <1>2, ClientSlots DEF IdleInv, Known, ClientInv
<1>4. cli' \in CliState
  <2>1. CASE SubmitCandidate
    <3>1. PICK scans \in BOOLEAN :
            cli' = [ pc |-> "creating", cand |-> req'[Cli].cand, scans |-> scans ]
      BY <2>1 DEF SubmitCandidate
    <3> QED
      BY <1>2, <3>1 DEF CliState
  <2>2. CASE PostScan
    BY <2>2 DEF PostScan, CliState, Known, ClientInv, ClientTypes
  <2> QED
    BY <2>1, <2>2
<1>5. ClientTypes' /\ KeyInv'
  BY <1>1, <1>2, <1>4 DEF ClientTypes, KeyInv, Decided, Known, ClientInv
<1>6. ReloadInv'
  BY <1>1 DEF ReloadInv, Known, ClientInv
<1>7. PageInv'
  BY <1>1, PageKept DEF Known, ClientInv
<1>8. FormInv'
  BY <1>1, <1>2 DEF FormInv, RunningInv, Existing, Known, ClientInv
<1>9. SubmitInv'
  <2>1. CASE SubmitCandidate
    <3>1. cli'.pc = "creating" /\ cli'.cand = req'[Cli].cand /\ BeginCreate(Cli)
      BY <2>1 DEF SubmitCandidate
    <3> QED
      BY <1>2, <3>1 DEF SubmitInv, SubmittedWithItsScan, CreatePcs
  <2>2. CASE PostScan
    <3>1. /\ cli'.pc = "posting" /\ cli'.cand = cli.cand /\ cli.pc = "created"
          /\ req'[Cli].cand = cli.cand /\ req'[Cli].item.requirement = "HF-CAP-001"
          /\ BeginEvidence(Cli)
      BY <2>2 DEF PostScan, CliState, Known, ClientInv, ClientTypes
    <3>2. cli.cand \in Existing'
      BY <1>2, <3>1 DEF SubmitInv, Existing, Known, ClientInv
    <3> QED
      BY <1>2, <3>1, <3>2 DEF SubmitInv, SubmittedWithItsScan, EvidencePcs
  <2> QED
    BY <2>1, <2>2
<1>10. \A l \in Loads : LoadInv(l)'
  BY <1>1, LoadKept DEF Known, ClientInv
<1> QED
  BY <1>3, <1>5, <1>6, <1>7, <1>8, <1>9, <1>10 DEF ClientInv

LEMMA RotateKeeps == ASSUME Known, RotateKey PROVE ClientInv'
<1>1. UNCHANGED << vars, signedBy, clientVars >> /\ key' \in Keys
  BY DEF RotateKey, Rotate, Keys
<1>2. PageInv' /\ \A l \in Loads : LoadInv(l)'
  BY <1>1, PageKept, LoadKept DEF Known, ClientInv, clientVars
<1> QED
  BY <1>1, <1>2 DEF vars, tables, members, clientVars, Known, ClientInv, IdleInv, ClientTypes, KeyInv, ReloadInv,
     FormInv, RunningInv, SubmitInv, SubmittedWithItsScan, Decided, Existing

-----------------------------------------------------------------------------
(* The page and what it loads: the gate stands still.                      *)

Still == UNCHANGED << vars, keyVars, cli >>

\* What does not speak of the page stays.
LEMMA StillKeeps ==
  ASSUME Known, Still
  PROVE  /\ IdleInv' /\ KeyInv' /\ SubmitInv' /\ Existing' = Existing
         /\ req' = req /\ row' = row
         /\ details' = details => PageInv'
         /\ \A l \in Loads : loads'[l] = loads[l] => LoadInv(l)'
<1>1. /\ UNCHANGED << row, ledger, receipt, req, key, signedBy, cli >>
      /\ IdleInv' /\ KeyInv' /\ SubmitInv' /\ Existing' = Existing
  BY DEF Still, vars, keyVars, Known, ClientInv, IdleInv, KeyInv, SubmitInv, SubmittedWithItsScan,
     Decided, Existing
<1> QED
  BY <1>1, PageKept, LoadKept DEF Known, ClientInv

LEMMA LoadBegins ==
  ASSUME Known, Still, NEW c \in Existing, NEW reload \in BOOLEAN, Load(c, reload)
  PROVE  /\ loads' \in [ Loads -> LoadCall \cup {None} ]
         /\ \A l \in Loads : LoadInv(l)'
         /\ \E l \in Loads : /\ loads'[l].reload = reload
                             /\ \A k \in Loads \ {l} : loads'[k] = loads[k]
<1>1. PICK l \in Loads : loads[l] = None /\ loads' = [ loads EXCEPT ![l] = Call(c, reload) ]
  BY DEF Load
<1>2. loads \in [ Loads -> LoadCall \cup {None} ]
  BY DEF Known, ClientInv, ClientTypes
<1>3. c \in Candidates
  BY DEF Existing
<1>4. Call(c, reload) \in LoadCall
  BY <1>3 DEF Call, LoadCall
<1>5. loads'[l] = Call(c, reload) /\ \A k \in Loads \ {l} : loads'[k] = loads[k]
  BY <1>1, <1>2
<1>6. LoadInv(l)'
  <2>1. c \in Existing'
    BY StillKeeps
  <2> QED
    BY <1>5, <2>1 DEF LoadInv, Call
<1>7. \A k \in Loads : LoadInv(k)'
  BY <1>5, <1>6, StillKeeps
<1> QED
  BY <1>1, <1>2, <1>4, <1>5, <1>7 DEF Call

LEMMA NoReload ==
  ASSUME ReloadInv, act = None \/ act.pc # "reloading", NEW l \in Loads, loads[l] # None,
         loads[l].reload = TRUE
  PROVE  FALSE
BY DEF ReloadInv

LEMMA SelectKeeps == ASSUME Known, NEW c \in Candidates, Select(c) PROVE ClientInv'
<1>1. /\ Still /\ UNCHANGED << details, act >> /\ selected' = c /\ c \in Existing
      /\ Load(c, FALSE)
  BY DEF Select, Still, Listed
<1>2. /\ loads' \in [ Loads -> LoadCall \cup {None} ] /\ \A l \in Loads : LoadInv(l)'
      /\ \E l \in Loads : loads'[l].reload = FALSE /\ \A k \in Loads \ {l} : loads'[k] = loads[k]
  BY <1>1, LoadBegins
<1>3. ReloadInv'
  BY <1>1, <1>2 DEF ReloadInv, Known, ClientInv
<1>4. ClientTypes'
  BY <1>1, <1>2 DEF ClientTypes, Still, Known, ClientInv
<1>5. FormInv'
  BY <1>1, StillKeeps DEF FormInv, RunningInv, Known, ClientInv
<1> QED
  BY <1>1, <1>2, <1>3, <1>4, <1>5, StillKeeps DEF ClientInv

LEMMA SelectCreatedKeeps == ASSUME Known, SelectCreated PROVE ClientInv'
<1>1. /\ Still /\ details' = details /\ act' = None /\ selected' = act.cand
      /\ act # None /\ act.pc = "ok" /\ Load(act.cand, FALSE)
  BY DEF SelectCreated, Still
<1>2. act.cand \in Existing /\ act.cand \in Candidates
  BY <1>1 DEF FormInv, Existing, Known, ClientInv
<1>3. /\ loads' \in [ Loads -> LoadCall \cup {None} ] /\ \A l \in Loads : LoadInv(l)'
      /\ \E l \in Loads : loads'[l].reload = FALSE /\ \A k \in Loads \ {l} : loads'[k] = loads[k]
  BY <1>1, <1>2, LoadBegins
<1>4. ReloadInv'
  BY <1>1, <1>3 DEF ReloadInv, Known, ClientInv
<1>5. ClientTypes'
  BY <1>1, <1>2, <1>3 DEF ClientTypes, Still, Known, ClientInv
<1>6. FormInv'
  <2>1. req[Web].pc = "idle"
    BY <1>1 DEF FormInv, RunningInv, Known, ClientInv
  <2> QED
    BY <1>1, <2>1, StillKeeps DEF FormInv, RunningInv
<1> QED
  BY <1>1, <1>3, <1>4, <1>5, <1>6, StillKeeps DEF ClientInv

LEMMA ReloadAfterKeeps == ASSUME Known, ReloadAfter PROVE ClientInv'
<1>1. /\ Still /\ UNCHANGED << details, selected >> /\ act' = [ act EXCEPT !.pc = "reloading" ]
      /\ act # None /\ act.pc = "ok" /\ Load(act.cand, TRUE)
  BY DEF ReloadAfter, Still
<1>2. act.cand \in Existing /\ act.cand \in Candidates
  BY <1>1 DEF FormInv, Existing, Known, ClientInv
<1>3. /\ loads' \in [ Loads -> LoadCall \cup {None} ] /\ \A l \in Loads : LoadInv(l)'
      /\ \E l \in Loads : loads'[l].reload = TRUE /\ \A k \in Loads \ {l} : loads'[k] = loads[k]
  BY <1>1, <1>2, LoadBegins
<1>4. act' \in Act /\ act' # None /\ act'.pc = "reloading" /\ act'.cand = act.cand
  BY <1>1, ClientAssumption DEF Act, ClientTypes, Known, ClientInv
<1>5. ReloadInv'
  BY <1>1, <1>3, <1>4 DEF ReloadInv, Known, ClientInv
<1>6. ClientTypes'
  BY <1>1, <1>3, <1>4 DEF ClientTypes, Still, Known, ClientInv
<1>7. FormInv'
  <2>1. req[Web].pc = "idle"
    BY <1>1 DEF FormInv, RunningInv, Known, ClientInv
  <2> QED
    BY <1>1, <1>2, <1>4, <2>1, StillKeeps DEF FormInv, RunningInv
<1> QED
  BY <1>1, <1>3, <1>5, <1>6, <1>7, StillKeeps DEF ClientInv

\* What has been read of a candidate is what it was when it was read; once it is
\* decided, that is what it stays.
LEMMA ReadKeeps == ASSUME Known, NEW l \in Loads, ReadStatement(l) PROVE ClientInv'
<1> DEFINE x == loads[l]
           c == loads[l].cand
           next == Statements[loads[l].done + 1]
           y == AfterStatement(x, next)
<1>1. /\ Still /\ UNCHANGED << details, selected, act, row, ledger, receipt >>
      /\ x # None /\ x.done < 3 /\ loads' = [ loads EXCEPT ![l] = y ]
  BY DEF ReadStatement, Still, Statements, vars
<1>2. x \in LoadCall /\ c \in Existing /\ c \in Candidates /\ x.done \in { 0, 1, 2 }
  BY <1>1 DEF ClientTypes, LoadInv, LoadCall, Existing, Known, ClientInv
<1>3. /\ row[c] \in CandidateRow /\ ledger[c] \in Seq(EvidenceRow)
      /\ receipt[c] \in Receipt \cup {None}
  BY <1>2 DEF Existing, Known, TypeInv, TypeOK
<1>4. /\ next = IF x.done = 0 THEN "candidate" ELSE IF x.done = 1 THEN "evidence" ELSE "receipt"
  BY <1>2 DEF Statements
<1>5. /\ y \in LoadCall
      /\ y.cand = c /\ y.reload = x.reload /\ y.done = x.done + 1
      /\ y.status = IF x.done = 0 THEN row[c].status ELSE x.status
      /\ y.evidence = IF x.done = 1 THEN ledger[c] ELSE x.evidence
      /\ y.receipt = IF x.done = 2 THEN receipt[c] ELSE x.receipt
  <2> HIDE DEF next
  <2>1. y.cand = c /\ y.reload = x.reload /\ y.done = x.done + 1
    BY <1>2 DEF LoadCall, AfterStatement
  <2>2. /\ y.status = IF x.done = 0 THEN row[c].status ELSE x.status
        /\ y.evidence = IF x.done = 1 THEN ledger[c] ELSE x.evidence
        /\ y.receipt = IF x.done = 2 THEN receipt[c] ELSE x.receipt
    BY <1>2, <1>4 DEF LoadCall, AfterStatement
  <2>3. y \in LoadCall
    <3>1. x.done + 1 \in 0 .. 3 /\ row[c].status \in { "frozen", "released", "blocked", None }
      BY <1>2, <1>3 DEF CandidateRow
    <3>2. /\ x.cand \in Candidates /\ x.reload \in BOOLEAN /\ x.evidence \in Seq(EvidenceRow)
          /\ x.status \in { "frozen", "released", "blocked", None }
          /\ x.receipt \in Receipt \cup {None}
      BY <1>2 DEF LoadCall
    <3> QED
      BY <1>3, <3>1, <3>2 DEF LoadCall, AfterStatement
  <2> QED
    BY <2>1, <2>2, <2>3
<1> HIDE DEF next, y
<1>6. loads'[l] = y /\ (\A k \in Loads \ {l} : loads'[k] = loads[k])
      /\ loads' \in [ Loads -> LoadCall \cup {None} ]
  BY <1>1, <1>5 DEF ClientTypes, Known, ClientInv
<1>7. row[c].status # "frozen" => Decided(c)
  BY <1>2 DEF Known, GateInv, CandidateInv, Absent, Open, Frozen, Closed, Decided, Existing
<1>8. IsPrefix(ledger[c], ledger[c])
  <2>1. Len(ledger[c]) \in Nat
    BY <1>3, LenProperties
  <2> QED
    BY <1>3, <2>1, PrefixMeans
<1>9. LoadInv(l)'
  <2>1. y.status # "frozen" => Decided(c) /\ y.status = row[c].status
    BY <1>1, <1>2, <1>5, <1>7 DEF LoadInv, Known, ClientInv
  <2>2. x.done >= 1 => /\ IsPrefix(y.evidence, ledger[c])
                       /\ y.status # "frozen" => y.evidence = ledger[c]
    BY <1>1, <1>2, <1>5, <1>8 DEF LoadInv, Known, ClientInv
  <2>3. x.done = 2 => y.receipt = receipt[c]
    BY <1>5
  <2>4. /\ y.done >= 2 => x.done >= 1
        /\ y.done = 3 => x.done = 2
    BY <1>2, <1>5
  <2>5. c \in Existing'
    BY <1>1, <1>2, StillKeeps
  <2> QED
    BY <1>1, <1>5, <1>6, <2>1, <2>2, <2>3, <2>4, <2>5 DEF LoadInv, Decided
<1>10. \A k \in Loads : LoadInv(k)'
  BY <1>1, <1>6, <1>9, StillKeeps
<1>11. ReloadInv'
  BY <1>1, <1>5, <1>6 DEF ReloadInv, Known, ClientInv
<1>12. ClientTypes'
  BY <1>1, <1>6 DEF ClientTypes, Still, Known, ClientInv
<1>13. FormInv'
  BY <1>1, StillKeeps DEF FormInv, RunningInv, Known, ClientInv
<1> QED
  BY <1>1, <1>10, <1>11, <1>12, <1>13, StillKeeps DEF ClientInv

\* A call comes to its end, and with it the form that waited for it.
LEMMA SettledKeeps ==
  ASSUME Known, NEW l \in Loads, loads[l] # None, Settled(l), PageInv'
  PROVE  ClientInv'
<1>1. /\ Still /\ UNCHANGED << selected, row, ledger, receipt >>
      /\ loads' = [ loads EXCEPT ![l] = None ]
      /\ act' = IF loads[l].reload THEN None ELSE act
  BY DEF Settled, Still, vars
<1>2. /\ loads'[l] = None /\ \A k \in Loads \ {l} : loads'[k] = loads[k]
      /\ loads' \in [ Loads -> LoadCall \cup {None} ]
      /\ loads[l].reload \in BOOLEAN
  BY <1>1 DEF ClientTypes, LoadCall, Known, ClientInv
<1>3. \A k \in Loads : LoadInv(k)'
  <2>1. LoadInv(l)'
    BY <1>2 DEF LoadInv
  <2> QED
    BY <1>1, <1>2, <2>1, StillKeeps
<1>4. ReloadInv'
  <2>1. ASSUME NEW k \in Loads, loads'[k] # None, loads'[k].reload PROVE act' = act
    BY <1>1, <1>2, <2>1 DEF ReloadInv, Known, ClientInv
  <2> QED
    BY <1>2, <2>1 DEF ReloadInv, Known, ClientInv
<1>5. ClientTypes'
  BY <1>1, <1>2 DEF ClientTypes, Still, Known, ClientInv
<1>6. FormInv'
  <2>1. CASE loads[l].reload
    <3>1. req[Web].pc = "idle" /\ act' = None
      BY <1>1, <2>1 DEF ReloadInv, FormInv, RunningInv, Known, ClientInv
    <3> QED
      BY <1>1, <3>1, StillKeeps DEF FormInv, RunningInv
  <2>2. CASE ~loads[l].reload
    BY <1>1, <2>2, StillKeeps DEF FormInv, RunningInv, Known, ClientInv
  <2> QED
    BY <2>1, <2>2
<1> QED
  BY <1>1, <1>3, <1>4, <1>5, <1>6, StillKeeps DEF ClientInv

LEMMA ArriveKeeps == ASSUME Known, NEW l \in Loads, Arrive(l) PROVE ClientInv'
<1> DEFINE c == loads[l].cand
<1>1. /\ loads[l] # None /\ loads[l].done = 3 /\ Settled(l)
      /\ UNCHANGED << row, receipt, ledger >>
      /\ details' = [ cand |-> c, status |-> loads[l].status,
                      evidence |-> loads[l].evidence, receipt |-> loads[l].receipt ]
  BY DEF Arrive, Settled, Statements, vars
<1>2. /\ c \in Existing /\ c \in Candidates
      /\ loads[l].status # "frozen" =>
           /\ Decided(c) /\ loads[l].status = row[c].status
           /\ loads[l].evidence = ledger[c] /\ loads[l].receipt = receipt[c]
      /\ IsPrefix(loads[l].evidence, ledger[c])
      /\ loads[l].receipt = None \/ loads[l].receipt = receipt[c]
  BY <1>1 DEF LoadInv, Existing, Known, ClientInv
<1>3. Decided(c) =>
        /\ receipt[c] # None /\ receipt[c].evidence = ledger[c]
        /\ row[c].status = "released" <=> GateReady(row[c].policy.requirements, ToSet(ledger[c]))
  BY <1>2 DEF Known, GateInv, CandidateInv, Absent, Open, Closed, Decided, FinalStatus, Verdict
<1>4. PageInv'
  <2>1. /\ details'.cand = c /\ details'.status = loads[l].status
        /\ details'.evidence = loads[l].evidence /\ details'.receipt = loads[l].receipt
    BY <1>1
  <2>2. c \in Existing' /\ row'[c].policy = row[c].policy
    BY <1>1, <1>2 DEF Existing
  <2>3. details'.receipt # None => IsPrefix(details'.evidence, details'.receipt.evidence)
    BY <1>2, <1>3, <2>1 DEF Decided
  <2>4. details'.status # "frozen" =>
          /\ details'.receipt # None
          /\ details'.evidence = details'.receipt.evidence
          /\ details'.status = "released" <=> GateReady(row[c].policy.requirements, ToSet(details'.evidence))
    BY <1>2, <1>3, <2>1
  <2> QED
    BY <2>1, <2>2, <2>3, <2>4 DEF PageInv, PageIsConsistent
<1> QED
  BY <1>1, <1>4, SettledKeeps

LEMMA LoadFailsKeeps == ASSUME Known, NEW l \in Loads, LoadFails(l) PROVE ClientInv'
<1>1. loads[l] # None /\ Settled(l) /\ details' = details
  BY DEF LoadFails
<1> QED
  BY <1>1, PageKept, SettledKeeps DEF Known, ClientInv

-----------------------------------------------------------------------------
(* The invariant, and what follows from it.                                *)

LEMMA ClientStep == TypeInv /\ TypeInv' /\ GateInv /\ [CNext]_cvars /\ ClientInv => ClientInv'
<1> SUFFICES ASSUME TypeInv, TypeInv', GateInv, [CNext]_cvars, ClientInv PROVE ClientInv'
  OBVIOUS
<1>1. Known
  BY StepsOfTheGate DEF Known
<1>2. CASE Serve \/ RotateKey
  BY <1>1, <1>2, ServeKeeps, RotateKeeps
<1>3. CASE Create \/ AddEvidence \/ Decide
  BY <1>1, <1>3, FormBegins
<1>4. CASE SubmitCandidate \/ PostScan
  BY <1>1, <1>4, SubmissionGoesOn
<1>5. CASE ReloadAfter \/ SelectCreated
  BY <1>1, <1>5, ReloadAfterKeeps, SelectCreatedKeeps
<1>6. CASE \E c \in Candidates : Select(c)
  BY <1>1, <1>6, SelectKeeps
<1>7. CASE \E l \in Loads : ReadStatement(l) \/ Arrive(l) \/ LoadFails(l)
  BY <1>1, <1>7, ReadKeeps, ArriveKeeps, LoadFailsKeeps
<1>8. CASE UNCHANGED cvars
  <2>1. UNCHANGED << vars, keyVars, clientVars >>
    BY <1>8 DEF cvars
  <2>2. PageInv' /\ \A l \in Loads : LoadInv(l)'
    BY <1>1, <2>1, PageKept, LoadKept DEF Known, ClientInv, clientVars
  <2> QED
    BY <2>1, <2>2 DEF vars, keyVars, clientVars, ClientInv, IdleInv, ClientTypes, KeyInv,
       ReloadInv, FormInv, RunningInv, SubmitInv, SubmittedWithItsScan, Decided, Existing
<1> QED
  BY <1>2, <1>3, <1>4, <1>5, <1>6, <1>7, <1>8 DEF CNext

LEMMA ClientInvariant == CSpec => [](TypeInv /\ GateInv /\ ClientInv)
<1>1. CSpec => [](TypeInv /\ GateInv)
  BY ClientsUseTheGate, GateInvariant, PTL
<1>2. CInit => ClientInv
  BY ClientInit
<1> QED
  BY <1>1, <1>2, ClientStep, PTL DEF CSpec

\* A document that passes the check of verifySignedReceiptDocument
\* (crypto.server.ts:46) or of hodgeform receipt verify is the unaltered receipt of a
\* released candidate, over all of its evidence; and the receipt of every release
\* passes, offline for good and on the page until the key is replaced.
THEOREM VerifiedIsReleasedHolds == CSpec => []VerifiedIsReleased
<1>1. ASSUME TypeInv, GateInv, KeyInv PROVE VerifiedIsReleased
  <2>1. ASSUME NEW c \in Candidates, receipt[c] # None
        PROVE  Closed(c) /\ signedBy[c] \in Keys
    BY <1>1, <2>1 DEF GateInv, CandidateInv, Absent, Open, KeyInv, Decided
  <2>2. ASSUME NEW doc \in Documents, NEW k \in Keys, Verifies(doc, k)
        PROVE  /\ Released(doc.payload.cand)
               /\ doc = Exported(doc.payload.cand)
               /\ doc.payload.evidence = ledger[doc.payload.cand]
               /\ signedBy[doc.payload.cand] = k
    <3>1. /\ doc.fingerprint = k /\ doc.receiptHash = doc.payload
          /\ doc.signature = [ by |-> k, of |-> doc.payload ]
          /\ doc.payload.verdict = "RELEASE"
      BY <2>2 DEF Verifies, SignatureValid
    <3>2. /\ doc = [ payload |-> doc.payload, receiptHash |-> doc.receiptHash,
                     signature |-> doc.signature, fingerprint |-> doc.fingerprint ]
          /\ \E i \in Issued : doc.signature = i.signature
      BY <2>2 DEF Documents
    <3>3. PICK c \in Candidates : /\ receipt[c] # None
                                  /\ doc.signature = Exported(c).signature
      BY <3>2 DEF Issued
    <3>4. doc.signature = [ by |-> signedBy[c], of |-> Payload(c) ]
      BY <3>3 DEF Exported
    <3>5. k = signedBy[c] /\ doc.payload = Payload(c)
      BY <3>1, <3>4
    <3>6. /\ doc.payload.cand = c /\ doc.payload.verdict = receipt[c].verdict
          /\ doc.payload.evidence = receipt[c].evidence
      BY <3>5 DEF Payload
    <3>7. doc = Exported(c)
      BY <3>1, <3>2, <3>5 DEF Exported
    <3>8. row[c] # None /\ receipt[c].evidence = ledger[c] /\ row[c].status = FinalStatus(receipt[c].verdict)
      BY <2>1, <3>3 DEF Closed
    <3>9. Released(c)
      BY <3>1, <3>6, <3>8 DEF Released, Existing, FinalStatus
    <3> QED
      BY <3>5, <3>6, <3>7, <3>8, <3>9
  <2>3. ASSUME NEW c \in Candidates, Released(c)
        PROVE  /\ Verifies(Exported(c), signedBy[c])
               /\ Verifies(Exported(c), key) <=> signedBy[c] = key
    <3>1. Closed(c)
      BY <1>1, <2>3 DEF GateInv, CandidateInv, Absent, Open, Frozen, Released, Existing
    <3>2. receipt[c].verdict = "RELEASE"
      BY <2>3, <3>1 DEF Closed, FinalStatus, Released
    <3>3. ASSUME NEW k PROVE Verifies(Exported(c), k) <=> signedBy[c] = k
      BY <3>2 DEF Verifies, Exported, SignatureValid, Payload
    <3> QED
      BY <3>3
  <2> QED
    BY <2>2, <2>3 DEF VerifiedIsReleased, verifyReceipt, verifySignedReceiptDocument
<1> QED
  BY <1>1, ClientInvariant, PTL DEF ClientInv

\* The page that getCandidate (service.server.ts:195) puts together from statements
\* outside any transaction never shows a decision without its receipt, or with other
\* evidence than the decision rests on.
THEOREM PageIsConsistentHolds == CSpec => []PageIsConsistent
<1>1. PageInv => PageIsConsistent
  BY DEF PageInv, PageIsConsistent
<1> QED
  BY <1>1, ClientInvariant, PTL DEF ClientInv

\* When candidate submit (hodgeform.mjs:61) reports success, the candidate is there
\* and the scan of its artifact is in its ledger.
THEOREM SubmittedWithItsScanHolds == CSpec => []SubmittedWithItsScan
<1>1. SubmitInv => SubmittedWithItsScan
  BY DEF SubmitInv
<1> QED
  BY <1>1, ClientInvariant, PTL DEF ClientInv

\* The form of gates.tsx sends the hash of the policy on the page: the candidate that
\* decideRelease decides for it has that policy, whatever the page shows by then.
THEOREM ApprovedPolicyWasShownHolds == CSpec => ApprovedPolicyWasShown
<1> DEFINE Shown == \A c \in Candidates : DecidedByTheBrowser(c) => row[act.saw].policy = row[c].policy
<1>1. ASSUME TypeInv, GateInv, ClientInv, [CNext]_cvars PROVE Shown
  <2> SUFFICES ASSUME NEW c \in Candidates, ~Decided(c), Decided(c)'
               PROVE  row[act.saw].policy = row[c].policy
    BY DEF DecidedByTheBrowser
  <2>1. PICK r \in Requests : /\ req[r].cand = c
                              /\ InsertCandidate(r) \/ InsertEvidence(r) \/ CommitDecision(r)
    BY <1>1, StepsOfTheGate, Writers DEF Decided
  <2>2. req[r].pc = "sign"
    BY <2>1 DEF InsertCandidate, InsertEvidence, CommitDecision, At, Decided
  <2>3. r = Web
    BY <1>1, <2>2, ClientSlots DEF ClientInv, SubmitInv, CreatePcs, EvidencePcs
  <2> QED
    BY <1>1, <2>1, <2>2, <2>3 DEF ClientInv, FormInv, RunningInv, DecisionPcs
<1> HIDE DEF Shown
<1>2. CSpec => [][Shown]_cvars
  BY <1>1, ClientInvariant, PTL DEF CSpec
<1> QED
  BY <1>2 DEF ApprovedPolicyWasShown, Shown
=============================================================================
