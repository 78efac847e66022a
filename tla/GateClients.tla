----------------------------- MODULE GateClients -----------------------------
(***************************************************************************)
(* The two clients of the gate service, working against ReleaseGate: a     *)
(* reviewer's browser on the page Gates (src/routes/gates.tsx, with the    *)
(* hook of src/lib/use-async.ts) and a candidate submit of the command     *)
(* line (bin/hodgeform.mjs).                                               *)
(*                                                                         *)
(* getCandidate reads a candidate's tables in separate statements outside  *)
(* any transaction, so decisions and evidence commit between them.  The    *)
(* answers of several calls that are in flight arrive in any order, and    *)
(* the page shows whichever came last.                                     *)
(***************************************************************************)
EXTENDS SignedReceipts

CONSTANTS
  Web, Cli,  \* the request slots of the browser and of the command line
  Loads      \* slots for calls of getCandidate that are in flight

\* A form that is being submitted: the candidate it is about, and the candidate
\* that was on the page.
Act ==
  [ kind : { "create", "evidence", "decide" }, pc : { "running", "ok", "reloading" },
    cand : Candidates, saw : Candidates \cup {None} ]

ASSUME ClientAssumption == Web # Cli /\ Requests = { Web, Cli } /\ None \notin Act

VARIABLES
  selected,  \* the candidate chosen in the list, or None
  loads,     \* slot -> the call in flight, or None
  details,   \* the hook's data: the page that came last, or None
  loading,   \* the hook's loading
  failed,    \* the hook's error is set
  act,       \* the form that is being submitted, or None: the page is busy
  cli        \* the candidate submit; scans: artifactPath is configured, not just its hash

clientVars == << selected, loads, details, loading, failed, act, cli >>
cvars == << vars, keyVars, clientVars >>

CInit ==
  /\ Init
  /\ InitKeys
  /\ selected = None
  /\ loads    = [ l \in Loads |-> None ]
  /\ details  = None
  /\ loading  = TRUE
  /\ failed   = FALSE
  /\ act      = None
  /\ cli      = [ pc |-> "ready", cand |-> None, scans |-> FALSE ]

-----------------------------------------------------------------------------
(* getCandidate: the page of one candidate.  The plan is frozen with its   *)
(* candidate, so the page does not repeat it.                              *)

\* Fault: what is written first is read first.
StatementsReversed == << "evidence", "receipt", "candidate" >>

Statements == << "candidate", "evidence", "receipt" >>

Call(c, reload) ==
  [ cand |-> c, reload |-> reload, done |-> 0, status |-> None, evidence |-> << >>, receipt |-> None ]

\* reload(): loading, no error, and a call for the candidate of the render
\* that the function was made in.
Load(c, reload) ==
  /\ \E l \in Loads : loads[l] = None /\ loads' = [ loads EXCEPT ![l] = Call(c, reload) ]
  /\ loading' = TRUE
  /\ failed'  = FALSE

\* The call with one more of its statements read.
AfterStatement(call, statement) ==
  [ cand     |-> call.cand,
    reload   |-> call.reload,
    done     |-> call.done + 1,
    status   |-> IF statement = "candidate" THEN row[call.cand].status ELSE call.status,
    evidence |-> IF statement = "evidence" THEN ledger[call.cand] ELSE call.evidence,
    receipt  |-> IF statement = "receipt" THEN receipt[call.cand] ELSE call.receipt ]

ReadStatement(l) ==
  /\ loads[l] # None
  /\ loads[l].done < Len(Statements)
  /\ loads' = [ loads EXCEPT ![l] = AfterStatement(loads[l], Statements[loads[l].done + 1]) ]
  /\ UNCHANGED << vars, keyVars, selected, details, loading, failed, act, cli >>

\* setData, setLoading(false); the form that waited for its reload is done.
Settled(l) ==
  /\ loads' = [ loads EXCEPT ![l] = None ]
  /\ loading' = FALSE
  /\ act' = IF loads[l].reload THEN None ELSE act
  /\ UNCHANGED << vars, keyVars, selected, cli >>

Arrive(l) ==
  /\ loads[l] # None
  /\ loads[l].done = Len(Statements)
  /\ details' = [ cand |-> loads[l].cand, status |-> loads[l].status,
                  evidence |-> loads[l].evidence, receipt |-> loads[l].receipt ]
  /\ Settled(l)
  /\ UNCHANGED failed

\* setError: the data stays, but the page shows the error in its place.
LoadFails(l) ==
  /\ loads[l] # None
  /\ failed' = TRUE
  /\ Settled(l)
  /\ UNCHANGED details

-----------------------------------------------------------------------------
(* The page.                                                               *)

\* listCandidates.  The list may be older than this, but no candidate ever
\* leaves it.
Listed == Existing

\* A click in the list; the effect of useAsync loads the candidate.
Select(c) ==
  /\ c \in Listed
  /\ selected # c
  /\ selected' = c
  /\ Load(c, FALSE)
  /\ UNCHANGED << vars, keyVars, details, act, cli >>

FormsVisible ==
  /\ details # None /\ ~loading /\ ~failed
  /\ details.status = "frozen"
  /\ act = None

Submits(kind) ==
  act' = [ kind |-> kind, pc |-> "running", cand |-> req'[Web].cand,
           saw |-> IF kind = "create" THEN None ELSE details.cand ]

\* The form New candidate.
Create ==
  /\ act = None
  /\ BeginCreate(Web)
  /\ Submits("create")
  /\ UNCHANGED << keyVars, selected, loads, details, loading, failed, cli >>

\* The call names the selected candidate; what is recorded, and the policy
\* that is confirmed, come from the page.
AddEvidence ==
  /\ FormsVisible
  /\ BeginEvidence(Web)
  /\ req'[Web].cand = selected
  /\ \E q \in row[details.cand].policy.requirements : q.id = req'[Web].item.requirement
  /\ Submits("evidence")
  /\ UNCHANGED << keyVars, selected, loads, details, loading, failed, cli >>

Decide ==
  /\ FormsVisible
  /\ BeginDecide(Web)
  /\ req'[Web].cand = selected
  /\ req'[Web].policy = row[details.cand].policy
  /\ Submits("decide")
  /\ UNCHANGED << keyVars, selected, loads, details, loading, failed, cli >>

\* details.reload() of the render in which the form was submitted.
ReloadAfter ==
  /\ act # None
  /\ act.pc = "ok"
  /\ act.kind # "create"
  /\ act' = [ act EXCEPT !.pc = "reloading" ]
  /\ Load(act.cand, TRUE)
  /\ UNCHANGED << vars, keyVars, selected, details, cli >>

\* onCreated: the new candidate is selected.
SelectCreated ==
  /\ act # None
  /\ act.pc = "ok"
  /\ act.kind = "create"
  /\ act' = None
  /\ selected' = act.cand
  /\ Load(act.cand, FALSE)
  /\ UNCHANGED << vars, keyVars, details, cli >>

-----------------------------------------------------------------------------
(* candidate submit: creates the candidate and, if it is given the         *)
(* artifact and not just its hash, records the scan of the artifact as     *)
(* evidence for HF-CAP-001.  When it fails it is run again, from the       *)
(* start: it keeps no record of how far it got.                            *)

SubmitCandidate ==
  /\ cli.pc \in { "ready", "failed" }
  /\ BeginCreate(Cli)
  /\ \E scans \in BOOLEAN :
       cli' = [ pc |-> "creating", cand |-> req'[Cli].cand, scans |-> scans ]
  /\ UNCHANGED << keyVars, selected, loads, details, loading, failed, act >>

PostScan ==
  /\ cli.pc = "created"
  /\ BeginEvidence(Cli)
  /\ req'[Cli].cand = cli.cand
  /\ req'[Cli].item.requirement = "HF-CAP-001"
  /\ cli' = [ cli EXCEPT !.pc = "posting" ]
  /\ UNCHANGED << keyVars, selected, loads, details, loading, failed, act >>

\* Fault: the command does not wait for the second answer.
SucceedAtOnce(c) == IF c.pc = "creating" THEN "done" ELSE c.pc

\* Without a scan there is nothing to post.
AfterSuccess(c) ==
  IF c.pc = "creating" /\ c.scans THEN "created"
  ELSE IF c.pc \in { "creating", "posting" } THEN "done" ELSE c.pc

-----------------------------------------------------------------------------
(* The service goes on with a request; its client learns how it ended,     *)
(* unless the answer is lost on the way.                                   *)

Ends(r) == req[r] # Idle /\ req'[r] = Idle

Committed == row' # row \/ ledger' # ledger \/ receipt' # receipt

Answer ==
  \E ok \in BOOLEAN :
    /\ ok => Committed
    /\ act' = IF ~Ends(Web) THEN act
              ELSE IF ok THEN [ act EXCEPT !.pc = "ok" ] ELSE None
    /\ cli' = IF ~Ends(Cli) THEN cli
              ELSE [ cli EXCEPT !.pc = IF ok THEN AfterSuccess(cli) ELSE "failed" ]

Serve ==
  /\ \E r \in Requests : Proceed(r) \/ Abort(r)
  /\ Sign
  /\ Answer
  /\ UNCHANGED << selected, loads, details, loading, failed >>

RotateKey == Rotate /\ UNCHANGED << vars, clientVars >>

CNext ==
  \/ Serve \/ RotateKey
  \/ Create \/ AddEvidence \/ Decide \/ ReloadAfter \/ SelectCreated
  \/ SubmitCandidate \/ PostScan
  \/ \E c \in Candidates : Select(c)
  \/ \E l \in Loads : ReadStatement(l) \/ Arrive(l) \/ LoadFails(l)

CSpec == CInit /\ [][CNext]_cvars

-----------------------------------------------------------------------------
(* Properties.                                                             *)

\* The statements of getCandidate are not one snapshot, but their order makes
\* up for it: a page that shows a decision also shows its receipt and all the
\* evidence it rests on, and says that the gate is ready exactly when the
\* candidate was released; and no page shows evidence that its receipt lacks.
PageIsConsistent ==
  details # None =>
    LET ready == GateReady(row[details.cand].policy.requirements, ToSet(details.evidence)) IN
    /\ details.status # "frozen" =>
         /\ details.receipt # None
         /\ details.evidence = details.receipt.evidence
         /\ details.status = "released" <=> ready
    /\ details.receipt # None => IsPrefix(details.evidence, details.receipt.evidence)

DecidedByTheBrowser(c) == ~Decided(c) /\ Decided(c)' /\ act.kind = "decide" /\ act.cand = c

\* Whatever page the reviewer had before them when they signed, the policy on
\* it is the policy of the candidate that was decided: the hash that goes with
\* the confirmation sees to it.
ApprovedPolicyWasShown ==
  [][ \A c \in Candidates :
        DecidedByTheBrowser(c) => row[act.saw].policy = row[c].policy ]_cvars

\* PRODUCT_CONSTITUTION.md:17 requires that a human has approved the exact
\* frozen subject: the candidate that is decided is the one on the page.
ApprovedSubjectWasShown ==
  [][ \A c \in Candidates : DecidedByTheBrowser(c) => act.saw = c ]_cvars

\* When candidate submit reports success, the candidate exists, and if the
\* command was given the artifact its scan is in the ledger, to stay there and
\* to weigh in the decision.  (With the hash alone nothing is scanned.)
SubmittedWithItsScan ==
  cli.pc = "done" =>
    /\ cli.cand \in Existing
    /\ cli.scans => \E e \in ToSet(ledger[cli.cand]) : e.requirement = "HF-CAP-001"
=============================================================================
