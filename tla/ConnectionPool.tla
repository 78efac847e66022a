--------------------------- MODULE ConnectionPool ---------------------------
(***************************************************************************)
(* The connection pool of a server process (src/lib/db.ts) and the         *)
(* requests that share it.  withTransaction checks out a client for the    *)
(* whole transaction; a query of getSql checks one out for one statement.  *)
(* decideRelease does both: while its transaction holds a client and the   *)
(* row lock of its candidate, requireReleaseAuthority runs a query of      *)
(* getSql (service.server.ts:324, tenant.server.ts:106) and so waits for   *)
(* a second client of the same pool.                                       *)
(*                                                                         *)
(* The clients can all be held by decisions that wait for another one, and *)
(* by requests that wait for a row such a decision has locked.  Postgres   *)
(* sees no deadlock there: half of the cycle is in the process.            *)
(***************************************************************************)
EXTENDS Naturals, FiniteSets, SequencesExt

CONSTANTS
  Requests,    \* slots for concurrently running requests
  Candidates,  \* rows of release_candidates
  PoolSize,    \* max: 10
  None

ASSUME PoolAssumption ==
  /\ PoolSize \in Nat \ {0}
  /\ IsFiniteSet(Requests)
  /\ None \notin Requests \cup Candidates

\* "readiness" and "query" are requests of a single statement, the check of
\* /api/ready and any page or listing; "evidence" locks a candidate in a
\* transaction, "decide" also queries the pool while it holds the lock, and
\* "propose" asks the model's providers after its query.
Kinds == { "readiness", "query", "evidence", "decide", "propose" }

VARIABLES
  req,      \* request slot -> what the request is doing
  clients,  \* the clients of the pool that are checked out, each as <<request, use>>
  waiting,  \* the requests that wait for a client, in the order they asked
  lock      \* row locks: candidate -> the request that holds its row, or None

poolVars == << req, clients, waiting, lock >>

\* tried counts the model's providers that have failed a proposal, and dev says
\* that the request is made as the shared user of a development server.
Idle == [ pc |-> "idle", kind |-> None, cand |-> None, tried |-> 0, dev |-> FALSE ]

PoolInit ==
  /\ req     = [ r \in Requests |-> Idle ]
  /\ clients = {}
  /\ waiting = << >>
  /\ lock    = [ c \in Candidates |-> None ]

At(r, pc) == req[r].pc = pc

\* pool.connect puts the request in the queue; Serve takes it out.
Ask(r, pc) ==
  /\ req' = [ req EXCEPT ![r].pc = pc ]
  /\ waiting' = Append(waiting, r)

Begin(r, kind, c, dev) ==
  /\ req[r] = Idle
  /\ req' = [ req EXCEPT ![r] = [ Idle EXCEPT !.pc = "connect", !.kind = kind,
                                      !.cand = c, !.dev = dev ] ]
  /\ waiting' = Append(waiting, r)
  /\ UNCHANGED << clients, lock >>

\* Faults, here and below: what a plausible mistake would put in the place of
\* the definition that follows; they show which properties would notice it.
AnyClient == Cardinality(clients) <= PoolSize

FreeClient == Cardinality(clients) < PoolSize

\* A free client goes to whoever asked first.
Serve ==
  /\ waiting # << >>
  /\ FreeClient
  /\ LET r == Head(waiting) IN
     \/ /\ At(r, "connect")
        /\ clients' = clients \cup { << r, "own" >> }
        /\ req' = [ req EXCEPT ![r].pc = "statement" ]
     \/ /\ At(r, "nested connect")
        /\ clients' = clients \cup { << r, "nested" >> }
        /\ req' = [ req EXCEPT ![r].pc = "nested statement" ]
  /\ waiting' = Tail(waiting)
  /\ UNCHANGED lock

LeaveLock(r) == lock' = lock

\* client.release() in the finally block, after COMMIT or ROLLBACK.
Unlock(r) == lock' = [ c \in Candidates |-> IF lock[c] = r THEN None ELSE lock[c] ]

End(r) ==
  /\ req' = [ req EXCEPT ![r] = Idle ]
  /\ clients' = clients \ { << r, "own" >>, << r, "nested" >> }
  /\ Unlock(r)

\* getSql().query: one statement, and the client goes back.
Query(r) ==
  /\ At(r, "statement")
  /\ req[r].kind \in { "readiness", "query" }
  /\ End(r)
  /\ UNCHANGED waiting

\* Fault: the proposal runs in a transaction.
KeepsClient(r) == clients' = clients

GivesBack(r) == clients' = clients \ { << r, "own" >> }

\* The last query of proposeAdversarialChecks; its client goes back before the
\* first provider of a model is asked.
AskModel(r) ==
  /\ At(r, "statement")
  /\ req[r].kind = "propose"
  /\ GivesBack(r)
  /\ req' = [ req EXCEPT ![r].pc = "model" ]
  /\ UNCHANGED << waiting, lock >>

\* SELECT ... FOR UPDATE; a decision goes on to ask for its second client.
LockRow(r) ==
  /\ At(r, "statement")
  /\ req[r].kind \in { "evidence", "decide" }
  /\ lock[req[r].cand] = None
  /\ lock' = [ lock EXCEPT ![req[r].cand] = r ]
  /\ \/ /\ req[r].kind = "evidence"
        /\ req' = [ req EXCEPT ![r].pc = "commit" ]
        /\ UNCHANGED waiting
     \/ /\ req[r].kind = "decide"
        /\ Ask(r, "nested connect")
  /\ UNCHANGED clients

\* The role is read and the second client goes back.
NestedQuery(r) ==
  /\ At(r, "nested statement")
  /\ clients' = clients \ { << r, "nested" >> }
  /\ req' = [ req EXCEPT ![r].pc = "commit" ]
  /\ UNCHANGED << waiting, lock >>

Commit(r) ==
  /\ At(r, "commit")
  /\ End(r)
  /\ UNCHANGED waiting

NeverExpires(r) == FALSE

\* connectionTimeoutMillis has passed.
Expires(r) == r \in ToSet(waiting)

\* The request that waits for a client gets an error instead: a transaction
\* rolls back and releases the client it has.
Timeout(r) ==
  /\ Expires(r)
  /\ \E i \in DOMAIN waiting : waiting[i] = r /\ waiting' = RemoveAt(waiting, i)
  /\ End(r)

\* A statement fails, or a check refuses the request.
Fail(r) ==
  /\ req[r].pc \in { "statement", "nested statement", "commit" }
  /\ End(r)
  /\ UNCHANGED waiting

Proceed(r) == Query(r) \/ AskModel(r) \/ LockRow(r) \/ NestedQuery(r) \/ Commit(r)

-----------------------------------------------------------------------------
(* Properties of the pool, whatever else its server does.                  *)

Request ==
  [ pc : { "idle", "connect", "statement", "nested connect", "nested statement", "commit",
           "model", "embedded" },
    kind : Kinds \cup {None}, cand : Candidates \cup {None}, tried : Nat, dev : BOOLEAN ]

PoolTypeOK ==
  /\ req \in [ Requests -> Request ]
  /\ clients \subseteq Requests \X { "own", "nested" }
  /\ waiting \in Seq(Requests)
  /\ lock \in [ Candidates -> Requests \cup {None} ]
  /\ Cardinality(clients) <= PoolSize

\* Whatever way a request ends, nothing of it is left behind: no client, no
\* place in the queue, no row lock.  A client that leaks is lost to the process
\* for good, and a lock that leaks blocks its candidate.
NothingLeaks ==
  \A r \in Requests : req[r] = Idle =>
    /\ << r, "own" >> \notin clients /\ << r, "nested" >> \notin clients
    /\ r \notin ToSet(waiting)
    /\ \A c \in Candidates : lock[c] # r

\* The next step of the request is a statement that nothing in Postgres blocks.
WaitsForRow(r) ==
  /\ At(r, "statement")
  /\ req[r].cand \in Candidates
  /\ lock[req[r].cand] # None

InDatabase(r) ==
  /\ req[r].pc \in { "statement", "nested statement", "commit" }
  /\ ~WaitsForRow(r)

\* Request s holds what r waits for: its row, or a client of the pool.
WaitsFor(r, s) ==
  \/ WaitsForRow(r) /\ lock[req[r].cand] = s
  \/ r \in ToSet(waiting) /\ \E use \in { "own", "nested" } : << s, use >> \in clients

GoesOn(s) == InDatabase(s) \/ Expires(s)

\* Waits do not chain up: whoever holds a client or a row that another request
\* waits for goes on, with a statement that nothing blocks or because its own wait
\* for a client expires, or waits for nothing but a row whose holder does.  So no
\* cycle of requests, through Postgres and the pool, is left to itself, none of
\* them is forgotten by the queue, and nobody waits for a request that waits for
\* a model.
HoldersGoOn ==
  \A r, s \in Requests : WaitsFor(r, s) =>
    \/ GoesOn(s)
    \/ WaitsForRow(s) /\ GoesOn(lock[req[s].cand])

\* A request that waits for a model, which may take two providers' timeouts of
\* up to two minutes each, keeps neither a client nor a row from the others.
ModelHoldsNothing ==
  \A r \in Requests : At(r, "model") =>
    /\ \A use \in { "own", "nested" } : << r, use >> \notin clients
    /\ \A c \in Candidates : lock[c] # r
=============================================================================
