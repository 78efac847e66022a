-------------------------- MODULE EmbeddedDatabase --------------------------
(***************************************************************************)
(* The embedded database of a process without DATABASE_URL: one PGlite     *)
(* session that getSql, withTransaction (src/lib/db.ts) and Better Auth's  *)
(* driver (src/lib/auth/pglite-dialect.ts) share.                          *)
(*                                                                         *)
(* PGlite gives its session to one query or to one transaction at a time,  *)
(* in the order they asked, and a wait for it has no timeout.  Every call  *)
(* of getEmbedded runs a pass over the migration files; the passes form a  *)
(* chain, one after the other.  getSql calls it once and keeps the promise *)
(* of the result; withTransaction calls it each time; the driver until it  *)
(* has a client.  The driver keeps one connection for all its callers.     *)
(*                                                                         *)
(* In saas mode decideRelease asks getSql for the approver's role while    *)
(* its own transaction holds the session.                                  *)
(***************************************************************************)
EXTENDS Naturals, FiniteSets, SequencesExt

CONSTANTS
  Requests,        \* slots for concurrently running requests
  MigrationCount,  \* the number of files in migrations/
  None

ASSUME EmbeddedAssumption ==
  /\ MigrationCount \in Nat
  /\ None \notin Requests
  /\ "ready" \notin Requests \cup {None}

Files == 1 .. MigrationCount

\* "ready" is ensureDbReady, "query" one statement of getSql, "transaction" one
\* withTransaction, "decide" a decision, "auth" one query of Better Auth.
Kinds == { "ready", "query", "transaction", "decide", "auth" }

VARIABLES
  mode,        \* HODGEFORM_DEPLOYMENT_MODE, which no step changes
  req,         \* request slot -> what the request is doing
  session,     \* the request that has PGlite's session, or None
  waiting,     \* the requests that wait for it, in the order they asked
  chain,       \* the passes that have not settled; the first one runs
  applied,     \* _migrations: the files that are recorded
  sqlPromise,  \* None, the request that will settle getSql's promise, or "ready"
  client,      \* whether the driver has its client
  connection,  \* the request that has the driver's connection, or None
  queue        \* the requests that wait for that connection

database == << session, waiting >>
driver   == << client, connection, queue >>
vars     == << mode, req, session, waiting, chain, applied, sqlPromise, client, connection, queue >>

\* todo holds the files that a pass has found to be pending.
Idle == [ pc |-> "idle", kind |-> "none", todo |-> {} ]

Init ==
  /\ mode \in { "private", "saas" }
  /\ req        = [ r \in Requests |-> Idle ]
  /\ session    = None
  /\ waiting    = << >>
  /\ chain      = << >>
  /\ applied    = {}
  /\ sqlPromise = None
  /\ client     = FALSE
  /\ connection = None
  /\ queue      = << >>

-----------------------------------------------------------------------------
(* The session.                                                            *)

At(r, pc) == req[r].pc = pc

Goto(r, pc) == req' = [ req EXCEPT ![r].pc = pc ]

Finish(r) == req' = [ req EXCEPT ![r] = Idle ]

\* pg.query and pg.transaction queue for the session.
Ask(r, pc) ==
  /\ waiting' = Append(waiting, r)
  /\ Goto(r, pc)
  /\ UNCHANGED session

\* Request r has reached pc, and its query or transaction has the session.
Has(r, pc) == At(r, pc) /\ session = r /\ r \notin ToSet(waiting)

GiveBack == session' = None /\ UNCHANGED waiting

Serve ==
  /\ session = None
  /\ waiting # << >>
  /\ session' = Head(waiting)
  /\ waiting' = Tail(waiting)
  /\ UNCHANGED << mode, req, chain, applied, sqlPromise, driver >>

-----------------------------------------------------------------------------
(* Better Auth's driver.                                                   *)

\* acquireConnection, with a client.
Acquire(r) ==
  \/ /\ connection = None
     /\ connection' = r
     /\ Goto(r, "connect")
     /\ UNCHANGED queue
  \/ /\ connection # None
     /\ queue' = Append(queue, r)
     /\ Goto(r, "acquire")
     /\ UNCHANGED connection

\* Faults, here and below: what a plausible mistake would put in the place of
\* the definition that follows; they show which properties would notice it.
ReleaseToNobody(r) ==
  /\ connection' = IF queue = << >> THEN None ELSE connection
  /\ Finish(r)
  /\ UNCHANGED queue

\* releaseConnection hands the connection to whoever waits longest.
ReleaseConnection(r) ==
  \/ /\ queue = << >>
     /\ connection' = None
     /\ Finish(r)
     /\ UNCHANGED queue
  \/ /\ queue # << >>
     /\ connection' = Head(queue)
     /\ queue' = Tail(queue)
     /\ req' = [ req EXCEPT ![r] = Idle, ![Head(queue)].pc = "connect" ]

-----------------------------------------------------------------------------
(* getEmbedded: a pass over the migrations.                                *)

JoinChain(r, kind) ==
  /\ chain' = Append(chain, r)
  /\ req' = [ req EXCEPT ![r] = [ pc |-> "pass", kind |-> kind, todo |-> {} ] ]

AtOnce(r) == r \in ToSet(chain)

\* A pass begins when the pass before it has settled, either way.
MyTurn(r) == chain # << >> /\ Head(chain) = r

BeginPass(r) ==
  /\ At(r, "pass")
  /\ MyTurn(r)
  /\ Ask(r, "ledger")
  /\ UNCHANGED << mode, chain, applied, sqlPromise, driver >>

pendingMigrations == Files \ applied

\* select name from _migrations
ReadLedger(r) ==
  /\ Has(r, "ledger")
  /\ req' = [ req EXCEPT ![r].pc = "migrate", ![r].todo = pendingMigrations ]
  /\ GiveBack
  /\ UNCHANGED << mode, chain, applied, sqlPromise, driver >>

OpenMigration(r) ==
  /\ At(r, "migrate")
  /\ req[r].todo # {}
  /\ Ask(r, "apply")
  /\ UNCHANGED << mode, chain, applied, sqlPromise, driver >>

AnyOf(todo) == todo

\* The files are applied in the order of their names.
FirstOf(todo) == { f \in todo : \A g \in todo : f <= g }

\* One transaction applies a file and records it.  For a file that is recorded
\* already it fails: on what the file creates, or on the key of _migrations.
ApplyMigration(r) ==
  /\ Has(r, "apply")
  /\ \E f \in FirstOf(req[r].todo) \ applied :
       /\ applied' = applied \cup {f}
       /\ req' = [ req EXCEPT ![r].pc = "migrate", ![r].todo = @ \ {f} ]
  /\ GiveBack
  /\ UNCHANGED << mode, chain, sqlPromise, driver >>

\* Where a caller of getSql goes on when it has its result: a decision asks for
\* the approver's role, anything else for its own statement.
WithSql(kind) == IF kind = "decide" THEN "ask role" ELSE "connect"

\* What the caller of getEmbedded does with the database it gets.
Resolve(r) ==
  \/ /\ req[r].kind = "ready"
     /\ Finish(r)
     /\ UNCHANGED << sqlPromise, driver >>
  \/ /\ req[r].kind = "query"
     /\ sqlPromise' = "ready"
     /\ req' = [ s \in Requests |->
                   IF s = r \/ At(s, "await sql") THEN [ req[s] EXCEPT !.pc = WithSql(req[s].kind) ]
                   ELSE req[s] ]
     /\ UNCHANGED driver
  \/ /\ req[r].kind \in { "transaction", "decide" }
     /\ Goto(r, "connect")
     /\ UNCHANGED << sqlPromise, driver >>
  \/ /\ req[r].kind = "auth"
     /\ client' = TRUE
     /\ Acquire(r)
     /\ UNCHANGED sqlPromise

\* Fault: the promise of a getSql that failed is kept.
RejectForGood(r) ==
  /\ Finish(r)
  /\ UNCHANGED << sqlPromise, driver >>

\* Fault: the caller awaits the chain with its catch, not the pass.
CarryOn(r) == Resolve(r)

\* The caller fails; getSql forgets its promise, with whoever awaits it.  (No
\* decision does: it holds the session, and a pass fails only with the session.)
Reject(r) ==
  /\ sqlPromise' = IF sqlPromise = r THEN None ELSE sqlPromise
  /\ req' = [ s \in Requests |->
                IF s = r \/ (sqlPromise = r /\ At(s, "await sql")) THEN Idle ELSE req[s] ]
  /\ UNCHANGED driver

LeaveChain(r) == chain' = Tail(chain)

FinishPass(r) ==
  /\ At(r, "migrate")
  /\ req[r].todo = {}
  /\ LeaveChain(r)
  /\ Resolve(r)
  /\ UNCHANGED << mode, database, applied >>

\* A query or a file fails, and with it the pass; the file leaves no trace.
FailPass(r) ==
  /\ Has(r, "ledger") \/ Has(r, "apply")
  /\ LeaveChain(r)
  /\ Reject(r)
  /\ GiveBack
  /\ UNCHANGED << mode, applied >>

-----------------------------------------------------------------------------
(* Requests.                                                               *)

\* getSql: the first caller starts a pass, those who come before it has settled
\* await its promise, and later ones have the result.
GetSql(r, kind) ==
  \/ /\ sqlPromise = None
     /\ sqlPromise' = r
     /\ JoinChain(r, kind)
  \/ /\ sqlPromise # None
     /\ req' = [ req EXCEPT ![r] =
          [ pc   |-> IF sqlPromise = "ready" THEN WithSql(kind) ELSE "await sql",
            kind |-> kind, todo |-> {} ] ]
     /\ UNCHANGED << sqlPromise, chain >>

BeginQuery(r) ==
  /\ req[r] = Idle
  /\ GetSql(r, "query")
  /\ UNCHANGED << mode, database, applied, driver >>

BeginWithPass(r) ==
  /\ req[r] = Idle
  /\ \E kind \in { "ready", "transaction", "decide" } :
       JoinChain(r, kind)
  /\ UNCHANGED << mode, database, applied, sqlPromise, driver >>

BeginAuth(r) ==
  /\ req[r] = Idle
  /\ ~client
  /\ JoinChain(r, "auth")
  /\ UNCHANGED << mode, database, applied, sqlPromise, driver >>

BeginAuthWithClient(r) ==
  /\ req[r] = Idle
  /\ client
  /\ \/ /\ connection = None
        /\ connection' = r
        /\ req' = [ req EXCEPT ![r] = [ pc |-> "connect", kind |-> "auth", todo |-> {} ] ]
        /\ UNCHANGED queue
     \/ /\ connection # None
        /\ queue' = Append(queue, r)
        /\ req' = [ req EXCEPT ![r] = [ pc |-> "acquire", kind |-> "auth", todo |-> {} ] ]
        /\ UNCHANGED connection
  /\ UNCHANGED << mode, database, chain, applied, sqlPromise, client >>

Connect(r) ==
  /\ At(r, "connect")
  /\ Ask(r, "statement")
  /\ UNCHANGED << mode, chain, applied, sqlPromise, driver >>

\* A query is answered, a transaction commits, or either fails: the session is
\* given back, and a query of Better Auth gives the driver's connection back.
End(r) ==
  /\ Has(r, "statement")
  /\ req[r].kind = "decide" => mode = "private"
  /\ GiveBack
  /\ \/ req[r].kind = "auth" /\ ReleaseConnection(r)
     \/ req[r].kind # "auth" /\ Finish(r) /\ UNCHANGED << connection, queue >>
  /\ UNCHANGED << mode, chain, applied, sqlPromise, client >>

\* A decision fails before it asks for the role.
RefuseDecision(r) ==
  /\ Has(r, "statement")
  /\ req[r].kind = "decide"
  /\ GiveBack
  /\ Finish(r)
  /\ UNCHANGED << mode, chain, applied, sqlPromise, driver >>

\* requireReleaseAuthority calls getSql inside the transaction, and then query.
AskForRole(r) ==
  /\ Has(r, "statement")
  /\ req[r].kind = "decide"
  /\ mode = "saas"
  /\ GetSql(r, "decide")
  /\ UNCHANGED << mode, database, applied, driver >>

QueryRole(r) ==
  /\ At(r, "ask role")
  /\ Ask(r, "role")
  /\ UNCHANGED << mode, chain, applied, sqlPromise, driver >>

-----------------------------------------------------------------------------
Proceed(r) ==
  \/ BeginPass(r) \/ ReadLedger(r) \/ OpenMigration(r) \/ ApplyMigration(r) \/ FinishPass(r)
  \/ FailPass(r) \/ Connect(r) \/ End(r) \/ AskForRole(r) \/ QueryRole(r)

Next ==
  \/ Serve
  \/ \E r \in Requests :
       \/ BeginQuery(r) \/ BeginWithPass(r) \/ BeginAuth(r) \/ BeginAuthWithClient(r)
       \/ Proceed(r)
       \/ RefuseDecision(r)

Spec == Init /\ [][Next]_vars

\* Node resumes every continuation, and PGlite answers a query it has begun.
FairSpec == Spec /\ WF_vars(Serve) /\ \A r \in Requests : WF_vars(Proceed(r))

-----------------------------------------------------------------------------
(* Properties.                                                             *)

InPass == { "pass", "ledger", "migrate", "apply" }

Request ==
  [ pc : InPass \cup { "idle", "await sql", "acquire", "connect", "statement", "ask role", "role" },
    kind : Kinds \cup {"none"}, todo : SUBSET Files ]

\* Everything has the shape the code gives it, and the files that are applied
\* are the first ones: no file is applied before one that sorts before it.
TypeOK ==
  /\ mode \in { "private", "saas" }
  /\ req \in [ Requests -> Request ]
  /\ session \in Requests \cup {None}
  /\ waiting \in Seq(Requests)
  /\ chain \in Seq(Requests)
  /\ \E n \in 0 .. MigrationCount : applied = 1 .. n
  /\ sqlPromise \in Requests \cup { None, "ready" }
  /\ client \in BOOLEAN
  /\ connection \in Requests \cup {None}
  /\ queue \in Seq(Requests)

\* No query and no transaction of the application or of Better Auth runs on a
\* schema that a migration is missing from, however many requests come first at
\* the same time and whichever of their passes fail.
MigratedBeforeUse ==
  \A r \in Requests :
    req[r].pc \in { "acquire", "connect", "statement", "ask role", "role" } => applied = Files

\* Passes do not collide: what a pass has found to be pending stays pending until
\* the pass applies it itself, so that none fails because of another.
PassesDoNotCollide ==
  \A r \in Requests : req[r].pc \in { "migrate", "apply" } => req[r].todo \cap applied = {}

\* What has ended has left everything: no session, no place in a queue or in the
\* chain, no connection of the driver, and no promise that nobody will settle.
NothingLeaks ==
  /\ \A r \in Requests : req[r] = Idle =>
       /\ r \notin { session, connection }
       /\ r \notin ToSet(waiting) \cup ToSet(chain) \cup ToSet(queue)
  /\ sqlPromise \in Requests =>
       req[sqlPromise].kind \in { "query", "decide" } /\ req[sqlPromise].pc \in InPass

\* Request r has a step of its own: its pass may begin, its query or transaction
\* has the session, or it waits for nothing.
GoesOn(r) ==
  \/ At(r, "pass") /\ MyTurn(r)
  \/ req[r].pc \in { "migrate", "connect", "ask role" }
  \/ \E pc \in { "ledger", "apply", "statement", "role" } : Has(r, pc)

\* Request r waits for request s: for the session, for the passes before its own,
\* for the driver's connection, or for getSql's promise.
WaitsFor(r, s) ==
  \/ r \in ToSet(waiting) /\ session = s
  \/ At(r, "pass") /\ chain # << >> /\ Head(chain) = s
  \/ At(r, "acquire") /\ connection = s
  \/ At(r, "await sql") /\ sqlPromise = s

WaitRank(r) ==
  IF GoesOn(r) THEN 0
  ELSE IF r \in ToSet(waiting) THEN 1
  ELSE IF req[r].pc \in { "pass", "acquire" } THEN 2
  ELSE 3

\* In private mode no waits form a circle, and nobody waits for a request that has
\* ended: whoever cannot go on is about to be given the session, or waits for a
\* request that is nearer to the session than itself, and the session is never with
\* one that waits.
WaitsAreWellFounded ==
  mode = "private" =>
    \A r \in Requests : ~ At(r, "idle") =>
      \/ GoesOn(r)
      \/ r \in ToSet(waiting) /\ session = None
      \/ \E s \in Requests : ~ At(s, "idle") /\ WaitsFor(r, s) /\ WaitRank(s) < WaitRank(r)

\* In private mode every request ends: a pass that fails stops neither the passes
\* behind it nor the queries that await its promise, and the driver forgets none
\* of its callers.
PrivateRequestsEnd ==
  mode = "private" => \A r \in Requests : req[r] # Idle ~> req[r] = Idle

\* What README.md:65 offers without a restriction to one mode: development on the
\* embedded database.  Every request ends in either mode.
RequestsEnd == \A r \in Requests : req[r] # Idle ~> req[r] = Idle
=============================================================================
