------------------------------- MODULE Server -------------------------------
(***************************************************************************)
(* A server process from its start to its end: the container migrates the  *)
(* database (Migrator) while others may migrate it too, then it answers    *)
(* requests (src/server.ts) as its environment allows (Configuration),     *)
(* within the limits it sets each user (RateLimiter), on the clients of    *)
(* one pool (ConnectionPool).  It may die at any time; the rows stay, what *)
(* it kept in memory does not.                                             *)
(*                                                                         *)
(* Without DATABASE_URL a request runs on the embedded database instead of *)
(* the pool; what happens there is the subject of EmbeddedDatabase, and is *)
(* one step here.                                                          *)
(***************************************************************************)
EXTENDS Configuration, RateLimiter, Migrator, ConnectionPool

CONSTANTS
  Self,         \* the migrator that this server's container runs
  Environments  \* the environments a deployment may give it

ASSUME ServerAssumption ==
  /\ Self \in Migrators
  /\ Environments \subseteq Environment
  /\ "dev-user" \in Users

VARIABLE env

vars == << env, limiterVars, migratorVars, poolVars >>

Init == env \in Environments /\ LimiterInit /\ MigratorInit /\ PoolInit

-----------------------------------------------------------------------------
(* Requests.                                                               *)

\* createCandidate, recordEvidence, decideRelease, proposeAdversarialChecks
\* and the like ask the limiter first; pages and listings do not.
Limited == { "evidence", "decide", "propose" }

Admit(u, kind) ==
  IF kind \in Limited THEN enforceAgentRateLimit(u) ELSE UNCHANGED limiterVars

\* On the pool or on the embedded database.
Dispatch(r, u, kind) ==
  IF DatabaseConfigured(env)
  THEN \E c \in IF kind \in { "evidence", "decide" } THEN Candidates ELSE { None } :
         Begin(r, kind, c, u = "dev-user")
  ELSE /\ req[r] = Idle
       /\ req' = [ req EXCEPT ![r] = [ Idle EXCEPT !.pc = "embedded", !.kind = kind,
                                           !.dev = (u = "dev-user") ] ]
       /\ UNCHANGED << clients, waiting, lock >>

\* /api/ready asks the database, however wrong the configuration is.  The
\* legal pages and /api/health answer from memory.
CheckReadiness(r) ==
  /\ Up(Self)
  /\ Dispatch(r, "nobody", "readiness")
  /\ UNCHANGED << env, limiterVars, migratorVars >>

Accounts == Users \ { "dev-user" }

\* The users that the calls of server functions act as.
Callers ==
  UNION { ActsAs(env, h, session) : h \in Header, session \in { { u } : u \in Accounts } }

Application == Kinds \ { "readiness" }

\* A server function, called by whoever authMiddleware takes it to be.
CallServer(r) ==
  /\ Up(Self)
  /\ Serves(env)
  /\ \E u \in Callers, kind \in Application : Dispatch(r, u, kind) /\ Admit(u, kind)
  /\ UNCHANGED << env, migratorVars >>

\* Fault: what spares /api/ready the configuration spares all of the API.
CallApiUnchecked(r) ==
  /\ Up(Self)
  /\ \E u \in Accounts, kind \in { "query", "evidence" } :
       Dispatch(r, u, kind) /\ Admit(u, kind)
  /\ UNCHANGED << env, migratorVars >>

\* A route of the API, called with a token of u.
CallApi(r) ==
  /\ Up(Self)
  /\ Serves(env)
  /\ \E u \in Accounts, kind \in { "query", "evidence" } :
       Dispatch(r, u, kind) /\ Admit(u, kind)
  /\ UNCHANGED << env, migratorVars >>

AnswerEmbedded(r) ==
  /\ At(r, "embedded")
  /\ req' = [ req EXCEPT ![r] = Idle ]
  /\ UNCHANGED << env, limiterVars, migratorVars, clients, waiting, lock >>

-----------------------------------------------------------------------------
(* The model's providers, tried one after the other.  When the last has    *)
(* failed, or there is none, the catalog of falsifiers takes its place.    *)

Exhausted(r) == req[r].tried = Len(Targets(env))

\* An error, an empty answer, or the abort after its timeout.
AskNextProvider(r) ==
  /\ At(r, "model")
  /\ ~Exhausted(r)
  /\ req' = [ req EXCEPT ![r].tried = @ + 1 ]
  /\ UNCHANGED << env, limiterVars, migratorVars, clients, waiting, lock >>

AnswerProposal(r) ==
  /\ At(r, "model")
  /\ Exhausted(r) \/ MayAnswer(env)
  /\ End(r)
  /\ UNCHANGED << env, limiterVars, migratorVars, waiting >>

-----------------------------------------------------------------------------
(* The process.                                                            *)

Pool(step) == step /\ UNCHANGED << env, limiterVars, migratorVars >>

PassTime ==
  /\ Up(Self)
  /\ Tick
  /\ UNCHANGED << env, migratorVars, poolVars >>

StartUp(p) ==
  /\ \/ env.database = "url" /\ Migrate(p)
     \/ env.database = "unset" /\ SkipMigration(p)
     \/ env.database = "blank" /\ FailToConnect(p)
  /\ UNCHANGED << env, limiterVars, poolVars >>

\* Postgres ends what the process had open there.
Crash(p) ==
  /\ CrashProcess(p)
  /\ IF p = Self
     THEN /\ req'     = [ r \in Requests |-> Idle ]
          /\ clients' = {}
          /\ waiting' = << >>
          /\ lock'    = [ c \in Candidates |-> None ]
          /\ buckets' = [ u \in Users |-> NoBucket ]
          /\ recent'  = [ u \in Users |-> NothingAdmitted ]
     ELSE UNCHANGED << limiterVars, poolVars >>
  /\ UNCHANGED env

Next ==
  \/ \E r \in Requests :
       \/ CheckReadiness(r) \/ CallServer(r) \/ CallApi(r)
       \/ AnswerEmbedded(r) \/ AskNextProvider(r) \/ AnswerProposal(r)
       \/ Pool(Proceed(r)) \/ Pool(Timeout(r)) \/ Pool(Fail(r))
  \/ Pool(Serve)
  \/ PassTime
  \/ \E p \in Migrators : StartUp(p) \/ Crash(p)

Spec == Init /\ [][Next]_vars

\* Node resumes every continuation and fires every timer, and Postgres answers
\* each statement.  Waiters of a row lock queue for it in Postgres, so one that
\* is passed over again and again is served at last.  Only the container is started
\* again when it ends (restart: unless-stopped); a script that an operator has
\* run may stop anywhere, for good.
FairSpec ==
  /\ Spec
  /\ WF_vars(Pool(Serve))
  /\ \A r \in Requests :
       /\ WF_vars(Pool(Timeout(r)))
       /\ SF_vars(Pool(Proceed(r)))
       /\ WF_vars(AnswerEmbedded(r))
       /\ WF_vars(AskNextProvider(r) \/ AnswerProposal(r))
  /\ WF_vars(StartUp(Self))

-----------------------------------------------------------------------------
(* Properties.                                                             *)

\* Environment, buckets, processes, requests, pool and locks have the shape the
\* code gives them, and the pool never has more clients out than its size.
TypeOK == env \in Environment /\ LimiterTypeOK /\ MigratorTypeOK /\ PoolTypeOK

\* Five readers of the same variables disagree on what a yes is, on blanks and
\* on what a public release is.  Whatever the environment, the user that needs
\* no password exists only where no database is configured, in a deployment
\* that asked for the channel development or for nothing at all.
DevUserIsLocal ==
  (\E r \in Requests : req[r].dev) =>
    /\ env.database = "unset"
    /\ env.node # "production"
    /\ \/ env.channel = "development"
       \/ env.channel = "unset" /\ env.public = "unset"

\* A deployment that asked for the channel development, or for no channel, no
\* public release and no production build.
IsDevelopment(e) ==
  \/ e.channel = "development"
  \/ e.channel = "unset" /\ e.public \notin { "true", "1" } /\ e.node # "production"

IsPublic(e) ==
  \/ e.channel = "public_ga"
  \/ e.channel = "unset" /\ e.public \in { "true", "1" }

\* Everything that a public release or a controlled beta has to set is set: to
\* the letter for sign-in and the database, and with a review by counsel or
\* without signups, as the release is public or not.
IsComplete(e) ==
  /\ e.channel # "unknown"
  /\ e.auth # "false" /\ e.password /\ e.database = "url" /\ e.wrong = {}
  /\ IsPublic(e) => e.reviewed
  /\ e.signups => IsPublic(e) /\ e.email

\* No request runs on Postgres before every file of the migrations is applied,
\* by whichever process, and none but the readiness check runs at all, on Postgres
\* or on the embedded database, in a deployment that is not a development one
\* and lacks a setting its channel requires.
ServesWhenReady ==
  \A r \in Requests : req[r] # Idle =>
    /\ At(r, "embedded") \/ schema = Files
    /\ req[r].kind # "readiness" => IsDevelopment(env) \/ IsComplete(env)

\* However few clients there are, and however many decisions hold one of them
\* while they wait for another, every request ends: the timeout of the wait for
\* a client breaks the cycle that Postgres cannot see, and the timeout of a
\* provider the wait for a model.
RequestsEnd == \A r \in Requests : req[r] # Idle ~> req[r] = Idle

\* However often the container collides with others that migrate its database,
\* dies, or finds what one of them has left half done, it comes up, and once it
\* dies no more it stays up.
DeploymentComesUp == env.database # "blank" ~> []Up(Self)
=============================================================================
