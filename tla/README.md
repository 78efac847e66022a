# Verification of the HodgeForm release gate

HodgeForm freezes a release candidate of an AI agent under a policy compiled from the
authority it declares, collects evidence against that policy, and lets a person decide. The
decision is signed. The web server is stateless: several processes run the same handlers
against one Postgres database, and what they promise rests on row locks, transactions,
unique indexes and the order of statements. That is what this directory models in TLA+,
checks with TLC and, for the safety of nearly all of it, proves with TLAPS.

Paths below are relative to the repository.

## 1. The system

| Component | State | Operations | Interacts with |
|---|---|---|---|
| Policy compiler, `src/lib/gate/policy.ts` | none (pure) | `compilePolicy`, `inferRisk`, `evaluateRequirement`, `summarizeTrustTransition`; `recommendPolicyPack` for the command line | called by the gate at creation and decision |
| Gate service, `src/lib/gate/service.server.ts` | `release_candidates`, `gate_plans`, `evidence_receipts`, `approvals`, `release_receipts` (`migrations/0002_gate.sql`) | `createCandidate`, `recordEvidence`, `decideRelease`, listings, `createRepository`, `createDiscovery` | compiler, tenant, verifiers, signer, database |
| Workspaces, `src/lib/gate/tenant.server.ts` | `workspaces`, `workspace_members`, `workspace_invites`, `user_workspace_preferences` (`migrations/0004_workspaces.sql`) | `tenantForUser`, create, switch, invite, accept, change role, remove, `requireReleaseAuthority` | every request resolves its workspace here; the gate asks for the approver's role |
| Verifiers and API tokens, `verifiers.server.ts`, `api-keys.server.ts` | `verifier_principals`, `api_tokens` | register, disable, create, revoke, authenticate | the gate derives independence from the token's verifier |
| Accounts, `src/lib/auth/server.ts` | Better Auth's tables | the `beforeDelete` and `afterDelete` hooks | cascades into members, preferences; revokes tokens |
| Database access, `src/lib/db.ts` | a pool of ten clients, or one embedded PGlite session | `getSql`, `withTransaction`, first-use migration | everything |
| Embedded auth driver, `src/lib/auth/pglite-dialect.ts` | a queue of waiters for the one session | acquire, release, destroy, raw transactions | shares PGlite with `getSql` |
| Migrator, `scripts/migrate.mjs` | `_migrations` | read the ledger, apply pending files one transaction each, exit | runs before each server and by hand; shares `pendingMigrations` with the embedded database |
| Release configuration, `gate/config.server.ts`, and the readers of the same variables in `auth/` | the environment | `publicReleaseConfig`, `assertPublicReleaseReady`, `devUserAllowed`, `assertSameSiteRequest` | decides what `src/server.ts` serves and whom a call acts as |
| Rate limiter, `security/rate-limit.server.ts` | a map of fixed windows, in memory | consume, sweep | called first by the services that change something |
| Signing and verification, `crypto.server.ts`, `routes/verify.tsx`, `bin/hodgeform.mjs` | keys in the environment, `release_receipts` | sign a receipt, export it, verify a document on the page or with a pinned key | the last step of a decision; documents travel outside the system |
| Gate page, `routes/gates.tsx` with `lib/use-async.ts` | selected candidate, shown answer, loads in flight, form being submitted | select, load, create, add evidence, decide, reload | calls the gate; several calls at once |
| Command line, `bin/hodgeform.mjs` | none between runs | `candidate submit`, single calls of the API, `receipt verify` | calls the API with a token, twice for a submission |
| Model provider, `runtime/model-provider.server.ts` | none | targets tried in order, each with a timeout; catalog as fallback | `proposeAdversarialChecks`, after its last query |
| Sandbox, `runtime/sandbox.server.ts`, `executor/server.py` | one process at a time | run code under time limits | nothing in the gate at this commit |
| Operator scripts, `scripts/*.mjs` | the workspace and account tables | provision an account, appoint an owner of any workspace | race with requests |
| Readiness, other routes, logging, e-mail | none that survives a call | health checks, listings, formatting | thin callers of the above |

What is hard here, and what each part must get right:

- *Gate.* Evidence arrives while a decision reads, signs and commits. The role check of a
  decision runs on another connection. A baseline is read without a lock. Any statement can
  fail. Yet a receipt must cover all the evidence, nothing may change after it, nobody may
  decide their own risky candidate, a bad capability scan must block for good, and
  independence must have been earned.
- *Compiler.* Six layers of requirements override each other by id. More authority must never
  lose an obligation of the baseline, a capability or the organization, also when it changes the
  recommended pack, and a stale baseline may change explanations only.
- *Workspaces.* Counts, memberships and preferences are read by one statement and used by a
  later one. The last owner, the one use of an invitation and the user's own workspace depend
  on it.
- *Credentials.* No transactions at all: each operation can stop half way. Invalid
  credentials must still admit nobody.
- *Pool.* A decision holds one client and a row lock while it waits for a second client. This
  is a deadlock that Postgres cannot see. Every request must still end and leave nothing.
- *Clients of the gate.* Answers are lost and overtake each other, forms reload by the closure
  of an earlier render, a submission consists of two calls, and a page is read by four
  statements that are no snapshot. A reviewer must not sign what they did not see, and what
  verifies outside the system must be the receipt of a release.
- *Server process.* Its environment is read in five places that disagree on blanks and on what
  a yes is; several processes migrate one database; memory is lost in a restart. Nobody may be
  let in without a password on a real deployment, nothing may be served on half a schema, each
  file must run once, and a user's requests stay bounded.
- *Embedded database.* The first requests of a process migrate the schema at the same time, a
  migration may fail, and three kinds of callers share one session. Nothing may run on an old
  schema, fail because of another's migration, or wait for ever.

`PROJECT.json` lists these hazards one by one, at their lines, with the properties that cover
them, and those that nothing covers yet.

## 2. The modules

| Module | Models | State |
|---|---|---|
| `Policy` | the compiler and the evaluation, as operators | none |
| `PolicyRevision` | the compiler's inputs, explored as revisions (a capability more, with the pack that `auto` then recommends; a pack more; a separate approver) | the input, and whether the author leaves the pack to `auto` |
| `ReleaseAuthority` | the abstract promise: freeze, attach, decide, each one atomic step | dossier, evidence, decision |
| `ReleaseGate` | the gate service of one repository, statement by statement | the five tables, row locks, roles, disabled verifiers, what each request is doing |
| `Membership` | the abstract promise of workspaces: a mandate is given, lapses or is used for one change or one invitation; an invitation admits once; founding, leaving, an operator who appoints an owner | people, workspaces, roles, offers, mandates |
| `Workspace` | tenants, members, invitations, preferences, account deletion | the four tables, accounts, row locks, requests |
| `Credentials` | verifiers, tokens, authentication | the two tables, roles, accounts, requests |
| `SignedReceipts` | extends `ReleaseGate` by keys, signatures, the exported documents and both verifiers | the key in use, the key each receipt was signed with |
| `GateClients` | extends `SignedReceipts` by the page Gates and `candidate submit`, and composes them with the gate | selection, loads in flight, the page, the form, the submission |
| `Configuration` | what a process makes of its environment: readiness, the development user, the same-site check, the model's targets | none |
| `RateLimiter` | the buckets, and a history of what was admitted | buckets |
| `Migrator` | several runs of `migrate.mjs`, and servers that start after theirs | ledger, schema, processes |
| `ConnectionPool` | the pool under requests of one statement, transactions, decisions and proposals | clients, queue, row locks, requests |
| `Server` | composes the four above: a server process from its start to its end | all of theirs, the environment |
| `EmbeddedDatabase` | PGlite, the migration passes, Better Auth's driver | session and its queue, chain of passes, recorded files, `getSql`'s promise, the driver's client, connection and queue |
| `PolicyProofs`, `PolicyRevisionProofs`, `ReleaseGateProofs`, `GateClientsProofs`, `WorkspaceProofs`, `CredentialsProofs`, `ServerProofs`, `EmbeddedDatabaseProofs` | theorems about the module of that name; `GateClientsProofs` covers `SignedReceipts`, and `ServerProofs` the parts of `Server` | |
| `MCReleaseGate`, `MCGateClients`, `MCWorkspace`, `MCCredentials`, `MCServer` | small instances | |

**From code to actions.** A handler is a sequence of `await`ed statements. Each module gives a
request slot a program counter, and an action runs from one statement to the next;
statements that no other request can tell apart are one action. Inside a transaction the
writes belong to the action that commits (READ COMMITTED: nobody sees them earlier), while a
`select ... for update` is an action of its own that waits and then reads afresh. `Rollback`,
`Stop` and `Fail` end a request anywhere: a database error, a refused check, a signing failure,
a crash of the process (`EmbeddedDatabase` has its failures inside `FailPass` and `End`, since its process and its
data end together). In `Credentials` each statement commits by itself, so stopping there
leaves a half-finished operation.

For example `decideRelease` is `BeginDecide` (the caller has seen a policy hash),
`LockForDecision` (row lock, status, hash), `CheckAuthority` (the role, on another connection,
and separation of duties), `ReadEvidence`, and `CommitDecision` (evaluate, sign, insert
approval and receipt, set the status, commit).

In `GateClients` the calls of the page and of the command line are the gate's own `BeginX`
actions with the arguments the client has at that moment; `Serve` lets the gate go on with a
request, and if that ends it, the client learns that it succeeded, that it failed, or nothing,
whatever the truth is. `getCandidate` is one action per statement. In `Server` every action of a part
leaves the others' variables alone, except those that tie them together: a call is admitted by
`Configuration`, counted by `RateLimiter` and dispatched to `ConnectionPool` in one step,
since no `await` lies between its limiter and its first query; and a crash of the process empties
both its buckets and its pool.

**Abstractions.** Hashes are injective, so a policy hash is the policy. `created_at` is the
start of a transaction, kept as the set of candidates created before. `gate_plans` is written
once with its candidate and is a field of its row. Payloads are reduced to whether the scan is
clean, which the server recomputes. Titles, reasons and listings are left out.
A signature is the pair of its key and its payload.
An environment variable has the values that one of its readers tells apart, and the settings that
only `publicReleaseConfig` looks at are one set of those that are wrong. The window of the
limiter passes in ticks. Two transactions of `migrate.mjs` that apply one file collide on what it creates or on
the primary key of `_migrations`, so a file is one step that succeeds or fails. Below
`Server` a request on the embedded database is one step.
`tenantForUser` may fall back on any membership, not only the oldest. An invitation's
address is the user who has it. Token scopes and `last_used_at` are left out. Private mode
has one fixed tenant and is left out of `Workspace`. The creation of the
PGlite object and of the pool is taken as done. Fields named `held`, `been`, `overtaken`,
`ownersMoved`, `tokenWasLive`, `verifierWasActive` and `userWasMember`, the variables `recent`
and `schema`, and `saw` of a form are history: actions write them and only properties read them.

`auto` is resolved by the command line and by the page, at every submission, from the capabilities
of that moment. So what a pack demands beyond the rest is not kept when authority grows: an
agent with `network.outbound` that gains `shell.execute` goes from "networked" to
"code-execution", and HF-INJ-001 is no longer asked of it. `docs/POLICY_PACKS.md` calls `auto`
a recommendation that can never remove the server's obligations, and that is what
`BarNeverFalls` says.

Definitions named as *faults* (such as `NoRowLock`, `KeepLater`, `OfAnyVerifier`) are not used
by any specification. Each is a plausible mistake in the definition after it; put in its
place, it makes the property it is listed with fail.

## 3. The runs

| Run | Question | Bounds, and why they suffice |
|---|---|---|
| `policy` | Do authority and overlays keep every demand but a pack's own, and those too while the pack stays; do baseline and diff only explain? | Every pack, chosen or left to `auto`, two data classes, three baselines, up to three capabilities: a requirement is overridden by at most one other layer, so pairs of layers with a shared id all occur. All three are also proved without the bound. |
| `gate_decision` | Is a decision atomic, complete, final and authorized while evidence, role changes and verifier changes race it? | One candidate (candidates share nothing but the baseline), two requests (each race is between a decision and one other request), low, high and critical risk, five items of evidence that fail each check, two rows beyond the server's own. |
| `gate_clients` | Is what clients see, submit, sign and verify what the gate has, although answers are lost and overtaken and the key is rotated? | A browser and a command line, one call each, the latter with an artifact to scan or only its hash; two candidates, so that one may be shown while the other is selected; two submissions that share some authority, in both orders; one row of evidence beside the server's own, which blocks its candidate; one load in flight, since the reload after a form already puts another candidate on the page than the one selected meanwhile; two keys. |
| `gate_clients_subject` | Is the candidate that is decided the one on the page? No (finding). | Two loads in flight, two submissions of one policy. |
| `gate_binding` | Is evidence bound to its requirement? No (finding). | One request at a time. |
| `workspace` | Does every change of the membership rest on a mandate, an invitation or an operator (`ImplementsMembership`); is nobody resolved to what is not theirs; is the last owner lost, and a preference stale, in a race only? | Two users, two workspaces, one invitation, two requests, and both scripts for verified users, the recovery of a workspace that has an owner included (`Scripts`, `Verified`): a removal, an acceptance or an invitation in one slot races in the other with everything that reads or changes what it does, another acceptance included. |
| `workspace_last_owner` | Is the last owner safe? No (finding). | Two owners, two requests. |
| `credentials` | Does anything invalid admit a request? | Two verifiers, two tokens, two requests, and a member who comes and goes. |
| `credentials_disabling` | Does disabling revoke all bound tokens? No (finding). | One verifier, one token. |
| `server` | Does a process come up, on a complete schema and, but for the readiness check, only with a complete configuration, let nobody in whom its environment does not admit, bound its users, leak nothing, never wait for one who does not go on (`HoldersGoOn`), and end every request? | Two requests of five kinds on two clients and one candidate: both clients can be held, one by a decision that wants the other. Two migrating processes and two files, one crash: a file applied by the other, both, or before the crash. Limit and window of two; the sweep at every increment (`MaxBuckets` 0). Sixty environments: every combination of channel, public release, node and disabled authentication without a database, one fault of each kind with one, and a controlled beta and a public release that are right. |
| `embedded_database` | Is the schema always complete, does nothing collide or leak, does no wait lead back to itself (`WaitsAreWellFounded`), and does everything end in private mode? | Three requests of any kind, two files: a pass that runs, one behind it in the chain, one that awaits a promise; a file applied and one pending. |
| `embedded_saas` | Does everything end in saas mode too? No (finding). | Two requests, one file. |

Bounds are named: `MaxEvidence`, `MaxCapabilities` and `MaxCrashes` in guards; `RoleChanges`,
`Operations`, `Scripts`, `AssignedRoles`, `InvitedRoles`, `PackOverlays`, `Submissions`, `Items` and
`Environments` as sets of inputs. Ids are drawn once, so the id sets bound how much is created.
The history `recent` of the limiter is bounded by what it admits.
Request slots, candidates, users, verifiers, tokens and invitations are symmetric where the cfg
says so; runs with a liveness property use no symmetry. Deadlock is checked for the gate, its
clients and the server. Policy, workspaces and credentials stop when their bounded inputs are used
up, and the embedded database really does stop in saas mode.

**Fairness.** `Server!FairSpec`: weak fairness for handing out a client, for the timer of a wait
(`connectionTimeoutMillis`), for a request on the embedded database, for the model's providers
(each has a timer) and for the start of the container (`restart: unless-stopped`, and the
`&&` of its command), not for the script that an operator runs, which nobody starts again after it
has failed, and which may stop between two files for good; strong fairness for the steps of a request on the pool,
because Postgres queues the waiters for a row, so one whose row is free again and again is
served. Without the timer `RequestsEnd` fails: that is its mutant. `EmbeddedDatabase!FairSpec`:
weak fairness for serving the session and for the steps
of a request; Node resumes every continuation. Clients never have to start a request, and
nothing has to fail or to crash. The gate, its clients, workspaces and credentials are checked for
safety alone: how their requests end is the business of the database modules.

## 4. Findings

1. **Evidence is not bound to its requirement** (`gate_binding`). `decideRelease` evaluates
   each requirement against all rows of the candidate. The row that the server inserts for
   HF-ART-001 alone meets HF-CAP-001 and HF-REG-001, so a low-risk candidate is released with
   nothing else submitted, which `docs/TRUST_PROTOCOL.md` excludes.
2. **Two owners can remove each other** (`workspace_last_owner`). The owners are counted
   without a lock while only the target's row is held. `SECURITY.md` and a unit test of the
   guard say that the last owner cannot go. `LastOwnerLostOnlyInARace` says that a race is the
   only way.
3. **Disabling a verifier may leave tokens unrevoked** (`credentials_disabling`): one bound at
   the same time, or after a failure between the two statements, which a retry does not
   repair. `StaleCredentialsAreRefused` says that such tokens still admit nobody, since
   authentication joins with active verifiers.
4. **On the embedded database, a decision in saas mode waits for itself** (`embedded_saas`).
   `requireReleaseAuthority` queries through `getSql` while the decision's transaction has the
   only session, which no timeout frees, and every later query waits behind it. On Postgres the
   same call is saved by the pool's second client or its timeout (`server`). In
   private mode the query is not made, and everything ends.
5. **The page signs for a candidate that is not on it** (`gate_clients_subject`). `decideRelease`
   is called for the selected candidate with the policy hash of the one that is shown, and
   `useAsync` shows whichever answer came last. `PRODUCT_CONSTITUTION.md` wants the exact subject
   approved. `ApprovedPolicyWasShown` says how far the hash protects: the reviewer has at
   least seen the policy of what is decided.

## 5. What is proved

For all values of the constants that satisfy the modules' assumptions
(`GateAssumption`, `NoneAssumption`, `OverlayAssumption`; `KeyAssumption`, `ClientAssumption`;
`WorkspaceAssumption`; `CredentialsAssumption`; `LimiterAssumption`, `MigratorAssumption`,
`PoolAssumption`, `ServerAssumption`; `EmbeddedAssumption`). They say which sets the inputs come from
and that `None`, which marks what is absent, is nothing that can be present:

- **`PolicyProofs`**: a model's opinion never meets a requirement; a failure is final; no
  release without evidence; what a compiled policy demands is the union of the demands of
  its layers (`CompiledDemands`). The last needs that ids determine requirements throughout the
  catalogue (`CatalogueIdsUnique`), since otherwise an override could weaken.
- **`PolicyRevisionProofs`**: `BaselineOnlyExplains` and `BarNeverFalls`, from
  `CompiledDemands`, the monotonicity of the inferred risk and that the pack follows the
  capabilities under `auto` (`PackFollows`), and `DiffIsExplained`, from the ids of the
  layers, for any number of capabilities.
- **`ReleaseGateProofs`**: `TypeOK`, all the safety properties of `gate_decision` and
  `NewAuthorityIsListed`; that the tables agree in every state (`TablesAgree`, which no run repeats); and
  that `ReleaseGate` implements `ReleaseAuthority`.
- **`GateClientsProofs`**: every behaviour of the clients is one of `ReleaseGate`
  (`ClientsUseTheGate`), so the gate implements `ReleaseAuthority` with its clients too, and all the
  properties of `gate_clients`, for any candidates, submissions and loads in flight.
- **`WorkspaceProofs`**: `TypeOK` and all the safety and action properties of `workspace`; that
  `Workspace` implements `Membership`; that nobody joins but by an invitation that the same step
  spends (`JoinsSpendAnInvitation`); and that with one request at a time, and any scripts beside it,
  every workspace keeps an owner (`WithoutOverlapOwnersStay`), so that finding 2 is a race and
  nothing else.
- **`CredentialsProofs`**: `TypeOK` and all the safety and action properties of `credentials`; and that
  finding 3 has two causes only, a request that ends between disabling and revoking and a token
  inserted for a verifier that was disabled since it was looked up (`CarefulDisablingRevokes`). Both
  are for any number of users, workspaces, invitations, verifiers, tokens and concurrent requests.
- **`EmbeddedDatabaseProofs`**: `TypeOK` and the safety properties of `embedded_database`, for any
  number of requests and files.
- **`ServerProofs`**: `TypeOK` and all the safety properties of `server`, for any
  environments, users, requests, candidates, processes and files, any size of the pool, and any limit,
  window and bound of the map; and that a request that waits for its model holds no client
  (`ModelHoldsNothing`).

The argument for the gate. `TypeInv` is the type invariant with what it needs of the requests
(a running request has a user and a candidate). It is not enough: that a receipt covers its
evidence depends on who holds which lock at which statement. `GateInv` strengthens it. For
each request (`RequestInv`): between its lock and its commit it holds the row and the row is
frozen (`HoldsLock`); what a decision has read is still the whole ledger (`ReadIsCurrent`); the
approver passed the checks (`IsAuthorized`, `RoleWasHeld`); the id it creates is nobody else's
(`CreatesAlone`); its policy came from the compiler (`CompiledSoundly`). For each candidate
(`CandidateInv`): it is absent, open or closed, with all tables agreeing. `GateStep` proves it
inductive, with one step per action; `FinishKeeps`, `MoveKeeps` and `OtherRequest` carry what
an action does not touch. `EvidenceInv` adds what each recorded row was graded by, and
`BaselineInv` that the authority ever trusted only grows. Action properties use `Writers`: the
only actions that write a candidate's tables, and that it was undecided then. For the
refinement, `FreezeStep`, `AttachStep` and `DecideStep` map the three commits to the three
abstract actions, and `Moves` shows every other action to be a stutter.

The argument for the clients. What they do to the gate are steps of `ReleaseGate`, so `TypeInv`
and `GateInv` hold beside them. `ClientInv` says of each load what it has read so far and why it
stays true (`LoadInv`): a status other than frozen is final, and so is all that is read after it,
while evidence that was read before a decision is a prefix of what the receipt covers. That is the
order of `getCandidate`'s statements; with it reversed `PageIsConsistent` fails, which is its mutant. The
page inherits it when the load arrives (`PageInv`). `FormInv` ties the browser's request to the form
that waits for it, so that a decision carries the policy that was on the page, and needs `ReloadInv`
(one reload at most, and only while the form waits for it). `SubmitInv` does the same for the
command line, and `KeyInv` says that each receipt is signed by one of the two keys.

The argument for the workspaces. What a request has locked is still there and nobody else's
(`LockedOK`). What it has read without a lock need not be: there `ReadOK` and `CountOK` say that it
is so, *or* that the request's history has recorded otherwise, which is all that
`LastOwnerLostOnlyInARace` and the like promise. A request that does not move keeps both if its
history follows the membership (`Follows`) and the step leaves its rows alone (`Spares`).

With one request at a time (`WithoutOverlapOwnersStay`) nothing that it has counted moves under it, and
an account that is about to be deleted is nobody's only owner (`Unmoved`): an operator's scripts, which
may run beside it, only add owners.

For the refinement, a request holds a mandate from the statement that reads its user's role
(`AuthorizeChange`, `AuthorizeInvite`) to its commit, and an invitation is open until it is accepted:
whether it has expired decides only whether it is accepted. There is one lemma for each kind of
step: the steps on the way are stutters (`BeginIsQuiet`, `WayIsQuiet`, `ExpireIsQuiet`), because a
mandate depends on nothing that they change; the others are one step of `Membership` each
(`AuthorizeGives`, `IssueOffers`, `ChangeIsMandated`, `AcceptAdmits` and so on). That an acceptance finds its
invitation unspent, and a removal its member still there, is `LockedOK`. `Membership` does not promise an
owner, since a mandate outlives the ownership of whoever gave it.

The argument for the credentials. There are no locks and no transactions, but the tables only
move one way (`Forward`): a deleted account stays deleted, a disabled verifier disabled, a token
keeps its user, its verifier and its revocation. So a check that passes now would have passed when the request
began (`PresentsOK`), in whichever order the statements of several requests come. That is also as
much as can be said: the token and its verifier are checked by one statement and the membership by
another, and a member may be let in meanwhile, so there need be no single instant at which all three
were valid, and no specification in which admission is one atomic step is implemented.

The argument for the embedded database. Where a request is says what it holds: a place in the
chain of passes exactly while it is in a pass (`PassOK`), the session or a place before it only at
a statement (`SessionOK`), the connection only as a query of Better Auth (`DriverOK`). The exception
is the decision that asks for a role with the session in its hands; `PromiseOK` says that when it is
the one to settle `getSql`'s promise, it never comes to its ledger. It is finding 4, seen from the
invariant.

That everything ends is liveness, and only checked. What makes it true is proved:
`WaitsAreWellFounded` says that in private mode whoever cannot go on is about to be given the
session, or waits for a request that is nearer to it (`WaitRank`): one that awaits `getSql`'s
promise for the one that settles it, one in the chain of passes or before the driver's connection
for the first there, and that one for the session, whose holder goes on. So no wait leads back to
itself. `GoesOn(r)` says of private mode just when `Proceed(r)` is enabled; the equivalence was
checked on the run's instance, since a proof has no ENABLED. In saas mode the property would be
false, by finding 4.

The argument for the server. `ServerInv` has a part for each module that `Server` composes and
one that ties them together; `LimiterMoves`, `MigratorStep`, `PoolStep` and `RequestMoves` say what
a step of the server is to each.

- `LimiterInv`: the bound itself is not inductive, since it says nothing about when a
  window began. `BucketInv` does: while a bucket lives, it has counted every request since its
  window began, and what came before that was less than the limit; once it has expired, at
  every age less than the limit was admitted.
- `MigratorInv`: the schema, the ledger and what each process has read of it are the first so many
  files, a process possibly fewer than the ledger. With the names distinct, the first
  pending file of a process is the next one of the schema or one that the ledger has, and a
  process that has nothing pending has them all.
- `PoolInv` and `QueueInv`: where a request is tells which clients and locks it may hold and whether it waits,
  and nobody waits twice. The second half is needed so that one who leaves the queue is gone
  from it. `HoldingKept` and the five lemmas on the queue carry it; an action is an instance of
  them. `HoldersGoOn` follows: whoever holds what another
  waits for goes on, or its own wait for a client expires, or it waits for the row of one of
  whom that holds. So chains of waits are short, and where one closes, the timer breaks it.
- `AdmissionInv`: what was checked when a request came in, and that the process is up, holds as
  long as the request runs, because the environment is fixed and a process that goes down takes
  its requests with it (`DownMeansIdle`); a process that is up has a complete schema, or no
  database. `DevUserIsLocal` and `ServesWhenReady` then follow by cases on the environment
  alone: `IsDevelopment` and `IsComplete` say of its variables what a deployment needs, and not
  by the code's own list of issues.

Only model-checked: `RequestsEnd`, `DeploymentComesUp` and `PrivateRequestsEnd`, since liveness
under fairness and ENABLED are outside the proof system. Every invariant and every action property
of the passing runs is proved; on the small instances TLC checked them first.

## 6. Not modelled

`PROJECT.json` has the list with reasons. In short:

- `createRepository`, `createDiscovery` and `getOverview`: single inserts and listings that no
  other operation's outcome rests on. That two of the first may choose the same slug is
  caught by a unique index.
- The sandbox client and its executor: nothing calls `runSandbox` at this commit, so a model would
  have to invent its callers.
- The pages other than Gates and `/verify`, which list what they are given; the validation of
  arguments by routes and server functions; formatting, logging and e-mail.
- Sessions, passwords and verification, which are Better Auth's, and the driver's transactions and
  `destroy`, which nothing calls in this configuration.
- The scan of an artifact by the command line, and the text of what a model is asked.
- Generated code.

## 7. Plan

Done, in this order: compiler; gate and abstract authority; their proofs; workspaces;
credentials; pool; embedded database; receipts and their verification; the gate's clients;
configuration, rate limiter, migrator and the server that composes them with the pool; the
proofs of the server, the credentials, the workspaces, the embedded database and the clients;
the abstract membership and the proof that workspaces implement it; what makes waits end.

Left:

1. That the row locks of the gate and of the workspaces form no circle, as `HoldersGoOn` and
   `WaitsAreWellFounded` say of the pool and the embedded database.
2. The sandbox, once something calls it.

Not planned: that a request of `EmbeddedDatabase` is the one step that `Server` makes of it. That
step has no effect on the rest of the server, so a refinement would say no more than that a
request begins and ends; what matters of it, that it ends, is `PrivateRequestsEnd`.
