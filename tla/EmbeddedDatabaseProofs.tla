----------------------- MODULE EmbeddedDatabaseProofs -----------------------
(***************************************************************************)
(* Proofs, for any number of requests and of migration files, of the       *)
(* safety properties of module EmbeddedDatabase.                           *)
(*                                                                         *)
(* Where a request is says what it holds: a place in the chain exactly     *)
(* while it is in a pass, the session or a place before it only at a       *)
(* statement, the driver's connection only as a query of Better Auth       *)
(* (RequestOK).  A decision is the exception, since it asks for a role     *)
(* with the session in its hands: whoever settles getSql's promise for it  *)
(* never comes to its ledger.  Only the first of the chain changes what is *)
(* recorded, so what it found pending stays so; a request that does not    *)
(* move keeps its place if a step spares it (Carried).                     *)
(***************************************************************************)
EXTENDS EmbeddedDatabase, SequenceTheorems, TLAPS

AtSession == { "ledger", "apply", "statement", "role" }
Served    == { "acquire", "connect", "statement", "ask role", "role" }

\* Its pass: who is in one is in the chain, who reads or writes is its first, and
\* what that has found pending is what is missing.
PassOK(r) ==
  /\ r \in ToSet(chain) <=> req[r].pc \in InPass
  /\ req[r].pc \in InPass \ {"pass"} => Head(chain) = r
  /\ req[r].pc \in { "migrate", "apply" } => req[r].todo = Files \ applied
  /\ req[r].pc \in Served => applied = Files

\* The session: a decision keeps it while it asks for the role.
SessionOK(r) ==
  /\ r \in ToSet(waiting) => req[r].pc \in AtSession
  /\ session = r =>
       \/ req[r].pc \in AtSession
       \/ req[r].kind = "decide" /\ req[r].pc \in { "pass", "await sql", "ask role" }
  /\ req[r].pc = "await sql" =>
       \/ req[r].kind = "query"
       \/ req[r].kind = "decide" /\ session = r

\* getSql's promise: its maker is in a pass, one that a decision never gets through.
PromiseOK(r) ==
  sqlPromise = r =>
    \/ req[r].kind = "query" /\ req[r].pc \in InPass
    \/ /\ req[r].kind = "decide"
       /\ session = r
       /\ \/ req[r].pc = "pass"
          \/ req[r].pc = "ledger" /\ r \in ToSet(waiting)

\* Better Auth's connection.
DriverOK(r) ==
  /\ connection = r => req[r].kind = "auth" /\ req[r].pc \in { "connect", "statement" }
  /\ r \in ToSet(queue) => req[r].kind = "auth" /\ req[r].pc = "acquire"

RequestOK(r) == PassOK(r) /\ SessionOK(r) /\ PromiseOK(r) /\ DriverOK(r)

\* Nobody is in the chain or in the driver's queue twice, and what has a database
\* has one that is complete.
SharedOK ==
  /\ IsInjective(chain)
  /\ IsInjective(queue)
  /\ sqlPromise = "ready" => applied = Files
  /\ client => applied = Files

\* The inductive invariant.
IInv == TypeOK /\ SharedOK /\ \A r \in Requests : RequestOK(r)

\* A step leaves alone what request r relies on.
Spares(r) ==
  /\ r \in ToSet(chain') <=> r \in ToSet(chain)
  /\ req[r].pc \in InPass \ {"pass"} => Head(chain') = r
  /\ req[r].pc \in { "migrate", "apply" } => applied' = applied
  /\ applied = Files => applied' = Files
  /\ r \in ToSet(waiting') => r \in ToSet(waiting)
  /\ session = r => session' = r /\ (r \in ToSet(waiting) => r \in ToSet(waiting'))
  /\ session' = r => session = r \/ r \in ToSet(waiting)
  /\ sqlPromise' = r => sqlPromise = r
  /\ connection' = r => connection = r
  /\ r \in ToSet(queue') => r \in ToSet(queue)

-----------------------------------------------------------------------------
(* Sequences.                                                              *)

LEMMA Appended ==
  ASSUME NEW S, NEW s \in Seq(S), NEW x \in S
  PROVE  /\ Append(s, x) \in Seq(S)
         /\ ToSet(Append(s, x)) = ToSet(s) \cup {x}
         /\ s # << >> => Head(Append(s, x)) = Head(s)
         /\ s = << >> => Head(Append(s, x)) = x
         /\ IsInjective(s) /\ x \notin ToSet(s) => IsInjective(Append(s, x))
<1> DEFINE n == Len(s)  a == Append(s, x)
<1>1. /\ n \in Nat /\ DOMAIN s = 1 .. n
      /\ a \in Seq(S) /\ Len(a) = n + 1
      /\ \A i \in 1 .. n : a[i] = s[i]
      /\ a[n + 1] = x
  BY LenProperties, AppendProperties
<1>2. DOMAIN a = 1 .. n + 1
  BY <1>1, LenProperties
<1> HIDE DEF a, n
<1>3. ToSet(a) = ToSet(s) \cup {x}
  <2>1. \A i \in 1 .. n + 1 : i \in 1 .. n \/ i = n + 1
    BY <1>1
  <2>2. 1 .. n \subseteq 1 .. n + 1 /\ n + 1 \in 1 .. n + 1
    BY <1>1
  <2> QED
    BY <1>1, <1>2, <2>1, <2>2 DEF ToSet
<1>4. IsInjective(s) /\ x \notin ToSet(s) => IsInjective(a)
  <2>1. \A i \in 1 .. n + 1 : i \in 1 .. n \/ i = n + 1
    BY <1>1
  <2> QED
    BY <1>1, <1>2, <2>1 DEF ToSet, IsInjective
<1>5. Head(a) = IF s = << >> THEN x ELSE Head(s)
  BY HeadTailAppend DEF a
<1> QED
  BY <1>1, <1>3, <1>4, <1>5 DEF a

LEMMA Rest ==
  ASSUME NEW S, NEW s \in Seq(S), s # << >>
  PROVE  /\ Head(s) \in S
         /\ Head(s) \in ToSet(s)
         /\ Tail(s) \in Seq(S)
         /\ ToSet(s) = ToSet(Tail(s)) \cup { Head(s) }
         /\ IsInjective(s) => IsInjective(Tail(s)) /\ Head(s) \notin ToSet(Tail(s))
<1> DEFINE n == Len(s)  t == Tail(s)
<1>1. /\ n \in Nat \ {0} /\ DOMAIN s = 1 .. n
      /\ t \in Seq(S) /\ Len(t) = n - 1
      /\ \A i \in 1 .. n - 1 : t[i] = s[i + 1]
      /\ Head(s) \in S /\ Head(s) = s[1]
  BY LenProperties, HeadTailProperties, EmptySeq
<1>2. DOMAIN t = 1 .. n - 1
  BY <1>1, LenProperties
<1> HIDE DEF t, n
<1>3. ToSet(s) = ToSet(t) \cup { Head(s) }
  <2>1. \A i \in 1 .. n : i = 1 \/ (i - 1 \in 1 .. n - 1 /\ (i - 1) + 1 = i)
    BY <1>1
  <2>2. \A i \in 1 .. n - 1 : i + 1 \in 1 .. n
    BY <1>1
  <2>3. 1 \in 1 .. n
    BY <1>1
  <2>4. ToSet(t) \cup { Head(s) } \subseteq ToSet(s)
    BY <1>1, <1>2, <2>2, <2>3 DEF ToSet
  <2>5. \A i \in 1 .. n - 1 : t[i] \in ToSet(t)
    BY <1>2 DEF ToSet
  <2>6. \A i \in 1 .. n : s[i] \in ToSet(t) \cup { Head(s) }
    BY <1>1, <2>1, <2>5
  <2>7. ToSet(s) = { s[i] : i \in 1 .. n }
    BY <1>1 DEF ToSet
  <2>8. ToSet(s) \subseteq ToSet(t) \cup { Head(s) }
    BY <2>6, <2>7
  <2> QED
    BY <2>4, <2>8
<1>4. IsInjective(s) => IsInjective(t) /\ Head(s) \notin ToSet(t)
  <2>1. SUFFICES ASSUME IsInjective(s) PROVE IsInjective(t) /\ Head(s) \notin ToSet(t)
    OBVIOUS
  <2>2. \A i, j \in 1 .. n : s[i] = s[j] => i = j
    BY <1>1, <2>1 DEF IsInjective
  <2>3. \A i \in 1 .. n - 1 : i + 1 \in 1 .. n /\ i + 1 # 1
    BY <1>1
  <2>4. \A i, j \in 1 .. n - 1 : t[i] = t[j] => i = j
    BY <1>1, <2>2, <2>3
  <2>5. 1 \in 1 .. n
    BY <1>1
  <2>6. \A i \in 1 .. n - 1 : t[i] # Head(s)
    BY <1>1, <2>2, <2>3, <2>5
  <2> QED
    BY <1>2, <2>4, <2>6 DEF IsInjective, ToSet
<1>5. Head(s) \in ToSet(s)
  BY <1>3
<1> QED
  BY <1>1, <1>3, <1>4, <1>5 DEF t

LEMMA NobodyIn == ToSet(<< >>) = {} /\ IsInjective(<< >>)
BY DEF ToSet, IsInjective

\* Nobody leaves the chain but its first, and who is in it has a first before it.
LEMMA ChainFacts ==
  ASSUME IInv, NEW r \in Requests, req[r].pc \in InPass
  PROVE  /\ chain # << >>
         /\ r \in ToSet(chain)
         /\ req[r].pc # "pass" => Head(chain) = r
BY NobodyIn DEF IInv, RequestOK, PassOK

-----------------------------------------------------------------------------
(* Requests that move and requests that do not.                            *)

Points == InPass \cup { "idle", "await sql", "acquire", "connect", "statement", "ask role", "role" }

LEMMA IdleFacts == Idle \in Request /\ Idle.pc = "idle"
BY DEF Idle, Request

\* A request that has ended holds nothing.
LEMMA IdleHoldsNothing ==
  ASSUME IInv, NEW r \in Requests, req[r].pc = "idle"
  PROVE  /\ session # r /\ connection # r /\ sqlPromise # r
         /\ r \notin ToSet(waiting) /\ r \notin ToSet(chain) /\ r \notin ToSet(queue)
BY DEF IInv, RequestOK, PassOK, SessionOK, PromiseOK, DriverOK, InPass, AtSession

LEMMA GotoFacts ==
  ASSUME IInv, NEW r \in Requests, NEW pc \in Points, Goto(r, pc)
  PROVE  /\ req' = [ req EXCEPT ![r] = req'[r] ]
         /\ req'[r] \in Request
         /\ req'[r].pc = pc /\ req'[r].kind = req[r].kind /\ req'[r].todo = req[r].todo
<1> DEFINE q == [ req[r] EXCEPT !.pc = pc ]
<1>1. req[r] \in Request /\ req \in [ Requests -> Request ]
  BY DEF IInv, TypeOK
<1>2. q \in Request /\ q.pc = pc /\ q.kind = req[r].kind /\ q.todo = req[r].todo
  BY <1>1 DEF Request, Points
<1>3. req' = [ req EXCEPT ![r] = q ] /\ req'[r] = q
  BY <1>1 DEF Goto
<1> HIDE DEF q
<1> QED
  BY <1>2, <1>3

\* A request queues for the session.
LEMMA Asking ==
  ASSUME IInv, NEW r \in Requests, NEW pc \in Points, Ask(r, pc)
  PROVE  /\ req' = [ req EXCEPT ![r] = req'[r] ]
         /\ req'[r] \in Request
         /\ req'[r].pc = pc /\ req'[r].kind = req[r].kind /\ req'[r].todo = req[r].todo
         /\ waiting' = Append(waiting, r) /\ waiting' \in Seq(Requests)
         /\ ToSet(waiting') = ToSet(waiting) \cup {r}
         /\ session' = session
<1>1. waiting \in Seq(Requests)
  BY DEF IInv, TypeOK
<1>2. Append(waiting, r) \in Seq(Requests) /\ ToSet(Append(waiting, r)) = ToSet(waiting) \cup {r}
  BY <1>1, Appended
<1> QED
  BY <1>2, GotoFacts DEF Ask

LEMMA FinishFacts ==
  ASSUME IInv, NEW r \in Requests, Finish(r)
  PROVE  req' = [ req EXCEPT ![r] = req'[r] ] /\ req'[r] = Idle
BY DEF IInv, TypeOK, Finish

\* A request that does not move keeps its place.
LEMMA Carried ==
  ASSUME IInv, NEW r \in Requests, req'[r] = req[r], Spares(r)
  PROVE  RequestOK(r)'
<1>1. RequestOK(r)
  BY DEF IInv
<1>2. PassOK(r)'
  BY <1>1 DEF RequestOK, PassOK, Spares
<1>3. SessionOK(r)'
  BY <1>1 DEF RequestOK, SessionOK, Spares
<1>4. PromiseOK(r)'
  BY <1>1 DEF RequestOK, PromiseOK, Spares
<1>5. DriverOK(r)'
  BY <1>1 DEF RequestOK, DriverOK, Spares
<1> QED
  BY <1>2, <1>3, <1>4, <1>5 DEF RequestOK

\* A step that only request r takes.
LEMMA OneMoves ==
  ASSUME IInv, NEW r \in Requests,
         req' = [ req EXCEPT ![r] = req'[r] ],
         TypeOK', SharedOK', RequestOK(r)',
         \A s \in Requests \ {r} : Spares(s)
  PROVE  IInv'
<1>1. ASSUME NEW s \in Requests, s # r PROVE RequestOK(s)'
  <2>1. req'[s] = req[s]
    BY <1>1 DEF IInv, TypeOK
  <2> QED
    BY <1>1, <2>1, Carried
<1> QED
  BY <1>1 DEF IInv

\* What others do in most steps: they ask for a pass or for the session, or give it back.
LEMMA SparedBy ==
  ASSUME IInv, NEW s \in Requests,
         chain' = chain \/ \E x \in Requests \ {s} : chain' = Append(chain, x),
         waiting' = waiting \/ \E x \in Requests \ {s} : waiting' = Append(waiting, x),
         session' = session \/ (session # s /\ session' = None),
         applied' = applied,
         sqlPromise' = s => sqlPromise = s,
         connection' = s => connection = s,
         s \in ToSet(queue') => s \in ToSet(queue)
  PROVE  Spares(s)
<1>1. /\ s \in ToSet(chain') <=> s \in ToSet(chain)
      /\ s \in ToSet(chain) => Head(chain') = Head(chain)
  <2>1. CASE chain' = chain
    BY <2>1
  <2>2. ASSUME NEW x \in Requests \ {s}, chain' = Append(chain, x)
        PROVE  /\ s \in ToSet(chain') <=> s \in ToSet(chain)
               /\ s \in ToSet(chain) => Head(chain') = Head(chain)
    <3>1. chain \in Seq(Requests) /\ x \in Requests /\ x # s
      BY DEF IInv, TypeOK
    <3>2. /\ ToSet(Append(chain, x)) = ToSet(chain) \cup {x}
          /\ chain # << >> => Head(Append(chain, x)) = Head(chain)
      BY <3>1, Appended
    <3>3. s \in ToSet(chain) => chain # << >>
      BY NobodyIn
    <3> QED
      BY <2>2, <3>1, <3>2, <3>3
  <2> QED
    BY <2>1, <2>2
<1>2. s \in ToSet(waiting') <=> s \in ToSet(waiting)
  <2>1. ASSUME NEW x \in Requests \ {s}, waiting' = Append(waiting, x)
        PROVE  s \in ToSet(waiting') <=> s \in ToSet(waiting)
    <3>1. waiting \in Seq(Requests) /\ x \in Requests /\ x # s
      BY DEF IInv, TypeOK
    <3>2. ToSet(Append(waiting, x)) = ToSet(waiting) \cup {x}
      BY <3>1, Appended
    <3> QED
      BY <2>1, <3>1, <3>2
  <2> QED
    BY <2>1
<1>3. req[s].pc \in InPass \ {"pass"} => s \in ToSet(chain) /\ Head(chain) = s
  BY DEF IInv, RequestOK, PassOK
<1>4. None # s
  BY EmbeddedAssumption
<1> QED
  BY <1>1, <1>2, <1>3, <1>4 DEF Spares

\* The session and the driver while request r has the session.
LEMMA Giving ==
  ASSUME IInv, NEW r \in Requests, session = r, GiveBack
  PROVE  /\ session' \in Requests \cup {None}
         /\ waiting' = waiting
         /\ \A s \in Requests : session' # s
         /\ \A s \in Requests \ {r} : session # s
BY EmbeddedAssumption DEF GiveBack

-----------------------------------------------------------------------------
(* The invariant, action by action.                                        *)

LEMMA InitHolds == Init => IInv
<1> SUFFICES ASSUME Init PROVE IInv
  OBVIOUS
<1>1. TypeOK
  <2>1. applied = 1 .. 0 /\ 0 \in 0 .. MigrationCount
    BY EmbeddedAssumption DEF Init
  <2> QED
    BY <2>1, IdleFacts, EmptySeq DEF Init, TypeOK
<1>2. SharedOK
  BY EmbeddedAssumption, NobodyIn DEF Init, SharedOK
<1>3. ASSUME NEW r \in Requests PROVE RequestOK(r)
  <2>1. req[r].pc = "idle" /\ session # r /\ sqlPromise # r /\ connection # r
    BY EmbeddedAssumption, IdleFacts DEF Init
  <2> QED
    BY <2>1, NobodyIn DEF Init, RequestOK, PassOK, SessionOK, PromiseOK, DriverOK, InPass, Served
<1> QED
  BY <1>1, <1>2, <1>3 DEF IInv

LEMMA ServeKeeps == ASSUME IInv, Serve PROVE IInv'
<1>1. /\ session' \in Requests /\ session' \in ToSet(waiting)
      /\ waiting' \in Seq(Requests)
      /\ ToSet(waiting') \subseteq ToSet(waiting)
  BY Rest DEF IInv, TypeOK, Serve
<1>2. TypeOK' /\ SharedOK'
  BY <1>1 DEF IInv, TypeOK, SharedOK, Serve, driver
<1>3. ASSUME NEW s \in Requests PROVE RequestOK(s)'
  <2>1. req[s].pc \in InPass \ {"pass"} => Head(chain) = s
    BY DEF IInv, RequestOK, PassOK
  <2>2. session # s
    BY EmbeddedAssumption DEF Serve
  <2>3. Spares(s)
    BY <1>1, <2>1, <2>2 DEF Spares, Serve, driver
  <2> QED
    BY <2>3, Carried DEF Serve
<1> QED
  BY <1>2, <1>3 DEF IInv

LEMMA BeginPassKeeps == ASSUME IInv, NEW r \in Requests, BeginPass(r) PROVE IInv'
<1>1. /\ req' = [ req EXCEPT ![r] = req'[r] ]
      /\ req'[r] \in Request
      /\ req'[r].pc = "ledger" /\ req'[r].kind = req[r].kind
      /\ waiting' = Append(waiting, r) /\ waiting' \in Seq(Requests)
      /\ ToSet(waiting') = ToSet(waiting) \cup {r}
      /\ session' = session
  <2>1. "ledger" \in Points
    BY DEF Points, InPass
  <2> QED
    BY <2>1, Asking DEF BeginPass
<1>2. TypeOK' /\ SharedOK'
  BY <1>1 DEF IInv, TypeOK, SharedOK, BeginPass, driver
<1>3. RequestOK(r)'
  BY <1>1 DEF IInv, RequestOK, PassOK, SessionOK, PromiseOK, DriverOK,
     BeginPass, MyTurn, At, driver, InPass, Served, AtSession
<1>4. \A s \in Requests \ {r} : Spares(s)
  BY <1>1, SparedBy DEF BeginPass, driver
<1> QED
  BY <1>1, <1>2, <1>3, <1>4, OneMoves

LEMMA ReadLedgerKeeps == ASSUME IInv, NEW r \in Requests, ReadLedger(r) PROVE IInv'
<1> DEFINE q == [ req[r] EXCEPT !.pc = "migrate", !.todo = Files \ applied ]
<1>1. req[r] \in Request /\ req \in [ Requests -> Request ]
  BY DEF IInv, TypeOK
<1>2. q \in Request /\ q.pc = "migrate" /\ q.kind = req[r].kind /\ q.todo = Files \ applied
  BY <1>1 DEF Request, InPass
<1>3. req' = [ req EXCEPT ![r] = q ] /\ req'[r] = q
  BY <1>1 DEF ReadLedger, pendingMigrations
<1> HIDE DEF q
<1>4. /\ req[r].pc = "ledger" /\ session = r /\ r \notin ToSet(waiting)
      /\ GiveBack
      /\ UNCHANGED << mode, chain, applied, sqlPromise, client, connection, queue >>
  BY DEF ReadLedger, Has, At, driver
<1>5. /\ session' \in Requests \cup {None} /\ waiting' = waiting /\ session' # r
      /\ \A s \in Requests \ {r} : session # s /\ session' = None
  BY <1>4, Giving DEF GiveBack
<1>6. TypeOK' /\ SharedOK'
  BY <1>1, <1>2, <1>3, <1>4, <1>5 DEF IInv, TypeOK, SharedOK
<1>7. RequestOK(r)'
  BY <1>2, <1>3, <1>4, <1>5 DEF IInv, RequestOK, PassOK, SessionOK, PromiseOK, DriverOK,
     InPass, Served, AtSession
<1>8. \A s \in Requests \ {r} : Spares(s)
  BY <1>4, <1>5, SparedBy
<1> QED
  BY <1>3, <1>6, <1>7, <1>8, OneMoves

LEMMA OpenMigrationKeeps == ASSUME IInv, NEW r \in Requests, OpenMigration(r) PROVE IInv'
<1>1. /\ req' = [ req EXCEPT ![r] = req'[r] ]
      /\ req'[r] \in Request
      /\ req'[r].pc = "apply" /\ req'[r].kind = req[r].kind /\ req'[r].todo = req[r].todo
      /\ waiting' = Append(waiting, r) /\ waiting' \in Seq(Requests)
      /\ ToSet(waiting') = ToSet(waiting) \cup {r}
      /\ session' = session
  <2>1. "apply" \in Points
    BY DEF Points, InPass
  <2> QED
    BY <2>1, Asking DEF OpenMigration
<1>2. TypeOK' /\ SharedOK'
  BY <1>1 DEF IInv, TypeOK, SharedOK, OpenMigration, driver
<1>3. RequestOK(r)'
  BY <1>1 DEF IInv, RequestOK, PassOK, SessionOK, PromiseOK, DriverOK,
     OpenMigration, At, driver, InPass, Served, AtSession
<1>4. \A s \in Requests \ {r} : Spares(s)
  BY <1>1, SparedBy DEF OpenMigration, driver
<1> QED
  BY <1>1, <1>2, <1>3, <1>4, OneMoves

\* The first of the pending files is the next one.
LEMMA NextFile ==
  ASSUME NEW n \in 0 .. MigrationCount, NEW todo, todo = Files \ (1 .. n),
         NEW f \in FirstOf(todo)
  PROVE  /\ f = n + 1
         /\ n + 1 \in 0 .. MigrationCount
         /\ (1 .. n) \cup {f} = 1 .. n + 1
<1>1. n \in Nat /\ MigrationCount \in Nat /\ f \in 1 .. MigrationCount /\ ~ (f \in 1 .. n)
  BY EmbeddedAssumption DEF FirstOf, Files
<1>2. n < f /\ n + 1 <= MigrationCount
  BY <1>1
<1>3. n + 1 \in todo
  BY <1>1, <1>2 DEF Files
<1>4. f <= n + 1
  BY <1>3 DEF FirstOf
<1>5. f = n + 1
  BY <1>1, <1>2, <1>4
<1> QED
  BY <1>1, <1>2, <1>5

LEMMA ApplyMigrationKeeps == ASSUME IInv, NEW r \in Requests, ApplyMigration(r) PROVE IInv'
<1>1. PICK f \in FirstOf(req[r].todo) \ applied :
        /\ applied' = applied \cup {f}
        /\ req' = [ req EXCEPT ![r].pc = "migrate", ![r].todo = @ \ {f} ]
  BY DEF ApplyMigration
<1> DEFINE q == [ req[r] EXCEPT !.pc = "migrate", !.todo = @ \ {f} ]
<1>2. /\ req[r] \in Request /\ req \in [ Requests -> Request ]
      /\ req[r].pc = "apply" /\ session = r /\ r \notin ToSet(waiting)
      /\ GiveBack
      /\ UNCHANGED << mode, chain, sqlPromise, client, connection, queue >>
  BY DEF IInv, TypeOK, ApplyMigration, Has, At, driver
<1>3. q \in Request /\ q.pc = "migrate" /\ q.kind = req[r].kind /\ q.todo = req[r].todo \ {f}
  BY <1>2 DEF Request, InPass
<1>4. req' = [ req EXCEPT ![r] = q ] /\ req'[r] = q
  BY <1>1, <1>2
<1> HIDE DEF q
<1>5. Head(chain) = r /\ req[r].todo = Files \ applied
  BY <1>2 DEF IInv, RequestOK, PassOK, InPass
<1>6. applied' # Files => applied # Files
  BY <1>1, <1>5 DEF FirstOf
<1>7. /\ session' \in Requests \cup {None} /\ waiting' = waiting /\ session' # r
      /\ \A s \in Requests \ {r} : session # s /\ session' # s
  BY <1>2, Giving
<1>8. \E n \in 0 .. MigrationCount : applied' = 1 .. n
  <2>1. PICK n \in 0 .. MigrationCount : applied = 1 .. n
    BY DEF IInv, TypeOK
  <2>2. n + 1 \in 0 .. MigrationCount /\ applied' = 1 .. n + 1
    BY <1>1, <1>5, <2>1, NextFile
  <2> QED
    BY <2>2
<1>9. TypeOK' /\ SharedOK'
  BY <1>2, <1>3, <1>4, <1>6, <1>7, <1>8 DEF IInv, TypeOK, SharedOK
<1>10. RequestOK(r)'
  <2>1. req'[r].todo = Files \ applied'
    BY <1>1, <1>3, <1>4, <1>5
  <2> QED
    BY <1>2, <1>3, <1>4, <1>5, <1>7, <2>1 DEF IInv, RequestOK, PassOK, SessionOK, PromiseOK, DriverOK,
       InPass, Served, AtSession
<1>11. ASSUME NEW s \in Requests \ {r} PROVE Spares(s)
  <2>1. req[s].pc \notin InPass \ {"pass"}
    BY <1>5 DEF IInv, RequestOK, PassOK
  <2>2. req[s].pc \notin { "migrate", "apply" }
    BY <2>1 DEF InPass
  <2> QED
    BY <1>2, <1>6, <1>7, <2>1, <2>2 DEF Spares
<1> QED
  BY <1>4, <1>9, <1>10, <1>11, OneMoves

\* What is left of the chain when its first leaves it.
LEMMA Leaving ==
  ASSUME IInv, NEW r \in Requests, req[r].pc \in InPass, req[r].pc # "pass", LeaveChain(r)
  PROVE  /\ chain' \in Seq(Requests) /\ IsInjective(chain')
         /\ \A s \in Requests : s \in ToSet(chain') <=> s \in ToSet(chain) /\ s # r
         /\ \A s \in Requests \ {r} : req[s].pc \notin InPass \ {"pass"}
<1>1. chain # << >> /\ Head(chain) = r
  BY ChainFacts
<1>2. chain \in Seq(Requests) /\ IsInjective(chain)
  BY DEF IInv, TypeOK, SharedOK
<1>3. \A s \in Requests \ {r} : req[s].pc \notin InPass \ {"pass"}
  BY <1>1 DEF IInv, RequestOK, PassOK
<1> QED
  BY <1>1, <1>2, <1>3, Rest DEF LeaveChain

\* The chain's first leaves it, and nothing else that the others rely on changes.
LEMMA SparedByLeaving ==
  ASSUME IInv, NEW r \in Requests, req[r].pc \in InPass, req[r].pc # "pass", LeaveChain(r),
         NEW s \in Requests \ {r},
         waiting' = waiting,
         session' = session \/ (session # s /\ session' = None),
         applied' = applied,
         sqlPromise' = s => sqlPromise = s,
         connection' = s => connection = s,
         s \in ToSet(queue') => s \in ToSet(queue)
  PROVE  Spares(s)
<1>1. req[s].pc \notin InPass \ {"pass"} /\ (s \in ToSet(chain') <=> s \in ToSet(chain))
  BY Leaving
<1>2. req[s].pc \notin { "migrate", "apply" }
  BY <1>1 DEF InPass
<1>3. None # s
  BY EmbeddedAssumption
<1> QED
  BY <1>1, <1>2, <1>3 DEF Spares

\* A pass that has ended leaves a complete schema.
LEMMA NothingPending ==
  ASSUME IInv, NEW r \in Requests, req[r].pc = "migrate", req[r].todo = {}
  PROVE  applied = Files
<1>1. Files \ applied = {}
  BY DEF IInv, RequestOK, PassOK
<1>2. PICK n \in 0 .. MigrationCount : applied = 1 .. n
  BY DEF IInv, TypeOK
<1>3. 1 .. n \subseteq 1 .. MigrationCount
  BY EmbeddedAssumption
<1> QED
  BY <1>1, <1>2, <1>3 DEF Files

\* The result of getSql, for its maker and for those who await its promise.
LEMMA FinishQuery ==
  ASSUME IInv, NEW r \in Requests, FinishPass(r),
         req[r].kind = "query", sqlPromise' = "ready",
         req' = [ s \in Requests |->
                    IF s = r \/ At(s, "await sql") THEN [ req[s] EXCEPT !.pc = WithSql(req[s].kind) ]
                    ELSE req[s] ],
         UNCHANGED driver
  PROVE  IInv'
<1>1. /\ req[r].pc = "migrate" /\ LeaveChain(r) /\ applied = Files
      /\ UNCHANGED << mode, session, waiting, applied, client, connection, queue >>
  BY NothingPending DEF FinishPass, At, database, driver
<1>2. /\ chain' \in Seq(Requests) /\ IsInjective(chain')
      /\ \A s \in Requests : s \in ToSet(chain') <=> s \in ToSet(chain) /\ s # r
  BY <1>1, Leaving DEF InPass
<1>3. ASSUME NEW s \in Requests
      PROVE  /\ req[s] \in Request
             /\ [ req[s] EXCEPT !.pc = WithSql(req[s].kind) ] \in Request
             /\ s = r \/ At(s, "await sql") =>
                  /\ req'[s].kind = req[s].kind
                  /\ req'[s].pc = WithSql(req[s].kind)
             /\ s # r /\ ~ At(s, "await sql") => req'[s] = req[s]
  <2>1. req[s] \in Request
    BY DEF IInv, TypeOK
  <2>2. WithSql(req[s].kind) \in Points
    BY DEF WithSql, Points
  <2> QED
    BY <2>1, <2>2 DEF Request, Points
<1>4. req' \in [ Requests -> Request ]
  BY <1>3
<1>5. TypeOK' /\ SharedOK'
  BY <1>1, <1>2, <1>4 DEF IInv, TypeOK, SharedOK
<1>6. ASSUME NEW s \in Requests PROVE RequestOK(s)'
  <2>1. sqlPromise' # s
    BY EmbeddedAssumption
  <2>2. CASE s = r
    <3>1. req'[s].pc = "connect" /\ req'[s].kind = "query"
      BY <1>3, <2>2 DEF WithSql
    <3> QED
      BY <1>1, <1>2, <2>1, <2>2, <3>1 DEF IInv, RequestOK, PassOK, SessionOK, PromiseOK, DriverOK,
         InPass, Served, AtSession
  <2>3. CASE s # r /\ At(s, "await sql")
    <3>1. /\ req[s].pc = "await sql" /\ req'[s].kind = req[s].kind
          /\ req'[s].pc \in { "ask role", "connect" }
          /\ req[s].kind = "decide" => req'[s].pc = "ask role"
      BY <1>3, <2>3 DEF WithSql, At
    <3>2. /\ s \notin ToSet(chain) /\ s \notin ToSet(waiting) /\ s \notin ToSet(queue)
          /\ connection # s
          /\ session = s => req[s].kind = "decide"
      BY <3>1 DEF IInv, RequestOK, PassOK, SessionOK, DriverOK, InPass, AtSession
    <3>3. req'[s].pc \notin InPass /\ req'[s].pc # "await sql"
      BY <3>1 DEF InPass
    <3>4. PassOK(s)'
      BY <1>1, <1>2, <3>2, <3>3 DEF PassOK, InPass
    <3>5. SessionOK(s)' /\ PromiseOK(s)' /\ DriverOK(s)'
      BY <1>1, <2>1, <3>1, <3>2, <3>3 DEF SessionOK, PromiseOK, DriverOK
    <3> QED
      BY <3>4, <3>5 DEF RequestOK
  <2>4. CASE s # r /\ ~ At(s, "await sql")
    <3>1. Spares(s)
      BY <1>1, <2>1, <2>4, SparedByLeaving DEF InPass
    <3> QED
      BY <1>3, <2>4, <3>1, Carried
  <2> QED
    BY <2>2, <2>3, <2>4
<1> QED
  BY <1>5, <1>6 DEF IInv

\* A query of Better Auth gets the driver's connection or waits for it.
LEMMA AcquireFacts ==
  ASSUME IInv, NEW r \in Requests, req[r].pc # "acquire", Acquire(r)
  PROVE  /\ req' = [ req EXCEPT ![r] = req'[r] ]
         /\ req'[r] \in Request
         /\ req'[r].pc \in { "connect", "acquire" } /\ req'[r].kind = req[r].kind
         /\ connection' \in Requests \cup {None}
         /\ connection' = r => connection = r \/ req'[r].pc = "connect"
         /\ \A s \in Requests \ {r} : connection' = s => connection = s
         /\ queue' \in Seq(Requests) /\ IsInjective(queue')
         /\ r \in ToSet(queue') <=> req'[r].pc = "acquire"
         /\ \A s \in Requests \ {r} : s \in ToSet(queue') <=> s \in ToSet(queue)
<1>1. r \notin ToSet(queue) /\ queue \in Seq(Requests) /\ IsInjective(queue)
  BY DEF IInv, TypeOK, SharedOK, RequestOK, DriverOK
<1>2. connection \in Requests \cup {None}
  BY DEF IInv, TypeOK
<1>3. CASE connection = None /\ connection' = r /\ Goto(r, "connect") /\ UNCHANGED queue
  <2>1. /\ req' = [ req EXCEPT ![r] = req'[r] ] /\ req'[r] \in Request
        /\ req'[r].pc = "connect" /\ req'[r].kind = req[r].kind
    BY <1>3, GotoFacts DEF Points
  <2> QED
    BY <1>1, <1>3, <2>1
<1>4. CASE connection # None /\ queue' = Append(queue, r) /\ Goto(r, "acquire") /\ UNCHANGED connection
  <2>1. /\ req' = [ req EXCEPT ![r] = req'[r] ] /\ req'[r] \in Request
        /\ req'[r].pc = "acquire" /\ req'[r].kind = req[r].kind
    BY <1>4, GotoFacts DEF Points
  <2>2. /\ queue' \in Seq(Requests) /\ IsInjective(queue')
        /\ ToSet(queue') = ToSet(queue) \cup {r}
    BY <1>1, <1>4, Appended
  <2> QED
    BY <1>2, <1>4, <2>1, <2>2
<1> QED
  BY <1>3, <1>4 DEF Acquire

LEMMA FinishPassKeeps == ASSUME IInv, NEW r \in Requests, FinishPass(r) PROVE IInv'
<1>1. /\ req[r].pc = "migrate" /\ LeaveChain(r) /\ applied = Files
      /\ UNCHANGED << mode, session, waiting, applied >>
  BY NothingPending DEF FinishPass, At, database
<1>2. /\ chain' \in Seq(Requests) /\ IsInjective(chain')
      /\ r \notin ToSet(chain')
  BY <1>1, Leaving DEF InPass
<1>3. /\ session # r /\ connection # r /\ r \notin ToSet(waiting) /\ r \notin ToSet(queue)
      /\ sqlPromise = r => req[r].kind = "query"
  BY <1>1 DEF IInv, RequestOK, SessionOK, PromiseOK, DriverOK, AtSession
<1>4. CASE req[r].kind = "query"
  BY <1>4, FinishQuery DEF FinishPass, Resolve
<1>5. CASE /\ req[r].kind = "ready" /\ Finish(r)
           /\ UNCHANGED << sqlPromise, driver >>
  <2>1. req' = [ req EXCEPT ![r] = req'[r] ] /\ req'[r] \in Request /\ req'[r].pc = "idle"
    BY <1>5, FinishFacts, IdleFacts
  <2>2. TypeOK' /\ SharedOK'
    BY <1>1, <1>2, <1>5, <2>1 DEF IInv, TypeOK, SharedOK, driver
  <2>3. RequestOK(r)'
    BY <1>1, <1>2, <1>3, <1>5, <2>1 DEF RequestOK, PassOK, SessionOK, PromiseOK, DriverOK,
       InPass, Served, driver
  <2>4. \A s \in Requests \ {r} : Spares(s)
    BY <1>1, <1>5, SparedByLeaving DEF InPass, driver
  <2> QED
    BY <2>1, <2>2, <2>3, <2>4, OneMoves
<1>6. CASE /\ req[r].kind \in { "transaction", "decide" } /\ Goto(r, "connect")
           /\ UNCHANGED << sqlPromise, driver >>
  <2>1. /\ req' = [ req EXCEPT ![r] = req'[r] ] /\ req'[r] \in Request
        /\ req'[r].pc = "connect" /\ req'[r].kind = req[r].kind
    BY <1>6, GotoFacts DEF Points
  <2>2. TypeOK' /\ SharedOK'
    BY <1>1, <1>2, <1>6, <2>1 DEF IInv, TypeOK, SharedOK, driver
  <2>3. RequestOK(r)'
    BY <1>1, <1>2, <1>3, <1>6, <2>1 DEF RequestOK, PassOK, SessionOK, PromiseOK, DriverOK,
       InPass, Served, driver
  <2>4. \A s \in Requests \ {r} : Spares(s)
    BY <1>1, <1>6, SparedByLeaving DEF InPass, driver
  <2> QED
    BY <2>1, <2>2, <2>3, <2>4, OneMoves
<1>7. CASE req[r].kind = "auth" /\ client' = TRUE /\ Acquire(r) /\ UNCHANGED sqlPromise
  <2>1. /\ req' = [ req EXCEPT ![r] = req'[r] ]
        /\ req'[r] \in Request
        /\ req'[r].pc \in { "connect", "acquire" } /\ req'[r].kind = "auth"
        /\ connection' \in Requests \cup {None}
        /\ connection' = r => req'[r].pc = "connect"
        /\ \A s \in Requests \ {r} : connection' = s => connection = s
        /\ queue' \in Seq(Requests) /\ IsInjective(queue')
        /\ r \in ToSet(queue') <=> req'[r].pc = "acquire"
        /\ \A s \in Requests \ {r} : s \in ToSet(queue') <=> s \in ToSet(queue)
    BY <1>1, <1>3, <1>7, AcquireFacts
  <2>2. TypeOK' /\ SharedOK'
    BY <1>1, <1>2, <1>7, <2>1 DEF IInv, TypeOK, SharedOK
  <2>3. RequestOK(r)'
    BY <1>1, <1>2, <1>3, <1>7, <2>1 DEF RequestOK, PassOK, SessionOK, PromiseOK, DriverOK,
       InPass, Served
  <2>4. \A s \in Requests \ {r} : Spares(s)
    BY <1>1, <1>7, <2>1, SparedByLeaving DEF InPass
  <2> QED
    BY <2>1, <2>2, <2>3, <2>4, OneMoves
<1> QED
  BY <1>4, <1>5, <1>6, <1>7 DEF FinishPass, Resolve

LEMMA FailPassKeeps == ASSUME IInv, NEW r \in Requests, FailPass(r) PROVE IInv'
<1>1. /\ req[r].pc \in { "ledger", "apply" } /\ session = r /\ r \notin ToSet(waiting)
      /\ LeaveChain(r) /\ Reject(r) /\ GiveBack
      /\ UNCHANGED << mode, applied, client, connection, queue >>
  BY DEF FailPass, Has, At, Reject, driver
<1>2. /\ chain' \in Seq(Requests) /\ IsInjective(chain')
      /\ \A s \in Requests : s \in ToSet(chain') <=> s \in ToSet(chain) /\ s # r
  BY <1>1, Leaving DEF InPass
<1>3. /\ session' \in Requests \cup {None} /\ waiting' = waiting
      /\ session' = None /\ \A s \in Requests : session' # s
      /\ \A s \in Requests \ {r} : session # s
  BY <1>1, Giving DEF GiveBack
<1>4. /\ sqlPromise' \in Requests \cup { None, "ready" } /\ sqlPromise' # r
      /\ \A s \in Requests : sqlPromise' = s => sqlPromise = s
      /\ sqlPromise' = "ready" => sqlPromise = "ready"
  BY <1>1, EmbeddedAssumption DEF Reject, IInv, TypeOK
<1>5. ASSUME NEW s \in Requests
      PROVE  /\ req'[s] \in Request
             /\ s = r \/ (sqlPromise = r /\ At(s, "await sql")) => req'[s] = Idle
             /\ s # r /\ ~ (sqlPromise = r /\ At(s, "await sql")) => req'[s] = req[s]
  BY <1>1, IdleFacts DEF Reject, IInv, TypeOK
<1>6. req' \in [ Requests -> Request ]
  BY <1>1, <1>5 DEF Reject
<1>7. TypeOK' /\ SharedOK'
  BY <1>1, <1>2, <1>3, <1>4, <1>6 DEF IInv, TypeOK, SharedOK
<1>8. ASSUME NEW s \in Requests PROVE RequestOK(s)'
  <2>1. CASE s = r \/ (sqlPromise = r /\ At(s, "await sql"))
    <3>1. req'[s].pc = "idle"
      BY <1>5, <2>1, IdleFacts
    <3>2. s = r \/ (s # r /\ req[s].pc = "await sql")
      BY <2>1 DEF At
    <3>3. s \notin ToSet(chain') /\ s \notin ToSet(waiting') /\ s \notin ToSet(queue')
      BY <1>1, <1>2, <1>3, <3>2 DEF IInv, RequestOK, PassOK, SessionOK, DriverOK, InPass, AtSession
    <3>4. connection' # s
      BY <1>1, <3>2 DEF IInv, RequestOK, DriverOK
    <3>5. sqlPromise' # s
      BY <1>4, <3>2 DEF IInv, RequestOK, PromiseOK, InPass
    <3> QED
      BY <1>3, <3>1, <3>3, <3>4, <3>5 DEF RequestOK, PassOK, SessionOK, PromiseOK, DriverOK, InPass, Served
  <2>2. CASE s # r /\ ~ (sqlPromise = r /\ At(s, "await sql"))
    <3>1. Spares(s)
      BY <1>1, <1>3, <1>4, <2>2, SparedByLeaving DEF InPass
    <3> QED
      BY <1>5, <2>2, <3>1, Carried
  <2> QED
    BY <2>1, <2>2
<1> QED
  BY <1>7, <1>8 DEF IInv

\* A request that is in no pass asks for one.
LEMMA Joining ==
  ASSUME IInv, NEW r \in Requests, req[r].pc \notin InPass,
         NEW kind \in Kinds, JoinChain(r, kind)
  PROVE  /\ req' = [ req EXCEPT ![r] = req'[r] ]
         /\ req'[r] \in Request
         /\ req'[r].pc = "pass" /\ req'[r].kind = kind
         /\ chain' = Append(chain, r) /\ chain' \in Seq(Requests) /\ IsInjective(chain')
         /\ r \in ToSet(chain')
<1>1. r \notin ToSet(chain) /\ chain \in Seq(Requests) /\ IsInjective(chain)
  BY DEF IInv, TypeOK, SharedOK, RequestOK, PassOK
<1>2. /\ req \in [ Requests -> Request ]
      /\ [ pc |-> "pass", kind |-> kind, todo |-> {} ] \in Request
  BY DEF IInv, TypeOK, Request, InPass
<1> QED
  BY <1>1, <1>2, Appended DEF JoinChain

\* Getting getSql's result, its promise, or the place of its first caller.
LEMMA GettingSql ==
  ASSUME IInv, NEW r \in Requests, NEW kind \in { "query", "decide" }, GetSql(r, kind),
         req[r].pc \notin InPass,
         r \notin ToSet(waiting), r \notin ToSet(queue), connection # r, sqlPromise # r,
         IF kind = "query" THEN session # r ELSE session = r,
         UNCHANGED << mode, session, waiting, applied, client, connection, queue >>
  PROVE  IInv'
<1>1. CASE sqlPromise = None /\ sqlPromise' = r /\ JoinChain(r, kind)
  <2>1. kind \in Kinds
    BY DEF Kinds
  <2>2. /\ req' = [ req EXCEPT ![r] = req'[r] ]
        /\ req'[r] \in Request
        /\ req'[r].pc = "pass" /\ req'[r].kind = kind
        /\ chain' = Append(chain, r) /\ chain' \in Seq(Requests) /\ IsInjective(chain')
        /\ r \in ToSet(chain')
    BY <1>1, <2>1, Joining
  <2>3. TypeOK' /\ SharedOK'
    BY <1>1, <2>2, EmbeddedAssumption DEF IInv, TypeOK, SharedOK
  <2>4. RequestOK(r)'
    BY <1>1, <2>2 DEF RequestOK, PassOK, SessionOK, PromiseOK, DriverOK, InPass, Served
  <2>5. \A s \in Requests \ {r} : Spares(s)
    BY <1>1, <2>2, SparedBy
  <2> QED
    BY <2>2, <2>3, <2>4, <2>5, OneMoves
<1>2. CASE /\ sqlPromise # None
           /\ req' = [ req EXCEPT ![r] =
                [ pc   |-> IF sqlPromise = "ready" THEN WithSql(kind) ELSE "await sql",
                  kind |-> kind, todo |-> {} ] ]
           /\ UNCHANGED << sqlPromise, chain >>
  <2> DEFINE q == [ pc   |-> IF sqlPromise = "ready" THEN WithSql(kind) ELSE "await sql",
                    kind |-> kind, todo |-> {} ]
  <2>1. /\ q.kind = kind
        /\ q.pc \in { "ask role", "connect", "await sql" }
        /\ q.pc # "await sql" => sqlPromise = "ready"
        /\ q.pc = "ask role" => kind = "decide"
        /\ q.pc = "connect" => kind = "query"
    BY DEF WithSql
  <2>2. q \in Request
    BY DEF Request, Kinds, WithSql
  <2>3. req' = [ req EXCEPT ![r] = q ] /\ req'[r] = q
    BY <1>2 DEF IInv, TypeOK
  <2> HIDE DEF q
  <2>4. TypeOK' /\ SharedOK'
    BY <1>2, <2>2, <2>3 DEF IInv, TypeOK, SharedOK
  <2>5. req'[r].pc \notin InPass /\ r \notin ToSet(chain)
    BY <2>1, <2>3 DEF InPass, IInv, RequestOK, PassOK
  <2>6. PassOK(r)'
    BY <1>2, <2>1, <2>3, <2>5 DEF IInv, SharedOK, PassOK, InPass, Served
  <2>7. SessionOK(r)' /\ PromiseOK(r)' /\ DriverOK(r)'
    BY <1>2, <2>1, <2>3 DEF SessionOK, PromiseOK, DriverOK
  <2>8. \A s \in Requests \ {r} : Spares(s)
    BY <1>2, SparedBy
  <2> QED
    BY <2>3, <2>4, <2>6, <2>7, <2>8, OneMoves DEF RequestOK
<1> QED
  BY <1>1, <1>2 DEF GetSql

LEMMA BeginQueryKeeps == ASSUME IInv, NEW r \in Requests, BeginQuery(r) PROVE IInv'
<1>1. req[r].pc = "idle"
  BY IdleFacts DEF BeginQuery
<1>2. /\ session # r /\ connection # r /\ sqlPromise # r
      /\ r \notin ToSet(waiting) /\ r \notin ToSet(queue)
  BY <1>1, IdleHoldsNothing
<1>3. req[r].pc \notin InPass
  BY <1>1 DEF InPass
<1> QED
  BY <1>2, <1>3, GettingSql DEF BeginQuery, database, driver

\* A request begins with a pass of its own.
LEMMA BeginOwnPass ==
  ASSUME IInv, NEW r \in Requests, req[r] = Idle, NEW kind \in Kinds, JoinChain(r, kind),
         UNCHANGED << mode, session, waiting, applied, sqlPromise, client, connection, queue >>
  PROVE  IInv'
<1>1. /\ session # r /\ connection # r /\ sqlPromise # r
      /\ r \notin ToSet(waiting) /\ r \notin ToSet(queue)
  BY IdleFacts, IdleHoldsNothing
<1>2. /\ req' = [ req EXCEPT ![r] = req'[r] ]
      /\ req'[r] \in Request
      /\ req'[r].pc = "pass" /\ req'[r].kind = kind
      /\ chain' = Append(chain, r) /\ chain' \in Seq(Requests) /\ IsInjective(chain')
      /\ r \in ToSet(chain')
  BY IdleFacts, Joining DEF InPass
<1>3. TypeOK' /\ SharedOK'
  BY <1>2 DEF IInv, TypeOK, SharedOK
<1>4. RequestOK(r)'
  BY <1>1, <1>2 DEF RequestOK, PassOK, SessionOK, PromiseOK, DriverOK, InPass, Served
<1>5. \A s \in Requests \ {r} : Spares(s)
  BY <1>2, SparedBy
<1> QED
  BY <1>2, <1>3, <1>4, <1>5, OneMoves

LEMMA BeginWithPassKeeps == ASSUME IInv, NEW r \in Requests, BeginWithPass(r) PROVE IInv'
BY BeginOwnPass DEF BeginWithPass, database, driver, Kinds

LEMMA BeginAuthKeeps == ASSUME IInv, NEW r \in Requests, BeginAuth(r) PROVE IInv'
BY BeginOwnPass DEF BeginAuth, database, driver, Kinds

LEMMA BeginAuthWithClientKeeps ==
  ASSUME IInv, NEW r \in Requests, BeginAuthWithClient(r)
  PROVE  IInv'
<1>1. /\ req[r].pc = "idle" /\ client
      /\ UNCHANGED << mode, session, waiting, chain, applied, sqlPromise, client >>
  BY IdleFacts DEF BeginAuthWithClient, database
<1>2. /\ session # r /\ connection # r /\ sqlPromise # r
      /\ r \notin ToSet(waiting) /\ r \notin ToSet(queue) /\ r \notin ToSet(chain)
  BY <1>1, IdleHoldsNothing
<1>3. applied = Files /\ queue \in Seq(Requests) /\ IsInjective(queue)
  BY <1>1 DEF IInv, TypeOK, SharedOK
<1>4. /\ req \in [ Requests -> Request ]
      /\ [ pc |-> "connect", kind |-> "auth", todo |-> {} ] \in Request
      /\ [ pc |-> "acquire", kind |-> "auth", todo |-> {} ] \in Request
  BY DEF IInv, TypeOK, Request, Kinds
<1>5. CASE /\ connection = None /\ connection' = r
           /\ req' = [ req EXCEPT ![r] = [ pc |-> "connect", kind |-> "auth", todo |-> {} ] ]
           /\ UNCHANGED queue
  <2>1. /\ req' = [ req EXCEPT ![r] = req'[r] ] /\ req'[r] \in Request
        /\ req'[r].pc = "connect" /\ req'[r].kind = "auth"
    BY <1>4, <1>5
  <2>2. TypeOK' /\ SharedOK'
    BY <1>1, <1>5, <2>1 DEF IInv, TypeOK, SharedOK
  <2>3. RequestOK(r)'
    BY <1>1, <1>2, <1>3, <1>5, <2>1 DEF RequestOK, PassOK, SessionOK, PromiseOK, DriverOK, InPass, Served
  <2>4. \A s \in Requests \ {r} : Spares(s)
    BY <1>1, <1>5, SparedBy
  <2> QED
    BY <2>1, <2>2, <2>3, <2>4, OneMoves
<1>6. CASE /\ connection # None /\ queue' = Append(queue, r)
           /\ req' = [ req EXCEPT ![r] = [ pc |-> "acquire", kind |-> "auth", todo |-> {} ] ]
           /\ UNCHANGED connection
  <2>1. /\ req' = [ req EXCEPT ![r] = req'[r] ] /\ req'[r] \in Request
        /\ req'[r].pc = "acquire" /\ req'[r].kind = "auth"
    BY <1>4, <1>6
  <2>2. queue' \in Seq(Requests) /\ IsInjective(queue') /\ ToSet(queue') = ToSet(queue) \cup {r}
    BY <1>2, <1>3, <1>6, Appended
  <2>3. TypeOK' /\ SharedOK'
    BY <1>1, <1>6, <2>1, <2>2 DEF IInv, TypeOK, SharedOK
  <2>4. RequestOK(r)'
    BY <1>1, <1>2, <1>3, <1>6, <2>1, <2>2 DEF RequestOK, PassOK, SessionOK, PromiseOK, DriverOK, InPass, Served
  <2>5. \A s \in Requests \ {r} : Spares(s)
    BY <1>1, <1>6, <2>2, SparedBy
  <2> QED
    BY <2>1, <2>3, <2>4, <2>5, OneMoves
<1> QED
  BY <1>5, <1>6 DEF BeginAuthWithClient

LEMMA ConnectKeeps == ASSUME IInv, NEW r \in Requests, Connect(r) PROVE IInv'
<1>1. /\ req' = [ req EXCEPT ![r] = req'[r] ]
      /\ req'[r] \in Request
      /\ req'[r].pc = "statement" /\ req'[r].kind = req[r].kind
      /\ waiting' = Append(waiting, r) /\ waiting' \in Seq(Requests)
      /\ ToSet(waiting') = ToSet(waiting) \cup {r}
      /\ session' = session
  <2>1. "statement" \in Points
    BY DEF Points, InPass
  <2> QED
    BY <2>1, Asking DEF Connect
<1>2. TypeOK' /\ SharedOK'
  BY <1>1 DEF IInv, TypeOK, SharedOK, Connect, driver
<1>3. RequestOK(r)'
  BY <1>1 DEF IInv, RequestOK, PassOK, SessionOK, PromiseOK, DriverOK,
     Connect, At, driver, InPass, Served, AtSession
<1>4. \A s \in Requests \ {r} : Spares(s)
  BY <1>1, SparedBy DEF Connect, driver
<1> QED
  BY <1>1, <1>2, <1>3, <1>4, OneMoves

LEMMA QueryRoleKeeps == ASSUME IInv, NEW r \in Requests, QueryRole(r) PROVE IInv'
<1>1. /\ req' = [ req EXCEPT ![r] = req'[r] ]
      /\ req'[r] \in Request
      /\ req'[r].pc = "role" /\ req'[r].kind = req[r].kind
      /\ waiting' = Append(waiting, r) /\ waiting' \in Seq(Requests)
      /\ ToSet(waiting') = ToSet(waiting) \cup {r}
      /\ session' = session
  <2>1. "role" \in Points
    BY DEF Points, InPass
  <2> QED
    BY <2>1, Asking DEF QueryRole
<1>2. TypeOK' /\ SharedOK'
  BY <1>1 DEF IInv, TypeOK, SharedOK, QueryRole, driver
<1>3. RequestOK(r)'
  BY <1>1 DEF IInv, RequestOK, PassOK, SessionOK, PromiseOK, DriverOK,
     QueryRole, At, driver, InPass, Served, AtSession
<1>4. \A s \in Requests \ {r} : Spares(s)
  BY <1>1, SparedBy DEF QueryRole, driver
<1> QED
  BY <1>1, <1>2, <1>3, <1>4, OneMoves

LEMMA AskForRoleKeeps == ASSUME IInv, NEW r \in Requests, AskForRole(r) PROVE IInv'
<1>1. /\ req[r].pc = "statement" /\ req[r].kind = "decide" /\ session = r /\ r \notin ToSet(waiting)
      /\ GetSql(r, "decide")
      /\ UNCHANGED << mode, session, waiting, applied, client, connection, queue >>
  BY DEF AskForRole, Has, At, database, driver
<1>2. req[r].pc \notin InPass
  BY <1>1 DEF InPass
<1>3. r \notin ToSet(queue) /\ connection # r /\ sqlPromise # r
  BY <1>1, <1>2 DEF IInv, RequestOK, PromiseOK, DriverOK
<1> QED
  BY <1>1, <1>2, <1>3, GettingSql

\* A request ends at its statement and keeps nothing of the driver.
LEMMA EndsAtStatement ==
  ASSUME IInv, NEW r \in Requests, Has(r, "statement"), req[r].kind # "auth",
         GiveBack, Finish(r),
         UNCHANGED << mode, chain, applied, sqlPromise, client, connection, queue >>
  PROVE  IInv'
<1>1. req[r].pc = "statement" /\ session = r /\ r \notin ToSet(waiting)
  BY DEF Has, At
<1>2. /\ session' \in Requests \cup {None} /\ waiting' = waiting /\ session' = None
      /\ \A s \in Requests : session' # s
      /\ \A s \in Requests \ {r} : session # s
  BY <1>1, Giving DEF GiveBack
<1>3. req' = [ req EXCEPT ![r] = req'[r] ] /\ req'[r] \in Request /\ req'[r].pc = "idle"
  BY FinishFacts, IdleFacts
<1>4. r \notin ToSet(chain) /\ r \notin ToSet(queue) /\ connection # r /\ sqlPromise # r
  BY <1>1 DEF IInv, RequestOK, PassOK, PromiseOK, DriverOK, InPass
<1>5. TypeOK' /\ SharedOK'
  BY <1>2, <1>3 DEF IInv, TypeOK, SharedOK
<1>6. RequestOK(r)'
  BY <1>1, <1>2, <1>3, <1>4 DEF RequestOK, PassOK, SessionOK, PromiseOK, DriverOK, InPass, Served
<1>7. \A s \in Requests \ {r} : Spares(s)
  BY <1>2, SparedBy
<1> QED
  BY <1>3, <1>5, <1>6, <1>7, OneMoves

LEMMA RefuseDecisionKeeps == ASSUME IInv, NEW r \in Requests, RefuseDecision(r) PROVE IInv'
BY EndsAtStatement DEF RefuseDecision, driver

\* A query of Better Auth ends: the connection goes to whoever waits longest.
LEMMA AuthEnds ==
  ASSUME IInv, NEW r \in Requests, Has(r, "statement"), req[r].kind = "auth",
         GiveBack, ReleaseConnection(r),
         UNCHANGED << mode, chain, applied, sqlPromise, client >>
  PROVE  IInv'
<1>1. req[r].pc = "statement" /\ session = r /\ r \notin ToSet(waiting)
  BY DEF Has, At
<1>2. /\ session' \in Requests \cup {None} /\ waiting' = waiting /\ session' = None
      /\ \A s \in Requests : session' # s
      /\ \A s \in Requests \ {r} : session # s
  BY <1>1, Giving DEF GiveBack
<1>3. r \notin ToSet(chain) /\ r \notin ToSet(queue) /\ sqlPromise # r
  BY <1>1 DEF IInv, RequestOK, PassOK, PromiseOK, DriverOK, InPass
<1>4. CASE queue = << >> /\ connection' = None /\ Finish(r) /\ UNCHANGED queue
  <2>1. req' = [ req EXCEPT ![r] = req'[r] ] /\ req'[r] \in Request /\ req'[r].pc = "idle"
    BY <1>4, FinishFacts, IdleFacts
  <2>2. \A s \in Requests : connection' # s
    BY <1>4, EmbeddedAssumption
  <2>3. TypeOK' /\ SharedOK'
    BY <1>2, <1>4, <2>1 DEF IInv, TypeOK, SharedOK
  <2>4. RequestOK(r)'
    BY <1>1, <1>2, <1>3, <1>4, <2>1, <2>2 DEF RequestOK, PassOK, SessionOK, PromiseOK, DriverOK, InPass, Served
  <2>5. \A s \in Requests \ {r} : Spares(s)
    BY <1>2, <1>4, <2>2, SparedBy
  <2> QED
    BY <2>1, <2>3, <2>4, <2>5, OneMoves
<1>5. CASE /\ queue # << >> /\ connection' = Head(queue) /\ queue' = Tail(queue)
           /\ req' = [ req EXCEPT ![r] = Idle, ![Head(queue)].pc = "connect" ]
  <2>0. PICK h \in Requests : h = Head(queue)
    BY <1>5, Rest DEF IInv, TypeOK
  <2> DEFINE q == [ req[h] EXCEPT !.pc = "connect" ]
  <2>1. /\ h \in ToSet(queue)
        /\ queue' \in Seq(Requests) /\ IsInjective(queue')
        /\ ToSet(queue') \subseteq ToSet(queue) /\ h \notin ToSet(queue')
    BY <1>5, <2>0, Rest DEF IInv, TypeOK, SharedOK
  <2>2. h # r /\ req[h].pc = "acquire" /\ req[h].kind = "auth" /\ req[h] \in Request
    BY <1>3, <2>1 DEF IInv, TypeOK, RequestOK, DriverOK
  <2>3. q \in Request /\ q.pc = "connect" /\ q.kind = "auth"
    BY <2>2 DEF Request
  <2>4. /\ req' \in [ Requests -> Request ]
        /\ req'[r] = Idle /\ req'[h] = q
        /\ \A s \in Requests \ { r, h } : req'[s] = req[s]
    BY <1>5, <2>0, <2>2, <2>3, IdleFacts DEF IInv, TypeOK
  <2> HIDE DEF q
  <2>5. connection' = h /\ connection' \in Requests \cup {None}
    BY <1>5, <2>0
  <2>6. TypeOK' /\ SharedOK'
    BY <1>2, <2>1, <2>4, <2>5 DEF IInv, TypeOK, SharedOK
  <2>7. RequestOK(r)'
    BY <1>1, <1>2, <1>3, <2>1, <2>2, <2>4, <2>5, IdleFacts
       DEF RequestOK, PassOK, SessionOK, PromiseOK, DriverOK, InPass, Served
  <2>8. RequestOK(h)'
    <3>1. PassOK(h) /\ SessionOK(h) /\ PromiseOK(h)
      BY <2>1 DEF IInv, RequestOK
    <3>2. h \notin ToSet(chain) /\ h \notin ToSet(waiting) /\ sqlPromise # h /\ applied = Files
      BY <2>2, <3>1 DEF PassOK, SessionOK, PromiseOK, InPass, AtSession, Served
    <3> QED
      BY <1>2, <2>1, <2>3, <2>4, <2>5, <3>2
         DEF RequestOK, PassOK, SessionOK, PromiseOK, DriverOK, InPass, Served
  <2>9. ASSUME NEW s \in Requests, s # r, s # h PROVE RequestOK(s)'
    <3>1. session # s /\ connection' # s /\ (s \in ToSet(queue') => s \in ToSet(queue))
      BY <1>2, <2>1, <2>5, <2>9
    <3>2. session' = session \/ (session # s /\ session' = None)
      BY <1>2, <3>1
    <3>3. Spares(s)
      BY <3>1, <3>2, <1>2, SparedBy
    <3> QED
      BY <2>4, <2>9, <3>3, Carried
  <2> QED
    BY <2>6, <2>7, <2>8, <2>9 DEF IInv
<1> QED
  BY <1>4, <1>5 DEF ReleaseConnection

LEMMA EndKeeps == ASSUME IInv, NEW r \in Requests, End(r) PROVE IInv'
<1>1. CASE req[r].kind = "auth"
  BY <1>1, AuthEnds DEF End
<1>2. CASE req[r].kind # "auth"
  BY <1>2, EndsAtStatement DEF End
<1> QED
  BY <1>1, <1>2

LEMMA StepKeeps == IInv /\ [Next]_vars => IInv'
<1> SUFFICES ASSUME IInv, [Next]_vars PROVE IInv'
  OBVIOUS
<1>1. CASE UNCHANGED vars
  BY <1>1 DEF IInv, vars, database, driver, TypeOK, SharedOK, RequestOK, PassOK, SessionOK,
     PromiseOK, DriverOK
<1>2. CASE Serve
  BY <1>2, ServeKeeps
<1>3. ASSUME NEW r \in Requests, Proceed(r) PROVE IInv'
  BY <1>3, BeginPassKeeps, ReadLedgerKeeps, OpenMigrationKeeps, ApplyMigrationKeeps,
     FinishPassKeeps, FailPassKeeps, ConnectKeeps, EndKeeps, AskForRoleKeeps, QueryRoleKeeps
     DEF Proceed
<1>4. ASSUME NEW r \in Requests,
             BeginQuery(r) \/ BeginWithPass(r) \/ BeginAuth(r) \/ BeginAuthWithClient(r)
      PROVE  IInv'
  BY <1>4, BeginQueryKeeps, BeginWithPassKeeps, BeginAuthKeeps, BeginAuthWithClientKeeps
<1>5. ASSUME NEW r \in Requests, RefuseDecision(r) PROVE IInv'
  BY <1>5, RefuseDecisionKeeps
<1> QED
  BY <1>1, <1>2, <1>3, <1>4, <1>5 DEF Next

-----------------------------------------------------------------------------
(* Waits.  Whoever is at the session has it or is in its queue, whoever     *)
(* awaits the promise has somebody who will settle it, and whoever asked    *)
(* for the driver's connection is in the queue of one who has it.  In       *)
(* private mode the session is never with one that waits for anything.      *)

WaitOK(r) ==
  /\ req[r].pc \in AtSession => session = r \/ r \in ToSet(waiting)
  /\ req[r].pc = "await sql" => sqlPromise \in Requests
  /\ req[r].pc = "acquire" => r \in ToSet(queue)
  /\ mode = "private" /\ session = r => req[r].pc \in AtSession /\ r \notin ToSet(waiting)

QueuesOK ==
  /\ IsInjective(waiting)
  /\ queue # << >> => connection \in Requests

\* The second inductive invariant, which holds beside the first.
WaitInv == QueuesOK /\ \A r \in Requests : WaitOK(r)

\* A request that does not move waits for what it has waited for.
LEMMA StillWaits ==
  ASSUME IInv, WaitInv, NEW r \in Requests, NEW s \in Requests \ {r},
         req'[s] = req[s], mode' = mode,
         waiting' = waiting \/ waiting' = Append(waiting, r),
         session' = session \/ (session = r /\ session' = None),
         req[s].pc = "await sql" => sqlPromise' \in Requests,
         s \in ToSet(queue) => s \in ToSet(queue')
  PROVE  WaitOK(s)'
<1>1. s \in ToSet(waiting') <=> s \in ToSet(waiting)
  <2>1. waiting \in Seq(Requests) /\ r \in Requests /\ s # r
    BY DEF IInv, TypeOK
  <2>2. ToSet(Append(waiting, r)) = ToSet(waiting) \cup {r}
    BY ONLY <2>1, Appended
  <2> QED
    BY <2>1, <2>2
<1>2. s # None
  BY EmbeddedAssumption
<1>3. WaitOK(s)
  BY DEF WaitInv
<1> QED
  BY <1>1, <1>2, <1>3 DEF WaitOK

\* A request queues for the session.
LEMMA AskWaits ==
  ASSUME IInv, WaitInv, NEW r \in Requests, NEW pc \in AtSession,
         req[r].pc \notin AtSession, Ask(r, pc),
         UNCHANGED << mode, sqlPromise, connection, queue >>
  PROVE  WaitInv'
<1>1. pc \in Points
  BY DEF AtSession, Points, InPass
<1>2. /\ req' = [ req EXCEPT ![r] = req'[r] ] /\ req'[r].pc = pc
      /\ waiting' = Append(waiting, r)
      /\ ToSet(waiting') = ToSet(waiting) \cup {r}
      /\ session' = session
  BY <1>1, Asking
<1>3. r \notin ToSet(waiting) /\ waiting \in Seq(Requests)
  BY DEF IInv, TypeOK, RequestOK, SessionOK
<1>4. QueuesOK'
  BY <1>2, <1>3, Appended DEF WaitInv, QueuesOK
<1>5. WaitOK(r)'
  BY <1>2 DEF WaitInv, WaitOK, AtSession
<1>6. ASSUME NEW s \in Requests \ {r} PROVE WaitOK(s)'
  <2>1. req'[s] = req[s]
    BY <1>2 DEF IInv, TypeOK
  <2>2. req[s].pc = "await sql" => sqlPromise' \in Requests
    BY DEF WaitInv, WaitOK
  <2> QED
    BY <1>2, <2>1, <2>2, StillWaits
<1> QED
  BY <1>4, <1>5, <1>6 DEF WaitInv

\* A request gives the session back and goes on to what is no wait.
LEMMA GiveBackWaits ==
  ASSUME IInv, WaitInv, NEW r \in Requests, session = r, GiveBack,
         req'[r].pc \notin AtSession \cup { "await sql", "acquire" },
         \A s \in Requests \ {r} : req'[s] = req[s],
         UNCHANGED << mode, sqlPromise, connection, queue >>
  PROVE  WaitInv'
<1>1. session' = None /\ waiting' = waiting
  BY DEF GiveBack
<1>2. WaitOK(r)'
  BY <1>1, EmbeddedAssumption DEF WaitOK
<1>3. ASSUME NEW s \in Requests \ {r} PROVE WaitOK(s)'
  <2>1. req[s].pc = "await sql" => sqlPromise' \in Requests
    BY DEF WaitInv, WaitOK
  <2> QED
    BY <1>1, <2>1, StillWaits
<1> QED
  BY <1>1, <1>2, <1>3 DEF WaitInv, QueuesOK

LEMMA InitWaits == Init => WaitInv
<1> SUFFICES ASSUME Init PROVE WaitInv
  OBVIOUS
<1>1. waiting = << >> /\ queue = << >> /\ session = None /\ \A r \in Requests : req[r].pc = "idle"
  BY IdleFacts DEF Init
<1> QED
  BY <1>1, NobodyIn, EmbeddedAssumption DEF WaitInv, QueuesOK, WaitOK, AtSession

LEMMA ServeWaits == ASSUME IInv, WaitInv, Serve PROVE WaitInv'
<1>1. /\ session = None /\ session' = Head(waiting) /\ waiting # << >> /\ waiting' = Tail(waiting)
      /\ UNCHANGED << mode, req, sqlPromise, connection, queue >>
  BY DEF Serve, driver
<1>2. waiting \in Seq(Requests) /\ IsInjective(waiting)
  BY DEF IInv, TypeOK, WaitInv, QueuesOK
<1>3. /\ IsInjective(waiting')
      /\ session' \in ToSet(waiting) /\ session' \notin ToSet(waiting')
      /\ ToSet(waiting) = ToSet(waiting') \cup { session' }
  BY <1>1, <1>2, Rest
<1>4. ASSUME NEW r \in Requests PROVE WaitOK(r)'
  <2>1. WaitOK(r) /\ session # r
    BY <1>1, EmbeddedAssumption DEF WaitInv
  <2>2. session' = r => req[r].pc \in AtSession
    BY <1>3 DEF IInv, RequestOK, SessionOK
  <2> QED
    BY <1>1, <1>3, <2>1, <2>2 DEF WaitOK
<1> QED
  BY <1>1, <1>3, <1>4 DEF WaitInv, QueuesOK

LEMMA PassWaits ==
  ASSUME IInv, WaitInv, NEW r \in Requests,
         BeginPass(r) \/ ReadLedger(r) \/ OpenMigration(r) \/ ApplyMigration(r)
  PROVE  WaitInv'
<1>1. CASE BeginPass(r)
  BY <1>1, AskWaits DEF BeginPass, At, driver, AtSession
<1>2. CASE OpenMigration(r)
  BY <1>2, AskWaits DEF OpenMigration, At, driver, AtSession
<1>3. CASE ReadLedger(r) \/ ApplyMigration(r)
  <2>1. /\ session = r /\ GiveBack
        /\ UNCHANGED << mode, sqlPromise, connection, queue >>
    BY <1>3 DEF ReadLedger, ApplyMigration, Has, driver
  <2>2. req'[r].pc = "migrate" /\ \A s \in Requests \ {r} : req'[s] = req[s]
    <3>1. PICK todo : req' = [ req EXCEPT ![r] = [ req[r] EXCEPT !.pc = "migrate", !.todo = todo ] ]
      BY <1>3 DEF ReadLedger, ApplyMigration
    <3>2. req[r] \in Request /\ req \in [ Requests -> Request ]
      BY DEF IInv, TypeOK
    <3> QED
      BY <3>1, <3>2 DEF Request
  <2> QED
    BY <2>1, <2>2, GiveBackWaits DEF AtSession
<1> QED
  BY <1>1, <1>2, <1>3

\* A query of Better Auth has the connection, or is in the queue of whoever has it.
LEMMA AcquireWaits ==
  ASSUME IInv, WaitInv, NEW r \in Requests,
         \/ connection = None /\ connection' = r /\ req'[r].pc = "connect" /\ UNCHANGED queue
         \/ /\ connection # None /\ queue' = Append(queue, r) /\ req'[r].pc = "acquire"
            /\ UNCHANGED connection,
         \A s \in Requests \ {r} : req'[s] = req[s],
         session # r,
         UNCHANGED << mode, session, waiting, sqlPromise >>
  PROVE  WaitInv'
<1>1. queue \in Seq(Requests) /\ connection \in Requests \cup {None}
  BY DEF IInv, TypeOK
<1>2. /\ ToSet(queue) \subseteq ToSet(queue')
      /\ req'[r].pc = "acquire" => r \in ToSet(queue')
      /\ queue' # << >> => connection' \in Requests
  <2>1. ToSet(Append(queue, r)) = ToSet(queue) \cup {r}
    BY <1>1, Appended
  <2> QED
    BY <1>1, <2>1 DEF WaitInv, QueuesOK
<1>3. WaitOK(r)'
  BY <1>2 DEF WaitOK, AtSession
<1>4. ASSUME NEW s \in Requests \ {r} PROVE WaitOK(s)'
  <2>1. req[s].pc = "await sql" => sqlPromise' \in Requests
    BY DEF WaitInv, WaitOK
  <2> QED
    BY <1>2, <2>1, StillWaits
<1> QED
  BY <1>2, <1>3, <1>4 DEF WaitInv, QueuesOK

LEMMA FinishPassWaits == ASSUME IInv, WaitInv, NEW r \in Requests, FinishPass(r) PROVE WaitInv'
<1>1. /\ req[r].pc = "migrate" /\ Resolve(r)
      /\ UNCHANGED << mode, session, waiting >>
  BY DEF FinishPass, At, database
<1>2. session # r
  BY <1>1 DEF IInv, RequestOK, SessionOK, AtSession
<1>3. /\ req \in [ Requests -> Request ] /\ req[r] \in Request
      /\ \A s \in Requests : req[s].pc = "await sql" => sqlPromise \in Requests
  BY DEF IInv, TypeOK, WaitInv, WaitOK
<1>4. CASE req[r].kind = "ready" /\ Finish(r) /\ UNCHANGED << sqlPromise, driver >>
  <2>1. req'[r].pc = "idle" /\ \A s \in Requests \ {r} : req'[s] = req[s]
    BY <1>3, <1>4, IdleFacts DEF Finish
  <2>2. WaitOK(r)'
    BY <1>1, <1>2, <2>1 DEF WaitOK, AtSession
  <2>3. \A s \in Requests \ {r} : WaitOK(s)'
    BY <1>1, <1>3, <1>4, <2>1, StillWaits DEF driver
  <2> QED
    BY <1>1, <1>4, <2>2, <2>3 DEF WaitInv, QueuesOK, driver
<1>5. CASE /\ req[r].kind \in { "transaction", "decide" } /\ Goto(r, "connect")
           /\ UNCHANGED << sqlPromise, driver >>
  <2>1. req'[r].pc = "connect" /\ \A s \in Requests \ {r} : req'[s] = req[s]
    BY <1>3, <1>5 DEF Goto, Request
  <2>2. WaitOK(r)'
    BY <1>1, <1>2, <2>1 DEF WaitOK, AtSession
  <2>3. \A s \in Requests \ {r} : WaitOK(s)'
    BY <1>1, <1>3, <1>5, <2>1, StillWaits DEF driver
  <2> QED
    BY <1>1, <1>5, <2>2, <2>3 DEF WaitInv, QueuesOK, driver
<1>6. CASE req[r].kind = "auth" /\ client' = TRUE /\ Acquire(r) /\ UNCHANGED sqlPromise
  BY <1>1, <1>2, <1>3, <1>6, AcquireWaits DEF Acquire, Goto, Request
<1>7. CASE /\ req[r].kind = "query"
           /\ sqlPromise' = "ready"
           /\ req' = [ s \in Requests |->
                         IF s = r \/ At(s, "await sql") THEN [ req[s] EXCEPT !.pc = WithSql(req[s].kind) ]
                         ELSE req[s] ]
           /\ UNCHANGED driver
  <2>1. ASSUME NEW s \in Requests, s = r \/ req[s].pc = "await sql" PROVE WaitOK(s)'
    <3>1. req'[s].pc \in { "ask role", "connect" }
      BY <1>3, <1>7, <2>1 DEF At, WithSql, Request
    <3>2. mode = "private" => session # s
      BY <1>2, <2>1 DEF WaitInv, WaitOK, AtSession
    <3> QED
      BY <1>1, <3>1, <3>2 DEF WaitOK, AtSession
  <2>2. ASSUME NEW s \in Requests \ {r}, req[s].pc # "await sql" PROVE WaitOK(s)'
    <3>1. req'[s] = req[s]
      BY <1>7, <2>2 DEF At
    <3> QED
      BY <1>1, <1>7, <2>2, <3>1, StillWaits DEF driver
  <2> QED
    BY <1>1, <1>7, <2>1, <2>2 DEF WaitInv, QueuesOK, driver
<1> QED
  BY <1>1, <1>4, <1>5, <1>6, <1>7 DEF Resolve

LEMMA FailPassWaits == ASSUME IInv, WaitInv, NEW r \in Requests, FailPass(r) PROVE WaitInv'
<1>1. /\ session = r /\ session' = None /\ waiting' = waiting /\ Reject(r)
      /\ UNCHANGED << mode, connection, queue >>
  BY DEF FailPass, Has, Reject, GiveBack, driver
<1>2. ASSUME NEW s \in Requests, s = r \/ (sqlPromise = r /\ req[s].pc = "await sql")
      PROVE  WaitOK(s)'
  <2>1. req'[s].pc = "idle"
    BY <1>1, <1>2, IdleFacts DEF Reject, At
  <2>2. session' # s
    BY <1>1, EmbeddedAssumption
  <2> QED
    BY <2>1, <2>2 DEF WaitOK, AtSession
<1>3. ASSUME NEW s \in Requests \ {r}, ~ (sqlPromise = r /\ req[s].pc = "await sql")
      PROVE  WaitOK(s)'
  <2>1. req'[s] = req[s]
    BY <1>1, <1>3 DEF Reject, At
  <2>2. req[s].pc = "await sql" => sqlPromise' \in Requests
    BY <1>1, <1>3 DEF Reject, WaitInv, WaitOK
  <2> QED
    BY <1>1, <2>1, <2>2, StillWaits
<1> QED
  BY <1>1, <1>2, <1>3 DEF WaitInv, QueuesOK

\* A request asks for a pass of its own, and waits for nobody until it begins.
LEMMA JoinWaits ==
  ASSUME IInv, WaitInv, NEW r \in Requests, NEW kind, JoinChain(r, kind),
         mode = "private" => session # r,
         sqlPromise' \in { sqlPromise, r },
         UNCHANGED << mode, session, waiting, connection, queue >>
  PROVE  WaitInv'
<1>1. req'[r].pc = "pass" /\ \A s \in Requests \ {r} : req'[s] = req[s]
  BY DEF JoinChain, IInv, TypeOK
<1>2. WaitOK(r)'
  BY <1>1 DEF WaitOK, AtSession
<1>3. ASSUME NEW s \in Requests \ {r} PROVE WaitOK(s)'
  <2>1. req[s].pc = "await sql" => sqlPromise' \in Requests
    BY DEF WaitInv, WaitOK
  <2> QED
    BY <1>1, <2>1, StillWaits
<1> QED
  BY <1>2, <1>3 DEF WaitInv, QueuesOK

\* Whoever awaits getSql's promise awaits one that somebody will settle.
LEMMA GetSqlWaits ==
  ASSUME IInv, WaitInv, NEW r \in Requests, NEW kind, GetSql(r, kind),
         mode = "private" => session # r,
         UNCHANGED << mode, session, waiting, connection, queue >>
  PROVE  WaitInv'
<1>1. CASE sqlPromise = None
  BY <1>1, JoinWaits DEF GetSql
<1>2. CASE sqlPromise # None
  <2>1. /\ req'[r].pc = IF sqlPromise = "ready" THEN WithSql(kind) ELSE "await sql"
        /\ sqlPromise' = sqlPromise
        /\ \A s \in Requests \ {r} : req'[s] = req[s]
    <3> DEFINE q == [ pc   |-> IF sqlPromise = "ready" THEN WithSql(kind) ELSE "await sql",
                      kind |-> kind, todo |-> {} ]
    <3>1. q.pc = IF sqlPromise = "ready" THEN WithSql(kind) ELSE "await sql"
      OBVIOUS
    <3>2. req' = [ req EXCEPT ![r] = q ] /\ sqlPromise' = sqlPromise
      BY <1>2 DEF GetSql
    <3> HIDE DEF q
    <3>3. req \in [ Requests -> Request ]
      BY DEF IInv, TypeOK
    <3> QED
      BY <3>1, <3>2, <3>3
  <2>2. req'[r].pc = "await sql" => sqlPromise \in Requests
    BY <1>2, <2>1 DEF IInv, TypeOK, WithSql
  <2>3. req'[r].pc \in { "await sql", "ask role", "connect" }
    BY <2>1 DEF WithSql
  <2>4. WaitOK(r)'
    BY <2>1, <2>2, <2>3 DEF WaitOK, AtSession
  <2>5. ASSUME NEW s \in Requests \ {r} PROVE WaitOK(s)'
    <3>1. req[s].pc = "await sql" => sqlPromise' \in Requests
      BY <2>1 DEF WaitInv, WaitOK
    <3> QED
      BY <2>1, <3>1, StillWaits
  <2> QED
    BY <2>4, <2>5 DEF WaitInv, QueuesOK
<1> QED
  BY <1>1, <1>2

LEMMA BeginWaits ==
  ASSUME IInv, WaitInv, NEW r \in Requests,
         BeginQuery(r) \/ BeginWithPass(r) \/ BeginAuth(r) \/ BeginAuthWithClient(r)
  PROVE  WaitInv'
<1>1. session # r
  <2>1. req[r].pc = "idle"
    BY IdleFacts DEF BeginQuery, BeginWithPass, BeginAuth, BeginAuthWithClient
  <2> QED
    BY <2>1, IdleHoldsNothing
<1>2. CASE BeginQuery(r)
  BY <1>1, <1>2, GetSqlWaits DEF BeginQuery, database, driver
<1>3. CASE BeginWithPass(r)
  BY <1>1, <1>3, JoinWaits DEF BeginWithPass, database, driver
<1>4. CASE BeginAuth(r)
  BY <1>1, <1>4, JoinWaits DEF BeginAuth, database, driver
<1>5. CASE BeginAuthWithClient(r)
  <2>1. req \in [ Requests -> Request ]
    BY DEF IInv, TypeOK
  <2> QED
    BY <1>1, <1>5, <2>1, AcquireWaits DEF BeginAuthWithClient, database
<1> QED
  BY <1>2, <1>3, <1>4, <1>5

LEMMA StatementWaits ==
  ASSUME IInv, WaitInv, NEW r \in Requests,
         Connect(r) \/ End(r) \/ RefuseDecision(r) \/ AskForRole(r) \/ QueryRole(r)
  PROVE  WaitInv'
<1>0. req \in [ Requests -> Request ]
  BY DEF IInv, TypeOK
<1>1. CASE Connect(r)
  BY <1>1, AskWaits DEF Connect, At, driver, AtSession
<1>2. CASE QueryRole(r)
  BY <1>2, AskWaits DEF QueryRole, At, driver, AtSession
<1>3. CASE AskForRole(r)
  BY <1>3, GetSqlWaits DEF AskForRole, database, driver
<1>4. CASE RefuseDecision(r) \/ (End(r) /\ req[r].kind # "auth")
  <2>1. /\ session = r /\ GiveBack /\ Finish(r)
        /\ UNCHANGED << mode, sqlPromise, connection, queue >>
    BY <1>4 DEF RefuseDecision, End, Has, driver
  <2>2. req'[r].pc = "idle" /\ \A s \in Requests \ {r} : req'[s] = req[s]
    BY <1>0, <2>1, IdleFacts DEF Finish
  <2> QED
    BY <2>1, <2>2, GiveBackWaits DEF AtSession
<1>5. CASE End(r) /\ req[r].kind = "auth"
  <2>1. /\ session = r /\ session' = None /\ waiting' = waiting /\ req[r].pc = "statement"
        /\ ReleaseConnection(r)
        /\ UNCHANGED << mode, sqlPromise >>
    BY <1>5 DEF End, Has, At, GiveBack
  <2>2. CASE queue = << >> /\ connection' = None /\ Finish(r) /\ UNCHANGED queue
    <3>1. req'[r].pc = "idle" /\ \A s \in Requests \ {r} : req'[s] = req[s]
      BY <1>0, <2>2, IdleFacts DEF Finish
    <3>2. WaitOK(r)'
      BY <2>1, <3>1, EmbeddedAssumption DEF WaitOK, AtSession
    <3>3. ASSUME NEW s \in Requests \ {r} PROVE WaitOK(s)'
      <4>1. req[s].pc = "await sql" => sqlPromise' \in Requests
        BY <2>1 DEF WaitInv, WaitOK
      <4> QED
        BY <2>1, <2>2, <3>1, <4>1, StillWaits
    <3> QED
      BY <2>1, <2>2, <3>2, <3>3 DEF WaitInv, QueuesOK
  <2>3. CASE /\ queue # << >> /\ connection' = Head(queue) /\ queue' = Tail(queue)
             /\ req' = [ req EXCEPT ![r] = Idle, ![Head(queue)].pc = "connect" ]
    <3>1. PICK h \in Requests : h = Head(queue)
      BY <2>3, Rest DEF IInv, TypeOK
    <3>2. h \in ToSet(queue) /\ ToSet(queue) = ToSet(queue') \cup {h}
      BY <2>3, <3>1, Rest DEF IInv, TypeOK
    <3>3. h # r /\ req[h].pc = "acquire"
      BY <2>1, <3>2 DEF IInv, RequestOK, DriverOK
    <3>4. /\ req'[r].pc = "idle" /\ req'[h].pc = "connect"
          /\ \A s \in Requests \ { r, h } : req'[s] = req[s]
      BY <1>0, <2>3, <3>1, <3>3, IdleFacts DEF Request
    <3>5. WaitOK(r)' /\ WaitOK(h)'
      BY <2>1, <3>4, EmbeddedAssumption DEF WaitOK, AtSession
    <3>6. ASSUME NEW s \in Requests \ { r, h } PROVE WaitOK(s)'
      <4>1. req[s].pc = "await sql" => sqlPromise' \in Requests
        BY <2>1 DEF WaitInv, WaitOK
      <4>2. s \in ToSet(queue) => s \in ToSet(queue')
        BY <3>2, <3>6
      <4> QED
        BY <2>1, <3>4, <3>6, <4>1, <4>2, StillWaits
    <3>7. connection' \in Requests
      BY <2>3, <3>1
    <3> QED
      BY <2>1, <3>5, <3>6, <3>7 DEF WaitInv, QueuesOK
  <2> QED
    BY <2>1, <2>2, <2>3 DEF ReleaseConnection
<1> QED
  BY <1>1, <1>2, <1>3, <1>4, <1>5

LEMMA WaitStep == IInv /\ WaitInv /\ [Next]_vars => WaitInv'
<1> SUFFICES ASSUME IInv, WaitInv, [Next]_vars PROVE WaitInv'
  OBVIOUS
<1>1. CASE UNCHANGED vars
  BY <1>1 DEF vars, database, driver, WaitInv, QueuesOK, WaitOK
<1>2. CASE Serve
  BY <1>2, ServeWaits
<1>3. ASSUME NEW r \in Requests, Proceed(r) PROVE WaitInv'
  BY <1>3, PassWaits, FinishPassWaits, FailPassWaits, StatementWaits DEF Proceed
<1>4. ASSUME NEW r \in Requests,
             \/ BeginQuery(r) \/ BeginWithPass(r) \/ BeginAuth(r) \/ BeginAuthWithClient(r)
             \/ RefuseDecision(r)
      PROVE  WaitInv'
  BY <1>4, BeginWaits, StatementWaits
<1> QED
  BY <1>1, <1>2, <1>3, <1>4 DEF Next

\* Who has the session in private mode has a step of its own.
LEMMA HolderGoesOn ==
  ASSUME IInv, WaitInv, mode = "private", NEW r \in Requests, session = r
  PROVE  GoesOn(r) /\ ~ At(r, "idle")
<1>1. req[r].pc \in AtSession /\ r \notin ToSet(waiting)
  BY DEF WaitInv, WaitOK
<1> QED
  BY <1>1 DEF At, GoesOn, Has, At, AtSession

\* Who is at the session has it or is in its queue, and so is of rank 1 at most.
LEMMA RankAtSession ==
  ASSUME IInv, WaitInv, mode = "private", NEW r \in Requests, req[r].pc \in AtSession
  PROVE  /\ WaitRank(r) \in { 0, 1 }
         /\ GoesOn(r) \/ r \in ToSet(waiting)
<1>1. session = r => GoesOn(r)
  BY HolderGoesOn
<1>2. session = r \/ r \in ToSet(waiting)
  BY DEF WaitInv, WaitOK
<1> QED
  BY <1>1, <1>2 DEF WaitRank

\* The first of the chain, and whoever has the driver's connection, go on or wait
\* for the session.
LEMMA RankOfHolders ==
  ASSUME IInv, WaitInv, mode = "private", NEW s \in Requests,
         \/ chain # << >> /\ s = Head(chain)
         \/ connection = s
  PROVE  ~ At(s, "idle") /\ WaitRank(s) \in { 0, 1 }
<1>1. CASE chain # << >> /\ s = Head(chain)
  <2>1. s \in ToSet(chain)
    BY <1>1, Rest DEF IInv, TypeOK
  <2>2. req[s].pc \in InPass
    BY <2>1 DEF IInv, RequestOK, PassOK
  <2>3. CASE req[s].pc \in { "pass", "migrate" }
    BY <1>1, <2>2, <2>3 DEF GoesOn, At, MyTurn, WaitRank
  <2>4. CASE req[s].pc \in { "ledger", "apply" }
    BY <2>4, RankAtSession DEF At, AtSession
  <2> QED
    BY <2>2, <2>3, <2>4 DEF InPass
<1>2. CASE connection = s
  <2>1. req[s].pc \in { "connect", "statement" }
    BY <1>2 DEF IInv, RequestOK, DriverOK
  <2>2. CASE req[s].pc = "connect"
    BY <2>2 DEF At, GoesOn, WaitRank
  <2>3. CASE req[s].pc = "statement"
    BY <2>3, RankAtSession DEF At, AtSession
  <2> QED
    BY <2>1, <2>2, <2>3
<1> QED
  BY <1>1, <1>2

LEMMA WaitsDescend == IInv /\ WaitInv => WaitsAreWellFounded
<1> SUFFICES ASSUME IInv, WaitInv, mode = "private", NEW r \in Requests, ~ At(r, "idle"), ~ GoesOn(r)
             PROVE  \/ r \in ToSet(waiting) /\ session = None
                    \/ \E s \in Requests : ~ At(s, "idle") /\ WaitsFor(r, s) /\ WaitRank(s) < WaitRank(r)
  BY DEF WaitsAreWellFounded
<1>1. CASE r \in ToSet(waiting)
  <2>1. CASE session # None
    <3>1. PICK s \in Requests : s = session
      BY <2>1 DEF IInv, TypeOK
    <3>2. ~ At(s, "idle") /\ WaitRank(s) = 0
      BY <3>1, HolderGoesOn DEF WaitRank
    <3>3. WaitRank(r) = 1
      BY <1>1 DEF WaitRank
    <3>4. WaitsFor(r, s)
      BY <1>1, <3>1 DEF WaitsFor
    <3>5. WaitRank(s) < WaitRank(r)
      BY <3>2, <3>3
    <3> QED
      BY <3>2, <3>4, <3>5
  <2> QED
    BY <1>1, <2>1
<1>2. CASE r \notin ToSet(waiting) /\ req[r].pc = "pass"
  <2>1. chain # << >> /\ Head(chain) \in Requests
    BY <1>2, ChainFacts, Rest DEF InPass, IInv, TypeOK
  <2>2. ~ At(Head(chain), "idle") /\ WaitRank(Head(chain)) \in { 0, 1 }
    BY <2>1, RankOfHolders
  <2>3. WaitRank(r) = 2
    BY <1>2 DEF WaitRank
  <2> QED
    BY <1>2, <2>1, <2>2, <2>3 DEF WaitsFor, At
<1>3. CASE r \notin ToSet(waiting) /\ req[r].pc = "acquire"
  <2>1. connection \in Requests
    <3>1. r \in ToSet(queue)
      BY <1>3 DEF WaitInv, WaitOK
    <3> QED
      BY <3>1, NobodyIn DEF WaitInv, QueuesOK
  <2>2. ~ At(connection, "idle") /\ WaitRank(connection) \in { 0, 1 }
    BY <2>1, RankOfHolders
  <2>3. WaitRank(r) = 2
    BY <1>3 DEF WaitRank
  <2> QED
    BY <1>3, <2>1, <2>2, <2>3 DEF WaitsFor, At
<1>4. CASE r \notin ToSet(waiting) /\ req[r].pc = "await sql"
  <2>1. PICK s \in Requests : s = sqlPromise
    BY <1>4 DEF WaitInv, WaitOK
  <2>2. req[s].pc \in InPass
    BY <2>1 DEF IInv, RequestOK, PromiseOK, InPass
  <2>3. ~ At(s, "idle")
    BY <2>2 DEF At, InPass
  <2>4. WaitRank(s) \in { 0, 1, 2 }
    <3>1. CASE req[s].pc \in { "ledger", "apply" }
      BY <3>1, RankAtSession DEF AtSession
    <3>2. CASE req[s].pc \in { "pass", "migrate" }
      BY <3>2 DEF WaitRank, GoesOn
    <3> QED
      BY <2>2, <3>1, <3>2 DEF InPass
  <2>5. WaitRank(r) = 3
    BY <1>4 DEF WaitRank
  <2>6. WaitsFor(r, s)
    BY <1>4, <2>1 DEF WaitsFor, At
  <2>7. WaitRank(s) < WaitRank(r)
    BY <2>4, <2>5
  <2> QED
    BY <2>3, <2>6, <2>7
<1>5. r \notin ToSet(waiting) => req[r].pc \in { "pass", "acquire", "await sql" }
  <2>1. SUFFICES ASSUME r \notin ToSet(waiting) PROVE req[r].pc \in { "pass", "acquire", "await sql" }
    OBVIOUS
  <2>2. req[r].pc \notin AtSession
    BY <2>1, RankAtSession
  <2>3. req[r].pc \notin { "migrate", "connect", "ask role" }
    BY DEF GoesOn
  <2>4. req[r].pc # "idle"
    BY DEF At
  <2> QED
    BY <2>2, <2>3, <2>4 DEF IInv, TypeOK, Request, InPass, AtSession
<1> QED
  BY <1>1, <1>2, <1>3, <1>4, <1>5

-----------------------------------------------------------------------------
(* The theorems.                                                           *)

\* The inductive invariant of the embedded database holds in every reachable
\* state: it says where a request may be in the chain, at the session and at the
\* driver (db.ts:75, pglite-dialect.ts:52).
THEOREM EmbeddedInvariant == Spec => []IInv
BY InitHolds, StepKeeps, PTL DEF Spec

\* Chain, session, promise and driver keep the shape the code gives them, and the
\* files that are recorded are the first ones, however passes fail.
THEOREM TypeCorrect == Spec => []TypeOK
<1>1. IInv => TypeOK
  BY DEF IInv
<1> QED
  BY <1>1, EmbeddedInvariant, PTL

\* No statement of any request runs on a schema that a migration is missing from
\* (getEmbedded awaits its pass before it returns the database, db.ts:88).
THEOREM MigratedBeforeUseHolds == Spec => []MigratedBeforeUse
<1>1. IInv => MigratedBeforeUse
  BY DEF IInv, RequestOK, PassOK, Served, MigratedBeforeUse
<1> QED
  BY <1>1, EmbeddedInvariant, PTL

\* What a pass found pending is applied by nobody else (the chain, db.ts:84).
THEOREM PassesDoNotCollideHolds == Spec => []PassesDoNotCollide
<1>1. IInv => PassesDoNotCollide
  BY DEF IInv, RequestOK, PassOK, PassesDoNotCollide
<1> QED
  BY <1>1, EmbeddedInvariant, PTL

\* A request that has ended holds neither the session, nor the driver's connection,
\* nor a place in a queue, and getSql's promise is one that somebody will settle
\* (db.ts:39, pglite-dialect.ts:75).
THEOREM NothingLeaksHolds == Spec => []NothingLeaks
<1>1. IInv => NothingLeaks
  <2> SUFFICES ASSUME IInv PROVE NothingLeaks
    OBVIOUS
  <2>1. ASSUME NEW r \in Requests, req[r] = Idle
        PROVE  /\ r \notin { session, connection }
               /\ r \notin ToSet(waiting) \cup ToSet(chain) \cup ToSet(queue)
    BY <2>1, IdleFacts, IdleHoldsNothing
  <2>2. sqlPromise \in Requests =>
          req[sqlPromise].kind \in { "query", "decide" } /\ req[sqlPromise].pc \in InPass
    BY DEF IInv, RequestOK, PromiseOK, InPass
  <2> QED
    BY <2>1, <2>2 DEF NothingLeaks
<1> QED
  BY <1>1, EmbeddedInvariant, PTL

\* In private mode whoever waits for the session, for a pass, for the driver's
\* connection or for getSql's promise waits, through a chain of requests that gets
\* ever nearer to the session, for one that can go on (db.ts:41, pglite-dialect.ts:47).
THEOREM WaitsAreWellFoundedHolds == Spec => []WaitsAreWellFounded
<1>1. Spec => []WaitInv
  BY EmbeddedInvariant, InitWaits, WaitStep, PTL DEF Spec
<1> QED
  BY <1>1, EmbeddedInvariant, WaitsDescend, PTL
=============================================================================
