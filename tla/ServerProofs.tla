---------------------------- MODULE ServerProofs ----------------------------
(***************************************************************************)
(* The safety of a server process for any environments, any number of      *)
(* users, requests, candidates, migrating processes and migration files,   *)
(* any size of the pool, any limit and any length of its window.           *)
(***************************************************************************)
EXTENDS Server, FiniteSetTheorems, SequenceTheorems, TLAPS

-----------------------------------------------------------------------------
(* The rate limiter.  While a bucket lives, it has counted every request   *)
(* since its window began, the first of which was the one that began it,   *)
(* and whatever came before was less than the limit.                       *)

BucketInv(u) ==
  LET b == buckets[u] IN
  \A t \in Ages :
    IF b.left = 0 THEN recent[u][t] < Limit
    ELSE /\ b.count >= 1
         /\ recent[u][t] <= b.count + Limit - 1
         /\ t < Window - b.left => recent[u][t] < b.count

LimiterInv == LimiterTypeOK /\ \A u \in Users : BucketInv(u)

LEMMA LimiterInitially == LimiterInit => LimiterInv
  BY LimiterAssumption DEF LimiterInit, LimiterInv, LimiterTypeOK, BucketInv, NoBucket,
     NothingAdmitted, Ages

\* What a sweep and a tick leave of a bucket.
LEMMA IncrementKeeps ==
  ASSUME LimiterTypeOK, NEW u \in Users, ~Expired(u), BelowLimit(u)
  PROVE  /\ Increment(u) \in [ Users -> [ count : 0 .. Limit, left : 0 .. Window ] ]
         /\ Increment(u)[u] = [ count |-> buckets[u].count + 1, left |-> buckets[u].left ]
         /\ \A v \in Users \ {u} :
              \/ Increment(u)[v] = buckets[v]
              \/ buckets[v].left = 0 /\ Increment(u)[v].left = 0
<1> DEFINE more == [ buckets EXCEPT ![u].count = @ + 1 ]
<1>1. /\ more \in [ Users -> [ count : 0 .. Limit, left : 0 .. Window ] ]
      /\ more[u] = [ count |-> buckets[u].count + 1, left |-> buckets[u].left ]
      /\ \A v \in Users \ {u} : more[v] = buckets[v]
  BY LimiterAssumption DEF LimiterTypeOK, BelowLimit
<1> HIDE DEF more
<1>2. Increment(u) = IF Cardinality(Buckets) > MaxBuckets THEN Swept(more) ELSE more
  BY DEF Increment, more
<1>3. buckets[u].left # 0
  BY DEF Expired
<1>4. Swept(more) = [ v \in Users |-> IF more[v].left = 0 THEN NoBucket ELSE more[v] ]
  BY DEF Swept
<1>5. NoBucket \in [ count : 0 .. Limit, left : 0 .. Window ] /\ NoBucket.left = 0
  BY LimiterAssumption DEF NoBucket
<1> QED
  BY <1>1, <1>2, <1>3, <1>4, <1>5

LEMMA AdmissionKeeps ==
  ASSUME LimiterInv, NEW u \in Users, enforceAgentRateLimit(u)
  PROVE  LimiterInv'
<1> USE LimiterAssumption
<1>1. /\ recent' = [ recent EXCEPT ![u] = [ t \in Ages |-> @[t] + 1 ] ]
      /\ recent' \in [ Users -> [ Ages -> Nat ] ]
      /\ \A t \in Ages : recent'[u][t] = recent[u][t] + 1 /\ recent[u][t] \in Nat
      /\ \A v \in Users \ {u} : recent'[v] = recent[v]
  BY DEF LimiterInv, LimiterTypeOK, enforceAgentRateLimit
<1>2. CASE Expired(u) /\ buckets' = [ buckets EXCEPT ![u] = [ count |-> 1, left |-> Window ] ]
  <2>1. /\ buckets' \in [ Users -> [ count : 0 .. Limit, left : 0 .. Window ] ]
        /\ buckets'[u].count = 1 /\ buckets'[u].left = Window
        /\ \A v \in Users \ {u} : buckets'[v] = buckets[v]
    BY <1>2 DEF LimiterInv, LimiterTypeOK
  <2>2. \A t \in Ages : recent[u][t] < Limit
    BY <1>2 DEF LimiterInv, BucketInv, Expired
  <2>3. BucketInv(u)'
    BY <1>1, <2>1, <2>2 DEF BucketInv, Ages
  <2>4. \A v \in Users \ {u} : BucketInv(v)'
    BY <1>1, <2>1 DEF LimiterInv, BucketInv
  <2> QED
    BY <1>1, <2>1, <2>3, <2>4 DEF LimiterInv, LimiterTypeOK
<1>3. CASE ~Expired(u) /\ BelowLimit(u) /\ buckets' = Increment(u)
  <2>1. /\ buckets' \in [ Users -> [ count : 0 .. Limit, left : 0 .. Window ] ]
        /\ buckets'[u].count = buckets[u].count + 1 /\ buckets'[u].left = buckets[u].left
        /\ \A v \in Users \ {u} :
             \/ buckets'[v] = buckets[v]
             \/ buckets[v].left = 0 /\ buckets'[v].left = 0
    <3>1. LimiterTypeOK
      BY DEF LimiterInv
    <3>2. /\ Increment(u) \in [ Users -> [ count : 0 .. Limit, left : 0 .. Window ] ]
          /\ Increment(u)[u] = [ count |-> buckets[u].count + 1, left |-> buckets[u].left ]
          /\ \A v \in Users \ {u} :
               \/ Increment(u)[v] = buckets[v]
               \/ buckets[v].left = 0 /\ Increment(u)[v].left = 0
      BY <1>3, <3>1, IncrementKeeps
    <3> QED
      BY <1>3, <3>2
  <2>2. buckets[u].left # 0 /\ buckets[u].left \in 0 .. Window /\ buckets[u].count \in 0 .. Limit
    BY <1>3 DEF Expired, LimiterInv, LimiterTypeOK
  <2>3. BucketInv(u)'
    <3>1. BucketInv(u)
      BY DEF LimiterInv
    <3>2. ASSUME NEW t \in Ages
          PROVE  /\ buckets[u].count >= 1
                 /\ recent[u][t] <= buckets[u].count + Limit - 1
                 /\ t < Window - buckets[u].left => recent[u][t] < buckets[u].count
      BY <3>1, <2>2 DEF BucketInv
    <3>3. ASSUME NEW t \in Ages
          PROVE  /\ buckets'[u].left # 0
                 /\ buckets'[u].count >= 1
                 /\ recent'[u][t] <= buckets'[u].count + Limit - 1
                 /\ t < Window - buckets'[u].left => recent'[u][t] < buckets'[u].count
      BY <1>1, <2>1, <2>2, <3>2
    <3> QED
      BY <3>3 DEF BucketInv
  <2>4. \A v \in Users \ {u} : BucketInv(v)'
    BY <1>1, <2>1 DEF LimiterInv, BucketInv
  <2> QED
    BY <1>1, <2>1, <2>3, <2>4 DEF LimiterInv, LimiterTypeOK
<1>4. \/ Expired(u) /\ buckets' = [ buckets EXCEPT ![u] = [ count |-> 1, left |-> Window ] ]
      \/ ~Expired(u) /\ BelowLimit(u) /\ buckets' = Increment(u)
  BY ZenonT(30) DEF enforceAgentRateLimit
<1> QED
  BY <1>2, <1>3, <1>4

LEMMA TickKeeps ==
  ASSUME LimiterInv, Tick
  PROVE  LimiterInv'
<1> USE LimiterAssumption
<1>1. LimiterTypeOK'
  <2>1. buckets' \in [ Users -> [ count : 0 .. Limit, left : 0 .. Window ] ]
    <3>1. ASSUME NEW u \in Users
          PROVE  [ buckets[u] EXCEPT !.left = IF @ = 0 THEN 0 ELSE @ - 1 ]
                   \in [ count : 0 .. Limit, left : 0 .. Window ]
      BY DEF LimiterInv, LimiterTypeOK
    <3> QED
      BY <3>1 DEF Tick
  <2>2. recent' \in [ Users -> [ Ages -> Nat ] ]
    <3>1. \A t \in Ages : t # 0 => t - 1 \in Ages
      BY DEF Ages
    <3> QED
      BY <3>1 DEF Tick, LimiterInv, LimiterTypeOK
  <2> QED
    BY <2>1, <2>2 DEF LimiterTypeOK
<1>2. ASSUME NEW u \in Users  PROVE BucketInv(u)'
  <2>1. /\ buckets[u].left \in 0 .. Window
        /\ buckets[u].count \in 0 .. Limit
        /\ \A t \in Ages : recent[u][t] \in Nat
    BY DEF LimiterInv, LimiterTypeOK
  <2>2. /\ buckets'[u].left = IF buckets[u].left = 0 THEN 0 ELSE buckets[u].left - 1
        /\ buckets'[u].count = buckets[u].count
        /\ \A t \in Ages : recent'[u][t] = IF t = 0 THEN 0 ELSE recent[u][t - 1]
    BY DEF Tick, LimiterInv, LimiterTypeOK
  <2>3. \A t \in Ages : t # 0 => t - 1 \in Ages
    BY DEF Ages
  <2>4. BucketInv(u)
    BY DEF LimiterInv
  <2>5. CASE buckets[u].left = 0
    BY <2>1, <2>2, <2>3, <2>4, <2>5 DEF BucketInv, Ages
  <2>6. CASE buckets[u].left = 1
    BY <2>1, <2>2, <2>3, <2>4, <2>6 DEF BucketInv, Ages
  <2>7. CASE buckets[u].left > 1
    BY <2>1, <2>2, <2>3, <2>4, <2>7 DEF BucketInv, Ages
  <2> QED
    BY <2>1, <2>5, <2>6, <2>7
<1> QED
  BY <1>1, <1>2 DEF LimiterInv

LEMMA BurstFollows == LimiterInv => BurstIsBounded
  BY LimiterAssumption DEF LimiterInv, LimiterTypeOK, BucketInv, BurstIsBounded, Ages

-----------------------------------------------------------------------------
(* What the steps of the server do to the state of each of its parts.      *)

LEMMA CallersAreUsers == Callers \subseteq Users
<1> SUFFICES ASSUME NEW h \in Header, NEW v \in Accounts, NEW u \in ActsAs(env, h, { v })
             PROVE  u \in Users
  BY DEF Callers
<1> QED
  BY ServerAssumption DEF ActsAs, Accounts

LEMMA LimiterMoves ==
  ASSUME [Next]_vars
  PROVE  \/ \E u \in Users : enforceAgentRateLimit(u)
         \/ Tick
         \/ LimiterInit'
         \/ UNCHANGED limiterVars
<1> USE DEF limiterVars
<1>1. ASSUME NEW u \in Users, NEW kind, Admit(u, kind)
      PROVE  enforceAgentRateLimit(u) \/ UNCHANGED limiterVars
  BY <1>1 DEF Admit
<1>2. ASSUME NEW r, CheckReadiness(r) \/ AnswerEmbedded(r) \/ AskNextProvider(r) \/ AnswerProposal(r)
      PROVE  UNCHANGED limiterVars
  BY <1>2 DEF CheckReadiness, AnswerEmbedded, AskNextProvider, AnswerProposal
<1>3. ASSUME NEW r, CallServer(r)
      PROVE  \E u \in Users : enforceAgentRateLimit(u) \/ UNCHANGED limiterVars
  <2>1. \E u \in Callers, kind \in Application : Admit(u, kind)
    BY <1>3 DEF CallServer
  <2> QED
    BY <2>1, <1>1, CallersAreUsers
<1>4. ASSUME NEW r, CallApi(r)
      PROVE  \E u \in Users : enforceAgentRateLimit(u) \/ UNCHANGED limiterVars
  <2>1. \E u \in Accounts, kind \in { "query", "evidence" } : Admit(u, kind)
    BY <1>4 DEF CallApi
  <2> QED
    BY <2>1, <1>1 DEF Accounts
<1>5. ASSUME NEW r, Pool(Proceed(r)) \/ Pool(Timeout(r)) \/ Pool(Fail(r)) \/ Pool(Serve)
      PROVE  UNCHANGED limiterVars
  BY <1>5 DEF Pool
<1>6. ASSUME NEW p, StartUp(p)  PROVE UNCHANGED limiterVars
  BY <1>6 DEF StartUp
<1>7. ASSUME NEW p, Crash(p)  PROVE LimiterInit' \/ UNCHANGED limiterVars
  BY <1>7 DEF Crash, LimiterInit
<1>8. CASE UNCHANGED vars
  BY <1>8 DEF vars
<1>9. CASE Next
  BY <1>9, <1>2, <1>3, <1>4, <1>5, <1>6, <1>7 DEF Next, PassTime
<1> QED
  BY <1>8, <1>9

THEOREM LimiterInvariant == Spec => []LimiterInv
<1>1. Init => LimiterInv
  BY LimiterInitially DEF Init
<1>2. LimiterInv /\ [Next]_vars => LimiterInv'
  <2> SUFFICES ASSUME LimiterInv, [Next]_vars  PROVE LimiterInv'
    OBVIOUS
  <2>1. CASE \E u \in Users : enforceAgentRateLimit(u)
    BY <2>1, AdmissionKeeps
  <2>2. CASE Tick
    BY <2>2, TickKeeps
  <2>3. CASE LimiterInit'
    BY <2>3, LimiterInitially, PTL
  <2>4. CASE UNCHANGED limiterVars
    BY <2>4 DEF limiterVars, LimiterInv, LimiterTypeOK, BucketInv
  <2> QED
    BY <2>1, <2>2, <2>3, <2>4, LimiterMoves
<1> QED
  BY <1>1, <1>2, PTL DEF Spec

(* enforceAgentRateLimit admits less than twice the limit within any 60     *)
(* seconds, however the sweep, the windows and restarts fall.               *)
THEOREM BurstHolds == Spec => []BurstIsBounded
  BY LimiterInvariant, BurstFollows, PTL

-----------------------------------------------------------------------------
(* The migrations.  The schema, the ledger and what a process has read of  *)
(* it are all a first part of the files, the last one possibly a shorter   *)
(* one.                                                                    *)

FirstFiles(k) == { Files[i] : i \in 1 .. k }

MigratorInv ==
  /\ MigratorTypeOK
  /\ Len(schema) <= Len(Files)
  /\ \A i \in 1 .. Len(schema) : schema[i] = Files[i]
  /\ ledger = FirstFiles(Len(schema))
  /\ \A p \in Migrators : \E k \in 0 .. Len(schema) : process[p].applied = FirstFiles(k)

LEMMA FilesAreASequence ==
  /\ Len(Files) \in Nat
  /\ DOMAIN Files = 1 .. Len(Files)
  /\ Files \in Seq(ToSet(Files))
  /\ \A i \in 1 .. Len(Files) : Files[i] \in ToSet(Files)
<1>1. Len(Files) \in Nat /\ DOMAIN Files = 1 .. Len(Files) /\ Files \in [ 1 .. Len(Files) -> STRING ]
  BY MigratorAssumption, LenProperties
<1>2. \A i \in 1 .. Len(Files) : Files[i] \in ToSet(Files)
  BY <1>1 DEF ToSet
<1>3. Files \in [ 1 .. Len(Files) -> ToSet(Files) ]
  BY <1>1, <1>2
<1> QED
  BY <1>1, <1>2, <1>3, SeqDef

LEMMA PendingFiles ==
  ASSUME NEW k \in 0 .. Len(Files)
  PROVE  pendingMigrations(FirstFiles(k)) = (k + 1) .. Len(Files)
<1>1. \A i, j \in 1 .. Len(Files) : Files[i] = Files[j] => i = j
  BY MigratorAssumption, FilesAreASequence DEF IsInjective
<1>2. \A i \in 1 .. Len(Files) : Files[i] \in FirstFiles(k) <=> i <= k
  BY <1>1, FilesAreASequence DEF FirstFiles
<1> QED
  BY <1>2, FilesAreASequence DEF pendingMigrations

LEMMA FirstPendingFile ==
  ASSUME NEW k \in 0 .. Len(Files), k < Len(Files)
  PROVE  First((k + 1) .. Len(Files)) = Files[k + 1]
<1> DEFINE S == (k + 1) .. Len(Files)
           least == CHOOSE i \in S : \A j \in S : i <= j
<1>1. k + 1 \in S /\ \A j \in S : k + 1 <= j
  BY FilesAreASequence
<1>2. least \in S /\ \A j \in S : least <= j
  BY <1>1
<1>3. least = k + 1
  BY <1>1, <1>2, FilesAreASequence
<1> QED
  BY <1>3 DEF First

LEMMA MigratorInitially == MigratorInit => MigratorInv
<1> SUFFICES ASSUME MigratorInit  PROVE MigratorInv
  OBVIOUS
<1>1. schema = << >> /\ Len(schema) = 0 /\ schema \in Seq(ToSet(Files))
  BY EmptySeq DEF MigratorInit
<1>2. FirstFiles(0) = {}
  BY DEF FirstFiles
<1>3. process \in [ Migrators -> [ pc : { "down", "migrating", "up" }, applied : SUBSET ToSet(Files) ] ]
  BY DEF MigratorInit, Down
<1>4. \A p \in Migrators : process[p].applied = FirstFiles(0)
  BY <1>2 DEF MigratorInit, Down
<1>5. MigratorTypeOK
  BY <1>1, <1>3, MigratorAssumption DEF MigratorInit, MigratorTypeOK
<1>6. ledger = FirstFiles(Len(schema))
  BY <1>1, <1>2 DEF MigratorInit
<1> QED
  BY <1>1, <1>4, <1>5, <1>6, FilesAreASequence DEF MigratorInv

\* A file is applied by the process that is next to apply it, or refused.
LEMMA ApplyFileKeeps ==
  ASSUME MigratorInv, NEW p \in Migrators, ApplyFile(p)
  PROVE  MigratorInv' /\ Len(schema) <= Len(schema') /\ process'[p].pc # "up"
         /\ \A q \in Migrators \ {p} : process'[q] = process[q]
<1>1. PICK k \in 0 .. Len(schema) : process[p].applied = FirstFiles(k)
  BY DEF MigratorInv
<1>2. Len(schema) \in Nat /\ schema \in Seq(ToSet(Files)) /\ Len(schema) <= Len(Files)
  BY LenProperties DEF MigratorInv, MigratorTypeOK
<1>3. k \in 0 .. Len(Files)
  BY <1>2, FilesAreASequence
<1> DEFINE pending == pendingMigrations(process[p].applied)
           file == First(pending)
<1>4. pending = (k + 1) .. Len(Files)
  BY <1>1, <1>3, PendingFiles
<1>5. k < Len(Files)
  BY <1>3, <1>4, FilesAreASequence DEF ApplyFile
<1>6. file = Files[k + 1] /\ file \in ToSet(Files)
  BY <1>3, <1>4, <1>5, FirstPendingFile, FilesAreASequence
<1> HIDE DEF pending, file
<1>7. \/ /\ NotApplied(p, file)
         /\ ledger' = ledger \cup { file }
         /\ schema' = Append(schema, file)
         /\ process' = [ process EXCEPT ![p].applied = @ \cup { file } ]
      \/ /\ process' = [ process EXCEPT ![p] = Down ]
         /\ UNCHANGED << ledger, schema >>
  BY DEF ApplyFile, pending, file
<1>8. process[p].pc = "migrating" /\ UNCHANGED crashes
  BY DEF ApplyFile
<1>9. CASE /\ NotApplied(p, file)
           /\ ledger' = ledger \cup { file }
           /\ schema' = Append(schema, file)
           /\ process' = [ process EXCEPT ![p].applied = @ \cup { file } ]
  <2>1. k = Len(schema)
    <3>1. file \notin FirstFiles(Len(schema))
      BY <1>9 DEF NotApplied, MigratorInv
    <3> QED
      BY <3>1, <1>2, <1>6 DEF FirstFiles
  <2>2. /\ schema' \in Seq(ToSet(Files))
        /\ Len(schema') = k + 1
        /\ \A i \in 1 .. k : schema'[i] = schema[i]
        /\ schema'[k + 1] = Files[k + 1]
    BY <2>1, <1>2, <1>6, <1>9, AppendProperties
  <2>3. \A i \in 1 .. Len(schema') : schema'[i] = Files[i]
    BY <2>1, <2>2, <1>3 DEF MigratorInv
  <2>4. FirstFiles(k + 1) = FirstFiles(k) \cup { file }
    BY <1>3, <1>6 DEF FirstFiles
  <2>5. /\ process' \in [ Migrators -> [ pc : { "down", "migrating", "up" }, applied : SUBSET ToSet(Files) ] ]
        /\ process'[p].applied = process[p].applied \cup { file }
        /\ process'[p].pc = "migrating"
        /\ \A q \in Migrators \ {p} : process'[q] = process[q]
    BY <1>6, <1>8, <1>9 DEF MigratorInv, MigratorTypeOK
  <2>6. \A q \in Migrators : \E j \in 0 .. Len(schema') : process'[q].applied = FirstFiles(j)
    <3>1. process'[p].applied = FirstFiles(k + 1) /\ k + 1 \in 0 .. Len(schema')
      BY <1>1, <1>3, <2>2, <2>4, <2>5
    <3>2. ASSUME NEW q \in Migrators \ {p}
          PROVE  \E j \in 0 .. Len(schema') : process'[q].applied = FirstFiles(j)
      BY <1>3, <2>1, <2>2, <2>5 DEF MigratorInv
    <3> QED
      BY <3>1, <3>2
  <2>7. ledger' = FirstFiles(Len(schema')) /\ ledger' \subseteq ToSet(Files)
    BY <1>6, <1>9, <2>1, <2>2, <2>4 DEF MigratorInv, MigratorTypeOK
  <2>8. Len(schema') <= Len(Files) /\ Len(schema) <= Len(schema')
    BY <1>3, <1>5, <2>1, <2>2, FilesAreASequence
  <2> QED
    BY <1>8, <2>2, <2>3, <2>5, <2>6, <2>7, <2>8 DEF MigratorInv, MigratorTypeOK
<1>10. CASE /\ process' = [ process EXCEPT ![p] = Down ]
            /\ UNCHANGED << ledger, schema >>
  <2>1. /\ process' \in [ Migrators -> [ pc : { "down", "migrating", "up" }, applied : SUBSET ToSet(Files) ] ]
        /\ process'[p].applied = {} /\ process'[p].pc = "down"
        /\ \A q \in Migrators \ {p} : process'[q] = process[q]
    BY <1>10 DEF MigratorInv, MigratorTypeOK, Down
  <2>2. FirstFiles(0) = {} /\ 0 \in 0 .. Len(schema)
    BY <1>2 DEF FirstFiles
  <2>3. \A q \in Migrators : \E j \in 0 .. Len(schema) : process'[q].applied = FirstFiles(j)
    BY <2>1, <2>2 DEF MigratorInv
  <2> QED
    BY <1>2, <1>8, <1>10, <2>1, <2>3 DEF MigratorInv, MigratorTypeOK
<1> QED
  BY <1>7, <1>9, <1>10

\* What every other step does to a migrating process.
LEMMA OtherMigratorSteps ==
  ASSUME MigratorInv, NEW p \in Migrators,
         ReadLedger(p) \/ SkipMigration(p) \/ FinishMigration(p) \/ CrashProcess(p)
  PROVE  MigratorInv' /\ schema' = schema
         /\ \A q \in Migrators \ {p} : process'[q] = process[q]
<1>1. Len(schema) \in Nat
  BY LenProperties DEF MigratorInv, MigratorTypeOK
<1>2. /\ ledger' = ledger /\ schema' = schema
      /\ crashes' \in 0 .. MaxCrashes
  BY MigratorAssumption
     DEF ReadLedger, SkipMigration, FinishMigration, CrashProcess, MigratorInv, MigratorTypeOK
<1>3. /\ process' \in [ Migrators -> [ pc : { "down", "migrating", "up" }, applied : SUBSET ToSet(Files) ] ]
      /\ process'[p].applied \in { {}, ledger, process[p].applied }
      /\ \A q \in Migrators \ {p} : process'[q] = process[q]
  <2>1. process \in [ Migrators -> [ pc : { "down", "migrating", "up" }, applied : SUBSET ToSet(Files) ] ]
        /\ ledger \subseteq ToSet(Files)
    BY DEF MigratorInv, MigratorTypeOK
  <2>2. CASE ReadLedger(p)
    BY <2>1, <2>2 DEF ReadLedger
  <2>3. CASE SkipMigration(p)
    BY <2>1, <2>3 DEF SkipMigration
  <2>4. CASE FinishMigration(p)
    BY <2>1, <2>4 DEF FinishMigration
  <2>5. CASE CrashProcess(p)
    BY <2>1, <2>5 DEF CrashProcess, Down
  <2> QED
    BY <2>2, <2>3, <2>4, <2>5
<1>4. {} = FirstFiles(0) /\ ledger = FirstFiles(Len(schema))
  BY DEF FirstFiles, MigratorInv
<1>5. \A q \in Migrators : \E k \in 0 .. Len(schema) : process'[q].applied = FirstFiles(k)
  <2>1. \E k \in 0 .. Len(schema) : process'[p].applied = FirstFiles(k)
    <3>1. \E k \in 0 .. Len(schema) : process[p].applied = FirstFiles(k)
      BY DEF MigratorInv
    <3>2. 0 \in 0 .. Len(schema) /\ Len(schema) \in 0 .. Len(schema)
      BY <1>1
    <3> QED
      BY <1>3, <1>4, <3>1, <3>2
  <2>2. ASSUME NEW q \in Migrators \ {p}
        PROVE  \E k \in 0 .. Len(schema) : process'[q].applied = FirstFiles(k)
    BY <1>3 DEF MigratorInv
  <2> QED
    BY <2>1, <2>2
<1> QED
  BY <1>2, <1>3, <1>5 DEF MigratorInv, MigratorTypeOK

LEMMA FinishedMeansApplied ==
  ASSUME MigratorInv, NEW p \in Migrators, FinishMigration(p)
  PROVE  Len(schema) = Len(Files)
<1>1. PICK k \in 0 .. Len(schema) : process[p].applied = FirstFiles(k)
  BY DEF MigratorInv
<1>2. Len(schema) \in Nat /\ Len(schema) <= Len(Files) /\ Len(Files) \in Nat
  BY LenProperties, FilesAreASequence DEF MigratorInv, MigratorTypeOK
<1>3. pendingMigrations(process[p].applied) = (k + 1) .. Len(Files)
  BY <1>1, <1>2, PendingFiles
<1>4. (k + 1) .. Len(Files) = {}
  BY <1>3 DEF FinishMigration
<1>5. Len(Files) \notin (k + 1) .. Len(Files)
  BY <1>4
<1> QED
  BY <1>2, <1>5

\* A process comes up when everything is applied, or where there is no database.
ComesUp(p) ==
  \/ env.database = "url" /\ Len(schema) = Len(Files)
  \/ env.database = "unset"

LEMMA MigratorStep ==
  ASSUME MigratorInv, [Next]_vars
  PROVE  /\ MigratorInv'
         /\ Len(schema) <= Len(schema')
         /\ env' = env
         /\ \A p \in Migrators : Up(p)' => Up(p) \/ ComesUp(p)
<1>1. Len(schema) \in Nat
  BY LenProperties DEF MigratorInv, MigratorTypeOK
<1>2. CASE UNCHANGED migratorVars /\ env' = env
  BY <1>1, <1>2 DEF migratorVars, MigratorInv, MigratorTypeOK, Up
<1>3. ASSUME NEW p \in Migrators, ApplyFile(p)
      PROVE  /\ MigratorInv' /\ Len(schema) <= Len(schema')
             /\ \A q \in Migrators : Up(q)' => Up(q)
  BY <1>3, ApplyFileKeeps DEF Up
<1>4. ASSUME NEW p \in Migrators,
             ReadLedger(p) \/ SkipMigration(p) \/ FinishMigration(p) \/ CrashProcess(p)
      PROVE  /\ MigratorInv' /\ Len(schema) <= Len(schema')
             /\ \A q \in Migrators \ {p} : Up(q)' => Up(q)
  BY <1>1, <1>4, OtherMigratorSteps DEF Up
<1>5. ASSUME NEW p \in Migrators, StartUp(p)
      PROVE  /\ MigratorInv' /\ Len(schema) <= Len(schema') /\ env' = env
             /\ \A q \in Migrators : Up(q)' => Up(q) \/ ComesUp(q)
  <2>1. env' = env
    BY <1>5 DEF StartUp
  <2>2. CASE env.database = "url" /\ ReadLedger(p)
    <3>1. ~Up(p)'
      BY <2>2 DEF ReadLedger, Up, MigratorInv, MigratorTypeOK
    <3> QED
      BY <2>1, <2>2, <3>1, <1>4
  <2>3. CASE env.database = "url" /\ ApplyFile(p)
    BY <2>1, <2>3, <1>3
  <2>4. CASE env.database = "url" /\ FinishMigration(p)
    <3>1. ComesUp(p)
      BY <2>4, FinishedMeansApplied DEF ComesUp
    <3> QED
      BY <2>1, <2>4, <3>1, <1>4
  <2>5. CASE env.database = "unset" /\ SkipMigration(p)
    <3>1. ComesUp(p)
      BY <2>5 DEF ComesUp
    <3> QED
      BY <2>1, <2>5, <3>1, <1>4
  <2>6. CASE FailToConnect(p)
    BY <2>1, <2>6, <1>2 DEF FailToConnect
  <2> QED
    BY <1>5, <2>2, <2>3, <2>4, <2>5, <2>6 DEF StartUp, Migrate
<1>6. ASSUME NEW p \in Migrators, Crash(p)
      PROVE  /\ MigratorInv' /\ Len(schema) <= Len(schema') /\ env' = env
             /\ \A q \in Migrators : Up(q)' => Up(q)
  <2>1. CrashProcess(p) /\ env' = env
    BY <1>6 DEF Crash
  <2>2. ~Up(p)'
    BY <2>1 DEF CrashProcess, Down, Up, MigratorInv, MigratorTypeOK
  <2> QED
    BY <2>1, <2>2, <1>4
<1>7. ASSUME NEW r \in Requests,
             \/ CheckReadiness(r) \/ CallServer(r) \/ CallApi(r)
             \/ AnswerEmbedded(r) \/ AskNextProvider(r) \/ AnswerProposal(r)
             \/ Pool(Proceed(r)) \/ Pool(Timeout(r)) \/ Pool(Fail(r))
      PROVE  UNCHANGED migratorVars /\ env' = env
  BY <1>7 DEF CheckReadiness, CallServer, CallApi, AnswerEmbedded, AskNextProvider,
     AnswerProposal, Pool
<1>8. CASE Pool(Serve) \/ PassTime \/ UNCHANGED vars
  BY <1>8, <1>2 DEF Pool, PassTime, vars
<1> QED
  BY <1>2, <1>5, <1>6, <1>7, <1>8 DEF Next

THEOREM MigratorInvariant == Spec => []MigratorInv
  BY MigratorInitially, MigratorStep, PTL DEF Spec, Init

(* migrate.mjs applies each file once, in the order of the names, whichever *)
(* processes run it at the same time and wherever they die.                 *)
THEOREM MigratedOnceHolds == Spec => []MigratedOnce
<1>1. MigratorInv => MigratedOnce
  <2> SUFFICES ASSUME MigratorInv  PROVE MigratedOnce
    OBVIOUS
  <2>1. /\ Len(schema) \in Nat /\ schema \in Seq(ToSet(Files))
        /\ DOMAIN schema = 1 .. Len(schema)
    BY LenProperties DEF MigratorInv, MigratorTypeOK
  <2>2. Len(schema) <= Len(Files) /\ Len(Files) \in Nat
    BY FilesAreASequence DEF MigratorInv
  <2> DEFINE n == Len(schema)
  <2>3. SubSeq(schema, 1, n) = schema
    BY <2>1, SubSeqFull
  <2>4. /\ SubSeq(Files, 1, n) \in Seq(ToSet(Files)) /\ Len(SubSeq(Files, 1, n)) = n
        /\ \A i \in 1 .. n : SubSeq(Files, 1, n)[i] = Files[i]
    <3>1. \A i \in 1 .. n : Files[i] \in ToSet(Files)
      BY <2>1, <2>2, FilesAreASequence
    <3> QED
      BY <2>1, <2>2, <3>1, SubSeqProperties
  <2>5. SubSeq(Files, 1, n) = schema
    BY <2>1, <2>4, SeqEqual DEF MigratorInv
  <2>6. ToSet(schema) = FirstFiles(n)
    BY <2>1 DEF ToSet, FirstFiles, MigratorInv
  <2> QED
    BY <2>2, <2>3, <2>5, <2>6 DEF MigratedOnce, IsPrefix, MigratorInv
<1> QED
  BY <1>1, MigratorInvariant, PTL

-----------------------------------------------------------------------------
(* The pool.  Where a request is tells what it may hold and whether it     *)
(* waits, and nobody waits twice.                                          *)

Waits == { "connect", "nested connect" }
Nests == { "nested statement" }
Owns  == { "statement", "nested connect", "nested statement", "commit" }
Locks == { "nested connect", "nested statement", "commit" }

HoldingInv ==
  /\ req \in [ Requests -> Request ]
  /\ clients \subseteq Requests \X { "own", "nested" }
  /\ lock \in [ Candidates -> Requests \cup {None} ]
  /\ IsFiniteSet(clients) /\ Cardinality(clients) <= PoolSize
  /\ \A r \in Requests :
       /\ req[r].pc = "idle" => req[r] = Idle
       /\ << r, "own" >> \in clients => req[r].pc \in Owns
       /\ << r, "nested" >> \in clients => req[r].pc \in Nests
       /\ \A c \in Candidates : lock[c] = r => req[r].pc \in Locks

QueueInv ==
  /\ waiting \in Seq(Requests)
  /\ \A i \in 1 .. Len(waiting) : req[waiting[i]].pc \in Waits
  /\ \A i, j \in 1 .. Len(waiting) : waiting[i] = waiting[j] => i = j
  /\ \A r \in Requests : req[r].pc \in Waits => \E i \in 1 .. Len(waiting) : waiting[i] = r

PoolInv == HoldingInv /\ QueueInv

\* One request moves and changes no more than what it holds itself.
LEMMA HoldingKept ==
  ASSUME HoldingInv, NEW r \in Requests, NEW q \in Request,
         q.pc = "idle" => q = Idle,
         req' = [ req EXCEPT ![r] = q ],
         \/ clients' \subseteq clients
         \/ /\ Cardinality(clients) < PoolSize
            /\ \E use \in { "own", "nested" } : clients' = clients \cup { << r, use >> },
         << r, "own" >> \in clients' => q.pc \in Owns,
         << r, "nested" >> \in clients' => q.pc \in Nests,
         lock' \in [ Candidates -> Requests \cup {None} ],
         \A c \in Candidates : lock'[c] \in { lock[c], None, r },
         \A c \in Candidates : lock'[c] = r => q.pc \in Locks
  PROVE  HoldingInv'
<1>1. IsFiniteSet(clients') /\ Cardinality(clients') <= PoolSize
  <2>1. IsFiniteSet(clients) /\ Cardinality(clients) \in Nat /\ Cardinality(clients) <= PoolSize
    BY FS_CardinalityType DEF HoldingInv
  <2>2. CASE clients' \subseteq clients
    <3>1. clients' \in SUBSET clients
      BY <2>2
    <3>2. IsFiniteSet(clients') /\ Cardinality(clients') <= Cardinality(clients)
      BY <2>1, <3>1, FS_Subset
    <3>3. Cardinality(clients') \in Nat
      BY <3>2, FS_CardinalityType
    <3> QED
      BY <2>1, <3>2, <3>3, PoolAssumption
  <2>3. CASE /\ Cardinality(clients) < PoolSize
             /\ \E use \in { "own", "nested" } : clients' = clients \cup { << r, use >> }
    <3>1. PICK use \in { "own", "nested" } : clients' = clients \cup { << r, use >> }
      BY <2>3
    <3>2. /\ IsFiniteSet(clients \cup { << r, use >> })
          /\ Cardinality(clients \cup { << r, use >> })
               = IF << r, use >> \in clients THEN Cardinality(clients) ELSE Cardinality(clients) + 1
      BY <2>1, FS_AddElement
    <3>3. Cardinality(clients') \in { Cardinality(clients), Cardinality(clients) + 1 }
      BY <3>1, <3>2
    <3>4. IsFiniteSet(clients')
      BY <3>1, <3>2
    <3>5. Cardinality(clients) < PoolSize
      BY <2>3
    <3> QED
      BY <2>1, <3>3, <3>4, <3>5, PoolAssumption
  <2> QED
    BY <2>2, <2>3
<1>2. clients' \subseteq Requests \X { "own", "nested" }
  <2>1. clients \subseteq Requests \X { "own", "nested" }
    BY DEF HoldingInv
  <2>2. clients' \subseteq clients \cup { << r, use >> : use \in { "own", "nested" } }
    OBVIOUS
  <2> QED
    BY <2>1, <2>2
<1>3. req' \in [ Requests -> Request ] /\ req'[r] = q /\ \A p \in Requests \ {r} : req'[p] = req[p]
  BY DEF HoldingInv
<1>4. \A p \in Requests \ {r}, use \in { "own", "nested" } :
        << p, use >> \in clients' => << p, use >> \in clients
  <2>1. clients' \subseteq clients
          \/ \E use \in { "own", "nested" } : clients' = clients \cup { << r, use >> }
    OBVIOUS
  <2> QED
    BY <2>1
<1>5. \A p \in Requests \ {r}, c \in Candidates : lock'[c] = p => lock[c] = p
  BY PoolAssumption
<1>6. ASSUME NEW p \in Requests
      PROVE  /\ req'[p].pc = "idle" => req'[p] = Idle
             /\ << p, "own" >> \in clients' => req'[p].pc \in Owns
             /\ << p, "nested" >> \in clients' => req'[p].pc \in Nests
             /\ \A c \in Candidates : lock'[c] = p => req'[p].pc \in Locks
  <2>1. CASE p = r
    BY <1>3, <2>1
  <2>2. CASE p # r
    BY <1>3, <1>4, <1>5, <2>2 DEF HoldingInv
  <2> QED
    BY <2>1, <2>2
<1> QED
  BY <1>1, <1>2, <1>3, <1>6 DEF HoldingInv

\* The queue is left alone by a request that is not in it.
LEMMA QueueKept ==
  ASSUME QueueInv, HoldingInv, NEW r \in Requests, NEW q,
         req' = [ req EXCEPT ![r] = q ], q.pc \notin Waits,
         waiting' = waiting, req[r].pc \notin Waits
  PROVE  QueueInv'
<1>1. \A i \in 1 .. Len(waiting) : waiting[i] \in Requests /\ waiting[i] # r
  BY ElementOfSeq DEF QueueInv
<1>2. req'[r] = q /\ \A p \in Requests \ {r} : req'[p] = req[p]
  BY DEF HoldingInv
<1> QED
  BY <1>1, <1>2 DEF QueueInv

\* A request joins it.
LEMMA QueueJoined ==
  ASSUME QueueInv, HoldingInv, NEW r \in Requests, NEW q,
         req' = [ req EXCEPT ![r] = q ], q.pc \in Waits,
         waiting' = Append(waiting, r), req[r].pc \notin Waits
  PROVE  QueueInv'
<1> DEFINE n == Len(waiting)
<1>1. n \in Nat /\ \A i \in 1 .. n : waiting[i] \in Requests /\ waiting[i] # r
  BY ElementOfSeq, LenProperties DEF QueueInv
<1>2. /\ waiting' \in Seq(Requests) /\ Len(waiting') = n + 1 /\ waiting'[n + 1] = r
      /\ \A i \in 1 .. n : waiting'[i] = waiting[i]
  BY AppendProperties DEF QueueInv
<1>3. req'[r] = q /\ \A p \in Requests \ {r} : req'[p] = req[p]
  BY DEF HoldingInv
<1>4. \A i \in 1 .. Len(waiting') : req'[waiting'[i]].pc \in Waits
  BY <1>1, <1>2, <1>3 DEF QueueInv
<1>5. \A i, j \in 1 .. Len(waiting') : waiting'[i] = waiting'[j] => i = j
  BY <1>1, <1>2 DEF QueueInv
<1>6. ASSUME NEW p \in Requests, req'[p].pc \in Waits
      PROVE  \E i \in 1 .. Len(waiting') : waiting'[i] = p
  <2>1. CASE p = r
    <3>1. n + 1 \in 1 .. Len(waiting')
      BY <1>1, <1>2
    <3> QED
      BY <1>2, <2>1, <3>1
  <2>2. CASE p # r
    <3>1. PICK i \in 1 .. n : waiting[i] = p
      BY <1>3, <1>6, <2>2 DEF QueueInv
    <3>2. i \in 1 .. Len(waiting') /\ waiting'[i] = p
      BY <1>1, <1>2, <3>1
    <3> QED
      BY <3>2
  <2> QED
    BY <2>1, <2>2
<1> QED
  BY <1>2, <1>4, <1>5, <1>6 DEF QueueInv

\* The first of it leaves.
LEMMA QueueServed ==
  ASSUME QueueInv, HoldingInv, waiting # << >>, NEW q, q.pc \notin Waits,
         req' = [ req EXCEPT ![Head(waiting)] = q ],
         waiting' = Tail(waiting)
  PROVE  QueueInv'
<1> DEFINE n == Len(waiting)
<1>1. /\ n \in Nat \ {0} /\ \A i \in 1 .. n : waiting[i] \in Requests
      /\ Head(waiting) = waiting[1]
  BY ElementOfSeq, LenProperties, EmptySeq DEF QueueInv
<1>2. /\ waiting' \in Seq(Requests) /\ Len(waiting') = n - 1
      /\ \A i \in 1 .. n - 1 : waiting'[i] = waiting[i + 1]
  BY <1>1, HeadTailProperties DEF QueueInv
<1>3. \A i \in 1 .. n - 1 : waiting[i + 1] # Head(waiting) /\ waiting[i + 1] \in Requests
  BY <1>1 DEF QueueInv
<1>4. \A p \in Requests : p # Head(waiting) => req'[p] = req[p]
  BY DEF HoldingInv
<1>5. \A i \in 1 .. Len(waiting') : req'[waiting'[i]].pc \in Waits
  BY <1>1, <1>2, <1>3, <1>4 DEF QueueInv
<1>6. \A i, j \in 1 .. Len(waiting') : waiting'[i] = waiting'[j] => i = j
  BY <1>1, <1>2 DEF QueueInv
<1>7. ASSUME NEW p \in Requests, req'[p].pc \in Waits
      PROVE  \E i \in 1 .. Len(waiting') : waiting'[i] = p
  <2>1. p # Head(waiting) /\ req'[p] = req[p]
    <3>1. Head(waiting) \in Requests
      BY <1>1
    <3>2. req'[Head(waiting)] = q
      BY <3>1 DEF HoldingInv
    <3> QED
      BY <1>4, <1>7, <3>2
  <2>2. PICK i \in 1 .. n : waiting[i] = p
    BY <1>7, <2>1 DEF QueueInv
  <2>3. i - 1 \in 1 .. Len(waiting') /\ (i - 1) + 1 = i
    BY <1>1, <1>2, <2>1, <2>2
  <2>4. waiting'[i - 1] = p
    BY <1>2, <2>2, <2>3
  <2> QED
    BY <2>3, <2>4
<1> QED
  BY <1>2, <1>5, <1>6, <1>7 DEF QueueInv

\* One gives up waiting.
LEMMA QueueLeft ==
  ASSUME QueueInv, HoldingInv, NEW k \in 1 .. Len(waiting), NEW q, q.pc \notin Waits,
         req' = [ req EXCEPT ![waiting[k]] = q ],
         waiting' = RemoveAt(waiting, k)
  PROVE  QueueInv'
<1> DEFINE n == Len(waiting)
           before == SubSeq(waiting, 1, k - 1)
           after == SubSeq(waiting, k + 1, n)
<1>1. n \in Nat /\ \A i \in 1 .. n : waiting[i] \in Requests
  BY ElementOfSeq, LenProperties DEF QueueInv
<1>2. /\ before \in Seq(Requests) /\ Len(before) = k - 1
      /\ \A i \in 1 .. k - 1 : before[i] = waiting[i]
  <2>1. \A i \in 1 .. k - 1 : waiting[i] \in Requests
    BY <1>1
  <2> QED
    BY <1>1, <2>1, SubSeqProperties
<1>3. /\ after \in Seq(Requests) /\ Len(after) = n - k
      /\ \A i \in 1 .. n - k : after[i] = waiting[k + i]
  <2>1. \A i \in k + 1 .. n : waiting[i] \in Requests
    BY <1>1
  <2> QED
    BY <1>1, <2>1, SubSeqProperties
<1> HIDE DEF before, after
<1>4. waiting' = before \o after
  BY DEF RemoveAt, before, after
<1>5. /\ waiting' \in Seq(Requests) /\ Len(waiting') = n - 1
      /\ \A i \in 1 .. n - 1 : waiting'[i] = waiting[IF i < k THEN i ELSE i + 1]
  <2>1. /\ waiting' \in Seq(Requests) /\ Len(waiting') = (k - 1) + (n - k)
        /\ \A i \in 1 .. (k - 1) + (n - k) :
             waiting'[i] = IF i <= k - 1 THEN before[i] ELSE after[i - (k - 1)]
    <3>1. /\ before \o after \in Seq(Requests)
          /\ Len(before \o after) = Len(before) + Len(after)
          /\ \A i \in 1 .. Len(before) + Len(after) :
               (before \o after)[i] = IF i <= Len(before) THEN before[i] ELSE after[i - Len(before)]
      BY <1>2, <1>3, ConcatProperties
    <3> QED
      BY <1>2, <1>3, <1>4, <3>1
  <2>2. (k - 1) + (n - k) = n - 1
    BY <1>1
  <2>3. ASSUME NEW i \in 1 .. n - 1  PROVE waiting'[i] = waiting[IF i < k THEN i ELSE i + 1]
    <3>1. CASE i < k
      <4>1. i \in 1 .. k - 1 /\ i <= k - 1
        BY <1>1, <3>1
      <4>2. waiting'[i] = before[i]
        BY <2>1, <2>2, <4>1
      <4> QED
        BY <1>2, <3>1, <4>1, <4>2
    <3>2. CASE ~(i < k)
      <4>1. i - (k - 1) \in 1 .. n - k /\ k + (i - (k - 1)) = i + 1
        BY <1>1, <3>2
      <4>2. waiting'[i] = after[i - (k - 1)]
        BY <1>1, <2>1, <2>2, <3>2
      <4> QED
        BY <1>3, <3>2, <4>1, <4>2
    <3> QED
      BY <3>1, <3>2
  <2> QED
    BY <2>1, <2>2, <2>3
<1>6. \A p \in Requests : p # waiting[k] => req'[p] = req[p]
  BY DEF HoldingInv
<1>7. \A i \in 1 .. n - 1 : LET j == IF i < k THEN i ELSE i + 1
                            IN  j \in 1 .. n /\ j # k /\ waiting[j] # waiting[k]
  BY <1>1 DEF QueueInv
<1>8. \A i \in 1 .. Len(waiting') : req'[waiting'[i]].pc \in Waits
  BY <1>1, <1>5, <1>6, <1>7 DEF QueueInv
<1>9. ASSUME NEW i \in 1 .. Len(waiting'), NEW j \in 1 .. Len(waiting'), waiting'[i] = waiting'[j]
      PROVE  i = j
  <2> DEFINE a == IF i < k THEN i ELSE i + 1
             b == IF j < k THEN j ELSE j + 1
  <2>1. a \in 1 .. n /\ b \in 1 .. n /\ waiting[a] = waiting[b]
    <3>1. i \in 1 .. n - 1 /\ j \in 1 .. n - 1
      BY <1>5
    <3>2. a \in 1 .. n /\ b \in 1 .. n
      BY <1>1, <3>1
    <3>3. waiting'[i] = waiting[a] /\ waiting'[j] = waiting[b]
      BY <1>5, <3>1
    <3> QED
      BY <1>9, <3>2, <3>3
  <2>2. a = b
    BY <2>1 DEF QueueInv
  <2> QED
    BY <1>1, <1>5, <2>2
<1>10. ASSUME NEW p \in Requests, req'[p].pc \in Waits
       PROVE  \E i \in 1 .. Len(waiting') : waiting'[i] = p
  <2>1. p # waiting[k] /\ req'[p] = req[p]
    <3>1. waiting[k] \in Requests
      BY <1>1
    <3>2. req'[waiting[k]] = q
      BY <3>1 DEF HoldingInv
    <3> QED
      BY <1>6, <1>10, <3>2
  <2>2. PICK j \in 1 .. n : waiting[j] = p
    BY <1>10, <2>1 DEF QueueInv
  <2>3. j # k
    BY <2>1, <2>2
  <2>4. CASE j < k
    <3>1. j \in 1 .. n - 1
      BY <1>1, <2>2, <2>4
    <3>2. waiting'[j] = waiting[j]
      BY <1>5, <2>4, <3>1
    <3> QED
      BY <1>5, <2>2, <3>1, <3>2
  <2>5. CASE k < j
    <3>1. j - 1 \in 1 .. n - 1 /\ ~(j - 1 < k) /\ (j - 1) + 1 = j
      BY <1>1, <2>2, <2>5
    <3>2. waiting'[j - 1] = waiting[j]
      BY <1>5, <3>1
    <3> QED
      BY <1>5, <2>2, <3>1, <3>2
  <2> QED
    BY <1>1, <2>2, <2>3, <2>4, <2>5
<1> QED
  BY <1>5, <1>8, <1>9, <1>10 DEF QueueInv

LEMMA IdleFacts ==
  /\ Idle \in Request /\ Idle.pc = "idle" /\ Idle.pc \notin Waits
  /\ Idle.pc \notin Owns /\ Idle.pc \notin Nests /\ Idle.pc \notin Locks
  BY DEF Idle, Request, Waits, Owns, Nests, Locks

\* However a request ends, it takes everything with it.
LEMMA EndKeeps ==
  ASSUME HoldingInv, NEW r \in Requests, End(r)
  PROVE  HoldingInv' /\ req' = [ req EXCEPT ![r] = Idle ]
<1>1. /\ req' = [ req EXCEPT ![r] = Idle ]
      /\ clients' \subseteq clients
      /\ << r, "own" >> \notin clients' /\ << r, "nested" >> \notin clients'
      /\ lock' = [ c \in Candidates |-> IF lock[c] = r THEN None ELSE lock[c] ]
  BY DEF End, Unlock
<1>2. /\ lock' \in [ Candidates -> Requests \cup {None} ]
      /\ \A c \in Candidates : lock'[c] \in { lock[c], None } /\ lock'[c] # r
  BY <1>1, PoolAssumption DEF HoldingInv
<1>3. \A c \in Candidates : lock'[c] \in { lock[c], None, r } /\ (lock'[c] = r => Idle.pc \in Locks)
  BY <1>2
<1> QED
  BY <1>1, <1>2, <1>3, IdleFacts, HoldingKept

\* A request that moves on with what it has, or with less.
LEMMA MoveKeeps ==
  ASSUME HoldingInv, NEW r \in Requests, NEW q \in Request, q.pc # "idle",
         req' = [ req EXCEPT ![r] = q ],
         clients' \subseteq clients, lock' = lock,
         << r, "own" >> \in clients' => q.pc \in Owns,
         << r, "nested" >> \in clients' => q.pc \in Nests,
         req[r].pc \in Locks => q.pc \in Locks
  PROVE  HoldingInv'
<1>1. lock' \in [ Candidates -> Requests \cup {None} ]
      /\ \A c \in Candidates : lock'[c] \in { lock[c], None, r } /\ (lock'[c] = r => q.pc \in Locks)
  BY DEF HoldingInv
<1> QED
  BY <1>1, HoldingKept

LEMMA HoldersAt ==
  ASSUME HoldingInv, NEW r \in Requests
  PROVE  /\ req[r] \in Request
         /\ req[r].pc \notin Owns => << r, "own" >> \notin clients
         /\ req[r].pc \notin Nests => << r, "nested" >> \notin clients
         /\ req[r].pc \notin Locks => \A c \in Candidates : lock[c] # r
  BY DEF HoldingInv

LEMMA BeginKeeps ==
  ASSUME PoolInv, NEW r \in Requests, NEW kind \in Kinds, NEW c \in Candidates \cup {None},
         NEW dev \in BOOLEAN, Begin(r, kind, c, dev)
  PROVE  PoolInv'
<1> DEFINE q == [ Idle EXCEPT !.pc = "connect", !.kind = kind, !.cand = c, !.dev = dev ]
<1>1. q \in Request /\ q.pc = "connect"
  BY DEF Idle, Request
<1>2. req[r] = Idle /\ req' = [ req EXCEPT ![r] = q ]
      /\ waiting' = Append(waiting, r) /\ clients' = clients /\ lock' = lock
  BY DEF Begin
<1>3. q.pc \in Waits /\ q.pc # "idle"
  BY <1>1 DEF Waits
<1> HIDE DEF q
<1>4. HoldingInv /\ QueueInv
  BY DEF PoolInv
<1>5. HoldingInv'
  BY <1>1, <1>2, <1>3, <1>4, IdleFacts, HoldersAt, MoveKeeps
<1>6. QueueInv'
  BY <1>2, <1>3, <1>4, IdleFacts, QueueJoined
<1> QED
  BY <1>5, <1>6 DEF PoolInv

LEMMA ServeKeeps ==
  ASSUME PoolInv, Serve
  PROVE  PoolInv'
<1> DEFINE r == Head(waiting)
<1>1. HoldingInv /\ QueueInv /\ waiting # << >> /\ waiting' = Tail(waiting) /\ lock' = lock
      /\ Cardinality(clients) < PoolSize
  BY DEF PoolInv, Serve, FreeClient
<1>2. r \in Requests
  BY <1>1, HeadTailProperties DEF QueueInv
<1>3. req[r] \in Request
  BY <1>1, <1>2 DEF HoldingInv
<1>4. CASE /\ At(r, "connect")
           /\ clients' = clients \cup { << r, "own" >> }
           /\ req' = [ req EXCEPT ![r].pc = "statement" ]
  <2> DEFINE q == [ req[r] EXCEPT !.pc = "statement" ]
  <2>1. q \in Request /\ q.pc = "statement" /\ req' = [ req EXCEPT ![r] = q ]
    BY <1>3, <1>4 DEF Request
  <2>2. q.pc # "idle" /\ q.pc \in Owns /\ q.pc \notin Waits
    BY <2>1 DEF Owns, Waits
  <2>3. req[r].pc \notin Owns /\ req[r].pc \notin Nests /\ req[r].pc \notin Locks
    BY <1>4 DEF At, Owns, Nests, Locks
  <2>4. << r, "nested" >> \notin clients' /\ \A c \in Candidates : lock'[c] # r
    BY <1>1, <1>2, <1>4, <2>3, HoldersAt
  <2>5. /\ lock' \in [ Candidates -> Requests \cup {None} ]
        /\ \A c \in Candidates : lock'[c] \in { lock[c], None, r } /\ (lock'[c] = r => q.pc \in Locks)
    BY <1>1, <2>4 DEF HoldingInv
  <2> HIDE DEF q, r
  <2>6. \E use \in { "own", "nested" } : clients' = clients \cup { << r, use >> }
    BY <1>4
  <2>7. HoldingInv'
    BY <1>1, <1>2, <2>1, <2>2, <2>4, <2>5, <2>6, HoldingKept
  <2>8. QueueInv'
    BY <1>1, <2>1, <2>2, QueueServed DEF r
  <2> QED
    BY <2>7, <2>8 DEF PoolInv
<1>5. CASE /\ At(r, "nested connect")
           /\ clients' = clients \cup { << r, "nested" >> }
           /\ req' = [ req EXCEPT ![r].pc = "nested statement" ]
  <2> DEFINE q == [ req[r] EXCEPT !.pc = "nested statement" ]
  <2>1. q \in Request /\ q.pc = "nested statement" /\ req' = [ req EXCEPT ![r] = q ]
    BY <1>3, <1>5 DEF Request
  <2>2. q.pc # "idle" /\ q.pc \in Owns /\ q.pc \in Nests /\ q.pc \in Locks /\ q.pc \notin Waits
    BY <2>1 DEF Owns, Nests, Locks, Waits
  <2>3. /\ lock' \in [ Candidates -> Requests \cup {None} ]
        /\ \A c \in Candidates : lock'[c] \in { lock[c], None, r } /\ (lock'[c] = r => q.pc \in Locks)
    BY <1>1, <2>2 DEF HoldingInv
  <2> HIDE DEF q, r
  <2>4. \E use \in { "own", "nested" } : clients' = clients \cup { << r, use >> }
    BY <1>5
  <2>5. HoldingInv'
    BY <1>1, <1>2, <2>1, <2>2, <2>3, <2>4, HoldingKept
  <2>6. QueueInv'
    BY <1>1, <2>1, <2>2, QueueServed DEF r
  <2> QED
    BY <2>5, <2>6 DEF PoolInv
<1> QED
  BY <1>4, <1>5 DEF Serve

LEMMA AskModelKeeps ==
  ASSUME PoolInv, NEW r \in Requests, AskModel(r)
  PROVE  PoolInv'
<1> DEFINE q == [ req[r] EXCEPT !.pc = "model" ]
<1>1. /\ HoldingInv /\ QueueInv /\ req[r].pc = "statement" /\ waiting' = waiting /\ lock' = lock
      /\ clients' = clients \ { << r, "own" >> } /\ req' = [ req EXCEPT ![r] = q ]
  BY DEF PoolInv, AskModel, At, GivesBack
<1>2. q \in Request /\ q.pc = "model"
  BY HoldersAt, <1>1 DEF Request
<1>3. req[r].pc \notin Nests /\ req[r].pc \notin Locks /\ req[r].pc \notin Waits /\ q.pc # "idle"
      /\ q.pc \notin Waits
  BY <1>1, <1>2 DEF Nests, Locks, Waits
<1> HIDE DEF q
<1>4. << r, "own" >> \notin clients' /\ << r, "nested" >> \notin clients' /\ clients' \subseteq clients
  BY <1>1, <1>3, HoldersAt
<1>5. HoldingInv'
  BY <1>1, <1>2, <1>3, <1>4, MoveKeeps
<1>6. QueueInv'
  BY <1>1, <1>3, QueueKept
<1> QED
  BY <1>5, <1>6 DEF PoolInv

LEMMA LockRowKeeps ==
  ASSUME PoolInv, NEW r \in Requests, LockRow(r)
  PROVE  PoolInv'
<1>1. /\ HoldingInv /\ QueueInv /\ req[r].pc = "statement" /\ clients' = clients
      /\ lock' = [ lock EXCEPT ![req[r].cand] = r ]
  BY DEF PoolInv, LockRow, At
<1>2. req[r].pc \notin Nests /\ req[r].pc \notin Waits
  BY <1>1 DEF Nests, Waits
<1>3. << r, "nested" >> \notin clients' /\ req[r] \in Request
  BY <1>1, <1>2, HoldersAt
<1>4. /\ lock' \in [ Candidates -> Requests \cup {None} ]
      /\ \A c \in Candidates : lock'[c] \in { lock[c], None, r }
  BY <1>1 DEF HoldingInv
<1>5. ASSUME NEW q \in Request, q.pc # "idle", q.pc \in Owns, q.pc \in Locks,
             req' = [ req EXCEPT ![r] = q ]
      PROVE  HoldingInv'
  BY <1>1, <1>3, <1>4, <1>5, HoldingKept
<1>6. CASE waiting' = waiting /\ req' = [ req EXCEPT ![r].pc = "commit" ]
  <2> DEFINE q == [ req[r] EXCEPT !.pc = "commit" ]
  <2>1. q \in Request /\ q.pc = "commit" /\ req' = [ req EXCEPT ![r] = q ]
    BY <1>3, <1>6 DEF Request
  <2>2. q.pc # "idle" /\ q.pc \in Owns /\ q.pc \in Locks /\ q.pc \notin Waits
    BY <2>1 DEF Owns, Locks, Waits
  <2> HIDE DEF q
  <2>3. HoldingInv'
    BY <1>5, <2>1, <2>2
  <2>4. QueueInv'
    BY <1>1, <1>2, <1>6, <2>1, <2>2, QueueKept
  <2> QED
    BY <2>3, <2>4 DEF PoolInv
<1>7. CASE waiting' = Append(waiting, r) /\ req' = [ req EXCEPT ![r].pc = "nested connect" ]
  <2> DEFINE q == [ req[r] EXCEPT !.pc = "nested connect" ]
  <2>1. q \in Request /\ q.pc = "nested connect" /\ req' = [ req EXCEPT ![r] = q ]
    BY <1>3, <1>7 DEF Request
  <2>2. q.pc # "idle" /\ q.pc \in Owns /\ q.pc \in Locks /\ q.pc \in Waits
    BY <2>1 DEF Owns, Locks, Waits
  <2> HIDE DEF q
  <2>3. HoldingInv'
    BY <1>5, <2>1, <2>2
  <2>4. QueueInv'
    BY <1>1, <1>2, <1>7, <2>1, <2>2, QueueJoined
  <2> QED
    BY <2>3, <2>4 DEF PoolInv
<1> QED
  BY <1>6, <1>7 DEF LockRow, Ask

LEMMA NestedQueryKeeps ==
  ASSUME PoolInv, NEW r \in Requests, NestedQuery(r)
  PROVE  PoolInv'
<1> DEFINE q == [ req[r] EXCEPT !.pc = "commit" ]
<1>1. /\ HoldingInv /\ QueueInv /\ req[r].pc = "nested statement"
      /\ waiting' = waiting /\ lock' = lock
      /\ clients' = clients \ { << r, "nested" >> } /\ req' = [ req EXCEPT ![r] = q ]
  BY DEF PoolInv, NestedQuery, At
<1>2. q \in Request /\ q.pc = "commit"
  BY HoldersAt, <1>1 DEF Request
<1>3. /\ req[r].pc \notin Waits /\ q.pc \notin Waits
      /\ q.pc # "idle" /\ q.pc \in Owns /\ q.pc \in Locks
  BY <1>1, <1>2 DEF Waits, Owns, Locks
<1> HIDE DEF q
<1>4. << r, "nested" >> \notin clients' /\ clients' \subseteq clients
  BY <1>1
<1>5. HoldingInv'
  BY <1>1, <1>2, <1>3, <1>4, MoveKeeps
<1>6. QueueInv'
  BY <1>1, <1>3, QueueKept
<1> QED
  BY <1>5, <1>6 DEF PoolInv

LEMMA EndingKeeps ==
  ASSUME PoolInv, NEW r \in Requests, Query(r) \/ Commit(r) \/ Fail(r) \/ AnswerProposal(r)
  PROVE  PoolInv'
<1>1. HoldingInv /\ QueueInv /\ End(r) /\ waiting' = waiting
  BY DEF PoolInv, Query, Commit, Fail, AnswerProposal
<1>2. req[r].pc \in { "statement", "nested statement", "commit", "model" }
  BY DEF Query, Commit, Fail, AnswerProposal, At
<1>3. req[r].pc \notin Waits
  BY <1>2 DEF Waits
<1>4. HoldingInv' /\ req' = [ req EXCEPT ![r] = Idle ]
  BY <1>1, EndKeeps
<1>5. QueueInv'
  BY <1>1, <1>3, <1>4, IdleFacts, QueueKept
<1> QED
  BY <1>4, <1>5 DEF PoolInv

LEMMA TimeoutKeeps ==
  ASSUME PoolInv, NEW r \in Requests, Timeout(r)
  PROVE  PoolInv'
<1>1. HoldingInv /\ QueueInv /\ End(r)
  BY DEF PoolInv, Timeout
<1>2. HoldingInv' /\ req' = [ req EXCEPT ![r] = Idle ]
  BY <1>1, EndKeeps
<1>3. PICK k \in DOMAIN waiting : waiting[k] = r /\ waiting' = RemoveAt(waiting, k)
  BY DEF Timeout
<1>4. k \in 1 .. Len(waiting)
  BY <1>1, LenProperties DEF QueueInv
<1>5. QueueInv'
  BY <1>1, <1>2, <1>3, <1>4, IdleFacts, QueueLeft
<1> QED
  BY <1>2, <1>5 DEF PoolInv

\* Neither a client nor a row is involved.
LEMMA AsideKeeps ==
  ASSUME PoolInv, NEW r \in Requests, NEW q \in Request,
         req[r].pc \in { "idle", "embedded", "model" },
         q = Idle \/ q.pc \in { "embedded", "model" },
         req' = [ req EXCEPT ![r] = q ], UNCHANGED << clients, waiting, lock >>
  PROVE  PoolInv'
<1>1. HoldingInv /\ QueueInv
  BY DEF PoolInv
<1>2. /\ req[r].pc \notin Waits /\ req[r].pc \notin Owns
      /\ req[r].pc \notin Nests /\ req[r].pc \notin Locks
  BY DEF Waits, Owns, Nests, Locks
<1>3. /\ << r, "own" >> \notin clients /\ << r, "nested" >> \notin clients
      /\ \A c \in Candidates : lock[c] # r
  BY <1>1, <1>2, HoldersAt
<1>4. q.pc = "idle" => q = Idle
  OBVIOUS
<1>5. /\ lock' \in [ Candidates -> Requests \cup {None} ]
      /\ \A c \in Candidates : lock'[c] \in { lock[c], None, r } /\ (lock'[c] = r => q.pc \in Locks)
  BY <1>1, <1>3 DEF HoldingInv
<1>6. clients' \subseteq clients /\ << r, "own" >> \notin clients' /\ << r, "nested" >> \notin clients'
  BY <1>3
<1>7. HoldingInv'
  BY <1>1, <1>4, <1>5, <1>6, HoldingKept
<1>8. q.pc \notin Waits
  BY IdleFacts DEF Waits
<1>9. QueueInv'
  BY <1>1, <1>2, <1>8, QueueKept
<1> QED
  BY <1>7, <1>9 DEF PoolInv

LEMMA PoolInitially == PoolInit => PoolInv
<1> SUFFICES ASSUME PoolInit  PROVE PoolInv
  OBVIOUS
<1>1. req \in [ Requests -> Request ] /\ \A r \in Requests : req[r] = Idle
  BY IdleFacts DEF PoolInit
<1>2. lock \in [ Candidates -> Requests \cup {None} ] /\ \A c \in Candidates : lock[c] = None
  BY DEF PoolInit
<1>3. clients = {} /\ IsFiniteSet(clients) /\ Cardinality(clients) = 0
  BY FS_EmptySet DEF PoolInit
<1>4. waiting \in Seq(Requests) /\ Len(waiting) = 0
  BY EmptySeq DEF PoolInit
<1>5. HoldingInv
  BY <1>1, <1>2, <1>3, PoolAssumption DEF HoldingInv
<1>6. QueueInv
  BY <1>1, <1>4, IdleFacts DEF QueueInv
<1> QED
  BY <1>5, <1>6 DEF PoolInv

LEMMA DispatchKeeps ==
  ASSUME PoolInv, NEW r \in Requests, NEW u, NEW kind \in Kinds, Dispatch(r, u, kind)
  PROVE  PoolInv'
<1>1. CASE DatabaseConfigured(env)
  <2>1. PICK c \in IF kind \in { "evidence", "decide" } THEN Candidates ELSE { None } :
               Begin(r, kind, c, u = "dev-user")
    BY <1>1 DEF Dispatch
  <2>2. c \in Candidates \cup {None} /\ (u = "dev-user") \in BOOLEAN
    OBVIOUS
  <2> QED
    BY <2>1, <2>2, BeginKeeps
<1>2. CASE ~DatabaseConfigured(env)
  <2> DEFINE q == [ Idle EXCEPT !.pc = "embedded", !.kind = kind, !.dev = (u = "dev-user") ]
  <2>1. q \in Request /\ q.pc = "embedded"
    BY DEF Idle, Request
  <2>2. /\ req[r] = Idle /\ req' = [ req EXCEPT ![r] = q ]
        /\ UNCHANGED << clients, waiting, lock >>
    BY <1>2 DEF Dispatch
  <2> HIDE DEF q
  <2> QED
    BY <2>1, <2>2, IdleFacts, AsideKeeps
<1> QED
  BY <1>1, <1>2

LEMMA PoolStep ==
  ASSUME PoolInv, [Next]_vars
  PROVE  PoolInv'
<1>1. ASSUME NEW r \in Requests, CheckReadiness(r)  PROVE PoolInv'
  BY <1>1, DispatchKeeps DEF CheckReadiness, Kinds
<1>2. ASSUME NEW r \in Requests, CallServer(r) \/ CallApi(r)  PROVE PoolInv'
  <2>1. CASE CallServer(r)
    BY <2>1, DispatchKeeps DEF CallServer, Application
  <2>2. CASE CallApi(r)
    <3>1. { "query", "evidence" } \subseteq Kinds
      BY DEF Kinds
    <3> QED
      BY <2>2, <3>1, DispatchKeeps DEF CallApi
  <2> QED
    BY <1>2, <2>1, <2>2
<1>3. ASSUME NEW r \in Requests, AnswerEmbedded(r)  PROVE PoolInv'
  BY <1>3, IdleFacts, AsideKeeps DEF AnswerEmbedded, At
<1>4. ASSUME NEW r \in Requests, AskNextProvider(r)  PROVE PoolInv'
  <2> DEFINE n == req[r].tried + 1
             q == [ req[r] EXCEPT !.tried = n ]
  <2>1. req[r] \in Request /\ n \in Nat
    <3>1. req[r] \in Request
      BY DEF PoolInv, HoldingInv
    <3>2. req[r].tried \in Nat
      BY <3>1 DEF Request
    <3> QED
      BY <3>1, <3>2
  <2> HIDE DEF n
  <2>2. q \in Request /\ q.pc = req[r].pc
    BY <2>1 DEF Request
  <2> USE DEF n
  <2>3. /\ req[r].pc = "model" /\ req' = [ req EXCEPT ![r] = q ]
        /\ UNCHANGED << clients, waiting, lock >>
    BY <1>4 DEF AskNextProvider, At
  <2> HIDE DEF q
  <2> QED
    BY <2>2, <2>3, AsideKeeps
<1>5. ASSUME NEW r \in Requests, AnswerProposal(r) \/ Pool(Fail(r))  PROVE PoolInv'
  BY <1>5, EndingKeeps DEF Pool
<1>6. ASSUME NEW r \in Requests, Pool(Proceed(r))  PROVE PoolInv'
  BY <1>6, EndingKeeps, AskModelKeeps, LockRowKeeps, NestedQueryKeeps DEF Pool, Proceed
<1>7. ASSUME NEW r \in Requests, Pool(Timeout(r))  PROVE PoolInv'
  BY <1>7, TimeoutKeeps DEF Pool
<1>8. CASE Pool(Serve)
  BY <1>8, ServeKeeps DEF Pool
<1>9. ASSUME UNCHANGED poolVars  PROVE PoolInv'
  BY <1>9 DEF poolVars, PoolInv, HoldingInv, QueueInv
<1>10. ASSUME NEW p \in Migrators, Crash(p)  PROVE PoolInv'
  <2>1. CASE p = Self
    <3>1. PoolInit'
      BY <1>10, <2>1 DEF Crash, PoolInit
    <3> QED
      BY <3>1, PoolInitially, PTL
  <2>2. CASE p # Self
    BY <1>10, <2>2, <1>9 DEF Crash
  <2> QED
    BY <2>1, <2>2
<1>11. ASSUME NEW p \in Migrators, StartUp(p)  PROVE PoolInv'
  BY <1>11, <1>9 DEF StartUp
<1>12. CASE PassTime \/ UNCHANGED vars
  BY <1>12, <1>9 DEF PassTime, vars
<1>13. CASE Next
  BY <1>13, <1>1, <1>2, <1>3, <1>4, <1>5, <1>6, <1>7, <1>8, <1>10, <1>11, <1>12 DEF Next
<1> QED
  BY <1>12, <1>13

THEOREM PoolInvariant == Spec => []PoolInv
  BY PoolInitially, PoolStep, PTL DEF Spec, Init

(* withTransaction, getSql and the timeout of the wait give back whatever a *)
(* request has had, whichever way the request ends.                         *)
THEOREM NothingLeaksHolds == Spec => []NothingLeaks
<1>1. PoolInv => NothingLeaks
  <2> SUFFICES ASSUME PoolInv, NEW r \in Requests, req[r] = Idle
               PROVE  /\ << r, "own" >> \notin clients /\ << r, "nested" >> \notin clients
                      /\ r \notin ToSet(waiting)
                      /\ \A c \in Candidates : lock[c] # r
    BY DEF NothingLeaks
  <2>1. r \notin ToSet(waiting)
    BY LenProperties, IdleFacts DEF PoolInv, QueueInv, ToSet
  <2> QED
    BY <2>1, IdleFacts, HoldersAt DEF PoolInv
<1> QED
  BY <1>1, PoolInvariant, PTL

(* proposeAdversarialChecks has given back its client before it asks the   *)
(* first provider of a model, and holds no row while it waits.             *)
THEOREM ModelHoldsNothingHolds == Spec => []ModelHoldsNothing
<1>1. PoolInv => ModelHoldsNothing
  <2> SUFFICES ASSUME PoolInv, NEW r \in Requests, req[r].pc = "model"
               PROVE  /\ << r, "own" >> \notin clients /\ << r, "nested" >> \notin clients
                      /\ \A c \in Candidates : lock[c] # r
    BY DEF ModelHoldsNothing, At
  <2>1. req[r].pc \notin Owns /\ req[r].pc \notin Nests /\ req[r].pc \notin Locks
    BY DEF Owns, Nests, Locks
  <2> QED
    BY <2>1, HoldersAt DEF PoolInv
<1> QED
  BY <1>1, PoolInvariant, PTL

(* Whoever holds a client or a row that another request waits for goes on, *)
(* or waits for nothing but a row whose holder does: the timeout of the    *)
(* wait for a client (connectionTimeoutMillis) breaks the cycle that       *)
(* decisions close when they query the pool while they hold both.          *)
THEOREM HoldersGoOnHolds == Spec => []HoldersGoOn
<1>1. ASSUME PoolInv, NEW s \in Requests, req[s].pc \in Locks  PROVE GoesOn(s)
  <2>1. CASE req[s].pc = "nested connect"
    <3>1. req[s].pc \in Waits
      BY <2>1 DEF Waits
    <3>2. PICK i \in 1 .. Len(waiting) : waiting[i] = s
      BY <1>1, <3>1 DEF PoolInv, QueueInv
    <3>3. s \in ToSet(waiting)
      BY <1>1, <3>2, LenProperties DEF PoolInv, QueueInv, ToSet
    <3> QED
      BY <3>3 DEF GoesOn, Expires
  <2>2. CASE req[s].pc \in { "nested statement", "commit" }
    BY <2>2 DEF GoesOn, InDatabase, WaitsForRow, At
  <2> QED
    BY <1>1, <2>1, <2>2 DEF Locks
<1>2. ASSUME PoolInv, NEW s \in Requests, req[s].pc \in Owns
      PROVE  GoesOn(s) \/ (WaitsForRow(s) /\ GoesOn(lock[req[s].cand]))
  <2>1. CASE req[s].pc \in Locks
    BY <1>1, <1>2, <2>1
  <2>2. CASE req[s].pc = "statement" /\ ~WaitsForRow(s)
    BY <2>2 DEF GoesOn, InDatabase
  <2>3. CASE WaitsForRow(s)
    <3> DEFINE h == lock[req[s].cand]
    <3>1. h \in Requests /\ req[h].pc \in Locks
      BY <1>2, <2>3 DEF WaitsForRow, PoolInv, HoldingInv
    <3> QED
      BY <1>1, <1>2, <2>3, <3>1
  <2> QED
    BY <1>2, <2>1, <2>2, <2>3 DEF Owns, Locks
<1>3. PoolInv => HoldersGoOn
  <2> SUFFICES ASSUME PoolInv, NEW r \in Requests, NEW s \in Requests, WaitsFor(r, s)
               PROVE  GoesOn(s) \/ (WaitsForRow(s) /\ GoesOn(lock[req[s].cand]))
    BY DEF HoldersGoOn
  <2>1. CASE WaitsForRow(r) /\ lock[req[r].cand] = s
    <3>1. req[s].pc \in Locks
      BY <2>1 DEF WaitsForRow, PoolInv, HoldingInv
    <3> QED
      BY <1>1, <3>1
  <2>2. CASE \E use \in { "own", "nested" } : << s, use >> \in clients
    <3>1. Nests \subseteq Owns
      BY DEF Nests, Owns
    <3>2. req[s].pc \in Owns
      BY <2>2, <3>1 DEF PoolInv, HoldingInv
    <3> QED
      BY <1>2, <3>2
  <2> QED
    BY <2>1, <2>2 DEF WaitsFor
<1> QED
  BY <1>3, PoolInvariant, PTL

-----------------------------------------------------------------------------
(* Admission.  What has been checked when a request came in still holds    *)
(* while it runs: the environment of a process does not change, and a      *)
(* process that goes down takes its requests with it.                      *)

RequestInv(r) ==
  /\ req[r] # Idle => Up(Self)
  /\ req[r] # Idle /\ ~At(r, "embedded") => env.database = "url"
  /\ req[r] # Idle /\ req[r].kind # "readiness" => Serves(env)
  /\ req[r].dev => Serves(env) /\ DevUserAllowed(env)

AdmissionInv ==
  /\ env \in Environment
  /\ \A p \in Migrators : Up(p) => ComesUp(p)
  /\ \A r \in Requests : RequestInv(r)

ServerInv == LimiterInv /\ MigratorInv /\ PoolInv /\ AdmissionInv

LEMMA AdmissionInitially == Init => AdmissionInv
<1> SUFFICES ASSUME Init  PROVE AdmissionInv
  OBVIOUS
<1>1. env \in Environment
  BY ServerAssumption DEF Init
<1>2. \A p \in Migrators : ~Up(p)
  BY DEF Init, MigratorInit, Down, Up
<1>3. \A r \in Requests : req[r] = Idle /\ ~req[r].dev
  BY DEF Init, PoolInit, Idle
<1> QED
  BY <1>1, <1>2, <1>3 DEF AdmissionInv, RequestInv

\* A request goes on as what it was admitted as.
StaysAdmitted(r) ==
  /\ req[r] # Idle
  /\ ~At(r, "embedded")
  /\ req'[r].kind = req[r].kind
  /\ req'[r].dev = req[r].dev

\* A request comes in.
ComesIn(r) ==
  /\ Up(Self)
  /\ \E u : \E kind \in Kinds :
       /\ Dispatch(r, u, kind)
       /\ \/ u = "nobody" /\ kind = "readiness"
          \/ u \in Callers \cup Accounts /\ Serves(env)

LEMMA RequestMoves ==
  ASSUME PoolInv, [Next]_vars, NEW r \in Requests
  PROVE  req'[r] = req[r] \/ req'[r] = Idle \/ StaysAdmitted(r) \/ ComesIn(r)
<1>1. req \in [ Requests -> Request ] /\ req[r] \in Request
  BY DEF PoolInv, HoldingInv
<1>2. ASSUME NEW pc, pc # "idle", pc # "embedded", At(r, pc)  PROVE req[r] # Idle /\ ~At(r, "embedded")
  BY <1>2, IdleFacts DEF At
<1>3. ASSUME NEW s \in Requests, s # r, NEW q, req' = [ req EXCEPT ![s] = q ]
      PROVE  req'[r] = req[r]
  BY <1>1, <1>3
<1>4. ASSUME NEW s \in Requests, End(s)
      PROVE  req'[r] = req[r] \/ req'[r] = Idle
  BY <1>1, <1>4 DEF End
<1>5. ASSUME NEW pc, NEW s \in Requests, req' = [ req EXCEPT ![s].pc = pc ],
             req[s] # Idle, ~At(s, "embedded")
      PROVE  req'[r] = req[r] \/ StaysAdmitted(r)
  <2>1. CASE s = r
    <3>1. req'[r] = [ req[r] EXCEPT !.pc = pc ]
      BY <1>1, <1>5, <2>1
    <3>2. req'[r].kind = req[r].kind /\ req'[r].dev = req[r].dev
      BY <1>1, <3>1 DEF Request
    <3> QED
      BY <1>5, <2>1, <3>2 DEF StaysAdmitted
  <2>2. CASE s # r
    BY <1>1, <1>5, <2>2
  <2> QED
    BY <2>1, <2>2
<1>6. ASSUME NEW s \in Requests, NEW u, NEW kind \in Kinds, Dispatch(s, u, kind), s # r
      PROVE  req'[r] = req[r]
  BY <1>1, <1>6 DEF Dispatch, Begin
<1>7. ASSUME NEW s \in Requests, Up(Self), NEW u, NEW kind \in Kinds, Dispatch(s, u, kind),
             \/ u = "nobody" /\ kind = "readiness"
             \/ u \in Callers \cup Accounts /\ Serves(env)
      PROVE  req'[r] = req[r] \/ ComesIn(r)
  <2>1. CASE s = r
    <3>1. Dispatch(r, u, kind)
      BY <1>7, <2>1
    <3>2. \E v : \E k \in Kinds :
            /\ Dispatch(r, v, k)
            /\ \/ v = "nobody" /\ k = "readiness"
               \/ v \in Callers \cup Accounts /\ Serves(env)
      BY <1>7, <3>1
    <3> QED
      BY <1>7, <3>2 DEF ComesIn
  <2>2. CASE s # r
    BY <1>6, <1>7, <2>2
  <2> QED
    BY <2>1, <2>2
<1>8. ASSUME NEW s \in Requests, CheckReadiness(s)  PROVE req'[r] = req[r] \/ ComesIn(r)
  <2>1. "readiness" \in Kinds /\ Up(Self) /\ Dispatch(s, "nobody", "readiness")
    BY <1>8 DEF CheckReadiness, Kinds
  <2> QED
    BY <1>7, <2>1
<1>9. ASSUME NEW s \in Requests, CallServer(s) \/ CallApi(s)
      PROVE  req'[r] = req[r] \/ ComesIn(r)
  <2>1. Up(Self) /\ Serves(env)
    BY <1>9 DEF CallServer, CallApi
  <2>2. CASE CallServer(s)
    <3>1. PICK u \in Callers, kind \in Kinds : Dispatch(s, u, kind)
      BY <2>2 DEF CallServer, Application
    <3> QED
      BY <1>7, <2>1, <3>1
  <2>3. CASE CallApi(s)
    <3>1. PICK u \in Accounts, kind \in { "query", "evidence" } : Dispatch(s, u, kind)
      BY <2>3 DEF CallApi
    <3>2. kind \in Kinds
      BY DEF Kinds
    <3> QED
      BY <1>7, <2>1, <3>1, <3>2
  <2> QED
    BY <1>9, <2>2, <2>3
<1>10. ASSUME NEW s \in Requests, AnswerEmbedded(s)  PROVE req'[r] = req[r] \/ req'[r] = Idle
  BY <1>1, <1>10 DEF AnswerEmbedded
<1>11. ASSUME NEW s \in Requests, AskNextProvider(s)  PROVE req'[r] = req[r] \/ StaysAdmitted(r)
  <2>1. CASE s = r
    <3>1. req'[r] = [ req[r] EXCEPT !.tried = @ + 1 ] /\ At(r, "model")
      BY <1>1, <1>11, <2>1 DEF AskNextProvider
    <3>2. req'[r].kind = req[r].kind /\ req'[r].dev = req[r].dev
      BY <1>1, <3>1 DEF Request
    <3>3. req[r] # Idle /\ ~At(r, "embedded")
      BY <3>1, IdleFacts DEF At
    <3> QED
      BY <3>2, <3>3 DEF StaysAdmitted
  <2>2. CASE s # r
    BY <1>1, <1>11, <2>2 DEF AskNextProvider
  <2> QED
    BY <2>1, <2>2
<1>12. ASSUME NEW s \in Requests, AnswerProposal(s) \/ Pool(Timeout(s)) \/ Pool(Fail(s))
       PROVE  req'[r] = req[r] \/ req'[r] = Idle
  BY <1>4, <1>12 DEF AnswerProposal, Pool, Timeout, Fail
<1>13. ASSUME NEW s \in Requests, Pool(Proceed(s))
       PROVE  req'[r] = req[r] \/ req'[r] = Idle \/ StaysAdmitted(r)
  <2>1. CASE Query(s) \/ Commit(s)
    BY <1>4, <2>1 DEF Query, Commit
  <2>2. CASE AskModel(s) \/ LockRow(s) \/ NestedQuery(s)
    <3>1. \E pc : req' = [ req EXCEPT ![s].pc = pc ]
      BY <2>2 DEF AskModel, LockRow, NestedQuery, Ask
    <3>2. req[s] # Idle /\ ~At(s, "embedded")
      BY <2>2, IdleFacts DEF AskModel, LockRow, NestedQuery, At
    <3> QED
      BY <1>5, <3>1, <3>2
  <2> QED
    BY <1>13, <2>1, <2>2 DEF Pool, Proceed
<1>14. CASE Pool(Serve)
  <2>1. PICK pc : req' = [ req EXCEPT ![Head(waiting)].pc = pc ]
    BY <1>14 DEF Pool, Serve
  <2>2. Head(waiting) \in Requests
    BY <1>14, HeadTailProperties DEF Pool, Serve, PoolInv, QueueInv
  <2>3. req[Head(waiting)] # Idle /\ ~At(Head(waiting), "embedded")
    BY <1>14, IdleFacts DEF Pool, Serve, At
  <2> QED
    BY <1>5, <2>1, <2>2, <2>3
<1>15. ASSUME NEW p \in Migrators, StartUp(p) \/ Crash(p)  PROVE req'[r] = req[r] \/ req'[r] = Idle
  BY <1>15 DEF StartUp, Crash, poolVars
<1>16. CASE PassTime \/ UNCHANGED vars
  BY <1>16 DEF PassTime, vars, poolVars
<1>17. CASE Next
  BY <1>17, <1>8, <1>9, <1>10, <1>11, <1>12, <1>13, <1>14, <1>15, <1>16 DEF Next
<1> QED
  BY <1>16, <1>17

\* The server does not go down under its requests.
LEMMA DownMeansIdle ==
  ASSUME MigratorInv, [Next]_vars, Up(Self), ~Up(Self)'
  PROVE  \A r \in Requests : req'[r] = Idle
<1>1. ASSUME UNCHANGED migratorVars  PROVE FALSE
  BY <1>1 DEF migratorVars, Up
<1>2. ASSUME NEW p \in Migrators, StartUp(p)  PROVE FALSE
  <2>1. process[p].pc = "up" => p # Self \/ FALSE
    BY <1>2, ServerAssumption DEF StartUp, Migrate, ReadLedger, ApplyFile, FinishMigration,
       SkipMigration, FailToConnect, Down, Up, migratorVars
  <2>2. p # Self => process'[Self] = process[Self]
    BY <1>2, ServerAssumption DEF StartUp, Migrate, ReadLedger, ApplyFile, FinishMigration,
       SkipMigration, FailToConnect, migratorVars, MigratorInv, MigratorTypeOK
  <2> QED
    BY <2>1, <2>2 DEF Up
<1>3. ASSUME NEW p \in Migrators, Crash(p)  PROVE \A r \in Requests : req'[r] = Idle
  <2>1. CASE p = Self
    BY <1>3, <2>1 DEF Crash
  <2>2. CASE p # Self
    BY <1>3, <2>2, ServerAssumption DEF Crash, CrashProcess, Up, MigratorInv, MigratorTypeOK
  <2> QED
    BY <2>1, <2>2
<1>4. ASSUME NEW r \in Requests,
             \/ CheckReadiness(r) \/ CallServer(r) \/ CallApi(r)
             \/ AnswerEmbedded(r) \/ AskNextProvider(r) \/ AnswerProposal(r)
             \/ Pool(Proceed(r)) \/ Pool(Timeout(r)) \/ Pool(Fail(r))
      PROVE  UNCHANGED migratorVars
  BY <1>4 DEF CheckReadiness, CallServer, CallApi, AnswerEmbedded, AskNextProvider,
     AnswerProposal, Pool
<1>5. CASE Pool(Serve) \/ PassTime \/ UNCHANGED vars
  BY <1>1, <1>5 DEF Pool, PassTime, vars
<1> QED
  BY <1>1, <1>2, <1>3, <1>4, <1>5 DEF Next

LEMMA AdmissionStep ==
  ASSUME MigratorInv, PoolInv, AdmissionInv, [Next]_vars
  PROVE  AdmissionInv'
<1>1. /\ env' = env /\ Len(schema) <= Len(schema') /\ MigratorInv'
      /\ \A p \in Migrators : Up(p)' => Up(p) \/ ComesUp(p)
  BY MigratorStep
<1>2. \A p \in Migrators : ComesUp(p) => ComesUp(p)'
  <2>1. /\ Len(schema) \in Nat /\ Len(schema') \in Nat /\ Len(Files) \in Nat
        /\ Len(schema') <= Len(Files)
    BY <1>1, LenProperties, FilesAreASequence DEF MigratorInv, MigratorTypeOK
  <2> QED
    BY <1>1, <2>1 DEF ComesUp
<1>3. \A p \in Migrators : Up(p)' => ComesUp(p)'
  BY <1>1, <1>2 DEF AdmissionInv
<1>4. ASSUME NEW r \in Requests  PROVE RequestInv(r)'
  <2>1. req[r] \in Request /\ req'[r] \in Request
    BY PoolStep DEF PoolInv, HoldingInv
  <2>2. Serves(env)' = Serves(env) /\ DevUserAllowed(env)' = DevUserAllowed(env)
    BY <1>1
  <2>3. CASE req'[r] = Idle
    BY <2>3 DEF RequestInv, Idle
  <2>4. ASSUME req'[r] # Idle, Up(Self)  PROVE Up(Self)'
    BY <2>4, DownMeansIdle
  <2>5. CASE req'[r] = req[r]
    BY <1>1, <2>2, <2>3, <2>4, <2>5 DEF AdmissionInv, RequestInv, At
  <2>6. CASE StaysAdmitted(r)
    BY <1>1, <2>2, <2>3, <2>4, <2>6 DEF AdmissionInv, RequestInv, StaysAdmitted
  <2>7. CASE ComesIn(r) /\ req'[r] # Idle
    <3>0. PICK u : \E kind \in Kinds :
            /\ Dispatch(r, u, kind)
            /\ \/ u = "nobody" /\ kind = "readiness"
               \/ u \in Callers \cup Accounts /\ Serves(env)
      BY <2>7 DEF ComesIn
    <3>1. PICK kind \in Kinds :
            /\ Dispatch(r, u, kind)
            /\ \/ u = "nobody" /\ kind = "readiness"
               \/ u \in Callers \cup Accounts /\ Serves(env)
      BY <3>0
    <3>2. Up(Self)'
      BY <2>4, <2>7 DEF ComesIn
    <3>3. u = "dev-user" => Serves(env) /\ DevUserAllowed(env)
      BY <3>1 DEF Callers, Accounts, ActsAs
    <3>4. CASE DatabaseConfigured(env)
      <4>1. req'[r].kind = kind /\ req'[r].dev = (u = "dev-user")
        <5>1. \E c : req' = [ req EXCEPT ![r] = [ Idle EXCEPT !.pc = "connect", !.kind = kind,
                                                     !.cand = c, !.dev = (u = "dev-user") ] ]
          BY <3>1, <3>4 DEF Dispatch, Begin
        <5> QED
          BY <5>1 DEF PoolInv, HoldingInv, Idle
      <4>2. kind # "readiness" => Serves(env)
        BY <3>1
      <4> QED
        BY <1>1, <2>2, <3>2, <3>3, <3>4, <4>1, <4>2 DEF RequestInv, DatabaseConfigured
    <3>5. CASE ~DatabaseConfigured(env)
      <4>1. /\ req'[r].pc = "embedded" /\ req'[r].kind = kind
            /\ req'[r].dev = (u = "dev-user")
        <5>1. req' = [ req EXCEPT ![r] = [ Idle EXCEPT !.pc = "embedded", !.kind = kind,
                                                      !.dev = (u = "dev-user") ] ]
          BY <3>1, <3>5 DEF Dispatch
        <5> QED
          BY <5>1 DEF PoolInv, HoldingInv, Idle
      <4>2. kind # "readiness" => Serves(env)
        BY <3>1
      <4> QED
        BY <2>2, <3>2, <3>3, <4>1, <4>2 DEF RequestInv, At
    <3> QED
      BY <3>4, <3>5
  <2> QED
    BY <2>3, <2>5, <2>6, <2>7, RequestMoves
<1> QED
  BY <1>1, <1>3, <1>4 DEF AdmissionInv

THEOREM ServerInvariant == Spec => []ServerInv
<1>1. Init => AdmissionInv
  BY AdmissionInitially
<1>2. MigratorInv /\ PoolInv /\ AdmissionInv /\ [Next]_vars => AdmissionInv'
  BY AdmissionStep
<1> QED
  BY <1>1, <1>2, LimiterInvariant, MigratorInvariant, PoolInvariant, PTL DEF Spec, ServerInv

(* The environment, the buckets, the processes, the requests and the pool   *)
(* keep the shape the code gives them.                                      *)
THEOREM TypeCorrect == Spec => []TypeOK
<1>1. ServerInv => TypeOK
  BY DEF ServerInv, AdmissionInv, LimiterInv, MigratorInv, PoolInv, HoldingInv, QueueInv,
     TypeOK, PoolTypeOK
<1> QED
  BY <1>1, ServerInvariant, PTL

\* Where the server serves on a configuration that is not ready, the channel is
\* that of development.
LEMMA ChannelOfAnUnreadyServer ==
  ASSUME NEW e \in Environment, Serves(e), Issues(e) # {}
  PROVE  /\ e.channel \in { "development", "unset" }
         /\ e.channel = "unset" => e.node = "other" /\ e.public \notin { "true", "1" }
<1>1. ReleaseChannel(e) = "development"
  BY DEF Serves, Ready, Enforced
<1>2. e.channel \in { "unset", "development", "controlled_beta", "public_ga", "unknown" }
      /\ e.node \in { "production", "other" }
  BY DEF Environment
<1> QED
  BY <1>1, <1>2 DEF ReleaseChannel

(* The user without a password that verify.server.ts falls back to is that  *)
(* of a development server on its embedded database, whatever the other     *)
(* readers of the environment make of it.                                   *)
THEOREM DevUserIsLocalHolds == Spec => []DevUserIsLocal
<1>1. ServerInv => DevUserIsLocal
  <2> SUFFICES ASSUME ServerInv, NEW r \in Requests, req[r].dev
               PROVE  /\ env.database = "unset"
                      /\ env.node # "production"
                      /\ \/ env.channel = "development"
                         \/ env.channel = "unset" /\ env.public = "unset"
    BY DEF DevUserIsLocal
  <2>1. env \in Environment /\ Serves(env) /\ DevUserAllowed(env) /\ req[r] # Idle
    BY DEF ServerInv, AdmissionInv, RequestInv, Idle
  <2>2. Up(Self) /\ ComesUp(Self)
    BY <2>1, ServerAssumption DEF ServerInv, AdmissionInv, RequestInv
  <2>3. env.database = "unset" /\ env.node # "production" /\ env.public \notin { "true", "padded" }
    BY <2>1, <2>2 DEF ComesUp, DevUserAllowed, DatabaseConfigured, publicRelease
  <2>4. Enforced(env) => Issues(env) # {}
    <3>1. "DATABASE_URL is missing" \in AuthIssues(env)
      BY <2>3 DEF AuthIssues, DatabaseConfigured
    <3> QED
      BY <3>1 DEF Issues
  <2>5. CASE Enforced(env)
    BY <2>1, <2>3, <2>4, <2>5, ChannelOfAnUnreadyServer DEF Environment
  <2>6. CASE ~Enforced(env)
    <3>1. ReleaseChannel(env) = "development"
      BY <2>6 DEF Enforced
    <3> QED
      BY <2>1, <2>3, <3>1 DEF ReleaseChannel, Environment
  <2> QED
    BY <2>3, <2>5, <2>6
<1> QED
  BY <1>1, ServerInvariant, PTL

(* server.ts lets no request, on Postgres or on the embedded database, past  *)
(* a configuration that lacks a setting its channel requires, the readiness  *)
(* check excepted, and none reaches Postgres before the migrations are done. *)
THEOREM ServesWhenReadyHolds == Spec => []ServesWhenReady
<1>1. ServerInv => ServesWhenReady
  <2> SUFFICES ASSUME ServerInv, NEW r \in Requests, req[r] # Idle
               PROVE  /\ At(r, "embedded") \/ schema = Files
                      /\ req[r].kind # "readiness" => IsDevelopment(env) \/ IsComplete(env)
    BY DEF ServesWhenReady
  <2>1. RequestInv(r) /\ ComesUp(Self) /\ env \in Environment
    BY ServerAssumption DEF ServerInv, AdmissionInv, RequestInv
  <2>2. ASSUME ~At(r, "embedded")  PROVE schema = Files
    <3>1. Len(schema) = Len(Files)
      BY <2>1, <2>2 DEF RequestInv, ComesUp
    <3>2. schema \in Seq(ToSet(Files)) /\ \A i \in 1 .. Len(schema) : schema[i] = Files[i]
      BY DEF ServerInv, MigratorInv, MigratorTypeOK
    <3> QED
      BY <3>1, <3>2, FilesAreASequence, SeqEqual
  <2>3. ASSUME req[r].kind # "readiness", ~IsDevelopment(env)  PROVE IsComplete(env)
    <3>1. Serves(env)
      BY <2>1, <2>3 DEF RequestInv
    <3>2. Enforced(env)
      BY <2>1, <2>3 DEF Enforced, ReleaseChannel, Environment, IsDevelopment
    <3>3. Issues(env) = {}
      BY <3>1, <3>2 DEF Serves, Ready
    <3>4. ChannelIssues(env) = {} /\ AuthIssues(env) = {} /\ env.wrong = {} /\ SignupIssues(env) = {}
      BY <3>2, <3>3 DEF Issues
    <3>5. env.channel # "unknown"
      BY <3>4 DEF ChannelIssues
    <3>6. env.auth # "false" /\ env.password /\ env.database = "url"
      BY <3>4 DEF AuthIssues, DatabaseConfigured
    <3>7. /\ ~(ReleaseChannel(env) = "controlled_beta" /\ env.signups)
          /\ ~(ReleaseChannel(env) = "public_ga" /\ ~env.reviewed)
          /\ ~(env.signups /\ ~env.email)
      BY <3>4 DEF SignupIssues, publicEmailConfigured
    <3>8. /\ IsPublic(env) => ReleaseChannel(env) = "public_ga"
          /\ ~IsPublic(env) => ReleaseChannel(env) = "controlled_beta"
      BY <2>1, <2>3, <3>5 DEF IsPublic, IsDevelopment, ReleaseChannel, Environment
    <3> QED
      BY <2>1, <3>4, <3>5, <3>6, <3>7, <3>8 DEF IsComplete, Environment
  <2> QED
    BY <2>2, <2>3
<1> QED
  BY <1>1, ServerInvariant, PTL
=============================================================================
