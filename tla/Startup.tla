------------------------------- MODULE Startup -------------------------------
(***************************************************************************)
(* How an instance starts: bootstrap (main.ts), which lets                 *)
(* DatabaseSetup.initializeDatabase create, migrate and seed the           *)
(* database unless the flag file prisma/.db-initialized is on the          *)
(* instance's disk, then connects and listens.  The flag is on a disk,     *)
(* the data in a database shared by all instances, and the tables carry    *)
(* no foreign keys (relationMode = "prisma"): what the data is worth       *)
(* after crashes, failed inserts, racing starts, new releases and a        *)
(* recreated database depends on the order of the steps alone.             *)
(*                                                                         *)
(* A definition named like the one below it with a suffix is a faulty      *)
(* variant of it: no action uses it, and put in the definition's place     *)
(* it makes a property of this module fail.                                *)
(***************************************************************************)
EXTENDS Integers, Sequences

CONSTANTS
    Instances,   \* Node processes
    Disks,       \* working directories
    DiskOf,      \* the disk an instance starts from
    Releases,    \* releases 1..Releases of the code, one migration each
    MaxStarts,   \* bound on the starts of each instance
    MaxDatabases \* bound on the databases there have been

ASSUME StartupAssumption ==
    /\ DiskOf \in [Instances -> Disks]
    /\ MaxStarts \in [Instances -> Nat]
    /\ Releases \in Nat \ {0} /\ MaxDatabases \in Nat \ {0}

\* runSeed, in its order.
Seeds == <<"userAccount", "coupon", "fcfsCoupon", "product",
           "productVariant", "productImage", "userBalance">>
Tables == {Seeds[n] : n \in DOMAIN Seeds}

\* The tables whose seed rows fall under a unique index of the schema:
\* createMany with skipDuplicates is an INSERT IGNORE and skips them.
Keyed == {"userAccount", "productVariant", "userBalance"}

\* The rows of the first table name ids 1, 2, ... of the second one.
Refers == {<<"fcfsCoupon", "coupon">>, <<"productVariant", "product">>,
           <<"productImage", "product">>, <<"productImage", "productVariant">>,
           <<"userBalance", "userAccount">>}
Named == {r[2] : r \in Refers}

VARIABLES
    pc,       \* where each instance is
    next,     \* the number of the table that an instance seeds next
    release,  \* the release an instance runs
    starts,   \* how often it has been started
    flag,     \* the flag file of each disk: [db, release] it was written with,
              \* db = 0 while there is none
    db,       \* the number of the current database
    made,     \* the database exists
    schema,   \* the number of migrations applied
    broken,   \* a migration failed half-way: migrate refuses to go on
    migrator, \* the instances that hold the advisory lock of migrate
    copies,   \* how often the seed rows of a table are there
    there,    \* the tables with a row for each of their first ids
    gaps,     \* the tables whose first ids were drawn for rows that never came
    drawing   \* the instances whose open insert has drawn the first ids

instVars == <<next, release, starts>>
dataVars == <<copies, there, gaps, drawing>>
baseVars == <<db, made, schema, broken>>
vars == <<pc, instVars, flag, baseVars, migrator, dataVars>>

Stages == {"off", "check", "create", "lock", "migrate", "seed", "mark",
           "connect", "redis", "kafka", "serving"}

TypeOK ==
    /\ pc \in [Instances -> Stages]
    /\ next \in [Instances -> 1 .. Len(Seeds) + 1]
    /\ release \in [Instances -> 1 .. Releases]
    /\ starts \in [Instances -> Nat]
    /\ flag \in [Disks -> [db : 0 .. MaxDatabases, release : 0 .. Releases]]
    /\ db \in 1 .. MaxDatabases
    /\ made \in BOOLEAN
    /\ schema \in 0 .. Releases
    /\ broken \in BOOLEAN
    /\ migrator \in SUBSET Instances
    /\ copies \in [Tables -> Nat]
    /\ there \subseteq Tables /\ gaps \subseteq Tables
    /\ drawing \subseteq Instances

\* Before the first start.  Docker's MySQL may have made the database already.
Init ==
    /\ pc = [i \in Instances |-> "off"]
    /\ next = [i \in Instances |-> 1]
    /\ release = [i \in Instances |-> 1]
    /\ starts = [i \in Instances |-> 0]
    /\ flag = [d \in Disks |-> [db |-> 0, release |-> 0]]
    /\ db = 1
    /\ made \in BOOLEAN
    /\ schema = 0
    /\ broken = FALSE
    /\ migrator = {}
    /\ copies = [t \in Tables |-> 0]
    /\ there = {} /\ gaps = {} /\ drawing = {}

-----------------------------------------------------------------------------
Goto(i, stage) == pc' = [pc EXCEPT ![i] = stage]

\* process.exit(1), a failed hook, or the process dies: its connections close.
Down(i) ==
    /\ Goto(i, "off")
    /\ migrator' = migrator \ {i}

Start(i) ==
    /\ pc[i] = "off"
    /\ starts[i] < MaxStarts[i]
    /\ starts' = [starts EXCEPT ![i] = @ + 1]
    /\ Goto(i, "check")
    /\ UNCHANGED <<next, release, flag, baseVars, migrator, dataVars>>

\* isInitialized: the file is there, whatever database or release it is from.
InitializedNever(i) == FALSE
Initialized(i) == flag[DiskOf[i]].db # 0

Check(i) ==
    /\ pc[i] = "check"
    /\ Goto(i, IF Initialized(i) THEN "connect" ELSE "create")
    /\ UNCHANGED <<instVars, flag, baseVars, migrator, dataVars>>

\* createDatabase: CREATE DATABASE IF NOT EXISTS.
Create(i) ==
    /\ pc[i] = "create"
    /\ made' = TRUE
    /\ Goto(i, "lock")
    /\ UNCHANGED <<instVars, flag, db, schema, broken, migrator, dataVars>>

\* runPrismaCommand: migrate takes an advisory lock, or gives up after 10 s.
LockMigration(i) ==
    /\ pc[i] = "lock"
    /\ \/ /\ migrator = {}
          /\ migrator' = {i}
          /\ Goto(i, "migrate")
       \/ /\ migrator # {}
          /\ Down(i)
    /\ UNCHANGED <<instVars, flag, baseVars, dataVars>>

\* One migration is applied.  MySQL does not roll DDL back.
ApplyMigration(i) ==
    /\ pc[i] = "migrate"
    /\ ~broken /\ schema < release[i]
    /\ schema' = schema + 1
    /\ UNCHANGED <<pc, instVars, flag, db, made, broken, migrator, dataVars>>

BreakMigration(i) ==
    /\ pc[i] = "migrate"
    /\ ~broken /\ schema < release[i]
    /\ broken' = TRUE
    /\ Down(i)
    /\ UNCHANGED <<instVars, flag, db, made, schema, dataVars>>

\* The command's exit code decides: only 0 goes on to the seed.
SeedAfterAny(i) == TRUE
SeedAfter(i) == schema >= release[i] /\ ~broken

EndMigration(i) ==
    /\ pc[i] = "migrate"
    /\ broken \/ schema >= release[i]
    /\ migrator' = migrator \ {i}
    /\ Goto(i, IF SeedAfter(i) THEN "seed" ELSE "off")
    /\ next' = [next EXCEPT ![i] = 1]
    /\ UNCHANGED <<release, starts, flag, baseVars, dataVars>>

SeedTableBackwards(i) == Seeds[Len(Seeds) + 1 - next[i]]
SeedTable(i) == Seeds[next[i]]

\* createMany with skipDuplicates, an INSERT IGNORE of its own transaction.  It
\* draws its ids before its rows are committed, and ids are never drawn twice.
Inserts(i) == pc[i] = "seed" /\ next[i] <= Len(Seeds)
Undrawn(t) == t \in Named \ (there \cup gaps) /\ \A i \in drawing : SeedTable(i) # t

DrawIds(i) ==
    /\ Inserts(i)
    /\ Undrawn(SeedTable(i))
    /\ drawing' = drawing \cup {i}
    /\ UNCHANGED <<pc, instVars, flag, baseVars, migrator, copies, there, gaps>>

\* The rows, unless another insert of the same keys was faster.
Skipped(t) == t \in Keyed /\ copies[t] > 0

CommitRows(i) ==
    LET t == SeedTable(i)
        mine == IF i \in drawing THEN {t} ELSE {}
    IN  /\ ~Undrawn(t)
        /\ copies' = [copies EXCEPT ![t] = IF Skipped(t) THEN @ ELSE @ + 1]
        /\ there' = IF Skipped(t) THEN there ELSE there \cup mine
        /\ gaps' = IF Skipped(t) THEN gaps \cup mine ELSE gaps
        /\ drawing' = drawing \ {i}

Seed(i) ==
    /\ Inserts(i)
    /\ CommitRows(i)
    /\ next' = [next EXCEPT ![i] = @ + 1]
    /\ UNCHANGED <<pc, release, starts, flag, baseVars, migrator>>

\* An insert that had drawn the first ids is rolled back.
RollBack(i) ==
    /\ gaps' = IF i \in drawing THEN gaps \cup {SeedTable(i)} ELSE gaps
    /\ drawing' = drawing \ {i}
    /\ UNCHANGED <<copies, there>>

\* The insert fails, before or after it has drawn its ids, or only its answer is
\* lost.  The process exits.
SeedFails(i) ==
    /\ Inserts(i)
    /\ RollBack(i) \/ CommitRows(i)
    /\ Down(i)
    /\ UNCHANGED <<instVars, flag, baseVars>>

SeedEnds(i) ==
    /\ pc[i] = "seed"
    /\ next[i] > Len(Seeds)
    /\ Goto(i, "mark")
    /\ UNCHANGED <<instVars, flag, baseVars, migrator, dataVars>>

\* markAsInitialized
Mark(i) ==
    /\ pc[i] = "mark"
    /\ flag' = [flag EXCEPT ![DiskOf[i]] = [db |-> db, release |-> release[i]]]
    /\ Goto(i, "connect")
    /\ UNCHANGED <<instVars, baseVars, migrator, dataVars>>

\* bootstrap: $connect fails without a database.
Connect(i) ==
    /\ pc[i] = "connect"
    /\ made
    /\ Goto(i, "redis")
    /\ UNCHANGED <<instVars, flag, baseVars, migrator, dataVars>>

\* app.listen runs the onModuleInit hooks: every Redis client answers PING.
Ping(i) ==
    /\ pc[i] = "redis"
    /\ Goto(i, "kafka")
    /\ UNCHANGED <<instVars, flag, baseVars, migrator, dataVars>>

\* The Kafka client connects; topics that cannot be created are no reason to
\* stop.  The instance listens.
Listen(i) ==
    /\ pc[i] = "kafka"
    /\ Goto(i, "serving")
    /\ UNCHANGED <<instVars, flag, baseVars, migrator, dataVars>>

\* MySQL, Redis or Kafka cannot be reached, the flag cannot be written, or the
\* process dies at any other point; half-way through a migration it breaks it.
Fail(i) ==
    /\ pc[i] \notin {"off", "seed"}
    /\ Down(i)
    /\ broken' = (broken \/ (pc[i] = "migrate" /\ schema < release[i]))
    /\ UNCHANGED <<instVars, flag, db, made, schema, dataVars>>

\* SIGINT
Stop(i) ==
    /\ pc[i] = "serving"
    /\ Goto(i, "off")
    /\ UNCHANGED <<instVars, flag, baseVars, migrator, dataVars>>

\* A new release is put on an instance; its disk is kept.
Deploy(i) ==
    /\ pc[i] = "off"
    /\ release[i] < Releases
    /\ release' = [release EXCEPT ![i] = @ + 1]
    /\ UNCHANGED <<pc, next, starts, flag, baseVars, migrator, dataVars>>

\* The volume of the database is dropped while nothing runs; the disks are kept.
Recreate ==
    /\ \A i \in Instances : pc[i] = "off"
    /\ db < MaxDatabases
    /\ db' = db + 1
    /\ made' \in BOOLEAN
    /\ schema' = 0
    /\ broken' = FALSE
    /\ copies' = [t \in Tables |-> 0]
    /\ there' = {} /\ gaps' = {}
    /\ UNCHANGED <<pc, instVars, flag, migrator, drawing>>

-----------------------------------------------------------------------------
\* bootstrap: without a database the instance exits.
NoDatabaseIgnored(i) == pc[i] = "connect" /\ ~made /\ UNCHANGED vars
NoDatabase(i) == pc[i] = "connect" /\ ~made /\ Fail(i)

Boot(i) ==
    \/ Check(i) \/ Create(i) \/ LockMigration(i) \/ ApplyMigration(i)
    \/ EndMigration(i) \/ DrawIds(i) \/ Seed(i) \/ SeedEnds(i) \/ Mark(i)
    \/ Connect(i) \/ NoDatabase(i) \/ Ping(i) \/ Listen(i)

Finished ==
    /\ \A i \in Instances : pc[i] = "off" /\ starts[i] = MaxStarts[i]
    /\ UNCHANGED vars

Next ==
    \/ \E i \in Instances :
          \/ Start(i) \/ Boot(i)
          \/ BreakMigration(i) \/ SeedFails(i) \/ Fail(i) \/ Stop(i) \/ Deploy(i)
    \/ Recreate
    \/ Finished

Spec == Init /\ [][Next]_vars

\* A start goes on by itself; nothing makes anybody start, stop or deploy.
FairSpec == Spec /\ \A i \in Instances : WF_vars(Boot(i))

-----------------------------------------------------------------------------
(* Properties *)

\* An instance serves only with the tables and the seed rows its release needs,
\* provided its flag file was written for this database and this release.  The
\* code compares neither: an older flag lets it serve on whatever is there.
ServingIsReady ==
    \A i \in Instances :
        LET f == flag[DiskOf[i]]
        IN  pc[i] = "serving" /\ f.db = db /\ f.release >= release[i]
            => schema >= release[i] /\ \A t \in Tables : copies[t] > 0

\* Seed rows name ids 1, 2, ... of another table and no foreign key looks after
\* them.  Whoever sets up at the same time: when they are there, so are the rows
\* they name, or other rows came first and those ids are still in an open insert
\* of another setup, or they are lost, to an insert that was rolled back or one
\* that another setup's rows with the same keys made void.  A setup alone whose
\* inserts do not fail leaves no dangling name.
RefersToRows ==
    \A r \in Refers :
        copies[r[1]] > 0 =>
            \/ r[2] \in there
            \/ r[2] \in gaps
            \/ \E i \in drawing : SeedTable(i) = r[2]

\* All disks have a flag for this database, and no setup is under way.
Settled ==
    /\ \A d \in Disks : flag[d].db = db
    /\ \A i \in Instances : pc[i] \notin {"create", "lock", "migrate", "seed", "mark"}

\* From then on, and until the database is recreated, no restart, release or death
\* begins another setup or adds rows, to the tables that no key protects either.
SettledStays ==
    [][Settled /\ db' = db => Settled' /\ copies' = copies]_vars

\* Every start ends: in service, or with the process gone.
EveryStartEnds ==
    \A i \in Instances : pc[i] = "check" ~> pc[i] \in {"serving", "off"}
=============================================================================
