---------------------------- MODULE StartupProofs ----------------------------
(***************************************************************************)
(* What an instance may rely on once it serves, which references of the    *)
(* seed data hold, and when the data no longer change: for any number of   *)
(* instances, disks, releases, starts and databases.                       *)
(***************************************************************************)
EXTENDS Startup, TLAPS

\* The seven tables, and the order their seeds are in.
LEMMA SeedFacts ==
    /\ Len(Seeds) = 7
    /\ \A n \in 1 .. 7 : Seeds[n] \in Tables
    /\ \A t \in Tables : \E n \in 1 .. 7 : Seeds[n] = t
    /\ \A m, n \in 1 .. 7 : Seeds[m] = Seeds[n] => m = n
BY DEF Seeds, Tables

\* A table is seeded after those its rows name.
LEMMA RefersBackwards ==
    \A r \in Refers : /\ r[1] \in Tables /\ r[2] \in Tables
                      /\ \E m, n \in 1 .. 7 : m < n /\ Seeds[n] = r[1] /\ Seeds[m] = r[2]
BY DEF Refers, Seeds, Tables

AllSeeded == \A t \in Tables : copies[t] > 0

\* The inductive invariant.  Who seeds has the schema of its release and the
\* tables before next; a flag file of this database was written after the last
\* one; and no flag is from a database that is still to come.
Seeding ==
    \A i \in Instances :
        /\ pc[i] \in {"seed", "mark"} => schema >= release[i]
        /\ pc[i] = "seed" => \A n \in 1 .. 7 : n < next[i] => copies[Seeds[n]] > 0
        /\ pc[i] = "mark" => AllSeeded

Flagged ==
    \A d \in Disks :
        /\ flag[d].db <= db
        /\ flag[d].db = db => AllSeeded /\ schema >= flag[d].release

\* The ids of a table that others name are drawn before its first rows are there,
\* and these before the rows that name them.
Drawing ==
    /\ \A i \in drawing : pc[i] = "seed" /\ next[i] \in 1 .. 7
    /\ \A t \in Tables : copies[t] > 0 => ~Undrawn(t)

InOrder == \A r \in Refers : copies[r[1]] > 0 => ~Undrawn(r[2])

StartupInv == TypeOK /\ Seeding /\ Flagged /\ Drawing /\ InOrder

LEMMA InitInv == Init => StartupInv
<1> SUFFICES ASSUME Init
             PROVE  StartupInv
  OBVIOUS
<1>1. TypeOK
  <2>1. 1 \in 1 .. Releases /\ 1 \in 1 .. MaxDatabases /\ 1 \in 1 .. Len(Seeds) + 1
    BY StartupAssumption, SeedFacts
  <2>2. flag \in [Disks -> [db : 0 .. MaxDatabases, release : 0 .. Releases]]
    BY StartupAssumption DEF Init
  <2>3. schema \in 0 .. Releases
    BY StartupAssumption DEF Init
  <2> QED BY <2>1, <2>2, <2>3 DEF Init, TypeOK, Stages
<1>2. Seeding /\ Flagged
  BY DEF Init, Seeding, Flagged
<1>3. InOrder
  BY RefersBackwards DEF Init, InOrder
<1>4. Drawing
  BY DEF Init, Drawing
<1> QED BY <1>1, <1>2, <1>3, <1>4 DEF StartupInv

\* An insert adds a copy of one table, unless a key refuses it.
LEMMA InsertFacts ==
    ASSUME TypeOK, NEW i \in Instances, next[i] \in 1 .. 7, CommitRows(i)
    PROVE  LET t == Seeds[next[i]]
           IN  /\ t \in Tables
               /\ copies' \in [Tables -> Nat]
               /\ there' \subseteq Tables /\ gaps' \subseteq Tables
               /\ drawing' = drawing \ {i}
               /\ there \cup gaps \subseteq there' \cup gaps'
               /\ i \in drawing => t \in there' \cup gaps'
               /\ ~Undrawn(t)
               /\ copies'[t] > 0
               /\ \A u \in Tables : copies[u] > 0 => copies'[u] > 0
               /\ \A u \in Tables : u # t => copies'[u] = copies[u]
<1> DEFINE t == Seeds[next[i]]
<1>1. t \in Tables
  BY SeedFacts
<1>2. t = SeedTable(i)
  BY DEF SeedTable
<1> HIDE DEF t
<1>3. /\ ~Undrawn(t)
      /\ copies' = [copies EXCEPT ![t] = IF Skipped(t) THEN @ ELSE @ + 1]
      /\ drawing' = drawing \ {i}
      /\ \/ there' = there \cup (IF i \in drawing THEN {t} ELSE {}) /\ gaps' = gaps
         \/ there' = there /\ gaps' = gaps \cup (IF i \in drawing THEN {t} ELSE {})
  BY <1>2 DEF CommitRows
<1>4. there \subseteq Tables /\ gaps \subseteq Tables
  BY DEF TypeOK
<1>5. /\ there' \subseteq Tables /\ gaps' \subseteq Tables
      /\ there \cup gaps \subseteq there' \cup gaps'
      /\ i \in drawing => t \in there' \cup gaps'
  BY <1>1, <1>3, <1>4
<1>6. /\ copies' \in [Tables -> Nat]
      /\ copies'[t] > 0
      /\ \A u \in Tables : copies[u] > 0 => copies'[u] > 0
      /\ \A u \in Tables : u # t => copies'[u] = copies[u]
  BY <1>1, <1>3 DEF TypeOK, Skipped
<1> QED BY <1>1, <1>3, <1>5, <1>6 DEF t

-----------------------------------------------------------------------------
(* Types *)

LEMMA GotoType ==
    ASSUME TypeOK, NEW i \in Instances, NEW stage \in Stages, Goto(i, stage)
    PROVE  pc' \in [Instances -> Stages]
BY DEF TypeOK, Goto

LEMMA DownType ==
    ASSUME TypeOK, NEW i \in Instances, Down(i)
    PROVE  pc' \in [Instances -> Stages] /\ migrator' \in SUBSET Instances
BY DEF TypeOK, Down, Goto, Stages

LEMMA TypeStep == TypeOK /\ [Next]_vars => TypeOK'
<1> SUFFICES ASSUME TypeOK, [Next]_vars
             PROVE  TypeOK'
  OBVIOUS
<1> USE DEF instVars, dataVars, baseVars
<1>1. ASSUME NEW i \in Instances, Start(i)
      PROVE  TypeOK'
  BY <1>1, GotoType DEF TypeOK, Start, Stages
<1>2. ASSUME NEW i \in Instances, Check(i)
      PROVE  TypeOK'
  BY <1>2, GotoType DEF TypeOK, Check, Stages
<1>3. ASSUME NEW i \in Instances, Create(i)
      PROVE  TypeOK'
  BY <1>3, GotoType DEF TypeOK, Create, Stages
<1>4. ASSUME NEW i \in Instances, LockMigration(i)
      PROVE  TypeOK'
  BY <1>4, GotoType, DownType DEF TypeOK, LockMigration, Stages
<1>5. ASSUME NEW i \in Instances, ApplyMigration(i)
      PROVE  TypeOK'
  BY <1>5, StartupAssumption DEF TypeOK, ApplyMigration
<1>6. ASSUME NEW i \in Instances, BreakMigration(i)
      PROVE  TypeOK'
  BY <1>6, DownType DEF TypeOK, BreakMigration
<1>7. ASSUME NEW i \in Instances, EndMigration(i)
      PROVE  TypeOK'
  <2>1. pc' \in [Instances -> Stages]
    BY <1>7, GotoType DEF EndMigration, Stages
  <2>2. next' \in [Instances -> 1 .. Len(Seeds) + 1]
    BY <1>7, SeedFacts DEF TypeOK, EndMigration
  <2>3. migrator' \in SUBSET Instances
    BY <1>7 DEF TypeOK, EndMigration
  <2> QED BY <1>7, <2>1, <2>2, <2>3 DEF TypeOK, EndMigration
<1>8. ASSUME NEW i \in Instances, Seed(i)
      PROVE  TypeOK'
  <2>1. next[i] \in 1 .. 7
    BY <1>8, SeedFacts DEF TypeOK, Seed, Inserts
  <2>2. /\ copies' \in [Tables -> Nat] /\ drawing' \subseteq Instances
        /\ there' \subseteq Tables /\ gaps' \subseteq Tables
    BY <1>8, <2>1, InsertFacts DEF Seed, TypeOK
  <2>3. next' \in [Instances -> 1 .. Len(Seeds) + 1]
    BY <1>8, <2>1, SeedFacts DEF TypeOK, Seed
  <2> QED BY <1>8, <2>2, <2>3 DEF TypeOK, Seed
<1>9. ASSUME NEW i \in Instances, SeedFails(i)
      PROVE  TypeOK'
  <2>1. next[i] \in 1 .. 7
    BY <1>9, SeedFacts DEF TypeOK, SeedFails, Inserts
  <2>2. SeedTable(i) \in Tables
    BY <2>1, SeedFacts DEF SeedTable
  <2>3. CASE CommitRows(i)
    <3>1. /\ copies' \in [Tables -> Nat] /\ drawing' \subseteq Instances
          /\ there' \subseteq Tables /\ gaps' \subseteq Tables
      BY <2>1, <2>3, InsertFacts DEF TypeOK
    <3> QED BY <1>9, <3>1, DownType DEF TypeOK, SeedFails
  <2>4. CASE RollBack(i)
    <3>1. /\ copies' = copies /\ drawing' \subseteq Instances
          /\ there' = there /\ gaps' \subseteq Tables
      BY <2>2, <2>4 DEF RollBack, TypeOK
    <3> QED BY <1>9, <3>1, DownType DEF TypeOK, SeedFails
  <2> QED BY <1>9, <2>3, <2>4 DEF SeedFails
<1>10. ASSUME NEW i \in Instances, SeedEnds(i)
       PROVE  TypeOK'
  BY <1>10, GotoType DEF TypeOK, SeedEnds, Stages
<1>11. ASSUME NEW i \in Instances, Mark(i)
       PROVE  TypeOK'
  <2>1. DiskOf[i] \in Disks /\ db \in 0 .. MaxDatabases /\ release[i] \in 0 .. Releases
    BY StartupAssumption DEF TypeOK
  <2>2. flag' \in [Disks -> [db : 0 .. MaxDatabases, release : 0 .. Releases]]
    BY <1>11, <2>1 DEF TypeOK, Mark
  <2> QED BY <1>11, <2>2, GotoType DEF TypeOK, Mark, Stages
<1>12. ASSUME NEW i \in Instances, Connect(i) \/ Ping(i) \/ Listen(i) \/ Stop(i)
       PROVE  TypeOK'
  BY <1>12, GotoType DEF TypeOK, Connect, Ping, Listen, Stop, Stages
<1>13. ASSUME NEW i \in Instances, Fail(i)
       PROVE  TypeOK'
  BY <1>13, DownType DEF TypeOK, Fail
<1>14. ASSUME NEW i \in Instances, Deploy(i)
       PROVE  TypeOK'
  BY <1>14, StartupAssumption DEF TypeOK, Deploy
<1>15. CASE Recreate
  <2>1. db' \in 1 .. MaxDatabases /\ schema' \in 0 .. Releases
    BY <1>15, StartupAssumption DEF TypeOK, Recreate
  <2>2. copies' \in [Tables -> Nat]
    BY <1>15 DEF Recreate
  <2> QED BY <1>15, <2>1, <2>2 DEF TypeOK, Recreate
<1>16. CASE UNCHANGED vars
  BY <1>16 DEF TypeOK, vars
<1>17. ASSUME NEW i \in Instances, DrawIds(i)
       PROVE  TypeOK'
  BY <1>17 DEF TypeOK, DrawIds
<1> QED
  BY <1>17, <1>1, <1>2, <1>3, <1>4, <1>5, <1>6, <1>7, <1>8, <1>9, <1>10, <1>11, <1>12, <1>13,
     <1>14, <1>15, <1>16 DEF Next, Boot, NoDatabase, Finished

-----------------------------------------------------------------------------
(* The invariant *)

\* What most steps have in common: nothing that is there goes away.
DataGrow ==
    /\ \A t \in Tables : copies[t] > 0 => copies'[t] > 0
    /\ schema' >= schema

Grows == DataGrow /\ UNCHANGED <<flag, db>>

LEMMA StepKinds ==
    ASSUME TypeOK, [Next]_vars
    PROVE  Grows \/ (DataGrow /\ \E i \in Instances : Mark(i)) \/ Recreate
<1> USE DEF instVars, dataVars, baseVars, DataGrow
<1>1. schema \in Int
  BY DEF TypeOK
<1>2. ASSUME NEW i \in Instances,
             Start(i) \/ Check(i) \/ Create(i) \/ LockMigration(i) \/ EndMigration(i)
               \/ SeedEnds(i) \/ Connect(i) \/ Ping(i) \/ Listen(i) \/ BreakMigration(i)
               \/ Fail(i) \/ Stop(i) \/ Deploy(i) \/ DrawIds(i)
      PROVE  Grows
  BY <1>1, <1>2 DEF Grows, DrawIds, Start, Check, Create, LockMigration, EndMigration, SeedEnds,
     Connect, Ping, Listen, BreakMigration, Fail, Stop, Deploy
<1>3. ASSUME NEW i \in Instances, ApplyMigration(i)
      PROVE  Grows
  BY <1>1, <1>3 DEF Grows, ApplyMigration
<1>4. ASSUME NEW i \in Instances, Seed(i) \/ SeedFails(i)
      PROVE  Grows
  <2>1. next[i] \in 1 .. 7
    BY <1>4, SeedFacts DEF TypeOK, Seed, SeedFails, Inserts
  <2>3. CommitRows(i) \/ copies' = copies
    BY <1>4 DEF Seed, SeedFails, RollBack
  <2>4. \A t \in Tables : copies[t] > 0 => copies'[t] > 0
    BY <2>1, <2>3, InsertFacts
  <2> QED BY <1>1, <1>4, <2>4 DEF Grows, Seed, SeedFails
<1>5. CASE UNCHANGED vars
  BY <1>1, <1>5 DEF Grows, vars
<1>6. ASSUME NEW i \in Instances, Mark(i)
      PROVE  DataGrow
  BY <1>1, <1>6 DEF Mark
<1> QED
  BY <1>2, <1>3, <1>4, <1>5, <1>6 DEF Next, Boot, NoDatabase, Finished

LEMMA FlaggedStep ==
    ASSUME StartupInv, [Next]_vars
    PROVE  Flagged'
<1>1. CASE Grows
  <2>1. schema \in Int /\ schema' \in Int /\ \A d \in Disks : flag[d].release \in Int
    BY TypeStep DEF StartupInv, TypeOK
  <2>2. flag' = flag /\ db' = db /\ schema' >= schema /\ (AllSeeded => AllSeeded')
    BY <1>1 DEF Grows, DataGrow, AllSeeded
  <2>3. Flagged
    BY DEF StartupInv
  <2> QED BY <2>1, <2>2, <2>3 DEF Flagged
<1>2. ASSUME NEW i \in Instances, Mark(i)
      PROVE  Flagged'
  <2>1. DiskOf[i] \in Disks /\ AllSeeded /\ schema >= release[i]
    BY <1>2, StartupAssumption DEF StartupInv, Seeding, Mark
  <2>2. /\ flag' = [flag EXCEPT ![DiskOf[i]] = [db |-> db, release |-> release[i]]]
        /\ UNCHANGED <<db, schema, copies>>
    BY <1>2 DEF Mark, baseVars, dataVars
  <2> QED BY <2>1, <2>2 DEF StartupInv, TypeOK, Flagged, AllSeeded
<1>3. CASE Recreate
  <2>1. /\ flag' = flag /\ db' = db + 1
        /\ db \in Int /\ \A d \in Disks : flag[d].db \in Int /\ flag[d].db <= db
    BY <1>3 DEF Recreate, StartupInv, TypeOK, Flagged
  <2>2. \A d \in Disks : flag'[d].db <= db' /\ flag'[d].db # db'
    BY <2>1
  <2> QED BY <2>2 DEF Flagged
<1> QED BY <1>1, <1>2, <1>3, StepKinds DEF StartupInv

\* What Seeding says of one instance.
HasSchema(j) == pc[j] \in {"seed", "mark"} => schema >= release[j]
HasTables(j) == pc[j] = "seed" => \A n \in 1 .. 7 : n < next[j] => copies[Seeds[n]] > 0
HasAll(j) == pc[j] = "mark" => AllSeeded

Ready(j) == HasSchema(j) /\ HasTables(j) /\ HasAll(j)

LEMMA SeedingIsReady == Seeding <=> \A j \in Instances : Ready(j)
BY DEF Seeding, Ready, HasSchema, HasTables, HasAll

\* A step that changes nothing of j and deletes nothing keeps them.
LEMMA OthersKeep ==
    ASSUME StartupInv, TypeOK', DataGrow, NEW j \in Instances,
           pc'[j] = pc[j], next'[j] = next[j], release'[j] = release[j]
    PROVE  Ready(j)'
<1>1. Ready(j)
  BY SeedingIsReady DEF StartupInv
<1>2. HasSchema(j)'
  <2>1. schema \in Int /\ schema' \in Int /\ release[j] \in Int
    BY DEF StartupInv, TypeOK
  <2>2. schema' >= schema
    BY DEF DataGrow
  <2> QED BY <1>1, <2>1, <2>2 DEF Ready, HasSchema
<1>3. HasTables(j)'
  <2>1. \A n \in 1 .. 7 : copies[Seeds[n]] > 0 => copies'[Seeds[n]] > 0
    BY SeedFacts DEF DataGrow
  <2> QED BY <1>1, <2>1 DEF Ready, HasTables
<1>4. HasAll(j)'
  BY <1>1 DEF Ready, HasAll, AllSeeded, DataGrow
<1> QED BY <1>2, <1>3, <1>4 DEF Ready

LEMMA NoRecreate ==
    ASSUME StartupInv, [Next]_vars, ~Recreate
    PROVE  DataGrow
BY StepKinds DEF StartupInv, Grows

LEMMA SeedingStep ==
    ASSUME StartupInv, [Next]_vars
    PROVE  Seeding'
<1> USE DEF instVars, dataVars, baseVars
<1>1. TypeOK /\ TypeOK' /\ \A j \in Instances : Ready(j)
  BY TypeStep, SeedingIsReady DEF StartupInv
<1>2. CASE Recreate
  BY <1>2 DEF Recreate, Seeding
<1>3. ASSUME DataGrow, UNCHANGED vars
      PROVE  Seeding'
  <2>1. \A j \in Instances : Ready(j)'
    BY <1>1, <1>3, OthersKeep DEF vars
  <2> QED BY <2>1 DEF Seeding, Ready, HasSchema, HasTables, HasAll
<1>4. ASSUME DataGrow, NEW i \in Instances, Ready(i)',
             \A j \in Instances \ {i} : /\ pc'[j] = pc[j] /\ next'[j] = next[j]
                                        /\ release'[j] = release[j]
      PROVE  Seeding'
  <2>1. \A j \in Instances : j # i => Ready(j)'
    BY <1>1, <1>4, OthersKeep
  <2> QED BY <1>4, <2>1 DEF Seeding, Ready, HasSchema, HasTables, HasAll
<1>5. ASSUME DataGrow, NEW i \in Instances,
             Start(i) \/ Check(i) \/ Create(i) \/ LockMigration(i) \/ Connect(i) \/ Ping(i)
               \/ Listen(i) \/ BreakMigration(i) \/ SeedFails(i) \/ Fail(i) \/ Stop(i)
               \/ Mark(i)
      PROVE  Seeding'
  <2>1. /\ UNCHANGED <<next, release>>
        /\ \A j \in Instances \ {i} : pc'[j] = pc[j]
        /\ pc'[i] \notin {"seed", "mark"}
    BY <1>1, <1>5 DEF TypeOK, Start, Check, Create, LockMigration, Connect, Ping, Listen,
       BreakMigration, SeedFails, Fail, Stop, Mark, Down, Goto
  <2> QED BY <1>4, <1>5, <2>1 DEF Ready, HasSchema, HasTables, HasAll
<1>6. ASSUME DataGrow, NEW i \in Instances, ApplyMigration(i) \/ DrawIds(i)
      PROVE  Seeding'
  BY <1>1, <1>6, <1>4, OthersKeep DEF ApplyMigration, DrawIds
<1>7. ASSUME DataGrow, NEW i \in Instances, Deploy(i)
      PROVE  Seeding'
  <2>1. /\ pc'[i] = "off" /\ UNCHANGED <<pc, next>>
        /\ \A j \in Instances \ {i} : release'[j] = release[j]
    BY <1>1, <1>7 DEF TypeOK, Deploy
  <2> QED BY <1>4, <1>7, <2>1 DEF Ready, HasSchema, HasTables, HasAll
<1>8. ASSUME DataGrow, NEW i \in Instances, EndMigration(i)
      PROVE  Seeding'
  <2>1. /\ \A j \in Instances \ {i} : pc'[j] = pc[j] /\ next'[j] = next[j]
        /\ UNCHANGED <<release, schema>>
        /\ pc'[i] = "off" \/ (pc'[i] = "seed" /\ next'[i] = 1 /\ schema >= release[i])
    BY <1>1, <1>8 DEF TypeOK, EndMigration, SeedAfter, Goto
  <2>2. Ready(i)'
    BY <2>1 DEF Ready, HasSchema, HasTables, HasAll
  <2> QED BY <1>4, <1>8, <2>1, <2>2
<1>9. ASSUME DataGrow, NEW i \in Instances, Seed(i)
      PROVE  Seeding'
  <2>1. next[i] \in 1 .. 7 /\ pc[i] = "seed"
    BY <1>1, <1>9, SeedFacts DEF TypeOK, Seed, Inserts
  <2>2. copies'[Seeds[next[i]]] > 0
    BY <1>1, <1>9, <2>1, InsertFacts DEF Seed
  <2>3. /\ next' = [next EXCEPT ![i] = @ + 1]
        /\ UNCHANGED <<pc, release, schema>>
    BY <1>9 DEF Seed
  <2>4. next'[i] = next[i] + 1 /\ \A j \in Instances \ {i} : next'[j] = next[j]
    BY <1>1, <2>3 DEF TypeOK
  <2>5. HasTables(i)'
    <3>1. ASSUME NEW n \in 1 .. 7, n < next'[i]
          PROVE  copies'[Seeds[n]] > 0
      <4>1. n < next[i] \/ n = next[i]
        BY <2>1, <2>4, <3>1
      <4>2. CASE n < next[i]
        BY <1>1, <1>9, <2>1, <4>2, SeedFacts DEF Ready, HasTables, DataGrow
      <4> QED BY <2>2, <4>1, <4>2
    <3> QED BY <3>1 DEF HasTables
  <2>6. Ready(i)'
    BY <1>1, <2>1, <2>3, <2>5 DEF Ready, HasSchema, HasAll
  <2> QED BY <1>4, <1>9, <2>3, <2>4, <2>6
<1>10. ASSUME DataGrow, NEW i \in Instances, SeedEnds(i)
       PROVE  Seeding'
  <2>1. next[i] \in Int /\ next[i] > 7 /\ pc[i] = "seed"
    BY <1>1, <1>10, SeedFacts DEF TypeOK, SeedEnds
  <2>2. AllSeeded
    BY <1>1, <2>1, SeedFacts DEF Ready, HasTables, AllSeeded
  <2>3. /\ UNCHANGED <<next, release, schema, copies>>
        /\ pc'[i] = "mark" /\ \A j \in Instances \ {i} : pc'[j] = pc[j]
    BY <1>1, <1>10 DEF TypeOK, SeedEnds, Goto
  <2>4. Ready(i)'
    BY <1>1, <2>1, <2>2, <2>3 DEF Ready, HasSchema, HasTables, HasAll, AllSeeded
  <2> QED BY <1>4, <1>10, <2>3, <2>4
<1> QED
  BY <1>2, <1>3, <1>5, <1>6, <1>7, <1>8, <1>9, <1>10, NoRecreate
     DEF Next, Boot, NoDatabase, Finished

\* Ids that were drawn stay drawn: they are there, or lost, or in an insert that
\* has not moved on.
LEMMA DrawnStays ==
    ASSUME StartupInv, [Next]_vars, ~Recreate, NEW t \in Tables, ~Undrawn(t)
    PROVE  ~Undrawn(t)'
<1> USE DEF instVars, dataVars, baseVars
<1>1. TypeOK /\ Drawing
  BY DEF StartupInv
<1>2. ASSUME there \cup gaps \subseteq there' \cup gaps',
             \A i \in drawing : \/ i \in drawing' /\ SeedTable(i)' = SeedTable(i)
                               \/ SeedTable(i) \in there' \cup gaps'
      PROVE  ~Undrawn(t)'
  BY <1>2 DEF Undrawn
<1>3. ASSUME UNCHANGED dataVars, \A i \in drawing : next'[i] = next[i]
      PROVE  ~Undrawn(t)'
  BY <1>2, <1>3 DEF SeedTable
<1>4. ASSUME NEW i \in Instances, DrawIds(i)
      PROVE  ~Undrawn(t)'
  BY <1>2, <1>4 DEF DrawIds, SeedTable
<1>5. ASSUME NEW i \in Instances, Seed(i) \/ SeedFails(i)
      PROVE  ~Undrawn(t)'
  <2>1. next[i] \in 1 .. 7 /\ \A j \in drawing \ {i} : next'[j] = next[j]
    BY <1>1, <1>5, SeedFacts DEF TypeOK, Seed, SeedFails, Inserts
  <2>2. \A j \in drawing \ {i} : SeedTable(j)' = SeedTable(j)
    BY <2>1 DEF SeedTable
  <2>3. /\ there \cup gaps \subseteq there' \cup gaps'
        /\ drawing' = drawing \ {i}
        /\ i \in drawing => SeedTable(i) \in there' \cup gaps'
    <3>1. CASE CommitRows(i)
      BY <1>1, <2>1, <3>1, InsertFacts DEF SeedTable
    <3>2. CASE RollBack(i)
      BY <3>2 DEF RollBack
    <3> QED BY <1>5, <3>1, <3>2 DEF Seed, SeedFails
  <2> QED BY <1>2, <2>2, <2>3
<1>6. ASSUME NEW i \in Instances, EndMigration(i)
      PROVE  ~Undrawn(t)'
  <2>1. i \notin drawing /\ UNCHANGED dataVars /\ \A j \in Instances \ {i} : next'[j] = next[j]
    BY <1>1, <1>6 DEF EndMigration, Drawing, TypeOK
  <2>2. drawing \subseteq Instances
    BY <1>1 DEF TypeOK
  <2> QED BY <1>3, <2>1, <2>2
<1>7. ASSUME NEW i \in Instances,
             Start(i) \/ Check(i) \/ Create(i) \/ LockMigration(i) \/ ApplyMigration(i)
               \/ SeedEnds(i) \/ Mark(i) \/ Connect(i) \/ Ping(i)
               \/ Listen(i) \/ BreakMigration(i) \/ Fail(i) \/ Stop(i) \/ Deploy(i)
      PROVE  UNCHANGED <<dataVars, next>>
  BY <1>7 DEF Start, Check, Create, LockMigration, ApplyMigration, SeedEnds,
     Mark, Connect, Ping, Listen, BreakMigration, Fail, Stop, Deploy
<1>8. CASE UNCHANGED vars
  BY <1>3, <1>8 DEF vars
<1> QED
  BY <1>3, <1>4, <1>5, <1>6, <1>7, <1>8 DEF Next, Boot, NoDatabase, Finished

\* What a step does to the copies: a commit makes one of a drawn table more.
LEMMA CopiesStep ==
    ASSUME StartupInv, [Next]_vars, ~Recreate
    PROVE  \/ UNCHANGED copies
           \/ \E i \in Instances :
                 /\ pc[i] = "seed" /\ next[i] \in 1 .. 7 /\ ~Undrawn(Seeds[next[i]])
                 /\ \A u \in Tables : u # Seeds[next[i]] => copies'[u] = copies[u]
<1> USE DEF instVars, dataVars, baseVars
<1>1. TypeOK
  BY DEF StartupInv
<1>2. ASSUME NEW i \in Instances, Seed(i) \/ SeedFails(i)
      PROVE  \/ UNCHANGED copies
             \/ /\ pc[i] = "seed" /\ next[i] \in 1 .. 7 /\ ~Undrawn(Seeds[next[i]])
                /\ \A u \in Tables : u # Seeds[next[i]] => copies'[u] = copies[u]
  <2>1. pc[i] = "seed" /\ next[i] \in 1 .. 7
    BY <1>1, <1>2, SeedFacts DEF TypeOK, Seed, SeedFails, Inserts
  <2>2. CASE CommitRows(i)
    BY <1>1, <2>1, <2>2, InsertFacts
  <2>3. CASE RollBack(i)
    BY <2>3 DEF RollBack
  <2> QED BY <1>2, <2>2, <2>3 DEF Seed, SeedFails
<1>3. ASSUME NEW i \in Instances,
             Start(i) \/ Check(i) \/ Create(i) \/ LockMigration(i) \/ ApplyMigration(i)
               \/ EndMigration(i) \/ SeedEnds(i) \/ Mark(i) \/ Connect(i) \/ Ping(i)
               \/ Listen(i) \/ BreakMigration(i) \/ Fail(i) \/ Stop(i) \/ Deploy(i)
               \/ DrawIds(i)
      PROVE  UNCHANGED copies
  BY <1>3 DEF Start, Check, Create, LockMigration, ApplyMigration, EndMigration, SeedEnds,
     Mark, Connect, Ping, Listen, BreakMigration, Fail, Stop, Deploy, DrawIds
<1>4. CASE UNCHANGED vars
  BY <1>4 DEF vars
<1> QED
  BY <1>2, <1>3, <1>4 DEF Next, Boot, NoDatabase, Finished

LEMMA DrawingStep ==
    ASSUME StartupInv, [Next]_vars
    PROVE  Drawing'
<1> USE DEF instVars, dataVars, baseVars
<1>1. TypeOK /\ Drawing
  BY DEF StartupInv
<1>2. CASE Recreate
  <2>1. drawing = {}
    BY <1>1, <1>2 DEF Drawing, Recreate, TypeOK
  <2> QED BY <1>2, <2>1 DEF Drawing, Recreate
<1>3. CASE ~Recreate
  <2>1. ASSUME NEW t \in Tables, copies'[t] > 0
        PROVE  ~Undrawn(t)'
    <3>1. copies[t] > 0 => ~Undrawn(t)
      BY <1>1 DEF Drawing
    <3>2. ~Undrawn(t)
      BY <1>3, <2>1, <3>1, CopiesStep
    <3> QED BY <1>3, <3>2, DrawnStays
  <2>2. \A i \in drawing' : pc'[i] = "seed" /\ next'[i] \in 1 .. 7
    <3>1. ASSUME NEW i \in Instances, DrawIds(i)
          PROVE  \A j \in drawing' : pc'[j] = "seed" /\ next'[j] \in 1 .. 7
      BY <1>1, <3>1, SeedFacts DEF DrawIds, Inserts, Drawing, TypeOK
    <3>2. ASSUME NEW i \in Instances, Seed(i) \/ SeedFails(i)
          PROVE  \A j \in drawing' : pc'[j] = "seed" /\ next'[j] \in 1 .. 7
      <4>1. drawing' = drawing \ {i}
        BY <3>2 DEF Seed, SeedFails, RollBack, CommitRows
      <4>2. \A j \in Instances \ {i} : pc'[j] = pc[j] /\ next'[j] = next[j]
        BY <1>1, <3>2 DEF Seed, SeedFails, Down, Goto, TypeOK
      <4> QED BY <1>1, <4>1, <4>2 DEF Drawing, TypeOK
    <3>3. ASSUME NEW i \in Instances,
                 Start(i) \/ Check(i) \/ Create(i) \/ LockMigration(i) \/ ApplyMigration(i)
                   \/ EndMigration(i) \/ SeedEnds(i) \/ Mark(i) \/ Connect(i) \/ Ping(i)
                   \/ Listen(i) \/ BreakMigration(i) \/ Fail(i) \/ Stop(i) \/ Deploy(i)
          PROVE  \A j \in drawing' : pc'[j] = "seed" /\ next'[j] \in 1 .. 7
      <4>1. i \notin drawing \/ (SeedEnds(i) /\ next[i] > 7)
        BY <1>1, <3>3, SeedFacts DEF Drawing, Start, Check, Create, LockMigration,
           ApplyMigration, EndMigration, SeedEnds, Mark, Connect, Ping, Listen, BreakMigration,
           Fail, Stop, Deploy
      <4>2. i \notin drawing
        BY <1>1, <4>1 DEF Drawing
      <4>3. /\ drawing' = drawing
            /\ \A j \in Instances \ {i} : pc'[j] = pc[j] /\ next'[j] = next[j]
        BY <1>1, <3>3 DEF TypeOK, Start, Check, Create, LockMigration,
           ApplyMigration, EndMigration, SeedEnds, Mark, Connect, Ping, Listen, BreakMigration,
           Fail, Stop, Deploy, Down, Goto
      <4> QED BY <1>1, <4>2, <4>3 DEF Drawing, TypeOK
    <3>4. CASE UNCHANGED vars
      BY <1>1, <3>4 DEF Drawing, vars
    <3> QED
      BY <1>3, <3>1, <3>2, <3>3, <3>4 DEF Next, Boot, NoDatabase, Finished
  <2> QED BY <2>1, <2>2 DEF Drawing
<1> QED BY <1>2, <1>3

\* References: the ids are drawn before the rows that name them are there,
\* whoever else is at it.
LEMMA InOrderStep ==
    ASSUME StartupInv, [Next]_vars
    PROVE  InOrder'
<1>1. TypeOK /\ Seeding /\ Drawing /\ InOrder
  BY DEF StartupInv
<1>2. CASE Recreate
  BY <1>2, RefersBackwards DEF Recreate, InOrder
<1>3. CASE ~Recreate
  <2>1. ASSUME NEW r \in Refers, copies'[r[1]] > 0
        PROVE  ~Undrawn(r[2])'
    <3>1. PICK m \in 1 .. 7, n \in 1 .. 7 : m < n /\ Seeds[n] = r[1] /\ Seeds[m] = r[2]
      BY RefersBackwards
    <3>2. r[1] \in Tables /\ r[2] \in Tables
      BY RefersBackwards
    <3>3. CASE copies'[r[1]] = copies[r[1]]
      BY <1>1, <1>3, <2>1, <3>2, <3>3, DrawnStays DEF InOrder
    <3>4. ASSUME NEW i \in Instances, pc[i] = "seed", next[i] \in 1 .. 7,
                 Seeds[next[i]] = r[1]
          PROVE  ~Undrawn(r[2])'
      <4>1. n = next[i]
        BY <3>1, <3>4, SeedFacts
      <4>2. copies[r[2]] > 0
        BY <1>1, <3>1, <3>4, <4>1 DEF Seeding
      <4>3. ~Undrawn(r[2])
        BY <1>1, <3>2, <4>2 DEF Drawing
      <4> QED BY <1>3, <3>2, <4>3, DrawnStays
    <3> QED BY <1>3, <3>2, <3>3, <3>4, CopiesStep
  <2> QED BY <2>1 DEF InOrder
<1> QED BY <1>2, <1>3

\* The invariant holds in every state of every run.
THEOREM StartupInvariant == Spec => []StartupInv
<1>1. StartupInv /\ [Next]_vars => StartupInv'
  BY TypeStep, SeedingStep, FlaggedStep, DrawingStep, InOrderStep DEF StartupInv
<1> QED BY InitInv, <1>1, PTL DEF Spec

-----------------------------------------------------------------------------
(* What it is for *)

\* Every variable has its type.
THEOREM TypeCorrect == Spec => []TypeOK
<1>1. StartupInv => TypeOK
  BY DEF StartupInv
<1> QED BY StartupInvariant, <1>1, PTL

\* An instance that serves behind a flag of this database and of its release
\* has the tables and the seed rows it needs, whoever else migrated, failed,
\* crashed or was redeployed meanwhile.
THEOREM ReadyToServe == Spec => []ServingIsReady
<1>1. ASSUME StartupInv
      PROVE  ServingIsReady
  <2> SUFFICES ASSUME NEW i \in Instances, flag[DiskOf[i]].db = db,
                      flag[DiskOf[i]].release >= release[i]
               PROVE  schema >= release[i] /\ \A t \in Tables : copies[t] > 0
    BY DEF ServingIsReady
  <2>1. DiskOf[i] \in Disks
    BY StartupAssumption
  <2>2. AllSeeded /\ schema >= flag[DiskOf[i]].release
    BY <1>1, <2>1 DEF StartupInv, Flagged
  <2>3. schema \in Int /\ release[i] \in Int /\ flag[DiskOf[i]].release \in Int
    BY <1>1, <2>1 DEF StartupInv, TypeOK
  <2> QED BY <2>2, <2>3 DEF AllSeeded
<1> QED BY StartupInvariant, <1>1, PTL

\* The ids that seed rows name have been drawn before, however several setups on
\* one database interleave: the rows are there unless an insert of another setup
\* still holds the ids or they are lost.
THEOREM SeedsRefer == Spec => []RefersToRows
<1>1. ASSUME StartupInv
      PROVE  RefersToRows
  <2> SUFFICES ASSUME NEW r \in Refers, copies[r[1]] > 0, r[2] \notin there \cup gaps
               PROVE  \E i \in drawing : SeedTable(i) = r[2]
    BY DEF RefersToRows
  <2>1. ~Undrawn(r[2])
    BY <1>1 DEF StartupInv, InOrder
  <2> QED BY <2>1 DEF Undrawn, Named
<1> QED BY StartupInvariant, <1>1, PTL

-----------------------------------------------------------------------------
(* Settled for good *)

\* While every disk has a flag of this database nobody sets anything up again,
\* and who is not setting up adds no row.
LEMMA SettledStep ==
    ASSUME TypeOK, [Next]_vars, Settled
    PROVE  (UNCHANGED <<db, copies>> /\ Settled') \/ (Recreate /\ db' > db)
<1> USE DEF instVars, dataVars, baseVars
<1>1. \A i \in Instances : /\ DiskOf[i] \in Disks /\ Initialized(i)
                           /\ pc[i] \notin {"create", "lock", "migrate", "seed", "mark"}
  BY StartupAssumption DEF Settled, Initialized, TypeOK
<1>2. ASSUME NEW i \in Instances,
             Start(i) \/ Check(i) \/ Connect(i) \/ Ping(i) \/ Listen(i) \/ Fail(i) \/ Stop(i)
               \/ Deploy(i)
      PROVE  UNCHANGED <<db, copies>> /\ Settled'
  <2>1. UNCHANGED <<db, copies, flag>>
    BY <1>2 DEF Start, Check, Connect, Ping, Listen, Fail, Stop, Deploy
  <2>2. \A j \in Instances : pc'[j] \notin {"create", "lock", "migrate", "seed", "mark"}
    BY <1>1, <1>2 DEF TypeOK, Start, Check, Connect, Ping, Listen, Fail, Stop, Deploy, Down,
       Goto
  <2> QED BY <2>1, <2>2 DEF Settled
<1>3. ASSUME NEW i \in Instances
      PROVE  ~( \/ Create(i) \/ LockMigration(i) \/ ApplyMigration(i) \/ EndMigration(i)
                \/ DrawIds(i) \/ Seed(i) \/ SeedEnds(i) \/ Mark(i) \/ BreakMigration(i)
                \/ SeedFails(i) )
  BY <1>1 DEF Create, LockMigration, ApplyMigration, EndMigration, DrawIds, Seed, SeedEnds,
     Mark, BreakMigration, SeedFails, Inserts
<1>4. CASE UNCHANGED vars
  BY <1>4 DEF vars, Settled
<1>5. CASE Recreate
  BY <1>5 DEF Recreate, TypeOK
<1> QED
  BY <1>2, <1>3, <1>4, <1>5 DEF Next, Boot, NoDatabase, Finished

\* Once every disk has the flag, restarts, new releases and crashes leave the seed
\* rows as they are, until the database goes.
THEOREM SettledForGood == Spec => SettledStays
<1>1. ASSUME TypeOK, [Next]_vars, Settled, db' = db
      PROVE  Settled' /\ copies' = copies
  BY <1>1, SettledStep DEF TypeOK
<1> QED BY TypeCorrect, <1>1, PTL DEF Spec, SettledStays
=============================================================================
