--------------------------- MODULE StartupProofs ----------------------------
(***************************************************************************)
(* The safety properties of StartupProps for any number of processes,      *)
(* migrations, statements and crashes.                                     *)
(***************************************************************************)
EXTENDS StartupProps, WellFoundedInduction, TLAPS

(* A process at a statement of a migration has one to execute.             *)
StepsInRange ==
  \A p \in Proc : pc[p] = "run" => step[p] <= Statements[at[p]]

(* The schema shows exactly the statements that a migration's runner has   *)
(* executed: nobody else adds to them.                                     *)
RunnersAdvance ==
  \A p \in Proc, m \in Migration : Runs(p, m) =>
    /\ m \notin recorded
    /\ applied[m] = IF pc[p] = "record" THEN Statements[m] ELSE step[p] - 1

(* What a process has behind it is recorded.                               *)
Reached ==
  \A p \in Proc :
    /\ pc[p] \in {"check", "run", "record"}
         => \A e \in Migration : e < at[p] => e \in recorded
    /\ pc[p] \in {"prepare", "keys", "generate", "load", "up"}
         => recorded = Migration

SchemaInv ==
  /\ TypeOK
  /\ StepsInRange
  /\ RunnersAdvance
  /\ MigrationsAreExclusive
  /\ RecordedIsComplete
  /\ Reached

(* The key a process holds is in the table, so are those it has generated, *)
(* and it generates one only if it has generated none.                     *)
KeyInv ==
  \A p \in Proc :
    /\ pc[p] \in {"load", "up"} => own[p] \in selfKeys
    /\ minted[p] \subseteq selfKeys
    /\ pc[p] = "generate" => minted[p] = {}

-----------------------------------------------------------------------------
LEMMA StatementCounts ==
  /\ Latest \in Nat /\ Latest > 0
  /\ \A m \in Migration : Statements[m] \in Nat /\ Statements[m] > 0
  /\ 1 \in Migration /\ Migration \subseteq Nat
  /\ \A m \in Migration : m # Latest => m + 1 \in Migration
BY StartupAssumption DEF Latest, Migration

(* What parseNotaries' loop has after the first i entries, given what it   *)
(* had after fewer.                                                        *)
Turn(list, g, i) == IF i = 0 THEN <<>> ELSE Consider(g[i - 1], list[i])

LEMMA LeastNumber ==
  ASSUME NEW T \in SUBSET Nat, T # {}
  PROVE  \E i \in T : \A j \in T : i <= j
<1>1. PICK i \in T : \A j \in T : ~ (<<j, i>> \in OpToRel(<, Nat))
  BY NatLessThanWellFounded, WFMin
<1>2. \A j \in T : ~ (j < i)
  BY <1>1 DEF OpToRel
<1> QED BY <1>2, i \in Nat

(* The loop's results exist up to every position, so the recursive         *)
(* function in ParseNotaries satisfies its equation.                       *)
LEMMA LoopExists ==
  ASSUME NEW list, NEW n \in Nat
  PROVE  \E g : g = [i \in 0..n |-> Turn(list, g, i)]
<1> DEFINE Defined(m) == \E g : g = [i \in 0..m |-> Turn(list, g, i)]
<1> DEFINE undefined == {m \in Nat : ~ Defined(m)}
<1>1. ASSUME undefined # {} PROVE FALSE
  <2>1. PICK m \in undefined : \A j \in undefined : m <= j
    BY <1>1, LeastNumber
  <2>2. CASE m = 0
    <3> DEFINE g == [i \in 0..0 |-> <<>>]
    <3>1. \A i \in 0..0 : Turn(list, g, i) = <<>>
      BY DEF Turn
    <3>2. g = [i \in 0..0 |-> Turn(list, g, i)]
      BY <3>1
    <3>3. Defined(0)
      BY <3>2
    <3> QED BY <2>1, <2>2, <3>3
  <2>3. CASE m # 0
    <3>1. m - 1 \in Nat /\ m \in Nat
      BY <2>3
    <3>2. Defined(m - 1)
      BY <2>1, <3>1
    <3>3. PICK g : g = [i \in 0..(m - 1) |-> Turn(list, g, i)]
      BY <3>2
    <3> DEFINE h == [i \in 0..m |-> IF i = m THEN Turn(list, g, m) ELSE g[i]]
    <3>4. ASSUME NEW i \in 0..m PROVE h[i] = Turn(list, h, i)
      <4>1. i = 0 \/ (i - 1 \in 0..m /\ i - 1 # m)
        BY <3>1
      <4>2. i = 0 \/ h[i - 1] = g[i - 1]
        BY <4>1
      <4>3. Turn(list, h, i) = Turn(list, g, i)
        BY <4>2 DEF Turn
      <4>4. i = m \/ i \in 0..(m - 1)
        BY <3>1
      <4>5. i \in 0..(m - 1) => g[i] = Turn(list, g, i)
        BY <3>3
      <4>6. h[i] = IF i = m THEN Turn(list, g, m) ELSE g[i]
        OBVIOUS
      <4> HIDE DEF h
      <4> QED BY <4>3, <4>4, <4>5, <4>6
    <3>5. h = [i \in 0..m |-> h[i]]
      OBVIOUS
    <3> HIDE DEF h
    <3>6. h = [i \in 0..m |-> Turn(list, h, i)]
      BY <3>4, <3>5
    <3>7. Defined(m)
      BY <3>6
    <3> QED BY <2>1, <3>7
  <2> QED BY <2>2, <2>3
<1>2. Defined(n)
  BY <1>1
<1> QED BY <1>2

LEMMA LoopResult ==
  ASSUME NEW list, Len(list) \in Nat
  PROVE  \E g : /\ g = [i \in 0..Len(list) |-> Turn(list, g, i)]
               /\ ParseNotaries(list) = g[Len(list)]
<1>1. \E g : g = [i \in 0..Len(list) |-> Turn(list, g, i)]
  BY LoopExists
<1> QED BY <1>1 DEF ParseNotaries, Turn

(* The list that parseNotaries returns: the notaries of the flag, each     *)
(* once, in the order in which the flag first names them.                  *)
InOrderUpTo(seen, list, n) ==
  /\ seen \in Seq(Range(list))
  /\ Range(seen) = {list[k] : k \in 1..n} \ {Blank, Self}
  /\ \A i, j \in DOMAIN seen : i < j =>
       \E k \in 1..n :
         /\ list[k] = seen[i]
         /\ \A l \in DOMAIN list : list[l] = seen[j] => k < l

LEMMA TurnKeeps ==
  ASSUME NEW list, list \in Seq(Range(list)), NEW n \in 1..Len(list),
         NEW seen, InOrderUpTo(seen, list, n - 1)
  PROVE  InOrderUpTo(Consider(seen, list[n]), list, n)
<1> DEFINE e == list[n]
<1> DEFINE before == {list[k] : k \in 1..(n - 1)}
<1> DEFINE upto == {list[k] : k \in 1..n}
<1>1. /\ DOMAIN list = 1..Len(list) /\ Len(list) \in Nat
      /\ n \in DOMAIN list /\ e \in Range(list)
  BY DEF Range
<1>2. upto = before \cup {e}
  BY <1>1
<1>3. seen \in Seq(Range(list)) /\ Range(seen) = before \ {Blank, Self}
  BY DEF InOrderUpTo
<1>4. \A i, j \in DOMAIN seen : i < j =>
        \E k \in 1..(n - 1) :
          /\ list[k] = seen[i]
          /\ \A l \in DOMAIN list : list[l] = seen[j] => k < l
  BY DEF InOrderUpTo
<1>5. CASE e \in {Blank, Self} \cup Range(seen)
  <2>1. Consider(seen, e) = seen
    BY <1>5 DEF Consider
  <2>2. Range(seen) = upto \ {Blank, Self}
    BY <1>2, <1>3, <1>5
  <2>3. \A k \in 1..(n - 1) : k \in 1..n
    BY <1>1
  <2>4. \A i, j \in DOMAIN seen : i < j =>
          \E k \in 1..n :
            /\ list[k] = seen[i]
            /\ \A l \in DOMAIN list : list[l] = seen[j] => k < l
    BY <1>4, <2>3
  <2> QED BY <1>3, <2>1, <2>2, <2>4 DEF InOrderUpTo
<1>6. CASE e \notin {Blank, Self} \cup Range(seen)
  <2> DEFINE more == Append(seen, e)
  <2>1. Consider(seen, e) = more
    BY <1>6 DEF Consider
  <2>2. /\ more \in Seq(Range(list)) /\ Len(seen) \in Nat
        /\ DOMAIN seen = 1..Len(seen) /\ DOMAIN more = 1..(Len(seen) + 1)
        /\ \A i \in DOMAIN seen : more[i] = seen[i] /\ i \in DOMAIN more
        /\ more[Len(seen) + 1] = e
    BY <1>1, <1>3
  <2> HIDE DEF more
  <2>3. Range(more) = Range(seen) \cup {e}
    <3>1. \A i \in DOMAIN more : i \in DOMAIN seen \/ i = Len(seen) + 1
      BY <2>2
    <3>2. Len(seen) + 1 \in DOMAIN more
      BY <2>2
    <3> QED BY <2>2, <3>1, <3>2, Zenon DEF Range
  <2>4. Range(more) = upto \ {Blank, Self}
    BY <1>2, <1>3, <1>6, <2>3
  <2>5. ASSUME NEW i \in DOMAIN more, NEW j \in DOMAIN more, i < j
        PROVE  \E k \in 1..n :
                 /\ list[k] = more[i]
                 /\ \A l \in DOMAIN list : list[l] = more[j] => k < l
    <3>1. i \in DOMAIN seen
      BY <2>2, <2>5
    <3>2. CASE j \in DOMAIN seen
      <4>1. PICK k \in 1..(n - 1) :
              /\ list[k] = seen[i]
              /\ \A l \in DOMAIN list : list[l] = seen[j] => k < l
        BY <1>4, <2>5, <3>1, <3>2
      <4>2. k \in 1..n
        BY <1>1
      <4> QED BY <2>2, <3>1, <3>2, <4>1, <4>2
    <3>3. CASE j = Len(seen) + 1
      <4>1. seen[i] \in before
        BY <1>3, <3>1 DEF Range
      <4>2. PICK k \in 1..(n - 1) : list[k] = seen[i]
        BY <4>1
      <4>3. e \notin before
        BY <1>3, <1>6
      <4>4. ASSUME NEW l \in DOMAIN list, list[l] = e PROVE k < l
        <5>1. l \notin 1..(n - 1)
          BY <4>3, <4>4
        <5> QED BY <1>1, <5>1
      <4>5. k \in 1..n /\ list[k] = more[i] /\ more[j] = e
        BY <1>1, <2>2, <3>1, <3>3, <4>2
      <4> QED BY <4>4, <4>5
    <3> QED BY <2>2, <3>2, <3>3
  <2> QED BY <2>1, <2>2, <2>4, <2>5 DEF InOrderUpTo
<1> QED BY <1>5, <1>6

LEMMA ParsedInOrder ==
  ASSUME NEW list, list \in Seq(Range(list))
  PROVE  InOrderUpTo(ParseNotaries(list), list, Len(list))
<1> DEFINE n == Len(list)
<1>1. n \in Nat
  OBVIOUS
<1>2. PICK g : /\ g = [i \in 0..n |-> Turn(list, g, i)]
               /\ ParseNotaries(list) = g[n]
  BY <1>1, LoopResult
<1> HIDE DEF n
<1> DEFINE wrong == {i \in 0..n : ~ InOrderUpTo(g[i], list, i)}
<1>3. ASSUME wrong # {} PROVE FALSE
  <2>1. PICK m \in wrong : \A j \in wrong : m <= j
    <3>1. wrong \in SUBSET Nat
      BY <1>1
    <3> QED BY <1>3, <3>1, LeastNumber
  <2>2. m \in 0..n /\ g[m] = Turn(list, g, m)
    BY <1>2
  <2>3. CASE m = 0
    <3>1. g[0] = <<>>
      BY <2>2, <2>3 DEF Turn
    <3>2. InOrderUpTo(<<>>, list, 0)
      BY DEF InOrderUpTo, Range
    <3> QED BY <2>1, <2>3, <3>1, <3>2
  <2>4. CASE m # 0
    <3>1. m - 1 \in 0..n /\ m \in 1..n /\ ~ (m <= m - 1)
      BY <1>1, <2>2, <2>4
    <3>2. InOrderUpTo(g[m - 1], list, m - 1)
      BY <2>1, <3>1
    <3>3. g[m] = Consider(g[m - 1], list[m])
      BY <2>2, <2>4 DEF Turn
    <3>4. InOrderUpTo(g[m], list, m)
      BY <3>1, <3>2, <3>3, TurnKeeps DEF n
    <3> QED BY <2>1, <3>4
  <2> QED BY <2>3, <2>4
<1>4. n \in 0..n
  BY <1>1
<1> QED BY <1>2, <1>3, <1>4 DEF n

(* What Setup leaves in TrustedNotaries.                                   *)
LEMMA NotariesTyped ==
  TypeOK /\ [Next]_vars
    => flag' = flag /\ notaries' \in [Proc -> Seq(Range(flag'))]
<1> SUFFICES ASSUME TypeOK, [Next]_vars
             PROVE  flag' = flag /\ notaries' \in [Proc -> Seq(Range(flag'))]
  OBVIOUS
<1>1. notaries \in [Proc -> Seq(Range(flag))] /\ flag \in Seq(Range(flag))
  BY StartupAssumption DEF TypeOK
<1>2. ParseNotaries(flag) \in Seq(Range(flag))
  BY <1>1, ParsedInOrder DEF InOrderUpTo
<1>3. <<>> \in Seq(Range(flag))
  OBVIOUS
<1>4. /\ flag' = flag
      /\ \/ notaries' = notaries
         \/ \E p \in Proc : \E list \in {<<>>, ParseNotaries(flag)} :
              notaries' = [notaries EXCEPT ![p] = list]
  BY DEF vars, memory, Next, Step, Crash, Migrate, PrepareOwnKey, Boot,
         PrepareMigrations, SkipMigration, EnterMigration, RunStatement,
         StatementFails, RecordMigration, PrepareStatements, FindNoKey,
         FindKey, AddOwnActiveKey, KeyIDTaken, LoadOwnKey, Exit
<1> DEFINE Full == Seq(Range(flag))
<1>5. notaries \in [Proc -> Full] /\ ParseNotaries(flag) \in Full /\ <<>> \in Full
  BY <1>1, <1>2, <1>3
<1> HIDE DEF Full
<1>6. notaries' \in [Proc -> Full]
  BY <1>4, <1>5
<1>7. Range(flag)' = Range(flag)
  BY <1>4 DEF Range
<1> QED BY <1>4, <1>6, <1>7 DEF Full

LEMMA SchemaInit == Init => SchemaInv
<1> SUFFICES ASSUME Init PROVE SchemaInv
  OBVIOUS
<1> USE StatementCounts
<1>1. PICK n \in 0..Latest :
        /\ applied = [m \in Migration |-> IF m <= n THEN Statements[m] ELSE 0]
        /\ recorded = 1..n
        /\ selfKeys \in IF n = 0 THEN {{}} ELSE SUBSET KeyID
  BY DEF Init
<1>2. TypeOK
  <2>1. recorded \subseteq Migration
    BY <1>1 DEF Migration
  <2>2. selfKeys \subseteq KeyID
    BY <1>1
  <2>3. applied \in [Migration -> Nat]
    BY <1>1
  <2> QED BY <2>1, <2>2, <2>3, StartupAssumption
          DEF Init, TypeOK, Location, Migration
<1>3. RecordedIsComplete
  BY <1>1 DEF RecordedIsComplete, Migration
<1> QED BY <1>2, <1>3 DEF Init, SchemaInv, StepsInRange, RunnersAdvance,
          MigrationsAreExclusive, Reached, Runs

-----------------------------------------------------------------------------
LEMMA TypeStep == TypeOK /\ [Next]_vars => TypeOK'
<1> SUFFICES ASSUME TypeOK, [Next]_vars PROVE TypeOK'
  OBVIOUS
<1>0. notaries' \in [Proc -> Seq(Range(flag'))]
  BY NotariesTyped
<1> USE StatementCounts DEF schema, memory
<1>1. CASE UNCHANGED vars
  BY <1>1 DEF TypeOK, vars
<1>2. ASSUME NEW p \in Proc, Step(p) \/ Crash(p) PROVE TypeOK'
  <2>1. CASE Boot(p)
    BY <2>1 DEF TypeOK, Location, Boot
  <2>2. CASE PrepareMigrations(p)
    BY <2>2 DEF TypeOK, Location, PrepareMigrations
  <2>3. CASE SkipMigration(p)
    BY <2>3 DEF TypeOK, Location, SkipMigration, After
  <2>4. CASE EnterMigration(p)
    BY <2>4 DEF TypeOK, Location, EnterMigration
  <2>5. CASE RunStatement(p)
    <3>1. /\ pc \in [Proc -> Location] /\ step \in [Proc -> Nat \ {0}]
          /\ applied \in [Migration -> Nat] /\ at \in [Proc -> Migration]
      BY DEF TypeOK
    <3>2. pc' \in [Proc -> Location] /\ step' \in [Proc -> Nat \ {0}]
      BY <2>5, <3>1 DEF Location, RunStatement, Onward
    <3>3. applied' \in [Migration -> Nat]
      BY <2>5, <3>1 DEF RunStatement
    <3>4. UNCHANGED <<at, recorded, selfKeys, own, flag, crashes, minted>>
      BY <2>5 DEF RunStatement
    <3> QED BY <1>0, <3>2, <3>3, <3>4 DEF TypeOK
  <2>6. CASE RecordMigration(p)
    <3>1. CASE at[p] \in recorded
      BY <1>0, <2>6, <3>1 DEF TypeOK, Location, RecordMigration, Exit
    <3>2. CASE at[p] \notin recorded
      <4>1. recorded' \subseteq Migration
        <5>1. recorded' = recorded \cup {at[p]}
          BY <2>6, <3>2 DEF RecordMigration
        <5> QED BY <5>1 DEF TypeOK
      <4>2. at' \in [Proc -> Migration] /\ pc' \in [Proc -> Location]
        <5>1. /\ pc \in [Proc -> Location]
              /\ at \in [Proc -> Migration] /\ at[p] \in Migration
          BY DEF TypeOK
        <5> QED BY <2>6, <3>2, <5>1 DEF Location, RecordMigration, After
      <4>3. UNCHANGED <<step, applied, selfKeys, own, flag, crashes, minted>>
        BY <2>6, <3>2 DEF RecordMigration, After
      <4> QED BY <1>0, <4>1, <4>2, <4>3 DEF TypeOK
    <3> QED BY <3>1, <3>2
  <2>7. CASE PrepareStatements(p)
    <3>1. CASE Complete
      BY <1>0, <2>7, <3>1 DEF TypeOK, Location, PrepareStatements
    <3>2. CASE ~Complete
      BY <1>0, <2>7, <3>2 DEF TypeOK, Location, PrepareStatements, Exit
    <3> QED BY <3>1, <3>2
  <2>8. CASE FindNoKey(p) \/ FindKey(p)
    BY <2>8 DEF TypeOK, Location, FindNoKey, FindKey
  <2>9. CASE AddOwnActiveKey(p)
    BY <2>9 DEF TypeOK, Location, AddOwnActiveKey
  <2>10. CASE LoadOwnKey(p)
    BY <2>10 DEF TypeOK, Location, LoadOwnKey
  <2>11. CASE StatementFails(p) \/ KeyIDTaken(p) \/ Crash(p)
    <3>1. Exit(p) /\ crashes' \in Nat
      BY <2>11 DEF TypeOK, StatementFails, KeyIDTaken, Crash
    <3> QED BY <3>1 DEF TypeOK, Location, Exit
  <2> QED BY <1>2, <2>1, <2>2, <2>3, <2>4, <2>5, <2>6, <2>7, <2>8, <2>9,
             <2>10, <2>11 DEF Step, Migrate, PrepareOwnKey
<1> QED BY <1>1, <1>2 DEF Next

(* A step that leaves the schema alone and takes its process neither into  *)
(* a migration nor to a point it has not reached keeps the invariant.      *)
LEMMA QuietStep ==
  ASSUME SchemaInv, TypeOK', NEW p \in Proc, NEW l \in Location,
         UNCHANGED <<schema, step>>,
         \A q \in Proc : q # p => at'[q] = at[q],
         pc' = [pc EXCEPT ![p] = l],
         l \notin {"run", "record"},
         l = "check" => \A e \in Migration : e < at'[p] => e \in recorded,
         l \in {"prepare", "keys", "generate", "load", "up"}
           => recorded = Migration
  PROVE  SchemaInv'
<1> USE StatementCounts DEF SchemaInv, TypeOK, schema
<1>1. \A q \in Proc : q # p => pc'[q] = pc[q] /\ at'[q] = at[q]
  OBVIOUS
<1>2. \A q \in Proc, m \in Migration :
        Runs(q, m)' => Runs(q, m) /\ pc'[q] = pc[q]
  BY <1>1 DEF Runs
<1>3. StepsInRange'
  BY <1>1 DEF StepsInRange
<1>4. RunnersAdvance'
  BY <1>2 DEF RunnersAdvance
<1>5. MigrationsAreExclusive'
  BY <1>2 DEF MigrationsAreExclusive
<1>6. RecordedIsComplete'
  BY DEF RecordedIsComplete
<1>7. Reached'
  BY <1>1 DEF Reached, Location
<1> QED BY <1>3, <1>4, <1>5, <1>6, <1>7

(* The statement a process executes is the first one, with nobody else in  *)
(* the migration, or the one after those it has executed itself.           *)
LEMMA RunnerStep ==
  ASSUME SchemaInv, TypeOK', NEW p \in Proc,
         pc[p] = "run", applied[at[p]] < step[p],
         applied' = [applied EXCEPT ![at[p]] = step[p]],
         UNCHANGED <<at, recorded>>,
         \/ /\ step[p] = Statements[at[p]]
            /\ pc' = [pc EXCEPT ![p] = "record"] /\ UNCHANGED step
         \/ /\ step[p] # Statements[at[p]]
            /\ step' = [step EXCEPT ![p] = step[p] + 1] /\ UNCHANGED pc
  PROVE  SchemaInv'
<1> DEFINE m == at[p]
           k == step[p]
<1> USE StatementCounts DEF SchemaInv
<1>1. /\ m \in Migration /\ k \in Nat /\ k > 0 /\ k <= Statements[m]
      /\ applied[m] \in Nat /\ applied[m] < k
  <2>1. m \in Migration /\ k \in Nat /\ k > 0
    BY DEF TypeOK
  <2>2. applied[m] \in Nat
    BY <2>1 DEF TypeOK
  <2>3. k <= Statements[m]
    BY DEF StepsInRange
  <2> QED BY <2>1, <2>2, <2>3
<1>2. m \notin recorded
  BY <1>1 DEF RecordedIsComplete
<1>3. \A q \in Proc : q # p => ~Runs(q, m)
  <2> SUFFICES ASSUME NEW q \in Proc, q # p, Runs(q, m) PROVE FALSE
    OBVIOUS
  <2>1. k = 1
    <3>1. ~Runs(p, m)
      BY <1>1 DEF MigrationsAreExclusive
    <3> QED BY <1>1, <3>1 DEF Runs
  <2>2. applied[m] > 0
    <3>1. applied[m] = IF pc[q] = "record" THEN Statements[m] ELSE step[q] - 1
      BY <1>1 DEF RunnersAdvance
    <3>2. Statements[m] > 0 /\ (pc[q] = "record" \/ step[q] > 1)
      BY <1>1 DEF Runs
    <3>3. step[q] \in Nat
      BY DEF TypeOK
    <3> QED BY <3>1, <3>2, <3>3
  <2> QED BY <1>1, <2>1, <2>2
<1>4. \A q \in Proc : q # p =>
        /\ pc'[q] = pc[q] /\ step'[q] = step[q]
        /\ \A n \in Migration : Runs(q, n)' <=> Runs(q, n)
  BY DEF TypeOK, Runs
<1>5. applied'[m] = k /\ \A n \in Migration : n # m => applied'[n] = applied[n]
  BY <1>1 DEF TypeOK
<1>6. StepsInRange'
  <2>1. \A q \in Proc : q # p /\ pc'[q] = "run" => step'[q] <= Statements[at'[q]]
    BY <1>4 DEF StepsInRange
  <2>2. pc'[p] = "run" => step'[p] = k + 1 /\ k # Statements[m]
    BY DEF TypeOK
  <2>3. pc'[p] = "run" => step'[p] <= Statements[at'[p]]
    <3>1. Statements[m] \in Nat /\ at'[p] = m
      BY <1>1
    <3>2. k # Statements[m] => k + 1 <= Statements[m]
      BY <1>1, <3>1
    <3> QED BY <2>2, <3>1, <3>2
  <2> QED BY <2>1, <2>3 DEF StepsInRange
<1>7. RunnersAdvance'
  <2>1. \A n \in Migration : Runs(p, n)' => n = m
    BY DEF Runs
  <2>2. applied'[m] = IF pc'[p] = "record" THEN Statements[m] ELSE step'[p] - 1
    BY <1>1, <1>5 DEF TypeOK
  <2>3. \A q \in Proc, n \in Migration : q # p /\ Runs(q, n)' => n # m
    BY <1>3, <1>4
  <2> QED BY <1>2, <1>4, <1>5, <2>1, <2>2, <2>3 DEF RunnersAdvance
<1>8. MigrationsAreExclusive'
  <2>1. \A n \in Migration : Runs(p, n)' => n = m
    BY DEF Runs
  <2> QED BY <1>3, <1>4, <2>1 DEF MigrationsAreExclusive
<1>9. RecordedIsComplete'
  BY <1>2, <1>5 DEF RecordedIsComplete, TypeOK
<1>10. Reached'
  BY DEF Reached, TypeOK
<1> QED BY <1>6, <1>7, <1>8, <1>9, <1>10

LEMMA SchemaStep == SchemaInv /\ [Next]_vars => SchemaInv'
<1> SUFFICES ASSUME SchemaInv, [Next]_vars PROVE SchemaInv'
  OBVIOUS
<1>t. TypeOK'
  BY TypeStep DEF SchemaInv
<1> USE StatementCounts, <1>t
<1>1. CASE UNCHANGED vars
  BY <1>1 DEF vars, schema, SchemaInv, TypeOK, StepsInRange, RunnersAdvance,
              MigrationsAreExclusive, RecordedIsComplete, Reached, Runs
<1>2. ASSUME NEW p \in Proc, Step(p) \/ Crash(p) PROVE SchemaInv'
  <2>0. TypeOK
    BY DEF SchemaInv
  <2> USE <2>0
  <2>1. CASE Boot(p)
    <3>1. /\ pc' = [pc EXCEPT ![p] = "create"]
          /\ UNCHANGED <<schema, step, at>>
      BY <2>1 DEF Boot
    <3> QED BY <3>1, QuietStep DEF Location
  <2>2. CASE PrepareMigrations(p)
    <3>1. /\ pc' = [pc EXCEPT ![p] = "check"]
          /\ UNCHANGED <<schema, step>>
          /\ at' = [at EXCEPT ![p] = 1]
      BY <2>2 DEF PrepareMigrations
    <3>2. at'[p] = 1 /\ \A q \in Proc : q # p => at'[q] = at[q]
      BY <3>1 DEF TypeOK
    <3>3. \A e \in Migration : ~(e < at'[p])
      BY <3>2 DEF Migration
    <3> QED BY <3>1, <3>2, <3>3, QuietStep DEF Location
  <2>3. CASE SkipMigration(p)
    <3> DEFINE m == at[p]
               l == IF m = Latest THEN "prepare" ELSE "check"
    <3>1. /\ m \in recorded /\ m \in Migration
          /\ pc' = [pc EXCEPT ![p] = l]
          /\ at' = [at EXCEPT ![p] = IF m = Latest THEN m ELSE m + 1]
          /\ UNCHANGED <<schema, step>>
      BY <2>3 DEF SkipMigration, After, TypeOK
    <3>2. /\ at'[p] = IF m = Latest THEN m ELSE m + 1
          /\ \A q \in Proc : q # p => at'[q] = at[q]
      BY <3>1 DEF TypeOK
    <3>3. \A e \in 1..m : e \in recorded
      BY <3>1 DEF SchemaInv, RecordedIsComplete
    <3>4. l = "prepare" => recorded = Migration
      BY <3>3 DEF Migration, TypeOK
    <3>5. l = "check" => \A e \in Migration : e < at'[p] => e \in recorded
      BY <3>1, <3>2, <3>3 DEF Migration
    <3> HIDE DEF l
    <3>6. l \in {"prepare", "check"}
      BY DEF l
    <3> QED BY <3>1, <3>2, <3>4, <3>5, <3>6, QuietStep DEF Location
  <2>4. CASE EnterMigration(p)
    <3>1. /\ pc[p] = "check" /\ at[p] \notin recorded
          /\ pc' = [pc EXCEPT ![p] = "run"]
          /\ step' = [step EXCEPT ![p] = 1]
          /\ UNCHANGED <<at, applied, recorded>>
      BY <2>4 DEF EnterMigration, schema
    <3>2. \A q \in Proc, m \in Migration : Runs(q, m)' =>
            Runs(q, m) /\ pc'[q] = pc[q] /\ step'[q] = step[q]
      BY <3>1 DEF Runs, TypeOK
    <3>3. StepsInRange'
      <4>1. step'[p] = 1 /\ Statements[at[p]] \in Nat /\ Statements[at[p]] > 0
        BY <3>1 DEF TypeOK
      <4>2. \A q \in Proc : q # p => pc'[q] = pc[q] /\ step'[q] = step[q]
        BY <3>1 DEF TypeOK
      <4> QED BY <3>1, <4>1, <4>2 DEF SchemaInv, StepsInRange
    <3>4. RunnersAdvance'
      BY <3>1, <3>2 DEF SchemaInv, RunnersAdvance
    <3>5. MigrationsAreExclusive'
      BY <3>2 DEF SchemaInv, MigrationsAreExclusive
    <3>6. RecordedIsComplete'
      BY <3>1 DEF SchemaInv, RecordedIsComplete
    <3>7. Reached'
      BY <3>1 DEF SchemaInv, Reached, TypeOK
    <3> QED BY <3>3, <3>4, <3>5, <3>6, <3>7 DEF SchemaInv
  <2>5. CASE RunStatement(p)
    <3> DEFINE m == at[p]
               k == step[p]
    <3>0. applied[m] \in Nat /\ step[p] \in Nat
      BY DEF TypeOK
    <3>1. /\ pc[p] = "run" /\ applied[m] < k
          /\ applied' = [applied EXCEPT ![m] = k]
          /\ UNCHANGED <<at, recorded>>
          /\ m \in Migration /\ k \in Nat /\ k > 0
      BY <2>5, <3>0 DEF RunStatement, Exists, TypeOK
    <3>2. CASE k = Statements[m]
      <4>1. pc' = [pc EXCEPT ![p] = "record"] /\ UNCHANGED step
        BY <2>5, <3>2 DEF RunStatement, Onward
      <4> QED BY <3>1, <3>2, <4>1, RunnerStep
    <3>3. CASE k # Statements[m]
      <4>1. step' = [step EXCEPT ![p] = k + 1] /\ UNCHANGED pc
        BY <2>5, <3>3 DEF RunStatement, Onward
      <4> QED BY <3>1, <3>3, <4>1, RunnerStep
    <3> QED BY <3>2, <3>3
  <2>6. CASE RecordMigration(p)
    <3> DEFINE m == at[p]
    <3>1. pc[p] = "record" /\ m \in Migration /\ Runs(p, m)
      BY <2>6 DEF RecordMigration, Runs, TypeOK
    <3>2. m \notin recorded /\ applied[m] = Statements[m]
      BY <3>1 DEF SchemaInv, RunnersAdvance
    <3>3. /\ recorded' = recorded \cup {m}
          /\ pc' = [pc EXCEPT ![p] = IF m = Latest THEN "prepare" ELSE "check"]
          /\ at' = [at EXCEPT ![p] = IF m = Latest THEN m ELSE m + 1]
          /\ UNCHANGED <<step, applied>>
      BY <2>6, <3>2 DEF RecordMigration, After
    <3>4. \A e \in Migration : e < m => e \in recorded
      BY <3>1 DEF SchemaInv, Reached
    <3>5. \A q \in Proc, n \in Migration : Runs(q, n)' =>
            Runs(q, n) /\ q # p /\ n # m /\ pc'[q] = pc[q]
      <4>1. \A n \in Migration : ~Runs(p, n)'
        BY <3>1, <3>3 DEF Runs, TypeOK
      <4>2. \A q \in Proc, n \in Migration :
              q # p => (Runs(q, n)' <=> Runs(q, n)) /\ pc'[q] = pc[q]
        BY <3>3 DEF Runs, TypeOK
      <4>3. \A q \in Proc : Runs(q, m) => q = p
        BY <3>1 DEF SchemaInv, MigrationsAreExclusive
      <4> QED BY <4>1, <4>2, <4>3
    <3>6. StepsInRange'
      BY <3>3 DEF SchemaInv, StepsInRange, TypeOK
    <3>7. RunnersAdvance'
      BY <3>3, <3>5 DEF SchemaInv, RunnersAdvance
    <3>8. MigrationsAreExclusive'
      BY <3>5 DEF SchemaInv, MigrationsAreExclusive
    <3>9. RecordedIsComplete'
      BY <3>1, <3>2, <3>3, <3>4 DEF SchemaInv, RecordedIsComplete, Migration
    <3>10. Reached'
      <4>1. \A q \in Proc : q # p => pc'[q] = pc[q] /\ at'[q] = at[q]
        BY <3>3 DEF TypeOK
      <4>2. m = Latest => recorded' = Migration
        <5>1. m = Latest => \A e \in Migration : e < m \/ e = m
          BY <3>1 DEF Migration
        <5>2. recorded \subseteq Migration
          BY DEF TypeOK
        <5> QED BY <3>1, <3>3, <3>4, <5>1, <5>2
      <4>3. m # Latest => \A e \in Migration : e < m + 1 => e \in recorded'
        BY <3>1, <3>3, <3>4 DEF Migration
      <4>4. \A q \in Proc : q = p =>
              /\ m = Latest => pc'[q] = "prepare"
              /\ m # Latest => pc'[q] = "check" /\ at'[q] = m + 1
        BY <3>3 DEF TypeOK
      <4>5. recorded = Migration => recorded' = Migration
        BY <3>1, <3>3
      <4> QED BY <3>3, <4>1, <4>2, <4>3, <4>4, <4>5 DEF SchemaInv, Reached
    <3> QED BY <3>6, <3>7, <3>8, <3>9, <3>10 DEF SchemaInv
  <2>7. CASE PrepareStatements(p)
    <3>1. CASE Complete
      <4>1. pc' = [pc EXCEPT ![p] = "keys"] /\ UNCHANGED <<schema, step, at>>
        BY <2>7, <3>1 DEF PrepareStatements
      <4>2. recorded = Migration
        BY <2>7 DEF PrepareStatements, SchemaInv, Reached
      <4> QED BY <4>1, <4>2, QuietStep DEF Location
    <3>2. CASE ~Complete
      <4>1. Exit(p)
        BY <2>7, <3>2 DEF PrepareStatements
      <4> QED BY <4>1, QuietStep DEF Exit, Location
    <3> QED BY <3>1, <3>2
  <2>8. CASE FindNoKey(p) \/ FindKey(p) \/ AddOwnActiveKey(p) \/ LoadOwnKey(p)
    <3>1. PICK l \in {"generate", "load", "up"} :
            pc' = [pc EXCEPT ![p] = l] /\ UNCHANGED <<schema, step, at>>
      BY <2>8 DEF FindNoKey, FindKey, AddOwnActiveKey, LoadOwnKey
    <3>2. recorded = Migration
      BY <2>8 DEF SchemaInv, Reached, FindNoKey, FindKey, AddOwnActiveKey,
                  LoadOwnKey
    <3> QED BY <3>1, <3>2, QuietStep DEF Location
  <2>9. CASE StatementFails(p) \/ KeyIDTaken(p) \/ Crash(p)
    <3>1. Exit(p)
      BY <2>9 DEF StatementFails, KeyIDTaken, Crash
    <3> QED BY <3>1, QuietStep DEF Exit, Location
  <2> QED BY <1>2, <2>1, <2>2, <2>3, <2>4, <2>5, <2>6, <2>7, <2>8, <2>9
          DEF Step, Migrate, PrepareOwnKey
<1> QED BY <1>1, <1>2 DEF Next

-----------------------------------------------------------------------------
(* Without a crash nobody leaves a migration it has begun.                 *)
LEMMA TearStep ==
  SchemaInv /\ OnlyCrashesTear /\ [Next]_vars => OnlyCrashesTear'
<1> SUFFICES ASSUME SchemaInv, OnlyCrashesTear, [Next]_vars, crashes' = 0,
                    NEW m \in Migration, TornAt(m)'
             PROVE  FALSE
  BY DEF OnlyCrashesTear, Torn
<1> USE StatementCounts
<1>1. TypeOK /\ TypeOK'
  BY TypeStep DEF SchemaInv
<1>2. crashes = 0 /\ ~\E p \in Proc : Crash(p)
  BY <1>1 DEF Next, Step, Migrate, PrepareOwnKey, Boot, PrepareMigrations,
     SkipMigration, EnterMigration, RunStatement, StatementFails, Exit,
     RecordMigration, PrepareStatements, FindNoKey, FindKey, LoadOwnKey,
     AddOwnActiveKey, KeyIDTaken, Crash, TypeOK, vars
<1>3. ~TornAt(m)
  BY <1>2 DEF OnlyCrashesTear, Torn
<1>4. PICK p \in Proc : Step(p)
  BY <1>2, <1>3 DEF Next, vars, schema, TornAt, Runs
<1>5. \A q \in Proc : q # p => (Runs(q, m) => Runs(q, m)')
  <2>1. \A q \in Proc : q # p =>
          pc'[q] = pc[q] /\ at'[q] = at[q] /\ step'[q] = step[q]
    BY <1>1, <1>4 DEF Step, Migrate, PrepareOwnKey, Boot, PrepareMigrations,
       SkipMigration, EnterMigration, RunStatement, StatementFails, Exit,
       RecordMigration, PrepareStatements, FindNoKey, FindKey, LoadOwnKey,
       AddOwnActiveKey, KeyIDTaken, After, Onward, TypeOK
  <2> QED BY <2>1 DEF Runs
<1>6. recorded \subseteq recorded' /\ (RunStatement(p) \/ UNCHANGED applied)
  BY <1>4 DEF Step, Migrate, PrepareOwnKey, Boot, PrepareMigrations,
     SkipMigration, EnterMigration, RunStatement, StatementFails, Exit,
     RecordMigration, PrepareStatements, FindNoKey, FindKey, LoadOwnKey,
     AddOwnActiveKey, KeyIDTaken, schema
<1>7. /\ applied'[m] > 0 /\ m \notin recorded' /\ m \notin recorded
      /\ \A q \in Proc : ~Runs(q, m)'
      /\ applied[m] \in Nat
  BY <1>1, <1>6 DEF TornAt, TypeOK
<1>8. applied[m] = 0 \/ Runs(p, m)
  BY <1>3, <1>5, <1>7 DEF TornAt
<1>9. CASE RunStatement(p)
  <2>1. /\ pc[p] = "run" /\ applied' = [applied EXCEPT ![at[p]] = step[p]]
        /\ at' = at /\ Onward(p) /\ step[p] \in Nat /\ step[p] > 0
    BY <1>1, <1>9 DEF RunStatement, TypeOK
  <2>2. at[p] = m
    BY <1>1, <1>7, <1>8, <2>1 DEF Runs, TypeOK
  <2>3. pc'[p] = "record" \/ (pc'[p] = "run" /\ step'[p] = step[p] + 1)
    BY <1>1, <2>1 DEF Onward, TypeOK
  <2>4. Runs(p, m)'
    BY <2>1, <2>2, <2>3 DEF Runs
  <2> QED BY <1>7, <2>4
<1>10. CASE ~RunStatement(p)
  <2>1. Runs(p, m)
    BY <1>6, <1>7, <1>8, <1>10
  <2>2. /\ at[p] = m
        /\ applied[m] = IF pc[p] = "record" THEN Statements[m] ELSE step[p] - 1
    BY <2>1 DEF Runs, SchemaInv, RunnersAdvance
  <2>3. CASE pc[p] = "record"
    <3>1. RecordMigration(p)
      BY <1>4, <2>3 DEF Step, Migrate, PrepareOwnKey, Boot, PrepareMigrations,
         SkipMigration, EnterMigration, RunStatement, StatementFails,
         PrepareStatements, FindNoKey, FindKey, LoadOwnKey, AddOwnActiveKey,
         KeyIDTaken
    <3> QED BY <1>7, <2>2, <3>1 DEF RecordMigration
  <2>4. CASE pc[p] = "run"
    <3>1. StatementFails(p)
      BY <1>4, <1>10, <2>4 DEF Step, Migrate, PrepareOwnKey, Boot,
         PrepareMigrations, SkipMigration, EnterMigration, RecordMigration,
         PrepareStatements, FindNoKey, FindKey, LoadOwnKey, AddOwnActiveKey,
         KeyIDTaken
    <3>2. step[p] <= step[p] - 1 /\ step[p] \in Nat
      BY <1>1, <2>2, <2>4, <3>1 DEF StatementFails, Exists, TypeOK
    <3> QED BY <3>2
  <2> QED BY <2>1, <2>3, <2>4 DEF Runs
<1> QED BY <1>9, <1>10

LEMMA KeyStep == KeyInv /\ OneKeyEach /\ TypeOK /\ [Next]_vars
                   => KeyInv' /\ OneKeyEach'
<1> SUFFICES ASSUME KeyInv, OneKeyEach, TypeOK, [Next]_vars
             PROVE  KeyInv' /\ OneKeyEach'
  OBVIOUS
<1>1. CASE UNCHANGED vars
  BY <1>1 DEF KeyInv, OneKeyEach, vars, memory
<1>2. ASSUME NEW p \in Proc, Step(p) \/ Crash(p)
      PROVE  KeyInv' /\ OneKeyEach'
  <2>1. CASE AddOwnActiveKey(p)
    <3>1. PICK k \in KeyID : /\ selfKeys' = selfKeys \cup {k}
                             /\ own' = [own EXCEPT ![p] = k]
                             /\ minted' = [minted EXCEPT ![p] = @ \cup {k}]
      BY <2>1 DEF AddOwnActiveKey
    <3>2. minted[p] = {} /\ pc' = [pc EXCEPT ![p] = "up"]
      BY <2>1 DEF AddOwnActiveKey, KeyInv
    <3>3. KeyInv'
      BY <3>1, <3>2 DEF KeyInv, TypeOK
    <3>4. OneKeyEach'
      BY <3>1, <3>2 DEF OneKeyEach, TypeOK
    <3> QED BY <3>3, <3>4
  <2>2. CASE FindNoKey(p)
    BY <2>2 DEF FindNoKey, KeyInv, OneKeyEach, TypeOK, memory
  <2>3. CASE FindKey(p)
    BY <2>3 DEF FindKey, KeyInv, OneKeyEach, TypeOK
  <2>4. CASE LoadOwnKey(p)
    BY <2>4 DEF LoadOwnKey, KeyInv, OneKeyEach, TypeOK, memory
  <2>5. CASE Exit(p)
    BY <2>5 DEF Exit, KeyInv, OneKeyEach, TypeOK
  <2>6. ASSUME NEW l \in Location \ {"load", "up", "generate"},
               \/ pc' = [pc EXCEPT ![p] = l]
               \/ UNCHANGED pc,
               UNCHANGED <<selfKeys, own, minted>>
        PROVE  KeyInv' /\ OneKeyEach'
    BY <2>6 DEF KeyInv, OneKeyEach, TypeOK
  <2>7. CASE Boot(p) \/ PrepareMigrations(p) \/ EnterMigration(p)
    BY <2>6, <2>7 DEF Boot, PrepareMigrations, EnterMigration, memory, Location
  <2>8. CASE SkipMigration(p) \/ RunStatement(p)
    BY <2>6, <2>8 DEF SkipMigration, After, RunStatement, Onward, memory,
                      Location
  <2>9. CASE RecordMigration(p) \/ PrepareStatements(p)
    BY <2>5, <2>6, <2>9 DEF RecordMigration, After, PrepareStatements, memory,
                            Location
  <2>10. CASE StatementFails(p) \/ KeyIDTaken(p) \/ Crash(p)
    BY <2>5, <2>10 DEF StatementFails, KeyIDTaken, Crash
  <2> QED BY <1>2, <2>1, <2>2, <2>3, <2>4, <2>7, <2>8, <2>9, <2>10
          DEF Step, Migrate, PrepareOwnKey
<1> QED BY <1>1, <1>2 DEF Next

-----------------------------------------------------------------------------
(* From the statement preparation on a process has the flag's notaries.    *)
NotaryInv ==
  \A p \in Proc : pc[p] \in {"keys", "generate", "load", "up"} =>
    notaries[p] = ParseNotaries(flag)

LEMMA NotaryStep == NotaryInv /\ TypeOK /\ [Next]_vars => NotaryInv'
<1> SUFFICES ASSUME NotaryInv, TypeOK, [Next]_vars PROVE NotaryInv'
  OBVIOUS
<1> USE DEF TypeOK, NotaryInv, schema, memory
<1>1. CASE UNCHANGED vars
  BY <1>1 DEF vars
<1>2. ASSUME NEW p \in Proc, Step(p) \/ Crash(p) PROVE NotaryInv'
  <2>1. CASE Boot(p) \/ PrepareMigrations(p)
    BY <2>1 DEF Boot, PrepareMigrations
  <2>2. CASE SkipMigration(p) \/ EnterMigration(p)
    BY <2>2 DEF SkipMigration, EnterMigration, After
  <2>3. CASE RunStatement(p)
    BY <2>3 DEF RunStatement, Onward
  <2>4. CASE RecordMigration(p)
    BY <2>4 DEF RecordMigration, After, Exit
  <2>5. CASE PrepareStatements(p)
    BY <2>5 DEF PrepareStatements, Exit
  <2>6. CASE FindNoKey(p) \/ FindKey(p)
    BY <2>6 DEF FindNoKey, FindKey
  <2>7. CASE AddOwnActiveKey(p) \/ LoadOwnKey(p)
    BY <2>7 DEF AddOwnActiveKey, LoadOwnKey
  <2>8. CASE StatementFails(p) \/ KeyIDTaken(p) \/ Crash(p)
    BY <2>8 DEF StatementFails, KeyIDTaken, Crash, Exit
  <2> QED BY <1>2, <2>1, <2>2, <2>3, <2>4, <2>5, <2>6, <2>7, <2>8
          DEF Step, Migrate, PrepareOwnKey
<1> QED BY <1>1, <1>2 DEF Next

-----------------------------------------------------------------------------
LEMMA Inductive == Spec => [](SchemaInv /\ OnlyCrashesTear /\ KeyInv /\ OneKeyEach)
<1>1. Init => SchemaInv /\ OnlyCrashesTear /\ KeyInv /\ OneKeyEach
  <2> SUFFICES ASSUME Init
               PROVE  SchemaInv /\ OnlyCrashesTear /\ KeyInv /\ OneKeyEach
    OBVIOUS
  <2>1. SchemaInv
    BY SchemaInit
  <2>2. PICK n \in 0..Latest :
          /\ applied = [m \in Migration |-> IF m <= n THEN Statements[m] ELSE 0]
          /\ recorded = 1..n
    BY DEF Init
  <2>3. \A m \in Migration : applied[m] > 0 => m \in recorded
    BY <2>2 DEF Migration
  <2>4. OnlyCrashesTear
    BY <2>3 DEF OnlyCrashesTear, Torn, TornAt
  <2> QED BY <2>1, <2>4 DEF Init, KeyInv, OneKeyEach
<1>2. SchemaInv /\ OnlyCrashesTear /\ KeyInv /\ OneKeyEach /\ [Next]_vars
        => (SchemaInv /\ OnlyCrashesTear /\ KeyInv /\ OneKeyEach)'
  BY SchemaStep, TearStep, KeyStep DEF SchemaInv
<1> QED BY <1>1, <1>2, PTL DEF Spec

(* The program counters, the schema and the key table keep their types.    *)
THEOREM TypeCorrect == Spec => []TypeOK
<1>1. SchemaInv => TypeOK
  BY DEF SchemaInv
<1> QED BY <1>1, Inductive, PTL

(* No two processes ever execute one migration together, without a lock or *)
(* a transaction around it (src/db/migrator.go:53).                        *)
THEOREM MigrationsExclusive == Spec => []MigrationsAreExclusive
<1>1. SchemaInv => MigrationsAreExclusive
  BY DEF SchemaInv
<1> QED BY <1>1, Inductive, PTL

(* What the migrations table records is in the schema, in order            *)
(* (src/db/migrator.go:58).                                                *)
THEOREM RecordsComplete == Spec => []RecordedIsComplete
<1>1. SchemaInv => RecordedIsComplete
  BY DEF SchemaInv
<1> QED BY <1>1, Inductive, PTL

(* Only a crash leaves a migration begun and abandoned                     *)
(* (src/db/migrator.go:53-58).                                             *)
THEOREM TearsNeedCrashes == Spec => []OnlyCrashesTear
<1> QED BY Inductive, PTL

(* A serving process has the whole schema and a key of the table           *)
(* (src/db/keydb.go:50, src/keys/self.go:42).                              *)
THEOREM ServingIsReady == Spec => []UpIsReady
<1>1. SchemaInv /\ KeyInv => UpIsReady
  BY DEF SchemaInv, KeyInv, RecordedIsComplete, Reached, Complete, UpIsReady
<1> QED BY <1>1, Inductive, PTL

(* A process never generates a second key, however often it restarts       *)
(* (src/keys/self.go:47).                                                  *)
THEOREM NoSecondKey == Spec => []OneKeyEach
<1> QED BY Inductive, PTL

(* A serving process asks every notary of the flag once, in the flag's     *)
(* order, and never itself (src/main.go:104).                              *)
THEOREM NotariesAreTheFlags == Spec => []NotariesAreOthers
<1>1. Init => NotaryInv
  BY DEF Init, NotaryInv
<1>2. NotaryInv /\ TypeOK => NotariesAreOthers
  <2> SUFFICES ASSUME NotaryInv, TypeOK, NEW p \in Proc, pc[p] = "up"
               PROVE  /\ Range(notaries[p]) = Range(flag) \ {Blank, Self}
                      /\ \A i, j \in DOMAIN notaries[p] : i < j =>
                           \E k \in DOMAIN flag :
                             /\ flag[k] = notaries[p][i]
                             /\ \A l \in DOMAIN flag :
                                  flag[l] = notaries[p][j] => k < l
    BY DEF NotariesAreOthers
  <2>1. flag \in Seq(Range(flag))
    BY StartupAssumption DEF TypeOK
  <2>2. InOrderUpTo(notaries[p], flag, Len(flag))
    BY <2>1, ParsedInOrder DEF NotaryInv
  <2>3. DOMAIN flag = 1..Len(flag)
    BY <2>1
  <2>4. Range(flag) = {flag[k] : k \in 1..Len(flag)}
    BY <2>3 DEF Range
  <2> QED BY <2>2, <2>3, <2>4 DEF InOrderUpTo
<1> QED BY <1>1, <1>2, NotaryStep, TypeCorrect, PTL DEF Spec
=============================================================================
