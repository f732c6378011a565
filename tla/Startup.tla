------------------------------ MODULE Startup -------------------------------
(***************************************************************************)
(* From main() to a serving process: db.Setup with its migrations          *)
(* (src/db/keydb.go, src/db/migrator.go, src/db/migrations), the statement *)
(* preparation, the notary list and the own signing key                    *)
(* (src/keys/self.go), for several processes on one PostgreSQL database.   *)
(*                                                                         *)
(* Every SQL statement is a step: no transaction and no lock spans two of  *)
(* them.  A statement that fails ends the process (logrus.Fatal) and the   *)
(* container is started again (src/docker-compose.yaml:4); so does a crash *)
(* between any two statements, and a statement whose reply is lost is a    *)
(* statement followed by a crash.                                          *)
(***************************************************************************)
EXTENDS Integers, Sequences, SequencesExt

CONSTANTS
  Proc,        \* key server processes
  Statements,  \* how many DDL statements each migration executes, in order
  KeyID,       \* what GenerateRandomString may return
  None,        \* no key
  Self,        \* this server's domain
  Blank,       \* a list entry that is empty once trimmed
  Lists,       \* the -notaries flags a deployment may have, split
  MaxCrashes   \* bound on the crashes

Latest == Len(Statements)
Migration == 1..Latest

ASSUME StartupAssumption ==
  /\ Statements \in Seq(Nat \ {0}) /\ Statements # <<>>
  /\ None \notin KeyID
  /\ \A list \in Lists : list \in Seq(Range(list))
  /\ MaxCrashes \in Nat

VARIABLES
  pc,        \* the statement each process executes next
  at,        \* the migration it is at
  step,      \* the DDL statement of that migration it is at
  applied,   \* how many statements of each migration the schema shows
  recorded,  \* the rows of the migrations table
  selfKeys,  \* the rows of self_keys, all active
  own,       \* keys.ownKey, or the key that is being loaded
  flag,      \* the -notaries flag
  notaries,  \* keys.TrustedNotaries
  crashes,   \* crashes so far
  minted     \* history: the keys each process has generated

schema == <<applied, recorded>>
memory == <<own, notaries>>
vars == <<pc, at, step, schema, selfKeys, memory, flag, crashes, minted>>

Location == {"down", "create", "check", "run", "record", "prepare",
             "keys", "generate", "load", "up"}

(* The database is empty, or an earlier release, which had only the first  *)
(* n migrations, has used it.                                              *)
Init ==
  /\ pc = [p \in Proc |-> "down"]
  /\ at = [p \in Proc |-> 1]
  /\ step = [p \in Proc |-> 1]
  /\ \E n \in 0..Latest :
       /\ applied = [m \in Migration |-> IF m <= n THEN Statements[m] ELSE 0]
       /\ recorded = 1..n
       /\ selfKeys \in IF n = 0 THEN {{}} ELSE SUBSET KeyID
  /\ own = [p \in Proc |-> None]
  /\ flag \in Lists
  /\ notaries = [p \in Proc |-> <<>>]
  /\ crashes = 0
  /\ minted = [p \in Proc |-> {}]

-----------------------------------------------------------------------------
(* Mutant: repetitions are kept. *)
ParseNotariesTwice(list) ==
  SelectSeq(list, LAMBDA n : n \notin {Blank, Self})

(* One turn of parseNotaries' loop: what is empty, this server itself or   *)
(* seen already is skipped.                                                *)
Consider(seen, n) ==
  IF n \in {Blank, Self} \cup Range(seen) THEN seen ELSE Append(seen, n)

(* parseNotaries: what its loop has after each entry of the list. *)
ParseNotaries(list) ==
  LET seen[i \in 0..Len(list)] ==
        IF i = 0 THEN <<>> ELSE Consider(seen[i - 1], list[i])
  IN seen[Len(list)]

(* The process ends and loses its memory; the container starts it again.   *)
Exit(p) ==
  /\ pc' = [pc EXCEPT ![p] = "down"]
  /\ own' = [own EXCEPT ![p] = None]
  /\ notaries' = [notaries EXCEPT ![p] = <<>>]
  /\ UNCHANGED <<at, step, schema, selfKeys, flag, minted>>

(* main() begins db.Setup. *)
Boot(p) ==
  /\ pc[p] = "down"
  /\ pc' = [pc EXCEPT ![p] = "create"]
  /\ UNCHANGED <<at, step, schema, selfKeys, memory, flag, crashes, minted>>

(* Mutant: CREATE TABLE without IF NOT EXISTS. *)
PrepareMigrationsPlain(p) ==
  /\ pc[p] = "create"
  /\ recorded = {}
  /\ pc' = [pc EXCEPT ![p] = "check"]
  /\ at' = [at EXCEPT ![p] = 1]
  /\ UNCHANGED <<step, schema, selfKeys, memory, flag, crashes, minted>>

(* CREATE TABLE IF NOT EXISTS migrations. *)
PrepareMigrations(p) ==
  /\ pc[p] = "create"
  /\ pc' = [pc EXCEPT ![p] = "check"]
  /\ at' = [at EXCEPT ![p] = 1]
  /\ UNCHANGED <<step, schema, selfKeys, memory, flag, crashes, minted>>

(* Mutant: one migration too many. *)
AfterPastLatest(p, m) ==
  /\ pc' = [pc EXCEPT ![p] = IF m = Latest THEN "prepare" ELSE "check"]
  /\ at' = [at EXCEPT ![p] = m + 1]
  /\ UNCHANGED step

(* Where Setup goes after migration m: to the next one, or past the last.  *)
After(p, m) ==
  /\ pc' = [pc EXCEPT ![p] = IF m = Latest THEN "prepare" ELSE "check"]
  /\ at' = [at EXCEPT ![p] = IF m = Latest THEN m ELSE m + 1]
  /\ UNCHANGED step

(* applyMigration asks whether its row is there and skips it if so. *)
SkipMigration(p) ==
  /\ pc[p] = "check"
  /\ at[p] \in recorded
  /\ After(p, at[p])
  /\ UNCHANGED <<schema, selfKeys, memory, flag, crashes, minted>>

(* Mutant: the row is written before the statements have run. *)
EnterMigrationRecorded(p) ==
  /\ pc[p] = "check"
  /\ at[p] \notin recorded
  /\ recorded' = recorded \cup {at[p]}
  /\ pc' = [pc EXCEPT ![p] = "run"]
  /\ step' = [step EXCEPT ![p] = 1]
  /\ UNCHANGED <<at, applied, selfKeys, memory, flag, crashes, minted>>

EnterMigration(p) ==
  /\ pc[p] = "check"
  /\ at[p] \notin recorded
  /\ pc' = [pc EXCEPT ![p] = "run"]
  /\ step' = [step EXCEPT ![p] = 1]
  /\ UNCHANGED <<at, schema, selfKeys, memory, flag, crashes, minted>>

(* Mutant: a migration's second statement names its first one's table. *)
ExistsTwice(p) == applied[at[p]] + 1 >= step[p] /\ applied[at[p]] > 0

(* One CREATE TABLE or ALTER TABLE ADD COLUMN: what exists already makes   *)
(* it fail, for none of them says IF NOT EXISTS.                           *)
Exists(p) == applied[at[p]] >= step[p]

(* After a statement of the migration: the next one, or its row. *)
Onward(p) ==
  IF step[p] = Statements[at[p]]
  THEN pc' = [pc EXCEPT ![p] = "record"] /\ UNCHANGED step
  ELSE step' = [step EXCEPT ![p] = @ + 1] /\ UNCHANGED pc

(* Mutant: IF NOT EXISTS, two processes may run one migration. *)
RunStatementIfNotExists(p) ==
  /\ pc[p] = "run"
  /\ applied' = [applied EXCEPT
       ![at[p]] = IF Exists(p) THEN @ ELSE step[p]]
  /\ Onward(p)
  /\ UNCHANGED <<at, recorded, selfKeys, memory, flag, crashes, minted>>

RunStatement(p) ==
  /\ pc[p] = "run"
  /\ ~Exists(p)
  /\ applied' = [applied EXCEPT ![at[p]] = step[p]]
  /\ Onward(p)
  /\ UNCHANGED <<at, recorded, selfKeys, memory, flag, crashes, minted>>

StatementFails(p) ==
  /\ pc[p] = "run"
  /\ Exists(p)
  /\ Exit(p)
  /\ UNCHANGED crashes

(* INSERT INTO migrations, whose primary key refuses a second row. *)
RecordMigration(p) ==
  /\ pc[p] = "record"
  /\ IF at[p] \in recorded
     THEN Exit(p)
     ELSE /\ recorded' = recorded \cup {at[p]}
          /\ After(p, at[p])
          /\ UNCHANGED <<applied, selfKeys, memory, flag, minted>>
  /\ UNCHANGED crashes

(* prepareStatements succeeds if every table and column the statements     *)
(* name is there; main() then reads the notary list.                       *)
Complete == \A m \in Migration : applied[m] = Statements[m]

PrepareStatements(p) ==
  /\ pc[p] = "prepare"
  /\ IF Complete
     THEN /\ pc' = [pc EXCEPT ![p] = "keys"]
          /\ notaries' = [notaries EXCEPT ![p] = ParseNotaries(flag)]
          /\ UNCHANGED <<at, step, schema, selfKeys, own, flag, minted>>
     ELSE Exit(p)
  /\ UNCHANGED crashes

(* Mutant: the first start's branch, whatever the table holds. *)
FindNoKeyEver(p) ==
  /\ pc[p] = "keys"
  /\ pc' = [pc EXCEPT ![p] = "generate"]
  /\ UNCHANGED <<at, step, schema, selfKeys, memory, flag, crashes, minted>>

(* GetSelfKey looks for an active key: the first row of the answer, in no  *)
(* particular order, or a new key.                                         *)
FindNoKey(p) ==
  /\ pc[p] = "keys"
  /\ selfKeys = {}
  /\ pc' = [pc EXCEPT ![p] = "generate"]
  /\ UNCHANGED <<at, step, schema, selfKeys, memory, flag, crashes, minted>>

FindKey(p) ==
  /\ pc[p] = "keys"
  /\ \E k \in selfKeys : own' = [own EXCEPT ![p] = k]
  /\ pc' = [pc EXCEPT ![p] = "load"]
  /\ UNCHANGED <<at, step, schema, selfKeys, notaries, flag, crashes, minted>>

(* Mutant: ownKey is set although the INSERT failed. *)
AddOwnActiveKeyUnchecked(p) ==
  /\ pc[p] = "generate"
  /\ \E k \in KeyID : own' = [own EXCEPT ![p] = k]
  /\ \/ UNCHANGED <<selfKeys, minted>>
     \/ /\ selfKeys' = selfKeys \cup {own'[p]}
        /\ minted' = [minted EXCEPT ![p] = @ \cup {own'[p]}]
  /\ pc' = [pc EXCEPT ![p] = "up"]
  /\ UNCHANGED <<at, step, schema, notaries, flag, crashes>>

(* The INSERT of a new key; a random name that is taken violates the       *)
(* primary key of self_keys.                                               *)
AddOwnActiveKey(p) ==
  /\ pc[p] = "generate"
  /\ \E k \in KeyID \ selfKeys :
       /\ selfKeys' = selfKeys \cup {k}
       /\ own' = [own EXCEPT ![p] = k]
       /\ minted' = [minted EXCEPT ![p] = @ \cup {k}]
  /\ pc' = [pc EXCEPT ![p] = "up"]
  /\ UNCHANGED <<at, step, schema, notaries, flag, crashes>>

KeyIDTaken(p) ==
  /\ pc[p] = "generate"
  /\ selfKeys # {}
  /\ Exit(p)
  /\ UNCHANGED crashes

(* GetOwnKey and LoadKey. *)
LoadOwnKey(p) ==
  /\ pc[p] = "load"
  /\ own[p] \in selfKeys
  /\ pc' = [pc EXCEPT ![p] = "up"]
  /\ UNCHANGED <<at, step, schema, selfKeys, memory, flag, crashes, minted>>

Crash(p) ==
  /\ pc[p] # "down"
  /\ crashes < MaxCrashes
  /\ crashes' = crashes + 1
  /\ Exit(p)

-----------------------------------------------------------------------------
Migrate(p) ==
  \/ SkipMigration(p) \/ EnterMigration(p)
  \/ RunStatement(p) \/ StatementFails(p)
  \/ RecordMigration(p)

PrepareOwnKey(p) ==
  \/ FindNoKey(p) \/ FindKey(p)
  \/ AddOwnActiveKey(p) \/ KeyIDTaken(p)
  \/ LoadOwnKey(p)

Step(p) ==
  \/ Boot(p) \/ PrepareMigrations(p) \/ Migrate(p)
  \/ PrepareStatements(p)
  \/ PrepareOwnKey(p)

Next == \E p \in Proc : Step(p) \/ Crash(p)

Spec == Init /\ [][Next]_vars

(* The database answers and the container restarts what ends              *)
(* (restart: unless-stopped).                                              *)
FairSpec == Spec /\ \A p \in Proc : WF_vars(Step(p))
=============================================================================
