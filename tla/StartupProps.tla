---------------------------- MODULE StartupProps ----------------------------
(***************************************************************************)
(* What processes that start, crash and start again on one database must   *)
(* satisfy.                                                                *)
(***************************************************************************)
EXTENDS Startup

TypeOK ==
  /\ pc \in [Proc -> Location]
  /\ at \in [Proc -> Migration]
  /\ step \in [Proc -> Nat \ {0}]
  /\ applied \in [Migration -> Nat]
  /\ recorded \subseteq Migration
  /\ selfKeys \subseteq KeyID
  /\ own \in [Proc -> KeyID \cup {None}]
  /\ flag \in Lists
  /\ notaries \in [Proc -> Seq(Range(flag))]
  /\ crashes \in Nat
  /\ minted \in [Proc -> SUBSET KeyID]

(* A process that has executed a statement of migration m and has not      *)
(* recorded it yet.                                                        *)
Runs(p, m) ==
  /\ at[p] = m
  /\ pc[p] = "record" \/ (pc[p] = "run" /\ step[p] > 1)

(* Migration m was begun, is not recorded, and nobody is running it: every *)
(* later start fails at its first statement.                               *)
TornAt(m) ==
  /\ applied[m] > 0 /\ m \notin recorded
  /\ \A p \in Proc : ~Runs(p, m)

Torn == \E m \in Migration : TornAt(m)

(* Two processes never share the execution of a migration, though nothing  *)
(* locks it: the second one's CREATE or ALTER fails (src/db/migrator.go:53 *)
(* runs the migration on what an earlier SELECT said).                     *)
MigrationsAreExclusive ==
  \A m \in Migration : \A p, q \in Proc : Runs(p, m) /\ Runs(q, m) => p = q

(* A row of the migrations table is never ahead of the schema, and the     *)
(* migrations are recorded in their order, so that skipping a recorded one *)
(* is right (src/db/migrator.go:46).                                       *)
RecordedIsComplete ==
  \A m \in recorded : /\ applied[m] = Statements[m]
                      /\ \A e \in 1..m : e \in recorded

(* Processes that race on an empty database tear no migration between      *)
(* them: it takes a crash between its first statement and its row.         *)
OnlyCrashesTear == crashes = 0 => ~Torn

(* A process that serves has the whole schema behind its statements, and   *)
(* the key it took for its own is one that its /_matrix/key/v2/server      *)
(* answers publish (src/api/keys_v2/local.go:34).                          *)
UpIsReady ==
  \A p \in Proc : pc[p] = "up" => Complete /\ own[p] \in selfKeys

(* However often it is restarted, a process adds at most one key of its    *)
(* own: only starts that race on an empty table add several                *)
(* (src/keys/self.go:45).                                                  *)
OneKeyEach == \A p \in Proc : \A j, k \in minted[p] : j = k

(* A serving process consults each notary of the flag once, in the order   *)
(* in which the flag first names them, and never itself (src/main.go:104). *)
NotariesAreOthers ==
  \A p \in Proc : pc[p] = "up" =>
    /\ Range(notaries[p]) = Range(flag) \ {Blank, Self}
    /\ \A i, j \in DOMAIN notaries[p] : i < j =>
         \E k \in DOMAIN flag :
           /\ flag[k] = notaries[p][i]
           /\ \A l \in DOMAIN flag : flag[l] = notaries[p][j] => k < l

(* Unless a crash tears a migration, every process ends up serving, also   *)
(* the ones whose first statement met a migration that another was         *)
(* running: they exit, are started again and find its row.                 *)
AllComeUp == <>Torn \/ \A p \in Proc : <>[](pc[p] = "up")
=============================================================================
