# Verification of matrix-key-server

A TLA+ development of the key server in `src/`: models of its concurrent core,
TLC runs over small instances, and TLAPS proofs for every instance. Line
numbers below refer to `src/`; `PROJECT.json` maps each definition to its lines.

## 1. The system

The program answers Matrix servers and clients who ask for the signing keys of
any *remote server*. It keeps what it learned in PostgreSQL (the *reservoir*),
asks the server itself (the *origin*) when what it holds is stale, falls back
to a list of *trusted notaries* when the origin does not answer, and serves what
it has, expired or not, when nobody does. Every HTTP request is a goroutine;
a background goroutine re-probes origins that failed.

| component | state | operations | talks to |
|---|---|---|---|
| key store (`keys/notary.go:331-494`, `db/orm.go`, `db/queries.go`) | rows of `remote_servers`, `remote_keys`, `remote_signatures`; one `RWMutex` per server | `loadHeld`, `storeRemoteKeys`, `InvalidateHeld`, `NoteOriginFailure`, `ResetOriginProbe` | PostgreSQL, one statement at a time, no transactions |
| origin policy (`keys/notary.go:42-142`) | none | `isFresh`, `shouldProbeOrigin`, `originBackoff`, `heldSatisfies` | called by resolver and sweeper |
| resolver (`keys/notary.go:154-329`) | local variables of each call; `origin_failures`, `next_origin_attempt_ts`, `updated_ts` | `queryRemoteKeys`, `probeOrigin`, `fetchDirectFromOrigin` | key store, discovery, notary fallback |
| notary fallback (`keys/notaryFallback.go`) | local variables of a walk | `walkNotaries`, `queryOneNotary`, `verifyAndStoreNotaryResult` | the resolver again, for a notary's own keys; key store |
| walk schedule (`keys/notaryWalks.go`) | a map from server to the time of its last walk, under a mutex | `take` | called by the resolver |
| origin sweeper (`keys/originSweeper.go`) | the candidates of the current sweep | `sweepOriginsOnce`, once a minute | key store, `probeOrigin` |
| query API (`api/keys_v2/query.go`) | results of one batch, a semaphore | `QueryKeysSingle`, `QueryKeysBatch`, `findAndPrepareKeys` | resolver, own key, signing, `InvalidateHeld` |
| check_auth API (`api/custom/verify.go`) | none | `VerifyAuthHeader` | resolver, signing |
| own key (`keys/self.go`, `api/keys_v2/local.go`) | `self_keys`, the cached key | `GetSelfKey`, `GetLocalKeys` | PostgreSQL |
| discovery (`federation/federation.go`) | a cache of base URLs with lifetimes | `GetServerApiUrl`, `FederatedGet` | remote hosts, DNS |
| migrations (`db/migrator.go`, `db/keydb.go`) | table `migrations` | `Setup`, `applyMigration` | PostgreSQL at start-up |
| start-up (`main.go`) | the notary list | `main`, `parseNotaries`, `prepareOwnKey` | migrations, own key |
| signing, web server, gauges, utilities | none that others depend on | pure functions, routing, counters | |

What is hard here, and where the properties aim:

* A load and a store are several statements, kept apart by nothing but the
  lock; a failed statement or a restart stops a store half-way.
* A call of `queryRemoteKeys` reads the record, then spends seconds in a probe
  and a walk, and writes what follows from the old read. Other requests and the
  sweeper do the same to the same row meanwhile.
* Three schedules bear on one server: freshness of its keys, standoff of its
  origin, cooldown of its walks. The first two share a row and its
  `updated_ts`; the third lives in memory and dies with the process.
* A walk calls the resolver recursively for the notaries' own keys.
* A server that nobody asks for has to recover by the sweep alone.
* A batch is a goroutine per server, a few at a time; one that fails must cost
  no other its answer, keep no slot and outlive no reply.
* Discoveries of one name overlap, each over its own view of `.well-known` and
  DNS, and the last to end is what the cache keeps.
* Processes that start together migrate one database and look for a key in it
  without a lock or a transaction; each may crash at any statement.

`PROJECT.json` lists the hazards at their lines with the properties that watch
them, or the reason why none does.

What makes each part correct:

* key store: a record read or served is the whole of one answer; stores never
  lose keys; a notary never shortens what is held; the lock is always given back.
* policy and resolver: the two schedule columns agree whatever order notes and
  stores fall in; a request that has keys in hand answers with keys; its reply
  is what the reservoir then holds; every request ends.
* notary fallback and walk schedule: the caller gets the best copy anyone had;
  walks for a server keep their distance.
* sweeper: an origin that recovered is found; a notary's copy is on its list.
* batch: every batch is answered, by lookups that have all ended, with all
  that could be answered and as fresh as each criterion wants.
* discovery: what the cache hands out rests on something a host or DNS said, no
  longer ago than such a statement may be trusted.
* migrations, own key, start-up: a migration runs once, its row never comes
  before its statements, a process serves with a whole schema and a key that
  the table has, and all processes get there.

## 2. The modules

**`KeyStore`** is the reservoir of *one* server, one SQL statement per step.
`row`, `keys`, `sigs` are the tables' rows for that server; `writer` and
`readers` are the `sync.RWMutex` of `serverLock` with Go's rule that a waiting
writer blocks new readers; `pc`, `job`, `todo`, `part`, `got` are each
goroutine's place and local variables. A load is `AcquireRLock`, `BeginLoad`,
`LoadRow`, `LoadKeys`, `LoadSigs`; a store is `AcquireLock`, `Check` (the upgrade rule),
`Upsert`, `DeleteKeys`, `DeleteSigs`, `InsertKey`..., `InsertSig`...,
`StoreDone`. `Serve` and `Refuse` are `findAndPrepareKeys` with its last-minute
signature check, `BeginInvalidate` and `InvalidateHeld` what follows a refusal.
Faults are failed statements at each call and restarts, at most `MaxFaults`.
A table row carries the answer it came from, which stands for the bytes of keys
and signatures: two rows verify together when they come from one answer.
One server is enough: every statement has the server in its `WHERE`, every lock
belongs to one server.

**`Reservoir`** is the abstract specification: one record, replaced and read
atomically, an origin's answer always wins, a notary's only if longer valid.

**`KeyStoreProps`** states the store's properties and the refinement mapping:
a store takes effect at its `Upsert`, though the delete and the inserts are still to
come, because the lock hides everything up to its end.

**`OriginPolicy`** and **`WalkSchedule`** are the pure decisions: operators of a
record, a time, a schedule.

**`KeyResolver`** composes them into the calls of `queryRemoteKeys` over several
servers and a clock. `row` is `remote_servers` with a bit for "has keys"; a load, a
store that succeeds and a failure note are one step each, which the refinement of `Reservoir`
by `KeyStore` justifies. `frame[g]` is the call a goroutine is in with its
arguments and locals, `caller[g]` the walk that waits below it for a notary's own
keys (the recursion is one deep, since the inner call has
`allowNotaryFallback = false`). Each segment of the Go function between two
accesses to shared state is an action: `Load` (with the fast path), `OriginAnswers`,
`OriginFails` (with the note and its backoff), `NoWalk`, `TakeWalk`,
`NextNotary`, `NotaryAnswers` (verify and store), `NotaryFails`, `WalkEnds`;
`Conclude` is the tail of `queryRemoteKeys` with its outcomes. `ListDue` and
`Visit` are the sweeper's loop. Faults are `OriginFailsUnnoted`, a lost
`ResetOriginProbe` in `OriginAnswers`, a skipped upgrade rule in `NotaryAnswers`
(`NotaryStores`), `LoadFails`, `VisitFails`, `Invalidate`
(a record that failed the last-minute check), and stores that are cut short: by a failed statement
after the upsert (`OriginStoreFails`, which goes on to the failure note, and `NotaryStoreFails`), or by `Restart`,
which may cut every store that is then in progress. What such a store leaves is any row that
its statements may leave (`CutRows`): the new validity and provenance, over no keys, over some or over those of
before, with the schedule cleared or not; on a first store without keys and with no probe scheduled.
An answer that lists a key twice stops its own store in the same way and counts as a fault here.
`stored`, `walked` and `torn` (when a store of a server was last cut short) are history variables that only properties read.

**`Holdings`** is the abstract specification of `KeyResolver`: one copy per server and what each
request has in hand of it, without probes, walks, clock and schedule. A copy is
replaced by its origin's answer (`Refresh`) or by a longer-valid one of a notary
(`Upgrade`), appears without keys when an unknown origin fails (`Miss`), and loses
its validity to a request that finds it spoilt (`Void`); a request only ever takes
the copy that is held at that moment (`Read`, or as it arrives). What faults do beyond that are *mishaps*, at most
`MaxMishaps` of them: a store cut short leaves any copy (`Tear`, `Restart`), a notary's answer lands on a
longer-valid one (`Arrive`). The refinement
mapping, in `KeyResolverProps`, makes faults mishaps, forgets the schedule columns of a row, and finds a request's
hand in its outer call (the best copy of its walk, else the one it read), and in
its reply when the call is over.

**`ServeBatch`** is `QueryKeysBatch`. Each request is a handler with its items
(`todo`), its wait group, its semaphore and one goroutine per server
(`worker[r][s]`) that goes through `Spawn`, `TakeSlot`, `Lookup`, `Fetch` or
`FetchNothing`, `Prepare`, and `Refuse` with `Invalidate` if the record does not
verify, to `ReturnSlot`; `Reply` is what follows `wg.Wait`. The requests share the records:
the resolver and the store shrink to `held[s]`, a record that verifies, does not,
or has no keys, with its validity, and to `reach[s]`, whether anybody can be asked for a new one. What is
fetched is valid as long as the source says, which may be over already: `Validate`
(`api/api_models/local.go:56-67`) reads no times, and of a dead server a notary may hold nothing else.
`Fetch` thus stores one of the server's `Offers`, or keeps a copy at least as long valid, as it does when a notary answers.
`spoilt` and `away` are histories of what happened to a server since the request came in, `short`
of an answer that a source gave for this very request and that fell short of it.

**`Gather`** is the abstract specification of `ServeBatch`: records, and batches that ask for some
servers and get each in their own time, whatever happens to the others. A record changes at any moment
(`Drift`); a batch takes the copy held at that moment, perhaps just fetched (`Take`), turns the one in its hand
down if it does not verify (`Refuse`), settles it as a final result (`Settle`) or gives the server up (`Fail`),
and answers (`Answer`) when each server asked for has a result, with those found. No wait group, slots,
goroutines or criteria (`EveryCriterionIsMet` is about those). The mapping, in `ServeBatchProps`: the copies are `held`, the hand of a batch is the record of each
worker that has read one and not yet verified it, and what is found is `results`.

**`Discovery`** is `GetServerApiUrl`: `UseCached`, `UseLiteral`, `Begin`, `Probe` (the
`.well-known` response classified, with its lifetime), one lookup per SRV service
(`UseSrv`, `TryDeprecated`), `UseHost`. `wk` and `srv` are what hosts and DNS say
at the moment; both change. Names have a form (`ip`, `port`, `name`, or `junk` for what
`isUsableDelegation` rejects), not letters. `wkAt`, `srvAt`, `asked`, `failed` are
histories of who said what when.

**`Startup`** takes several processes from `main()` to serving: `Boot`,
`PrepareMigrations`, per migration `SkipMigration` or `EnterMigration`,
`RunStatement`... and `RecordMigration`, then `PrepareStatements`, and `GetSelfKey`
with `FindKey` and `LoadOwnKey` or `FindNoKey` and `AddOwnActiveKey`. A failed
statement is `Exit`, a crash is possible anywhere, and the container starts the process again.
`ParseNotaries` is the loop of `parseNotaries` over the positions of its list.
The schema is the number of statements of each migration that it shows.

These three touch the others only at one point each: a probe of `KeyResolver` succeeds or fails
whatever `Discovery` found, a lookup of `ServeBatch` meets what `KeyStore` and
`KeyResolver` allow, and both tables exist once `Startup` is up. So they are
modules of their own and not composed into one state space.

**`KeyResolverProps`**, **`ServeBatchProps`**, **`DiscoveryProps`**,
**`StartupProps`** state the properties; **`MCKeyStore`**, **`MCKeyResolver`**,
**`MCServeBatch`**, **`MCDiscovery`**, **`MCStartup`** give the constants of the instances;
**`KeyStoreProofs`**, **`KeyStoreRefinement`**, **`KeyResolverProofs`**,
**`KeyResolverRefinement`**, **`HeldKeysProofs`**, **`ServeBatchProofs`**, **`DiscoveryProofs`**,
**`StartupProofs`** hold the theorems.

Definitions marked "Mutant" are wrong versions of the definition next to them.
No specification uses them; each property is known to fail when its mutant takes
the place of the real definition, so the property does depend on that code.

### What is abstracted

* What an origin or a notary sends is either an error or a well-formed answer
  that names the server asked for. Parsing, `Validate`, canonical JSON and
  ed25519 are that choice.
* In `KeyResolver` an answer is its `valid_until_ts`, past ones included, its provenance and the
  fact that it has keys. `KeyStore` is about the rest.
* `util.NowMillis` is one clock that never goes backwards. `storeRemoteKeys`
  reads it just before it takes the lock (`notary.go:393`), in the model with the
  store.
* From a load to what follows its probe at most `MaxLag` passes (`Tick` waits): discovery
  has a 5 s timeout, the fetch 8 s (`federation.go:48,52`); SQL statements are
  taken to end. Steps of a walk have no such bound.
* In `ServeBatch` freshness is validity alone: the age conditions of `isFresh` (`keys/notary.go:122-123`) are in
  `KeyResolver`. A record is stored whole or, after a fault, as a row over other rows or
  none; whether it may come from a notary is in `reach`. `GetAllOwnKeys` only fails or not.
* In `Discovery` a network call takes effect when its answer is given; the cache entry's
  lifetime starts when the last call is back, at most `MaxLag` later. The overflow of a `max-age` that no
  duration can hold (`federation.go:233`) is left out; it ends within the limits like any other. Redirects and
  the size limit are part of "an error". A restart is a process that was never asked.
* In `Startup` `CREATE TABLE` and `ALTER TABLE ADD COLUMN` fail on what exists (none of the
  migrations says `IF NOT EXISTS`; that the one for `migrations` itself may fail when two processes race is a crash), a committed statement with a lost reply is a statement
  and a crash, and the database begins empty or as an earlier release left it.
* Metrics, logs and `isArchived`, which only labels them, are left out.

## 3. The runs

Runs on `MCKeyStore`:

| run | shows |
|---|---|
| `store` | Three goroutines, three answers, no faults: `ServedWhole`, `SettledRowsCarryKeys`, `NotaryNeverDowngrades`, and `KeepsPromise`, the refinement of `Reservoir`. |
| `store_faults` | Two goroutines, two faults anywhere. `InsertNeverCollides` and `SignaturesImplyFullKeys` hold after both; `ServedOneAnswer` after one: the statement order and the last-minute check together never serve one answer's keys under another's fields. |
| `store_locks` | `LocksAreReleased` under fairness, with a fault and with an answer whose insert must fail. |
| `store_repeated_key` (violation) | An answer that lists a key as current and old stops the store at the primary key and a partial record is served, against `notary.go:344`. |
| `store_keys_lost` (violation) | A first store completes; a second one is stopped by one fault after its `DeleteRemoteServerKeys`: the keys of the first are gone and none are in their place, against `notary.go:399`. |

Runs on `MCKeyResolver`:

| run | shows |
|---|---|
| `resolve` | Two requests race for one server with one notary, with times read before their probes, minimum validities before and after now, and one fault anywhere, a restart and stores cut short among them: `WalksAreSpaced` (the schedule is lost with the process) and `HeldIsNotLost`. |
| `resolve_walk` | One request at a time, for a server or one of its two notaries, which fail or offer copies of three ages: `BestOfWalk`, `RepliesMatchReservoir`, `NotaryRowsAreSwept`, `WalksAreSpaced` with pruning at every walk, and `Answered`: every request ends. `CallsWindDown` is why: five steps for each notary left, three of them in the call for its keys, and no step of a call adds to what is to come. |
| `resolve_heals` | `SweepHeals`, with nobody obliged to ask and one probe per sweep for two servers, one of which is the other's notary, whose answers may have expired when they come; `ScheduleIsSound` through one fault anywhere: a lost note, a lost reset, a store cut short, a skipped rule, a failed load or visit, an invalidation, a restart; and `KeepsHoldings`, the refinement of `Holdings`. |
| `resolve_age` (violation) | A failure note makes an old record look new, against `notary.go:42`. |

`NotaryRowsAreSwept` and `RepliesMatchReservoir` are checked for one request, where they hold; section 4
says how much more may happen beside it, section 5 what two requests for one server do.

A store that is cut short does break what would be the plain form of three properties, and they say so by way of
`torn`. `ScheduleIsSound` excuses a row without keys from the sweep's list from such a store until the next whole one. `HeldIsNotLost`
excuses a request under which a store of its server was cut short: a notary with no longer-valid
copy then returns what that store left (`notary.go:409-411`). `BestOfWalk` excuses this and a request that found such a
row from before. Without these hypotheses TLC finds each of the three violated.

The other runs, each on the `MC` module of its specification:

| run | shows |
|---|---|
| `batch` | Two batches share a server, with one slot for two goroutines, a record that does not verify, one statement that fails and one record that ages or origin that comes or goes, and sources that answer with expired records: `NothingRunsOn`, `OthersAreUnharmed`, `EveryCriterionIsMet` (what is served meets every criterion, or a source was asked for this request and
gave nothing better), `SomeoneMoves` (a batch that has not replied has a goroutine that can go on: its wait group and slots never make it wait for itself), `BatchPromise`, the refinement of `Gather`, `BatchesEnd`, and `RefusalsEnd`, that a record which fails the last-minute check is replaced. |
| `discovery` | Two calls overlap, for a name and a host with a port, over five kinds of `.well-known` response (two of them with cache directives) and any SRV answers, one of which changes: `UsableIsJustified`, `ProbesAreSpaced`. |
| `startup` | Two processes, the four migrations with their 1, 3, 1 and 2 statements, every state an earlier release leaves, two crashes: `MigrationsAreExclusive`, `RecordedIsComplete`, `OnlyCrashesTear`, `UpIsReady`, `OneKeyEach`, `NotariesAreOthers`, `AllComeUp`. |

### Bounds, and why they are enough

* *Goroutines.* Two make every race of two calls; the third in `store` lets a
  reader stand between two writers.
* *Answers.* `MCKeyStore` has an early and a later answer with a key rotated from
  current to old between them, and one as long valid as the early one with other
  keys. So equal, longer and shorter validity meet, and rows
  of two answers can be told apart.
* *Ladder.* Two rungs and a transient backoff: below, at and past the top.
* *Clock.* `MaxTime` lets a standoff, a walk cooldown and the life of an answer run
  out at least once within a behaviour. `Offers` and `Ahead` are chosen so that a notary's copy
  is shorter, longer or equal to what is held, and does or does not satisfy.
* *Cooldown* 3 with `MaxLag` 1 in `resolve`, so that the slack of one probe is
  visible: the property with one unit more is violated.
* *PruneAt* 1 in `resolve_walk`, with a request for one of the notaries too, so that a walk
  forgets another server's entry once that has cooled down.
* *Ahead*, how far from now the validity lies that a request asks for, is 1 in `resolve_walk`: held keys may be valid and still not
  do; in `resolve` it is also -1, since clients may name any time. *Offers* 1, 3 and 4 there are shorter than, equal to and longer than an origin's, with
  `MaxTime` 3 and a cooldown of 2, so that a second walk is possible.
* *Batch* 1 against two due servers in `resolve_heals`; 0 turns the sweep off
  where it is not the question.
* *Lifetimes* is -1 and 2 in `resolve_heals`: an answer that has expired when it comes, and one that has not.
* *MaxFaults* is stated per run; 1 is enough to cut a store short anywhere. *FailUntil* bounds when origins recover; only
  `resolve_heals` lets them.
* Goroutines are symmetric in all runs without liveness properties.
* *Slots* 1 in `batch` makes goroutines wait for each other; criteria below and above what is held. With `Now` 2 the sources of one
  server answer with validity 1, over, or 3, enough for both of its criteria.
* Lifetimes 0 to 3 in `discovery`: the failed one 0, the absent one equal to the minimal 1,
  the valid and the maximal one 3, past `MaxLag` from the minimal one; a `max-age` above the
  limits, none, and `no-store`, which is below them; `MaxTime` 3 lets all but the longest run out.
* *MaxCrashes* 2 in `startup`: one process can tear a migration, and the next be hit where it stands.
* Deadlock is checked in every run but `startup`, where all processes may be up and
  nothing is left to do: elsewhere a request, a cached answer or the tick is always possible.

### Fairness

`KeyStore`'s `Fairness`: weak fairness of a goroutine's statements once it holds the lock
(goroutines run, statements end), and strong fairness of taking the lock: Go's `RWMutex` lets the waiting
readers in after a writer and its mutex has a starvation mode, so a goroutine
that finds the lock free again and again gets it. Nobody has to start a load or a store.
`KeyResolver`'s `Fairness`: weak fairness of each goroutine's step (every network
call has a timeout), of the sweeper (`time.Tick` fires every minute), and of
time. `SweepHeals` further rests on `FailUntil`: from some time on the origin
answers; without it there is nothing to heal.
`ServeBatch`'s `Fairness`: some step of a batch that can run is run, since goroutines are
scheduled and every call has a timeout; nobody has to send a request. `Startup`: weak
fairness of every process, since the database answers and the container is restarted
(`docker-compose.yaml:4`, `restart: unless-stopped`). `Discovery` states none and claims no liveness: that
a call ends is its timeouts, which are the bound `MaxLag`.

## 4. The proofs

All for arbitrary sets of goroutines, servers, answers and any
values of the constants that satisfy the named assumptions (the ladder is not
empty and does not fall, the transient backoff is at most its first rung, the
cooldown and bounds are naturals, placeholders differ from data).

* `KeyStoreProofs`. `TypeCorrect`; `LockCorrect` (one writer, no reader beside it, whoever is
  between two statements holds the lock), from which the others follow. `LockNeverStuck`, the safety half of
  `LocksAreReleased`: some goroutine can always go on while another waits for the lock, although a waiting writer
  keeps readers out, since a holder waits for nobody.
  Through faults: `NoCollision` and `SignaturesBesideTheirKeys`. Their inductive
  invariant says, for each place in a store, what the tables hold: after `DeleteKeys`
  no keys, during the inserts exactly the rows already taken from `todo`, and
  outside a store any prefix of that sequence, which is all a fault can leave.
  Without faults and with well-formed answers: `ServesWhole`, `KeysAreNeverLost`,
  `UpgradeRule`. Here, outside a store, the tables hold the whole of one answer
  or a blank row.
  Through one fault: `OneAnswerThroughAFault`. Before the fault the tables are whole. After it
  every writer starts afresh, so what lies in the tables, and what a reader has of them, is *matched*:
  keys and validity of the answer whose row they lie under, or a signature of another
  answer among them, which the last-minute check sees (`TablesMatch`, `RecordsMatch`).
  Readers meet half a store only while its writer holds the lock, so `ReadInv` gives what each has read so far.
  Two hypotheses: answers are well-formed, and signed. An origin's answer without any signature
  is accepted by the code (verifying no signatures succeeds), and the check is void for it.
* `KeyStoreRefinement`. `Implements`: `Spec`, with well-formed answers, implements
  `Reservoir` under the mapping above. Statements map to
  stutters except the load's last `SELECT`, the `Upsert`, the failure note of an unknown
  server, and the end of a request.
* `KeyResolverProofs`. `TypeCorrect` with the invariant that a call that asks a notary has
  one at the head of its list. `ScheduleSound`: the columns agree and no standoff
  outlasts the top rung. It needs `ClockInv`: a call's time is not after the
  clock, because the note is computed from the time of the load and a lemma
  (`BackoffBounds`) bounds what is added to it. Of a store that is cut short it needs only that the
  schedule is then as before or clear (`CutType`, `SameOrNoSchedule`), and `torn` says since when a row without keys may be
  off the sweep's list. `WalksSpaced`: `WalkInv` ties the history of walks to the map: what
  the map remembers is at most `MaxLag` before the walk began, and what it has forgotten
  has cooled down. `CallerInv` (only a notary's own resolution has a waiting
  caller) shows that no step but `TakeWalk` begins a walk for a request.
  `CallsEnd`: for any list of notaries each step of a call leaves it fewer steps to come, those of the walk
  that waits below it counted in. It is the safety half of `Answered`; the other half, that a step which can be
  taken is taken, is fairness.
* `HeldKeysProofs`. `HeldKeysAreServed`: a request that read keys replies with keys, unless a store of its server was
  cut short after it read them. A row is *whole* if it has keys or validity 0, so that the next copy a notary
  stores is kept only beside keys. `KeptInv`: if a call read a whole row (or none) and no store of the server was cut short since, the row
  is whole now, and the best copy of the walk has keys and is as long valid as every copy offered; each
  step keeps a whole row whole but for a cut (`NextKeepsWhole`). A cut that the note of a failed probe hides is
  seen by its time: `torn` is the clock at the cut, which is not before the load.
  `FramesInv`: no reply exists while a call runs, nothing is held before the load, and the
  best copy of a walk has keys, across the recursive calls that suspend a walk. The
  proof then goes through the three ways a request ends: the load, the origin's
  answer, the tail of `queryRemoteKeys`. `WalkGivesBest`: the record that a request gets is valid as
  long as every copy it heard of, with the exceptions that `Intact` names. The best so far is, because a store leaves a copy
  no shorter-valid than the one that came (`NotaryStoresRow`, `HeardBest`), also when it skips its rule; and it does not satisfy the request as long as notaries are left, so
  a copy that ends the walk is longer-valid than the best before it.
  `ApartRowsAreSwept` and `ApartRepliesMatch` have two temporal hypotheses, because what they
  say is false without them (section 5): `[]Apart`, no other call is on the server of a request
  in progress, and `[][Quiet]_vars`: no failure note is lost, no store fails under a call that goes on or skips its rule,
  and no record is invalidated under a call. Requests for other servers, the sweep, restarts that cut stores short, failed
  loads, visits and resets remain. `CallsAgree`: what a request has
  in hand, `held` or its best copy, is the store's copy, and it walks only while the origin has a standoff. `PlacesInv`
  keeps a walk apart from the resolution of its notary's keys: only requests walk, and no notary is asked about itself.
* `KeyResolverRefinement`. `ImplementsHoldings`: `Spec`, with every fault and any overlap of calls,
  implements `Holdings`, each fault being one mishap of it (`NoFault`, `AFault`) and each other step a usual one: what happens
  to copies without faults happens, whatever overlaps, only by their origin or by a longer-valid copy.
  What overlap cannot break is thus stated beside what it does
  (section 5): a reply may be older than the store's copy, never older than the
  request, and never a mixture. `Load` maps to `Read`, or to `LetGo` where there is no row;
  a store to `Refresh` or `Upgrade`, or to `Arrive` where its rule is skipped, taken by the request whose call it is, but not by the one
  whose walk waits for a notary's keys; the tail of `queryRemoteKeys` to a stutter if it
  replies with what the request has in hand, else to `LetGo`; a store that fails to `Tear`, which leaves every hand alone. `ReturnHand` and `ContinueHand`
  say this once for every way a call ends or goes on. The invariants are those of
  `HeldKeysProofs`; `CopyAssumption` says that the names `NoRow` and `Idle` are no copies.

* `ServeBatchProofs`. `TypeCorrect`, `RepliesComeLast`, `HarmIsOnesOwn`, `CriteriaMet`, for
  any number of batches, servers and slots. `CountInv` says that the wait group and the semaphore are the
  cardinalities of the sets of goroutines that have started and that hold a slot;
  without it nothing follows from `wg = 0`. `WorldInv`: a server not yet in
  `spoilt` has a good record, one not in `away` is within reach. `ItemsInv` and `ReplyInv` carry
  "good, and valid for every criterion", from what a goroutine read to its
  result to the reply, or else "no shorter-valid than what a source gave for this request"; the lemma `MaxIsHighest` ties it to the criteria.
  Nothing is assumed of how long the answers of sources are valid.
  `NoBatchBlocksItself`: from the same counts, a batch in progress has a goroutine that can take a step, the
  safety half of `BatchesEnd`. `ImplementsGather`: `Spec`, with any number of batches that share their servers
  and any faults, implements `Gather`. `Receive` maps to `Ask` and `Reply` to `Answer`; `Lookup` and `Fetch` to `Take`,
  `Prepare` to `Settle`, `Refuse` to `Refuse`, what fails to `Fail`; what touches only records, a lost store among it,
  to `Drift`; the wait group and the slots to stutters. `OpenInv` says that
  a goroutine which can still find something works for a server that its own request asks for and that has no result yet;
  without it a lookup left over from an earlier request could settle a server of the next.
* `DiscoveryProofs`. `TypeCorrect`, `CacheJustified`, for any responses, lifetimes and
  calls. `HeardByNow` and `Heard` say that what hosts and DNS say now was said now and nothing later;
  `FramesInv` what a call in progress has heard, no longer ago than its start;
  `CacheInv` bounds each entry's expiry by the age of what it rests on.
  `HostsAreSpared`: a host is not probed again before the failed lifetime is over, nor before the
  minimal one unless a probe failed meanwhile, by any call that no other overlaps. `CoveredInv`: unless a
  call for it is in progress, a host that was asked has a cache entry that reaches that far (`TtlReaches`).
  It rests on `FailedTtl <= MinTtl <= AbsentTtl`, in the code 5 minutes, 1 hour and 1 hour (`federation.go:85-105`).
* `StartupProofs`. `TypeCorrect`, `MigrationsExclusive`, `RecordsComplete`, `TearsNeedCrashes`,
  `ServingIsReady`, `NoSecondKey`, for any number of processes, migrations and crashes. `SchemaInv` says who may be in
  which migration: a process that has executed a statement and not yet the row is alone with it,
  the migrations before it are recorded, and the schema shows as many statements as
  it has run. Without crashes nobody leaves that place but through the row (`TearStep`).
  `KeyInv`: who generates a key has not generated one before, since the table is never emptied.
  `NotariesAreTheFlags`: what `parseNotaries` leaves, for flags of any length, is the names given, in their
  order, once each and without this server. The loop is a function over positions, and the proof looks at the
  first position where the claim would fail, which needs no induction over the list.

Only model-checked: the liveness properties (`LocksAreReleased`, `Answered`,
`SweepHeals`, `BatchesEnd`, `RefusalsEnd`, `AllComeUp`). They rest on fairness and `ENABLED`, which the proof
system does not handle; of `LocksAreReleased`, `Answered` and `BatchesEnd` the safety halves are proved. Every invariant and every action
property that a run checks and finds to hold is a theorem, some under the hypotheses named above (for `NotaryRowsAreSwept` and `RepliesMatchReservoir`,
`Apart` and `Quiet`).

## 5. Differences met between code and text

The violation runs are listed above. Further ones, seen while
modelling and kept as hazards:

* When the `SELECT` in `storeRemoteKeys` fails, the upgrade rule is skipped (`notary.go:408`).
* A record whose store was cut short after its upsert may be fresh and have no keys. `isFresh` reads only times
  (`notary.go:121`), so the fast path answers from it without keys until it ages, and no sweep looks for it if it was
  a first store (`next_origin_attempt_ts` is 0) or one that had cleared the standoff. After a notary's store it also
  belies `queries.go:91-92`, "Rows obtained via a notary always carry keys". A walk that hears another
  notary's copy of the same validity then returns the row without keys, since only a longer-valid one replaces it (`notary.go:409`).
* An expired answer is stored and served: `Validate` (`api/api_models/local.go:56-67`) does not look at `valid_until_ts`.
  A server within reach may thus be answered for with a record that is not valid now.
* `federation.go:90-92` gives one hour to what is derived from SRV records. The code does so for a host without a delegation; a
  delegated host's URL from SRV records lives as long as the delegation (`federation.go:338`), up to 48 hours, as
  `federation.go:305-308` says. `UsableIsJustified` is stated with the latter.
* After one failed statement a record can be served with its keys but without the
  origin's signatures: the check verifies the signatures there are.
* The failure count that a note writes comes from the record read before the probe
  (`notary.go:253`). A probe that fails after another one's success counts on from the old
  value, where `db/models/keys.go:44` speaks of consecutive failures.
* While one request walks, another may reach the origin and clear its standoff. The
  walk's longer-valid copy then replaces the origin's (`notary.go:409`) with no probe
  scheduled, and is off the sweeper's list (`db/orm.go:146`) until it is asked for.
* An SRV lookup that fails counts as one without records (`federation.go:380`, defended
  there). After a delegation or a clean "there is none" the guess made from it is kept an
  hour or for the delegation's max-age, up to 48 hours, while a failed `.well-known` is kept minutes
  (`federation.go:82-84`).
* A crash between a migration's statement and its row makes every later start fail at that
  statement, until somebody writes the row (`migrator.go:53`). `AllComeUp` excepts it.
* Two processes that find `self_keys` empty each make a key (`self.go:45`); both are active and
  published, and each restart takes whichever row comes first.
* `isUsableDelegation` lets an IPv6 literal through ("An IPv6 literal is a legitimate
  delegation"), but the URL is built from it without brackets, and `[::1]` without a port is rejected.
  Forms of names are below the level of `Discovery`.
* After two stores cut short the check no longer keeps answers apart.
* `InvalidateHeld` may mark a good record stored since the check.
* `README.md:41` promises at most one walk every 15 minutes; it is 15 minutes less
  the duration of one probe, because `take` records the time of the load.
* A `Scan` error returns without closing the rows (`db/orm.go:225`); the connection is not given back.
* A server healed between the sweep's listing and its turn is probed again, since
  0 counts as due (`originSweeper.go:86`).
* `notaryFallback.go:104` says a notary's own keys never come through another
  notary. The inner call does not walk, but it answers from the reservoir, which a request
  for that notary may have filled by a walk.

## 6. Not modelled

Cryptography, canonical JSON, redaction, HTTP routing and envelopes, logging, gauges,
flag parsing, conversions of `util`: pure or without state that a decision reads.
`federatedClientFor`, `FederatedGet` and `ReadResponseBody` build one request each: their state is
a map from TLS host to client, which only grows, and the connections of `net/http`; and what can happen to a request is already the choice between an
answer, an error and a timeout. `GetLocalKeys` reads the key table and signs. `VerifyAuthHeader`
beyond its call of the resolver. Schema details of the DDL statements beside
how many there are and that they fail on what exists.

## 7. Plan

Done in this order: `KeyStore`, `Reservoir` and their proofs; `OriginPolicy`, `WalkSchedule`,
`KeyResolver`; the proofs of its schedule, walks and replies; `Holdings` and its refinement; `ServeBatch`, `Discovery`,
`Startup` with their proofs; `Gather` and its refinement, the end of calls and of `parseNotaries`. What is left:

1. `OriginPolicy` over 64-bit sums.
2. Old keys with `expired_ts` 0, which `findAndPrepareKeys` serves as current.
