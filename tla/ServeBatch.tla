----------------------------- MODULE ServeBatch -----------------------------
(***************************************************************************)
(* QueryKeysBatch (src/api/keys_v2/query.go): one goroutine per server     *)
(* asked for, a few of them at a time, each of which looks the server's    *)
(* keys up, signs and verifies them and leaves a result; the reply when    *)
(* all are back.                                                           *)
(*                                                                         *)
(* The resolver (module KeyResolver) and the store (module KeyStore) are   *)
(* reduced to what a lookup can meet: a record that verifies or does not,  *)
(* how long it is valid, which may be over already when a source answers   *)
(* with it (Validate, src/api/api_models/local.go:56, reads no times), and *)
(* whether the origin or a notary can be asked.                            *)
(***************************************************************************)
EXTENDS Integers, FiniteSets, FiniteSetsExt

CONSTANTS
  Request,    \* handlers of batch requests, each at one request at a time
  Server,     \* server names
  Stored,     \* what the database may hold at first
  Reached,    \* what may be in reach at first
  Body,       \* what each may be asked: the criteria for some servers
  Slots,      \* batchResolveConcurrency
  Now,        \* the time, in the unit of validities
  Longest,    \* bound on validities
  Offers,     \* the validities of what each one's sources answer, past ones
              \* included
  None,       \* no reply yet
  Nothing,    \* no result yet
  Error,      \* a lookup's errLike
  MaxFaults,  \* bound on the statements that fail
  MaxTurns    \* bound on the records that age and origins that come and go

(* A record whose rows verify together, one whose rows do not, or a row    *)
(* without keys; without a row is like a row without keys or validity.     *)
Record == [kind : {"good", "bad", "bare"}, valid : 0..Longest]
NoRecord == [kind |-> "bare", valid |-> 0]

(* A lookupResult: not there yet, an errLike, or the record expanded,      *)
(* which is the empty object for one without keys.                         *)
Result == {Nothing, Error} \cup Record

ASSUME ServeBatchAssumption ==
  /\ Stored \subseteq [Server -> Record]
  /\ Reached \subseteq [Server -> BOOLEAN]
  /\ \A r \in Request : \A b \in Body[r] :
       /\ DOMAIN b \subseteq Server
       /\ \A s \in DOMAIN b : b[s] \subseteq Nat /\ IsFiniteSet(b[s])
  /\ IsFiniteSet(Server)
  /\ {Nothing, Error} \cap Record = {} /\ Nothing # Error
  /\ Nothing \notin 1..Longest
  /\ \A S \in SUBSET Server : None \notin [S -> Result]
  /\ Slots \in Nat \ {0}
  /\ Now \in Nat \ {0} /\ Longest \in Nat /\ Offers \in [Server -> SUBSET (1..Longest)]
  /\ {MaxFaults, MaxTurns} \subseteq Nat

VARIABLES
  held,     \* what is stored of each server
  reach,    \* whether a source of its keys may be asked and answers
  body,     \* the request each handler is at, or was at last
  todo,     \* its items that have no goroutine yet
  wg,       \* its sync.WaitGroup
  sem,      \* the slots taken of its semaphore
  worker,   \* its goroutines
  results,  \* what they have left
  reply,    \* its reply, once it is out
  faults,   \* faults so far
  turns,    \* steps of time and changes of reach so far
  spoilt,   \* history: servers whose record was not good, or a statement on
            \* it failed, at some time while the request was open
  away,     \* history: servers that were out of reach at some time in it
  short     \* history: the validity of a source's answer that fell short of
            \* what the request asked for

history == <<spoilt, away, short>>
batch == <<body, todo, wg, sem, worker, results, reply>>
vars == <<held, reach, batch, faults, turns, history>>

Worker == [pc : {"none", "queued", "lookup", "fetch", "prepare", "refuse",
                 "leave"},
           got : Record]
Idle == [pc |-> "none", got |-> NoRecord]

Init ==
  /\ held \in Stored
  /\ reach \in Reached
  /\ body = [r \in Request |-> <<>>]
  /\ todo = [r \in Request |-> {}]
  /\ wg = [r \in Request |-> 0]
  /\ sem = [r \in Request |-> 0]
  /\ worker = [r \in Request |-> [s \in Server |-> Idle]]
  /\ results = [r \in Request |-> [s \in Server |-> Nothing]]
  /\ reply = [r \in Request |-> <<>>]
  /\ faults = 0 /\ turns = 0
  /\ spoilt = [r \in Request |-> {}]
  /\ away = [r \in Request |-> {}]
  /\ short = [r \in Request |-> [s \in Server |-> Nothing]]

At(r, s, l) == worker[r][s].pc = l

Goto(r, s, l) == worker' = [worker EXCEPT ![r][s].pc = l]

Leave(r, s, res) ==
  /\ worker' = [worker EXCEPT ![r][s] = [Idle EXCEPT !.pc = "leave"]]
  /\ results' = [results EXCEPT ![r][s] = res]

(* The requests for a server that have no reply yet. *)
Open(s) == {r \in Request : reply[r] = None /\ s \in DOMAIN body[r]}

(* What a history of servers becomes when something happens to s. *)
Noted(seen, s) ==
  [r \in Request |-> IF r \in Open(s) THEN seen[r] \cup {s} ELSE seen[r]]

-----------------------------------------------------------------------------
(* Mutant: the lowest criterion counts. *)
MinValidLowest(criteria) ==
  IF criteria = {} \/ Min(criteria) <= 0 THEN Now ELSE Min(criteria)

(* The highest minimum_valid_until_ts of a server's keys; now, without.    *)
MinValid(criteria) ==
  LET top == Max({0} \cup criteria) IN IF top <= 0 THEN Now ELSE top

(* A validity that has not passed and reaches as far as every criterion.   *)
Meets(valid, criteria) == valid >= Now /\ \A q \in criteria : valid >= q

(* isFresh, as far as validity goes. *)
Fresh(rec, min) == rec.valid >= min /\ rec.valid >= Now

Receive(r, b) ==
  /\ reply[r] # None
  /\ body' = [body EXCEPT ![r] = b]
  /\ todo' = [todo EXCEPT ![r] = DOMAIN b]
  /\ reply' = [reply EXCEPT ![r] = None]
  /\ spoilt' = [spoilt EXCEPT ![r] = {s \in DOMAIN b : held[s].kind # "good"}]
  /\ away' = [away EXCEPT ![r] = {s \in DOMAIN b : ~ reach[s]}]
  /\ short' = [short EXCEPT ![r] = [s \in Server |-> Nothing]]
  /\ UNCHANGED <<held, reach, wg, sem, worker, results, faults, turns>>

(* Mutant: the goroutine is not counted. *)
SpawnUncounted(r, s) ==
  /\ s \in todo[r]
  /\ todo' = [todo EXCEPT ![r] = @ \ {s}]
  /\ Goto(r, s, "queued")
  /\ UNCHANGED <<held, reach, body, wg, sem, results, reply, faults, turns,
                 history>>

(* An item is counted and its goroutine started. *)
Spawn(r, s) ==
  /\ s \in todo[r]
  /\ todo' = [todo EXCEPT ![r] = @ \ {s}]
  /\ wg' = [wg EXCEPT ![r] = @ + 1]
  /\ Goto(r, s, "queued")
  /\ UNCHANGED <<held, reach, body, sem, results, reply, faults, turns,
                 history>>

(* Mutant: the semaphore does not block. *)
TakeSlotAtOnce(r, s) ==
  /\ At(r, s, "queued")
  /\ sem' = [sem EXCEPT ![r] = @ + 1]
  /\ Goto(r, s, "lookup")
  /\ UNCHANGED <<held, reach, body, todo, wg, results, reply, faults, turns,
                 history>>

TakeSlot(r, s) ==
  /\ At(r, s, "queued")
  /\ sem[r] < Slots
  /\ sem' = [sem EXCEPT ![r] = @ + 1]
  /\ Goto(r, s, "lookup")
  /\ UNCHANGED <<held, reach, body, todo, wg, results, reply, faults, turns,
                 history>>

(* QueryRemoteKeys reads what is held: it will do, or a source is asked.   *)
Lookup(r, s) ==
  /\ At(r, s, "lookup")
  /\ worker' = [worker EXCEPT ![r][s] =
       [pc |-> IF Fresh(held[s], MinValid(body[r][s])) THEN "prepare"
               ELSE "fetch",
        got |-> held[s]]]
  /\ UNCHANGED <<held, reach, body, todo, wg, sem, results, reply, faults,
                 turns, history>>

LookupFails(r, s) ==
  /\ At(r, s, "lookup")
  /\ faults < MaxFaults /\ faults' = faults + 1
  /\ spoilt' = [spoilt EXCEPT ![r] = @ \cup {s}]
  /\ Leave(r, s, Error)
  /\ UNCHANGED <<held, reach, body, todo, wg, sem, reply, turns, away,
                 short>>

(* A source answers.  The origin's answer replaces what is held; another   *)
(* notary's does if it is valid for longer, and else what is held by now   *)
(* is used.                                                                *)
Fetch(r, s) ==
  /\ At(r, s, "fetch")
  /\ reach[s]
  /\ \E valid \in Offers[s] :
       LET rec == [kind |-> "good", valid |-> valid]
       IN /\ \/ held' = [held EXCEPT ![s] = rec]
             \/ valid <= held[s].valid /\ UNCHANGED held
          /\ short' = [short EXCEPT ![r][s] =
               IF Meets(valid, body[r][s]) THEN Nothing ELSE valid]
  /\ worker' = [worker EXCEPT ![r][s] = [pc |-> "prepare", got |-> held'[s]]]
  /\ UNCHANGED <<reach, body, todo, wg, sem, results, reply, faults, turns,
                 spoilt, away>>

(* There is no answer: what was read before will have to do.               *)
FetchNothing(r, s) ==
  /\ At(r, s, "fetch")
  /\ ~ reach[s]
  /\ Goto(r, s, "prepare")
  /\ UNCHANGED <<held, reach, body, todo, wg, sem, results, reply, faults,
                 turns, history>>

(* A statement of the store fails halfway: the new validity stands over    *)
(* rows that do not belong to it, or over none.                            *)
StoreFails(r, s) ==
  /\ At(r, s, "fetch")
  /\ reach[s]
  /\ faults < MaxFaults /\ faults' = faults + 1
  /\ \E kind \in {"bad", "bare"} : \E valid \in Offers[s] :
       held' = [held EXCEPT ![s] = [kind |-> kind, valid |-> valid]]
  /\ spoilt' = Noted(spoilt, s)
  /\ Goto(r, s, "prepare")
  /\ UNCHANGED <<reach, body, todo, wg, sem, results, reply, turns, away,
                 short>>

(* Mutant: what does not verify is answered with all the same. *)
PrepareUnverified(r, s) ==
  /\ At(r, s, "prepare")
  /\ Leave(r, s, worker[r][s].got)
  /\ UNCHANGED <<held, reach, body, todo, wg, sem, reply, faults, turns,
                 history>>

(* findAndPrepareKeys: nothing to prepare, or signed and verified.         *)
Prepare(r, s) ==
  /\ At(r, s, "prepare")
  /\ worker[r][s].got.kind # "bad"
  /\ Leave(r, s, worker[r][s].got)
  /\ UNCHANGED <<held, reach, body, todo, wg, sem, reply, faults, turns,
                 history>>

Refuse(r, s) ==
  /\ At(r, s, "prepare")
  /\ worker[r][s].got.kind = "bad"
  /\ worker' = [worker EXCEPT ![r][s] = [Idle EXCEPT !.pc = "refuse"]]
  /\ UNCHANGED <<held, reach, body, todo, wg, sem, results, reply, faults,
                 turns, history>>

(* GetAllOwnKeys fails. *)
PrepareFails(r, s) ==
  /\ At(r, s, "prepare")
  /\ worker[r][s].got.kind # "bare"
  /\ faults < MaxFaults /\ faults' = faults + 1
  /\ spoilt' = [spoilt EXCEPT ![r] = @ \cup {s}]
  /\ Leave(r, s, Error)
  /\ UNCHANGED <<held, reach, body, todo, wg, sem, reply, turns, away,
                 short>>

(* Mutant: what does not verify is only refused. *)
RefuseOnly(r, s) ==
  /\ At(r, s, "refuse")
  /\ Leave(r, s, Error)
  /\ UNCHANGED <<held, reach, body, todo, wg, sem, reply, faults, turns,
                 history>>

(* InvalidateHeld, on the record held by now: a validity of 0 is not the   *)
(* one that was signed.                                                    *)
Invalidate(r, s) ==
  /\ At(r, s, "refuse")
  /\ held' = [held EXCEPT ![s] =
       [kind |-> IF @.kind = "bare" THEN "bare" ELSE "bad", valid |-> 0]]
  /\ spoilt' = Noted(spoilt, s)
  /\ Leave(r, s, Error)
  /\ UNCHANGED <<reach, body, todo, wg, sem, reply, faults, turns,
                 away, short>>

InvalidateFails(r, s) ==
  /\ At(r, s, "refuse")
  /\ faults < MaxFaults /\ faults' = faults + 1
  /\ Leave(r, s, Error)
  /\ UNCHANGED <<held, reach, body, todo, wg, sem, reply, turns, history>>

(* Mutant: the slot of a lookup that failed is not given back. *)
ReturnSlotIfAnswered(r, s) ==
  /\ At(r, s, "leave")
  /\ sem' = [sem EXCEPT ![r] = IF results[r][s] = Error THEN @ ELSE @ - 1]
  /\ wg' = [wg EXCEPT ![r] = @ - 1]
  /\ Goto(r, s, "none")
  /\ UNCHANGED <<held, reach, body, todo, results, reply, faults, turns,
                 history>>

(* The deferred calls: the slot is given back, the item is done. *)
ReturnSlot(r, s) ==
  /\ At(r, s, "leave")
  /\ sem' = [sem EXCEPT ![r] = @ - 1]
  /\ wg' = [wg EXCEPT ![r] = @ - 1]
  /\ worker' = [worker EXCEPT ![r][s] = Idle]
  /\ UNCHANGED <<held, reach, body, todo, results, reply, faults, turns,
                 history>>

(* Mutant: one error fails the whole batch. *)
AnsweredAllOrNone(r) ==
  IF \E s \in DOMAIN body[r] : results[r][s] = Error THEN {}
  ELSE DOMAIN body[r]

(* The servers that the reply answers for. *)
Answered(r) == {s \in DOMAIN body[r] : results[r][s] # Error}

(* wg.Wait returns: the reply holds what is no error. *)
Reply(r) ==
  /\ reply[r] = None
  /\ todo[r] = {} /\ wg[r] = 0
  /\ reply' = [reply EXCEPT ![r] = [s \in Answered(r) |-> results[r][s]]]
  /\ results' = [results EXCEPT ![r] = [s \in Server |-> Nothing]]
  /\ UNCHANGED <<held, reach, body, todo, wg, sem, worker, faults, turns,
                 history>>

-----------------------------------------------------------------------------
(* Time passes: a record is valid for less time from now. *)
Age(s) ==
  /\ held[s].valid >= Now
  /\ turns < MaxTurns /\ turns' = turns + 1
  /\ held' = [held EXCEPT ![s].valid = @ - 1]
  /\ UNCHANGED <<reach, batch, faults, history>>

ComeOrGo(s) ==
  /\ turns < MaxTurns /\ turns' = turns + 1
  /\ reach' = [reach EXCEPT ![s] = ~ @]
  /\ away' = Noted(away, s)
  /\ UNCHANGED <<held, batch, faults, spoilt, short>>

Work(r, s) ==
  \/ Spawn(r, s) \/ TakeSlot(r, s) \/ Lookup(r, s)
  \/ Fetch(r, s) \/ FetchNothing(r, s)
  \/ Prepare(r, s) \/ Refuse(r, s) \/ Invalidate(r, s) \/ ReturnSlot(r, s)

Fault(r, s) ==
  LookupFails(r, s) \/ StoreFails(r, s) \/ PrepareFails(r, s)
  \/ InvalidateFails(r, s)

Next ==
  \/ \E r \in Request : Reply(r) \/ \E b \in Body[r] : Receive(r, b)
  \/ \E r \in Request, s \in Server : Work(r, s) \/ Fault(r, s)
  \/ \E s \in Server : Age(s) \/ ComeOrGo(s)

Spec == Init /\ [][Next]_vars

(* Something of a batch that can run is run in the end: goroutines are     *)
(* scheduled and calls return within their timeouts.                       *)
Fairness ==
  \A r \in Request : WF_vars(Reply(r) \/ \E s \in Server : Work(r, s))

FairSpec == Spec /\ Fairness
=============================================================================
