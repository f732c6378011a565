-------------------------- MODULE ServeBatchProps ---------------------------
(***************************************************************************)
(* What the reply to a batch must be.                                      *)
(***************************************************************************)
EXTENDS ServeBatch

Bodies == {<<>>} \cup UNION {Body[r] : r \in Request}
Replies == {None} \cup UNION {[S -> Result] : S \in SUBSET Server}

TypeOK ==
  /\ held \in [Server -> Record]
  /\ reach \in [Server -> BOOLEAN]
  /\ body \in [Request -> Bodies]
  /\ todo \in [Request -> SUBSET Server]
  /\ wg \in [Request -> Nat] /\ sem \in [Request -> 0..Slots]
  /\ worker \in [Request -> [Server -> Worker]]
  /\ results \in [Request -> [Server -> Result]]
  /\ reply \in [Request -> Replies]
  /\ faults \in 0..MaxFaults /\ turns \in 0..MaxTurns
  /\ spoilt \in [Request -> SUBSET Server]
  /\ away \in [Request -> SUBSET Server]
  /\ short \in [Request -> [Server -> {Nothing} \cup 1..Longest]]

(* Once the reply is out nothing of the batch runs on, and no lookup       *)
(* writes a result that nobody reads (src/api/keys_v2/query.go:134,        *)
(* wg.Wait).                                                               *)
NothingRunsOn ==
  \A r \in Request : reply[r] # None =>
    \A s \in Server : At(r, s, "none")

(* A server is left out of the reply, or stands in it without keys, only   *)
(* for a reason of its own: a statement on its record failed or its record *)
(* was not good at some time since the request came in.  What fails for    *)
(* one server of a batch costs no other its answer                         *)
(* (src/api/keys_v2/query.go:136).                                         *)
OthersAreUnharmed ==
  \A r \in Request : reply[r] # None =>
    \A s \in DOMAIN body[r] \ spoilt[r] :
      s \in DOMAIN reply[r] /\ reply[r][s].kind = "good"

(* Whoever asks for several keys of a server, each with a validity of its  *)
(* own, gets a record that is valid now and long enough for all of them,   *)
(* or else a source was asked for this request and answered with one that  *)
(* falls short too, and what is served is no shorter-valid than that;      *)
(* unless the server was out of reach or its record spoilt meanwhile.  A   *)
(* held record that falls short is never served unasked, also when another *)
(* batch stores, or an origin's shorter-valid answer lands, in between     *)
(* (src/api/keys_v2/query.go:93, src/keys/notary.go:163).                  *)
EveryCriterionIsMet ==
  \A r \in Request : reply[r] # None =>
    \A s \in DOMAIN body[r] \ (spoilt[r] \cup away[r]) :
      \/ Meets(reply[r][s].valid, body[r][s])
      \/ short[r][s] # Nothing /\ reply[r][s].valid >= short[r][s]

(* A batch never waits for itself: until its reply is out it has an item   *)
(* to start, a lookup under way or one for which there is a slot, or       *)
(* nothing left to wait for (src/api/keys_v2/query.go:128).                *)
SomeoneMoves ==
  \A r \in Request : reply[r] = None =>
    \/ todo[r] # {} \/ wg[r] = 0
    \/ \E s \in Server : \/ At(r, s, "queued") /\ sem[r] < Slots
                         \/ worker[r][s].pc \notin {"none", "queued"}

(* Every batch is answered, however many of its lookups fail               *)
(* (src/api/keys_v2/query.go:128, the semaphore).                          *)
BatchesEnd == \A r \in Request : []<>(reply[r] # None)

(* Once a server stays within reach, lookups of it end with an error only  *)
(* so many times: what did not verify is replaced by a fetch, also when    *)
(* the invalidation hits a good record that another batch has just stored  *)
(* (src/api/keys_v2/query.go:255).                                         *)
RefusalsEnd ==
  \A s \in Server :
    <>[](reach[s]) => <>[](\A r \in Request : results[r][s] # Error)

(* The refinement mapping: a goroutine has its server's record in hand     *)
(* from its lookup until it leaves a result or refuses the record.         *)
InHand(r, s) ==
  IF worker[r][s].pc \in {"fetch", "prepare"} THEN worker[r][s].got
  ELSE Nothing

Promise == INSTANCE Gather WITH
  Spoilt <- {rec \in Record : rec.kind = "bad"},
  copy <- held,
  asked <- [r \in Request |-> DOMAIN body[r]],
  hand <- [r \in Request |-> [s \in Server |-> InHand(r, s)]],
  found <- results,
  out <- reply

(* However goroutines, slots and failures interleave, a reply is, server   *)
(* by server, what one lookup of this request found: a record that         *)
(* verified and was held since the request came in, never another's and    *)
(* never one found for an earlier request (src/api/keys_v2/query.go:117).  *)
BatchPromise == Promise!GSpec
=============================================================================
