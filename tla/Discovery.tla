----------------------------- MODULE Discovery ------------------------------
(***************************************************************************)
(* GetServerApiUrl (src/federation/federation.go): from a server name to   *)
(* the URL and the TLS name of its federation API, by requests that run    *)
(* side by side over one in-memory cache, while what the hosts and DNS say *)
(* changes.                                                                *)
(*                                                                         *)
(* A network call is a step, at the moment its answer is given; the cache  *)
(* is written when the last one is back.  A URL stands for its host and    *)
(* port.  Only the lifetimes of what is cached are told apart by the       *)
(* clock, whose unit may be anything.  A restart leaves a process that was *)
(* never asked, and is no action.                                          *)
(***************************************************************************)
EXTENDS Integers, Sequences

CONSTANTS
  Proc,        \* goroutines that call GetServerApiUrl
  Addr,        \* server names and m.server values
  Form,        \* what each is: "ip", "port", "name" or "junk"
  Bare,        \* each of them without its port
  Asked,       \* the server names that are asked for
  Target,      \* what the first of some SRV records points to
  Response,    \* what a .well-known request may meet
  NoRecords,   \* an SRV lookup that finds nothing, or fails
  None,        \* no entry, no call
  ValidTtl, AbsentTtl, FailedTtl,  \* discoveryValidTtl, ...
  MinTtl, MaxTtl,                  \* discoveryMinTtl, discoveryMaxTtl
  MaxLag,      \* bound on the time a call takes (the timeouts)
  MaxTime,     \* bound on the clock
  MaxChanges   \* bound on the changes of what hosts and DNS say

Name == {a \in Addr : Form[a] = "name"}
Query == {"matrix-fed", "matrix"} \X Name
SrvAnswer == Target \cup {NoRecords}

(* A response: nothing, a refusal, 404 or 410, or a document with its      *)
(* m.server and the directives of its Cache-Control, where no-store and    *)
(* no-cache are NoStore, a max-age its number and any other 0.             *)
NoStore == -1

ASSUME DiscoveryAssumption ==
  /\ Form \in [Addr -> {"ip", "port", "name", "junk"}]
  /\ Bare \in [Addr -> Addr]
  /\ Asked \subseteq {a \in Addr : Form[a] # "junk"}
  /\ Response \subseteq [status : {"none", "error", "gone", "ok"},
                         addr : Addr, cache : Seq(Nat \cup {NoStore})]
  /\ NoRecords \notin Target
  /\ {ValidTtl, AbsentTtl, FailedTtl, MinTtl, MaxTtl, MaxLag} \subseteq Nat
  /\ FailedTtl <= MinTtl /\ MinTtl <= AbsentTtl
  /\ MinTtl <= ValidTtl /\ ValidTtl <= MaxTtl

VARIABLES
  now,      \* the clock
  wk,       \* what each asked name's .well-known gives
  srv,      \* what DNS gives for each query
  cache,    \* apiUrlCacheInstance
  frame,    \* the GetServerApiUrl call each goroutine is in
  changes,  \* changes of wk and srv so far
  wkAt,     \* history: when each response was last given by each name
  srvAt,    \* history: when each answer was last given to each query
  asked,    \* history: when each name was last probed by this process
  failed    \* history: when a probe of it last failed

world == <<wk, srv, changes>>
past == <<wkAt, srvAt>>
probes == <<asked, failed>>
vars == <<now, world, cache, frame, past, probes>>

(* Earlier than any lifetime reaches back. *)
Never == -(MaxTtl + AbsentTtl + MaxLag + 1)

Verdict == [addr : Addr \cup {None}, outcome : {"found", "absent", "failed"},
            ttl : Nat]
Entry == [url : Addr \cup Target, name : Addr, until : Int]
Frame == [host : Asked, pc : {"probe", "matrix-fed", "matrix"},
          verdict : Verdict \cup {None}, since : Nat]

ASSUME NoneAssumption == None \notin Entry \cup Frame

Init ==
  /\ now = 0
  /\ wk \in [Asked \cap Name -> Response]
  /\ srv \in [Query -> SrvAnswer]
  /\ cache = [h \in Asked |-> None]
  /\ frame = [p \in Proc |-> None]
  /\ changes = 0
  /\ wkAt = [h \in Asked \cap Name |->
               [r \in Response |-> IF r = wk[h] THEN 0 ELSE Never]]
  /\ srvAt = [q \in Query |->
                [a \in SrvAnswer |-> IF a = srv[q] THEN 0 ELSE Never]]
  /\ asked = [h \in Asked |-> Never]
  /\ failed = [h \in Asked |-> Never]

-----------------------------------------------------------------------------
(* isUsableDelegation. *)
IsUsableDelegation(addr) == Form[addr] # "junk"

(* Mutant: no-store is taken at its word. *)
ClampHighOnly(age) == IF age = NoStore THEN 0 ELSE IF age > MaxTtl THEN MaxTtl ELSE age

(* wellKnownTtlFrom: the first directive that says something decides.  A   *)
(* max-age whose seconds overflow a Duration ends at some limit too.       *)
Clamp(age) ==
  IF age < MinTtl THEN MinTtl ELSE IF age > MaxTtl THEN MaxTtl ELSE age

(* Mutant: the directives are not read. *)
DirectivesUnread(directives) == ValidTtl

WellKnownTtlFrom(directives) ==
  LET telling == {i \in DOMAIN directives : directives[i] # 0}
  IN IF telling = {} THEN ValidTtl
     ELSE Clamp(directives[CHOOSE i \in telling :
                             \A j \in telling : i <= j])

(* classifyWellKnown: a usable delegation, a clean "there is none", or     *)
(* nothing learned.                                                        *)
ClassifyWellKnown(r) ==
  IF r.status = "ok" /\ IsUsableDelegation(r.addr)
  THEN [addr |-> r.addr, outcome |-> "found",
        ttl |-> WellKnownTtlFrom(r.cache)]
  ELSE IF r.status = "gone"
  THEN [addr |-> None, outcome |-> "absent", ttl |-> AbsentTtl]
  ELSE [addr |-> None, outcome |-> "failed", ttl |-> FailedTtl]

(* A cache hit of go-cache: an entry that has not expired. *)
Hit(h) == cache[h] # None /\ now <= cache[h].until

(* rememberServerUrl: what is found replaces whatever another call of the  *)
(* same name has found meanwhile.                                          *)
Remember(h, url, name, ttl) ==
  cache' = [cache EXCEPT ![h] = [url |-> url, name |-> name,
                                 until |-> now + ttl]]

Return(p) == frame' = [frame EXCEPT ![p] = None]

Goto(p, l) == frame' = [frame EXCEPT ![p].pc = l]

UseCached(p, h) == frame[p] = None /\ Hit(h) /\ UNCHANGED vars

(* Steps 1 and 2: an IP address or an explicit port needs no network.      *)
UseLiteral(p, h) ==
  /\ frame[p] = None /\ ~Hit(h)
  /\ Form[h] \in {"ip", "port"}
  /\ Remember(h, h, IF Form[h] = "ip" THEN h ELSE Bare[h], ValidTtl)
  /\ UNCHANGED <<now, world, frame, past, probes>>

(* Step 3 begins: a name that is not in the cache. *)
Begin(p, h) ==
  /\ frame[p] = None /\ ~Hit(h)
  /\ Form[h] = "name"
  /\ frame' = [frame EXCEPT ![p] =
       [host |-> h, pc |-> "probe", verdict |-> None, since |-> now]]
  /\ UNCHANGED <<now, world, cache, past, probes>>

(* The .well-known response is here.  A delegation to an IP address or to  *)
(* a host with a port is the answer; otherwise SRV records are looked up,  *)
(* of the delegated host or of the host itself.                            *)
Probe(p) ==
  /\ frame[p] # None /\ frame[p].pc = "probe"
  /\ LET h == frame[p].host
         v == ClassifyWellKnown(wk[h])
     IN /\ IF v.outcome = "found" /\ Form[v.addr] # "name"
           THEN /\ Remember(h, v.addr,
                     IF Form[v.addr] = "ip" THEN v.addr ELSE Bare[v.addr], v.ttl)
                /\ Return(p)
           ELSE /\ frame' = [frame EXCEPT ![p].pc = "matrix-fed",
                                          ![p].verdict = v]
                /\ UNCHANGED cache
        /\ asked' = [asked EXCEPT ![h] = now]
        /\ failed' = [failed EXCEPT
             ![h] = IF v.outcome = "failed" THEN now ELSE @]
  /\ UNCHANGED <<now, world, past>>

(* The host whose SRV records are looked up, and that is used as it is if  *)
(* there are none.                                                         *)
Delegate(f) ==
  IF f.verdict.outcome = "found" THEN f.verdict.addr ELSE f.host

(* How long an answer is kept that rests on the response f.verdict.        *)
FallbackTtl(f) ==
  IF f.verdict.outcome = "failed" THEN FailedTtl ELSE AbsentTtl

SrvTtl(f) ==
  IF f.verdict.outcome = "found" THEN f.verdict.ttl
  ELSE IF FallbackTtl(f) < AbsentTtl THEN FallbackTtl(f) ELSE AbsentTtl

HostTtl(f) ==
  IF f.verdict.outcome = "found" THEN f.verdict.ttl ELSE FallbackTtl(f)

(* One lookup of lookupSrv. *)
Answer(f) == srv[<<f.pc, Delegate(f)>>]

(* Mutant: an answer without records is used as if it held one. *)
UseAnySrv(p) ==
  /\ frame[p] # None /\ frame[p].pc # "probe"
  /\ LET f == frame[p] IN Remember(f.host, Answer(f), Delegate(f), SrvTtl(f))
  /\ Return(p)
  /\ UNCHANGED <<now, world, past, probes>>

(* Steps 3c and 4: a target. *)
UseSrv(p) ==
  /\ frame[p] # None /\ frame[p].pc # "probe"
  /\ LET f == frame[p]
     IN /\ Answer(f) \in Target
        /\ Remember(f.host, Answer(f), Delegate(f), SrvTtl(f))
  /\ Return(p)
  /\ UNCHANGED <<now, world, past, probes>>

(* No records, or an error, which counts as no records: the deprecated     *)
(* service is next.                                                        *)
TryDeprecated(p) ==
  /\ frame[p] # None /\ frame[p].pc = "matrix-fed"
  /\ Answer(frame[p]) \notin Target
  /\ Goto(p, "matrix")
  /\ UNCHANGED <<now, world, cache, past, probes>>

(* Steps 3e and 6: the host as it is. *)
UseHost(p) ==
  /\ frame[p] # None /\ frame[p].pc = "matrix"
  /\ LET f == frame[p]
     IN /\ Answer(f) \notin Target
        /\ Remember(f.host, Delegate(f), Delegate(f), HostTtl(f))
  /\ Return(p)
  /\ UNCHANGED <<now, world, past, probes>>

-----------------------------------------------------------------------------
(* A host changes its .well-known, goes down or comes back; DNS changes.   *)
WellKnownChanges(h, r) ==
  /\ changes < MaxChanges
  /\ wk' = [wk EXCEPT ![h] = r]
  /\ wkAt' = [wkAt EXCEPT ![h][r] = now]
  /\ changes' = changes + 1
  /\ UNCHANGED <<now, srv, cache, frame, srvAt, probes>>

SrvChanges(q, a) ==
  /\ changes < MaxChanges
  /\ srv' = [srv EXCEPT ![q] = a]
  /\ srvAt' = [srvAt EXCEPT ![q][a] = now]
  /\ changes' = changes + 1
  /\ UNCHANGED <<now, wk, cache, frame, wkAt, probes>>

(* Time passes; every call in progress ends within MaxLag. *)
Tick ==
  /\ now < MaxTime
  /\ \A p \in Proc : frame[p] # None => now < frame[p].since + MaxLag
  /\ now' = now + 1
  /\ wkAt' = [h \in Asked \cap Name |-> [wkAt[h] EXCEPT ![wk[h]] = now + 1]]
  /\ srvAt' = [q \in Query |-> [srvAt[q] EXCEPT ![srv[q]] = now + 1]]
  /\ UNCHANGED <<world, cache, frame, probes>>

Call(p) ==
  \/ \E h \in Asked : UseCached(p, h) \/ UseLiteral(p, h) \/ Begin(p, h)
  \/ Probe(p) \/ UseSrv(p) \/ TryDeprecated(p) \/ UseHost(p)

Next ==
  \/ \E p \in Proc : Call(p)
  \/ \E h \in Asked \cap Name, r \in Response : WellKnownChanges(h, r)
  \/ \E q \in Query, a \in SrvAnswer : SrvChanges(q, a)
  \/ Tick

Spec == Init /\ [][Next]_vars
=============================================================================
