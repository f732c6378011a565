-------------------------- MODULE DiscoveryProofs ---------------------------
(***************************************************************************)
(* Types and the justification of what the discovery cache hands out, for  *)
(* any names, responses, lifetimes and number of overlapping calls.        *)
(***************************************************************************)
EXTENDS DiscoveryProps, WellFoundedInduction, TLAPS

(* The histories: what is said now was said now.                           *)
Heard ==
  /\ \A h \in Asked \cap Name : wkAt[h][wk[h]] = now
  /\ \A q \in Query : srvAt[q][srv[q]] = now

(* Nothing is heard before it is said.                                     *)
HeardByNow ==
  /\ \A h \in Asked \cap Name, r \in Response : wkAt[h][r] <= now
  /\ \A q \in Query, a \in SrvAnswer : srvAt[q][a] <= now

(* What a call knows was said since it began, no longer ago than MaxLag.   *)
FrameInv(f) ==
  /\ f.host \in Asked \cap Name
  /\ f.since <= now /\ now <= f.since + MaxLag
  /\ f.pc # "probe" =>
       \E r \in Response :
         /\ f.verdict = ClassifyWellKnown(r)
         /\ wkAt[f.host][r] >= f.since
         /\ Delegates(r) => Form[r.addr] = "name"
  /\ f.pc = "matrix" =>
       srvAt[<<"matrix-fed", Delegate(f)>>][NoRecords] >= f.since

FramesInv == \A p \in Proc : frame[p] # None => FrameInv(frame[p])

(* An entry follows from what was said since some call began, and does not *)
(* outlast the lifetime of the response by more than the call took.        *)
EntryInv(h, e) ==
  \/ IsLiteral(h, e)
  \/ /\ Form[h] = "name"
     /\ \E r \in Response, b \in Int :
          /\ FollowsFrom(h, e, r, b)
          /\ e.until <= b + MaxLag + Lifetime(r)

CacheInv == \A h \in Asked : cache[h] # None => EntryInv(h, cache[h])

DiscoveryInv == TypeOK /\ Heard /\ HeardByNow /\ FramesInv /\ CacheInv

-----------------------------------------------------------------------------
(* Lifetimes.                                                              *)

LEMMA LeastIndex ==
  ASSUME NEW T \in SUBSET Nat, T # {}
  PROVE  \E i \in T : \A j \in T : i <= j
<1>1. PICK i \in T : \A j \in T : ~ (<<j, i>> \in OpToRel(<, Nat))
  BY NatLessThanWellFounded, WFMin
<1>2. \A j \in T : ~ (j < i)
  BY <1>1 DEF OpToRel
<1>. QED  BY <1>2, i \in Nat

(* The code's lifetime of a delegation is the one it is granted.           *)
LEMMA WellKnownTtlGranted ==
  ASSUME NEW d \in Seq(Nat \cup {NoStore})
  PROVE  /\ WellKnownTtlFrom(d) = Granted(d)
         /\ Granted(d) \in Nat /\ Granted(d) >= MinTtl
<1>. DEFINE telling == {i \in DOMAIN d : d[i] # 0}
<1>1. CASE telling = {}
  <2>1. ~ \E i \in DOMAIN d : Leads(d, i)
    BY <1>1 DEF Leads
  <2>. QED  BY <1>1, <2>1, DiscoveryAssumption DEF WellKnownTtlFrom, Granted
<1>2. CASE telling # {}
  <2>. DEFINE i == CHOOSE i \in telling : \A j \in telling : i <= j
              l == CHOOSE k \in DOMAIN d : Leads(d, k)
  <2>1. telling \in SUBSET Nat /\ DOMAIN d \subseteq Nat
    OBVIOUS
  <2>2. i \in telling /\ \A j \in telling : i <= j
    BY <1>2, <2>1, LeastIndex
  <2>3. i \in Nat /\ i \in DOMAIN d /\ Leads(d, i)
    BY <2>1, <2>2 DEF Leads
  <2>4. l \in DOMAIN d /\ Leads(d, l)
    BY <2>3
  <2>5. l = i
    <3>. HIDE DEF i, l
    <3>1. l \in Nat /\ ~ (l < i) /\ ~ (i < l)
      BY <2>1, <2>3, <2>4 DEF Leads
    <3>. QED  BY <2>3, <3>1
  <2>6. d[i] \in Int /\ d[i] = d[l]
    <3>1. d[i] \in Int
      <4>. HIDE DEF i
      <4>. QED  BY <2>3 DEF NoStore
    <3>2. d[i] = d[l]
      <4>. HIDE DEF i, l
      <4>. QED  BY <2>5
    <3>. QED  BY <3>1, <3>2
  <2>7. WellKnownTtlFrom(d) = Clamp(d[i])
    BY <1>2 DEF WellKnownTtlFrom
  <2>8. Granted(d) = IF d[l] > MaxTtl THEN MaxTtl
                     ELSE IF d[l] > MinTtl THEN d[l] ELSE MinTtl
    BY <2>4 DEF Granted
  <2>9. MinTtl \in Nat /\ MaxTtl \in Nat /\ MinTtl <= MaxTtl
    BY DiscoveryAssumption
  <2>. HIDE DEF i, l
  <2>. QED  BY <2>6, <2>7, <2>8, <2>9 DEF Clamp
<1>. QED  BY <1>1, <1>2

LEMMA ResponseFields ==
  ASSUME NEW r \in Response
  PROVE  /\ r.addr \in Addr
         /\ r.cache \in Seq(Nat \cup {NoStore})
         /\ Form[r.addr] \in {"ip", "port", "name", "junk"}
BY DiscoveryAssumption

LEMMA LifetimeTyped ==
  ASSUME NEW r \in Response
  PROVE  Lifetime(r) \in Nat
<1>1. Granted(r.cache) \in Nat
  BY ResponseFields, WellKnownTtlGranted
<1>. QED  BY <1>1, DiscoveryAssumption DEF Lifetime

(* A verdict says what the response says, and for no longer.               *)
LEMMA VerdictFits ==
  ASSUME NEW r \in Response, NEW v, v = ClassifyWellKnown(r)
  PROVE  /\ v \in Verdict
         /\ v.outcome = "found" <=> Delegates(r)
         /\ Delegates(r) => v.addr = r.addr
         /\ v.outcome = "failed" <=> ~ Delegates(r) /\ r.status # "gone"
         /\ v.ttl <= Lifetime(r)
         /\ v.outcome = "found" => v.ttl >= MinTtl
<1>1. r.addr \in Addr
  BY ResponseFields
<1>2. AbsentTtl \in Nat /\ FailedTtl \in Nat
  BY DiscoveryAssumption
<1>3. /\ WellKnownTtlFrom(r.cache) = Granted(r.cache)
      /\ Granted(r.cache) \in Nat /\ Granted(r.cache) >= MinTtl
  BY ResponseFields, WellKnownTtlGranted
<1>. HIDE DEF WellKnownTtlFrom, Granted
<1>. QED  BY <1>1, <1>2, <1>3
     DEF ClassifyWellKnown, IsUsableDelegation, Delegates, Verdict, Lifetime

-----------------------------------------------------------------------------
(* Types.                                                                  *)

LEMMA InitTyped == Init => TypeOK
<1>. SUFFICES ASSUME Init PROVE TypeOK
  OBVIOUS
<1>1. Never \in Int
  BY DiscoveryAssumption DEF Never
<1>2. wkAt \in [Asked \cap Name -> [Response -> Int]]
  BY <1>1 DEF Init
<1>3. srvAt \in [Query -> [SrvAnswer -> Int]]
  BY <1>1 DEF Init
<1>. QED  BY <1>1, <1>2, <1>3 DEF Init, TypeOK

LEMMA RememberTyped ==
  ASSUME TypeOK, NEW h \in Asked, NEW url \in Addr \cup Target,
         NEW name \in Addr, NEW ttl \in Nat, Remember(h, url, name, ttl)
  PROVE  cache' \in [Asked -> Entry \cup {None}]
<1>1. [url |-> url, name |-> name, until |-> now + ttl] \in Entry
  BY DEF TypeOK, Entry
<1>. QED  BY <1>1 DEF TypeOK, Remember

(* What a call that looks up SRV records knows, and what it may do then.   *)
LEMMA LookingUp ==
  ASSUME DiscoveryInv, NEW p \in Proc, frame[p] # None, frame[p].pc # "probe"
  PROVE  /\ frame[p] \in Frame /\ frame[p].host \in Asked \cap Name
         /\ frame[p].verdict \in Verdict
         /\ Delegate(frame[p]) \in Name
         /\ SrvTtl(frame[p]) \in Nat /\ HostTtl(frame[p]) \in Nat
         /\ \E r \in Response :
              /\ wkAt[frame[p].host][r] >= frame[p].since
              /\ Delegates(r) => /\ Form[r.addr] = "name"
                                 /\ Delegate(frame[p]) = r.addr
              /\ ~ Delegates(r) => Delegate(frame[p]) = frame[p].host
              /\ SrvTtl(frame[p]) <= Lifetime(r)
              /\ HostTtl(frame[p]) <= Lifetime(r)
<1>. DEFINE f == frame[p]
            v == f.verdict
<1>1. f \in Frame /\ FrameInv(f)
  BY DEF DiscoveryInv, TypeOK, FramesInv
<1>2. PICK r \in Response :
        /\ v = ClassifyWellKnown(r)
        /\ wkAt[f.host][r] >= f.since
        /\ Delegates(r) => Form[r.addr] = "name"
  BY <1>1 DEF FrameInv
<1>3. /\ v \in Verdict
      /\ v.outcome = "found" <=> Delegates(r)
      /\ Delegates(r) => v.addr = r.addr
      /\ v.outcome = "failed" <=> ~ Delegates(r) /\ r.status # "gone"
      /\ v.ttl <= Lifetime(r)
  BY <1>2, VerdictFits
<1>4. f.host \in Asked \cap Name /\ r.addr \in Addr
  BY <1>1, ResponseFields DEF FrameInv
<1>5. /\ Delegates(r) => Delegate(f) = r.addr
      /\ ~ Delegates(r) => Delegate(f) = f.host
  BY <1>3 DEF Delegate
<1>6. Delegate(f) \in Name
  BY <1>2, <1>4, <1>5 DEF Name
<1>7. v.ttl \in Nat /\ AbsentTtl \in Nat /\ FailedTtl \in Nat
      /\ FailedTtl <= AbsentTtl
  BY <1>3, DiscoveryAssumption DEF Verdict
<1>8. CASE Delegates(r)
  <2>1. SrvTtl(f) = v.ttl /\ HostTtl(f) = v.ttl
    BY <1>3, <1>8 DEF SrvTtl, HostTtl
  <2>. QED  BY <1>1, <1>2, <1>3, <1>4, <1>5, <1>6, <1>7, <1>8, <2>1
<1>9. CASE ~ Delegates(r)
  <2>1. SrvTtl(f) = FallbackTtl(f) /\ HostTtl(f) = FallbackTtl(f)
    BY <1>3, <1>7, <1>9 DEF SrvTtl, HostTtl, FallbackTtl
  <2>2. Lifetime(r) = FallbackTtl(f) /\ FallbackTtl(f) \in Nat
    BY <1>3, <1>7, <1>9 DEF Lifetime, FallbackTtl
  <2>. QED  BY <1>1, <1>2, <1>3, <1>4, <1>5, <1>6, <1>7, <1>9, <2>1, <2>2
<1>. QED  BY <1>8, <1>9

LEMMA TypeStep ==
  ASSUME DiscoveryInv, [Next]_vars
  PROVE  TypeOK'
<1>. USE DEF DiscoveryInv
<1>1. ASSUME NEW p \in Proc, NEW h \in Asked, UseCached(p, h)
      PROVE  TypeOK'
  BY <1>1 DEF UseCached, vars, world, past, probes, TypeOK
<1>2. ASSUME NEW p \in Proc, NEW h \in Asked, UseLiteral(p, h)
      PROVE  TypeOK'
  <2>1. /\ h \in Addr /\ ValidTtl \in Nat
        /\ (IF Form[h] = "ip" THEN h ELSE Bare[h]) \in Addr
    BY DiscoveryAssumption
  <2>2. cache' \in [Asked -> Entry \cup {None}]
    BY <1>2, <2>1, RememberTyped DEF UseLiteral
  <2>. QED  BY <1>2, <2>2 DEF UseLiteral, world, past, probes, TypeOK
<1>3. ASSUME NEW p \in Proc, NEW h \in Asked, Begin(p, h)
      PROVE  TypeOK'
  <2>1. [host |-> h, pc |-> "probe", verdict |-> None, since |-> now] \in Frame
    BY DEF Frame, TypeOK
  <2>. QED  BY <1>3, <2>1 DEF Begin, world, past, probes, TypeOK
<1>4. ASSUME NEW p \in Proc, Probe(p)
      PROVE  TypeOK'
  <2>. DEFINE h == frame[p].host
              v == ClassifyWellKnown(wk[h])
  <2>1. frame[p] \in Frame /\ h \in Asked \cap Name /\ wk[h] \in Response
    BY <1>4 DEF Probe, TypeOK, FramesInv, FrameInv
  <2>2. v \in Verdict /\ (v.outcome = "found" => v.addr \in Addr)
    <3>1. wk[h].addr \in Addr
      BY <2>1, ResponseFields
    <3>2. /\ v \in Verdict
          /\ v.outcome = "found" <=> Delegates(wk[h])
          /\ Delegates(wk[h]) => v.addr = wk[h].addr
      BY <2>1, VerdictFits
    <3>. HIDE DEF v
    <3>. QED  BY <3>1, <3>2
  <2>3. asked' \in [Asked -> Int] /\ failed' \in [Asked -> Int]
    <3>1. /\ asked' = [asked EXCEPT ![h] = now]
          /\ failed' = [failed EXCEPT
               ![h] = IF v.outcome = "failed" THEN now ELSE @]
      BY <1>4 DEF Probe
    <3>. QED  BY <2>1, <3>1 DEF TypeOK
  <2>. HIDE DEF v
  <2>4. CASE v.outcome = "found" /\ Form[v.addr] # "name"
    <3>1. /\ Remember(h, v.addr,
               IF Form[v.addr] = "ip" THEN v.addr ELSE Bare[v.addr], v.ttl)
          /\ Return(p)
      BY <1>4, <2>4 DEF Probe, v
    <3>2. (IF Form[v.addr] = "ip" THEN v.addr ELSE Bare[v.addr]) \in Addr
          /\ v.ttl \in Nat
      BY <2>2, <2>4, DiscoveryAssumption DEF Verdict
    <3>3. cache' \in [Asked -> Entry \cup {None}]
      BY <2>1, <2>2, <2>4, <3>1, <3>2, RememberTyped
    <3>. QED  BY <1>4, <2>3, <3>1, <3>3
         DEF Probe, Return, world, past, probes, TypeOK
  <2>5. CASE ~ (v.outcome = "found" /\ Form[v.addr] # "name")
    <3>1. frame' = [frame EXCEPT ![p].pc = "matrix-fed", ![p].verdict = v]
          /\ cache' = cache
      BY <1>4, <2>5 DEF Probe, v
    <3>2. [frame[p] EXCEPT !.pc = "matrix-fed", !.verdict = v] \in Frame
      BY <2>1, <2>2 DEF Frame
    <3>3. frame' \in [Proc -> Frame \cup {None}]
      BY <3>1, <3>2 DEF TypeOK
    <3>. QED  BY <1>4, <2>3, <3>1, <3>3 DEF Probe, world, past, probes, TypeOK
  <2>. QED  BY <2>4, <2>5
<1>5. ASSUME NEW p \in Proc, UseSrv(p)
      PROVE  TypeOK'
  <2>1. /\ frame[p].host \in Asked /\ Delegate(frame[p]) \in Addr
        /\ SrvTtl(frame[p]) \in Nat
    BY <1>5, LookingUp DEF UseSrv, Name
  <2>2. cache' \in [Asked -> Entry \cup {None}]
    BY <1>5, <2>1, RememberTyped DEF UseSrv
  <2>. QED  BY <1>5, <2>2 DEF UseSrv, Return, world, past, probes, TypeOK
<1>6. ASSUME NEW p \in Proc, TryDeprecated(p)
      PROVE  TypeOK'
  <2>1. frame[p] \in Frame
    BY <1>6 DEF TryDeprecated, TypeOK
  <2>2. [frame[p] EXCEPT !.pc = "matrix"] \in Frame
    BY <2>1 DEF Frame
  <2>. QED  BY <1>6, <2>2 DEF TryDeprecated, Goto, world, past, probes, TypeOK
<1>7. ASSUME NEW p \in Proc, UseHost(p)
      PROVE  TypeOK'
  <2>1. /\ frame[p].host \in Asked /\ Delegate(frame[p]) \in Addr
        /\ HostTtl(frame[p]) \in Nat
    BY <1>7, LookingUp DEF UseHost, Name
  <2>2. cache' \in [Asked -> Entry \cup {None}]
    BY <1>7, <2>1, RememberTyped DEF UseHost
  <2>. QED  BY <1>7, <2>2 DEF UseHost, Return, world, past, probes, TypeOK
<1>8. ASSUME NEW h \in Asked \cap Name, NEW r \in Response,
             WellKnownChanges(h, r)
      PROVE  TypeOK'
  BY <1>8 DEF WellKnownChanges, probes, TypeOK
<1>9. ASSUME NEW q \in Query, NEW a \in SrvAnswer, SrvChanges(q, a)
      PROVE  TypeOK'
  BY <1>9 DEF SrvChanges, probes, TypeOK
<1>10. CASE Tick
  <2>1. wkAt' \in [Asked \cap Name -> [Response -> Int]]
    BY <1>10 DEF Tick, TypeOK
  <2>2. srvAt' \in [Query -> [SrvAnswer -> Int]]
    BY <1>10 DEF Tick, TypeOK
  <2>. QED  BY <1>10, <2>1, <2>2 DEF Tick, world, probes, TypeOK
<1>11. CASE UNCHANGED vars
  BY <1>11 DEF vars, world, past, probes, TypeOK
<1>. QED  BY <1>1, <1>2, <1>3, <1>4, <1>5, <1>6, <1>7, <1>8, <1>9, <1>10,
             <1>11 DEF Next, Call

-----------------------------------------------------------------------------
(* Time and the histories only move on.                                    *)
MovesOn ==
  /\ now' >= now
  /\ \A h \in Asked \cap Name, r \in Response : wkAt'[h][r] >= wkAt[h][r]
  /\ \A q \in Query, a \in SrvAnswer : srvAt'[q][a] >= srvAt[q][a]

LEMMA StillMovesOn ==
  ASSUME TypeOK, UNCHANGED <<now, wkAt, srvAt>>
  PROVE  MovesOn
<1>1. now \in Int
  BY DEF TypeOK
<1>2. \A h \in Asked \cap Name, r \in Response : wkAt[h][r] \in Int
  BY DEF TypeOK
<1>3. \A q \in Query, a \in SrvAnswer : srvAt[q][a] \in Int
  BY DEF TypeOK
<1>. QED  BY <1>1, <1>2, <1>3 DEF MovesOn

LEMMA HeardStep ==
  ASSUME TypeOK, Heard, HeardByNow, [Next]_vars
  PROVE  Heard' /\ HeardByNow' /\ MovesOn
<1>1. /\ now \in Nat
      /\ wk \in [Asked \cap Name -> Response]
      /\ srv \in [Query -> SrvAnswer]
      /\ wkAt \in [Asked \cap Name -> [Response -> Int]]
      /\ srvAt \in [Query -> [SrvAnswer -> Int]]
  BY DEF TypeOK
<1>2. CASE UNCHANGED <<now, wk, srv, wkAt, srvAt>>
  <2>1. MovesOn
    BY <1>2, StillMovesOn
  <2>. QED  BY <1>2, <2>1 DEF Heard, HeardByNow
<1>3. ASSUME NEW p \in Proc, Call(p)
      PROVE  UNCHANGED <<now, wk, srv, wkAt, srvAt>>
  BY <1>3 DEF Call, UseCached, UseLiteral, Begin, Probe, UseSrv,
     TryDeprecated, UseHost, vars, world, past
<1>4. ASSUME NEW h \in Asked \cap Name, NEW r \in Response,
             WellKnownChanges(h, r)
      PROVE  Heard' /\ HeardByNow' /\ MovesOn
  <2>1. /\ now' = now /\ srv' = srv /\ srvAt' = srvAt
        /\ wk' = [wk EXCEPT ![h] = r]
        /\ wkAt' = [wkAt EXCEPT ![h][r] = now]
    BY <1>4 DEF WellKnownChanges
  <2>2. \A g \in Asked \cap Name, x \in Response :
          wkAt'[g][x] = IF g = h /\ x = r THEN now ELSE wkAt[g][x]
    BY <1>1, <2>1
  <2>3. MovesOn
    BY <1>1, <2>1, <2>2 DEF MovesOn, HeardByNow
  <2>4. HeardByNow'
    BY <1>1, <2>1, <2>2 DEF HeardByNow
  <2>5. Heard'
    BY <1>1, <2>1, <2>2 DEF Heard
  <2>. QED  BY <2>3, <2>4, <2>5
<1>5. ASSUME NEW q \in Query, NEW a \in SrvAnswer, SrvChanges(q, a)
      PROVE  Heard' /\ HeardByNow' /\ MovesOn
  <2>1. /\ now' = now /\ wk' = wk /\ wkAt' = wkAt
        /\ srv' = [srv EXCEPT ![q] = a]
        /\ srvAt' = [srvAt EXCEPT ![q][a] = now]
    BY <1>5 DEF SrvChanges
  <2>2. \A g \in Query, x \in SrvAnswer :
          srvAt'[g][x] = IF g = q /\ x = a THEN now ELSE srvAt[g][x]
    BY <1>1, <2>1
  <2>3. MovesOn
    BY <1>1, <2>1, <2>2 DEF MovesOn, HeardByNow
  <2>4. HeardByNow'
    BY <1>1, <2>1, <2>2 DEF HeardByNow
  <2>5. Heard'
    BY <1>1, <2>1, <2>2 DEF Heard
  <2>. QED  BY <2>3, <2>4, <2>5
<1>6. CASE Tick
  <2>1. now' = now + 1 /\ wk' = wk /\ srv' = srv
    BY <1>6 DEF Tick, world
  <2>2. \A h \in Asked \cap Name, x \in Response :
          wkAt'[h][x] = IF x = wk[h] THEN now + 1 ELSE wkAt[h][x]
    BY <1>1, <1>6 DEF Tick
  <2>3. \A q \in Query, x \in SrvAnswer :
          srvAt'[q][x] = IF x = srv[q] THEN now + 1 ELSE srvAt[q][x]
    BY <1>1, <1>6 DEF Tick
  <2>4. MovesOn
    <3>1. \A h \in Asked \cap Name, x \in Response : wkAt'[h][x] >= wkAt[h][x]
      BY <1>1, <2>2 DEF HeardByNow
    <3>2. \A q \in Query, x \in SrvAnswer : srvAt'[q][x] >= srvAt[q][x]
      BY <1>1, <2>3 DEF HeardByNow
    <3>. QED  BY <1>1, <2>1, <3>1, <3>2 DEF MovesOn
  <2>5. HeardByNow'
    <3>1. \A h \in Asked \cap Name, x \in Response : wkAt'[h][x] <= now + 1
      BY <1>1, <2>2 DEF HeardByNow
    <3>2. \A q \in Query, x \in SrvAnswer : srvAt'[q][x] <= now + 1
      BY <1>1, <2>3 DEF HeardByNow
    <3>. QED  BY <2>1, <3>1, <3>2 DEF HeardByNow
  <2>6. Heard'
    <3>1. \A h \in Asked \cap Name : wkAt'[h][wk[h]] = now + 1
      BY <1>1, <2>2
    <3>2. \A q \in Query : srvAt'[q][srv[q]] = now + 1
      BY <1>1, <2>3
    <3>. QED  BY <2>1, <3>1, <3>2 DEF Heard
  <2>. QED  BY <2>4, <2>5, <2>6
<1>7. CASE UNCHANGED vars
  BY <1>2, <1>7 DEF vars, world, past
<1>. QED  BY <1>2, <1>3, <1>4, <1>5, <1>6, <1>7 DEF Next

(* What followed from what was said since b still does.                    *)
LEMMA StillFollows ==
  ASSUME TypeOK, TypeOK', MovesOn, NEW h \in Asked \cap Name, NEW e,
         NEW r \in Response, NEW b \in Int, FollowsFrom(h, e, r, b)
  PROVE  FollowsFrom(h, e, r, b)'
<1>1. wkAt'[h][r] >= b
  BY DEF FollowsFrom, MovesOn, TypeOK
<1>2. \A q \in Query, a \in SrvAnswer :
        srvAt[q][a] >= b => srvAt'[q][a] >= b
  BY DEF MovesOn, TypeOK
<1>3. ASSUME NEW host \in Name, FromSrv(host, e, b)
      PROVE  FromSrv(host, e, b)'
  <2>1. /\ <<"matrix-fed", host>> \in Query /\ <<"matrix", host>> \in Query
        /\ NoRecords \in SrvAnswer /\ Target \subseteq SrvAnswer
    BY DEF Query, SrvAnswer
  <2>. QED  BY <1>2, <1>3, <2>1 DEF FromSrv
<1>4. Form[r.addr] = "name" => r.addr \in Name
  BY ResponseFields DEF Name
<1>. QED  BY <1>1, <1>3, <1>4 DEF FollowsFrom

LEMMA StillJustified ==
  ASSUME TypeOK, TypeOK', MovesOn, NEW h \in Asked, NEW e, EntryInv(h, e)
  PROVE  EntryInv(h, e)'
<1>1. CASE IsLiteral(h, e)
  BY <1>1 DEF EntryInv, IsLiteral
<1>2. CASE ~ IsLiteral(h, e)
  <2>1. h \in Asked \cap Name
    BY <1>2, DiscoveryAssumption DEF EntryInv, Name
  <2>2. PICK r \in Response, b \in Int :
          FollowsFrom(h, e, r, b) /\ e.until <= b + MaxLag + Lifetime(r)
    BY <1>2 DEF EntryInv
  <2>3. FollowsFrom(h, e, r, b)'
    BY <2>1, <2>2, StillFollows
  <2>. QED  BY <1>2, <2>2, <2>3 DEF EntryInv
<1>. QED  BY <1>1, <1>2

-----------------------------------------------------------------------------
(* The calls.                                                              *)

LEMMA DelegateNamed ==
  ASSUME TypeOK, NEW f, FrameInv(f), f.pc # "probe"
  PROVE  Delegate(f) \in Name
<1>1. PICK r \in Response :
        /\ f.verdict = ClassifyWellKnown(r)
        /\ Delegates(r) => Form[r.addr] = "name"
  BY DEF FrameInv
<1>2. /\ f.verdict.outcome = "found" <=> Delegates(r)
      /\ Delegates(r) => f.verdict.addr = r.addr
  BY <1>1, VerdictFits
<1>. QED  BY <1>1, <1>2, ResponseFields DEF Delegate, FrameInv, Name

LEMMA StillKnown ==
  ASSUME TypeOK, TypeOK', MovesOn, NEW f \in Frame, FrameInv(f),
         now' <= f.since + MaxLag
  PROVE  FrameInv(f)'
<1>1. /\ f.host \in Asked \cap Name /\ f.since \in Nat
      /\ now \in Nat /\ now' \in Nat /\ f.since <= now /\ now' >= now
  BY DEF FrameInv, Frame, TypeOK, MovesOn
<1>2. f.since <= now'
  BY <1>1
<1>3. \A r \in Response :
        wkAt[f.host][r] >= f.since => wkAt'[f.host][r] >= f.since
  BY <1>1 DEF MovesOn, TypeOK
<1>4. f.pc = "matrix" =>
        srvAt'[<<"matrix-fed", Delegate(f)>>][NoRecords] >= f.since
  <2>1. SUFFICES ASSUME f.pc = "matrix"
                 PROVE  srvAt'[<<"matrix-fed", Delegate(f)>>][NoRecords]
                          >= f.since
    OBVIOUS
  <2>. DEFINE q == <<"matrix-fed", Delegate(f)>>
  <2>2. q \in Query /\ NoRecords \in SrvAnswer
    BY <2>1, DelegateNamed DEF Query, SrvAnswer
  <2>3. srvAt[q][NoRecords] >= f.since
    BY <2>1 DEF FrameInv
  <2>4. srvAt[q][NoRecords] \in Int /\ srvAt'[q][NoRecords] \in Int
    BY <2>2 DEF TypeOK
  <2>5. srvAt'[q][NoRecords] >= srvAt[q][NoRecords]
    BY <2>2 DEF MovesOn
  <2>. HIDE DEF q
  <2>6. srvAt'[q][NoRecords] >= f.since
    BY <1>1, <2>3, <2>4, <2>5
  <2>. QED  BY <2>6 DEF q
<1>. QED  BY <1>1, <1>2, <1>3, <1>4 DEF FrameInv, Delegate

LEMMA FramesStep ==
  ASSUME DiscoveryInv, TypeOK', MovesOn, [Next]_vars
  PROVE  FramesInv'
<1>. USE DEF DiscoveryInv
<1>1. MaxLag \in Nat /\ now \in Nat
  BY DiscoveryAssumption DEF TypeOK
(* A frame that stays while time stands still. *)
<1>2. ASSUME NEW p \in Proc, now' = now, frame'[p] = frame[p],
             frame'[p] # None
      PROVE  FrameInv(frame[p])' /\ frame'[p] # None
  <2>1. /\ frame[p] \in Frame /\ FrameInv(frame[p])
    BY <1>2 DEF FramesInv, TypeOK
  <2>2. PICK f \in Frame : f = frame[p]
    BY <2>1
  <2>3. FrameInv(f) /\ now' <= f.since + MaxLag
    BY <1>2, <2>1, <2>2 DEF FrameInv
  <2>4. FrameInv(f)'
    BY <2>3, StillKnown
  <2>. QED  BY <1>2, <2>2, <2>4 DEF FrameInv, Delegate
<1>3. CASE UNCHANGED <<now, frame>>
  BY <1>2, <1>3 DEF FramesInv
<1>4. ASSUME NEW p \in Proc, now' = now, NEW f \in Frame \cup {None},
             frame' = [frame EXCEPT ![p] = f],
             f # None => FrameInv(f)'
      PROVE  FramesInv'
  <2>. SUFFICES ASSUME NEW o \in Proc, frame'[o] # None
                PROVE  FrameInv(frame[o])'
    BY DEF FramesInv
  <2>1. CASE o = p
    <3>1. frame'[o] = f
      BY <1>4, <2>1 DEF TypeOK
    <3>2. FrameInv(f)'
      BY <1>4, <3>1
    <3>. QED  BY <3>1, <3>2 DEF FrameInv, Delegate
  <2>2. CASE o # p
    <3>1. frame'[o] = frame[o]
      BY <1>4, <2>2 DEF TypeOK
    <3>. QED  BY <1>2, <1>4, <3>1
  <2>. QED  BY <2>1, <2>2
<1>5. ASSUME NEW p \in Proc, now' = now, Return(p)
      PROVE  FramesInv'
  BY <1>4, <1>5 DEF Return
<1>6. ASSUME NEW p \in Proc, NEW h \in Asked, Begin(p, h)
      PROVE  FramesInv'
  <2>. DEFINE f == [host |-> h, pc |-> "probe", verdict |-> None,
                    since |-> now]
  <2>1. PICK n \in Nat : n = now
    BY <1>1
  <2>2. PICK g \in Frame : g = [host |-> h, pc |-> "probe", verdict |-> None,
                               since |-> n]
    BY <2>1 DEF Frame
  <2>3. frame' = [frame EXCEPT ![p] = g] /\ now' = n
    BY <1>6, <2>1, <2>2 DEF Begin
  <2>4. h \in Asked \cap Name
    BY <1>6, DiscoveryAssumption DEF Begin, Name
  <2>5. FrameInv(g)'
    BY <1>1, <2>1, <2>2, <2>3, <2>4 DEF FrameInv
  <2>. QED  BY <1>4, <2>1, <2>3, <2>5
<1>7. ASSUME NEW p \in Proc, Probe(p)
      PROVE  FramesInv'
  <2>. DEFINE h == frame[p].host
              v == ClassifyWellKnown(wk[h])
  <2>1. /\ frame[p] \in Frame /\ FrameInv(frame[p])
        /\ h \in Asked \cap Name /\ wk[h] \in Response
        /\ now' = now /\ wk' = wk /\ wkAt' = wkAt
    BY <1>7 DEF Probe, TypeOK, FramesInv, FrameInv, world, past
  <2>2. /\ v \in Verdict
        /\ v.outcome = "found" <=> Delegates(wk[h])
        /\ Delegates(wk[h]) => v.addr = wk[h].addr
    BY <2>1, VerdictFits
  <2>3. CASE v.outcome = "found" /\ Form[v.addr] # "name"
    BY <1>5, <1>7, <2>1, <2>3 DEF Probe
  <2>4. CASE ~ (v.outcome = "found" /\ Form[v.addr] # "name")
    <3>1. frame' = [frame EXCEPT ![p].pc = "matrix-fed", ![p].verdict = v]
      BY <1>7, <2>4 DEF Probe
    <3>2. PICK r \in Response : r = wk[h]
      BY <2>1
    <3>3. PICK g \in Frame :
            g = [frame[p] EXCEPT !.pc = "matrix-fed", !.verdict = v]
      BY <2>1, <2>2 DEF Frame
    <3>. HIDE DEF v
    <3>4. /\ g.host = h /\ g.since = frame[p].since /\ g.pc = "matrix-fed"
          /\ g.verdict = v
      BY <2>1, <3>3 DEF Frame
    <3>5. frame' = [frame EXCEPT ![p] = g]
      BY <2>1, <3>1, <3>3 DEF TypeOK
    <3>6. Delegates(r) => Form[r.addr] = "name"
      BY <2>2, <2>4, <3>2
    <3>7. wkAt[h][r] >= frame[p].since
      BY <2>1, <3>2 DEF Heard, FrameInv
    <3>8. g.verdict = ClassifyWellKnown(r)
      BY <3>2, <3>4 DEF v
    <3>9. FrameInv(g)'
      BY <2>1, <3>4, <3>6, <3>7, <3>8 DEF FrameInv
    <3>. QED  BY <1>4, <2>1, <3>5, <3>9
  <2>. QED  BY <2>3, <2>4
<1>8. ASSUME NEW p \in Proc, TryDeprecated(p)
      PROVE  FramesInv'
  <2>1. /\ frame[p] \in Frame /\ FrameInv(frame[p])
        /\ frame[p].pc = "matrix-fed" /\ Answer(frame[p]) \notin Target
        /\ now' = now /\ wkAt' = wkAt /\ srvAt' = srvAt
    BY <1>8 DEF TryDeprecated, TypeOK, FramesInv, world, past
  <2>. DEFINE q == <<"matrix-fed", Delegate(frame[p])>>
  <2>2. q \in Query
    BY <2>1, DelegateNamed DEF Query
  <2>3. srv[q] = NoRecords
    BY <2>1, <2>2 DEF Answer, TypeOK, SrvAnswer
  <2>4. srvAt[q][NoRecords] >= frame[p].since
    BY <2>1, <2>2, <2>3 DEF Heard, FrameInv
  <2>5. PICK g \in Frame : g = [frame[p] EXCEPT !.pc = "matrix"]
    BY <2>1 DEF Frame
  <2>6. /\ g.host = frame[p].host /\ g.since = frame[p].since
        /\ g.verdict = frame[p].verdict /\ g.pc = "matrix"
    BY <2>1, <2>5 DEF Frame
  <2>7. Delegate(g) = Delegate(frame[p])
    BY <2>6 DEF Delegate
  <2>8. frame' = [frame EXCEPT ![p] = g]
    BY <1>8, <2>1, <2>5 DEF TryDeprecated, Goto, TypeOK
  <2>9. srvAt[<<"matrix-fed", Delegate(g)>>][NoRecords] >= g.since
    BY <2>4, <2>6, <2>7
  <2>10. FrameInv(g)'
    BY <2>1, <2>6, <2>9 DEF FrameInv, Delegate
  <2>. QED  BY <1>4, <2>1, <2>8, <2>10
<1>9. CASE Tick
  <2>. SUFFICES ASSUME NEW p \in Proc, frame'[p] # None
                PROVE  FrameInv(frame[p])'
    BY DEF FramesInv
  <2>1. frame'[p] = frame[p] /\ now' = now + 1
        /\ now < frame[p].since + MaxLag
    BY <1>9 DEF Tick
  <2>2. frame[p] \in Frame /\ FrameInv(frame[p])
    BY <2>1 DEF FramesInv, TypeOK
  <2>3. PICK f \in Frame : f = frame[p]
    BY <2>2
  <2>4. FrameInv(f) /\ now' <= f.since + MaxLag
    BY <1>1, <2>1, <2>2, <2>3 DEF Frame
  <2>5. FrameInv(f)'
    BY <2>4, StillKnown
  <2>. QED  BY <2>1, <2>3, <2>5 DEF FrameInv, Delegate
<1>10. ASSUME NEW p \in Proc, UseSrv(p) \/ UseHost(p)
       PROVE  FramesInv'
  BY <1>5, <1>10 DEF UseSrv, UseHost
<1>11. ASSUME NEW p \in Proc, NEW h \in Asked, UseCached(p, h) \/ UseLiteral(p, h)
       PROVE  FramesInv'
  BY <1>3, <1>11 DEF UseCached, UseLiteral, vars
<1>12. ASSUME NEW h \in Asked \cap Name, NEW r \in Response,
              WellKnownChanges(h, r)
       PROVE  FramesInv'
  BY <1>3, <1>12 DEF WellKnownChanges
<1>13. ASSUME NEW q \in Query, NEW a \in SrvAnswer, SrvChanges(q, a)
       PROVE  FramesInv'
  BY <1>3, <1>13 DEF SrvChanges
<1>14. CASE UNCHANGED vars
  BY <1>3, <1>14 DEF vars
<1>. QED  BY <1>6, <1>7, <1>8, <1>9, <1>10, <1>11, <1>12, <1>13, <1>14
          DEF Next, Call

-----------------------------------------------------------------------------
(* The cache.                                                              *)

LEMMA CacheStep ==
  ASSUME DiscoveryInv, TypeOK', MovesOn, [Next]_vars
  PROVE  CacheInv'
<1>. USE DEF DiscoveryInv
<1>1. ASSUME NEW h \in Asked, cache'[h] = cache[h], cache'[h] # None
      PROVE  EntryInv(h, cache[h])'
  <2>1. PICK e : e = cache[h]
    OBVIOUS
  <2>2. EntryInv(h, e)
    BY <1>1, <2>1 DEF CacheInv
  <2>3. EntryInv(h, e)'
    BY <2>2, StillJustified
  <2>. QED  BY <1>1, <2>1, <2>3
       DEF EntryInv, IsLiteral, FollowsFrom, FromSrv
<1>2. CASE UNCHANGED cache
  BY <1>1, <1>2 DEF CacheInv
<1>3. ASSUME NEW h \in Asked, NEW url, NEW name, NEW ttl \in Nat, NEW e,
             Remember(h, url, name, ttl),
             e = [url |-> url, name |-> name, until |-> now + ttl],
             EntryInv(h, e)'
      PROVE  CacheInv'
  <2>. SUFFICES ASSUME NEW g \in Asked, cache'[g] # None
                PROVE  EntryInv(g, cache[g])'
    BY DEF CacheInv
  <2>1. CASE g = h
    <3>1. cache'[g] = e
      BY <1>3, <2>1 DEF Remember, TypeOK
    <3>. QED  BY <1>3, <2>1, <3>1
         DEF EntryInv, IsLiteral, FollowsFrom, FromSrv
  <2>2. CASE g # h
    <3>1. cache'[g] = cache[g]
      BY <1>3, <2>2 DEF Remember, TypeOK
    <3>. QED  BY <1>1, <3>1
  <2>. QED  BY <2>1, <2>2
<1>4. ASSUME NEW p \in Proc, NEW h \in Asked, UseLiteral(p, h)
      PROVE  CacheInv'
  <2>. DEFINE name == IF Form[h] = "ip" THEN h ELSE Bare[h]
  <2>1. PICK e : e = [url |-> h, name |-> name, until |-> now + ValidTtl]
    OBVIOUS
  <2>2. e.url = h /\ e.name = name
    BY <2>1
  <2>3. EntryInv(h, e)'
    BY <1>4, <2>2 DEF UseLiteral, EntryInv, IsLiteral
  <2>4. ValidTtl \in Nat /\ Remember(h, h, name, ValidTtl)
    BY <1>4, DiscoveryAssumption DEF UseLiteral
  <2>. HIDE DEF name
  <2>. QED  BY <1>3, <2>1, <2>3, <2>4
<1>5. ASSUME NEW p \in Proc, Probe(p)
      PROVE  CacheInv'
  <2>1. /\ frame[p] \in Frame /\ frame[p].host \in Asked \cap Name
        /\ wkAt' = wkAt /\ now \in Nat /\ MaxLag \in Nat
    BY <1>5, DiscoveryAssumption DEF Probe, TypeOK, FramesInv, FrameInv, past
  <2>2. PICK h \in Asked \cap Name, r \in Response, n \in Int :
          h = frame[p].host /\ r = wk[h] /\ n = now
    BY <2>1 DEF TypeOK
  <2>3. PICK v : v = ClassifyWellKnown(r)
    OBVIOUS
  <2>4. /\ v \in Verdict
        /\ v.outcome = "found" <=> Delegates(r)
        /\ Delegates(r) => v.addr = r.addr
        /\ v.ttl <= Lifetime(r)
    BY <2>3, VerdictFits
  <2>5. CASE ~ (v.outcome = "found" /\ Form[v.addr] # "name")
    BY <1>2, <1>5, <2>2, <2>3, <2>5 DEF Probe
  <2>6. CASE v.outcome = "found" /\ Form[v.addr] # "name"
    <3>1. PICK name : name = IF Form[v.addr] = "ip" THEN v.addr ELSE Bare[v.addr]
      OBVIOUS
    <3>2. Remember(h, v.addr, name, v.ttl)
      BY <1>5, <2>2, <2>3, <2>6, <3>1 DEF Probe
    <3>3. v.addr = r.addr /\ v.ttl \in Nat /\ Delegates(r)
      BY <2>4, <2>6 DEF Verdict
    <3>4. PICK e : e = [url |-> v.addr, name |-> name, until |-> n + v.ttl]
      OBVIOUS
    <3>5. e.url = r.addr /\ e.name = name /\ e.until = n + v.ttl
      BY <3>3, <3>4
    <3>6. Form[r.addr] \in {"ip", "port"}
      BY <2>6, <3>3, ResponseFields DEF Delegates
    <3>7. wkAt'[h][r] >= n
      BY <2>1, <2>2 DEF Heard
    <3>8. FollowsFrom(h, e, r, n)'
      BY <3>1, <3>3, <3>5, <3>6, <3>7 DEF FollowsFrom
    <3>9. Lifetime(r) \in Int
      BY LifetimeTyped
    <3>10. e.until <= n + MaxLag + Lifetime(r)
      BY <2>1, <2>4, <3>3, <3>5, <3>9
    <3>11. EntryInv(h, e)'
      BY <3>8, <3>10 DEF EntryInv, Name
    <3>. QED  BY <1>3, <2>2, <3>2, <3>3, <3>4, <3>11
  <2>. QED  BY <2>5, <2>6
<1>6. ASSUME NEW p \in Proc, frame[p] # None, frame[p].pc # "probe",
             NEW h \in Asked \cap Name, h = frame[p].host,
             NEW b \in Int, b = frame[p].since,
             NEW name \in Name, name = Delegate(frame[p]),
             NEW url, NEW ttl \in Nat,
             ttl = SrvTtl(frame[p]) \/ ttl = HostTtl(frame[p]),
             NEW e, e = [url |-> url, name |-> name, until |-> now + ttl],
             FromSrv(name, e, b), Remember(h, url, name, ttl)
      PROVE  CacheInv'
  <2>1. FrameInv(frame[p]) /\ now \in Nat /\ MaxLag \in Nat
    BY <1>6, DiscoveryAssumption DEF TypeOK, FramesInv
  <2>2. PICK r \in Response :
          /\ wkAt[h][r] >= b
          /\ Delegates(r) => Form[r.addr] = "name" /\ name = r.addr
          /\ ~ Delegates(r) => name = h
          /\ SrvTtl(frame[p]) <= Lifetime(r)
          /\ HostTtl(frame[p]) <= Lifetime(r)
    BY <1>6, LookingUp
  <2>3. FollowsFrom(h, e, r, b)
    BY <1>6, <2>2 DEF FollowsFrom
  <2>4. Lifetime(r) \in Int
    BY LifetimeTyped
  <2>5. ttl <= Lifetime(r) /\ e.until = now + ttl
    BY <1>6, <2>2
  <2>6. now <= b + MaxLag
    BY <1>6, <2>1 DEF FrameInv
  <2>7. e.until <= b + MaxLag + Lifetime(r)
    BY <2>1, <2>4, <2>5, <2>6
  <2>8. FollowsFrom(h, e, r, b)'
    BY <2>3, StillFollows
  <2>9. EntryInv(h, e)'
    BY <2>7, <2>8 DEF EntryInv, Name
  <2>. QED  BY <1>3, <1>6, <2>9
<1>7. ASSUME NEW p \in Proc, UseSrv(p)
      PROVE  CacheInv'
  <2>1. /\ frame[p] # None /\ frame[p].pc # "probe"
        /\ frame[p] \in Frame /\ FrameInv(frame[p])
        /\ Answer(frame[p]) \in Target
        /\ Remember(frame[p].host, Answer(frame[p]), Delegate(frame[p]),
                    SrvTtl(frame[p]))
    BY <1>7 DEF UseSrv, TypeOK, FramesInv
  <2>2. /\ SrvTtl(frame[p]) \in Nat /\ Delegate(frame[p]) \in Name
        /\ frame[p].host \in Asked \cap Name /\ frame[p].since \in Int
        /\ frame[p].pc \in {"matrix-fed", "matrix"}
    BY <2>1, LookingUp DEF Frame
  <2>3. PICK h \in Asked \cap Name, b \in Int, name \in Name, url \in Target,
             ttl \in Nat, pc \in {"matrix-fed", "matrix"} :
          /\ h = frame[p].host /\ b = frame[p].since /\ pc = frame[p].pc
          /\ name = Delegate(frame[p]) /\ url = Answer(frame[p])
          /\ ttl = SrvTtl(frame[p])
    BY <2>1, <2>2
  <2>4. <<pc, name>> \in Query /\ url = srv[<<pc, name>>]
    BY <2>3 DEF Query, Answer
  <2>5. srvAt[<<pc, name>>][url] >= b
    BY <2>1, <2>3, <2>4 DEF Heard, FrameInv
  <2>6. pc = "matrix" => srvAt[<<"matrix-fed", name>>][NoRecords] >= b
    BY <2>1, <2>3 DEF FrameInv
  <2>7. PICK e : e = [url |-> url, name |-> name, until |-> now + ttl]
    OBVIOUS
  <2>8. e.url = url /\ e.name = name
    BY <2>7
  <2>9. FromSrv(name, e, b)
    BY <2>1, <2>3, <2>5, <2>6, <2>8 DEF FromSrv
  <2>. QED  BY <1>6, <2>1, <2>3, <2>7, <2>9
<1>8. ASSUME NEW p \in Proc, UseHost(p)
      PROVE  CacheInv'
  <2>1. /\ frame[p] # None /\ frame[p].pc = "matrix"
        /\ frame[p] \in Frame /\ FrameInv(frame[p])
        /\ Answer(frame[p]) \notin Target
        /\ Remember(frame[p].host, Delegate(frame[p]), Delegate(frame[p]),
                    HostTtl(frame[p]))
    BY <1>8 DEF UseHost, TypeOK, FramesInv
  <2>2. /\ HostTtl(frame[p]) \in Nat /\ Delegate(frame[p]) \in Name
        /\ frame[p].host \in Asked \cap Name
    BY <2>1, LookingUp
  <2>3. PICK h \in Asked \cap Name, b \in Int, name \in Name, ttl \in Nat :
          /\ h = frame[p].host /\ b = frame[p].since
          /\ name = Delegate(frame[p]) /\ ttl = HostTtl(frame[p])
    BY <2>1, <2>2 DEF Frame
  <2>4. <<"matrix", name>> \in Query /\ srv[<<"matrix", name>>] \notin Target
    BY <2>1, <2>3 DEF Query, Answer
  <2>5. srv[<<"matrix", name>>] = NoRecords
    BY <2>4 DEF TypeOK, SrvAnswer
  <2>6. srvAt[<<"matrix", name>>][NoRecords] >= b
    BY <2>1, <2>3, <2>4, <2>5 DEF Heard, FrameInv
  <2>7. srvAt[<<"matrix-fed", name>>][NoRecords] >= b
    BY <2>1, <2>3 DEF FrameInv
  <2>8. PICK e : e = [url |-> name, name |-> name, until |-> now + ttl]
    OBVIOUS
  <2>9. e.url = name /\ e.name = name
    BY <2>8
  <2>10. FromSrv(name, e, b)
    BY <2>6, <2>7, <2>9 DEF FromSrv
  <2>. QED  BY <1>6, <2>1, <2>3, <2>8, <2>10
<1>9. ASSUME NEW p \in Proc, NEW h \in Asked,
             UseCached(p, h) \/ Begin(p, h) \/ TryDeprecated(p)
      PROVE  CacheInv'
  BY <1>2, <1>9 DEF UseCached, Begin, TryDeprecated, vars
<1>10. ASSUME NEW p \in Proc, TryDeprecated(p)
       PROVE  CacheInv'
  BY <1>2, <1>10 DEF TryDeprecated
<1>11. ASSUME NEW h \in Asked \cap Name, NEW r \in Response,
              WellKnownChanges(h, r)
       PROVE  CacheInv'
  BY <1>2, <1>11 DEF WellKnownChanges
<1>12. ASSUME NEW q \in Query, NEW a \in SrvAnswer, SrvChanges(q, a)
       PROVE  CacheInv'
  BY <1>2, <1>12 DEF SrvChanges
<1>13. CASE Tick \/ UNCHANGED vars
  BY <1>2, <1>13 DEF Tick, vars
<1>. QED  BY <1>4, <1>5, <1>7, <1>8, <1>9, <1>10, <1>11, <1>12, <1>13
          DEF Next, Call

-----------------------------------------------------------------------------
LEMMA DiscoveryInduction == Spec => []DiscoveryInv
<1>1. ASSUME Init PROVE DiscoveryInv
  <2>1. TypeOK
    BY <1>1, InitTyped
  <2>2. Heard
    BY <1>1 DEF Init, Heard
  <2>3. Never \in Int /\ Never < 0
    BY DiscoveryAssumption DEF Never
  <2>4. HeardByNow
    BY <1>1, <2>3 DEF Init, HeardByNow
  <2>5. FramesInv /\ CacheInv
    BY <1>1 DEF Init, FramesInv, CacheInv
  <2>. QED  BY <2>1, <2>2, <2>4, <2>5 DEF DiscoveryInv
<1>2. ASSUME DiscoveryInv, [Next]_vars PROVE DiscoveryInv'
  <2>1. TypeOK'
    BY <1>2, TypeStep
  <2>2. Heard' /\ HeardByNow' /\ MovesOn
    BY <1>2, HeardStep DEF DiscoveryInv
  <2>3. FramesInv' /\ CacheInv'
    BY <1>2, <2>1, <2>2, FramesStep, CacheStep
  <2>. QED  BY <2>1, <2>2, <2>3 DEF DiscoveryInv
<1>. QED  BY <1>1, <1>2, PTL DEF Spec

-----------------------------------------------------------------------------
(* Probes are spaced.                                                      *)

(* A probed name is being asked after, or its entry lasts long enough: the *)
(* failed lifetime after the probe, and the minimal one unless a probe     *)
(* failed no longer before it than a call takes.                           *)
Covered(h) ==
  \/ asked[h] = Never /\ failed[h] = Never
  \/ \E p \in Proc :
       frame[p] # None /\ frame[p].host = h /\ frame[p].pc # "probe"
  \/ /\ cache[h] # None
     /\ cache[h].until >= asked[h] + FailedTtl
     /\ \/ failed[h] >= asked[h] - MaxLag
        \/ cache[h].until >= asked[h] + MinTtl

CoveredInv == \A h \in Asked \cap Name : asked[h] <= now /\ Covered(h)

(* A call that failed to probe shows in the history.                       *)
FailureNoted(f) ==
  f.pc # "probe" /\ f.verdict.outcome = "failed" => failed[f.host] >= f.since

FailuresNoted == \A p \in Proc : frame[p] # None => FailureNoted(frame[p])

SpacedInv == DiscoveryInv /\ CoveredInv /\ FailuresNoted

(* What a call remembers lasts the minimal lifetime unless its probe       *)
(* failed, and the failed one then.                                        *)
LEMMA TtlReaches ==
  ASSUME DiscoveryInv, NEW p \in Proc, frame[p] # None, frame[p].pc # "probe",
         NEW ttl, ttl = SrvTtl(frame[p]) \/ ttl = HostTtl(frame[p])
  PROVE  /\ ttl \in Nat /\ ttl >= FailedTtl
         /\ frame[p].verdict.outcome # "failed" => ttl >= MinTtl
<1>1. PICK r \in Response : frame[p].verdict = ClassifyWellKnown(r)
  BY DEF DiscoveryInv, FramesInv, FrameInv
<1>2. PICK v : v = frame[p].verdict
  OBVIOUS
<1>3. v \in Verdict /\ (v.outcome = "found" => v.ttl >= MinTtl)
  BY <1>1, <1>2, VerdictFits
<1>4. /\ {FailedTtl, AbsentTtl, MinTtl} \subseteq Nat
      /\ FailedTtl <= MinTtl /\ MinTtl <= AbsentTtl
  BY DiscoveryAssumption
<1>. QED  BY <1>2, <1>3, <1>4 DEF SrvTtl, HostTtl, FallbackTtl, Verdict

(* An entry that lasts long enough covers its name.                        *)
LEMMA EntryCovers ==
  ASSUME DiscoveryInv, NEW h \in Asked,
         asked'[h] \in Int, failed'[h] \in Int, asked'[h] <= now,
         NEW url \in Addr \cup Target, NEW name \in Addr, NEW ttl \in Nat,
         Remember(h, url, name, ttl), ttl >= FailedTtl,
         ttl >= MinTtl \/ failed'[h] >= now - MaxLag
  PROVE  Covered(h)'
<1>1. now \in Nat /\ [url |-> url, name |-> name, until |-> now + ttl] \in Entry
  BY DEF DiscoveryInv, TypeOK, Entry
<1>2. cache'[h] = [url |-> url, name |-> name, until |-> now + ttl]
  BY DEF Remember, DiscoveryInv, TypeOK
<1>3. cache'[h].until = now + ttl
  BY <1>2
<1>4. cache'[h] # None
  BY <1>1, <1>2, NoneAssumption
<1>5. {FailedTtl, MinTtl, MaxLag} \subseteq Nat
  BY DiscoveryAssumption
<1>6. now + ttl >= asked'[h] + FailedTtl
  BY <1>1, <1>5
<1>7. failed'[h] >= asked'[h] - MaxLag \/ now + ttl >= asked'[h] + MinTtl
  BY <1>1, <1>5
<1>. QED  BY <1>3, <1>4, <1>6, <1>7 DEF Covered

(* What does not touch a name, nor ends a call that covers it, leaves it   *)
(* covered.                                                                *)
LEMMA StillCovered ==
  ASSUME NEW h \in Asked, Covered(h), cache'[h] = cache[h],
         asked'[h] = asked[h], failed'[h] = failed[h],
         \A o \in Proc : frame[o] # None /\ frame[o].host = h => frame'[o] = frame[o]
  PROVE  Covered(h)'
BY DEF Covered, Never

LEMMA FailuresStep ==
  ASSUME DiscoveryInv, FailuresNoted, TypeOK', [Next]_vars
  PROVE  FailuresNoted'
<1>. USE DEF DiscoveryInv
<1>1. CASE UNCHANGED <<frame, failed>>
  BY <1>1 DEF FailuresNoted, FailureNoted
<1>2. ASSUME NEW p \in Proc, failed' = failed, Return(p)
      PROVE  FailuresNoted'
  BY <1>2 DEF Return, FailuresNoted, FailureNoted, TypeOK
<1>3. ASSUME NEW p \in Proc, NEW h \in Asked, Begin(p, h)
      PROVE  FailuresNoted'
  BY <1>3 DEF Begin, probes, FailuresNoted, FailureNoted, TypeOK
<1>4. ASSUME NEW p \in Proc, Probe(p)
      PROVE  FailuresNoted'
  <2>. SUFFICES ASSUME NEW o \in Proc, frame'[o] # None
                PROVE  FailureNoted(frame[o])'
    BY DEF FailuresNoted
  <2>1. /\ frame[p] \in Frame /\ FrameInv(frame[p]) /\ now \in Nat
        /\ failed \in [Asked -> Int]
    BY <1>4 DEF Probe, TypeOK, FramesInv
  <2>2. PICK h \in Asked : h = frame[p].host
    BY <2>1 DEF FrameInv
  <2>v. PICK v : v = ClassifyWellKnown(wk[h])
    OBVIOUS
  <2>3. failed' = [failed EXCEPT ![h] = IF v.outcome = "failed" THEN now ELSE @]
    BY <1>4, <2>2, <2>v DEF Probe
  <2>4. CASE o = p
    <3>1. frame' = [frame EXCEPT ![p].pc = "matrix-fed", ![p].verdict = v]
      BY <1>4, <2>2, <2>v, <2>4 DEF Probe, Return, TypeOK
    <3>2. frame'[p] = [frame[p] EXCEPT !.pc = "matrix-fed", !.verdict = v]
      BY <3>1 DEF TypeOK
    <3>3. /\ frame'[p].verdict = v /\ frame'[p].host = h
          /\ frame'[p].since = frame[p].since
      BY <2>1, <2>2, <3>2 DEF Frame
    <3>4. v.outcome = "failed" => failed'[h] >= frame[p].since
      BY <2>1, <2>3 DEF FrameInv, Frame
    <3>. QED  BY <2>4, <3>3, <3>4 DEF FailureNoted
  <2>5. CASE o # p
    <3>1. frame'[o] = frame[o] /\ frame[o] \in Frame /\ FrameInv(frame[o])
      BY <1>4, <2>5 DEF Probe, Return, TypeOK, FramesInv
    <3>2. PICK f \in Frame : f = frame[o]
      BY <3>1
    <3>3. /\ f.host \in Asked /\ f.since \in Nat /\ f.since <= now
          /\ FailureNoted(f)
      BY <3>1, <3>2 DEF FrameInv, Frame, FailuresNoted
    <3>4. failed'[f.host] = failed[f.host] \/ failed'[f.host] = now
      BY <2>1, <2>3, <3>3
    <3>5. FailureNoted(f)'
      BY <2>1, <3>3, <3>4 DEF FailureNoted
    <3>. QED  BY <3>1, <3>2, <3>5 DEF FailureNoted
  <2>. QED  BY <2>4, <2>5
<1>5. ASSUME NEW p \in Proc, TryDeprecated(p)
      PROVE  FailuresNoted'
  <2>1. /\ frame[p] \in Frame /\ frame[p] # None /\ frame[p].pc # "probe"
        /\ failed' = failed /\ frame' = [frame EXCEPT ![p].pc = "matrix"]
    BY <1>5 DEF TryDeprecated, Goto, TypeOK, probes
  <2>2. frame'[p] = [frame[p] EXCEPT !.pc = "matrix"]
    BY <2>1 DEF TypeOK
  <2>3. /\ frame'[p].host = frame[p].host /\ frame'[p].since = frame[p].since
        /\ frame'[p].verdict = frame[p].verdict
    BY <2>1, <2>2 DEF Frame
  <2>4. \A o \in Proc \ {p} : frame'[o] = frame[o]
    BY <2>1 DEF TypeOK
  <2>. QED  BY <2>1, <2>3, <2>4 DEF FailuresNoted, FailureNoted
<1>6. ASSUME NEW p \in Proc, UseSrv(p) \/ UseHost(p)
      PROVE  FailuresNoted'
  BY <1>2, <1>6 DEF UseSrv, UseHost, probes
<1>7. ASSUME NEW p \in Proc, NEW h \in Asked, UseCached(p, h) \/ UseLiteral(p, h)
      PROVE  FailuresNoted'
  BY <1>1, <1>7 DEF UseCached, UseLiteral, vars, probes
<1>8. ASSUME NEW h \in Asked \cap Name, NEW r \in Response, WellKnownChanges(h, r)
      PROVE  FailuresNoted'
  BY <1>1, <1>8 DEF WellKnownChanges, probes
<1>9. ASSUME NEW q \in Query, NEW a \in SrvAnswer, SrvChanges(q, a)
      PROVE  FailuresNoted'
  BY <1>1, <1>9 DEF SrvChanges, probes
<1>10. CASE Tick \/ UNCHANGED vars
  BY <1>1, <1>10 DEF Tick, vars, probes
<1>. QED  BY <1>3, <1>4, <1>5, <1>6, <1>7, <1>8, <1>9, <1>10 DEF Next, Call

(* A call that ends covers its name by the entry it writes.                *)
LEMMA AnswerCovers ==
  ASSUME DiscoveryInv, CoveredInv, FailuresNoted, NEW p \in Proc,
         frame[p] # None, frame[p].pc # "probe", UNCHANGED probes,
         NEW h \in Asked, h = frame[p].host, NEW url \in Addr \cup Target,
         NEW ttl, ttl = SrvTtl(frame[p]) \/ ttl = HostTtl(frame[p]),
         Remember(h, url, Delegate(frame[p]), ttl)
  PROVE  Covered(h)'
<1>1. /\ ttl \in Nat /\ ttl >= FailedTtl
      /\ frame[p].verdict.outcome # "failed" => ttl >= MinTtl
  BY TtlReaches
<1>2. /\ frame[p].host \in Asked \cap Name /\ Delegate(frame[p]) \in Addr
      /\ frame[p].since \in Nat /\ now <= frame[p].since + MaxLag
      /\ now \in Nat /\ MaxLag \in Nat
  BY LookingUp, DiscoveryAssumption
     DEF Name, Frame, FrameInv, DiscoveryInv, FramesInv, TypeOK
<1>3. PICK f \in Frame : f = frame[p] /\ h = f.host /\ h \in Name
  BY <1>2, LookingUp
<1>4. /\ asked' = asked /\ failed' = failed /\ asked[h] <= now
      /\ asked[h] \in Int /\ failed[h] \in Int
  BY <1>3 DEF probes, CoveredInv, DiscoveryInv, TypeOK
<1>5. f.verdict.outcome = "failed" => failed[h] >= now - MaxLag
  <2>1. FailureNoted(f)
    BY <1>3 DEF FailuresNoted
  <2>. QED  BY <1>2, <1>3, <1>4, <2>1 DEF FailureNoted
<1>. QED  BY <1>1, <1>2, <1>3, <1>4, <1>5, EntryCovers

LEMMA CoveredStep ==
  ASSUME DiscoveryInv, CoveredInv, FailuresNoted, TypeOK', [Next]_vars
  PROVE  CoveredInv'
<1>. USE DEF DiscoveryInv
<1>. SUFFICES ASSUME NEW h \in Asked \cap Name
              PROVE  asked'[h] <= now' /\ Covered(h)'
  BY DEF CoveredInv, Covered
<1>1. asked[h] <= now /\ Covered(h) /\ now \in Nat /\ asked[h] \in Int
  BY DEF CoveredInv, TypeOK
<1>2. CASE UNCHANGED <<cache, frame, asked, failed>> /\ now' >= now
  <2>1. asked'[h] <= now'
    BY <1>1, <1>2 DEF TypeOK
  <2>. QED  BY <1>1, <1>2, <2>1, StillCovered
<1>3. ASSUME NEW p \in Proc, NEW g \in Asked, UseLiteral(p, g)
      PROVE  asked'[h] <= now' /\ Covered(h)'
  <2>1. g # h
    BY <1>3 DEF UseLiteral, Name
  <2>2. cache'[h] = cache[h]
    BY <1>3, <2>1 DEF UseLiteral, Remember, TypeOK
  <2>. QED  BY <1>1, <1>3, <2>2, StillCovered DEF UseLiteral, probes
<1>4. ASSUME NEW p \in Proc, NEW g \in Asked, Begin(p, g)
      PROVE  asked'[h] <= now' /\ Covered(h)'
  <2>1. \A o \in Proc : frame[o] # None => frame'[o] = frame[o]
    BY <1>4 DEF Begin, TypeOK
  <2>. QED  BY <1>1, <1>4, <2>1, StillCovered DEF Begin, probes
<1>5. ASSUME NEW p \in Proc, Probe(p)
      PROVE  asked'[h] <= now' /\ Covered(h)'
  <2>1. /\ frame[p] \in Frame /\ FrameInv(frame[p]) /\ now' = now
        /\ asked' = [asked EXCEPT ![frame[p].host] = now]
    BY <1>5 DEF Probe, TypeOK, FramesInv
  <2>2. asked'[h] <= now'
    BY <1>1, <2>1 DEF TypeOK
  <2>3. CASE frame[p].host # h
    <3>1. cache'[h] = cache[h]
      BY <1>5, <2>3 DEF Probe, Remember, TypeOK
    <3>2. asked'[h] = asked[h] /\ failed'[h] = failed[h]
      BY <1>5, <2>3 DEF Probe, TypeOK
    <3>3. \A o \in Proc : frame[o] # None /\ frame[o].host = h => frame'[o] = frame[o]
      BY <1>5, <2>3 DEF Probe, Return, TypeOK
    <3>. QED  BY <1>1, <2>2, <3>1, <3>2, <3>3, StillCovered
  <2>4. CASE frame[p].host = h
    <3>0. PICK r \in Response : r = wk[h]
      BY DEF TypeOK
    <3>v. PICK v : v = ClassifyWellKnown(r)
      OBVIOUS
    <3>1. r = wk[h] /\ v = ClassifyWellKnown(r)
      BY <3>0, <3>v
    <3>2. /\ v \in Verdict
          /\ v.outcome = "found" <=> Delegates(r)
          /\ Delegates(r) => v.addr = r.addr
          /\ v.outcome = "found" => v.ttl >= MinTtl
      BY <3>1, VerdictFits
    <3>3. CASE v.outcome = "found" /\ Form[v.addr] # "name"
      <4>1. PICK name : name = IF Form[v.addr] = "ip" THEN v.addr ELSE Bare[v.addr]
        OBVIOUS
      <4>2. Remember(h, v.addr, name, v.ttl)
        BY <1>5, <2>4, <3>1, <3>3, <4>1 DEF Probe
      <4>3. v.addr \in Addr /\ name \in Addr
        BY <3>2, <3>3, <4>1, ResponseFields, DiscoveryAssumption
      <4>4. v.ttl \in Nat /\ v.ttl >= MinTtl /\ v.ttl >= FailedTtl
        BY <3>2, <3>3, DiscoveryAssumption DEF Verdict
      <4>5. asked'[h] <= now /\ asked'[h] \in Int /\ failed'[h] \in Int
        BY <2>1, <2>2 DEF TypeOK
      <4>. QED  BY <2>2, <4>2, <4>3, <4>4, <4>5, EntryCovers
    <3>4. CASE ~ (v.outcome = "found" /\ Form[v.addr] # "name")
      <4>1. frame' = [frame EXCEPT ![p].pc = "matrix-fed", ![p].verdict = v]
        BY <1>5, <2>4, <3>1, <3>4 DEF Probe
      <4>2. frame'[p] = [frame[p] EXCEPT !.pc = "matrix-fed", !.verdict = v]
        BY <4>1 DEF TypeOK
      <4>3. frame'[p].pc = "matrix-fed" /\ frame'[p].host = h /\ frame'[p] \in Frame
        BY <2>1, <2>4, <3>2, <4>2 DEF Frame
      <4>. QED  BY <2>2, <4>3, NoneAssumption DEF Covered
    <3>. QED  BY <3>3, <3>4
  <2>. QED  BY <2>3, <2>4
<1>6. ASSUME NEW p \in Proc, frame[p] # None, frame[p].pc # "probe",
             NEW url \in Addr \cup Target,
             NEW ttl, ttl = SrvTtl(frame[p]) \/ ttl = HostTtl(frame[p]),
             Remember(frame[p].host, url, Delegate(frame[p]), ttl),
             Return(p), UNCHANGED <<now, asked, failed>>
      PROVE  asked'[h] <= now' /\ Covered(h)'
  <2>1. CASE frame[p].host = h
    <3>1. Covered(h)'
      BY <1>6, <2>1, AnswerCovers DEF probes
    <3>. QED  BY <1>1, <1>6, <3>1
  <2>2. CASE frame[p].host # h
    <3>1. cache'[h] = cache[h]
      BY <1>6, <2>2 DEF Remember, TypeOK
    <3>2. \A o \in Proc : frame[o] # None /\ frame[o].host = h => frame'[o] = frame[o]
      BY <1>6, <2>2 DEF Return, TypeOK
    <3>. QED  BY <1>1, <1>6, <3>1, <3>2, StillCovered
  <2>. QED  BY <2>1, <2>2
<1>7. ASSUME NEW p \in Proc, UseSrv(p)
      PROVE  asked'[h] <= now' /\ Covered(h)'
  BY <1>6, <1>7 DEF UseSrv, probes
<1>8. ASSUME NEW p \in Proc, UseHost(p)
      PROVE  asked'[h] <= now' /\ Covered(h)'
  <2>1. Delegate(frame[p]) \in Addr
    BY <1>8, LookingUp DEF UseHost, Name
  <2>. QED  BY <1>6, <1>8, <2>1 DEF UseHost, probes
<1>9. ASSUME NEW p \in Proc, TryDeprecated(p)
      PROVE  asked'[h] <= now' /\ Covered(h)'
  <2>1. /\ frame[p] \in Frame /\ frame' = [frame EXCEPT ![p].pc = "matrix"]
        /\ UNCHANGED <<now, cache, asked, failed>>
    BY <1>9 DEF TryDeprecated, Goto, TypeOK, probes
  <2>2. frame'[p] = [frame[p] EXCEPT !.pc = "matrix"]
    BY <2>1 DEF TypeOK
  <2>3. frame'[p].host = frame[p].host /\ frame'[p].pc = "matrix" /\ frame'[p] # None
    BY <2>1, <2>2, NoneAssumption DEF Frame
  <2>4. CASE frame[p].host = h
    BY <1>1, <2>1, <2>3, <2>4 DEF Covered
  <2>5. CASE frame[p].host # h
    <3>1. \A o \in Proc : frame[o] # None /\ frame[o].host = h => frame'[o] = frame[o]
      BY <2>1, <2>5 DEF TypeOK
    <3>. QED  BY <1>1, <2>1, <3>1, StillCovered
  <2>. QED  BY <2>4, <2>5
<1>10. ASSUME NEW p \in Proc, NEW g \in Asked, UseCached(p, g)
       PROVE  asked'[h] <= now' /\ Covered(h)'
  BY <1>1, <1>2, <1>10 DEF UseCached, vars, probes
<1>11. ASSUME NEW g \in Asked \cap Name, NEW r \in Response, WellKnownChanges(g, r)
       PROVE  asked'[h] <= now' /\ Covered(h)'
  BY <1>1, <1>2, <1>11 DEF WellKnownChanges, probes
<1>12. ASSUME NEW q \in Query, NEW a \in SrvAnswer, SrvChanges(q, a)
       PROVE  asked'[h] <= now' /\ Covered(h)'
  BY <1>1, <1>2, <1>12 DEF SrvChanges, probes
<1>13. CASE Tick \/ UNCHANGED vars
  BY <1>1, <1>2, <1>13 DEF Tick, vars, probes
<1>. QED  BY <1>3, <1>4, <1>5, <1>7, <1>8, <1>9, <1>10, <1>11, <1>12, <1>13
          DEF Next, Call

(* A call that begins does so when the entry of its name has expired.      *)
LEMMA BeginsLate ==
  ASSUME DiscoveryInv, CoveredInv, NEW p \in Proc, NEW h \in Asked,
         Begin(p, h), Alone(h)
  PROVE  /\ now > asked[h] + FailedTtl
         /\ failed[h] < asked[h] - MaxLag => now > asked[h] + MinTtl
<1>1. h \in Asked \cap Name /\ ~ Hit(h)
  BY DiscoveryAssumption DEF Begin, Name
<1>2. Covered(h) /\ now \in Nat /\ asked[h] \in Int /\ failed[h] \in Int
  BY <1>1 DEF CoveredInv, DiscoveryInv, TypeOK
<1>3. /\ {MaxTtl, AbsentTtl, MinTtl, FailedTtl, MaxLag} \subseteq Nat
      /\ FailedTtl <= AbsentTtl
  BY DiscoveryAssumption
<1>4. CASE asked[h] = Never /\ failed[h] = Never
  BY <1>2, <1>3, <1>4 DEF Never
<1>5. CASE /\ cache[h] # None
           /\ cache[h].until >= asked[h] + FailedTtl
           /\ \/ failed[h] >= asked[h] - MaxLag
              \/ cache[h].until >= asked[h] + MinTtl
  <2>1. cache[h].until \in Int /\ now > cache[h].until
    BY <1>1, <1>2, <1>5 DEF Hit, DiscoveryInv, TypeOK, Entry
  <2>. QED  BY <1>2, <1>3, <1>5, <2>1
<1>. QED  BY <1>2, <1>4, <1>5 DEF Covered, Alone

LEMMA SpacedInduction == Spec => []SpacedInv
<1>1. Init => CoveredInv /\ FailuresNoted
  <2>1. Never \in Int /\ Never < 0
    BY DiscoveryAssumption DEF Never
  <2>. QED  BY <2>1 DEF Init, CoveredInv, Covered, FailuresNoted
<1>2. ASSUME DiscoveryInv, DiscoveryInv', CoveredInv, FailuresNoted, [Next]_vars
      PROVE  CoveredInv' /\ FailuresNoted'
  BY <1>2, CoveredStep, FailuresStep DEF DiscoveryInv
<1>. QED  BY <1>1, <1>2, DiscoveryInduction, PTL DEF Spec, SpacedInv

-----------------------------------------------------------------------------
(* The types of the discovery cache, its calls and the histories           *)
(* (src/federation/federation.go).                                         *)
THEOREM TypeCorrect == Spec => []TypeOK
<1>1. DiscoveryInv => TypeOK
  BY DEF DiscoveryInv
<1>. QED  BY <1>1, DiscoveryInduction, PTL

(* However many calls overlap and whatever hosts and DNS say meanwhile, a  *)
(* URL served from the cache follows from what they said no longer ago     *)
(* than its lifetime and one call (src/federation/federation.go:80).       *)
THEOREM CacheJustified == Spec => []UsableIsJustified
<1>1. ASSUME DiscoveryInv PROVE UsableIsJustified
  <2>. SUFFICES ASSUME NEW h \in Asked, Hit(h), ~ IsLiteral(h, cache[h])
                PROVE  /\ Form[h] = "name"
                       /\ \E r \in Response :
                            FollowsFrom(h, cache[h], r,
                                        now - Lifetime(r) - MaxLag)
    BY DEF UsableIsJustified
  <2>1. /\ cache[h] \in Entry /\ now <= cache[h].until /\ now \in Nat
        /\ MaxLag \in Nat /\ EntryInv(h, cache[h])
    BY <1>1, DiscoveryAssumption DEF DiscoveryInv, CacheInv, Hit, TypeOK
  <2>2. PICK r \in Response, b \in Int :
          /\ FollowsFrom(h, cache[h], r, b)
          /\ cache[h].until <= b + MaxLag + Lifetime(r)
    BY <2>1 DEF EntryInv
  <2>3. Lifetime(r) \in Int /\ cache[h].until \in Int
    BY <2>1, LifetimeTyped DEF Entry
  <2>4. Form[h] = "name" /\ h \in Asked \cap Name
    BY <2>1, DiscoveryAssumption DEF EntryInv, Name
  <2>5. PICK c \in Int : c = now - Lifetime(r) - MaxLag
    BY <2>1, <2>3
  <2>6. c <= b
    BY <2>1, <2>2, <2>3, <2>5
  <2>7. \A q \in Query, a \in SrvAnswer :
          srvAt[q][a] >= b => srvAt[q][a] >= c
    BY <1>1, <2>6 DEF DiscoveryInv, TypeOK
  <2>8. wkAt[h][r] >= c
    BY <1>1, <2>2, <2>4, <2>6 DEF DiscoveryInv, TypeOK, FollowsFrom
  <2>9. ASSUME NEW host \in Name, FromSrv(host, cache[h], b)
        PROVE  FromSrv(host, cache[h], c)
    <3>1. /\ <<"matrix-fed", host>> \in Query /\ <<"matrix", host>> \in Query
          /\ NoRecords \in SrvAnswer /\ Target \subseteq SrvAnswer
      BY DEF Query, SrvAnswer
    <3>. QED  BY <2>7, <2>9, <3>1 DEF FromSrv
  <2>10. Form[r.addr] = "name" => r.addr \in Name
    BY ResponseFields DEF Name
  <2>11. FollowsFrom(h, cache[h], r, c)
    BY <2>2, <2>4, <2>8, <2>9, <2>10 DEF FollowsFrom
  <2>. QED  BY <2>4, <2>5, <2>11
<1>. QED  BY <1>1, DiscoveryInduction, PTL
-----------------------------------------------------------------------------

(* However many calls overlap, whatever hosts and DNS say and whatever     *)
(* max-age a host asks for: a probe that no other overlaps comes after the *)
(* failed lifetime, and after the minimal one unless a probe failed        *)
(* (src/federation/federation.go:99, discoveryMinTtl).                     *)
THEOREM HostsAreSpared == Spec => ProbesAreSpaced
<1>1. ASSUME SpacedInv, [Next]_vars
      PROVE  [\A p \in Proc, h \in Asked :
                frame[p] = None /\ frame'[p] # None /\ frame'[p].host = h /\ Alone(h)
                  => /\ now > asked[h] + FailedTtl
                     /\ failed[h] < asked[h] - MaxLag => now > asked[h] + MinTtl]_vars
  <2>. SUFFICES ASSUME NEW p \in Proc, NEW h \in Asked, frame[p] = None,
                       frame'[p] # None, frame'[p].host = h, Alone(h)
                PROVE  /\ now > asked[h] + FailedTtl
                       /\ failed[h] < asked[h] - MaxLag => now > asked[h] + MinTtl
    OBVIOUS
  <2>1. TypeOK
    BY <1>1 DEF SpacedInv, DiscoveryInv
  <2>2. ASSUME frame' = frame PROVE FALSE
    BY <2>2
  <2>3. ASSUME NEW o \in Proc, frame[o] # None,
               frame'[p] = frame[p] \/ o = p
        PROVE  FALSE
    BY <2>3
  <2>4. ASSUME NEW o \in Proc, Call(o)
        PROVE  \E g \in Asked : Begin(o, g) /\ o = p
    BY <2>1, <2>4 DEF Call, UseCached, UseLiteral, Begin, Probe, UseSrv,
       TryDeprecated, UseHost, Return, Goto, vars, TypeOK
  <2>5. PICK g \in Asked : Begin(p, g)
    BY <1>1, <2>4 DEF Next, WellKnownChanges, SrvChanges, Tick, vars
  <2>6. g = h
    BY <2>1, <2>5 DEF Begin, TypeOK
  <2>. QED  BY <1>1, <2>5, <2>6, BeginsLate DEF SpacedInv
<1>. QED  BY <1>1, SpacedInduction, PTL DEF Spec, ProbesAreSpaced
=============================================================================
