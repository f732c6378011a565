--------------------------- MODULE DiscoveryProps ---------------------------
(***************************************************************************)
(* What the URLs that GetServerApiUrl hands out must rest on.              *)
(***************************************************************************)
EXTENDS Discovery

TypeOK ==
  /\ now \in Nat
  /\ wk \in [Asked \cap Name -> Response]
  /\ srv \in [Query -> SrvAnswer]
  /\ cache \in [Asked -> Entry \cup {None}]
  /\ frame \in [Proc -> Frame \cup {None}]
  /\ changes \in Nat
  /\ wkAt \in [Asked \cap Name -> [Response -> Int]]
  /\ srvAt \in [Query -> [SrvAnswer -> Int]]
  /\ asked \in [Asked -> Int] /\ failed \in [Asked -> Int]

Delegates(r) == r.status = "ok" /\ Form[r.addr] # "junk"

(* The first directive of d that says something is d[i].                   *)
Leads(d, i) ==
  i \in DOMAIN d /\ d[i] # 0 /\ \A j \in DOMAIN d : j < i => d[j] = 0

(* How long a delegation with directives d may be relied on: for the      *)
(* max-age it asks for within the limits, for the least of them if it asks *)
(* not to be stored, for a day if it asks for nothing.                     *)
Granted(d) ==
  IF \E i \in DOMAIN d : Leads(d, i)
  THEN LET age == d[CHOOSE i \in DOMAIN d : Leads(d, i)]
       IN IF age > MaxTtl THEN MaxTtl ELSE IF age > MinTtl THEN age ELSE MinTtl
  ELSE ValidTtl

(* How long a response may be relied on                                    *)
(* (src/federation/federation.go:85-105, 305-308): a delegation for what   *)
(* it is granted, "there is none" for an hour, silence for minutes.  What  *)
(* is derived from a delegation, by SRV records too, lasts as long.        *)
Lifetime(r) ==
  IF Delegates(r) THEN Granted(r.cache)
  ELSE IF r.status = "gone" THEN AbsentTtl ELSE FailedTtl

(* Entry e is what host's records say, or the host itself if it has none,  *)
(* by what DNS has answered since time b.                                  *)
FromSrv(host, e, b) ==
  LET Says(service, a) == srvAt[<<service, host>>][a] >= b
  IN /\ e.name = host
     /\ \/ e.url \in Target /\ Says("matrix-fed", e.url)
        \/ /\ Says("matrix-fed", NoRecords)
           /\ \/ e.url \in Target /\ Says("matrix", e.url)
              \/ e.url = host /\ Says("matrix", NoRecords)

(* Entry e of host h follows from response r and what was said since b.    *)
FollowsFrom(h, e, r, b) ==
  /\ wkAt[h][r] >= b
  /\ IF Delegates(r)
     THEN \/ Form[r.addr] = "ip" /\ e.url = r.addr /\ e.name = r.addr
          \/ Form[r.addr] = "port" /\ e.url = r.addr /\ e.name = Bare[r.addr]
          \/ Form[r.addr] = "name" /\ FromSrv(r.addr, e, b)
     ELSE FromSrv(h, e, b)

(* An IP address or a host with a port is its own answer.                  *)
IsLiteral(h, e) ==
  \/ Form[h] = "ip" /\ e.url = h /\ e.name = h
  \/ Form[h] = "port" /\ e.url = h /\ e.name = Bare[h]

(* Whatever is served from the cache, also when calls for one name overlap *)
(* and the last to end replaces what the others found, follows from what   *)
(* the host and DNS said no longer ago than such a statement may be        *)
(* trusted, and the time a call takes; and the TLS name belongs to the URL.*)
(* (The comment at src/federation/federation.go:90-92 would give an hour   *)
(* to every URL that comes from SRV records, a delegated host's too; the   *)
(* code and lines 305-308 give that one the delegation's lifetime.)        *)
UsableIsJustified ==
  \A h \in Asked : Hit(h) =>
    \/ IsLiteral(h, cache[h])
    \/ /\ Form[h] = "name"
       /\ \E r \in Response :
            FollowsFrom(h, cache[h], r, now - Lifetime(r) - MaxLag)

(* No host makes this process probe it again and again: a probe that no    *)
(* other one overlaps comes later than the failed lifetime after the       *)
(* previous one, and later than the minimal lifetime unless a probe failed *)
(* meanwhile, whatever max-age the host asks for                           *)
(* (src/federation/federation.go:99, discoveryMinTtl).                     *)
Alone(h) == \A p \in Proc : frame[p] # None => frame[p].host # h

ProbesAreSpaced ==
  [][\A p \in Proc, h \in Asked :
       frame[p] = None /\ frame'[p] # None /\ frame'[p].host = h /\ Alone(h)
         => /\ now > asked[h] + FailedTtl
            /\ failed[h] < asked[h] - MaxLag => now > asked[h] + MinTtl]_vars
=============================================================================
