------------------------------- MODULE Certs -------------------------------
(***************************************************************************)
(* The HTTP filter's certificate cache (internal/httpfilter/server.go and  *)
(* internal/cert): each intercepted CONNECT takes a certificate for its    *)
(* host from the cache or signs a new one, the cache is cut back before a  *)
(* new one is stored, and a cleanup goroutine drops expired ones. Nothing  *)
(* locks the cache across these steps: it is a sync.Map, and every load,   *)
(* scan, delete and store is a step of its own here.                       *)
(*                                                                         *)
(* Time is a small clock; a certificate signed at t is good until          *)
(* t + CertLife. Key pairs, serial numbers and PEM are left out.           *)
(***************************************************************************)
EXTENDS Naturals, FiniteSets

CONSTANTS
    CertHosts,      \* hosts CONNECT may name
    Handshakes,     \* intercepted connections (at most http.max_connections)
    MaxCerts,       \* maxCertCacheSize
    Share,          \* one Share-th of the cache is evicted (10 in the code)
    CertLife,       \* how long a certificate is good
    Pace,           \* how far the clock moves at a time
    MaxClock        \* bound on the clock

\* What the constants must be.
CertsAssumption ==
    /\ IsFiniteSet(CertHosts) /\ IsFiniteSet(Handshakes)
    /\ MaxCerts \in Nat \ {0} /\ Share \in Nat \ {0}
    /\ CertLife \in Nat \ {0} /\ Pace \in Nat \ {0} /\ MaxClock \in Nat

VARIABLES
    certs,      \* certCache: a function on the hosts that have an entry
    shake,      \* generateCertForHost of each handshake
    sweeping,   \* cleanExpiredCerts: the keys it found expired, {} between runs
    clock

certVars == <<certs, shake, sweeping, clock>>

Cert(h, t) == [name |-> h, until |-> t + CertLife]
Entry(c, t) == [cert |-> c, used |-> t]
NoShake == [pc |-> "idle"]
Cached == DOMAIN certs
Without(hosts) == [h \in Cached \ hosts |-> certs[h]]
Fresh(c, t) == c.until > t

CertsInit ==
    /\ certs = [h \in {} |-> 0]
    /\ shake = [s \in Handshakes |-> NoShake]
    /\ sweeping = {}
    /\ clock = 0

\* MUTANT of LoadCert: an expired certificate is handed out as well.
LoadCertUnchecked(s, h) ==
    /\ shake[s].pc = "idle"
    /\ IF h \in Cached
         THEN /\ certs' = [certs EXCEPT ![h].used = clock]
              /\ shake' = [shake EXCEPT ![s] =
                             [pc |-> "ready", host |-> h, at |-> clock, cert |-> certs[h].cert]]
         ELSE /\ shake' = [shake EXCEPT ![s] = [pc |-> "sign", host |-> h, at |-> clock]]
              /\ UNCHANGED certs
    /\ UNCHANGED <<sweeping, clock>>

\* generateCertForHost looks its host up: a certificate that is still good is
\* marked as used and handed out, an expired one is to be dropped.
LoadCert(s, h) ==
    /\ shake[s].pc = "idle"
    /\ IF h \in Cached /\ Fresh(certs[h].cert, clock)
         THEN /\ certs' = [certs EXCEPT ![h].used = clock]
              /\ shake' = [shake EXCEPT ![s] =
                             [pc |-> "ready", host |-> h, at |-> clock, cert |-> certs[h].cert]]
         ELSE /\ shake' = [shake EXCEPT ![s] =
                             [pc |-> IF h \in Cached THEN "drop" ELSE "sign",
                              host |-> h, at |-> clock]]
              /\ UNCHANGED certs
    /\ UNCHANGED <<sweeping, clock>>

DropExpired(s) ==
    /\ shake[s].pc = "drop"
    /\ certs' = Without({shake[s].host})
    /\ shake' = [shake EXCEPT ![s].pc = "sign"]
    /\ UNCHANGED <<sweeping, clock>>

\* SignHostCert, good from now.
SignHostCert(s) ==
    /\ shake[s].pc = "sign"
    /\ shake' = [shake EXCEPT ![s] =
                   [pc |-> "scan", host |-> shake[s].host, at |-> shake[s].at,
                    cert |-> Cert(shake[s].host, clock)]]
    /\ UNCHANGED <<certs, sweeping, clock>>

\* How many entries go when the cache has n: a share of it, and at least one.
EvictCount(n) == IF n \div Share >= 1 THEN n \div Share ELSE 1

\* The least recently used n entries; which of two used at one time goes first
\* is not determined.
Oldest(n) ==
    {v \in SUBSET Cached :
       /\ Cardinality(v) = n
       /\ \A h \in v, k \in Cached \ v : certs[h].used <= certs[k].used}

\* evictOldestIfNeeded scans the cache ...
ScanForEviction(s) ==
    /\ shake[s].pc = "scan"
    /\ LET n == Cardinality(Cached)
       IN  \E v \in IF n < MaxCerts THEN {{}} ELSE Oldest(EvictCount(n)) :
             shake' = [shake EXCEPT ![s] =
                         [pc |-> "evict", host |-> shake[s].host, at |-> shake[s].at,
                          cert |-> shake[s].cert, victims |-> v]]
    /\ UNCHANGED <<certs, sweeping, clock>>

\* ... and deletes what it chose.
Evict(s) ==
    /\ shake[s].pc = "evict"
    /\ certs' = Without(shake[s].victims)
    /\ shake' = [shake EXCEPT ![s] =
                   [pc |-> "store", host |-> shake[s].host, at |-> shake[s].at,
                    cert |-> shake[s].cert]]
    /\ UNCHANGED <<sweeping, clock>>

\* The new entry counts as used when its handshake began.
StoreCert(s) ==
    /\ shake[s].pc = "store"
    /\ certs' = [h \in Cached \cup {shake[s].host} |->
                   IF h = shake[s].host THEN Entry(shake[s].cert, shake[s].at)
                                        ELSE certs[h]]
    /\ shake' = [shake EXCEPT ![s].pc = "ready"]
    /\ UNCHANGED <<sweeping, clock>>

\* The TLS handshake goes on with the certificate.
Handshake(s) ==
    /\ shake[s].pc = "ready"
    /\ shake' = [shake EXCEPT ![s] = NoShake]
    /\ UNCHANGED <<certs, sweeping, clock>>

\* cleanExpiredCerts collects the expired keys ...
FindExpired ==
    /\ sweeping = {}
    /\ sweeping' = {h \in Cached : certs[h].cert.until < clock}
    /\ sweeping' # {}
    /\ UNCHANGED <<certs, shake, clock>>

\* ... and deletes them, whatever has been stored under them since.
DeleteExpired ==
    /\ sweeping # {}
    /\ certs' = Without(sweeping)
    /\ sweeping' = {}
    /\ UNCHANGED <<shake, clock>>

CertTick ==
    /\ clock + Pace <= MaxClock /\ clock' = clock + Pace
    /\ UNCHANGED <<certs, shake, sweeping>>

CertsNext ==
    \/ \E s \in Handshakes :
         \/ \E h \in CertHosts : LoadCert(s, h)
         \/ DropExpired(s) \/ SignHostCert(s) \/ ScanForEviction(s)
         \/ Evict(s) \/ StoreCert(s) \/ Handshake(s)
    \/ FindExpired \/ DeleteExpired \/ CertTick

-----------------------------------------------------------------------------
(* Properties.                                                             *)

\* A handshake is given a certificate for the host its CONNECT named, still
\* good when it was asked for, whatever other handshakes and the cleanup did
\* to the cache meanwhile (generateCertForHost).
CertServes ==
    \A s \in Handshakes : shake[s].pc = "ready" =>
        /\ shake[s].cert.name = shake[s].host
        /\ Fresh(shake[s].cert, shake[s].at)

\* The cache stays bounded ("maxCertCacheSize limits the certificate cache to
\* prevent unbounded memory growth"). Scan, eviction and store are not one
\* step, so n handshakes at once may each miss the others' entries and evict
\* the same ones: the bound is not MaxCerts but what makes a share of the
\* cache as large as the number of handshakes.
CertsBounded ==
    LET n     == Cardinality(Handshakes)
        level == IF MaxCerts > Share * n THEN MaxCerts ELSE Share * n
    IN  Cardinality(Cached) <= level - 1 + n

\* What generateCertForHost and its cache promise.
CertsSound == CertServes /\ CertsBounded
=============================================================================
