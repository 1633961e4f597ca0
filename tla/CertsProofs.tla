---------------------------- MODULE CertsProofs -----------------------------
(***************************************************************************)
(* Proofs about Certs, for any number of handshakes and hosts, any size of *)
(* the cache and any share: a handshake gets a certificate for its host,   *)
(* and the cache is bounded although scan, eviction and store are not one  *)
(* step.                                                                   *)
(***************************************************************************)
EXTENDS Certs, TLAPS, FiniteSetTheorems

CertsSpec == CertsInit /\ [][CertsNext]_certVars

CertOK == [name : CertHosts, until : Nat]
Signed == {"scan", "evict", "store", "ready"}

\* What generateCertForHost holds at each point.
Asked == [pc : {"drop", "sign"}, host : CertHosts, at : Nat]
Carrying == [pc : Signed \ {"evict"}, host : CertHosts, at : Nat, cert : CertOK]
Scanned == [pc : {"evict"}, host : CertHosts, at : Nat, cert : CertOK,
            victims : SUBSET CertHosts]
ShakeOK == UNION {{NoShake}, Asked, Carrying, Scanned}

CertsType ==
    /\ Cached \subseteq CertHosts
    /\ certs \in [Cached -> [cert : CertOK, used : Nat]]
    /\ shake \in [Handshakes -> ShakeOK]
    /\ sweeping \subseteq CertHosts
    /\ clock \in Nat

\* An entry is for the host it is stored under, and what a handshake carries is
\* for its host and outlives the moment it was asked for.
Named ==
    /\ \A h \in Cached : certs[h].cert.name = h
    /\ \A s \in Handshakes :
         /\ shake[s].pc # "idle" => shake[s].at <= clock
         /\ shake[s].pc \in Signed => /\ shake[s].cert.name = shake[s].host
                                      /\ shake[s].cert.until > shake[s].at

Evicting == {s \in Handshakes : shake[s].pc = "evict"}
Storing == {s \in Handshakes : shake[s].pc = "store"}
Gone(T) == UNION {shake[s].victims : s \in T}

Many == Cardinality(Handshakes)
Level == IF MaxCerts > Share * Many THEN MaxCerts ELSE Share * Many

\* The bound is not inductive: what matters is what the handshakes on their way
\* may still do.  Let any of those that have scanned delete and store, and all
\* that are about to store do so: the cache would still be within the bound.
Room ==
    \A T \in SUBSET Evicting :
        Cardinality(Cached \ Gone(T)) + Cardinality(T) + Cardinality(Storing)
            <= Level - 1 + Many

-----------------------------------------------------------------------------

\* The sets the bound counts are finite.
LEMMA Finite ==
  ASSUME CertsAssumption, CertsType
  PROVE  /\ Many \in Nat /\ Level \in Nat
         /\ IsFiniteSet(Cached) /\ Cardinality(Cached) \in Nat
         /\ \A C \in SUBSET Cached : IsFiniteSet(C) /\ Cardinality(C) \in Nat
                                     /\ Cardinality(C) <= Cardinality(Cached)
         /\ \A T \in SUBSET Handshakes : IsFiniteSet(T) /\ Cardinality(T) \in Nat
                                         /\ Cardinality(T) <= Many
<1>1. Many \in Nat BY FS_CardinalityType DEF CertsAssumption, Many
<1>2. Share * Many \in Nat BY <1>1 DEF CertsAssumption
<1>3. Level \in Nat BY <1>2 DEF Level, CertsAssumption
<1>4. IsFiniteSet(Cached) BY FS_Subset DEF CertsAssumption, CertsType
<1>5. \A C \in SUBSET Cached : IsFiniteSet(C) /\ Cardinality(C) \in Nat
                               /\ Cardinality(C) <= Cardinality(Cached)
  BY <1>4, FS_Subset, FS_CardinalityType
<1>6. \A T \in SUBSET Handshakes : IsFiniteSet(T) /\ Cardinality(T) \in Nat
                                   /\ Cardinality(T) <= Many
  BY FS_Subset, FS_CardinalityType DEF CertsAssumption, Many
<1> QED BY <1>1, <1>3, <1>4, <1>5, <1>6, FS_CardinalityType

\* A share of a cache of Share times as many entries is as many.
LEMMA ShareOfMany ==
  ASSUME NEW m \in Nat, NEW k \in Nat \ {0}, NEW n \in Nat, m >= k * n
  PROVE  m \div k >= n
<1> DEFINE q == m \div k
<1>1. q \in Int /\ m < k * q + k /\ k * q <= m OBVIOUS
<1>2. SUFFICES ASSUME q + 1 <= n PROVE FALSE BY <1>1
<1>3. k * (q + 1) <= k * n BY <1>1, <1>2
<1> QED BY <1>1, <1>3

\* Whatever takes entries out of the cache and moves no handshake to or from
\* eviction or storing leaves the bound alone.
LEMMA RoomShrinks ==
  ASSUME CertsAssumption, CertsType, Room,
         Cached' \subseteq Cached, Evicting' = Evicting, Storing' = Storing,
         \A s \in Evicting : shake'[s] = shake[s]
  PROVE  Room'
<1> SUFFICES ASSUME NEW T \in SUBSET Evicting
             PROVE  Cardinality(Cached' \ Gone(T)') + Cardinality(T) + Cardinality(Storing)
                      <= Level - 1 + Many
  BY DEF Room, Level, Many
<1>1. Gone(T)' = Gone(T) BY DEF Gone
<1>2. Cached' \ Gone(T)' \subseteq Cached \ Gone(T) BY <1>1
<1>3. IsFiniteSet(Cached \ Gone(T)) /\ Cardinality(Cached \ Gone(T)) \in Nat
  BY Finite
<1>4. /\ Cardinality(Cached' \ Gone(T)') \in Nat
      /\ Cardinality(Cached' \ Gone(T)') <= Cardinality(Cached \ Gone(T))
  BY <1>2, <1>3, FS_Subset, FS_CardinalityType
<1>5. T \in SUBSET Handshakes /\ Storing \in SUBSET Handshakes BY DEF Evicting, Storing
<1>6. Cardinality(T) \in Nat /\ Cardinality(Storing) \in Nat BY <1>5, Finite
<1> QED BY <1>3, <1>4, <1>6, Finite DEF Room

\* A store uses the room its handshake held.
LEMMA RoomStores ==
  ASSUME CertsAssumption, CertsType, Room, NEW s \in Storing, NEW h,
         Cached' = Cached \cup {h}, Evicting' = Evicting, Storing' = Storing \ {s},
         \A r \in Evicting : shake'[r] = shake[r]
  PROVE  Room'
<1> SUFFICES ASSUME NEW T \in SUBSET Evicting
             PROVE  Cardinality(Cached' \ Gone(T)') + Cardinality(T) + Cardinality(Storing')
                      <= Level - 1 + Many
  BY DEF Room, Level, Many
<1> DEFINE C == Cached \ Gone(T)
<1>1. Gone(T)' = Gone(T) BY DEF Gone
<1>2. Cached' \ Gone(T)' \subseteq C \cup {h} BY <1>1
<1>3. IsFiniteSet(C) /\ Cardinality(C) \in Nat BY Finite
<1>4. IsFiniteSet(C \cup {h}) /\ Cardinality(C \cup {h}) \in Nat
      /\ Cardinality(C \cup {h}) <= Cardinality(C) + 1
  <2>1. /\ IsFiniteSet(C \cup {h})
        /\ Cardinality(C \cup {h}) = IF h \in C THEN Cardinality(C) ELSE Cardinality(C) + 1
    BY <1>3, FS_AddElement
  <2> HIDE DEF C
  <2> QED BY <1>3, <2>1
<1>5. /\ Cardinality(Cached' \ Gone(T)') \in Nat
      /\ Cardinality(Cached' \ Gone(T)') <= Cardinality(C) + 1
  <2>1. /\ IsFiniteSet(Cached' \ Gone(T)')
        /\ Cardinality(Cached' \ Gone(T)') <= Cardinality(C \cup {h})
    BY <1>2, <1>4, FS_Subset
  <2> QED BY <1>3, <1>4, <2>1, FS_CardinalityType
<1>6. T \in SUBSET Handshakes /\ Storing \in SUBSET Handshakes BY DEF Evicting, Storing
<1>7. Cardinality(T) \in Nat /\ IsFiniteSet(Storing) /\ Cardinality(Storing) \in Nat
  BY <1>6, Finite
<1>8. Cardinality(Storing') = Cardinality(Storing) - 1 BY <1>7, FS_RemoveElement
<1>9. Cardinality(C) + Cardinality(T) + Cardinality(Storing) <= Level - 1 + Many
  BY DEF Room
<1> QED BY <1>3, <1>5, <1>7, <1>8, <1>9, Finite

\* An eviction is what Room allowed for.
LEMMA RoomEvicts ==
  ASSUME CertsAssumption, CertsType, Room, NEW s \in Evicting,
         Cached' = Cached \ shake[s].victims,
         Evicting' = Evicting \ {s}, Storing' = Storing \cup {s},
         \A r \in Evicting \ {s} : shake'[r] = shake[r]
  PROVE  Room'
<1> SUFFICES ASSUME NEW T \in SUBSET (Evicting \ {s})
             PROVE  Cardinality(Cached' \ Gone(T)') + Cardinality(T) + Cardinality(Storing')
                      <= Level - 1 + Many
  BY DEF Room, Level, Many
<1> DEFINE U == T \cup {s}
<1>1. U \in SUBSET Evicting OBVIOUS
<1>2. Cached' \ Gone(T)' = Cached \ Gone(U) BY DEF Gone
<1>3. Cardinality(Cached \ Gone(U)) + Cardinality(U) + Cardinality(Storing)
        <= Level - 1 + Many
  BY <1>1 DEF Room
<1>4. T \in SUBSET Handshakes /\ Storing \in SUBSET Handshakes /\ s \notin Storing
  BY DEF Evicting, Storing
<1>5. /\ IsFiniteSet(T) /\ Cardinality(T) \in Nat
      /\ IsFiniteSet(Storing) /\ Cardinality(Storing) \in Nat
  BY <1>4, Finite
<1>6. Cardinality(U) = Cardinality(T) + 1 BY <1>5, FS_AddElement
<1>7. Cardinality(Storing') = Cardinality(Storing) + 1 BY <1>4, <1>5, FS_AddElement
<1>8. Cardinality(Cached \ Gone(U)) \in Nat BY Finite
<1>9. Cardinality(Cached \ Gone(U)) + Cardinality(T) + (Cardinality(Storing) + 1)
        <= Level - 1 + Many
  <2>1. Level \in Nat /\ Many \in Nat BY Finite
  <2> QED BY <1>3, <1>5, <1>6, <1>8, <2>1
<1> QED BY <1>2, <1>7, <1>9

\* A scan finds the cache below the level, where every handshake has room for
\* one entry more, or chooses at least as many victims as there are handshakes.
LEMMA RoomScans ==
  ASSUME CertsAssumption, CertsType, Room, NEW s \in Handshakes, NEW v \in SUBSET Cached,
         s \notin Evicting, s \notin Storing,
         Cardinality(Cached) < MaxCerts \/ Cardinality(v) = EvictCount(Cardinality(Cached)),
         UNCHANGED certs, Evicting' = Evicting \cup {s}, Storing' = Storing,
         shake'[s].victims = v, \A r \in Evicting : shake'[r] = shake[r]
  PROVE  Room'
<1> DEFINE m == Cardinality(Cached)
<1>0. Cached' = Cached BY DEF Cached
<1> SUFFICES ASSUME NEW T \in SUBSET (Evicting \cup {s})
             PROVE  Cardinality(Cached \ Gone(T)') + Cardinality(T) + Cardinality(Storing)
                      <= Level - 1 + Many
  BY <1>0 DEF Room, Level, Many
<1>1. m \in Nat /\ IsFiniteSet(Cached) /\ Level \in Nat /\ Many \in Nat BY Finite
<1>2. CASE s \notin T
  <2>1. T \in SUBSET Evicting BY <1>2
  <2>2. Gone(T)' = Gone(T) BY <2>1 DEF Gone
  <2> QED BY <2>1, <2>2 DEF Room
<1>3. CASE s \in T
  <2> DEFINE R == Cached \ Gone(T)'
             W == T \cup Storing
  <2>1. T \in SUBSET Handshakes /\ Storing \in SUBSET Handshakes /\ T \cap Storing = {}
    BY DEF Evicting, Storing
  <2>2. /\ IsFiniteSet(T) /\ Cardinality(T) \in Nat /\ Cardinality(T) <= Many
        /\ IsFiniteSet(Storing) /\ Cardinality(Storing) \in Nat
    BY <2>1, Finite
  <2>3. Cardinality(T) + Cardinality(Storing) <= Many
    <3>1. Cardinality(W) = Cardinality(T) + Cardinality(Storing)
      <4>1. Cardinality(W) = Cardinality(T) + Cardinality(Storing) - Cardinality(T \cap Storing)
        BY <2>2, FS_Union
      <4>2. Cardinality(T \cap Storing) = 0 BY <2>1, FS_EmptySet
      <4> QED BY <2>2, <4>1, <4>2
    <3>2. Cardinality(W) <= Many BY <2>1, Finite
    <3> QED BY <3>1, <3>2
  <2>4. R \subseteq Cached \ v BY <1>3 DEF Gone
  <2>5. IsFiniteSet(v) /\ Cardinality(v) \in Nat /\ Cardinality(Cached \ v) \in Nat BY Finite
  <2>6. Cardinality(Cached \ v) = m - Cardinality(v)
    <3>1. (Cached \ v) \cup v = Cached /\ (Cached \ v) \cap v = {} OBVIOUS
    <3>2. IsFiniteSet(Cached \ v) BY Finite
    <3>3. m = Cardinality(Cached \ v) + Cardinality(v) - Cardinality((Cached \ v) \cap v)
      BY <2>5, <3>1, <3>2, FS_Union
    <3>4. Cardinality((Cached \ v) \cap v) = 0 BY <3>1, FS_EmptySet
    <3> HIDE DEF m
    <3> QED BY <1>1, <2>5, <3>3, <3>4
  <2>7. Cardinality(R) \in Nat /\ Cardinality(R) <= m - Cardinality(v)
    <3>1. IsFiniteSet(Cached \ v) BY Finite
    <3>2. IsFiniteSet(R) /\ Cardinality(R) <= Cardinality(Cached \ v)
      BY <2>4, <3>1, FS_Subset
    <3> QED BY <2>6, <3>2, FS_CardinalityType
  <2>8. CASE m < Level
    <3> QED BY <1>1, <2>2, <2>3, <2>5, <2>7, <2>8
  <2>9. CASE m >= Level
    <3>1. m >= MaxCerts /\ m >= Share * Many
      <4>1. Share * Many \in Nat BY <1>1 DEF CertsAssumption
      <4> HIDE DEF m
      <4> QED BY <1>1, <2>9, <4>1 DEF Level, CertsAssumption
    <3>2. m \div Share >= Many
      <4> HIDE DEF m
      <4> QED BY <1>1, <3>1, ShareOfMany DEF CertsAssumption
    <3>3. Cardinality(v) = EvictCount(m)
      <4>1. ~(m < MaxCerts) BY <1>1, <3>1 DEF CertsAssumption
      <4> QED BY <4>1
    <3>4. Cardinality(v) >= Many
      <4>1. m \div Share \in Int
        <5> HIDE DEF m
        <5> QED BY <1>1 DEF CertsAssumption
      <4>2. EvictCount(m) >= m \div Share
        <5> DEFINE q == m \div Share
        <5>1. q \in Int BY <4>1
        <5>2. EvictCount(m) = IF q >= 1 THEN q ELSE 1 BY DEF EvictCount
        <5>3. q >= q BY <5>1
        <5>4. q >= 1 \/ 1 >= q BY <5>1
        <5> QED BY <5>2, <5>3, <5>4
      <4> QED BY <1>1, <2>5, <3>2, <3>3, <4>1, <4>2
    <3>5. m + Cardinality(Storing) <= Level - 1 + Many
      <4>1. {} \in SUBSET Evicting /\ Gone({}) = {} BY DEF Gone
      <4>2. Cardinality(Cached \ {}) + Cardinality({}) + Cardinality(Storing)
              <= Level - 1 + Many
        BY <4>1 DEF Room
      <4>3. Cached \ {} = Cached /\ Cardinality({}) = 0 BY FS_EmptySet
      <4> QED BY <4>2, <4>3, <1>1, <2>2
    <3> QED BY <1>1, <2>2, <2>5, <2>7, <3>4, <3>5
  <2> QED BY <1>1, <2>8, <2>9
<1> QED BY <1>2, <1>3

-----------------------------------------------------------------------------
\* What a handshake holds follows from where it is.
LEMMA Shapes ==
  ASSUME CertsType, NEW s \in Handshakes
  PROVE  /\ shake[s].pc \in {"drop", "sign"} => shake[s] \in Asked
         /\ shake[s].pc \in Signed \ {"evict"} => shake[s] \in Carrying
         /\ shake[s].pc = "evict" => shake[s] \in Scanned
BY DEF CertsType, ShakeOK, NoShake, Asked, Carrying, Scanned, Signed

\* One handshake moves, to a well-formed state; the others do not.
LEMMA MovesType ==
  ASSUME CertsType, NEW s \in Handshakes, NEW r \in ShakeOK,
         shake' = [shake EXCEPT ![s] = r]
  PROVE  /\ shake' \in [Handshakes -> ShakeOK]
         /\ shake'[s] = r
         /\ \A t \in Handshakes \ {s} : shake'[t] = shake[t]
         /\ Evicting' = IF r.pc = "evict" THEN Evicting \cup {s} ELSE Evicting \ {s}
         /\ Storing' = IF r.pc = "store" THEN Storing \cup {s} ELSE Storing \ {s}
BY DEF CertsType, Evicting, Storing

\* Deleting keeps what is left as it was.
LEMMA DeletesType ==
  ASSUME CertsType, NEW hosts, certs' = Without(hosts)
  PROVE  /\ Cached' = Cached \ hosts
         /\ \A h \in Cached' : certs'[h] = certs[h]
         /\ Cached' \subseteq CertHosts
         /\ certs' \in [Cached' -> [cert : CertOK, used : Nat]]
BY DEF CertsType, Cached, Without

CertsIInv == CertsType /\ Named /\ Room

\* At the start there is no entry and no handshake under way.
LEMMA CertsInitial ==
  ASSUME CertsAssumption, CertsInit
  PROVE  CertsIInv
<1>1. Cached = {} BY DEF CertsInit, Cached
<1>2. CertsType BY <1>1 DEF CertsInit, CertsType, ShakeOK, NoShake
<1>3. Named BY <1>1 DEF CertsInit, Named, NoShake, Signed
<1>4. Room
  <2>1. Evicting = {} /\ Storing = {} BY DEF CertsInit, Evicting, Storing, NoShake
  <2>2. SUFFICES ASSUME NEW T \in SUBSET Evicting
                 PROVE  Cardinality(Cached \ Gone(T)) + Cardinality(T) + Cardinality(Storing)
                          <= Level - 1 + Many
    BY DEF Room
  <2>3. Cached \ Gone(T) = {} /\ T = {} /\ Storing = {} BY <1>1, <2>1
  <2>4. Cardinality({}) = 0 BY FS_EmptySet
  <2>5. Level \in Nat /\ Many \in Nat /\ Level >= 1
    <3>1. Level \in Nat /\ Many \in Nat BY <1>2, Finite
    <3>2. Share * Many \in Nat BY <3>1 DEF CertsAssumption
    <3> QED BY <3>1, <3>2 DEF Level, CertsAssumption
  <2> QED BY <2>3, <2>4, <2>5
<1> QED BY <1>2, <1>3, <1>4 DEF CertsIInv

\* Every step keeps the invariant.
LEMMA CertsStep ==
  ASSUME CertsAssumption, CertsIInv, [CertsNext]_certVars
  PROVE  CertsIInv'
<1> USE DEF CertsIInv
<1>1. ASSUME NEW s \in Handshakes, NEW h \in CertHosts, LoadCert(s, h) PROVE CertsIInv'
  <2>1. s \notin Evicting /\ s \notin Storing BY <1>1 DEF LoadCert, Evicting, Storing
  <2>2. CASE h \in Cached /\ Fresh(certs[h].cert, clock)
    <3> DEFINE r == [pc |-> "ready", host |-> h, at |-> clock, cert |-> certs[h].cert]
    <3>1. /\ certs[h].cert \in CertOK /\ certs[h].cert.name = h
          /\ certs[h].cert.until > clock
      BY <2>2 DEF CertsType, Named, Fresh
    <3>2. r \in ShakeOK BY <3>1 DEF CertsType, ShakeOK, Carrying, Signed
    <3>3. /\ shake' = [shake EXCEPT ![s] = r] /\ UNCHANGED <<sweeping, clock>>
          /\ certs' = [certs EXCEPT ![h].used = clock]
      BY <1>1, <2>2 DEF LoadCert
    <3> HIDE DEF r
    <3>4. /\ shake' \in [Handshakes -> ShakeOK] /\ shake'[s] = r
          /\ \A t \in Handshakes \ {s} : shake'[t] = shake[t]
          /\ Evicting' = IF r.pc = "evict" THEN Evicting \cup {s} ELSE Evicting \ {s}
          /\ Storing' = IF r.pc = "store" THEN Storing \cup {s} ELSE Storing \ {s}
      BY <3>2, <3>3, MovesType
    <3>5. /\ r.pc = "ready" /\ r.host = h /\ r.at = clock
          /\ r.cert = certs[h].cert
      BY DEF r
    <3>6. /\ Cached' = Cached
          /\ certs' \in [Cached -> [cert : CertOK, used : Nat]]
          /\ \A k \in Cached : certs'[k].cert = certs[k].cert
      BY <3>3, <2>2 DEF CertsType, Cached
    <3>7. CertsType' BY <3>3, <3>4, <3>6 DEF CertsType
    <3>8. Named' BY <3>1, <3>3, <3>4, <3>5, <3>6 DEF Named, Signed, CertsType
    <3>9. Room'
      BY <2>1, <3>4, <3>5, <3>6, RoomShrinks DEF Evicting
    <3> QED BY <3>7, <3>8, <3>9
  <2>3. CASE ~(h \in Cached /\ Fresh(certs[h].cert, clock))
    <3> DEFINE r == [pc |-> IF h \in Cached THEN "drop" ELSE "sign", host |-> h, at |-> clock]
    <3>1. r \in ShakeOK BY DEF CertsType, ShakeOK, Asked
    <3>2. shake' = [shake EXCEPT ![s] = r] /\ UNCHANGED <<certs, sweeping, clock>>
      BY <1>1, <2>3 DEF LoadCert
    <3>3. r.pc \in {"drop", "sign"} /\ r.at = clock OBVIOUS
    <3> HIDE DEF r
    <3>4. /\ shake' \in [Handshakes -> ShakeOK] /\ shake'[s] = r
          /\ \A t \in Handshakes \ {s} : shake'[t] = shake[t]
          /\ Evicting' = IF r.pc = "evict" THEN Evicting \cup {s} ELSE Evicting \ {s}
          /\ Storing' = IF r.pc = "store" THEN Storing \cup {s} ELSE Storing \ {s}
      BY <3>1, <3>2, MovesType
    <3>5. Cached' = Cached BY <3>2 DEF Cached
    <3>6. CertsType' BY <3>2, <3>4, <3>5 DEF CertsType
    <3>7. Named' BY <3>2, <3>3, <3>4, <3>5 DEF Named, Signed, CertsType
    <3>8. Room' BY <2>1, <3>3, <3>4, <3>5, RoomShrinks DEF Evicting
    <3> QED BY <3>6, <3>7, <3>8
  <2> QED BY <2>2, <2>3
<1>2. ASSUME NEW s \in Handshakes, DropExpired(s) PROVE CertsIInv'
  <2> DEFINE r == [shake[s] EXCEPT !.pc = "sign"]
  <2>1. shake[s] \in Asked BY <1>2, Shapes DEF DropExpired
  <2>2. /\ r \in ShakeOK /\ r.pc = "sign" /\ r.at = shake[s].at
    BY <2>1 DEF ShakeOK, Asked
  <2>3. shake' = [shake EXCEPT ![s] = r] /\ UNCHANGED <<sweeping, clock>>
    BY <1>2 DEF DropExpired
  <2>4. certs' = Without({shake[s].host}) BY <1>2 DEF DropExpired
  <2>5. shake[s].pc = "drop" /\ s \notin Evicting /\ s \notin Storing
    BY <1>2 DEF DropExpired, Evicting, Storing
  <2> HIDE DEF r
  <2>6. /\ shake' \in [Handshakes -> ShakeOK] /\ shake'[s] = r
        /\ \A t \in Handshakes \ {s} : shake'[t] = shake[t]
        /\ Evicting' = IF r.pc = "evict" THEN Evicting \cup {s} ELSE Evicting \ {s}
        /\ Storing' = IF r.pc = "store" THEN Storing \cup {s} ELSE Storing \ {s}
    BY <2>2, <2>3, MovesType
  <2>7. /\ Cached' \subseteq Cached
        /\ \A h \in Cached' : certs'[h] = certs[h]
        /\ Cached' \subseteq CertHosts
        /\ certs' \in [Cached' -> [cert : CertOK, used : Nat]]
    BY <2>4, DeletesType
  <2>8. CertsType' BY <2>3, <2>6, <2>7 DEF CertsType
  <2>9. Named' BY <2>2, <2>3, <2>5, <2>6, <2>7 DEF Named, Signed
  <2>10. Room' BY <2>2, <2>5, <2>6, <2>7, RoomShrinks DEF Evicting
  <2> QED BY <2>8, <2>9, <2>10
<1>3. ASSUME NEW s \in Handshakes, SignHostCert(s) PROVE CertsIInv'
  <2> DEFINE r == [pc |-> "scan", host |-> shake[s].host, at |-> shake[s].at,
                   cert |-> Cert(shake[s].host, clock)]
  <2>1. shake[s] \in Asked BY <1>3, Shapes DEF SignHostCert
  <2>2. shake[s].at <= clock BY <1>3 DEF SignHostCert, Named
  <2>3. /\ r \in ShakeOK /\ r.pc = "scan" /\ r.at = shake[s].at /\ r.host = shake[s].host
        /\ r.cert.name = shake[s].host /\ r.cert.until = clock + CertLife
    BY <2>1 DEF ShakeOK, Asked, Carrying, Signed, Cert, CertOK, CertsType, CertsAssumption
  <2>4. /\ shake' = [shake EXCEPT ![s] = r] /\ UNCHANGED <<certs, sweeping, clock>>
        /\ s \notin Evicting /\ s \notin Storing
    BY <1>3 DEF SignHostCert, Evicting, Storing
  <2> HIDE DEF r
  <2>5. /\ shake' \in [Handshakes -> ShakeOK] /\ shake'[s] = r
        /\ \A t \in Handshakes \ {s} : shake'[t] = shake[t]
        /\ Evicting' = IF r.pc = "evict" THEN Evicting \cup {s} ELSE Evicting \ {s}
        /\ Storing' = IF r.pc = "store" THEN Storing \cup {s} ELSE Storing \ {s}
    BY <2>3, <2>4, MovesType
  <2>6. Cached' = Cached BY <2>4 DEF Cached
  <2>7. CertsType' BY <2>4, <2>5, <2>6 DEF CertsType
  <2>8. clock + CertLife > shake[s].at
    BY <2>1, <2>2 DEF Asked, CertsType, CertsAssumption
  <2>9. Named' BY <2>2, <2>3, <2>4, <2>5, <2>6, <2>8 DEF Named
  <2>10. Room' BY <2>3, <2>4, <2>5, <2>6, RoomShrinks DEF Evicting
  <2> QED BY <2>7, <2>9, <2>10
<1>4. ASSUME NEW s \in Handshakes, ScanForEviction(s) PROVE CertsIInv'
  <2> DEFINE n == Cardinality(Cached)
  <2>1. PICK v \in IF n < MaxCerts THEN {{}} ELSE Oldest(EvictCount(n)) :
               shake' = [shake EXCEPT ![s] =
                           [pc |-> "evict", host |-> shake[s].host, at |-> shake[s].at,
                            cert |-> shake[s].cert, victims |-> v]]
    BY <1>4 DEF ScanForEviction
  <2> DEFINE r == [pc |-> "evict", host |-> shake[s].host, at |-> shake[s].at,
                   cert |-> shake[s].cert, victims |-> v]
  <2>2. v \in SUBSET Cached /\ (n < MaxCerts \/ Cardinality(v) = EvictCount(n))
    BY DEF Oldest
  <2>3. shake[s] \in Carrying BY <1>4, Shapes DEF ScanForEviction, Signed
  <2>4. v \subseteq CertHosts BY <2>2 DEF CertsType
  <2>5. /\ r \in ShakeOK /\ r.pc = "evict" /\ r.at = shake[s].at /\ r.host = shake[s].host
        /\ r.cert = shake[s].cert /\ r.victims = v
    BY <2>3, <2>4 DEF ShakeOK, Carrying, Scanned
  <2>6. /\ shake' = [shake EXCEPT ![s] = r] /\ UNCHANGED <<certs, sweeping, clock>>
        /\ s \notin Evicting /\ s \notin Storing /\ shake[s].pc = "scan"
    BY <1>4, <2>1 DEF ScanForEviction, Evicting, Storing
  <2> HIDE DEF r
  <2>7. /\ shake' \in [Handshakes -> ShakeOK] /\ shake'[s] = r
        /\ \A t \in Handshakes \ {s} : shake'[t] = shake[t]
        /\ Evicting' = IF r.pc = "evict" THEN Evicting \cup {s} ELSE Evicting \ {s}
        /\ Storing' = IF r.pc = "store" THEN Storing \cup {s} ELSE Storing \ {s}
    BY <2>5, <2>6, MovesType
  <2>8. Cached' = Cached BY <2>6 DEF Cached
  <2>9. CertsType' BY <2>6, <2>7, <2>8 DEF CertsType
  <2>10. Named' BY <2>5, <2>6, <2>7, <2>8 DEF Named, Signed
  <2>11. Room'
    <3>1. /\ Evicting' = Evicting \cup {s} /\ Storing' = Storing /\ shake'[s].victims = v
          /\ \A t \in Evicting : shake'[t] = shake[t]
      BY <2>5, <2>6, <2>7 DEF Evicting
    <3> QED BY <2>2, <2>6, <3>1, RoomScans
  <2> QED BY <2>9, <2>10, <2>11
<1>5. ASSUME NEW s \in Handshakes, Evict(s) PROVE CertsIInv'
  <2> DEFINE r == [pc |-> "store", host |-> shake[s].host, at |-> shake[s].at,
                   cert |-> shake[s].cert]
  <2>1. shake[s] \in Scanned BY <1>5, Shapes DEF Evict
  <2>2. /\ r \in ShakeOK /\ r.pc = "store" /\ r.at = shake[s].at /\ r.host = shake[s].host
        /\ r.cert = shake[s].cert
    BY <2>1 DEF ShakeOK, Carrying, Scanned, Signed
  <2>3. /\ shake' = [shake EXCEPT ![s] = r] /\ UNCHANGED <<sweeping, clock>>
        /\ certs' = Without(shake[s].victims)
        /\ s \in Evicting /\ s \notin Storing /\ shake[s].pc = "evict"
    BY <1>5 DEF Evict, Evicting, Storing
  <2> HIDE DEF r
  <2>4. /\ shake' \in [Handshakes -> ShakeOK] /\ shake'[s] = r
        /\ \A t \in Handshakes \ {s} : shake'[t] = shake[t]
        /\ Evicting' = IF r.pc = "evict" THEN Evicting \cup {s} ELSE Evicting \ {s}
        /\ Storing' = IF r.pc = "store" THEN Storing \cup {s} ELSE Storing \ {s}
    BY <2>2, <2>3, MovesType
  <2>5. /\ Cached' = Cached \ shake[s].victims
        /\ \A h \in Cached' : certs'[h] = certs[h]
        /\ Cached' \subseteq CertHosts
        /\ certs' \in [Cached' -> [cert : CertOK, used : Nat]]
    BY <2>3, DeletesType
  <2>6. CertsType' BY <2>3, <2>4, <2>5 DEF CertsType
  <2>7. Named' BY <2>2, <2>3, <2>4, <2>5 DEF Named, Signed
  <2>8. Room' BY <2>2, <2>3, <2>4, <2>5, RoomEvicts DEF Evicting
  <2> QED BY <2>6, <2>7, <2>8
<1>6. ASSUME NEW s \in Handshakes, StoreCert(s) PROVE CertsIInv'
  <2> DEFINE r == [shake[s] EXCEPT !.pc = "ready"]
             k == shake[s].host
  <2>1. shake[s] \in Carrying BY <1>6, Shapes DEF StoreCert, Signed
  <2>2. /\ r \in ShakeOK /\ r.pc = "ready" /\ r.at = shake[s].at /\ r.host = shake[s].host
        /\ r.cert = shake[s].cert
    BY <2>1 DEF ShakeOK, Carrying, Signed
  <2>3. /\ shake' = [shake EXCEPT ![s] = r] /\ UNCHANGED <<sweeping, clock>>
        /\ s \notin Evicting /\ s \in Storing /\ shake[s].pc = "store"
    BY <1>6 DEF StoreCert, Evicting, Storing
  <2>4. certs' = [h \in Cached \cup {k} |-> IF h = k THEN Entry(shake[s].cert, shake[s].at)
                                                     ELSE certs[h]]
    BY <1>6 DEF StoreCert
  <2> HIDE DEF r
  <2>5. /\ shake' \in [Handshakes -> ShakeOK] /\ shake'[s] = r
        /\ \A t \in Handshakes \ {s} : shake'[t] = shake[t]
        /\ Evicting' = IF r.pc = "evict" THEN Evicting \cup {s} ELSE Evicting \ {s}
        /\ Storing' = IF r.pc = "store" THEN Storing \cup {s} ELSE Storing \ {s}
    BY <2>2, <2>3, MovesType
  <2>6. Cached' = Cached \cup {k} BY <2>4 DEF Cached
  <2>7. /\ k \in CertHosts /\ certs'[k] = [cert |-> shake[s].cert, used |-> shake[s].at]
        /\ shake[s].cert \in CertOK /\ shake[s].at \in Nat
    BY <2>1, <2>4 DEF Carrying, Entry
  <2>8. \A h \in Cached \ {k} : certs'[h] = certs[h] BY <2>4
  <2>9. certs' \in [Cached' -> [cert : CertOK, used : Nat]]
    BY <2>4, <2>6, <2>7 DEF CertsType, Entry
  <2>10. CertsType' BY <2>3, <2>5, <2>6, <2>7, <2>9 DEF CertsType
  <2>11. shake[s].cert.name = k BY <2>3 DEF Named, Signed
  <2>12. \A h \in Cached' : certs'[h].cert.name = h
    <3>1. certs'[k].cert.name = k BY <2>7, <2>11
    <3> QED BY <2>6, <2>8, <3>1 DEF Named
  <2>13. Named' BY <2>2, <2>3, <2>5, <2>12 DEF Named, Signed
  <2>14. Room' BY <2>2, <2>3, <2>5, <2>6, RoomStores DEF Evicting
  <2> QED BY <2>10, <2>13, <2>14
<1>7. ASSUME NEW s \in Handshakes, Handshake(s) PROVE CertsIInv'
  <2> DEFINE r == NoShake
  <2>1. r \in ShakeOK /\ r.pc = "idle" BY DEF ShakeOK, NoShake
  <2>2. /\ shake' = [shake EXCEPT ![s] = r] /\ UNCHANGED <<certs, sweeping, clock>>
        /\ s \notin Evicting /\ s \notin Storing
    BY <1>7 DEF Handshake, Evicting, Storing
  <2> HIDE DEF r
  <2>3. /\ shake' \in [Handshakes -> ShakeOK] /\ shake'[s] = r
        /\ \A t \in Handshakes \ {s} : shake'[t] = shake[t]
        /\ Evicting' = IF r.pc = "evict" THEN Evicting \cup {s} ELSE Evicting \ {s}
        /\ Storing' = IF r.pc = "store" THEN Storing \cup {s} ELSE Storing \ {s}
    BY <2>1, <2>2, MovesType
  <2>4. Cached' = Cached BY <2>2 DEF Cached
  <2>5. CertsType' BY <2>2, <2>3, <2>4 DEF CertsType
  <2>6. Named' BY <2>1, <2>2, <2>3, <2>4 DEF Named, Signed
  <2>7. Room' BY <2>1, <2>2, <2>3, <2>4, RoomShrinks DEF Evicting
  <2> QED BY <2>5, <2>6, <2>7
<1>8. CASE FindExpired
  <2>1. Cached' = Cached /\ Evicting' = Evicting /\ Storing' = Storing
    BY <1>8 DEF FindExpired, Cached, Evicting, Storing
  <2>2. CertsType' BY <1>8, <2>1 DEF FindExpired, CertsType
  <2>3. Named' BY <1>8, <2>1 DEF FindExpired, Named
  <2>4. Room' BY <1>8, <2>1, RoomShrinks DEF FindExpired
  <2> QED BY <2>2, <2>3, <2>4
<1>9. CASE DeleteExpired
  <2>1. certs' = Without(sweeping) /\ sweeping' = {} /\ UNCHANGED <<shake, clock>>
    BY <1>9 DEF DeleteExpired
  <2>2. /\ Cached' \subseteq Cached
        /\ \A h \in Cached' : certs'[h] = certs[h]
        /\ Cached' \subseteq CertHosts
        /\ certs' \in [Cached' -> [cert : CertOK, used : Nat]]
    BY <2>1, DeletesType
  <2>3. Evicting' = Evicting /\ Storing' = Storing BY <2>1 DEF Evicting, Storing
  <2>4. CertsType' BY <2>1, <2>2 DEF CertsType
  <2>5. Named' BY <2>1, <2>2 DEF Named
  <2>6. Room' BY <2>1, <2>2, <2>3, RoomShrinks
  <2> QED BY <2>4, <2>5, <2>6
<1>10. CASE CertTick
  <2>1. UNCHANGED <<certs, shake, sweeping>> /\ clock' = clock + Pace
    BY <1>10 DEF CertTick
  <2>2. Cached' = Cached /\ Evicting' = Evicting /\ Storing' = Storing
    BY <2>1 DEF Cached, Evicting, Storing
  <2>3. clock' \in Nat /\ clock <= clock' BY <2>1 DEF CertsType, CertsAssumption
  <2>4. CertsType' BY <2>1, <2>2, <2>3 DEF CertsType
  <2>5. \A s \in Handshakes : shake[s].pc # "idle" => shake[s].at \in Nat
    BY DEF CertsType, ShakeOK, NoShake, Asked, Carrying, Scanned
  <2>6. Named' BY <2>1, <2>2, <2>3, <2>5 DEF Named, CertsType
  <2>7. Room' BY <2>1, <2>2, RoomShrinks
  <2> QED BY <2>4, <2>6, <2>7
<1>11. CASE UNCHANGED certVars
  <2>1. UNCHANGED <<certs, shake, sweeping, clock>> BY <1>11 DEF certVars
  <2>2. Cached' = Cached /\ Evicting' = Evicting /\ Storing' = Storing
    BY <2>1 DEF Cached, Evicting, Storing
  <2>3. CertsType' /\ Named' BY <2>1, <2>2 DEF CertsType, Named
  <2>4. Room' BY <2>1, <2>2, RoomShrinks
  <2> QED BY <2>3, <2>4
<1> QED
  BY <1>1, <1>2, <1>3, <1>4, <1>5, <1>6, <1>7, <1>8, <1>9, <1>10, <1>11 DEF CertsNext

\* generateCertForHost gives a handshake a certificate for the host its CONNECT
\* named, still good when it was asked for, whatever other handshakes and the
\* cleanup do to the cache meanwhile.
THEOREM HandshakeServed ==
  ASSUME CertsAssumption
  PROVE  CertsSpec => []CertServes
<1>1. CertsIInv => CertServes
  BY DEF CertsIInv, Named, CertServes, Signed, Fresh
<1> QED BY CertsInitial, CertsStep, <1>1, PTL DEF CertsSpec

\* evictOldestIfNeeded keeps certCache bounded although it is not one step with
\* the store: for any number of handshakes at once, any share and any
\* maxCertCacheSize.
THEOREM CacheBounded ==
  ASSUME CertsAssumption
  PROVE  CertsSpec => []CertsBounded
<1>1. ASSUME CertsIInv PROVE CertsBounded
  <2> USE <1>1 DEF CertsIInv
  <2>1. {} \in SUBSET Evicting /\ Gone({}) = {} BY DEF Gone
  <2>2. Cardinality(Cached \ {}) + Cardinality({}) + Cardinality(Storing)
          <= Level - 1 + Many
    BY <2>1 DEF Room
  <2>3. Cached \ {} = Cached /\ Cardinality({}) = 0 BY FS_EmptySet
  <2>4. Storing \in SUBSET Handshakes BY DEF Storing
  <2>5. Cardinality(Cached) \in Nat /\ Cardinality(Storing) \in Nat /\ Level \in Nat /\ Many \in Nat
    BY <2>4, Finite
  <2>6. Cardinality(Cached) <= Level - 1 + Many BY <2>2, <2>3, <2>5
  <2> QED BY <2>6 DEF CertsBounded, Level, Many
<1> QED BY CertsInitial, CertsStep, <1>1, PTL DEF CertsSpec

\* Both promises of generateCertForHost and its cache.
THEOREM CertsCorrect ==
  ASSUME CertsAssumption
  PROVE  CertsSpec => []CertsSound
<1>1. CertsSound <=> CertServes /\ CertsBounded BY DEF CertsSound
<1> QED BY <1>1, HandshakeServed, CacheBounded, PTL
=============================================================================
