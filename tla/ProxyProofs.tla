----------------------------- MODULE ProxyProofs ----------------------------
(***************************************************************************)
(* Proofs about Proxy, for any number of connections, any connection limit *)
(* and any hosts, allowlist, exemptions and addresses.                     *)
(***************************************************************************)
EXTENDS Proxy, FiniteSetTheorems, TLAPS

ConnType ==
  [pc : {"off", "queue", "track", "relay", "closing"} \cup Outer \cup Tracked,
   host : Hosts \cup {NoHost}, mitm : BOOLEAN, up : BOOLEAN, down : BOOLEAN,
   deadline : BOOLEAN, late : BOOLEAN]

OpenPcs == Outer \cup {"track", "relay"} \cup Tracked     \* owns a slot
HeldPcs == Tracked \cup {"closing"}              \* counted by activeConns
Bound == {"dial", "hijack", "proxied", "track"} \cup Tracked  \* has a target
Clear == {"track", "relay", "ack", "cert"} \cup Session   \* has no deadline

\* One connection: its target was let through, no deadline is left on it where
\* none belongs, the outer server's success excludes it, and the drain's end
\* excludes it unless it came late.
Sound(r) ==
  /\ r.pc \in Bound => wasPassive \/ r.host \in Allowed
  /\ r.pc \in Clear => ~r.deadline
  /\ outer = "ok" => r.pc \notin Outer
  /\ drain = "done" /\ r.pc \in Tracked => r.late

\* The stages of Shutdown that rest on one another.
Stages ==
  /\ sd = "none" => outer = "off" /\ drain = "off"
  /\ sd = "ok" => outer = "ok"
  /\ sd \in {"join", "ok"} /\ ~expired => drain = "done"

Types ==
  /\ mitm \in BOOLEAN /\ active \in BOOLEAN /\ wasPassive \in BOOLEAN
  /\ conn \in [Conns -> ConnType]
  /\ sem \in 0 .. MaxConns /\ acceptor \in {"loop", "accept", "done"}
  /\ cancelled \in BOOLEAN /\ expired \in BOOLEAN
  /\ sd \in {"none", "cancel", "cleanup", "drain", "wait", "join", "ok", "late"}
  /\ outer \in {"off", "ready", "closing", "ok", "late"}
  /\ drain \in {"off", "ready", "waiting", "done"}

ProxyIInv ==
  /\ Types
  /\ \A c \in Conns : Sound(conn[c])
  /\ sem = Cardinality(In(OpenPcs)) + IF acceptor = "accept" THEN 1 ELSE 0
  /\ tracked = Cardinality(In(HeldPcs))
  /\ Stages
  /\ ~active => wasPassive
  /\ vetted = TRUE

-----------------------------------------------------------------------------

\* A step of one connection puts it in or takes it out of a set of control points.
LEMMA Moved ==
  ASSUME Types, NEW c \in Conns, NEW r, conn' = [conn EXCEPT ![c] = r], NEW pcs
  PROVE  In(pcs)' = IF r.pc \in pcs THEN In(pcs) \cup {c} ELSE In(pcs) \ {c}
<1>1. conn'[c] = r /\ \A k \in Conns \ {c} : conn'[k] = conn[k] BY DEF Types
<1> QED BY <1>1 DEF In

\* What is counted of the connections is a number.
LEMMA Finite ==
  ASSUME ProxyAssumption, NEW pcs
  PROVE  /\ IsFiniteSet(In(pcs)) /\ Cardinality(In(pcs)) \in Nat
         /\ Cardinality(In(pcs)) <= Cardinality(Conns)
<1>1. In(pcs) \subseteq Conns BY DEF In
<1> QED BY <1>1, FS_Subset, FS_CardinalityType DEF ProxyAssumption

\* The count follows: it stays, grows by one or shrinks by one.
LEMMA Counted ==
  ASSUME ProxyAssumption, Types, NEW c \in Conns, NEW r, conn' = [conn EXCEPT ![c] = r], NEW pcs
  PROVE  /\ (conn[c].pc \in pcs <=> r.pc \in pcs) =>
              Cardinality(In(pcs)') = Cardinality(In(pcs))
         /\ conn[c].pc \notin pcs /\ r.pc \in pcs =>
              Cardinality(In(pcs)') = Cardinality(In(pcs)) + 1
         /\ conn[c].pc \in pcs /\ r.pc \notin pcs =>
              /\ Cardinality(In(pcs)') = Cardinality(In(pcs)) - 1
              /\ Cardinality(In(pcs)) >= 1
<1>1. IsFiniteSet(In(pcs)) BY Finite
<1>2. c \in In(pcs) <=> conn[c].pc \in pcs BY DEF In
<1>3. CASE conn[c].pc \in pcs <=> r.pc \in pcs
  <2>1. In(pcs)' = In(pcs)
    <3>1. In(pcs)' = IF r.pc \in pcs THEN In(pcs) \cup {c} ELSE In(pcs) \ {c} BY Moved
    <3>2. CASE r.pc \in pcs BY <1>2, <1>3, <3>1, <3>2
    <3>3. CASE r.pc \notin pcs BY <1>2, <1>3, <3>1, <3>3
    <3> QED BY <3>2, <3>3
  <2> QED BY <1>3, <2>1
<1>4. CASE conn[c].pc \notin pcs /\ r.pc \in pcs
  <2>1. In(pcs)' = In(pcs) \cup {c} BY <1>4, Moved
  <2> QED BY <1>1, <1>2, <1>4, <2>1, FS_AddElement
<1>5. CASE conn[c].pc \in pcs /\ r.pc \notin pcs
  <2>1. In(pcs)' = In(pcs) \ {c} BY <1>5, Moved
  <2>2. Cardinality(In(pcs)') = Cardinality(In(pcs)) - 1 BY <1>1, <1>2, <1>5, <2>1, FS_RemoveElement
  <2>3. IsFiniteSet(In(pcs)') BY <1>1, <2>1, FS_Subset
  <2>4. Cardinality(In(pcs)') \in Nat /\ Cardinality(In(pcs)) \in Nat
    BY <1>1, <2>3, FS_CardinalityType
  <2> QED BY <1>5, <2>2, <2>4
<1> QED BY <1>3, <1>4, <1>5

\* A step of one connection, with the counts it should have, keeps the invariant.
LEMMA ConnStep ==
  ASSUME ProxyAssumption, ProxyIInv, NEW c \in Conns, NEW r \in ConnType,
         conn' = [conn EXCEPT ![c] = r], Sound(r), vetted' = TRUE,
         UNCHANGED <<policyVars, shutdownVars>>,
         acceptor' \in {"loop", "accept", "done"}, sem' <= MaxConns,
         sem' = Cardinality(In(OpenPcs)') + IF acceptor' = "accept" THEN 1 ELSE 0,
         tracked' = Cardinality(In(HeldPcs)')
  PROVE  ProxyIInv'
<1>1. Types BY DEF ProxyIInv
<1>2. UNCHANGED <<mitm, active, wasPassive, cancelled, sd, outer, drain, expired>>
  BY DEF policyVars, shutdownVars
<1>3. conn' \in [Conns -> ConnType] /\ conn'[c] = r /\ \A k \in Conns \ {c} : conn'[k] = conn[k]
  BY <1>1 DEF Types
<1>4. sem' \in 0 .. MaxConns
  <2>1. In(OpenPcs)' \subseteq Conns BY DEF In
  <2>2. Cardinality(In(OpenPcs)') \in Nat
    BY <2>1, FS_Subset, FS_CardinalityType DEF ProxyAssumption
  <2> QED BY <2>2 DEF ProxyAssumption
<1>5. Types' BY <1>1, <1>2, <1>3, <1>4 DEF Types
<1>6. \A k \in Conns : Sound(conn[k])'
  <2>1. \A k \in Conns : Sound(conn'[k]) BY <1>3 DEF ProxyIInv
  <2> QED BY <1>2, <2>1 DEF Sound
<1>7. Stages' /\ (~active' => wasPassive') BY <1>2 DEF ProxyIInv, Stages
<1> QED BY <1>5, <1>6, <1>7 DEF ProxyIInv

\* A step that neither opens nor closes anything.
LEMMA Moves ==
  ASSUME ProxyAssumption, ProxyIInv, NEW c \in Conns, NEW r \in ConnType,
         conn' = [conn EXCEPT ![c] = r], Sound(r), vetted' = TRUE,
         conn[c].pc \in OpenPcs <=> r.pc \in OpenPcs,
         conn[c].pc \in HeldPcs <=> r.pc \in HeldPcs,
         UNCHANGED <<policyVars, shutdownVars, sem, acceptor, tracked>>
  PROVE  ProxyIInv'
<1>1. Types /\ sem \in 0 .. MaxConns BY DEF ProxyIInv, Types
<1>2. Cardinality(In(OpenPcs)') = Cardinality(In(OpenPcs)) BY <1>1, Counted
<1>3. Cardinality(In(HeldPcs)') = Cardinality(In(HeldPcs)) BY <1>1, Counted
<1>4. sem' <= MaxConns BY <1>1 DEF ProxyAssumption
<1>5. acceptor' \in {"loop", "accept", "done"} BY <1>1 DEF Types
<1> QED BY <1>2, <1>3, <1>4, <1>5, ConnStep DEF ProxyIInv

\* The sets of control points, told apart.
LEMMA Places ==
  /\ Off \in ConnType /\ Off.pc = "off" /\ ~Off.deadline
  /\ OpenPcs = {"read", "dial", "hijack", "proxied", "track", "relay", "ack", "cert", "shake",
                "copy", "serve", "upgraded"}
  /\ HeldPcs = {"ack", "cert", "shake", "copy", "serve", "upgraded", "closing"}
  /\ Tracked = {"ack", "cert", "shake", "copy", "serve", "upgraded"}
  /\ Bound = {"dial", "hijack", "proxied", "track", "ack", "cert", "shake", "copy", "serve",
              "upgraded"}
  /\ Clear = {"track", "relay", "ack", "cert", "copy", "serve", "upgraded"}
  /\ Outer = {"read", "dial", "hijack", "proxied"}
BY DEF Off, ConnType, NoHost, OpenPcs, HeldPcs, Tracked, Bound, Clear, Outer, Setup, Session

\* The connection after a close, and one the server keeps or has just accepted.
LEMMA Reset ==
  ASSUME NEW p \in {"off", "read", "closing"}
  PROVE  /\ [Off EXCEPT !.pc = p] \in ConnType /\ [Off EXCEPT !.pc = p].pc = p
         /\ p # "read" => Sound([Off EXCEPT !.pc = p])
         /\ outer # "ok" => Sound([Off EXCEPT !.pc = p])
<1>1. [Off EXCEPT !.pc = p] \in ConnType /\ [Off EXCEPT !.pc = p].pc = p
  BY Places DEF ConnType
<1> QED BY <1>1, Places DEF Sound

\* Close of a connection the outer server owns, or that the reverse proxy has
\* hijacked, releases its slot, no more.
LEMMA ClosesOuter ==
  ASSUME ProxyAssumption, ProxyIInv, NEW c \in Conns, conn[c].pc \in Outer \cup {"relay"},
         CloseOuter(c), vetted' = TRUE, UNCHANGED <<policyVars, shutdownVars, acceptor, tracked>>
  PROVE  ProxyIInv'
<1>1. Types /\ sem \in 0 .. MaxConns BY DEF ProxyIInv, Types
<1>2. Off \in ConnType /\ Off.pc = "off" /\ Sound(Off) BY Places DEF Sound
<1>3. conn' = [conn EXCEPT ![c] = Off] /\ sem' = sem - 1 BY DEF CloseOuter
<1>4. Cardinality(In(OpenPcs)') = Cardinality(In(OpenPcs)) - 1
  <2>1. conn[c].pc \in OpenPcs /\ Off.pc \notin OpenPcs BY <1>2, Places
  <2> QED BY <1>1, <1>3, <2>1, Counted
<1>5. Cardinality(In(HeldPcs)') = Cardinality(In(HeldPcs))
  <2>1. conn[c].pc \notin HeldPcs /\ Off.pc \notin HeldPcs BY <1>2, Places
  <2> QED BY <1>1, <1>3, <2>1, Counted
<1>6. sem' <= MaxConns /\ acceptor' \in {"loop", "accept", "done"}
  BY <1>1, <1>3 DEF ProxyAssumption, Types
<1>7. Cardinality(In(OpenPcs)) \in Nat BY Finite
<1>8. sem' = Cardinality(In(OpenPcs)') + IF acceptor' = "accept" THEN 1 ELSE 0
  BY <1>3, <1>4, <1>7 DEF ProxyIInv
<1>9. tracked' = Cardinality(In(HeldPcs)') BY <1>5 DEF ProxyIInv
<1> QED BY <1>2, <1>3, <1>6, <1>8, <1>9, ConnStep

\* Close of a tracked connection releases its slot; activeConns counts it still.
LEMMA ClosesTracked ==
  ASSUME ProxyAssumption, ProxyIInv, NEW c \in Conns, conn[c].pc \in Tracked, CloseTracked(c),
         vetted' = TRUE, UNCHANGED <<policyVars, shutdownVars, acceptor, tracked>>
  PROVE  ProxyIInv'
<1> DEFINE r == [Off EXCEPT !.pc = "closing"]
<1>1. Types /\ sem \in 0 .. MaxConns BY DEF ProxyIInv, Types
<1>2. r \in ConnType /\ r.pc = "closing" /\ Sound(r) BY Reset
<1>3. conn' = [conn EXCEPT ![c] = r] /\ sem' = sem - 1 BY DEF CloseTracked
<1> HIDE DEF r
<1>4. Cardinality(In(OpenPcs)') = Cardinality(In(OpenPcs)) - 1
  BY <1>1, <1>2, <1>3, Counted, Places
<1>5. Cardinality(In(HeldPcs)') = Cardinality(In(HeldPcs))
  BY <1>1, <1>2, <1>3, Counted, Places
<1>6. sem' <= MaxConns /\ acceptor' \in {"loop", "accept", "done"}
  BY <1>1, <1>3 DEF ProxyAssumption, Types
<1>7. Cardinality(In(OpenPcs)) \in Nat BY Finite
<1>8. sem' = Cardinality(In(OpenPcs)') + IF acceptor' = "accept" THEN 1 ELSE 0
  BY <1>3, <1>4, <1>7 DEF ProxyIInv
<1>9. tracked' = Cardinality(In(HeldPcs)') BY <1>5 DEF ProxyIInv
<1> QED BY <1>2, <1>3, <1>6, <1>8, <1>9, ConnStep

\* A handler that has answered gives the connection back to the outer server.
LEMMA Answers ==
  ASSUME ProxyAssumption, ProxyIInv, NEW c \in Conns, conn[c].pc \in Outer, Answered(c),
         vetted' = TRUE, UNCHANGED <<policyVars, shutdownVars, acceptor, tracked>>
  PROVE  ProxyIInv'
<1>1. CASE Listening
  <2> DEFINE r == [Off EXCEPT !.pc = "read"]
  <2>1. r \in ConnType /\ r.pc = "read" /\ Sound(r) BY <1>1, Reset DEF Listening
  <2>2. conn' = [conn EXCEPT ![c] = r] /\ UNCHANGED sem BY <1>1 DEF Answered
  <2> HIDE DEF r
  <2> QED BY <2>1, <2>2, Moves, Places
<1>2. CASE ~Listening
  BY <1>2, ClosesOuter DEF Answered
<1> QED BY <1>1, <1>2

\* limitedListener.Accept hands the slot it took to the connection.
LEMMA Accepts ==
  ASSUME ProxyAssumption, ProxyIInv, NEW c \in Conns, Accept(c)
  PROVE  ProxyIInv'
<1> DEFINE r == [Off EXCEPT !.pc = "read"]
<1>1. Types /\ sem \in 0 .. MaxConns BY DEF ProxyIInv, Types
<1>2. r \in ConnType /\ r.pc = "read" /\ Sound(r) BY Reset DEF Accept, Listening
<1>3. conn' = [conn EXCEPT ![c] = r] /\ conn[c].pc = "queue" /\ acceptor = "accept"
      /\ acceptor' = "loop" /\ sem' = sem /\ tracked' = tracked /\ vetted' = TRUE
      /\ UNCHANGED <<policyVars, shutdownVars>>
  BY DEF Accept, ProxyIInv
<1> HIDE DEF r
<1>4. Cardinality(In(OpenPcs)') = Cardinality(In(OpenPcs)) + 1
  <2>1. conn[c].pc \notin OpenPcs /\ r.pc \in OpenPcs BY <1>2, <1>3, Places
  <2> QED BY <1>1, <1>3, <2>1, Counted
<1>5. Cardinality(In(HeldPcs)') = Cardinality(In(HeldPcs))
  <2>1. conn[c].pc \notin HeldPcs /\ r.pc \notin HeldPcs BY <1>2, <1>3, Places
  <2> QED BY <1>1, <1>3, <2>1, Counted
<1>6. sem' <= MaxConns BY <1>1, <1>3 DEF ProxyAssumption
<1>7. Cardinality(In(OpenPcs)) \in Nat BY Finite
<1>8. sem' = Cardinality(In(OpenPcs)') + IF acceptor' = "accept" THEN 1 ELSE 0
  BY <1>3, <1>4, <1>7 DEF ProxyIInv
<1>9. tracked' = Cardinality(In(HeldPcs)') BY <1>3, <1>5 DEF ProxyIInv
<1> QED BY <1>2, <1>3, <1>6, <1>8, <1>9, ConnStep

\* trackConn counts the connection, and knows whether Shutdown already waits.
LEMMA Tracks ==
  ASSUME ProxyAssumption, ProxyIInv, NEW c \in Conns, trackConn(c)
  PROVE  ProxyIInv'
<1> DEFINE r == [conn[c] EXCEPT !.pc = "ack", !.late = drain # "off"]
<1>1. Types /\ sem \in 0 .. MaxConns /\ conn[c] \in ConnType /\ Sound(conn[c])
  BY DEF ProxyIInv, Types
<1>2. /\ r \in ConnType /\ r.pc = "ack" /\ r.host = conn[c].host
      /\ r.deadline = conn[c].deadline /\ r.late = (drain # "off")
  <2>1. \A b \in BOOLEAN : LET e == [conn[c] EXCEPT !.pc = "ack", !.late = b] IN
          /\ e \in ConnType /\ e.pc = "ack" /\ e.host = conn[c].host
          /\ e.deadline = conn[c].deadline /\ e.late = b
    BY <1>1, Places DEF ConnType
  <2>2. (drain # "off") \in BOOLEAN OBVIOUS
  <2> QED BY <2>1, <2>2, Zenon
<1>3. conn' = [conn EXCEPT ![c] = r] /\ conn[c].pc = "track" /\ tracked' = tracked + 1
      /\ acceptor' = acceptor /\ sem' = sem /\ vetted' = TRUE
      /\ UNCHANGED <<policyVars, shutdownVars>>
  BY DEF trackConn, ProxyIInv
<1> HIDE DEF r
<1>4. Sound(r) BY <1>1, <1>2, <1>3, Places DEF Sound
<1>5. Cardinality(In(OpenPcs)') = Cardinality(In(OpenPcs))
  <2>1. conn[c].pc \in OpenPcs /\ r.pc \in OpenPcs BY <1>2, <1>3, Places
  <2> QED BY <1>1, <1>3, <2>1, Counted
<1>6. Cardinality(In(HeldPcs)') = Cardinality(In(HeldPcs)) + 1
  <2>1. conn[c].pc \notin HeldPcs /\ r.pc \in HeldPcs BY <1>2, <1>3, Places
  <2> QED BY <1>1, <1>3, <2>1, Counted
<1>7. sem' <= MaxConns /\ acceptor' \in {"loop", "accept", "done"}
  BY <1>1, <1>3 DEF ProxyAssumption, Types
<1>8. sem' = Cardinality(In(OpenPcs)') + IF acceptor' = "accept" THEN 1 ELSE 0
  BY <1>3, <1>5 DEF ProxyIInv
<1>9. tracked' = Cardinality(In(HeldPcs)') BY <1>3, <1>6 DEF ProxyIInv
<1> QED BY <1>2, <1>3, <1>4, <1>7, <1>8, <1>9, ConnStep

\* The last Done releases the waiter, and then nothing is tracked.
LEMMA ClosesDone ==
  ASSUME ProxyAssumption, ProxyIInv, NEW c \in Conns, CloseDone(c)
  PROVE  ProxyIInv'
<1>1. Types /\ sem \in 0 .. MaxConns BY DEF ProxyIInv, Types
<1>2. Off \in ConnType /\ Off.pc = "off" BY Places
<1>3. conn' = [conn EXCEPT ![c] = Off] /\ conn[c].pc = "closing" /\ tracked' = tracked - 1
      /\ drain' = (IF tracked = 1 /\ drain = "waiting" THEN "done" ELSE drain)
      /\ UNCHANGED <<mitm, active, wasPassive, sem, acceptor, cancelled, sd, outer, expired, vetted>>
  BY DEF CloseDone, policyVars
<1>4. Cardinality(In(OpenPcs)') = Cardinality(In(OpenPcs))
  <2>1. conn[c].pc \notin OpenPcs /\ Off.pc \notin OpenPcs BY <1>2, <1>3, Places
  <2> QED BY <1>1, <1>3, <2>1, Counted
<1>5. Cardinality(In(HeldPcs)') = Cardinality(In(HeldPcs)) - 1
  <2>1. conn[c].pc \in HeldPcs /\ Off.pc \notin HeldPcs BY <1>2, <1>3, Places
  <2> QED BY <1>1, <1>3, <2>1, Counted
<1>6. conn' \in [Conns -> ConnType] /\ conn'[c] = Off /\ \A k \in Conns \ {c} : conn'[k] = conn[k]
  BY <1>1, <1>2, <1>3 DEF Types
<1>7. Types' BY <1>1, <1>3, <1>6 DEF Types
<1>8. drain' = "done" /\ drain # "done" => In(HeldPcs)' = {}
  <2> SUFFICES ASSUME drain' = "done", drain # "done" PROVE In(HeldPcs)' = {} OBVIOUS
  <2>1. tracked = 1 BY <1>3
  <2>2. Cardinality(In(HeldPcs)') = 0 BY <1>5, <2>1 DEF ProxyIInv
  <2>3. In(HeldPcs)' \subseteq Conns BY DEF In
  <2>4. IsFiniteSet(In(HeldPcs)') BY <2>3, FS_Subset DEF ProxyAssumption
  <2> QED BY <2>2, <2>4, FS_EmptySet
<1>9. \A k \in Conns : Sound(conn[k])'
  <2>1. \A k \in Conns : Sound(conn[k]) BY DEF ProxyIInv
  <2>2. ASSUME drain' = drain PROVE \A k \in Conns : Sound(conn[k])'
    <3>1. \A k \in Conns \ {c} : Sound(conn[k])' BY <1>3, <1>6, <2>1, <2>2 DEF Sound
    <3>2. Sound(conn[c])' BY <1>2, <1>6, Places DEF Sound
    <3> QED BY <3>1, <3>2
  <2>3. ASSUME drain' = "done", drain # "done" PROVE \A k \in Conns : Sound(conn[k])'
    <3>1. \A k \in Conns : conn'[k].pc \notin Tracked BY <1>8, <2>3 DEF In, HeldPcs
    <3>2. \A k \in Conns \ {c} : Sound(conn[k])' BY <1>3, <1>6, <2>1, <3>1 DEF Sound
    <3>3. Sound(conn[c])' BY <1>2, <1>6, Places DEF Sound
    <3> QED BY <3>2, <3>3
  <2> QED BY <1>3, <2>2, <2>3
<1>10. Stages' BY <1>3 DEF ProxyIInv, Stages
<1>11. tracked' = Cardinality(In(HeldPcs)') BY <1>3, <1>5 DEF ProxyIInv
<1>12. sem' = Cardinality(In(OpenPcs)') + IF acceptor' = "accept" THEN 1 ELSE 0
  BY <1>3, <1>4 DEF ProxyIInv
<1> QED BY <1>3, <1>7, <1>9, <1>10, <1>11, <1>12 DEF ProxyIInv

\* A delivery is one to make: the target passed at CONNECT, the request's host
\* passes now, and dialControl saw the address.
LEMMA Delivers ==
  ASSUME ProxyIInv, NEW c \in Conns, conn[c].pc \in Bound, NEW h,
         h = conn[c].host \/ checkHost(h), Reaches(conn[c].host, h)
  PROVE  vetted' = TRUE
<1>1. wasPassive \/ conn[c].host \in Allowed BY DEF ProxyIInv, Sound
<1>2. wasPassive \/ h \in Allowed BY <1>1 DEF ProxyIInv, checkHost
<1>3. wasPassive \/ {conn[c].host, h} \subseteq Allowed BY <1>1, <1>2
<1>4. PICK private \in Resolves(conn[c].host) :
        /\ ~private
        /\ vetted' = (vetted /\ ~private /\ (wasPassive \/ {conn[c].host, h} \subseteq Allowed))
  BY Zenon DEF Reaches, dialControl
<1>5. vetted = TRUE BY DEF ProxyIInv
<1> QED BY <1>3, <1>4, <1>5, Zenon

\* The verdict: what a handler goes on with has passed, in either kind of request.
LEMMA Decides ==
  ASSUME ProxyAssumption, ProxyIInv, NEW c \in Conns, NEW h \in Hosts,
         decideConnect(c, h) \/ decideForward(c, h)
  PROVE  ProxyIInv'
<1>1. wasPassive \/ h \in Allowed BY DEF ProxyIInv, checkHost, decideConnect, decideForward
<1>2. conn[c].pc = "read" /\ conn[c] \in ConnType /\ outer # "ok" /\ Types
  BY Places DEF ProxyIInv, Sound, Types, decideConnect, decideForward
<1>3. vetted' = TRUE /\ UNCHANGED <<policyVars, shutdownVars, sem, acceptor, tracked>>
  BY DEF ProxyIInv, decideConnect, decideForward
<1>4. CASE decideConnect(c, h)
  <2> DEFINE i == mitm /\ h \notin Exempt
             p == IF i THEN "hijack" ELSE "dial"
             r == [Off EXCEPT !.pc = p, !.host = h, !.mitm = i, !.deadline = TRUE]
  <2>1. conn' = [conn EXCEPT ![c] = r] BY <1>4 DEF decideConnect
  <2>2. i \in BOOLEAN /\ p \in {"hijack", "dial"} OBVIOUS
  <2> HIDE DEF i, p
  <2>3. r \in ConnType /\ r.pc = p /\ r.host = h BY <2>2, Places DEF ConnType
  <2> HIDE DEF r
  <2>4. Sound(r) BY <1>1, <1>2, <2>2, <2>3, Places DEF Sound
  <2>5. conn[c].pc \in OpenPcs /\ r.pc \in OpenPcs /\ conn[c].pc \notin HeldPcs
        /\ r.pc \notin HeldPcs
    BY <1>2, <2>2, <2>3, Places
  <2> QED BY <1>3, <2>1, <2>3, <2>4, <2>5, Moves
<1>5. CASE decideForward(c, h)
  <2> DEFINE r == [conn[c] EXCEPT !.pc = "proxied", !.host = h, !.deadline = TRUE]
  <2>1. conn' = [conn EXCEPT ![c] = r] BY <1>2, <1>5 DEF decideForward, Types
  <2>3. r \in ConnType /\ r.pc = "proxied" /\ r.host = h BY <1>2, Places DEF ConnType
  <2> HIDE DEF r
  <2>4. Sound(r) BY <1>1, <1>2, <2>3, Places DEF Sound
  <2>5. conn[c].pc \in OpenPcs /\ r.pc \in OpenPcs /\ conn[c].pc \notin HeldPcs
        /\ r.pc \notin HeldPcs
    BY <1>2, <2>3, Places
  <2> QED BY <1>3, <2>1, <2>3, <2>4, <2>5, Moves
<1> QED BY <1>4, <1>5

\* The control point alone moves, and takes nothing with it.
LEMMA Goes ==
  ASSUME ProxyAssumption, ProxyIInv, NEW c \in Conns, NEW p, Goto(c, p),
         vetted' = TRUE, UNCHANGED <<policyVars, shutdownVars, sem, acceptor, tracked>>,
         \/ conn[c].pc = "off" /\ p = "queue"
         \/ conn[c].pc = "dial" /\ p = "hijack"
         \/ conn[c].pc = "serve" /\ p \in {"serve", "upgraded"}
  PROVE  ProxyIInv'
<1> DEFINE r == [conn[c] EXCEPT !.pc = p]
<1>1. conn[c] \in ConnType /\ Sound(conn[c]) /\ Types BY DEF ProxyIInv, Types
<1>2. conn' = [conn EXCEPT ![c] = r] BY <1>1 DEF Goto, Types
<1>3. r \in ConnType /\ r.pc = p /\ r.host = conn[c].host /\ r.deadline = conn[c].deadline
      /\ r.late = conn[c].late
  BY <1>1, Places DEF ConnType
<1> HIDE DEF r
<1>4. Sound(r) BY <1>1, <1>3, Places DEF Sound
<1>5. /\ conn[c].pc \in OpenPcs <=> r.pc \in OpenPcs
      /\ conn[c].pc \in HeldPcs <=> r.pc \in HeldPcs
  BY <1>3, Places
<1> QED BY <1>2, <1>3, <1>4, <1>5, Moves

\* A step of a handler's own: it goes on in place, or closes what it holds.
LEMMA HandlerStep ==
  ASSUME ProxyAssumption, ProxyIInv, NEW c \in Conns, Handler(c)
  PROVE  ProxyIInv'
<1>1. conn[c] \in ConnType /\ Sound(conn[c]) /\ Types /\ vetted = TRUE BY DEF ProxyIInv, Types
<1>2. CASE DialUpstream(c)
  <2>1. conn[c].pc = "dial" /\ UNCHANGED <<policyVars, acceptor, tracked, shutdownVars>>
    BY <1>2 DEF DialUpstream
  <2>2. CASE Reaches(conn[c].host, conn[c].host) /\ Goto(c, "hijack") /\ UNCHANGED sem
    <3>1. vetted' = TRUE BY <2>1, <2>2, Delivers, Places
    <3> QED BY <2>1, <2>2, <3>1, Goes
  <2>3. CASE Answered(c) /\ UNCHANGED vetted
    BY <1>1, <2>1, <2>3, Answers, Places
  <2> QED BY <1>2, <2>2, <2>3 DEF DialUpstream
<1>3. CASE Hijack(c)
  <2> DEFINE r == [conn[c] EXCEPT !.pc = "track", !.deadline = FALSE]
  <2>1. conn' = [conn EXCEPT ![c] = r] /\ conn[c].pc = "hijack" BY <1>1, <1>3 DEF Hijack, Types
  <2>2. r \in ConnType /\ r.pc = "track" /\ r.host = conn[c].host /\ ~r.deadline
    BY <1>1, Places DEF ConnType
  <2> HIDE DEF r
  <2>3. Sound(r) BY <1>1, <2>1, <2>2, Places DEF Sound
  <2>4. UNCHANGED <<policyVars, shutdownVars, sem, acceptor, tracked>> /\ vetted' = TRUE
    BY <1>1, <1>3 DEF Hijack
  <2>5. conn[c].pc \in OpenPcs /\ r.pc \in OpenPcs /\ conn[c].pc \notin HeldPcs
        /\ r.pc \notin HeldPcs
    BY <2>1, <2>2, Places
  <2> QED BY <2>1, <2>2, <2>3, <2>4, <2>5, Moves
<1>4. CASE trackConn(c) BY <1>4, Tracks
<1>5. CASE Ack(c)
  <2>1. conn[c].pc = "ack" /\ UNCHANGED <<policyVars, acceptor, tracked, shutdownVars>>
        /\ vetted' = TRUE
    BY <1>1, <1>5 DEF Ack
  <2>2. CASE CloseTracked(c) BY <2>1, <2>2, ClosesTracked, Places
  <2>3. CASE ~CloseTracked(c)
    <3> DEFINE p == IF conn[c].mitm THEN "cert" ELSE "copy"
               b == ~conn[c].mitm
               r == [conn[c] EXCEPT !.pc = p, !.up = b, !.down = b]
    <3>1. conn' = [conn EXCEPT ![c] = r] /\ UNCHANGED sem BY <1>1, <1>5, <2>3 DEF Ack, Types
    <3>2. p \in {"cert", "copy"} /\ b \in BOOLEAN OBVIOUS
    <3> HIDE DEF p, b
    <3>3. r \in ConnType /\ r.pc = p /\ r.host = conn[c].host /\ r.late = conn[c].late
          /\ r.deadline = conn[c].deadline
      BY <1>1, <3>2, Places DEF ConnType
    <3> HIDE DEF r
    <3>4. Sound(r) BY <1>1, <2>1, <3>2, <3>3, Places DEF Sound
    <3>5. conn[c].pc \in OpenPcs /\ r.pc \in OpenPcs /\ conn[c].pc \in HeldPcs
          /\ r.pc \in HeldPcs
      BY <2>1, <3>2, <3>3, Places
    <3> QED BY <2>1, <3>1, <3>3, <3>4, <3>5, Moves
  <2> QED BY <2>2, <2>3
<1>6. CASE Certify(c) \/ Handshake(c)
  <2>1. conn[c].pc \in {"cert", "shake"} /\ UNCHANGED <<policyVars, acceptor, tracked, shutdownVars>>
        /\ vetted' = TRUE
    BY <1>1, <1>6 DEF Certify, Handshake
  <2>2. CASE CloseTracked(c) BY <2>1, <2>2, ClosesTracked, Places
  <2>3. CASE ~CloseTracked(c)
    <3>1. \E p \in {"shake", "serve"} :
            conn' = [conn EXCEPT ![c] = [conn[c] EXCEPT !.pc = p, !.deadline = (p = "shake")]]
      BY <1>1, <1>6, <2>3 DEF Certify, Handshake, Types
    <3>2. PICK p \in {"shake", "serve"} :
            conn' = [conn EXCEPT ![c] = [conn[c] EXCEPT !.pc = p, !.deadline = (p = "shake")]]
      BY <3>1
    <3> DEFINE d == p = "shake"
               r == [conn[c] EXCEPT !.pc = p, !.deadline = d]
    <3>3. conn' = [conn EXCEPT ![c] = r] BY <3>2
    <3>4. d \in BOOLEAN /\ (d <=> p = "shake") OBVIOUS
    <3> HIDE DEF d
    <3>5. r \in ConnType /\ r.pc = p /\ r.host = conn[c].host /\ r.late = conn[c].late
          /\ r.deadline = d
      BY <1>1, <3>4, Places DEF ConnType
    <3> HIDE DEF r
    <3>6. Sound(r) BY <1>1, <2>1, <3>4, <3>5, Places DEF Sound
    <3>7. conn[c].pc \in OpenPcs /\ r.pc \in OpenPcs /\ conn[c].pc \in HeldPcs
          /\ r.pc \in HeldPcs
      BY <2>1, <3>5, Places
    <3>8. UNCHANGED sem BY <1>6, <2>3 DEF Certify, Handshake
    <3> QED BY <2>1, <3>3, <3>5, <3>6, <3>7, <3>8, Moves
  <2> QED BY <2>2, <2>3
<1>7. CASE TunnelReturns(c)
  BY <1>1, <1>7, ClosesTracked, Places DEF TunnelReturns
<1>8. CASE CloseDone(c) BY <1>8, ClosesDone
<1> QED BY <1>2, <1>3, <1>4, <1>5, <1>6, <1>7, <1>8 DEF Handler

\* What clients, upstreams and timeouts do to a connection.
LEMMA EnvironmentStep ==
  ASSUME ProxyAssumption, ProxyIInv, NEW c \in Conns, Environment(c)
  PROVE  ProxyIInv'
<1>1. conn[c] \in ConnType /\ Sound(conn[c]) /\ Types /\ vetted = TRUE BY DEF ProxyIInv, Types
<1>2. CASE ClientConnects(c) BY <1>1, <1>2, Goes DEF ClientConnects
<1>3. CASE Leave(c) BY <1>1, <1>3, ClosesOuter, Places DEF Leave
<1>4. CASE SessionEnds(c) BY <1>1, <1>4, ClosesTracked, Places DEF SessionEnds
<1>5. CASE DeadlineFires(c) BY <1>1, <1>5, ClosesTracked DEF DeadlineFires
<1>6. CASE ProxyForward(c)
  <2>1. conn[c].pc = "proxied" /\ UNCHANGED <<policyVars, acceptor, tracked, shutdownVars>>
    BY <1>6 DEF ProxyForward
  <2>2. vetted' = TRUE BY <1>1, <1>6, <2>1, Delivers, Places DEF ProxyForward
  <2>3. CASE Answered(c) BY <2>1, <2>2, <2>3, Answers, Places
  <2>4. CASE ~Answered(c)
    <3> DEFINE r == [conn[c] EXCEPT !.pc = "relay", !.deadline = FALSE]
    <3>1. conn' = [conn EXCEPT ![c] = r] /\ UNCHANGED sem
      BY <1>1, <1>6, <2>4 DEF ProxyForward, Types
    <3>2. r \in ConnType /\ r.pc = "relay" /\ ~r.deadline BY <1>1, Places DEF ConnType
    <3> HIDE DEF r
    <3>3. Sound(r) BY <3>2, Places DEF Sound
    <3>4. conn[c].pc \in OpenPcs /\ r.pc \in OpenPcs /\ conn[c].pc \notin HeldPcs
          /\ r.pc \notin HeldPcs
      BY <2>1, <3>2, Places
    <3> QED BY <2>1, <2>2, <3>1, <3>2, <3>3, <3>4, Moves
  <2> QED BY <2>3, <2>4
<1>7. ASSUME NEW h \in Hosts, decideConnect(c, h) \/ decideForward(c, h) PROVE ProxyIInv'
  BY <1>7, Decides
<1>8. ASSUME NEW h \in Hosts, decideInner(c, h) PROVE ProxyIInv'
  <2>1. conn[c].pc = "serve" /\ checkHost(h) /\ Reaches(conn[c].host, h)
        /\ UNCHANGED <<policyVars, sem, acceptor, tracked, shutdownVars>>
    BY <1>8 DEF decideInner
  <2>2. PICK p \in {"serve", "upgraded"} : Goto(c, p) BY <1>8 DEF decideInner
  <2>3. vetted' = TRUE BY <2>1, Delivers, Places
  <2> QED BY <2>1, <2>2, <2>3, Goes
<1>9. ASSUME NEW dir \in {"up", "down"}, CopyEnds(c, dir) PROVE ProxyIInv'
  <2> DEFINE r == IF dir = "up" THEN [conn[c] EXCEPT !.up = FALSE] ELSE [conn[c] EXCEPT !.down = FALSE]
  <2>1. conn' = [conn EXCEPT ![c] = r] /\ conn[c].pc = "copy" BY <1>1, <1>9 DEF CopyEnds, Types
  <2>2. r \in ConnType /\ r.pc = "copy" /\ r.host = conn[c].host /\ r.late = conn[c].late
        /\ r.deadline = conn[c].deadline
    BY <1>1, <2>1 DEF ConnType
  <2> HIDE DEF r
  <2>3. Sound(r) BY <1>1, <2>1, <2>2, Places DEF Sound
  <2>4. UNCHANGED <<policyVars, shutdownVars, sem, acceptor, tracked>> /\ vetted' = TRUE
    BY <1>1, <1>9 DEF CopyEnds
  <2> QED BY <2>1, <2>2, <2>3, <2>4, Moves
<1>10. CASE RelayEnds(c) BY <1>1, <1>10, ClosesOuter DEF RelayEnds
<1> QED BY <1>2, <1>3, <1>4, <1>5, <1>6, <1>7, <1>8, <1>9, <1>10 DEF Environment

\* A step that leaves the connections and their counts alone keeps the invariant
\* when it keeps what Shutdown's stages say of them.
LEMMA Apart ==
  ASSUME ProxyIInv, UNCHANGED connVars, vetted' = vetted,
         /\ mitm' \in BOOLEAN /\ active' \in BOOLEAN /\ wasPassive' \in BOOLEAN
         /\ cancelled' \in BOOLEAN /\ expired' \in BOOLEAN
         /\ sd' \in {"none", "cancel", "cleanup", "drain", "wait", "join", "ok", "late"}
         /\ outer' \in {"off", "ready", "closing", "ok", "late"}
         /\ drain' \in {"off", "ready", "waiting", "done"},
         wasPassive => wasPassive', ~active' => wasPassive', Stages',
         outer' = "ok" => outer = "ok" \/ In(Outer) = {},
         drain' = "done" => drain = "done" \/ In(HeldPcs) = {}
  PROVE  ProxyIInv'
<1>1. conn' = conn /\ sem' = sem /\ acceptor' = acceptor /\ tracked' = tracked BY DEF connVars
<1>2. Types' BY <1>1 DEF ProxyIInv, Types
<1>3. In(OpenPcs)' = In(OpenPcs) /\ In(HeldPcs)' = In(HeldPcs) BY <1>1 DEF In
<1>4. ASSUME NEW c \in Conns PROVE Sound(conn[c])'
  <2>1. Sound(conn[c]) BY DEF ProxyIInv
  <2>2. In(HeldPcs) = {} => conn[c].pc \notin Tracked BY DEF In, HeldPcs
  <2>3. In(Outer) = {} => conn[c].pc \notin Outer BY DEF In
  <2> QED BY <1>1, <2>1, <2>2, <2>3 DEF Sound
<1>5. sem' = Cardinality(In(OpenPcs)') + IF acceptor' = "accept" THEN 1 ELSE 0
  BY <1>1, <1>3 DEF ProxyIInv
<1> QED BY <1>1, <1>2, <1>3, <1>4, <1>5 DEF ProxyIInv

\* SetMode and the stages of Shutdown.
LEMMA StageStep ==
  ASSUME ProxyAssumption, ProxyIInv,
         SetMode \/ ShutdownBegins \/ ShuttingDown \/ OuterDone \/ ContextExpires
  PROVE  ProxyIInv'
<1> USE DEF policyVars, shutdownVars
<1>1. Types /\ Stages /\ (~active => wasPassive) BY DEF ProxyIInv
<1>2. CASE SetMode BY <1>1, <1>2, Apart DEF SetMode, Types, Stages, connVars
<1>3. CASE ShutdownBegins BY <1>1, <1>3, Apart DEF ShutdownBegins, Types, Stages
<1>4. CASE HijackCancel BY <1>1, <1>4, Apart DEF HijackCancel, Types, Stages
<1>5. CASE CleanupJoined BY <1>1, <1>5, Apart DEF CleanupJoined, Types, Stages
<1>6. CASE DrainBegins BY <1>1, <1>6, Apart DEF DrainBegins, Types, Stages
<1>7. CASE DrainWaits
  <2>1. tracked = 0 => In(HeldPcs) = {} BY Finite, FS_EmptySet DEF ProxyIInv
  <2>2. sd # "none" BY <1>1, <1>7 DEF DrainWaits, Stages
  <2>3. sd' = sd /\ outer' = outer /\ expired' = expired /\ drain = "ready"
        /\ drain' \in {"done", "waiting"} /\ (drain' = "done" => tracked = 0)
    BY <1>7 DEF DrainWaits
  <2>4. Stages' BY <1>1, <2>2, <2>3 DEF Stages
  <2> QED BY <1>1, <1>7, <2>1, <2>3, <2>4, Apart DEF DrainWaits, Types
<1>8. CASE DrainJoined BY <1>1, <1>8, Apart DEF DrainJoined, Types, Stages
<1>9. CASE ShutdownReturns BY <1>1, <1>9, Apart DEF ShutdownReturns, Types, Stages
<1>10. CASE OuterDone BY <1>1, <1>10, Apart DEF OuterDone, Types, Stages
<1>11. CASE ContextExpires BY <1>1, <1>11, Apart DEF ContextExpires, Types, Stages
<1> QED BY <1>2, <1>3, <1>4, <1>5, <1>6, <1>7, <1>8, <1>9, <1>10, <1>11 DEF ShuttingDown

\* The accept loop's own steps, and the reset of what the kernel still queued.
LEMMA LoopStep ==
  ASSUME ProxyAssumption, ProxyIInv, TakeSlot \/ AcceptFails \/ ListenerCloses
  PROVE  ProxyIInv'
<1> USE DEF policyVars, shutdownVars
<1>1. Types /\ Stages /\ (~active => wasPassive) /\ sem \in 0 .. MaxConns /\ MaxConns \in Nat
  BY DEF ProxyIInv, Types, ProxyAssumption
<1>2. Cardinality(In(OpenPcs)) \in Nat BY Finite
<1>3. CASE TakeSlot \/ AcceptFails
  <2>1. conn' = conn /\ tracked' = tracked /\ vetted' = vetted
        /\ UNCHANGED <<mitm, active, wasPassive, cancelled, sd, outer, drain, expired>>
    BY <1>3 DEF TakeSlot, AcceptFails
  <2>2. In(OpenPcs)' = In(OpenPcs) /\ In(HeldPcs)' = In(HeldPcs) BY <2>1 DEF In
  <2>3. sem' = Cardinality(In(OpenPcs)') + (IF acceptor' = "accept" THEN 1 ELSE 0)
        /\ sem' \in 0 .. MaxConns /\ acceptor' \in {"loop", "accept", "done"}
    <3> DEFINE n == Cardinality(In(OpenPcs))
    <3>1. n \in Nat /\ sem = n + (IF acceptor = "accept" THEN 1 ELSE 0) BY <1>2 DEF ProxyIInv
    <3>2. Cardinality(In(OpenPcs)') = n BY <2>2
    <3> HIDE DEF n
    <3>3. CASE TakeSlot
      <4>1. acceptor = "loop" /\ sem < MaxConns /\ sem' = sem + 1 /\ acceptor' = "accept"
        BY <3>3 DEF TakeSlot
      <4> QED BY <1>1, <3>1, <3>2, <4>1
    <3>4. CASE AcceptFails
      <4>1. acceptor = "accept" /\ sem' = sem - 1 /\ acceptor' = "done" BY <3>4 DEF AcceptFails
      <4> QED BY <1>1, <3>1, <3>2, <4>1
    <3> QED BY <1>3, <3>3, <3>4
  <2>5. Types' BY <1>1, <2>1, <2>3 DEF Types
  <2>6. Stages' BY <1>1, <2>1 DEF Stages
  <2>7. \A c \in Conns : Sound(conn[c])' BY <2>1 DEF Sound, ProxyIInv
  <2> QED BY <2>1, <2>2, <2>3, <2>5, <2>6, <2>7 DEF ProxyIInv
<1>4. CASE ListenerCloses
  <2>1. /\ outer = "ready" /\ outer' = "closing"
        /\ conn' = [c \in Conns |-> IF conn[c].pc = "queue" THEN Off ELSE conn[c]]
        /\ UNCHANGED <<mitm, active, wasPassive, sem, acceptor, tracked, cancelled, sd, drain,
                       expired, vetted>>
    BY <1>4 DEF ListenerCloses
  <2>2. \A c \in Conns : conn'[c] = conn[c] \/ (conn[c].pc = "queue" /\ conn'[c] = Off) BY <2>1
  <2>3. conn' \in [Conns -> ConnType] BY <1>1, <2>1, Places DEF Types
  <2>4. Types' BY <1>1, <2>1, <2>3 DEF Types
  <2>5. In(OpenPcs)' = In(OpenPcs) /\ In(HeldPcs)' = In(HeldPcs) BY <2>2, Places DEF In
  <2>6. \A c \in Conns : Sound(conn[c])'
    <3> SUFFICES ASSUME NEW c \in Conns PROVE Sound(conn[c])' OBVIOUS
    <3>1. Sound(conn[c]) BY DEF ProxyIInv
    <3>2. CASE conn'[c] = conn[c] BY <2>1, <3>1, <3>2 DEF Sound
    <3>3. CASE conn'[c] = Off BY <3>3, Places DEF Sound
    <3> QED BY <2>2, <3>2, <3>3
  <2>7. Stages' BY <1>1, <2>1 DEF Stages
  <2>8. sem' = Cardinality(In(OpenPcs)') + IF acceptor' = "accept" THEN 1 ELSE 0
    BY <2>1, <2>5 DEF ProxyIInv
  <2> QED BY <2>1, <2>4, <2>5, <2>6, <2>7, <2>8 DEF ProxyIInv
<1> QED BY <1>3, <1>4

\* Every step of the filter keeps the invariant.
LEMMA ProxyStep ==
  ASSUME ProxyAssumption, ProxyIInv, [Next]_vars
  PROVE  ProxyIInv'
<1>1. vetted = TRUE BY DEF ProxyIInv
<1>2. ASSUME NEW c \in Conns, Handler(c) PROVE ProxyIInv' BY <1>2, HandlerStep
<1>3. ASSUME NEW c \in Conns, Watch(c) PROVE ProxyIInv'
  BY <1>1, <1>3, ClosesTracked DEF Watch
<1>4. ASSUME NEW c \in Conns, Environment(c) PROVE ProxyIInv' BY <1>4, EnvironmentStep
<1>5. ASSUME NEW c \in Conns, Accept(c) PROVE ProxyIInv' BY <1>5, Accepts
<1>6. ASSUME NEW c \in Conns, CloseIdle(c) PROVE ProxyIInv'
  BY <1>1, <1>6, ClosesOuter, Places DEF CloseIdle
<1>7. CASE UNCHANGED vars
  BY <1>7 DEF vars, ProxyIInv, Types, Sound, Stages, In
<1>8. CASE TakeSlot \/ AcceptFails \/ ListenerCloses BY <1>8, LoopStep
<1>9. CASE SetMode \/ ShutdownBegins \/ ShuttingDown \/ OuterDone \/ ContextExpires
  BY <1>9, StageStep
<1> QED BY <1>2, <1>3, <1>4, <1>5, <1>6, <1>7, <1>8, <1>9, Zenon
        DEF Next, AcceptLoop, OuterShutdown

\* The invariant holds of the filter from its start on.
THEOREM ProxyInvariance == Spec => []ProxyIInv
<1>1. ASSUME Init PROVE ProxyIInv
  <2>1. conn = [c \in Conns |-> Off] /\ sem = 0 /\ acceptor = "loop" /\ tracked = 0
    BY <1>1 DEF Init
  <2>2. In(OpenPcs) = {} /\ In(HeldPcs) = {} BY <2>1, Places DEF In
  <2>3. Cardinality({}) = 0 BY FS_EmptySet
  <2>4. MaxConns \in Nat /\ mitm \in BOOLEAN BY <1>1, ProxyAssumption DEF Init, ProxyAssumption
  <2>5. conn \in [Conns -> ConnType] BY <2>1, Places
  <2>6. active \in BOOLEAN /\ wasPassive \in BOOLEAN
    <3>1. active \in BOOLEAN /\ wasPassive = ~active BY <1>1 DEF Init
    <3>2. (~active) \in BOOLEAN OBVIOUS
    <3> QED BY <3>1, <3>2, Zenon
  <2>7. Types
    <3>1. cancelled = FALSE /\ expired = FALSE /\ sd = "none" /\ outer = "off" /\ drain = "off"
      BY <1>1 DEF Init
    <3>2. sem \in 0 .. MaxConns BY <2>1, <2>4
    <3> QED BY <2>1, <2>4, <2>5, <2>6, <3>1, <3>2 DEF Types
  <2>8. \A c \in Conns : Sound(conn[c]) BY <1>1, Places DEF Init, Sound
  <2>9. sem = Cardinality(In(OpenPcs)) + (IF acceptor = "accept" THEN 1 ELSE 0)
        /\ tracked = Cardinality(In(HeldPcs))
    BY <2>1, <2>2, <2>3
  <2>10. Stages /\ (~active => wasPassive) /\ vetted = TRUE BY <1>1 DEF Init, Stages
  <2> QED BY <2>7, <2>8, <2>9, <2>10 DEF ProxyIInv
<1>2. ProxyIInv /\ [Next]_vars => ProxyIInv' BY ProxyAssumption, ProxyStep
<1> QED BY <1>1, <1>2, PTL DEF Spec

\* Type correctness of the filter's state: the semaphore stays within the limit
\* of http.max_connections and the WaitGroup never goes negative, which would
\* panic (sem, activeConns).
THEOREM TypeCorrect == Spec => []TypeOK
<1>1. ProxyIInv => TypeOK
  <2>1. ASSUME ProxyIInv PROVE TypeOK
    <3>1. Cardinality(In(HeldPcs)) \in Nat /\ Cardinality(In(HeldPcs)) <= Cardinality(Conns)
      BY ProxyAssumption, Finite
    <3>2. Cardinality(Conns) \in Nat
      BY ProxyAssumption, FS_CardinalityType DEF ProxyAssumption
    <3>3. tracked \in 0 .. Cardinality(Conns) BY <2>1, <3>1, <3>2 DEF ProxyIInv
    <3>4. vetted \in BOOLEAN BY <2>1 DEF ProxyIInv
    <3> QED BY <2>1, <3>3, <3>4 DEF ProxyIInv, Types, TypeOK, ConnType
  <2> QED BY <2>1
<1> QED BY <1>1, ProxyInvariance, PTL

\* limitedListener's semaphore counts the open connections, each once, whatever
\* path each of them ends by: no slot leaks and none is released twice.
THEOREM LimitExact == Spec => []SlotsExact
<1>1. ProxyIInv => SlotsExact BY DEF ProxyIInv, SlotsExact, Open, OpenPcs
<1> QED BY <1>1, ProxyInvariance, PTL

\* No upstream is reached that decideConnect, decideRequest and dialControl did
\* not let through, and no established session keeps an earlier phase's deadline.
THEOREM SessionsVetted == Spec => []SessionsSound
<1>1. ProxyIInv => SessionsSound
  BY DEF ProxyIInv, Sound, Clear, In, SessionsSound, VettedOnly, NoStaleDeadline
<1> QED BY <1>1, ProxyInvariance, PTL

\* A Shutdown that returns without error and in time leaves no connection to the
\* outer server, and of the tunnels and intercepted sessions only those that
\* reached trackConn when it already waited. The upgraded streams of
\* forward-proxy requests, which activeConns does not count, are not claimed.
THEOREM DrainedOnReturn == Spec => []ReturnsDrained
<1>1. ProxyIInv => ReturnsDrained
  <2>1. ASSUME ProxyIInv, sd = "ok", ~expired
        PROVE  In(Outer) = {} /\ \A c \in In(Tracked) : conn[c].late
    <3>1. outer = "ok" /\ drain = "done" BY <2>1 DEF ProxyIInv, Stages
    <3> QED BY <2>1, <3>1 DEF ProxyIInv, Sound, In
  <2> QED BY <2>1 DEF ReturnsDrained
<1> QED BY <1>1, ProxyInvariance, PTL

\* A tunnel is closed only when both directions have ended or Shutdown has
\* cancelled it: copyHalf's half-close never truncates the other direction.
THEOREM TunnelsWhole == Spec => TunnelWhole
<1>1. ProxyIInv /\ [Next]_vars =>
        [\A c \in In({"copy"}) :
            conn'[c].pc # "copy" => cancelled \/ ~(conn[c].up \/ conn[c].down)]_vars
  <2> SUFFICES ASSUME ProxyIInv, Next, NEW k \in Conns, conn[k].pc = "copy", conn'[k].pc # "copy"
               PROVE  cancelled \/ ~(conn[k].up \/ conn[k].down)
    BY DEF In
  <2>1. conn \in [Conns -> ConnType] /\ ~conn[k].deadline
    BY Places DEF ProxyIInv, Types, Sound
  <2>2. ASSUME NEW c \in Conns, Handler(c) \/ Watch(c) \/ Environment(c) \/ Accept(c) \/ CloseIdle(c)
        PROVE  c = k
    <3>1. ASSUME NEW r, conn' = [conn EXCEPT ![c] = r] PROVE c = k
      BY <2>1, <3>1
    <3>2. \E r : conn' = [conn EXCEPT ![c] = r]
      <4>1. CASE CloseOuter(c) \/ CloseTracked(c) \/ Answered(c)
        BY <4>1 DEF CloseOuter, CloseTracked, Answered
      <4>2. ASSUME NEW p, Goto(c, p) PROVE \E r : conn' = [conn EXCEPT ![c] = r]
        BY <4>2 DEF Goto
      <4>3. CASE Handler(c) /\ ~(CloseOuter(c) \/ CloseTracked(c) \/ Answered(c))
        BY <4>2, <4>3 DEF Handler, DialUpstream, Hijack, trackConn, Ack, Certify, Handshake,
                          TunnelReturns, CloseDone
      <4>4. CASE Environment(c) /\ ~(CloseOuter(c) \/ CloseTracked(c) \/ Answered(c))
        BY <4>2, <4>4 DEF Environment, ClientConnects, Leave, SessionEnds, DeadlineFires,
                          ProxyForward, RelayEnds, decideConnect, decideForward, decideInner, CopyEnds
      <4> QED BY <2>2, <4>1, <4>3, <4>4 DEF Watch, Accept, CloseIdle
    <3> QED BY <3>1, <3>2
  <2>3. CASE Handler(k) BY <2>1, <2>3 DEF Handler, DialUpstream, Hijack, trackConn, Ack, Certify,
                                         Handshake, TunnelReturns, CloseDone
  <2>4. CASE Environment(k)
    <3>1. PICK dir \in {"up", "down"} : CopyEnds(k, dir)
      BY <2>1, <2>4 DEF Environment, ClientConnects, Leave, SessionEnds, DeadlineFires,
                        ProxyForward, RelayEnds, decideConnect, decideForward, decideInner
    <3>2. conn[k] \in ConnType BY <2>1
    <3>3. CASE conn' = [conn EXCEPT ![k].up = FALSE] BY <2>1, <3>2, <3>3 DEF ConnType
    <3>4. CASE conn' = [conn EXCEPT ![k].down = FALSE] BY <2>1, <3>2, <3>4 DEF ConnType
    <3> QED BY <3>1, <3>3, <3>4 DEF CopyEnds
  <2>5. CASE Watch(k) \/ Accept(k) \/ CloseIdle(k) BY <2>5 DEF Watch, Accept, CloseIdle
  <2>6. CASE ListenerCloses BY <2>6 DEF ListenerCloses
  <2>7. CASE conn' = conn BY <2>7
  <2>8. CASE TakeSlot \/ AcceptFails \/ OuterDone \/ SetMode \/ ShutdownBegins \/ ShuttingDown
             \/ ContextExpires
    BY <2>7, <2>8 DEF TakeSlot, AcceptFails, OuterDone, SetMode, ShutdownBegins, ShuttingDown,
         HijackCancel, CleanupJoined, DrainBegins, DrainWaits, DrainJoined, ShutdownReturns,
         ContextExpires, connVars
  <2> QED BY <2>2, <2>3, <2>4, <2>5, <2>6, <2>8, Zenon DEF Next, AcceptLoop, OuterShutdown
<1> QED BY <1>1, ProxyInvariance, PTL DEF Spec, TunnelWhole
=============================================================================
