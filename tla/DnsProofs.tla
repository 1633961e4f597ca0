----------------------------- MODULE DnsProofs ------------------------------
(***************************************************************************)
(* Proofs about Dns, for any number of queries in flight, any mode         *)
(* switches, any reloads and any answers of the upstream.                  *)
(***************************************************************************)
EXTENDS Dns, FiniteSetTheorems, TLAPS

DnsSpec == DnsInit /\ [][DnsNext]_dnsVars

QueryType == [at : Stations, ask : AskType, ans : AnswerType, sent : Replies,
              sawPassive : BOOLEAN, sawListed : BOOLEAN]
VerdictType == [allow : 0..1, block : 0..2]

\* What fits the client that asked.
Fits(r) ==
    /\ r.ask.net = "tcp" => r.sent \notin {"cut", "truncated"}
    /\ r.ask.net = "udp" /\ r.sent \in {"full", "truncated"} =>
           r.ans.size <= r.ask.room /\ r.ans.size <= 1

\* A query and its verdicts, whatever else goes on.
QueryOK(r, t) ==
    /\ r.at = "none" => r.sent = "nothing"
    /\ r.at # "done" => r.sent = "nothing" /\ t.allow = 0 /\ t.block = 0
    /\ r.at \in {"udp", "tcp", "vet"} \/ r.sent \in Passed => r.sawListed \/ r.sawPassive
    /\ r.sent \in Passed => Fits(r) /\ ~checkRebinding(r.ans)
    /\ r.at = "done" => t.allow + t.block <= 1 /\ (t.allow = 1 <=> r.sent \in Passed)

\* A handler under way has seen the mode and the allowlist that are in force: the
\* loads it has still to do find nothing it did not see.
Saw(r) ==
    r.at \notin {"none", "done"} => /\ ~active => r.sawPassive
                                    /\ r.ask.name \in listed => r.sawListed

DnsIInv ==
    /\ active \in BOOLEAN
    /\ q \in [Queries -> QueryType]
    /\ traffic \in [Queries -> VerdictType]
    /\ \A i \in Queries : QueryOK(q[i], traffic[i]) /\ Saw(q[i])
    /\ daemon \in {"new", "udp", "down"} => InFlight = {}
    /\ daemon \in {"new", "down"} => ports = {}

-----------------------------------------------------------------------------

\* No query has been asked and no listener is bound.
LEMMA DnsInitial ==
  ASSUME DnsInit
  PROVE  DnsIInv
<1>1. Idle \in QueryType
  BY DEF Idle, QueryType, Stations, Replies, NoAsk, NoAnswer, AskType, AnswerType
<1>2. [allow |-> 0, block |-> 0] \in VerdictType BY DEF VerdictType
<1>3. \A i \in Queries : q[i] = Idle /\ traffic[i] = [allow |-> 0, block |-> 0]
  BY DEF DnsInit
<1>4. \A i \in Queries : QueryOK(q[i], traffic[i]) /\ Saw(q[i])
  BY <1>3 DEF QueryOK, Saw, Idle, Passed
<1>5. InFlight = {} BY <1>3 DEF InFlight, Idle
<1> QED BY <1>1, <1>2, <1>4, <1>5 DEF DnsIInv, DnsInit

\* A step of one query's handler leaves the others' alone, and the daemon's state.
LEMMA HandlerStep ==
  ASSUME DnsIInv, NEW i \in Queries, NEW r \in QueryType, NEW t \in VerdictType,
         q' = [q EXCEPT ![i] = r], traffic' = [traffic EXCEPT ![i] = t],
         UNCHANGED Others, daemon \notin {"new", "udp", "down"},
         QueryOK(r, t), Saw(r)
  PROVE  DnsIInv'
<1>1. /\ q' \in [Queries -> QueryType] /\ traffic' \in [Queries -> VerdictType]
      /\ q'[i] = r /\ traffic'[i] = t
      /\ \A j \in Queries \ {i} : q'[j] = q[j] /\ traffic'[j] = traffic[j]
  BY DEF DnsIInv
<1>2. UNCHANGED <<daemon, ports, active, listed>> BY DEF Others
<1>3. \A j \in Queries : QueryOK(q'[j], traffic'[j]) BY <1>1 DEF DnsIInv
<1>4. \A j \in Queries : Saw(q[j])' BY <1>1, <1>2 DEF DnsIInv, Saw
<1>5. \A j \in Queries : QueryOK(q[j], traffic[j])'
  BY <1>3 DEF QueryOK, Fits, checkRebinding, IsBlocked, Passed
<1> QED BY <1>1, <1>2, <1>4, <1>5 DEF DnsIInv

\* A handler under way keeps the daemon up.
LEMMA InFlightUp ==
  ASSUME DnsIInv, NEW i \in Queries, q[i].at \notin {"none", "done"}
  PROVE  daemon \notin {"new", "udp", "down"}
BY DEF DnsIInv, InFlight

\* Moving on inside the handler, with nothing sent and nothing logged.
LEMMA StepKeeps ==
  ASSUME DnsIInv, NEW i \in Queries, NEW at \in Stations \ {"none", "done"},
         q[i].at \notin {"none", "done"}, Step(i, at),
         at \in {"udp", "tcp", "vet"} => q[i].sawListed \/ q[i].sawPassive,
         UNCHANGED traffic, UNCHANGED Others
  PROVE  DnsIInv'
<1> DEFINE r == [q[i] EXCEPT !.at = at]
<1>1. q[i] \in QueryType /\ traffic[i] \in VerdictType
      /\ QueryOK(q[i], traffic[i]) /\ Saw(q[i])
  BY DEF DnsIInv
<1>2. /\ r \in QueryType /\ r.at = at /\ r.ask = q[i].ask /\ r.ans = q[i].ans
      /\ r.sent = q[i].sent /\ r.sawPassive = q[i].sawPassive
      /\ r.sawListed = q[i].sawListed
  BY <1>1 DEF QueryType
<1>3. q' = [q EXCEPT ![i] = r] BY DEF Step
<1>4. traffic' = [traffic EXCEPT ![i] = traffic[i]] BY DEF DnsIInv
<1> HIDE DEF r
<1>5. QueryOK(r, traffic[i]) BY <1>1, <1>2 DEF QueryOK, Passed
<1>6. Saw(r) BY <1>1, <1>2 DEF Saw
<1> QED BY <1>1, <1>2, <1>3, <1>4, <1>5, <1>6, HandlerStep, InFlightUp

\* An answer of the handler's own that is not the upstream's, logged as a block
\* or not at all.
LEMMA RefuseKeeps ==
  ASSUME DnsIInv, NEW i \in Queries, NEW s \in Replies \ Passed,
         q[i].at \notin {"none", "done"}, Reply(i, s),
         UNCHANGED traffic \/ LogBlock(i), UNCHANGED Others
  PROVE  DnsIInv'
<1> DEFINE r == [q[i] EXCEPT !.at = "done", !.sent = s]
           t == IF LogBlock(i) THEN [traffic[i] EXCEPT !.block = @ + 1] ELSE traffic[i]
<1>1. q[i] \in QueryType /\ traffic[i] \in VerdictType
      /\ QueryOK(q[i], traffic[i]) /\ Saw(q[i])
  BY DEF DnsIInv
<1>2. /\ r \in QueryType /\ r.at = "done" /\ r.sent = s
  BY <1>1 DEF QueryType, Stations
<1>3. q' = [q EXCEPT ![i] = r] BY DEF Reply
<1>4. traffic[i].allow = 0 /\ traffic[i].block = 0 BY <1>1 DEF QueryOK
<1>5. t \in VerdictType /\ t.allow = 0 /\ t.block \in 0..1
  BY <1>1, <1>4 DEF VerdictType
<1>6. traffic' = [traffic EXCEPT ![i] = t] BY DEF DnsIInv, LogBlock
<1> HIDE DEF r, t
<1>7. QueryOK(r, t) BY <1>2, <1>5 DEF QueryOK, Passed
<1>8. Saw(r) BY <1>2 DEF Saw
<1> QED BY <1>2, <1>3, <1>5, <1>6, <1>7, <1>8, HandlerStep, InFlightUp

\* The upstream's answer is kept for the checks to come.
LEMMA AnswerKept ==
  ASSUME DnsAssumption, DnsIInv, NEW i \in Queries, NEW ans \in Answers, NEW at \in {"tcp", "vet"},
         q[i].at \in {"udp", "tcp"}, q' = [q EXCEPT ![i].ans = ans, ![i].at = at],
         UNCHANGED traffic, UNCHANGED Others
  PROVE  DnsIInv'
<1> DEFINE r == [q[i] EXCEPT !.ans = ans, !.at = at]
<1>1. q[i] \in QueryType /\ traffic[i] \in VerdictType
      /\ QueryOK(q[i], traffic[i]) /\ Saw(q[i])
  BY DEF DnsIInv
<1>2. /\ r \in QueryType /\ r.at = at /\ r.ask = q[i].ask
      /\ r.sent = q[i].sent /\ r.sawPassive = q[i].sawPassive
      /\ r.sawListed = q[i].sawListed
  BY <1>1 DEF QueryType, Stations, DnsAssumption
<1>3. q' = [q EXCEPT ![i] = r] OBVIOUS
<1>4. traffic' = [traffic EXCEPT ![i] = traffic[i]] BY DEF DnsIInv
<1> HIDE DEF r
<1>5. QueryOK(r, traffic[i]) BY <1>1, <1>2 DEF QueryOK, Passed
<1>6. Saw(r) BY <1>1, <1>2 DEF Saw
<1> QED BY <1>1, <1>2, <1>3, <1>4, <1>5, <1>6, HandlerStep, InFlightUp

\* prepareResponse makes an answer that fits the client; over TCP a truncated
\* one does not come this far.
LEMMA PrepareFits ==
  ASSUME NEW ask \in AskType, NEW ans \in AnswerType, ~(ask.net = "tcp" /\ ans.trunc)
  PROVE  /\ Prepare(ask, ans) \in Passed
         /\ ask.net = "tcp" => Prepare(ask, ans) = "full"
         /\ ask.net = "udp" /\ Prepare(ask, ans) # "cut" => ans.size <= ask.room /\ ans.size <= 1
BY DEF Prepare, Passed, AskType, AnswerType

\* The answer is passed on and logged as an allow.
LEMMA PassKeeps ==
  ASSUME DnsIInv, NEW i \in Queries, q[i].at = "vet",
         ~(q[i].ask.net = "tcp" /\ q[i].ans.trunc), ~checkRebinding(q[i].ans),
         Reply(i, Prepare(q[i].ask, q[i].ans)),
         traffic' = [traffic EXCEPT ![i].allow = 1], UNCHANGED Others
  PROVE  DnsIInv'
<1> DEFINE s == Prepare(q[i].ask, q[i].ans)
           r == [q[i] EXCEPT !.at = "done", !.sent = s]
           t == [traffic[i] EXCEPT !.allow = 1]
<1>1. q[i] \in QueryType /\ traffic[i] \in VerdictType
      /\ QueryOK(q[i], traffic[i]) /\ Saw(q[i])
  BY DEF DnsIInv
<1>2. q[i].ask \in AskType /\ q[i].ans \in AnswerType BY <1>1 DEF QueryType
<1>3. /\ s \in Passed
      /\ q[i].ask.net = "tcp" => s = "full"
      /\ q[i].ask.net = "udp" /\ s # "cut" =>
             q[i].ans.size <= q[i].ask.room /\ q[i].ans.size <= 1
  BY <1>2, PrepareFits
<1> HIDE DEF s
<1>4. s \in Replies BY <1>3 DEF Passed, Replies
<1>5. /\ r \in QueryType /\ r.at = "done" /\ r.sent = s /\ r.ask = q[i].ask /\ r.ans = q[i].ans
      /\ r.sawPassive = q[i].sawPassive /\ r.sawListed = q[i].sawListed
  BY <1>1, <1>4 DEF QueryType, Stations
<1>6. q' = [q EXCEPT ![i] = r] BY DEF Reply, s
<1>7. traffic[i].allow = 0 /\ traffic[i].block = 0 BY <1>1 DEF QueryOK
<1>8. t \in VerdictType /\ t.allow = 1 /\ t.block = 0 BY <1>1, <1>7 DEF VerdictType
<1>9. traffic' = [traffic EXCEPT ![i] = t] OBVIOUS
<1> HIDE DEF r, t
<1>10. Fits(r) BY <1>3, <1>5 DEF Fits, Passed
<1>11. QueryOK(r, t) BY <1>1, <1>3, <1>5, <1>8, <1>10 DEF QueryOK, Passed
<1>12. Saw(r) BY <1>5 DEF Saw
<1> QED BY <1>5, <1>6, <1>8, <1>9, <1>11, <1>12, HandlerStep, InFlightUp

\* A query arrives while the daemon is up, and its handler sees the mode and the
\* allowlist of that moment.
LEMMA ArriveKeeps ==
  ASSUME DnsAssumption, DnsIInv, NEW i \in Queries, NEW ask \in Asks, Arrive(i, ask)
  PROVE  DnsIInv'
<1> DEFINE new == [Idle EXCEPT !.ask = ask, !.sawPassive = ~active,
                               !.sawListed = ask.name \in listed]
<1>1. traffic[i] \in VerdictType /\ QueryOK(q[i], traffic[i]) /\ q[i].at = "none"
  BY DEF DnsIInv, Arrive
<1>2. traffic[i].allow = 0 /\ traffic[i].block = 0 BY <1>1 DEF QueryOK
<1>3. ask \in AskType BY DEF DnsAssumption
<1>4. /\ new \in QueryType /\ new.sent = "nothing" /\ new.ask = ask
      /\ new.sawPassive = ~active /\ new.sawListed = (ask.name \in listed)
  <2>1. \A b, c \in BOOLEAN :
           LET e == [Idle EXCEPT !.ask = ask, !.sawPassive = b, !.sawListed = c] IN
             /\ e \in QueryType /\ e.sent = "nothing" /\ e.ask = ask
             /\ e.sawPassive = b /\ e.sawListed = c
    <3>1. Idle \in QueryType /\ Idle.sent = "nothing"
      BY DEF Idle, QueryType, Stations, Replies, NoAsk, NoAnswer, AskType, AnswerType
    <3> QED BY <1>3, <3>1 DEF QueryType
  <2>2. (~active) \in BOOLEAN /\ (ask.name \in listed) \in BOOLEAN OBVIOUS
  <2> QED BY <2>1, <2>2, Zenon
<1>5. traffic' = [traffic EXCEPT ![i] = traffic[i]] BY DEF DnsIInv, Arrive
<1>6. daemon \notin {"new", "udp", "down"} /\ UNCHANGED Others BY DEF Arrive
<1>7. PICK at \in {"done", "mode"}, sent \in {"nothing", "formerr", "health"} :
         /\ q' = [q EXCEPT ![i] = [new EXCEPT !.at = at, !.sent = sent]]
         /\ at = "mode" => sent = "nothing"
  <2>1. ASSUME NEW s \in {"formerr", "health"},
               q' = [q EXCEPT ![i] = [new EXCEPT !.at = "done", !.sent = s]]
        PROVE  \E at \in {"done", "mode"}, sent \in {"nothing", "formerr", "health"} :
                 /\ q' = [q EXCEPT ![i] = [new EXCEPT !.at = at, !.sent = sent]]
                 /\ at = "mode" => sent = "nothing"
    BY <2>1
  <2>2. ASSUME q' = [q EXCEPT ![i] = [new EXCEPT !.at = "mode"]]
        PROVE  \E at \in {"done", "mode"}, sent \in {"nothing", "formerr", "health"} :
                 /\ q' = [q EXCEPT ![i] = [new EXCEPT !.at = at, !.sent = sent]]
                 /\ at = "mode" => sent = "nothing"
    <3>1. [new EXCEPT !.at = "mode"] = [new EXCEPT !.at = "mode", !.sent = "nothing"]
      BY <1>4 DEF Idle
    <3> QED BY <2>2, <3>1
  <2> QED BY <2>1, <2>2 DEF Arrive
<1> DEFINE r == [new EXCEPT !.at = at, !.sent = sent]
<1>8. /\ r \in QueryType /\ r.at = at /\ r.sent = sent /\ r.ask = ask
      /\ r.sawPassive = ~active /\ r.sawListed = (ask.name \in listed)
  BY <1>4 DEF QueryType, Stations, Replies
<1> HIDE DEF r, new
<1>9. QueryOK(r, traffic[i]) BY <1>2, <1>7, <1>8 DEF QueryOK, Passed
<1>10. Saw(r) BY <1>8 DEF Saw
<1> QED BY <1>1, <1>5, <1>6, <1>7, <1>8, <1>9, <1>10, HandlerStep DEF r

\* Every step of a handler keeps the invariant.
LEMMA HandleKeeps ==
  ASSUME DnsAssumption, DnsIInv, NEW i \in Queries, Handle(i)
  PROVE  DnsIInv'
<1>0. /\ active \in BOOLEAN /\ QueryOK(q[i], traffic[i]) /\ Saw(q[i])
      /\ "nodata" \in Replies \ Passed /\ "nxdomain" \in Replies \ Passed
      /\ "servfail" \in Replies \ Passed
  BY DEF DnsIInv, Replies, Passed
<1>1. CASE ReadMode(i)
  <2>1. PICK at \in {"type", "capture"} : Step(i, at) BY <1>1 DEF ReadMode
  <2> QED BY <1>1, <2>1, StepKeeps DEF ReadMode, Stations
<1>2. CASE Capture(i)
  BY <1>2, StepKeeps DEF Capture, Stations
<1>3. CASE CheckType(i)
  <2>1. CASE Reply(i, "nodata") /\ LogBlock(i)
    BY <1>0, <1>3, <2>1, RefuseKeeps DEF CheckType
  <2>2. CASE Step(i, "match") /\ UNCHANGED traffic
    BY <1>3, <2>2, StepKeeps DEF CheckType, Stations
  <2> QED BY <1>3, <2>1, <2>2 DEF CheckType
<1>4. CASE CheckAllowed(i)
  <2>1. CASE Reply(i, "nxdomain") /\ LogBlock(i)
    BY <1>0, <1>4, <2>1, RefuseKeeps DEF CheckAllowed
  <2>2. CASE Allows(i) /\ Step(i, "udp") /\ UNCHANGED traffic
    <3>1. q[i].sawListed \/ q[i].sawPassive BY <1>0, <1>4, <2>2 DEF Allows, Saw, CheckAllowed
    <3> QED BY <1>4, <2>2, <3>1, StepKeeps DEF CheckAllowed, Stations
  <2> QED BY <1>4, <2>1, <2>2 DEF CheckAllowed
<1>5. CASE Vet(i)
  <2>1. CASE Reply(i, "servfail") /\ (UNCHANGED traffic \/ LogBlock(i))
    BY <1>0, <1>5, <2>1, RefuseKeeps DEF Vet
  <2>2. CASE /\ ~(q[i].ask.net = "tcp" /\ q[i].ans.trunc) /\ ~checkRebinding(q[i].ans)
             /\ Reply(i, Prepare(q[i].ask, q[i].ans))
             /\ traffic' = [traffic EXCEPT ![i].allow = 1]
    BY <1>5, <2>2, PassKeeps DEF Vet
  <2> QED BY <1>5, <2>1, <2>2 DEF Vet
<1>6. ASSUME NEW ans \in Answers, ExchangeUDP(i, ans) PROVE DnsIInv'
  <2>1. CASE Reply(i, "servfail")
    BY <1>0, <1>6, <2>1, RefuseKeeps DEF ExchangeUDP
  <2>2. CASE q' = [q EXCEPT ![i].ans = ans, ![i].at = IF ans.trunc THEN "tcp" ELSE "vet"]
    BY <1>6, <2>2, AnswerKept DEF ExchangeUDP
  <2> QED BY <1>6, <2>1, <2>2 DEF ExchangeUDP
<1>7. ASSUME NEW ans \in Answers, ExchangeTCP(i, ans) PROVE DnsIInv'
  <2>1. CASE Step(i, "vet")
    <3>1. q[i].sawListed \/ q[i].sawPassive BY <1>0, <1>7 DEF QueryOK, ExchangeTCP
    <3> QED BY <1>7, <2>1, <3>1, StepKeeps DEF ExchangeTCP, Stations
  <2>2. CASE q' = [q EXCEPT ![i].ans = ans, ![i].at = "vet"]
    BY <1>7, <2>2, AnswerKept DEF ExchangeTCP
  <2> QED BY <1>7, <2>1, <2>2 DEF ExchangeTCP
<1> QED BY <1>1, <1>2, <1>3, <1>4, <1>5, <1>6, <1>7 DEF Handle

\* A mode switch or a reload is seen by every handler under way, and changes
\* nothing else of it.
LEMMA SeenKeeps ==
  ASSUME DnsIInv, NEW D \in SUBSET InFlight, NEW f \in {"sawPassive", "sawListed"},
         q' = [i \in Queries |-> IF i \in D THEN [q[i] EXCEPT ![f] = TRUE] ELSE q[i]],
         UNCHANGED <<daemon, ports, traffic>>, active' \in BOOLEAN,
         \A i \in InFlight : Saw(q[i])'
  PROVE  DnsIInv'
<1>1. ASSUME NEW i \in Queries
      PROVE  /\ q'[i] \in QueryType /\ q'[i].at = q[i].at /\ q'[i].ask = q[i].ask
             /\ q'[i].ans = q[i].ans /\ q'[i].sent = q[i].sent
             /\ q[i].sawPassive => q'[i].sawPassive
             /\ q[i].sawListed => q'[i].sawListed
  <2>1. q[i] \in QueryType BY DEF DnsIInv
  <2>2. CASE i \notin D BY <2>1, <2>2
  <2>3. CASE i \in D /\ f = "sawPassive"
    <3>1. q'[i] = [q[i] EXCEPT !.sawPassive = TRUE] BY <2>3
    <3> QED BY <2>1, <3>1 DEF QueryType
  <2>4. CASE i \in D /\ f = "sawListed"
    <3>1. q'[i] = [q[i] EXCEPT !.sawListed = TRUE] BY <2>4
    <3> QED BY <2>1, <3>1 DEF QueryType
  <2> QED BY <2>2, <2>3, <2>4
<1>2. q' \in [Queries -> QueryType] /\ InFlight' = InFlight
  BY <1>1 DEF InFlight
<1>3. \A i \in Queries : QueryOK(q[i], traffic[i])'
  <2>1. TAKE i \in Queries
  <2>2. QueryOK(q[i], traffic[i]) BY DEF DnsIInv
  <2> QED BY <1>1, <2>2 DEF QueryOK, Fits, checkRebinding, IsBlocked, Passed
<1>4. \A i \in Queries : Saw(q[i])' BY <1>1 DEF InFlight, Saw
<1> QED BY <1>2, <1>3, <1>4 DEF DnsIInv

\* Every step keeps the invariant.
LEMMA DnsStep ==
  ASSUME DnsAssumption, DnsIInv, [DnsNext]_dnsVars
  PROVE  DnsIInv'
<1>1. ASSUME UNCHANGED <<active, listed, q, traffic>>,
             daemon' \in {"new", "udp", "down"} => InFlight = {},
             daemon' \in {"new", "down"} => ports' = {}
      PROVE  DnsIInv'
  <2>1. InFlight' = InFlight BY <1>1 DEF InFlight
  <2>2. \A i \in Queries : QueryOK(q[i], traffic[i])' /\ Saw(q[i])'
    BY <1>1 DEF DnsIInv, QueryOK, Saw, Fits, checkRebinding, IsBlocked, Passed
  <2> QED BY <1>1, <2>1, <2>2 DEF DnsIInv
<1>2. CASE ListenUDP BY <1>1, <1>2 DEF ListenUDP, DnsIInv
<1>3. CASE ListenTCP BY <1>1, <1>3 DEF ListenTCP, DnsIInv
<1>4. CASE StartAPI BY <1>1, <1>4 DEF StartAPI
<1>5. CASE StopServing BY <1>1, <1>5 DEF StopServing
<1>6. CASE Exit BY <1>1, <1>6 DEF Exit
<1>7. ASSUME NEW p \in {"udp", "tcp"}, ShutdownPort(p) PROVE DnsIInv'
  BY <1>1, <1>7 DEF ShutdownPort
<1>8. ASSUME NEW b \in BOOLEAN, SetActive(b) PROVE DnsIInv'
  <2> DEFINE D == IF b THEN {} ELSE InFlight
  <2>1. q' = [i \in Queries |-> IF i \in D THEN [q[i] EXCEPT !["sawPassive"] = TRUE] ELSE q[i]]
    BY <1>8 DEF SetActive
  <2>2. active' = b /\ UNCHANGED <<daemon, ports, listed, traffic>> BY <1>8 DEF SetActive
  <2>3. \A i \in InFlight : Saw(q[i])'
    <3>1. TAKE i \in InFlight
    <3>2. i \in Queries /\ q[i] \in QueryType /\ Saw(q[i]) /\ q[i].at \notin {"none", "done"}
      BY DEF InFlight, DnsIInv
    <3>3. CASE b
      <4>1. q'[i] = q[i] BY <2>1, <3>2, <3>3
      <4> QED BY <2>2, <3>2, <3>3, <4>1 DEF Saw
    <3>4. CASE ~b
      <4>1. q'[i] = [q[i] EXCEPT !.sawPassive = TRUE] BY <2>1, <3>2, <3>4
      <4> QED BY <2>2, <3>2, <4>1 DEF Saw, QueryType
    <3> QED BY <3>3, <3>4
  <2> QED BY <2>1, <2>2, <2>3, SeenKeeps
<1>9. ASSUME NEW new \in SUBSET Names, ReloadList(new) PROVE DnsIInv'
  <2> DEFINE D == {i \in InFlight : q[i].ask.name \in new}
  <2>1. q' = [i \in Queries |-> IF i \in D THEN [q[i] EXCEPT !["sawListed"] = TRUE] ELSE q[i]]
    BY <1>9 DEF ReloadList
  <2>2. listed' = new /\ UNCHANGED <<daemon, ports, active, traffic>> BY <1>9 DEF ReloadList
  <2>3. \A i \in InFlight : Saw(q[i])'
    <3>1. TAKE i \in InFlight
    <3>2. i \in Queries /\ q[i] \in QueryType /\ Saw(q[i]) /\ q[i].at \notin {"none", "done"}
      BY DEF InFlight, DnsIInv
    <3>3. CASE i \notin D
      <4>1. q'[i] = q[i] BY <2>1, <3>2, <3>3
      <4> QED BY <2>2, <3>2, <3>3, <4>1 DEF Saw
    <3>4. CASE i \in D
      <4>1. q'[i] = [q[i] EXCEPT !.sawListed = TRUE] BY <2>1, <3>2, <3>4
      <4> QED BY <2>2, <3>2, <4>1 DEF Saw, QueryType
    <3> QED BY <3>3, <3>4
  <2>4. active' \in BOOLEAN BY <2>2 DEF DnsIInv
  <2> QED BY <2>1, <2>2, <2>3, <2>4, SeenKeeps
<1>10. CASE UNCHANGED dnsVars
  BY <1>1, <1>10 DEF dnsVars, DnsIInv
<1> QED
  BY <1>2, <1>3, <1>4, <1>5, <1>6, <1>7, <1>8, <1>9, <1>10, HandleKeeps, ArriveKeeps
  DEF DnsNext

-----------------------------------------------------------------------------
(* The counters.  A query that was counted owes a verdict until it is        *)
(* counted as allowed or blocked; one that failed upstream owes it for good. *)

Owes(i) ==
    \/ q[i].at \notin {"none", "done"}
    \/ q[i].sent = "servfail" /\ traffic[i].block = 0
Owing == {i \in Queries : Owes(i)}

Accounts ==
    /\ stats \in [total : Nat, allowed : Nat, blocked : Nat]
    /\ stats.total = stats.allowed + stats.blocked + Cardinality(Owing)

\* A step that concerns one query leaves what the others owe.
LEMMA OthersOwe ==
  ASSUME DnsIInv, DnsIInv', NEW i \in Queries,
         \A j \in Queries \ {i} : q'[j] = q[j] /\ traffic'[j] = traffic[j]
  PROVE  Owing' \ {i} = Owing \ {i}
BY DEF Owing, Owes

\* The books balance when a query is counted, settles its debt, or does neither.
LEMMA Balanced ==
  ASSUME DnsAssumption, Accounts, NEW i \in Queries, Owing' \ {i} = Owing \ {i},
         \/ /\ i \in Owing <=> i \in Owing'
            /\ \/ UNCHANGED stats
               \/ stats' = [stats EXCEPT !.total = @ + 1, !.allowed = @ + 1]
         \/ i \notin Owing /\ i \in Owing' /\ stats' = [stats EXCEPT !.total = @ + 1]
         \/ /\ i \in Owing /\ i \notin Owing'
            /\ \/ stats' = [stats EXCEPT !.allowed = @ + 1]
               \/ stats' = [stats EXCEPT !.blocked = @ + 1]
  PROVE  Accounts'
<1>1. IsFiniteSet(Owing) /\ IsFiniteSet(Owing')
  <2>1. Owing \subseteq Queries /\ Owing' \subseteq Queries BY DEF Owing
  <2> QED BY <2>1, FS_Subset DEF DnsAssumption
<1>2. Cardinality(Owing) \in Nat /\ Cardinality(Owing') \in Nat BY <1>1, FS_CardinalityType
<1>3. CASE i \in Owing <=> i \in Owing'
  <2>1. Owing' = Owing BY <1>3
  <2>2. CASE UNCHANGED stats BY <2>1, <2>2 DEF Accounts
  <2>3. CASE stats' = [stats EXCEPT !.total = @ + 1, !.allowed = @ + 1]
    <3> DEFINE a == [stats EXCEPT !.total = @ + 1]
    <3>1. stats' = [a EXCEPT !.allowed = @ + 1] BY <2>3, Zenon
    <3>2. /\ a \in [total : Nat, allowed : Nat, blocked : Nat]
          /\ a.total = stats.total + 1 /\ a.allowed = stats.allowed /\ a.blocked = stats.blocked
      BY DEF Accounts
    <3> HIDE DEF a
    <3>3. /\ stats'.total = stats.total + 1 /\ stats'.allowed = stats.allowed + 1
          /\ stats'.blocked = stats.blocked
          /\ stats' \in [total : Nat, allowed : Nat, blocked : Nat]
      BY <3>1, <3>2 DEF Accounts
    <3> QED BY <1>2, <2>1, <3>3 DEF Accounts
  <2> QED BY <1>3, <2>2, <2>3
<1>4. CASE i \notin Owing /\ i \in Owing'
  <2>1. Owing' = Owing \cup {i} BY <1>4
  <2>2. Cardinality(Owing') = Cardinality(Owing) + 1 BY <1>1, <1>4, <2>1, FS_AddElement
  <2> QED BY <1>2, <1>4, <2>2 DEF Accounts
<1>5. CASE i \in Owing /\ i \notin Owing'
  <2>1. Owing' = Owing \ {i} BY <1>5
  <2>2. Cardinality(Owing') = Cardinality(Owing) - 1 BY <1>1, <1>5, <2>1, FS_RemoveElement
  <2> QED BY <1>2, <1>5, <2>2 DEF Accounts
<1> QED BY <1>3, <1>4, <1>5

\* The counters balance after every step of a handler.
LEMMA HandleAccounts ==
  ASSUME DnsAssumption, DnsIInv, DnsIInv', Accounts, NEW i \in Queries, Handle(i)
  PROVE  Accounts'
<1>1. q[i].at \notin {"none", "done"} /\ i \in Owing
  BY DEF Handle, ReadMode, Capture, CheckType, CheckAllowed, Vet, ExchangeUDP, ExchangeTCP,
         Owing, Owes
<1>2. q[i].sent = "nothing" /\ traffic[i].block = 0 BY <1>1 DEF DnsIInv, QueryOK
<1>3. q \in [Queries -> QueryType] /\ traffic \in [Queries -> VerdictType] BY DEF DnsIInv
<1>4. ASSUME NEW at \in Stations \ {"none", "done"}, Step(i, at), UNCHANGED <<stats, traffic>>
      PROVE  Accounts'
  <2>1. \A j \in Queries \ {i} : q'[j] = q[j] /\ traffic'[j] = traffic[j]
    BY <1>3, <1>4 DEF Step
  <2>2. q'[i].at = at BY <1>3, <1>4 DEF Step, QueryType
  <2>3. i \in Owing' BY <2>2 DEF Owing, Owes
  <2> QED BY <1>1, <1>4, <2>1, <2>3, OthersOwe, Balanced
<1>5. ASSUME NEW ans, NEW at \in {"tcp", "vet"},
             q' = [q EXCEPT ![i].ans = ans, ![i].at = at], UNCHANGED <<stats, traffic>>
      PROVE  Accounts'
  <2>1. \A j \in Queries \ {i} : q'[j] = q[j] /\ traffic'[j] = traffic[j]
    BY <1>3, <1>5
  <2>2. q'[i].at = at BY <1>3, <1>5 DEF QueryType
  <2>3. i \in Owing' BY <2>2 DEF Owing, Owes
  <2> QED BY <1>1, <1>5, <2>1, <2>3, OthersOwe, Balanced
<1>6. ASSUME Reply(i, "servfail"), UNCHANGED <<stats, traffic>> PROVE Accounts'
  <2>1. \A j \in Queries \ {i} : q'[j] = q[j] /\ traffic'[j] = traffic[j]
    BY <1>3, <1>6 DEF Reply
  <2>2. q'[i].sent = "servfail" /\ traffic'[i].block = 0 BY <1>2, <1>3, <1>6 DEF Reply, QueryType
  <2>3. i \in Owing' BY <2>2 DEF Owing, Owes
  <2> QED BY <1>1, <1>6, <2>1, <2>3, OthersOwe, Balanced
<1>7. ASSUME NEW s, Reply(i, s), Count("blocked"), LogBlock(i) PROVE Accounts'
  <2>1. \A j \in Queries \ {i} : q'[j] = q[j] /\ traffic'[j] = traffic[j]
    BY <1>3, <1>7 DEF Reply, LogBlock
  <2>2. q'[i].at = "done" /\ traffic'[i].block = 1
    BY <1>2, <1>3, <1>7 DEF Reply, LogBlock, QueryType, VerdictType
  <2>3. i \notin Owing' BY <2>2 DEF Owing, Owes
  <2>4. stats' = [stats EXCEPT !.blocked = @ + 1] BY <1>7 DEF Count
  <2> QED BY <1>1, <2>1, <2>3, <2>4, OthersOwe, Balanced
<1>8. ASSUME Reply(i, Prepare(q[i].ask, q[i].ans)), Count("allowed"),
             traffic' = [traffic EXCEPT ![i].allow = 1]
      PROVE  Accounts'
  <2>1. \A j \in Queries \ {i} : q'[j] = q[j] /\ traffic'[j] = traffic[j]
    BY <1>3, <1>8 DEF Reply
  <2>2. q'[i].at = "done" /\ q'[i].sent = Prepare(q[i].ask, q[i].ans)
    BY <1>3, <1>8 DEF Reply, QueryType
  <2>3. Prepare(q[i].ask, q[i].ans) # "servfail" BY DEF Prepare
  <2>4. i \notin Owing' BY <2>2, <2>3 DEF Owing, Owes
  <2>5. stats' = [stats EXCEPT !.allowed = @ + 1] BY <1>8 DEF Count
  <2> QED BY <1>1, <2>1, <2>4, <2>5, OthersOwe, Balanced
<1>9. CASE ReadMode(i)
  <2>1. PICK at \in {"type", "capture"} : Step(i, at) BY <1>9 DEF ReadMode
  <2> QED BY <1>4, <1>9, <2>1 DEF ReadMode, Stations
<1>10. CASE Capture(i) BY <1>4, <1>10 DEF Capture, Stations
<1>11. CASE CheckType(i) BY <1>4, <1>7, <1>11 DEF CheckType, Stations
<1>12. CASE CheckAllowed(i) BY <1>4, <1>7, <1>12 DEF CheckAllowed, Stations
<1>13. CASE Vet(i) BY <1>6, <1>7, <1>8, <1>13 DEF Vet
<1>14. ASSUME NEW ans \in Answers, ExchangeUDP(i, ans) PROVE Accounts'
  BY <1>5, <1>6, <1>14 DEF ExchangeUDP
<1>15. ASSUME NEW ans \in Answers, ExchangeTCP(i, ans) PROVE Accounts'
  BY <1>4, <1>5, <1>15 DEF ExchangeTCP, Stations
<1> QED BY <1>9, <1>10, <1>11, <1>12, <1>13, <1>14, <1>15 DEF Handle

\* The counters balance when a query arrives: what is counted owes a verdict, or
\* is the healthcheck and gets it at once.
LEMMA ArriveAccounts ==
  ASSUME DnsAssumption, DnsIInv, DnsIInv', Accounts, NEW i \in Queries, NEW ask \in Asks,
         Arrive(i, ask)
  PROVE  Accounts'
<1>1. q \in [Queries -> QueryType] /\ UNCHANGED traffic BY DEF DnsIInv, Arrive
<1>2. q[i].sent = "nothing" /\ i \notin Owing
  BY DEF DnsIInv, QueryOK, Arrive, Owing, Owes
<1> DEFINE new == [Idle EXCEPT !.ask = ask, !.sawPassive = ~active,
                               !.sawListed = ask.name \in listed]
<1>3. \A j \in Queries \ {i} : q'[j] = q[j] /\ traffic'[j] = traffic[j]
  BY <1>1 DEF Arrive
<1>4. CASE q' = [q EXCEPT ![i] = [new EXCEPT !.at = "done", !.sent = "formerr"]] /\ UNCHANGED stats
  <2>1. q'[i].at = "done" /\ q'[i].sent = "formerr" BY <1>1, <1>4 DEF Idle
  <2>2. i \notin Owing' BY <2>1 DEF Owing, Owes
  <2> QED BY <1>2, <1>3, <1>4, <2>2, OthersOwe, Balanced
<1>5. CASE /\ q' = [q EXCEPT ![i] = [new EXCEPT !.at = "done", !.sent = "health"]]
           /\ stats' = [stats EXCEPT !.total = @ + 1, !.allowed = @ + 1]
  <2>1. q'[i].at = "done" /\ q'[i].sent = "health" BY <1>1, <1>5 DEF Idle
  <2>2. i \notin Owing' BY <2>1 DEF Owing, Owes
  <2> QED BY <1>2, <1>3, <1>5, <2>2, OthersOwe, Balanced
<1>6. CASE q' = [q EXCEPT ![i] = [new EXCEPT !.at = "mode"]] /\ Count("total")
  <2>1. q'[i].at = "mode" BY <1>1, <1>6 DEF Idle
  <2>2. i \in Owing' BY <2>1 DEF Owing, Owes
  <2>3. stats' = [stats EXCEPT !.total = @ + 1] BY <1>6 DEF Count
  <2> QED BY <1>2, <1>3, <2>2, <2>3, OthersOwe, Balanced
<1> QED BY <1>4, <1>5, <1>6 DEF Arrive

\* The counters balance after every step: mode switches, reloads and the daemon's
\* own steps leave them and the debts alone.
LEMMA AccountsStep ==
  ASSUME DnsAssumption, DnsIInv, DnsIInv', Accounts, [DnsNext]_dnsVars
  PROVE  Accounts'
<1>1. q \in [Queries -> QueryType] BY DEF DnsIInv
<1>2. ASSUME UNCHANGED <<stats, traffic>>,
             \A i \in Queries : q'[i].at = q[i].at /\ q'[i].sent = q[i].sent
      PROVE  Accounts'
  <2>1. Owing' = Owing BY <1>2 DEF Owing, Owes
  <2> QED BY <1>2, <2>1 DEF Accounts
<1>3. ASSUME UNCHANGED <<stats, traffic, q>> PROVE Accounts'
  BY <1>2, <1>3
<1>4. ASSUME NEW b \in BOOLEAN, SetActive(b) PROVE Accounts'
  <2>1. \A i \in Queries : q'[i].at = q[i].at /\ q'[i].sent = q[i].sent
    BY <1>1, <1>4 DEF SetActive, QueryType
  <2> QED BY <1>2, <1>4, <2>1 DEF SetActive
<1>5. ASSUME NEW new \in SUBSET Names, ReloadList(new) PROVE Accounts'
  <2>1. \A i \in Queries : q'[i].at = q[i].at /\ q'[i].sent = q[i].sent
    BY <1>1, <1>5 DEF ReloadList, QueryType
  <2> QED BY <1>2, <1>5, <2>1 DEF ReloadList
<1> QED
  BY <1>3, <1>4, <1>5, HandleAccounts, ArriveAccounts
  DEF DnsNext, dnsVars, ListenUDP, ListenTCP, StartAPI, StopServing, Exit, ShutdownPort

-----------------------------------------------------------------------------

\* ServeDNS loads the mode four times and the allowlist once while SetMode and
\* reloads go on: still no name goes upstream that was neither allowlisted nor
\* asked for in passive mode at some moment of its handling.
THEOREM ForwardsWithCause ==
  ASSUME DnsAssumption
  PROVE  DnsSpec => []ForwardedWithCause
<1>1. DnsIInv => ForwardedWithCause BY DEF DnsIInv, QueryOK, ForwardedWithCause
<1> QED BY DnsInitial, DnsStep, <1>1, PTL DEF DnsSpec

\* checkRebinding lies on every path to the guest.
THEOREM NeverRebinds ==
  ASSUME DnsAssumption
  PROVE  DnsSpec => []NoRebinding
<1>1. DnsIInv => NoRebinding BY DEF DnsIInv, QueryOK, NoRebinding, checkRebinding
<1> QED BY DnsInitial, DnsStep, <1>1, PTL DEF DnsSpec

\* ServeDNS logs one verdict for each query, and an allow exactly for the answers
\* it passes on.
THEOREM LogsOnce ==
  ASSUME DnsAssumption
  PROVE  DnsSpec => []LoggedOnce
<1>1. DnsIInv => LoggedOnce BY DEF DnsIInv, QueryOK, LoggedOnce
<1> QED BY DnsInitial, DnsStep, <1>1, PTL DEF DnsSpec

\* prepareResponse and the TCP check before it: what the guest gets fits it.
THEOREM AnswersFit ==
  ASSUME DnsAssumption
  PROVE  DnsSpec => []FitsClient
<1>1. DnsIInv => FitsClient
  BY DEF DnsIInv, QueryOK, FitsClient, Fits, Passed
<1> QED BY DnsInitial, DnsStep, <1>1, PTL DEF DnsSpec

\* However Start fails and Shutdown goes, a daemon that is down holds no listener
\* and left no query half handled.
THEOREM DownIsClean ==
  ASSUME DnsAssumption
  PROVE  DnsSpec => []DnsClosedClean
<1>1. DnsIInv => DnsClosedClean BY DEF DnsIInv, DnsClosedClean
<1> QED BY DnsInitial, DnsStep, <1>1, PTL DEF DnsSpec

\* The counters of ServeDNS add up whenever no query is in flight, whatever the
\* modes, the allowlist and the upstream did to the queries that were.
THEOREM CountersAddUp ==
  ASSUME DnsAssumption
  PROVE  DnsSpec => []DnsAccounted
<1>1. DnsInit => Accounts
  <2>1. ASSUME DnsInit PROVE Owing = {} BY <2>1 DEF DnsInit, Owing, Owes, Idle
  <2>2. Cardinality({}) = 0 BY FS_EmptySet
  <2> QED BY <2>1, <2>2 DEF DnsInit, Accounts
<1>2. DnsIInv /\ Accounts => DnsAccounted
  <2>1. ASSUME DnsIInv, InFlight = {}
        PROVE  Owing = {i \in Queries : q[i].sent = "servfail" /\ traffic[i].block = 0}
    BY <2>1 DEF Owing, Owes, InFlight
  <2> QED BY <2>1 DEF Accounts, DnsAccounted
<1> QED BY DnsInitial, DnsStep, AccountsStep, <1>1, <1>2, PTL DEF DnsSpec

\* All that the DNS filter promises, for any number of queries in flight.
THEOREM DnsCorrect ==
  ASSUME DnsAssumption
  PROVE  DnsSpec => []DnsSound
<1>1. DnsSound <=> /\ ForwardedWithCause /\ NoRebinding /\ FitsClient
                   /\ LoggedOnce /\ DnsAccounted /\ DnsClosedClean
  BY DEF DnsSound
<1> QED
  BY <1>1, ForwardsWithCause, NeverRebinds, AnswersFit, LogsOnce, CountersAddUp, DownIsClean, PTL
=============================================================================
