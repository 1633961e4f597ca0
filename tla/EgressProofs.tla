---------------------------- MODULE EgressProofs ----------------------------
(***************************************************************************)
(* Proof that Apply fails closed (DenyInForce of Egress), for any number   *)
(* of helpers, requests and policies on one bridge, any interleaving of    *)
(* their commands, any commands that fail, crashes and reloads.            *)
(***************************************************************************)
EXTENDS Egress, TLAPS

Clearing == {"applied", "flushNAT", "flushChain"}
StageType == [do : Clearing \cup {"redirect", "build", "refuse"},
              on : Chains \cup {"-", "udp", "tcp"}]
Fields == {"op", "policy", "todo", "at", "i", "listed", "err", "res"}

\* The commands of a stage.
Labels(do) ==
    CASE do = "applied"    -> {"probe"}
      [] do = "flushNAT"   -> {"listNAT", "deleteNAT"}
      [] do = "flushChain" -> {"findJump", "deleteJump", "findChain", "emptyChain", "deleteChain"}
      [] do = "redirect"   -> {"addNAT", "checkNAT"}
      [] do = "build"      -> {"newChain", "confirmChain", "clearChain", "appendRule",
                               "ensureJump", "insertJump"}
      [] OTHER             -> {"refuse"}

JumpLabels == {"ensureJump", "insertJump"}

\* What a request on this host works through.  Hopeless: IPv6 is live and cannot
\* be denied.
Hopeless == ~host.ip6tables /\ host.ipv6
Env == [managed |-> Managed, probes |-> [p \in Policies |-> Probes(p)], hopeless |-> Hopeless]

\* An Apply that has met no error.
Pending(j) == j.op = "apply" /\ ~j.err

\* The request is at a command of its first stage; alreadyApplied comes first, then
\* what clears, then what builds; what is not a pending Apply only clears.
Shaped(e, j) ==
    /\ j.todo \in Seq(StageType) /\ j.todo # <<>>
    /\ j.at \in Labels(j.todo[1].do)
    /\ \A k \in 2..Len(j.todo) : j.todo[k].do # "applied"
    /\ \A k, l \in 1..Len(j.todo) :
         k < l /\ j.todo[l].do \in Clearing => j.todo[k].do \in Clearing
    /\ \A k \in 1..Len(j.todo) :
         j.todo[k].do \in {"flushChain", "build"} => j.todo[k].on \in e.managed
    /\ ~Pending(j) => \A k \in 1..Len(j.todo) : j.todo[k].do \in Clearing

\* alreadyApplied is the first thing an Apply and all a Verify does.
Probing(e, j) ==
    /\ j.err => j.at # "probe"
    /\ j.op = "verify" => j.at = "probe"
    /\ j.at = "probe" =>
         /\ j.policy \in Policies
         /\ j.i \in 1..Len(e.probes[j.policy])
         /\ e.hopeless => \E k \in j.i..Len(e.probes[j.policy]) :
                            e.probes[j.policy][k].kind = "never"

\* A pending Apply that is still clearing has every chain to build before it.
Building(e, j) ==
    /\ j.policy \in Policies
    /\ j.todo[1].do \in Clearing =>
         \A c \in e.managed : \E k \in 1..Len(j.todo) : j.todo[k] = Stage("build", c)
    /\ e.hopeless => \E k \in 1..Len(j.todo) : j.todo[k].do = "refuse"
    /\ j.at \in {"newChain", "confirmChain", "clearChain"} => j.i = 1
    /\ j.at = "appendRule" => j.i \in 1..Len(Contents(j.todo[1].on, j.policy))

Sane(e, j, asked) ==
    /\ DOMAIN j = Fields
    /\ j.op \in {"idle", "apply", "remove", "verify"} /\ j.err \in BOOLEAN
    /\ j.op # "idle" => Shaped(e, j) /\ Probing(e, j)
    /\ j.op = "remove" => <<"remove", "-">> \in asked
    /\ Pending(j) => Building(e, j)

\* A request that will yet put the drop into chain c, or find it there.
OwesDrop(e, j, c) ==
    /\ Pending(j)
    /\ IF j.at = "probe"
       THEN \E k \in j.i..Len(e.probes[j.policy]) :
              e.probes[j.policy][k] = Rule("rule", c, <<"drop">>)
       ELSE \E k \in 1..Len(j.todo) :
              j.todo[k] = Stage("build", c) /\ (k = 1 => j.at \notin JumpLabels)

\* A request that will yet put the jump to chain c into its parent, or find it
\* there.
OwesJump(e, j, c) ==
    /\ Pending(j)
    /\ IF j.at = "probe"
       THEN \E k \in j.i..Len(e.probes[j.policy]) :
              e.probes[j.policy][k] = Rule("jump", c, <<>>)
       ELSE \E k \in 1..Len(j.todo) : j.todo[k] = Stage("build", c)

HasDrop(c) == chain[c] # Absent /\ <<"drop">> \in Range(chain[c])

\* What DenyInForce supposes of the epoch has failed, or is bound to.
Spoiled ==
    \/ epoch.asked = {}
    \/ ~(epoch.asked \subseteq Applies)
    \/ ~(epoch.res \subseteq {"ok"})
    \/ \E h \in Helpers : job[h].op = "apply" /\ job[h].err

Tables ==
    /\ host \in [ip6tables : BOOLEAN, ipv6 : BOOLEAN]
    /\ chain = [c \in Chains |-> chain[c]]
    /\ \A c \in Chains : chain[c] = Absent \/ chain[c] \in Seq(AllRules)
    /\ jumps \in [Chains -> Nat]
    /\ DOMAIN epoch = {"asked", "alone", "res", "whole"}
    /\ job = [h \in Helpers |-> job[h]]

Jobs == \A h \in Helpers : Sane(Env, job[h], epoch.asked)

\* A drop or a jump is there, or some Apply owes it: one that takes it away has
\* still to build the chain, and is not done before it is there again.
Debts ==
    \A c \in Managed :
      /\ Spoiled \/ HasDrop(c) \/ \E h \in Helpers : OwesDrop(Env, job[h], c)
      /\ Spoiled \/ jumps[c] > 0 \/ \E h \in Helpers : OwesJump(Env, job[h], c)

\* Where IPv6 cannot be denied no Apply answers ok.
NoFalseOk == Hopeless /\ epoch.asked \subseteq Applies => "ok" \notin epoch.res

EgressIInv == Tables /\ Jobs /\ Debts /\ NoFalseOk

-----------------------------------------------------------------------------
(* Sequences.                                                              *)

\* Appending keeps what is there and adds the element.
LEMMA AppendSet ==
  ASSUME NEW S, NEW s \in Seq(S), NEW x \in S
  PROVE  x \in Range(Append(s, x)) /\ Range(s) \subseteq Range(Append(s, x))
<1> DEFINE t == Append(s, x)
<1>1. /\ t \in Seq(S) /\ Len(t) = Len(s) + 1 /\ t[Len(s) + 1] = x
      /\ \A i \in 1..Len(s) : t[i] = s[i]
  OBVIOUS
<1>2. DOMAIN t = 1..(Len(s) + 1) /\ DOMAIN s = 1..Len(s) /\ Len(s) \in Nat BY <1>1
<1> HIDE DEF t
<1>3. x \in {t[i] : i \in DOMAIN t} BY <1>1, <1>2
<1>4. ASSUME NEW y \in {s[i] : i \in DOMAIN s} PROVE y \in {t[i] : i \in DOMAIN t}
  <2>1. PICK i \in DOMAIN s : y = s[i] BY <1>4
  <2>2. i \in DOMAIN t /\ t[i] = y BY <2>1, <1>1, <1>2
  <2> QED BY <2>2
<1> QED BY <1>3, <1>4 DEF Range, t

\* A chain's rules end in the drop.
LEMMA EndsInDrop ==
  ASSUME NEW c \in Chains, NEW p \in Policies
  PROVE  /\ Contents(c, p) \in Seq(AllRules) /\ Len(Contents(c, p)) \in {2, 6}
         /\ Contents(c, p)[Len(Contents(c, p))] = <<"drop">>
<1> DEFINE e == <<"established">>
           d == <<"drop">>
           u == <<"udp", p>>
           t == <<"tcp", p>>
           h == <<"http", p>>
           m == <<"icmp", p>>
<1>1. /\ e \in AllRules /\ d \in AllRules /\ u \in AllRules /\ t \in AllRules
      /\ h \in AllRules /\ m \in AllRules
  <2>1. \A k \in {"udp", "tcp", "http", "icmp"} : <<k, p>> \in AllRules BY DEF AllRules
  <2> QED BY <2>1 DEF AllRules
<1>2. Contents(c, p) = IF c = "in" THEN <<e, u, t, h, m, d>> ELSE <<e, d>>
  BY DEF Contents, Deny
<1> HIDE DEF e, d, u, t, h, m
<1>3. CASE c = "in" BY <1>1, <1>2, <1>3 DEF d
<1>4. CASE c # "in" BY <1>1, <1>2, <1>4 DEF d
<1> QED BY <1>3, <1>4

\* The host's means decide what there is to work through, and do not change.
LEMMA EnvKept ==
  ASSUME UNCHANGED host
  PROVE  Env' = Env /\ Managed' = Managed /\ Hopeless' = Hopeless
<1>1. Chains6' = Chains6 BY DEF Chains6
<1>2. Managed' = Managed BY <1>1 DEF Managed, Chains4
<1>3. Hopeless' = Hopeless BY DEF Hopeless
<1>4. [p \in Policies |-> Probes(p)]' = [p \in Policies |-> Probes(p)]
  BY DEF Probes, ProbesOf
<1> QED BY <1>2, <1>3, <1>4 DEF Env

-----------------------------------------------------------------------------
(* One helper's step.                                                      *)

\* Helper h moves; the host and the other helpers do not.
Moves(h) ==
    /\ UNCHANGED host
    /\ job' = [g \in Helpers |-> job'[g]]
    /\ \A g \in Helpers \ {h} : job'[g] = job[g]
    /\ DOMAIN epoch' = DOMAIN epoch

\* The debts of helper h and what it takes away.
Settles(h) ==
    \A c \in Managed :
      /\ OwesDrop(Env, job[h], c) => OwesDrop(Env, job'[h], c) \/ HasDrop(c)' \/ Spoiled'
      /\ HasDrop(c) => HasDrop(c)' \/ OwesDrop(Env, job'[h], c) \/ Spoiled'
      /\ OwesJump(Env, job[h], c) => OwesJump(Env, job'[h], c) \/ jumps'[c] > 0 \/ Spoiled'
      /\ jumps[c] > 0 => jumps'[c] > 0 \/ OwesJump(Env, job'[h], c) \/ Spoiled'

\* What a step of a request has to show.
LEMMA HelperStep ==
  ASSUME EgressIInv, NEW h \in Helpers, Moves(h), Tables',
         epoch'.asked = epoch.asked, epoch.res \subseteq epoch'.res,
         Sane(Env, job'[h], epoch.asked),
         Spoiled => Spoiled',
         Hopeless /\ epoch.asked \subseteq Applies /\ "ok" \notin epoch.res => "ok" \notin epoch'.res,
         Settles(h)
  PROVE  EgressIInv'
<1>1. Env' = Env /\ Managed' = Managed /\ Hopeless' = Hopeless BY EnvKept DEF Moves
<1>2. \A g \in Helpers : Sane(Env', job'[g], epoch'.asked)
  BY <1>1 DEF EgressIInv, Jobs, Moves
<1>3. Jobs' BY <1>2 DEF Jobs
<1>4. ASSUME NEW c \in Managed
      PROVE  Spoiled' \/ HasDrop(c)' \/ \E g \in Helpers : OwesDrop(Env, job'[g], c)
  <2>1. Spoiled \/ HasDrop(c) \/ \E g \in Helpers : OwesDrop(Env, job[g], c)
    BY DEF EgressIInv, Debts
  <2>2. ASSUME NEW g \in Helpers, OwesDrop(Env, job[g], c)
        PROVE  Spoiled' \/ HasDrop(c)' \/ \E f \in Helpers : OwesDrop(Env, job'[f], c)
    <3>1. CASE g = h BY <2>2, <3>1 DEF Settles
    <3>2. CASE g # h BY <2>2, <3>2 DEF Moves
    <3> QED BY <3>1, <3>2
  <2> QED BY <2>1, <2>2 DEF Settles
<1>5. ASSUME NEW c \in Managed
      PROVE  Spoiled' \/ jumps'[c] > 0 \/ \E g \in Helpers : OwesJump(Env, job'[g], c)
  <2>1. Spoiled \/ jumps[c] > 0 \/ \E g \in Helpers : OwesJump(Env, job[g], c)
    BY DEF EgressIInv, Debts
  <2>2. ASSUME NEW g \in Helpers, OwesJump(Env, job[g], c)
        PROVE  Spoiled' \/ jumps'[c] > 0 \/ \E f \in Helpers : OwesJump(Env, job'[f], c)
    <3>1. CASE g = h BY <2>2, <3>1 DEF Settles
    <3>2. CASE g # h BY <2>2, <3>2 DEF Moves
    <3> QED BY <3>1, <3>2
  <2> QED BY <2>1, <2>2 DEF Settles
<1>6. Debts' BY <1>1, <1>4, <1>5 DEF Debts
<1>7. NoFalseOk' BY <1>1 DEF EgressIInv, NoFalseOk
<1> QED BY <1>3, <1>6, <1>7 DEF EgressIInv

-----------------------------------------------------------------------------
(* The stages of a request, and what alreadyApplied probes.                *)

\* Where the elements of a concatenation come from.
LEMMA Joined ==
  ASSUME NEW S, NEW s \in Seq(S), NEW t \in Seq(S)
  PROVE  /\ s \o t \in Seq(S) /\ Len(s \o t) = Len(s) + Len(t)
         /\ Len(s) \in Nat /\ Len(t) \in Nat
         /\ \A k \in 1..Len(s) : (s \o t)[k] = s[k]
         /\ \A k \in 1..Len(t) : (s \o t)[Len(s) + k] = t[k]
         /\ \A k \in 1..Len(s \o t) : k > Len(s) => k - Len(s) \in 1..Len(t)
                                                    /\ (s \o t)[k] = t[k - Len(s)]
OBVIOUS

\* The chains the host has, as a sequence and as a set.
LEMMA ChainList ==
  /\ Chains4 \o Chains6 \in Seq(Chains)
  /\ Managed \subseteq Chains
  /\ \A k \in 1..Len(Chains4 \o Chains6) : (Chains4 \o Chains6)[k] \in Managed
  /\ \A c \in Managed : \E k \in 1..Len(Chains4 \o Chains6) : (Chains4 \o Chains6)[k] = c
  /\ "in" \in Managed /\ "fwd" \in Managed
  /\ \A c \in Managed : c \in {"in", "fwd"} \/ (host.ip6tables /\ c \in {"in6", "fwd6"})
<1> DEFINE cs == Chains4 \o Chains6
<1>1. Chains4 \in Seq(Chains) /\ Len(Chains4) = 2 /\ Chains4[1] = "in" /\ Chains4[2] = "fwd"
  BY DEF Chains4, Chains
<1>2. /\ Chains6 \in Seq(Chains)
      /\ \A k \in 1..Len(Chains6) : host.ip6tables /\ Chains6[k] \in {"in6", "fwd6"}
  <2>1. CASE host.ip6tables
    <3>1. Chains6 = <<"in6", "fwd6">> BY <2>1 DEF Chains6
    <3> QED BY <2>1, <3>1 DEF Chains
  <2>2. CASE ~host.ip6tables
    <3>1. Chains6 = <<>> BY <2>2 DEF Chains6
    <3> QED BY <3>1
  <2> QED BY <2>1, <2>2
<1>3. /\ cs \in Seq(Chains) /\ Len(cs) = 2 + Len(Chains6) /\ Len(Chains6) \in Nat
      /\ \A k \in 1..2 : cs[k] = Chains4[k]
      /\ \A k \in 1..Len(cs) : k > 2 => k - 2 \in 1..Len(Chains6) /\ cs[k] = Chains6[k - 2]
  <2>1. /\ cs \in Seq(Chains) /\ Len(cs) = Len(Chains4) + Len(Chains6)
        /\ Len(Chains6) \in Nat
        /\ \A k \in 1..Len(Chains4) : cs[k] = Chains4[k]
        /\ \A k \in 1..Len(cs) : k > Len(Chains4) =>
             k - Len(Chains4) \in 1..Len(Chains6) /\ cs[k] = Chains6[k - Len(Chains4)]
    <3>1. Chains4 \in Seq(Chains) /\ Chains6 \in Seq(Chains) BY <1>1, <1>2
    <3> HIDE DEF cs
    <3> QED BY <3>1, Joined, Zenon DEF cs
  <2>2. Len(Chains4) = 2 BY <1>1
  <2> HIDE DEF cs
  <2> QED BY <2>1, <2>2
<1>4. Managed = {cs[k] : k \in 1..Len(cs)}
  <2>1. Managed = {cs[k] : k \in DOMAIN cs} BY DEF Managed, Range
  <2>2. DOMAIN cs = 1..Len(cs) BY <1>3
  <2> QED BY <2>1, <2>2
<1> HIDE DEF cs
<1>5. /\ 1 \in 1..Len(cs) /\ cs[1] = "in" /\ 2 \in 1..Len(cs) /\ cs[2] = "fwd"
      /\ \A k \in 1..Len(cs) : cs[k] \in {"in", "fwd"} \/ (host.ip6tables /\ cs[k] \in {"in6", "fwd6"})
  <2>1. \A k \in 1..Len(cs) : k = 1 \/ k = 2 \/ k > 2 BY <1>3
  <2>2. 1 \in 1..Len(cs) /\ 2 \in 1..Len(cs) BY <1>3
  <2>3. cs[1] = "in" /\ cs[2] = "fwd" BY <1>1, <1>3
  <2> QED BY <1>2, <1>3, <2>1, <2>2, <2>3
<1>6. Managed \subseteq Chains BY <1>3, <1>4
<1> QED BY <1>3, <1>4, <1>5, <1>6 DEF cs

\* A stage for each chain.
LEMMA PerChain ==
  ASSUME NEW do \in {"flushChain", "build"}
  PROVE  LET s == OnChains(do, Chains4 \o Chains6) IN
         /\ s \in Seq(StageType)
         /\ \A k \in 1..Len(s) : s[k].do = do /\ s[k].on \in Managed
         /\ \A c \in Managed : \E k \in 1..Len(s) : s[k] = Stage(do, c)
<1> DEFINE cs == Chains4 \o Chains6
           s == OnChains(do, cs)
<1>1. cs \in Seq(Chains) /\ DOMAIN cs = 1..Len(cs) /\ Len(cs) \in Nat BY ChainList
<1>2. /\ \A k \in 1..Len(cs) : cs[k] \in Managed
      /\ \A c \in Managed : \E k \in 1..Len(cs) : cs[k] = c
  BY ChainList
<1> HIDE DEF cs
<1>3. s = [k \in 1..Len(cs) |-> [do |-> do, on |-> cs[k]]] BY <1>1 DEF OnChains, Stage
<1>4. \A k \in 1..Len(cs) : [do |-> do, on |-> cs[k]] \in StageType
  BY <1>1 DEF StageType, Clearing
<1>5. s \in Seq(StageType) /\ Len(s) = Len(cs) BY <1>1, <1>3, <1>4
<1>6. \A k \in 1..Len(s) : s[k] = [do |-> do, on |-> cs[k]] BY <1>3, <1>5
<1> HIDE DEF s
<1>7. ASSUME NEW k \in 1..Len(s) PROVE s[k].do = do /\ s[k].on \in Managed
  <2>1. s[k] = [do |-> do, on |-> cs[k]] /\ cs[k] \in Managed BY <1>2, <1>5, <1>6
  <2> QED BY <2>1
<1>8. \A c \in Managed : \E k \in 1..Len(s) : s[k] = Stage(do, c)
  BY <1>2, <1>5, <1>6 DEF Stage
<1> QED BY <1>5, <1>7, <1>8 DEF s, cs

Has(s, x) == \E k \in 1..Len(s) : s[k] = x

\* An element of either part is one of the whole.
LEMMA JoinedHas ==
  ASSUME NEW S, NEW s \in Seq(S), NEW t \in Seq(S), NEW x, Has(s, x) \/ Has(t, x)
  PROVE  Has(s \o t, x)
<1> DEFINE w == s \o t
<1>1. /\ w \in Seq(S) /\ Len(w) = Len(s) + Len(t) /\ Len(s) \in Nat /\ Len(t) \in Nat
      /\ \A k \in 1..Len(s) : w[k] = s[k]
      /\ \A k \in 1..Len(t) : w[Len(s) + k] = t[k]
  OBVIOUS
<1> HIDE DEF w
<1>2. CASE Has(s, x)
  <2>1. PICK k \in 1..Len(s) : s[k] = x BY <1>2 DEF Has
  <2>2. k \in 1..Len(w) /\ w[k] = x BY <1>1, <2>1
  <2> QED BY <2>2 DEF Has, w
<1>3. CASE Has(t, x)
  <2>1. PICK k \in 1..Len(t) : t[k] = x BY <1>3 DEF Has
  <2>2. Len(s) + k \in 1..Len(w) /\ w[Len(s) + k] = x BY <1>1, <2>1
  <2> QED BY <2>2 DEF Has, w
<1> QED BY <1>2, <1>3

FlushStage == {x \in StageType : /\ x.do \in {"flushNAT", "flushChain"}
                                 /\ x.do = "flushChain" => x.on \in Managed}
BuildStage == {x \in StageType : /\ x.do \in {"redirect", "build", "refuse"}
                                 /\ x.do = "build" => x.on \in Managed}

\* flushNATRules, then flushChainRules and flushV6Chain for each chain.
LEMMA FlushStages ==
  Flush \in Seq(FlushStage) /\ Len(Flush) \in Nat \ {0} /\ Flush[1] = Stage("flushNAT", "-")
<1> DEFINE f == Stage("flushNAT", "-")
           P == OnChains("flushChain", Chains4 \o Chains6)
<1>1. f \in FlushStage BY DEF FlushStage, Stage, StageType, Clearing
<1>2. P \in Seq(StageType) /\ \A k \in 1..Len(P) : P[k].do = "flushChain" /\ P[k].on \in Managed
  BY PerChain
<1>3. Flush = <<f>> \o P BY DEF Flush
<1> HIDE DEF f, P
<1>4. P \in Seq(FlushStage)
  <2>1. \A k \in 1..Len(P) : P[k] \in FlushStage BY <1>2 DEF FlushStage
  <2> QED BY <1>2, <2>1
<1>5. <<f>> \in Seq(FlushStage) /\ Len(<<f>>) = 1 /\ <<f>>[1] = f BY <1>1
<1>6. Flush \in Seq(FlushStage) /\ Len(Flush) = 1 + Len(P) /\ Flush[1] = f
  BY <1>3, <1>4, <1>5
<1> QED BY <1>4, <1>6 DEF f

\* The redirects, then a chain after the other, then the refusal.
LEMMA BuildStages ==
  /\ Build \in Seq(BuildStage)
  /\ \A c \in Managed : Has(Build, Stage("build", c))
  /\ Hopeless => Has(Build, Stage("refuse", "-"))
<1> DEFINE r == <<Stage("redirect", "udp"), Stage("redirect", "tcp")>>
           P == OnChains("build", Chains4 \o Chains6)
           z == IF Hopeless THEN <<Stage("refuse", "-")>> ELSE <<>>
<1>1. r \in Seq(BuildStage)
  <2>1. Stage("redirect", "udp") \in BuildStage /\ Stage("redirect", "tcp") \in BuildStage
    BY DEF BuildStage, Stage, StageType, Clearing
  <2> QED BY <2>1
<1>2. /\ P \in Seq(StageType) /\ \A k \in 1..Len(P) : P[k].do = "build" /\ P[k].on \in Managed
      /\ \A c \in Managed : \E k \in 1..Len(P) : P[k] = Stage("build", c)
  BY PerChain, Zenon
<1>3. z \in Seq(BuildStage) /\ (Hopeless => Has(z, Stage("refuse", "-")))
  <2>1. Stage("refuse", "-") \in BuildStage BY DEF BuildStage, Stage, StageType, Clearing
  <2>2. CASE Hopeless
    <3> DEFINE x == Stage("refuse", "-")
    <3>1. z = <<x>> BY <2>2
    <3> HIDE DEF z, x
    <3>2. z \in Seq(BuildStage) /\ Len(z) = 1 /\ z[1] = x BY <2>1, <3>1 DEF x
    <3> QED BY <3>2 DEF Has, x
  <2>3. CASE ~Hopeless BY <2>3
  <2> QED BY <2>2, <2>3
<1>4. Build = (r \o P) \o z BY DEF Build, Hopeless
<1> HIDE DEF r, P, z
<1>5. P \in Seq(BuildStage)
  <2>1. \A k \in 1..Len(P) : P[k] \in BuildStage BY <1>2 DEF BuildStage
  <2> QED BY <1>2, <2>1
<1>6. r \o P \in Seq(BuildStage) BY <1>1, <1>5
<1>7. Build \in Seq(BuildStage) BY <1>3, <1>4, <1>6
<1>8. \A c \in Managed : Has(r \o P, Stage("build", c))
  <2>1. \A c \in Managed : Has(P, Stage("build", c)) BY <1>2 DEF Has
  <2> QED BY <1>1, <1>5, <2>1, JoinedHas, Zenon
<1> QED BY <1>3, <1>4, <1>6, <1>7, <1>8, JoinedHas, Zenon

ProbeType == [kind : {"nat", "jump", "rule", "never"}, on : Chains \cup {"-"},
              rule : AllRules \cup {<<>>}]

\* Of a chain, alreadyApplied probes the jump and every rule.
LEMMA ChainProbes ==
  ASSUME NEW c \in Chains, NEW p \in Policies
  PROVE  /\ ProbesOf(c, p) \in Seq(ProbeType)
         /\ Has(ProbesOf(c, p), Rule("jump", c, <<>>))
         /\ Has(ProbesOf(c, p), Rule("rule", c, <<"drop">>))
<1> DEFINE C == Contents(c, p)
           j == Rule("jump", c, <<>>)
           R == [i \in DOMAIN C |-> Rule("rule", c, C[i])]
<1>1. /\ C \in Seq(AllRules) /\ Len(C) \in Nat \ {0} /\ DOMAIN C = 1..Len(C)
      /\ C[Len(C)] = <<"drop">>
  <2>1. C \in Seq(AllRules) /\ Len(C) \in {2, 6} /\ C[Len(C)] = <<"drop">>
    BY EndsInDrop, Zenon
  <2> HIDE DEF C
  <2> QED BY <2>1
<1>2. ProbesOf(c, p) = <<j>> \o R BY DEF ProbesOf
<1> HIDE DEF C
<1>3. j \in ProbeType BY DEF ProbeType, Rule
<1>4. R \in Seq(ProbeType) /\ Has(R, Rule("rule", c, <<"drop">>))
  <2>1. \A i \in 1..Len(C) : Rule("rule", c, C[i]) \in ProbeType
    BY <1>1 DEF ProbeType, Rule
  <2>2. R = [i \in 1..Len(C) |-> Rule("rule", c, C[i])] BY <1>1
  <2> DEFINE Q == [i \in 1..Len(C) |-> Rule("rule", c, C[i])]
  <2>3. Q \in Seq(ProbeType) /\ Len(Q) = Len(C) BY <1>1, <2>1
  <2>4. Q[Len(C)] = Rule("rule", c, <<"drop">>) BY <1>1
  <2>5. Has(Q, Rule("rule", c, <<"drop">>))
    <3> HIDE DEF Q
    <3>1. Len(C) \in 1..Len(Q) BY <1>1, <2>3
    <3> QED BY <2>4, <3>1 DEF Has
  <2> QED BY <2>2, <2>3, <2>5
<1> HIDE DEF R, j
<1>5. <<j>> \in Seq(ProbeType) /\ Has(<<j>>, j) BY <1>3 DEF Has
<1>6. <<j>> \o R \in Seq(ProbeType) BY <1>4, <1>5
<1>7. Has(<<j>> \o R, j) BY <1>4, <1>5, JoinedHas, Zenon
<1>8. Has(<<j>> \o R, Rule("rule", c, <<"drop">>)) BY <1>4, <1>5, JoinedHas, Zenon
<1> QED BY <1>2, <1>6, <1>7, <1>8 DEF j

\* Every chain of the host is probed, and where IPv6 cannot be denied one probe
\* never succeeds.
LEMMA AllProbes ==
  ASSUME NEW p \in Policies
  PROVE  /\ Probes(p) \in Seq(ProbeType) /\ Len(Probes(p)) \in Nat \ {0}
         /\ \A c \in Managed : /\ Has(Probes(p), Rule("jump", c, <<>>))
                               /\ Has(Probes(p), Rule("rule", c, <<"drop">>))
         /\ Hopeless => Has(Probes(p), Rule("never", "-", <<>>))
<1> DEFINE n == <<Rule("nat", "-", <<"udp", p>>), Rule("nat", "-", <<"tcp", p>>)>>
           a == ProbesOf("in", p)
           b == ProbesOf("fwd", p)
           x == ProbesOf("in6", p)
           y == ProbesOf("fwd6", p)
           v == Rule("never", "-", <<>>)
           z == IF host.ip6tables THEN x \o y ELSE IF host.ipv6 THEN <<v>> ELSE <<>>
           drop(c) == Rule("rule", c, <<"drop">>)
           jump(c) == Rule("jump", c, <<>>)
<1>1. n \in Seq(ProbeType) /\ Len(n) = 2
  <2>1. /\ Rule("nat", "-", <<"udp", p>>) \in ProbeType
        /\ Rule("nat", "-", <<"tcp", p>>) \in ProbeType
    BY DEF ProbeType, Rule, AllRules
  <2> QED BY <2>1
<1>2. /\ a \in Seq(ProbeType) /\ Has(a, jump("in")) /\ Has(a, drop("in"))
      /\ b \in Seq(ProbeType) /\ Has(b, jump("fwd")) /\ Has(b, drop("fwd"))
      /\ x \in Seq(ProbeType) /\ Has(x, jump("in6")) /\ Has(x, drop("in6"))
      /\ y \in Seq(ProbeType) /\ Has(y, jump("fwd6")) /\ Has(y, drop("fwd6"))
  BY ChainProbes DEF Chains
<1>3. v \in ProbeType BY DEF ProbeType, Rule
<1>4. Probes(p) = ((n \o a) \o b) \o z BY DEF Probes
<1> HIDE DEF n, a, b, x, y, v
<1>5. /\ z \in Seq(ProbeType)
      /\ host.ip6tables => /\ Has(z, jump("in6")) /\ Has(z, drop("in6"))
                           /\ Has(z, jump("fwd6")) /\ Has(z, drop("fwd6"))
      /\ Hopeless => Has(z, v)
  <2>1. CASE host.ip6tables
    <3>1. z = x \o y /\ ~Hopeless BY <2>1 DEF Hopeless
    <3>2. x \o y \in Seq(ProbeType) BY <1>2
    <3>3. \A e : Has(x, e) \/ Has(y, e) => Has(x \o y, e) BY <1>2, JoinedHas, Zenon
    <3> QED BY <1>2, <3>1, <3>2, <3>3
  <2>2. CASE ~host.ip6tables /\ host.ipv6
    <3>1. z = <<v>> BY <2>2
    <3>2. <<v>> \in Seq(ProbeType) /\ Has(<<v>>, v) BY <1>3 DEF Has
    <3> QED BY <2>2, <3>1, <3>2
  <2>3. CASE ~host.ip6tables /\ ~host.ipv6
    BY <2>3 DEF Hopeless
  <2> QED BY <2>1, <2>2, <2>3
<1> HIDE DEF z
<1>6. n \o a \in Seq(ProbeType) /\ Len(n \o a) = Len(n) + Len(a) /\ Len(a) \in Nat
  BY <1>1, <1>2, Joined, Zenon
<1>7. /\ (n \o a) \o b \in Seq(ProbeType) /\ Len((n \o a) \o b) = Len(n \o a) + Len(b)
      /\ Len(b) \in Nat
  BY <1>2, <1>6, Joined, Zenon
<1>8. /\ Probes(p) \in Seq(ProbeType) /\ Len(Probes(p)) = Len((n \o a) \o b) + Len(z)
      /\ Len(z) \in Nat
  BY <1>4, <1>5, <1>7, Joined, Zenon
<1>9. \A e : Has(a, e) \/ Has(b, e) \/ Has(z, e) => Has(Probes(p), e)
  <2>1. \A e : Has(a, e) => Has(n \o a, e) BY <1>1, <1>2, JoinedHas, Zenon
  <2>2. \A e : Has(n \o a, e) \/ Has(b, e) => Has((n \o a) \o b, e)
    BY <1>2, <1>6, JoinedHas, Zenon
  <2>3. \A e : Has((n \o a) \o b, e) \/ Has(z, e) => Has(((n \o a) \o b) \o z, e)
    BY <1>5, <1>7, JoinedHas, Zenon
  <2> QED BY <1>4, <2>1, <2>2, <2>3
<1>10. ASSUME NEW c \in Managed PROVE Has(Probes(p), jump(c)) /\ Has(Probes(p), drop(c))
  <2>1. c \in {"in", "fwd"} \/ (host.ip6tables /\ c \in {"in6", "fwd6"}) BY ChainList
  <2> QED BY <1>2, <1>5, <1>9, <2>1
<1>11. Len(Probes(p)) \in Nat \ {0} BY <1>1, <1>6, <1>7, <1>8
<1> QED BY <1>5, <1>8, <1>9, <1>10, <1>11 DEF v

ClearStage == {x \in StageType : /\ x.do \in Clearing
                                 /\ x.do = "flushChain" => x.on \in Managed}

\* What clears comes first, what builds after it.
Ordered(s) == \A k, l \in 1..Len(s) : k < l /\ s[l].do \in Clearing => s[k].do \in Clearing
OnManaged(e, s) == \A k \in 1..Len(s) : s[k].do \in {"flushChain", "build"} => s[k].on \in e.managed
AllClear(s) == \A k \in 1..Len(s) : s[k].do \in Clearing

ProbesFirst(s) == \A k \in 2..Len(s) : s[k].do # "applied"

\* A sequence of clearing stages.
LEMMA OnlyClears ==
  ASSUME NEW s \in Seq(ClearStage)
  PROVE  s \in Seq(StageType) /\ Ordered(s) /\ OnManaged(Env, s) /\ AllClear(s)
<1>1. \A k \in 1..Len(s) : s[k] \in ClearStage OBVIOUS
<1>2. s \in Seq(StageType)
  <2>1. ClearStage \subseteq StageType BY DEF ClearStage
  <2> QED BY <2>1
<1>3. AllClear(s) BY <1>1 DEF AllClear, ClearStage
<1>4. OnManaged(Env, s) BY <1>1 DEF OnManaged, ClearStage, Env, Clearing
<1> QED BY <1>2, <1>3, <1>4 DEF Ordered, AllClear

\* The stages of Remove and of a rollback, and of Verify.
LEMMA ClearStages ==
  /\ Flush \in Seq(ClearStage) /\ Flush # <<>> /\ First(Flush[1]) = "listNAT"
  /\ Flush[1].do = "flushNAT" /\ \A k \in 1..Len(Flush) : Flush[k].do # "applied"
  /\ <<Stage("applied", "-")>> \in Seq(ClearStage)
<1>1. FlushStage \subseteq ClearStage BY DEF FlushStage, ClearStage, Clearing
<1>2. Flush \in Seq(ClearStage) BY <1>1, FlushStages
<1>3. Flush # <<>> BY FlushStages
<1>4. Stage("applied", "-") \in ClearStage BY DEF Stage, ClearStage, StageType, Clearing
<1>5. \A k \in 1..Len(Flush) : Flush[k].do # "applied"
  <2>1. \A k \in 1..Len(Flush) : Flush[k] \in FlushStage BY FlushStages
  <2> QED BY <2>1 DEF FlushStage
<1> QED BY <1>2, <1>3, <1>4, <1>5, FlushStages DEF First, Stage

\* The stages of Apply.
LEMMA ApplyStages ==
  /\ Stages("apply") \in Seq(StageType) /\ Stages("apply") # <<>>
  /\ Stages("apply")[1] = Stage("applied", "-")
  /\ Ordered(Stages("apply")) /\ OnManaged(Env, Stages("apply"))
  /\ ProbesFirst(Stages("apply"))
  /\ \A c \in Managed : Has(Stages("apply"), Stage("build", c))
  /\ Hopeless => Has(Stages("apply"), Stage("refuse", "-"))
<1> DEFINE a == <<Stage("applied", "-")>>
           f == a \o Flush
           s == f \o Build
<1>1. Stages("apply") = s BY DEF Stages
<1>2. a \in Seq(ClearStage) /\ Flush \in Seq(ClearStage) BY ClearStages
<1>3. Len(a) = 1 /\ a[1] = Stage("applied", "-") OBVIOUS
<1> HIDE DEF a
<1>4. /\ f \in Seq(ClearStage) /\ Len(f) = Len(a) + Len(Flush) /\ Len(Flush) \in Nat
      /\ \A k \in 1..Len(a) : f[k] = a[k]
      /\ \A k \in 1..Len(f) : k > Len(a) => k - Len(a) \in 1..Len(Flush)
                                            /\ f[k] = Flush[k - Len(a)]
  BY <1>2, Joined, Zenon
<1> HIDE DEF f
<1>5. f \in Seq(StageType) /\ OnManaged(Env, f) /\ AllClear(f) BY <1>4, OnlyClears
<1>6. Build \in Seq(StageType) /\ \A k \in 1..Len(Build) : Build[k] \in BuildStage
  <2>1. BuildStage \subseteq StageType BY DEF BuildStage
  <2> QED BY <2>1, BuildStages
<1>7. /\ s \in Seq(StageType) /\ Len(s) = Len(f) + Len(Build)
      /\ Len(f) \in Nat /\ Len(Build) \in Nat
      /\ \A k \in 1..Len(f) : s[k] = f[k]
      /\ \A k \in 1..Len(s) : k > Len(f) => k - Len(f) \in 1..Len(Build)
                                            /\ s[k] = Build[k - Len(f)]
  BY <1>5, <1>6, Joined, Zenon
<1>8. \A x : Has(Build, x) => Has(s, x) BY <1>5, <1>6, JoinedHas, Zenon
<1> HIDE DEF s
<1>9. \A k \in 1..Len(s) : k \in 1..Len(f) \/ (k > Len(f) /\ s[k] \in BuildStage)
  BY <1>6, <1>7
<1>10. \A x \in BuildStage : x.do \notin Clearing BY DEF BuildStage, Clearing
<1>11. Ordered(s)
  <2> SUFFICES ASSUME NEW k \in 1..Len(s), NEW l \in 1..Len(s), k < l, s[l].do \in Clearing
               PROVE  s[k].do \in Clearing
    BY DEF Ordered
  <2>1. l \in 1..Len(f) BY <1>9, <1>10
  <2>2. k \in 1..Len(f) BY <2>1, <1>7
  <2> QED BY <2>2, <1>5, <1>7 DEF AllClear
<1>12. OnManaged(Env, s)
  <2> SUFFICES ASSUME NEW k \in 1..Len(s), s[k].do \in {"flushChain", "build"}
               PROVE  s[k].on \in Managed
    BY DEF OnManaged, Env
  <2>1. CASE k \in 1..Len(f) BY <2>1, <1>5, <1>7 DEF OnManaged, Env
  <2>2. CASE s[k] \in BuildStage BY <2>2 DEF BuildStage
  <2> QED BY <2>1, <2>2, <1>9
<1>13. s # <<>> /\ s[1] = Stage("applied", "-") BY <1>3, <1>4, <1>7
<1>14. ProbesFirst(s)
  <2> SUFFICES ASSUME NEW k \in 2..Len(s) PROVE s[k].do # "applied" BY DEF ProbesFirst
  <2>1. k \in 1..Len(s) OBVIOUS
  <2>2. CASE k \in 1..Len(f)
    <3>1. k > Len(a) /\ k - Len(a) \in 1..Len(Flush) /\ s[k] = Flush[k - Len(a)]
      BY <1>3, <1>4, <1>7, <2>2
    <3> QED BY <3>1, ClearStages
  <2>3. CASE s[k] \in BuildStage BY <2>3 DEF BuildStage
  <2> QED BY <1>9, <2>1, <2>2, <2>3
<1> QED BY <1>1, <1>7, <1>8, <1>11, <1>12, <1>13, <1>14, BuildStages

\* A request begins sane; an Apply owes every chain.
LEMMA Starts ==
  /\ \A asked : \A p \in Policies :
       /\ Sane(Env, Start("apply", p), asked)
       /\ Sane(Env, Start("verify", p), asked)
       /\ \A c \in Managed : /\ OwesDrop(Env, Start("apply", p), c)
                             /\ OwesJump(Env, Start("apply", p), c)
  /\ \A asked : <<"remove", "-">> \in asked => Sane(Env, Start("remove", "-"), asked)
<1> DEFINE j(op, p) == Start(op, p)
<1>1. \A op, p : /\ DOMAIN j(op, p) = Fields /\ j(op, p).op = op /\ j(op, p).err = FALSE
                 /\ j(op, p).policy = p /\ j(op, p).i = 1
                 /\ j(op, p).todo = Stages(op) /\ j(op, p).at = First(Stages(op)[1])
  BY DEF Start, Idle, Fields
<1> HIDE DEF j
<1>7. \A op, p : j(op, p).err \in BOOLEAN /\ ~j(op, p).err BY <1>1, Zenon
<1>2. ASSUME NEW p \in Policies
      PROVE  /\ 1 \in 1..Len(Env.probes[p])
             /\ Env.hopeless => \E k \in 1..Len(Env.probes[p]) : Env.probes[p][k].kind = "never"
             /\ \A c \in Managed :
                  /\ \E k \in 1..Len(Env.probes[p]) : Env.probes[p][k] = Rule("rule", c, <<"drop">>)
                  /\ \E k \in 1..Len(Env.probes[p]) : Env.probes[p][k] = Rule("jump", c, <<>>)
  <2>1. Env.probes[p] = Probes(p) /\ Env.hopeless = Hopeless BY DEF Env
  <2>2. /\ Len(Probes(p)) \in Nat \ {0}
        /\ \A c \in Managed : /\ Has(Probes(p), Rule("jump", c, <<>>))
                              /\ Has(Probes(p), Rule("rule", c, <<"drop">>))
        /\ Hopeless => Has(Probes(p), Rule("never", "-", <<>>))
    BY AllProbes, Zenon
  <2>3. Rule("never", "-", <<>>).kind = "never" BY DEF Rule
  <2> QED BY <2>1, <2>2, <2>3 DEF Has
<1>3. ASSUME NEW p \in Policies, NEW asked PROVE Sane(Env, j("apply", p), asked)
  <2>1. /\ Stages("apply") \in Seq(StageType) /\ Stages("apply") # <<>>
        /\ Stages("apply")[1].do = "applied" /\ First(Stages("apply")[1]) = "probe"
        /\ Ordered(Stages("apply")) /\ OnManaged(Env, Stages("apply"))
        /\ ProbesFirst(Stages("apply"))
    BY ApplyStages DEF Stage, First
  <2>2. Shaped(Env, j("apply", p))
    BY <1>1, <2>1 DEF Shaped, Ordered, OnManaged, ProbesFirst, Pending, Labels
  <2>3. Probing(Env, j("apply", p)) BY <1>1, <1>2, <2>1 DEF Probing
  <2>4. Building(Env, j("apply", p))
    <3>1. Env.managed = Managed /\ Env.hopeless = Hopeless BY DEF Env
    <3>2. Stage("refuse", "-").do = "refuse" BY DEF Stage
    <3> QED BY <1>1, <2>1, <3>1, <3>2, ApplyStages DEF Building, Has
  <2>5. j("apply", p).op \in {"idle", "apply", "remove", "verify"} /\ j("apply", p).op # "remove"
    BY <1>1
  <2> QED BY <1>1, <1>7, <2>2, <2>3, <2>4, <2>5, Zenon DEF Sane
<1>4. ASSUME NEW p \in Policies, NEW asked PROVE Sane(Env, j("verify", p), asked)
  <2> DEFINE s == <<Stage("applied", "-")>>
  <2>1. Stages("verify") = s /\ s # <<>> /\ s[1].do = "applied" /\ First(s[1]) = "probe"
        /\ Len(s) = 1
    BY DEF Stages, Stage, First
  <2>2. s \in Seq(StageType) /\ Ordered(s) /\ OnManaged(Env, s) /\ AllClear(s)
    BY ClearStages, OnlyClears, Zenon
  <2> HIDE DEF s
  <2>3. Shaped(Env, j("verify", p))
    BY <1>1, <2>1, <2>2 DEF Shaped, Ordered, OnManaged, Pending, Labels, AllClear
  <2>4. Probing(Env, j("verify", p)) BY <1>1, <1>2, <2>1 DEF Probing
  <2>5. j("verify", p).op \in {"idle", "apply", "remove", "verify"} /\ ~Pending(j("verify", p))
        /\ j("verify", p).op # "remove"
    BY <1>1 DEF Pending
  <2> QED BY <1>1, <1>7, <2>3, <2>4, <2>5, Zenon DEF Sane
<1>5. ASSUME NEW asked, <<"remove", "-">> \in asked PROVE Sane(Env, j("remove", "-"), asked)
  <2>1. /\ Stages("remove") = Flush /\ Flush # <<>> /\ First(Flush[1]) = "listNAT"
        /\ Flush[1].do = "flushNAT" /\ \A k \in 1..Len(Flush) : Flush[k].do # "applied"
    BY ClearStages DEF Stages
  <2>2. Flush \in Seq(StageType) /\ Ordered(Flush) /\ OnManaged(Env, Flush) /\ AllClear(Flush)
    BY ClearStages, OnlyClears
  <2>3. Shaped(Env, j("remove", "-"))
    BY <1>1, <2>1, <2>2 DEF Shaped, Ordered, OnManaged, Pending, Labels, AllClear
  <2>4. Probing(Env, j("remove", "-")) BY <1>1, <2>1 DEF Probing
  <2>5. j("remove", "-").op \in {"idle", "apply", "remove", "verify"} /\ ~Pending(j("remove", "-"))
    BY <1>1 DEF Pending
  <2> QED BY <1>1, <1>5, <1>7, <2>3, <2>4, <2>5, Zenon DEF Sane
<1>6. ASSUME NEW p \in Policies, NEW c \in Managed
      PROVE  OwesDrop(Env, j("apply", p), c) /\ OwesJump(Env, j("apply", p), c)
  <2>1. First(Stages("apply")[1]) = "probe" BY ApplyStages DEF Stage, First
  <2> QED BY <1>1, <1>2, <2>1 DEF OwesDrop, OwesJump, Pending
<1> QED BY <1>3, <1>4, <1>5, <1>6 DEF j

-----------------------------------------------------------------------------
(* Where a request goes after a command.                                   *)

\* The command of a stage other than alreadyApplied after which the request stays
\* in the stage.
LEMMA StaysSane ==
  ASSUME NEW e, NEW j, NEW n, NEW asked, Sane(e, j, asked),
         j.op # "idle", j.at # "probe", n.at # "probe",
         DOMAIN n = Fields, n.op = j.op, n.policy = j.policy, n.todo = j.todo, n.err \in BOOLEAN,
         Pending(n) <=> Pending(j), n.at \in Labels(j.todo[1].do),
         n.at \in {"newChain", "confirmChain", "clearChain"} => n.i = 1,
         n.at = "appendRule" => n.i \in 1..Len(Contents(j.todo[1].on, j.policy))
  PROVE  /\ Sane(e, n, asked)
         /\ \A c : OwesJump(e, j, c) => OwesJump(e, n, c)
         /\ \A c : OwesDrop(e, j, c) => OwesDrop(e, n, c)
                     \/ (n.at \in JumpLabels /\ j.at \notin JumpLabels /\ j.todo[1] = Stage("build", c))
<1>1. Shaped(e, j) /\ Probing(e, j) /\ (Pending(j) => Building(e, j)) BY DEF Sane
<1>2. Shaped(e, n) BY <1>1 DEF Shaped
<1>3. Probing(e, n)
  <2>1. n.op # "verify" BY <1>1 DEF Probing
  <2> QED BY <2>1 DEF Probing
<1>4. Pending(n) => Building(e, n) BY <1>1 DEF Building
<1>5. n.op \in {"idle", "apply", "remove", "verify"} /\ (n.op = "remove" => <<"remove", "-">> \in asked)
  BY DEF Sane
<1>6. Sane(e, n, asked) BY <1>2, <1>3, <1>4, <1>5 DEF Sane
<1>7. \A c : OwesJump(e, j, c) => OwesJump(e, n, c) BY DEF OwesJump
<1>8. \A c : OwesDrop(e, j, c) => OwesDrop(e, n, c)
                \/ (n.at \in JumpLabels /\ j.at \notin JumpLabels /\ j.todo[1] = Stage("build", c))
  BY DEF OwesDrop
<1> QED BY <1>6, <1>7, <1>8

\* An Apply that is past alreadyApplied and still clears, or comes from it, owes
\* every chain.
LEMMA ClearingOwes ==
  ASSUME NEW e, NEW j, NEW asked, Sane(e, j, asked), Pending(j), j.todo[1].do \in Clearing,
         j.at # "probe", NEW c \in e.managed
  PROVE  OwesDrop(e, j, c) /\ OwesJump(e, j, c)
<1>1. PICK k \in 1..Len(j.todo) : j.todo[k] = Stage("build", c) BY DEF Sane, Building
<1>2. k # 1 BY <1>1 DEF Stage, Clearing
<1> QED BY <1>1, <1>2 DEF OwesDrop, OwesJump

\* The tail of a sequence.
LEMMA Tails ==
  ASSUME NEW S, NEW s \in Seq(S), s # <<>>
  PROVE  /\ Tail(s) \in Seq(S) /\ Len(Tail(s)) = Len(s) - 1 /\ Len(s) \in Nat \ {0}
         /\ \A k \in 1..Len(Tail(s)) : k + 1 \in 1..Len(s) /\ Tail(s)[k] = s[k + 1]
         /\ \A k \in 1..Len(s) : k # 1 => k - 1 \in 1..Len(Tail(s)) /\ Tail(s)[k - 1] = s[k]
OBVIOUS

\* The next stage begins.
LEMMA NextStageSane ==
  ASSUME NEW e, NEW j, NEW n, NEW asked, Sane(e, j, asked), j.op \in {"apply", "remove"},
         j.todo[1].do # "refuse", Tail(j.todo) # <<>>,
         DOMAIN n = Fields, n.op = j.op, n.policy = j.policy, n.todo = Tail(j.todo),
         n.err \in BOOLEAN, Pending(n) <=> Pending(j), n.at = First(Head(Tail(j.todo))), n.i = 1
  PROVE  /\ Sane(e, n, asked) /\ n.at # "probe"
         /\ \A c : OwesJump(e, j, c) /\ j.at # "probe" =>
                     OwesJump(e, n, c) \/ j.todo[1] = Stage("build", c)
         /\ \A c : OwesDrop(e, j, c) /\ j.at # "probe" /\ (j.todo[1].do = "build" => j.at \in JumpLabels)
                     => OwesDrop(e, n, c)
         /\ Pending(j) /\ j.todo[1].do \in Clearing =>
              \A c \in e.managed : OwesDrop(e, n, c) /\ OwesJump(e, n, c)
<1> DEFINE s == j.todo
           t == Tail(s)
<1>1. Shaped(e, j) /\ Probing(e, j) /\ (Pending(j) => Building(e, j)) BY DEF Sane
<1>2. s \in Seq(StageType) /\ s # <<>> BY <1>1 DEF Shaped
<1>3. /\ t \in Seq(StageType) /\ Len(t) = Len(s) - 1 /\ Len(s) \in Nat \ {0}
      /\ \A k \in 1..Len(t) : k + 1 \in 1..Len(s) /\ t[k] = s[k + 1]
      /\ \A k \in 1..Len(s) : k # 1 => k - 1 \in 1..Len(t) /\ t[k - 1] = s[k]
  BY <1>2, Tails, Zenon
<1>4. n.todo = t /\ t # <<>> OBVIOUS
<1> HIDE DEF t
<1>5. 1 \in 1..Len(t) /\ Head(t) = t[1] /\ t[1] = s[2] /\ 2 \in 2..Len(s) BY <1>3, <1>4
<1>6. t[1] \in StageType BY <1>3, <1>5
<1>7. n.at = First(t[1]) /\ t[1].do # "applied" BY <1>1, <1>5 DEF t, Shaped
<1>8. n.at \in Labels(t[1].do) /\ n.at # "probe" /\ n.at \notin JumpLabels
      /\ n.at \notin {"confirmChain", "clearChain", "appendRule"}
  BY <1>6, <1>7 DEF First, Labels, StageType, Clearing, JumpLabels
<1>9. Shaped(e, n)
  <2>1. ASSUME NEW k \in 1..Len(t), NEW l \in 1..Len(t), k < l, t[l].do \in Clearing
        PROVE  t[k].do \in Clearing
    <3>1. k + 1 \in 1..Len(s) /\ l + 1 \in 1..Len(s) /\ t[k] = s[k + 1] /\ t[l] = s[l + 1]
      BY <1>3, Zenon
    <3>2. k + 1 < l + 1 BY <2>1
    <3> QED BY <1>1, <2>1, <3>1, <3>2, Zenon DEF Shaped
  <2>2. \A k \in 1..Len(t) : t[k].do \in {"flushChain", "build"} => t[k].on \in e.managed
    BY <1>1, <1>3, Zenon DEF Shaped
  <2>3. ~Pending(n) => \A k \in 1..Len(t) : t[k].do \in Clearing BY <1>1, <1>3, Zenon DEF Shaped
  <2>4. ASSUME NEW k \in 2..Len(t) PROVE t[k].do # "applied"
    <3>1. k \in 1..Len(t) BY <1>3
    <3>2. t[k] = s[k + 1] /\ k + 1 \in 2..Len(s) BY <1>3, <3>1
    <3> QED BY <1>1, <3>2 DEF Shaped
  <2> QED BY <1>3, <1>4, <1>8, <2>1, <2>2, <2>3, <2>4, Zenon DEF Shaped
<1>10. Probing(e, n) BY <1>8 DEF Probing
<1>11. ASSUME Pending(j), s[1].do \in Clearing, NEW c \in e.managed
       PROVE  \E k \in 1..Len(t) : t[k] = Stage("build", c)
  <2>1. PICK k \in 1..Len(s) : s[k] = Stage("build", c) BY <1>1, <1>11 DEF Building
  <2>2. k # 1 BY <1>11, <2>1 DEF Stage, Clearing
  <2> QED BY <1>3, <2>1, <2>2
<1>12. Pending(n) => Building(e, n)
  <2> SUFFICES ASSUME Pending(n) PROVE Building(e, n) OBVIOUS
  <2>1. Building(e, j) /\ Pending(j) BY <1>1
  <2>2. t[1].do \in Clearing => s[1].do \in Clearing
    <3>1. 1 \in 1..Len(s) /\ 2 \in 1..Len(s) /\ 1 < 2 BY <1>5, <1>3
    <3> QED BY <1>1, <1>5, <3>1 DEF Shaped
  <2>3. e.hopeless => \E k \in 1..Len(t) : t[k].do = "refuse"
    <3> SUFFICES ASSUME e.hopeless PROVE \E k \in 1..Len(t) : t[k].do = "refuse" OBVIOUS
    <3>1. PICK k \in 1..Len(s) : s[k].do = "refuse" BY <2>1 DEF Building
    <3>2. k # 1 BY <3>1
    <3>3. k - 1 \in 1..Len(t) /\ t[k - 1] = s[k] BY <1>3, <3>2
    <3> QED BY <3>1, <3>3
  <2> QED BY <1>4, <1>8, <1>11, <2>1, <2>2, <2>3, Zenon DEF Building
<1>13. n.op \in {"idle", "apply", "remove", "verify"} /\ (n.op = "remove" => <<"remove", "-">> \in asked)
  BY DEF Sane
<1>14. Sane(e, n, asked) BY <1>9, <1>10, <1>12, <1>13 DEF Sane
<1>15. ASSUME NEW c, OwesJump(e, j, c), j.at # "probe", s[1] # Stage("build", c)
       PROVE  OwesJump(e, n, c)
  <2>1. PICK k \in 1..Len(s) : s[k] = Stage("build", c) BY <1>15 DEF OwesJump
  <2>2. k # 1 BY <1>15, <2>1
  <2> QED BY <1>3, <1>4, <1>8, <1>15, <2>1, <2>2, Zenon DEF OwesJump
<1>16. ASSUME NEW c, OwesDrop(e, j, c), j.at # "probe", s[1].do = "build" => j.at \in JumpLabels
       PROVE  OwesDrop(e, n, c)
  <2>1. PICK k \in 1..Len(s) : s[k] = Stage("build", c) /\ (k = 1 => j.at \notin JumpLabels)
    BY <1>16 DEF OwesDrop
  <2>2. k # 1 BY <1>16, <2>1 DEF Stage
  <2> QED BY <1>3, <1>4, <1>8, <1>16, <2>1, <2>2, Zenon DEF OwesDrop
<1>17. ASSUME Pending(j), s[1].do \in Clearing, NEW c \in e.managed
       PROVE  OwesDrop(e, n, c) /\ OwesJump(e, n, c)
  BY <1>4, <1>8, <1>11, <1>17, Zenon DEF OwesDrop, OwesJump
<1> QED BY <1>8, <1>14, <1>15, <1>16, <1>17

\* What HelperStep asks of a step but for the tables and the debts.
Flows(h) ==
    /\ Moves(h)
    /\ epoch'.asked = epoch.asked /\ epoch.res \subseteq epoch'.res
    /\ Sane(Env, job'[h], epoch.asked)
    /\ Spoiled => Spoiled'
    /\ Hopeless /\ epoch.asked \subseteq Applies /\ "ok" \notin epoch.res => "ok" \notin epoch'.res

\* The request of helper h goes on as n.
LEMMA GoesOn ==
  ASSUME EgressIInv, NEW h \in Helpers, UNCHANGED <<host, epoch>>, NEW n,
         job' = [job EXCEPT ![h] = n], Sane(Env, n, epoch.asked),
         job[h].op = "apply" /\ job[h].err => n.op = "apply" /\ n.err
  PROVE  Flows(h) /\ job'[h] = n
<1>1. job = [g \in Helpers |-> job[g]] BY DEF EgressIInv, Tables
<1>2. job'[h] = n /\ \A g \in Helpers \ {h} : job'[g] = job[g] BY <1>1
<1>3. job' = [g \in Helpers |-> job'[g]] BY <1>1
<1>4. Moves(h) BY <1>2, <1>3 DEF Moves
<1>5. Spoiled => Spoiled'
  <2> SUFFICES ASSUME Spoiled PROVE Spoiled' OBVIOUS
  <2>1. ASSUME NEW g \in Helpers, job[g].op = "apply", job[g].err
        PROVE  job'[g].op = "apply" /\ job'[g].err
    <3>1. CASE g = h BY <1>2, <2>1, <3>1
    <3>2. CASE g # h BY <1>2, <2>1, <3>2
    <3> QED BY <3>1, <3>2
  <2> QED BY <2>1, Zenon DEF Spoiled, Applies
<1> QED BY <1>2, <1>4, <1>5 DEF Flows

\* A stage that builds is one of an Apply that has met no error.
LEMMA BuildPending ==
  ASSUME EgressIInv, NEW h \in Helpers, job[h].op # "idle", job[h].todo[1].do \notin Clearing
  PROVE  /\ Pending(job[h]) /\ Building(Env, job[h]) /\ job[h].policy \in Policies
         /\ job[h].todo[1].do = "build" => job[h].todo[1].on \in Managed
<1>1. Sane(Env, job[h], epoch.asked) /\ Shaped(Env, job[h]) BY DEF EgressIInv, Jobs, Sane
<1>2. job[h].todo \in Seq(StageType) /\ job[h].todo # <<>> BY <1>1 DEF Shaped
<1>3. 1 \in 1..Len(job[h].todo) BY <1>2
<1>4. Pending(job[h]) BY <1>1, <1>3 DEF Shaped
<1>5. Building(Env, job[h]) BY <1>1, <1>4 DEF Sane
<1>6. job[h].todo[1].do = "build" => job[h].todo[1].on \in Managed
  BY <1>1, <1>3 DEF Shaped, Env
<1> QED BY <1>4, <1>5, <1>6 DEF Building

\* Where no request owes anything, something has failed.
LEMMA NotPendingSpoils ==
  ASSUME EgressIInv, NEW h \in Helpers, job[h].op \in Writers, ~Pending(job[h])
  PROVE  Spoiled
<1>1. CASE job[h].op = "apply"
  <2>1. job[h].err BY <1>1 DEF Pending
  <2> QED BY <1>1, <2>1 DEF Spoiled
<1>2. CASE job[h].op = "remove"
  <2>1. <<"remove", "-">> \in epoch.asked BY <1>2 DEF EgressIInv, Jobs, Sane
  <2>2. <<"remove", "-">> \notin Applies BY DEF Applies
  <2> QED BY <2>1, <2>2 DEF Spoiled
<1> QED BY <1>1, <1>2 DEF Writers

\* Goto.
LEMMA GotoStep ==
  ASSUME EgressIInv, NEW h \in Helpers, NEW l, UNCHANGED host, job[h].op # "idle",
         job[h].at # "probe", l # "probe", l \in Labels(job[h].todo[1].do), Goto(h, l),
         l \in {"newChain", "confirmChain", "clearChain"} =>
           job[h].at \in {"newChain", "confirmChain", "clearChain"},
         l = "appendRule" => job[h].at = "clearChain"
  PROVE  /\ Flows(h) /\ job'[h].todo = job[h].todo /\ job'[h].at = l
         /\ Pending(job'[h]) <=> Pending(job[h])
         /\ \A c : OwesJump(Env, job[h], c) => OwesJump(Env, job'[h], c)
         /\ \A c : OwesDrop(Env, job[h], c) => OwesDrop(Env, job'[h], c)
                     \/ (l \in JumpLabels /\ job[h].at \notin JumpLabels)
<1> DEFINE j == job[h]
           n == [j EXCEPT !.at = l]
<1>1. Sane(Env, j, epoch.asked) /\ Shaped(Env, j) BY DEF EgressIInv, Jobs, Sane
<1>2. DOMAIN j = Fields /\ j.err \in BOOLEAN /\ j.at \in Labels(j.todo[1].do)
  BY <1>1, Zenon DEF Sane, Shaped
<1>3. /\ DOMAIN n = Fields /\ n.op = j.op /\ n.policy = j.policy /\ n.todo = j.todo
      /\ n.err = j.err /\ n.i = j.i /\ n.at = l
  BY <1>2 DEF Fields
<1>4. job' = [job EXCEPT ![h] = n] /\ UNCHANGED epoch BY DEF Goto
<1> HIDE DEF n
<1>5. n.err \in BOOLEAN /\ (Pending(n) <=> Pending(j)) BY <1>2, <1>3, Zenon DEF Pending
<1>6. ASSUME j.at \in {"newChain", "confirmChain", "clearChain"}
      PROVE  n.i = 1 /\ 1 \in 1..Len(Contents(j.todo[1].on, j.policy))
  <2>1. j.todo[1].do = "build"
    BY <1>2, <1>6 DEF Labels
  <2>2. Building(Env, j) /\ j.policy \in Policies /\ j.todo[1].on \in Chains
    BY <2>1, BuildPending, ChainList, Zenon DEF Clearing
  <2>3. Len(Contents(j.todo[1].on, j.policy)) \in {2, 6} BY <2>2, EndsInDrop
  <2>4. j.i = 1 BY <1>6, <2>2 DEF Building
  <2>5. \A k \in {2, 6} : 1 \in 1..k OBVIOUS
  <2> QED BY <1>3, <2>3, <2>4, <2>5, Zenon
<1>7. /\ Sane(Env, n, epoch.asked)
      /\ \A c : OwesJump(Env, j, c) => OwesJump(Env, n, c)
      /\ \A c : OwesDrop(Env, j, c) => OwesDrop(Env, n, c)
                     \/ (n.at \in JumpLabels /\ j.at \notin JumpLabels /\ j.todo[1] = Stage("build", c))
  <2>1. /\ n.at \in {"newChain", "confirmChain", "clearChain"} => n.i = 1
        /\ n.at = "appendRule" => n.i \in 1..Len(Contents(j.todo[1].on, j.policy))
        /\ n.at # "probe" /\ n.at \in Labels(j.todo[1].do)
    BY <1>3, <1>6
  <2> HIDE DEF j
  <2> QED BY <1>1, <1>3, <1>5, <2>1, StaysSane, Zenon DEF j
<1>8. Flows(h) /\ job'[h] = n
  <2>1. j.op = "apply" /\ j.err => n.op = "apply" /\ n.err BY <1>3
  <2>2. UNCHANGED <<host, epoch>> BY <1>4
  <2> QED BY <1>4, <1>7, <2>1, <2>2, GoesOn, Zenon
<1> QED BY <1>3, <1>5, <1>7, <1>8

\* Answer, of a request that changes the tables.
LEMMA AnswerStep ==
  ASSUME EgressIInv, NEW h \in Helpers, NEW res, UNCHANGED host, job[h].op \in Writers,
         Answer(h, res),
         res = "ok" => (job[h].op = "apply" => ~Hopeless /\ ~job[h].err)
  PROVE  /\ Flows(h) /\ job'[h] = Idle("none") /\ res \in epoch'.res
<1>1. job = [g \in Helpers |-> job[g]] BY DEF EgressIInv, Tables
<1>2. /\ job' = [job EXCEPT ![h] = Idle("none")]
      /\ epoch' = [epoch EXCEPT !.res = @ \union {res}]
  BY DEF Answer, Writers
<1>3. job'[h] = Idle("none") /\ \A g \in Helpers \ {h} : job'[g] = job[g] BY <1>1, <1>2
<1>4. job' = [g \in Helpers |-> job'[g]] BY <1>1, <1>2
<1>5. /\ epoch'.asked = epoch.asked /\ epoch'.res = epoch.res \cup {res}
      /\ DOMAIN epoch' = DOMAIN epoch
  BY <1>2 DEF EgressIInv, Tables
<1>6. Moves(h) BY <1>3, <1>4, <1>5 DEF Moves
<1>7. Sane(Env, Idle("none"), epoch.asked) BY DEF Sane, Idle, Fields, Pending
<1>8. ~(epoch.res \subseteq {"ok"}) => ~(epoch'.res \subseteq {"ok"}) BY <1>5
<1>9. Spoiled => Spoiled'
  <2> SUFFICES ASSUME Spoiled PROVE Spoiled' OBVIOUS
  <2>1. CASE \E g \in Helpers : job[g].op = "apply" /\ job[g].err
    <3>1. PICK g \in Helpers : job[g].op = "apply" /\ job[g].err BY <2>1
    <3>2. CASE g = h
      <4>1. res # "ok" BY <3>1, <3>2
      <4> QED BY <1>5, <4>1 DEF Spoiled
    <3>3. CASE g # h BY <1>3, <3>1, <3>3 DEF Spoiled
    <3> QED BY <3>2, <3>3
  <2>2. CASE epoch.asked = {} BY <1>5, <2>2 DEF Spoiled
  <2>3. CASE ~(epoch.asked \subseteq Applies) BY <1>5, <2>3 DEF Spoiled, Applies
  <2>4. CASE ~(epoch.res \subseteq {"ok"}) BY <1>8, <2>4 DEF Spoiled
  <2> QED BY <2>1, <2>2, <2>3, <2>4 DEF Spoiled
<1>10. Hopeless /\ epoch.asked \subseteq Applies /\ "ok" \notin epoch.res => "ok" \notin epoch'.res
  <2> SUFFICES ASSUME Hopeless, epoch.asked \subseteq Applies, "ok" \notin epoch.res
               PROVE  res # "ok"
    BY <1>5
  <2>1. job[h].op # "remove"
    <3>1. <<"remove", "-">> \notin Applies BY DEF Applies
    <3> QED BY <3>1 DEF EgressIInv, Jobs, Sane
  <2> QED BY <2>1 DEF Writers
<1> QED BY <1>3, <1>5, <1>6, <1>7, <1>9, <1>10 DEF Flows

\* Advance: the next stage or the answer.
LEMMA AdvanceStep ==
  ASSUME EgressIInv, NEW h \in Helpers, NEW err \in BOOLEAN, UNCHANGED host,
         job[h].op \in Writers, job[h].todo[1].do # "refuse", Advance(h, err),
         job[h].op = "apply" => (err <=> job[h].err)
  PROVE  /\ Flows(h)
         /\ \A c : OwesJump(Env, job[h], c) /\ job[h].at # "probe" =>
                     OwesJump(Env, job'[h], c) \/ job[h].todo[1] = Stage("build", c)
         /\ \A c : OwesDrop(Env, job[h], c) /\ job[h].at # "probe"
                     /\ (job[h].todo[1].do = "build" => job[h].at \in JumpLabels)
                     => OwesDrop(Env, job'[h], c)
         /\ Pending(job[h]) /\ job[h].todo[1].do \in Clearing =>
              \A c \in Managed : OwesDrop(Env, job'[h], c) /\ OwesJump(Env, job'[h], c)
<1> DEFINE j == job[h]
           s == j.todo
<1>1. Sane(Env, j, epoch.asked) /\ Shaped(Env, j) BY Zenon DEF EgressIInv, Jobs, Sane, Writers
<1>2. DOMAIN j = Fields /\ j.err \in BOOLEAN /\ s \in Seq(StageType) /\ s # <<>>
  BY <1>1 DEF Sane, Shaped
<1>3. Env.managed = Managed /\ Env.hopeless = Hopeless BY DEF Env
<1>4. CASE Tail(s) # <<>>
  <2> DEFINE n == [j EXCEPT !.todo = Tail(s), !.at = First(Head(Tail(s))),
                            !.i = 1, !.listed = <<>>, !.err = err]
  <2>1. job' = [job EXCEPT ![h] = n] /\ UNCHANGED epoch
    <3>1. job' = [job EXCEPT ![h].todo = Tail(s), ![h].at = First(Head(Tail(s))),
                             ![h].i = 1, ![h].listed = <<>>, ![h].err = err]
          /\ UNCHANGED epoch
      BY <1>4, Zenon DEF Advance
    <3>2. job = [g \in Helpers |-> job[g]] BY DEF EgressIInv, Tables
    <3> QED BY <3>1, <3>2, Zenon
  <2>2. /\ DOMAIN n = Fields /\ n.op = j.op /\ n.policy = j.policy /\ n.todo = Tail(s)
        /\ n.err = err /\ n.i = 1 /\ n.at = First(Head(Tail(s)))
    BY <1>2 DEF Fields
  <2> HIDE DEF n
  <2>3. n.err \in BOOLEAN /\ (Pending(n) <=> Pending(j)) BY <2>2, Zenon DEF Pending
  <2>4. /\ Sane(Env, n, epoch.asked)
        /\ \A c : OwesJump(Env, j, c) /\ j.at # "probe" =>
                     OwesJump(Env, n, c) \/ s[1] = Stage("build", c)
        /\ \A c : OwesDrop(Env, j, c) /\ j.at # "probe" /\ (s[1].do = "build" => j.at \in JumpLabels)
                     => OwesDrop(Env, n, c)
        /\ Pending(j) /\ s[1].do \in Clearing =>
              \A c \in Env.managed : OwesDrop(Env, n, c) /\ OwesJump(Env, n, c)
    <3>1. j.op \in {"apply", "remove"} BY DEF Writers
    <3> HIDE DEF j
    <3>2. s[1].do # "refuse" BY DEF j
    <3> QED BY <1>1, <1>4, <2>2, <2>3, <3>1, <3>2, NextStageSane, Zenon
  <2>5. Flows(h) /\ job'[h] = n
    <3>1. j.op = "apply" /\ j.err => n.op = "apply" /\ n.err BY <2>2
    <3>2. UNCHANGED <<host, epoch>> BY <2>1
    <3> QED BY <2>1, <2>4, <3>1, <3>2, GoesOn, Zenon
  <2> QED BY <1>3, <2>4, <2>5, Zenon
<1>5. CASE Tail(s) = <<>>
  <2>1. Len(s) = 1
    <3>1. Len(Tail(s)) = Len(s) - 1 /\ Len(s) \in Nat \ {0} BY <1>2, Tails, Zenon
    <3>2. Len(<<>>) = 0 OBVIOUS
    <3>3. Len(Tail(s)) = 0 BY <1>5, <3>2, Zenon
    <3> DEFINE w == Len(Tail(s))
               m == Len(s)
    <3>4. w = m - 1 /\ m \in Nat \ {0} /\ w = 0 BY <3>1, <3>3, Zenon
    <3> HIDE DEF w, m
    <3>5. m = 1 BY <3>4
    <3> QED BY <3>5 DEF m
  <2>2. Answer(h, IF err THEN "err" ELSE "ok") BY <1>5 DEF Advance
  <2>3. ASSUME j.op = "apply", ~err PROVE ~Hopeless
    <3>1. Pending(j) BY <2>3 DEF Pending
    <3>2. Hopeless => \E k \in 1..Len(s) : s[k].do = "refuse"
      BY <1>1, <1>3, <3>1 DEF Sane, Building
    <3> QED BY <2>1, <3>2
  <2> DEFINE res == IF err THEN "err" ELSE "ok"
  <2>4. res = "ok" => (j.op = "apply" => ~Hopeless /\ ~j.err) BY <2>3
  <2>5. Flows(h) /\ job'[h] = Idle("none") BY <2>2, <2>4, AnswerStep, Zenon
  <2>6. ASSUME NEW c, OwesJump(Env, j, c), j.at # "probe" PROVE s[1] = Stage("build", c)
    BY <2>1, <2>6 DEF OwesJump
  <2>7. ASSUME NEW c, OwesDrop(Env, j, c), j.at # "probe", s[1].do = "build" => j.at \in JumpLabels
        PROVE  FALSE
    BY <2>1, <2>7 DEF OwesDrop, Stage
  <2>8. ~(Pending(j) /\ s[1].do \in Clearing)
    <3> SUFFICES ASSUME Pending(j), s[1].do \in Clearing PROVE FALSE OBVIOUS
    <3>1. "in" \in Env.managed BY <1>3, ChainList
    <3>2. \E k \in 1..Len(s) : s[k] = Stage("build", "in") BY <1>1, <3>1 DEF Sane, Building
    <3> QED BY <2>1, <3>2 DEF Stage, Clearing
  <2> QED BY <2>5, <2>6, <2>7, <2>8
<1> QED BY <1>4, <1>5, Zenon

\* Rollback.
LEMMA RollbackStep ==
  ASSUME EgressIInv, NEW h \in Helpers, UNCHANGED host, Pending(job[h]), Rollback(h)
  PROVE  Flows(h) /\ Spoiled'
<1> DEFINE j == job[h]
           n == [j EXCEPT !.todo = Flush, !.at = First(Flush[1]), !.i = 1, !.err = TRUE]
<1>1. Sane(Env, j, epoch.asked) /\ j.op = "apply" BY DEF EgressIInv, Jobs, Pending
<1>2. job' = [job EXCEPT ![h] = n] /\ UNCHANGED epoch
  <2>1. job = [g \in Helpers |-> job[g]] BY DEF EgressIInv, Tables
  <2> QED BY <2>1, Zenon DEF Rollback
<1>3. /\ DOMAIN n = Fields /\ n.op = "apply" /\ n.todo = Flush /\ n.err = TRUE
      /\ n.at = First(Flush[1])
  BY <1>1 DEF Fields, Sane
<1> HIDE DEF n
<1>4. n.err \in BOOLEAN /\ n.err /\ ~Pending(n) BY <1>3, Zenon DEF Pending
<1>5. /\ Flush \in Seq(StageType) /\ Flush # <<>> /\ Ordered(Flush) /\ OnManaged(Env, Flush)
      /\ AllClear(Flush) /\ n.at = "listNAT" /\ n.at \in Labels(Flush[1].do)
      /\ \A k \in 1..Len(Flush) : Flush[k].do # "applied"
  BY <1>3, ClearStages, OnlyClears DEF Labels
<1>6. Shaped(Env, n)
  <2>1. \A k \in 2..Len(Flush) : k \in 1..Len(Flush) OBVIOUS
  <2> QED BY <1>3, <1>4, <1>5, <2>1 DEF Shaped, Ordered, OnManaged, AllClear
<1>7. Probing(Env, n) BY <1>3, <1>5 DEF Probing
<1>8. Sane(Env, n, epoch.asked)
  <2>1. n.op \in {"idle", "apply", "remove", "verify"} /\ n.op # "remove" BY <1>3
  <2> QED BY <1>3, <1>4, <1>6, <1>7, <2>1, Zenon DEF Sane
<1>9. Flows(h) /\ job'[h] = n
  <2>1. UNCHANGED <<host, epoch>> BY <1>2
  <2> QED BY <1>2, <1>3, <1>4, <1>8, <2>1, GoesOn, Zenon
<1>10. job'[h].op = "apply" /\ job'[h].err BY <1>3, <1>4, <1>9
<1> QED BY <1>9, <1>10, Zenon DEF Spoiled

-----------------------------------------------------------------------------
(* Clearing.                                                               *)

\* The step of a request that owes everything, or after which nothing is owed.
Safe(h) ==
    /\ Flows(h)
    /\ Spoiled' \/ \A c \in Managed : OwesDrop(Env, job'[h], c) /\ OwesJump(Env, job'[h], c)

\* Whatever such a step does to the tables.
LEMMA SafeStep ==
  ASSUME EgressIInv, NEW h \in Helpers, Safe(h), Tables'
  PROVE  EgressIInv'
<1>1. Settles(h) BY DEF Safe, Settles
<1> QED BY <1>1, HelperStep DEF Safe, Flows

\* The stage of a request past alreadyApplied.
LEMMA AtStage ==
  ASSUME EgressIInv, NEW h \in Helpers, NEW l, At(h, l), l # "probe"
  PROVE  /\ job[h].op \in Writers /\ job[h].op # "idle" /\ job[h].at = l
         /\ l \in Labels(job[h].todo[1].do) /\ job[h].todo[1] \in StageType
         /\ Stage1(h) = job[h].todo[1] /\ job[h].err \in BOOLEAN
         /\ job[h].todo[1].do \in {"flushChain", "build"} =>
              job[h].todo[1].on \in Managed /\ job[h].todo[1].on \in Chains
<1>1. Sane(Env, job[h], epoch.asked) /\ job[h].op # "idle" /\ job[h].at = l
  BY DEF EgressIInv, Jobs, At
<1>2. Shaped(Env, job[h]) /\ Probing(Env, job[h]) BY <1>1 DEF Sane
<1>3. job[h].todo \in Seq(StageType) /\ job[h].todo # <<>> /\ l \in Labels(job[h].todo[1].do)
  BY <1>1, <1>2 DEF Shaped
<1>4. 1 \in 1..Len(job[h].todo) /\ Head(job[h].todo) = job[h].todo[1] /\ job[h].todo[1] \in StageType
  BY <1>3
<1>5. job[h].op \in Writers BY <1>1, <1>2 DEF Sane, Probing, Writers
<1>6. job[h].todo[1].do \in {"flushChain", "build"} => job[h].todo[1].on \in Managed
  BY <1>2, <1>4 DEF Shaped, Env
<1>7. job[h].err \in BOOLEAN BY <1>1 DEF Sane
<1> QED BY <1>1, <1>3, <1>4, <1>5, <1>6, <1>7, ChainList DEF Stage1

\* Goto within a stage that clears.
LEMMA GotoClearing ==
  ASSUME EgressIInv, NEW h \in Helpers, NEW l, NEW m, At(h, m), m # "probe", UNCHANGED host,
         job[h].todo[1].do \in Clearing, l \in Labels(job[h].todo[1].do), l # "probe", Goto(h, l)
  PROVE  Safe(h)
<1>1. /\ job[h].op \in Writers /\ job[h].op # "idle" /\ job[h].at = m BY AtStage
<1>2. l \notin {"newChain", "confirmChain", "clearChain", "appendRule"}
  BY DEF Clearing, Labels
<1>3. /\ Flows(h) /\ job'[h].todo = job[h].todo /\ job'[h].at = l
      /\ Pending(job'[h]) <=> Pending(job[h])
  BY <1>1, <1>2, GotoStep, Zenon
<1>4. CASE Pending(job[h])
  <2>1. Sane(Env, job'[h], epoch.asked) BY <1>3 DEF Flows
  <2>2. \A c \in Env.managed : OwesDrop(Env, job'[h], c) /\ OwesJump(Env, job'[h], c)
    <3>1. Pending(job'[h]) /\ job'[h].todo[1].do \in Clearing /\ job'[h].at # "probe"
      BY <1>3, <1>4
    <3> QED BY <2>1, <3>1, ClearingOwes, Zenon
  <2> QED BY <1>3, <2>2 DEF Safe, Env
<1>5. CASE ~Pending(job[h]) BY <1>1, <1>3, <1>5, NotPendingSpoils, Zenon DEF Safe, Flows
<1> QED BY <1>4, <1>5

\* The end of a stage that clears.
LEMMA AdvanceClearing ==
  ASSUME EgressIInv, NEW h \in Helpers, NEW err \in BOOLEAN, UNCHANGED host,
         job[h].op \in Writers, job[h].todo[1].do \in Clearing, Advance(h, err),
         job[h].op = "apply" => (err <=> job[h].err)
  PROVE  Safe(h)
<1>1. job[h].todo[1].do # "refuse" BY DEF Clearing
<1>2. /\ Flows(h)
      /\ Pending(job[h]) => \A c \in Managed : OwesDrop(Env, job'[h], c) /\ OwesJump(Env, job'[h], c)
  BY <1>1, AdvanceStep
<1>3. ~Pending(job[h]) => Spoiled BY NotPendingSpoils
<1> QED BY <1>2, <1>3, Zenon DEF Safe, Flows

LEMMA GiveUpClearing ==
  ASSUME EgressIInv, NEW h \in Helpers, UNCHANGED host, job[h].op \in Writers,
         job[h].err \in BOOLEAN, job[h].todo[1].do \in Clearing, GiveUp(h)
  PROVE  Safe(h)
<1> DEFINE err == job[h].err \/ job[h].op = "remove"
<1>1. err \in BOOLEAN /\ Advance(h, err) BY DEF GiveUp
<1>2. job[h].op = "apply" => (err <=> job[h].err) OBVIOUS
<1> HIDE DEF err
<1> QED BY <1>1, <1>2, AdvanceClearing

\* flushNATRules after a delete or the listing.
LEMMA UnlistedClearing ==
  ASSUME EgressIInv, NEW h \in Helpers, NEW l, l \in {"listNAT", "deleteNAT"}, At(h, l),
         UNCHANGED host, NEW listed, NEW failed \in BOOLEAN, Unlisted(h, listed, failed)
  PROVE  Safe(h)
<1> DEFINE err == job[h].err \/ (failed /\ job[h].op = "remove")
<1>1. /\ job[h].op \in Writers /\ job[h].op # "idle" /\ job[h].at = l /\ l # "probe"
      /\ l \in Labels(job[h].todo[1].do) /\ job[h].err \in BOOLEAN
  BY AtStage
<1>2. job[h].todo[1].do = "flushNAT" /\ job[h].todo[1].do \in Clearing
  BY <1>1 DEF Labels, Clearing
<1>3. err \in BOOLEAN /\ (job[h].op = "apply" => (err <=> job[h].err))
      /\ (job[h].err => err)
  BY <1>1
<1>4. CASE listed = <<>>
  <2>1. Advance(h, err) BY <1>4 DEF Unlisted
  <2> HIDE DEF err
  <2> QED BY <1>1, <1>2, <1>3, <2>1, AdvanceClearing
<1>5. CASE listed # <<>>
  <2> DEFINE j == job[h]
             n == [j EXCEPT !.at = "deleteNAT", !.listed = listed, !.err = err]
  <2>1. job' = [job EXCEPT ![h] = n] /\ UNCHANGED epoch
    <3>1. job = [g \in Helpers |-> job[g]] BY DEF EgressIInv, Tables
    <3> QED BY <1>5, <3>1 DEF Unlisted
  <2>2. Sane(Env, j, epoch.asked) BY DEF EgressIInv, Jobs
  <2>3. /\ DOMAIN n = Fields /\ n.op = j.op /\ n.policy = j.policy /\ n.todo = j.todo
        /\ n.err = err /\ n.at = "deleteNAT"
    <3> HIDE DEF err
    <3> QED BY <2>2 DEF Sane, Fields
  <2> HIDE DEF n
  <2>4. n.err \in BOOLEAN /\ (Pending(n) <=> Pending(j)) /\ (j.err => n.err)
    <3> HIDE DEF err
    <3> QED BY <1>3, <2>3, Zenon DEF Pending
  <2>5. Sane(Env, n, epoch.asked)
    <3>1. /\ n.at # "probe" /\ j.at # "probe" /\ n.at \in Labels(j.todo[1].do)
          /\ n.at \notin {"newChain", "confirmChain", "clearChain"} /\ n.at # "appendRule"
      BY <1>1, <1>2, <2>3 DEF Labels
    <3> QED BY <1>1, <2>2, <2>3, <2>4, <3>1, StaysSane, Zenon
  <2>6. Flows(h) /\ job'[h] = n
    <3>1. UNCHANGED <<host, epoch>> BY <2>1
    <3> QED BY <2>1, <2>3, <2>4, <2>5, <3>1, GoesOn, Zenon
  <2>7. CASE Pending(j)
    <3>1. Pending(n) /\ n.todo[1].do \in Clearing /\ n.at # "probe" BY <1>2, <2>3, <2>4, <2>7
    <3>2. \A c \in Env.managed : OwesDrop(Env, n, c) /\ OwesJump(Env, n, c)
      BY <2>5, <3>1, ClearingOwes, Zenon
    <3> QED BY <2>6, <3>2 DEF Safe, Env
  <2>8. CASE ~Pending(j) BY <1>1, <2>6, <2>8, NotPendingSpoils DEF Safe, Flows
  <2> QED BY <2>7, <2>8
<1> QED BY <1>4, <1>5

\* The tables with chain c rewritten or its jumps counted anew.
LEMMA TablesKept ==
  ASSUME EgressIInv, UNCHANGED host, job' = [g \in Helpers |-> job'[g]], DOMAIN epoch' = DOMAIN epoch
  PROVE  /\ UNCHANGED <<chain, jumps>> => Tables'
         /\ \A c \in Chains, s \in Seq(AllRules) \cup {Absent} :
              chain' = [chain EXCEPT ![c] = s] /\ jumps' = jumps => Tables'
         /\ \A c \in Chains, k \in Nat :
              jumps' = [jumps EXCEPT ![c] = k] /\ chain' = chain => Tables'
<1>1. /\ host' \in [ip6tables : BOOLEAN, ipv6 : BOOLEAN]
      /\ DOMAIN epoch' = {"asked", "alone", "res", "whole"}
      /\ chain = [c \in Chains |-> chain[c]] /\ jumps \in [Chains -> Nat]
      /\ \A c \in Chains : chain[c] = Absent \/ chain[c] \in Seq(AllRules)
  BY DEF EgressIInv, Tables
<1>2. UNCHANGED <<chain, jumps>> => Tables'
  <2> SUFFICES ASSUME chain' = chain, jumps' = jumps PROVE Tables' OBVIOUS
  <2>1. AllRules' = AllRules /\ Chains' = Chains /\ Absent' = Absent BY DEF AllRules, Chains, Absent
  <2> QED BY <1>1, <2>1 DEF Tables
<1>3. ASSUME NEW c \in Chains, NEW s \in Seq(AllRules) \cup {Absent},
             chain' = [chain EXCEPT ![c] = s], jumps' = jumps
      PROVE  Tables'
  <2>1. chain' = [d \in Chains |-> chain'[d]] BY <1>1, <1>3, Zenon
  <2>2. \A d \in Chains : chain'[d] = IF d = c THEN s ELSE chain[d] BY <1>1, <1>3
  <2>3. s = Absent \/ s \in Seq(AllRules) OBVIOUS
  <2>4. \A d \in Chains : chain'[d] = Absent \/ chain'[d] \in Seq(AllRules)
    BY <1>1, <2>2, <2>3
  <2> QED BY <1>1, <1>3, <2>1, <2>4 DEF Tables
<1>4. ASSUME NEW c \in Chains, NEW k \in Nat, jumps' = [jumps EXCEPT ![c] = k], chain' = chain
      PROVE  Tables'
  <2>1. jumps' \in [Chains -> Nat] BY <1>1, <1>4
  <2> QED BY <1>1, <1>4, <2>1 DEF Tables
<1> QED BY <1>2, <1>3, <1>4

\* What fails leaves the tables alone.
LEMMA FaultKeeps ==
  ASSUME NEW h, NEW kind, Fault(h, kind) \/ Refused
  PROVE  UNCHANGED <<host, chain, jumps>>
BY Zenon DEF Fault, Refused, kernel

\* A safe step that leaves the chains alone.
LEMMA SafeQuiet ==
  ASSUME EgressIInv, NEW h \in Helpers, Safe(h), UNCHANGED <<host, chain, jumps>>
  PROVE  EgressIInv'
<1>1. Tables' BY TablesKept DEF Safe, Flows, Moves
<1> QED BY <1>1, SafeStep

LEMMA FlushSteps ==
  ASSUME EgressIInv, NEW h \in Helpers, FlushStep(h)
  PROVE  EgressIInv'
<1> DEFINE c == job[h].todo[1].on
<1>1. CASE ListNAT(h)
  <2>1. At(h, "listNAT") BY <1>1 DEF ListNAT
  <2>2. job[h].op \in Writers /\ job[h].err \in BOOLEAN /\ job[h].todo[1].do \in Clearing
    BY <2>1, AtStage DEF Labels, Clearing
  <2>3. CASE Refused /\ Unlisted(h, nat, FALSE)
    BY <2>1, <2>3, FaultKeeps, UnlistedClearing, SafeQuiet, Zenon
  <2>4. CASE Fault(h, "list") /\ GiveUp(h)
    BY <2>2, <2>4, FaultKeeps, GiveUpClearing, SafeQuiet
  <2> QED BY <1>1, <2>3, <2>4, Zenon DEF ListNAT
<1>2. CASE DeleteNAT(h)
  <2> DEFINE rest == SubSeq(job[h].listed, 1, Len(job[h].listed) - 1)
  <2>1. At(h, "deleteNAT") BY <1>2 DEF DeleteNAT
  <2>2. CASE Ran /\ UNCHANGED <<chain, jumps>> /\ Unlisted(h, rest, FALSE)
    <3>1. UNCHANGED <<host, chain, jumps>> BY <2>2 DEF Ran
    <3> QED BY <2>1, <2>2, <3>1, UnlistedClearing, SafeQuiet, Zenon
  <2>3. CASE Refused /\ Unlisted(h, rest, TRUE)
    BY <2>1, <2>3, FaultKeeps, UnlistedClearing, SafeQuiet, Zenon
  <2>4. CASE Fault(h, "run") /\ Unlisted(h, rest, TRUE)
    BY <2>1, <2>4, FaultKeeps, UnlistedClearing, SafeQuiet, Zenon
  <2> QED BY <1>2, <2>2, <2>3, <2>4, Zenon DEF DeleteNAT
<1>3. CASE FindJump(h)
  <2>1. At(h, "findJump") BY <1>3 DEF FindJump
  <2>2. job[h].todo[1].do = "flushChain" /\ job[h].todo[1].do \in Clearing
    BY <2>1, AtStage DEF Labels, Clearing
  <2>3. UNCHANGED <<host, chain, jumps>> /\ \E l \in {"deleteJump", "findChain"} : Goto(h, l)
    BY <1>3, FaultKeeps DEF FindJump, Check, ToDeleteJump, ToFindChain
  <2>4. PICK l \in {"deleteJump", "findChain"} : Goto(h, l) BY <2>3
  <2>5. l \in Labels(job[h].todo[1].do) /\ l # "probe" BY <2>2 DEF Labels
  <2> QED BY <2>1, <2>2, <2>3, <2>4, <2>5, GotoClearing, SafeQuiet
<1>4. CASE DeleteJump(h)
  <2>1. At(h, "deleteJump") BY <1>4 DEF DeleteJump
  <2>2. /\ job[h].op \in Writers /\ job[h].err \in BOOLEAN /\ job[h].todo[1].do = "flushChain"
        /\ job[h].todo[1].do \in Clearing /\ Stage1(h).on = c /\ c \in Chains
    BY <2>1, AtStage DEF Labels, Clearing
  <2>3. CASE /\ jumps[c] > 0 /\ jumps' = [jumps EXCEPT ![c] = @ - 1] /\ Ran
             /\ UNCHANGED <<nat, chain>> /\ Goto(h, "findJump")
    <3>1. "findJump" \in Labels(job[h].todo[1].do) BY <2>2 DEF Labels
    <3>2. Safe(h) BY <2>1, <2>2, <2>3, <3>1, GotoClearing DEF Ran
    <3>3. jumps[c] - 1 \in Nat /\ jumps' = [jumps EXCEPT ![c] = jumps[c] - 1]
      BY <2>2, <2>3 DEF EgressIInv, Tables
    <3>4. Tables' BY <2>2, <2>3, <3>2, <3>3, TablesKept, Zenon DEF Safe, Flows, Moves
    <3> QED BY <3>2, <3>4, SafeStep
  <2>4. CASE (Refused \/ Fault(h, "run")) /\ GiveUp(h)
    BY <2>2, <2>4, FaultKeeps, GiveUpClearing, SafeQuiet
  <2> QED BY <1>4, <2>2, <2>3, <2>4 DEF DeleteJump
<1>5. CASE FindChain(h)
  <2>1. At(h, "findChain") BY <1>5 DEF FindChain
  <2>2. /\ job[h].op \in Writers /\ job[h].err \in BOOLEAN /\ job[h].todo[1].do = "flushChain"
        /\ job[h].todo[1].do \in Clearing
    BY <2>1, AtStage DEF Labels, Clearing
  <2>3. CASE Refused /\ Goto(h, "emptyChain")
    <3>1. "emptyChain" \in Labels(job[h].todo[1].do) BY <2>2 DEF Labels
    <3>2. Safe(h) BY <2>1, <2>2, <2>3, <3>1, FaultKeeps, GotoClearing
    <3> QED BY <2>3, <3>2, FaultKeeps, SafeQuiet
  <2>4. CASE (Refused \/ Fault(h, "list")) /\ Advance(h, job[h].err)
    BY <2>2, <2>4, FaultKeeps, AdvanceClearing, SafeQuiet
  <2> QED BY <1>5, <2>3, <2>4 DEF FindChain
<1>6. CASE EmptyChain(h)
  <2>1. At(h, "emptyChain") BY <1>6 DEF EmptyChain
  <2>2. /\ job[h].op \in Writers /\ job[h].err \in BOOLEAN /\ job[h].todo[1].do = "flushChain"
        /\ job[h].todo[1].do \in Clearing /\ Stage1(h).on = c /\ c \in Chains
    BY <2>1, AtStage DEF Labels, Clearing
  <2>3. CASE /\ chain' = [chain EXCEPT ![c] = <<>>] /\ Ran
             /\ UNCHANGED <<nat, jumps>> /\ Goto(h, "deleteChain")
    <3>1. "deleteChain" \in Labels(job[h].todo[1].do) BY <2>2 DEF Labels
    <3>2. Safe(h) BY <2>1, <2>2, <2>3, <3>1, GotoClearing DEF Ran
    <3>3. <<>> \in Seq(AllRules) \cup {Absent} OBVIOUS
    <3>4. Tables' BY <2>2, <2>3, <3>2, <3>3, TablesKept, Zenon DEF Safe, Flows, Moves
    <3> QED BY <3>2, <3>4, SafeStep
  <2>4. CASE (Refused \/ Fault(h, "run")) /\ GiveUp(h)
    BY <2>2, <2>4, FaultKeeps, GiveUpClearing, SafeQuiet, Zenon
  <2> QED BY <1>6, <2>2, <2>3, <2>4 DEF EmptyChain
<1>7. CASE DeleteChain(h)
  <2>1. At(h, "deleteChain") BY <1>7 DEF DeleteChain
  <2>2. /\ job[h].op \in Writers /\ job[h].err \in BOOLEAN /\ job[h].todo[1].do = "flushChain"
        /\ job[h].todo[1].do \in Clearing /\ Stage1(h).on = c /\ c \in Chains
    BY <2>1, AtStage DEF Labels, Clearing
  <2>3. CASE /\ chain' = [chain EXCEPT ![c] = Absent] /\ Ran
             /\ UNCHANGED <<nat, jumps>> /\ Advance(h, job[h].err)
    <3>1. Safe(h) BY <2>2, <2>3, AdvanceClearing, Zenon DEF Ran
    <3>2. Tables' BY <2>2, <2>3, <3>1, TablesKept, Zenon DEF Safe, Flows, Moves
    <3> QED BY <3>1, <3>2, SafeStep
  <2>4. CASE (Refused \/ Fault(h, "run")) /\ GiveUp(h)
    BY <2>2, <2>4, FaultKeeps, GiveUpClearing, SafeQuiet
  <2> QED BY <1>7, <2>2, <2>3, <2>4, Zenon DEF DeleteChain
<1> QED BY <1>1, <1>2, <1>3, <1>4, <1>5, <1>6, <1>7 DEF FlushStep

-----------------------------------------------------------------------------
(* Building.                                                               *)

LEMMA FlowStep ==
  ASSUME EgressIInv, NEW h \in Helpers, Flows(h), Tables', Settles(h)
  PROVE  EgressIInv'
BY HelperStep, Zenon DEF Flows

\* A stage that builds: its Apply is pending.
LEMMA AtBuild ==
  ASSUME EgressIInv, NEW h \in Helpers, NEW l, At(h, l),
         l \in {"addNAT", "checkNAT", "newChain", "confirmChain", "clearChain", "appendRule",
                "ensureJump", "insertJump", "refuse"}
  PROVE  /\ job[h].op \in Writers /\ job[h].op # "idle" /\ job[h].at = l /\ job[h].at # "probe"
         /\ Pending(job[h]) /\ Building(Env, job[h]) /\ job[h].err = FALSE
         /\ job[h].policy \in Policies /\ Stage1(h) = job[h].todo[1]
         /\ l \in {"addNAT", "checkNAT"} => job[h].todo[1].do = "redirect"
         /\ l \notin {"addNAT", "checkNAT", "refuse"} =>
              /\ job[h].todo[1].do = "build" /\ job[h].todo[1] = Stage("build", job[h].todo[1].on)
              /\ job[h].todo[1].on \in Chains
<1>1. /\ job[h].op \in Writers /\ job[h].op # "idle" /\ job[h].at = l
      /\ l \in Labels(job[h].todo[1].do) /\ job[h].todo[1] \in StageType
      /\ Stage1(h) = job[h].todo[1] /\ job[h].err \in BOOLEAN
      /\ job[h].todo[1].do \in {"flushChain", "build"} => job[h].todo[1].on \in Chains
  BY AtStage
<1>2. /\ job[h].todo[1].do \notin Clearing
      /\ l \in {"addNAT", "checkNAT"} => job[h].todo[1].do = "redirect"
      /\ l \notin {"addNAT", "checkNAT", "refuse"} => job[h].todo[1].do = "build"
  BY <1>1 DEF Labels, Clearing
<1>3. Pending(job[h]) /\ Building(Env, job[h]) /\ job[h].policy \in Policies
  BY <1>1, <1>2, BuildPending
<1>4. job[h].err = FALSE BY <1>1, <1>3 DEF Pending
<1>5. job[h].todo[1].do = "build" => job[h].todo[1] = Stage("build", job[h].todo[1].on)
  BY <1>1 DEF StageType, Stage
<1> QED BY <1>1, <1>2, <1>3, <1>4, <1>5, Zenon

\* A step of the build that fails.
LEMMA RollbackKeeps ==
  ASSUME EgressIInv, NEW h \in Helpers, NEW kind, Pending(job[h]), Refused \/ Fault(h, kind), Rollback(h)
  PROVE  EgressIInv'
<1>1. UNCHANGED <<host, chain, jumps>> BY FaultKeeps
<1>2. Safe(h) BY <1>1, RollbackStep, Zenon DEF Safe
<1> QED BY <1>1, <1>2, SafeQuiet

\* A step that changes no chain and after which everything is still owed.
LEMMA OwingStep ==
  ASSUME EgressIInv, NEW h \in Helpers, Flows(h), UNCHANGED <<host, chain, jumps>>,
         \A c \in Managed :
           /\ OwesDrop(Env, job[h], c) => OwesDrop(Env, job'[h], c) \/ HasDrop(c)
           /\ OwesJump(Env, job[h], c) => OwesJump(Env, job'[h], c) \/ jumps[c] > 0
  PROVE  EgressIInv'
<1>1. Tables' BY TablesKept DEF Flows, Moves
<1>2. \A c : HasDrop(c)' <=> HasDrop(c) BY DEF HasDrop
<1>3. Settles(h) BY <1>2, Zenon DEF Settles
<1> QED BY <1>1, <1>3, FlowStep, Zenon

\* Goto within a stage that builds.
LEMMA GotoBuilding ==
  ASSUME EgressIInv, NEW h \in Helpers, NEW m, NEW l, At(h, m), UNCHANGED host, Goto(h, l),
         \/ m = "addNAT" /\ l = "checkNAT"
         \/ m \in {"newChain", "confirmChain"} /\ l \in {"confirmChain", "clearChain"}
         \/ m = "clearChain" /\ l = "appendRule"
         \/ m = "ensureJump" /\ l = "insertJump"
  PROVE  /\ Flows(h) /\ job'[h].todo = job[h].todo /\ job'[h].at = l /\ Pending(job'[h])
         /\ \A c : OwesJump(Env, job[h], c) => OwesJump(Env, job'[h], c)
         /\ \A c : OwesDrop(Env, job[h], c) => OwesDrop(Env, job'[h], c)
<1>1. /\ job[h].op # "idle" /\ job[h].at = m /\ job[h].at # "probe" /\ Pending(job[h])
      /\ m \in {"addNAT", "checkNAT"} => job[h].todo[1].do = "redirect"
      /\ m \notin {"addNAT", "checkNAT", "refuse"} => job[h].todo[1].do = "build"
  BY AtBuild, Zenon
<1>2. /\ l \in Labels(job[h].todo[1].do) /\ l # "probe"
      /\ l \in {"newChain", "confirmChain", "clearChain"} =>
           job[h].at \in {"newChain", "confirmChain", "clearChain"}
      /\ l = "appendRule" => job[h].at = "clearChain"
      /\ ~(l \in JumpLabels /\ job[h].at \notin JumpLabels)
  BY <1>1 DEF Labels, JumpLabels
<1> QED BY <1>1, <1>2, GotoStep, Zenon

\* The redirects.
LEMMA RedirectSteps ==
  ASSUME EgressIInv, NEW h \in Helpers, AddNAT(h) \/ CheckNAT(h)
  PROVE  EgressIInv'
<1>1. CASE AddNAT(h)
  <2>1. At(h, "addNAT") /\ Pending(job[h]) BY <1>1, AtBuild, Zenon DEF AddNAT
  <2>2. CASE Ran /\ UNCHANGED <<chain, jumps>> /\ Goto(h, "checkNAT")
    <3>1. UNCHANGED <<host, chain, jumps>> BY <2>2 DEF Ran
    <3> QED BY <2>1, <2>2, <3>1, GotoBuilding, OwingStep, Zenon
  <2>3. CASE Fault(h, "run") /\ Rollback(h) BY <2>1, <2>3, RollbackKeeps
  <2> QED BY <1>1, <2>2, <2>3 DEF AddNAT
<1>2. CASE CheckNAT(h)
  <2>1. At(h, "checkNAT") BY <1>2 DEF CheckNAT
  <2>2. /\ job[h].op \in Writers /\ job[h].at # "probe" /\ Pending(job[h]) /\ job[h].err = FALSE
        /\ job[h].todo[1].do = "redirect"
    BY <2>1, AtBuild, Zenon
  <2>3. CASE Refused /\ Built(h)
    <3>1. UNCHANGED <<host, chain, jumps>> /\ Advance(h, FALSE) BY <2>3, FaultKeeps, Zenon DEF Built
    <3>2. job[h].op = "apply" => (FALSE <=> job[h].err) BY <2>2
    <3>3. \A c : job[h].todo[1] # Stage("build", c) BY <2>2 DEF Stage
    <3>4. /\ Flows(h)
          /\ \A c : OwesJump(Env, job[h], c) => OwesJump(Env, job'[h], c)
          /\ \A c : OwesDrop(Env, job[h], c) => OwesDrop(Env, job'[h], c)
      BY <2>2, <3>1, <3>2, <3>3, AdvanceStep, Zenon
    <3> QED BY <3>1, <3>4, OwingStep, Zenon
  <2>4. CASE (Refused \/ Fault(h, "check")) /\ Rollback(h) BY <2>2, <2>4, RollbackKeeps
  <2> QED BY <1>2, <2>3, <2>4 DEF CheckNAT, Check
<1> QED BY <1>1, <1>2

\* Creating, finding and emptying a chain.
LEMMA ChainSteps ==
  ASSUME EgressIInv, NEW h \in Helpers, NewChain(h) \/ ConfirmChain(h) \/ ClearChain(h)
  PROVE  EgressIInv'
<1> DEFINE c == job[h].todo[1].on
<1>1. CASE NewChain(h)
  <2>1. At(h, "newChain") BY <1>1 DEF NewChain
  <2>2. Stage1(h).on = c /\ c \in Chains BY <2>1, AtBuild, Zenon
  <2>3. CASE /\ chain[c] = Absent /\ chain' = [chain EXCEPT ![c] = <<>>] /\ Ran
             /\ UNCHANGED <<nat, jumps>> /\ Goto(h, "clearChain")
    <3>1. /\ Flows(h)
          /\ \A d : OwesJump(Env, job[h], d) => OwesJump(Env, job'[h], d)
          /\ \A d : OwesDrop(Env, job[h], d) => OwesDrop(Env, job'[h], d)
      BY <2>1, <2>3, GotoBuilding DEF Ran
    <3>2. <<>> \in Seq(AllRules) \cup {Absent} OBVIOUS
    <3>3. Tables' BY <2>2, <2>3, <3>1, <3>2, TablesKept, Zenon DEF Flows, Moves
    <3>4. \A d \in Managed : HasDrop(d) => HasDrop(d)'
      <4> SUFFICES ASSUME NEW d \in Managed, HasDrop(d) PROVE HasDrop(d)' OBVIOUS
      <4>1. d # c /\ d \in Chains BY <2>3, ChainList DEF HasDrop
      <4>2. chain'[d] = chain[d] BY <2>3, <4>1 DEF EgressIInv, Tables
      <4> QED BY <4>2 DEF HasDrop
    <3>5. Settles(h) BY <2>3, <3>1, <3>4, Zenon DEF Settles
    <3> QED BY <3>1, <3>3, <3>5, FlowStep
  <2>4. CASE (Refused \/ Fault(h, "run")) /\ Goto(h, "confirmChain")
    <3>1. UNCHANGED <<host, chain, jumps>> BY <2>4, FaultKeeps
    <3> QED BY <2>1, <2>4, <3>1, GotoBuilding, OwingStep
  <2> QED BY <1>1, <2>2, <2>3, <2>4, Zenon DEF NewChain
<1>2. CASE ConfirmChain(h)
  <2>1. At(h, "confirmChain") /\ Pending(job[h]) BY <1>2, AtBuild, Zenon DEF ConfirmChain
  <2>2. CASE Refused /\ Goto(h, "clearChain")
    <3>1. UNCHANGED <<host, chain, jumps>> BY <2>2, FaultKeeps
    <3> QED BY <2>1, <2>2, <3>1, GotoBuilding, OwingStep
  <2>3. CASE (Refused \/ Fault(h, "list")) /\ Rollback(h) BY <2>1, <2>3, RollbackKeeps
  <2> QED BY <1>2, <2>2, <2>3, Zenon DEF ConfirmChain
<1>3. CASE ClearChain(h)
  <2>1. At(h, "clearChain") BY <1>3 DEF ClearChain
  <2>2. Stage1(h).on = c /\ c \in Chains /\ Pending(job[h]) /\ job[h].todo[1] = Stage("build", c)
    <3>1. Stage1(h).on = c /\ c \in Chains /\ Pending(job[h]) BY <2>1, AtBuild, Zenon
    <3>2. /\ "clearChain" \notin {"addNAT", "checkNAT", "refuse"}
          /\ "clearChain" \in {"addNAT", "checkNAT", "newChain", "confirmChain", "clearChain",
                               "appendRule", "ensureJump", "insertJump", "refuse"}
      OBVIOUS
    <3>3. job[h].todo[1] = Stage("build", c) BY <2>1, <3>2, AtBuild, Zenon
    <3> QED BY <3>1, <3>3
  <2>3. CASE /\ chain' = [chain EXCEPT ![c] = <<>>] /\ Ran
             /\ UNCHANGED <<nat, jumps>> /\ Goto(h, "appendRule")
    <3>1. /\ Flows(h) /\ job'[h].todo = job[h].todo /\ job'[h].at = "appendRule" /\ Pending(job'[h])
          /\ \A d : OwesJump(Env, job[h], d) => OwesJump(Env, job'[h], d)
          /\ \A d : OwesDrop(Env, job[h], d) => OwesDrop(Env, job'[h], d)
      BY <2>1, <2>3, GotoBuilding, Zenon DEF Ran
    <3>2. <<>> \in Seq(AllRules) \cup {Absent} OBVIOUS
    <3>3. Tables' BY <2>2, <2>3, <3>1, <3>2, TablesKept, Zenon DEF Flows, Moves
    <3>4. OwesDrop(Env, job'[h], c)
      <4>1. Shaped(Env, job[h]) BY <2>2, Zenon DEF EgressIInv, Jobs, Sane, Pending
      <4>2. 1 \in 1..Len(job[h].todo)
        <5>1. job[h].todo \in Seq(StageType) /\ job[h].todo # <<>> BY <4>1 DEF Shaped
        <5> QED BY <5>1
      <4> QED BY <2>2, <3>1, <4>2, Zenon DEF OwesDrop, JumpLabels
    <3>5. \A d \in Managed : HasDrop(d) => HasDrop(d)' \/ d = c
      <4> SUFFICES ASSUME NEW d \in Managed, HasDrop(d), d # c PROVE HasDrop(d)' OBVIOUS
      <4>1. d \in Chains BY ChainList
      <4>2. chain'[d] = chain[d] BY <2>3, <4>1 DEF EgressIInv, Tables
      <4> QED BY <4>2 DEF HasDrop
    <3>6. Settles(h) BY <2>3, <3>1, <3>4, <3>5, Zenon DEF Settles
    <3> QED BY <3>1, <3>3, <3>6, FlowStep
  <2>4. CASE (Refused \/ Fault(h, "run")) /\ Rollback(h) BY <2>2, <2>4, RollbackKeeps, Zenon
  <2> QED BY <1>3, <2>2, <2>3, <2>4, Zenon DEF ClearChain
<1> QED BY <1>1, <1>2, <1>3

\* A rule is appended; the last one is the drop.
LEMMA AppendSteps ==
  ASSUME EgressIInv, NEW h \in Helpers, AppendRule(h)
  PROVE  EgressIInv'
<1> DEFINE c == job[h].todo[1].on
           j == job[h]
           rules == Contents(c, j.policy)
           i == j.i
<1>1. At(h, "appendRule") BY DEF AppendRule
<1>2. /\ Stage1(h).on = c /\ c \in Chains /\ Pending(j) /\ j.policy \in Policies /\ Building(Env, j)
      /\ j.op # "idle" /\ j.at = "appendRule" /\ j.at # "probe" /\ j.todo[1].do = "build"
  BY <1>1, AtBuild, Zenon
<1>3. i \in 1..Len(rules) BY <1>2 DEF Building
<1>4. rules \in Seq(AllRules) /\ Len(rules) \in {2, 6} /\ rules[Len(rules)] = <<"drop">>
  BY <1>2, EndsInDrop, Zenon
<1>5. CASE /\ chain[c] # Absent /\ chain' = [chain EXCEPT ![c] = Append(@, rules[i])] /\ Ran
           /\ job' = [job EXCEPT ![h].i = i + 1,
                          ![h].at = IF i = Len(rules) THEN "ensureJump" ELSE @]
           /\ UNCHANGED <<nat, jumps, epoch>>
  <2> DEFINE n == [j EXCEPT !.i = i + 1, !.at = IF i = Len(rules) THEN "ensureJump" ELSE j.at]
  <2>1. Sane(Env, j, epoch.asked) BY DEF EgressIInv, Jobs
  <2>2. job' = [job EXCEPT ![h] = n]
    <3>1. job = [g \in Helpers |-> job[g]] BY DEF EgressIInv, Tables
    <3> HIDE DEF rules, i
    <3> QED BY <1>5, <3>1, Zenon
  <2>3. /\ DOMAIN n = Fields /\ n.op = j.op /\ n.policy = j.policy /\ n.todo = j.todo
        /\ n.err = j.err /\ n.i = i + 1 /\ n.at = IF i = Len(rules) THEN "ensureJump" ELSE j.at
    <3> HIDE DEF rules, i
    <3> QED BY <2>1 DEF Fields, Sane
  <2> HIDE DEF n
  <2>4. n.err \in BOOLEAN /\ (Pending(n) <=> Pending(j)) BY <2>1, <2>3, Zenon DEF Pending, Sane
  <2>5. /\ n.at # "probe" /\ n.at \in Labels(j.todo[1].do)
        /\ n.at \notin {"newChain", "confirmChain", "clearChain"}
        /\ n.at \in JumpLabels => i = Len(rules)
        /\ n.at = "appendRule" => n.i \in 1..Len(rules)
    <3>1. n.at \in {"appendRule", "ensureJump"} /\ (n.at = "appendRule" <=> i # Len(rules))
      <4> HIDE DEF rules, i
      <4> QED BY <1>2, <2>3
    <3>2. i # Len(rules) => i + 1 \in 1..Len(rules)
      <4> HIDE DEF rules, i
      <4> QED BY <1>3, <1>4
    <3> QED BY <1>2, <2>3, <3>1, <3>2 DEF Labels, JumpLabels
  <2>6. /\ Sane(Env, n, epoch.asked)
        /\ \A d : OwesJump(Env, j, d) => OwesJump(Env, n, d)
        /\ \A d : OwesDrop(Env, j, d) => OwesDrop(Env, n, d)
             \/ (n.at \in JumpLabels /\ j.at \notin JumpLabels /\ j.todo[1] = Stage("build", d))
    BY <1>2, <2>1, <2>3, <2>4, <2>5, StaysSane, Zenon
  <2>7. Flows(h) /\ job'[h] = n
    <3>1. UNCHANGED <<host, epoch>> BY <1>5 DEF Ran
    <3>2. j.op = "apply" /\ j.err => n.op = "apply" /\ n.err BY <2>3
    <3> QED BY <2>2, <2>6, <3>1, <3>2, GoesOn, Zenon
  <2>8. chain[c] \in Seq(AllRules) /\ rules[i] \in AllRules /\ chain = [d \in Chains |-> chain[d]]
    <3>1. chain[c] \in Seq(AllRules) /\ chain = [d \in Chains |-> chain[d]]
      BY <1>2, <1>5, Zenon DEF EgressIInv, Tables
    <3>2. rules[i] \in AllRules
      <4> HIDE DEF rules, i
      <4> QED BY <1>3, <1>4
    <3> QED BY <3>1, <3>2
  <2> DEFINE s == Append(chain[c], rules[i])
  <2>9. s \in Seq(AllRules)
    <3> HIDE DEF rules, i
    <3> QED BY <2>8
  <2>10. rules[i] \in Range(s) /\ Range(chain[c]) \subseteq Range(s)
    <3> HIDE DEF rules, i
    <3> QED BY <2>8, AppendSet, Zenon
  <2>11. chain' = [chain EXCEPT ![c] = s] /\ jumps' = jumps BY <1>5
  <2> HIDE DEF s
  <2>12. /\ chain'[c] = s /\ \A d \in Chains \ {c} : chain'[d] = chain[d]
    BY <1>2, <2>8, <2>11
  <2>13. s # Absent
    <3> DEFINE a == <<"absent">>
    <3>1. a \notin AllRules BY DEF AllRules
    <3>2. <<a>>[1] = a /\ Len(<<a>>) = 1 OBVIOUS
    <3> HIDE DEF a
    <3>3. Absent = <<a>> BY DEF Absent, a
    <3>4. s = <<a>> => a \in AllRules BY <2>9, <3>2
    <3> QED BY <3>1, <3>3, <3>4
  <2>14. Tables'
    <3>1. s \in Seq(AllRules) \cup {Absent} BY <2>9
    <3>2. UNCHANGED host BY <1>5 DEF Ran
    <3> QED BY <1>2, <2>7, <2>11, <3>1, <3>2, TablesKept, Zenon DEF Flows, Moves
  <2>15. \A d \in Managed : HasDrop(d) => HasDrop(d)'
    <3> SUFFICES ASSUME NEW d \in Managed, HasDrop(d) PROVE HasDrop(d)' OBVIOUS
    <3>1. d \in Chains BY ChainList
    <3>2. CASE d = c BY <2>10, <2>12, <2>13, <3>2, Zenon DEF HasDrop
    <3>3. CASE d # c BY <2>12, <3>1, <3>3 DEF HasDrop
    <3> QED BY <3>2, <3>3
  <2>16. \A d \in Managed : OwesDrop(Env, j, d) => OwesDrop(Env, n, d) \/ HasDrop(d)'
    <3> SUFFICES ASSUME NEW d \in Managed, n.at \in JumpLabels, j.todo[1] = Stage("build", d)
                 PROVE  HasDrop(d)'
      BY <2>6, Zenon
    <3>1. d = c BY DEF Stage
    <3>2. rules[i] = <<"drop">> BY <1>4, <2>5
    <3> QED BY <2>10, <2>12, <2>13, <3>1, <3>2 DEF HasDrop
  <2>17. Settles(h) BY <2>6, <2>7, <2>11, <2>15, <2>16, Zenon DEF Settles
  <2> QED BY <2>7, <2>14, <2>17, FlowStep
<1>6. CASE (Refused \/ Fault(h, "run")) /\ Rollback(h) BY <1>2, <1>6, RollbackKeeps
<1> QED BY <1>2, <1>5, <1>6, Zenon DEF AppendRule

\* The jump is there, or is inserted.
LEMMA JumpSteps ==
  ASSUME EgressIInv, NEW h \in Helpers, EnsureJump(h) \/ InsertJump(h)
  PROVE  EgressIInv'
<1> DEFINE c == job[h].todo[1].on
<1>1. \E l \in JumpLabels : At(h, l) BY Zenon DEF EnsureJump, InsertJump, JumpLabels
<1>2. /\ Stage1(h).on = c /\ c \in Chains /\ Pending(job[h]) /\ job[h].err = FALSE
      /\ job[h].op \in Writers /\ job[h].at # "probe" /\ job[h].at \in JumpLabels
      /\ job[h].todo[1].do = "build"
  BY <1>1, AtBuild, Zenon DEF JumpLabels
<1>3. \A d : job[h].todo[1] = Stage("build", d) => d = c BY DEF Stage
<1>4. ASSUME UNCHANGED host, Built(h)
      PROVE  /\ Flows(h)
             /\ \A d : OwesJump(Env, job[h], d) => OwesJump(Env, job'[h], d) \/ d = c
             /\ \A d : OwesDrop(Env, job[h], d) => OwesDrop(Env, job'[h], d)
  <2>1. Advance(h, FALSE) BY <1>4, Zenon DEF Built
  <2>2. job[h].op = "apply" => (FALSE <=> job[h].err) BY <1>2, Zenon
  <2> QED BY <1>2, <1>3, <1>4, <2>1, <2>2, AdvanceStep, Zenon
<1>5. CASE EnsureJump(h)
  <2>1. At(h, "ensureJump") BY <1>5 DEF EnsureJump
  <2>2. CASE Refused /\ jumps[c] > 0 /\ Built(h)
    <3>1. UNCHANGED <<host, chain, jumps>> BY <2>2, FaultKeeps, Zenon
    <3> QED BY <1>4, <2>2, <3>1, OwingStep, Zenon
  <2>3. CASE (Refused \/ Fault(h, "check")) /\ Goto(h, "insertJump")
    <3>1. UNCHANGED <<host, chain, jumps>> BY <2>3, FaultKeeps
    <3> QED BY <2>1, <2>3, <3>1, GotoBuilding, OwingStep, Zenon
  <2> QED BY <1>2, <1>5, <2>2, <2>3 DEF EnsureJump, Check, ToInsertJump
<1>6. CASE InsertJump(h)
  <2>1. CASE /\ jumps' = [jumps EXCEPT ![c] = @ + 1] /\ Ran /\ UNCHANGED <<nat, chain>> /\ Built(h)
    <3>1. UNCHANGED host BY <2>1 DEF Ran
    <3>2. jumps \in [Chains -> Nat] BY DEF EgressIInv, Tables
    <3>3. /\ jumps[c] + 1 \in Nat /\ jumps' = [jumps EXCEPT ![c] = jumps[c] + 1]
          /\ jumps'[c] > 0 /\ \A d \in Chains : jumps[d] > 0 => jumps'[d] > 0
      <4>1. c \in Chains /\ jumps' = [jumps EXCEPT ![c] = @ + 1] BY <1>2, <2>1, Zenon
      <4> HIDE DEF c
      <4> QED BY <3>2, <4>1
    <3>4. Tables' BY <1>2, <1>4, <2>1, <3>1, <3>3, TablesKept, Zenon DEF Flows, Moves
    <3>5. \A d : HasDrop(d) => HasDrop(d)' BY <2>1, Zenon DEF HasDrop
    <3>6. Settles(h) BY <1>4, <2>1, <3>1, <3>3, <3>5, ChainList, Zenon DEF Settles
    <3> QED BY <1>4, <2>1, <3>1, <3>4, <3>6, FlowStep, Zenon
  <2>2. CASE (Refused \/ Fault(h, "run")) /\ Rollback(h) BY <1>2, <2>2, RollbackKeeps, Zenon
  <2> QED BY <1>2, <1>6, <2>1, <2>2, Zenon DEF InsertJump
<1> QED BY <1>5, <1>6

LEMMA BuildSteps ==
  ASSUME EgressIInv, NEW h \in Helpers, BuildStep(h)
  PROVE  EgressIInv'
<1>1. CASE Refuse(h)
  <2>1. Pending(job[h]) BY <1>1, AtBuild, Zenon DEF Refuse
  <2> QED BY <1>1, <2>1, RollbackKeeps DEF Refuse
<1> QED BY <1>1, RedirectSteps, ChainSteps, AppendSteps, JumpSteps DEF BuildStep

-----------------------------------------------------------------------------
(* alreadyApplied and the other steps.                                     *)

\* What a probe that succeeds says.
LEMMA PresentMeans ==
  /\ \A c : Present(Rule("rule", c, <<"drop">>)) => HasDrop(c)
  /\ \A c : Present(Rule("jump", c, <<>>)) => jumps[c] > 0
  /\ \A q : q.kind = "never" => ~Present(q)
BY DEF Present, Rule, HasDrop

\* Verify's answer changes nothing.
LEMMA VerifyAnswers ==
  ASSUME EgressIInv, NEW h \in Helpers, NEW res, job[h].op = "verify", Answer(h, res),
         UNCHANGED <<host, chain, jumps>>
  PROVE  EgressIInv'
<1>1. job' = [job EXCEPT ![h] = Idle(res)] /\ UNCHANGED epoch BY DEF Answer
<1>2. Sane(Env, Idle(res), epoch.asked) BY DEF Sane, Idle, Fields, Pending
<1>3. Flows(h)
  <2>1. ~(job[h].op = "apply" /\ job[h].err) /\ UNCHANGED <<host, epoch>> BY <1>1
  <2> QED BY <1>1, <1>2, <2>1, GoesOn, Zenon
<1>4. \A c : ~OwesDrop(Env, job[h], c) /\ ~OwesJump(Env, job[h], c)
  BY DEF OwesDrop, OwesJump, Pending
<1> QED BY <1>3, <1>4, OwingStep

\* A probe that succeeds and is not the last.
LEMMA NextProbe ==
  ASSUME EgressIInv, NEW h \in Helpers, At(h, "probe"), UNCHANGED <<host, chain, jumps, epoch>>,
         Present(Probes(job[h].policy)[job[h].i]), job[h].i # Len(Probes(job[h].policy)),
         job' = [job EXCEPT ![h].i = @ + 1]
  PROVE  EgressIInv'
<1> DEFINE j == job[h]
           n == [j EXCEPT !.i = j.i + 1]
           P == Env.probes[j.policy]
<1>1. Sane(Env, j, epoch.asked) /\ j.op # "idle" /\ j.at = "probe" BY DEF EgressIInv, Jobs, At
<1>2. Shaped(Env, j) /\ Probing(Env, j) /\ (Pending(j) => Building(Env, j)) BY <1>1 DEF Sane
<1>3. j.policy \in Policies /\ j.i \in 1..Len(P) BY <1>1, <1>2 DEF Probing
<1>4. P = Probes(j.policy) BY <1>3 DEF Env
<1>5. Len(P) \in Nat BY <1>3, <1>4, AllProbes
<1>6. j.i + 1 \in 1..Len(P) /\ \A k \in j.i..Len(P) : k = j.i \/ k \in (j.i + 1)..Len(P)
  <2>1. j.i # Len(P) BY <1>4
  <2> HIDE DEF P, j
  <2> QED BY <1>3, <1>5, <2>1
<1>7. job' = [job EXCEPT ![h] = n]
  <2>1. job = [g \in Helpers |-> job[g]] BY DEF EgressIInv, Tables
  <2> QED BY <2>1
<1>8. /\ DOMAIN n = Fields /\ n.op = j.op /\ n.policy = j.policy /\ n.todo = j.todo
      /\ n.err = j.err /\ n.i = j.i + 1 /\ n.at = j.at
  BY <1>1 DEF Fields, Sane
<1> HIDE DEF n
<1>9. n.err \in BOOLEAN /\ (Pending(n) <=> Pending(j)) BY <1>1, <1>8, Zenon DEF Pending, Sane
<1>10. Shaped(Env, n) BY <1>2, <1>8, <1>9 DEF Shaped
<1>11. Probing(Env, n)
  <2>1. Env.hopeless => \E k \in (j.i + 1)..Len(P) : P[k].kind = "never"
    <3> SUFFICES ASSUME Env.hopeless PROVE \E k \in (j.i + 1)..Len(P) : P[k].kind = "never" OBVIOUS
    <3>1. PICK k \in j.i..Len(P) : P[k].kind = "never" BY <1>1, <1>2 DEF Probing
    <3>2. k # j.i
      <4>1. ~Present(P[k]) BY <3>1, PresentMeans
      <4> QED BY <1>4, <4>1
    <3> QED BY <1>6, <3>1, <3>2
  <2>2. n.err => n.at # "probe" BY <1>2, <1>8 DEF Probing
  <2>3. n.policy \in Policies /\ n.i \in 1..Len(Env.probes[n.policy]) BY <1>3, <1>6, <1>8
  <2>4. Env.hopeless => \E k \in n.i..Len(Env.probes[n.policy]) : Env.probes[n.policy][k].kind = "never"
    BY <1>8, <2>1
  <2>5. n.op = "verify" => n.at = "probe" BY <1>1, <1>8
  <2> QED BY <2>2, <2>3, <2>4, <2>5 DEF Probing
<1>12. Pending(n) => Building(Env, n) BY <1>1, <1>2, <1>8, <1>9 DEF Building
<1>13. n.op \in {"idle", "apply", "remove", "verify"} /\ (n.op = "remove" => <<"remove", "-">> \in epoch.asked)
  BY <1>1, <1>8 DEF Sane
<1>14. Sane(Env, n, epoch.asked) BY <1>8, <1>9, <1>10, <1>11, <1>12, <1>13, Zenon DEF Sane
<1>15. Flows(h) /\ job'[h] = n
  <2>1. UNCHANGED <<host, epoch>> OBVIOUS
  <2>2. j.op = "apply" /\ j.err => n.op = "apply" /\ n.err BY <1>8
  <2> QED BY <1>7, <1>14, <2>1, <2>2, GoesOn, Zenon
<1>16. ASSUME NEW c, OwesDrop(Env, j, c) PROVE OwesDrop(Env, n, c) \/ HasDrop(c)
  <2>1. PICK k \in j.i..Len(P) : P[k] = Rule("rule", c, <<"drop">>) BY <1>1, <1>16 DEF OwesDrop
  <2>2. CASE k = j.i BY <1>4, <2>1, <2>2, PresentMeans
  <2>3. CASE k \in (j.i + 1)..Len(P)
    <3>1. Pending(n) /\ n.at = "probe" BY <1>1, <1>8, <1>9, <1>16 DEF OwesDrop
    <3>2. \E m \in n.i..Len(Env.probes[n.policy]) : Env.probes[n.policy][m] = Rule("rule", c, <<"drop">>)
      BY <1>8, <2>1, <2>3
    <3> QED BY <3>1, <3>2 DEF OwesDrop
  <2> QED BY <1>6, <2>2, <2>3
<1>17. ASSUME NEW c, OwesJump(Env, j, c) PROVE OwesJump(Env, n, c) \/ jumps[c] > 0
  <2>1. PICK k \in j.i..Len(P) : P[k] = Rule("jump", c, <<>>) BY <1>1, <1>17 DEF OwesJump
  <2>2. CASE k = j.i BY <1>4, <2>1, <2>2, PresentMeans
  <2>3. CASE k \in (j.i + 1)..Len(P)
    <3>1. Pending(n) /\ n.at = "probe" BY <1>1, <1>8, <1>9, <1>17 DEF OwesJump
    <3>2. \E m \in n.i..Len(Env.probes[n.policy]) : Env.probes[n.policy][m] = Rule("jump", c, <<>>)
      BY <1>8, <2>1, <2>3
    <3> QED BY <3>1, <3>2 DEF OwesJump
  <2> QED BY <1>6, <2>2, <2>3
<1> QED BY <1>15, <1>16, <1>17, OwingStep

LEMMA ProbeSteps ==
  ASSUME EgressIInv, NEW h \in Helpers, Probe(h)
  PROVE  EgressIInv'
<1> DEFINE j == job[h]
           P == Probes(j.policy)
<1>1. At(h, "probe") BY DEF Probe
<1>2. Sane(Env, j, epoch.asked) /\ j.op # "idle" /\ j.at = "probe"
  BY <1>1 DEF EgressIInv, Jobs, At
<1>3. Shaped(Env, j) /\ Probing(Env, j) BY <1>2 DEF Sane
<1>4. ~j.err /\ j.err \in BOOLEAN /\ j.op \in Writers \cup {"verify"}
  BY <1>2, <1>3, Zenon DEF Probing, Sane, Writers
<1>5. j.todo[1].do \in Clearing
  <2>1. 1 \in 1..Len(j.todo) /\ j.todo[1] \in StageType
    <3>1. j.todo \in Seq(StageType) /\ j.todo # <<>> BY <1>3 DEF Shaped
    <3> QED BY <3>1
  <2> QED BY <1>2, <1>3, <2>1 DEF Shaped, Labels, Clearing, StageType
<1>6. j.policy \in Policies /\ j.i \in 1..Len(P) /\ Env.probes[j.policy] = P
      /\ (Hopeless => \E k \in j.i..Len(P) : P[k].kind = "never")
  <2>1. j.policy \in Policies BY <1>2, <1>3 DEF Probing
  <2>2. Env.probes[j.policy] = P /\ Env.hopeless = Hopeless BY <2>1 DEF Env
  <2> QED BY <1>2, <1>3, <2>1, <2>2 DEF Probing
<1>7. CASE UNCHANGED <<host, chain, jumps>> /\ Miss(h)
  <2>1. CASE j.op = "verify" BY <1>7, <2>1, VerifyAnswers DEF Miss
  <2>2. CASE j.op # "verify"
    <3>1. Advance(h, FALSE) BY <1>7, <2>2, Zenon DEF Miss
    <3>2. Safe(h) BY <1>4, <1>5, <1>7, <2>2, <3>1, AdvanceClearing, Zenon
    <3> QED BY <1>7, <3>2, SafeQuiet
  <2> QED BY <2>1, <2>2
<1>8. CASE UNCHANGED <<host, chain, jumps>> /\ Present(P[j.i]) /\ Hit(h)
  <2>1. CASE j.i # Len(P)
    <3>1. job' = [job EXCEPT ![h].i = @ + 1] /\ UNCHANGED epoch BY <1>8, <2>1 DEF Hit
    <3> QED BY <1>1, <1>8, <2>1, <3>1, NextProbe, Zenon
  <2>2. CASE j.i = Len(P) /\ j.op = "verify"
    <3>1. Answer(h, "yes") BY <1>8, <2>2 DEF Hit
    <3> QED BY <1>8, <2>2, <3>1, VerifyAnswers
  <2>3. CASE j.i = Len(P) /\ j.op # "verify"
    <3>1. Answer(h, "ok") BY <1>8, <2>3 DEF Hit
    <3>2. \A k \in j.i..Len(P) : k = j.i
      <4>1. Len(P) \in Nat BY <1>6, AllProbes, Zenon
      <4> HIDE DEF P, j
      <4> QED BY <2>3, <4>1
    <3>3. ~Hopeless BY <1>6, <1>8, <3>2, PresentMeans
    <3>4. Flows(h) BY <1>4, <1>8, <2>3, <3>1, <3>3, AnswerStep
    <3>5. \A c : OwesDrop(Env, j, c) => HasDrop(c)
      BY <1>2, <1>6, <1>8, <3>2, PresentMeans, Zenon DEF OwesDrop
    <3>6. \A c : OwesJump(Env, j, c) => jumps[c] > 0
      BY <1>2, <1>6, <1>8, <3>2, PresentMeans, Zenon DEF OwesJump
    <3> QED BY <1>8, <3>4, <3>5, <3>6, OwingStep, Zenon
  <2> QED BY <2>1, <2>2, <2>3
<1>9. \/ Refused /\ (IF Present(P[j.i]) THEN Hit(h) ELSE Miss(h))
      \/ Fault(h, "check") /\ Miss(h)
  BY Zenon DEF Probe, Check
<1> QED BY <1>7, <1>8, <1>9, FaultKeeps

LEMMA CrashSteps ==
  ASSUME EgressIInv, NEW h \in Helpers, Crash(h)
  PROVE  EgressIInv'
<1>1. UNCHANGED <<host, chain, jumps>> /\ Answer(h, "crashed") /\ job[h].op # "idle"
  BY DEF Crash, kernel
<1>2. job[h].op \in Writers \cup {"verify"} BY <1>1, Zenon DEF EgressIInv, Jobs, Sane, Writers
<1>3. CASE job[h].op = "verify" BY <1>1, <1>3, VerifyAnswers
<1>4. CASE job[h].op \in Writers
  <2>1. Flows(h) /\ "crashed" \in epoch'.res BY <1>1, <1>4, AnswerStep
  <2>2. Spoiled' BY <2>1 DEF Spoiled
  <2> QED BY <1>1, <2>1, <2>2, SafeQuiet DEF Safe
<1> QED BY <1>2, <1>3, <1>4

LEMMA BeginSteps ==
  ASSUME EgressIInv, NEW h \in Helpers, Apply(h) \/ RemoveRules(h) \/ Verify(h)
  PROVE  EgressIInv'
<1>1. PICK op, p : /\ Begin(h, op, p)
                   /\ \/ op \in {"apply", "verify"} /\ p \in Policies
                      \/ op = "remove" /\ p = "-"
  BY DEF Apply, RemoveRules, Verify
<1>2. /\ UNCHANGED <<host, chain, jumps>> /\ job[h].op = "idle"
      /\ job' = [job EXCEPT ![h] = Start(op, p)]
  BY <1>1 DEF Begin, kernel
<1>3. job = [g \in Helpers |-> job[g]] BY DEF EgressIInv, Tables
<1>4. job'[h] = Start(op, p) /\ \A g \in Helpers \ {h} : job'[g] = job[g] BY <1>2, <1>3
<1>5. job' = [g \in Helpers |-> job'[g]] BY <1>2, <1>3
<1>6. Env' = Env /\ Managed' = Managed /\ Hopeless' = Hopeless BY <1>2, EnvKept
<1>7. CASE op = "verify"
  <2>1. UNCHANGED epoch BY <1>1, <1>7 DEF Begin, Writers
  <2>2. Sane(Env, Start(op, p), epoch.asked) BY <1>1, <1>7, Starts
  <2>3. Flows(h)
    <3>1. ~(job[h].op = "apply" /\ job[h].err) /\ UNCHANGED <<host, epoch>> BY <1>2, <2>1
    <3> QED BY <1>2, <2>2, <3>1, GoesOn, Zenon
  <2>4. \A c : ~OwesDrop(Env, job[h], c) /\ ~OwesJump(Env, job[h], c)
    BY <1>2, Zenon DEF OwesDrop, OwesJump, Pending
  <2> QED BY <1>2, <2>3, <2>4, OwingStep
<1>8. CASE op # "verify"
  <2>1. op \in Writers BY <1>1, <1>8 DEF Writers
  <2>2. /\ DOMAIN epoch' = DOMAIN epoch /\ <<op, p>> \in epoch'.asked
        /\ \/ Quiet /\ epoch'.res = {}
           \/ epoch'.asked = epoch.asked \cup {<<op, p>>} /\ epoch'.res = epoch.res
    <3>1. DOMAIN epoch = {"asked", "alone", "res", "whole"} BY DEF EgressIInv, Tables
    <3>2. CASE Quiet
      <4> DEFINE w == op # "remove" /\ Exact(p)
      <4>1. epoch' = [asked |-> {<<op, p>>}, alone |-> TRUE, res |-> {}, whole |-> w]
        BY <1>1, <2>1, <3>2 DEF Begin
      <4> HIDE DEF w
      <4> QED BY <3>1, <3>2, <4>1
    <3>3. CASE ~Quiet
      <4>1. epoch' = [epoch EXCEPT !.asked = @ \union {<<op, p>>}, !.alone = FALSE]
        BY <1>1, <2>1, <3>3 DEF Begin
      <4> QED BY <3>1, <4>1
    <3> QED BY <3>2, <3>3, Zenon
  <2>3. Tables' BY <1>2, <1>5, <2>2, TablesKept
  <2>4. \A g \in Helpers : Sane(Env, job'[g], epoch'.asked)
    <3> SUFFICES ASSUME NEW g \in Helpers PROVE Sane(Env, job'[g], epoch'.asked) OBVIOUS
    <3>1. CASE g = h BY <1>1, <1>4, <1>8, <2>2, <3>1, Starts
    <3>2. CASE g # h
      <4>1. Sane(Env, job[g], epoch.asked) BY DEF EgressIInv, Jobs
      <4>2. job[g].op = "remove" => <<"remove", "-">> \in epoch'.asked
        BY <2>2, <4>1, Zenon DEF Sane, Quiet, Writers
      <4>3. Sane(Env, job[g], epoch'.asked) BY <4>1, <4>2 DEF Sane
      <4> QED BY <1>4, <3>2, <4>3
    <3> QED BY <3>1, <3>2
  <2>5. Jobs' BY <1>6, <2>4 DEF Jobs
  <2>6. Debts'
    <3>1. CASE op = "apply"
      <4>1. \A c \in Managed : OwesDrop(Env, job'[h], c) /\ OwesJump(Env, job'[h], c)
        BY <1>1, <1>4, <3>1, Starts, Zenon
      <4> QED BY <1>6, <4>1 DEF Debts
    <3>2. CASE op = "remove"
      <4>1. <<"remove", "-">> \in epoch'.asked BY <1>1, <2>2, <3>2
      <4>2. <<"remove", "-">> \notin Applies BY DEF Applies
      <4>3. Spoiled' BY <4>1, <4>2 DEF Spoiled, Applies
      <4> QED BY <4>3 DEF Debts
    <3> QED BY <1>1, <1>8, <3>1, <3>2
  <2>7. NoFalseOk'
    <3>1. CASE epoch'.res = {} BY <3>1 DEF NoFalseOk
    <3>2. CASE epoch'.asked = epoch.asked \cup {<<op, p>>} /\ epoch'.res = epoch.res
      <4>1. epoch'.asked \subseteq Applies => epoch.asked \subseteq Applies BY <3>2
      <4>2. Applies' = Applies BY DEF Applies
      <4> QED BY <1>6, <3>2, <4>1, <4>2 DEF EgressIInv, NoFalseOk
    <3> QED BY <2>2, <3>1, <3>2
  <2> QED BY <2>3, <2>5, <2>6, <2>7 DEF EgressIInv
<1> QED BY <1>7, <1>8

LEMMA ReloadSteps ==
  ASSUME EgressIInv, Reload
  PROVE  EgressIInv'
<1>1. /\ UNCHANGED <<host, job>> /\ chain' = [c \in Chains |-> Absent] /\ jumps' = [c \in Chains |-> 0]
      /\ epoch' = [epoch EXCEPT !.res = @ \union {"reloaded"}]
  BY DEF Reload, NoChains, NoJumps
<1>2. /\ epoch'.asked = epoch.asked /\ epoch'.res = epoch.res \cup {"reloaded"}
      /\ DOMAIN epoch' = DOMAIN epoch
  BY <1>1 DEF EgressIInv, Tables
<1>3. Env' = Env /\ Managed' = Managed /\ Hopeless' = Hopeless BY <1>1, EnvKept
<1>4. Tables' BY <1>1, <1>2 DEF EgressIInv, Tables
<1>5. \A h \in Helpers : Sane(Env', job'[h], epoch'.asked) BY <1>1, <1>2, <1>3 DEF EgressIInv, Jobs
<1>6. Jobs' BY <1>5 DEF Jobs
<1>7. Spoiled' BY <1>2 DEF Spoiled
<1>8. Debts' BY <1>7 DEF Debts
<1>9. NoFalseOk'
  <2>1. Applies' = Applies BY DEF Applies
  <2> QED BY <1>2, <1>3, <2>1 DEF EgressIInv, NoFalseOk
<1> QED BY <1>4, <1>6, <1>8, <1>9 DEF EgressIInv

-----------------------------------------------------------------------------
(* The theorem.                                                            *)

\* At first nobody asked for anything.
LEMMA EgressBegins == Init => EgressIInv
<1> SUFFICES ASSUME Init PROVE EgressIInv OBVIOUS
<1>1. /\ host \in [ip6tables : BOOLEAN, ipv6 : BOOLEAN]
      /\ chain = [c \in Chains |-> Absent] /\ jumps = [c \in Chains |-> 0]
      /\ job = [h \in Helpers |-> Idle("none")]
      /\ epoch = [asked |-> {}, alone |-> TRUE, res |-> {}, whole |-> FALSE]
  BY EgressAssumption DEF Init, NoChains, NoJumps
<1>2. Tables BY <1>1 DEF Tables
<1>3. Jobs
  <2>1. \A asked : Sane(Env, Idle("none"), asked) BY DEF Sane, Idle, Fields, Pending
  <2> QED BY <1>1, <2>1 DEF Jobs
<1>4. Debts BY <1>1 DEF Debts, Spoiled
<1>5. NoFalseOk BY <1>1 DEF NoFalseOk
<1> QED BY <1>2, <1>3, <1>4, <1>5 DEF EgressIInv

\* Every command of every helper, and the host's events, keep the invariant.
LEMMA EgressKeeps == EgressIInv /\ [Next]_vars => EgressIInv'
<1> SUFFICES ASSUME EgressIInv, [Next]_vars PROVE EgressIInv' OBVIOUS
<1>1. ASSUME NEW h \in Helpers,
             Apply(h) \/ RemoveRules(h) \/ Verify(h) \/ Probe(h) \/ FlushStep(h) \/ BuildStep(h) \/ Crash(h)
      PROVE  EgressIInv'
  BY <1>1, BeginSteps, ProbeSteps, FlushSteps, BuildSteps, CrashSteps
<1>2. CASE Reload BY <1>2, ReloadSteps
<1>3. CASE UNCHANGED vars
  <2>1. UNCHANGED <<host, chain, jumps, job, epoch>> BY <1>3 DEF vars, kernel
  <2>2. Env' = Env /\ Managed' = Managed /\ Hopeless' = Hopeless BY <2>1, EnvKept
  <2>3. Spoiled' <=> Spoiled BY <2>1 DEF Spoiled, Applies
  <2>4. Tables' BY <2>1 DEF EgressIInv, Tables
  <2>5. Jobs' BY <2>1, <2>2 DEF EgressIInv, Jobs
  <2>6. \A c : HasDrop(c)' <=> HasDrop(c) BY <2>1 DEF HasDrop
  <2>7. Debts' BY <2>1, <2>2, <2>3, <2>6 DEF EgressIInv, Debts
  <2>8. NoFalseOk' BY <2>1, <2>2 DEF EgressIInv, NoFalseOk, Applies
  <2> QED BY <2>4, <2>5, <2>7, <2>8 DEF EgressIInv
<1> QED BY <1>1, <1>2, <1>3 DEF Next

\* When no request runs, nobody owes anything.
LEMMA EgressDenies == EgressIInv => DenyInForce
<1> SUFFICES ASSUME EgressIInv, Quiet, epoch.asked # {}, epoch.asked \subseteq Applies, epoch.res = {"ok"}
             PROVE  (\A c \in Managed : Denied(c)) /\ (host.ip6tables \/ ~host.ipv6)
  BY DEF DenyInForce
<1>1. \A h \in Helpers : job[h].op # "apply" BY DEF Quiet, Writers
<1>2. ~Spoiled BY <1>1 DEF Spoiled
<1>3. \A h \in Helpers : \A c : ~OwesDrop(Env, job[h], c) /\ ~OwesJump(Env, job[h], c)
  BY <1>1 DEF OwesDrop, OwesJump, Pending
<1>4. \A c \in Managed : HasDrop(c) /\ jumps[c] > 0 BY <1>2, <1>3, Zenon DEF EgressIInv, Debts
<1>5. ~Hopeless BY DEF EgressIInv, NoFalseOk
<1> QED BY <1>4, <1>5 DEF Denied, HasDrop, Hopeless

\* Apply fails closed (EgressServer.Apply): when every request
\* since the bridge was last at rest was an Apply that answered ok, the default-deny
\* is in force -- for any number of helpers, requests, policies and faults, however
\* their commands interleave.
THEOREM ApplyFailsClosed == Spec => []DenyInForce
<1>1. Init => EgressIInv BY EgressBegins
<1>2. EgressIInv /\ [Next]_vars => EgressIInv' BY EgressKeeps
<1>3. EgressIInv => DenyInForce BY EgressDenies
<1> QED BY <1>1, <1>2, <1>3, PTL DEF Spec
=============================================================================
