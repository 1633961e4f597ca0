------------------------------- MODULE Egress -------------------------------
(***************************************************************************)
(* The host-side egress enforcement of one guest bridge on Linux:          *)
(* internal/privilege/egress_linux.go and egress_ipv6_linux.go.            *)
(*                                                                         *)
(* The kernel's tables are changed one iptables command at a time, and     *)
(* every abox command spawns a privilege helper of its own, so the         *)
(* requests of two helpers for one bridge interleave between commands.     *)
(* One action below is one command of one helper together with what the    *)
(* code does with its exit status.  A helper may also be killed between    *)
(* two commands, and the host firewall may be reloaded.                    *)
(*                                                                         *)
(* A rule is a tuple: what it matches and, for the accepts and redirects   *)
(* that name a filter's port, the policy the port belongs to.  The         *)
(* matching of NAT lines by bridge and guest port is by construction (only *)
(* this bridge's rules are in the model).                                  *)
(***************************************************************************)
EXTENDS Integers, Sequences, FiniteSets, Functions

CONSTANTS
    Helpers,      \* privilege helper processes
    Ops,          \* requests that may arrive: "apply", "remove", "verify"
    Policies,     \* the filter ports (and gateway) a request names
    Hosts,        \* has the host an ip6tables binary, an active IPv6 stack?
    MayFail,      \* kinds of command that may fail: "run", "check", "list"
    Events,       \* host events that may occur: "crash", "reload"
    MaxRequests, MaxFaults, MaxEvents    \* bounds of the exploration

ASSUME EgressAssumption ==
    /\ Hosts \subseteq [ip6tables : BOOLEAN, ipv6 : BOOLEAN]
    /\ MaxRequests \in Nat /\ MaxFaults \in Nat /\ MaxEvents \in Nat

VARIABLES
    host,     \* the host's IPv6 means, which do not change
    nat,      \* the bridge's PREROUTING redirects, first match first
    chain,    \* the dedicated chains: contents, or Absent
    jumps,    \* how many jumps to the chain the parent chain holds
    job,      \* what each helper is doing
    epoch,    \* history: the requests since no request was running
    past,     \* history: what has ever gone wrong on this bridge
    requests, faults, events    \* how much of each bound is used

kernel == <<nat, chain, jumps>>
counts == <<requests, faults, events>>
vars == <<host, kernel, job, epoch, past, counts>>

-----------------------------------------------------------------------------
(* The rules a policy asks for.                                            *)

Chains == {"in", "fwd", "in6", "fwd6"}
Absent == << <<"absent">> >>
Protos == {"udp", "tcp"}

Deny == << <<"established">>, <<"drop">> >>

\* MUTANT of Contents: the FORWARD chain does not end in a drop.
ContentsOpen(c, p) ==
    IF c = "in"
    THEN << <<"established">>, <<"udp", p>>, <<"tcp", p>>, <<"http", p>>,
            <<"icmp", p>>, <<"drop">> >>
    ELSE << <<"established">> >>

\* The INPUT chain accepts the filters' ports and gateway pings before the
\* drop; the FORWARD chain and the IPv6 chains accept return traffic only.
Contents(c, p) ==
    IF c = "in"
    THEN << <<"established">>, <<"udp", p>>, <<"tcp", p>>, <<"http", p>>,
            <<"icmp", p>>, <<"drop">> >>
    ELSE Deny

Chains4 == <<"in", "fwd">>
Chains6 == IF host.ip6tables THEN <<"in6", "fwd6">> ELSE <<>>
Managed == Range(Chains4 \o Chains6)

Rule(kind, on, r) == [kind |-> kind, on |-> on, rule |-> r]

\* What alreadyApplied probes of one chain: the jump, then every rule.
ProbesOf(c, p) ==
    <<Rule("jump", c, <<>>)>>
      \o [i \in DOMAIN Contents(c, p) |-> Rule("rule", c, Contents(c, p)[i])]

\* alreadyApplied: the redirects, the chains, and on a host without ip6tables
\* an IPv6 half that is never applied while IPv6 is live.
Probes(p) ==
    <<Rule("nat", "-", <<"udp", p>>), Rule("nat", "-", <<"tcp", p>>)>>
      \o ProbesOf("in", p) \o ProbesOf("fwd", p)
      \o (IF host.ip6tables THEN ProbesOf("in6", p) \o ProbesOf("fwd6", p)
          ELSE IF host.ipv6 THEN <<Rule("never", "-", <<>>)>> ELSE <<>>)

Present(q) ==
    CASE q.kind = "nat"  -> q.rule \in Range(nat)
      [] q.kind = "jump" -> jumps[q.on] > 0
      [] q.kind = "rule" -> chain[q.on] # Absent /\ q.rule \in Range(chain[q.on])
      [] OTHER           -> FALSE

-----------------------------------------------------------------------------
(* The stages a request is made of, each a loop or a run of commands.      *)

Stage(do, on) == [do |-> do, on |-> on]
OnChains(do, cs) == [i \in DOMAIN cs |-> Stage(do, cs[i])]

Flush == <<Stage("flushNAT", "-")>> \o OnChains("flushChain", Chains4 \o Chains6)

Build ==
    <<Stage("redirect", "udp"), Stage("redirect", "tcp")>>
      \o OnChains("build", Chains4 \o Chains6)
      \o (IF ~host.ip6tables /\ host.ipv6 THEN <<Stage("refuse", "-")>> ELSE <<>>)
\* MUTANT of Stages: Apply does not clear what is there first.
StagesNoClear(op) ==
    CASE op = "apply"  -> <<Stage("applied", "-")>> \o Build
      [] op = "verify" -> <<Stage("applied", "-")>>
      [] op = "remove" -> Flush

Stages(op) ==
    CASE op = "apply"  -> <<Stage("applied", "-")>> \o Flush \o Build
      [] op = "verify" -> <<Stage("applied", "-")>>
      [] op = "remove" -> Flush

\* The first command of a stage.
First(s) ==
    CASE s.do = "applied"    -> "probe"
      [] s.do = "flushNAT"   -> "listNAT"
      [] s.do = "flushChain" -> "findJump"
      [] s.do = "redirect"   -> "addNAT"
      [] s.do = "build"      -> "newChain"
      [] OTHER               -> "refuse"

Idle(res) == [op |-> "idle", policy |-> "-", todo |-> <<>>, at |-> "-",
              i |-> 1, listed |-> <<>>, err |-> FALSE, res |-> res]

Start(op, p) == [Idle("none") EXCEPT !.op = op, !.policy = p,
                                     !.todo = Stages(op), !.at = First(Stages(op)[1])]

Stage1(h) == Head(job[h].todo)
At(h, l) == job[h].op # "idle" /\ job[h].at = l

-----------------------------------------------------------------------------
(* Where a request goes after a command.                                   *)

\* The request ends: Verify's answer is kept with the helper, the others'
\* with the epoch.
Answer(h, res) ==
    IF job[h].op = "verify"
    THEN job' = [job EXCEPT ![h] = Idle(res)] /\ UNCHANGED epoch
    ELSE /\ job' = [job EXCEPT ![h] = Idle("none")]
         /\ epoch' = [epoch EXCEPT !.res = @ \union {res}]

Goto(h, l) == job' = [job EXCEPT ![h].at = l] /\ UNCHANGED epoch

\* The stage is over: the next one, or the answer.
Advance(h, err) ==
    LET rest == Tail(job[h].todo) IN
    IF rest = <<>>
    THEN Answer(h, IF err THEN "err" ELSE "ok")
    ELSE /\ job' = [job EXCEPT ![h].todo = rest, ![h].at = First(Head(rest)),
                               ![h].i = 1, ![h].listed = <<>>, ![h].err = err]
         /\ UNCHANGED epoch

\* A flush that fails goes on with the next one; only Remove reports it.
GiveUp(h) == Advance(h, job[h].err \/ job[h].op = "remove")

\* MUTANT of Rollback: the redirects stay.
RollbackChains(h) ==
    /\ job' = [job EXCEPT ![h].todo = Tail(Flush), ![h].at = First(Flush[2]),
                          ![h].i = 1, ![h].err = TRUE]
    /\ UNCHANGED epoch

\* A step of the build that fails: flush everything, then report the error.
Rollback(h) ==
    /\ job' = [job EXCEPT ![h].todo = Flush, ![h].at = First(Flush[1]),
                          ![h].i = 1, ![h].err = TRUE]
    /\ UNCHANGED epoch

-----------------------------------------------------------------------------
(* How a command ends.                                                     *)

Writers == {"apply", "remove"}

\* No request that changes the tables is running.
Quiet == \A h \in Helpers : job[h].op \notin Writers

\* It does what it says.
Ran == UNCHANGED <<host, past, counts>>

\* It cannot work on the tables as they are.
Refused == UNCHANGED <<host, kernel, past, counts>>

\* It fails for a reason of its own; the tables stay as they are.
Fault(h, kind) ==
    /\ kind \in MayFail
    /\ faults < MaxFaults
    /\ faults' = faults + 1
    /\ past' = past \union {kind}
                    \union (IF job[h].err THEN {"rollback"} ELSE {})
                    \union (IF Stage1(h).do = "flushNAT" THEN {"stale redirect"} ELSE {})
    /\ UNCHANGED <<host, kernel, requests, events>>

\* iptables -C: a check that errors reads as "not there".
Check(h, there, Yes(_), No(_)) ==
    \/ Refused /\ (IF there THEN Yes(h) ELSE No(h))
    \/ Fault(h, "check") /\ No(h)

-----------------------------------------------------------------------------
(* Requests.                                                               *)

\* All tables hold the policy's rules, once each and in order, and IPv6 is
\* either denied as well or off.
Exact(p) ==
    /\ nat = << <<"udp", p>>, <<"tcp", p>> >>
    /\ \A c \in Managed : chain[c] = Contents(c, p) /\ jumps[c] > 0
    /\ host.ip6tables \/ ~host.ipv6

\* A new epoch starts when a request to change the tables arrives while no
\* other is running; Verify changes nothing.
Begin(h, op, p) ==
    /\ op \in Ops
    /\ job[h].op = "idle"
    /\ requests < MaxRequests
    /\ requests' = requests + 1
    /\ job' = [job EXCEPT ![h] = Start(op, p)]
    /\ epoch' = IF op \notin Writers THEN epoch
                ELSE IF Quiet
                THEN [asked |-> {<<op, p>>}, alone |-> TRUE, res |-> {},
                      whole |-> op # "remove" /\ Exact(p)]
                ELSE [epoch EXCEPT !.asked = @ \union {<<op, p>>}, !.alone = FALSE]
    /\ past' = IF Quiet \/ op \notin Writers THEN past ELSE past \union {"overlap"}
    /\ UNCHANGED <<host, kernel, faults, events>>

Apply(h) == \E p \in Policies : Begin(h, "apply", p)

\* The flush matches the bridge's rules whatever port they name.
RemoveRules(h) == Begin(h, "remove", "-")

Verify(h) == \E p \in Policies : Begin(h, "verify", p)

-----------------------------------------------------------------------------
(* alreadyApplied: one -C after another until one is not there.            *)

Miss(h) == IF job[h].op = "verify" THEN Answer(h, "no") ELSE Advance(h, FALSE)

Hit(h) ==
    IF job[h].i = Len(Probes(job[h].policy))
    THEN Answer(h, IF job[h].op = "verify" THEN "yes" ELSE "ok")
    ELSE job' = [job EXCEPT ![h].i = @ + 1] /\ UNCHANGED epoch

Probe(h) ==
    /\ At(h, "probe")
    /\ Check(h, Present(Probes(job[h].policy)[job[h].i]), Hit, Miss)

-----------------------------------------------------------------------------
(* flushNATRules: list the redirects, then delete them last first.  A      *)
(* delete that fails is counted and the loop goes on.                      *)

Unlisted(h, listed, failed) ==
    IF listed = <<>>
    THEN Advance(h, job[h].err \/ (failed /\ job[h].op = "remove"))
    ELSE /\ job' = [job EXCEPT ![h].at = "deleteNAT", ![h].listed = listed,
                               ![h].err = @ \/ (failed /\ job[h].op = "remove")]
         /\ UNCHANGED epoch

ListNAT(h) ==
    /\ At(h, "listNAT")
    /\ \/ Refused /\ Unlisted(h, nat, FALSE)
       \/ Fault(h, "list") /\ GiveUp(h)

\* -D deletes the first rule that matches.
DeleteNAT(h) ==
    /\ At(h, "deleteNAT")
    /\ LET listed == job[h].listed
           r == listed[Len(listed)]
           rest == SubSeq(listed, 1, Len(listed) - 1)
       IN \/ /\ \E i \in DOMAIN nat :
                  /\ nat[i] = r /\ r \notin Range(SubSeq(nat, 1, i - 1))
                  /\ nat' = SubSeq(nat, 1, i - 1) \o SubSeq(nat, i + 1, Len(nat))
             /\ Ran
             /\ UNCHANGED <<chain, jumps>>
             /\ Unlisted(h, rest, FALSE)
          \/ r \notin Range(nat) /\ Refused /\ Unlisted(h, rest, TRUE)
          \/ Fault(h, "run") /\ Unlisted(h, rest, TRUE)

-----------------------------------------------------------------------------
(* flushChainRules and flushV6Chain: delete jumps while there are any,     *)
(* then empty and delete the chain.                                        *)

ToDeleteJump(h) == Goto(h, "deleteJump")
ToFindChain(h) == Goto(h, "findChain")

FindJump(h) ==
    /\ At(h, "findJump")
    /\ Check(h, jumps[Stage1(h).on] > 0, ToDeleteJump, ToFindChain)

DeleteJump(h) ==
    LET c == Stage1(h).on IN
    /\ At(h, "deleteJump")
    /\ \/ /\ jumps[c] > 0
          /\ jumps' = [jumps EXCEPT ![c] = @ - 1]
          /\ Ran
          /\ UNCHANGED <<nat, chain>>
          /\ Goto(h, "findJump")
       \/ jumps[c] = 0 /\ Refused /\ GiveUp(h)
       \/ Fault(h, "run") /\ GiveUp(h)

\* A chain that cannot be listed counts as deleted.
FindChain(h) ==
    LET c == Stage1(h).on IN
    /\ At(h, "findChain")
    /\ \/ chain[c] # Absent /\ Refused /\ Goto(h, "emptyChain")
       \/ chain[c] = Absent /\ Refused /\ Advance(h, job[h].err)
       \/ Fault(h, "list") /\ Advance(h, job[h].err)

EmptyChain(h) ==
    LET c == Stage1(h).on IN
    /\ At(h, "emptyChain")
    /\ \/ /\ chain[c] # Absent
          /\ chain' = [chain EXCEPT ![c] = <<>>]
          /\ Ran
          /\ UNCHANGED <<nat, jumps>>
          /\ Goto(h, "deleteChain")
       \/ chain[c] = Absent /\ Refused /\ GiveUp(h)
       \/ Fault(h, "run") /\ GiveUp(h)

\* -X works on an empty chain that nothing jumps to.
DeleteChain(h) ==
    LET c == Stage1(h).on
        deletable == chain[c] = <<>> /\ jumps[c] = 0
    IN /\ At(h, "deleteChain")
       /\ \/ /\ deletable
             /\ chain' = [chain EXCEPT ![c] = Absent]
             /\ Ran
             /\ UNCHANGED <<nat, jumps>>
             /\ Advance(h, job[h].err)
          \/ ~deletable /\ Refused /\ GiveUp(h)
          \/ Fault(h, "run") /\ GiveUp(h)

-----------------------------------------------------------------------------
(* addNATRedirect: append, then check that it is there.                    *)
Redirect(h) == <<Stage1(h).on, job[h].policy>>

AddNAT(h) ==
    /\ At(h, "addNAT")
    /\ \/ /\ nat' = Append(nat, Redirect(h))
          /\ Ran
          /\ UNCHANGED <<chain, jumps>>
          /\ Goto(h, "checkNAT")
       \/ Fault(h, "run") /\ Rollback(h)

Built(h) == Advance(h, FALSE)

CheckNAT(h) ==
    /\ At(h, "checkNAT")
    /\ Check(h, Redirect(h) \in Range(nat), Built, Rollback)

-----------------------------------------------------------------------------
(* buildChain, buildFwdChain, buildV6Chain: create or find the chain,      *)
(* empty it, append the rules in order, insert the jump if there is none.  *)

NewChain(h) ==
    LET c == Stage1(h).on IN
    /\ At(h, "newChain")
    /\ \/ /\ chain[c] = Absent
          /\ chain' = [chain EXCEPT ![c] = <<>>]
          /\ Ran
          /\ UNCHANGED <<nat, jumps>>
          /\ Goto(h, "clearChain")
       \/ chain[c] # Absent /\ Refused /\ Goto(h, "confirmChain")
       \/ Fault(h, "run") /\ Goto(h, "confirmChain")

\* -N failed: the chain already exists if it can be listed.
ConfirmChain(h) ==
    LET c == Stage1(h).on IN
    /\ At(h, "confirmChain")
    /\ \/ chain[c] # Absent /\ Refused /\ Goto(h, "clearChain")
       \/ chain[c] = Absent /\ Refused /\ Rollback(h)
       \/ Fault(h, "list") /\ Rollback(h)

ClearChain(h) ==
    LET c == Stage1(h).on IN
    /\ At(h, "clearChain")
    /\ \/ /\ chain[c] # Absent
          /\ chain' = [chain EXCEPT ![c] = <<>>]
          /\ Ran
          /\ UNCHANGED <<nat, jumps>>
          /\ Goto(h, "appendRule")
       \/ chain[c] = Absent /\ Refused /\ Rollback(h)
       \/ Fault(h, "run") /\ Rollback(h)

AppendRule(h) ==
    LET c == Stage1(h).on
        rules == Contents(c, job[h].policy)
        i == job[h].i
    IN /\ At(h, "appendRule")
       /\ \/ /\ chain[c] # Absent
             /\ chain' = [chain EXCEPT ![c] = Append(@, rules[i])]
             /\ Ran
             /\ job' = [job EXCEPT ![h].i = i + 1,
                            ![h].at = IF i = Len(rules) THEN "ensureJump" ELSE @]
             /\ UNCHANGED <<nat, jumps, epoch>>
          \/ chain[c] = Absent /\ Refused /\ Rollback(h)
          \/ Fault(h, "run") /\ Rollback(h)

ToInsertJump(h) == Goto(h, "insertJump")

EnsureJump(h) ==
    /\ At(h, "ensureJump")
    /\ Check(h, jumps[Stage1(h).on] > 0, Built, ToInsertJump)

\* -I to a chain that is gone is refused.
InsertJump(h) ==
    LET c == Stage1(h).on IN
    /\ At(h, "insertJump")
    /\ \/ /\ chain[c] # Absent
          /\ jumps' = [jumps EXCEPT ![c] = @ + 1]
          /\ Ran
          /\ UNCHANGED <<nat, chain>>
          /\ Built(h)
       \/ chain[c] = Absent /\ Refused /\ Rollback(h)
       \/ Fault(h, "run") /\ Rollback(h)

\* IPv6 is live and there is no ip6tables to deny it with: fail closed.
Refuse(h) == At(h, "refuse") /\ Refused /\ Rollback(h)

-----------------------------------------------------------------------------
(* The host.                                                               *)

Event(e) == e \in Events /\ events < MaxEvents /\ events' = events + 1

\* The helper dies between two commands: what it did so far stays.
Crash(h) ==
    /\ job[h].op # "idle"
    /\ Event("crash")
    /\ Answer(h, "crashed")
    /\ UNCHANGED <<host, kernel, past, requests, faults>>

NoChains == [c \in Chains |-> Absent]
NoJumps == [c \in Chains |-> 0]

\* The host firewall starts over from its own configuration.
Reload ==
    /\ Event("reload")
    /\ nat' = <<>> /\ chain' = NoChains /\ jumps' = NoJumps
    /\ epoch' = [epoch EXCEPT !.res = @ \union {"reloaded"}]
    /\ UNCHANGED <<host, job, past, requests, faults>>

-----------------------------------------------------------------------------
Init ==
    /\ host \in Hosts
    /\ nat = <<>> /\ chain = NoChains /\ jumps = NoJumps
    /\ job = [h \in Helpers |-> Idle("none")]
    /\ epoch = [asked |-> {}, alone |-> TRUE, res |-> {}, whole |-> FALSE]
    /\ past = {}
    /\ requests = 0 /\ faults = 0 /\ events = 0

FlushStep(h) ==
    ListNAT(h) \/ DeleteNAT(h) \/ FindJump(h) \/ DeleteJump(h)
      \/ FindChain(h) \/ EmptyChain(h) \/ DeleteChain(h)

BuildStep(h) ==
    AddNAT(h) \/ CheckNAT(h) \/ NewChain(h) \/ ConfirmChain(h) \/ ClearChain(h)
      \/ AppendRule(h) \/ EnsureJump(h) \/ InsertJump(h) \/ Refuse(h)

Next ==
    \/ \E h \in Helpers :
         \/ Apply(h) \/ RemoveRules(h) \/ Verify(h)
         \/ Probe(h) \/ FlushStep(h) \/ BuildStep(h)
         \/ Crash(h)
    \/ Reload

Spec == Init /\ [][Next]_vars

-----------------------------------------------------------------------------
(* Properties.                                                             *)

Results == {"none", "yes", "no", "crashed"}
AllRules == {<<k, p>> : k \in {"udp", "tcp", "http", "icmp"}, p \in Policies}
              \union {<<"established">>, <<"drop">>}

\* The tables hold the rules abox writes, an absent chain has no jump, and a
\* helper's request is at a command of the stage it is in.
TypeOK ==
    /\ host \in Hosts
    /\ nat \in Seq({<<k, p>> : k \in Protos, p \in Policies})
    /\ \A c \in Chains : chain[c] = Absent \/ chain[c] \in Seq(AllRules)
    /\ jumps \in [Chains -> Nat]
    /\ \A c \in Chains : chain[c] = Absent => jumps[c] = 0
    /\ \A h \in Helpers :
         /\ job[h].op \in Writers \union {"verify", "idle"}
         /\ job[h].res \in Results
         /\ job[h].op = "idle" <=> job[h].todo = <<>>
         /\ job[h].listed \in Seq({<<k, p>> : k \in Protos, p \in Policies})

\* A packet that matches no accept of the chain is dropped before the parent
\* chain's own rules see it.
Denied(c) == jumps[c] > 0 /\ chain[c] # Absent /\ <<"drop">> \in Range(chain[c])

Applies == {<<"apply", p>> : p \in Policies}

\* Apply fails closed: when every request of an epoch was an Apply and every
\* one of them answered ok, the default-deny of INPUT and FORWARD is in force
\* for IPv4 and, where the host has IPv6, for IPv6 -- whatever the
\* interleaving of the commands, whatever the tables held before, and whatever
\* best-effort command failed on the way (Apply, buildChain, ensureIPv6Denied).
DenyInForce ==
    Quiet /\ epoch.asked # {} /\ epoch.asked \subseteq Applies /\ epoch.res = {"ok"}
      => /\ \A c \in Managed : Denied(c)
         /\ host.ip6tables \/ ~host.ipv6

\* Apply clears what earlier requests, crashes and reloads left: an Apply that
\* ran alone and answered ok leaves exactly the policy's rules, in the order
\* the code lists them, with one jump to each chain.  (Not so once requests
\* have overlapped or the deletion of a stale redirect has failed: Apply then
\* takes the rules it finds for the complete set.  A jump whose check failed
\* may be there twice.)
ApplyExact ==
    \A p \in Policies :
      /\ Quiet /\ epoch.alone /\ epoch.asked = {<<"apply", p>>} /\ epoch.res = {"ok"}
      /\ past \intersect {"overlap", "stale redirect"} = {}
      => Exact(p) /\ ("check" \notin past => \A c \in Managed : jumps[c] = 1)

Nothing == nat = <<>> /\ jumps = NoJumps /\ chain = NoChains

\* Remove reports what it leaves: a Remove that ran alone and answered ok left
\* no redirect, no jump and no chain of the bridge, even the doubled ones that
\* overlapping requests made; unless a check or a listing lied to it.
RemoveClean ==
    /\ Quiet /\ epoch.alone /\ epoch.asked = {<<"remove", "-">>} /\ epoch.res = {"ok"}
    /\ past \intersect {"check", "list"} = {}
    => Nothing

\* "on any failure all rules for the bridge are flushed so no partial state is
\* left behind": an Apply that ran alone and answered an error left nothing,
\* unless its rollback failed as well.
NoPartial ==
    /\ Quiet /\ epoch.alone /\ epoch.asked \subseteq Applies /\ epoch.res = {"err"}
    /\ "rollback" \notin past
    => Nothing

\* "repeated applies ... neither churn rules nor momentarily drop the live
\* REDIRECT": while the only requests are Applies of the policy that is already
\* complete, no rule changes, not even between two commands.  (A check that
\* fails makes Apply rebuild.)
NoChurn ==
    epoch.whole /\ Cardinality(epoch.asked) = 1
      /\ "reloaded" \notin epoch.res /\ "check" \notin past
      => \E p \in Policies : Exact(p)

\* What an Apply that succeeds leaves: the policy's rules and nothing else, and
\* these untouched for as long as only that policy is applied again.
AppliesSound == ApplyExact /\ NoChurn

\* Nothing is left behind, by a Remove that succeeds or by an Apply that fails.
LeavesNothing == RemoveClean /\ NoPartial
=============================================================================
