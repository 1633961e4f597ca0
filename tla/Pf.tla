---------------------------------- MODULE Pf ----------------------------------
(***************************************************************************)
(* Egress enforcement on macOS: the rules of an instance's pf anchor        *)
(* (internal/firewall/pfctl.go), the helper's vetting of them               *)
(* (internal/privilege/pfrules_darwin.go), the anchor references it keeps   *)
(* in /etc/pf.conf (pfconf_darwin.go, helper_darwin.go), and the order in   *)
(* which a start loads them around the boot of its VM (internal/backend/    *)
(* vfkit/traffic.go, internal/backend/egress/pf_darwin.go).                 *)
(***************************************************************************)
EXTENDS Naturals, Sequences, FiniteSets, SequencesExt

CONSTANTS
    Boxes,       \* instances, each with a subnet of its own
    Confs,       \* contents /etc/pf.conf may have when abox first meets it
    MaxMishaps,  \* bound: failed calls, killed helpers, reboots, teardowns
    MaxOps       \* bound: starts and stops of one instance

\* What the constants must be.
PfAssumption == MaxMishaps \in Nat /\ MaxOps \in Nat /\ Confs \subseteq Seq(STRING)

---------------------------------------------------------------------------
(* The rules.  A rule is a shape with the subnet, or the bridge of the subnet, *)
(* and the port it names; a rule text that has no such shape is "other".       *)

PfShapes == {"rdr", "inet6", "pass_http", "pass_icmp", "pass_ssh", "inbound", "deny", "comment", "other"}
PfAllowing == {"rdr", "pass_http", "pass_icmp", "pass_ssh"}

PfRule(shape, net, port) == [shape |-> shape, net |-> net, port |-> port]

\* pfvalidate.ValidatePort.
PfPort(port) == port >= 1024 /\ port <= 65535

\* BuildInstanceRules, in its order.
InstanceRules(net, dns, http) ==
    << PfRule("comment", net, 0), PfRule("rdr", net, dns), PfRule("inet6", net, 0),
       PfRule("pass_http", net, http), PfRule("pass_icmp", net, 0), PfRule("pass_ssh", net, 22),
       PfRule("inbound", net, http), PfRule("deny", net, 0) >>

PreBootDenyRules(net, http) ==
    << PfRule("comment", net, 0), PfRule("inbound", net, http), PfRule("deny", net, 0) >>

\* validatePFRuleLine and matchPFTemplate: an allowed shape, every address bound to
\* the subnet of the request, every port unprivileged. A bridge need only have the
\* name of one, of whatever subnet.
MatchesTemplate(r, net) ==
    /\ r.shape \notin {"other", "comment"}
    /\ r.shape = "inet6" \/ r.net = net
    /\ r.shape \in {"rdr", "pass_http", "inbound"} => PfPort(r.port)

\* validatePFRules.
ValidatePFRules(rules, net) ==
    LET lines == SelectSeq(rules, LAMBDA r : r.shape # "comment")
        Has(S) == \E i \in DOMAIN lines : lines[i].shape \in S
    IN /\ lines # <<>>
       /\ \A i \in DOMAIN lines : MatchesTemplate(lines[i], net)
       /\ Has({"deny"})
       /\ Has(PfAllowing) => Has({"inet6"})

\* What pf does with a packet [v6, src, dst, service], where src and dst stand for
\* the subnet or its bridge: a redirection wins over the filter, and the first
\* quick match decides.
PfMatches(r, p) ==
    \/ r.shape = "inet6" /\ p.v6 /\ p.src = r.net
    \/ /\ ~p.v6
       /\ \/ r.shape = "rdr" /\ p.src = r.net /\ p.service = "dns"
          \/ r.shape = "pass_http" /\ p.src = r.net /\ p.dst = "gateway" /\ p.service = "proxy"
          \/ r.shape = "pass_icmp" /\ p.src = r.net /\ p.dst = "gateway" /\ p.service = "icmp"
          \/ r.shape = "pass_ssh" /\ p.src = "gateway" /\ p.dst = r.net /\ p.service = "ssh"
          \/ r.shape = "inbound" /\ p.src # r.net /\ p.service = "proxy"
          \/ r.shape = "deny" /\ p.src = r.net

PfPasses(rules, p) ==
    LET rdr == \E i \in DOMAIN rules : rules[i].shape = "rdr" /\ PfMatches(rules[i], p)
        hits == {i \in DOMAIN rules : rules[i].shape # "rdr" /\ PfMatches(rules[i], p)}
        first == CHOOSE i \in hits : \A j \in hits : i <= j
    IN rdr \/ hits = {} \/ rules[first].shape \in PfAllowing

---------------------------------------------------------------------------
(* /etc/pf.conf.  Lines: R and A are Apple's rdr-anchor and anchor, r and a   *)
(* abox's; o, t and f other option, translation and filter lines; # a comment. *)

PfHas(c, line) == \E i \in DOMAIN c : c[i] = line
Wired(c) == PfHas(c, "r") /\ PfHas(c, "a")
CanAutoWire(c) == PfHas(c, "R") /\ PfHas(c, "A")

\* insertAfterLine: after the first line that is the marker.
InsertAfterLine(c, marker, line) ==
    IF PfHas(c, marker) THEN InsertAt(c, SelectInSeq(c, LAMBDA l : l = marker) + 1, line) ELSE c

\* What ensureAnchorReferences writes.
EnsureAnchors(c) ==
    LET c1 == IF PfHas(c, "r") THEN c ELSE InsertAfterLine(c, "R", "r")
    IN IF PfHas(c, "a") THEN c1 ELSE InsertAfterLine(c1, "A", "a")

\* What removeAnchorReferences writes.
RemoveAnchors(c) == SelectSeq(c, LAMBDA l : l \notin {"r", "a"})

PfSection(l) == CASE l = "o" -> 0 [] l \in {"R", "r", "t"} -> 1 [] OTHER -> 2

\* pfctl -n accepts a file whose sections are in order.
PfLoads(c) ==
    LET lines == SelectSeq(c, LAMBDA l : l # "#")
    IN \A i, j \in DOMAIN lines : i < j => PfSection(lines[i]) <= PfSection(lines[j])

---------------------------------------------------------------------------
VARIABLES
    pfconf,   \* /etc/pf.conf
    pfstart,  \* what it was before abox
    kmain,    \* the main ruleset the kernel runs
    pfon,     \* pf is enabled
    anchor,   \* box -> the rules of abox/<box>: none, deny, full
    applied,  \* box -> the marker file is there
    guest,    \* box -> its VM runs
    ppc,      \* box -> the step of its command
    pread,    \* box -> the pf.conf its helper read
    withdrawn,\* history: the boxes whose re-assert failed and took the rules back
    ops,      \* box -> commands begun
    pmishaps

pfVars == <<pfconf, pfstart, kmain, pfon, anchor, applied, guest, ppc, pread, withdrawn, ops, pmishaps>>

PfTypeOK ==
    /\ \A c \in {pfconf, kmain} : \A i \in DOMAIN c : c[i] \in {"R", "A", "r", "a", "o", "t", "f", "#"}
    /\ pfstart \in Confs /\ pfon \in BOOLEAN
    /\ anchor \in [Boxes -> {"none", "deny", "full"}]
    /\ applied \in [Boxes -> BOOLEAN] /\ guest \in [Boxes -> BOOLEAN]
    /\ ppc \in [Boxes -> {"idle", "read", "write", "reload", "enable", "deny", "boot", "apply",
                          "reapply", "kill", "mark", "halt", "flush", "unmark"}]
    /\ withdrawn \subseteq Boxes
    /\ ops \in [Boxes -> 0..MaxOps] /\ pmishaps \in 0..MaxMishaps

PfInit ==
    /\ pfconf \in Confs /\ pfstart = pfconf /\ kmain = pfconf
    /\ pfon \in BOOLEAN
    /\ anchor = [b \in Boxes |-> "none"]
    /\ applied = [b \in Boxes |-> FALSE]
    /\ guest = [b \in Boxes |-> FALSE]
    /\ ppc = [b \in Boxes |-> "idle"]
    /\ pread = [b \in Boxes |-> <<>>]
    /\ withdrawn = {} /\ ops = [b \in Boxes |-> 0] /\ pmishaps = 0

PfMishap == pmishaps < MaxMishaps /\ pmishaps' = pmishaps + 1
PfGo(b, at, to) == ppc[b] = at /\ ppc' = [ppc EXCEPT ![b] = to]

\* start and stop of a box, from the command's side. A start, or an up, of a guest
\* that runs re-asserts its rules (ApplyFiltered): Define, then Apply.
PfBegin(b) ==
    /\ ops[b] < MaxOps /\ ops' = [ops EXCEPT ![b] = @ + 1]
    /\ \/ PfGo(b, "idle", "read")
       \/ guest[b] /\ PfGo(b, "idle", "halt")
    /\ UNCHANGED <<pfconf, pfstart, kmain, pfon, anchor, applied, guest, pread, withdrawn, pmishaps>>

\* PfServer.Enable -> ensureAnchorReferences: wired already, or not wirable, or a
\* new file is prepared from what was read.
EnsureRead(b) ==
    /\ ppc[b] = "read"
    /\ pread' = [pread EXCEPT ![b] = IF Wired(pfconf) THEN <<>> ELSE pfconf]
    /\ ppc' = [ppc EXCEPT ![b] = IF Wired(pfconf) THEN "enable"
                                 ELSE IF CanAutoWire(pfconf) THEN "write" ELSE "idle"]
    /\ UNCHANGED <<pfconf, pfstart, kmain, pfon, anchor, applied, guest, withdrawn, ops, pmishaps>>

\* atomicWrite: write aside, try it, rename over.
AtomicWrite(b) ==
    /\ pread' = [pread EXCEPT ![b] = <<>>]
    /\ \/ /\ PfLoads(EnsureAnchors(pread[b]))
          /\ PfGo(b, "write", "reload")
          /\ pfconf' = EnsureAnchors(pread[b]) /\ UNCHANGED pmishaps
       \/ /\ IF PfLoads(EnsureAnchors(pread[b])) THEN PfMishap ELSE UNCHANGED pmishaps
          /\ PfGo(b, "write", "idle") /\ UNCHANGED pfconf
    /\ UNCHANGED <<pfstart, kmain, pfon, anchor, applied, guest, withdrawn, ops>>

\* reloadPfConf after an edit; a failure takes the references out again.
ReloadPfConf(b) ==
    /\ ppc[b] = "reload"
    /\ \/ /\ PfGo(b, "reload", "enable")
          /\ kmain' = pfconf /\ UNCHANGED <<pfconf, pmishaps>>
       \/ /\ PfMishap /\ PfGo(b, "reload", "idle")
          /\ pfconf' = RemoveAnchors(pfconf) /\ UNCHANGED kmain
    /\ UNCHANGED <<pfstart, pfon, anchor, applied, guest, pread, withdrawn, ops>>

\* pfctl -e.
EnablePf(b) ==
    /\ \/ PfGo(b, "enable", "deny") /\ pfon' = TRUE /\ UNCHANGED pmishaps
       \/ PfMishap /\ PfGo(b, "enable", "idle") /\ UNCHANGED pfon
    /\ UNCHANGED <<pfconf, pfstart, kmain, anchor, applied, guest, pread, withdrawn, ops>>

\* MUTANT of LoadPreBootDeny: the marker of an earlier run excuses the deny.
LoadPreBootDenyOnce(b) ==
    /\ PfGo(b, "deny", IF guest[b] THEN "reapply" ELSE "boot")
    /\ anchor' = [anchor EXCEPT ![b] = IF applied[b] THEN @ ELSE "deny"]
    /\ UNCHANGED <<pfconf, pfstart, kmain, pfon, applied, guest, pread, withdrawn, ops, pmishaps>>

\* Define's LoadPreBootDeny through PfServer.LoadAnchor: a start fails with it.
LoadPreBootDeny(b) ==
    /\ \/ /\ PfGo(b, "deny", IF guest[b] THEN "reapply" ELSE "boot")
          /\ anchor' = [anchor EXCEPT ![b] = "deny"] /\ withdrawn' = withdrawn \ {b}
          /\ UNCHANGED pmishaps
       \/ PfMishap /\ PfGo(b, "deny", "idle") /\ UNCHANGED <<anchor, withdrawn>>
    /\ UNCHANGED <<pfconf, pfstart, kmain, pfon, applied, guest, pread, ops>>

\* The VM boots, or fails to (Vfkit).
BootBox(b) ==
    /\ \/ PfGo(b, "boot", "apply") /\ guest' = [guest EXCEPT ![b] = TRUE] /\ UNCHANGED pmishaps
       \/ PfMishap /\ PfGo(b, "boot", "idle") /\ UNCHANGED guest
    /\ UNCHANGED <<pfconf, pfstart, kmain, pfon, anchor, applied, pread, withdrawn, ops>>

\* Apply -> LoadInstanceAnchor; when it fails a start takes the VM down again, and
\* a re-assert takes the rules back from under the running guest (ec.Remove).
LoadInstanceAnchor(b) ==
    /\ \/ /\ PfGo(b, "apply", "mark") \/ PfGo(b, "reapply", "mark")
          /\ anchor' = [anchor EXCEPT ![b] = "full"] /\ UNCHANGED pmishaps
       \/ /\ PfMishap /\ UNCHANGED anchor
          /\ PfGo(b, "apply", "kill") \/ PfGo(b, "reapply", "flush")
    /\ UNCHANGED <<pfconf, pfstart, kmain, pfon, applied, guest, pread, withdrawn, ops>>

\* WriteMarker, whose failure is only a warning.
WriteMarker(b) ==
    /\ PfGo(b, "mark", "idle")
    /\ \/ applied' = [applied EXCEPT ![b] = TRUE] /\ UNCHANGED pmishaps
       \/ PfMishap /\ UNCHANGED applied
    /\ UNCHANGED <<pfconf, pfstart, kmain, pfon, anchor, guest, pread, withdrawn, ops>>

\* The VM goes down before its rules do; a stop that cannot end it leaves them.
\* failClosedStopVM leaves the deny there, and only warns when the VM stays up.
HaltBox(b) ==
    /\ \/ /\ PfGo(b, "halt", "flush") \/ PfGo(b, "kill", "idle")
          /\ guest' = [guest EXCEPT ![b] = FALSE] /\ UNCHANGED pmishaps
       \/ /\ PfMishap /\ UNCHANGED guest
          /\ PfGo(b, "halt", "idle") \/ PfGo(b, "kill", "idle")
    /\ UNCHANGED <<pfconf, pfstart, kmain, pfon, anchor, applied, pread, withdrawn, ops>>

\* PfBase.Remove: flush, a failure of which only warns, then the marker.
FlushAnchor(b) ==
    /\ PfGo(b, "flush", "unmark")
    /\ \/ anchor' = [anchor EXCEPT ![b] = "none"] /\ UNCHANGED pmishaps
       \/ PfMishap /\ UNCHANGED anchor
    /\ withdrawn' = IF guest[b] THEN withdrawn \cup {b} ELSE withdrawn
    /\ UNCHANGED <<pfconf, pfstart, kmain, pfon, applied, guest, pread, ops>>

RemoveMarker(b) ==
    /\ PfGo(b, "unmark", "idle")
    /\ applied' = [applied EXCEPT ![b] = FALSE]
    /\ UNCHANGED <<pfconf, pfstart, kmain, pfon, anchor, guest, pread, withdrawn, ops, pmishaps>>

\* The helper, and the command with it, is killed.
PfKilled(b) ==
    /\ ppc[b] # "idle" /\ PfMishap
    /\ ppc' = [ppc EXCEPT ![b] = "idle"] /\ pread' = [pread EXCEPT ![b] = <<>>]
    /\ UNCHANGED <<pfconf, pfstart, kmain, pfon, anchor, applied, guest, withdrawn, ops>>

\* teardown-pf -> PfServer.TeardownConfig: edit, then reload.
TeardownConfig ==
    /\ PfMishap
    /\ pfconf' = RemoveAnchors(pfconf)
    /\ kmain' = IF pfconf' # pfconf THEN pfconf' ELSE kmain
    /\ UNCHANGED <<pfstart, pfon, anchor, applied, guest, ppc, pread, withdrawn, ops>>

\* The host reboots: the kernel loads pf.conf and forgets the anchors; the marker
\* files stay.
PfReboot ==
    /\ PfMishap
    /\ kmain' = pfconf
    /\ pfon' \in BOOLEAN
    /\ anchor' = [b \in Boxes |-> "none"]
    /\ guest' = [b \in Boxes |-> FALSE]
    /\ ppc' = [b \in Boxes |-> "idle"] /\ pread' = [b \in Boxes |-> <<>>]
    /\ UNCHANGED <<pfconf, pfstart, applied, withdrawn, ops>>

PfNext ==
    \/ \E b \in Boxes :
        \/ PfBegin(b) \/ EnsureRead(b) \/ AtomicWrite(b) \/ ReloadPfConf(b) \/ EnablePf(b)
        \/ LoadPreBootDeny(b) \/ BootBox(b) \/ LoadInstanceAnchor(b) \/ WriteMarker(b)
        \/ HaltBox(b) \/ FlushAnchor(b) \/ RemoveMarker(b) \/ PfKilled(b)
    \/ TeardownConfig \/ PfReboot

---------------------------------------------------------------------------
(* Properties of the rules: for a rule set and a packet. *)

\* What the full rules let a guest of the subnet reach.
PfReachable(p) == ~p.v6 /\ (p.service = "dns" \/ (p.dst = "gateway" /\ p.service \in {"proxy", "icmp"}))

\* Every ruleset the generators build is one the helper accepts (pfctl.go, "Every
\* line is emitted exactly as the helper's validatePFRules expects it").
GeneratedAccepted(net, dns, http) ==
    dns \in 1024 .. 65535 /\ http \in 1024 .. 65535 =>
        /\ ValidatePFRules(InstanceRules(net, dns, http), net)
        /\ ValidatePFRules(PreBootDenyRules(net, http), net)

\* And lets a guest reach its filters and its gateway, nothing before it has
\* booted, and nothing else.
GeneratedCloses(net, dns, http, p) ==
    p.src = net =>
        /\ PfPasses(InstanceRules(net, dns, http), p) <=> PfReachable(p)
        /\ ~p.v6 => ~PfPasses(PreBootDenyRules(net, http), p)

\* A ruleset the helper accepts, in whatever order it has its lines, lets nothing
\* of the subnet out but DNS to the local filter and what goes to the gateway,
\* and no IPv6 when it lets anything out at all and denies IPv6 on the subnet's
\* own bridge (validatePFRules, "refusing to load a fail-open ruleset"; that the
\* bridge is the subnet's it does not ask).
AcceptedFailsClosed(rules, net, p) ==
    (ValidatePFRules(rules, net) /\ PfPasses(rules, p)) =>
        /\ (p.src = net /\ ~p.v6) => p.service = "dns" \/ p.dst = "gateway"
        /\ (p.src = net /\ p.v6) =>
              \/ \A i \in DOMAIN rules : rules[i].shape \notin PfAllowing
              \/ \A i \in DOMAIN rules : rules[i].shape = "inet6" => rules[i].net # net

(* Properties of the machine. *)

PfCount(c, l) == Cardinality({i \in DOMAIN c : c[i] = l})

\* The lines that are not abox's.
PfForeign(c) == SelectSeq(c, LAMBDA l : l \notin {"r", "a"})

\* Whatever helpers, failures, reboots and teardowns do, /etc/pf.conf keeps every
\* line that is not abox's in its place, refers to the anchors once, unless it was
\* found with more, and stays a file pf can load if it was one
\* (ensureAnchorReferences, "guaranteeing correct section placement").
ConfSound ==
    /\ PfForeign(pfconf) = PfForeign(pfstart)
    /\ \A l \in {"r", "a"} : PfCount(pfconf, l) > 1 => PfCount(pfconf, l) <= PfCount(pfstart, l)
    /\ PfLoads(pfstart) => PfLoads(pfconf)

\* A guest never runs over an empty anchor: not at boot, not while the full rules
\* replace the deny, not after a start that failed half-way (Define, "Always load
\* the pre-boot deny"), unless a re-assert failed on it and took the rules back.
AnchorBeforeBoot ==
    \A b \in Boxes \ withdrawn : guest[b] => anchor[b] # "none"

\* Define's comment on the re-assert of a running guest: "an availability blip,
\* never a fail-open". Not so when Apply then fails (ApplyFiltered, "Roll back").
NeverFailOpen == \A b \in Boxes : guest[b] => anchor[b] # "none"

\* The guest of a box is confined.
PfConfined(b) == pfon /\ Wired(kmain) /\ anchor[b] = "full"

\* Without failures, kills, reboots and teardowns, once no command is under way
\* every running guest is confined: pf runs, its main ruleset descends into the
\* anchors, and the guest's anchor holds the full rules.
ConfinedAtRest ==
    (pmishaps = 0 /\ \A b \in Boxes : ppc[b] = "idle") => \A b \in Boxes : guest[b] => PfConfined(b)

\* Every guest is denied from its first packet on, as Define's comment has it.
DeniedFromBoot ==
    \A b \in Boxes : guest[b] => pfon /\ Wired(kmain) /\ anchor[b] # "none"

=============================================================================
