------------------------------ MODULE Settings ------------------------------
(***************************************************************************)
(* The settings of an instance as data: what abox.yaml may say             *)
(* (internal/boxfile), what config.yaml may hold (internal/config), the    *)
(* checks both go through (internal/validation) and the comparison `abox   *)
(* up` draws between the two.                                              *)
(*                                                                         *)
(* Text is kept as far as a check tells it apart.  A word is its length,   *)
(* the class of its first character and the worst class of the others; a   *)
(* host is its labels with the decorations a user may add (blanks around   *)
(* it, "*." in front, a dot behind, upper case); a disk size is a number   *)
(* and a unit.  A field that may be left out is a set of at most one       *)
(* value.                                                                  *)
(***************************************************************************)
EXTENDS Integers, Sequences, FiniteSets

Within(lo, n, hi) == lo <= n /\ n <= hi

(***************************************************************************)
(* Words.                                                                  *)
(***************************************************************************)
Word(len, head, tail) == [len |-> len, head |-> head, tail |-> tail]
NoWord == Word(0, "none", "plain")

ValidateInstanceName(w) ==
  Within(1, w.len, 63) /\ w.head = "letter" /\ w.tail \in {"plain", "hyphen"}

ValidateSSHUser(w) ==
  /\ Within(1, w.len, 32)
  /\ w.head \in {"letter", "underscore"}
  /\ w.tail \in {"plain", "hyphen"}

ValidateSecretKey(w) ==
  w.len >= 1 /\ w.head \in {"letter", "underscore"} /\ w.tail = "plain"

\* `abox up --suffix`: the suffix is joined to the name with a hyphen.
ApplySuffix(name, suffix) ==
  IF suffix = NoWord
    THEN name
    ELSE Word(name.len + 1 + suffix.len, name.head,
              IF "other" \in {name.tail, suffix.tail, suffix.head} THEN "other"
                                                                  ELSE "hyphen")

(***************************************************************************)
(* Numbers and sizes.  A size is counted in whole megabytes.               *)
(***************************************************************************)
ValidateResourceLimits(cpus, memory) ==
  Within(1, cpus, 128) /\ Within(256, memory, 262144)

Size(num, unit) == [num |-> num, unit |-> unit]
NoSize == Size(0, "none")

ValidateDiskSize(s) ==
  \/ s.unit = "T" /\ Within(1, s.num, 10)
  \/ s.unit = "G" /\ Within(1, s.num, 10240)

Megabytes == [T |-> 1048576, G |-> 1024, M |-> 1]

ParseDiskSize(s) == IF s.unit \in DOMAIN Megabytes THEN {s.num * Megabytes[s.unit]} ELSE {}

\* `abox config edit --disk` compares sizes, unless the current one does not parse.
DiskMayBecome(new, current) ==
  /\ ParseDiskSize(new) # {}
  /\ \A n \in ParseDiskSize(new), c \in ParseDiskSize(current) : n >= c

(***************************************************************************)
(* Hosts and upstream servers.                                             *)
(***************************************************************************)
Host(labels) == [labels |-> labels, stars |-> 0, pad |-> FALSE, upper |-> FALSE]

\* "-" stands for a label the label pattern refuses.
ValidateDomain(h) ==
  /\ ~h.pad /\ h.stars <= 1 /\ h.labels # <<>>
  /\ \A i \in 1..Len(h.labels) : h.labels[i] \notin {"", "-"}

\* The form entries and lookups are compared in: no blanks, lower case.
NormalizeDomain(h) == [h EXCEPT !.pad = FALSE, !.upper = FALSE]

\* One leading "*." is dropped; any other star stays a label that matches nothing.
BareHost(h) == [h EXCEPT !.pad = FALSE, !.stars = IF @ = 0 THEN 0 ELSE @ - 1]

Covers(entry, h) ==
  LET e == NormalizeDomain(entry).labels
      n == NormalizeDomain(h).labels
  IN  /\ entry.stars = 0 /\ Len(e) <= Len(n)
      /\ SubSeq(n, Len(n) - Len(e) + 1, Len(n)) = e

\* allowlist.Filter.IsAllowed over a set of entries.
Matches(entries, h) == \E e \in entries : Covers(e, h)

\* An upstream server: the form of its host and its port, 0 when none is given.
Upstream(host, port) == [host |-> host, port |-> port]
NoUpstream == Upstream("none", 0)

NormalizeUpstreamDNS(u) ==
  LET port == IF u.port = 0 THEN 53 ELSE u.port
  IN  IF u.host \in {"ipv4", "name"} /\ Within(1, port, 65535)
        THEN {Upstream(u.host, port)} ELSE {}

(***************************************************************************)
(* The HTTP filter's settings.                                             *)
(***************************************************************************)
\* The SSRF exceptions: the filter trims an entry and skips a blank one ...
TargetCheckerTakes(c) == c.form = "blank" \/ (c.form = "cidr" /\ c.ones # 0)

\* ... while config.Validate parses the entry as it stands.
ParsesAsCIDR(c) == c.form = "cidr" /\ ~c.pad

InjectionValid(inj) ==
  /\ ValidateSecretKey(inj.key)
  /\ inj.host.stars = 0 /\ ValidateDomain(inj.host)
  /\ inj.header \in {"Authorization", "authorization", "x-api-key"}
  /\ inj.clean
  /\ inj.path \in {"", "/v1"}

LowerHeader(header) == IF header = "Authorization" THEN "authorization" ELSE header

\* Two bindings of one header of one host would overwrite each other.
ValidateSecretInjections(s) ==
  /\ \A i \in 1..Len(s) : InjectionValid(s[i])
  /\ \A i, j \in 1..Len(s) :
       i # j => \/ NormalizeDomain(s[i].host) # NormalizeDomain(s[j].host)
                \/ LowerHeader(s[i].header) # LowerHeader(s[j].header)

\* The hosts tunnelled without interception: none of them may cover a host
\* that is given a secret.
ValidateMITMExceptions(exceptions, injections) ==
  LET bare == [i \in 1..Len(exceptions) |-> BareHost(exceptions[i])]
      norm == [i \in 1..Len(exceptions) |-> NormalizeDomain(bare[i])]
  IN  /\ \A i \in 1..Len(exceptions) : bare[i].stars = 0 /\ ValidateDomain(norm[i])
      /\ Cardinality({norm[i] : i \in 1..Len(exceptions)}) = Len(exceptions)
      /\ \A j \in 1..Len(injections) :
           ~Matches({bare[i] : i \in 1..Len(exceptions)}, injections[j].host)

\* What the running proxy tunnels, given the list.
SetMITMExceptions(exceptions) ==
  {e \in {BareHost(exceptions[i]) : i \in 1..Len(exceptions)} :
     ValidateDomain(NormalizeDomain(e))}

\* The ports the running proxy is limited to, none for its defaults.
SetAllowedPorts(ports) == {p \in {ports[i] : i \in 1..Len(ports)} : Within(1, p, 65535)}

(***************************************************************************)
(* The files abox.yaml names.  A path is its components; `base` is where   *)
(* abox.yaml lies.                                                         *)
(***************************************************************************)
RECURSIVE CleanPath(_)
CleanPath(comps) ==
  IF comps = <<>> THEN <<>>
  ELSE LET before == CleanPath(SubSeq(comps, 1, Len(comps) - 1))
           last   == comps[Len(comps)]
       IN  IF last # ".." THEN Append(before, last)
           ELSE IF before = <<>> THEN <<>>
           ELSE SubSeq(before, 1, Len(before) - 1)

IsPrefixOf(s, t) == Len(s) <= Len(t) /\ SubSeq(t, 1, Len(s)) = s

\* The directory abox.yaml lies in.
BoxDir == <<"home", "box">>

ResolvePath(p) ==
  IF p.abs THEN {p.comps}
  ELSE LET resolved == CleanPath(BoxDir \o p.comps)
       IN  IF IsPrefixOf(BoxDir, resolved) THEN {resolved} ELSE {}

Readable(p) == ResolvePath(p) # {} /\ p.kind # "missing"

(***************************************************************************)
(* abox.yaml.  A document is the text as a decoder meets it; its `box` is  *)
(* what it declares, the defaults filled in.                               *)
(***************************************************************************)
CheckVersion(version, current) == version # 0 /\ version <= current

\* The outcome of reading a document: "ok" or the complaint.  The version is
\* looked at first, so that a file for a newer abox is told to upgrade.
LoadFile(doc, strict) ==
  CASE ~doc.parses -> "unreadable"
    [] strict /\ ~(doc.version.int /\ CheckVersion(doc.version.num, 1)) -> "version"
    [] strict /\ (doc.unknown \/ doc.mistyped) -> "keys"
    [] strict /\ doc.second = "content" -> "documents"
    [] OTHER -> "ok"

\* create and up read strictly, down leniently: it only needs the name.
LoadRaw(doc) == LoadFile(doc, TRUE)

LoadLenient(doc) == LoadFile(doc, FALSE)

GetMITM(b) == IF b.mitm = {} THEN TRUE ELSE TRUE \in b.mitm
GetKprobeMulti(b) == TRUE \in b.multi
GetMaxConnections(b) == IF b.conns = {} THEN 512 ELSE CHOOSE n \in b.conns : TRUE

ValidateNameAndUser(b) ==
  ValidateInstanceName(b.name) /\ (b.user # NoWord => ValidateSSHUser(b.user))

ValidateResources(b) ==
  /\ ValidateResourceLimits(b.cpus, b.memory)
  /\ b.disk # NoSize => ValidateDiskSize(b.disk)

ValidateProvisionScripts(b) == \A i \in 1..Len(b.provision) : Readable(b.provision[i])

ValidateOverlay(b) == \A p \in b.overlay : Readable(p) /\ p.kind = "dir"

CONSTANT Kprobes   \* the kprobes abox has policies for

ValidateMonitor(b) ==
  /\ b.kprobes = <<>> \/ b.policies = <<>>
  /\ \A i \in 1..Len(b.kprobes) : b.kprobes[i] \in Kprobes
  /\ \A i \in 1..Len(b.policies) : Readable(b.policies[i])

ValidateOverrides(b) == \A p \in b.overrides : Readable(p)

ValidateDNS(b) == b.upstream # NoUpstream => NormalizeUpstreamDNS(b.upstream) # {}

\* Boxfile.Validate.
BoxValidate(b) ==
  /\ ValidateNameAndUser(b) /\ ValidateResources(b)
  /\ ValidateProvisionScripts(b) /\ ValidateOverlay(b) /\ ValidateMonitor(b)
  /\ ValidateOverrides(b)
  /\ \A n \in b.conns : n >= 1
  /\ \A i \in 1..Len(b.private) : TargetCheckerTakes(b.private[i])
  /\ ValidateSecretInjections(b.injections)
  /\ ValidateMITMExceptions(b.exceptions, b.injections)
  /\ ValidateDNS(b)

\* ... which also rewrites the upstream server to its full form.
Validated(b) ==
  IF b.upstream = NoUpstream THEN b
  ELSE [b EXCEPT !.upstream = CHOOSE u \in NormalizeUpstreamDNS(@) : TRUE]

(***************************************************************************)
(* The settings abox.yaml must be trusted for (internal/boxfile/trust.go): *)
(* none of them, and the file is used without asking.                      *)
(***************************************************************************)
SummarizeOverrides(b) == {p \in b.overrides : p.template \/ p.abs}

SummarizeAbsolutePaths(b) ==
  {p \in {b.provision[i] : i \in 1..Len(b.provision)} \cup b.overlay
           \cup {b.policies[i] : i \in 1..Len(b.policies)} : p.abs}

SecuritySummary(b) ==
  {f \in {"private", "ports", "injections", "exceptions"} : b[f] # <<>>}
    \cup {f \in {"mitm"} : b.mitm = {FALSE}}
    \cup {f \in {"upstream"} : b.upstream # NoUpstream}
    \cup {f \in {"overrides"} : SummarizeOverrides(b) # {}}
    \cup {f \in {"paths"} : SummarizeAbsolutePaths(b) # {}}

(***************************************************************************)
(* config.yaml.                                                            *)
(***************************************************************************)
\* validateCreateInputs, on what a validated abox.yaml leaves to check.
ValidateCreateInputs(b) ==
  /\ ValidateInstanceName(b.name)
  /\ b.user # NoWord => ValidateSSHUser(b.user)
  /\ ValidateResourceLimits(b.cpus, b.memory)
  /\ ValidateDiskSize(b.disk)

ResolvePolicyPaths(b) ==
  [i \in 1..Len(b.policies) |-> CHOOSE p \in ResolvePath(b.policies[i]) : TRUE]

\* The options of create, out of a declaration.
ApplyBoxfile(b) ==
  [user |-> b.user, cpus |-> b.cpus, memory |-> b.memory, disk |-> b.disk,
   base |-> b.base, upstream |-> b.upstream, mitm |-> GetMITM(b),
   conns |-> GetMaxConnections(b), private |-> b.private, ports |-> b.ports,
   injections |-> b.injections, exceptions |-> b.exceptions,
   monitored |-> b.monitored, monver |-> b.monver, multi |-> GetKprobeMulti(b),
   kprobes |-> b.kprobes, policies |-> ResolvePolicyPaths(b)]

\* The instance create saves: the options, its name and what was allocated.
BuildInstanceConfig(opts, name, subnet) ==
  LET fixed == [name |-> name, subnet |-> subnet, dnsPort |-> 0, httpPort |-> 0]
  IN  [f \in DOMAIN opts \cup DOMAIN fixed |->
         IF f \in DOMAIN fixed THEN fixed[f] ELSE opts[f]]

\* allocateResources of `abox import`: only the manifest's resources survive.
ImportedConfig(m, name, subnet) ==
  [name |-> name, user |-> NoWord, cpus |-> m.cpus, memory |-> m.memory,
   disk |-> m.disk, base |-> m.base, subnet |-> subnet, upstream |-> NoUpstream,
   mitm |-> FALSE, conns |-> 0, private |-> <<>>, ports |-> <<>>,
   injections |-> <<>>, exceptions |-> <<>>, monitored |-> FALSE, monver |-> "",
   multi |-> FALSE, kprobes |-> <<>>, policies |-> <<>>,
   dnsPort |-> 0, httpPort |-> 0]

ValidateHTTPConfig(inst) ==
  /\ inst.conns >= 0
  /\ \A i \in 1..Len(inst.private) : ParsesAsCIDR(inst.private[i])
  /\ \A i \in 1..Len(inst.ports) : Within(1, inst.ports[i], 65535)
  /\ ValidateSecretInjections(inst.injections)
  /\ ValidateMITMExceptions(inst.exceptions, inst.injections)

\* Instance.Validate, which every Load applies.
InstanceValidate(inst) ==
  /\ ValidateInstanceName(inst.name)
  /\ inst.user # NoWord => ValidateSSHUser(inst.user)
  /\ ValidateHTTPConfig(inst)
  /\ ValidateResourceLimits(inst.cpus, inst.memory)
  /\ ValidateDiskSize(inst.disk)

(***************************************************************************)
(* Drift: the fields `abox up` warns about, because it does not apply them *)
(* to an instance that exists.                                             *)
(***************************************************************************)
EffectiveMaxConns(n) == IF n = 0 THEN 512 ELSE n

ResourceDrift(b, inst) ==
  {f \in {"cpus", "memory"} : b[f] # 0 /\ b[f] # inst[f]}
    \cup {f \in {"disk"} : b.disk # NoSize /\ b.disk # inst.disk}
    \cup {f \in {"upstream"} : b.upstream # NoUpstream /\ b.upstream # inst.upstream}
    \cup {f \in {"base", "subnet"} : b[f] # "" /\ b[f] # inst[f]}

HttpDrift(b, inst) ==
  {f \in {"private", "ports", "injections", "exceptions"} : b[f] # inst[f]}
    \cup {f \in {"mitm"} : GetMITM(b) # inst.mitm}
    \cup {f \in {"conns"} : GetMaxConnections(b) # EffectiveMaxConns(inst.conns)}

\* Policies are relative paths in one and absolute in the other: counted only.
MonitorDrift(b, inst) ==
  {f \in {"monitored", "kprobes"} : b[f] # inst[f]}
    \cup {f \in {"monver"} : b.monver # "" /\ b.monver # inst.monver}
    \cup {f \in {"multi"} : GetKprobeMulti(b) # inst.multi}
    \cup {f \in {"policies"} : Len(b.policies) # Len(inst.policies)}

Drift(b, inst) == ResourceDrift(b, inst) \cup HttpDrift(b, inst) \cup MonitorDrift(b, inst)

=============================================================================
