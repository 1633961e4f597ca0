----------------------------- MODULE ConfigFile -----------------------------
(***************************************************************************)
(* One instance's config.yaml and the commands that write it: `abox        *)
(* create` and `abox up` from abox.yaml, `abox import` from a manifest,    *)
(* `abox config edit`, and `abox start`, which records the ports the       *)
(* filters were given.                                                     *)
(*                                                                         *)
(* Every writer loads the whole file, changes its copy and writes the      *)
(* whole file back.  Only create and import hold a lock, which start and   *)
(* edit do not take; config.Save writes in place and validates nothing.    *)
(***************************************************************************)
EXTENDS Settings

CONSTANTS Docs,        \* what abox.yaml may be at first
          Redrafts,    \* ... and may be changed to
          Manifests,   \* what an archive's manifest may be
          Edits,       \* the flags of `abox config edit`
          MaxCfgSteps, \* commands
          MaxCfgKills  \* commands killed while they write

\* What the constants must be.
ConfigAssumption == MaxCfgSteps \in Nat /\ MaxCfgKills \in Nat

VARIABLES yaml,       \* abox.yaml
          config,     \* config.yaml
          origin,     \* what created it
          starter,    \* a running `abox start`: its step and its copy
          editor,     \* a running `abox config edit`
          promised,   \* what edits reported as saved: field -> value
          raced,      \* a start and an edit have overlapped
          warned,     \* the fields the last `abox up` warned about
          cfgSteps, cfgKills

configVars == <<yaml, config, origin, starter, editor, promised, raced, warned,
                cfgSteps, cfgKills>>

Absent == [file |-> "absent"]
Cut    == [file |-> "cut"]
Whole(inst) == [file |-> "whole", inst |-> inst]
NoOrigin == [by |-> "nothing"]
Resting(pc) == [pc |-> pc]

\* config.Load: a missing or cut file fails, a whole one is validated.
Loads(f) == f.file = "whole" /\ InstanceValidate(f.inst)

ConfigInit ==
  /\ yaml \in Docs /\ config = Absent /\ origin = NoOrigin
  /\ starter = Resting("idle") /\ editor = Resting("idle")
  /\ promised = <<>> /\ raced = FALSE /\ warned = {}
  /\ cfgSteps = 0 /\ cfgKills = 0

Command == cfgSteps < MaxCfgSteps /\ cfgSteps' = cfgSteps + 1

\* config.Save: the file is truncated and written; killed between, it stays cut.
Save(inst) ==
  \/ config' = Whole(inst) /\ UNCHANGED cfgKills
  \/ config' = Cut /\ cfgKills < MaxCfgKills /\ cfgKills' = cfgKills + 1

EditBoxfile(doc) ==
  /\ Command /\ doc # yaml /\ yaml' = doc
  /\ UNCHANGED <<config, origin, starter, editor, promised, raced, warned, cfgKills>>

\* The subnet asked for, or one allocated (Storage has how).
AllocateSubnet(b) == IF b.subnet = "" THEN "auto" ELSE b.subnet

\* `abox create --from-file` and the first `abox up`.
CreateFromBox ==
  /\ Command /\ config = Absent
  /\ LoadRaw(yaml) = "ok" /\ BoxValidate(yaml.box)
  /\ LET b == Validated(yaml.box)
     IN  /\ ValidateCreateInputs(b)
         /\ Save(BuildInstanceConfig(ApplyBoxfile(b), b.name, AllocateSubnet(b)))
  /\ origin' = [by |-> "box", doc |-> yaml] /\ promised' = <<>> /\ raced' = FALSE
  /\ UNCHANGED <<yaml, starter, editor, warned>>

\* `abox import` saves what the manifest says.
Import(m) ==
  /\ Command /\ config = Absent
  /\ ValidateInstanceName(yaml.box.name)
  /\ Save(ImportedConfig(m, yaml.box.name, "auto"))
  /\ origin' = [by |-> "import"] /\ promised' = <<>> /\ raced' = FALSE
  /\ UNCHANGED <<yaml, starter, editor, warned>>

\* `abox up` on an instance that exists: it warns of what it will not apply.
UpExisting ==
  /\ Command /\ LoadRaw(yaml) = "ok" /\ BoxValidate(yaml.box)
  /\ Loads(config)
  /\ warned' = Drift(Validated(yaml.box), config.inst)
  /\ UNCHANGED <<yaml, config, origin, starter, editor, promised, raced, cfgKills>>

\* `abox start` loads, and saves twice once each filter has told its port.
StartLoads ==
  /\ Command /\ starter.pc = "idle" /\ Loads(config)
  /\ starter' = [pc |-> "dns", copy |-> config.inst]
  /\ raced' = (raced \/ editor.pc # "idle")
  /\ UNCHANGED <<yaml, config, origin, editor, promised, warned, cfgKills>>

ResolveDNSPort(port) ==
  /\ starter.pc = "dns"
  /\ IF port = starter.copy.dnsPort
       THEN starter' = [starter EXCEPT !.pc = "http"] /\ UNCHANGED <<config, cfgKills>>
       ELSE LET inst == [starter.copy EXCEPT !.dnsPort = port]
            IN  /\ Save(inst)
                /\ starter' = IF config' = Cut THEN Resting("idle")
                                               ELSE [pc |-> "http", copy |-> inst]
  /\ UNCHANGED <<yaml, origin, editor, promised, raced, warned, cfgSteps>>

ResolveHTTPPort(port) ==
  /\ starter.pc = "http"
  /\ IF port = starter.copy.httpPort
       THEN UNCHANGED <<config, cfgKills>>
       ELSE Save([starter.copy EXCEPT !.httpPort = port])
  /\ starter' = Resting("idle")
  /\ UNCHANGED <<yaml, origin, editor, promised, raced, warned, cfgSteps>>

\* A start that fails before or between the two leaves the file as it is.
StartFails ==
  /\ starter.pc # "idle" /\ starter' = Resting("idle")
  /\ UNCHANGED <<yaml, config, origin, editor, promised, raced, warned, cfgSteps, cfgKills>>

\* `abox config edit`, up to its save: each flag is checked against the copy.
RunEdit(e) ==
  /\ Command /\ editor.pc = "idle" /\ Loads(config) /\ DOMAIN e # {}
  /\ "cpus" \in DOMAIN e => ValidateResourceLimits(e.cpus, config.inst.memory)
  /\ "memory" \in DOMAIN e =>
       ValidateResourceLimits(IF "cpus" \in DOMAIN e THEN e.cpus ELSE config.inst.cpus,
                              e.memory)
  /\ "disk" \in DOMAIN e =>
       ValidateDiskSize(e.disk) /\ DiskMayBecome(e.disk, config.inst.disk)
  /\ "upstream" \in DOMAIN e => NormalizeUpstreamDNS(e.upstream) # {}
  /\ editor' = [pc |-> "saving", edit |-> e, copy |-> config.inst]
  /\ raced' = (raced \/ starter.pc # "idle")
  /\ UNCHANGED <<yaml, config, origin, starter, promised, warned, cfgKills>>

Edited(inst, e) ==
  LET value(f) == IF f = "upstream" THEN CHOOSE u \in NormalizeUpstreamDNS(e[f]) : TRUE
                                    ELSE e[f]
  IN  [f \in DOMAIN inst |-> IF f \in DOMAIN e THEN value(f) ELSE inst[f]]

\* MUTANT of EditSaves: of several flags only one is applied.
EditSavesFirstFlag ==
  /\ editor.pc = "saving"
  /\ LET f == CHOOSE f \in DOMAIN editor.edit : TRUE
     IN  Save(Edited(editor.copy, [g \in {f} |-> editor.edit[g]]))
  /\ editor' = Resting("idle")
  /\ promised' = IF config' = Cut THEN promised
                 ELSE [f \in DOMAIN promised \cup DOMAIN editor.edit |->
                         IF f \in DOMAIN editor.edit
                           THEN Edited(editor.copy, editor.edit)[f] ELSE promised[f]]
  /\ UNCHANGED <<yaml, origin, starter, raced, warned, cfgSteps>>

\* ... and its save, after which it prints what was updated.
EditSaves ==
  /\ editor.pc = "saving"
  /\ LET inst == Edited(editor.copy, editor.edit)
     IN  /\ Save(inst)
         /\ promised' = IF config' = Cut THEN promised
                        ELSE [f \in DOMAIN promised \cup DOMAIN editor.edit |->
                                IF f \in DOMAIN editor.edit THEN inst[f] ELSE promised[f]]
  /\ editor' = Resting("idle")
  /\ UNCHANGED <<yaml, origin, starter, raced, warned, cfgSteps>>

\* `abox down --remove`: the name comes from abox.yaml, read leniently; what to
\* remove comes from the configuration.  (How it overlaps with others: Lifecycle.)
Down ==
  /\ Command /\ LoadLenient(yaml) = "ok"
  /\ Loads(config) /\ config.inst.name = yaml.box.name
  /\ starter.pc = "idle" /\ editor.pc = "idle"
  /\ config' = Absent /\ origin' = NoOrigin /\ promised' = <<>> /\ raced' = FALSE
  /\ UNCHANGED <<yaml, starter, editor, warned, cfgKills>>

ConfigNext ==
  \/ \E d \in Redrafts : EditBoxfile(d)
  \/ CreateFromBox \/ UpExisting \/ Down
  \/ \E m \in Manifests : Import(m)
  \/ StartLoads \/ StartFails
  \/ \E p \in {5353, 5354} : ResolveDNSPort(p) \/ ResolveHTTPPort(p)
  \/ \E e \in Edits : RunEdit(e)
  \/ EditSaves

(***************************************************************************)
(* Properties.                                                             *)
(***************************************************************************)
\* Only create, import and edit change what a config.yaml says: StorageDir and
\* the others aside, the file is absent, cut short, or a whole instance.
ConfigTypeOK ==
  /\ config.file \in {"absent", "cut", "whole"}
  /\ origin.by \in {"nothing", "box", "import"}
  /\ starter.pc \in {"idle", "dns", "http"} /\ editor.pc \in {"idle", "saving"}
  /\ warned \subseteq {"cpus", "memory", "disk", "upstream", "base", "subnet", "mitm",
                       "private", "ports", "conns", "injections", "exceptions",
                       "monitored", "monver", "multi", "kprobes", "policies"}

\* config.go says a check in Load must not "break read-only/teardown commands
\* (stop, remove, status)": a configuration abox itself has saved loads.
SavedLoads == config.file = "whole" => Loads(config)

\* The two exceptions are the only ones: what boxfile.Validate and create let
\* through loads, unless a port is out of range or a CIDR has blanks around it.
CreatedLoads ==
  /\ config.file = "whole" /\ origin.by = "box"
  /\ \A i \in 1..Len(config.inst.ports) : Within(1, config.inst.ports[i], 65535)
  /\ \A i \in 1..Len(config.inst.private) : ParsesAsCIDR(config.inst.private[i])
  => Loads(config)

\* "teardown stays readable even when the file no longer parses strictly or
\* targets a newer abox" (LoadLenient): an instance whose configuration loads can
\* be taken down whatever later became of the keys, version and documents of its
\* abox.yaml.
TeardownReads ==
  /\ Loads(config) /\ yaml.parses /\ config.inst.name = yaml.box.name
  /\ cfgSteps < MaxCfgSteps /\ starter.pc = "idle" /\ editor.pc = "idle"
  => ENABLED Down

\* `abox config edit` and `abox start` never turn a configuration that loads
\* into one that does not; only being killed while writing does.
KeepsLoadable == Loads(config) /\ config'.file = "whole" => Loads(config')
StaysLoadable == [][KeepsLoadable]_configVars

\* An instance just made from abox.yaml does not drift from it: the comparison
\* uses the forms create stores (defaults filled in, the upstream normalised).
NoFalseDrift ==
  /\ config.file = "whole" /\ origin.by = "box" /\ DOMAIN promised = {} /\ ~raced
  /\ origin.doc = yaml
  => Drift(Validated(yaml.box), config.inst) = {}

\* An instance made from an abox.yaml that was used without asking has the
\* default posture: traffic inspected and no host exempt, no secret bound, no
\* private target, the default ports, the host's resolver, and no policy from
\* outside the directory of abox.yaml (trust.go SecuritySummary).
QuietBox ==
  /\ config.file = "whole" /\ origin.by = "box" /\ DOMAIN promised = {} /\ ~raced
  /\ SecuritySummary(origin.doc.box) = {}
  => /\ config.inst.mitm
     /\ SetMITMExceptions(config.inst.exceptions) = {}
     /\ config.inst.injections = <<>> /\ config.inst.private = <<>>
     /\ SetAllowedPorts(config.inst.ports) = {}
     /\ config.inst.upstream = NoUpstream
     /\ \A i \in 1..Len(config.inst.policies) : IsPrefixOf(BoxDir, config.inst.policies[i])

\* What `abox up` does not warn of is as abox.yaml declares it: an instance
\* without drift is the one create would build, up to its user, the fields
\* abox.yaml leaves out, the monitor's policy files and a default of 0.
DriftSeen ==
  /\ Loads(config) /\ LoadRaw(yaml) = "ok" /\ BoxValidate(yaml.box)
  => LET b     == Validated(yaml.box)
         built == BuildInstanceConfig(ApplyBoxfile(b), b.name, b.subnet)
         blank == {f \in {"cpus", "memory"} : b[f] = 0}
                    \cup {f \in {"base", "subnet", "monver"} : b[f] = ""}
                    \cup {f \in {"upstream"} : b.upstream = NoUpstream}
                    \cup {f \in {"disk"} : b.disk = NoSize}
     IN  \A f \in DOMAIN built \ ({"name", "user", "dnsPort", "httpPort", "policies"}
                                    \cup blank) :
           \/ f \in Drift(b, config.inst)
           \/ built[f] = config.inst[f]
           \/ f = "conns" /\ config.inst.conns = 0

\* No configuration that loads gives a secret to a host the running proxy
\* would tunnel unread: the check and the proxy match hosts the same way.
NoTunnelledSecret ==
  Loads(config) =>
    \A i \in 1..Len(config.inst.injections) :
      ~Matches(SetMITMExceptions(config.inst.exceptions), config.inst.injections[i].host)

\* What `abox config edit` reported stays so, as long as no start overlapped it.
EditKept ==
  /\ config.file = "whole" /\ ~raced
  => \A f \in DOMAIN promised : config.inst[f] = promised[f]

\* A disk never shrinks under an instance, unless a start overlapped the edit.
KeepsDisk ==
  Loads(config) /\ config'.file = "whole" /\ ~raced =>
    \A n \in ParseDiskSize(config'.inst.disk), c \in ParseDiskSize(config.inst.disk) : n >= c
DiskOnlyGrows == [][KeepsDisk]_configVars
=============================================================================
