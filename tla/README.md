# A TLA+ model of abox

abox runs throw-away virtual machines whose network access is confined by an
allowlist. This directory holds a model of the parts of it that are hard to
test: processes that share files, kernel tables and libvirt objects, with steps
that fail, interleave and are cut short. TLC checks the models on small
instances. TLAPS proves central safety properties for every instance.

Contents: [the system](#the-system) · [modules](#modules) · [runs](#runs) ·
[proofs](#proofs) · [what the models leave out](#what-the-models-leave-out) ·
[disagreements found](#disagreements-found) · [plan](#plan)

## The system

| part | state | operations | interacts with |
|---|---|---|---|
| CLI (`pkg/cmd/*`) | none; one process per command | create, start, stop, restart, remove, up, down, allowlist, net, base, import/export, migrate, forward, mount, snapshot | everything below, without a server |
| global configuration (`internal/config`) | `config.yaml` per instance, used subnets and ports, one `flock` | load, save, allocate, lock | create, remove, start, import, migrate |
| VM backend (`internal/backend/*`, `internal/virsh`) | domain, network, nwfilter and its binding | define, start, stop, delete, query | start, stop, remove |
| egress enforcement (`internal/privilege/egress_*`) | NAT redirects, dedicated INPUT and FORWARD chains, IPv6 chains | Apply, Remove, Verify of a bridge | the privilege helper that each CLI process starts for itself |
| filter daemons (`internal/dnsfilter`, `internal/httpfilter`, `internal/filterbase`) | in-memory allowlist, mode, connections, certificate cache | serve, add, remove, reload, set mode, stop | the guest, the allowlist file, the CLI over a Unix socket |
| allowlist file (`internal/allowlist`) | `allowlist.conf` | append, rewrite, rename, truncate and write | both filter daemons (fsnotify), edit, up |
| secrets (`internal/secretstore`) | the `secrets` file of an instance | set, remove, inject | the HTTP filter, which reads it once |
| privilege helper (`internal/privilege`, `pkg/cmd/factory`) | its process, socket and token | start, ping, call, close | every command that needs root |
| monitor daemon (`internal/monitor`), logs (`internal/logutil`) | event pipeline, rotated files | serve, stop, write, follow | the guest over virtio, `abox logs -f` |
| base images (`internal/images`) | image files, the cached catalogue | list, pull, import, remove, prune | create |
| boxfile (`internal/boxfile`), cloud-init | `abox.yaml`, the trust cache, the seed image | approve, compare, provision | create, up, start |
| tunnels and mounts (`pkg/cmd/forward`, `pkg/cmd/mount`) | ssh and sshfs processes, their records | add, remove, restart, list | the guest, remove |
| macOS and VMware backends | pf anchors, vmnet processes, vmx files | as the libvirt backend | the privilege helper |

Hard behaviours. Only create, import, remove, migrate and one step of start
take the global lock. Everything else interleaves: two commands on one instance, two helpers on
one bridge, a watcher goroutine and a handler on one filter, an editor and a
handler on one file. Almost every step is a call that may fail, some failures
are rolled back, some only logged. A process may die between any two steps and
leave what it did so far.

What has to be right: a VM never stays up without its filter; a failed
operation leaves nothing behind; a command that reports success has succeeded;
the rules that answer "applied" deny; the filters follow the file; what was
removed stays removed; no two instances share a subnet and no libvirt object
loses its owner; a disk keeps its data and its base image; every command ends.

## Modules

One module per component. `PROJECT.json` maps every definition that models code
to the lines it models. All history variables (what an actor saw, asked for or
was told) are named as such where they are declared.

| module | about | source |
|---|---|---|
| `Allowlist` | one instance's allowlist file, its two daemons with watcher and handlers, and the commands that change the file | `internal/allowlist`, `internal/filterbase`, `pkg/cmd/allowlist`, `up` |
| `AllowlistStore` | what the file promises: an atomic set of lines | `docs/filtering.md`, `loader.go` |
| `Lifecycle` | one instance: configuration, network, disk, VM, nwfilter, host rules, daemons, lock; all lifecycle commands | `pkg/cmd/{create,start,stop,restart,remove,up,down}`, `internal/virsh`, `internal/backend/libvirt` |
| `Egress` | one bridge's iptables and ip6tables state; helpers that Apply, Remove and Verify command by command | `internal/privilege/egress_linux.go`, `egress_ipv6_linux.go` |
| `Proxy` | the HTTP filter's connections: accept loop and limit, verdicts, tunnels, intercepted sessions, draining shutdown | `internal/httpfilter`, `pkg/cmd/http/serve` |
| `Certs` | the filter's certificate cache: load, scan, evict, store and sweep without a lock | `internal/httpfilter/server.go`, `internal/cert` |
| `Secrets` | the secret store, the rules made from it, the injection into requests | `internal/secretstore`, `internal/httpfilter/inject.go` |
| `Tap` | `abox tap` and the TLS key log | `pkg/cmd/tap` |
| `Dns` | queries from arrival to answer, the mode, the listeners and their shutdown | `internal/dnsfilter`, `pkg/cmd/dns/serve` |
| `Profile` | the mode and the captured names of both filters, and the file they share | `internal/allowlist/{mode,profile,api}.go`, `pkg/cmd/net` |
| `Storage` | the instances of one user on libvirt: configurations and subnets, networks, domains, disks in legacy and per-user storage, one base image in the cache, in the backend's store and at the path of the base commands | `pkg/cmd/{create,importcmd,remove,migrate,prune,base/*}`, `internal/images` |
| `Images` | the stored base image where create and the base commands share it (vfkit): its lock and its replacement | `pkg/cmd/{create,base/*}`, `internal/images` |
| `Catalog` | the published images, the cached list, what is shown and picked | `internal/images`, `pkg/cmd/base` |
| `Bundle`, `Extract` | export and import of one archive; its extraction entry by entry | `pkg/cmd/{export,importcmd}` |
| `Snapshots` | snapshot add, remove, revert and list against start, stop and ssh | `pkg/cmd/snapshot` |
| `Settings`, `ConfigFile` | what `abox.yaml` and `config.yaml` may say and how they are compared; the commands that rewrite `config.yaml` | `internal/boxfile`, `internal/config`, `internal/validation` |
| `Trust` | the approval of an `abox.yaml`, and the use of the files it names | `pkg/cmdutil/boxfile.go`, `internal/boxfile/trust.go` |
| `Up` | `abox up`: provisioning, the filter modes around it, the terminal interface | `pkg/cmd/up`, `internal/tui` |
| `Seed` | the cloud-init image and the shared download of the monitoring agent | `internal/cloudinit`, `internal/tetragon` |
| `Monitor` | the event daemon over restarts of the VM and of itself | `internal/monitor` |
| `Logs` | the rotating writer and the follower | `internal/logutil` |
| `Helper` | the privilege helper: start, socket, ping, close, death | `internal/privilege/helper.go`, `pkg/cmd/factory` |
| `Selection` | choices made from facts about the host, as operators: backend, binaries, tools, socket directories, groups, storage provisioning | `internal/backend/registry.go`, `internal/privilege` |
| `Vfkit`, `Pf` | the macOS backend: processes and PID files; pf rules, `pf.conf` and anchors | `internal/backend/vfkit`, `internal/vmnethelper`, `internal/firewall` |
| `VMware` | the vmnet registry, the answer file, the vmx, the rules | `internal/backend/vmware` |
| `Forwards`, `Mounts` | ssh tunnels and sshfs mounts against their records | `pkg/cmd/{forward,mount}` |
| `Doctor` | the checks of `abox doctor` and its report | `pkg/cmd/doctor` |
| `MC*` | finite instances for TLC; `MCSamples` holds their inputs | |
| `*Proofs` | theorems | |

### Allowlist

`file` is the set of lines; comments and order are left out. An entry is a name
and a flag for the `*.` that `canonicalAllowlistEntry` strips. `mtime` counts
writes and `ino` counts renames, which is what `edit`'s conflict check and
`up`'s handling of the old inode can tell apart. Each daemon has a phase (`Load`
comes before `Watch`, and changes in between are unseen), a filter, a watcher
that is idle or between parse and `Replace`, and `writeMu`. Each client is at
one step of its command. Handlers hold `writeMu` of their daemon. The watcher
does not take it. `drift` is a history variable. It records why a filter may
differ from the file without an event on the way.

### Lifecycle

Every client runs one command at a time. A command is a list of stages (`todo`),
a stage a list of steps (`pc`), a step one external call with the code's
reaction to its failure. A step that may fail has an action of its own for the
failure, enabled when its operation is in `MayFail`. `Events` are what the
environment does: a daemon dies, the firewall is reloaded, the guest powers
off, a CLI process is killed, the host reboots. The host rules are one Boolean
here. `Egress` shows when that is justified. Stopping a daemon is one step: its
API answers no more. That the monitor's process may linger after that is the
subject of `Monitor`. `withdrawn` is a history variable: a re-assertion failed on
a running VM and its rollback took the host rules back.

### Egress

`nat`, `chain` and `jumps` are the kernel's tables for one bridge. A helper's
request is a list of stages: `applied` (the `-C` checks), `flushNAT`,
`flushChain` per chain, `redirect` per protocol, `build` per chain. One action
is one iptables command. A command runs, is refused by the tables as they are
(delete of an absent rule, `-X` of a referenced chain), or fails by itself. A
failed build step replaces the remaining stages by the flush. A failed flush
step moves to the next stage, and only Remove reports it. `epoch` is a history
variable: which requests ran since no request was running, whether one ran
alone, how they ended, whether the rule set was complete at its start.

### Proxy

A connection is a slot that is reused once closed; `conn[c].pc` is where its
handler is. The outer HTTP server owns it in the states `Outer`, the
`WaitGroup` counts it in `Tracked`, and between `Hijack` and `trackConn`
neither does. `sem` is the semaphore of the connection limit. The accept loop,
Shutdown (`sd`), the outer server's Shutdown (`outer`), the drain waiter and
the per-connection watchers are processes of their own, as they are goroutines
in the code. A verdict is one step. `wasPassive` and `vetted` are history
variables. A forward-proxy request that is upgraded becomes a relay that nothing
tracks (`RelayEnds`): neither the drain nor the properties about it cover it.

### Storage

`Lifecycle` follows one instance through all its commands; `Storage` has several
instances and only the commands that make, move and delete them. `run[p]` is
what CLI process `p` is doing: its step, its instance, the subnet of the
`Instance` it holds in memory, what it has made (the rollback's flags), and
whether the image file it has opened is still the file at the path. The config
lock has one holder, the flock of the stored image many readers or one remover,
but only while they have the same file open. A file is absent, partial or whole;
a disk in per-user storage is moreover `foreign` between root's `mv` and the
`chown`. One action is one external call or one file operation that others can
observe. `StepFails` and `Kill` stop a process at any step, and `Damage` is what
the step may have done by then: a truncated configuration, half a disk.
`lost` and `cut` are history variables. They name the cases in which
the code gives up a guarantee, and the properties except exactly these.
The base image has three places: the user's cache, the store the backend clones
from, and `<base>/disks`, where base import and base remove act. On libvirt the
store is elsewhere, so that the latter two touch a path no other command reads;
on vfkit they are one, and `Images` is about that.

### The other components

Each is one module of the same kind: one action per step that others can
observe, with the failure of the step, a kill between steps and the actors that
share the state. They do not share state with one another in the models, so
they are checked side by side (see [runs](#runs)). What is particular to them:

- `Dns`: a query passes the stations of `ServeDNS`; the mode and the allowlist
  are loaded anew at each, as the code does, and may change between.
- `Certs`: a handshake's look-up, signing, scan, eviction and store are steps
  of their own; so is each delete of the sweep.
- `Profile`: `profile.log` is a sequence of slots, and a handle without
  `O_APPEND` writes at its own offset.
- `Trust`: `abox.yaml` is read once, but a template or policy it names is read
  for the fingerprint, again by create and again by every start. What is edited
  after it was hashed is used as it is then; `TrustSound` excepts exactly that.
- `Seed`, `Storage`, `Images`: a path and the file behind it are told apart, since
  a download or a lock may be on a file that was renamed meanwhile. An ISO is
  whole only once it is burnt.
- `Logs`: a file is an inode; the follower sees the events of fsnotify in order
  and the directory as it is when it looks. A write may fail or be short, and
  the follower may read a line half written.
- `Monitor`: `logEvent` gives up an event it cannot encode or write (`refused`).
- `Forwards`, `Vfkit`: PIDs are reused.
- `Vfkit`: the look at a PID (`ps`) and the signal to it are two steps, and the
  guard knows a process by its name, so that a PID may have gone to another
  instance's vfkit or vmnet-helper. A helper is the user's own, or was started
  through sudo: then the PID on record is sudo's, SIGKILL leaves the helper
  behind (`stray`), and the kill of an aborted start waits for nothing.
- `Helper`: only the life of processes and sockets; the token exchange is left
  out. `raced` holds the sockets a sweep tested before a helper served on them.
- `Settings`, `Selection`, parts of `Pf`, `Catalog` and `Extract` are
  algorithms, checked over small sets of inputs against what they promise.

## Runs

| run | instance | shows |
|---|---|---|
| `allowlist_api` | 2 clients, 2 domains, 3 commands, 1 fault, 1 daemon restart | `NoSilentDrift`, and that the file implements `AllowlistStore` (`StoreSpec`) under add, remove, reload |
| `allowlist_files` | 2 clients, 1 domain in two spellings, 2 commands with edit and up, 1 fault, fair daemons | `FileEditsSound`, `EventuallyInSync` |
| `allowlist_stale_reload` | reload against add and remove | violation of `LiveChanges` |
| `lifecycle` | scene `alone`: 1 client, 5 commands, any 2 forward steps fail; scene `race`: 2 clients, 3 commands, any operation fails once, 1 event | `AloneSound`, `NeverUnattended`, `LockDiscipline` |
| `lifecycle_overlap` | 2 clients, start and stop, nothing fails | violation of `AtRest` |
| `egress` | scene `alone`: 1 helper, 3 requests, 2 policies, all four host kinds, 2 failing commands, 1 crash or reload; scene `race`: 2 helpers, 2 requests, 1 policy, IPv4 host | `DenyInForce`, `AppliesSound`, `LeavesNothing` |
| `proxy` | 2 clients, 2 slots, 3 kinds of host, CA or none, mode switched, shutdown at any time, fair goroutines | `SlotsExact`, `SessionsSound`, `ReturnsDrained`, `ShutdownCompletes` |
| `storage` | 2 processes, 3 commands of ten kinds, 2 instances (1 on legacy storage, on the same or on another file system), 2 subnets, 1 failing step, 1 kill | `SubnetsDistinct`, `NothingStranded`, `ImagesSound`, `MigrateSound`, `NeverStuck` |
| `storage_snapshot` | 1 process, pull and snapshot import, nothing fails | violation of `SnapshotBacked` |
| `services` | 23 components side by side and the questions of `Selection` and `Pf`; bounds at each `INSTANCE` of `MCServices` | one `...Sound` per part of the system, `RunsFiltered`, `CloneSourced`, and the action property `StepsSound` |
| `services_live` | `Lifecycle`, `Dns`, `Logs`, `Monitor`, `Helper`, `Vfkit`, `Images` side by side, each with the fairness of its processes | `EverythingEnds`, `WatchersCatchUp` |
| `monitor_exits` | 1 monitor daemon | violation of `MonitorExits` |

Every property is stated in words above its definition. What one part of the
system promises is one property, a conjunction of named statements in the
component's module. `AloneSound`, for example, is `AtRest`, `NoLeak`,
`ResultHonest` and `VMFirst`; `BundleSound` is seven statements about archives.

**Side by side.** `MCServices` and `MCLive` lay their components over the same
variables `x1`, `x2`, ...; `part`, chosen in the initial state and never
changed, says whose state these are. A behaviour is a behaviour of one
component. No interaction between components is modelled there and none is
claimed. `MCLifecycle` and `MCEgress` use the same device for two instances of
one module, the scenes.

**Bounds.** The protocols have no rounds and no counters, so what matters is
which operations can meet. Two processes and three commands let any two
operations overlap on a state that a third one left. Two faults let a step and
its rollback both fail. Two policies let an Apply replace the rules of another.
One domain in two spellings is enough for the file commands, since they treat
lines alike; two domains are used where one line must survive the change of
another. Two connections and two
slots fill the limit while the accept loop waits for a slot; `Proxy` has no
other bound. `Storage` needs two instances and two subnets for an allocation to
collide, and three commands for one to disturb what a second left to a third;
the same instance with four commands and no failure passes too. `Logs` needs
seven lines of two to a file for the oldest backup to fall off; `Certs` four
hosts for a cache of one certificate and two handshakes to overrun, which its
second instance, `Crowd`, has at one instant, while the first lets certificates
expire; `Vfkit`
three PIDs for one to be reused while another is still on record. Symmetry is in
clients, helpers, processes, subnets and the `Pair` of terminals, starts, queries
or handshakes of a component of `MCServices`, which the models treat alike; runs
with liveness have none. Deadlock is not
checked: when the bound on commands is used up nothing
is left to do, and an idle system really may stop. `NeverStuck` says of
`Storage` that a running command, or another one, always has a step.

**Fairness.** `Allowlist!Fairness` is weak fairness of each daemon's goroutines,
watcher and handlers, which the Go scheduler gives to a runnable goroutine. A
client's own steps are not fair: a user may leave an editor open for ever.
`Proxy!Fairness` is weak
fairness of each handler step (they wait only for dials, writes and handshakes,
all with deadlines), of each watcher, of the accept loop, of both shutdowns and
of the timer of Shutdown's context. Peers are not fair: a session or a proxied
request may last for ever. In `services_live` (`Fair` in `MCLive`) the processes
that are kept running are: each CLI process of `Lifecycle`, where one that waits
for the global lock is disabled while another holds it, and weak fairness is
enough because commands are bounded and the lock is in the end free for good;
each DNS handler, whose upstream exchanges time out, and the shutdown of both
listeners; the log's writer and follower; the read loop, the log closer and the
main function of a monitor; abox and its helpers; the vfkit command, whose waits
all have deadlines; the commands on a base image, of which one that waits for a
lock is woken when it is free. The lifecycle part has no create, start and restart
of their own: up takes the steps of the first two, and a restart goes on after
its stop as down with removal does. It has one client of the helper, so that
two helpers that meet are in `services` only. Guests, users, signals, kills and upstream answers are not
fair.

## Proofs

The theorems hold for every value of the constants that satisfies the named
assumptions of the modules: any number of processes, connections, queries,
domains, policies, faults and events. The assumptions say that the processes'
names differ from the mark of a free lock, that switches are subsets of their
universe, that bounds are naturals, that the entries are closed under `Canon`,
and, where something is counted (`Proxy`, `Certs`, `Dns`), that the things
counted are finitely many.

- `AllowlistProofs!DriftSafe` (`NoSilentDrift`). The invariant alone is not
  inductive, because it only speaks of settled daemons. `SyncIInv` adds, for
  each place where a watcher or handler can be, how far the filter may be from
  the file: an event is waiting, or the watcher's parse is current, or the
  filter differs by the entry of the add or remove under way, or a cause is
  recorded. `LockInv` says whose
  handler holds `writeMu`; without it two handlers could be between parse and
  replace at once.
- `AllowlistProofs!RemoveSound` and `EditSound`, together `EditsSound`
  (`FileEditsSound`), are action properties.
  `RewriteInv` says that the lines a remove handler is about to write list no
  spelling of its domain. `EditInv` ties the modification time an edit recorded
  to the lines it copied.
- `AllowlistProofs!StoreRefined`: if add, remove and reload are the only
  commands, the file implements `AllowlistStore` (initial states map to initial
  states, each step to a step or a stutter). `StoreInv` is needed: what a remove is
  about to write is the present file without its domain.
- `LifecycleProofs!LockCorrect`: `LockDiscipline` is inductive together with the
  type invariant. Each of the fifty-odd actions is shown to make a move (`Moves`)
  that takes or drops the lock exactly when it enters or leaves the locked steps.
- `LifecycleProofs!FailsClosed`: if no process is killed, a VM without its
  nwfilter is about to be bound or stopped by the start that booted it, or the
  user was warned. The argument is per action: only `Boot` starts a VM, only
  removal of a VM that is not running unbinds it, and `st_apply` is left only
  with the filter bound, towards `st_fail`, or with the VM gone.
- `EgressProofs!ApplyFailsClosed` (`DenyInForce`), for any number of helpers
  that interleave command by command. The property speaks of moments when no
  request runs, so the invariant `EgressIInv` says what is owed meanwhile
  (`Debts`): a managed chain has its drop, or some pending Apply has still to
  append it, or a Remove, a failure, a crash or a reload has spoiled the epoch;
  the same for the jump to the chain. `Jobs` says what the rest of a request can
  consist of, so that a debt cannot be dropped: clearing comes before building,
  and an Apply that has met an error only clears. `NoFalseOk` covers the host on
  which IPv6 is live and cannot be denied: no Apply answers ok there.
- `ProxyProofs`: `ProxyIInv` is the one invariant behind five results. It counts
  the slots and the `WaitGroup` by the places connections are at, and says of
  each connection what its place implies (`Sound`): a target that was let
  through, no deadline, not owned by an outer server that has finished, late if
  the drain has ended. `LimitExact` (`SlotsExact`), `SessionsVetted`
  (`SessionsSound`), `DrainedOnReturn` (`ReturnsDrained`), `TypeCorrect` (the
  semaphore stays within the limit, the `WaitGroup` never goes negative) and the
  action property `TunnelsWhole` follow. Each step of a connection is shown to
  keep the counts through `Counted`: a step moves one connection into, out of or
  within a set of places.
- `DnsProofs!DnsCorrect` (`DnsSound` of `Dns`): queries are forwarded with cause,
  answers pass the rebinding check and fit the client, each query is logged once,
  a daemon that is down is clean, and the counters add up (`CountersAddUp`).
  `Saw` is the strengthening for the four loads of the mode: what a handler has
  still to load, it has already seen or it is in force now. The counters are
  compared with the number of queries at each kind of station; every step moves
  one query and one counter.
- `CertsProofs!CertsCorrect` (`CertsSound` of `Certs`): a handshake is served a
  certificate of its host that was good when asked for, and the cache is bounded.
  The bound is not inductive; `Room` says that it would hold even if any of the
  handshakes that have scanned went on to delete and store at once.
- `TrustProofs!TrustGuarded` (`TrustSound` of `Trust`): past the gate a risky
  `abox.yaml` was approved at the bytes that were loaded, and what create and start
  read of the file it names was approved with it unless it was edited after it was
  hashed. `TrustIInv` follows a fingerprint from the approval to the cache, also
  through the snapshot another command wrote back.
- `TypeCorrect` in `AllowlistProofs` and `LifecycleProofs`.

Where a theorem and a run speak of one property, the run checks it on a small
instance and the theorem establishes it for all. `DnsSound`, `CertsSound` and
`TrustSound` are checked in `services` under the condition that the part is
theirs, and proved of the component by itself.

Model-checked only:

- liveness (`EventuallyInSync`, `ShutdownCompletes`, `EverythingEnds`,
  `WatchersCatchUp`) and `NeverStuck`, which uses `ENABLED`: out of the prover's
  reach;
- what the algorithms compute for every input (`Settings`, `Catalog`, `Extract`,
  `Selection`): it would take induction over data;
- `AloneSound`, which needs an invariant of the order of all steps of all
  commands; `AppliesSound` and `LeavesNothing`, which need the exact contents of
  the tables at every command; all of `Storage`;
- the safety properties of the other components in `services`.

## What the models leave out

- Allowlist: wildcard matching itself, file comments and
  order. Modification times are counters: two writes within the clock's
  granularity are told apart, which the real check cannot. Between `edit`'s
  check and its rename another writer's change is lost; the code does not claim
  otherwise and `EditCheckSound` is about the check.
- Lifecycle: one instance; legacy networks; provisioning (`Up`); the socket and
  PID handshake inside one daemon start; create's rollback is one step, since it
  runs under the lock. `start` and `stop` of one daemon are atomic.
- Egress: nobody else changes INPUT and FORWARD above abox's jump; the bound of
  100 on flushed rules; the parsing of `iptables -S` lines (only this bridge's
  rules are in the model, all with guest port 53 as `BuildEgressPolicy` sets it).
- Proxy: statistics and upstream proxies; the streams of one HTTP/2 session are
  taken one at a time. The certificate cache, the key log and the injection of
  secrets are modules of their own and are not composed with it.
- Storage: one base image; `--subnet` given by the user; owners and modes of
  the files, except for the moved disk; what start and
  stop do besides booting and stopping the VM; `migrate --all`, which is one
  migrate after another.
- Helper: the token and peer credentials, inherited descriptors, the audit log.
- Vfkit, VMware: disks, arguments of the processes, the VMware snapshot manager.
- Catalog, Seed, Bundle: checksums and archives are outcomes and sets of parts,
  not bytes.
- Not modelled at all: see the components of `PROJECT.json`.

Behaviours seen while modelling that lie outside what the properties claim, each
visible in the module named:

- Allowlist: an add of a domain that the filter still holds but the file no
  longer does saves nothing; a daemon misses changes made between its Load and
  Watch; remove of a name spelled with `*.` is answered by the canonical name.
- Lifecycle: a failed re-assertion of the filter on a running VM rolls back
  enforcement that was in force before; stop returns early when the VM is off,
  and so leaves the daemons of a start that failed closed.
- Egress: when the delete of an old redirect fails, Apply appends the new
  one behind it and answers ok; two interleaved Applies of one bridge can leave
  every rule present but an accept behind the drop, which fails closed and which
  Verify takes for complete.
- Proxy: Shutdown starts the outer server's Shutdown on a goroutine, so a handler
  may still be tracked after the wait for tracked connections began
  (`ReturnsDrained` says exactly which); an upgraded forward request outlives it.
- Dns: the mode is loaded up to four times per query, so a query that races a
  switch may be forwarded without being captured.
- Storage, Images: an image lock can be held on a file that was replaced meanwhile;
  base import replaces the file without a lock; on libvirt base import and base
  remove act on a path no other command reads (`docs/base-images.md:202`); a
  killed pull leaves a truncated image that counts as pulled.
- Catalog: `base list --json` prints an empty list when the fetch fails, even
  with images downloaded; a partial list is cached for an hour; a slow fetch may
  overwrite a newer list.
- Bundle: `--force` truncates the old archive before the new one is whole; a
  failed import of the disk leaves directories; the archive's `config.yaml` is
  never read. Extract: the total may pass the cap by one byte before the refusal.
- ConfigFile: `config.Save` writes in place and a kill leaves the file cut; a
  `config edit` and the save of a start can lose one another's change (`raced`).
- Snapshots: a virsh call that fails reads as "not running"; the guest may be
  started between check and act (`overtaken`).
- Secrets: the store has no lock; a removed secret is injected until the filter
  restarts. Tap: a second tap truncates `keys.log`, and its end stops the
  first's logging; a killed tap leaves key logging on.
- Logs: a failed reopen leaves the writer without a file; a follower that handles
  a Create after a later rotation may skip or repeat lines (`behind`).
- Monitor: a read loop that lingers may take the next VM's socket; `logEvent`
  reads the log writer without its mutex.
- Vfkit: a helper started through sudo may outlive its sudo or an aborted start
  and is then on no record.
- Helper: an escalated helper cannot be killed, so a failed start may block; a
  killed abox leaves its helper behind.
- VMware: a start killed between the registry and the save of the configuration
  boots on the old vmnet; `VM.Remove` ignores a failed delete; a failed `vmrun
  list` reads as "off", and a stop then flushes the rules of a guest that is on.
- Forwards, Mounts: `forwards.json` is rewritten without a lock; only the PID's
  liveness is checked; `abox remove` unmounts nothing.
- Doctor: the disk-free query counts as passed when it fails; the summary says all
  checks passed whatever the egress report says.

## Disagreements found

Four have a run whose counterexample shows them:

| run | what |
|---|---|
| `allowlist_stale_reload` | a reload handler that parsed before a change can replace the filter after the watcher applied the change; nothing reloads it again |
| `lifecycle_overlap` | a stop's cleanup flushes the rules of the VM that an overlapping start has booted |
| `storage_snapshot` | after `base pull` a snapshot archive imports, but its disk backs onto the image in the store, which only create copies there from the cache |
| `monitor_exits` | a monitor daemon stopped through its Shutdown RPC closes its log and API and then waits for a signal for ever |

Eleven more are stated as properties in their modules, with the comment they
contradict; TLC refutes each on the instance `MCServices` gives the component.
No run checks them.

| property | what the code does | what it says |
|---|---|---|
| `ConfigFile!SavedLoads` | `Save` does not validate, so a file can be saved that `Load` refuses (`http.allowed_ports`, blank CIDRs) | `internal/config/config.go:811` |
| `Forwards!TunnelsTracked` | the search by command line finds another instance's tunnel | `pid_linux.go:33`, "specific enough to avoid false matches" |
| `Seed!TarballVerified` | two starts share one `.download` path; the hash is of the stream, not of the file | `internal/cloudinit/tetragon.go:60` |
| `Pf!DeniedFromBoot` | `Enable` skips the reload when `pf.conf` already has the references | `internal/backend/vfkit/traffic.go:66` |
| `Pf!NeverFailOpen` | when the re-assertion on a running guest fails, the rollback empties its anchor | `internal/backend/vfkit/traffic.go:88`, "an availability blip, never a fail-open" |
| `Up!ActiveAgain` | Ctrl-C in the terminal interface abandons the work, and the deferred switch back to active never runs | `pkg/cmd/up/up.go:473` |
| `Profile!ProfileKept` | `Clear` reopens the shared file without `O_APPEND` | `internal/allowlist/profile.go:22` |
| `VMware!RunsHostOnly` | a start killed between allocation and answer file boots on a segment nobody configured | `start.go:133` |
| `Vfkit!HelperTracked` | a network helper started through sudo that an abort could not kill, or whose sudo was killed, is forgotten | `internal/vmnethelper/process.go` |
| `Vfkit!OnlyOwnSignalled` | the guard compares names, and a PID may change hands after it | `internal/childproc/supervisor.go:44`, "prevents killing an innocent process" |
| `Helper!LiveSocketKept` | the cleanup of stale sockets removes the socket of another abox's helper that has not listened on it yet | `pkg/cmd/factory/privilege.go:244` |

## Plan

Next, most important first:

1. Proofs: `SubnetsDistinct` and `NothingStranded` of `Storage`; `AppliesSound` and
   `LeavesNothing` of `Egress`; `AtRest` and `NoLeak` of `Lifecycle` for one
   client; the refinement of `Egress` to the all-or-nothing rules that
   `Lifecycle` uses, for one helper.
2. Compositions: `Helper` with `Egress`; `Pf` and `Egress` through one abstract
   specification of what enforcement promises; `Monitor` inside `Lifecycle`.
3. A `Daemon` module: the PID file, socket and process handshake that
   `Lifecycle` takes as atomic, refining its daemons.
