----------------------------- MODULE MCServices -----------------------------
(***************************************************************************)
(* Instances for TLC of the components that only safety properties are     *)
(* checked of here.  They have no state in common, so a behaviour is a     *)
(* behaviour of one of them, chosen at the beginning: they are laid over   *)
(* the same variables x1 .. x17, and `part` says whose state these are.    *)
(* The part "choice" is a question put to the operators of Selection and   *)
(* to the rules of Pf.                                                     *)
(***************************************************************************)
EXTENDS MCSamples

CONSTANTS Parts, p1, p2

\* Two processes, terminals, queries or handshakes that nothing tells apart.
Pair == {p1, p2}
Alike == Permutations(Pair)

VARIABLES part, x1, x2, x3, x4, x5, x6, x7, x8, x9, x10, x11, x12, x13, x14, x15, x16, x17

mcVars == <<part, x1, x2, x3, x4, x5, x6, x7, x8, x9, x10, x11, x12, x13, x14, x15, x16, x17>>

-----------------------------------------------------------------------------
(* The components.                                                         *)

\* Two versions of abox.yaml, one of them with settings to confirm and the name of a file
\* that has two contents or is gone.
Trust == INSTANCE Trust WITH
  yaml <- x1, file <- x2, loaded <- x3, hashed <- x4, used <- x5, swapped <- x6,
  token <- x7, tty <- x8, cache <- x9, snap <- x10, stage <- x11, approved <- x12,
  at <- x13, edits <- x14,
  Versions <- {1, 2}, Risky <- {2}, Naming <- {2}, Contents <- {1, 2}, Unreadable <- 3,
  None <- 0, MaxEdits <- 1

\* Two names, three commands, one restart and one fault.
Profile == INSTANCE Profile WITH
  mode <- x1, mem <- x2, fd <- x3, plog <- x4, cli <- x5, asked <- x6, saved <- x7,
  used <- x8,
  Domains <- {"x", "y"}, Hole <- "hole", MaxCommands <- 3, MaxRestarts <- 1, MaxFaults <- 1

\* Two provision scripts, two failing calls.
Up == INSTANCE Up WITH
  terminal <- x1, pc <- x2, cur <- x3, failed <- x4, overlay <- x5, modes <- x6,
  ran <- x7, ui <- x8, tui <- x9, lost <- x10,
  N <- 2, MaxLost <- 2

\* Two instances, two forwards that mirror each other, two terminals.
Forwards == INSTANCE Forwards WITH
  process <- x1, forwards <- x2, shell <- x3, mistaken <- x4, disturbed <- x5,
  recycled <- x6, shrugged <- x7, fwdCommands <- x8, fwdMishaps <- x9,
  Guests <- {1, 2}, TunnelPids <- {1, 2}, Shells <- Pair, Prefixes <- {},
  Mappings <- {Forward(8080, 80, FALSE), Forward(80, 8080, TRUE)},
  MaxFwdCommands <- 3, MaxFwdMishaps <- 1

\* Two instances, two mount points, two terminals.
Mounts == INSTANCE Mounts WITH
  guestUp <- x1, created <- x2, mtab <- x3, dangling <- x4, mountsJson <- x5,
  sshfs <- x6, polling <- x7, unrecorded <- x8, stale <- x9, crossedAt <- x10,
  mntSteps <- x11, Mounters <- {1, 2}, MountGuests <- {1, 2}, LocalPaths <- {"a", "b"}, MaxMntSteps <- 4

\* Two exports, an import, two mishaps.
Bundle == INSTANCE Bundle WITH
  guestOn <- x1, ver <- x2, xpc <- x3, xdisk <- x4, archive <- x5, ipc <- x6,
  manifest <- x7, got <- x8, box <- x9, swapped <- x10, cutoff <- x11, started <- x12,
  exports <- x13, bunMishaps <- x14,
  MaxBunMishaps <- 2, MaxExports <- 2, MaxWrites <- 1

\* Three commands on one configuration, one of them killed.
Config == INSTANCE ConfigFile WITH
  yaml <- x1, config <- x2, origin <- x3, starter <- x4, editor <- x5, promised <- x6,
  raced <- x7, warned <- x8, cfgSteps <- x9, cfgKills <- x10,
  Kprobes <- {"execve"}, Docs <- Docs, Redrafts <- Redrafts, Manifests <- Manifests,
  Edits <- Edits, MaxCfgSteps <- 3, MaxCfgKills <- 1

\* One snapshot name, two terminals, three commands, one write to the disk.
Snapshots == INSTANCE Snapshots WITH
  power <- x1, filtered <- x2, image <- x3, snaps <- x4, knownHosts <- x5,
  snapCmd <- x6, listed <- x7, refusedKey <- x8, overtaken <- x9, rekeyed <- x10,
  uncleared <- x11, snapCommands <- x12, snapMishaps <- x13,
  SnapNames <- {"a"}, Terminals <- Pair, MaxDiskVersions <- 1, MaxSnapCommands <- 3,
  MaxSnapMishaps <- 1

\* Two keys, two administrators, one request in flight.
Secrets == INSTANCE Secrets WITH
  httpConf <- x1, store <- x2, admin <- x3, proxyd <- x4, flight <- x5,
  promised <- x6, atStart <- x7, secCommands <- x8,
  SecretKeys <- {"k1", "k2"}, SecretValues <- {"s", "nl"}, UnfitValues <- {"nl"},
  HttpConfs <- HttpConfs, OutHeaders <- {"auth", "key"}, OutRequests <- OutRequests,
  ListedHosts <- {"api"}, Admins <- Pair, Flights <- {1}, MaxSecCommands <- 3

\* Two hosts, two handshakes at once and a cache of one certificate, over time ...
Certs == INSTANCE Certs WITH
  certs <- x1, shake <- x2, sweeping <- x3, clock <- x4,
  CertHosts <- 1 .. 2, Handshakes <- Pair, MaxCerts <- 1, Share <- 1, CertLife <- 1,
  Pace <- 2, MaxClock <- 2

\* ... and four hosts, one more than the bound on the cache, at one instant.
Crowd == INSTANCE Certs WITH
  certs <- x1, shake <- x2, sweeping <- x3, clock <- x4,
  CertHosts <- 1 .. 4, Handshakes <- Pair, MaxCerts <- 1, Share <- 1, CertLife <- 1,
  Pace <- 1, MaxClock <- 0

\* Two terminals, three taps, three sessions, one stop of the filter.
Tap == INSTANCE Tap WITH
  tap <- x1, keysLog <- x2, keyFile <- x3, open <- x4, sessions <- x5, tapsRun <- x6,
  shared <- x7, left <- x8, orphaned <- x9, filter <- x10, stops <- x11,
  Taps <- Pair, MaxTaps <- 3, MaxSessions <- 3, MaxStops <- 1

\* Two instances started at once, two releases, one without a checksum.
Seed == INSTANCE Seed WITH
  seedConf <- x1, newest <- x2, relCache <- x3, tarAt <- x4, tempAt <- x5,
  chunksOf <- x6, seeder <- x7, iso <- x8, crossed <- x9, seedRuns <- x10,
  seedFaults <- x11,
  Seeders <- Pair, Releases <- {1, 2}, Unsigned <- {2}, Probes <- {"open", "exec"},
  SeedConfs <- {SeedConf(TRUE, 8080, TRUE, 0, {}, {}), SeedConf(FALSE, 0, TRUE, 1, {"open"}, {}),
                SeedConf(FALSE, 8080, TRUE, 1, {"open"}, {"own"})},
  Chunks <- 2, MaxSeedRuns <- 2, MaxSeedFaults <- 1

\* Two commands, one publication during them, one failed request.
Catalog == INSTANCE Catalog WITH
  world <- x1, clock <- x2, past <- x3, catCache <- x4, shopper <- x5, shelf <- x6,
  releases <- x7, catRuns <- x8, catFaults <- x9,
  Shoppers <- Pair, Worlds <- Published, CatCommands <- ShopCommands,
  HostArch <- "amd64", FirstShelf <- Shelf, CacheMaxAge <- 1, FetchTime <- 0, MaxTime <- 1,
  MaxCatRuns <- 2, MaxCatFaults <- 1, MaxReleases <- 1

\* Archives of up to three entries, one more than the cap.
Extract == INSTANCE Extract WITH
  tar <- x1, entry <- x2, totalBytes <- x3, onDisk <- x4, folders <- x5, outcome <- x6,
  Kprobes <- {}, Tars <- Tars, MaxFileBytes <- 4, MaxBytes <- 6, MaxEntries <- 2

\* Two guests, two things wrong.
Doctor == INSTANCE Doctor WITH
  ills <- x1, guest <- x2, ui <- x3, phase <- x4, todo <- x5, inbox <- x6,
  results <- x7, diagram <- x8, vmIP <- x9, egress <- x10, changes <- x11,
  DocGuests <- {Guest, [Guest EXCEPT !.df = 90],
                [Guest EXCEPT !.resolved = "other", !.resolv = "ours"]}, MaxIlls <- 2

\* Two instances, six pf.conf files, two mishaps.
Pf == INSTANCE Pf WITH
  pfconf <- x1, pfstart <- x2, kmain <- x3, pfon <- x4, anchor <- x5, applied <- x6,
  guest <- x7, ppc <- x8, pread <- x9, withdrawn <- x10, ops <- x11, pmishaps <- x12,
  Boxes <- {1, 2}, MaxMishaps <- 2, MaxOps <- 2,
  Confs <- {<<"R", "A">>, <<"o", "R", "t", "A", "f">>, <<"R", "r", "A">>, <<"A", "#", "R">>,
            <<"R", "A", "a", "R">>, <<"t", "f">>}

\* Two instances, two vmnets, five commands, two mishaps.
VMware == INSTANCE VMware WITH
  reg <- x1, conf <- x2, netfile <- x3, adapter <- x4, vmx <- x5, rules <- x6,
  nic <- x7, held <- x8, task <- x9, orphans <- x10, stale <- x11, burnt <- x12,
  vmwMishaps <- x13, vmwCommands <- x14,
  Boxen <- {1, 2}, VNets <- {2, 3}, MaxVmwMishaps <- 2, MaxVmwCommands <- 5

\* Two queries at once, one change of mode and one of the allowlist.
Dns == INSTANCE Dns WITH
  daemon <- x1, ports <- x2, active <- x3, listed <- x4, flips <- x5, q <- x6,
  captured <- x7, stats <- x8, traffic <- x9,
  Queries <- Pair, Permitted <- {"private"}, MaxFlips <- 1,
  Asks <- {Ask("health", "addr", "udp", 0), Ask("a", "addr", "tcp", 0), Ask("b", "addr", "udp", 2)},
  Answers <- {Answer(FALSE, {"private"}, 2), Answer(FALSE, {"public", "loopback"}, 1),
              Answer(TRUE, {"public"}, 0)}

\* Three rotations with two backups, a writer and a follower.
Logs == INSTANCE Logs WITH
  links <- x1, dir <- x2, body <- x3, wfile <- x4, written <- x5, wstep <- x6,
  wback <- x7, lost <- x8, logged <- x9, mishaps <- x10, torn <- x11, ffile <- x12,
  fpos <- x13, fstep <- x14, events <- x15, shown <- x16, behind <- x17,
  MaxSize <- 2, MaxBackups <- 2, MaxLines <- 7, MaxMishaps <- 1,
  LinkSets <- {{}, {1}, {2}, {0}}

\* Two starts of the instance, and so two daemons, and two events.
Monitor == INSTANCE Monitor WITH
  vm <- x1, emitted <- x2, clients <- x3, eof <- x4, evlog <- x5, got <- x6,
  main <- x7, told <- x8, stopped <- x9, loop <- x10, chan <- x11, hand <- x12, refused <- x13,
  MaxStarts <- 2, MaxEvents <- 2, Buffer <- 1

\* Two abox processes with a setuid, an escalated or a given helper, two starts, one kill.
Helper == INSTANCE Helper WITH
  host <- x1, cl <- x2, try <- x3, todo <- x4, doomed <- x5, hp <- x6, via <- x7,
  stdin <- x8, sock <- x9, raced <- x10, kills <- x11,
  Clients <- Pair, MaxTries <- 2, MaxKills <- 1, Ext <- <<0, 0>>,
  Hosts <- {HostOf(TRUE, TRUE, "none"), HostOf(FALSE, FALSE, "none"),
            HostOf(TRUE, TRUE, "good"), HostOf(FALSE, FALSE, "good")}

\* Three commands on one instance, three PIDs, two mishaps.
Vfkit == INSTANCE Vfkit WITH
  proc <- x1, pidfile <- x2, defined <- x3, bridge <- x4, via <- x5, vcmd <- x6,
  vpc <- x7, fresh <- x8, vresult <- x9, victims <- x10, slip <- x11, stray <- x12,
  blind <- x13, runs <- x14, troubles <- x15,
  Pids <- {1, 2, 3}, MaxRuns <- 3, MaxTroubles <- 2

\* Three processes, three commands, one kill.
Images == INSTANCE Images WITH
  store <- x1, cached <- x2, files <- x3, lock <- x4, run <- x5, crossed <- x6,
  gone <- x7, imgRuns <- x8, imgKills <- x9,
  Procs <- {1, 2, 3}, Nobody <- 0, MaxImgRuns <- 3, MaxImgKills <- 1

Selection == INSTANCE Selection

ASSUME ServicesConstants ==
  /\ Trust!TrustAssumption /\ Profile!ProfileAssumption /\ Up!UpAssumption
  /\ Forwards!FwdAssumption /\ Mounts!MntAssumption /\ Bundle!BundleAssumption
  /\ Config!ConfigAssumption /\ Snapshots!SnapAssumption /\ Secrets!SecretsAssumption
  /\ Certs!CertsAssumption /\ Crowd!CertsAssumption /\ Tap!TapAssumption /\ Seed!SeedAssumption
  /\ Catalog!CatalogAssumption /\ Extract!ExtractAssumption /\ Doctor!DoctorAssumption
  /\ Pf!PfAssumption /\ VMware!VmwAssumption /\ Dns!DnsAssumption
  /\ Logs!LogsAssumption /\ Monitor!MonitorAssumption /\ Helper!HelperAssumption
  /\ Vfkit!VfkitAssumption /\ Images!ImagesAssumption

-----------------------------------------------------------------------------
(* What a component does not use stays 0.                                  *)

Zero16 == x16 = 0 /\ x17 = 0
Zero15 == x15 = 0 /\ Zero16
Zero14 == x14 = 0 /\ Zero15
Zero13 == x13 = 0 /\ Zero14
Zero12 == x12 = 0 /\ Zero13
Zero11 == x11 = 0 /\ Zero12
Zero10 == x10 = 0 /\ Zero11
Zero9 == x9 = 0 /\ Zero10
Zero7 == x7 = 0 /\ x8 = 0 /\ Zero9
Zero5 == x5 = 0 /\ x6 = 0 /\ Zero7
Zero3 == x3 = 0 /\ x4 = 0 /\ Zero5

Keep16 == UNCHANGED <<x16, x17>>
Keep15 == UNCHANGED <<x15>> /\ Keep16
Keep14 == UNCHANGED <<x14>> /\ Keep15
Keep13 == UNCHANGED <<x13>> /\ Keep14
Keep12 == UNCHANGED <<x12>> /\ Keep13
Keep11 == UNCHANGED <<x11>> /\ Keep12
Keep10 == UNCHANGED <<x10>> /\ Keep11
Keep9 == UNCHANGED <<x9>> /\ Keep10
Keep7 == UNCHANGED <<x7, x8>> /\ Keep9
Keep5 == UNCHANGED <<x5, x6>> /\ Keep7
Keep3 == UNCHANGED <<x3, x4>> /\ Keep5

\* The questions of the part "choice": backend registries, candidate binaries,
\* directories and sockets, storage trees, QEMU's groups, escalation tools, ports and
\* pf rulesets.
Registries ==
  UNION {[names -> [prio : 1 .. 2, exp : BOOLEAN, avail : BOOLEAN]] : names \in SUBSET (1 .. 3)}
Binaries ==
  [cands : UNION {[1 .. n -> Selection!Candidates] : n \in 0 .. 2},
   ids : [real : {"user"}, effective : {"user"}, supplementary : {{}, {"abox"}}]]
StoredEntry(kind, nlink, gmode) ==
  [kind |-> kind, nlink |-> nlink, group |-> "user", gmode |-> gmode]
Trees ==
  {<<StoredEntry("dir", 1, "none"), StoredEntry(k, 1, "none"), StoredEntry("dir", 1, "r"), e, f>> :
     k \in {"dir", "link", "file"},
     e, f \in {StoredEntry(kind, n, g) :
                 kind \in {"dir", "file", "disk", "link"}, n \in 1 .. 2, g \in {"none", "rw"}}}
Groups ==
  [conf : [group : {"", "lab"}, user : {"", "me"}],
   primary : {<<>>, "me" :> "staff", "qemu" :> "kvm", ("me" :> "staff") @@ ("qemu" :> "kvm")},
   groups : SUBSET {"lab", "libvirt-qemu", "qemu", "kvm"}]
Tools ==
  [method : {"", "sudo", "pkexec", "doas"}, display : BOOLEAN, found : SUBSET {"sudo", "pkexec"}]
Ports == [net : {"own"}, dns : {1023, 1024, 65535, 65536}, http : {80, 8080}]
Rules ==
  {Pf!PfRule(shape, "own", 8080) : shape \in Pf!PfShapes}
    \cup {Pf!PfRule("rdr", "own", 53), Pf!PfRule("pass_http", "other", 8080), Pf!PfRule("deny", "other", 0),
          Pf!PfRule("inet6", "other", 0)}
Rulesets == UNION {[1 .. n -> Rules] : n \in 0 .. 3}
Packets ==
  [v6 : BOOLEAN, src : {"own", "other", "gateway"}, dst : {"own", "other", "gateway", "world"},
   service : {"dns", "proxy", "icmp", "ssh", "web"}]

Question ==
  \/ x1 = "registry" /\ x2 \in Registries
  \/ x1 = "binaries" /\ x2 \in Binaries
  \/ x1 = "socket" /\ x2 \in [dir : Selection!Dirs, target : Selection!Targets,
                            place : Selection!Places]
  \/ x1 = "tree" /\ x2 \in Trees
  \/ x1 = "groups" /\ x2 \in Groups
  \/ x1 = "tools" /\ x2 \in Tools
  \/ x1 = "ports" /\ x2 \in Ports
  \/ x1 = "ruleset" /\ x2 \in Rulesets

Asked(kind) == part = "choice" /\ x1 = kind

-----------------------------------------------------------------------------
Init ==
  /\ part \in Parts
  /\ \/ part = "trust" /\ Trust!TrustInit /\ Zero15
     \/ part = "profile" /\ Profile!ProfileInit /\ Zero9
     \/ part = "up" /\ Up!UpInit /\ Zero11
     \/ part = "forward" /\ Forwards!FwdInit /\ Zero10
     \/ part = "mount" /\ Mounts!MntInit /\ Zero12
     \/ part = "bundle" /\ Bundle!BunInit /\ Zero15
     \/ part = "config" /\ Config!ConfigInit /\ Zero11
     \/ part = "snap" /\ Snapshots!SnapInit /\ Zero14
     \/ part = "secret" /\ Secrets!SecretsInit /\ Zero9
     \/ part = "cert" /\ Certs!CertsInit /\ Zero5
     \/ part = "crowd" /\ Crowd!CertsInit /\ Zero5
     \/ part = "tap" /\ Tap!TapInit /\ Zero12
     \/ part = "seed" /\ Seed!SeedInit /\ Zero12
     \/ part = "catalog" /\ Catalog!CatalogInit /\ x1 = 1 /\ Zero10
     \/ part = "extract" /\ Extract!ExtractInit /\ Zero7
     \/ part = "doctor" /\ Doctor!DocInit /\ Zero12
     \/ part = "pf" /\ Pf!PfInit /\ Zero13
     \/ part = "vmware" /\ VMware!VmwInit /\ Zero15
     \/ part = "dns" /\ Dns!DnsInit /\ Zero10
     \/ part = "log" /\ Logs!LogsInit
     \/ part = "mon" /\ Monitor!MonInit /\ Zero14
     \/ part = "helper" /\ Helper!HelperInit /\ Zero12
     \/ part = "vfkit" /\ Vfkit!VfInit /\ Zero16
     \/ part = "image" /\ Images!ImagesInit /\ Zero10
     \/ part = "choice" /\ Question /\ Zero3

Next ==
  \/ part = "trust" /\ Trust!TrustNext /\ UNCHANGED part /\ Keep15
  \/ part = "profile" /\ Profile!ProfileNext /\ UNCHANGED part /\ Keep9
  \/ part = "up" /\ Up!UpNext /\ UNCHANGED part /\ Keep11
  \/ part = "forward" /\ Forwards!FwdNext /\ UNCHANGED part /\ Keep10
  \/ part = "mount" /\ Mounts!MntNext /\ UNCHANGED part /\ Keep12
  \/ part = "bundle" /\ Bundle!BunNext /\ UNCHANGED part /\ Keep15
  \/ part = "config" /\ Config!ConfigNext /\ UNCHANGED part /\ Keep11
  \/ part = "snap" /\ Snapshots!SnapNext /\ UNCHANGED part /\ Keep14
  \/ part = "secret" /\ Secrets!SecretsNext /\ UNCHANGED part /\ Keep9
  \/ part = "cert" /\ Certs!CertsNext /\ UNCHANGED part /\ Keep5
  \/ part = "crowd" /\ Crowd!CertsNext /\ UNCHANGED part /\ Keep5
  \/ part = "tap" /\ Tap!TapNext /\ UNCHANGED part /\ Keep12
  \/ part = "seed" /\ Seed!SeedNext /\ UNCHANGED part /\ Keep12
  \/ part = "catalog" /\ Catalog!CatalogNext /\ UNCHANGED part /\ Keep10
  \/ part = "extract" /\ Extract!ExtractNext /\ UNCHANGED part /\ Keep7
  \/ part = "doctor" /\ Doctor!DocNext /\ UNCHANGED part /\ Keep12
  \/ part = "pf" /\ Pf!PfNext /\ UNCHANGED part /\ Keep13
  \/ part = "vmware" /\ VMware!VmwNext /\ UNCHANGED part /\ Keep15
  \/ part = "dns" /\ Dns!DnsNext /\ UNCHANGED part /\ Keep10
  \/ part = "log" /\ Logs!LogsNext /\ UNCHANGED part
  \/ part = "mon" /\ Monitor!MonNext /\ UNCHANGED part /\ Keep14
  \/ part = "helper" /\ Helper!HelperNext /\ UNCHANGED part /\ Keep12
  \/ part = "vfkit" /\ Vfkit!VfNext /\ UNCHANGED part /\ Keep16
  \/ part = "image" /\ Images!ImagesNext /\ UNCHANGED part /\ Keep10

Spec == Init /\ [][Next]_mcVars

-----------------------------------------------------------------------------
(* What each part of the system promises; the conjuncts are stated in the  *)
(* modules of its components.                                              *)

\* Past TrustBoxfile a risky abox.yaml is one the operator approved at exactly the
\* bytes that were loaded; what create and start read of the file it names was
\* approved with it, unless it was edited after it was hashed; and the cache trusts
\* no fingerprint nobody approved (TrustSound in Trust).
TrustSound ==
  part = "trust" =>
    /\ Trust!TrustTypeOK /\ Trust!TrustSound

\* What is recorded of a guest's traffic is true: a profile holds only names
\* captured in passive mode and its export the whole of it; the capture of a tap
\* that shared the instance with no other can be decrypted with the keys it left, up
\* to a stop of the filter; key logging ends with the taps, unless one was killed,
\* and with the filter (Profile, Tap).
ObservationSound ==
  /\ part = "profile" =>
       /\ Profile!ProfileTypeOK /\ Profile!CapturedOnly /\ Profile!ExportWhole
  /\ part = "tap" =>
       /\ Tap!CaptureDecryptable /\ Tap!KeyLogOff

\* When the phases of `abox up` return, each filter enforces again unless the call
\* that sets it so failed; every script called done came to its end; and the
\* checklist ticks off what was done and no more. An up that is interrupted is not
\* covered (Up).
UpSound ==
  part = "up" =>
    /\ Up!UpTypeOK /\ Up!RestoredActive /\ Up!ScriptsEnded /\ Up!ChecklistTrue

\* What runs on the host for a guest is on record, so that it can be listed and
\* ended: its tunnels in forwards.json, its sshfs mounts in mounts.json, and no
\* record is of another instance's. Excepted are commands that overlap on an
\* instance or a path or are killed, writes and signals that fail, a search that
\* finds another forward's process, and a PID that is reused (Forwards, Mounts).
HostRecordsSound ==
  /\ part = "forward" =>
       /\ Forwards!FwdTypeOK /\ Forwards!ListHonest /\ Forwards!TunnelsRecorded
  /\ part = "mount" =>
       /\ Mounts!MountsRecorded /\ Mounts!RecordsOwn

\* An archive cut short is refused before the import touches the instance; an import
\* that was not killed makes the whole instance or nothing, and reads the disk as it
\* was written unless the archive was rewritten meanwhile; an exported disk is torn
\* only in a verbatim copy, by a guest started during it; an archive that is taken is
\* taken in full, below its directory and within its limits (Bundle, Extract).
BundleSound ==
  /\ part = "bundle" =>
       /\ Bundle!WholeOrUntouched /\ Bundle!AllOrNothing /\ Bundle!DiskReadAsWritten
       /\ Bundle!UntornUnlessStarted
  /\ part = "extract" =>
       /\ Extract!TakenWhole /\ Extract!CapsHold /\ Extract!StaysBelow

\* A configuration that create saved loads again, but for a port out of range or
\* blanks around a CIDR; an instance whose configuration loads can be taken down
\* whatever became of its abox.yaml; a fresh instance shows no drift, and one without
\* drift is as declared; an edit no start overlapped is kept; no host with an injected
\* secret is tunnelled past the filter; and a box without a security summary has the
\* defaults (ConfigFile, Settings).
ConfigSound ==
  part = "config" =>
    /\ Config!ConfigTypeOK /\ Config!CreatedLoads /\ Config!TeardownReads
    /\ Config!NoFalseDrift /\ Config!DriftSeen /\ Config!NoTunnelledSecret
    /\ Config!EditKept /\ Config!QuietBox

\* A guest that runs has its egress filtered, whatever was reverted, unless a snapshot
\* or a revert acted on a guest that had been started since it was checked, or whose
\* check failed (RunsFiltered in Snapshots).
RunsFiltered == part = "snap" => Snapshots!RunsFiltered

\* A secret is put only into requests to the host and path it is pinned to, replaces
\* what the guest sent in its place, unless the path is escaped unusually, and the
\* store is whole, as the last command that succeeded wrote it; that two overlapping
\* `secrets set` keep both updates is not claimed (Secrets).
SecretsSound ==
  part = "secret" =>
    /\ Secrets!SecretPinned /\ Secrets!GuestOverridden /\ Secrets!StoreExact

\* A handshake is served a certificate of its own host that was still good, and the
\* certificate cache stays bounded (CertsSound in Certs).
CertsSound ==
  /\ part = "cert" => Certs!CertsSound
  /\ part = "crowd" => Crowd!CertsSound

\* The ISO an instance boots from is whole and has the parts its configuration asks
\* for, and the agent of a release with a published checksum is whole on it unless
\* two starts downloaded that release at once (Seed).
SeedSound ==
  part = "seed" =>
    /\ Seed!SeedComplete /\ Seed!TarballWhole

\* The image list is what the providers offer now or did within the hour, with
\* nothing supported left out as long as no request failed, sorted, each image once,
\* and the image picked is the one the label showed (Catalog).
CatalogSound ==
  part = "catalog" =>
    /\ Catalog!FreshAnswer /\ Catalog!NothingMissing /\ Catalog!AnswerSorted
    /\ Catalog!ListedOnce /\ Catalog!PickMeansLabel

\* The doctor says all is well over no skipped check, and, of an instance that did not
\* change, exactly when nothing it looks at is wrong, and draws what it found; free
\* space of the host that cannot be read passes (Doctor).
DoctorSound ==
  part = "doctor" =>
    /\ Doctor!NothingSkipped /\ Doctor!VerdictRight /\ Doctor!DiagramTrue

\* pf.conf keeps its other lines and refers to the anchors once; a guest runs behind
\* a loaded anchor, unless a failed re-assert took its rules back, and is confined
\* where nothing failed; every ruleset the generators build is accepted and closes
\* what it should, and every accepted one fails closed, if its IPv6 line names the
\* guest's own bridge (Pf).
PfSound ==
  /\ part = "pf" =>
       /\ Pf!PfTypeOK /\ Pf!ConfSound /\ Pf!AnchorBeforeBoot /\ Pf!ConfinedAtRest
  /\ Asked("ports") =>
       /\ Pf!GeneratedAccepted(x2.net, x2.dns, x2.http)
       /\ \A p \in Packets : Pf!GeneratedCloses(x2.net, x2.dns, x2.http, p)
  /\ Asked("ruleset") => \A p \in Packets : Pf!AcceptedFailsClosed(x2, "own", p)

\* No two running VMware guests share a segment or an adapter and each has its rules in
\* force, unless a remove or a stop left the guest on or config.yaml named a vmnet that
\* had been given back; a failed or ended instance gives its slot back unless abox was
\* killed or its undo failed (VMware).
VMwareSound ==
  part = "vmware" =>
    /\ VMware!VmwTypeOK /\ VMware!OwnSegment /\ VMware!RulesInForce
    /\ VMware!SlotGivenBack /\ VMware!AdapterOwned

\* A query is forwarded only with cause, its answer passes the rebinding check and
\* fits the client, it is logged once, the counters add up, and a daemon that is
\* down is clean (DnsSound in Dns).
DnsSound ==
  part = "dns" =>
    /\ Dns!DnsTypeOK /\ Dns!DnsSound

\* Rotation keeps the order and, while no write or rename fails half-way, the newest
\* lines within the bound on disk; a follower that keeps up shows each line once; an
\* event is logged at most once and in order, and a monitor that is not told to stop
\* drops none but those logEvent gives up (Logs, Monitor).
LogsSound ==
  /\ part = "log" =>
       /\ Logs!LogsTypeOK /\ Logs!OrderKept /\ Logs!TailKept /\ Logs!DiskBounded
       /\ Logs!FollowExact
  /\ part = "mon" =>
       /\ Monitor!MonTypeOK /\ Monitor!LoggedOnceInOrder /\ Monitor!NothingDropped

\* An abox process has at most one helper, closes it cleanly, does not unlink the
\* socket another one's helper served on when it was tested, and never prompts when
\* told to be quiet; a binary other than the running one that it runs as root is
\* root's, and backends, tools, socket directories, groups and storage are chosen as
\* each property of Selection says (Helper, Selection).
PrivilegeSound ==
  /\ part = "helper" =>
       /\ Helper!HelperTypeOK /\ Helper!OneHelper /\ Helper!ClosedClean
       /\ Helper!SocketKept /\ Helper!QuietNeverPrompts
  /\ Asked("registry") =>
       /\ Selection!AutoDetectBest(x2) /\ Selection!ExperimentalByName(x2)
       /\ Selection!RecordedKept(x2)
  /\ Asked("binaries") => Selection!PrivilegedByRoot(x2.cands, x2.ids)
  /\ Asked("socket") => Selection!SocketDirsAgree(x2.dir, x2.target, x2.place)
  /\ Asked("tree") => Selection!ProvisionConverges(x2)
  /\ Asked("groups") => Selection!QEMUGroupKnown(x2.conf, x2.primary, x2.groups)
  /\ Asked("tools") => Selection!ToolFound(x2.method, x2.display, x2.found)

\* The supervisor signals an unrelated process only if it took the PID between the
\* look and the signal, tracks the one VM it runs, leaves no VM behind a failed start
\* or a stop, knows the bridge it filters, and reports the VM's state unless another
\* instance's vfkit has the PID; it reclaims and stops a helper of the user's own.
\* All but the first and the bridge: unless abox was killed between a fork and its
\* PID file (Vfkit).
VfkitSound ==
  part = "vfkit" =>
    /\ Vfkit!VfTypeOK /\ Vfkit!NoInnocentSignalled /\ Vfkit!OneTrackedVM
    /\ Vfkit!HelperReclaimable /\ Vfkit!FailClosed /\ Vfkit!BridgeKnown
    /\ Vfkit!StopSynchronous /\ Vfkit!StateTrue

\* A create that has the lock of the stored base image finds it when it clones it,
\* unless the file was replaced by who had not locked it (Images).
CloneSourced == part = "image" => Images!CloneSourced

\* What a step may never do: `config edit` turn a configuration that loads into one
\* that does not, or shrink a disk (ConfigFile); a revert be refused but for cause,
\* keep a host key the guest no longer has, or touch a running guest (Snapshots).
StepsSound ==
  [][/\ part = "config" => Config!KeepsLoadable /\ Config!KeepsDisk
     /\ part = "snap" => Snapshots!RefusesForCause /\ Snapshots!RevertsStopped]_mcVars
=============================================================================
