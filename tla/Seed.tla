------------------------------- MODULE Seed --------------------------------
(***************************************************************************)
(* The cloud-init ISO `abox start` makes for the guest's first boot        *)
(* (generateCloudInit, internal/cloudinit), with what its contributors put *)
(* on it: the DNS set-up, the proxy and the CA certificate, and for a      *)
(* monitored instance the Tetragon policies and the Tetragon tarball. The  *)
(* tarball is fetched into a cache all instances share                     *)
(* (internal/tetragon, internal/cloudinit/tetragon.go), and the starts of  *)
(* two instances do so at once: the lock a start holds is its instance's.  *)
(*                                                                         *)
(* A tarball is its chunks 1..Chunks; a file in the cache is the set of    *)
(* chunks it holds. Paths and files are kept apart, since a download goes  *)
(* on writing to a file another start has renamed or removed. The text of  *)
(* the YAML is left out: the ISO is the set of the parts on it.            *)
(***************************************************************************)
EXTENDS Naturals, FiniteSets

CONSTANTS
    Seeders,        \* instances being started
    Releases,       \* Tetragon releases, 1 the oldest
    Unsigned,       \* the releases published without a checksum
    SeedConfs,      \* what config.yaml may say
    Probes,         \* curated kprobes, all of them in the default set
    Chunks,         \* chunks of a tarball
    MaxSeedRuns,    \* bound on the starts
    MaxSeedFaults   \* bound on kills, network failures and damaged downloads

\* What the constants must be.
SeedAssumption ==
    /\ Releases \subseteq Nat \ {0} /\ 1 \in Releases
    /\ Unsigned \subseteq Releases
    /\ Chunks \in Nat \ {0} /\ MaxSeedRuns \in Nat /\ MaxSeedFaults \in Nat

VARIABLES
    seedConf,   \* of each instance: [mitm, port, monitored, want, probes, policies];
                \* create makes the CA certificate exactly when mitm is on
    newest,     \* the release GitHub calls latest
    relCache,   \* tetragon-release.json: [state, release, fresh]
    tarAt,      \* release -> the file of its tarball in the cache, or NoFileYet
    tempAt,     \* release -> the file at its ".download" path
    chunksOf,   \* the chunks a file holds
    seeder,     \* the starts
    iso,        \* the installed ISO of each instance, NoIso before the first
    crossed,    \* history: the releases two downloads of which have overlapped since
                \* a start last ran alone
    seedRuns, seedFaults

seedVars == <<seedConf, newest, relCache, tarAt, tempAt, chunksOf, seeder, iso,
              crossed, seedRuns, seedFaults>>
cacheVars == <<newest, relCache, tarAt, tempAt, chunksOf>>

NoFileYet == 0
Latest == 0
SeedFiles == 1..(2 * Cardinality(Releases) + Cardinality(Seeders))
NoIso == [there |-> FALSE]
Resting0 == [pc |-> "idle", release |-> Latest, file |-> NoFileYet, at |-> 0,
             spoilt |-> FALSE, then |-> "idle", iso |-> NoIso]

SeedInit ==
    /\ seedConf \in [Seeders -> SeedConfs]
    /\ newest = 1
    /\ relCache = [state |-> "none", release |-> 1, fresh |-> FALSE]
    /\ tarAt = [r \in Releases |-> NoFileYet]
    /\ tempAt = [r \in Releases |-> NoFileYet]
    /\ chunksOf = [f \in SeedFiles |-> {}]
    /\ seeder = [s \in Seeders |-> Resting0]
    /\ iso = [s \in Seeders |-> NoIso]
    /\ crossed = {}
    /\ seedRuns = 0 /\ seedFaults = 0

SeedAt(s, pc) == seeder[s].pc = pc
SeedTo(s, pc) == seeder' = [seeder EXCEPT ![s].pc = pc]
SeedFault == seedFaults < MaxSeedFaults /\ seedFaults' = seedFaults + 1
Idle0(s) == seeder' = [seeder EXCEPT ![s] = Resting0]
Signed(r) == r \notin Unsigned

\* The world: a new release is published, and the cached answer ages.
Publish ==
    /\ newest + 1 \in Releases /\ newest' = newest + 1
    /\ UNCHANGED <<seedConf, relCache, tarAt, tempAt, chunksOf, seeder, iso, crossed,
                   seedRuns, seedFaults>>
CacheAges ==
    /\ relCache.fresh /\ relCache' = [relCache EXCEPT !.fresh = FALSE]
    /\ UNCHANGED <<seedConf, newest, tarAt, tempAt, chunksOf, seeder, iso, crossed,
                   seedRuns, seedFaults>>

-----------------------------------------------------------------------------
(* The release to use.                                                     *)

generateCloudInit(s) ==
    /\ SeedAt(s, "idle") /\ seedRuns < MaxSeedRuns /\ seedRuns' = seedRuns + 1
    /\ SeedTo(s, IF seedConf[s].monitored THEN "release" ELSE "build")
    /\ crossed' = IF \E t \in Seeders \ {s} : ~SeedAt(t, "idle") THEN crossed ELSE {}
    /\ UNCHANGED <<seedConf, cacheVars, iso, seedFaults>>

\* A pinned version is asked of GitHub every time.
fetchVersion(s) ==
    /\ SeedAt(s, "release") /\ seedConf[s].want # Latest
    /\ \/ /\ seedConf[s].want <= newest
          /\ seeder' = [seeder EXCEPT ![s].pc = "check", ![s].release = seedConf[s].want]
          /\ UNCHANGED seedFaults
       \/ /\ seedConf[s].want > newest /\ Idle0(s) /\ UNCHANGED seedFaults
       \/ SeedFault /\ Idle0(s)
    /\ UNCHANGED <<seedConf, cacheVars, iso, crossed, seedRuns>>

\* loadCache: an answer that is whole; GetRelease takes a fresh one as it is.
loadCache(fresh) == relCache.state = "whole" /\ (fresh => relCache.fresh)

\* The latest one comes from the cache while it is fresh, from GitHub when it
\* is not, and from a stale cache when GitHub cannot be reached.
GetRelease(s) ==
    /\ SeedAt(s, "release") /\ seedConf[s].want = Latest
    /\ \/ /\ loadCache(TRUE)
          /\ seeder' = [seeder EXCEPT ![s].pc = "check", ![s].release = relCache.release]
          /\ UNCHANGED seedFaults
       \/ /\ ~loadCache(TRUE)
          /\ seeder' = [seeder EXCEPT ![s].pc = "save", ![s].release = newest]
          /\ UNCHANGED seedFaults
       \/ /\ ~loadCache(TRUE) /\ SeedFault
          /\ IF loadCache(FALSE)
               THEN seeder' = [seeder EXCEPT ![s].pc = "check",
                                             ![s].release = relCache.release]
               ELSE Idle0(s)
    /\ UNCHANGED <<seedConf, cacheVars, iso, crossed, seedRuns>>

\* saveCache truncates the file and writes it.
TruncateCache(s) ==
    /\ SeedAt(s, "save")
    /\ relCache' = [relCache EXCEPT !.state = "cut"]
    /\ SeedTo(s, "saving")
    /\ UNCHANGED <<seedConf, newest, tarAt, tempAt, chunksOf, iso, crossed, seedRuns,
                   seedFaults>>
saveCache(s) ==
    /\ SeedAt(s, "saving")
    /\ relCache' = [state |-> "whole", release |-> seeder[s].release, fresh |-> TRUE]
    /\ SeedTo(s, "check")
    /\ UNCHANGED <<seedConf, newest, tarAt, tempAt, chunksOf, iso, crossed, seedRuns,
                   seedFaults>>

-----------------------------------------------------------------------------
(* The tarball.                                                            *)

Whole0(f) == f # NoFileYet /\ chunksOf[f] = 1..Chunks

\* EnsureTetragonCached: a tarball in the cache that has the published
\* checksum is used; without one to compare, it is downloaded again.
checkTetragonCached(s) ==
    LET r == seeder[s].release
    IN  /\ SeedAt(s, "check")
        /\ SeedTo(s, IF Signed(r) /\ Whole0(tarAt[r]) THEN "build" ELSE "create")
        /\ UNCHANGED <<seedConf, cacheVars, iso, crossed, seedRuns, seedFaults>>

\* The files something still refers to.
InUse == {tarAt[r] : r \in Releases} \cup {tempAt[r] : r \in Releases}
           \cup {seeder[s].file : s \in Seeders}
NewFile == CHOOSE f \in SeedFiles \ InUse : TRUE

Downloads(r) == {t \in Seeders : seeder[t].pc \in {"copy", "rename", "cleanup"}
                                 /\ seeder[t].release = r}

\* downloadTetragon creates the ".download" file, or truncates the one there.
CreateDownload(s) ==
    LET r == seeder[s].release
        f == IF tempAt[r] # NoFileYet THEN tempAt[r] ELSE NewFile
    IN  /\ SeedAt(s, "create")
        /\ tempAt' = [tempAt EXCEPT ![r] = f]
        /\ chunksOf' = [chunksOf EXCEPT ![f] = {}]
        /\ seeder' = [seeder EXCEPT ![s].pc = "copy", ![s].file = f, ![s].at = 0,
                                    ![s].spoilt = FALSE]
        /\ crossed' = IF Downloads(r) # {} THEN crossed \cup {r} ELSE crossed
        /\ UNCHANGED <<seedConf, newest, relCache, tarAt, iso, seedRuns, seedFaults>>

\* downloadToFile: a chunk of the stream goes to the file and to the hash, as
\* it was published or damaged.
downloadToFile(s) ==
    /\ SeedAt(s, "copy") /\ seeder[s].at < Chunks
    /\ \/ /\ chunksOf' = [chunksOf EXCEPT ![seeder[s].file] = @ \cup {seeder[s].at + 1}]
          /\ seeder' = [seeder EXCEPT ![s].at = @ + 1]
          /\ UNCHANGED seedFaults
       \/ /\ SeedFault
          /\ chunksOf' = [chunksOf EXCEPT ![seeder[s].file] = @ \ {seeder[s].at + 1}]
          /\ seeder' = [seeder EXCEPT ![s].at = @ + 1, ![s].spoilt = TRUE]
    /\ UNCHANGED <<seedConf, newest, relCache, tarAt, tempAt, iso, crossed, seedRuns>>

\* verifyChecksum compares the hash of the stream with the published one.
verifyChecksum(s) ==
    /\ SeedAt(s, "copy") /\ seeder[s].at = Chunks
    /\ seeder' = IF Signed(seeder[s].release) /\ seeder[s].spoilt
                 THEN [seeder EXCEPT ![s].pc = "cleanup", ![s].then = "idle"]
                 ELSE [seeder EXCEPT ![s].pc = "rename"]
    /\ UNCHANGED <<seedConf, cacheVars, iso, crossed, seedRuns, seedFaults>>

\* The file at the ".download" path takes the tarball's place, if one is there.
RenameDownload(s) ==
    LET r == seeder[s].release
    IN  /\ SeedAt(s, "rename")
        /\ IF tempAt[r] # NoFileYet
             THEN /\ tarAt' = [tarAt EXCEPT ![r] = tempAt[r]]
                  /\ tempAt' = [tempAt EXCEPT ![r] = NoFileYet]
                  /\ seeder' = [seeder EXCEPT ![s].pc = "cleanup", ![s].then = "build"]
             ELSE /\ seeder' = [seeder EXCEPT ![s].pc = "cleanup", ![s].then = "idle"]
                  /\ UNCHANGED <<tarAt, tempAt>>
        /\ UNCHANGED <<seedConf, newest, relCache, chunksOf, iso, crossed, seedRuns, seedFaults>>

\* The request or the copy fails.
DownloadFails(s) ==
    /\ seeder[s].pc \in {"create", "copy"} /\ SeedFault
    /\ seeder' = [seeder EXCEPT ![s].pc = "cleanup", ![s].then = "idle"]
    /\ UNCHANGED <<seedConf, cacheVars, iso, crossed, seedRuns>>

\* The deferred removal of the ".download" path, whosever file is there.
RemoveDownload(s) ==
    /\ SeedAt(s, "cleanup")
    /\ tempAt' = [tempAt EXCEPT ![seeder[s].release] = NoFileYet]
    /\ seeder' = [seeder EXCEPT ![s] =
                    IF seeder[s].then = "idle" THEN Resting0
                    ELSE [Resting0 EXCEPT !.pc = "build", !.release = seeder[s].release]]
    /\ UNCHANGED <<seedConf, newest, relCache, tarAt, chunksOf, iso, crossed, seedRuns,
                   seedFaults>>

-----------------------------------------------------------------------------
(* The ISO.                                                                *)

\* DNSContributor: the boot commands that point the guest at the gateway.
DNSParts(c) == {"dns"}

\* ProxyContributor: the CA certificate when there is one, the proxy settings
\* once the filter has a port.
ProxyParts(c) == (IF c.mitm THEN {"ca"} ELSE {}) \cup (IF c.port > 0 THEN {"proxy"} ELSE {})

\* MUTANT of MonitorParts: the default kprobes are left out when custom
\* kprobes are absent.
MonitorPartsBare(c) ==
    IF ~c.monitored THEN {} ELSE {"agent"} \cup c.policies \cup c.probes

\* RenderPerKrobePolicies: one policy for each kprobe, the default ones when
\* none are named. (An empty list in abox.yaml is one that names none:
\* config.yaml does not keep it.)
RenderPerKrobePolicies(probes) == IF probes = {} THEN Probes ELSE probes

\* monitor.CloudInitContributor: custom policy files replace the kprobes.
MonitorParts(c) ==
    IF ~c.monitored THEN {}
    ELSE {"agent"} \cup (IF c.policies # {} THEN c.policies
                                            ELSE RenderPerKrobePolicies(c.probes))

assemble(c) == DNSParts(c) \cup ProxyParts(c) \cup MonitorParts(c)

\* CreateISO collects the parts, with the tarball as it is in the cache now; the
\* ISO tool then writes them to a temporary file beside the instance's ISO.
CreateISO(s) ==
    LET r == seeder[s].release
    IN  /\ SeedAt(s, "build")
        /\ seedConf[s].monitored => tarAt[r] # NoFileYet
        /\ seeder' = [seeder EXCEPT ![s].pc = "burn", ![s].iso =
             [there |-> TRUE, parts |-> assemble(seedConf[s]), release |-> r,
              chunks |-> IF seedConf[s].monitored THEN chunksOf[tarAt[r]] ELSE {},
              crossed |-> r \in crossed, whole |-> FALSE]]
        /\ UNCHANGED <<seedConf, cacheVars, iso, crossed, seedRuns, seedFaults>>

BurnISO(s) ==
    /\ SeedAt(s, "burn")
    /\ seeder' = [seeder EXCEPT ![s].pc = "install", ![s].iso.whole = TRUE]
    /\ UNCHANGED <<seedConf, cacheVars, iso, crossed, seedRuns, seedFaults>>

\* GenerateAndInstall renames it over the instance's ISO.
InstallISO(s) ==
    /\ SeedAt(s, "install")
    /\ iso' = [iso EXCEPT ![s] = seeder[s].iso]
    /\ Idle0(s)
    /\ UNCHANGED <<seedConf, cacheVars, crossed, seedRuns, seedFaults>>

\* The ISO tool fails, a value does not pass its check, or abox is killed.
StartDies(s) ==
    /\ ~SeedAt(s, "idle") /\ SeedFault
    /\ Idle0(s)
    /\ UNCHANGED <<seedConf, cacheVars, iso, crossed, seedRuns>>

SeedNext ==
    \/ Publish \/ CacheAges
    \/ \E s \in Seeders :
         \/ generateCloudInit(s) \/ fetchVersion(s) \/ GetRelease(s)
         \/ TruncateCache(s) \/ saveCache(s) \/ checkTetragonCached(s)
         \/ CreateDownload(s) \/ downloadToFile(s) \/ verifyChecksum(s)
         \/ RenameDownload(s) \/ DownloadFails(s) \/ RemoveDownload(s)
         \/ CreateISO(s) \/ BurnISO(s) \/ InstallISO(s) \/ StartDies(s)

-----------------------------------------------------------------------------
(* Properties.                                                             *)

Installed == {s \in Seeders : iso[s].there}

\* The ISO an instance boots from is whole at every moment, whatever start was
\* killed or failed: it holds the DNS set-up, the CA certificate exactly when the
\* proxy intercepts, the proxy settings exactly when the filter has a port, and
\* exactly for a monitored instance the agent, with the custom policies alone
\* when there are any, or else the chosen kprobes or, when none is named, all of
\* them; and the release on it is the pinned one (GenerateAndInstall: "a failed generation leaves the
\* previous (still valid) ISO in place").
SeedComplete ==
    \A s \in Installed :
        LET c == seedConf[s]
        IN  /\ iso[s].whole
            /\ "dns" \in iso[s].parts
            /\ ("ca" \in iso[s].parts) <=> c.mitm
            /\ ("proxy" \in iso[s].parts) <=> c.port > 0
            /\ ("agent" \in iso[s].parts) <=> c.monitored
            /\ c.monitored =>
                 LET rules == iso[s].parts \cap (Probes \cup c.policies) IN
                 /\ c.policies # {} => rules = c.policies
                 /\ c.policies = {} /\ c.probes # {} => rules = c.probes
                 /\ c.policies = {} /\ c.probes = {} => rules = Probes
                 /\ c.want # Latest => iso[s].release = c.want

\* A tarball of a release with a checksum is on the ISO whole, whatever the
\* downloads before it left in the cache, unless two downloads of that release
\* overlapped (EnsureTetragonCached).
TarballWhole ==
    \A s \in Installed :
        (seedConf[s].monitored /\ Signed(iso[s].release) /\ ~iso[s].crossed)
            => iso[s].chunks = 1..Chunks

\* The same without the exception: downloadTetragon "downloads the Tetragon
\* tarball with progress and verifies checksum".
TarballVerified ==
    \A s \in Installed :
        (seedConf[s].monitored /\ Signed(iso[s].release)) => iso[s].chunks = 1..Chunks
=============================================================================
