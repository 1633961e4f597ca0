------------------------------ MODULE Storage ------------------------------
(***************************************************************************)
(* The instances of one user on the libvirt backend: their configurations  *)
(* and subnets, networks, domains and disks, and the base image their      *)
(* disks back onto.  The commands create, import, remove, migrate, prune   *)
(* and base pull/import/remove run as processes that share the files.  The *)
(* config lock (an flock) serialises the first four; the others do not     *)
(* take it.  An image may be in three places: the user's cache, the store  *)
(* of the backend, and <base>/disks/base, which base import and base       *)
(* remove use (config.GetPaths("")) and no other command of this backend   *)
(* reads.  A step may fail, and a process may be killed between or during  *)
(* steps.  How base remove and create share one file on the backends whose *)
(* store is <base>/disks is in Images.                                     *)
(***************************************************************************)
EXTENDS Naturals, FiniteSets

CONSTANTS
  Procs,        \* CLI processes
  Names,        \* instance names
  Legacy,       \* the names configured at first, on legacy storage
  Subnets,      \* the /24s of the pool that the host does not route
  None,         \* no subnet; no holder of a lock
  Commands,     \* the commands that are issued
  CrossDevice,  \* may the legacy directory be on another file system?
  MaxCmds,      \* bound on the commands issued
  MaxFaults,    \* bound on the steps that fail
  MaxKills      \* bound on the processes killed

AllCommands == {"create", "import", "snapimport", "remove", "migrate",
                "prune", "pull", "baseimport", "baserm"}

ASSUME StorageAssumption ==
  /\ None \notin Procs /\ None \notin Subnets
  /\ Legacy \subseteq Names
  /\ Cardinality(Legacy) <= Cardinality(Subnets)
  /\ Commands \subseteq AllCommands
  /\ CrossDevice \subseteq BOOLEAN
  /\ MaxCmds \in Nat /\ MaxFaults \in Nat /\ MaxKills \in Nat

VARIABLES
  config,   \* config.yaml of each name: absent, torn (unreadable), or saved
  net,      \* the subnet of the name's libvirt network, or None
  dom,      \* the names with a libvirt domain
  up,       \* the names whose VM runs
  disk,     \* the disk directory in per-user storage
  old,      \* the disk directory in legacy storage: none, partial, whole
  cache,    \* the base image in the user's cache: none, partial, whole
  tmp,      \* the download file of base pull, one path for every pull
  store,    \* the base image in the backend's store, LibvirtStorageDir()/base
  homed,    \* is there an image of that name in GetPaths("").BaseImages?
  lock,     \* the holder of the config lock
  run,      \* what each process is doing
  cmds, faults, kills,
  lost,     \* history: names whose network or domain escaped its config
  cut       \* history: an image was written or copied by halves

vars == <<config, net, dom, up, disk, old, cache, tmp, store, homed, lock,
          run, cmds, faults, kills, lost, cut>>

instVars == <<config, net, dom, up, disk, old>>
imageVars == <<cache, tmp, store, homed>>
histVars == <<lost, cut>>

Absent == [subnet |-> None, kind |-> "absent"]
Torn == [subnet |-> None, kind |-> "torn"]
Saved(s, kind) == [subnet |-> s, kind |-> kind]
Readable(n) == config[n].kind \in {"user", "legacy"}

NoDisk == [st |-> "none", back |-> "none", by |-> "none"]
Disk(st, back, by) == [st |-> st, back |-> back, by |-> by]

File == {"none", "partial", "whole"}

(* A process: where it is (pc), its command and instance, the subnet of the
   Instance it holds in memory, what it has made (for the rollback), whether
   its open descriptor is still the file at the path, and prune's list. *)
Idle == [pc |-> "idle", cmd |-> "none", n |-> CHOOSE n \in Names : TRUE,
         s |-> None, made |-> {}, fd |-> "none", left |-> {}]

At(p, pc) == run[p].pc = pc
Goto(p, pc) == run' = [run EXCEPT ![p].pc = pc]

(* A command returns: deferred unlocks run.  prune goes on with its list. *)
Finished(p) == IF run[p].cmd = "prune"
               THEN [run[p] EXCEPT !.pc = "pr_next", !.fd = "none"]
               ELSE Idle
Return(p) == /\ run' = [run EXCEPT ![p] = Finished(p)]
             /\ lock' = IF lock = p THEN None ELSE lock

(* The failed command undoes what it has made, still under the lock. *)
Undo(p) == Goto(p, IF run[p].cmd = "create" THEN "un_disk" ELSE "un_net")
           /\ UNCHANGED lock

---------------------------------------------------------------------------
\* MUTANT of UsedInstanceSubnets: legacy instances are passed over.
UsedUserSubnets == {config[n].subnet : n \in {m \in Names : config[m].kind = "user"}}

(* Subnets: the first of the pool that no readable configuration records. *)
UsedInstanceSubnets == {config[n].subnet : n \in {m \in Names : Readable(m)}}
AllocateSubnet == Subnets \ UsedInstanceSubnets

(* config.Save truncates and writes in place. *)
Save(n, c) == config' = [config EXCEPT ![n] = c]

(* A file is unlinked or replaced: the descriptors that processes at these
   steps opened before are no longer the file at the path. *)
Stale(r, pcs) == [q \in Procs |-> IF r[q].pc \in pcs /\ r[q].fd = "live"
                                  THEN [r[q] EXCEPT !.fd = "stale"] ELSE r[q]]

---------------------------------------------------------------------------
(* create *)

CreateEnter(p) ==
  /\ At(p, "cr_lock") /\ lock = None
  /\ IF config[run[p].n] # Absent
     THEN Return(p)
     ELSE lock' = p /\ Goto(p, "cr_save")
  /\ UNCHANGED <<instVars, imageVars, histVars>>

initInstance(p) ==
  /\ At(p, "cr_save")
  /\ \/ \E s \in AllocateSubnet :
          /\ Save(run[p].n, Saved(s, "user"))
          /\ run' = [run EXCEPT ![p].pc = "cr_files", ![p].s = s,
                                ![p].made = {"config"}]
          /\ UNCHANGED lock
     \/ AllocateSubnet = {} /\ Return(p) /\ UNCHANGED config
  /\ UNCHANGED <<net, dom, up, disk, old, imageVars, histVars>>

(* SSH key, CA certificate, allowlist. *)
CreateFiles(p) ==
  /\ At(p, "cr_files") /\ Goto(p, "cr_net")
  /\ UNCHANGED <<instVars, imageVars, lock, histVars>>

(* net-define is refused when a network of that name is left from before. *)
NetworkCreate(p, pc, next) ==
  /\ At(p, pc)
  /\ IF net[run[p].n] = None
     THEN /\ net' = [net EXCEPT ![run[p].n] = run[p].s]
          /\ run' = [run EXCEPT ![p].pc = next, ![p].made = @ \cup {"net"}]
          /\ UNCHANGED lock
     ELSE Undo(p) /\ UNCHANGED net
  /\ UNCHANGED <<config, dom, up, disk, old, imageVars, histVars>>

(* net-start is refused when another bridge has the subnet. *)
NetworkStart(p) ==
  /\ At(p, "cr_start")
  /\ \/ Goto(p, "cr_base") /\ UNCHANGED lock
     \/ /\ \E m \in Names \ {run[p].n} : net[m] = run[p].s
        /\ Undo(p)
  /\ UNCHANGED <<instVars, imageVars, histVars>>

(* The copy is atomic, but of whatever the cache holds. *)
EnsureBaseImage(p) ==
  /\ At(p, "cr_base")
  /\ CASE store # "none" -> Goto(p, "cr_disk") /\ UNCHANGED <<store, lock, cut>>
       [] store = "none" /\ cache # "none" ->
            /\ store' = cache /\ Goto(p, "cr_disk")
            /\ cut' = (cut \/ cache = "partial")
            /\ UNCHANGED lock
       [] OTHER -> Undo(p) /\ UNCHANGED <<store, cut>>
  /\ UNCHANGED <<instVars, cache, tmp, homed, lost>>

(* Disk.Create: a shared lock on the stored image, which no command locks
   exclusively, and a disk that backs onto it. *)
DiskCreate(p) ==
  /\ At(p, "cr_disk")
  /\ disk' = [disk EXCEPT ![run[p].n] = Disk("whole", "store", "create")]
  /\ run' = [run EXCEPT ![p].pc = "vm", ![p].made = @ \cup {"disk"}]
  /\ UNCHANGED <<config, net, dom, up, old, imageVars, lock, histVars>>

(* The last step of create and of import: the domain is defined. *)
VMCreate(p) ==
  /\ At(p, "vm")
  /\ IF run[p].n \in dom
     THEN Undo(p) /\ UNCHANGED dom
     ELSE dom' = dom \cup {run[p].n} /\ Return(p)
  /\ UNCHANGED <<config, net, up, disk, old, imageVars, histVars>>

---------------------------------------------------------------------------
(* import: the disk comes first, the configuration is saved after it. *)

Snapshot(p) == run[p].cmd = "snapimport"

ImportEnter(p) ==
  /\ At(p, "im_lock") /\ lock = None
  /\ IF \/ config[run[p].n] # Absent
        \/ Snapshot(p) /\ store = "none" /\ cache = "none"
        \/ AllocateSubnet = {}
     THEN Return(p)
     ELSE /\ lock' = p
          /\ \E s \in AllocateSubnet :
               run' = [run EXCEPT ![p].pc = "im_disk", ![p].s = s]
  /\ UNCHANGED <<instVars, imageVars, histVars>>

(* A snapshot is copied and then rebased onto the stored image's path,
   whether or not there is a file at it; no image lock is taken. *)
DiskImport(p) ==
  /\ At(p, "im_disk")
  /\ disk' = [disk EXCEPT ![run[p].n] =
                Disk("whole", IF Snapshot(p) THEN "store" ELSE "none", "import")]
  /\ run' = [run EXCEPT ![p].pc = "im_files", ![p].made = {"disk"}]
  /\ UNCHANGED <<config, net, dom, up, old, imageVars, lock, histVars>>

ImportFiles(p) ==
  /\ At(p, "im_files") /\ Goto(p, "im_save")
  /\ UNCHANGED <<instVars, imageVars, lock, histVars>>

ImportSave(p) ==
  /\ At(p, "im_save")
  /\ Save(run[p].n, Saved(run[p].s, "user"))
  /\ run' = [run EXCEPT ![p].pc = "im_net", ![p].made = @ \cup {"config"}]
  /\ UNCHANGED <<net, dom, up, disk, old, imageVars, lock, histVars>>

---------------------------------------------------------------------------
(* The rollbacks.  create: disk, network, instance data.  import: network,
   disk, instance data.  Failures of the rollback's own steps are ignored. *)

UndoDisk(p) ==
  /\ At(p, "un_disk")
  /\ disk' = [disk EXCEPT ![run[p].n] = IF "disk" \in run[p].made THEN NoDisk ELSE @]
  /\ Goto(p, IF run[p].cmd = "create" THEN "un_net" ELSE "un_config")
  /\ UNCHANGED <<config, net, dom, up, old, imageVars, lock, histVars>>

UndoNet(p) ==
  /\ At(p, "un_net")
  /\ net' = [net EXCEPT ![run[p].n] = IF "net" \in run[p].made THEN None ELSE @]
  /\ Goto(p, IF run[p].cmd = "create" THEN "un_config" ELSE "un_disk")
  /\ UNCHANGED <<config, dom, up, disk, old, imageVars, lock, histVars>>

(* create deletes its data when the save succeeded, import when it has
   made a disk. *)
UndoConfig(p) ==
  /\ At(p, "un_config")
  /\ config' = [config EXCEPT ![run[p].n] = IF run[p].made # {} THEN Absent ELSE @]
  /\ Goto(p, "failed")
  /\ UNCHANGED <<net, dom, up, disk, old, imageVars, lock, histVars>>

Failed(p) ==
  /\ At(p, "failed") /\ Return(p)
  /\ UNCHANGED <<instVars, imageVars, histVars>>

---------------------------------------------------------------------------
(* remove: the configuration is loaded, then the lock is awaited; nothing is
   loaded again.  It is also how prune removes an instance. *)

RemoveLoad(p) ==
  /\ At(p, "rm_load")
  /\ IF config[run[p].n].kind = "user"
     THEN Goto(p, "rm_lock") /\ UNCHANGED lock
     ELSE Return(p)
  /\ UNCHANGED <<instVars, imageVars, histVars>>

RemoveEnter(p) ==
  /\ At(p, "rm_lock") /\ lock = None
  /\ lock' = p /\ Goto(p, "rm_vm")
  /\ UNCHANGED <<instVars, imageVars, histVars>>

\* MUTANT of RemoveVM: the network is left to a later clean-up.
RemoveVMOnly(p) ==
  /\ At(p, "rm_vm")
  /\ dom' = dom \ {run[p].n} /\ up' = up \ {run[p].n}
  /\ Goto(p, "rm_config")
  /\ UNCHANGED <<config, net, disk, old, imageVars, lock, histVars>>

(* undefine --remove-all-storage deletes the disk if libvirt manages it. *)
RemoveVM(p) ==
  /\ At(p, "rm_vm")
  /\ dom' = dom \ {run[p].n} /\ up' = up \ {run[p].n}
  /\ \/ disk' = disk
     \/ run[p].n \in dom /\ disk' = [disk EXCEPT ![run[p].n] = NoDisk]
  /\ Goto(p, "rm_net")
  /\ UNCHANGED <<config, net, old, imageVars, lock, histVars>>

RemoveNet(p) ==
  /\ At(p, "rm_net")
  /\ net' = [net EXCEPT ![run[p].n] = None]
  /\ Goto(p, "rm_config")
  /\ UNCHANGED <<config, dom, up, disk, old, imageVars, lock, histVars>>

RemoveConfig(p) ==
  /\ At(p, "rm_config")
  /\ config' = [config EXCEPT ![run[p].n] = Absent]
  /\ Goto(p, "rm_disk")
  /\ UNCHANGED <<net, dom, up, disk, old, imageVars, lock, histVars>>

RemoveDisk(p) ==
  /\ At(p, "rm_disk")
  /\ disk' = [disk EXCEPT ![run[p].n] = NoDisk]
  /\ Return(p)
  /\ UNCHANGED <<config, net, dom, up, old, imageVars, histVars>>

---------------------------------------------------------------------------
(* migrate: moves a legacy disk into per-user storage.  It loads the
   configuration before it waits for the lock and saves that copy at last. *)

MigrateLoad(p) ==
  /\ At(p, "mg_load")
  /\ IF config[run[p].n].kind = "legacy"
     THEN /\ run' = [run EXCEPT ![p].pc = "mg_lock", ![p].s = config[run[p].n].subnet]
          /\ UNCHANGED lock
     ELSE Return(p)
  /\ UNCHANGED <<instVars, imageVars, histVars>>

MigrateEnter(p) ==
  /\ At(p, "mg_lock") /\ lock = None
  /\ IF Readable(run[p].n) /\ run[p].n \notin up
     THEN lock' = p /\ Goto(p, "mg_base")
     ELSE Return(p)
  /\ UNCHANGED <<instVars, imageVars, histVars>>

(* The legacy base is copied beside the target and renamed into place. *)
relocateBase(p) ==
  /\ At(p, "mg_base")
  /\ store' = IF store = "none" THEN "whole" ELSE store
  /\ Goto(p, "mg_disk")
  /\ UNCHANGED <<instVars, cache, tmp, homed, lock, histVars>>

(* mv renames, or on another file system copies (mg_copy), then deletes the
   source (mg_clear).  The new directory belongs to root until the chown. *)
Moved(n) == IF old[n] = "whole" THEN "foreign" ELSE "partial"

\* MUTANT of relocateDisk: a directory at the destination is taken as moved.
RelocateOnce(p) ==
  LET n == run[p].n IN
  /\ At(p, "mg_disk")
  /\ IF disk[n].st # "none" THEN Goto(p, "mg_chown") /\ UNCHANGED disk
     ELSE /\ disk' = [disk EXCEPT ![n] = Disk("partial", "legacy", "migrate")]
          /\ Goto(p, "mg_copy")
  /\ UNCHANGED <<config, net, dom, up, old, imageVars, lock, histVars>>

relocateDisk(p) ==
  LET n == run[p].n IN
  /\ At(p, "mg_disk")
  /\ \/ /\ disk[n].st # "none" /\ old[n] = "none"
        /\ Goto(p, "mg_chown") /\ UNCHANGED <<disk, old, lock>>
     \/ /\ disk[n].st = "none" /\ old[n] # "none" /\ FALSE \in CrossDevice
        /\ disk' = [disk EXCEPT ![n] = Disk(Moved(n), "legacy", "migrate")]
        /\ old' = [old EXCEPT ![n] = "none"]
        /\ Goto(p, "mg_chown") /\ UNCHANGED lock
     \/ /\ disk[n].st = "none" /\ old[n] # "none" /\ TRUE \in CrossDevice
        /\ disk' = [disk EXCEPT ![n] = Disk("partial", "legacy", "migrate")]
        /\ Goto(p, "mg_copy") /\ UNCHANGED <<old, lock>>
     \/ /\ (disk[n].st = "none") = (old[n] = "none")
        /\ Return(p) /\ UNCHANGED <<disk, old>>
  /\ UNCHANGED <<config, net, dom, up, imageVars, histVars>>

MoveCopied(p) ==
  /\ At(p, "mg_copy")
  /\ LET n == run[p].n IN
     /\ disk' = [disk EXCEPT ![n].st = Moved(n)]
     /\ old' = [old EXCEPT ![n] = "partial"]
  /\ Goto(p, "mg_clear")
  /\ UNCHANGED <<config, net, dom, up, imageVars, lock, histVars>>

MoveCleared(p) ==
  /\ At(p, "mg_clear")
  /\ old' = [old EXCEPT ![run[p].n] = "none"]
  /\ Goto(p, "mg_chown")
  /\ UNCHANGED <<config, net, dom, up, disk, imageVars, lock, histVars>>

ChownDisk(p) ==
  /\ At(p, "mg_chown")
  /\ disk' = [disk EXCEPT ![run[p].n].st = IF @ = "foreign" THEN "whole" ELSE @]
  /\ Goto(p, "mg_rebase")
  /\ UNCHANGED <<config, net, dom, up, old, imageVars, lock, histVars>>

Rebase(p) ==
  /\ At(p, "mg_rebase")
  /\ disk' = [disk EXCEPT ![run[p].n].back = "store"]
  /\ Goto(p, "mg_check")
  /\ UNCHANGED <<config, net, dom, up, old, imageVars, lock, histVars>>

(* Re-group, then qemu-img check opens the whole chain. *)
CheckChain(p) ==
  /\ At(p, "mg_check")
  /\ IF disk[run[p].n].st = "whole" /\ store = "whole"
     THEN Goto(p, "mg_save") /\ UNCHANGED lock
     ELSE Return(p)
  /\ UNCHANGED <<instVars, imageVars, histVars>>

MigrateSave(p) ==
  /\ At(p, "mg_save")
  /\ Save(run[p].n, Saved(run[p].s, "user"))
  /\ lost' = IF config[run[p].n] = Saved(run[p].s, "legacy")
             THEN lost ELSE lost \cup {run[p].n}
  /\ Return(p)
  /\ UNCHANGED <<net, dom, up, disk, old, imageVars, cut>>

---------------------------------------------------------------------------
(* prune: the images in use are noted first, then the instances that are not
   running are removed one by one, then the cached images not noted. *)

PruneList(p) ==
  /\ At(p, "pr_list")
  /\ IF \E n \in Names : config[n] = Torn
     THEN run' = [run EXCEPT ![p] = Idle]
     ELSE run' = [run EXCEPT ![p].pc = "pr_next",
                    ![p].left = {n \in dom \ up : config[n] # Absent},
                    ![p].made = IF \E n \in Names : config[n] # Absent
                                THEN {"noted"} ELSE {}]
  /\ UNCHANGED <<instVars, imageVars, lock, histVars>>

PruneNext(p) ==
  /\ At(p, "pr_next") /\ run[p].left # {}
  /\ \E n \in run[p].left :
       run' = [run EXCEPT ![p].left = @ \ {n}, ![p].n = n,
                 ![p].pc = IF Readable(n) /\ n \in up THEN "pr_next" ELSE "rm_load"]
  /\ UNCHANGED <<instVars, imageVars, lock, histVars>>

PruneImages(p) ==
  /\ At(p, "pr_next") /\ run[p].left = {}
  /\ LET r == [run EXCEPT ![p] = Idle] IN
     IF "noted" \in run[p].made THEN run' = r /\ UNCHANGED cache
     ELSE run' = Stale(r, {"pl_done"}) /\ cache' = "none"
  /\ UNCHANGED <<instVars, tmp, store, homed, lock, histVars>>

---------------------------------------------------------------------------
(* base pull: into the cache, through one temporary path. *)

Pulling(q) == run[q].pc \in {"pl_got", "pl_conv", "pl_done"}

Converting == {q \in Procs : At(q, "pl_done") /\ run[q].fd = "live"}

RenameOver(p) ==
  /\ cache' = tmp /\ tmp' = "none"
  /\ run' = Stale([run EXCEPT ![p] = Idle], {"pl_got", "pl_done"})
  /\ UNCHANGED lock

PullCheck(p) ==
  /\ At(p, "pl_check")
  /\ IF cache # "none" THEN Return(p) ELSE Goto(p, "pl_get") /\ UNCHANGED lock
  /\ UNCHANGED <<instVars, imageVars, histVars>>

(* os.Create truncates the file that another pull may be writing. *)
PullCreate(p) ==
  /\ At(p, "pl_get")
  /\ tmp' = "partial"
  /\ cut' = (cut \/ \E q \in Procs \ {p} : Pulling(q))
  /\ run' = [run EXCEPT ![p].pc = "pl_got", ![p].fd = "live"]
  /\ UNCHANGED <<instVars, cache, store, homed, lock, lost>>

(* The stream is complete and its checksum is the published one. *)
PullVerified(p) ==
  /\ At(p, "pl_got")
  /\ tmp' = IF /\ run[p].fd = "live"
               /\ \A q \in Procs \ {p} : At(q, "pl_got") => run[q].fd = "stale"
            THEN "whole" ELSE tmp
  /\ Goto(p, "pl_conv")
  /\ UNCHANGED <<instVars, cache, store, homed, lock, histVars>>

(* qemu-img writes the cache file in place.  While another pull writes it
   the conversion is refused, and the download is renamed over the file. *)
PullConvert(p) ==
  /\ At(p, "pl_conv")
  /\ CASE tmp = "none" -> Return(p) /\ UNCHANGED <<cache, tmp>>
       [] tmp # "none" /\ Converting = {} ->
            /\ cache' = "partial"
            /\ run' = [run EXCEPT ![p].pc = "pl_done", ![p].fd = "live", ![p].made = {tmp}]
            /\ UNCHANGED <<tmp, lock>>
       [] OTHER -> RenameOver(p)
  /\ UNCHANGED <<instVars, store, homed, histVars>>

PullDone(p) ==
  /\ At(p, "pl_done")
  /\ cache' = IF run[p].fd = "live" THEN CHOOSE f \in run[p].made : TRUE ELSE cache
  /\ tmp' = "none"
  /\ run' = Stale([run EXCEPT ![p] = Idle], {"pl_got"})
  /\ UNCHANGED <<instVars, store, homed, lock, histVars>>

---------------------------------------------------------------------------
(* base import: into <base>/disks/base, by a temporary file and a rename. *)

BaseImportCheck(p) ==
  /\ At(p, "bi_check")
  /\ IF homed THEN Return(p) ELSE Goto(p, "bi_rename") /\ UNCHANGED lock
  /\ UNCHANGED <<instVars, imageVars, histVars>>

BaseImportRename(p) ==
  /\ At(p, "bi_rename")
  /\ homed' = TRUE
  /\ run' = [run EXCEPT ![p] = Idle]
  /\ UNCHANGED <<instVars, cache, tmp, store, lock, histVars>>

---------------------------------------------------------------------------
(* base remove: confirm, delete the cached copy, then the one under
   <base>/disks.  No disk of this backend backs onto that one, so the scans
   for instances that use it find none. *)

BaseCheck(p) ==
  /\ At(p, "br_check")
  /\ IF cache = "none" /\ ~homed THEN Return(p)
     ELSE /\ run' = [run EXCEPT ![p].pc = "br_cache",
               ![p].made = {f \in {"cache", "home"} :
                              IF f = "cache" THEN cache # "none" ELSE homed}]
          /\ UNCHANGED lock
  /\ UNCHANGED <<instVars, imageVars, histVars>>

BaseCache(p) ==
  /\ At(p, "br_cache")
  /\ cache' = IF "cache" \in run[p].made THEN "none" ELSE cache
  /\ LET r == IF "cache" \in run[p].made THEN Stale(run, {"pl_done"}) ELSE run IN
     run' = IF "home" \in run[p].made THEN [r EXCEPT ![p].pc = "br_rm"]
            ELSE [r EXCEPT ![p] = Idle]
  /\ UNCHANGED <<instVars, tmp, store, homed, lock, histVars>>

\* MUTANT of BaseRemove: the copy in the backend's store goes, with no scan.
BaseRemoveStored(p) ==
  /\ At(p, "br_rm")
  /\ homed' = FALSE /\ store' = "none"
  /\ run' = [run EXCEPT ![p] = Idle]
  /\ UNCHANGED <<instVars, cache, tmp, lock, histVars>>

(* Under the exclusive lock of that file, which only base removes take. *)
BaseRemove(p) ==
  /\ At(p, "br_rm")
  /\ homed' = FALSE
  /\ run' = [run EXCEPT ![p] = Idle]
  /\ UNCHANGED <<instVars, cache, tmp, store, lock, histVars>>

---------------------------------------------------------------------------
(* What a step that fails or is cut short may have done already: a save has
   truncated the file, a disk is written or deleted in part, a snapshot is
   copied and not yet rebased. *)
Saving == {"cr_save", "im_save", "mg_save"}
Writing == {"cr_disk", "im_disk", "rm_disk", "un_disk"}

Damage(p) ==
  LET n == run[p].n IN
  \/ UNCHANGED <<config, disk, lost>>
  \/ /\ run[p].pc \in Saving /\ Save(n, Torn)
     /\ lost' = lost \cup {n} /\ UNCHANGED disk
  \/ /\ run[p].pc \in Writing /\ ~(At(p, "im_disk") /\ Snapshot(p))
     /\ disk' = [disk EXCEPT ![n].st = "partial"]
     /\ UNCHANGED <<config, lost>>
  \/ /\ At(p, "im_disk") /\ Snapshot(p)
     /\ disk' = [disk EXCEPT ![n] = Disk("whole", "other", "import")]
     /\ UNCHANGED <<config, lost>>
  \/ /\ At(p, "rm_config") /\ Save(n, Absent) /\ UNCHANGED <<disk, lost>>

Forward == {"cr_save", "cr_files", "cr_net", "cr_start", "cr_base", "cr_disk",
            "vm", "im_disk", "im_files", "im_save", "im_net"}
Giving == {"mg_base", "mg_disk", "mg_copy", "mg_clear", "mg_chown", "mg_rebase",
           "mg_check", "mg_save", "rm_config", "rm_disk", "bi_rename",
           "br_cache", "br_rm"}

(* A step fails and the error is returned, or starts the rollback. *)
StepFails(p) ==
  /\ faults < MaxFaults /\ faults' = faults + 1
  /\ Damage(p)
  /\ \/ run[p].pc \in Forward /\ Undo(p)
     \/ run[p].pc \in Giving /\ Return(p)
  /\ UNCHANGED <<net, dom, up, old, imageVars, cut, cmds, kills>>

(* A failed deletion is logged and passed over. *)
DeleteFails(p) ==
  /\ faults < MaxFaults /\ faults' = faults + 1
  /\ run[p].pc \in {"rm_vm", "rm_net", "un_net", "un_disk", "un_config"}
  /\ lost' = lost \cup (IF At(p, "un_disk") THEN {} ELSE {run[p].n})
  /\ Goto(p, CASE At(p, "rm_vm") -> "rm_net"
               [] At(p, "rm_net") -> "rm_config"
               [] At(p, "un_net") -> IF run[p].cmd = "create" THEN "un_config" ELSE "un_disk"
               [] At(p, "un_disk") -> IF run[p].cmd = "create" THEN "un_net" ELSE "un_config"
               [] At(p, "un_config") -> "failed")
  /\ UNCHANGED <<instVars, imageVars, lock, cut, cmds, kills>>

(* The download breaks off or its checksum is wrong; or the conversion
   fails, and the download is renamed over what it has written. *)
PullFails(p) ==
  /\ faults < MaxFaults /\ faults' = faults + 1
  /\ \/ /\ At(p, "pl_got")
        /\ tmp' = "none" /\ run' = Stale([run EXCEPT ![p] = Idle], {"pl_got"})
        /\ UNCHANGED <<cache, lock, cut>>
     \/ /\ At(p, "pl_done") /\ tmp # "none" /\ RenameOver(p) /\ UNCHANGED cut
     \/ /\ At(p, "pl_done") /\ tmp = "none"
        /\ cut' = TRUE /\ Return(p) /\ UNCHANGED <<cache, tmp>>
  /\ UNCHANGED <<instVars, store, homed, lost, cmds, kills>>

(* The process is killed: its locks go with its descriptors. *)
Kill(p) ==
  /\ kills < MaxKills /\ kills' = kills + 1
  /\ ~At(p, "idle")
  /\ Damage(p)
  /\ run' = [run EXCEPT ![p] = Idle]
  /\ lock' = IF lock = p THEN None ELSE lock
  /\ cut' = (cut \/ p \in Converting)
  /\ UNCHANGED <<net, dom, up, old, imageVars, cmds, faults>>

---------------------------------------------------------------------------
(* start and stop, which take no part in what is modelled here. *)
Boot(n) ==
  /\ n \in dom \ up /\ config[n].kind = "user" /\ disk[n].st = "whole"
  /\ disk[n].back = "store" => store = "whole"
  /\ up' = up \cup {n}
  /\ UNCHANGED <<config, net, dom, disk, old, imageVars, lock, run, cmds, faults, kills, histVars>>

PowerOff(n) ==
  /\ n \in up /\ up' = up \ {n}
  /\ UNCHANGED <<config, net, dom, disk, old, imageVars, lock, run, cmds, faults, kills, histVars>>

First(c) == CASE c = "create" -> "cr_lock"
              [] c \in {"import", "snapimport"} -> "im_lock"
              [] c = "remove" -> "rm_load"
              [] c = "migrate" -> "mg_load"
              [] c = "prune" -> "pr_list"
              [] c = "pull" -> "pl_check"
              [] c = "baseimport" -> "bi_check"
              [] c = "baserm" -> "br_check"

OnInstance == {"create", "import", "snapimport", "remove", "migrate"}

Issue(p, c) ==
  /\ At(p, "idle") /\ cmds < MaxCmds /\ cmds' = cmds + 1
  /\ \E n \in IF c \in OnInstance THEN Names ELSE {Idle.n} :
       run' = [run EXCEPT ![p] = [Idle EXCEPT !.pc = First(c), !.cmd = c, !.n = n]]
  /\ UNCHANGED <<instVars, imageVars, lock, faults, kills, histVars>>

Init ==
  /\ \E f \in [Legacy -> Subnets] :
       /\ \A m, n \in Legacy : f[m] = f[n] => m = n
       /\ config = [n \in Names |-> IF n \in Legacy THEN Saved(f[n], "legacy") ELSE Absent]
       /\ net = [n \in Names |-> IF n \in Legacy THEN f[n] ELSE None]
  /\ dom = Legacy /\ up \in SUBSET Legacy
  /\ disk = [n \in Names |-> NoDisk]
  /\ old = [n \in Names |-> IF n \in Legacy THEN "whole" ELSE "none"]
  /\ cache \in {"none", "whole"} /\ store \in {"none", "whole"} /\ tmp = "none"
  /\ lock = None /\ homed = FALSE
  /\ run = [p \in Procs |-> Idle]
  /\ cmds = 0 /\ faults = 0 /\ kills = 0
  /\ lost = {} /\ cut = FALSE

Create(p) == \/ CreateEnter(p) \/ initInstance(p) \/ CreateFiles(p)
             \/ NetworkCreate(p, "cr_net", "cr_start") \/ NetworkStart(p)
             \/ EnsureBaseImage(p) \/ DiskCreate(p) \/ VMCreate(p)
Import(p) == \/ ImportEnter(p) \/ DiskImport(p) \/ ImportFiles(p) \/ ImportSave(p)
             \/ NetworkCreate(p, "im_net", "vm")
Rollback(p) == UndoDisk(p) \/ UndoNet(p) \/ UndoConfig(p) \/ Failed(p)
Remove(p) == \/ RemoveLoad(p) \/ RemoveEnter(p) \/ RemoveVM(p) \/ RemoveNet(p)
             \/ RemoveConfig(p) \/ RemoveDisk(p)
Migrate(p) == \/ MigrateLoad(p) \/ MigrateEnter(p) \/ relocateBase(p)
              \/ relocateDisk(p) \/ MoveCopied(p) \/ MoveCleared(p)
              \/ ChownDisk(p) \/ Rebase(p) \/ CheckChain(p) \/ MigrateSave(p)
Prune(p) == PruneList(p) \/ PruneNext(p) \/ PruneImages(p)
Pull(p) == \/ PullCheck(p) \/ PullCreate(p) \/ PullVerified(p)
           \/ PullConvert(p) \/ PullDone(p)
BaseImport(p) == BaseImportCheck(p) \/ BaseImportRename(p)
BaseRm(p) == BaseCheck(p) \/ BaseCache(p) \/ BaseRemove(p)

Step(p) == /\ \/ Create(p) \/ Import(p) \/ Rollback(p) \/ Remove(p) \/ Migrate(p)
              \/ Prune(p) \/ Pull(p) \/ BaseImport(p) \/ BaseRm(p)
           /\ UNCHANGED <<cmds, faults, kills>>

Next == \/ \E p \in Procs : \/ \E c \in Commands : Issue(p, c)
                            \/ Step(p) \/ StepFails(p) \/ DeleteFails(p)
                            \/ PullFails(p) \/ Kill(p)
        \/ \E n \in Names : Boot(n) \/ PowerOff(n)

Spec == Init /\ [][Next]_vars

---------------------------------------------------------------------------
(* Properties. *)

(* The types of the variables, and the bounds on commands and faults. *)
TypeOK ==
  /\ config \in [Names -> {Absent, Torn} \cup
                   {Saved(s, k) : s \in Subnets, k \in {"user", "legacy"}}]
  /\ net \in [Names -> Subnets \cup {None}]
  /\ dom \subseteq Names /\ up \subseteq Names
  /\ disk \in [Names -> [st : {"none", "partial", "foreign", "whole"},
                         back : {"none", "store", "legacy", "other"},
                         by : {"none", "create", "import", "migrate"}]]
  /\ old \in [Names -> File]
  /\ cache \in File /\ tmp \in File /\ store \in File
  /\ lock \in Procs \cup {None} /\ homed \in BOOLEAN
  /\ \A p \in Procs : run[p].fd \in {"none", "live", "stale"}
  /\ cmds \in 0..MaxCmds /\ faults \in 0..MaxFaults /\ kills \in 0..MaxKills
  /\ lost \subseteq Names /\ cut \in BOOLEAN

(* No two instances are configured with one subnet, however creates, imports,
   removes and migrates interleave, fail and are killed.  The exceptions are
   the names whose configuration was torn by a cut save, whose deletion
   failed, or over whose new configuration a migrate saved the one it had
   loaded before it waited for the lock. *)
SubnetsDistinct ==
  \A m, n \in Names \ lost :
    m # n /\ Readable(m) /\ Readable(n) => config[m].subnet # config[n].subnet

(* A libvirt network or domain always belongs to a readable configuration,
   with the subnet it records, so that remove can find it: create and import
   save the configuration before they define anything and remove deletes it
   after, so a kill between any two steps strands nothing. *)
Owned ==
  \A n \in Names \ lost :
    /\ net[n] # None => Readable(n) /\ config[n].subnet = net[n]
    /\ n \in dom => Readable(n)

(* When create or import has rolled back (cleanup, cleanupState.run), the
   name has no network, no domain and no readable configuration. *)
RolledBack ==
  \A p \in Procs : At(p, "failed") /\ run[p].n \notin lost =>
    /\ net[run[p].n] = None /\ run[p].n \notin dom /\ ~Readable(run[p].n)

(* The base image that an instance made by create or migrated backs onto
   stays in the store, whatever base remove, prune and base import do: they
   act on the cache and on <base>/disks/base. *)
CreatedBacked ==
  \A n \in dom \ lost :
    Readable(n) /\ disk[n].st = "whole" /\ disk[n].back = "store"
      /\ disk[n].by \in {"create", "migrate"} => store # "none"

(* The data of a legacy instance is never only in a partial copy, wherever a
   migrate is killed or fails and however often it is run again. *)
DiskKept ==
  \A n \in Names : config[n].kind = "legacy" =>
    old[n] = "whole" \/ disk[n].st \in {"foreign", "whole"}

(* A configuration that says per-user storage after a migrate means that the
   move is over: one copy, whole, owned by the user, rebased. *)
MigratedWhole ==
  \A n \in Names \ lost : config[n].kind = "user" /\ disk[n].by = "migrate" /\ n \in dom =>
    disk[n].st = "whole" /\ disk[n].back = "store" /\ old[n] = "none"

(* A base image is whole once no pull is converting it, unless a pull was
   killed or failed while it converted, two pulls shared the download file,
   or create copied the image while a pull was converting it. *)
ImagesWhole ==
  ~cut => /\ cache = "partial" => Converting # {}
          /\ store # "partial"

(* docs/export-import.md and verifySnapshotBaseImage's hint: with the base
   image pulled, a snapshot archive imports; its disk "is backed by the local
   base image". *)
SnapshotBacked ==
  \A n \in dom : disk[n].by = "import" /\ disk[n].back = "store"
                 => store # "none"

\* What an instance is made of is its own and can be found again, and what failed
\* to be made is gone (create, import, remove).
NothingStranded == Owned /\ RolledBack

\* The images that created and migrated instances rest on stay (base remove,
\* prune), and are whole unless a pull was cut short, shared its download file
\* with another or was copied from while it converted (base pull, create).
ImagesSound == CreatedBacked /\ ImagesWhole

\* A migrate neither loses a disk nor ends halfway (abox migrate).
MigrateSound == DiskKept /\ MigratedWhole
=============================================================================
