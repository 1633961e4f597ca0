------------------------------- MODULE Bundle -------------------------------
(***************************************************************************)
(* `abox export` and `abox import`: the archive that carries an instance   *)
(* from one machine to another (pkg/cmd/export, pkg/cmd/importcmd).        *)
(*                                                                         *)
(* One exporter and one importer work on the same archive file, neither    *)
(* takes a lock on it, and either may fail or be killed at any step.  The  *)
(* exporter's guest may be started while the export copies its disk.  The  *)
(* importer reads the file twice, once for the manifest and once to        *)
(* extract it, and then builds an instance out of what it extracted; how   *)
(* that instance competes with others for subnets and images is the        *)
(* subject of Storage.                                                     *)
(***************************************************************************)
EXTENDS Naturals, Sequences

CONSTANTS MaxBunMishaps,   \* failures and kills
          MaxExports,      \* exports
          MaxWrites        \* versions the guest's disk goes through

\* What the constants must be.
BundleAssumption ==
  /\ MaxBunMishaps \in Nat
  /\ MaxExports \in Nat \ {0}
  /\ MaxWrites \in Nat

VARIABLES guestOn,    \* the exported guest runs
          ver,        \* the version of its disk
          xpc,        \* where the exporter is
          xdisk,      \* the disk copied into the temporary directory
          archive,    \* the archive file
          ipc,        \* where the importer is
          manifest,   \* the manifest it peeked at
          got,        \* what it extracted
          box,        \* what it made of it: the imported instance
          swapped,    \* the archive was rewritten between its two readings
          cutoff,     \* an importer was killed half-way
          started,    \* the guest was started during the export
          exports, bunMishaps

bundleVars == <<guestOn, ver, xpc, xdisk, archive, ipc, manifest, got, box,
                swapped, cutoff, started, exports, bunMishaps>>
exporterVars == <<guestOn, ver, xpc, xdisk, archive, started, exports>>
importerVars == <<ipc, manifest, got, box, swapped, cutoff>>

\* The members of an archive in the order filepath.WalkDir visits them: by name.
Members == <<"allowlist.conf", "config.yaml", "disk.qcow2", "id_ed25519",
             "id_ed25519.pub", "manifest.json">>

Blank == [ver |-> 0, torn |-> FALSE, delta |-> FALSE]
NoArchive == [exists |-> FALSE, names |-> <<>>, closed |-> FALSE, disk |-> Blank]
NoBox == [dirs |-> FALSE, disk |-> FALSE, conf |-> FALSE, net |-> FALSE,
          dom |-> FALSE]

Has(file, name) == \E i \in 1..Len(file.names) : file.names[i] = name

BunInit ==
  /\ guestOn \in BOOLEAN /\ ver = 0
  /\ xpc = "idle" /\ xdisk = Blank
  /\ archive = NoArchive
  /\ ipc = "idle" /\ manifest = FALSE /\ got = NoArchive /\ box = NoBox
  /\ swapped = FALSE /\ cutoff = FALSE /\ started = FALSE
  /\ exports = 0 /\ bunMishaps = 0

-----------------------------------------------------------------------------
(* The guest.  Neither start nor stop looks at an export in progress, but   *)
(* qemu-img convert holds the image lock that a starting guest needs.       *)

GuestSwitch ==
  /\ guestOn \/ xpc # "flattening"
  /\ guestOn' = ~guestOn
  /\ started' = (started \/ ~guestOn)
  /\ UNCHANGED <<ver, xpc, xdisk, archive, exports, bunMishaps, importerVars>>

GuestWrites ==
  /\ guestOn /\ ver < MaxWrites
  /\ ver' = ver + 1
  /\ UNCHANGED <<guestOn, xpc, xdisk, archive, started, exports, bunMishaps,
                 importerVars>>

-----------------------------------------------------------------------------
(* abox export.                                                             *)

ExportGoes(pc) ==
  xpc' = pc /\ UNCHANGED <<guestOn, ver, started, exports, bunMishaps, importerVars>>

\* runExport: the guest must be stopped and an existing archive needs --force.
RunExport(snapshot, force) ==
  /\ xpc = "idle" /\ exports < MaxExports
  /\ ~guestOn
  /\ archive.exists => force
  /\ exports' = exports + 1
  /\ xpc' = IF snapshot THEN "copying" ELSE "flattening"
  /\ started' = FALSE
  /\ xdisk' = [ver |-> ver, torn |-> FALSE, delta |-> snapshot]
  /\ UNCHANGED <<guestOn, ver, archive, bunMishaps, importerVars>>

\* qemu-img convert refuses an image a running guest has locked; fsutil.CopyFile
\* reads whatever the guest leaves there.
DiskExport ==
  /\ \/ xpc = "flattening" /\ ~guestOn
        /\ xdisk' = [xdisk EXCEPT !.ver = ver]
     \/ xpc = "copying"
        /\ xdisk' = [xdisk EXCEPT !.torn = ver # xdisk.ver]
  /\ ExportGoes("files")
  /\ UNCHANGED archive

\* doExport: the configuration files and the manifest join the disk; createTarGz
\* then truncates the archive that may be there.
CreateTarGz ==
  /\ xpc = "files"
  /\ archive' = [NoArchive EXCEPT !.exists = TRUE, !.disk = xdisk]
  /\ xpc' = "archiving"
  /\ swapped' = (swapped \/ ipc = "peeked")
  /\ UNCHANGED <<guestOn, ver, started, exports, bunMishaps, xdisk, ipc, manifest, got,
                 box, cutoff>>

WriteTarEntry ==
  /\ xpc = "archiving" /\ Len(archive.names) < Len(Members)
  /\ archive' = [archive EXCEPT !.names = Append(@, Members[Len(@) + 1])]
  /\ ExportGoes("archiving")
  /\ UNCHANGED xdisk

CloseArchive ==
  /\ xpc = "archiving" /\ Len(archive.names) = Len(Members)
  /\ archive' = [archive EXCEPT !.closed = TRUE]
  /\ ExportGoes("idle")
  /\ UNCHANGED xdisk

\* A step of the export fails.  The writers are closed whatever the walk returned,
\* so a member that could not be opened leaves a well-formed archive without it
\* and without those after it; a write error leaves a truncated one.
ExportFails ==
  /\ xpc # "idle" /\ bunMishaps < MaxBunMishaps
  /\ bunMishaps' = bunMishaps + 1
  /\ xpc' = "idle"
  /\ archive' \in IF xpc = "archiving" THEN {archive, [archive EXCEPT !.closed = TRUE]}
                                       ELSE {archive}
  /\ UNCHANGED <<guestOn, ver, xdisk, started, exports, importerVars>>

-----------------------------------------------------------------------------
(* abox import.                                                             *)

ImportGoes(pc) == ipc' = pc /\ UNCHANGED <<exporterVars, bunMishaps, swapped, cutoff>>

\* peekManifest reads up to the manifest; config.Exists refuses a name in use.
PeekManifest ==
  /\ ipc = "idle" /\ ~box.conf
  /\ archive.exists /\ Has(archive, "manifest.json")
  /\ manifest' = archive.disk.delta
  /\ ipc' = "peeked" /\ swapped' = FALSE /\ cutoff' = FALSE
  /\ UNCHANGED <<exporterVars, bunMishaps, got, box>>

\* extractArchive reads the whole file: a stream that ends early is an error, and
\* the temporary directory goes.
ExtractArchive ==
  /\ ipc = "peeked"
  /\ IF archive.closed
       THEN got' = archive /\ ImportGoes("extracted")
       ELSE got' = got /\ ImportGoes("idle")
  /\ UNCHANGED <<manifest, box>>

ValidateExtractedManifest ==
  /\ ipc = "extracted"
  /\ ImportGoes(IF Has(got, "manifest.json") THEN "valid" ELSE "idle")
  /\ UNCHANGED <<manifest, got, box>>

AllocateResources ==
  /\ ipc = "valid"
  /\ box' = [box EXCEPT !.dirs = TRUE]
  /\ ImportGoes("allocated")
  /\ UNCHANGED <<manifest, got>>

\* Disk().Import: an image with a backing file passes only as a snapshot.
DiskIsImported ==
  /\ ipc = "allocated"
  /\ Has(got, "disk.qcow2")
  /\ got.disk.delta => manifest
  /\ box' = [box EXCEPT !.disk = TRUE]
  /\ ImportGoes("disk")
  /\ UNCHANGED <<manifest, got>>

\* The keys and the allowlist are copied from the archive, then config.yaml is
\* written from the manifest: the archive's own config.yaml is not read.
CopyConfig ==
  /\ ipc = "disk"
  /\ \A name \in {"id_ed25519", "id_ed25519.pub", "allowlist.conf"} : Has(got, name)
  /\ box' = [box EXCEPT !.conf = TRUE]
  /\ ImportGoes("saved")
  /\ UNCHANGED <<manifest, got>>

CreateNetwork ==
  /\ ipc = "saved"
  /\ box' = [box EXCEPT !.net = TRUE]
  /\ ImportGoes("network")
  /\ UNCHANGED <<manifest, got>>

CreateVM ==
  /\ ipc = "network"
  /\ box' = [box EXCEPT !.dom = TRUE]
  /\ ImportGoes("idle")
  /\ UNCHANGED <<manifest, got>>

\* MUTANT of CleanupRun: the clean-up of a failed import looks only at the disk.
CleanupRunDiskOnly == [box EXCEPT !.net = FALSE, !.dom = FALSE, !.disk = FALSE]

\* cleanupState.run: undo in reverse what the flags say was made.  A disk import
\* that failed half-way set no flag, so its directories stay.
CleanupRun == IF box.disk \/ box.conf THEN NoBox ELSE box

ImportFails ==
  /\ ipc # "idle" /\ bunMishaps < MaxBunMishaps
  /\ bunMishaps' = bunMishaps + 1
  /\ ipc' = "idle"
  /\ box' = CleanupRun
  /\ UNCHANGED <<exporterVars, manifest, got, swapped, cutoff>>

\* What Import or CopyFile refuses on its own ends the import the same way.
ImportRefused ==
  /\ \/ ipc = "allocated" /\ ~(Has(got, "disk.qcow2") /\ (got.disk.delta => manifest))
     \/ ipc = "disk" /\ \E name \in {"id_ed25519", "id_ed25519.pub", "allowlist.conf"} :
                          ~Has(got, name)
  /\ box' = CleanupRun
  /\ ImportGoes("idle")
  /\ UNCHANGED <<manifest, got>>

\* Killed, the importer runs no clean-up.
ImportKilled ==
  /\ ipc # "idle" /\ bunMishaps < MaxBunMishaps
  /\ bunMishaps' = bunMishaps + 1
  /\ ipc' = "idle" /\ cutoff' = TRUE
  /\ UNCHANGED <<exporterVars, manifest, got, box, swapped>>

-----------------------------------------------------------------------------
BunNext ==
  \/ GuestSwitch \/ GuestWrites
  \/ \E snapshot, force \in BOOLEAN : RunExport(snapshot, force)
  \/ DiskExport \/ CreateTarGz \/ WriteTarEntry \/ CloseArchive \/ ExportFails
  \/ PeekManifest \/ ExtractArchive \/ ValidateExtractedManifest \/ AllocateResources
  \/ DiskIsImported \/ CopyConfig \/ CreateNetwork \/ CreateVM
  \/ ImportRefused \/ ImportFails \/ ImportKilled

-----------------------------------------------------------------------------
(* Properties.                                                              *)

\* An archive cut short - by a failing or killed export, or because the export is
\* still writing it - is refused before import touches the instance's directories:
\* the manifest is the last member, and a truncated stream does not extract
\* (pkg/cmd/importcmd/import.go peekManifest, extractTarGz).  An archive rewritten
\* between import's two readings is refused there too, or is whole.
WholeOrUntouched ==
  ipc \in {"allocated", "disk", "saved", "network"} =>
    got.closed /\ \A i \in 1..Len(Members) : Has(got, Members[i])

\* An import that ran to its end, or failed and cleaned up, leaves either a whole
\* instance or none that `abox list` would show: config.yaml never outlives the
\* clean-up of a failed import (cleanupState.run).
AllOrNothing ==
  ipc = "idle" /\ ~cutoff /\ box.conf => box.disk /\ box.net /\ box.dom

\* The disk of an imported instance is read the way it was written: a flattened
\* image is not rebased onto the local base and a CoW delta is not taken for a
\* self-contained image (libvirt DiskManager.Import), unless the archive was
\* rewritten between peekManifest and extractArchive.
DiskReadAsWritten ==
  ipc \in {"disk", "saved", "network"} =>
    /\ got.disk.delta => manifest
    /\ ~swapped => (manifest = got.disk.delta)

\* The disk in an archive is one the guest had at one moment, because runExport
\* refuses a running guest and qemu-img convert keeps a starting one out.  Only the
\* verbatim copy of --snapshot, which holds nothing while fsutil.CopyFile reads, can
\* be torn, by a guest started after the check (DiskManager.Export).
UntornUnlessStarted == xdisk.torn => xdisk.delta /\ started
=============================================================================
