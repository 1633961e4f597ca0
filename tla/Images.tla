------------------------------- MODULE Images -------------------------------
(***************************************************************************)
(* The stored base image on a backend whose store is <base>/disks (vfkit): *)
(* there, create, base import and base remove act on one file.  create     *)
(* holds the config lock throughout and waits for a shared flock of the    *)
(* image while it clones it; base remove waits for an exclusive one.  A    *)
(* lock is of a file, not of a path: LockBaseImage opens the path first,   *)
(* and the file may no longer be there when the lock is granted.           *)
(* A file has a number; the disk a create clones needs the image no more,  *)
(* so that base remove finds no instance that uses it.                     *)
(***************************************************************************)
EXTENDS Naturals

CONSTANTS
  Procs,        \* abox processes
  Nobody,       \* no holder of the config lock
  MaxImgRuns,   \* bound on the commands
  MaxImgKills   \* bound on the processes killed

\* What the constants must be.
ImagesAssumption ==
  Nobody \notin Procs /\ MaxImgRuns \in Nat /\ MaxImgKills \in Nat

VARIABLES
  store,    \* the file at the image's path, 0 if there is none
  cached,   \* is the image in the user's cache?
  files,    \* the files made so far
  lock,     \* the holder of the config lock
  run,      \* each process: pc, copies seen, file opened, is it locked, was it live
  crossed,  \* history: a file was replaced or deleted by who had not locked it
  gone,     \* history: a clone with its lock on the file at the path found none
  imgRuns, imgKills

imgVars == <<store, cached, files, lock, run, crossed, gone, imgRuns, imgKills>>

Idle == [pc |-> "idle", had |-> {}, fd |-> 0, held |-> FALSE, live |-> FALSE]

At(p, pc) == run[p].pc = pc
Goto(p, pc) == run' = [run EXCEPT ![p].pc = pc]

\* The command returns: its deferred unlocks run.
Return(p) ==
  /\ run' = [run EXCEPT ![p] = Idle]
  /\ lock' = IF lock = p THEN Nobody ELSE lock

\* A new file is renamed over the path.
Install ==
  /\ store' = files + 1 /\ files' = files + 1
  /\ crossed' = (crossed \/ store # 0)

Begin(p, pc) ==
  /\ At(p, "idle") /\ imgRuns < MaxImgRuns
  /\ imgRuns' = imgRuns + 1 /\ Goto(p, pc)
  /\ UNCHANGED <<store, cached, files, lock, crossed, gone, imgKills>>

-----------------------------------------------------------------------------
(* create, from the config lock to the disk.                               *)

AcquireLock(p) ==
  /\ At(p, "cr_lock") /\ lock = Nobody
  /\ lock' = p /\ Goto(p, "cr_ensure")
  /\ UNCHANGED <<store, cached, files, crossed, gone, imgRuns, imgKills>>

\* EnsureBaseImage: nothing to do, or a clone of the cached image to a temporary
\* path, or a failure: no image at all, or the copy fails.
EnsureBaseImage(p) ==
  /\ At(p, "cr_ensure")
  /\ \/ store # 0 /\ Goto(p, "cr_open") /\ UNCHANGED lock
     \/ store = 0 /\ cached /\ Goto(p, "cr_install") /\ UNCHANGED lock
     \/ store = 0 /\ Return(p)
  /\ UNCHANGED <<store, cached, files, crossed, gone, imgRuns, imgKills>>

InstallBase(p) ==
  /\ At(p, "cr_install") /\ Install /\ Goto(p, "cr_open")
  /\ UNCHANGED <<cached, lock, gone, imgRuns, imgKills>>

\* LockBaseImage opens the path ...
OpenBase(p, pc, next) ==
  /\ At(p, pc)
  /\ \/ /\ store # 0
        /\ run' = [run EXCEPT ![p].pc = next, ![p].fd = store]
        /\ UNCHANGED lock
     \/ store = 0 /\ Return(p)
  /\ UNCHANGED <<store, cached, files, crossed, gone, imgRuns, imgKills>>

Holders(f) == {q \in Procs : run[q].held /\ run[q].fd = f}
Removing(q) == run[q].pc \in {"rm_scan", "rm_delete"}

\* ... and waits for the lock of the file it opened: the shared one of create,
LockShared(p) ==
  /\ At(p, "cr_flock") /\ ~\E q \in Holders(run[p].fd) : Removing(q)
  /\ run' = [run EXCEPT ![p].pc = "cr_clone", ![p].held = TRUE,
                        ![p].live = run[p].fd = store]
  /\ UNCHANGED <<store, cached, files, lock, crossed, gone, imgRuns, imgKills>>

\* MUTANT of LockExclusive: the lock is asked for and not waited for.
LockRefused(p) ==
  /\ At(p, "rm_flock")
  /\ run' = [run EXCEPT ![p].pc = "rm_scan", ![p].held = TRUE]
  /\ UNCHANGED <<store, cached, files, lock, crossed, gone, imgRuns, imgKills>>

\* the exclusive one of base remove.
LockExclusive(p) ==
  /\ At(p, "rm_flock") /\ Holders(run[p].fd) = {}
  /\ run' = [run EXCEPT ![p].pc = "rm_scan", ![p].held = TRUE]
  /\ UNCHANGED <<store, cached, files, lock, crossed, gone, imgRuns, imgKills>>

\* Disk.Create clones what is at the path, and create goes on to its end without
\* the image; with none there it fails.
CloneDisk(p) ==
  /\ At(p, "cr_clone")
  /\ gone' = (gone \/ (store = 0 /\ run[p].live))
  /\ Return(p)
  /\ UNCHANGED <<store, cached, files, crossed, imgRuns, imgKills>>

-----------------------------------------------------------------------------
(* base import: to a temporary file beside the path, and a rename.         *)

ImportCheck(p) ==
  /\ At(p, "im_check")
  /\ \/ store = 0 /\ Goto(p, "im_rename") /\ UNCHANGED lock
     \/ store # 0 /\ Return(p)
  /\ UNCHANGED <<store, cached, files, crossed, gone, imgRuns, imgKills>>

ImportRename(p) ==
  /\ At(p, "im_rename") /\ Install /\ Return(p)
  /\ UNCHANGED <<cached, gone, imgRuns, imgKills>>

-----------------------------------------------------------------------------
(* base remove: the cached copy, then under its lock the stored one.       *)

\* Neither copy, or the prompt is answered no: the end.
RemoveCheck(p) ==
  /\ At(p, "rm_check")
  /\ LET had == {c \in {"cache", "store"} : IF c = "cache" THEN cached ELSE store # 0} IN
     \/ /\ had # {} /\ UNCHANGED lock
        /\ run' = [run EXCEPT ![p].pc = "rm_cache", ![p].had = had]
     \/ Return(p)
  /\ UNCHANGED <<store, cached, files, crossed, gone, imgRuns, imgKills>>

\* What was there at the check is deleted, first the cached copy.
RemoveCached(p) ==
  /\ At(p, "rm_cache")
  /\ cached' = (cached /\ "cache" \notin run[p].had)
  /\ \/ "store" \in run[p].had /\ Goto(p, "rm_open") /\ UNCHANGED lock
     \/ "store" \notin run[p].had /\ Return(p)
  /\ UNCHANGED <<store, files, crossed, gone, imgRuns, imgKills>>

\* instancesUsingBase reads every configuration, without the config lock; it fails
\* or finds no disk that backs onto the image.
Rescan(p) ==
  /\ At(p, "rm_scan")
  /\ \/ Goto(p, "rm_delete") /\ UNCHANGED lock
     \/ Return(p)
  /\ UNCHANGED <<store, cached, files, crossed, gone, imgRuns, imgKills>>

\* RemoveAll of the path, whichever file is there.
RemoveStored(p) ==
  /\ At(p, "rm_delete")
  /\ store' = 0
  /\ crossed' = (crossed \/ store \notin {0, run[p].fd})
  /\ Return(p)
  /\ UNCHANGED <<cached, files, gone, imgRuns, imgKills>>

-----------------------------------------------------------------------------
\* base pull fills the cache.
Pulled ==
  /\ ~cached /\ cached' = TRUE
  /\ UNCHANGED <<store, files, lock, run, crossed, gone, imgRuns, imgKills>>

\* A process is killed: its locks go with its descriptors.
Kill(p) ==
  /\ ~At(p, "idle") /\ imgKills < MaxImgKills
  /\ imgKills' = imgKills + 1 /\ Return(p)
  /\ UNCHANGED <<store, cached, files, crossed, gone, imgRuns>>

ImagesInit ==
  /\ store \in {0, 1} /\ files = 1 /\ cached \in BOOLEAN
  /\ lock = Nobody /\ run = [p \in Procs |-> Idle]
  /\ crossed = FALSE /\ gone = FALSE /\ imgRuns = 0 /\ imgKills = 0

ImagesStep(p) ==
  \/ AcquireLock(p) \/ EnsureBaseImage(p) \/ InstallBase(p)
  \/ OpenBase(p, "cr_open", "cr_flock") \/ LockShared(p) \/ CloneDisk(p)
  \/ ImportCheck(p) \/ ImportRename(p)
  \/ RemoveCheck(p) \/ RemoveCached(p) \/ OpenBase(p, "rm_open", "rm_flock")
  \/ LockExclusive(p) \/ Rescan(p) \/ RemoveStored(p)

ImagesNext ==
  \/ \E p \in Procs : \/ \E pc \in {"cr_lock", "im_check", "rm_check"} : Begin(p, pc)
                      \/ ImagesStep(p) \/ Kill(p)
  \/ Pulled

-----------------------------------------------------------------------------
(* Properties.                                                             *)

\* A create that got the lock of the file then at the path finds the image when it
\* clones it, whatever base remove does, unless someone replaced or deleted the
\* file who had not locked it: base import and EnsureBaseImage, whose rename takes
\* no lock, or a base remove whose lock is of an earlier file at that path
\* (LockBaseImage, removeLibvirtCopy, vfkit's Disk.Create).
CloneSourced == ~crossed => ~gone
=============================================================================
