------------------------------- MODULE Mounts -------------------------------
(***************************************************************************)
(* SSHFS mounts: `abox mount` and `abox unmount`, pkg/cmd/mount, over      *)
(* several instances that may use the same local paths.                    *)
(*                                                                         *)
(* The kernel's mount table says what is mounted; mounts.json of each      *)
(* instance says what abox mounted for it.  The two drift apart: sshfs     *)
(* runs detached and may mount after abox gave up on it, a guest's death   *)
(* leaves a dangling mount, and a mount may be undone without abox.        *)
(***************************************************************************)
EXTENDS Naturals, Sequences, SequencesExt, FiniteSets

CONSTANTS
    MountGuests,     \* instances, as positive numbers
    Mounters,        \* terminals `abox mount` is typed in, as positive numbers
    LocalPaths,      \* mount points
    MaxMntSteps      \* bound of the exploration: commands and outside events

\* What the constants must be.
MntAssumption ==
    /\ MountGuests \subseteq Nat \ {0} /\ Mounters \subseteq Nat \ {0}
    /\ MaxMntSteps \in Nat

VARIABLES
    guestUp,    \* the running instances
    created,    \* the instances that exist
    mtab,       \* the guests mounted at a path, one over the other
    dangling,   \* paths whose mount has lost its guest
    mountsJson, \* the paths in each instance's mounts.json
    sshfs,      \* the sshfs that are still trying: the terminal whose command
                \* waits for it (0: none does), the guest, the path
    polling,    \* the mount commands that are still waiting, likewise
    unrecorded, \* history: paths mounted without abox recording it
    stale,      \* history: paths whose record once outlived the mount
    crossedAt,  \* history: paths two mounts were tried at together
    mntSteps

mntVars == <<guestUp, created, mtab, dangling, mountsJson, sshfs, polling,
             unrecorded, stale, crossedAt, mntSteps>>
mntHist == <<unrecorded, stale, crossedAt>>

MntInit ==
    /\ guestUp = MountGuests /\ created = MountGuests
    /\ mtab = [p \in LocalPaths |-> <<>>] /\ dangling = {}
    /\ mountsJson = [b \in MountGuests |-> {}]
    /\ sshfs = {} /\ polling = {}
    /\ unrecorded = {} /\ stale = {} /\ crossedAt = {} /\ mntSteps = 0

Spent == mntSteps < MaxMntSteps /\ mntSteps' = mntSteps + 1

\* A mount point is another device than its parent; a mount whose guest has
\* died still counts (ENOTCONN).
IsMounted(p) == mtab[p] # <<>>

\* The top of the stack of mounts at a path is taken off.
Detached(ps) ==
    [p \in LocalPaths |-> IF p \in ps /\ IsMounted(p) THEN Tail(mtab[p])
                          ELSE mtab[p]]

-----------------------------------------------------------------------------
(* abox mount                                                              *)

\* Run up to the launch of sshfs. Only the mount table is asked: another
\* command may be mounting at the same path.
RunSSHFS(s, b, p) ==
    /\ Spent /\ b \in guestUp /\ ~IsMounted(p)
    /\ \A w \in polling : w.by # s
    /\ sshfs' = sshfs \cup {[by |-> s, box |-> b, path |-> p]}
    /\ polling' = polling \cup {[by |-> s, box |-> b, path |-> p]}
    /\ crossedAt' = IF \E w \in polling \cup sshfs : w.path = p
                    THEN crossedAt \cup {p} ELSE crossedAt
    /\ UNCHANGED <<guestUp, created, mtab, dangling, mountsJson, unrecorded, stale>>

\* sshfs w mounts, over what is there, or exits with an error, which ends the
\* wait of its command while nothing is mounted.
SshfsMounts(w) ==
    /\ w \in sshfs /\ sshfs' = sshfs \ {w}
    /\ \/ /\ w.box \in guestUp
          /\ mtab' = [mtab EXCEPT ![w.path] = <<w.box>> \o @]
          /\ unrecorded' = IF w.by = 0 THEN unrecorded \cup {w.path}
                           ELSE unrecorded
          /\ UNCHANGED polling
       \/ /\ polling' = IF IsMounted(w.path) THEN polling ELSE polling \ {w}
          /\ UNCHANGED <<mtab, unrecorded>>
    /\ UNCHANGED <<guestUp, created, dangling, mountsJson, stale, crossedAt, mntSteps>>

\* An sshfs no command waits for any more.
LeftAlone(w) == {[x EXCEPT !.by = IF x = w THEN 0 ELSE @] : x \in sshfs}

\* The poll sees a mount at the path, anybody's: it is recorded for the
\* command's instance, or the write of mounts.json fails with a warning. (A
\* write lost to another command's between its load and its save is the same.)
AddMountRecord(w) ==
    /\ w \in polling /\ IsMounted(w.path)
    /\ polling' = polling \ {w} /\ sshfs' = LeftAlone(w)
    /\ \/ /\ w.box \in created
          /\ mountsJson' = [mountsJson EXCEPT ![w.box] = @ \cup {w.path}]
          /\ UNCHANGED unrecorded
       \/ unrecorded' = unrecorded \cup {w.path} /\ UNCHANGED mountsJson
    /\ UNCHANGED <<guestUp, created, mtab, dangling, stale, crossedAt, mntSteps>>

\* Ten seconds pass first, or abox is interrupted: it gives up.  The process it
\* kills may be the parent of an sshfs that is in the background already.
MountTimeout(w) ==
    /\ w \in polling /\ ~IsMounted(w.path)
    /\ polling' = polling \ {w}
    /\ sshfs' \in {sshfs \ {w}, LeftAlone(w)}
    /\ UNCHANGED <<guestUp, created, mtab, dangling, mountsJson, mntHist, mntSteps>>

-----------------------------------------------------------------------------
(* abox unmount                                                            *)

RemovedFromAll(p) == [b \in MountGuests |-> mountsJson[b] \ {p}]

\* unmountPath: refused for a path that is not mounted, unless forced; then
\* the record leaves every instance's mounts.json, where the writes succeed.
\* fusermount may fail (the mount is busy, or with --force was not there), and
\* then nothing changes.
UnmountPath(p, force) ==
    /\ Spent /\ (force \/ IsMounted(p))
    /\ mtab' = Detached({p}) /\ dangling' = dangling \ {p}
    /\ \/ mountsJson' = RemovedFromAll(p) /\ UNCHANGED stale
       \/ UNCHANGED mountsJson /\ stale' = stale \cup {p}
    /\ unrecorded' = unrecorded \ {p}
    /\ UNCHANGED <<guestUp, created, sshfs, polling, crossedAt>>

\* unmountInstance: each recorded path in turn; the record of one that is not
\* mounted is dropped, a busy one keeps its record and its mount.
UnmountInstance(b, force, busy) ==
    LET gone == {p \in mountsJson[b] : force \/ IsMounted(p)} \ busy
        left == {p \in mountsJson[b] \cap busy : force \/ IsMounted(p)}
    IN  /\ Spent /\ b \in created /\ mountsJson[b] # {} /\ busy \subseteq mountsJson[b]
        /\ mtab' = Detached(gone)
        /\ dangling' = dangling \ gone
        /\ \/ mountsJson' = [mountsJson EXCEPT ![b] = left] /\ UNCHANGED stale
           \/ UNCHANGED mountsJson /\ stale' = stale \cup gone
        /\ unrecorded' = unrecorded \ gone
        /\ UNCHANGED <<guestUp, created, sshfs, polling, crossedAt>>

-----------------------------------------------------------------------------
(* Around them.                                                            *)

\* The guest stops: its mounts dangle.
GuestStops(b) ==
    /\ Spent /\ b \in guestUp
    /\ guestUp' = guestUp \ {b}
    /\ dangling' = dangling \cup {p \in LocalPaths : b \in ToSet(mtab[p])}
    /\ UNCHANGED <<created, mtab, mountsJson, sshfs, polling, mntHist>>

\* `abox remove` deletes the instance's directory with mounts.json in it; it
\* unmounts nothing.
RemoveInstance(b) ==
    /\ Spent /\ b \in created \ guestUp
    /\ created' = created \ {b}
    /\ mountsJson' = [mountsJson EXCEPT ![b] = {}]
    /\ UNCHANGED <<guestUp, mtab, dangling, sshfs, polling, mntHist>>

\* fusermount -u without abox.
UnmountByHand(p) ==
    /\ Spent /\ IsMounted(p)
    /\ mtab' = Detached({p}) /\ dangling' = dangling \ {p}
    /\ stale' = stale \cup {p} /\ unrecorded' = unrecorded \ {p}
    /\ UNCHANGED <<guestUp, created, mountsJson, sshfs, polling, crossedAt>>

MntNext ==
    \/ \E p \in LocalPaths :
          \/ UnmountByHand(p)
          \/ \E f \in BOOLEAN : UnmountPath(p, f)
          \/ \E b \in MountGuests, s \in Mounters : RunSSHFS(s, b, p)
    \/ \E w \in sshfs : SshfsMounts(w)
    \/ \E w \in polling : AddMountRecord(w) \/ MountTimeout(w)
    \/ \E b \in MountGuests :
          \/ GuestStops(b) \/ RemoveInstance(b)
          \/ \E f \in BOOLEAN, busy \in SUBSET LocalPaths :
                UnmountInstance(b, f, busy)

-----------------------------------------------------------------------------

\* Every mount of an instance that exists is in its mounts.json, so
\* `unmount <instance>` finds it, dangling or not - except one that abox gave
\* up on, could not record or has yet to, and paths mounted at twice at once.
MountsRecorded ==
    \A p \in LocalPaths \ (unrecorded \cup crossedAt \cup {w.path : w \in polling}) :
        \A b \in ToSet(mtab[p]) \cap created : p \in mountsJson[b]

\* A record names a path nobody else's guest is mounted at, so
\* `unmount <instance>` never detaches another instance's files - except
\* where a record was left behind (a mount undone by hand, a failed write) and
\* where two mounts were tried at one path at once: both may be recorded.
RecordsOwn ==
    \A b \in MountGuests : \A p \in mountsJson[b] \ (stale \cup crossedAt) :
        ToSet(mtab[p]) \subseteq {b}
=============================================================================
