----------------------------- MODULE Selection -----------------------------
(***************************************************************************)
(* The choices abox makes from facts about the host, as operators: which   *)
(* backend serves an instance (internal/backend/registry.go,               *)
(* pkg/cmd/factory/factory.go), which binary and which tool gain           *)
(* privilege, which socket directories are accepted on the two sides of    *)
(* the privilege boundary, which group may read disk images, and what      *)
(* provisioning the storage root leaves behind (internal/privilege).       *)
(* Each is checked over small inputs against what it promises.             *)
(***************************************************************************)
EXTENDS Naturals, SequencesExt

Failed == "error"   \* among names
NoneFits == 99      \* among numbers
First(s, Test(_), default) ==
    LET hits == SelectSeq(s, Test) IN IF hits = <<>> THEN default ELSE Head(hits)

-----------------------------------------------------------------------------
(* Backends.  A registry maps a name (a number: names are compared) to its *)
(* priority, whether it is experimental and whether IsAvailable succeeds.  *)

RegisteredNames(reg) ==
    SetToSortSeq(DOMAIN reg,
        LAMBDA a, b : \/ reg[a].prio < reg[b].prio
                      \/ reg[a].prio = reg[b].prio /\ a < b)

AutoDetect(reg) ==
    First(RegisteredNames(reg), LAMBDA n : reg[n].avail /\ ~reg[n].exp, NoneFits)

Get(reg, n) == IF n \in DOMAIN reg /\ reg[n].avail THEN n ELSE NoneFits

IsExperimental(reg, n) == n \in DOMAIN reg /\ reg[n].exp

\* ForInstance: 0 stands for the empty name.
ForInstance(reg, recorded) ==
    IF recorded = 0 THEN AutoDetect(reg) ELSE Get(reg, recorded)

\* DefaultName: the first stable backend, else the first one, availability
\* aside.
DefaultName(reg) ==
    IF DOMAIN reg = {} THEN 0
    ELSE First(RegisteredNames(reg), LAMBDA n : ~reg[n].exp, Head(RegisteredNames(reg)))

\* resolveBackend: ABOX_BACKEND (0 when unset), else auto-detection.
ResolveBackend(reg, env) == IF env # 0 THEN Get(reg, env) ELSE AutoDetect(reg)

\* BackendForNew: ABOX_BACKEND, then abox.yaml, then auto-detection; abox.yaml
\* may not name an experimental backend.
BackendForNew(reg, env, preferred) ==
    IF env # 0 THEN ResolveBackend(reg, env)
    ELSE IF preferred # 0
         THEN IF IsExperimental(reg, preferred) THEN NoneFits ELSE Get(reg, preferred)
    ELSE AutoDetect(reg)

\* BackendFor, uncached: the recorded backend of an instance whose config.yaml
\* loads.
BackendFor(reg, env, loads, recorded) ==
    IF loads /\ recorded # 0 THEN Get(reg, recorded) ELSE ResolveBackend(reg, env)

-----------------------------------------------------------------------------
(* Binaries and tools that gain privilege                                  *)

\* A candidate binary as Lstat shows it; owner "unknown" where the platform
\* cannot tell.
Candidates == [there : BOOLEAN, regular : BOOLEAN, owner : {"root", "user", "unknown"},
               suid : BOOLEAN, group : {"abox", "other"}]

\* findSetuidHelper: the index of the first candidate that meets every
\* criterion, 0 for none.
FindSetuidHelper(cands, inGroup) ==
    First([i \in 1..Len(cands) |-> i],
          LAMBDA i : /\ cands[i].there /\ cands[i].regular /\ cands[i].owner = "root"
                     /\ cands[i].suid /\ cands[i].group = "abox" /\ inGroup, 0)

\* FindAboxBinary: the running executable; else the first candidate that is a
\* regular file of known owner, which is an error unless root owns it.
FindAboxBinary(selfKnown, cands) ==
    IF selfKnown THEN 0
    ELSE LET i == First([k \in 1..Len(cands) |-> k],
                        LAMBDA k : /\ cands[k].there /\ cands[k].regular
                                   /\ cands[k].owner # "unknown", 0)
         IN IF i # 0 /\ cands[i].owner = "root" THEN i ELSE NoneFits

\* SelectEscalationTool; method is ABOX_PRIVILEGE_METHOD, found the tools in PATH.
SelectEscalationTool(method, display, found) ==
    IF method # "" THEN IF method \in {"sudo", "pkexec"} /\ method \in found
                        THEN method ELSE Failed
    ELSE IF display /\ "pkexec" \in found THEN "pkexec"
    ELSE IF "sudo" \in found THEN "sudo"
    ELSE IF "pkexec" \in found THEN "pkexec"
    ELSE Failed

\* UserInGroup and inGID: real, effective or supplementary.
UserInGroup(gid, ids) == gid = ids.real \/ gid = ids.effective \/ gid \in ids.supplementary

\* resolveQEMUGroupGID: the configured group, the primary group of the first
\* QEMU user that exists (the configured one first), a known group.
ResolveQEMUGroup(conf, primary, groups) ==
    IF conf.group \in groups THEN conf.group
    ELSE LET u == First(<<conf.user, "libvirt-qemu", "qemu">>,
                        LAMBDA n : n # "" /\ n \in DOMAIN primary, "")
         IN IF u # "" THEN primary[u]
            ELSE First(<<"libvirt-qemu", "qemu", "kvm">>, LAMBDA g : g \in groups, Failed)

-----------------------------------------------------------------------------
(* Socket paths.  A directory as lstat shows it; "link" is a symbolic link *)
(* to a directory with the remaining attributes.                           *)

Dirs == [kind : {"dir", "link", "file", "none"}, owner : {"root", "me", "other"},
         shared : BOOLEAN]
Targets == [kind : {"none", "socket", "other"}, owner : {"root", "me", "other"}]

\* SecureRuntimeDir and assertSecureRuntimeDir follow a link (Stat).
SecureRuntimeDir(d) == d.kind \in {"dir", "link"} /\ ~d.shared /\ d.owner = "me"

ValidateSocketPath(f) == ~f.empty /\ f.clean /\ f.abs

\* The setuid helper does not follow links (Lstat), neither to the directory
\* nor at the target.
ValidateSetuidSocketPath(f, d, t) ==
    /\ ValidateSocketPath(f)
    /\ d.kind = "dir" /\ d.owner \in {"me", "root"} /\ ~d.shared
    /\ t.kind = "none" \/ (t.kind = "socket" /\ t.owner = "me")

\* validateExternalSocketPath: an existing socket of ours in the runtime directory
\* d or, as only the prefix of the path is compared, anywhere beneath it.
Places == {"in", "beneath", "elsewhere"}
ValidateExternalSocketPath(f, d, t, place) ==
    /\ f.abs /\ t.kind = "socket" /\ t.owner = "me" /\ SecureRuntimeDir(d)
    /\ place \in {"in", "beneath"}

-----------------------------------------------------------------------------
(* EnsureStorageRoot.  A tree is a sequence of entries in the order        *)
(* WalkDir visits them, the root first, then "instances" and "base".       *)

Entry == [kind : {"dir", "file", "disk", "link"}, nlink : 1..2,
          group : {"user", "qemu"}, gmode : {"none", "r", "rw", "setgid"}]

SharedStorageSubdirs == 1..3

\* ensureDir: refuses a link or a file in the directory's place, converges
\* owner, group and mode of a directory.
EnsureDir(e) ==
    IF e.kind = "dir" THEN [e EXCEPT !.group = "qemu", !.gmode = "setgid"] ELSE e

\* regroupFile: a file with another hard link is refused.
RegroupRefuses(e) == e.kind \in {"file", "disk"} /\ e.nlink > 1

\* regroupSubtree on one entry: a link changes group but not mode.
RegroupEntry(e) ==
    IF e.kind = "link" THEN [e EXCEPT !.group = "qemu"]
    ELSE [e EXCEPT !.group = "qemu",
                   !.gmode = CASE e.kind = "dir" -> "setgid"
                               [] e.kind = "disk" -> "rw"
                               [] OTHER -> "r"]

\* The handler: the allowlist of one path, the three directories, the walk up
\* to the first refused file.  Yields the tree and whether the call succeeded.
EnsureStorageRoot(pathIsOwn, groupKnown, regroup, tree) ==
    LET bad == {i \in SharedStorageSubdirs : tree[i].kind # "dir"}
        upto == IF bad = {} THEN 3 ELSE (CHOOSE i \in bad : \A j \in bad : i <= j) - 1
        dirs == [i \in DOMAIN tree |-> IF i <= upto THEN EnsureDir(tree[i]) ELSE tree[i]]
        stop == {i \in DOMAIN tree : RegroupRefuses(tree[i])}
        last == IF stop = {} THEN Len(tree) ELSE (CHOOSE i \in stop : \A j \in stop : i <= j) - 1
    IN IF ~pathIsOwn \/ ~groupKnown THEN [ok |-> FALSE, tree |-> tree]
       ELSE IF bad # {} THEN [ok |-> FALSE, tree |-> dirs]
       ELSE IF ~regroup THEN [ok |-> TRUE, tree |-> dirs]
       ELSE [ok |-> stop = {},
             tree |-> [i \in DOMAIN tree |-> IF i <= last THEN RegroupEntry(dirs[i]) ELSE dirs[i]]]

-----------------------------------------------------------------------------
(* What the choices promise, for a registry, a host or a tree.             *)

\* Auto-detection takes an available stable backend than which none has a better
\* priority (at equal priority, an earlier name), and fails only when there is
\* none; the default shown in help texts is it whenever it could be (AutoDetect,
\* DefaultName).
AutoDetectBest(reg) ==
    LET good == {n \in DOMAIN reg : reg[n].avail /\ ~reg[n].exp}
        got == AutoDetect(reg)
    IN /\ good = {} => got = NoneFits
       /\ good # {} => /\ got \in good
                       /\ \A n \in good \ {got} : \/ reg[got].prio < reg[n].prio
                                                  \/ reg[got].prio = reg[n].prio /\ got < n
       /\ DefaultName(reg) \in good => got = DefaultName(reg)

\* An experimental backend is chosen only by name, and never by an abox.yaml;
\* what abox.yaml names is chosen or refused, not replaced (BackendForNew).
ExperimentalByName(reg) ==
    \A preferred \in 0..3 :
        LET got == BackendForNew(reg, 0, preferred)
        IN /\ got # NoneFits => ~reg[got].exp
           /\ preferred # 0 => got \in {preferred, NoneFits}

\* The backend a new instance is given and records is the one every later command
\* uses, whatever ABOX_BACKEND says by then, as long as its config.yaml loads
\* (BackendForNew, BackendFor, ForInstance).
RecordedKept(reg) ==
    \A env, preferred, later \in 0..3 :
        LET got == BackendForNew(reg, env, preferred)
        IN got # NoneFits => BackendFor(reg, later, TRUE, got) = got /\ ForInstance(reg, got) = got

\* A binary other than the running one gains privilege only if root owns it and it
\* is a regular file; the setuid helper moreover only for a member of its group
\* (findSetuidHelper, FindAboxBinary, UserInGroup).
PrivilegedByRoot(cands, ids) ==
    LET Rooted(i) == cands[i].there /\ cands[i].regular /\ cands[i].owner = "root"
        helper == FindSetuidHelper(cands, UserInGroup("abox", ids))
        self == FindAboxBinary(FALSE, cands)
    IN /\ helper # 0 => /\ Rooted(helper) /\ cands[helper].suid
                        /\ cands[helper].group = "abox"
                        /\ "abox" \in {ids.real, ids.effective} \cup ids.supplementary
       /\ self \in DOMAIN cands \cup {0} => self # 0 /\ Rooted(self)

\* The directory abox puts its sockets in is one the setuid helper takes, unless it
\* is a symbolic link, and so is the path of a helper's socket that abox is handed, if
\* it lies in that directory itself: of a directory beneath it nothing is known
\* (SecureRuntimeDir, validateExternalSocketPath, ValidateSetuidSocketPath).
SocketDirsAgree(d, t, place) ==
    LET f == [empty |-> FALSE, clean |-> TRUE, abs |-> TRUE]
        fresh == [kind |-> "none", owner |-> "me"]
    IN /\ SecureRuntimeDir(d) /\ d.kind # "link" => ValidateSetuidSocketPath(f, d, fresh)
       /\ ValidateExternalSocketPath(f, d, t, place) /\ place # "beneath" /\ d.kind # "link"
            => ValidateSetuidSocketPath(f, d, t)
       /\ ValidateSetuidSocketPath(f, d, t) => ~d.shared /\ d.owner # "other"

\* Provisioning the storage root is repeatable: a second call changes nothing; one
\* that succeeded has regrouped every entry and left the disks writable to QEMU; and
\* one that stopped at a hard-linked file, called again once the file has its one
\* name, arrives where a first call would have (EnsureStorageRoot, regroupSubtree).
ProvisionConverges(tree) ==
    LET once == EnsureStorageRoot(TRUE, TRUE, TRUE, tree)
        mended == [i \in DOMAIN tree |-> [tree[i] EXCEPT !.nlink = 1]]
        Mend(r) == [i \in DOMAIN r |-> [r[i] EXCEPT !.nlink = 1]]
    IN /\ EnsureStorageRoot(TRUE, TRUE, TRUE, once.tree) = once
       /\ once.ok => \A i \in DOMAIN tree :
                        /\ once.tree[i].group = "qemu"
                        /\ tree[i].kind = "disk" => once.tree[i].gmode = "rw"
                        /\ tree[i].kind = "dir" => once.tree[i].gmode = "setgid"
       /\ EnsureStorageRoot(TRUE, TRUE, TRUE, Mend(once.tree))
            = EnsureStorageRoot(TRUE, TRUE, TRUE, mended)

\* Disk images are opened to a group of the host or of an account QEMU runs as,
\* the configured one first (resolveQEMUGroupGID).
QEMUGroupKnown(conf, primary, groups) ==
    LET got == ResolveQEMUGroup(conf, primary, groups)
    IN /\ conf.group \in groups => got = conf.group
       /\ got # Failed => got \in groups \cup {primary[u] : u \in DOMAIN primary}
       /\ got = Failed => groups \cap {"libvirt-qemu", "qemu", "kvm"} = {}

\* The tool that asks for the password is one the host has; a tool the user names
\* is not replaced by another; where one is there, one is found
\* (SelectEscalationTool).
ToolFound(method, display, found) ==
    LET got == SelectEscalationTool(method, display, found)
    IN /\ got # Failed => got \in found
       /\ method # "" => got \in {method, Failed}
       /\ method = "" /\ found # {} => got # Failed
=============================================================================
