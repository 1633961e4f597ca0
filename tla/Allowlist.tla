----------------------------- MODULE Allowlist -----------------------------
(***************************************************************************)
(* The allowlist of one instance.  One file on disk is shared by two filter *)
(* daemons, DNS and HTTP.  Each daemon holds an in-memory filter, loads it  *)
(* from the file, and has a watcher goroutine that reloads it on every      *)
(* notified change.  CLI processes change the file through the DNS daemon   *)
(* (add, remove), ask both daemons to reload (reload), or write the file    *)
(* themselves (edit, up).                                                   *)
(*                                                                          *)
(* Sources: internal/allowlist/{api,loader,filter,diff}.go,                 *)
(* internal/filterbase/setup.go, pkg/cmd/allowlist/*, pkg/cmd/up/up.go.     *)
(***************************************************************************)
EXTENDS Naturals, FiniteSets

CONSTANTS
  Domains,   \* domain names, already lower case and punycode
  Entries,   \* the lines a user may write: a name, with or without "*."
  Clients,   \* CLI processes
  DNS, HTTP, \* the two filter daemons
  Nobody,    \* the value of writeMu when no handler holds it
  Commands,  \* the CLI commands the clients run
  Declared,  \* the allowlist block of abox.yaml
  InitFile,  \* the file's lines at the start
  MaxCmds,   \* bound: commands run in a behaviour
  MaxFaults, \* bound: I/O errors in a behaviour
  MaxBoots   \* bound: daemon starts in a behaviour

Daemons == {DNS, HTTP}

AllCommands == {"add", "remove", "reload", "edit", "up"}

\* "*." is stripped from a line before it is stored or compared.
Canon(e) == [e EXCEPT !.wild = FALSE]

ASSUME EntriesAssumption ==
  /\ Entries \subseteq [name : Domains, wild : BOOLEAN]
  /\ Entries # {}
  /\ \A e \in Entries : Canon(e) \in Entries
ASSUME ProcessAssumption == DNS # HTTP /\ Nobody \notin Clients
ASSUME InputAssumption ==
  /\ Commands \subseteq AllCommands
  /\ Declared \subseteq Entries
  /\ InitFile \subseteq Entries
ASSUME BoundAssumption == MaxCmds \in Nat /\ MaxFaults \in Nat /\ MaxBoots \in Nat

VARIABLES
  file,    \* the lines of allowlist.conf (comments and order left out)
  mtime,   \* its modification time: the number of writes so far
  ino,     \* its inode: the number of renames over the path so far
  phase,   \* per daemon: down, loaded (Load done, Watch not), watching, deaf
  filter,  \* per daemon: the radix tree's keys
  pending, \* per daemon: an fsnotify event waits in the watcher's channel
  wpc,     \* per daemon: the watcher is idle, or between parse and Replace
  snap,    \* per daemon: what the watcher parsed
  mu,      \* per daemon: the client whose handler holds writeMu
  drift,   \* history: why the filter may differ from the file unnoticed
  pc,      \* per client: where its command is
  at,      \* per client: the daemon its RPC is sent to
  arg,     \* per client: the entry given on the command line
  buf,     \* per client: lines held in memory or in a temporary file
  base,    \* per client: the lines `edit` copied
  seen,    \* per client: the modification time `edit`, the inode `up` recorded
  reply,   \* per client: the answer of its last RPC
  cmds, faults, boots \* bounded counters

daemonVars == <<phase, filter, pending, wpc, snap, mu, drift>>
clientVars == <<pc, at, arg, buf, base, seen, reply>>
vars == <<file, mtime, ino, daemonVars, clientVars, cmds, faults, boots>>

Causes == {"none", "boot", "io", "reload"}

PCs == {"idle", "add", "addSave", "remove", "rmRead", "rmWrite",
        "reload", "rlReplace", "edCopy", "edEqual", "edCheck", "edSave",
        "upTrunc", "upWrite"}

Replies == {"none", "added", "known", "removed", "notfound", "error", "done"}

TypeOK ==
  /\ file \in SUBSET Entries
  /\ mtime \in Nat /\ ino \in Nat
  /\ phase \in [Daemons -> {"down", "loaded", "watching", "deaf"}]
  /\ filter \in [Daemons -> SUBSET Entries]
  /\ pending \in [Daemons -> BOOLEAN]
  /\ wpc \in [Daemons -> {"idle", "parsed"}]
  /\ snap \in [Daemons -> SUBSET Entries]
  /\ mu \in [Daemons -> Clients \cup {Nobody}]
  /\ drift \in [Daemons -> Causes]
  /\ pc \in [Clients -> PCs]
  /\ at \in [Clients -> Daemons]
  /\ arg \in [Clients -> Entries]
  /\ buf \in [Clients -> SUBSET Entries]
  /\ base \in [Clients -> SUBSET Entries]
  /\ seen \in [Clients -> Nat]
  /\ reply \in [Clients -> Replies]
  /\ cmds \in Nat /\ faults \in Nat /\ boots \in Nat

----------------------------------------------------------------------------
\* Mutant: the parser keeps bare names where the filter's keys are entries.
CanonSetOfNames(S) == {e.name : e \in S}

CanonSet(S) == {Canon(e) : e \in S}

\* Mutant: RemoveDomain matches the exact spelling only.
WithoutSpelling(S, e) == {f \in S : f # e}

Without(S, e) == {f \in S : Canon(f) # Canon(e)}

Listed(S, e) == \E f \in S : Canon(f) = Canon(e)

Serving(d) == phase[d] \in {"watching", "deaf"}

Init ==
  /\ file = InitFile
  /\ mtime = 0 /\ ino = 0
  /\ phase \in [Daemons -> {"down", "watching"}]
  /\ filter = [d \in Daemons |-> IF phase[d] = "down" THEN {} ELSE CanonSet(file)]
  /\ pending = [d \in Daemons |-> FALSE]
  /\ wpc = [d \in Daemons |-> "idle"]
  /\ snap = [d \in Daemons |-> {}]
  /\ mu = [d \in Daemons |-> Nobody]
  /\ drift = [d \in Daemons |-> "none"]
  /\ pc = [c \in Clients |-> "idle"]
  /\ at = [c \in Clients |-> DNS]
  /\ arg = [c \in Clients |-> CHOOSE e \in Entries : TRUE]
  /\ buf = [c \in Clients |-> {}]
  /\ base = [c \in Clients |-> {}]
  /\ seen = [c \in Clients |-> 0]
  /\ reply = [c \in Clients |-> "none"]
  /\ cmds = 0 /\ faults = 0 /\ boots = 0

\* Mutant: a change made while the watcher is reloading raises no event.
ContentsUnseen(S) ==
  /\ file' = S
  /\ mtime' = mtime + 1
  /\ pending' = [d \in Daemons |-> pending[d] \/ (phase[d] = "watching" /\ wpc[d] = "idle")]

\* The file's contents change: a new modification time, and an event for every
\* daemon whose watcher has been added to the directory.
Contents(S) ==
  /\ file' = S
  /\ mtime' = mtime + 1
  /\ pending' = [d \in Daemons |-> pending[d] \/ phase[d] = "watching"]

\* A write through an open descriptor, and a rename over the path.
Write(S) == Contents(S) /\ UNCHANGED ino

Rename(S) == Contents(S) /\ ino' = ino + 1

Fault == faults < MaxFaults /\ faults' = faults + 1

----------------------------------------------------------------------------
(* A daemon process: start, watcher goroutine, death.                      *)

\* SetupDaemon: the filter is loaded before the watch is set up.
Boot(d) ==
  /\ phase[d] = "down" /\ boots < MaxBoots
  /\ boots' = boots + 1
  /\ phase' = [phase EXCEPT ![d] = "loaded"]
  /\ filter' = [filter EXCEPT ![d] = CanonSet(file)]
  /\ drift' = [drift EXCEPT ![d] = "none"]
  /\ UNCHANGED <<file, mtime, ino, pending, wpc, snap, mu, clientVars, cmds, faults>>

\* Loader.Watch: events count from here on.
Watch(d) ==
  /\ phase[d] = "loaded"
  /\ phase' = [phase EXCEPT ![d] = "watching"]
  /\ drift' = [drift EXCEPT ![d] = IF filter[d] = CanonSet(file) THEN @ ELSE "boot"]
  /\ UNCHANGED <<file, mtime, ino, filter, pending, wpc, snap, mu, clientVars,
                 cmds, faults, boots>>

\* A failed Watch is only a warning: the daemon serves without a watcher.
WatchFails(d) ==
  /\ phase[d] = "loaded" /\ Fault
  /\ phase' = [phase EXCEPT ![d] = "deaf"]
  /\ UNCHANGED <<file, mtime, ino, filter, pending, wpc, snap, mu, drift, clientVars,
                 cmds, boots>>

\* watchLoop takes an event off the channel and Load parses the file.
WatchParse(d) ==
  /\ phase[d] = "watching" /\ wpc[d] = "idle" /\ pending[d]
  /\ pending' = [pending EXCEPT ![d] = FALSE]
  /\ wpc' = [wpc EXCEPT ![d] = "parsed"]
  /\ snap' = [snap EXCEPT ![d] = CanonSet(file)]
  /\ UNCHANGED <<file, mtime, ino, phase, filter, mu, drift, clientVars, cmds, faults, boots>>

\* The parse fails: Load returns the error and the filter is kept.
WatchParseFails(d) ==
  /\ phase[d] = "watching" /\ wpc[d] = "idle" /\ pending[d] /\ Fault
  /\ pending' = [pending EXCEPT ![d] = FALSE]
  /\ drift' = [drift EXCEPT ![d] = "io"]
  /\ UNCHANGED <<file, mtime, ino, phase, filter, wpc, snap, mu, clientVars, cmds, boots>>

\* Mutant: the watcher drops the events that came in while it was reloading.
WatchReplaceDrains(d) ==
  /\ wpc[d] = "parsed"
  /\ wpc' = [wpc EXCEPT ![d] = "idle"]
  /\ filter' = [filter EXCEPT ![d] = snap[d]]
  /\ snap' = [snap EXCEPT ![d] = {}]
  /\ drift' = [drift EXCEPT ![d] = "none"]
  /\ pending' = [pending EXCEPT ![d] = FALSE]
  /\ UNCHANGED <<file, mtime, ino, phase, mu, clientVars, cmds, faults, boots>>

\* Load's second half: Filter.Replace.  The watcher never takes writeMu.
WatchReplace(d) ==
  /\ wpc[d] = "parsed"
  /\ wpc' = [wpc EXCEPT ![d] = "idle"]
  /\ filter' = [filter EXCEPT ![d] = snap[d]]
  /\ snap' = [snap EXCEPT ![d] = {}]
  /\ drift' = [drift EXCEPT ![d] = "none"]
  /\ UNCHANGED <<file, mtime, ino, phase, pending, mu, clientVars, cmds, faults, boots>>

----------------------------------------------------------------------------
(* A client's command.                                                     *)

Goto(c, label) == pc' = [pc EXCEPT ![c] = label]

Reply(c, r) == reply' = [reply EXCEPT ![c] = r]

Start(c, cmd) ==
  /\ pc[c] = "idle" /\ cmd \in Commands /\ cmds < MaxCmds
  /\ cmds' = cmds + 1
  /\ Reply(c, "none")

\* Mutant: a handler does not wait for writeMu.
LockFree(c, d) == mu' = [mu EXCEPT ![d] = c]

Lock(c, d) == mu[d] = Nobody /\ mu' = [mu EXCEPT ![d] = c]

Unlock(d) == mu' = [mu EXCEPT ![d] = Nobody]

\* add and remove dial the DNS daemon only.
CallAdd(c, e) ==
  /\ Start(c, "add") /\ Serving(DNS)
  /\ Goto(c, "add")
  /\ at' = [at EXCEPT ![c] = DNS]
  /\ arg' = [arg EXCEPT ![c] = e]
  /\ UNCHANGED <<file, mtime, ino, daemonVars, buf, base, seen, faults, boots>>

CallRemove(c, e) ==
  /\ Start(c, "remove") /\ Serving(DNS)
  /\ Goto(c, "remove")
  /\ at' = [at EXCEPT ![c] = DNS]
  /\ arg' = [arg EXCEPT ![c] = e]
  /\ UNCHANGED <<file, mtime, ino, daemonVars, buf, base, seen, faults, boots>>

\* Add: the filter gains the entry as typed ("*." is kept) ...
AddFilter(c) ==
  /\ pc[c] = "add" /\ arg[c] \notin filter[DNS]
  /\ Lock(c, DNS)
  /\ filter' = [filter EXCEPT ![DNS] = @ \cup {arg[c]}]
  /\ Goto(c, "addSave")
  /\ UNCHANGED <<file, mtime, ino, phase, pending, wpc, snap, drift, at, arg, buf, base,
                 seen, reply, cmds, faults, boots>>

\* ... or has it already, and the file is not looked at.
AddKnown(c) ==
  /\ pc[c] = "add" /\ mu[DNS] = Nobody /\ arg[c] \in filter[DNS]
  /\ Goto(c, "idle") /\ Reply(c, "known")
  /\ UNCHANGED <<file, mtime, ino, daemonVars, at, arg, buf, base, seen, cmds, faults, boots>>

\* SaveDomain: append one line.
AddSave(c) ==
  /\ pc[c] = "addSave"
  /\ Write(file \cup {arg[c]})
  /\ Unlock(DNS)
  /\ Goto(c, "idle") /\ Reply(c, "added")
  /\ UNCHANGED <<phase, filter, wpc, snap, drift, at, arg, buf, base, seen, cmds,
                 faults, boots>>

\* SaveDomain fails: the error is returned, the filter keeps the entry.
AddSaveFails(c) ==
  /\ pc[c] = "addSave" /\ Fault
  /\ Unlock(DNS)
  /\ drift' = [drift EXCEPT ![DNS] = "io"]
  /\ Goto(c, "idle") /\ Reply(c, "error")
  /\ UNCHANGED <<file, mtime, ino, phase, filter, pending, wpc, snap, at, arg, buf, base,
                 seen, cmds, boots>>

\* Remove: the filter loses the entry ...
RemoveFilter(c) ==
  /\ pc[c] = "remove" /\ arg[c] \in filter[DNS]
  /\ Lock(c, DNS)
  /\ filter' = [filter EXCEPT ![DNS] = @ \ {arg[c]}]
  /\ Goto(c, "rmRead")
  /\ UNCHANGED <<file, mtime, ino, phase, pending, wpc, snap, drift, at, arg, buf, base,
                 seen, reply, cmds, faults, boots>>

\* ... or does not have it: NotFound, and the file is not looked at.
RemoveMissing(c) ==
  /\ pc[c] = "remove" /\ mu[DNS] = Nobody /\ arg[c] \notin filter[DNS]
  /\ Goto(c, "idle") /\ Reply(c, "notfound")
  /\ UNCHANGED <<file, mtime, ino, daemonVars, at, arg, buf, base, seen, cmds, faults, boots>>

\* RemoveDomain reads the lines it keeps; without a match nothing is written.
RemoveRead(c) ==
  /\ pc[c] = "rmRead"
  /\ IF Listed(file, arg[c])
       THEN /\ buf' = [buf EXCEPT ![c] = Without(file, arg[c])]
            /\ Goto(c, "rmWrite")
            /\ UNCHANGED <<mu, reply>>
       ELSE /\ Unlock(DNS)
            /\ Goto(c, "idle") /\ Reply(c, "removed")
            /\ UNCHANGED buf
  /\ UNCHANGED <<file, mtime, ino, phase, filter, pending, wpc, snap, drift, at, arg, base,
                 seen, cmds, faults, boots>>

\* atomicWriteLines: temporary file, fsync, rename.
RemoveWrite(c) ==
  /\ pc[c] = "rmWrite"
  /\ Rename(buf[c])
  /\ Unlock(DNS)
  /\ Goto(c, "idle") /\ Reply(c, "removed")
  /\ UNCHANGED <<phase, filter, wpc, snap, drift, at, arg, buf, base, seen, cmds,
                 faults, boots>>

\* The read or the rewrite fails: the error is returned, the filter lacks it.
RemoveFails(c) ==
  /\ pc[c] \in {"rmRead", "rmWrite"} /\ Fault
  /\ Unlock(DNS)
  /\ drift' = [drift EXCEPT ![DNS] = "io"]
  /\ Goto(c, "idle") /\ Reply(c, "error")
  /\ UNCHANGED <<file, mtime, ino, phase, filter, pending, wpc, snap, at, arg, buf, base,
                 seen, cmds, boots>>

\* reload calls the DNS daemon, then the HTTP daemon; an error at one does
\* not keep it from calling the other.
ReloadNext(c) ==
  IF at[c] = DNS
    THEN Goto(c, "reload") /\ at' = [at EXCEPT ![c] = HTTP] /\ UNCHANGED reply
    ELSE Goto(c, "idle") /\ Reply(c, "done") /\ UNCHANGED at

CallReload(c) ==
  /\ Start(c, "reload")
  /\ Goto(c, "reload")
  /\ at' = [at EXCEPT ![c] = DNS]
  /\ UNCHANGED <<file, mtime, ino, daemonVars, arg, buf, base, seen, faults, boots>>

\* Reload: the handler parses the file under writeMu ...
ReloadParse(c) ==
  /\ pc[c] = "reload" /\ Serving(at[c])
  /\ Lock(c, at[c])
  /\ buf' = [buf EXCEPT ![c] = CanonSet(file)]
  /\ Goto(c, "rlReplace")
  /\ UNCHANGED <<file, mtime, ino, phase, filter, pending, wpc, snap, drift, at, arg,
                 base, seen, reply, cmds, faults, boots>>

\* ... and replaces the filter by what it parsed.
ReloadReplace(c) ==
  /\ pc[c] = "rlReplace"
  /\ filter' = [filter EXCEPT ![at[c]] = buf[c]]
  /\ drift' = [drift EXCEPT ![at[c]] = IF buf[c] = CanonSet(file) THEN "none" ELSE "reload"]
  /\ Unlock(at[c])
  /\ ReloadNext(c)
  /\ UNCHANGED <<file, mtime, ino, phase, pending, wpc, snap, arg, buf, base, seen,
                 cmds, faults, boots>>

\* The daemon is not running, or its parse fails.
ReloadFails(c) ==
  /\ pc[c] = "reload"
  /\ \/ ~Serving(at[c]) /\ UNCHANGED faults
     \/ Serving(at[c]) /\ mu[at[c]] = Nobody /\ Fault
  /\ ReloadNext(c)
  /\ UNCHANGED <<file, mtime, ino, daemonVars, arg, buf, base, seen, cmds, boots>>

\* What a user may leave in the editor.
Edited(S) == {S} \cup {S \cup {e} : e \in Entries} \cup {S \ {e} : e \in Entries}

\* edit: the modification time is recorded before the copy is made.
EditOpen(c) ==
  /\ Start(c, "edit")
  /\ seen' = [seen EXCEPT ![c] = mtime]
  /\ Goto(c, "edCopy")
  /\ UNCHANGED <<file, mtime, ino, daemonVars, at, arg, buf, base, faults, boots>>

EditCopy(c) ==
  /\ pc[c] = "edCopy"
  /\ base' = [base EXCEPT ![c] = file]
  /\ \E S \in Edited(file) : buf' = [buf EXCEPT ![c] = S]
  /\ Goto(c, "edEqual")
  /\ UNCHANGED <<file, mtime, ino, daemonVars, at, arg, seen, reply, cmds, faults, boots>>

\* Mutant: the modification time is recorded again when the editor returns.
EditEqualRestamps(c) ==
  /\ pc[c] = "edEqual"
  /\ file # buf[c] /\ Goto(c, "edCheck")
  /\ seen' = [seen EXCEPT ![c] = mtime]
  /\ UNCHANGED <<file, mtime, ino, daemonVars, at, arg, buf, base, reply, cmds,
                 faults, boots>>

\* filesEqual: nothing to save; or the user gave up on an invalid file.
EditEqual(c) ==
  /\ pc[c] = "edEqual"
  /\ \/ file # buf[c] /\ Goto(c, "edCheck")
     \/ Goto(c, "idle")
  /\ UNCHANGED <<file, mtime, ino, daemonVars, at, arg, buf, base, seen, reply, cmds,
                 faults, boots>>

\* handleConflict: the file is unchanged since it was opened ...
EditCheck(c) ==
  /\ pc[c] = "edCheck" /\ mtime = seen[c]
  /\ Goto(c, "edSave")
  /\ UNCHANGED <<file, mtime, ino, daemonVars, at, arg, buf, base, seen, reply, cmds,
                 faults, boots>>

\* ... or the user overwrites, keeps the original, or edits again.
EditConflict(c) ==
  /\ pc[c] = "edCheck" /\ mtime # seen[c]
  /\ \/ Goto(c, "edSave") /\ UNCHANGED buf
     \/ Goto(c, "idle") /\ UNCHANGED buf
     \/ \E S \in Edited(buf[c]) :
          /\ buf' = [buf EXCEPT ![c] = S]
          /\ Goto(c, IF S = file THEN "idle" ELSE "edSave")
  /\ UNCHANGED <<file, mtime, ino, daemonVars, at, arg, base, seen, reply, cmds,
                 faults, boots>>

\* saveAndReload: rename, then reload unless --no-reload was given.
EditSave(c) ==
  /\ pc[c] = "edSave"
  /\ Rename(buf[c])
  /\ Goto(c, "reload") \/ Goto(c, "idle")
  /\ at' = [at EXCEPT ![c] = DNS]
  /\ UNCHANGED <<phase, filter, wpc, snap, mu, drift, arg, buf, base, seen, reply,
                 cmds, faults, boots>>

\* up, decision Replace: only where the two domain sets differ.
UpResolve(c) ==
  /\ Start(c, "up") /\ CanonSet(file) # CanonSet(Declared)
  /\ Goto(c, "upTrunc")
  /\ UNCHANGED <<file, mtime, ino, daemonVars, at, arg, buf, base, seen, faults, boots>>

\* WriteAllowlist is os.WriteFile: open with truncation, then write.
UpTruncate(c) ==
  /\ pc[c] = "upTrunc"
  /\ Write({})
  /\ seen' = [seen EXCEPT ![c] = ino]
  /\ Goto(c, "upWrite")
  /\ UNCHANGED <<phase, filter, wpc, snap, mu, drift, at, arg, buf, base, reply, cmds,
                 faults, boots>>

\* The write goes to the inode that was opened, at offset 0: lines appended
\* since are overwritten, and a file renamed over the path is not reached.
UpWrite(c) ==
  /\ pc[c] = "upWrite"
  /\ IF seen[c] = ino THEN Write(Declared) ELSE UNCHANGED <<file, mtime, ino, pending>>
  /\ Goto(c, "idle")
  /\ UNCHANGED <<phase, filter, wpc, snap, mu, drift, at, arg, buf, base, seen, reply,
                 cmds, faults, boots>>

UpWriteFails(c) ==
  /\ pc[c] = "upWrite" /\ Fault
  /\ Goto(c, "idle")
  /\ UNCHANGED <<file, mtime, ino, daemonVars, at, arg, buf, base, seen, reply, cmds, boots>>

----------------------------------------------------------------------------
\* The client has a handler goroutine in daemon d.
InRPC(c, d) ==
  at[c] = d /\ pc[c] \in {"add", "addSave", "remove", "rmRead", "rmWrite", "rlReplace"}

\* The process ends, by a signal or a crash; its handlers and lock go with it.
Exit(d) ==
  /\ phase[d] # "down"
  /\ phase' = [phase EXCEPT ![d] = "down"]
  /\ filter' = [filter EXCEPT ![d] = {}]
  /\ pending' = [pending EXCEPT ![d] = FALSE]
  /\ wpc' = [wpc EXCEPT ![d] = "idle"]
  /\ snap' = [snap EXCEPT ![d] = {}]
  /\ Unlock(d)
  /\ drift' = [drift EXCEPT ![d] = "none"]
  /\ LET again(c) == pc[c] = "rlReplace" /\ d = DNS
     IN /\ pc' = [c \in Clients |-> IF ~InRPC(c, d) THEN pc[c]
                                    ELSE IF again(c) THEN "reload" ELSE "idle"]
        /\ at' = [c \in Clients |-> IF InRPC(c, d) /\ again(c) THEN HTTP ELSE at[c]]
        /\ reply' = [c \in Clients |-> IF InRPC(c, d) THEN "error" ELSE reply[c]]
  /\ UNCHANGED <<file, mtime, ino, arg, buf, base, seen, cmds, faults, boots>>

DaemonStep(d) ==
  \/ Watch(d) \/ WatchParse(d) \/ WatchReplace(d)

HandlerStep(c) ==
  \/ AddFilter(c) \/ AddKnown(c) \/ AddSave(c)
  \/ RemoveFilter(c) \/ RemoveMissing(c) \/ RemoveRead(c) \/ RemoveWrite(c)
  \/ ReloadReplace(c)

CommandStep(c) ==
  \/ \E e \in Entries : CallAdd(c, e) \/ CallRemove(c, e)
  \/ CallReload(c) \/ ReloadParse(c)
  \/ EditOpen(c) \/ EditCopy(c) \/ EditEqual(c) \/ EditCheck(c) \/ EditConflict(c)
  \/ EditSave(c)
  \/ UpResolve(c) \/ UpTruncate(c) \/ UpWrite(c)

Failure ==
  \/ \E d \in Daemons : WatchFails(d) \/ WatchParseFails(d) \/ Exit(d)
  \/ \E c \in Clients : AddSaveFails(c) \/ RemoveFails(c) \/ ReloadFails(c) \/ UpWriteFails(c)

Next ==
  \/ \E d \in Daemons : Boot(d) \/ DaemonStep(d)
  \/ \E c \in Clients : HandlerStep(c) \/ CommandStep(c)
  \/ Failure

Spec == Init /\ [][Next]_vars

\* The Go runtime schedules a daemon's runnable goroutines; CLI processes are
\* driven by a user and may stop at any point.
Fairness ==
  /\ \A d \in Daemons : WF_vars(DaemonStep(d))
  /\ \A c \in Clients : WF_vars(HandlerStep(c))

FairSpec == Spec /\ Fairness

----------------------------------------------------------------------------
(* Properties.                                                             *)

\* Daemon d has nothing left to do: no event, no reload, no handler.
Settled(d) ==
  phase[d] = "watching" /\ ~pending[d] /\ wpc[d] = "idle" /\ mu[d] = Nobody

\* A watching daemon with no event, reload or handler on the way filters by the
\* file's current lines, unless one of three recorded things happened since its
\* last good load: a change between Load and Watch, an I/O error that was
\* reported, or a reload RPC that applied lines parsed before a change.
NoSilentDrift ==
  \A d \in Daemons : Settled(d) => filter[d] = CanonSet(file) \/ drift[d] # "none"

\* Once commands stop coming, every watching daemon ends up, and stays, with the
\* file's lines in its filter (same three exceptions): the watcher catches up
\* with torn files, with overtaken reloads and with handlers that raced it.
EventuallyInSync ==
  \A d \in Daemons :
    <>[](phase[d] = "watching" => filter[d] = CanonSet(file) \/ drift[d] # "none")

\* When `remove` answers "removed", no line of the file, in any spelling, still
\* lists the domain: neither a reload nor a daemon restart can bring it back.
RemovePersists ==
  [][\A c \in Clients :
       reply[c] = "none" /\ reply'[c] = "removed" => ~Listed(file', arg[c])]_vars

\* When `edit` finds no conflict, the file still holds the lines the user was
\* shown: a change at any point since the copy is noticed by the check.
EditCheckSound ==
  [][\A c \in Clients :
       pc[c] = "edCheck" /\ pc'[c] = "edSave" /\ mtime = seen[c] => file = base[c]]_vars

\* No edit of the file is lost or overwritten unseen: what the `remove` and `edit`
\* commands say of the file is true of it when they say it.
FileEditsSound == RemovePersists /\ EditCheckSound

\* docs/filtering.md: "Changes also apply live to the running filters".  A daemon
\* with no event, reload or handler on the way filters by the file's lines.
LiveChanges == \A d \in Daemons : Settled(d) => filter[d] = CanonSet(file)

\* Through the API alone the file is an atomic store: every change of it is one
\* whole `add` or one whole `remove` of the current lines, so no edit is lost
\* between a remove's read and its rewrite (the purpose of writeMu).
Store == INSTANCE AllowlistStore WITH Canonical <- Canon
StoreSpec == Store!Spec

----------------------------------------------------------------------------
(* The inductive invariants behind NoSilentDrift and StoreSpec.            *)

Handling == {"addSave", "rmRead", "rmWrite", "rlReplace"}

\* writeMu is held by exactly the clients that are inside a handler.
LockInv ==
  /\ \A c \in Clients : pc[c] \in Handling => mu[at[c]] = c
  /\ \A c \in Clients : pc[c] \in {"add", "addSave", "remove", "rmRead", "rmWrite"}
                        => at[c] = DNS /\ Serving(DNS)
  /\ \A d \in Daemons : mu[d] # Nobody => pc[mu[d]] \in Handling /\ at[mu[d]] = d /\ Serving(d)
  /\ \A d \in Daemons : pending[d] \/ wpc[d] = "parsed" => phase[d] = "watching"

\* What a handler may have made of a filter that was in step with the file.
InStep(d) ==
  LET lines == CanonSet(file)
      c == mu[d]
  IN IF c = Nobody \/ pc[c] = "rlReplace"
       THEN filter[d] = lines
       ELSE IF pc[c] = "addSave"
         THEN lines \subseteq filter[d] /\ filter[d] \subseteq lines \cup {arg[c]}
         ELSE lines \ {arg[c]} \subseteq filter[d] /\ filter[d] \subseteq lines

SyncAt(d) ==
  phase[d] = "watching" /\ ~pending[d] =>
    /\ wpc[d] = "parsed" => snap[d] = CanonSet(file)
    /\ wpc[d] = "idle" /\ drift[d] = "none" => InStep(d)

SyncInv == \A d \in Daemons : SyncAt(d)

SyncIInv == TypeOK /\ LockInv /\ SyncInv

\* A remove about to rewrite the file holds the other lines of the file.
RewriteInv == \A c \in Clients : pc[c] = "rmWrite" => ~Listed(buf[c], arg[c])

EditInv ==
  \A c \in Clients :
    /\ pc[c] \in {"edCopy", "edEqual", "edCheck"} => seen[c] <= mtime
    /\ pc[c] \in {"edEqual", "edCheck"} /\ seen[c] = mtime => file = base[c]

FileIInv == TypeOK /\ RewriteInv /\ EditInv

\* With the API as the only writer, nothing changes under a remove.
StoreInv ==
  \A c \in Clients :
    /\ pc[c] \in {"idle", "add", "addSave", "remove", "rmRead", "rmWrite", "reload", "rlReplace"}
    /\ pc[c] = "rmWrite" => buf[c] = Without(file, arg[c])

============================================================================
