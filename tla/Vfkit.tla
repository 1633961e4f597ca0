-------------------------------- MODULE Vfkit --------------------------------
(***************************************************************************)
(* The macOS backend's VM manager (internal/backend/vfkit/vm.go): a VM is a *)
(* detached vfkit process beside a vmnet-helper process, each found again   *)
(* only through its PID file (internal/childproc, internal/vfkit,           *)
(* internal/vmnethelper).  One command runs at a time; it may be killed at  *)
(* any step, processes may die at any time, and a freed PID may be taken by *)
(* an unrelated process or by a vfkit or vmnet-helper of another instance.  *)
(*                                                                          *)
(* Below macOS 26 the helper is started through sudo: the PID recorded is   *)
(* sudo's, and the two are one process here until sudo alone is killed.     *)
(***************************************************************************)
EXTENDS Naturals, FiniteSets

CONSTANTS
    Pids,        \* process ids, a set of positive numbers
    MaxRuns,     \* bound: commands
    MaxTroubles  \* bound: deaths, reused PIDs, failed calls and killed commands

\* What the constants must be.
VfkitAssumption == Pids \subseteq Nat \ {0} /\ MaxRuns \in Nat /\ MaxTroubles \in Nat

VARIABLES
    proc,     \* pid -> free, vm, helper (this instance's), other_vm, other_helper
              \* (another instance's), stranger
    pidfile,  \* vm, helper -> the pid recorded, 0 for no file
    defined,  \* the instance's UUID is recorded (Create)
    bridge,   \* the bridge recorded in the config, as the pid of its helper; 0 for none
    via,      \* the helper is the user's ("own"), started through sudo ("sudo"), or so
              \* with sudo -n kill refused ("deaf")
    vcmd,     \* the command: none, start, stop, force, remove
    vpc,      \* its step
    fresh,    \* the process just forked and not yet recorded, 0 for none
    vresult,  \* how the last command ended: "", started, refused, stopped, failed, removed
    victims,  \* history: what signals hit beside this instance's processes: another
              \* instance's ("namesake"), an unrelated process ("stranger")
    slip,     \* history: a PID changed hands between a look at it and the signal
    stray,    \* history: a helper was left running when its sudo was killed
    blind,    \* a command was killed between a fork and the PID file
    runs, troubles

vfVars == <<proc, pidfile, defined, bridge, via, vcmd, vpc, fresh, vresult, victims, slip,
            stray, blind, runs, troubles>>

VmKinds == {"vm", "helper"}

VfTypeOK ==
    /\ proc \in [Pids -> VmKinds \cup {"free", "other_vm", "other_helper", "stranger"}]
    /\ pidfile \in [VmKinds -> Pids \cup {0}]
    /\ defined \in BOOLEAN /\ bridge \in Pids \cup {0} /\ via \in {"own", "sudo", "deaf"}
    /\ vcmd \in {"none", "start", "stop", "force", "remove"}
    /\ vpc \in {"idle", "check", "reclaim", "fork", "json", "gateway", "launch", "live", "save",
                "rest", "wait", "term_vm", "aim_vm", "poll_vm", "kill_vm", "shoot_vm",
                "term_helper", "aim_helper", "poll_helper", "kill_helper", "shoot_helper",
                "force_vm", "fire_vm", "force_helper", "fire_helper", "clear"}
    /\ fresh \in Pids \cup {0}
    /\ vresult \in {"", "started", "refused", "stopped", "failed", "removed"}
    /\ victims \subseteq {"namesake", "stranger"}
    /\ slip \in BOOLEAN /\ stray \in BOOLEAN /\ blind \in BOOLEAN
    /\ runs \in 0..MaxRuns /\ troubles \in 0..MaxTroubles

VfInit ==
    /\ proc = [p \in Pids |-> "free"]
    /\ pidfile = [k \in VmKinds |-> 0]
    /\ defined = TRUE /\ bridge = 0
    /\ via \in {"own", "sudo", "deaf"}
    /\ vcmd = "none" /\ vpc = "idle" /\ fresh = 0 /\ vresult = ""
    /\ victims = {} /\ slip = FALSE /\ stray = FALSE /\ blind = FALSE /\ runs = 0 /\ troubles = 0

Trouble == troubles < MaxTroubles /\ troubles' = troubles + 1
Free == {p \in Pids : proc[p] = "free"}

---------------------------------------------------------------------------
(* childproc.Supervisor *)

\* The comm guard goes by the name of the program alone.
Named(k) == IF k = "vm" THEN {"vm", "other_vm"} ELSE {"helper", "other_helper"}

\* ReadPID succeeds, and the process has the name (Matches) and is alive.
SupRunning(k) == pidfile[k] # 0 /\ proc[pidfile[k]] \in Named(k)

\* A signal to a root-owned helper is refused unless an interactive stop or
\* remove may ask for the password (signalHelper).
Delivered(k) ==
    IF k = "helper" /\ via = "deaf"
    THEN IF vcmd \in {"stop", "remove"} THEN BOOLEAN ELSE {FALSE}
    ELSE {TRUE}

\* What a delivered signal hit.
Hit(k) ==
    victims' = victims \cup (CASE proc[pidfile[k]] = k -> {}
                               [] proc[pidfile[k]] \in Named(k) \ {k} -> {"namesake"}
                               [] OTHER -> {"stranger"})

\* The look before a signal (Matches runs ps): no PID file, a PID that is not one
\* of ours, whose file is removed, or one to be signalled.
SupLook(k, done, aim) ==
    \/ pidfile[k] = 0 /\ vpc' = done /\ UNCHANGED pidfile
    \/ /\ pidfile[k] # 0 /\ ~SupRunning(k)
       /\ pidfile' = [pidfile EXCEPT ![k] = 0] /\ vpc' = done
    \/ SupRunning(k) /\ vpc' = aim /\ UNCHANGED pidfile

\* Supervisor.Stop: the SIGTERM, to whatever has the PID by then; a process of
\* ours that gets it exits during the poll.
SupTerm(k, done, poll) ==
    \/ /\ proc[pidfile[k]] = "free"
       /\ pidfile' = [pidfile EXCEPT ![k] = 0]
       /\ vpc' = done /\ UNCHANGED <<proc, victims>>
    \/ /\ proc[pidfile[k]] # "free" /\ TRUE \in Delivered(k)
       /\ Hit(k) /\ vpc' = poll /\ UNCHANGED pidfile
       /\ \/ UNCHANGED proc
          \/ proc[pidfile[k]] # k /\ proc' = [proc EXCEPT ![pidfile[k]] = "free"]
    \/ /\ proc[pidfile[k]] # "free" /\ FALSE \in Delivered(k)
       /\ vpc' = poll /\ UNCHANGED <<proc, pidfile, victims>>

\* The poll: the process exits, or the window passes with the PID still alive.
\* Only a signal that was delivered, or a death of its own, makes it exit.
SupPoll(k, done, kill) ==
    \/ /\ proc[pidfile[k]] = "free"
       /\ pidfile' = [pidfile EXCEPT ![k] = 0]
       /\ vpc' = done /\ UNCHANGED proc
    \/ /\ proc[pidfile[k]] = k /\ TRUE \in Delivered(k)
       /\ proc' = [proc EXCEPT ![pidfile[k]] = "free"]
       /\ pidfile' = [pidfile EXCEPT ![k] = 0]
       /\ vpc' = done
    \/ /\ proc[pidfile[k]] # "free"
       /\ vpc' = kill /\ UNCHANGED <<proc, pidfile>>

\* MUTANT of SecondLook: the SIGKILL is not preceded by a second look at the PID.
SecondLookSkipped(k, done, aim) == vpc' = aim /\ UNCHANGED pidfile

\* The look before the escalation.
SecondLook(k, done, aim) == SupLook(k, done, aim)

\* The SIGKILL of Stop and of ForceStop, and waitGone: the PID file of a survivor
\* is kept.  sudo does not forward it: the helper may run on without its sudo.
SupKill(k, done, failed) ==
    \/ /\ proc[pidfile[k]] = "free"
       /\ pidfile' = [pidfile EXCEPT ![k] = 0]
       /\ vpc' = done /\ UNCHANGED <<proc, victims, stray>>
    \/ /\ proc[pidfile[k]] # "free" /\ TRUE \in Delivered(k)
       /\ proc' = [proc EXCEPT ![pidfile[k]] = "free"]
       /\ pidfile' = [pidfile EXCEPT ![k] = 0]
       /\ Hit(k) /\ vpc' = done
       /\ \/ UNCHANGED stray
          \/ proc[pidfile[k]] = "helper" /\ via # "own" /\ stray' = TRUE
    \/ /\ proc[pidfile[k]] # "free" /\ FALSE \in Delivered(k)
       /\ vpc' = failed /\ UNCHANGED <<proc, pidfile, victims, stray>>

---------------------------------------------------------------------------
(* VMManager.Start *)

BeginVM(c, first) ==
    /\ vpc = "idle" /\ runs < MaxRuns
    /\ vcmd' = c /\ vpc' = first /\ runs' = runs + 1 /\ vresult' = ""
    /\ UNCHANGED <<proc, pidfile, defined, bridge, via, fresh, victims, slip, stray, blind, troubles>>

Return(r) == vpc' = "idle" /\ vcmd' = "none" /\ vresult' = r

\* Refuse when vfkit runs; take an orphaned helper down first.
StartCheck ==
    /\ vpc = "check"
    /\ \/ SupRunning("vm") /\ Return("refused")
       \/ /\ ~SupRunning("vm") /\ SupRunning("helper")
          /\ vpc' = "term_helper" /\ UNCHANGED <<vcmd, vresult>>
       \/ /\ ~SupRunning("vm") /\ ~SupRunning("helper")
          /\ vpc' = "reclaim" /\ UNCHANGED <<vcmd, vresult>>
    /\ UNCHANGED <<proc, pidfile, defined, bridge, via, fresh, victims, slip, stray, blind, runs, troubles>>

\* reclaimOrphanedHelper's verdict, then CleanupPIDFile of both and the checks
\* before the launch (addresses, socket path), any of which may refuse.
Reclaimed ==
    /\ vpc = "reclaim"
    /\ \/ SupRunning("helper") /\ Return("failed") /\ UNCHANGED <<pidfile, troubles>>
       \/ /\ ~SupRunning("helper")
          /\ pidfile' = [k \in VmKinds |-> IF SupRunning(k) THEN pidfile[k] ELSE 0]
          /\ \/ vpc' = "fork" /\ UNCHANGED <<vcmd, vresult, troubles>>
             \/ Trouble /\ Return("failed")
    /\ UNCHANGED <<proc, defined, bridge, via, fresh, victims, slip, stray, blind, runs>>

\* The exec fails, for want of a PID or otherwise.
NoFork == IF Free = {} THEN UNCHANGED troubles ELSE Trouble

\* vmnethelper.Start: fork, then write the PID file at once.
ForkHelper ==
    /\ vpc = "fork" /\ fresh = 0
    /\ \/ /\ \E p \in Free : proc' = [proc EXCEPT ![p] = "helper"] /\ fresh' = p
          /\ UNCHANGED <<vpc, vcmd, vresult, troubles>>
       \/ NoFork /\ Return("failed") /\ UNCHANGED <<proc, fresh>>
    /\ UNCHANGED <<pidfile, defined, bridge, via, victims, slip, stray, blind, runs>>

\* killChild: the user's own helper is killed and reaped; one started through
\* sudo is sent a SIGTERM that nothing waits for, if sudo -n kill lets it.
KillChild(p) ==
    \/ proc[p] = "helper" /\ via # "deaf" /\ proc' = [proc EXCEPT ![p] = "free"]
    \/ (proc[p] # "helper" \/ via # "own") /\ UNCHANGED proc

\* A PID file that cannot be written aborts the start, and no file is kept.
RecordHelper ==
    /\ vpc = "fork" /\ fresh # 0
    /\ fresh' = 0
    /\ \/ /\ pidfile' = [pidfile EXCEPT !["helper"] = fresh]
          /\ vpc' = "json" /\ UNCHANGED <<proc, vcmd, vresult, troubles>>
       \/ /\ Trouble /\ Return("failed")
          /\ KillChild(fresh)
          /\ pidfile' = [pidfile EXCEPT !["helper"] = 0]
    /\ UNCHANGED <<defined, bridge, via, victims, slip, stray, blind, runs>>

\* The start line is read and the bridge found; abort removes the PID file
\* whatever became of the child.
ReadStartJSON ==
    /\ vpc = "json"
    /\ \/ /\ SupRunning("helper")
          /\ vpc' = "gateway" /\ UNCHANGED <<proc, pidfile, vcmd, vresult, troubles>>
       \/ /\ \/ ~SupRunning("helper") /\ UNCHANGED troubles
             \/ SupRunning("helper") /\ Trouble
          /\ KillChild(pidfile["helper"])
          /\ pidfile' = [pidfile EXCEPT !["helper"] = 0]
          /\ Return("failed")
    /\ UNCHANGED <<defined, bridge, via, fresh, victims, slip, stray, blind, runs>>

\* A start that fails from here on takes down what it launched, by force.
Undo(first) == vpc' = first /\ vresult' = "failed"

\* The gateway must be the one cloud-init was given, a REST port be free and the
\* socket appear.
CheckGateway ==
    /\ vpc = "gateway"
    /\ \/ vpc' = "launch" /\ UNCHANGED <<vresult, troubles>>
       \/ Trouble /\ Undo("force_helper")
    /\ UNCHANGED <<proc, pidfile, defined, bridge, via, vcmd, fresh, victims, slip, stray, blind, runs>>

\* vfkit.StartVM: fork, then the PID file; a PID file that cannot be written
\* kills the child.
LaunchVM ==
    /\ vpc = "launch" /\ fresh = 0
    /\ \/ /\ \E p \in Free : proc' = [proc EXCEPT ![p] = "vm"] /\ fresh' = p
          /\ UNCHANGED <<vpc, vresult, troubles>>
       \/ NoFork /\ Undo("force_helper") /\ UNCHANGED <<proc, fresh>>
    /\ UNCHANGED <<pidfile, defined, bridge, via, vcmd, victims, slip, stray, blind, runs>>

RecordVM ==
    /\ vpc = "launch" /\ fresh # 0
    /\ fresh' = 0
    /\ \/ /\ pidfile' = [pidfile EXCEPT !["vm"] = fresh]
          /\ vpc' = "live" /\ UNCHANGED <<proc, vresult, troubles>>
       \/ /\ Trouble /\ Undo("force_helper")
          /\ proc' = IF proc[fresh] = "vm" THEN [proc EXCEPT ![fresh] = "free"] ELSE proc
          /\ UNCHANGED pidfile
    /\ UNCHANGED <<defined, bridge, via, vcmd, victims, slip, stray, blind, runs>>

\* VerifyLive: the process is still there at the end of the grace window.  One
\* that died is abox's child, not reaped yet, and may still be shown.
VerifyLive ==
    /\ vpc = "live"
    /\ \/ vpc' = "save" /\ UNCHANGED vresult
       \/ ~SupRunning("vm") /\ Undo("force_vm")
    /\ UNCHANGED <<proc, pidfile, defined, bridge, via, vcmd, fresh, victims, slip, stray, blind,
                   runs, troubles>>

\* The bridge must be persisted, or everything comes down again.
PersistBridge ==
    /\ vpc = "save"
    /\ \/ /\ bridge' = pidfile["helper"]
          /\ Return("started") /\ UNCHANGED troubles
       \/ Trouble /\ Undo("force_vm") /\ UNCHANGED <<bridge, vcmd>>
    /\ UNCHANGED <<proc, pidfile, defined, via, fresh, victims, slip, stray, blind, runs>>

---------------------------------------------------------------------------
(* VMManager.Stop, ForceStop, Remove *)

\* requestGracefulExit: the REST stop may be refused, and the guest may exit
\* within the window, outlive it, or the caller's context be cancelled first.
RequestStop ==
    /\ vpc = "rest"
    /\ vpc' \in {"wait", "term_vm"}
    /\ UNCHANGED <<proc, pidfile, defined, bridge, via, vcmd, fresh, vresult, victims, slip, stray,
                   blind, runs, troubles>>

\* vfkit.WaitForExit, and what Stop does with its answer: the SIGTERM of StopVM
\* after a timeout, ForceStopVM and an error when the context was cancelled.
WaitForExit ==
    /\ vpc = "wait"
    /\ \/ /\ ~SupRunning("vm")
          /\ pidfile' = [pidfile EXCEPT !["vm"] = 0] /\ vpc' = "term_helper"
          /\ UNCHANGED <<proc, vresult>>
       \/ /\ SupRunning("vm") /\ proc[pidfile["vm"]] = "vm"
          /\ proc' = [proc EXCEPT ![pidfile["vm"]] = "free"]
          /\ pidfile' = [pidfile EXCEPT !["vm"] = 0] /\ vpc' = "term_helper"
          /\ UNCHANGED vresult
       \/ SupRunning("vm") /\ vpc' = "term_vm" /\ UNCHANGED <<proc, pidfile, vresult>>
       \/ SupRunning("vm") /\ Undo("force_vm") /\ UNCHANGED <<proc, pidfile>>
    /\ UNCHANGED <<defined, bridge, via, vcmd, fresh, victims, slip, stray, blind, runs, troubles>>

\* What follows the VM's end in ForceStop and the helper's end: the verdict of the
\* command, or of reclaimOrphanedHelper, which alone escalates to ForceStop;
\* stopHelper only warns.
AfterVM == IF vcmd = "stop" THEN "term_helper" ELSE "force_helper"
AfterHelper == IF vcmd = "start" /\ vresult # "failed" THEN "reclaim" ELSE "clear"
HelperLeft == IF vcmd = "start" THEN "force_helper" ELSE "clear"

StopLook ==
    /\ \/ vpc = "term_vm" /\ SupLook("vm", "term_helper", "aim_vm")
       \/ vpc = "kill_vm" /\ SecondLook("vm", "term_helper", "shoot_vm")
       \/ vpc = "term_helper" /\ SupLook("helper", AfterHelper, "aim_helper")
       \/ vpc = "kill_helper" /\ SecondLook("helper", AfterHelper, "shoot_helper")
       \/ vpc = "force_vm" /\ SupLook("vm", AfterVM, "fire_vm")
       \/ vpc = "force_helper" /\ SupLook("helper", AfterHelper, "fire_helper")
    /\ vresult' = IF vpc \in {"term_vm", "force_vm"} /\ pidfile["vm"] = 0 THEN "failed" ELSE vresult
    /\ UNCHANGED <<proc, defined, bridge, via, vcmd, fresh, victims, slip, stray, blind, runs, troubles>>

StopSignal ==
    /\ \/ vpc = "aim_vm" /\ SupTerm("vm", "term_helper", "poll_vm") /\ UNCHANGED stray
       \/ vpc = "aim_helper" /\ SupTerm("helper", AfterHelper, "poll_helper") /\ UNCHANGED stray
       \/ vpc = "shoot_vm" /\ SupKill("vm", "term_helper", "term_helper")
       \/ vpc = "shoot_helper" /\ SupKill("helper", AfterHelper, HelperLeft)
       \/ vpc = "fire_vm" /\ SupKill("vm", AfterVM, AfterVM)
       \/ vpc = "fire_helper" /\ SupKill("helper", AfterHelper, AfterHelper)
    /\ UNCHANGED <<defined, bridge, via, vcmd, fresh, vresult, slip, blind, runs, troubles>>

StopPoll ==
    /\ \/ vpc = "poll_vm" /\ SupPoll("vm", "term_helper", "kill_vm")
       \/ vpc = "poll_helper" /\ SupPoll("helper", AfterHelper, "kill_helper")
    /\ UNCHANGED <<defined, bridge, via, vcmd, fresh, vresult, victims, slip, stray, blind, runs, troubles>>

\* The command returns; Remove first cleans the PID files and saves the instance
\* without the backend's keys.
EndCommand ==
    /\ vpc = "clear"
    /\ \/ /\ vcmd # "remove" /\ UNCHANGED <<pidfile, defined, bridge, troubles>>
          /\ Return(IF vresult = "failed" THEN "failed" ELSE "stopped")
       \/ /\ vcmd = "remove"
          /\ pidfile' = [k \in VmKinds |-> IF SupRunning(k) THEN pidfile[k] ELSE 0]
          /\ \/ defined' = FALSE /\ bridge' = 0 /\ Return("removed") /\ UNCHANGED troubles
             \/ Trouble /\ Return("failed") /\ UNCHANGED <<defined, bridge>>
    /\ UNCHANGED <<proc, via, fresh, victims, slip, stray, blind, runs>>

\* Create or Redefine records the UUID again.
Redefine ==
    /\ vpc = "idle" /\ ~defined
    /\ defined' = TRUE
    /\ UNCHANGED <<proc, pidfile, bridge, via, vcmd, vpc, fresh, vresult, victims, slip, stray, blind,
                   runs, troubles>>

---------------------------------------------------------------------------
\* A process dies; a freed PID of a PID file goes to an unrelated process or to
\* another instance's, perhaps just after it was looked at; abox is killed.
ProcessDies ==
    /\ Trouble
    /\ \E p \in Pids : /\ proc[p] # "free"
                       /\ proc' = [proc EXCEPT ![p] = "free"]
    /\ UNCHANGED <<pidfile, defined, bridge, via, vcmd, vpc, fresh, vresult, victims, slip, stray,
                   blind, runs>>

Aimed(k) ==
    IF k = "vm" THEN {"aim_vm", "shoot_vm", "fire_vm"} ELSE {"aim_helper", "shoot_helper", "fire_helper"}

PidReused ==
    /\ Trouble
    /\ \E k \in VmKinds, q \in {"stranger", "other_vm", "other_helper"} :
          /\ pidfile[k] \in Free
          /\ proc' = [proc EXCEPT ![pidfile[k]] = q]
          /\ slip' = (slip \/ vpc \in Aimed(k))
    /\ UNCHANGED <<pidfile, defined, bridge, via, vcmd, vpc, fresh, vresult, victims, stray, blind, runs>>

AboxDies ==
    /\ vpc # "idle" /\ Trouble
    /\ Return("") /\ fresh' = 0
    /\ blind' = (blind \/ fresh # 0)
    /\ UNCHANGED <<proc, pidfile, defined, bridge, via, victims, slip, stray, runs>>

VfSteps ==
    \/ StartCheck \/ Reclaimed \/ ForkHelper \/ RecordHelper \/ ReadStartJSON \/ CheckGateway
    \/ LaunchVM \/ RecordVM \/ VerifyLive \/ PersistBridge
    \/ RequestStop \/ WaitForExit \/ StopLook \/ StopSignal \/ StopPoll \/ EndCommand

VfNext ==
    \/ defined /\ BeginVM("start", "check")
    \/ BeginVM("stop", "rest") \/ BeginVM("force", "force_vm") \/ BeginVM("remove", "force_vm")
    \/ VfSteps \/ Redefine
    \/ ProcessDies \/ PidReused \/ AboxDies

---------------------------------------------------------------------------
\* VMManager.State, with the REST API's answer left out.
VMState ==
    IF SupRunning("vm") THEN "running" ELSE IF pidfile["vm"] # 0 THEN "crashed" ELSE "stopped"

\* The live processes of a kind.
Live(k) == {p \in Pids : proc[p] = k}

\* A stop or a teardown signals an unrelated process only when the PID changed
\* hands between the look at it and the signal: not while Stop polls, however long
\* that takes (childproc, "during the poll window our process may have exited and
\* the OS may have reused its PID").
NoInnocentSignalled == "stranger" \in victims => slip

\* No process but the instance's own is ever signalled (childproc, "prevents
\* killing an innocent process"): the guard knows a process by its name alone, so
\* a PID that went to another instance's vfkit or vmnet-helper is signalled.
OnlyOwnSignalled == victims = {}

\* As long as no command was killed between a fork and its PID file, there is at
\* most one vfkit of the instance and its PID file names it, at every step but
\* the one between the two (StartVM, Start).
OneTrackedVM ==
    ~blind => /\ Cardinality(Live("vm")) <= 1
              /\ \A p \in Live("vm") : p \in {pidfile["vm"], fresh}

\* Under the same condition a running helper of the user's own is always in its
\* PID file, so that the next start can reclaim it (vmnethelper.Start, "Write the
\* PID file immediately after the fork").
HelperReclaimable ==
    (~blind /\ via = "own") => \A p \in Live("helper") : p \in {pidfile["helper"], fresh}

\* A command that returned an error left no VM behind, and a start none of the
\* helpers it may kill (Start, "tear everything down").
FailClosed ==
    (vresult = "failed" /\ vpc = "idle" /\ ~blind) =>
        Live("vm") = {} /\ (via = "own" => Live("helper") = {})

\* A start that succeeded recorded the bridge of the helper it started: the rules
\* applied after boot have an interface to bind to (Start, F11).
BridgeKnown ==
    (vresult = "started" /\ vpc = "idle") => bridge # 0

\* Stop is synchronous: once it succeeded no vfkit of the instance runs, nor a
\* helper of the user's own (Stop, "when it returns, vfkit has exited and the
\* helper has been stopped").
StopSynchronous ==
    (vresult = "stopped" /\ vpc = "idle" /\ ~blind) =>
        Live("vm") = {} /\ (via = "own" => Live("helper") = {})

\* The state shown is the VM's: running exactly when a vfkit of the instance runs,
\* whatever became of the PID in its file, unless another instance's vfkit has it
\* now (State).
StateTrue ==
    (~blind /\ vpc = "idle") =>
        (VMState = "running" <=> Live("vm") # {} \/ (pidfile["vm"] # 0 /\ proc[pidfile["vm"]] = "other_vm"))

\* A running helper is in its PID file, whoever owns it, and none outlives its sudo.
HelperTracked ==
    ~blind => ~stray /\ \A p \in Live("helper") : p \in {pidfile["helper"], fresh}

\* Every command ends.
AtWork == vpc # "idle"
AtRest == vpc = "idle"
VfEnds == AtWork ~> AtRest

=============================================================================
