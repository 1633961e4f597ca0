----------------------------- MODULE Lifecycle -----------------------------
(***************************************************************************)
(* The life of one instance on the libvirt backend.  CLI processes run      *)
(* create, start, stop, restart, remove, up and down.  Each command is a    *)
(* sequence of steps on shared host state: the instance's configuration,    *)
(* network, disk, VM, daemons, and the two halves of egress enforcement     *)
(* (an nwfilter bound to the VM's interface, and host iptables rules).      *)
(* Only create, remove and the network step of start take the global lock.  *)
(*                                                                          *)
(* Sources: pkg/cmd/{create,start,stop,restart,remove,up,down},             *)
(* internal/instance, internal/backend/libvirt, internal/virsh,             *)
(* internal/daemon/lifecycle.go, internal/config/config.go.                 *)
(***************************************************************************)
EXTENDS Naturals, Sequences

CONSTANTS
  Clients,   \* CLI processes
  Nobody,    \* the value of lock when it is free
  Commands,  \* the commands the clients run
  Monitor,   \* monitor.enabled in the instance's configuration
  MayFail,   \* the operations that may return an error
  Events,    \* what the environment may do
  MaxCmds,   \* bound: commands run in a behaviour
  MaxFaults, \* bound: operations that fail in a behaviour
  MaxEvents  \* bound: environment events in a behaviour

Kinds == {"dns", "http", "monitor"}

AllCommands ==
  {"create", "start", "stop", "restart", "remove", "up", "down", "downrm"}

\* "query": virsh cannot be asked whether a VM or a network exists or runs.
\* "undo": a step of create's rollback.  "save": start's config.Save.
Operations ==
  {"create", "undo", "network", "spawn", "status", "save", "redefine",
   "nwfilter", "rules", "boot", "apply", "shutdown", "force", "cancel",
   "query", "flush", "undefine", "vmdelete", "netdelete", "cfgdelete"}

AllEvents == {"die", "reload", "poweroff", "crash", "reboot"}

ASSUME LockAssumption == Nobody \notin Clients
ASSUME SwitchAssumption ==
  /\ Commands \subseteq AllCommands
  /\ MayFail \subseteq Operations
  /\ Events \subseteq AllEvents
  /\ Monitor \in BOOLEAN
ASSUME BoundAssumption ==
  MaxCmds \in Nat /\ MaxFaults \in Nat /\ MaxEvents \in Nat

VARIABLES
  cfg,     \* config.yaml: none, ok, or torn by a failed write
  net,     \* the libvirt network: absent, inactive, active
  disk,    \* the instance's disk exists
  vm,      \* the libvirt domain: absent, off, running
  nwf,     \* the nwfilter is defined
  rules,   \* the host iptables rules are installed
  withdrawn, \* history: a failed re-assert has taken the host rules back
  bound,   \* the running VM's interface refers to the nwfilter
  dmn,     \* per daemon kind: its process and files
  orphan,  \* kinds of live daemons whose PID and socket files are gone
  warned,  \* start told the user that it could not stop an unfiltered VM
  lock,    \* the client that holds the global lock
  pc,      \* per client: the step its command is at
  todo,    \* per client: the stages of its command still to run
  cmd,     \* per client: its command
  fresh,   \* per client: Define created the nwfilter, rather than updated it
  res,     \* per client: how its last command ended
  ncmd, nfault, nevent

host   == <<cfg, net, disk>>
guest  == <<vm, bound, warned>>
egress == <<nwf, rules, withdrawn>>
dmns   == <<dmn, orphan>>
ctl    == <<pc, todo, cmd, res>>
counts == <<ncmd, nevent>>
vars == <<host, guest, egress, dmns, ctl, lock, fresh, nfault, counts>>

CreateSteps == {"c_lock", "c_save", "c_net", "c_disk", "c_vm"}
StartSteps  == {"st_load", "st_net", "st_dns", "st_http", "st_redef", "d_nwf",
                "d_rules", "st_mon", "st_boot", "st_apply", "st_fail"}
RecoverSteps == {"rc_dns", "rc_http", "rc_mon"}
SecureSteps == {"f_load", "f_nwf", "f_rules", "f_apply", "f_flush", "f_undef"}
StopSteps   == {"sp_load", "sp_vm", "sp_wait", "s_flush", "s_undef",
                "s_mon", "s_http", "s_dns"}
RemoveSteps == {"rm_load", "rm_lock", "rm_svc", "rm_vm", "r_flush", "r_undef",
                "rm_net", "rm_cfg", "rm_files"}
Steps == CreateSteps \cup StartSteps \cup RecoverSteps \cup SecureSteps
           \cup StopSteps \cup RemoveSteps \cup {"up", "down"}

\* The stages that may follow another one in a command.
Stages == {"st_load", "f_load", "rm_load"}

\* down: no process and no files.  up: a live process with both files.
\* half: a live process without its socket.  stale: files, no process.
DaemonStates == {"down", "up", "half", "stale"}

TypeOK ==
  /\ cfg \in {"none", "ok", "torn"}
  /\ net \in {"absent", "inactive", "active"}
  /\ disk \in BOOLEAN
  /\ vm \in {"absent", "off", "running"}
  /\ nwf \in BOOLEAN /\ rules \in BOOLEAN /\ withdrawn \in BOOLEAN
  /\ bound \in BOOLEAN /\ warned \in BOOLEAN
  /\ dmn \in [Kinds -> DaemonStates]
  /\ orphan \in SUBSET Kinds
  /\ lock \in Clients \cup {Nobody}
  /\ pc \in [Clients -> Steps \cup {"idle"}]
  /\ todo \in [Clients -> Seq(Stages)]
  /\ cmd \in [Clients -> AllCommands \cup {"none"}]
  /\ fresh \in [Clients -> BOOLEAN]
  /\ res \in [Clients -> {"none", "ok", "err"}]
  /\ ncmd \in 0..MaxCmds /\ nfault \in 0..MaxFaults /\ nevent \in 0..MaxEvents

\* Nothing exists yet, or create has run.
Init ==
  /\ \/ cfg = "none" /\ net = "absent" /\ disk = FALSE /\ vm = "absent"
     \/ cfg = "ok" /\ net = "active" /\ disk = TRUE /\ vm = "off"
  /\ nwf = FALSE /\ rules = FALSE /\ withdrawn = FALSE /\ bound = FALSE /\ warned = FALSE
  /\ dmn = [k \in Kinds |-> "down"] /\ orphan = {}
  /\ lock = Nobody
  /\ pc = [c \in Clients |-> "idle"]
  /\ todo = [c \in Clients |-> <<>>]
  /\ cmd = [c \in Clients |-> "none"]
  /\ fresh = [c \in Clients |-> FALSE]
  /\ res = [c \in Clients |-> "none"]
  /\ ncmd = 0 /\ nfault = 0 /\ nevent = 0

-----------------------------------------------------------------------------
(* Control.                                                                *)

Goto(c, l) == pc' = [pc EXCEPT ![c] = l] /\ UNCHANGED <<todo, cmd, res>>

\* A stage returns nil: the next stage of the command runs, if there is one.
Return(c) ==
  /\ UNCHANGED cmd
  /\ IF todo[c] = <<>>
     THEN /\ pc' = [pc EXCEPT ![c] = "idle"]
          /\ res' = [res EXCEPT ![c] = "ok"]
          /\ UNCHANGED todo
     ELSE /\ pc' = [pc EXCEPT ![c] = Head(todo[c])]
          /\ todo' = [todo EXCEPT ![c] = Tail(@)]
          /\ UNCHANGED res

\* A stage returns an error: so does the command.
Fail(c) ==
  /\ pc' = [pc EXCEPT ![c] = "idle"]
  /\ todo' = [todo EXCEPT ![c] = <<>>]
  /\ res' = [res EXCEPT ![c] = "err"]
  /\ UNCHANGED cmd

Fault(op) == op \in MayFail /\ nfault < MaxFaults /\ nfault' = nfault + 1

Works == UNCHANGED nfault

\* virshOutputContainsLine, DomainIsRunning: an error reads as "no".
Ask(fact, answer) ==
  \/ answer = fact /\ Works
  \/ fact /\ ~answer /\ Fault("query")

Begin(c) ==
  /\ pc[c] = "idle"
  /\ ncmd < MaxCmds
  /\ \E k \in Commands :
       /\ cmd' = [cmd EXCEPT ![c] = k]
       /\ pc' = [pc EXCEPT ![c] =
            CASE k = "create" -> "c_lock"
              [] k = "start" -> "st_load"
              [] k \in {"stop", "restart"} -> "sp_load"
              [] k = "remove" -> "rm_load"
              [] k = "up" -> "up"
              [] k \in {"down", "downrm"} -> "down"]
       /\ todo' = [todo EXCEPT ![c] =
            CASE k = "restart" -> <<"st_load">>
              [] k = "downrm" -> <<"rm_load">>
              [] OTHER -> <<>>]
  /\ ncmd' = ncmd + 1
  /\ UNCHANGED <<host, guest, egress, dmns, res, lock, fresh, nfault, nevent>>

\* runUp: create, start and ApplyFiltered, or only start.
Up(c) ==
  /\ pc[c] = "up"
  /\ \/ /\ cfg = "none" /\ Works
        /\ pc' = [pc EXCEPT ![c] = "c_lock"]
        /\ todo' = [todo EXCEPT ![c] = <<"st_load", "f_load">>]
        /\ UNCHANGED <<cmd, res>>
     \/ cfg = "torn" /\ Works /\ Fail(c)
     \/ /\ cfg = "ok"
        /\ \E running \in BOOLEAN :
             /\ Ask(vm = "running", running)
             /\ IF running THEN Return(c) ELSE Goto(c, "st_load")
  /\ UNCHANGED <<host, guest, egress, dmns, lock, fresh, counts>>

\* runDown: a missing instance is no error; --remove loads the config first.
Down(c) ==
  /\ pc[c] = "down"
  /\ IF cfg = "none"
     THEN /\ pc' = [pc EXCEPT ![c] = "idle"]
          /\ todo' = [todo EXCEPT ![c] = <<>>]
          /\ res' = [res EXCEPT ![c] = "ok"]
          /\ UNCHANGED cmd
     ELSE Goto(c, "sp_load")
  /\ UNCHANGED <<host, guest, egress, dmns, lock, fresh, nfault, counts>>

-----------------------------------------------------------------------------
(* create: everything after the lock runs under it.                        *)

CreateLock(c) ==
  /\ pc[c] = "c_lock"
  /\ lock = Nobody
  /\ IF cfg # "none"
     THEN Fail(c) /\ UNCHANGED lock
     ELSE Goto(c, "c_save") /\ lock' = c
  /\ UNCHANGED <<host, guest, egress, dmns, fresh, nfault, counts>>

CreateSave(c) ==
  /\ pc[c] = "c_save"
  /\ cfg' = "ok"
  /\ Goto(c, "c_net")
  /\ UNCHANGED <<net, disk, guest, egress, dmns, lock, fresh, nfault, counts>>

\* Mutant: the network is left in a state the rest of the code does not know.
CreateNetworkUnknown(c) ==
  /\ pc[c] = "c_net"
  /\ net' = "defined"
  /\ Goto(c, "c_disk")
  /\ UNCHANGED <<cfg, disk, guest, egress, dmns, lock, fresh, nfault, counts>>

CreateNetwork(c) ==
  /\ pc[c] = "c_net"
  /\ net' = "active"
  /\ Goto(c, "c_disk")
  /\ UNCHANGED <<cfg, disk, guest, egress, dmns, lock, fresh, nfault, counts>>

CreateDisk(c) ==
  /\ pc[c] = "c_disk"
  /\ disk' = TRUE
  /\ Goto(c, "c_vm")
  /\ UNCHANGED <<cfg, net, guest, egress, dmns, lock, fresh, nfault, counts>>

CreateVM(c) ==
  /\ pc[c] = "c_vm"
  /\ vm' = IF vm = "absent" THEN "off" ELSE vm
  /\ Return(c)
  /\ lock' = Nobody
  /\ UNCHANGED <<host, bound, warned, egress, dmns, fresh, nfault, counts>>

\* config.Save fails before configSaved is set, so nothing is rolled back.
CreateSaveFails(c) ==
  /\ pc[c] = "c_save"
  /\ Fault("create")
  /\ cfg' \in IF "save" \in MayFail THEN {"none", "torn"} ELSE {"none"}
  /\ Fail(c)
  /\ lock' = Nobody
  /\ UNCHANGED <<net, disk, guest, egress, dmns, fresh, counts>>

\* Mutant: the rollback forgets the network.
CreateFailsKeepsNetwork(c) ==
  /\ pc[c] \in {"c_net", "c_disk", "c_vm"}
  /\ Fault("create")
  /\ disk' = (disk /\ pc[c] # "c_vm")
  /\ cfg' = "none"
  /\ Fail(c)
  /\ lock' = Nobody
  /\ UNCHANGED <<net, guest, egress, dmns, fresh, counts>>

\* Mutant: an error path without the deferred ReleaseLock.
CreateFailsKeepsLock(c) ==
  /\ pc[c] \in {"c_net", "c_disk", "c_vm"}
  /\ Fault("create")
  /\ disk' = (disk /\ pc[c] # "c_vm") /\ net' = "absent" /\ cfg' = "none"
  /\ Fail(c)
  /\ UNCHANGED <<lock, guest, egress, dmns, fresh, counts>>

\* cleanupState: what create has made so far is removed, newest first.  A
\* removal that fails is only logged.  A network that was defined but not
\* started is removed too.
CreateFails(c) ==
  /\ pc[c] \in {"c_net", "c_disk", "c_vm"}
  /\ Fault("create")
  /\ \E left \in IF "undo" \in MayFail
                 THEN SUBSET {"disk", "network", "config"} ELSE {{}} :
       /\ disk' = (disk /\ (pc[c] # "c_vm" \/ "disk" \in left))
       /\ net' \in IF "network" \in left THEN {net, "inactive"}
                  ELSE {"absent"} \cup (IF pc[c] = "c_net" THEN {net} ELSE {})
       /\ cfg' = IF "config" \in left THEN cfg ELSE "none"
  /\ Fail(c)
  /\ lock' = Nobody
  /\ UNCHANGED <<guest, egress, dmns, fresh, counts>>

-----------------------------------------------------------------------------
(* start.                                                                  *)

StartLoad(c) ==
  /\ pc[c] = "st_load"
  /\ \/ cfg # "ok" /\ Works /\ Fail(c)
     \/ /\ cfg = "ok"
        /\ \E running \in BOOLEAN :
             /\ Ask(vm = "running", running)
             /\ Goto(c, IF running THEN "rc_dns" ELSE "st_net")
  /\ UNCHANGED <<host, guest, egress, dmns, lock, fresh, counts>>

\* ensureNetwork takes and releases the lock.
EnsureNetwork(c) ==
  /\ pc[c] = "st_net"
  /\ lock = Nobody
  /\ \/ Works /\ net' = "active" /\ Goto(c, "st_dns")
     \/ /\ net # "active" /\ Fault("network")
        /\ net' \in {net, "inactive"}
        /\ Fail(c)
  /\ UNCHANGED <<cfg, disk, guest, egress, dmns, lock, fresh, counts>>

DaemonAt == [st_dns |-> "dns", st_http |-> "http", st_mon |-> "monitor",
             rc_dns |-> "dns", rc_http |-> "http", rc_mon |-> "monitor",
             s_dns |-> "dns", s_http |-> "http", s_mon |-> "monitor"]

AfterDaemon == [st_dns |-> "st_http", st_http |-> "st_redef",
                st_mon |-> "st_boot", rc_dns |-> "rc_http",
                rc_http |-> "rc_mon", rc_mon |-> "f_load",
                s_mon |-> "s_http", s_http |-> "s_dns"]

Skipped(l) == l \in {"st_mon", "rc_mon", "s_mon"} /\ ~Monitor

\* startFilter, startDaemon: a live daemon with its socket is left alone;
\* otherwise what is left of the old one is removed and a new one spawned.
StartDaemon(c) ==
  /\ pc[c] \in {"st_dns", "st_http", "st_mon", "rc_dns", "rc_http", "rc_mon"}
  /\ dmn' = IF Skipped(pc[c]) THEN dmn
            ELSE [dmn EXCEPT ![DaemonAt[pc[c]]] = "up"]
  /\ Goto(c, AfterDaemon[pc[c]])
  /\ UNCHANGED <<host, guest, egress, orphan, lock, fresh, nfault, counts>>

\* Mutant: the error of the spawn is dropped.
StartDaemonFailsSilently(c) ==
  /\ pc[c] \in {"st_dns", "st_http", "st_mon", "rc_dns", "rc_http", "rc_mon"}
  /\ ~Skipped(pc[c])
  /\ dmn[DaemonAt[pc[c]]] # "up"
  /\ Fault("spawn")
  /\ Return(c)
  /\ UNCHANGED <<host, guest, egress, dmns, lock, fresh, counts>>

\* It was not spawned, exited at once, or made no socket in two seconds.
StartDaemonFails(c) ==
  /\ pc[c] \in {"st_dns", "st_http", "st_mon", "rc_dns", "rc_http", "rc_mon"}
  /\ ~Skipped(pc[c])
  /\ dmn[DaemonAt[pc[c]]] # "up"
  /\ Fault("spawn")
  /\ \E s \in {"down", "stale", "half"} :
       dmn' = [dmn EXCEPT ![DaemonAt[pc[c]]] = s]
  /\ Fail(c)
  /\ UNCHANGED <<host, guest, egress, orphan, lock, fresh, counts>>

\* setupDNSResources, resolveHTTPPort: the Status RPC is retried in vain.
StatusFails(c) ==
  /\ pc[c] \in {"st_dns", "st_http"}
  /\ Fault("status")
  /\ dmn' = [dmn EXCEPT ![DaemonAt[pc[c]]] = "up"]
  /\ Fail(c)
  /\ UNCHANGED <<host, guest, egress, orphan, lock, fresh, counts>>

\* Saving the port fails after the file was truncated: only a warning.
SaveFails(c) ==
  /\ pc[c] \in {"st_dns", "st_http"}
  /\ cfg # "none" /\ Fault("save")
  /\ cfg' = "torn"
  /\ dmn' = [dmn EXCEPT ![DaemonAt[pc[c]]] = "up"]
  /\ Goto(c, AfterDaemon[pc[c]])
  /\ UNCHANGED <<net, disk, guest, egress, orphan, lock, fresh, counts>>

\* generateCloudInit and redefineVM.  A missing domain is defined anew.
Redefine(c) ==
  /\ pc[c] = "st_redef"
  /\ \/ /\ Works
        /\ vm' = IF vm = "absent" THEN "off" ELSE vm
        /\ Goto(c, "d_nwf")
     \/ Fault("redefine") /\ Fail(c) /\ UNCHANGED vm
  /\ UNCHANGED <<host, bound, warned, egress, dmns, lock, fresh, counts>>

\* EgressController.Define, its nwfilter half.
DefineFilter(c) ==
  /\ pc[c] \in {"d_nwf", "f_nwf"}
  /\ \/ /\ Works
        /\ nwf' = TRUE
        /\ fresh' = [fresh EXCEPT ![c] = ~nwf]
        /\ Goto(c, IF pc[c] = "d_nwf" THEN "d_rules" ELSE "f_rules")
     \/ Fault("nwfilter") /\ Fail(c) /\ UNCHANGED <<nwf, fresh>>
  /\ UNCHANGED <<host, guest, rules, withdrawn, dmns, lock, counts>>

\* Its host half.  On an error a filter that is new is undefined again;
\* libvirt refuses that when it is bound.
DefineRules(c) ==
  /\ pc[c] \in {"d_rules", "f_rules"}
  /\ \/ /\ Works
        /\ rules' = TRUE /\ withdrawn' = FALSE
        /\ Goto(c, IF pc[c] = "d_rules" THEN "st_mon" ELSE "f_apply")
        /\ UNCHANGED nwf
     \/ /\ Fault("rules")
        /\ nwf' = (nwf /\ (bound \/ ~fresh[c]))
        /\ Fail(c)
        /\ UNCHANGED <<rules, withdrawn>>
  /\ UNCHANGED <<host, guest, dmns, lock, fresh, counts>>

\* EnsureAccess and VM.Start.
Boot(c) ==
  /\ pc[c] = "st_boot"
  /\ vm = "off" /\ disk /\ net = "active"
  /\ vm' = "running" /\ bound' = FALSE /\ warned' = FALSE
  /\ Goto(c, "st_apply")
  /\ UNCHANGED <<host, egress, dmns, lock, fresh, nfault, counts>>

BootFails(c) ==
  /\ pc[c] = "st_boot"
  /\ \/ ~(vm = "off" /\ disk /\ net = "active") /\ Works
     \/ Fault("boot")
  /\ Fail(c)
  /\ UNCHANGED <<host, guest, egress, dmns, lock, fresh, counts>>

\* EgressController.Apply binds a defined nwfilter to a running VM.
Apply(c) ==
  /\ pc[c] \in {"st_apply", "f_apply"}
  /\ vm = "running" /\ nwf
  /\ bound' = TRUE
  /\ Return(c)
  /\ UNCHANGED <<host, vm, warned, egress, dmns, lock, fresh, nfault, counts>>

\* Mutant: start returns the error without stopping the VM.
ApplyFailsOpen(c) ==
  /\ pc[c] \in {"st_apply", "f_apply"}
  /\ \/ ~(vm = "running" /\ nwf) /\ Works
     \/ Fault("apply")
  /\ IF pc[c] = "st_apply" THEN Fail(c) ELSE Goto(c, "f_flush")
  /\ UNCHANGED <<host, guest, egress, dmns, lock, fresh, counts>>

\* start stops the VM; ApplyFiltered takes the policy back.
ApplyFails(c) ==
  /\ pc[c] \in {"st_apply", "f_apply"}
  /\ \/ ~(vm = "running" /\ nwf) /\ Works
     \/ Fault("apply")
  /\ Goto(c, IF pc[c] = "st_apply" THEN "st_fail" ELSE "f_flush")
  /\ UNCHANGED <<host, guest, egress, dmns, lock, fresh, counts>>

\* failClosedStopVM.  virsh destroy also fails when the VM is not running.
FailClosed(c) ==
  /\ pc[c] = "st_fail"
  /\ \/ /\ Works
        /\ vm' = IF vm = "running" THEN "off" ELSE vm
        /\ bound' = FALSE
        /\ UNCHANGED warned
     \/ /\ vm = "running" /\ Fault("force")
        /\ warned' = TRUE
        /\ UNCHANGED <<vm, bound>>
  /\ Fail(c)
  /\ UNCHANGED <<host, egress, dmns, lock, fresh, counts>>

\* ApplyFiltered starts with LoadRunning.
SecureLoad(c) ==
  /\ pc[c] = "f_load"
  /\ \/ cfg # "ok" /\ Works /\ Fail(c)
     \/ /\ cfg = "ok"
        /\ \E running \in BOOLEAN :
             /\ Ask(vm = "running", running)
             /\ IF running THEN Goto(c, "f_nwf") ELSE Fail(c)
  /\ UNCHANGED <<host, guest, egress, dmns, lock, fresh, counts>>

-----------------------------------------------------------------------------
(* stop.                                                                   *)

StopLoad(c) ==
  /\ pc[c] = "sp_load"
  /\ \/ cfg # "ok" /\ Works /\ Fail(c)
     \/ /\ cfg = "ok"
        /\ \E running \in BOOLEAN :
             /\ Ask(vm = "running", running)
             /\ IF running THEN Goto(c, "sp_vm") ELSE Return(c)
  /\ UNCHANGED <<host, guest, egress, dmns, lock, fresh, counts>>

\* virsh destroy: the guest stops and its interface goes with it.
Halt(c, l) ==
  /\ vm' = IF vm = "running" THEN "off" ELSE vm
  /\ bound' = FALSE
  /\ Goto(c, l)

\* Mutant: an error of the shutdown request is only logged.
StopVMGoesOn(c) ==
  /\ pc[c] = "sp_vm"
  /\ \/ vm = "running" /\ Works /\ Halt(c, "s_flush")
     \/ vm = "running" /\ Works /\ Goto(c, "sp_wait") /\ UNCHANGED <<vm, bound>>
     \/ /\ (vm # "running" /\ Works) \/ Fault("shutdown")
        /\ Goto(c, "s_flush") /\ UNCHANGED <<vm, bound>>
  /\ UNCHANGED <<host, warned, egress, dmns, lock, fresh, counts>>

\* stop --force, or the request for a graceful shutdown.
StopVM(c) ==
  /\ pc[c] = "sp_vm"
  /\ \/ vm = "running" /\ Works /\ Halt(c, "s_flush")
     \/ vm = "running" /\ Works /\ Goto(c, "sp_wait") /\ UNCHANGED <<vm, bound>>
     \/ /\ (vm # "running" /\ Works) \/ Fault("shutdown")
        /\ Fail(c) /\ UNCHANGED <<vm, bound>>
  /\ UNCHANGED <<host, warned, egress, dmns, lock, fresh, counts>>

\* The guest has shut down; or it is forced after 60 polls; or ctx is done.
StopWait(c) ==
  /\ pc[c] = "sp_wait"
  /\ \/ vm # "running" /\ Works /\ Goto(c, "s_flush") /\ UNCHANGED <<vm, bound>>
     \/ vm = "running" /\ Works /\ Halt(c, "s_flush")
     \/ /\ Fault("cancel") \/ (vm = "running" /\ Fault("force"))
        /\ Fail(c) /\ UNCHANGED <<vm, bound>>
     \/ vm = "running" /\ Fault("query") /\ Goto(c, "s_flush")
          /\ UNCHANGED <<vm, bound>>
  /\ UNCHANGED <<host, warned, egress, dmns, lock, fresh, counts>>

AfterEgress == [s_flush |-> "s_undef", s_undef |-> "s_mon",
                r_flush |-> "r_undef", r_undef |-> "rm_net",
                f_flush |-> "f_undef"]

\* EgressController.Remove, its host half: a failure is only reported.
FlushRules(c) ==
  /\ pc[c] \in {"s_flush", "r_flush", "f_flush"}
  /\ \/ Works /\ rules' = FALSE
     \/ Fault("flush") /\ UNCHANGED rules
  /\ withdrawn' = (pc[c] = "f_flush")
  /\ Goto(c, AfterEgress[pc[c]])
  /\ UNCHANGED <<host, guest, nwf, dmns, lock, fresh, counts>>

\* Its nwfilter half.  libvirt keeps a filter that is bound, and no caller
\* gives up on the error.
UndefineFilter(c) ==
  /\ pc[c] \in {"s_undef", "r_undef", "f_undef"}
  /\ \/ Works /\ nwf' = (nwf /\ bound)
     \/ nwf /\ Fault("undefine") /\ UNCHANGED nwf
  /\ IF pc[c] = "f_undef" THEN Fail(c) ELSE Goto(c, AfterEgress[pc[c]])
  /\ UNCHANGED <<host, guest, rules, withdrawn, dmns, lock, fresh, counts>>

\* StopMonitorDaemon, StopHTTPFilter, StopDNSFilter: "down" is a daemon whose API
\* is closed. The process of a monitor may linger after that (Monitor).
StopDaemon(c) ==
  /\ pc[c] \in {"s_mon", "s_http", "s_dns"}
  /\ dmn' = IF Skipped(pc[c]) THEN dmn
            ELSE [dmn EXCEPT ![DaemonAt[pc[c]]] = "down"]
  /\ IF pc[c] = "s_dns" THEN Return(c) ELSE Goto(c, AfterDaemon[pc[c]])
  /\ UNCHANGED <<host, guest, egress, orphan, lock, fresh, nfault, counts>>

-----------------------------------------------------------------------------
(* remove: everything after the lock runs under it.                        *)

RemoveLoad(c) ==
  /\ pc[c] = "rm_load"
  /\ IF cfg = "ok" THEN Goto(c, "rm_lock") ELSE Fail(c)
  /\ UNCHANGED <<host, guest, egress, dmns, lock, fresh, nfault, counts>>

RemoveLock(c) ==
  /\ pc[c] = "rm_lock"
  /\ lock = Nobody
  /\ lock' = c
  /\ Goto(c, "rm_svc")
  /\ UNCHANGED <<host, guest, egress, dmns, fresh, nfault, counts>>

\* stopServices; down --remove sets SkipDaemonStop.
RemoveServices(c) ==
  /\ pc[c] = "rm_svc"
  /\ dmn' = IF cmd[c] = "downrm" THEN dmn ELSE [k \in Kinds |-> "down"]
  /\ Goto(c, "rm_vm")
  /\ UNCHANGED <<host, guest, egress, orphan, lock, fresh, nfault, counts>>

\* Mutant: the domain is undefined without being destroyed first.
RemoveVMUndestroyed(c) ==
  /\ pc[c] = "rm_vm"
  /\ Works
  /\ vm' = IF vm = "running" THEN vm ELSE "absent"
  /\ disk' = (disk /\ vm = "absent")
  /\ Goto(c, "r_flush")
  /\ UNCHANGED <<cfg, net, bound, warned, egress, dmns, lock, fresh, counts>>

\* DeleteDomain destroys a running VM first.  Failures are only logged: one after
\* the VM was destroyed leaves it defined.
RemoveVM(c) ==
  /\ pc[c] = "rm_vm"
  /\ \/ /\ Works
        /\ vm' = "absent" /\ bound' = FALSE
        /\ disk' = (disk /\ vm = "absent")
     \/ /\ vm # "absent" /\ (Fault("vmdelete") \/ Fault("query"))
        /\ UNCHANGED <<vm, bound, disk>>
     \/ /\ vm = "running" /\ Fault("vmdelete")
        /\ vm' = "off" /\ bound' = FALSE /\ UNCHANGED disk
  /\ Goto(c, "r_flush")
  /\ UNCHANGED <<cfg, net, warned, egress, dmns, lock, fresh, counts>>

\* DeleteNetwork stops the network first.
RemoveNetwork(c) ==
  /\ pc[c] = "rm_net"
  /\ \/ Works /\ net' = "absent"
     \/ net # "absent" /\ (Fault("netdelete") \/ Fault("query")) /\ UNCHANGED net
     \/ net = "active" /\ Fault("netdelete") /\ net' = "inactive"
  /\ Goto(c, "rm_cfg")
  /\ UNCHANGED <<cfg, disk, guest, egress, dmns, lock, fresh, counts>>

\* Mutant: an error path without the deferred ReleaseLock.
RemoveConfigKeepsLock(c) ==
  /\ pc[c] = "rm_cfg"
  /\ \/ Works /\ cfg' = "none" /\ Goto(c, "rm_files")
     \/ Fault("cfgdelete") /\ Fail(c) /\ UNCHANGED cfg
  /\ UNCHANGED <<net, disk, lock, guest, egress, dmns, fresh, counts>>

RemoveConfig(c) ==
  /\ pc[c] = "rm_cfg"
  /\ \/ Works /\ cfg' = "none" /\ Goto(c, "rm_files") /\ UNCHANGED lock
     \/ Fault("cfgdelete") /\ Fail(c) /\ lock' = Nobody /\ UNCHANGED cfg
  /\ UNCHANGED <<net, disk, guest, egress, dmns, fresh, counts>>

\* deleteDiskDirectory and removeSocketFiles: a daemon that is still alive
\* loses its PID and socket files.
RemoveFiles(c) ==
  /\ pc[c] = "rm_files"
  /\ disk' = FALSE
  /\ orphan' = orphan \cup {k \in Kinds : dmn[k] \in {"up", "half"}}
  /\ dmn' = [k \in Kinds |-> "down"]
  /\ Return(c)
  /\ lock' = Nobody
  /\ UNCHANGED <<cfg, net, guest, egress, fresh, nfault, counts>>

-----------------------------------------------------------------------------
(* The environment.                                                        *)

Event(e) == e \in Events /\ nevent < MaxEvents /\ nevent' = nevent + 1

\* A daemon panics or is killed.
DaemonDies(k) ==
  /\ Event("die")
  /\ dmn[k] \in {"up", "half"}
  /\ dmn' = [dmn EXCEPT ![k] = "stale"]
  /\ UNCHANGED <<host, guest, egress, orphan, ctl, lock, fresh, nfault, ncmd>>

\* The host's firewall is reloaded.
FirewallReload ==
  /\ Event("reload")
  /\ rules /\ rules' = FALSE
  /\ UNCHANGED <<host, guest, nwf, withdrawn, dmns, ctl, lock, fresh, nfault, ncmd>>

\* The guest powers itself off.
PowerOff ==
  /\ Event("poweroff")
  /\ vm = "running" /\ vm' = "off" /\ bound' = FALSE
  /\ UNCHANGED <<host, warned, egress, dmns, ctl, lock, fresh, nfault, ncmd>>

\* A CLI process is killed.  The kernel releases its flock.
Crash(c) ==
  /\ Event("crash")
  /\ pc[c] # "idle"
  /\ Fail(c)
  /\ lock' = IF lock = c THEN Nobody ELSE lock
  /\ UNCHANGED <<host, guest, egress, dmns, fresh, nfault, ncmd>>

\* What survives a reboot: libvirt's definitions and the user's files.
Reboot ==
  /\ Event("reboot")
  /\ vm' = IF vm = "running" THEN "off" ELSE vm
  /\ bound' = FALSE /\ warned' = FALSE /\ rules' = FALSE
  /\ net' = IF net = "active" THEN "inactive" ELSE net
  /\ \E f \in {"down", "stale"} :
       dmn' = [k \in Kinds |-> IF dmn[k] = "down" THEN "down" ELSE f]
  /\ orphan' = {}
  /\ pc' = [c \in Clients |-> "idle"]
  /\ todo' = [c \in Clients |-> <<>>]
  /\ res' = [c \in Clients |-> "err"]
  /\ lock' = Nobody
  /\ UNCHANGED <<cfg, disk, nwf, withdrawn, cmd, fresh, nfault, ncmd>>

Step(c) ==
  \/ Up(c) \/ Down(c)
  \/ CreateLock(c) \/ CreateSave(c) \/ CreateNetwork(c) \/ CreateDisk(c)
  \/ CreateVM(c) \/ CreateSaveFails(c) \/ CreateFails(c)
  \/ StartLoad(c) \/ EnsureNetwork(c) \/ StartDaemon(c) \/ StartDaemonFails(c)
  \/ StatusFails(c) \/ SaveFails(c) \/ Redefine(c) \/ DefineFilter(c)
  \/ DefineRules(c) \/ Boot(c) \/ BootFails(c) \/ Apply(c) \/ ApplyFails(c)
  \/ FailClosed(c) \/ SecureLoad(c)
  \/ StopLoad(c) \/ StopVM(c) \/ StopWait(c) \/ FlushRules(c)
  \/ UndefineFilter(c) \/ StopDaemon(c)
  \/ RemoveLoad(c) \/ RemoveLock(c) \/ RemoveServices(c) \/ RemoveVM(c)
  \/ RemoveNetwork(c) \/ RemoveConfig(c) \/ RemoveFiles(c)

Environment ==
  \/ \E k \in Kinds : DaemonDies(k)
  \/ FirewallReload \/ PowerOff \/ Reboot
  \/ \E c \in Clients : Crash(c)

Next == (\E c \in Clients : Begin(c) \/ Step(c)) \/ Environment

Spec == Init /\ [][Next]_vars

\* A CLI process that is not waiting for the lock keeps running.
FairSpec == Spec /\ \A c \in Clients : WF_vars(Step(c))

-----------------------------------------------------------------------------
(* Properties.                                                             *)

Quiet == \A c \in Clients : pc[c] = "idle"

Enforced == nwf /\ rules /\ bound

Filtering == \A k \in Kinds : dmn[k] = "up" \/ (k = "monitor" /\ ~Monitor)

Live(k) == dmn[k] \in {"up", "half"} \/ k \in orphan

\* A VM runs without its nwfilter only while the start that booted it is
\* about to bind the filter or to stop the VM (startVMAndApplyFilter), or
\* after failClosedStopVM has told the user that it could not.  This holds
\* whatever commands run at the same time, whatever fails and whatever the
\* environment does, short of killing that start.
NeverUnattended ==
  vm = "running" /\ ~bound =>
    warned \/ \E c \in Clients : pc[c] \in {"st_apply", "st_fail"}

Locked == (CreateSteps \cup RemoveSteps) \ {"c_lock", "rm_load", "rm_lock"}

\* create and remove hold the global lock from their lock step to their
\* last, and every way out of them, an error included, releases it: runCreate
\* and runRemove defer ReleaseLock, the kernel drops the flock of a dead
\* process.
LockDiscipline == \A c \in Clients : lock = c <=> pc[c] \in Locked

\* When one user runs commands one after the other, then between two of them
\* a VM that runs has both halves of its egress enforcement and its daemons:
\* runStart, recoverDaemons and runStop change the three in an order that keeps
\* them together, although steps that bring the instance up or stop its VM fail.
\* Two ways to lose them are left out.  ApplyFiltered, on a VM that runs already,
\* takes the host rules back when it cannot bind the filter (withdrawn): the VM
\* runs on with the filter it had.  And it does not hold when virsh cannot be
\* asked ("query"), when a save tears the configuration ("save") or when a step
\* of a teardown fails.
AtRest ==
  Quiet /\ vm = "running" =>
    warned \/ (nwf /\ bound /\ (rules \/ withdrawn) /\ Filtering)

\* Between commands an instance that is not in the configuration has left
\* nothing behind on the host: create rolls back what it made
\* (cleanupState.cleanup), and remove takes away what start made.
NoLeak ==
  Quiet /\ cfg # "ok" =>
    /\ cfg = "none" /\ net = "absent" /\ vm = "absent"
    /\ ~disk /\ ~nwf /\ ~rules
    /\ \A k \in Kinds : dmn[k] = "down" /\ k \notin orphan

\* A command that reports success has done what its name says: after start
\* or restart the VM runs, filtered; after stop or down it does not run;
\* after remove the instance is gone.
ResultHonest ==
  \A c \in Clients :
    pc[c] = "idle" /\ res[c] = "ok" =>
      /\ cmd[c] \in {"start", "restart"} =>
           vm = "running" /\ Enforced /\ Filtering
      /\ cmd[c] = "up" => vm = "running"
      /\ cmd[c] \in {"stop", "down"} => vm # "running"
      /\ cmd[c] \in {"remove", "downrm"} => cfg = "none"

\* Every command ends, whatever fails and whichever process is killed: none
\* waits for ever for the global lock, and the graceful shutdown of a guest
\* that does not react is cut short (gracefulStop).
AtWork(c) == pc[c] # "idle"
Ended(c) == pc[c] = "idle"
CommandsEnd == \A c \in Clients : AtWork(c) ~> Ended(c)

\* "Delete the VM first so the nwfilter is unbound before egress teardown
\* undefines it" (cleanupBackendResources).
VMFirst == \A c \in Clients : pc[c] \in {"r_flush", "r_undef"} => ~bound
=============================================================================
