------------------------------- MODULE VMware -------------------------------
(***************************************************************************)
(* The VMware backend's network bookkeeping over the life of several       *)
(* instances: internal/backend/vmware/{network,vm,egress_default}.go and   *)
(* internal/vmrun/{network,netcfg_answerfile}.go, driven by the create,    *)
(* start, stop and remove commands.                                        *)
(*                                                                         *)
(* A guest's NIC is on one of a small pool of host-only vmnets.  Which one *)
(* is written down in five places: the allocation registry, the instance's *)
(* config.yaml, the vendor's answer file (and the adapters the vendor tool *)
(* made from it), the .vmx, and the host firewall's rules.  No write       *)
(* covers two of them, every write may fail, and abox may be killed        *)
(* between any two.  The registry and the answer file are shared: create,  *)
(* remove and the network part of start hold the global lock; the rest of  *)
(* start and stop do not.                                                  *)
(***************************************************************************)
EXTENDS Naturals, FiniteSets

CONSTANTS
    Boxen,            \* instances, as positive numbers
    VNets,            \* the pool of vmnet numbers
    MaxVmwMishaps,    \* failed writes and kills explored
    MaxVmwCommands    \* commands explored

\* What the constants must be.
VmwAssumption ==
    /\ Boxen \subseteq Nat \ {0} /\ VNets \subseteq Nat \ {0}
    /\ MaxVmwMishaps \in Nat /\ MaxVmwCommands \in Nat

VARIABLES
    reg,        \* vmnets.json: the vmnet of an instance, 0 for none
    conf,       \* does config.yaml exist; the vmnet it names, 0 for none
    netfile,    \* the answer file: whose host-only subnet a vmnet has, 0 none
    adapter,    \* what the vendor tool last made of the answer file
    vmx,        \* the vmnet the .vmx puts the NIC on, 0 when there is no .vmx
    rules,      \* whose policy the host rules of a vmnet enforce, 0 for none
    nic,        \* the vmnet a powered-on guest is on, 0 when it is off
    held,       \* the holder of the global lock, 0 for none
    task,       \* per instance: the command, its next step, did the
                \* allocation predate this Network.Create, the registry it read
    orphans,    \* history: guests left powered on by a remove or a stop
    stale,      \* history: rules were flushed, or a start was cut short,
                \* with config.yaml naming a vmnet that was given back
    burnt,      \* history: a kill or a failed undo may have left a slot taken
    vmwMishaps, vmwCommands

vmwVars == <<reg, conf, netfile, adapter, vmx, rules, nic, held, task,
             orphans, stale, burnt, vmwMishaps, vmwCommands>>
netVars == <<reg, conf, netfile, adapter>>
hostVars == <<rules, nic>>
vmwHist == <<orphans, stale, burnt>>

Free == [i \in Boxen |-> 0]
NoTask == [cmd |-> "none", step |-> "idle", had |-> FALSE, read |-> Free]
NoConf == [saved |-> FALSE, vnet |-> 0]

VmwInit ==
    /\ reg = Free /\ conf = [i \in Boxen |-> NoConf]
    /\ netfile = [v \in VNets |-> 0] /\ adapter = [v \in VNets |-> 0]
    /\ vmx = [i \in Boxen |-> 0] /\ nic = [i \in Boxen |-> 0]
    /\ rules = [v \in VNets |-> 0]
    /\ held = 0 /\ task = [i \in Boxen |-> NoTask]
    /\ orphans = {} /\ stale = FALSE /\ burnt = FALSE
    /\ vmwMishaps = 0 /\ vmwCommands = 0

AtStep(i, s) == task[i].step = s
GoTo(i, s) == task' = [task EXCEPT ![i].step = s]
Mishap == vmwMishaps < MaxVmwMishaps /\ vmwMishaps' = vmwMishaps + 1
NoMishap == UNCHANGED vmwMishaps

-----------------------------------------------------------------------------
(* Commands: create and remove run under the lock; start takes it for      *)
(* ensureNetwork and, when the registry already names a vmnet, gives it    *)
(* back without calling Network.Create.                                    *)

NewTask(i, c, s) ==
    /\ AtStep(i, "idle")
    /\ vmwCommands < MaxVmwCommands /\ vmwCommands' = vmwCommands + 1
    /\ task' = [task EXCEPT ![i] = [NoTask EXCEPT !.cmd = c, !.step = s]]

BeginCreate(i) ==
    /\ held = 0 /\ ~conf[i].saved /\ vmx[i] = 0
    /\ NewTask(i, "create", "allocate")
    /\ held' = i
    /\ conf' = [conf EXCEPT ![i] = [saved |-> TRUE, vnet |-> 0]]
    /\ UNCHANGED <<reg, netfile, adapter, vmx, hostVars, vmwHist, vmwMishaps>>

EnsureNetwork(i) ==
    /\ held = 0 /\ conf[i].saved /\ vmx[i] # 0 /\ nic[i] = 0
    /\ NewTask(i, "start", IF reg[i] = 0 THEN "allocate" ELSE "redefine")
    /\ held' = IF reg[i] = 0 THEN i ELSE 0
    /\ UNCHANGED <<netVars, vmx, hostVars, vmwHist, vmwMishaps>>

BeginRemove(i) ==
    /\ held = 0 /\ conf[i].saved
    /\ NewTask(i, "remove", "undefine")
    /\ held' = i
    /\ UNCHANGED <<netVars, vmx, hostVars, vmwHist, vmwMishaps>>

\* A `vmrun list` that fails shows the guest as off: stop then goes on without
\* forcing it off.
StopVM(i) ==
    /\ nic[i] # 0 /\ conf[i].saved
    /\ NewTask(i, "stop", "flush")
    /\ \/ /\ nic' = [nic EXCEPT ![i] = 0] /\ orphans' = orphans \ {i}
          /\ NoMishap
       \/ /\ orphans' = orphans \cup {i} /\ UNCHANGED nic
          /\ Mishap
    /\ UNCHANGED <<netVars, vmx, rules, held, stale, burnt>>

\* The command ends; what it held of the lock is released.
Finished(i) ==
    /\ task' = [task EXCEPT ![i] = NoTask]
    /\ held' = IF held = i THEN 0 ELSE held

-----------------------------------------------------------------------------
(* Network.Create and its rollback.                                        *)

\* Allocate reads the registry file and, unless the instance is in it, saves
\* it again with the lowest free vmnet: only the global lock keeps another
\* process out of the window between the two.
ReadRegistry(i) ==
    /\ AtStep(i, "allocate")
    /\ task' = [task EXCEPT ![i].read = reg, ![i].had = (reg[i] # 0),
                            ![i].step = IF reg[i] # 0 THEN "persist"
                                        ELSE "save"]
    /\ UNCHANGED <<netVars, vmx, hostVars, held, vmwHist, vmwMishaps,
                   vmwCommands>>

FreeVNets(r) == VNets \ {r[j] : j \in Boxen}

\* Before the rollback is armed, a failed save or an exhausted pool just
\* fails the command.
Allocate(i) ==
    /\ AtStep(i, "save")
    /\ LET free == FreeVNets(task[i].read)
       IN  \/ /\ free # {}
              /\ reg' = [task[i].read EXCEPT
                           ![i] = CHOOSE v \in free : \A w \in free : v <= w]
              /\ GoTo(i, "persist") /\ NoMishap
           \/ /\ (free = {} /\ NoMishap) \/ Mishap
              /\ GoTo(i, "abort") /\ UNCHANGED reg
    /\ UNCHANGED <<conf, netfile, adapter, vmx, hostVars, held, vmwHist,
                   vmwCommands>>

PersistVNet(i) ==
    /\ AtStep(i, "persist")
    /\ \/ /\ conf' = [conf EXCEPT ![i].vnet = reg[i]]
          /\ GoTo(i, "configure") /\ NoMishap
       \/ GoTo(i, "release") /\ Mishap /\ UNCHANGED conf
    /\ UNCHANGED <<reg, netfile, adapter, vmx, hostVars, held, vmwHist,
                   vmwCommands>>

\* ConfigureHostOnly rewrites the vmnet's lines of the answer file, then has
\* the vendor tool apply the file.
WriteNetworking(i) ==
    /\ AtStep(i, "configure")
    /\ \/ /\ netfile' = [netfile EXCEPT ![reg[i]] = i]
          /\ GoTo(i, "apply") /\ NoMishap
       \/ GoTo(i, "release") /\ Mishap /\ UNCHANGED netfile
    /\ UNCHANGED <<reg, conf, adapter, vmx, hostVars, held, vmwHist,
                   vmwCommands>>

ApplyNetworking(i) ==
    /\ AtStep(i, "apply")
    /\ \/ /\ adapter' = netfile /\ NoMishap
          /\ GoTo(i, IF task[i].cmd = "create" THEN "render" ELSE "redefine")
          /\ held' = IF task[i].cmd = "create" THEN held ELSE 0
       \/ GoTo(i, "release") /\ Mishap /\ UNCHANGED <<adapter, held>>
    /\ UNCHANGED <<reg, conf, netfile, vmx, hostVars, vmwHist, vmwCommands>>

\* MUTANT of RollbackRelease: the allocation is never released.
RollbackReleaseNothing(i) ==
    /\ AtStep(i, "release")
    /\ GoTo(i, "clear") /\ NoMishap
    /\ UNCHANGED <<netVars, vmx, hostVars, held, vmwHist, vmwCommands>>

\* rollbackNetworkCreate, skipped for an allocation that predates the call:
\* the vmnet goes back to the pool, then config.yaml stops naming it.
RollbackRelease(i) ==
    /\ AtStep(i, "release")
    /\ \/ /\ task[i].had
          /\ GoTo(i, "abort") /\ NoMishap /\ UNCHANGED <<reg, burnt>>
       \/ /\ ~task[i].had
          /\ GoTo(i, "clear")
          /\ \/ /\ reg' = [reg EXCEPT ![i] = 0] /\ NoMishap
                /\ UNCHANGED burnt
             \/ Mishap /\ burnt' = TRUE /\ UNCHANGED reg
    /\ UNCHANGED <<conf, netfile, adapter, vmx, hostVars, held, orphans,
                   stale, vmwCommands>>

RollbackClear(i) ==
    /\ AtStep(i, "clear")
    /\ GoTo(i, "abort")
    /\ \/ conf' = [conf EXCEPT ![i].vnet = 0] /\ NoMishap
       \/ Mishap /\ UNCHANGED conf
    /\ UNCHANGED <<reg, netfile, adapter, vmx, hostVars, held, vmwHist,
                   vmwCommands>>

\* The failed command ends: create deletes the instance's data.
Abort(i) ==
    /\ AtStep(i, "abort")
    /\ conf' = IF task[i].cmd = "create"
               THEN [conf EXCEPT ![i] = NoConf] ELSE conf
    /\ Finished(i)
    /\ UNCHANGED <<reg, netfile, adapter, vmx, hostVars, vmwHist,
                   vmwMishaps, vmwCommands>>

-----------------------------------------------------------------------------
(* The VM: created, redefined at every start, confined, booted.            *)

\* GenerateVMX takes the vmnet from config.yaml and refuses anything else; a
\* create that fails here undoes its network with Network.Delete.
RenderVMX(i) ==
    /\ AtStep(i, "render")
    /\ \/ /\ vmx' = [vmx EXCEPT ![i] = conf[i].vnet]
          /\ Finished(i) /\ NoMishap
       \/ GoTo(i, "unconfigure") /\ Mishap /\ UNCHANGED <<vmx, held>>
    /\ UNCHANGED <<netVars, hostVars, vmwHist, vmwCommands>>

Redefine(i) ==
    /\ AtStep(i, "redefine")
    /\ \/ /\ conf[i].vnet # 0
          /\ vmx' = [vmx EXCEPT ![i] = conf[i].vnet]
          /\ GoTo(i, "define") /\ NoMishap /\ UNCHANGED held
       \/ /\ (conf[i].vnet = 0 /\ NoMishap) \/ Mishap
          /\ Finished(i) /\ UNCHANGED vmx
    /\ UNCHANGED <<netVars, hostVars, vmwHist, vmwCommands>>

\* Define replaces the vmnet's rules by the instance's and verifies them.
DefineEgress(i) ==
    /\ AtStep(i, "define")
    /\ \/ /\ rules' = [rules EXCEPT ![conf[i].vnet] = i]
          /\ GoTo(i, "boot") /\ NoMishap /\ UNCHANGED held
       \/ Finished(i) /\ Mishap /\ UNCHANGED rules
    /\ UNCHANGED <<netVars, vmx, nic, vmwHist, vmwCommands>>

BootVM(i) ==
    /\ AtStep(i, "boot")
    /\ \/ nic' = [nic EXCEPT ![i] = vmx[i]] /\ NoMishap
       \/ Mishap /\ UNCHANGED nic
    /\ Finished(i)
    /\ UNCHANGED <<netVars, vmx, rules, vmwHist, vmwCommands>>

-----------------------------------------------------------------------------
(* Teardown.                                                               *)

\* VM.Remove ignores a failed `vmrun deleteVM` and deletes the .vmx; nothing
\* powers the guest off first, and vmrun may refuse to delete one that is on.
RemoveVM(i) ==
    /\ AtStep(i, "undefine")
    /\ vmx' = [vmx EXCEPT ![i] = 0]
    /\ \/ nic' = [nic EXCEPT ![i] = 0] /\ UNCHANGED orphans
       \/ /\ nic[i] # 0
          /\ orphans' = orphans \cup {i} /\ UNCHANGED nic
    /\ GoTo(i, "flush")
    /\ UNCHANGED <<netVars, rules, held, stale, burnt, vmwMishaps,
                   vmwCommands>>

\* EgressController.Remove flushes the rules of the vmnet config.yaml names;
\* a failure is only logged.
RemoveEgress(i) ==
    /\ AtStep(i, "flush")
    /\ \/ /\ rules' = IF conf[i].vnet = 0 THEN rules
                      ELSE [rules EXCEPT ![conf[i].vnet] = 0]
          /\ stale' = (stale \/ conf[i].vnet \notin {0, reg[i]})
          /\ NoMishap
       \/ Mishap /\ UNCHANGED <<rules, stale>>
    /\ IF task[i].cmd = "remove"
       THEN GoTo(i, "unconfigure") /\ UNCHANGED held ELSE Finished(i)
    /\ UNCHANGED <<netVars, vmx, nic, orphans, burnt, vmwCommands>>

\* Network.Delete: the vmnet's lines leave the answer file, the vendor tool
\* applies it, and only then is the vmnet released; a failure of either part
\* keeps the allocation, and the caller goes on.
UnconfigureHostOnly(i) ==
    /\ AtStep(i, "unconfigure")
    /\ \/ /\ reg[i] = 0
          /\ GoTo(i, "forget") /\ NoMishap /\ UNCHANGED <<netfile, burnt>>
       \/ /\ reg[i] # 0
          /\ netfile' = [netfile EXCEPT ![reg[i]] = 0]
          /\ GoTo(i, IF netfile[reg[i]] = 0 THEN "drop" ELSE "unapply")
          /\ NoMishap /\ UNCHANGED burnt
       \/ /\ reg[i] # 0
          /\ GoTo(i, "forget") /\ Mishap /\ burnt' = TRUE /\ UNCHANGED netfile
    /\ UNCHANGED <<reg, conf, adapter, vmx, hostVars, held, orphans, stale,
                   vmwCommands>>

ApplyUnconfigure(i) ==
    /\ AtStep(i, "unapply")
    /\ \/ /\ adapter' = netfile
          /\ GoTo(i, "drop") /\ NoMishap /\ UNCHANGED burnt
       \/ GoTo(i, "forget") /\ Mishap /\ burnt' = TRUE /\ UNCHANGED adapter
    /\ UNCHANGED <<reg, conf, netfile, vmx, hostVars, held, orphans, stale,
                   vmwCommands>>

ReleaseVNet(i) ==
    /\ AtStep(i, "drop")
    /\ \/ reg' = [reg EXCEPT ![i] = 0] /\ NoMishap /\ UNCHANGED burnt
       \/ Mishap /\ burnt' = TRUE /\ UNCHANGED reg
    /\ GoTo(i, "forget")
    /\ UNCHANGED <<conf, netfile, adapter, vmx, hostVars, held, orphans,
                   stale, vmwCommands>>

ForgetInstance(i) ==
    /\ AtStep(i, "forget")
    /\ conf' = [conf EXCEPT ![i] = NoConf]
    /\ Finished(i)
    /\ UNCHANGED <<reg, netfile, adapter, vmx, hostVars, vmwHist,
                   vmwMishaps, vmwCommands>>

\* abox is killed: the kernel drops its lock, nothing is undone.
AboxKilled(i) ==
    /\ ~AtStep(i, "idle")
    /\ Mishap
    /\ Finished(i)
    /\ burnt' = TRUE
    /\ stale' = (stale \/ (reg[i] # 0 /\ conf[i].vnet \notin {0, reg[i]}))
    /\ UNCHANGED <<netVars, vmx, hostVars, orphans, vmwCommands>>

\* The operator takes the vmnet of a powered-off instance out of the registry
\* and the answer file by hand; the instance's next start allocates again.
VNetTakenAway(i) ==
    /\ AtStep(i, "idle") /\ held = 0 /\ reg[i] # 0 /\ nic[i] = 0
    /\ Mishap
    /\ reg' = [reg EXCEPT ![i] = 0]
    /\ netfile' = [netfile EXCEPT ![reg[i]] = 0] /\ adapter' = netfile'
    /\ UNCHANGED <<conf, vmx, hostVars, held, task, vmwHist, vmwCommands>>

VmwNext ==
    \E i \in Boxen :
        \/ BeginCreate(i) \/ EnsureNetwork(i) \/ BeginRemove(i) \/ StopVM(i)
        \/ ReadRegistry(i) \/ Allocate(i) \/ PersistVNet(i) \/ WriteNetworking(i)
        \/ ApplyNetworking(i) \/ RollbackRelease(i) \/ RollbackClear(i)
        \/ Abort(i) \/ RenderVMX(i) \/ Redefine(i) \/ DefineEgress(i)
        \/ BootVM(i) \/ RemoveVM(i) \/ RemoveEgress(i)
        \/ UnconfigureHostOnly(i) \/ ApplyUnconfigure(i) \/ ReleaseVNet(i)
        \/ ForgetInstance(i) \/ AboxKilled(i) \/ VNetTakenAway(i)

-----------------------------------------------------------------------------

VmwSteps == {"idle", "allocate", "save", "persist", "configure", "apply", "release",
             "clear", "abort", "render", "redefine", "define", "boot",
             "undefine", "flush", "unconfigure", "unapply", "drop", "forget"}

\* The state keeps its shape: a vmnet outside the pool is never recorded.
VmwTypeOK ==
    /\ reg \in [Boxen -> VNets \cup {0}] /\ vmx \in [Boxen -> VNets \cup {0}]
    /\ nic \in [Boxen -> VNets \cup {0}]
    /\ conf \in [Boxen -> [saved : BOOLEAN, vnet : VNets \cup {0}]]
    /\ netfile \in [VNets -> Boxen \cup {0}]
    /\ adapter \in [VNets -> Boxen \cup {0}]
    /\ rules \in [VNets -> Boxen \cup {0}]
    /\ held \in Boxen \cup {0} /\ orphans \subseteq Boxen
    /\ task \in [Boxen -> [cmd : {"none", "create", "start", "remove", "stop"},
                           step : VmwSteps, had : BOOLEAN,
                           read : [Boxen -> VNets \cup {0}]]]
    /\ stale \in BOOLEAN /\ burnt \in BOOLEAN
    /\ vmwMishaps \in 0..MaxVmwMishaps /\ vmwCommands \in 0..MaxVmwCommands

\* Guests are isolated from one another at layer 2: no two powered-on guests
\* are ever on one vmnet, and each is on the one the registry gives it,
\* whatever failed or was killed.  The exceptions are a guest left on by a
\* remove or a stop, and a start killed between saving the registry and config.yaml when
\* the latter still named a vmnet taken away before: the next start finds a
\* registry entry, skips Network.Create and uses the old vmnet.
OwnSegment ==
    stale \/ \A i, j \in Boxen \ orphans :
        i # j /\ nic[i] # 0 => nic[i] # nic[j] /\ nic[i] = reg[i]

\* A powered-on guest is filtered by its own policy's rules, whatever is
\* created, removed or killed around it.  The exceptions are a guest left on by
\* a remove or a stop, and a flush by an instance whose config.yaml still named a
\* vmnet it had given back (the stale pointer rollbackNetworkCreate accepts).
RulesInForce ==
    stale \/ \A i \in Boxen \ orphans : nic[i] # 0 => rules[nic[i]] = i

\* A failed create gives its vmnet back: "a handful of failed creates" cannot
\* exhaust the pool.  Only a kill or an undo that itself fails leaves a slot
\* taken by an instance that does not exist.
SlotGivenBack ==
    burnt \/ \A i \in Boxen : reg[i] # 0 => conf[i].saved

\* The answer file names a subnet for the vmnet of a powered-on guest only on
\* that guest's behalf: two guests' subnets never meet on one adapter, with the
\* exceptions of OwnSegment.
AdapterOwned ==
    \A i \in Boxen \ orphans :
        nic[i] # 0 => stale \/ netfile[nic[i]] \in {0, i}

\* What the comment on ensureNetwork expects of a start that finds a registry
\* entry without its vmnet: a powered-on guest's vmnet was configured
\* host-only for it.  (Exists reads the registry only, so a start killed
\* between the allocation and the answer file leaves this false.)
RunsHostOnly ==
    \A i \in Boxen \ orphans : nic[i] # 0 => adapter[nic[i]] = i
=============================================================================
