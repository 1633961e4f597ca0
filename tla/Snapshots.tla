----------------------------- MODULE Snapshots ------------------------------
(***************************************************************************)
(* `abox snapshot add`, `remove`, `revert` and `list` (pkg/cmd/snapshot),  *)
(* on one libvirt instance.                                                *)
(*                                                                         *)
(* Each command looks first (is the guest stopped, does the snapshot       *)
(* exist), may wait for the user to confirm, and acts later; no lock is    *)
(* held between.  Commands run in several terminals, and the guest may be  *)
(* started and stopped between any two of their steps.  A look at libvirt  *)
(* that fails reads as "no" (virshOutputContainsLine).                     *)
(*                                                                         *)
(* The disk is a version and the SSH host key it holds; abox keeps a       *)
(* known_hosts file per instance and connects with accept-new.             *)
(***************************************************************************)
EXTENDS Naturals, FiniteSets

CONSTANTS SnapNames,     \* the names in use
          Terminals,     \* commands that may run at once
          MaxDiskVersions, MaxSnapCommands, MaxSnapMishaps

\* What the constants must be.
SnapAssumption ==
  MaxDiskVersions \in Nat /\ MaxSnapCommands \in Nat /\ MaxSnapMishaps \in Nat

VARIABLES power,      \* the guest: "off" or "on"
          filtered,   \* the filters of `abox start` are up
          image,      \* the disk's version and host key
          snaps,      \* name -> what the snapshot holds
          knownHosts, \* the key in known_hosts, 0 when it holds none
          snapCmd,    \* terminal -> the command and its step
          listed,     \* terminal -> what a list has gathered
          refusedKey, \* ssh has refused a changed host key
          overtaken,  \* the guest changed state between a look and the act
          rekeyed,    \* the guest changed its key after ssh learned it
          uncleared,  \* a revert did not get to clear known_hosts
          snapCommands, snapMishaps

snapVars == <<power, filtered, image, snaps, knownHosts, snapCmd, listed, refusedKey,
              overtaken, rekeyed, uncleared, snapCommands, snapMishaps>>
machine == <<power, filtered, image, knownHosts>>
excuses == <<refusedKey, overtaken, rekeyed, uncleared>>

NoSnapCmd == [op |-> "none", step |-> "none", name |-> ""]

SnapInit ==
  /\ power = "off" /\ filtered = FALSE /\ image = [ver |-> 0, key |-> 1]
  /\ snaps = [n \in {} |-> 0] /\ knownHosts = 0
  /\ snapCmd = [t \in Terminals |-> NoSnapCmd] /\ listed = [t \in Terminals |-> {}]
  /\ refusedKey = FALSE /\ overtaken = FALSE /\ rekeyed = FALSE /\ uncleared = FALSE
  /\ snapCommands = 0 /\ snapMishaps = 0

SnapMishap == snapMishaps < MaxSnapMishaps /\ snapMishaps' = snapMishaps + 1

\* A question to libvirt: the truth, or "no" when virsh fails.
Asks(truth, said) ==
  \/ said = truth /\ UNCHANGED snapMishaps
  \/ said = FALSE /\ truth /\ SnapMishap

(***************************************************************************)
(* The guest and its user.                                                 *)
(***************************************************************************)
\* A command that has looked and not acted yet is overtaken by a change of state.
Overtaking ==
  overtaken' = (overtaken \/ \E t \in Terminals : snapCmd[t].step \in {"exists?", "act"})

\* `abox start`: the filters first, then the guest (Lifecycle has the order).
GuestStart ==
  /\ power = "off" /\ power' = "on" /\ filtered' = TRUE /\ Overtaking
  /\ UNCHANGED <<image, snaps, knownHosts, snapCmd, listed, refusedKey, rekeyed, uncleared,
                 snapCommands, snapMishaps>>

\* `abox stop`.
GuestStop ==
  /\ power = "on" /\ power' = "off" /\ filtered' = FALSE /\ Overtaking
  /\ UNCHANGED <<image, snaps, knownHosts, snapCmd, listed, refusedKey, rekeyed, uncleared,
                 snapCommands, snapMishaps>>

\* The guest writes; it may make itself new host keys.
GuestWritesDisk(newKey) ==
  /\ power = "on" /\ image.ver < MaxDiskVersions
  /\ image' = [ver |-> image.ver + 1, key |-> IF newKey THEN image.key + 1 ELSE image.key]
  /\ rekeyed' = (rekeyed \/ (newKey /\ knownHosts # 0))
  /\ UNCHANGED <<power, filtered, snaps, knownHosts, snapCmd, listed, refusedKey, overtaken,
                 uncleared, snapCommands, snapMishaps>>

\* ssh with StrictHostKeyChecking=accept-new and the instance's known_hosts.
Connect ==
  /\ power = "on"
  /\ knownHosts' = IF knownHosts = 0 THEN image.key ELSE knownHosts
  /\ refusedKey' = (refusedKey \/ (knownHosts # 0 /\ knownHosts # image.key))
  /\ UNCHANGED <<power, filtered, image, snaps, snapCmd, listed, overtaken, rekeyed, uncleared,
                 snapCommands, snapMishaps>>

(***************************************************************************)
(* The commands.                                                           *)
(***************************************************************************)
BeginSnap(t, op, name) ==
  /\ snapCmd[t] = NoSnapCmd /\ snapCommands < MaxSnapCommands
  /\ snapCommands' = snapCommands + 1
  /\ snapCmd' = [snapCmd EXCEPT ![t] = [op |-> op, step |-> "stopped?", name |-> name]]
  /\ listed' = [listed EXCEPT ![t] = {}]
  /\ UNCHANGED <<machine, snaps, excuses, snapMishaps>>

EndSnap(t) == snapCmd' = [snapCmd EXCEPT ![t] = NoSnapCmd]
StepSnap(t, step) == snapCmd' = [snapCmd EXCEPT ![t].step = step]

\* A look that went wrong is a look nobody can hold the command to.
Misled(truth, said) == overtaken' = (overtaken \/ truth # said)

\* MUTANT of CheckStopped: add does not ask whether the guest runs.
CheckStoppedRevertOnly(t) ==
  /\ snapCmd[t].step = "stopped?"
  /\ \E said \in BOOLEAN :
       LET truth == power = "on"
       IN  IF snapCmd[t].op # "revert"
             THEN StepSnap(t, "exists?") /\ UNCHANGED <<snapMishaps, overtaken>>
             ELSE /\ Asks(truth, said) /\ Misled(truth, said)
                  /\ IF said THEN EndSnap(t) ELSE StepSnap(t, "exists?")
  /\ UNCHANGED <<machine, snaps, listed, refusedKey, rekeyed, uncleared, snapCommands>>

\* add and revert refuse a running guest; remove and list do not ask.
CheckStopped(t) ==
  /\ snapCmd[t].step = "stopped?"
  /\ \E said \in BOOLEAN :
       LET truth == power = "on"
       IN  IF snapCmd[t].op \in {"remove", "list"}
             THEN StepSnap(t, "exists?") /\ UNCHANGED <<snapMishaps, overtaken>>
             ELSE /\ Asks(truth, said) /\ Misled(truth, said)
                  /\ IF said THEN EndSnap(t) ELSE StepSnap(t, "exists?")
  /\ UNCHANGED <<machine, snaps, listed, refusedKey, rekeyed, uncleared, snapCommands>>

\* add wants a new name, remove and revert one that exists; list starts with the
\* names there are.  Between the check and the act lies the user's answer.
CheckExists(t) ==
  /\ snapCmd[t].step = "exists?"
  /\ LET truth == snapCmd[t].name \in DOMAIN snaps
     IN  IF snapCmd[t].op = "list"
           THEN /\ listed' = [listed EXCEPT ![t] = {[name |-> n, shown |-> FALSE] : n \in DOMAIN snaps}]
                /\ StepSnap(t, "infos") /\ UNCHANGED snapMishaps
           ELSE /\ \E said \in BOOLEAN :
                     /\ Asks(truth, said)
                     /\ \/ (snapCmd[t].op = "add") # said /\ StepSnap(t, "act")
                        \/ (snapCmd[t].op = "add") = said /\ EndSnap(t)
                /\ UNCHANGED listed
  /\ UNCHANGED <<machine, snaps, excuses, snapCommands>>

\* The user declines, or the process is killed.
Cancel(t) ==
  /\ snapCmd[t].step = "act" /\ EndSnap(t)
  /\ UNCHANGED <<machine, snaps, listed, excuses, snapCommands, snapMishaps>>

\* virsh snapshot-create-as: a snapshot of a running guest holds its memory too.
CreateSnapshot(t) ==
  /\ snapCmd[t].op = "add" /\ snapCmd[t].step = "act" /\ EndSnap(t)
  /\ LET name == snapCmd[t].name
     IN  snaps' = IF name \in DOMAIN snaps THEN snaps
                  ELSE [n \in DOMAIN snaps \cup {name} |->
                          IF n = name THEN [disk |-> image, live |-> power = "on"]
                                      ELSE snaps[n]]
  /\ UNCHANGED <<machine, listed, excuses, snapCommands, snapMishaps>>

DeleteSnapshot(t) ==
  /\ snapCmd[t].op = "remove" /\ snapCmd[t].step = "act" /\ EndSnap(t)
  /\ snaps' = [n \in DOMAIN snaps \ {snapCmd[t].name} |-> snaps[n]]
  /\ UNCHANGED <<machine, listed, excuses, snapCommands, snapMishaps>>

\* virsh snapshot-revert: the guest is as the snapshot has it, running or not.
RevertSnapshot(t) ==
  /\ snapCmd[t].op = "revert" /\ snapCmd[t].step = "act"
  /\ LET name == snapCmd[t].name
     IN  IF name \notin DOMAIN snaps
           THEN EndSnap(t) /\ UNCHANGED <<image, power, uncleared>>
           ELSE /\ image' = snaps[name].disk
                /\ power' = IF snaps[name].live THEN "on" ELSE "off"
                /\ uncleared' = TRUE
                /\ StepSnap(t, "clear")
  /\ UNCHANGED <<filtered, knownHosts, snaps, listed, refusedKey, overtaken, rekeyed,
                 snapCommands, snapMishaps>>

\* MUTANT of ClearKnownHosts: known_hosts is kept.
ClearKnownHostsKept(t) ==
  /\ snapCmd[t].step = "clear" /\ EndSnap(t)
  /\ rekeyed' = FALSE
  /\ uncleared' = \E u \in Terminals \ {t} : snapCmd[u].step = "clear"
  /\ UNCHANGED <<machine, snaps, listed, refusedKey, overtaken, snapCommands, snapMishaps>>

\* The host keys may have gone back: known_hosts is removed, with a warning
\* when that fails.
ClearKnownHosts(t) ==
  /\ snapCmd[t].step = "clear" /\ EndSnap(t)
  /\ \/ /\ knownHosts' = 0 /\ rekeyed' = FALSE
        /\ uncleared' = \E u \in Terminals \ {t} : snapCmd[u].step = "clear"
        /\ UNCHANGED snapMishaps
     \/ SnapMishap /\ UNCHANGED <<knownHosts, rekeyed, uncleared>>
  /\ UNCHANGED <<power, filtered, image, snaps, listed, refusedKey, overtaken, snapCommands>>

\* list asks about each name; one that has gone meanwhile, or whose question
\* fails, is left out.
GetSnapshotInfo(t) ==
  /\ snapCmd[t].step = "infos"
  /\ \E row \in listed[t] :
       /\ ~row.shown
       /\ listed' = [listed EXCEPT ![t] =
            IF row.name \in DOMAIN snaps THEN (@ \ {row}) \cup {[row EXCEPT !.shown = TRUE]}
                                         ELSE @ \ {row}]
  /\ UNCHANGED <<machine, snaps, snapCmd, excuses, snapCommands, snapMishaps>>

ListEnds(t) ==
  /\ snapCmd[t].step = "infos" /\ \A row \in listed[t] : row.shown
  /\ EndSnap(t)
  /\ UNCHANGED <<machine, snaps, listed, excuses, snapCommands, snapMishaps>>

\* The steps every command has; Cancel stands for the prompts and for a kill.
SnapChecks(t, op) ==
  \/ \E n \in SnapNames : BeginSnap(t, op, n)
  \/ snapCmd[t].op = op /\ (CheckStopped(t) \/ CheckExists(t) \/ Cancel(t))

\* `snapshot add`, `snapshot remove`, `snapshot revert` and `snapshot list`.
AddSnap(t) == SnapChecks(t, "add") \/ CreateSnapshot(t)
RemoveSnap(t) == SnapChecks(t, "remove") \/ DeleteSnapshot(t)
RevertSnap(t) == SnapChecks(t, "revert") \/ RevertSnapshot(t) \/ ClearKnownHosts(t)
ListSnaps(t) == SnapChecks(t, "list") \/ GetSnapshotInfo(t) \/ ListEnds(t)

SnapStep(t) == AddSnap(t) \/ RemoveSnap(t) \/ RevertSnap(t) \/ ListSnaps(t)

SnapNext ==
  \/ GuestStart \/ GuestStop \/ Connect
  \/ \E k \in BOOLEAN : GuestWritesDisk(k)
  \/ \E t \in Terminals : SnapStep(t)

(***************************************************************************)
(* Properties.                                                             *)
(***************************************************************************)
\* A guest runs only behind the filters `abox start` brought up: a revert never
\* brings one to life, unless a snapshot was taken of a guest that had been
\* started between add's check and its act (or the check itself failed).
RunsFiltered == power = "on" => filtered \/ overtaken

\* ssh meets a changed host key only when the guest changed it itself, or the
\* revert's removal of known_hosts failed or has not come yet: reverting is not
\* something the user has to clean up after.
RefusesForCause == ~refusedKey /\ refusedKey' => rekeyed \/ uncleared
NoHostKeyMismatch == [][RefusesForCause]_snapVars

\* "The instance must be stopped to revert to a snapshot" (abox snapshot revert):
\* a running guest never has its disk changed under it, unless it was started
\* between the check and the act.
RevertsStopped ==
  \A t \in Terminals :
    snapCmd[t].step = "act" /\ snapCmd'[t].step = "clear" => power = "off" \/ overtaken
RevertSparesRunning == [][RevertsStopped]_snapVars
=============================================================================
