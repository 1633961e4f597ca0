--------------------------------- MODULE Up ---------------------------------
(***************************************************************************)
(* "abox up" for a new instance, past the trust gate (module Trust): the   *)
(* phases of doNewInstance and doProvision (pkg/cmd/up/up.go) with the     *)
(* scripts of pkg/cmd/provision, and the checklist that shows them         *)
(* (internal/tui).                                                         *)
(*                                                                         *)
(* The phases run in a goroutine; on a terminal the process ends when the  *)
(* checklist program ends, not when the goroutine does.  What create,      *)
(* start and the security mode do is the subject of Storage, Lifecycle and *)
(* Egress; here each succeeds or fails.  The reconcile decision on the     *)
(* allowlist of an existing instance is in Allowlist.                      *)
(***************************************************************************)
EXTENDS Naturals, FiniteSets

CONSTANTS
    N,          \* number of provision scripts
    MaxLost     \* bound on SetMode calls that fail

\* What the constants must be.
UpAssumption == N \in Nat /\ MaxLost \in Nat

VARIABLES
    terminal,  \* is the terminal interactive
    pc,        \* control state of the command
    cur,       \* the script being run
    failed,    \* the phases ended with an error
    overlay,   \* the overlay directory exists in the guest
    modes,     \* the modes of the two filters
    ran,       \* [1..N -> how far each script got in the guest]
    ui,        \* [Steps -> status shown in the checklist]
    tui,       \* the checklist program: "off", "on", "done", "interrupted"
    lost       \* the SetMode calls that failed: filter and mode

upVars == <<terminal, pc, cur, failed, overlay, modes, ran, ui, tui, lost>>

Filters == {"dns", "http"}
Steps == 0..(IF N = 0 THEN 2 ELSE IF N = 1 THEN 3 ELSE 3 + N)
Provision == 3                        \* provisionIdx

Work == {"create", "start", "secure", "passiveDns", "passiveHttp", "ssh", "mount",
         "script", "drop", "unmount", "activeDns", "activeHttp", "returned"}
UpTypeOK ==
    /\ terminal \in BOOLEAN
    /\ pc \in Work \cup {"auth", "exit"}
    /\ cur \in 0..N /\ failed \in BOOLEAN /\ overlay \in BOOLEAN
    /\ modes \in [Filters -> {"active", "passive"}]
    /\ ran \in [1..N -> {"no", "part", "ended"}]
    /\ ui \in [Steps -> {"pending", "active", "done", "failed"}]
    /\ tui \in {"off", "on", "done", "interrupted"}
    /\ lost \subseteq Filters \X {"active", "passive"}

UpInit ==
    /\ terminal \in BOOLEAN
    /\ pc = "auth" /\ cur = 0 /\ failed = FALSE /\ overlay = FALSE
    /\ modes = [f \in Filters |-> "active"]
    /\ ran = [i \in 1..N |-> "no"]
    /\ ui = [s \in Steps |-> "pending"] /\ tui = "off"
    /\ lost = {}

-----------------------------------------------------------------------------
(* The phases; notifications reach the checklist only while it runs        *)

\* handlePhaseStartMsg and handlePhaseDoneMsg on a checklist u.
Started(u, s) == IF tui = "on" /\ s \in Steps /\ u[s] = "pending"
                 THEN [u EXCEPT ![s] = "active"] ELSE u
Done(u, s, ok) == IF tui = "on" /\ s \in Steps
                  THEN [u EXCEPT ![s] = IF ok THEN "done" ELSE "failed"] ELSE u

\* runUpTUI authenticates before the checklist owns the terminal.
Auth ==
    /\ pc = "auth"
    /\ \/ /\ pc' = "create" /\ tui' = IF terminal THEN "on" ELSE "off"
          /\ ui' = IF terminal THEN [ui EXCEPT ![0] = "active"] ELSE ui
       \/ terminal /\ pc' = "exit" /\ UNCHANGED <<ui, tui>>
    /\ UNCHANGED <<terminal, cur, failed, overlay, modes, ran, lost>>

PhaseOf == [p \in {"create", "start", "secure"} |->
               IF p = "create" THEN 0 ELSE IF p = "start" THEN 1 ELSE 2]
AfterPhase == [p \in {"create", "start", "secure"} |->
                  IF p = "create" THEN "start" ELSE IF p = "start" THEN "secure"
                  ELSE IF N = 0 THEN "returned" ELSE "passiveDns"]

\* Create, start and secure: a failure ends the work function.
Phase ==
    /\ pc \in {"create", "start", "secure"}
    /\ \E ok \in BOOLEAN :
         /\ LET u == Done(ui, PhaseOf[pc], ok) IN
              ui' = IF ok /\ pc # "secure" THEN Started(u, PhaseOf[pc] + 1) ELSE u
         /\ failed' = ~ok
         /\ pc' = IF ok THEN AfterPhase[pc] ELSE "returned"
    /\ UNCHANGED <<terminal, cur, overlay, modes, ran, tui, lost>>

\* setFilterMode: DNS, then HTTP; a failure is a warning.
SetMode(f, at, m, next, shown) ==
    /\ pc = at
    /\ \/ modes' = [modes EXCEPT ![f] = m] /\ UNCHANGED lost
       \/ /\ Cardinality(lost) < MaxLost /\ lost' = lost \cup {<<f, m>>}
          /\ UNCHANGED modes
    /\ pc' = next
    /\ ui' = shown
    /\ UNCHANGED <<terminal, cur, failed, overlay, ran, tui>>

\* doProvision: passive, with the deferred return to active.
EnterPassive ==
    \/ SetMode("dns", "passiveDns", "passive", "passiveHttp", ui)
    \/ SetMode("http", "passiveHttp", "passive", "ssh", Started(ui, Provision))

RestoreActive ==
    \/ SetMode("dns", "activeDns", "active", "activeHttp", ui)
    \/ SetMode("http", "activeHttp", "active", "returned", ui)

\* doProvision and runProvision return an error: the deferred functions run.
Fail(next) == failed' = TRUE /\ pc' = next /\ ui' = Done(ui, Provision, FALSE)

\* Load the instance, find its address, wait for SSH and (best effort) for
\* cloud-init.
WaitForSSH ==
    /\ pc = "ssh"
    /\ \/ pc' = "mount" /\ UNCHANGED <<failed, ui>>
       \/ Fail("activeDns")
    /\ UNCHANGED <<terminal, cur, overlay, modes, ran, tui, lost>>

\* mountOverlay; without one the scripts start at once.
MountOverlay ==
    /\ pc = "mount"
    /\ \/ /\ cur' = 1 /\ pc' = "script" /\ overlay' \in BOOLEAN
          /\ ui' = IF N > 1 THEN Started(ui, Provision + 1) ELSE ui
          /\ UNCHANGED failed
       \/ Fail("activeDns") /\ overlay' \in BOOLEAN /\ UNCHANGED cur
    /\ UNCHANGED <<terminal, modes, ran, tui, lost>>

\* The sub-step of script i, when there are several.
SubDone(i, ok) == IF N > 1 THEN Done(ui, Provision + i, ok) ELSE ui

\* Script cur succeeded: the next one, or the end of provision.Run.
ScriptDone ==
    IF cur < N
    THEN /\ cur' = cur + 1 /\ pc' = "script" /\ UNCHANGED failed
         /\ ui' = Started(SubDone(cur, TRUE), Provision + cur + 1)
    ELSE /\ pc' = "unmount" /\ ui' = SubDone(cur, TRUE)
         /\ UNCHANGED <<cur, failed>>

ScriptFailed ==
    /\ failed' = TRUE /\ pc' = "unmount" /\ UNCHANGED cur
    /\ ui' = SubDone(cur, FALSE)

\* runScript: ssh ends with the script's status, or with 255, which a lost
\* connection and a script of that status have in common.
RunScript ==
    /\ pc = "script"
    /\ \/ ran' = [ran EXCEPT ![cur] = "ended"] /\ ScriptDone
       \/ ran' = [ran EXCEPT ![cur] = "part"] /\ ScriptFailed
       \/ /\ \E how \in {"no", "part", "ended"} : ran' = [ran EXCEPT ![cur] = how]
          /\ pc' = "drop" /\ UNCHANGED <<cur, failed, ui>>
    /\ UNCHANGED <<terminal, overlay, modes, tui, lost>>

\* A script outlives the connection and comes to its end.
GuestFinishes ==
    /\ pc = "drop" /\ ran[cur] = "part"
    /\ ran' = [ran EXCEPT ![cur] = "ended"]
    /\ UNCHANGED <<terminal, pc, cur, failed, overlay, modes, ui, tui, lost>>

\* MUTANT of HandleSSHDrop: SSH coming back counts as success.
HandleSSHDropOptimist ==
    /\ pc = "drop"
    /\ ScriptDone \/ ScriptFailed
    /\ UNCHANGED <<terminal, overlay, modes, ran, tui, lost>>

\* handleSSHDrop: when SSH is back, the marker the script writes last decides.
HandleSSHDrop ==
    /\ pc = "drop"
    /\ \/ ran[cur] = "ended" /\ ScriptDone
       \/ ScriptFailed           \* no marker, or SSH did not come back
    /\ UNCHANGED <<terminal, overlay, modes, ran, tui, lost>>

\* The deferred unmountOverlay, best effort; provision.Run returns and the phase
\* is done.
UnmountOverlay ==
    /\ pc = "unmount"
    /\ overlay' \in {FALSE, overlay}
    /\ pc' = "activeDns"
    /\ ui' = Done(ui, Provision, ~failed)
    /\ UNCHANGED <<terminal, cur, failed, modes, ran, tui, lost>>

\* The work function returned: the checklist gets allDoneMsg, the command ends.
Finish ==
    /\ pc = "returned"
    /\ tui' = IF tui = "on" THEN "done" ELSE tui
    /\ pc' = "exit"
    /\ UNCHANGED <<terminal, cur, failed, overlay, modes, ran, ui, lost>>

\* Ctrl-C: in the checklist it ends the program with "interrupted" and the
\* goroutine goes on until the process exits; elsewhere the signal ends the
\* process, and no deferred function runs.
Interrupt ==
    /\ \/ tui = "on" /\ tui' = "interrupted" /\ UNCHANGED pc
       \/ tui = "off" /\ pc # "exit" /\ pc' = "exit" /\ UNCHANGED tui
    /\ UNCHANGED <<terminal, cur, failed, overlay, modes, ran, ui, lost>>

\* tui.Run returned: main returns and the process is gone.
Abandon ==
    /\ tui = "interrupted" /\ pc # "exit"
    /\ pc' = "exit"
    /\ UNCHANGED <<terminal, cur, failed, overlay, modes, ran, ui, tui, lost>>

UpNext ==
    \/ Auth \/ Phase \/ EnterPassive \/ WaitForSSH \/ MountOverlay \/ RunScript \/ GuestFinishes
    \/ HandleSSHDrop \/ UnmountOverlay \/ RestoreActive \/ Finish
    \/ Interrupt \/ Abandon

-----------------------------------------------------------------------------
(* Properties                                                              *)

\* When the work function returns, with or without an error, each filter
\* enforces again, unless the very call that sets it to active failed, which is
\* a warning (setFilterMode). Nothing is said of a process that ends otherwise.
RestoredActive ==
    pc = "returned" =>
      \A f \in Filters : <<f, "active">> \notin lost => modes[f] = "active"

\* Success means that every script ran to its end in the guest, one after the
\* other, although connections drop and exit status 255 is ambiguous.
ScriptsEnded ==
    /\ pc = "returned" /\ ~failed => \A i \in 1..N : ran[i] = "ended"
    /\ \A i \in 1..N : \A j \in 1..N : i < j /\ ran[j] # "no" => ran[i] = "ended"

\* The checklist tells the truth: a script shown as done ran to its end, no
\* step is shown done after a failed one, and a run that ends well shows every
\* step done.
ChecklistTrue ==
    /\ N > 1 => \A i \in 1..N : ui[Provision + i] = "done" => ran[i] = "ended"
    /\ \A s \in Steps : \A t \in Steps : ui[s] = "failed" /\ s < t /\ s # Provision => ui[t] # "done"
    /\ tui = "done" /\ ~failed => \A s \in Steps : ui[s] = "done"

\* doProvision: "Restore active mode when done, regardless of how we exit". Not so
\* when the process ends by Ctrl-C while the scripts run.
ActiveAgain ==
    pc = "exit" =>
      \A f \in Filters : <<f, "active">> \notin lost => modes[f] = "active"
=============================================================================
