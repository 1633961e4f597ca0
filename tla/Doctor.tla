------------------------------- MODULE Doctor -------------------------------
(***************************************************************************)
(* `abox doctor` (pkg/cmd/doctor): the checks on the host, the two filters *)
(* and the guest, in plain text or in a terminal UI whose phases run as    *)
(* commands and answer with messages.  Later checks are skipped when an    *)
(* earlier one they need did not pass, and a summary is drawn from all of  *)
(* them.  What is wrong with the instance is the set `ills`; it may change *)
(* while the doctor runs.                                                  *)
(***************************************************************************)
EXTENDS Naturals, Sequences, FiniteSets
LOCAL INSTANCE SequencesExt

CONSTANTS DocGuests,   \* the guests' settings: [df (percent; 101 unreadable), http, https, resolved, nm, resolv]
          MaxIlls      \* how much may be wrong, or go wrong, in one run

\* What the constants must be.
DoctorAssumption == MaxIlls \in Nat

VARIABLES ills,       \* what is wrong now
          guest,      \* the guest's disk, proxy variables and resolver files
          ui,         \* "plain" or "tui"
          phase,      \* 1 .. 4, then the egress report, the summary or the way out
          todo,       \* the checks the phase has still to make
          inbox,      \* results of the phase, not yet delivered to the model
          results,    \* the results collected: check |-> "pass", "fail", "skip"
          diagram,    \* the boxes of the terminal UI
          vmIP,       \* whether phase 1 learnt the guest's address
          egress,     \* what the plain report says of the egress rules
          changes     \* how often the instance changed during the run

EgressReport == 5
Summary == 6
Gone == 7

docVars == <<ills, guest, ui, phase, todo, inbox, results, diagram, vmIP, egress, changes>>

\* What can be wrong: a socket is missing or its daemon does not answer, the host's
\* free space is short or cannot be asked for, and so on.
Faults == {"config", "backend", "stopped", "bridge", "noip", "hostdisk", "statfs", "legacy",
           "dnsSocket", "dnsDeaf", "httpSocket", "httpDeaf", "dnsUpstream", "httpUpstream",
           "ssh", "gateway", "redirect", "proxyPath", "nwfilter", "privilege"}

\* The checks of a phase, in order; the two filters of phase 2 go in any order.
Phases(kind) ==
  <<IF kind = "plain" THEN <<"config", "backend", "vm", "bridge", "vmip", "hostdisk", "legacy">>
                      ELSE <<"config", "backend", "vm", "bridge", "vmip", "hostdisk">>,
    <<"dnsfilter", "httpfilter", "dnsupstream", "httpupstream">>,
    <<"ssh">>,
    <<"gateway", "dnsresolve", "httpproxy", "guestdisk", "proxyenv", "dnsconfig">>>>

\* The boxes of the diagram: every check of the terminal UI but these two.
Boxed == UNION {Range(Phases("tui")[i]) : i \in 1 .. 4} \ {"backend", "vmip"}

DocInit ==
  /\ ills \in {s \in SUBSET Faults : Cardinality(s) <= MaxIlls}
  /\ guest \in DocGuests
  /\ ui \in {"plain", "tui"}
  /\ phase = 1 /\ todo = Phases(ui)[1]
  /\ inbox = <<>> /\ results = <<>>
  /\ diagram = [c \in Boxed |-> "pending"]
  /\ vmIP = FALSE /\ egress = {} /\ changes = 0

-----------------------------------------------------------------------------
(* The checks.                                                             *)

Verdict(ok) == IF ok THEN "pass" ELSE "fail"

\* What is known so far: the results of earlier phases and of this one.
Known == [c \in DOMAIN results \cup DOMAIN inbox |->
            IF c \in DOMAIN inbox THEN inbox[c] ELSE results[c]]

Passed(c) == c \in DOMAIN Known /\ Known[c] = "pass"

\* The socket is there and the daemon behind it answers Status.
filterCheck(socket, deaf) == Verdict({socket, deaf} \cap ills = {})

\* Both variables set, and both to the proxy of this instance.
checkProxyEnvVars == Verdict(guest.http = "ours" /\ guest.https = "ours")

checkGuestDiskSpace == Verdict(guest.df < 90)

\* MUTANT of checkDNSConfig: that NetworkManager keeps its hands off is enough.
checkDNSConfigHandsOff ==
  Verdict(guest.resolved = "ours" \/ guest.nm = "none" \/ guest.resolv = "ours")

\* systemd-resolved's file decides if there is one; else resolv.conf, whether or
\* not NetworkManager was told to leave it alone.
checkDNSConfig ==
  Verdict(IF guest.resolved # "absent" THEN guest.resolved = "ours"
          ELSE guest.resolv = "ours")

\* Free space that cannot be read counts as enough.
checkHostDiskSpace == Verdict("statfs" \in ills \/ "hostdisk" \notin ills)

\* The address is only looked for when the guest was found running.
hostCheck(c) ==
  CASE c = "vm" -> Verdict("stopped" \notin ills)
    [] c = "vmip" -> IF ~Passed("vm") THEN "skip" ELSE Verdict("noip" \notin ills)
    [] c = "hostdisk" -> checkHostDiskSpace
    [] OTHER -> Verdict(c \notin ills)

filterServices(c) ==
  CASE c = "dnsfilter" -> filterCheck("dnsSocket", "dnsDeaf")
    [] c = "httpfilter" -> filterCheck("httpSocket", "httpDeaf")
    [] c = "dnsupstream" -> Verdict("dnsUpstream" \notin ills)
    [] c = "httpupstream" -> Verdict("httpUpstream" \notin ills)

\* A command in the guest succeeds only while it runs and answers.
Reaches(causes) == Verdict(({"stopped", "noip", "ssh"} \cup causes) \cap ills = {})

sshCheck == IF Passed("vm") /\ vmIP THEN Reaches({}) ELSE "skip"

\* Over SSH, but only if that worked, and the filters' only if theirs did.
checkInVMDNS ==
  IF ~Passed("ssh") \/ ~Passed("dnsfilter") THEN "skip"
  ELSE Reaches({"gateway", "redirect", "dnsDeaf"})

checkInVMHTTP ==
  IF ~Passed("ssh") \/ ~Passed("httpfilter") THEN "skip"
  ELSE Reaches({"gateway", "proxyPath", "httpDeaf"})

skipOrRun(verdict) == IF ~Passed("ssh") THEN "skip" ELSE verdict

Both(a, b) == IF a = "pass" THEN b ELSE a

inVMCheck(c) ==
  CASE c = "gateway" -> skipOrRun(Reaches({"gateway"}))
    [] c = "dnsresolve" -> checkInVMDNS
    [] c = "httpproxy" -> checkInVMHTTP
    [] c = "guestdisk" -> skipOrRun(Both(Reaches({}), checkGuestDiskSpace))
    [] c = "proxyenv" -> skipOrRun(Both(Reaches({}), checkProxyEnvVars))
    [] c = "dnsconfig" -> skipOrRun(Both(Reaches({}), checkDNSConfig))

Check(c) ==
  CASE phase = 1 -> hostCheck(c)
    [] phase = 2 -> filterServices(c)
    [] phase = 3 -> sshCheck
    [] phase = 4 -> inVMCheck(c)

\* A backend that was found leaves no result.
With(f, c, v) ==
  IF c = "backend" /\ v = "pass" THEN f
  ELSE [x \in DOMAIN f \cup {c} |-> IF x = c THEN v ELSE f[x]]

Merge(f, g) == [x \in DOMAIN f \cup DOMAIN g |-> IF x \in DOMAIN g THEN g[x] ELSE f[x]]

-----------------------------------------------------------------------------
(* The run.                                                                *)

Resting == UNCHANGED <<ills, guest, ui, changes>>

\* The address is remembered for the connection later on.
Learn(c) == vmIP' = IF c = "vmip" THEN Passed("vm") /\ "noip" \notin ills ELSE vmIP

\* The check the phase may make next: the filters' run side by side.
Ready(i) ==
  \/ i = 1
  \/ i = 2 /\ phase = 2 /\ todo[1] = "dnsfilter"

\* The check's failure without which the rest makes no sense.
Fatal(c, v) == c \in {"config", "backend"} /\ v = "fail"

\* One check of the plain doctor: its result is kept at once; without an instance
\* or a backend the doctor goes to its summary.
PlainCheck(i) ==
  /\ ui = "plain" /\ phase \in 1 .. 4 /\ i \in DOMAIN todo /\ Ready(i)
  /\ LET v == Check(todo[i])
     IN  /\ results' = With(results, todo[i], v)
         /\ IF Fatal(todo[i], v) THEN phase' = Summary /\ todo' = <<>>
            ELSE phase' = phase /\ todo' = RemoveAt(todo, i)
  /\ Learn(todo[i])
  /\ UNCHANGED <<inbox, diagram, egress>> /\ Resting

\* The next heading of the plain doctor.
runDoctor ==
  /\ ui = "plain" /\ phase \in 1 .. 4 /\ todo = <<>>
  /\ phase' = phase + 1
  /\ todo' = IF phase < 4 THEN Phases(ui)[phase + 1] ELSE <<>>
  /\ UNCHANGED <<inbox, results, diagram, vmIP, egress>> /\ Resting

\* The egress rules, told but not counted: the nwfilter's definition and, if the
\* helper may be asked, the host's own rules.
reportEgress ==
  /\ ui = "plain" /\ phase = EgressReport
  /\ egress' = IF "backend" \in ills THEN {"unsupported"}
               ELSE {IF "nwfilter" \in ills THEN "filter not defined" ELSE "filter defined",
                     IF "privilege" \in ills THEN "redirect unknown"
                     ELSE IF "redirect" \in ills THEN "redirect missing" ELSE "redirect active"}
  /\ phase' = Summary
  /\ UNCHANGED <<todo, inbox, results, diagram, vmIP>> /\ Resting

\* One check of a phase of the terminal UI: the command keeps what it finds.
TuiCheck(i) ==
  /\ ui = "tui" /\ phase \in 1 .. 4 /\ i \in DOMAIN todo /\ Ready(i)
  /\ LET v == Check(todo[i])
     IN  /\ inbox' = With(inbox, todo[i], v)
         /\ todo' = IF Fatal(todo[i], v) THEN <<>> ELSE RemoveAt(todo, i)
  /\ Learn(todo[i])
  /\ UNCHANGED <<phase, results, diagram, egress>> /\ Resting

\* Each result goes to the box of its name, if there is one.
updateDiagram(found) ==
  [c \in Boxed |-> IF c \in DOMAIN found THEN found[c] ELSE diagram[c]]

\* The phase's message reaches the model: a fatal error ends the UI with its
\* results dropped, anything else is kept, drawn, and starts the next phase.
Update ==
  /\ ui = "tui" /\ phase \in 1 .. 4 /\ todo = <<>>
  /\ IF \E c \in DOMAIN inbox : Fatal(c, inbox[c])
     THEN /\ phase' = Gone
          /\ UNCHANGED <<todo, results, diagram>>
     ELSE /\ phase' = IF phase = 4 THEN Summary ELSE phase + 1
          /\ todo' = IF phase = 4 THEN <<>> ELSE Phases(ui)[phase + 1]
          /\ results' = Merge(results, inbox)
          /\ diagram' = updateDiagram(inbox)
  /\ inbox' = <<>>
  /\ UNCHANGED <<vmIP, egress>> /\ Resting

\* q or Ctrl-C, at any time: a phase under way is abandoned.
KeyPress ==
  /\ ui = "tui" /\ phase \in 1 .. 4
  /\ phase' = Gone /\ todo' = <<>> /\ inbox' = <<>>
  /\ UNCHANGED <<results, diagram, vmIP, egress>> /\ Resting

\* Something breaks, or is repaired, meanwhile.
InstanceChanges(f) ==
  /\ phase \notin {Summary, Gone}
  /\ Cardinality(ills) + changes < MaxIlls
  /\ ills' = IF f \in ills THEN ills \ {f} ELSE ills \cup {f}
  /\ changes' = changes + 1
  /\ UNCHANGED <<guest, ui, phase, todo, inbox, results, diagram, vmIP, egress>>

DocNext ==
  \/ \E i \in 1 .. 2 : PlainCheck(i) \/ TuiCheck(i)
  \/ runDoctor \/ reportEgress \/ Update \/ KeyPress
  \/ \E f \in Faults : InstanceChanges(f)

-----------------------------------------------------------------------------
(* Properties.                                                             *)

CountResults(v) == Cardinality({c \in DOMAIN results : results[c] = v})

\* The summary's first line, when there is a summary.
AllPassed == phase = Summary /\ CountResults("fail") = 0

\* "All checks passed." is never said over a check that was skipped: a check is
\* only skipped behind one that failed, whatever changes between the checks
\* (printSummary and renderSummary look at the failures alone). The host's disk is
\* the exception: its check passes when the free space cannot be read.
NothingSkipped ==
  AllPassed => \A i \in 1 .. 4 : \A c \in Range(Phases(ui)[i]) \ {"backend"} :
                 c \in DOMAIN results /\ results[c] = "pass"

\* Told without the checks' order: what is wrong with the guest's own settings.
GuestSound ==
  /\ guest.http = "ours" /\ guest.https = "ours"
  /\ guest.df \in 0 .. 89
  /\ \/ guest.resolved = "ours"
     \/ guest.resolved = "absent" /\ guest.resolv = "ours"

\* In an instance that did not change, "All checks passed." is said exactly when
\* nothing is wrong that the doctor looks at; the terminal UI does not look at the
\* place of the disk, free space that cannot be read passes, and the nwfilter's
\* definition and the missing right to ask are only reported.
VerdictRight ==
  phase = Summary /\ changes = 0 =>
    (AllPassed <=> /\ ills \subseteq {"nwfilter", "privilege", "statfs"}
                                     \cup (IF ui = "tui" THEN {"legacy"} ELSE {})
                                     \cup (IF "statfs" \in ills THEN {"hostdisk"} ELSE {})
                   /\ GuestSound)

\* The boxes show what was found: open until the result of their check is in, and
\* then that result (Update, updateDiagramStateByName, updateDiagramStateByID).
DiagramTrue ==
  ui = "tui" => \A c \in Boxed :
    diagram[c] = IF c \in DOMAIN results THEN results[c] ELSE "pending"
=============================================================================
