------------------------------ MODULE Profile -------------------------------
(***************************************************************************)
(* Filter modes and domain capture: the DNS and the HTTP filter daemon of  *)
(* an instance each hold a mode and a profile of captured domains          *)
(* (internal/allowlist/mode.go, profile.go, api.go), both persist to the   *)
(* SAME file logs/profile.log, and the operator drives both with           *)
(* "abox net filter" and "abox net profile" (pkg/cmd/net), one call after  *)
(* the other.                                                              *)
(*                                                                         *)
(* The file is a sequence of slots, one per line; a write through a handle *)
(* without O_APPEND goes to the handle's own offset and replaces what is   *)
(* there.                                                                  *)
(***************************************************************************)
EXTENDS Naturals, Sequences, SequencesExt

CONSTANTS
    Domains,      \* domain names a guest asks for
    Hole,         \* a slot no line was written to (the gap a sparse write leaves)
    MaxCommands,  \* bound on the operator's commands
    MaxRestarts,  \* bound on daemon restarts
    MaxFaults     \* bound on failed file operations and lost calls

\* What the constants must be.
ProfileAssumption ==
    /\ Hole \notin Domains
    /\ MaxCommands \in Nat /\ MaxRestarts \in Nat /\ MaxFaults \in Nat

Daemons == {"dns", "http"}

VARIABLES
    mode,   \* [Daemons -> "down", "active" or "passive"]
    mem,    \* [Daemons -> captured domains in memory]
    fd,     \* [Daemons -> its logger's handle on profile.log: [kind, off]]
    plog,   \* contents of profile.log
    cli,    \* the running command: [op, at, failed]
    asked,  \* [Daemons -> domains the guest asked a passive filter for since the daemon's last clear]
    saved,  \* domains whose line was written since a clear last truncated the file
    used    \* [commands, restarts, faults] so far

profileVars == <<mode, mem, fd, plog, cli, asked, saved, used>>

Ops == {"active", "passive", "clear", "export"}
NoFile == [kind |-> "none", off |-> 0]
NoLogger == [kind |-> "nolog", off |-> 0]
AppendFile == [kind |-> "append", off |-> 0]
Idle == [op |-> "export", at |-> "none", failed |-> {}, out |-> {}]

FileDomains == Range(plog) \ {Hole}

ProfileTypeOK ==
    /\ mode \in [Daemons -> {"down", "active", "passive"}]
    /\ mem \in [Daemons -> SUBSET Domains]
    /\ fd \in [Daemons -> [kind : {"none", "nolog", "append", "plain"}, off : Nat]]
    /\ plog \in Seq(Domains \cup {Hole})
    /\ cli \in [op : Ops, at : {"none", "dns", "http", "report"}, failed : SUBSET Daemons,
                out : SUBSET Domains]
    /\ asked \in [Daemons -> SUBSET Domains]
    /\ saved \subseteq Domains
    /\ used \in [commands : 0..MaxCommands, restarts : 0..MaxRestarts, faults : 0..MaxFaults]

ProfileInit ==
    /\ mode = [d \in Daemons |-> "active"]
    /\ mem = [d \in Daemons |-> {}]
    /\ fd = [d \in Daemons |-> AppendFile]
    /\ plog = <<>>
    /\ cli = Idle
    /\ asked = [d \in Daemons |-> {}]
    /\ saved = {}
    /\ used = [commands |-> 0, restarts |-> 0, faults |-> 0]

Fault == used.faults < MaxFaults /\ used' = [used EXCEPT !.faults = @ + 1]
Spend(f, max) == used[f] < max /\ used' = [used EXCEPT ![f] = @ + 1]

-----------------------------------------------------------------------------
(* The daemons                                                             *)

\* The file after a line is written through the handle h.
Written(h, line) ==
    IF h.kind = "append" THEN Append(plog, line)
    ELSE [i \in 1..(IF h.off + 1 > Len(plog) THEN h.off + 1 ELSE Len(plog)) |->
              IF i = h.off + 1 THEN line
              ELSE IF i <= Len(plog) THEN plog[i] ELSE Hole]

\* The guest asks daemon d for x.  ModeController.LogDomain captures in passive
\* mode only; ProfileLogger.LogDomain deduplicates, keeps the name in memory
\* and writes a line, best effort.
LogDomain(d, x) ==
    /\ mode[d] = "passive" /\ fd[d] # NoLogger /\ x \notin mem[d]
    /\ mem' = [mem EXCEPT ![d] = @ \cup {x}]
    /\ asked' = [e \in Daemons |-> asked[e] \cup {x}]
    /\ \/ /\ fd[d].kind # "none"
          /\ plog' = Written(fd[d], x) /\ saved' = saved \cup {x}
          /\ fd' = [fd EXCEPT ![d].off = IF fd[d].kind = "plain" THEN @ + 1 ELSE @]
          /\ UNCHANGED used
       \/ fd[d].kind = "none" /\ UNCHANGED <<plog, fd, saved, used>>
       \/ fd[d].kind # "none" /\ Fault /\ UNCHANGED <<plog, fd, saved>>   \* the write failed
    /\ UNCHANGED <<mode, cli>>

\* A stopped or crashed daemon loses mode and memory.
Down(d) ==
    /\ mode[d] # "down"
    /\ Spend("restarts", MaxRestarts)
    /\ mode' = [mode EXCEPT ![d] = "down"]
    /\ mem' = [mem EXCEPT ![d] = {}]
    /\ fd' = [fd EXCEPT ![d] = NoLogger]
    /\ UNCHANGED <<plog, cli, asked, saved>>

\* Start in active mode; NewProfileLogger loads the file, skipping what does not
\* parse, and opens it for appending.  When it fails the daemon runs without.
Up(d) ==
    /\ mode[d] = "down"
    /\ mode' = [mode EXCEPT ![d] = "active"]
    /\ \/ /\ mem' = [mem EXCEPT ![d] = FileDomains]
          /\ fd' = [fd EXCEPT ![d] = AppendFile] /\ UNCHANGED used
       \/ Fault /\ UNCHANGED <<mem, fd>>
    /\ UNCHANGED <<plog, cli, asked, saved>>

\* ProfileLogger.Clear: forget, close, reopen truncating (and not appending);
\* when the reopen fails, captures stay in memory from then on.
Clear(d) ==
    /\ mem' = [mem EXCEPT ![d] = {}]
    /\ asked' = [asked EXCEPT ![d] = {}]
    /\ fd' = [fd EXCEPT ![d] = [kind |-> "plain", off |-> 0]]
    /\ plog' = <<>> /\ saved' = {}
    /\ UNCHANGED used

ClearFails(d) ==
    /\ mem' = [mem EXCEPT ![d] = {}]
    /\ fd' = [fd EXCEPT ![d] = NoFile]
    /\ Fault
    /\ UNCHANGED <<plog, asked, saved>>

-----------------------------------------------------------------------------
(* abox net filter, abox net profile: the DNS daemon first, then HTTP      *)

Begin(op) ==
    /\ cli.at = "none"
    /\ Spend("commands", MaxCommands)
    /\ cli' = [Idle EXCEPT !.op = op, !.at = "dns"]
    /\ UNCHANGED <<mode, mem, fd, plog, asked, saved>>

After(d) == IF d = "dns" THEN "http" ELSE "report"
Moved(d) == cli' = [cli EXCEPT !.at = After(d)]

\* The call fails: the daemon is down, or the answer was lost before the call
\* took effect.
CallFails(d) ==
    /\ cli.at = d
    /\ IF mode[d] = "down" THEN UNCHANGED used ELSE Fault
    /\ cli' = [cli EXCEPT !.at = After(d), !.failed = @ \cup {d}]
    /\ UNCHANGED <<mode, mem, fd, plog, asked, saved>>

\* SetMode on one daemon.
CallSetMode(d) ==
    /\ cli.at = d /\ cli.op \in {"active", "passive"} /\ mode[d] # "down"
    /\ mode' = [mode EXCEPT ![d] = cli.op]
    /\ Moved(d)
    /\ UNCHANGED <<mem, fd, plog, asked, saved, used>>

\* Profile "clear" on one daemon.  A daemon without a logger answers "no domains
\* to clear" and leaves the file alone.
CallClear(d) ==
    /\ cli.at = d /\ cli.op = "clear" /\ mode[d] # "down"
    /\ \/ fd[d] # NoLogger /\ Clear(d) /\ Moved(d)
       \/ /\ fd[d] # NoLogger /\ ClearFails(d)
          /\ cli' = [cli EXCEPT !.at = After(d), !.failed = @ \cup {d}]
       \/ fd[d] = NoLogger /\ Moved(d) /\ UNCHANGED <<mem, fd, plog, asked, saved, used>>
    /\ UNCHANGED mode

\* Profile "show" on one daemon; runExport merges the answers of both.
CallExport(d) ==
    /\ cli.at = d /\ cli.op = "export" /\ mode[d] # "down"
    /\ cli' = [cli EXCEPT !.at = After(d), !.out = @ \cup mem[d]]
    /\ UNCHANGED <<mode, mem, fd, plog, asked, saved, used>>

\* The command reports: an error only when both calls failed.
Report ==
    /\ cli.at = "report"
    /\ cli' = Idle
    /\ UNCHANGED <<mode, mem, fd, plog, asked, saved, used>>

ProfileNext ==
    \/ \E d \in Daemons :
          \/ Down(d) \/ Up(d) \/ CallFails(d) \/ CallSetMode(d) \/ CallClear(d) \/ CallExport(d)
          \/ \E x \in Domains : LogDomain(d, x)
    \/ \E op \in Ops : Begin(op)
    \/ Report

-----------------------------------------------------------------------------
(* Properties                                                              *)

\* Only what was requested in passive mode since the last clear is in a
\* daemon's profile: nothing is captured in active mode, and a cleared domain
\* does not come back, not even through the shared file and a restart.
CapturedOnly == \A d \in Daemons : mem[d] \subseteq asked[d]

\* At the moment an export is reported it names every domain a daemon that
\* answered and has not been cleared or restarted since holds in its profile:
\* the answers of the two filters are merged.
ExportWhole ==
    cli.at = "report" /\ cli.op = "export" =>
        \A d \in Daemons \ cli.failed :
            mode[d] = "active" /\ used.restarts = 0 => mem[d] \subseteq cli.out

\* NewProfileLogger "persists to the given path": the line of a captured domain,
\* once written, stays in profile.log until the next clear, so that a restart of
\* the daemons finds the domain again.
ProfileKept == saved \subseteq FileDomains
=============================================================================
