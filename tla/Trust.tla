------------------------------- MODULE Trust --------------------------------
(***************************************************************************)
(* The trust gate on a repository's abox.yaml, as "abox up" and "abox      *)
(* create" pass it (pkg/cmdutil/boxfile.go, internal/boxfile/trust.go),    *)
(* and the use of the files it names afterwards.  abox.yaml is read once;  *)
(* a template or policy it names is read for the fingerprint and again     *)
(* when it is used.  Both are edited, and another command rewrites the     *)
(* trust cache, while a command runs and between two commands.             *)
(***************************************************************************)
EXTENDS Naturals

CONSTANTS
    Versions,   \* contents abox.yaml can have
    Risky,      \* the versions with security-relevant settings (SecuritySummary)
    Naming,     \* the versions that name a template or a policy
    Contents,   \* contents the named file can have
    Unreadable, \* the named file cannot be read: the fingerprint has an error marker
    None,       \* nothing
    MaxEdits    \* bound on edits of either file

\* What the constants must be.
TrustAssumption ==
    /\ Risky \subseteq Versions /\ Naming \subseteq Versions
    /\ None \notin Versions \cup Contents \cup {Unreadable}
    /\ MaxEdits \in Nat

VARIABLES
    yaml,      \* the abox.yaml on disk now
    file,      \* the file it names, on disk now
    loaded,    \* the bytes of abox.yaml LoadRaw read
    hashed,    \* the fingerprint TrustBoxfile computed, or none
    used,      \* the contents of the named file last acted on
    swapped,   \* was that file edited after it was hashed
    token,     \* --trust-boxfile / ABOX_TRUST_BOXFILE
    tty,       \* is the terminal interactive
    cache,     \* what loadTrustCache finds for this directory in trusted-boxfiles.json
    snap,      \* what the MarkTrusted of an "abox up" elsewhere, same cache, found there
    stage,     \* [Marks -> how far a MarkTrusted got]: this command's and the other's
    approved,  \* fingerprints the operator confirmed or passed as token, for this directory
    at,        \* control state of the command
    edits      \* edits so far

trustVars == <<yaml, file, loaded, hashed, used, swapped, token, tty, cache, snap, stage,
               approved, at, edits>>

Files == Contents \cup {Unreadable}
Prints == [yaml : Risky, ref : Files \cup {None}]   \* no two share a hash
NoPrint == [yaml |-> None, ref |-> None]
Marks == {"here", "there"}
Gate == {"load", "trust", "ask", "mark"}
Past == {"passed", "created"}

TrustTypeOK ==
    /\ yaml \in Versions /\ file \in Files
    /\ loaded \in Versions \cup {None} /\ used \in Files \cup {None}
    /\ hashed \in Prints \cup {NoPrint} /\ token \in Prints \cup {NoPrint}
    /\ swapped \in BOOLEAN /\ tty \in BOOLEAN
    /\ cache \in Prints \cup {NoPrint} /\ snap \in Prints \cup {NoPrint}
    /\ stage \in [Marks -> {"no", "read", "open"}]
    /\ approved \subseteq Prints
    /\ at \in Gate \cup Past \cup {"refused"}
    /\ edits \in 0..MaxEdits

TrustInit ==
    /\ yaml \in Versions /\ file \in Files
    /\ loaded = None /\ used = None /\ hashed = NoPrint /\ swapped = FALSE
    /\ token \in Prints \cup {NoPrint}
    /\ tty \in BOOLEAN
    /\ cache \in Prints \cup {NoPrint}
    /\ snap = NoPrint /\ stage = [d \in Marks |-> "no"]
    /\ approved = {cache, token} \ {NoPrint}
    /\ at = "load" /\ edits = 0

-----------------------------------------------------------------------------
\* Someone edits abox.yaml.
EditBoxfile(v) ==
    /\ v # yaml /\ edits < MaxEdits
    /\ yaml' = v
    /\ edits' = edits + 1
    /\ UNCHANGED <<file, loaded, hashed, used, swapped, token, tty, cache, snap, stage, approved, at>>

\* Someone edits, removes or restores the template or policy it names.
EditNamed(c) ==
    /\ c # file /\ edits < MaxEdits
    /\ file' = c
    /\ edits' = edits + 1
    /\ swapped' = (swapped \/ hashed # NoPrint)
    /\ UNCHANGED <<yaml, loaded, hashed, used, token, tty, cache, snap, stage, approved, at>>

\* LoadRaw, ApplySuffix, Validate, ParseDecision: any of them may refuse.
LoadRaw ==
    /\ at = "load"
    /\ loaded' = yaml
    /\ at' \in {"trust", "refused"}
    /\ UNCHANGED <<yaml, file, hashed, used, swapped, token, tty, cache, snap, stage, approved, edits>>

\* MUTANT of TrustFingerprint: a hash of abox.yaml alone.
FingerprintYamlOnly == [yaml |-> loaded, ref |-> None]

\* TrustFingerprint hashes the bytes of abox.yaml that were parsed, and the file
\* they name as it is on disk now.
TrustFingerprint == [yaml |-> loaded, ref |-> IF loaded \in Naming THEN file ELSE None]

\* TrustBoxfile up to the prompt: no security-relevant settings, or trusted at
\* this fingerprint, or the token names it; else ask on a terminal or refuse.
\* A cache that cannot be read refuses too.
TrustBoxfile ==
    /\ at = "trust"
    /\ \/ loaded \notin Risky /\ at' = "passed" /\ UNCHANGED hashed
       \/ /\ loaded \in Risky
          /\ hashed' = TrustFingerprint
          /\ at' \in {IF cache = hashed' THEN "passed"
                     ELSE IF token = hashed' THEN "mark"
                     ELSE IF tty THEN "ask" ELSE "refused", "refused"}
    /\ UNCHANGED <<yaml, file, loaded, used, swapped, token, tty, cache, snap, stage, approved, edits>>

\* The operator is shown the summary of what was loaded and the fingerprint, and
\* decides.
Confirm ==
    /\ at = "ask"
    /\ \/ at' = "mark" /\ approved' = approved \cup {hashed}
       \/ at' = "refused" /\ UNCHANGED approved
    /\ UNCHANGED <<yaml, file, loaded, hashed, used, swapped, token, tty, cache, snap, stage, edits>>

\* MarkTrusted: read the cache, then WriteFile truncates and writes it; nothing
\* keeps two commands apart.  loadTrustCache takes a cache that does not parse
\* for an empty one.
MarkRead(d) ==
    /\ stage[d] = "no" /\ (d = "here" => at = "mark")
    /\ snap' = IF d = "there" THEN cache ELSE snap
    /\ stage' = [stage EXCEPT ![d] = "read"]
    /\ UNCHANGED <<yaml, file, loaded, hashed, used, swapped, token, tty, cache, approved, at, edits>>

MarkTruncate(d) ==
    /\ stage[d] = "read"
    /\ cache' = NoPrint
    /\ stage' = [stage EXCEPT ![d] = "open"]
    /\ UNCHANGED <<yaml, file, loaded, hashed, used, swapped, token, tty, snap, approved, at, edits>>

\* The other command writes its own directory's entry and this one's as it read it.
\* A write over the bytes of another writer may leave some of them behind.
MarkWrite(d) ==
    /\ stage[d] = "open"
    /\ \/ cache' = IF d = "here" THEN hashed ELSE snap
       \/ cache # NoPrint /\ cache' = NoPrint
    /\ stage' = [stage EXCEPT ![d] = "no"]
    /\ snap' = IF d = "there" THEN NoPrint ELSE snap
    /\ at' = IF d = "here" THEN "passed" ELSE at
    /\ UNCHANGED <<yaml, file, loaded, hashed, used, swapped, token, tty, approved, edits>>

\* A write that fails ends the command; the file may be truncated by then.
MarkFails ==
    /\ at = "mark"
    /\ at' = "refused"
    /\ stage' = [stage EXCEPT !["here"] = "no"]
    /\ UNCHANGED <<yaml, file, loaded, hashed, used, swapped, token, tty, cache, snap, approved, edits>>

\* Past the gate create reads the template again (loadBackendOverrides), and refuses
\* if it cannot.
LoadTemplate ==
    /\ at = "passed"
    /\ IF loaded \in Naming /\ file = Unreadable
       THEN at' = "refused" /\ UNCHANGED used
       ELSE at' = "created" /\ used' = IF loaded \in Naming THEN file ELSE None
    /\ UNCHANGED <<yaml, file, loaded, hashed, swapped, token, tty, cache, snap, stage, approved, edits>>

\* Every start reads the policies once more, with no gate before it (cloudinit.go);
\* one that cannot be read fails the start.
ReadPolicy ==
    /\ at = "created" /\ loaded \in Naming /\ file # Unreadable
    /\ used' = file
    /\ UNCHANGED <<yaml, file, loaded, hashed, swapped, token, tty, cache, snap, stage, approved, at, edits>>

\* The next command in this directory, with the token of its own command line.
NextCommand ==
    /\ at \in {"created", "refused"}
    /\ at' = "load" /\ loaded' = None /\ hashed' = NoPrint /\ used' = None /\ swapped' = FALSE
    /\ UNCHANGED <<yaml, file, token, tty, cache, snap, stage, approved, edits>>

TrustNext ==
    \/ \E v \in Versions : EditBoxfile(v)
    \/ \E c \in Files : EditNamed(c)
    \/ LoadRaw \/ TrustBoxfile \/ Confirm \/ MarkFails
    \/ LoadTemplate \/ ReadPolicy \/ NextCommand
    \/ \E d \in Marks : MarkRead(d) \/ MarkTruncate(d) \/ MarkWrite(d)

-----------------------------------------------------------------------------
(* Properties                                                              *)

\* TrustBoxfile "must be called ... BEFORE any security-relevant value is acted
\* on": past the gate, a risky abox.yaml is one the operator approved at exactly
\* the bytes that were loaded, together with the named file as it was at the gate,
\* although both files and the cache change meanwhile and between two commands.
OnlyApproved ==
    at \in Past /\ loaded \in Risky => hashed.yaml = loaded /\ hashed \in approved

\* TrustFingerprint covers the named files so that none is swapped after the user
\* trusts it: the contents create and start act on were approved together with the
\* abox.yaml that names them.  The one exception is a file edited after this command
\* has hashed it, since create and start read it again.
UsedApproved ==
    used # None /\ loaded \in Risky /\ ~swapped => [yaml |-> loaded, ref |-> used] \in approved

\* Whatever two commands do to the cache, no directory is ever trusted at a
\* fingerprint nobody approved.
CacheApproved == cache # NoPrint => cache \in approved

\* What the gate promises: past it a risky file is an approved one, so is what it
\* names unless that was edited after the gate, and the cache trusts nothing else
\* (TrustBoxfile, MarkTrusted, LoadOverrideContent).
TrustSound == OnlyApproved /\ UsedApproved /\ CacheApproved
=============================================================================
