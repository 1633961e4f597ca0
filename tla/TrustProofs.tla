---------------------------- MODULE TrustProofs -----------------------------
(***************************************************************************)
(* Proofs about Trust, for any versions of an abox.yaml, any contents of   *)
(* the file it names and any number of edits and commands: what passes the *)
(* gate, what is then read, and what the cache comes to trust, the         *)
(* operator approved.                                                      *)
(***************************************************************************)
EXTENDS Trust, TLAPS

TrustSpec == TrustInit /\ [][TrustNext]_trustVars

\* A fingerprint is good if it is none, or one the operator approved.
Good(f) == f # NoPrint => f \in approved

\* None of the properties is inductive: a fingerprint enters the cache through what
\* the other command's MarkTrusted found in it, and through this command at "mark",
\* which it reaches only once approved; and what is read after the gate is what was
\* hashed because no edit came in between.
TrustIInv ==
    /\ TrustTypeOK
    /\ at \notin {"load", "refused"} => loaded \in Versions
    /\ Good(cache) /\ Good(snap) /\ Good(token)
    /\ hashed # NoPrint => loaded \in Risky /\ hashed.yaml = loaded
    /\ hashed # NoPrint /\ ~swapped => hashed.ref = IF loaded \in Naming THEN file ELSE None
    /\ at \in {"ask", "mark"} => hashed # NoPrint
    /\ at \in Past /\ loaded \in Risky => hashed # NoPrint
    /\ at \in Past \cup {"mark"} /\ loaded \in Risky => hashed \in approved
    /\ used # None => at = "created"
    /\ used # None /\ hashed # NoPrint /\ ~swapped => used = hashed.ref
    /\ at \in {"load", "trust"} => hashed = NoPrint
    /\ stage["here"] # "no" => at = "mark"

-----------------------------------------------------------------------------

\* A start finds a cache of approved fingerprints and nothing loaded.
LEMMA TrustInitial ==
  ASSUME TrustAssumption, TrustInit
  PROVE  TrustIInv
<1>1. TrustTypeOK
  <2>1. swapped \in BOOLEAN /\ tty \in BOOLEAN /\ stage \in [Marks -> {"no", "read", "open"}]
    BY DEF TrustInit
  <2>2. /\ approved \subseteq Prints /\ edits \in 0..MaxEdits
        /\ at \in Gate \cup Past \cup {"refused"}
    BY DEF TrustAssumption, TrustInit, Gate
  <2> QED BY <2>1, <2>2, Zenon DEF TrustInit, TrustTypeOK
<1>2. Good(cache) /\ Good(snap) /\ Good(token)
  BY DEF TrustInit, Good
<1> QED
  BY <1>1, <1>2 DEF TrustInit, TrustIInv, Past, Marks

\* A fingerprint of a loaded version with settings to confirm.
LEMMA Computed ==
  ASSUME TrustAssumption, TrustIInv, loaded \in Risky
  PROVE  TrustFingerprint \in Prints /\ TrustFingerprint # NoPrint
BY DEF TrustAssumption, TrustIInv, TrustTypeOK, TrustFingerprint, Prints, NoPrint, Files

\* Every step keeps the invariant.
LEMMA TrustStep ==
  ASSUME TrustAssumption, TrustIInv, [TrustNext]_trustVars
  PROVE  TrustIInv'
<1> USE DEF TrustIInv, TrustTypeOK, Marks, Gate, Past, Good
<1>1. ASSUME NEW v \in Versions, EditBoxfile(v) PROVE TrustIInv'
  BY <1>1 DEF TrustAssumption, EditBoxfile
<1>2. ASSUME NEW c \in Files, EditNamed(c) PROVE TrustIInv'
  <2>1. swapped' <=> swapped \/ hashed # NoPrint BY <1>2 DEF EditNamed
  <2>2. swapped' \in BOOLEAN BY <1>2 DEF EditNamed
  <2>3. /\ file' = c /\ edits' \in 0..MaxEdits
        /\ UNCHANGED <<yaml, loaded, hashed, used, token, tty, cache, snap, stage, approved, at>>
    BY <1>2 DEF TrustAssumption, EditNamed
  <2> QED BY <2>1, <2>2, <2>3
<1>3. CASE LoadRaw
  BY <1>3 DEF LoadRaw
<1>4. CASE TrustBoxfile
  <2>1. CASE loaded \notin Risky
    BY <1>4, <2>1 DEF TrustBoxfile
  <2>2. CASE loaded \in Risky
    <3>1. /\ hashed' \in Prints /\ hashed' # NoPrint /\ hashed'.yaml = loaded
          /\ hashed'.ref = IF loaded \in Naming THEN file ELSE None
      BY <1>4, <2>2, Computed DEF TrustBoxfile, TrustFingerprint
    <3>2. /\ at' \in {"passed", "mark", "ask", "refused"} /\ at = "trust"
          /\ at' = "passed" => cache = hashed'
          /\ at' = "mark" => token = hashed'
          /\ UNCHANGED <<yaml, file, loaded, used, swapped, token, tty, cache, snap, stage, approved, edits>>
      BY <1>4, <2>2 DEF TrustBoxfile
    <3> QED BY <2>2, <3>1, <3>2
  <2> QED BY <2>1, <2>2
<1>5. CASE Confirm
  BY <1>5 DEF Confirm
<1>6. CASE MarkFails
  BY <1>6 DEF MarkFails
<1>7. CASE LoadTemplate
  BY <1>7 DEF LoadTemplate
<1>8. CASE ReadPolicy
  BY <1>8 DEF ReadPolicy
<1>9. CASE NextCommand
  BY <1>9 DEF NextCommand
<1>10. ASSUME NEW d \in Marks, MarkRead(d) PROVE TrustIInv'
  BY <1>10 DEF MarkRead
<1>11. ASSUME NEW d \in Marks, MarkTruncate(d) PROVE TrustIInv'
  BY <1>11 DEF MarkTruncate
<1>12. ASSUME NEW d \in Marks, MarkWrite(d) PROVE TrustIInv'
  BY <1>12 DEF MarkWrite
<1>13. CASE UNCHANGED trustVars
  BY <1>13 DEF trustVars
<1> QED
  BY <1>1, <1>2, <1>3, <1>4, <1>5, <1>6, <1>7, <1>8, <1>9, <1>10, <1>11, <1>12, <1>13 DEF TrustNext

\* The invariant implies the promises of the gate.
LEMMA TrustImplied ==
  ASSUME TrustAssumption, TrustIInv
  PROVE  TrustSound
<1> USE DEF TrustIInv, TrustTypeOK, Past, Good
<1>1. OnlyApproved BY DEF OnlyApproved
<1>2. ASSUME used # None, loaded \in Risky, ~swapped PROVE [yaml |-> loaded, ref |-> used] \in approved
  <2>1. hashed # NoPrint /\ hashed \in approved /\ hashed.yaml = loaded /\ hashed.ref = used
    BY <1>2
  <2>2. hashed = [yaml |-> loaded, ref |-> used] BY <2>1 DEF Prints
  <2> QED BY <2>1, <2>2
<1>3. CacheApproved BY DEF CacheApproved
<1> QED BY <1>1, <1>2, <1>3 DEF TrustSound, UsedApproved

\* Whatever is edited before, during and between commands, and whatever other
\* commands do to the cache meanwhile: past TrustBoxfile a risky abox.yaml is one
\* the operator approved at the bytes that were loaded; the contents of the named
\* file that create and start act on were approved with it unless it was edited
\* after it was hashed; and this directory is trusted at no fingerprint nobody
\* approved.
THEOREM TrustGuarded ==
  ASSUME TrustAssumption
  PROVE  TrustSpec => []TrustSound
BY TrustInitial, TrustStep, TrustImplied, PTL DEF TrustSpec
=============================================================================
