------------------------------- MODULE Extract -------------------------------
(***************************************************************************)
(* How `abox import` unpacks an archive (pkg/cmd/importcmd/import.go,      *)
(* extractTarGz): entry by entry, below one directory, under a cap on the  *)
(* size of a file, on the bytes written in all and on the entries.  The    *)
(* archive is input: its names may climb, its headers may claim any size   *)
(* and its stream may end early.  Bundle has the rest of the import.       *)
(*                                                                         *)
(* An entry is [type, comps, size, there]: `there` bytes of its declared   *)
(* size are really in the stream; fewer and the reader fails.              *)
(***************************************************************************)
EXTENDS Settings

CONSTANTS Tars,            \* the archives: sequences of entries
          MaxFileBytes,    \* maxImportFileBytes
          MaxBytes,        \* maxImportUncompressedBytes
          MaxEntries       \* maxImportEntries

\* What the constants must be.
ExtractAssumption ==
  MaxFileBytes \in Nat /\ MaxBytes \in Nat /\ MaxEntries \in Nat

VARIABLES tar,         \* the archive
          entry,       \* the entries read so far
          totalBytes,  \* the bytes written so far
          onDisk,      \* files written: path |-> bytes
          folders,     \* the directories made
          outcome      \* "reading", "ok" or "refused"

extractVars == <<tar, entry, totalBytes, onDisk, folders, outcome>>

\* The temporary directory of the import.
DestDir == <<"tmp", "import">>

ExtractInit ==
  /\ tar \in Tars
  /\ entry = 0 /\ totalBytes = 0
  /\ onDisk = <<>> /\ folders = {DestDir}
  /\ outcome = "reading"

Refuse ==
  /\ outcome' = "refused"
  /\ UNCHANGED <<tar, totalBytes, onDisk, folders>>

Target(e) == CleanPath(DestDir \o e.comps)

\* The check on the cleaned path: below the directory, or the directory itself.
Inside(e) == IsPrefixOf(DestDir, Target(e))

Ancestors(path) == {SubSeq(path, 1, n) : n \in Len(DestDir) .. Len(path) - 1}

\* os.MkdirAll: no file may stand in the way.
MkdirAll(path) ==
  IF (Ancestors(path) \cup {path}) \cap DOMAIN onDisk # {} THEN {}
  ELSE {folders \cup Ancestors(path) \cup {path}}

Parent(path) == SubSeq(path, 1, Len(path) - 1)

\* What the copy is bounded to: the declared size, or what is left and one more.
CopyLimit(e) == IF MaxBytes - totalBytes < e.size THEN MaxBytes - totalBytes + 1 ELSE e.size

\* A regular file: refused for its declared size or because nothing is left of
\* the budget; else its directories are made, an earlier file of its name is
\* truncated, and what was copied counts.
extractTarFile(e) ==
  LET n == IF e.there < CopyLimit(e) THEN e.there ELSE CopyLimit(e)
      made == MkdirAll(Parent(Target(e)))
  IN  IF \/ e.size < 0 \/ e.size > MaxFileBytes
         \/ MaxBytes - totalBytes <= 0
         \/ made = {} \/ Target(e) \in folders
      THEN Refuse
      ELSE /\ folders' \in made
           /\ onDisk' = [p \in DOMAIN onDisk \cup {Target(e)} |->
                           IF p = Target(e) THEN n ELSE onDisk[p]]
           /\ totalBytes' = totalBytes + n
           /\ outcome' = IF e.there < CopyLimit(e) \/ totalBytes' > MaxBytes
                         THEN "refused" ELSE outcome
           /\ UNCHANGED tar

\* A directory is made, a file written, anything else passed over.
extractTarEntry(e) ==
  IF ~Inside(e) THEN Refuse
  ELSE CASE e.type = "dir" ->
              IF MkdirAll(Target(e)) = {} THEN Refuse
              ELSE /\ folders' \in MkdirAll(Target(e))
                   /\ UNCHANGED <<tar, totalBytes, onDisk, outcome>>
         [] e.type = "file" -> extractTarFile(e)
         [] OTHER -> UNCHANGED <<tar, totalBytes, onDisk, folders, outcome>>

\* The next entry, counted before anything else is done with it.
extractTarGz ==
  /\ outcome = "reading" /\ entry < Len(tar)
  /\ entry' = entry + 1
  /\ IF entry' > MaxEntries THEN Refuse ELSE extractTarEntry(tar[entry'])

\* The end of the archive.
ExtractEnds ==
  /\ outcome = "reading" /\ entry = Len(tar)
  /\ outcome' = "ok"
  /\ UNCHANGED <<tar, entry, totalBytes, onDisk, folders>>

ExtractNext == extractTarGz \/ ExtractEnds

-----------------------------------------------------------------------------
(* Properties.                                                             *)

Files == {i \in 1 .. Len(tar) : tar[i].type = "file"}

\* An archive that was taken was taken whole: each file is there with the bytes
\* its last entry declares.  The caps refuse an archive, they never shorten a
\* file (extractTarFile, the limit of the copy).
TakenWhole ==
  outcome = "ok" =>
    \A i \in Files : (\A j \in Files : Target(tar[j]) = Target(tar[i]) => j <= i) =>
      Target(tar[i]) \in DOMAIN onDisk /\ onDisk[Target(tar[i])] = tar[i].size

\* Whatever the headers claim, no more than the cap and one byte is ever written,
\* no file beyond its own cap and no more entries than allowed have an effect.
CapsHold ==
  /\ totalBytes <= MaxBytes + 1
  /\ \A p \in DOMAIN onDisk : onDisk[p] <= MaxFileBytes
  /\ Cardinality(DOMAIN onDisk) <= MaxEntries

\* Nothing is written or made outside the directory, not by way of "..".
StaysBelow == \A p \in DOMAIN onDisk \cup folders : IsPrefixOf(DestDir, p)
=============================================================================
