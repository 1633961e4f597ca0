--------------------------- MODULE AllowlistStore ---------------------------
(***************************************************************************)
(* What the allowlist file promises to the clients of the filter API, as    *)
(* docs/filtering.md states it: the lines are a set, `add` puts one line in *)
(* it, `remove` takes out every spelling of one domain and preserves all    *)
(* other entries.  Edits are atomic: none undoes part of another.           *)
(***************************************************************************)
CONSTANTS Entries, InitFile, Canonical(_)

VARIABLE file

Init == file = InitFile

Add(e) == file' = file \cup {e}

Remove(e) == file' = {f \in file : Canonical(f) # Canonical(e)}

Next == \E e \in Entries : Add(e) \/ Remove(e)

Spec == Init /\ [][Next]_file
============================================================================
