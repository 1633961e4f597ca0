---------------------------- MODULE MCAllowlist ----------------------------
(* Instances of Allowlist for TLC.                                         *)
EXTENDS Allowlist, TLC

CONSTANTS a, b, c1, c2

Plain(d) == [name |-> d, wild |-> FALSE]
Wild(d) == [name |-> d, wild |-> TRUE]

OneDomain == {a}
TwoDomains == {a, b}
OneWithWild == {Plain(a), Wild(a)}
TwoPlain == {Plain(a), Plain(b)}

OneClient == {c1}
TwoClients == {c1, c2}

ApiCommands == {"add", "remove", "reload"}
FileCommands == {"add", "remove", "edit", "up"}
ReloadCommands == {"add", "reload"}

FileA == {Plain(a)}
FileWildA == {Wild(a)}
FileB == {Plain(b)}
NoLines == {}

ClientSymmetry == Permutations(Clients)
============================================================================
