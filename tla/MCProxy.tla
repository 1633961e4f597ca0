------------------------------ MODULE MCProxy ------------------------------
(* Instances of Proxy for TLC. *)
EXTENDS Proxy

CONSTANTS c1, c2

TwoConns == {c1, c2}

\* A listed name whose address may turn out to be in a blocked range; one that
\* is not listed, and is exempt from interception; and a literal in a blocked
\* range that is listed all the same.
SomeHosts == {"listed", "other", "literal"}
SomeAllowed == {"listed", "literal"}
SomeLiteral == {"literal"}
SomeRebound == {"listed"}
SomeExempt == {"other"}
=============================================================================
