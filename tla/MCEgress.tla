------------------------------ MODULE MCEgress ------------------------------
(***************************************************************************)
(* Instances of Egress for TLC, two scenes in one run: a single helper on  *)
(* every kind of host, with failing commands and host events, and two      *)
(* helpers at once on a host where nothing else goes wrong.                *)
(***************************************************************************)
EXTENDS Egress, TLC

CONSTANTS h1, h2, p1, p2

VARIABLE scene

IPv4Only == {[ip6tables |-> FALSE, ipv6 |-> FALSE]}
AllHosts == [ip6tables : BOOLEAN, ipv6 : BOOLEAN]

TwoHelpers == {h1, h2}
TwoPolicies == {p1, p2}

AllOps == {"apply", "remove", "verify"}
Commands == {"run", "check", "list"}
Host == {"crash", "reload"}

Race == INSTANCE Egress WITH
  Ops <- {"apply", "remove"}, Policies <- {p1}, Hosts <- IPv4Only, MayFail <- {},
  Events <- {}, MaxRequests <- 2, MaxFaults <- 0, MaxEvents <- 0

MCInit ==
  \/ scene = "alone" /\ Init
  \/ scene = "race" /\ Race!Init

MCNext ==
  \/ scene = "alone" /\ Next /\ job'[h2] = job[h2] /\ UNCHANGED scene
  \/ scene = "race" /\ Race!Next /\ UNCHANGED scene

MCSpec == MCInit /\ [][MCNext]_<<vars, scene>>

\* Sound although the first scene names a helper: with h2 idle for ever, no two of
\* its states are exchanged by a permutation.
HelperSymmetry == Permutations(Helpers)
=============================================================================
