---------------------------- MODULE MCLifecycle ----------------------------
(***************************************************************************)
(* Instances of Lifecycle for TLC, two scenes: one user running commands   *)
(* one after the other while steps fail, and two users at once.            *)
(***************************************************************************)
EXTENDS Lifecycle, TLC

CONSTANTS c1, c2, Scenes

VARIABLE scene

TwoClients == {c1, c2}
Running == {"start", "stop"}
NoFaults == {}
NoEvents == {}
Outside == AllEvents \ {"crash"}

\* The steps that bring an instance up or stop its VM; what tears down the rest
\* (flush, undefine, the deletions, create's rollback), what only asks libvirt and
\* the save of a port work.
Forward ==
  {"create", "network", "spawn", "status", "redefine", "nwfilter", "rules",
   "boot", "apply", "shutdown", "force", "cancel"}

Alone == INSTANCE Lifecycle WITH
  Commands <- AllCommands \ {"downrm"}, Monitor <- TRUE, MayFail <- Forward,
  Events <- NoEvents

Race == INSTANCE Lifecycle WITH MaxCmds <- 3, MaxFaults <- 1

MCInit ==
  /\ scene \in Scenes
  /\ \/ scene = "alone" /\ Alone!Init
     \/ scene = "race" /\ Race!Init

MCNext ==
  \/ scene = "alone" /\ Alone!Next /\ pc'[c2] = "idle" /\ UNCHANGED scene
  \/ scene = "race" /\ Race!Next /\ UNCHANGED scene

MCSpec == MCInit /\ [][MCNext]_<<vars, scene>>

\* Sound although the first scene names a client: with c2 idle for ever, no two of
\* its states are exchanged by a permutation.
ClientSymmetry == Permutations(Clients)

-----------------------------------------------------------------------------
\* What the commands of one user promise while steps of Forward fail, stated in
\* Lifecycle: between two of them a VM that runs has both halves of its egress
\* enforcement and its daemons, unless a failed re-assert took the host rules back
\* or the user was warned; an instance that is not in the configuration has left
\* nothing on the host; a command that reports success has done what its name says;
\* the VM is deleted before the egress rules its interface refers to.
AloneSound ==
  scene = "alone" => Alone!AtRest /\ Alone!NoLeak /\ Alone!ResultHonest /\ Alone!VMFirst
=============================================================================
