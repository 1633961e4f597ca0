------------------------------- MODULE Helper -------------------------------
(***************************************************************************)
(* The privileged helper: how an abox process obtains it, talks to it and  *)
(* gets rid of it (pkg/cmd/factory/privilege.go, factory.go), and how the  *)
(* helper comes up, authenticates its caller and shuts down                *)
(* (internal/privilege/helper.go, internal/rpc/rpc.go, cmd/abox-helper).   *)
(*                                                                         *)
(* Several abox processes of one user share the runtime directory that     *)
(* holds the helper sockets.  A start names its socket and its token       *)
(* afresh, so a start and its socket are one slot <<process, attempt>>;    *)
(* Ext is the helper another program started and announced through         *)
(* ABOX_PRIVILEGE_SOCKET.                                                   *)
(***************************************************************************)
EXTENDS Naturals, FiniteSetsExt

CONSTANTS
    Clients,   \* abox processes, each with one Factory
    MaxTries,  \* bound on the starts of all processes together
    MaxKills,  \* bound on the abox processes killed with SIGKILL
    Hosts,     \* the facts about the host a process may find (see below)
    Ext        \* the slot of the external helper

\* What the constants must be.
HelperAssumption ==
    /\ MaxTries \in Nat /\ MaxKills \in Nat
    /\ Ext \notin Clients \X (1..MaxTries)
    /\ Hosts \subseteq [root : BOOLEAN, setuid : BOOLEAN, quiet : BOOLEAN,
                        tool : BOOLEAN, env : {"none", "good", "foreign"}]

VARIABLES
    host,    \* [Clients -> Hosts], fixed for the life of the process
    cl,      \* [Clients -> control state of the process]
    try,     \* [Clients -> number of starts made], at most MaxTries in all
    todo,    \* [Clients -> sockets cleanStalePrivilegeSockets still has to test]
    doomed,  \* [Clients -> the socket it found stale and is about to unlink]
    hp,      \* [Slots -> stage of the helper process]
    via,     \* [Slots -> the way it was spawned]
    stdin,   \* slots whose token was written to the helper's stdin
    sock,    \* slots whose socket file exists
    raced,   \* history: slots whose socket a sweep tested while the helper came up
    kills    \* abox processes killed so far

helperVars == <<host, cl, try, todo, doomed, hp, via, stdin, sock, raced, kills>>

Slots == Clients \X (1..MaxTries)
AllSlots == Slots \cup {Ext}
Slot(c) == <<c, try[c]>>

Starting == {"clean", "unlink", "spawn", "token", "poll", "ping"}
Control == Starting \cup {"idle", "abort", "reap", "ready", "killing", "drain",
                          "external", "closed", "killed"}
Stages == {"none", "prompt", "checks", "token", "bound", "serve", "stopping", "gone"}

Live(s) == hp[s] \in Stages \ {"none", "gone"}

\* A user process can connect once the root-owned socket has its final mode and
\* owner; before that, and after the helper stopped, a dial fails.
Dials(s) == s \in sock /\ hp[s] = "serve"

HelperTypeOK ==
    /\ host \in [Clients -> Hosts]
    /\ cl \in [Clients -> Control]
    /\ try \in [Clients -> 0..MaxTries]
    /\ todo \in [Clients -> SUBSET AllSlots]
    /\ doomed \in [Clients -> SUBSET AllSlots]
    /\ hp \in [AllSlots -> Stages]
    /\ via \in [AllSlots -> {"none", "root", "setuid", "escalated"}]
    /\ stdin \subseteq Slots /\ sock \subseteq AllSlots
    /\ raced \subseteq Slots
    /\ kills \in 0..MaxKills

HelperInit ==
    /\ host \in [Clients -> Hosts]
    /\ cl = [c \in Clients |-> "idle"]
    /\ try = [c \in Clients |-> 0]
    /\ todo = [c \in Clients |-> {}]
    /\ doomed = [c \in Clients |-> {}]
    /\ hp = [s \in AllSlots |-> IF s = Ext THEN "serve" ELSE "none"]
    /\ via = [s \in AllSlots |-> "none"]
    /\ stdin = {}
    /\ sock = {Ext}
    /\ raced = {}
    /\ kills = 0

-----------------------------------------------------------------------------
(* The client: Factory.EgressClient and PrivilegeHelper.start              *)

Goto(c, pc) == cl' = [cl EXCEPT ![c] = pc]

\* How start would spawn the helper, in the order it tries: already root, the
\* setuid binary, an interactive escalation unless that is disabled.
Route(h) ==
    IF h.root THEN "root"
    ELSE IF h.setuid THEN "setuid"
    ELSE IF ~h.quiet /\ h.tool THEN "escalated"
    ELSE "none"

\* The setuid binary did not execute: only an interactive escalation is left.
Fallback(h) == IF h.setuid /\ ~h.root /\ ~h.quiet /\ h.tool THEN "escalated" ELSE "none"

\* EgressClient with ABOX_PRIVILEGE_SOCKET set: validate the path, dial, ping.
\* (The ping needs no token: a wrong one is only found out by a later call.)
ConnectExternal(c) ==
    /\ cl[c] = "idle" /\ host[c].env # "none"
    /\ Goto(c, IF host[c].env # "foreign" /\ Dials(Ext) THEN "external" ELSE "idle")
    /\ UNCHANGED <<host, try, todo, doomed, hp, via, stdin, sock, raced, kills>>

\* EgressClient without one: a fresh socket and token, then start looks for
\* sockets left behind by other processes.
BeginStart(c) ==
    /\ cl[c] = "idle" /\ host[c].env = "none"
    /\ MapThenSumSet(LAMBDA d : try[d], Clients) < MaxTries
    /\ try' = [try EXCEPT ![c] = @ + 1]
    /\ todo' = [todo EXCEPT ![c] = sock]
    /\ Goto(c, "clean")
    /\ UNCHANGED <<host, doomed, hp, via, stdin, sock, raced, kills>>

\* cleanStalePrivilegeSockets: a socket that answers is left alone, any other
\* one is unlinked, in a second step.
TestSocket(c, s) ==
    /\ cl[c] = "clean" /\ s \in todo[c]
    /\ todo' = [todo EXCEPT ![c] = @ \ {s}]
    /\ \/ Dials(s) /\ UNCHANGED <<cl, doomed, raced>>
       \/ /\ ~Dials(s)
          /\ doomed' = [doomed EXCEPT ![c] = {s}] /\ Goto(c, "unlink")
          /\ raced' = IF hp[s] = "bound" THEN raced \cup {s} ELSE raced
    /\ UNCHANGED <<host, try, hp, via, stdin, sock, kills>>

UnlinkStale(c) ==
    /\ cl[c] = "unlink"
    /\ sock' = sock \ doomed[c]
    /\ doomed' = [doomed EXCEPT ![c] = {}]
    /\ Goto(c, "clean")
    /\ UNCHANGED <<host, try, todo, hp, via, stdin, raced, kills>>

CleanDone(c) ==
    /\ cl[c] = "clean" /\ todo[c] = {}
    /\ sock' = sock \ {Slot(c)}
    /\ Goto(c, "spawn")
    /\ UNCHANGED <<host, try, todo, doomed, hp, via, stdin, raced, kills>>

\* Spawn by the given route: an escalated helper first asks for a password.
SpawnVia(c, r) ==
    IF r = "none"
    THEN Goto(c, "idle") /\ UNCHANGED <<hp, via>>
    ELSE /\ hp' = [hp EXCEPT ![Slot(c)] = CASE r = "escalated" -> "prompt"
                                             [] r = "setuid" -> "checks"
                                             [] OTHER -> "token"]
         /\ via' = [via EXCEPT ![Slot(c)] = r]
         /\ Goto(c, "token")

Spawn(c) ==
    /\ cl[c] = "spawn"
    /\ \/ SpawnVia(c, Route(host[c]))
       \/ SpawnVia(c, Fallback(host[c]))     \* cmd.Start failed
    /\ UNCHANGED <<host, try, todo, doomed, stdin, sock, raced, kills>>

\* Writing the token fails only when the helper is gone; it is then reaped.
SendToken(c) ==
    /\ cl[c] = "token"
    /\ IF hp[Slot(c)] = "gone"
       THEN Goto(c, "idle") /\ UNCHANGED stdin
       ELSE Goto(c, "poll") /\ stdin' = stdin \cup {Slot(c)}
    /\ UNCHANGED <<host, try, todo, doomed, hp, via, sock, raced, kills>>

\* MUTANT of WaitForSocket: neither the helper's exit nor a deadline ends the wait.
WaitForSocketForever(c) ==
    /\ cl[c] = "poll" /\ Dials(Slot(c))
    /\ Goto(c, "ping")
    /\ UNCHANGED <<host, try, todo, doomed, hp, via, stdin, sock, raced, kills>>

\* waitForSocket: the socket answers, the helper exited, or the 60 s are over.
WaitForSocket(c) ==
    /\ cl[c] = "poll"
    /\ \/ Dials(Slot(c)) /\ Goto(c, "ping")
       \/ ~Dials(Slot(c)) /\ Goto(c, "abort")
    /\ UNCHANGED <<host, try, todo, doomed, hp, via, stdin, sock, raced, kills>>

\* UnixDial connects lazily, so a failed dial shows as a failed ping.
PingHelper(c) ==
    /\ cl[c] = "ping"
    /\ \/ Dials(Slot(c)) /\ Goto(c, "ready")
       \/ Goto(c, "abort")                  \* not connected, or the ping timed out
    /\ UNCHANGED <<host, try, todo, doomed, hp, via, stdin, sock, raced, kills>>

\* A process of the user may signal the setuid helper (its real uid is the
\* user's) and, as root, its own child; not one escalated through sudo/pkexec.
Killable(s) == via[s] \in {"root", "setuid"}

\* MUTANT of Cleanup: the helper of a failed start is not killed.
CleanupNoKill(c) ==
    /\ cl[c] = "abort"
    /\ Goto(c, "idle") /\ sock' = sock \ {Slot(c)}
    /\ UNCHANGED <<host, try, todo, doomed, hp, via, stdin, raced, kills>>

\* cleanup after a failed start: kill, then wait for the exit ...
Cleanup(c) ==
    /\ cl[c] = "abort"
    /\ hp' = IF Live(Slot(c)) /\ Killable(Slot(c))
             THEN [hp EXCEPT ![Slot(c)] = "gone"] ELSE hp
    /\ Goto(c, "reap")
    /\ UNCHANGED <<host, try, todo, doomed, via, stdin, sock, raced, kills>>

\* ... and closeResources; the state is helperIdle again.
Reap(c) ==
    /\ cl[c] = "reap" /\ hp[Slot(c)] = "gone"
    /\ sock' = sock \ {Slot(c)}
    /\ Goto(c, "idle")
    /\ UNCHANGED <<host, try, todo, doomed, hp, via, stdin, raced, kills>>

-----------------------------------------------------------------------------
(* Factory.Close and PrivilegeHelper.Shutdown                              *)

\* Nothing was started, or the helper is someone else's: nothing to stop.
CloseIdle(c) ==
    /\ cl[c] \in {"idle", "external"}
    /\ Goto(c, "closed")
    /\ UNCHANGED <<host, try, todo, doomed, hp, via, stdin, sock, raced, kills>>

\* The Shutdown call; a helper that is gone does not answer it.
AskShutdown(c) ==
    /\ cl[c] = "ready"
    /\ hp' = IF hp[Slot(c)] = "serve" THEN [hp EXCEPT ![Slot(c)] = "stopping"] ELSE hp
    /\ Goto(c, "drain")
    /\ UNCHANGED <<host, try, todo, doomed, via, stdin, sock, raced, kills>>

\* After two seconds the helper is killed (where that is permitted).
ForceKill(c) ==
    /\ cl[c] = "drain" /\ Live(Slot(c))
    /\ hp' = IF Killable(Slot(c)) THEN [hp EXCEPT ![Slot(c)] = "gone"] ELSE hp
    /\ Goto(c, "killing")
    /\ UNCHANGED <<host, try, todo, doomed, via, stdin, sock, raced, kills>>

\* waitDone delivered: close the connection, remove the socket.
FinishShutdown(c) ==
    /\ cl[c] \in {"drain", "killing"} /\ hp[Slot(c)] = "gone"
    /\ sock' = sock \ {Slot(c)}
    /\ Goto(c, "closed")
    /\ UNCHANGED <<host, try, todo, doomed, hp, via, stdin, raced, kills>>

\* SIGKILL: no deferred function runs, the helper is left alone.
KillClient(c) ==
    /\ cl[c] \notin {"closed", "killed"} /\ kills < MaxKills
    /\ kills' = kills + 1
    /\ Goto(c, "killed")
    /\ todo' = [todo EXCEPT ![c] = {}]
    /\ doomed' = [doomed EXCEPT ![c] = {}]
    /\ UNCHANGED <<host, try, hp, via, stdin, sock, raced>>

-----------------------------------------------------------------------------
(* The helper process                                                      *)

Stage(s, st) == hp' = [hp EXCEPT ![s] = st]

\* sudo/pkexec: the user authenticates, or the prompt is cancelled or expires.
Authenticate(s) ==
    /\ hp[s] = "prompt"
    /\ Stage(s, "token") \/ Stage(s, "gone")
    /\ UNCHANGED <<host, cl, try, todo, doomed, via, stdin, sock, raced, kills>>

\* The setuid binary: not installed setuid, run by root, a caller outside the
\* group or a socket path it refuses ends it; else it is the helper.
RunSetuid(s) ==
    /\ hp[s] = "checks"
    /\ Stage(s, "token") \/ Stage(s, "gone")
    /\ UNCHANGED <<host, cl, try, todo, doomed, via, stdin, sock, raced, kills>>

\* RunHelper up to the listener: a failed check, or the end of file on stdin of
\* a parent that is gone, ends it; with the token it binds the socket.
ReadToken(s) ==
    /\ hp[s] = "token"
    /\ \/ s \in stdin /\ Stage(s, "bound") /\ sock' = sock \cup {s}
       \/ Stage(s, "gone") /\ UNCHANGED sock
    /\ UNCHANGED <<host, cl, try, todo, doomed, via, stdin, raced, kills>>

\* applySocketPermissions re-opens the path: a socket unlinked meanwhile ends
\* the helper.
PermitSocket(s) ==
    /\ hp[s] = "bound"
    /\ Stage(s, IF s \in sock THEN "serve" ELSE "gone")
    /\ UNCHANGED <<host, cl, try, todo, doomed, via, stdin, sock, raced, kills>>

\* GracefulStop makes Serve return; the deferred removeSocket runs.
GracefulStop(s) ==
    /\ hp[s] = "stopping"
    /\ Stage(s, "gone")
    /\ sock' = sock \ {s}
    /\ UNCHANGED <<host, cl, try, todo, doomed, via, stdin, raced, kills>>

\* The helper dies on its own; the socket file stays.
HelperDies(s) ==
    /\ hp[s] = "serve"
    /\ Stage(s, "gone")
    /\ UNCHANGED <<host, cl, try, todo, doomed, via, stdin, sock, raced, kills>>

-----------------------------------------------------------------------------
ClientStep(c) ==
    \/ ConnectExternal(c) \/ BeginStart(c) \/ UnlinkStale(c) \/ CleanDone(c)
    \/ \E s \in AllSlots : TestSocket(c, s)
    \/ Spawn(c) \/ SendToken(c) \/ WaitForSocket(c) \/ PingHelper(c)
    \/ Cleanup(c) \/ Reap(c)
    \/ CloseIdle(c) \/ AskShutdown(c) \/ ForceKill(c) \/ FinishShutdown(c)

HelperStep(s) ==
    Authenticate(s) \/ RunSetuid(s) \/ ReadToken(s) \/ PermitSocket(s) \/ GracefulStop(s)

HelperNext ==
    \/ \E c \in Clients : ClientStep(c) \/ KillClient(c)
    \/ \E s \in AllSlots : HelperStep(s) \/ HelperDies(s)

-----------------------------------------------------------------------------
(* Properties                                                              *)

\* A process never has two helpers: a failed start kills and reaps its helper
\* before EgressClient may start another.
OneHelper == \A c \in Clients : \A i, j \in 1..MaxTries :
    Live(<<c, i>>) /\ Live(<<c, j>>) => i = j

\* When Close has returned, no helper of the process runs and none of its
\* socket files is left, whatever failed on the way.
ClosedClean == \A c \in Clients : cl[c] = "closed" =>
    \A i \in 1..MaxTries : ~Live(<<c, i>>) /\ <<c, i>> \notin sock

\* A command that disabled interactive escalation never raises a prompt, not
\* even when the setuid helper fails to execute.
QuietNeverPrompts == \A c \in Clients, i \in 1..MaxTries :
    host[c].quiet => via[<<c, i>>] # "escalated"

\* A helper that is coming up or serving keeps its socket file while its owner
\* uses it, however many other processes sweep the directory, unless one of them
\* tested the socket before the helper served on it (cleanStalePrivilegeSockets).
SocketKept == \A c \in Clients :
    (cl[c] \in {"poll", "ping", "ready"} /\ hp[Slot(c)] \in {"bound", "serve"})
        => Slot(c) \in sock \cup raced

\* The same without the exception: "removes orphaned privilege helper sockets".
LiveSocketKept == \A c \in Clients :
    (cl[c] \in {"poll", "ping", "ready"} /\ hp[Slot(c)] \in {"bound", "serve"})
        => Slot(c) \in sock

\* Obtaining the helper ends, with a helper or without, unless the helper was
\* escalated (the user's process cannot signal it and may wait for its exit).
Obtaining(c) ==
    cl[c] \in Starting /\ ~(Route(host[c]) = "escalated" \/ Fallback(host[c]) = "escalated")
Obtained(c) == cl[c] \in {"idle", "ready", "closed", "killed"}
StartEnds == \A c \in Clients : Obtaining(c) ~> Obtained(c)

\* Shutting the helper down ends: asked, it stops; killed, it is reaped.
Draining(c) == cl[c] = "drain"
Drained(c) == cl[c] \in {"closed", "killed"}
ShutdownReaps == \A c \in Clients : Draining(c) ~> Drained(c)
=============================================================================
