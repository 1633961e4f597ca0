------------------------------ MODULE Forwards ------------------------------
(***************************************************************************)
(* Port forwards: `abox forward add | remove | restart | list` and the     *)
(* cleanup of `abox remove`, pkg/cmd/forward.                              *)
(*                                                                         *)
(* A forward is an ssh process that put itself in the background, so abox  *)
(* does not know its PID: it searches the process table for a command line *)
(* that contains the forward's argument, and writes the PID it finds to    *)
(* the instance's forwards.json.  Everything later - status, restart,      *)
(* removal - goes by that PID alone.  The file is read and rewritten       *)
(* without a lock, tunnels die with their guest, and PIDs are reused.      *)
(***************************************************************************)
EXTENDS Naturals, FiniteSets

CONSTANTS
    Guests,          \* instances
    Mappings,        \* forwards asked for: host port, guest port, direction
    Prefixes,        \* port pairs, the digits of one begin those of the other
    TunnelPids,      \* process ids
    Shells,          \* terminals commands are typed in
    MaxFwdCommands, MaxFwdMishaps    \* bounds of the exploration

\* What the constants must be.
FwdAssumption ==
    /\ \A m \in Mappings : m.host \in Nat /\ m.guest \in Nat /\ m.rev \in BOOLEAN
    /\ MaxFwdCommands \in Nat /\ MaxFwdMishaps \in Nat

VARIABLES
    process,    \* the process table: whose tunnel a PID is, or not a tunnel
    forwards,   \* forwards.json of each instance: entries with their PID
    shell,      \* the command running in each terminal
    mistaken,   \* history: a search returned the PID of another forward
    disturbed,  \* history: two commands on one instance ran at once, or one
                \* was killed
    recycled,   \* history: a PID of a forward was given to another process
    shrugged,   \* history: a write of the file or a signal failed, which a
                \* command only warns of or reports
    fwdCommands, fwdMishaps

fwdVars == <<process, forwards, shell, mistaken, disturbed, recycled, shrugged,
             fwdCommands, fwdMishaps>>
fwdCounts == <<fwdCommands, fwdMishaps>>

NoMapping == [host |-> 0, guest |-> 0, rev |-> FALSE]
NoProcess == [kind |-> "free", box |-> 0, map |-> NoMapping]
Foreign == [kind |-> "other", box |-> 0, map |-> NoMapping]
Tunnel(b, mp) == [kind |-> "ssh", box |-> b, map |-> mp]
AtPrompt == [op |-> "none", at |-> "idle", box |-> 0, map |-> NoMapping,
             pid |-> 0, read |-> {}]

FwdInit ==
    /\ process = [p \in TunnelPids |-> NoProcess]
    /\ forwards = [b \in Guests |-> {}]
    /\ shell = [s \in Shells |-> AtPrompt]
    /\ mistaken = FALSE /\ disturbed = FALSE /\ recycled = FALSE /\ shrugged = FALSE
    /\ fwdCommands = 0 /\ fwdMishaps = 0

\* The string on ssh's command line: "localhost:A:localhost:B".
ForwardArg(mp) == IF mp.rev THEN <<mp.guest, mp.host>> ELSE <<mp.host, mp.guest>>

\* strings.Contains: the second port may go on with more digits.
FindsIn(mp, other) ==
    LET x == ForwardArg(mp)
        y == ForwardArg(other)
    IN  x[1] = y[1] /\ (x[2] = y[2] \/ <<x[2], y[2]>> \in Prefixes)

IsPIDRunning(p) == p # 0 /\ process[p].kind # "free"

TunnelsOf(b) == {p \in TunnelPids : process[p].kind = "ssh" /\ process[p].box = b}

FindForwardByHostPort(file, h) == {e \in file : e.map.host = h}

\* A PID that a record, or a command about to write one, still names for
\* another forward is given out again.
Recycles(p, b, mp) ==
    \/ \E s \in Shells : shell[s].pid = p
    \/ \E g \in Guests : \E e \in forwards[g] : e.pid = p /\ ~(g = b /\ e.map = mp)

-----------------------------------------------------------------------------
(* The commands, step by step.                                             *)

ShellGo(s, at) == shell' = [shell EXCEPT ![s].at = at]
ShellEnds(s) == shell' = [shell EXCEPT ![s] = AtPrompt]

StartsCommand(s, op, b, mp, at) ==
    /\ shell[s].at = "idle"
    /\ fwdCommands < MaxFwdCommands /\ fwdCommands' = fwdCommands + 1
    /\ shell' = [shell EXCEPT ![s] = [AtPrompt EXCEPT !.op = op, !.at = at,
                                          !.box = b, !.map = mp]]
    /\ disturbed' = (disturbed \/ \E t \in Shells \ {s} :
                                      shell[t].at # "idle" /\ shell[t].box = b)
    /\ UNCHANGED <<process, mistaken, recycled, shrugged, fwdMishaps>>

\* runAdd refuses a host port the file already has.
AddForward(s, b, mp) ==
    /\ FindForwardByHostPort(forwards[b], mp.host) = {}
    /\ StartsCommand(s, "add", b, mp, "tunnel")
    /\ UNCHANGED forwards

\* runRestartOne starts the tunnel of an entry whose process is gone.
RestartForward(s, b, e) ==
    /\ e \in forwards[b] /\ ~IsPIDRunning(e.pid)
    /\ StartsCommand(s, "restart", b, e.map, "tunnel")
    /\ UNCHANGED forwards

\* StartTunnel: ssh -f forks after authenticating, or fails. It stays also when
\* it cannot listen on the port (ExitOnForwardFailure is not set): a tunnel is a
\* process, whether or not anything comes through it.
StartTunnel(s) ==
    LET b == shell[s].box
        mp == shell[s].map
    IN  /\ shell[s].at = "tunnel"
        /\ \/ \E p \in TunnelPids :
                 /\ process[p].kind = "free"
                 /\ process' = [process EXCEPT ![p] = Tunnel(b, mp)]
                 /\ recycled' = (recycled \/ Recycles(p, b, mp))
                 /\ shell' = [shell EXCEPT ![s].at = "search", ![s].pid = p]
           \/ ShellEnds(s) /\ UNCHANGED <<process, recycled>>
        /\ UNCHANGED <<forwards, mistaken, disturbed, shrugged, fwdCounts>>

\* WaitForSSHProcess takes the first process whose command line contains the
\* argument; when there is none within ten seconds the command fails.
FindPIDByPattern(s) ==
    LET hits == {p \in TunnelPids : process[p].kind = "ssh"
                                      /\ FindsIn(shell[s].map, process[p].map)}
    IN  /\ shell[s].at = "search"
        /\ \/ \E p \in hits :
                 /\ shell' = [shell EXCEPT ![s].at = "load", ![s].pid = p]
                 /\ mistaken' = (mistaken \/ p # shell[s].pid)
           \/ hits = {} /\ ShellEnds(s) /\ UNCHANGED mistaken
        /\ UNCHANGED <<process, forwards, disturbed, recycled, shrugged, fwdCounts>>

\* LoadForwards: the copy of the file the command will rewrite.
LoadForwards(s) ==
    /\ shell[s].at = "load"
    /\ shell' = [shell EXCEPT ![s].at = "save",
                              ![s].read = forwards[shell[s].box]]
    /\ UNCHANGED <<process, forwards, mistaken, disturbed, recycled, shrugged,
                   fwdCounts>>

\* What AddForward, UpdateForwardPID and RemoveForward make of that copy.
Rewritten(c) ==
    LET new == [map |-> c.map, pid |-> c.pid]
        same == FindForwardByHostPort(c.read, c.map.host)
    IN  CASE c.op = "add" -> c.read \cup {new}
          [] c.op = "restart" -> IF same = {} THEN c.read
                                 ELSE (c.read \ same) \cup {new}
          [] c.op = "remove" -> c.read \ same

Happens == fwdMishaps < MaxFwdMishaps /\ fwdMishaps' = fwdMishaps + 1
AsUsual == UNCHANGED <<shrugged, fwdMishaps>>
Shrugs == Happens /\ shrugged' = TRUE

\* The write may fail: runAdd warns and goes on, the others report it.
SaveForwards(s) ==
    /\ shell[s].at = "save"
    /\ \/ /\ forwards' = [forwards EXCEPT ![shell[s].box] = Rewritten(shell[s])]
          /\ AsUsual
       \/ Shrugs /\ UNCHANGED forwards
    /\ ShellEnds(s)
    /\ UNCHANGED <<process, mistaken, disturbed, recycled, fwdCommands>>

\* SIGTERM to the PIDs of some entries, whatever runs under them now. A signal
\* that fails is only warned of.
Terminated(es) ==
    \/ /\ process' = [p \in TunnelPids |->
                        IF \E e \in es : e.pid = p THEN NoProcess ELSE process[p]]
       /\ AsUsual
    \/ /\ \E e \in es : IsPIDRunning(e.pid)
       /\ Shrugs /\ UNCHANGED process

\* runRemove: the entry is found, its PID signalled if it is alive; the file
\* is rewritten next, whether or not the signal reached it.
RemoveForward(s, b, e) ==
    /\ e \in forwards[b]
    /\ shell[s].at = "idle"
    /\ fwdCommands < MaxFwdCommands /\ fwdCommands' = fwdCommands + 1
    /\ shell' = [shell EXCEPT ![s] = [AtPrompt EXCEPT !.op = "remove",
                                  !.at = "load", !.box = b, !.map = e.map]]
    /\ disturbed' = (disturbed \/ \E t \in Shells \ {s} :
                                      shell[t].at # "idle" /\ shell[t].box = b)
    /\ Terminated({e})
    /\ UNCHANGED <<forwards, mistaken, recycled>>

\* MUTANT of CleanupForwards: the file is cleared before it is read.
CleanupForwardsFirst(s, b) ==
    /\ StartsCommand(s, "cleanup", b, NoMapping, "idle")
    /\ forwards' = [forwards EXCEPT ![b] = {}]

\* CleanupForwards of `abox remove`: every entry's process, then the file.
CleanupForwards(s, b) ==
    /\ shell[s].at = "idle"
    /\ fwdCommands < MaxFwdCommands /\ fwdCommands' = fwdCommands + 1
    /\ disturbed' = (disturbed \/ \E t \in Shells \ {s} :
                                      shell[t].at # "idle" /\ shell[t].box = b)
    /\ Terminated({e \in forwards[b] : IsPIDRunning(e.pid)})
    /\ forwards' = [forwards EXCEPT ![b] = {}]
    /\ UNCHANGED <<shell, mistaken, recycled>>

-----------------------------------------------------------------------------
(* The world outside.                                                      *)

\* The guest stops or the network fails: its tunnels exit.
TunnelsDie(b) ==
    /\ Happens /\ TunnelsOf(b) # {}
    /\ process' = [p \in TunnelPids |->
                     IF p \in TunnelsOf(b) THEN NoProcess ELSE process[p]]
    /\ UNCHANGED <<forwards, shell, mistaken, disturbed, recycled, shrugged,
                   fwdCommands>>

\* Another program is started under a free PID.
PidTaken(p) ==
    /\ Happens /\ process[p].kind = "free"
    /\ process' = [process EXCEPT ![p] = Foreign]
    /\ recycled' = (recycled \/ Recycles(p, 0, NoMapping))
    /\ UNCHANGED <<forwards, shell, mistaken, disturbed, shrugged, fwdCommands>>

\* abox is killed between two steps of a command.
CommandKilled(s) ==
    /\ Happens /\ shell[s].at # "idle"
    /\ ShellEnds(s)
    /\ disturbed' = TRUE
    /\ UNCHANGED <<process, forwards, mistaken, recycled, shrugged, fwdCommands>>

FwdNext ==
    \/ \E s \in Shells :
          \/ StartTunnel(s) \/ FindPIDByPattern(s) \/ LoadForwards(s)
          \/ SaveForwards(s) \/ CommandKilled(s)
          \/ \E b \in Guests :
                \/ CleanupForwards(s, b)
                \/ \E mp \in Mappings : AddForward(s, b, mp)
                \/ \E e \in forwards[b] : RestartForward(s, b, e)
                                            \/ RemoveForward(s, b, e)
    \/ \E b \in Guests : TunnelsDie(b)
    \/ \E p \in TunnelPids : PidTaken(p)

-----------------------------------------------------------------------------

\* `forward list`: an entry is shown active when its PID is alive.
ListedActive(b) == {e \in forwards[b] : IsPIDRunning(e.pid)}

Quiet(b) == \A s \in Shells : shell[s].box # b

\* The state keeps its shape.
FwdTypeOK ==
    /\ \A p \in TunnelPids : process[p].kind \in {"free", "ssh", "other"}
    /\ \A b \in Guests : forwards[b] \subseteq
                           [map : Mappings, pid : TunnelPids]
    /\ \A s \in Shells : shell[s].at \in {"idle", "tunnel", "search", "load", "save"}

\* No tunnel outlives its record: when no command works on an instance, every
\* tunnel to it is in forwards.json under its PID, so remove and cleanup can
\* end it.  (Not after a mistaken search, two commands at once, a kill, or a
\* write or signal that failed.)
TunnelsRecorded ==
    \A b \in Guests :
        Quiet(b) /\ ~mistaken /\ ~disturbed /\ ~shrugged =>
            \A p \in TunnelsOf(b) : [map |-> process[p].map, pid |-> p] \in forwards[b]

\* What `forward list` calls active, and remove would signal, is the ssh process
\* of that forward, whether or not it got its port.  (Not after a mistaken
\* search, two commands at once, a kill, or once a dead tunnel's PID was
\* recycled: only the PID is looked at.)
ListHonest ==
    ~mistaken /\ ~recycled /\ ~disturbed =>
        \A b \in Guests : \A e \in ListedActive(b) :
            process[e.pid] = Tunnel(b, e.map)

\* What the comment on FindPIDByPattern promises - the argument "is specific
\* enough to avoid false matches" - would make TunnelsRecorded hold of every
\* undisturbed sequence of commands.  (A reverse forward swaps the ports and
\* the last port may be a prefix of another, so it does not.)
TunnelsTracked ==
    \A b \in Guests :
        Quiet(b) /\ ~disturbed /\ ~shrugged =>
            \A p \in TunnelsOf(b) : [map |-> process[p].map, pid |-> p] \in forwards[b]
=============================================================================
