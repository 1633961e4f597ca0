------------------------------- MODULE MCLive -------------------------------
(***************************************************************************)
(* Instances for TLC of the components whose steps must come to an end:    *)
(* the commands of an instance's life, the DNS filter, the rotating log    *)
(* and its followers, the monitor daemon, the privilege helper, the vfkit  *)
(* supervisor and the users of the stored base image.  The components have *)
(* no state in common here, so a behaviour is a behaviour of one of them,  *)
(* chosen at the beginning: they are laid over the same variables          *)
(* x1 .. x20, and `part` says whose state these are.                       *)
(***************************************************************************)
EXTENDS Naturals, Sequences, FiniteSets

CONSTANTS Parts, Nobody, c1, c2, q1, Ext

VARIABLES part, x1, x2, x3, x4, x5, x6, x7, x8, x9, x10, x11, x12, x13, x14, x15,
          x16, x17, x18, x19, x20

mcVars == <<part, x1, x2, x3, x4, x5, x6, x7, x8, x9, x10, x11, x12, x13, x14, x15,
            x16, x17, x18, x19, x20>>

-----------------------------------------------------------------------------
(* The components.                                                         *)

\* Two clients, one failing operation and one killed client.  up takes the steps of
\* create and of start; a restart goes on after its stop as down --remove does.
Life == INSTANCE Lifecycle WITH
  cfg <- x1, net <- x2, disk <- x3, vm <- x4, nwf <- x5, rules <- x6, bound <- x7,
  dmn <- x8, orphan <- x9, warned <- x10, lock <- x11, pc <- x12, todo <- x13,
  cmd <- x14, fresh <- x15, res <- x16, ncmd <- x17, nfault <- x18, nevent <- x19,
  withdrawn <- x20,
  Clients <- {c1, c2}, Monitor <- FALSE, Events <- {"crash"},
  Commands <- {"stop", "remove", "up", "down", "downrm"},
  MayFail <- {"create", "undo", "network", "spawn", "status", "save", "redefine",
              "nwfilter", "rules", "boot", "apply", "shutdown", "force", "cancel",
              "query", "flush", "undefine", "vmdelete", "netdelete", "cfgdelete"},
  MaxCmds <- 2, MaxFaults <- 1, MaxEvents <- 1

Ask(name, type, net, room) == [name |-> name, type |-> type, net |-> net, room |-> room]
Answer(trunc, addrs, size) == [trunc |-> trunc, addrs |-> addrs, size |-> size]

\* One query of every kind; MCServices has two at once.
Dns == INSTANCE Dns WITH
  daemon <- x1, ports <- x2, active <- x3, listed <- x4, flips <- x5, q <- x6,
  captured <- x7, stats <- x8, traffic <- x9,
  Queries <- {q1}, Permitted <- {"private"}, MaxFlips <- 1,
  Asks <- {Ask("absent", "addr", "udp", 0), Ask("health", "addr", "udp", 0),
           Ask("a", "addr", "tcp", 0), Ask("b", "addr", "udp", 2), Ask("b", "other", "udp", 0)},
  Answers <- {Answer(FALSE, {"private"}, 2), Answer(FALSE, {"public", "loopback"}, 1),
              Answer(TRUE, {"public"}, 0)}

\* Two rotations with two backups, a writer and a follower.
Log == INSTANCE Logs WITH
  links <- x1, dir <- x2, body <- x3, wfile <- x4, written <- x5, wstep <- x6,
  wback <- x7, lost <- x8, logged <- x9, mishaps <- x10, torn <- x11, ffile <- x12,
  fpos <- x13, fstep <- x14, events <- x15, shown <- x16, behind <- x17,
  MaxSize <- 2, MaxBackups <- 2, MaxLines <- 5, MaxMishaps <- 1,
  LinkSets <- {{}, {1}}

\* One daemon, two events, and a VM that stops and starts at will.
Mon == INSTANCE Monitor WITH
  vm <- x1, emitted <- x2, clients <- x3, eof <- x4, evlog <- x5, got <- x6,
  main <- x7, told <- x8, stopped <- x9, loop <- x10, chan <- x11, hand <- x12, refused <- x13,
  MaxStarts <- 1, MaxEvents <- 2, Buffer <- 1

HostOf(setuid, quiet, env) ==
  [root |-> FALSE, setuid |-> setuid, quiet |-> quiet, tool |-> TRUE, env |-> env]

\* One abox process, with a setuid helper, an escalated one or one it is given, two
\* starts and one kill; MCServices has two at once.
Helper == INSTANCE Helper WITH
  host <- x1, cl <- x2, try <- x3, todo <- x4, doomed <- x5, hp <- x6, via <- x7,
  stdin <- x8, sock <- x9, raced <- x10, kills <- x11,
  Clients <- {c1}, MaxTries <- 2, MaxKills <- 1,
  Hosts <- {HostOf(TRUE, FALSE, "none"), HostOf(TRUE, TRUE, "none"),
            HostOf(FALSE, FALSE, "none"), HostOf(TRUE, TRUE, "good"),
            HostOf(FALSE, FALSE, "good")}

\* Two commands on one instance, three PIDs, one mishap.
Vfkit == INSTANCE Vfkit WITH
  proc <- x1, pidfile <- x2, defined <- x3, bridge <- x4, via <- x5, vcmd <- x6,
  vpc <- x7, fresh <- x8, vresult <- x9, victims <- x10, slip <- x11, stray <- x12,
  blind <- x13, runs <- x14, troubles <- x15,
  Pids <- {1, 2, 3}, MaxRuns <- 2, MaxTroubles <- 1

\* A create, a base remove and a base import of one image at once, one killed.
Images == INSTANCE Images WITH
  store <- x1, cached <- x2, files <- x3, lock <- x4, run <- x5, crossed <- x6,
  gone <- x7, imgRuns <- x8, imgKills <- x9,
  Procs <- {c1, c2}, MaxImgRuns <- 3, MaxImgKills <- 1

ASSUME LiveConstants ==
  /\ Dns!DnsAssumption /\ Log!LogsAssumption /\ Mon!MonitorAssumption
  /\ Helper!HelperAssumption /\ Vfkit!VfkitAssumption
  /\ Images!ImagesAssumption

-----------------------------------------------------------------------------
(* What a component does not use stays 0.                                  *)

Zero18 == x18 = 0 /\ x19 = 0 /\ x20 = 0
Zero16 == x16 = 0 /\ x17 = 0 /\ Zero18
Zero14 == x14 = 0 /\ x15 = 0 /\ Zero16
Zero13 == x13 = 0 /\ Zero14
Zero12 == x12 = 0 /\ Zero13
Zero10 == x10 = 0 /\ x11 = 0 /\ Zero12

Init ==
  /\ part \in Parts
  /\ \/ part = "life" /\ Life!Init
     \/ part = "dns" /\ Dns!DnsInit /\ Zero10
     \/ part = "log" /\ Log!LogsInit /\ Zero18
     \/ part = "mon" /\ Mon!MonInit /\ Zero14
     \/ part = "helper" /\ Helper!HelperInit /\ Zero12
     \/ part = "vfkit" /\ Vfkit!VfInit /\ Zero16
     \/ part = "image" /\ Images!ImagesInit /\ Zero10

Next ==
  \/ part = "life" /\ Life!Next /\ UNCHANGED part
  \/ part = "dns" /\ Dns!DnsNext /\ UNCHANGED <<part, x10, x11, x12, x13, x14, x15, x16, x17, x18, x19, x20>>
  \/ part = "log" /\ Log!LogsNext /\ UNCHANGED <<part, x18, x19, x20>>
  \/ part = "mon" /\ Mon!MonNext /\ UNCHANGED <<part, x14, x15, x16, x17, x18, x19, x20>>
  \/ part = "helper" /\ Helper!HelperNext /\ UNCHANGED <<part, x12, x13, x14, x15, x16, x17, x18, x19, x20>>
  \/ part = "vfkit" /\ Vfkit!VfNext /\ UNCHANGED <<part, x16, x17, x18, x19, x20>>
  \/ part = "image" /\ Images!ImagesNext /\ UNCHANGED <<part, x10, x11, x12, x13, x14, x15, x16, x17, x18, x19, x20>>

\* The processes and goroutines the scheduler keeps running, by number: the
\* clients; the DNS handlers, whose exchanges time out, and the two listeners'
\* shutdown; the writer and the follower; each monitor's readLoop, Stop and main
\* function; the abox processes and their helpers; the vfkit command, whose waits
\* all time out; the commands on a base image, woken when the lock is free.
Fair(k) ==
  \/ part = "life" /\ UNCHANGED part
       /\ \/ k = 1 /\ Life!Step(c1)
          \/ k = 2 /\ Life!Step(c2)
  \/ part = "dns" /\ UNCHANGED <<part, x10, x11, x12, x13, x14, x15, x16, x17, x18, x19, x20>>
       /\ \/ k = 1 /\ Dns!Handle(q1)
          \/ k = 2 /\ Dns!ShutdownPort("udp")
          \/ k = 3 /\ Dns!ShutdownPort("tcp")
          \/ k = 4 /\ Dns!Exit
  \/ part = "log" /\ UNCHANGED <<part, x18, x19, x20>>
       /\ \/ k = 1 /\ Log!WriteLine
          \/ k = 2 /\ Log!FollowStep
  \/ part = "mon" /\ UNCHANGED <<part, x14, x15, x16, x17, x18, x19, x20>>
       /\ \/ k = 1 /\ Mon!ReadLoop(1)
          \/ k = 2 /\ Mon!CloseLogWriter(1)
          \/ k = 3 /\ Mon!MainReturns(1)
  \/ part = "helper" /\ UNCHANGED <<part, x12, x13, x14, x15, x16, x17, x18, x19, x20>>
       /\ \/ k = 1 /\ Helper!ClientStep(c1)
          \/ k = 2 /\ Helper!HelperStep(<<c1, 1>>)
          \/ k = 3 /\ Helper!HelperStep(<<c1, 2>>)
          \/ k = 4 /\ Helper!HelperStep(Ext)
  \/ part = "vfkit" /\ UNCHANGED <<part, x16, x17, x18, x19, x20>> /\ k = 1 /\ Vfkit!VfSteps
  \/ part = "image" /\ UNCHANGED <<part, x10, x11, x12, x13, x14, x15, x16, x17, x18, x19, x20>>
       /\ \/ k = 1 /\ Images!ImagesStep(c1)
          \/ k = 2 /\ Images!ImagesStep(c2)

Spec == Init /\ [][Next]_mcVars /\ \A k \in 1 .. 4 : WF_mcVars(Fair(k))

-----------------------------------------------------------------------------
(* Properties, each of the component it is stated in.                      *)

\* Every command on an instance ends, whatever fails and whichever process is
\* killed (the start, stop, remove, up and down commands).
CommandsEnd ==
  \A c \in {c1, c2} : (part = "life" /\ Life!AtWork(c)) ~> (part = "life" /\ Life!Ended(c))

\* Every query the filter takes is answered or refused, even when upstream stays
\* silent (ServeDNS).
DnsAnswers == (part = "dns" /\ Dns!Asked(q1)) ~> (part = "dns" /\ Dns!Answered(q1))

\* A filter told to stop closes its listeners and exits (runServe of abox-dns).
DnsStops == (part = "dns" /\ Dns!Closing) ~> (part = "dns" /\ Dns!Closed)

\* A line written while the follower is attached is shown in the end, unless it fell
\* behind a rotation or the log was tampered with (FollowLog).
FollowCatchesUp ==
  \A n \in {2, 4} :
    (part = "log" /\ Log!WrittenWatched(n)) ~> (part = "log" /\ Log!ShownOrExcused(n))

\* A daemon that is not told to stop gets back to a VM that stays up, whenever its
\* connection was lost (ConnectWithRetry).
Reconnects ==
  (part = "mon" /\ Mon!Serving(1)) ~> (part = "mon" /\ Mon!Connected(1))

\* A monitor daemon stopped by a signal exits (runServe of abox-monitor).
SignalExits ==
  (part = "mon" /\ Mon!Signalled(1)) ~> (part = "mon" /\ Mon!Exited(1))

\* "StopMonitorDaemon stops the monitor daemon process for an instance": once the
\* stop succeeded, by RPC or by signal, the process ends.
MonitorExits ==
  (part = "mon" /\ Mon!ToldToStop(1)) ~> (part = "mon" /\ Mon!Exited(1))

\* Obtaining the privilege helper ends, with one or without, unless it was escalated
\* and so cannot be signalled (startPrivilegeHelper).
StartEnds ==
  (part = "helper" /\ Helper!Obtaining(c1)) ~> (part = "helper" /\ Helper!Obtained(c1))

\* Shutting the helper down ends: asked, it stops; killed, it is reaped.
ShutdownReaps ==
  (part = "helper" /\ Helper!Draining(c1)) ~> (part = "helper" /\ Helper!Drained(c1))

\* Every start, stop and removal of a vfkit VM ends: each wait has a deadline.
VfEnds == (part = "vfkit" /\ Vfkit!AtWork) ~> (part = "vfkit" /\ Vfkit!AtRest)

\* create, which waits for the lock of the base image while it holds the config lock,
\* and base remove both end: neither waits for the other for ever (LockBaseImage).
ImageCommandsEnd ==
  \A p \in {c1, c2} :
    (part = "image" /\ ~Images!At(p, "idle")) ~> (part = "image" /\ Images!At(p, "idle"))

\* Whatever is begun ends: commands on an instance, DNS queries and the filter's
\* shutdown, a monitor stopped by a signal, the start and the shutdown of a helper,
\* the commands on a vfkit VM and those on a stored base image.
EverythingEnds ==
  CommandsEnd /\ DnsAnswers /\ DnsStops /\ SignalExits /\ StartEnds /\ ShutdownReaps /\ VfEnds
  /\ ImageCommandsEnd

\* Who watches catches up: the follower with the log, the monitor with a VM whose
\* connection was lost.
WatchersCatchUp == FollowCatchesUp /\ Reconnects
=============================================================================
