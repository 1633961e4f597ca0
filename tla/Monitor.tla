------------------------------- MODULE Monitor -------------------------------
(***************************************************************************)
(* The monitor daemon (internal/monitor, pkg/cmd/monitor/serve): it reads   *)
(* the guest's Tetragon events from the virtio-serial socket of the VM and  *)
(* appends them to the instance's event log, across restarts of the VM and  *)
(* of the daemon (StopMonitorDaemon in internal/daemon/lifecycle.go).       *)
(*                                                                          *)
(* Daemon g is the one started by the g-th start of the instance.  Events   *)
(* are numbered as the guest emits them.                                    *)
(***************************************************************************)
EXTENDS Naturals, Sequences, SequencesExt

CONSTANTS
    MaxStarts,   \* bound: starts of the instance
    MaxEvents,   \* bound: lines the guest emits
    Buffer       \* eventChannelBuffer

\* What the constants must be.
MonitorAssumption ==
    MaxStarts \in Nat /\ MaxEvents \in Nat /\ Buffer \in Nat \ {0}

VARIABLES
    vm,       \* whether the VM runs, and with it the socket
    emitted,  \* lines emitted so far
    clients,  \* the connections to the socket; only the first one is served
    eof,      \* daemons whose scanner has ended
    evlog,    \* the event log: <<daemon, event>> entries
    got,      \* history: the events each daemon's scanner accepted
    main,     \* none, serving, exited
    told,     \* how the daemon was told to stop: no, rpc, signal
    stopped,  \* Server.Stop: no, closing, done (the log writer is nil)
    loop,     \* readLoop: top, dial, read, log, pause, gone
    chan,     \* the events channel of the current connection
    hand,     \* the event logEvent is writing, 0 for none
    refused   \* history: the events logEvent gave up

monVars == <<vm, emitted, clients, eof, evlog, got, main, told, stopped, loop, chan,
             hand, refused>>

MonDaemons == 1..MaxStarts

MonTypeOK ==
    /\ vm \in BOOLEAN /\ emitted \in 0..MaxEvents
    /\ \A k \in 1..Len(clients) : clients[k] \in MonDaemons
    /\ eof \subseteq MonDaemons
    /\ \A k \in 1..Len(evlog) : evlog[k] \in MonDaemons \X (1..emitted)
    /\ main \in [MonDaemons -> {"none", "serving", "exited"}]
    /\ told \in [MonDaemons -> {"no", "rpc", "signal"}]
    /\ stopped \in [MonDaemons -> {"no", "closing", "done"}]
    /\ loop \in [MonDaemons -> {"top", "dial", "read", "log", "pause", "gone"}]
    /\ hand \in [MonDaemons -> 0..emitted]
    /\ refused \subseteq 1..emitted
    /\ \A g \in MonDaemons : Len(chan[g]) <= Buffer

MonInit ==
    /\ vm = FALSE /\ emitted = 0 /\ clients = <<>> /\ eof = {} /\ evlog = <<>> /\ refused = {}
    /\ got = [g \in MonDaemons |-> <<>>]
    /\ main = [g \in MonDaemons |-> "none"]
    /\ told = [g \in MonDaemons |-> "no"]
    /\ stopped = [g \in MonDaemons |-> "no"]
    /\ loop = [g \in MonDaemons |-> "gone"]
    /\ chan = [g \in MonDaemons |-> <<>>]
    /\ hand = [g \in MonDaemons |-> 0]

---------------------------------------------------------------------------
\* The instance is started: a VM and, once the last one was stopped, a daemon
\* (runServe, Server.Start).
StartMonitor(g) ==
    /\ main[g] = "none"
    /\ g > 1 => told[g - 1] # "no"
    /\ main' = [main EXCEPT ![g] = "serving"]
    /\ loop' = [loop EXCEPT ![g] = "top"]
    /\ UNCHANGED <<vm, emitted, clients, eof, evlog, got, told, stopped, chan, hand, refused>>

\* The VM starts; it stops with every connection to its socket ended.
BootVM ==
    /\ ~vm /\ vm' = TRUE
    /\ UNCHANGED <<emitted, clients, eof, evlog, got, main, told, stopped, loop, chan, hand, refused>>

HaltVM ==
    /\ vm /\ vm' = FALSE
    /\ eof' = eof \cup Range(clients)
    /\ UNCHANGED <<emitted, clients, evlog, got, main, told, stopped, loop, chan, hand, refused>>

\* The top of readLoop.
LoopTop(g) ==
    /\ loop[g] = "top"
    /\ loop' = [loop EXCEPT ![g] = IF stopped[g] # "no" THEN "gone" ELSE "dial"]
    /\ UNCHANGED <<vm, emitted, clients, eof, evlog, got, main, told, stopped, chan, hand, refused>>

\* ConnectWithRetry: until the socket is there; it does not look at shutdown.
ConnectWithRetry(g) ==
    /\ loop[g] = "dial" /\ vm
    /\ clients' = Append(clients, g)
    /\ eof' = eof \ {g}
    /\ loop' = [loop EXCEPT ![g] = "read"]
    /\ UNCHANGED <<vm, emitted, evlog, got, main, told, stopped, chan, hand, refused>>

\* scanEvents: a line of the guest reaches the served connection and is put on
\* the channel, which blocks when full; an empty, unparsable or exit line is
\* skipped, one past maxEventSize ends the scanner.
ScanEvents(kind) ==
    LET g == clients[1] IN
    /\ vm /\ clients # <<>> /\ emitted < MaxEvents
    /\ g \notin eof /\ Len(chan[g]) < Buffer
    /\ emitted' = emitted + 1
    /\ \/ /\ kind = "event"
          /\ chan' = [chan EXCEPT ![g] = Append(@, emitted')]
          /\ got' = [got EXCEPT ![g] = Append(@, emitted')]
          /\ UNCHANGED eof
       \/ kind = "skipped" /\ UNCHANGED <<chan, got, eof>>
       \/ kind = "oversized" /\ eof' = eof \cup {g} /\ UNCHANGED <<chan, got>>
    /\ UNCHANGED <<vm, clients, evlog, main, told, stopped, loop, hand, refused>>

\* processEvents takes an event, even with shutdown already closed: select
\* chooses among the ready cases.
TakeEvent(g) ==
    /\ loop[g] = "read" /\ chan[g] # <<>>
    /\ hand' = [hand EXCEPT ![g] = Head(chan[g])]
    /\ chan' = [chan EXCEPT ![g] = Tail(@)]
    /\ loop' = [loop EXCEPT ![g] = "log"]
    /\ UNCHANGED <<vm, emitted, clients, eof, evlog, got, main, told, stopped, refused>>

\* The process ends: goroutines, connections and all.
Gone(g) ==
    /\ main' = [main EXCEPT ![g] = "exited"]
    /\ loop' = [loop EXCEPT ![g] = "gone"]
    /\ chan' = [chan EXCEPT ![g] = <<>>]
    /\ hand' = [hand EXCEPT ![g] = 0]
    /\ clients' = SelectSeq(clients, LAMBDA c : c # g)

\* logEvent: the event is appended, or given up with a debug line when it does
\* not marshal, is too large or its Write fails.  It reads logWriter without
\* logMu: after closeLogWriter it is nil, and the call through it is a panic.
LogEvent(g) ==
    /\ loop[g] = "log"
    /\ \/ /\ stopped[g] # "done"
          /\ \/ evlog' = Append(evlog, <<g, hand[g]>>) /\ UNCHANGED refused
             \/ refused' = refused \cup {hand[g]} /\ UNCHANGED evlog
          /\ hand' = [hand EXCEPT ![g] = 0]
          /\ loop' = [loop EXCEPT ![g] = "read"]
          /\ UNCHANGED <<main, chan, clients>>
       \/ stopped[g] = "done" /\ Gone(g) /\ UNCHANGED <<evlog, refused>>
    /\ UNCHANGED <<vm, emitted, eof, got, told, stopped>>

\* processEvents returns, on shutdown or when the channel is closed and drained,
\* and readLoop closes the connection.
ReadEnds(g) ==
    /\ loop[g] = "read"
    /\ stopped[g] # "no" \/ (g \in eof /\ chan[g] = <<>>)
    /\ loop' = [loop EXCEPT ![g] = "pause"]
    /\ chan' = [chan EXCEPT ![g] = <<>>]
    /\ clients' = SelectSeq(clients, LAMBDA c : c # g)
    /\ UNCHANGED <<vm, emitted, eof, evlog, got, main, told, stopped, hand, refused>>

\* The pause before reconnecting.
Pause(g) ==
    /\ loop[g] = "pause"
    /\ loop' = [loop EXCEPT ![g] = IF stopped[g] # "no" THEN "gone" ELSE "top"]
    /\ UNCHANGED <<vm, emitted, clients, eof, evlog, got, main, told, stopped, chan, hand, refused>>

\* StopMonitorDaemon: the Shutdown RPC, whose handler runs Stop in the
\* background, or SIGTERM when the RPC fails.
StopMonitorDaemon(g, how) ==
    /\ main[g] = "serving" /\ told[g] = "no"
    /\ told' = [told EXCEPT ![g] = how]
    /\ stopped' = [stopped EXCEPT ![g] = "closing"]
    /\ UNCHANGED <<vm, emitted, clients, eof, evlog, got, main, loop, chan, hand, refused>>

\* Stop, once the gRPC server has stopped: closeLogWriter; the socket is removed.
CloseLogWriter(g) ==
    /\ main[g] = "serving" /\ stopped[g] = "closing"
    /\ stopped' = [stopped EXCEPT ![g] = "done"]
    /\ UNCHANGED <<vm, emitted, clients, eof, evlog, got, main, told, loop, chan, hand, refused>>

\* runServe returns after a signal and the Stop that follows it.
MainReturns(g) ==
    /\ main[g] = "serving" /\ stopped[g] = "done" /\ told[g] = "signal"
    /\ Gone(g)
    /\ UNCHANGED <<vm, emitted, eof, evlog, got, told, stopped, refused>>

MonNext ==
    \/ BootVM \/ HaltVM
    \/ \E kind \in {"event", "skipped", "oversized"} : ScanEvents(kind)
    \/ \E g \in MonDaemons :
          \/ StartMonitor(g) \/ LoopTop(g) \/ ConnectWithRetry(g) \/ TakeEvent(g)
          \/ LogEvent(g) \/ ReadEnds(g) \/ Pause(g)
          \/ StopMonitorDaemon(g, "rpc") \/ StopMonitorDaemon(g, "signal")
          \/ CloseLogWriter(g) \/ MainReturns(g)

\* readLoop is one goroutine.
ReadLoop(g) ==
    LoopTop(g) \/ ConnectWithRetry(g) \/ TakeEvent(g) \/ ReadEnds(g) \/ LogEvent(g) \/ Pause(g)

---------------------------------------------------------------------------
By(g) == LET mine == SelectSeq(evlog, LAMBDA e : e[1] = g)
         IN  [k \in 1..Len(mine) |-> mine[k][2]]

\* Until it is told to stop, a daemon has logged, in their order and once, all
\* the events it accepted but those it still holds and those logEvent gave up,
\* through every loss of the connection (readLoop, processEvents).
NothingDropped ==
    \A g \in MonDaemons : stopped[g] = "no" =>
        SelectSeq(got[g], LAMBDA e : e \notin refused)
            = By(g) \o (IF hand[g] = 0 THEN <<>> ELSE <<hand[g]>>) \o chan[g]

\* Even while a stopped daemon lingers beside its successor, no event is logged
\* twice, and each daemon logs in the order of the guest.
LoggedOnceInOrder ==
    /\ \A i, j \in 1..Len(evlog) : i # j => evlog[i][2] # evlog[j][2]
    /\ \A g \in MonDaemons : LET s == By(g) IN \A i, j \in 1..Len(s) : i < j => s[i] < s[j]

\* A daemon that is not told to stop gets back to a VM that stays up, whenever
\* its connection was lost (ConnectWithRetry).
Serving(g) == main[g] = "serving"
Connected(g) == loop[g] \in {"read", "log"} \/ ~vm \/ stopped[g] # "no"
Reconnects == \A g \in MonDaemons : Serving(g) ~> Connected(g)

\* A daemon stopped by a signal exits (runServe).
Signalled(g) == told[g] = "signal"
Exited(g) == main[g] = "exited"
SignalExits == \A g \in MonDaemons : Signalled(g) ~> Exited(g)

\* "StopMonitorDaemon stops the monitor daemon process for an instance": once the
\* stop succeeded, by RPC or by signal, the process ends.
ToldToStop(g) == told[g] # "no"
MonitorExits == \A g \in MonDaemons : ToldToStop(g) ~> Exited(g)

=============================================================================
