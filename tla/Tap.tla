-------------------------------- MODULE Tap --------------------------------
(***************************************************************************)
(* `abox tap` (pkg/cmd/tap): tcpdump on the instance's bridge, with the    *)
(* HTTP filter writing the TLS session keys of intercepted connections to  *)
(* logs/keys.log meanwhile (StartKeyLog and StopKeyLog of                  *)
(* internal/httpfilter), until it is stopped itself.                       *)
(*                                                                         *)
(* keys.log is the set of sessions whose keys it holds; opening it         *)
(* truncates it. The filter's one writer (keyLog.w) and its file           *)
(* (keyLogFile) always change together, under a mutex; a start is three    *)
(* steps around it. Packets, and how tcpdump gets its privileges, are left *)
(* out.                                                                    *)
(***************************************************************************)
EXTENDS Naturals, FiniteSets

CONSTANTS
    Taps,           \* terminals `abox tap` runs in
    MaxTaps,        \* bound on the taps started
    MaxStops,       \* bound on the times the filter is stopped or dies
    MaxSessions     \* bound on the TLS sessions of the guest

\* What the constants must be.
TapAssumption == MaxTaps \in Nat /\ MaxSessions \in Nat /\ MaxStops \in Nat

VARIABLES
    tap,        \* the tap commands: [pc, from, handle, cut]
    keysLog,    \* the sessions keys.log holds
    keyFile,    \* keyLogFile: the open file in use, NoHandle when off
    open,       \* the handles the filter has open
    sessions,   \* TLS sessions so far
    tapsRun,
    shared,     \* history: two taps have run at once since none did
    left,       \* history: a tap has died without its StopKeyLog
    orphaned,   \* history: handles another start's one has taken the place of
    filter,     \* the filter: up, quiesce (its API is stopped), draining, down
    stops

tapVars == <<tap, keysLog, keyFile, open, sessions, tapsRun, shared, left, orphaned, filter, stops>>

NoHandle == 0
NoTap == [pc |-> "idle", from |-> 0, handle |-> NoHandle, cut |-> FALSE]
Tapping == {t \in Taps : tap[t].pc # "idle"}

TapInit ==
    /\ tap = [t \in Taps |-> NoTap]
    /\ keysLog = {} /\ keyFile = NoHandle /\ open = {}
    /\ sessions = 0 /\ tapsRun = 0
    /\ shared = FALSE /\ left = FALSE /\ orphaned = {}
    /\ filter = "up" /\ stops = 0

Unused == CHOOSE n \in 1..(Cardinality(open) + 1) : n \notin open
Onto(t, pc) == tap' = [tap EXCEPT ![t].pc = pc]

\* stopKeyLogLocked: the writer is taken away under the mutex and the file is
\* then closed.
StopKeyLogLocked ==
    /\ keyFile' = NoHandle
    /\ open' = open \ {keyFile}

\* runTap reaches the filter, whose StartKeyLog first closes an earlier log.
StartKeyLog(t) ==
    /\ tap[t].pc = "idle" /\ tapsRun < MaxTaps /\ filter = "up"
    /\ tapsRun' = tapsRun + 1
    /\ Onto(t, "open")
    /\ StopKeyLogLocked
    /\ shared' = (Tapping # {})
    /\ left' = (left /\ Tapping # {})
    /\ UNCHANGED <<keysLog, sessions, orphaned, filter, stops>>

\* ... then opens keys.log, which truncates it ...
OpenKeyLog(t) ==
    /\ tap[t].pc = "open"
    /\ keysLog' = {}
    /\ open' = open \cup {Unused}
    /\ tap' = [tap EXCEPT ![t].pc = "swap", ![t].handle = Unused]
    /\ UNCHANGED <<keyFile, sessions, tapsRun, shared, left, orphaned, filter, stops>>

\* ... or cannot, and the command ends.
OpenKeyLogFails(t) ==
    /\ tap[t].pc = "open"
    /\ tap' = [tap EXCEPT ![t] = NoTap]
    /\ UNCHANGED <<keysLog, keyFile, open, sessions, tapsRun, shared, left, orphaned, filter, stops>>

\* MUTANT of SwapKeyLog: the answer is sent before the writer is in place.
SwapKeyLogLate(t) ==
    /\ tap[t].pc = "swap"
    /\ tap' = [tap EXCEPT ![t].pc = "capture", ![t].from = sessions]
    /\ UNCHANGED <<keysLog, keyFile, open, sessions, tapsRun, shared, left, orphaned, filter, stops>>

\* ... and makes it the writer. tcpdump is started after the answer.
SwapKeyLog(t) ==
    /\ tap[t].pc = "swap"
    /\ keyFile' = tap[t].handle
    /\ orphaned' = orphaned \cup ({keyFile} \ {NoHandle})
    /\ tap' = [tap EXCEPT ![t].pc = "capture", ![t].from = sessions]
    /\ UNCHANGED <<keysLog, open, sessions, tapsRun, shared, left, filter, stops>>

\* A handshake writes its keys to the file in use, or discards them.
WriteSessionKeys ==
    /\ filter # "down" /\ sessions < MaxSessions /\ sessions' = sessions + 1
    /\ keysLog' = IF keyFile # NoHandle THEN keysLog \cup {sessions + 1} ELSE keysLog
    /\ UNCHANGED <<tap, keyFile, open, tapsRun, shared, left, orphaned, filter, stops>>

\* tcpdump ends: by its packet count, on an error, or on the SIGINT or SIGTERM
\* runTcpdump passes on.
TcpdumpEnds(t) ==
    /\ tap[t].pc = "capture"
    /\ Onto(t, "stop")
    /\ UNCHANGED <<keysLog, keyFile, open, sessions, tapsRun, shared, left, orphaned, filter, stops>>

\* The deferred StopKeyLog ends whatever logging there is, if the filter answers.
StopKeyLog(t) ==
    /\ tap[t].pc = "stop"
    /\ IF filter = "up" THEN StopKeyLogLocked ELSE UNCHANGED <<keyFile, open>>
    /\ tap' = [tap EXCEPT ![t] = NoTap]
    /\ UNCHANGED <<keysLog, sessions, tapsRun, shared, left, orphaned, filter, stops>>

\* The command is killed, or interrupted before it handles signals. A start
\* the filter is working on goes on without it.
TapDies(t) ==
    /\ tap[t].pc \in {"capture", "stop"}
    /\ tap' = [tap EXCEPT ![t] = NoTap]
    /\ left' = TRUE
    /\ UNCHANGED <<keysLog, keyFile, open, sessions, tapsRun, shared, orphaned, filter, stops>>

-----------------------------------------------------------------------------
(* The filter is stopped while taps run, and started again.                *)

\* Its captures have no keys from now on.
CutOff == [t \in Taps |-> [tap[t] EXCEPT !.cut = @ \/ tap[t].pc = "capture"]]

\* runServe stops its API (GracefulStop): calls begun are finished, new ones refused.
StopAPI ==
    /\ filter = "up" /\ stops < MaxStops
    /\ filter' = "quiesce" /\ stops' = stops + 1
    /\ UNCHANGED <<tap, keysLog, keyFile, open, sessions, tapsRun, shared, left, orphaned>>

\* Server.Shutdown first stops the key log; connections drain afterwards.
ShutdownKeyLog ==
    /\ filter = "quiesce" /\ \A t \in Taps : tap[t].pc \notin {"open", "swap"}
    /\ StopKeyLogLocked
    /\ filter' = "draining" /\ tap' = CutOff
    /\ UNCHANGED <<keysLog, sessions, tapsRun, shared, left, orphaned, stops>>

\* The process ends, at the end of its shutdown or at any time: a start it was
\* working on fails.
FilterExits ==
    /\ \/ filter = "draining" /\ UNCHANGED stops
       \/ filter \in {"up", "quiesce"} /\ stops < MaxStops /\ stops' = stops + 1
    /\ filter' = "down"
    /\ keyFile' = NoHandle /\ open' = {} /\ orphaned' = {} /\ left' = FALSE
    /\ tap' = [t \in Taps |-> IF tap[t].pc \in {"open", "swap"} THEN NoTap ELSE CutOff[t]]
    /\ UNCHANGED <<keysLog, sessions, tapsRun, shared>>

\* start finds the filter gone and starts another one.
FilterStarts ==
    /\ filter = "down" /\ filter' = "up"
    /\ UNCHANGED <<tap, keysLog, keyFile, open, sessions, tapsRun, shared, left, orphaned, stops>>

TapNext ==
    \/ \E t \in Taps : \/ StartKeyLog(t) \/ OpenKeyLog(t) \/ OpenKeyLogFails(t)
                       \/ SwapKeyLog(t) \/ TcpdumpEnds(t) \/ StopKeyLog(t)
                       \/ TapDies(t)
    \/ WriteSessionKeys
    \/ StopAPI \/ ShutdownKeyLog \/ FilterExits \/ FilterStarts

-----------------------------------------------------------------------------
(* Properties.                                                             *)

\* A tap that has had the instance to itself can decrypt what it captured:
\* keys.log holds the keys of every session begun since tcpdump was started,
\* even when the tap before it died (StartKeyLog answers after the writer is
\* in place). Not what it captures after the filter was stopped: Shutdown ends
\* the key log, a new filter starts none, and tcpdump goes on.
CaptureDecryptable ==
    \A t \in Taps : (tap[t].pc = "capture" /\ ~shared /\ ~tap[t].cut) =>
        (tap[t].from + 1)..sessions \subseteq keysLog

\* When the taps have ended, no keys are being written and the filter holds no
\* key file open, unless a tap died before its StopKeyLog; two starts at once
\* may leave the file of the first open (stopKeyLogLocked). Nor are keys written
\* of the connections that are still open while the filter shuts down.
KeyLogOff ==
    /\ (Tapping = {} /\ ~left /\ filter # "quiesce") =>
         keyFile = NoHandle /\ open \subseteq orphaned
    /\ filter = "draining" => keyFile = NoHandle
=============================================================================
