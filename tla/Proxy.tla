------------------------------- MODULE Proxy -------------------------------
(***************************************************************************)
(* The HTTP filter's client connections (internal/httpfilter, served by    *)
(* `abox http serve`): the accept loop under its connection limit, the     *)
(* life of a CONNECT tunnel and of an intercepted (MITM) session from the  *)
(* filter's verdict to the last Close, the forward-proxy requests and the  *)
(* streams they may be upgraded to, and the draining Shutdown that runs    *)
(* against all of them.                                                    *)
(*                                                                         *)
(* A connection is a slot c \in Conns that is reused once it is closed.    *)
(* Each goroutine of the code is a control point here: the accept loop     *)
(* (acceptor), the handler of each connection (conn[c].pc), its watcher    *)
(* (Watch), the two copies of a tunnel (conn[c].up and .down), Shutdown    *)
(* (sd), the outer server's Shutdown (outer) and the drain waiter (drain). *)
(* Payloads, certificates, statistics and log records are left out; what a *)
(* request is about is its host, and one to a port outside the allowed     *)
(* ports is refused like one to a host that is not. Dials are direct: an   *)
(* upstream proxy resolves the target itself, out of dialControl's sight.  *)
(***************************************************************************)
EXTENDS Integers, FiniteSets

CONSTANTS
    Conns,      \* client connections
    Hosts,      \* hosts a request may name
    Allowed,    \* the hosts on the allowlist
    Literal,    \* hosts that are IP literals in a blocked range
    Rebound,    \* names that may resolve to an address in a blocked range
    Exempt,     \* hosts of http.mitm_exceptions
    MaxConns,   \* http.max_connections
    MayMITM     \* the values http.mitm may have

ASSUME ProxyAssumption ==
    /\ Allowed \subseteq Hosts /\ Literal \subseteq Hosts
    /\ Rebound \subseteq Hosts \ Literal /\ Exempt \subseteq Hosts
    /\ MaxConns \in Nat \ {0} /\ IsFiniteSet(Conns)
    /\ MayMITM \subseteq BOOLEAN

VARIABLES
    mitm,       \* mitmReady: the CA is loaded (before Start, never undone)
    active,     \* ModeController: TRUE enforces, FALSE (passive) records
    conn,       \* the connections
    sem,        \* slots of limitedListener.sem in use
    acceptor,   \* the accept loop of http.Server.Serve
    tracked,    \* the WaitGroup activeConns
    cancelled,  \* hijackCtx is done
    sd,         \* Shutdown: "none" before the signal
    outer,      \* the goroutine running http.Server.Shutdown
    drain,      \* the goroutine running activeConns.Wait
    expired,    \* Shutdown's context is past its deadline
    wasPassive, \* history: the filter has been passive at some time
    vetted      \* history: every delivery to an upstream was one to make

vars == <<mitm, active, conn, sem, acceptor, tracked, cancelled, sd, outer,
          drain, expired, wasPassive, vetted>>

NoHost == "none"
Off == [pc |-> "off", host |-> NoHost,
        mitm |-> FALSE, up |-> FALSE, down |-> FALSE, deadline |-> FALSE,
        late |-> FALSE]

\* Control points of the handler while the outer server owns the connection,
\* after it has been hijacked and tracked, and ("relay") after the reverse
\* proxy has hijacked it for the upgraded stream of a forward-proxy request,
\* which nothing tracks.
Outer == {"read", "dial", "hijack", "proxied"}
Setup == {"ack", "cert", "shake"}
Session == {"copy", "serve", "upgraded"}
Tracked == Setup \cup Session

In(pcs) == {c \in Conns : conn[c].pc \in pcs}
Open == In(Outer \cup {"track", "relay"} \cup Tracked)

TypeOK ==
    /\ mitm \in BOOLEAN /\ active \in BOOLEAN /\ wasPassive \in BOOLEAN
    /\ conn \in [Conns ->
         [pc : {"off", "queue", "track", "relay", "closing"} \cup Outer \cup Tracked,
          host : Hosts \cup {NoHost},
          mitm : BOOLEAN, up : BOOLEAN, down : BOOLEAN,
          deadline : BOOLEAN, late : BOOLEAN]]
    /\ sem \in 0..MaxConns
    /\ acceptor \in {"loop", "accept", "done"}
    /\ tracked \in 0..Cardinality(Conns)
    /\ cancelled \in BOOLEAN /\ expired \in BOOLEAN
    /\ sd \in {"none", "cancel", "cleanup", "drain", "wait", "join", "ok", "late"}
    /\ outer \in {"off", "ready", "closing", "ok", "late"}
    /\ drain \in {"off", "ready", "waiting", "done"}
    /\ vetted \in BOOLEAN

Init ==
    /\ mitm \in MayMITM
    /\ active \in BOOLEAN
    /\ wasPassive = ~active
    /\ conn = [c \in Conns |-> Off]
    /\ sem = 0 /\ acceptor = "loop" /\ tracked = 0
    /\ cancelled = FALSE /\ expired = FALSE
    /\ sd = "none" /\ outer = "off" /\ drain = "off"
    /\ vetted = TRUE

shutdownVars == <<cancelled, sd, outer, drain, expired>>
policyVars == <<mitm, active, wasPassive>>
connVars == <<conn, sem, acceptor, tracked>>

Listening == outer \in {"off", "ready"}
Goto(c, pc) == conn' = [conn EXCEPT ![c].pc = pc]

-----------------------------------------------------------------------------
(* The accept loop and its limit.                                          *)

\* A client connects: the kernel queues it while the listener is open.
ClientConnects(c) ==
    /\ conn[c].pc = "off" /\ Listening
    /\ Goto(c, "queue")
    /\ UNCHANGED <<policyVars, sem, acceptor, tracked, shutdownVars, vetted>>

\* limitedListener.Accept takes a slot first, and blocks while none is free.
TakeSlot ==
    /\ acceptor = "loop" /\ sem < MaxConns
    /\ sem' = sem + 1 /\ acceptor' = "accept"
    /\ UNCHANGED <<policyVars, conn, tracked, shutdownVars, vetted>>

\* ... then accepts, handing the slot to the connection.
Accept(c) ==
    /\ acceptor = "accept" /\ Listening /\ conn[c].pc = "queue"
    /\ conn' = [conn EXCEPT ![c] = [Off EXCEPT !.pc = "read"]]
    /\ acceptor' = "loop"
    /\ UNCHANGED <<policyVars, sem, tracked, shutdownVars, vetted>>

\* Accept on the closed listener fails: the slot is given back and Serve ends.
AcceptFails ==
    /\ acceptor = "accept" /\ ~Listening
    /\ sem' = sem - 1 /\ acceptor' = "done"
    /\ UNCHANGED <<policyVars, conn, tracked, shutdownVars, vetted>>

\* Close of a connection the outer server owns: limitedConn.Close releases
\* its slot.
CloseOuter(c) ==
    /\ conn' = [conn EXCEPT ![c] = Off]
    /\ sem' = sem - 1

\* MUTANT of CloseTracked: the raw connection is closed under the wrapper,
\* and the slot is not released.
CloseTrackedRaw(c) ==
    /\ conn' = [conn EXCEPT ![c] = [Off EXCEPT !.pc = "closing"]]
    /\ UNCHANGED sem

\* Close of a tracked connection: trackedConn.Close closes the socket, which
\* releases the slot; the Done of onClose is a step of its own, and the one
\* that brings activeConns to zero releases the waiter.
CloseTracked(c) ==
    /\ conn' = [conn EXCEPT ![c] = [Off EXCEPT !.pc = "closing"]]
    /\ sem' = sem - 1
CloseDone(c) ==
    /\ conn[c].pc = "closing"
    /\ conn' = [conn EXCEPT ![c] = Off]
    /\ tracked' = tracked - 1
    /\ drain' = IF tracked = 1 /\ drain = "waiting" THEN "done" ELSE drain
    /\ UNCHANGED <<policyVars, sem, acceptor, cancelled, sd, outer, expired, vetted>>

\* The client leaves, or a read or idle timeout ends the connection.
Leave(c) ==
    /\ conn[c].pc = "read"
    /\ CloseOuter(c)
    /\ UNCHANGED <<policyVars, acceptor, tracked, shutdownVars, vetted>>

\* The handler has answered: the outer server keeps the connection unless it
\* is shutting down.
Answered(c) ==
    IF Listening
    THEN /\ conn' = [conn EXCEPT ![c] = [Off EXCEPT !.pc = "read"]]
         /\ UNCHANGED sem
    ELSE CloseOuter(c)

-----------------------------------------------------------------------------
(* The verdict on a host.                                                  *)

\* A literal in a blocked range is refused in either mode; otherwise the host
\* passes if listed, or if the filter is passive. The verdict is one step: its
\* reads of the allowlist and of the mode race only with SetMode.
checkHost(h) == h \notin Literal /\ (h \in Allowed \/ ~active)

\* A CONNECT for host h that decideConnect lets through: to be intercepted, or
\* to be tunnelled when there is no CA or the host is exempt. The outer
\* server's write deadline is armed for the request. (A refused request is
\* answered with 403 and leaves the connection as it was.)
decideConnect(c, h) ==
    /\ conn[c].pc = "read"
    /\ checkHost(h)
    /\ LET intercept == mitm /\ h \notin Exempt
       IN  conn' = [conn EXCEPT ![c] = [Off EXCEPT
                      !.pc = IF intercept THEN "hijack" ELSE "dial",
                      !.host = h, !.mitm = intercept, !.deadline = TRUE]]
    /\ UNCHANGED <<policyVars, sem, acceptor, tracked, shutdownVars, vetted>>

\* A forward-proxy request that decideRequest lets through, to the host it
\* names, under the outer server's write deadline.
decideForward(c, h) ==
    /\ conn[c].pc = "read"
    /\ checkHost(h)
    /\ conn' = [conn EXCEPT ![c].pc = "proxied", ![c].host = h,
                             ![c].deadline = TRUE]
    /\ UNCHANGED <<policyVars, sem, acceptor, tracked, shutdownVars, vetted>>

\* Where a name leads: whether the address it resolves to is in a blocked
\* range.
Resolves(h) == CASE h \in Literal -> {TRUE}
                 [] h \in Rebound -> BOOLEAN
                 [] OTHER         -> {FALSE}

\* dialControl: a direct dial is refused on the resolved address, whatever
\* the name was.
dialControl(private) == ~private

\* A request for host h reaches the upstream target.
Reaches(target, h) ==
    \E private \in Resolves(target) :
        /\ dialControl(private)
        /\ vetted' = (/\ vetted
                      /\ ~private
                      /\ (wasPassive \/ {target, h} \subseteq Allowed))

\* The reverse proxy dials and answers, or fails with 502, and the handler
\* returns; or the upstream answers 101 and the reverse proxy hijacks the
\* client's connection for the upgraded stream. That hijack goes through
\* neither intercept nor tunnel, so the connection is not tracked and has no
\* watcher; net/http clears its deadlines.
ProxyForward(c) ==
    /\ conn[c].pc = "proxied"
    /\ \/ /\ Reaches(conn[c].host, conn[c].host) \/ UNCHANGED vetted
          /\ Answered(c)
       \/ /\ Reaches(conn[c].host, conn[c].host)
          /\ conn' = [conn EXCEPT ![c].pc = "relay", ![c].deadline = FALSE]
          /\ UNCHANGED sem
    /\ UNCHANGED <<policyVars, acceptor, tracked, shutdownVars>>

\* One of its peers ends the upgraded stream: the reverse proxy closes both
\* connections. hijackCtx is not a parent of its request's context (the outer
\* server has no BaseContext), so a Shutdown does not end it.
RelayEnds(c) ==
    /\ conn[c].pc = "relay"
    /\ CloseOuter(c)
    /\ UNCHANGED <<policyVars, acceptor, tracked, shutdownVars, vetted>>

-----------------------------------------------------------------------------
(* From the verdict to a tracked session.                                  *)

\* tunnel: the upstream is dialled before the connection is hijacked, under
\* hijackCtx; it may complete as that is cancelled.
DialUpstream(c) ==
    /\ conn[c].pc = "dial"
    /\ \/ /\ Reaches(conn[c].host, conn[c].host)
          /\ Goto(c, "hijack") /\ UNCHANGED sem
       \/ Answered(c) /\ UNCHANGED vetted
    /\ UNCHANGED <<policyVars, acceptor, tracked, shutdownVars>>

\* Hijack: the outer server forgets the connection, and the handler clears
\* the deadline that server had set.
Hijack(c) ==
    /\ conn[c].pc = "hijack"
    /\ conn' = [conn EXCEPT ![c].pc = "track", ![c].deadline = FALSE]
    /\ UNCHANGED <<policyVars, sem, acceptor, tracked, shutdownVars, vetted>>

\* trackConn: activeConns.Add(1); the watcher of the connection starts. The
\* history field late says that Shutdown was already waiting.
trackConn(c) ==
    /\ conn[c].pc = "track"
    /\ tracked' = tracked + 1
    /\ conn' = [conn EXCEPT ![c].pc = "ack", ![c].late = drain # "off"]
    /\ UNCHANGED <<policyVars, sem, acceptor, shutdownVars, vetted>>

\* The 200 is written; a failed write closes the connection.
Ack(c) ==
    /\ conn[c].pc = "ack"
    /\ \/ /\ conn' = [conn EXCEPT ![c].pc = IF conn[c].mitm THEN "cert" ELSE "copy",
                                  ![c].up = ~conn[c].mitm,
                                  ![c].down = ~conn[c].mitm]
          /\ UNCHANGED sem
       \/ CloseTracked(c)
    /\ UNCHANGED <<policyVars, acceptor, tracked, shutdownVars, vetted>>

\* generateCertForHost succeeds and the handshake is given a deadline, or the
\* connection is closed.
Certify(c) ==
    /\ conn[c].pc = "cert"
    /\ \/ /\ conn' = [conn EXCEPT ![c].pc = "shake", ![c].deadline = TRUE]
          /\ UNCHANGED sem
       \/ CloseTracked(c)
    /\ UNCHANGED <<policyVars, acceptor, tracked, shutdownVars, vetted>>

\* The handshake completes and its deadline is cleared, or it fails: by the
\* client, the deadline or hijackCtx.
Handshake(c) ==
    /\ conn[c].pc = "shake"
    /\ \/ /\ conn' = [conn EXCEPT ![c].pc = "serve", ![c].deadline = FALSE]
          /\ UNCHANGED sem
       \/ CloseTracked(c)
    /\ UNCHANGED <<policyVars, acceptor, tracked, shutdownVars, vetted>>

-----------------------------------------------------------------------------
(* Sessions.                                                               *)

\* MUTANT of decideInner: only the CONNECT target is checked, at CONNECT.
InnerUnchecked(c, h) ==
    /\ conn[c].pc = "serve"
    /\ Reaches(conn[c].host, h)
    /\ \E pc \in {"serve", "upgraded"} : Goto(c, pc)
    /\ UNCHANGED <<policyVars, sem, acceptor, tracked, shutdownVars>>

\* A request inside an intercepted session, decided by decideRequest: its
\* Host h may differ from the CONNECT target. A refused request is answered
\* in the session. An allowed one is sent to the CONNECT target, whatever its
\* Host, and may fail; its answer may upgrade the session (a WebSocket), after
\* which intercept has returned and only the connection is left.
decideInner(c, h) ==
    /\ conn[c].pc = "serve"
    /\ checkHost(h)
    /\ Reaches(conn[c].host, h)
    /\ \E pc \in {"serve", "upgraded"} : Goto(c, pc)
    /\ UNCHANGED <<policyVars, sem, acceptor, tracked, shutdownVars>>

\* One of the peers of a session closes it (or the inner server's idle
\* timeout does).
SessionEnds(c) ==
    /\ conn[c].pc \in {"serve", "upgraded"}
    /\ CloseTracked(c)
    /\ UNCHANGED <<policyVars, acceptor, tracked, shutdownVars, vetted>>

\* copyHalf: one direction of a tunnel reaches the end of its source and
\* half-closes its destination.
CopyEnds(c, dir) ==
    /\ conn[c].pc = "copy"
    /\ \/ dir = "up" /\ conn[c].up /\ conn' = [conn EXCEPT ![c].up = FALSE]
       \/ dir = "down" /\ conn[c].down /\ conn' = [conn EXCEPT ![c].down = FALSE]
    /\ UNCHANGED <<policyVars, sem, acceptor, tracked, shutdownVars, vetted>>

\* tunnel returns when both directions have ended; its deferred Close runs.
TunnelReturns(c) ==
    /\ conn[c].pc = "copy" /\ ~conn[c].up /\ ~conn[c].down
    /\ CloseTracked(c)
    /\ UNCHANGED <<policyVars, acceptor, tracked, shutdownVars, vetted>>

\* MUTANT of Watch: tunnels start no watcher.
WatchIntercepted(c) ==
    /\ conn[c].pc \in Tracked /\ conn[c].mitm /\ cancelled
    /\ CloseTracked(c)
    /\ UNCHANGED <<policyVars, acceptor, tracked, shutdownVars, vetted>>

\* The watcher closes a tracked connection once hijackCtx is done.
Watch(c) ==
    /\ conn[c].pc \in Tracked /\ cancelled
    /\ CloseTracked(c)
    /\ UNCHANGED <<policyVars, acceptor, tracked, shutdownVars, vetted>>

\* A deadline left armed on the socket ends whatever the connection does.
DeadlineFires(c) ==
    /\ conn[c].pc \in Tracked /\ conn[c].deadline
    /\ CloseTracked(c)
    /\ UNCHANGED <<policyVars, acceptor, tracked, shutdownVars, vetted>>

-----------------------------------------------------------------------------
(* The mode, switched by the SetMode RPC while the API server runs.        *)

SetMode ==
    /\ sd = "none"
    /\ active' = ~active
    /\ wasPassive' = (wasPassive \/ active)
    /\ UNCHANGED <<mitm, conn, sem, acceptor, tracked, shutdownVars, vetted>>

-----------------------------------------------------------------------------
(* Shutdown.                                                               *)

\* The signal: Shutdown starts http.Server.Shutdown on a goroutine.
ShutdownBegins ==
    /\ sd = "none"
    /\ sd' = "cancel" /\ outer' = "ready"
    /\ UNCHANGED <<policyVars, connVars, cancelled, drain, expired, vetted>>

\* hijackCancel.
HijackCancel ==
    /\ sd = "cancel"
    /\ cancelled' = TRUE
    /\ sd' = IF mitm THEN "cleanup" ELSE "drain"
    /\ UNCHANGED <<policyVars, connVars, outer, drain, expired, vetted>>

\* The certificate cleanup routine is cancelled and joined.
CleanupJoined ==
    /\ sd = "cleanup" /\ sd' = "drain"
    /\ UNCHANGED <<policyVars, connVars, cancelled, outer, drain, expired, vetted>>

\* The waiter is started on activeConns; Wait returns at once when nothing is
\* tracked.
DrainBegins ==
    /\ sd = "drain" /\ sd' = "wait" /\ drain' = "ready"
    /\ UNCHANGED <<policyVars, connVars, cancelled, outer, expired, vetted>>
DrainWaits ==
    /\ drain = "ready"
    /\ drain' = IF tracked = 0 THEN "done" ELSE "waiting"
    /\ UNCHANGED <<policyVars, connVars, cancelled, sd, outer, expired, vetted>>
\* MUTANT of DrainJoined: the waiter is started and not awaited.
DrainNotJoined ==
    /\ sd = "wait" /\ sd' = "join"
    /\ UNCHANGED <<policyVars, connVars, cancelled, outer, drain, expired, vetted>>

DrainJoined ==
    /\ sd = "wait" /\ (drain = "done" \/ expired)
    /\ sd' = "join"
    /\ UNCHANGED <<policyVars, connVars, cancelled, outer, drain, expired, vetted>>

\* The outer Shutdown's result is Shutdown's; so is an expired context.
ShutdownReturns ==
    /\ sd = "join"
    /\ \/ outer \in {"ok", "late"} /\ sd' = outer
       \/ expired /\ sd' = "late"
    /\ UNCHANGED <<policyVars, connVars, cancelled, outer, drain, expired, vetted>>

ContextExpires ==
    /\ sd \notin {"none", "ok", "late"} /\ ~expired
    /\ expired' = TRUE
    /\ UNCHANGED <<policyVars, connVars, cancelled, sd, outer, drain, vetted>>

\* http.Server.Shutdown (Go standard library): closes the listener, which
\* resets what the kernel still queues, then closes idle connections until
\* the server owns none, or the context expires.
ListenerCloses ==
    /\ outer = "ready" /\ outer' = "closing"
    /\ conn' = [c \in Conns |-> IF conn[c].pc = "queue" THEN Off ELSE conn[c]]
    /\ UNCHANGED <<policyVars, sem, acceptor, tracked, cancelled, sd, drain, expired, vetted>>
CloseIdle(c) ==
    /\ outer = "closing" /\ conn[c].pc = "read"
    /\ CloseOuter(c)
    /\ UNCHANGED <<policyVars, acceptor, tracked, shutdownVars, vetted>>
OuterDone ==
    /\ outer = "closing"
    /\ \/ In(Outer) = {} /\ outer' = "ok"
       \/ expired /\ outer' = "late"
    /\ UNCHANGED <<policyVars, connVars, cancelled, sd, drain, expired, vetted>>

-----------------------------------------------------------------------------
\* The steps of a connection's handler, which only wait for what has a
\* deadline.
Handler(c) ==
    \/ DialUpstream(c) \/ Hijack(c) \/ trackConn(c) \/ Ack(c) \/ Certify(c) \/ Handshake(c)
    \/ TunnelReturns(c) \/ CloseDone(c)

\* What clients, upstreams and idle timeouts do to it.
Environment(c) ==
    \/ ClientConnects(c) \/ Leave(c) \/ SessionEnds(c) \/ DeadlineFires(c)
    \/ ProxyForward(c) \/ RelayEnds(c)
    \/ \E h \in Hosts : decideConnect(c, h) \/ decideForward(c, h)
                        \/ decideInner(c, h)
    \/ \E dir \in {"up", "down"} : CopyEnds(c, dir)

AcceptLoop == TakeSlot \/ AcceptFails \/ \E c \in Conns : Accept(c)

ShuttingDown ==
    \/ HijackCancel \/ CleanupJoined \/ DrainBegins \/ DrainWaits
    \/ DrainJoined \/ ShutdownReturns

OuterShutdown ==
    \/ ListenerCloses \/ OuterDone
    \/ \E c \in Conns : CloseIdle(c)

Next ==
    \/ \E c \in Conns : Handler(c) \/ Watch(c) \/ Environment(c)
    \/ AcceptLoop \/ SetMode \/ ShutdownBegins \/ ShuttingDown
    \/ OuterShutdown \/ ContextExpires

Spec == Init /\ [][Next]_vars

(***************************************************************************)
(* Fairness: the Go scheduler runs every ready goroutine; dials, writes    *)
(* and handshakes have deadlines; Shutdown's context has one too. Clients, *)
(* upstreams, the operator and the signal are under no obligation, so a    *)
(* session or a proxied request may last for ever.                         *)
(***************************************************************************)
Fairness ==
    /\ \A c \in Conns : WF_vars(Handler(c)) /\ WF_vars(Watch(c))
    /\ WF_vars(AcceptLoop) /\ WF_vars(OuterShutdown) /\ WF_vars(ShuttingDown)
    /\ WF_vars(ContextExpires)

FairSpec == Spec /\ Fairness

-----------------------------------------------------------------------------
(* Properties.                                                             *)

\* The limit counts each connection once, hijacked or not, from the Accept
\* that hands it a slot to its first Close: limitedConn releases exactly what
\* limitedListener.Accept took, on every path a connection may end by.
SlotsExact ==
    sem = Cardinality(Open) + IF acceptor = "accept" THEN 1 ELSE 0

\* What reaches an upstream was let through: never an address in a blocked
\* range, and, in a filter that has only ever enforced, never a target or an
\* inner Host that is off the allowlist. A request inside an intercepted
\* session is delivered to the CONNECT target, so both names matter
\* (decideConnect, decideRequest, dialControl).
VettedOnly == vetted

\* No deadline of the outer server or of the handshake is left on the socket
\* of an established session, where it would cut a long transfer (the
\* SetDeadline calls of intercept and tunnel).
NoStaleDeadline == \A c \in In(Session \cup {"relay"}) : ~conn[c].deadline

\* A tunnel is closed only when both directions have ended, or Shutdown has
\* cancelled it: one peer's half-close never truncates the other direction.
TunnelWhole ==
    [][\A c \in In({"copy"}) :
          conn'[c].pc # "copy" => cancelled \/ ~(conn[c].up \/ conn[c].down)]_vars

\* A Shutdown that returns without error and in time has drained what it
\* waits for: the outer server owns no connection, and of the tunnels and
\* intercepted sessions only those are left whose handler reached trackConn
\* when the wait had already begun (field late; the comment of Shutdown takes
\* this window to be closed by the order of its steps, but a handler that was
\* dispatched before may still be dialling). An upgraded forward-proxy stream
\* ("relay") is in neither count and may be left as well.
ReturnsDrained ==
    sd = "ok" /\ ~expired =>
        /\ In(Outer) = {}
        /\ \A c \in In(Tracked) : conn[c].late

\* Shutdown returns, whatever the clients and upstreams do.
ShutdownEnds == (sd # "none") ~> (sd \in {"ok", "late"})

\* Once Shutdown has cancelled hijackCtx, tunnels and intercepted sessions come
\* to an end for good, those accepted or hijacked during the shutdown included.
\* Not so the upgraded streams of forward-proxy requests: they have no watcher.
SessionsEnd == cancelled ~> [](In({"track", "closing"} \cup Tracked) = {})

\* What a session may do: it reaches only upstreams that were let through, and no
\* deadline of an earlier phase cuts it.
SessionsSound == VettedOnly /\ NoStaleDeadline

\* A Shutdown returns, and the tunnels and intercepted sessions end with it.
ShutdownCompletes == ShutdownEnds /\ SessionsEnd

=============================================================================
