-------------------------------- MODULE Dns ---------------------------------
(***************************************************************************)
(* The DNS filter daemon: its listeners and their shutdown                 *)
(* (pkg/cmd/dns/serve, dnsfilter.Server.Start, DNSServer.Shutdown) and the *)
(* handling of concurrent queries (ServeDNS) while the operator switches   *)
(* the mode and the allowlist is reloaded.                                 *)
(*                                                                         *)
(* ServeDNS loads the mode up to four times, each time from an atomic: the *)
(* loads of one query are separate steps.  Names, addresses and sizes are  *)
(* reduced to what the handler tells apart.                                *)
(***************************************************************************)
EXTENDS Naturals, FiniteSets

CONSTANTS
    Queries,    \* identities of the guest's queries
    Asks,       \* what a query may be: records of AskType
    Answers,    \* what the upstream may return: records of AnswerType
    Permitted,  \* allow_private_targets: the dangerous addresses let through
    MaxFlips    \* bound on SetMode calls and on allowlist changes, each

AskType == [name : {"absent", "health", "a", "b"},   \* absent: no question section
            type : {"addr", "other"},                \* A/AAAA, anything else
            net : {"udp", "tcp"},
            room : 0..2]                             \* UDP size the client takes
AnswerType == [trunc : BOOLEAN, addrs : SUBSET {"public", "private", "loopback"}, size : 0..2]

\* What the constants must be.
DnsAssumption ==
    /\ Asks \subseteq AskType /\ Answers \subseteq AnswerType
    /\ Permitted \subseteq {"private", "loopback"} /\ MaxFlips \in Nat
    /\ IsFiniteSet(Queries)

VARIABLES
    daemon,   \* stage of runServe
    ports,    \* listeners that are bound: subset of {"udp", "tcp"}
    active,   \* ModeController.active
    listed,   \* names the allowlist filter matches
    flips,    \* SetMode calls and reloads so far
    q,        \* [Queries -> progress of the handler of each query]
    captured, \* names in the profile log
    stats,    \* [total, allowed, blocked]
    traffic   \* [Queries -> number of allow and block lines in the traffic log]

dnsVars == <<daemon, ports, active, listed, flips, q, captured, stats, traffic>>

Names == {"a", "b"}
NoAsk == [name |-> "absent", type |-> "addr", net |-> "udp", room |-> 0]
NoAnswer == [trunc |-> FALSE, addrs |-> {}, size |-> 0]
Idle == [at |-> "none", ask |-> NoAsk, ans |-> NoAnswer, sent |-> "nothing",
         sawPassive |-> FALSE, sawListed |-> FALSE]

\* The pseudo-state "none" is a query not yet asked, "done" an answered one.
Stations == {"none", "mode", "capture", "type", "match", "udp", "tcp", "vet", "done"}
Replies == {"nothing", "formerr", "health", "nodata", "nxdomain", "servfail", "full", "cut", "truncated"}

DnsTypeOK ==
    /\ daemon \in {"new", "udp", "tcp", "serving", "closing", "down"}
    /\ ports \subseteq {"udp", "tcp"}
    /\ active \in BOOLEAN /\ listed \subseteq Names
    /\ flips \in [mode : 0..MaxFlips, list : 0..MaxFlips]
    /\ q \in [Queries -> [at : Stations, ask : Asks \cup {NoAsk}, ans : Answers \cup {NoAnswer},
                          sent : Replies, sawPassive : BOOLEAN, sawListed : BOOLEAN]]
    /\ captured \subseteq Names
    /\ stats \in [total : Nat, allowed : Nat, blocked : Nat]
    /\ traffic \in [Queries -> [allow : 0..1, block : 0..2]]

DnsInit ==
    /\ daemon = "new" /\ ports = {}
    /\ active \in BOOLEAN                 \* the --passive flag
    /\ listed = {"a"}
    /\ flips = [mode |-> 0, list |-> 0]
    /\ q = [i \in Queries |-> Idle]
    /\ captured = {}
    /\ stats = [total |-> 0, allowed |-> 0, blocked |-> 0]
    /\ traffic = [i \in Queries |-> [allow |-> 0, block |-> 0]]

InFlight == {i \in Queries : q[i].at \notin {"none", "done"}}

-----------------------------------------------------------------------------
(* The daemon                                                              *)

\* Start: bind UDP, then TCP on the port UDP got; a failure closes what is open
\* and ends runServe.
ListenUDP ==
    /\ daemon = "new"
    /\ \/ daemon' = "udp" /\ ports' = {"udp"}
       \/ daemon' = "down" /\ UNCHANGED ports     \* the port is taken
    /\ UNCHANGED <<active, listed, flips, q, captured, stats, traffic>>

ListenTCP ==
    /\ daemon = "udp"
    /\ \/ daemon' = "tcp" /\ ports' = ports \cup {"tcp"}
       \/ daemon' = "down" /\ ports' = {}
    /\ UNCHANGED <<active, listed, flips, q, captured, stats, traffic>>

\* The API server comes up, or its failure runs the deferred Shutdown.  The
\* handlers answer from the moment both sockets are bound.
StartAPI ==
    /\ daemon = "tcp"
    /\ daemon' \in {"serving", "closing"}
    /\ UNCHANGED <<ports, active, listed, flips, q, captured, stats, traffic>>

\* A signal, or an error a serving goroutine reports on StartErr.
StopServing ==
    /\ daemon = "serving"
    /\ daemon' = "closing"
    /\ UNCHANGED <<ports, active, listed, flips, q, captured, stats, traffic>>

\* DNSServer.Shutdown: the UDP listener closes and its handlers are waited for,
\* then the TCP listener.
ShutdownPort(p) ==
    /\ daemon = "closing" /\ p \in ports
    /\ p = "tcp" => "udp" \notin ports /\ \A i \in InFlight : q[i].ask.net # "udp"
    /\ ports' = ports \ {p}
    /\ UNCHANGED <<daemon, active, listed, flips, q, captured, stats, traffic>>

Exit ==
    /\ daemon = "closing" /\ ports = {} /\ InFlight = {}
    /\ daemon' = "down"
    /\ UNCHANGED <<ports, active, listed, flips, q, captured, stats, traffic>>

\* SetMode over the API; a query's handler may be anywhere.
SetActive(b) ==
    /\ daemon = "serving" /\ active # b /\ flips.mode < MaxFlips
    /\ active' = b
    /\ flips' = [flips EXCEPT !.mode = @ + 1]
    /\ q' = [i \in Queries |-> IF i \in InFlight /\ ~b THEN [q[i] EXCEPT !.sawPassive = TRUE]
                               ELSE q[i]]
    /\ UNCHANGED <<daemon, ports, listed, captured, stats, traffic>>

\* The loader replaces the filter's contents.
ReloadList(new) ==
    /\ daemon \in {"tcp", "serving"} /\ new # listed /\ flips.list < MaxFlips
    /\ listed' = new
    /\ flips' = [flips EXCEPT !.list = @ + 1]
    /\ q' = [i \in Queries |-> IF i \in InFlight /\ q[i].ask.name \in new
                               THEN [q[i] EXCEPT !.sawListed = TRUE] ELSE q[i]]
    /\ UNCHANGED <<daemon, ports, active, captured, stats, traffic>>

-----------------------------------------------------------------------------
(* ServeDNS                                                                *)

Others == <<daemon, ports, active, listed, flips>>

Step(i, at) == q' = [q EXCEPT ![i].at = at]
Reply(i, r) == q' = [q EXCEPT ![i].at = "done", ![i].sent = r]
Count(f) == stats' = [stats EXCEPT ![f] = @ + 1]
LogBlock(i) == traffic' = [traffic EXCEPT ![i].block = @ + 1]

\* The name the daemon answers itself.
handleHealthcheck(ask) == ask.name = "health"

\* A query arrives: no question is a format error and is not counted, the
\* healthcheck name is answered whatever the mode and the allowlist.
Arrive(i, ask) ==
    /\ daemon \in {"tcp", "serving", "closing"} /\ q[i].at = "none" /\ ask.net \in ports
    /\ LET new == [Idle EXCEPT !.ask = ask, !.sawPassive = ~active,
                               !.sawListed = ask.name \in listed] IN
         \/ /\ ask.name = "absent"
            /\ q' = [q EXCEPT ![i] = [new EXCEPT !.at = "done", !.sent = "formerr"]]
            /\ UNCHANGED stats
         \/ /\ handleHealthcheck(ask)
            /\ q' = [q EXCEPT ![i] = [new EXCEPT !.at = "done", !.sent = "health"]]
            /\ stats' = [stats EXCEPT !.total = @ + 1, !.allowed = @ + 1]
         \/ /\ ask.name \in Names
            /\ q' = [q EXCEPT ![i] = [new EXCEPT !.at = "mode"]]
            /\ Count("total")
    /\ UNCHANGED <<captured, traffic>> /\ UNCHANGED Others

\* First load of the mode: passive mode captures the name.
ReadMode(i) ==
    /\ q[i].at = "mode"
    /\ Step(i, IF active THEN "type" ELSE "capture")
    /\ UNCHANGED <<captured, stats, traffic>> /\ UNCHANGED Others

\* LogDomain loads the mode again and drops the name when it is active by now.
Capture(i) ==
    /\ q[i].at = "capture"
    /\ captured' = IF active THEN captured ELSE captured \cup {q[i].ask.name}
    /\ Step(i, "type")
    /\ UNCHANGED <<stats, traffic>> /\ UNCHANGED Others

\* Active mode answers anything but A and AAAA with NODATA.
CheckType(i) ==
    /\ q[i].at = "type"
    /\ \/ /\ active /\ q[i].ask.type = "other"
          /\ Reply(i, "nodata") /\ Count("blocked") /\ LogBlock(i)
       \/ /\ ~active \/ q[i].ask.type = "addr"
          /\ Step(i, "match") /\ UNCHANGED <<stats, traffic>>
    /\ UNCHANGED captured /\ UNCHANGED Others

\* The allowlist decides, and when it does not match, the mode (a fourth load).
Allows(i) == q[i].ask.name \in listed \/ ~active

CheckAllowed(i) ==
    /\ q[i].at = "match"
    /\ \/ /\ ~Allows(i)
          /\ Reply(i, "nxdomain") /\ Count("blocked") /\ LogBlock(i)
       \/ /\ Allows(i)
          /\ Step(i, "udp") /\ UNCHANGED <<stats, traffic>>
    /\ UNCHANGED captured /\ UNCHANGED Others

\* DefaultResolver.Exchange: UDP; a truncated answer is asked again over TCP,
\* and kept when that fails.
ExchangeUDP(i, ans) ==
    /\ q[i].at = "udp"
    /\ \/ Reply(i, "servfail")            \* timeout or error
       \/ q' = [q EXCEPT ![i].ans = ans, ![i].at = IF ans.trunc THEN "tcp" ELSE "vet"]
    /\ UNCHANGED <<captured, stats, traffic>> /\ UNCHANGED Others

ExchangeTCP(i, ans) ==
    /\ q[i].at = "tcp"
    /\ \/ Step(i, "vet")                  \* TCP failed: the truncated answer is used
       \/ q' = [q EXCEPT ![i].ans = ans, ![i].at = "vet"]
    /\ UNCHANGED <<captured, stats, traffic>> /\ UNCHANGED Others

\* IsBlocked: a dangerous address outside the permitted ranges.
IsBlocked(addr) == addr # "public" /\ addr \notin Permitted

\* One such address among the answer's is enough.
checkRebinding(ans) == \E a \in ans.addrs : IsBlocked(a)

\* prepareResponse: over UDP an answer larger than the client takes (at most
\* ednsBufferSize, here 1) is emptied and marked truncated; the upstream's own
\* truncation mark is copied.
Prepare(ask, ans) ==
    LET room == IF ask.room > 1 THEN 1 ELSE ask.room IN
    IF ask.net = "udp" /\ ans.size > room THEN "cut"
    ELSE IF ans.trunc THEN "truncated" ELSE "full"

\* MUTANT of Vet: allowlisted names skip the rebinding check.
VetListedUnchecked(i) ==
    /\ q[i].at = "vet"
    /\ IF q[i].ask.net = "tcp" /\ q[i].ans.trunc
       THEN Reply(i, "servfail") /\ UNCHANGED <<stats, traffic>>
       ELSE IF q[i].ask.name \notin listed /\ checkRebinding(q[i].ans)
       THEN Reply(i, "servfail") /\ Count("blocked") /\ LogBlock(i)
       ELSE Reply(i, Prepare(q[i].ask, q[i].ans)) /\ Count("allowed")
            /\ traffic' = [traffic EXCEPT ![i].allow = 1]
    /\ UNCHANGED captured /\ UNCHANGED Others

\* The checks on the answer, and the answer; the last two come in this order so
\* that a blocked answer is counted and logged once.
Vet(i) ==
    /\ q[i].at = "vet"
    /\ IF q[i].ask.net = "tcp" /\ q[i].ans.trunc
       THEN Reply(i, "servfail") /\ UNCHANGED <<stats, traffic>>
       ELSE IF checkRebinding(q[i].ans)
       THEN Reply(i, "servfail") /\ Count("blocked") /\ LogBlock(i)
       ELSE Reply(i, Prepare(q[i].ask, q[i].ans)) /\ Count("allowed")
            /\ traffic' = [traffic EXCEPT ![i].allow = 1]
    /\ UNCHANGED captured /\ UNCHANGED Others

Handle(i) ==
    \/ ReadMode(i) \/ Capture(i) \/ CheckType(i) \/ CheckAllowed(i) \/ Vet(i)
    \/ \E ans \in Answers : ExchangeUDP(i, ans) \/ ExchangeTCP(i, ans)

DnsNext ==
    \/ ListenUDP \/ ListenTCP \/ StartAPI \/ StopServing \/ Exit
    \/ \E p \in {"udp", "tcp"} : ShutdownPort(p)
    \/ \E b \in BOOLEAN : SetActive(b)
    \/ \E new \in SUBSET Names : ReloadList(new)
    \/ \E i \in Queries : Handle(i) \/ \E ask \in Asks : Arrive(i, ask)

-----------------------------------------------------------------------------
(* Properties                                                              *)

Passed == {"full", "cut", "truncated"}

\* Once no query is in flight the counters add up: every counted query was
\* allowed, blocked, or failed upstream (SERVFAIL with no verdict), whatever the
\* modes did meanwhile.
DnsAccounted ==
    InFlight = {} =>
        stats.total = stats.allowed + stats.blocked
                      + Cardinality({i \in Queries : /\ q[i].sent = "servfail"
                                                     /\ traffic[i].block = 0})

\* ServeDNS "logged exactly once (as a block)": a query's verdicts in the
\* traffic log are one allow or one block, never both, and an allow is logged
\* exactly for the answers passed on.
LoggedOnce ==
    \A i \in Queries : q[i].at = "done" =>
        /\ traffic[i].allow + traffic[i].block <= 1
        /\ traffic[i].allow = 1 <=> q[i].sent \in Passed

\* A name is forwarded upstream only if, at some moment of its handling, it was
\* allowlisted or the filter was passive.
ForwardedWithCause ==
    \A i \in Queries : q[i].at \in {"udp", "tcp", "vet"} \/ q[i].sent \in Passed =>
        q[i].sawListed \/ q[i].sawPassive

\* The rebinding check holds for allowlisted names and in passive mode alike:
\* no answer with a blocked address reaches the guest.
NoRebinding ==
    \A i \in Queries : q[i].sent \in Passed =>
        \A a \in q[i].ans.addrs : ~IsBlocked(a)

\* A guest never gets a truncation mark over TCP, nor over UDP an answer larger
\* than it takes or than ednsBufferSize.
FitsClient ==
    \A i \in Queries :
        /\ q[i].ask.net = "tcp" => q[i].sent \notin {"cut", "truncated"}
        /\ q[i].ask.net = "udp" /\ q[i].sent \in {"full", "truncated"} =>
               q[i].ans.size <= q[i].ask.room /\ q[i].ans.size <= 1

\* A daemon that is down holds no listener and left no query half handled.
DnsClosedClean == daemon = "down" => ports = {} /\ InFlight = {}

\* Every query is answered, and a daemon told to stop goes down.
Asked(i) == q[i].at = "mode"
Answered(i) == q[i].at = "done"
Closing == daemon = "closing"
Closed == daemon = "down"
DnsAnswers == \A i \in Queries : Asked(i) ~> Answered(i)
DnsStops == Closing ~> Closed

\* What ServeDNS, DNSServer.Shutdown and the counters promise together.
DnsSound ==
    /\ ForwardedWithCause /\ NoRebinding /\ FitsClient
    /\ LoggedOnce /\ DnsAccounted /\ DnsClosedClean
=============================================================================
