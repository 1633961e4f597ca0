------------------------------ MODULE Secrets ------------------------------
(***************************************************************************)
(* Secret injection: the per-instance secret store (internal/secretstore)  *)
(* with the `abox secrets set` and `remove` commands that rewrite it, the  *)
(* HTTP filter that reads it once when it starts and turns the bindings of *)
(* http.secret_injections into rules (pkg/cmd/http/serve), and the hook    *)
(* that applies the rules to each request on its way out                   *)
(* (internal/httpfilter/inject.go).                                        *)
(*                                                                         *)
(* A host is its name and whether it is spelt the canonical way; a path is *)
(* the sequence of its components, with `raw` set when its escaped form is *)
(* not the default one. The guest gives every request every header itself, *)
(* so that what leaves tells whether its own value was let through.        *)
(***************************************************************************)
EXTENDS Naturals, Sequences, FiniteSets
LOCAL INSTANCE SequencesExt

CONSTANTS
    SecretKeys,     \* keys of the store
    SecretValues,   \* values a key may be given ...
    UnfitValues,    \* ... and those among them that no header can carry
    HttpConfs,      \* the http sections config.yaml may have
    OutHeaders,     \* request headers
    OutRequests,    \* requests the guest may make
    ListedHosts,    \* the hosts on the allowlist
    Admins,         \* terminals `abox secrets` runs in
    Flights,        \* requests in flight
    MaxSecCommands  \* bound on secrets commands and filter starts together

\* What the constants must be.
SecretsAssumption ==
    /\ UnfitValues \subseteq SecretValues
    /\ MaxSecCommands \in Nat

VARIABLES
    httpConf,   \* [mitm, exempt, bindings] of config.yaml
    store,      \* the secrets file: key -> value or NoSecret
    admin,      \* the secrets commands
    proxyd,     \* the HTTP filter: [up, active, rules]
    flight,     \* the requests in flight
    promised,   \* history: what the commands that succeeded left the store as
    atStart,    \* history: the store when the running filter was started
    secCommands

secretVars == <<httpConf, store, admin, proxyd, flight, promised, atStart,
                secCommands>>

NoSecret == "no secret"
NoAdmin == [step |-> "idle", key |-> NoSecret, val |-> NoSecret, read |-> <<>>]
NoFlight == [pc |-> "idle"]
ProxyDown == [up |-> FALSE, active |-> TRUE, rules |-> {}]

SecretsInit ==
    /\ httpConf \in HttpConfs
    /\ store = [k \in SecretKeys |-> NoSecret]
    /\ admin = [a \in Admins |-> NoAdmin]
    /\ proxyd = ProxyDown
    /\ flight = [f \in Flights |-> NoFlight]
    /\ promised = store /\ atStart = store
    /\ secCommands = 0

-----------------------------------------------------------------------------
(* The store and its commands. Nothing locks it between the Load and the   *)
(* rename of a command.                                                    *)

SecretsCommand(a) ==
    /\ admin[a].step = "idle"
    /\ secCommands < MaxSecCommands /\ secCommands' = secCommands + 1
    /\ UNCHANGED <<httpConf, store, proxyd, flight, promised, atStart>>

\* `secrets set`: the value has been read from its one source; Set loads the
\* whole store.
SetSecret(a, k, v) ==
    /\ SecretsCommand(a)
    /\ admin' = [admin EXCEPT ![a] =
                   [step |-> "loaded", key |-> k, val |-> v, read |-> store]]

\* `secrets remove`: a key that is not there is no error and nothing is written.
RemoveSecret(a, k) ==
    /\ SecretsCommand(a)
    /\ admin' = IF store[k] = NoSecret THEN admin
                ELSE [admin EXCEPT ![a] =
                        [step |-> "loaded", key |-> k, val |-> NoSecret, read |-> store]]

\* write: the whole map goes to a temporary file, which is synced ...
WriteTemp(a) ==
    /\ admin[a].step = "loaded"
    /\ admin' = [admin EXCEPT ![a].step = "written"]
    /\ UNCHANGED <<httpConf, store, proxyd, flight, promised, atStart, secCommands>>

\* ... and renamed over the store. A command that loaded the store before
\* another one renamed its own undoes that one's change: `promised` gives up
\* on the keys then.
RenameStore(a) ==
    /\ admin[a].step = "written"
    /\ store' = [admin[a].read EXCEPT ![admin[a].key] = admin[a].val]
    /\ promised' = IF admin[a].read = store
                   THEN [promised EXCEPT ![admin[a].key] = admin[a].val]
                   ELSE store'
    /\ admin' = [admin EXCEPT ![a] = NoAdmin]
    /\ UNCHANGED <<httpConf, proxyd, flight, atStart, secCommands>>

\* The command is killed, or a step of write fails.
SecretsKilled(a) ==
    /\ admin[a].step \in {"loaded", "written"}
    /\ admin' = [admin EXCEPT ![a] = NoAdmin]
    /\ UNCHANGED <<httpConf, store, proxyd, flight, promised, atStart, secCommands>>

-----------------------------------------------------------------------------
(* The filter starts, and changes mode.                                    *)

\* A binding whose key has no value, or one no header can carry, becomes a
\* rule that strips the header (val = NoSecret).
resolveSecretRules(bindings, values) ==
    {[host |-> b.host, header |-> b.header, prefix |-> b.prefix,
      val |-> IF values[b.key] \in UnfitValues THEN NoSecret ELSE values[b.key]] :
       b \in bindings}

\* Injection needs interception, is refused in passive mode, and no bound host
\* may be tunnelled.
applySecretInjections(passive) ==
    httpConf.bindings # {} =>
        /\ httpConf.mitm /\ ~passive
        /\ \A b \in httpConf.bindings : b.host \notin httpConf.exempt

\* runServe up to the listener; the filter does not come up when the
\* injections cannot be applied.
ServeHTTP(passive) ==
    /\ ~proxyd.up /\ secCommands < MaxSecCommands
    /\ applySecretInjections(passive)
    /\ proxyd' = [up |-> TRUE, active |-> ~passive,
                  rules |-> resolveSecretRules(httpConf.bindings, store)]
    /\ atStart' = store
    /\ secCommands' = secCommands + 1
    /\ UNCHANGED <<httpConf, store, admin, flight, promised>>

\* SetMode over the API: the mode alone changes, the rules stay.
SetFilterMode ==
    /\ proxyd.up
    /\ proxyd' = [proxyd EXCEPT !.active = ~@]
    /\ UNCHANGED <<httpConf, store, admin, flight, promised, atStart, secCommands>>

\* The filter is stopped, and its requests with it.
StopHTTP ==
    /\ proxyd.up
    /\ proxyd' = ProxyDown
    /\ flight' = [f \in Flights |-> NoFlight]
    /\ UNCHANGED <<httpConf, store, admin, promised, atStart, secCommands>>

-----------------------------------------------------------------------------
(* A request.                                                              *)

\* Both spellings of a host come to one key.
canonicalHost(host) == host.name

\* path.Clean on an absolute path.
CleanSegments(path) ==
    FoldLeft(LAMBDA kept, seg :
               IF seg # ".." THEN Append(kept, seg)
               ELSE IF kept = <<>> THEN <<>> ELSE SubSeq(kept, 1, Len(kept) - 1),
             <<>>, path)

\* MUTANT of safeCleanPath: the path is taken as it was sent.
safeCleanPathAsSent(url) == IF url.raw THEN {} ELSE {url.path}

\* The path to match prefixes with; none when its escaping is unusual.
safeCleanPath(url) == IF url.raw THEN {} ELSE {CleanSegments(url.path)}

\* A prefix matches on the boundary of a component; the empty one matches all.
matchPrefix(clean, prefix) ==
    Len(prefix) <= Len(clean) /\ SubSeq(clean, 1, Len(prefix)) = prefix

\* requestHandler lets the request pass: a listed host, or any in passive mode.
\* Only a request inside an intercepted CONNECT is marked as such.
RequestPasses(f, ask) ==
    /\ flight[f].pc = "idle" /\ proxyd.up
    /\ canonicalHost(ask.host) \in ListedHosts \/ ~proxyd.active
    /\ ask.mitm => httpConf.mitm /\ canonicalHost(ask.host) \notin httpConf.exempt
    /\ flight' = [flight EXCEPT ![f] =
                    [pc |-> "passed", ask |-> ask, active |-> proxyd.active]]
    /\ UNCHANGED <<httpConf, store, admin, proxyd, promised, atStart, secCommands>>

\* What one rule makes of the header it is about.
ApplyRule(rule, ask) ==
    LET clean   == safeCleanPath(ask)
        applies == \E p \in clean : matchPrefix(p, rule.prefix)
    IN  IF rule.val = NoSecret
          THEN IF applies \/ clean = {} THEN NoSecret ELSE "guest"
        ELSE IF ~applies THEN "guest"
        ELSE IF ask.method = "TRACE" THEN NoSecret
        ELSE rule.val

\* injectSecrets, from the mode it reads now and the rules of the filter's
\* start; one header of one host has at most one rule.
injectSecrets(f) ==
    /\ flight[f].pc = "passed"
    /\ LET ask   == flight[f].ask
           rules == IF ask.mitm /\ proxyd.active
                      THEN {r \in proxyd.rules : r.host = canonicalHost(ask.host)}
                      ELSE {}
           out   == [h \in OutHeaders |->
                       IF \E r \in rules : r.header = h
                         THEN ApplyRule(CHOOSE r \in rules : r.header = h, ask)
                         ELSE "guest"]
       IN  flight' = [flight EXCEPT ![f] =
                        [pc |-> "sent", ask |-> ask, out |-> out,
                         active |-> flight[f].active /\ proxyd.active,
                         late |-> proxyd.active]]
    /\ UNCHANGED <<httpConf, store, admin, proxyd, promised, atStart, secCommands>>

\* The answer goes back to the guest.
RequestDone(f) ==
    /\ flight[f].pc = "sent"
    /\ flight' = [flight EXCEPT ![f] = NoFlight]
    /\ UNCHANGED <<httpConf, store, admin, proxyd, promised, atStart, secCommands>>

SecretsNext ==
    \/ \E a \in Admins : \/ \E k \in SecretKeys : \/ \E v \in SecretValues : SetSecret(a, k, v)
                                                  \/ RemoveSecret(a, k)
                         \/ WriteTemp(a) \/ RenameStore(a) \/ SecretsKilled(a)
    \/ \E passive \in BOOLEAN : ServeHTTP(passive)
    \/ SetFilterMode \/ StopHTTP
    \/ \E f \in Flights : \/ \E ask \in OutRequests : RequestPasses(f, ask)
                          \/ injectSecrets(f) \/ RequestDone(f)

-----------------------------------------------------------------------------
(* Properties.                                                             *)

\* A binding of header h that a request comes under: its host, and the path
\* the server will serve it from.
Bound(ask, h) ==
    {b \in httpConf.bindings :
       /\ b.host = ask.host.name /\ b.header = h
       /\ LET served == CleanSegments(ask.path)
          IN  Len(b.prefix) <= Len(served) /\ SubSeq(served, 1, Len(b.prefix)) = b.prefix}

\* A secret leaves only in the header, to the host and under the path it is
\* bound to, inside a connection the filter intercepted, from a filter that
\* was active then, never on a TRACE (which echoes it), and with the value the
\* store had when the filter was started, whatever the secrets commands and
\* the mode have done since (injectSecrets, resolveSecretRules).
SecretPinned ==
    \A f \in Flights : flight[f].pc = "sent" =>
        LET ask == flight[f].ask
        IN  \A h \in OutHeaders : flight[f].out[h] \in SecretValues =>
              /\ ask.mitm /\ ask.method # "TRACE" /\ flight[f].late
              /\ \E b \in Bound(ask, h) :
                   flight[f].out[h] = atStart[b.key] /\ atStart[b.key] \notin UnfitValues

\* While the filter is active the guest never gets its own value of a bound
\* header through to the bound host and path, whether or not the key has a
\* value, spelt any way, on any method (injectSecrets: Set, or Del). The one
\* path it does get through is one escaped unusually when the key has a value.
GuestOverridden ==
    \A f \in Flights : flight[f].pc = "sent" =>
        LET ask == flight[f].ask
        IN  \A h \in OutHeaders :
              (flight[f].active /\ ask.mitm) =>
                \A b \in Bound(ask, h) :
                  (~ask.raw \/ atStart[b.key] \in UnfitValues \cup {NoSecret})
                     => flight[f].out[h] # "guest"

\* The store always is what the commands that succeeded made it: a command
\* that is killed or fails midway leaves the one before it (Store.write).
StoreExact == store = promised
=============================================================================
