----------------------------- MODULE KeiHarness -----------------------------
(***************************************************************************)
(* What a harness does with Kei around its tool calls: it registers its    *)
(* tool manifest with the control plane before it serves (tool_sync), may  *)
(* run a kei-proxy of its own (proxy), and calls connector tools over the  *)
(* proxy's MCP route (mcproute).  Another harness of the installation may  *)
(* register at any time; requests and answers may be lost or late.         *)
(***************************************************************************)
EXTENDS ToolManifest

CONSTANTS
    Setups,        \* manifests and settings a harness may start with
    Callers,       \* threads that call a tool over the route
    Replies,       \* answers the route may give
    Others,        \* manifests other harnesses register
    MaxSpawns,     \* bound: proxy processes
    MaxKeys        \* bound: route keys

(* What the error bodies of the route, and others, are told apart by.      *)
Bodies == {"object", "scalar", "junk", "bytes", "crooked", "denied", "unauthenticated", "drift",
           "upstream", "mismatch", "unknown"}

(* A file has entries of the known fields, another harness registers some  *)
(* tool, as this one does.                                                 *)
ASSUME HarnessAssumption ==
    /\ MaxSpawns \in Nat /\ MaxKeys \in Nat
    /\ \A s \in Setups : s.from = "file" => s.document.tools \in Seq(Entries)
    /\ Replies \subseteq [status : Nat, sse : BOOLEAN, body : Bodies]
    /\ \A m \in Others : m.tools # <<>>

VARIABLES
    setup,         \* manifest and settings of this harness
    phase,         \* "sync", "serve" or "refused"
    attempt,       \* PUTs made
    catalogue,     \* external: the manifest registered with the control plane
    late,          \* external: PUTs under way that nobody waits for
    registered,    \* history: this harness's manifest was applied
    handle,        \* _process of LocalProxyProcess
    alive,         \* its children that run
    spawned,       \* children started so far
    stopping,      \* how far stop() is
    awaited,       \* the child whose wait() it is in
    during,        \* history: children started while a stop() was under way
    key,           \* KEI_MCP_ROUTE_KEY, 0 when unset
    place, cand,      \* a call: its place, and the transport it tries
    sent,          \* the key it carries
    runs, broken,  \* history: how often its tool ran, and answers that broke off
    reply          \* history: whether an answer came, and had an object

sync  == <<setup, phase, attempt, catalogue, late, registered>>
proxy == <<handle, alive, spawned, stopping, awaited, during>>
calls == <<place, cand, sent, runs, broken, reply>>

harnessVars == <<sync, proxy, key, calls>>

HarnessInit ==
    /\ setup \in Setups
    /\ phase = "sync" /\ attempt = 0 /\ registered = FALSE
    /\ catalogue \in Others /\ late = {}
    /\ handle = 0 /\ alive = {} /\ spawned = 0
    /\ stopping = "no" /\ awaited = 0 /\ during = {}
    /\ key \in {0, 1}
    /\ place = [c \in Callers |-> "idle"] /\ cand = [c \in Callers |-> 0]
    /\ sent = [c \in Callers |-> 0] /\ runs = [c \in Callers |-> 0]
    /\ broken = [c \in Callers |-> 0] /\ reply = [c \in Callers |-> "none"]

---------------------------------------------------------------------------
(* Registering the manifest.                                               *)

(* ToolManifestSyncConfig.from_env: what is missing or no http(s) URL      *)
(* raises.                                                                 *)
IsConfigured(s) == s.url \in {"http", "https"} /\ s.runtime_token

(* Where the manifest comes from, and whether it can be had: a file is     *)
(* parsed and re-serialized, typed declarations are serialized, a registry *)
(* is exported, and a document is taken as it is.                          *)
HasManifest(s) ==
    CASE s.from = "file"     -> ManifestParses(s.document)
      [] s.from = "specs"    -> \A i \in DOMAIN s.document.tools : HasWire(s.document.tools[i])
      [] s.from = "registry" -> CanExport(s.registry)
      [] OTHER               -> s.document.form = "object"

Manifest(s) ==
    CASE s.from = "file"     -> SerializeToolSpecs(ParseManifest(s.document))
      [] s.from = "specs"    -> SerializeToolSpecs(s.document.tools)
      [] s.from = "registry" -> ExportKeiToolManifest(s.registry)
      [] OTHER               -> s.document

Attempts(s) == IF s.attempts > 1 THEN s.attempts ELSE 1

(* No control plane or token configured, no manifest to be had, or an      *)
(* empty one where tools are expected: the harness must not serve.         *)
Refuse ==
    /\ phase = "sync"
    /\ \/ ~IsConfigured(setup) \/ ~HasManifest(setup)
       \/ /\ HasManifest(setup)
          /\ Manifest(setup).tools = <<>> /\ setup.expect_tools
    /\ phase' = "refused"
    /\ UNCHANGED <<setup, attempt, catalogue, late, registered, proxy, key, calls>>

(* An empty manifest of a harness without tools is not sent.               *)
SkipSync ==
    /\ phase = "sync" /\ IsConfigured(setup) /\ HasManifest(setup)
    /\ Manifest(setup).tools = <<>> /\ ~setup.expect_tools
    /\ phase' = "serve"
    /\ UNCHANGED <<setup, attempt, catalogue, late, registered, proxy, key, calls>>

MaySend ==
    /\ phase = "sync" /\ IsConfigured(setup) /\ HasManifest(setup)
    /\ Manifest(setup).tools # <<>>
    /\ attempt < Attempts(setup)

(* Mutant: after the last attempt the harness serves without an answer.    *)
PutThenServe ==
    /\ MaySend
    /\ attempt' = attempt + 1
    /\ \/ /\ catalogue' = Manifest(setup) /\ registered' = TRUE
          /\ phase' = "serve" /\ UNCHANGED late
       \/ /\ \/ catalogue' = Manifest(setup) /\ registered' = TRUE /\ UNCHANGED late
             \/ late' = late \cup {Manifest(setup)} /\ UNCHANGED <<catalogue, registered>>
             \/ UNCHANGED <<catalogue, late, registered>>
          /\ phase' = IF attempt + 1 < Attempts(setup) THEN "sync" ELSE "serve"
    /\ UNCHANGED <<setup, proxy, key, calls>>

(* One PUT: applied and confirmed; applied, or still to be applied, or     *)
(* lost, without an answer; or refused.  After the last the sync gives up. *)
Put ==
    /\ MaySend
    /\ attempt' = attempt + 1
    /\ \/ /\ catalogue' = Manifest(setup) /\ registered' = TRUE
          /\ phase' = "serve" /\ UNCHANGED late
       \/ /\ \/ catalogue' = Manifest(setup) /\ registered' = TRUE /\ UNCHANGED late
             \/ late' = late \cup {Manifest(setup)} /\ UNCHANGED <<catalogue, registered>>
             \/ UNCHANGED <<catalogue, late, registered>>
          /\ phase' = IF attempt + 1 < Attempts(setup) THEN "sync" ELSE "refused"
    /\ UNCHANGED <<setup, proxy, key, calls>>

(* External: another harness registers, or a PUT arrives late.             *)
OtherPut ==
    /\ \/ \E m \in Others : catalogue' = m /\ UNCHANGED <<late, registered>>
       \/ \E m \in late : /\ catalogue' = m /\ late' = late \ {m}
                          /\ registered' = TRUE
    /\ UNCHANGED <<setup, phase, attempt, proxy, key, calls>>

---------------------------------------------------------------------------
(* LocalProxyProcess.  A thread of the harness starts the proxy, another   *)
(* stops it, and neither looks at the other.                               *)

IsRunning == handle # 0 /\ handle \in alive

(* _discover_executable: an absolute path must be it; else the PATH, the   *)
(* directory of the interpreter and the current one are searched.          *)
ExecutableIsFound(s) ==
    IF s.absolute THEN "explicit" \in s.executables
    ELSE s.executables \cap {"PATH", "adjacent", "cwd"} # {}

(* resolve_token *)
TokenIsFound(s) == s.secrets \cap {"token", "provider", "environment"} # {}

(* start(): nothing to do while the child runs; else it is looked for, the *)
(* token resolved and the child started, each of which may raise.          *)
StartProxy ==
    /\ phase = "serve" /\ ~IsRunning /\ spawned < MaxSpawns
    /\ ExecutableIsFound(setup) /\ TokenIsFound(setup)
    /\ spawned' = spawned + 1 /\ handle' = spawned + 1
    /\ alive' = alive \cup {spawned + 1}
    /\ during' = IF stopping = "no" THEN during ELSE during \cup {spawned + 1}
    /\ UNCHANGED <<sync, stopping, awaited, key, calls>>

(* stop(): a child that runs is terminated, waited for during 5 seconds,   *)
(* then killed and waited for; _process is read anew for each of these,    *)
(* and cleared at the end.                                                 *)
StopProxy ==
    /\ phase = "serve" /\ stopping = "no"
    /\ stopping' = IF IsRunning THEN "terminating" ELSE "clearing"
    /\ UNCHANGED <<sync, handle, alive, spawned, awaited, during, key, calls>>

WaitBegins ==
    /\ \/ stopping = "terminating" /\ stopping' = "waiting"
       \/ stopping = "killing" /\ stopping' = "reaping"
    /\ awaited' = handle
    /\ UNCHANGED <<sync, handle, alive, spawned, during, key, calls>>

(* Mutants: a child that does not end in time is forgotten, or waited      *)
(* for without being killed.                                               *)
WaitEndsForgets ==
    /\ stopping \in {"waiting", "reaping"} /\ stopping' = "clearing"
    /\ UNCHANGED <<sync, handle, alive, spawned, awaited, during, key, calls>>

WaitEndsOnly ==
    /\ stopping \in {"waiting", "reaping"} /\ awaited \notin alive
    /\ stopping' = "clearing"
    /\ UNCHANGED <<sync, handle, alive, spawned, awaited, during, key, calls>>

WaitEnds ==
    /\ \/ /\ stopping \in {"waiting", "reaping"} /\ awaited \notin alive
          /\ stopping' = "clearing" /\ UNCHANGED alive
       \/ /\ stopping = "waiting" /\ awaited \in alive
          /\ stopping' = "killing" /\ alive' = alive \ {handle}
    /\ UNCHANGED <<sync, handle, spawned, awaited, during, key, calls>>

ClearProxy ==
    /\ stopping = "clearing"
    /\ stopping' = "no" /\ handle' = 0
    /\ UNCHANGED <<sync, alive, spawned, awaited, during, key, calls>>

WaitProxy == WaitBegins \/ WaitEnds \/ ClearProxy

(* External: a child exits, by itself or because it was told to.           *)
ChildExits ==
    /\ \E p \in alive : alive' = alive \ {p}
    /\ UNCHANGED <<sync, handle, spawned, stopping, awaited, during, key, calls>>

---------------------------------------------------------------------------
(* The MCP route client.                                                   *)

(* External: the route key is set, revoked or rotated.                     *)
Rotate ==
    /\ key < MaxKeys
    /\ key' = key + 1
    /\ UNCHANGED <<sync, proxy, calls>>

Transports == <<"socket", "127.0.0.1", "::1">>

(* _validate_socket: a socket, and this user's own or not open to others.  *)
SocketIsSafe(f) == f.socket /\ (f.own \/ ~f.writable)

(* _is_loopback; a base URL without a host, or of a socket, is not asked.  *)
BaseIsLocal(s) == s.base_url \in {"loopback", "unix", "hostless"}

(* call(): the key is read for every call; the transport is the base URL,  *)
(* which must be local, or the first that answers of the three.            *)
BeginCall(c) ==
    /\ phase = "serve" /\ place[c] = "idle"
    /\ sent' = [sent EXCEPT ![c] = key]
    /\ \/ /\ key = 0
          /\ place' = [place EXCEPT ![c] = "MCPRouteError"] /\ UNCHANGED cand
       \/ /\ key # 0 /\ setup.base_url # "" /\ ~BaseIsLocal(setup)
          /\ place' = [place EXCEPT ![c] = "RouteNotLocalError"] /\ UNCHANGED cand
       \/ /\ key # 0 /\ (setup.base_url = "" \/ BaseIsLocal(setup))
          /\ place' = [place EXCEPT ![c] = "send"]
          /\ cand' = [cand EXCEPT ![c] = IF setup.base_url # "" THEN 0
                                         ELSE IF SocketIsSafe(setup.socket) THEN 1 ELSE 2]
    /\ UNCHANGED <<sync, proxy, key, runs, broken, reply>>

(* Nothing answered: the next transport, or the last error.                *)
TryNext(c) ==
    IF cand[c] \in 1 .. Len(Transports) - 1
    THEN cand' = [cand EXCEPT ![c] = @ + 1] /\ UNCHANGED place
    ELSE place' = [place EXCEPT ![c] = "MCPRouteError"] /\ UNCHANGED cand

(* Who serves a transport: a sidecar, or on the loopback port the proxy    *)
(* this harness started.                                                   *)
Served(c) == setup.sidecar \/ (cand[c] > 1 /\ alive # {})

(* ConnectError or OSError: the request was not delivered.                 *)
NotDelivered(c) ==
    /\ place[c] = "send"
    /\ TryNext(c)
    /\ UNCHANGED <<sync, proxy, key, sent, runs, broken, reply>>

(* RemoteProtocolError: the answer broke off, whether or not the tool ran. *)
BreaksOff(c) ==
    /\ place[c] = "send" /\ Served(c)
    /\ broken' = [broken EXCEPT ![c] = @ + 1]
    /\ \E n \in {0, 1} : runs' = [runs EXCEPT ![c] = @ + n]
    /\ TryNext(c)
    /\ UNCHANGED <<sync, proxy, key, sent, reply>>

(* Mutant: a timeout is treated as if nothing had been delivered.          *)
TimesOutRetries(c) ==
    /\ place[c] = "send" /\ Served(c)
    /\ \E n \in {0, 1} : runs' = [runs EXCEPT ![c] = @ + n]
    /\ TryNext(c)
    /\ UNCHANGED <<sync, proxy, key, sent, broken, reply>>

(* A timeout, or a connection reset under the answer, is neither: it ends  *)
(* the call, with the transport's own error unless there is a base URL.    *)
TimesOut(c) ==
    /\ place[c] = "send" /\ Served(c)
    /\ \E n \in {0, 1} : runs' = [runs EXCEPT ![c] = @ + n]
    /\ place' = [place EXCEPT ![c] = IF cand[c] = 0 THEN "MCPRouteError" ELSE "HTTPError"]
    /\ UNCHANGED <<sync, proxy, key, cand, sent, broken, reply>>

(* _route_error_from_code: the error bodies, and what is raised for them.  *)
RouteErrors ==
    [unauthenticated |-> "SessionEndedError", denied |-> "PolicyDeniedError",
     drift |-> "ManifestDriftError", upstream |-> "UpstreamError",
     mismatch |-> "HeaderMismatchError", unknown |-> "RouteError"]

(* _parse_route_error: None unless the body has an error object; bytes     *)
(* that are no text raise what it does not catch.                          *)
ErrorOf(body, otherwise) ==
    CASE body \in DOMAIN RouteErrors -> RouteErrors[body]
      [] body = "bytes"              -> "UnicodeDecodeError"
      [] OTHER                       -> otherwise

(* _read_sse: the first event with an id; its error is not looked at.      *)
ReadSSE(body) ==
    CASE body \in {"object", "scalar"} -> body
      [] body \in {"junk", "bytes"}    -> "MCPRouteError"
      [] OTHER                         -> "null"

(* call(): status, stream, envelope, in this order.                        *)
Interpret(r) ==
    CASE r.status = 401             -> ErrorOf(r.body, "SessionEndedError")
      [] r.status = 403             -> ErrorOf(r.body, "MCPRouteError")
      [] r.status \notin {401, 403} /\ r.sse -> ReadSSE(r.body)
      [] r.status \notin {401, 403} \cup 200 .. 299 /\ ~r.sse -> ErrorOf(r.body, "MCPRouteError")
      [] r.status \in 200 .. 299 /\ ~r.sse ->
           IF r.body \in {"object", "scalar"} THEN r.body
           ELSE IF r.body = "crooked" THEN "RouteError" ELSE ErrorOf(r.body, "MCPRouteError")

(* call_tool(): the result of the call must be an object.                  *)
CallTool(v) ==
    CASE v = "object"               -> "result"
      [] v \in {"scalar", "null"}   -> "MCPRouteError"
      [] OTHER                      -> v

(* External: how often the tool ran for an answer.                         *)
RanFor(body) ==
    CASE body \in {"object", "scalar"}                               -> {1}
      [] body \in {"unauthenticated", "denied", "drift", "mismatch"} -> {0}
      [] OTHER                                                       -> {0, 1}

(* The route answers; a key that was superseded ends the session.          *)
RouteAnswers(c) ==
    /\ place[c] = "send" /\ Served(c)
    /\ \E r \in Replies :
         /\ sent[c] # key => r.status = 401
         /\ reply' = [reply EXCEPT ![c] = IF r.body = "object" THEN "object" ELSE "other"]
         /\ \E n \in RanFor(r.body) : runs' = [runs EXCEPT ![c] = @ + n]
         /\ place' = [place EXCEPT ![c] = CallTool(Interpret(r))]
    /\ UNCHANGED <<sync, proxy, key, cand, sent, broken>>

Caller(c) ==
    BeginCall(c) \/ NotDelivered(c) \/ BreaksOff(c) \/ TimesOut(c) \/ RouteAnswers(c)

SyncStep == Refuse \/ SkipSync \/ Put

HarnessNext ==
    \/ SyncStep \/ OtherPut
    \/ StartProxy \/ StopProxy \/ WaitProxy \/ ChildExits
    \/ Rotate
    \/ \E c \in Callers : Caller(c)

HarnessFairness ==
    /\ WF_harnessVars(SyncStep) /\ WF_harnessVars(WaitProxy)
    /\ \A c \in Callers : WF_harnessVars(Caller(c))

HarnessSpec == HarnessInit /\ [][HarnessNext]_harnessVars /\ HarnessFairness

---------------------------------------------------------------------------
(* Properties.                                                             *)

(* What the parser reads from the manifest a file is registered with is    *)
(* what it read from the file, up to the parameters, which are not sent:   *)
(* sync_manifest_path sends `the marshalled form of what was loaded'.      *)
FileIsRegisteredAsRead ==
    phase = "sync" /\ setup.from = "file" /\ HasManifest(setup) =>
        /\ ManifestParses(Manifest(setup))
        /\ LET unparametrized(specs) ==
                  [i \in DOMAIN specs |-> [specs[i] EXCEPT !.parameters = "empty"]]
           IN  ParseManifest(Manifest(setup)) = unparametrized(ParseManifest(setup.document))

(* A harness serves only after its manifest was applied at least once, or  *)
(* when it has and expects no tools; and no sync, not even one that is     *)
(* applied late, ever leaves the installation without tools.               *)
ServesOnlyRegistered ==
    /\ phase = "serve" =>
         \/ registered
         \/ Manifest(setup).tools = <<>> /\ ~setup.expect_tools
    /\ catalogue.tools # <<>>

(* Every child that runs is the one LocalProxyProcess holds, or was        *)
(* started by a start() that overlapped a stop(): the only way to leave a  *)
(* child behind is that stop() clears _process after start() has set it.   *)
ProxyIsHeld == alive \subseteq {handle} \cup during

(* A tool runs once for a call, and not for one the policy denied, except  *)
(* for the times a transport broke the answer off and the next was tried;  *)
(* and a result is returned only if it ran.                                *)
RunsAreAccounted ==
    \A c \in Callers :
        /\ runs[c] <= broken[c] + 1
        /\ place[c] = "PolicyDeniedError" => runs[c] <= broken[c]
        /\ place[c] = "result" => runs[c] > 0 /\ reply[c] = "object"

(* Starting up comes to an end, and so does every call and every stop,     *)
(* unless a start() has put another child in the place of the killed one   *)
(* before stop() waits for it.                                             *)
HarnessReturns ==
    /\ (phase = "sync") ~> (phase # "sync")
    /\ \A c \in Callers : (place[c] = "send") ~> (place[c] # "send")
    /\ (stopping # "no") ~> (stopping = "no" \/ (stopping = "reaping" /\ awaited \in during))
=============================================================================
