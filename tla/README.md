# Agentware in TLA+

A verification development for the Agentware SDKs: TLA+ models of the parts of
the system whose behaviour depends on interleaving, order, failure or bounds,
TLC runs over small instances of them, and TLAPS proofs of the properties that
matter most. The Python SDK (`python/src/haikeilabs/agentware`, to which the
paths below are relative unless they begin with another SDK) is the reference
implementation; the Go, TypeScript and Rust SDKs mirror it, and are modelled
where their concurrency differs.

`PROJECT.json` lists every component, run, mutant, hazard and theorem, and maps
each definition that models code to the lines it models.

## The system and its parts

Agentware sits between an agent harness and a governed runtime. A harness
describes tools and asks a model what to do; every tool call is authorised by
policy before it is executed and leaves an audit record. Around that path are
the child processes that keep the runtime alive, the bundle that carries the
policy, and the helpers that keep a conversation inside its limits.

| Part | Source | State | Operations | What is hard | Module |
| --- | --- | --- | --- | --- | --- |
| Runtime link | `kei/runtime_link.py` | configuration, status, event ring, supervisor task, child process | start, stop, the supervisor and its watch loop | stop racing spawn, backoff, lines and timers; end of file; restarts | `LinkConfig`, `LinkContract`, `RuntimeLink` |
| Runtime socket | `kei/runtime_socket.py` | session cache | open, close, forget, decide, complete, stream | concurrent opens, a session lost between lookup and use, retry once, threads | `RuntimeSocket` |
| Policy bundle | `kei/policy_bundle.py` | active bundle, persisted file, refresh clock | start, refresh, evaluate | overlapping calls, crash between write and rename, expiry, failure after activation | `PolicyBundle` |
| Tool client and evaluator | `middleware/tool_client.py`, `kei/evaluator.py`, `kei/authorize_client.py` | evaluator, auditor, audit trail | Execute, delegation, replacing either | every way the child can end must deny; swaps under way; attribution | `ToolGate`, `FailClosed` |
| Inference loop | `middleware/inference.py`, `middleware/guardrails/` | attempts, error counts, completed steps | run_inference | retries, a shared configuration, prerequisite order | `Inference` |
| Context window | `llmcontext/context_window.py`, `strategies.py` | known count, thresholds fired | should_compact, compact, check_thresholds | repeated compaction, a count left by another conversation | `ContextWindow` |
| Audit logger | `go/middleware/async_logger.go` | channel, batch, flags | Log, Start, Flush, Stop | all four racing, full channel, a closed channel | `AuditPipe`, `AsyncLogger` |
| Policy rules | `kei/policy_bundle.py` | none | from_wire, to_dict, evaluate | first match, malformed documents, a bundle read back from disk | `PolicyRules` |
| Tool sync | `kei/tool_sync.py` | the registered catalogue | whole-manifest PUT with retries | a retry of what already took effect, another harness meanwhile | `KeiHarness` |
| Proxy process | `kei/proxy.py` | one child | start, stop | a child that exits by itself or ignores terminate, a start during a stop | `KeiHarness` |
| MCP route | `kei/mcproute.py` | transports, route key | call | a call repeated on the next transport | `KeiHarness` |
| Tool manifests | `toolspec/`, `tools/registry.py` | registered tools | parse, declare, register, export | what one form accepts and another drops | `ToolManifest` |
| Evaluation harness | `python/src/evals` | pool of threads, results, transcripts | one program run | threads, refused calls, what a score and an exit code mean | `EvalScore`, `EvalRun` |

The interactions that matter: the tool client asks the kei-proxy evaluator (a
child process) or a local one such as the policy bundle; the socket client is
another way to reach the same daemon; the inference loop compacts with the
context window manager, and several calls share one of each; the runtime link
supervises the daemon the socket client speaks to. A harness registers its
manifest before it serves, may run a proxy of its own, and reaches connector
tools over the proxy's MCP route. The evaluation program puts a model in front
of the same policy middleware.

## Modules

Each module header says what one step stands for. In general a step is the code
between two points where another actor can run: two awaits on an event loop,
two channel operations or critical sections in Go, two dictionary operations
where the code runs in threads. Data is kept to what the properties tell apart.

**`LinkContract`, `LinkConfig`, `RuntimeLink`.** `LinkContract` has the states,
failure classes and their tables, and the parser of child lines: a printed line
is kept by what the parser looks at, and `ParseChildLine` says what is made of
it. `LinkConfig` has the environment, what `config_from_env` and
`normalize_config` reject, the clamped interval and the range a backoff is drawn
from. A configuration comes from the environment or is built by the harness,
which is not asked for a token.
Everything in the link runs on one event loop and the link's lock is never held
across an await, so the variable `sup` is the await the supervisor is suspended
in. `Start`, `StopCall`, `StopWaited` and `StopKilled` are `start()` and the
three suspensions of `stop()`; `SupBegin`, `BackoffDone`, `SpawnOk`,
`SpawnFail`, `Watch*`, `Reaped`, `SupCancelled` and `SupKilled` are the
supervisor; the child prints lines, exits, and its timers fire. A cancelled task
resumes with CancelledError, so `cancel` disables every other supervisor step.

**`AuditPipe`, `AsyncLogger`.** `AuditPipe` is the abstract promise: a record is
accepted, perhaps handed to a caller that will deliver it, and delivered once; a
pipe that has ended accepts nothing and has left no record behind. `AsyncLogger`
is the code, and `ImplementsPipe` reads its channel, batches, sink and `done` as
a pipe. It has the buffer channel, the batch of the drain goroutine, the
batches `hold` of callers that drain synchronously, and the sink. Sends and
receives, closings, critical sections and sink writes are steps. `log`, `sent`,
`owed` and `swept` are history.

**`RuntimeSocket`.** The cache maps an identity to a session; `Lookup`,
`Store`, `Send`, `Receive`, `Forget` and `Delete` are the steps of a call.
`Threaded` tells the two uses apart: on one event loop no other call comes
between the accesses to the cache that one call makes without an await; under
the synchronous adapter, which runs every call in a thread of its own, it may. The daemon (external) opens sessions,
carries operations out, loses sessions, and may answer late, badly or never.

**`PolicyRules`, `PolicyBundle`.** `PolicyRules` has the two conversions of a
bundle, from the wire into rules and from rules to the document kept on disk,
and what the rules say of a tool call. `PolicyBundle` has processes on one host
with a shared persist path; files are inodes, so that a rename publishes
whatever the temporary name holds at that moment. `start()` and `refresh()` are
suspended in their fetch, and may overlap; start() may be called again; a
process may crash at every step and start again.

**`FailClosed`, `ToolGate`.** `FailClosed` is the abstract promise: a call gets
a verdict, the verdict is recorded, and the tool runs only after a recorded
allow that its authority granted. `ToolGate` is the code: Execute, contexts
delegated from running calls, the evaluator with its proxy child ending in every
way or raising by itself, evaluators and auditors swapped at any time. `ImplementsFailClosed`
instantiates the first with the decisions and trail of the second.

**`ContextWindow`, `Inference`.** The first has the compaction as operators on
sequences of messages; the second has run_inference for calls that share one
InferenceConfig. They are coroutines of one event loop: a call has the loop to
itself (`OnLoop`) except while the backend answers. An answer is the tools it
calls, what its text is once the reasoning adapter has seen it, and the calls
the validator can rescue from that text.

**`Loops`** has the three loops both of these and the evaluation program write
over and over (take some elements of a list, join lists, add up numbers) as
recursive functions of the position reached.

**`ToolManifest`, `KeiHarness`.** `ToolManifest` has what the strict parser of a
manifest accepts, what a typed declaration becomes on the wire and what the
registry exports, over entries that keep of each field what the rules tell
apart. `KeiHarness` has the three things a harness does with Kei around its tool
calls. `Refuse`, `SkipSync` and `Put` are the registration, `OtherPut` that of
another harness and the late effect of a PUT nobody waits for. `StartProxy`,
`StopProxy`, `WaitBegins`, `WaitEnds`, `ClearProxy` and `ChildExits` are the
proxy process: stop() reads `_process` anew for each of terminate, wait, kill,
wait and the clearing, and start() may set it between any two of them, since it
does not look whether a stop is under way. `during` is history, the children
started so. `BeginCall`,
`NotDelivered`, `BreaksOff`, `TimesOut` and `RouteAnswers` are a call that walks
over the transports. The control plane and the route are external: they apply a
PUT or run a tool whether or not the answer arrives.

**`EvalScore`, `EvalRun`.** `EvalScore` has the pure part: which suites load,
what a model client puts on the wire and makes of an answer, which calls the
policy of a case refuses, when a case has seen enough, and how it is scored.
`EvalRun` is the program: `Load`, `Preflight`, `EndGroup`, `Cancel`, `Unwind`
and `Report` are the main thread, `Take`, `Turn` and `Finish` a thread of the
pool.

`MC*` modules supply model values, symmetry and message lists to the runs;
`MCHarness` puts the evaluation program and `KeiHarness`, which share nothing,
side by side in one run. `*Proofs` modules hold the theorems.

## Runs

| Run | Instance | What it shows |
| --- | --- | --- |
| `link_supervision` | 23 configurations, every kind of line and lines at the edges of the parser, 2 lines in all, 3 spawns, a pipe of 2, a ring of 2 | a child is started only as configured; stop is final, returns and leaves no child; status and newest event describe the current child; a silent child is killed |
| `link_exit` | 3 kinds of line, 3 spawns | **violated**: an exit the watch loop never notices |
| `logger_threads` | 3 records, 1 Flush, 2 Stops, channel and batch of 2 | the logger implements the pipe; nothing lost, doubled or reordered; an acknowledged flush delivers; everything returns |
| `logger_panic` | 2 records, 1 Flush, 1 Stop | **violated**: Log sends on the channel Stop has closed |
| `socket_threads` | 2 calls in threads, 2 identities, 3 sessions | own session, another session for the retry, carried out once, closed stays out, returns |
| `socket_replaced` | 2 calls, 1 identity | **violated**: a call deletes another's replacement session |
| `bundle_safety` | 1 process, 3 calls, 3 versions (one expiring, one with a time zone), clock to 2 | only a bundle in force allows; overlap, failure and crash keep memory and file sound |
| `bundle_atomic` | 2 processes, 1 call each, 2 versions | **violated**: half a bundle is published |
| `gate_refines` | 2 calls, 2 people, 2 auditors, all 3 kinds of evaluator | the client implements the fail-closed gate; one record each, naming the person |
| `inference_loop` | 2 calls in one session, 2 attempts, a window of 12, 4 conversations | compaction keeps the essential and drops by need; failures are counted; attempts run out |
| `evals_harness` | 11 command lines with suites good and bad, 2 threads; 227 manifests and settings, 1 caller, 2 proxies, 2 keys | a pass is earned, a refusal is told to the model, counts, transcripts and exit codes agree; a file is registered as it was read, before the harness serves; no proxy is left behind but one started during a stop; every run of a tool is accounted for; everything ends |
| `inference_steps` | 1 call, up to 2 tool calls in an answer | **violated**: a blocked tool call is returned |

Deadlock is not checked: in every model the callers may be done, the logger may
be stopped and the child may stay silent, and then nothing has to happen.

*Why the bounds are enough.* Two of a kind is where interleavings begin, and
each bound leaves room to pass the limit it is about: a third run follows a
restart after the crash threshold (2) has been counted; a third record meets a
full channel and a full batch; three sessions let both attempts of one call
find theirs gone while another call opens its own; three versions and three
calls let a slow answer arrive after two newer ones; the four conversations of
`MCInference` are short, reach the target with something worth cutting, exceed it
by what cutting saves, and exceed it whatever is dropped. A configuration at the edge of every number is
run; those one step past it are rejected. The manifests deviate from a good one
in one field at a time, which is where the rules of the parser differ. Two
proxies let a second start meet the end of the first or a stop under way (three
change nothing but the time the run takes), and two keys let one be rotated
during a call. `MaxAttempts`, `MaxErrors`, the ring size, the
channel depth and the batch size are parameters of the code, taken small; the
bounds on lines, runs, versions, sessions and the clock are the model's own, and
stand in guards. Symmetry is used where calls are interchangeable and no
property is temporal with fairness.

Every property of a passing run has a mutant in `PROJECT.json`: a plausible bug
in one definition under which the run finds the property violated.

## Fairness

* Runtime link: the event loop runs a ready task, timers fire, the exit of a
  child is reported, and a killed child dies. Nothing obliges a child to print
  or the harness to stop, and stop() itself is never forced to be called.
* Audit logger: Go runs every goroutine that can proceed, the ticker included;
  the sink returns from a write. Nobody is obliged to call Start, Log, Flush or
  Stop.
* Socket client: the event loop or the thread scheduler runs every call, and a
  request without an answer times out. The daemon is not assumed to answer.
* Evaluation program: the main thread and the threads of the pool run; a model
  answers or raises (the client has a timeout).
* Harness: the registration goes on, stop() goes from wait to kill after five
  seconds and returns when the child it waits for is gone, and a request is answered, breaks off or times out. Nobody is
  obliged to start or stop a proxy.
* Inference: no fairness. `AttemptsRunOut` states termination as a variant, so
  that it is a property of single steps. Policy bundle: no liveness is claimed,
  since a fetch may fail for ever.

## Proofs

All proofs hold for every value of the constants that the named assumptions of
the modules allow (bounds are naturals, the ring and the channel are not empty,
`NoCall` is not a call, ...).

* `RuntimeLinkProofs`. `NoOrphan` and `StoppedIsFinal` are not inductive: they
  say nothing of a link that is being stopped. `StopInv` adds that a stopped
  link has an ended or cancelled supervisor, and that a running child is one the
  watch loop holds, `_process` names and stop() has not yet come to kill; then
  no step of a cancelled supervisor can spawn, and both follow. `ShownInv`
  relates the ring, the status and the child being watched, and gives
  `NewestEventIsState` and `StatusIsOfCurrentRun`; `LinesTyped` shows that the
  parser returns a line the watch loop knows, whatever is printed. `Supervision`
  proves `SupervisedAsConfigured` for every environment: what `normalize_config`
  lets through is sound (`ConfiguredSoundly`), only a link with such a
  configuration has a child, and the range the next sleep is drawn from,
  `restart.min` at first, has been doubled by every child that ended, however it
  ended, up to `restart.max`. The sleep itself is drawn from nothing up to that
  range. `StopIsShort` counts
  the steps that are left after stop(), two of the supervisor and two of stop()
  itself. `ExitIsMissed` is the general form of the violated `link_exit`: no
  step but stop() ends the watch of a child that is gone and has been read to the
  end, and the link goes on showing the state it had.
* `ClientProofs`, the asynchronous logger. `LoggerInv` relates the flags, the
  drain goroutine and the callers: the channel is closed by a Stop only, `done`
  only by a goroutine that has drained it or by a Stop of a logger that never
  started. From it `DoneIsDrained`; with `NoneLost` it gives
  `AckedFlushDelivers`, since a flush request is acknowledged with channel and
  batch empty. `InOrder` needs the order of the three queues together with the
  empty hands of the callers. `PipeRefinement` shows that each action is a step
  of `AuditPipe` or a stutter; a write continues the sink without repeating a
  record because every record is in one place (`PlacesInvariant`), and `done`
  ends the pipe because the channel and the batch are empty then.
  `NobodyWaitsInVain` says that who waits for the drain goroutine waits for one
  that runs. `PanicsOnlyInRace` is the counterpart of the violated
  `logger_panic`: if no Stop closes the channel while a Log is between its check
  and its send, no Log panics.
* `ClientProofs`, the socket client. `SocketInv` has as its core that a session
  just issued is known to one call only (`Issued`): no late answer can put back
  a session that another call has dropped, which is why the retry is in another
  session (`RetryInAnother`) and a closed one stays out (`ClosedStaysOut`) in
  threads too. `LoopKeepsReplacement` is the counterpart of the violated
  `socket_replaced`: on one event loop the comment of `_forget` is right.
  `CallsMoveOn` numbers the places of a call, those of its retry after those of
  its first attempt, and shows that no step goes back.
* `ToolProofs`, the audited tool client. `GateInv` says a call is decided,
  recorded and run in this order, by a granted decision, in a context that does
  not change, after the call that delegated it. `GateRefinement` shows Init maps
  to Init and each action to a step of `FailClosed` or a stutter.
* `PolicyBundleProofs`. The invariant says what a process has, a file holds and
  a call carries: bundles parsed from published documents. The conversions enter
  as round trips: parsing what to_dict wrote gives the rules back, and is never
  refused (`DiskReadsBack`).
  `AllowedByBundle`, `SetBackIsStale` and `StaysLoaded` hold for any number of
  processes on one path; the second says when a process goes back to an older
  bundle: start() reads a file in which the last activation was not saved or
  that another process writes too, or a call's answer was overtaken by another
  call. `PathIsWhole` and `SavedIsActive` assume
  `OneProcess`, that one process has the path to itself: the steps of a write
  have no await between them, so one call at a time is in it. Without the
  assumption they are false, which is what `bundle_atomic` shows.
* `LoopProofs`. What the loops of `Loops` compute for every list. The induction
  principle is stated with a set instead of a predicate (`SetInduction`,
  `BoundedInduction`: a set that has 0 and, with a number, the next has them
  all), from the well-foundedness of the naturals; with it the recursive
  functions are shown to exist (`TakenDef`, `SummedDef`, `JoinedDef`) and to be
  what they should: `Select` lists its places once and in order (`SelectPicks`),
  two selections with the same elements are equal (`SelectSame`), a sum grows
  with its parts (`SumPicked`), and a join has the elements of its parts and no
  others (`JoinHas`).
* `InferenceProofs`. Every step of a call moves it on within an attempt, begins
  another below the limit, or ends it; hence `AttemptsRunOut`. `FailuresCounted`
  rests on `TrackInv`, with the failures of a session as the set of attempts
  that failed in it. The compaction is followed phase by phase: each returns a
  selection of its input with some texts cut, and what it keeps is no larger
  (`CutOnlyWhenFull`). `EssentialKept` is not inductive, since the next
  compaction looks only at the conversation as it is. `KeepsInv` says how that is
  related to the one that was given: there is a map from its places to those of
  the input, or to none for warnings, nudges and answers, that keeps order, step
  and type, alters nothing essential, and reaches every essential place. From it
  the recent steps are those of the input after every phase, which gives
  `EssentialKept` and `DropsByNeed`. Both theorems assume `StepsInTurn` of the
  inputs: once a recent step has begun, no older one is worked on. An agent
  builds conversations so. In one that returns to an older step, a compaction
  that drops the first message of that step makes it begin later and take the
  place of a recent one. `MCInference` assumes `StepsInTurn` of its
  conversations, so that TLC evaluates it.
* `ToolProofs`, the harness. A running proxy is the one `_process` names or was
  started during a stop: `ProxyInv` adds that the child stop() waits for is the
  one `_process` names unless such a start has replaced it. What
  is under way when the registration gives up is this harness's manifest, so
  that it serves only what was applied; a file's tools are on the wire as they
  were parsed; a call's tool ran at most once for each answer that broke off and
  once more. `TriesAreBounded` adds that a transport is tried once, hence at most
  three runs; `HarnessMovesOn` that startup, calls and stops only go forward.
* `EvalProofs` and `ReportProofs`, the evaluation program. The properties hold
  for every command line, every set of answers and every number of threads that
  `CommandsAssumption` and `AnswersAssumption` allow: lists are lists, numbers
  integers, --suite has an argument, legacy cases have names of their own.
  Everything a suite must satisfy is proved of the loader instead (`GroupsSound`
  and the lemmas before it: validation, --case and --repeats leave no suite
  empty, no case without a name of its own, no expected tool beside the
  expectation of none). `StageInv` says which groups are counted at which stage;
  `PoolInv` that a unit without a result is in the queue once or held by one
  thread, so that threads settle different units and a group ends with none at
  work. `GoodInv` adds that every call of a run was recorded as the policy
  judged it, that a refusal is in the conversation, that a deny case is in its
  last turn after the first and is not ended before it while turns are left, and
  that a reply cut at the limit is known as one unless the client hides it;
  `PassesAreEarned` follows with the scoring, and
  `RefusalsAreFedBack` with `WireTells`, which follows a refusal through the
  wire format of each client. `LineInv` says the lines of the group under way
  are those of its ended units; when the last has ended, counting case by case
  is counting all (`CountByCase`), passed and errored are disjoint, and lines
  and units are as many, which is `ReportsAreRight`. `EvalTypeCorrect` has the
  bounds on threads and turns.

*Only model-checked:* liveness (`SilentChildIsKilled`, `StopReturns`,
`RecordIsShipped`, `CallsReturn`, `CallReturns`, `EvalEnds`, `HarnessReturns`),
which rests on fairness and on ENABLED and so is out of the prover's reach. What
does not need fairness in it is proved where it is a matter of single steps: that
nothing goes round (`StopIsShort`, `CallsMoveOn`, `HarnessMovesOn`,
`AttemptsRunOut`) and that nobody waits for a goroutine that has gone
(`NobodyWaitsInVain`). Every other property of a passing run is a theorem.

## Differences between the code and its documentation

Five are runs that TLC finds violated, recorded as findings in `PROJECT.json`:
`link_exit`, `logger_panic`, `socket_replaced`, `bundle_atomic` and
`inference_steps`. Others were met while modelling; the models follow the code.

* Runtime link. `terminal` is called non-recoverable
  (`docs/runtime-link-integration.md:191`), but a later identity or a timeout
  and restart leave it (`kei/runtime_link.py:1291`). The reason is to be empty
  when connected (`docs/specs/runtime-heartbeat-liveness.md:111`), but the beat
  timeout stores one without a change of state (`runtime_link.py:1227`).
  A beat may take up to `beat_timeout`, which is checked against the interval
  and not against `grace` (`runtime_link.py:316`): if the child prints a beat
  when it has its answer, one that takes longer than `grace` is late. The backoff
  is said to reset after `stable_reset` seconds
  (`docs/runtime-link-integration.md:147`); the setting is never applied. stop()
  of a disabled link without a harness kind raises out of the event it emits
  (`runtime_link.py:718`), where such a link is said to stop immediately
  (`:1476`). A link from new_link() is started without a token, which only
  config_from_env() asks for.
* Audit logger. A Flush after Stop returns when the channel is empty, which may
  be before the drain goroutine has written its batch (`async_logger.go:138`); a
  second Stop returns at once, before the first has (`async_logger.go:163`).
* Socket client. In threads `del` in `_forget` may meet an entry that is already
  gone, and the KeyError is not a KeiProxySocketError (`runtime_socket.py:541`,
  against `:22`). It is a result of a call in the model.
* Policy bundle. start() does not count as an attempt, so a refresh right after
  it sends a second request, and the interval is 30 seconds where the docstring
  says 5 (`policy_bundle.py:745`). A document that is not an object raises out
  of start(), and a cached bundle is not activated (`:788`, against `:692`). An
  OSError of the write leaves refresh(), which is said to return None (`:739`).
  A missing URL or token makes the process local-only, which allows every call,
  where the docstring says it raises (`:673`, against `:604`). An `expires_at`
  with a time zone makes evaluate() raise a TypeError (`:273`, against `:798`).
  A start() after a persist that failed puts the older bundle of the file in the
  place of the active one until its fetch succeeds (`:708`).
* Tool client. An evaluator that raises leaves no record, where the docstring
  says "audit either way" (`tool_client.py:74`). A FILTER decision of a bundle
  carries no changed arguments (`policy_bundle.py:283`, against
  `docs/middleware-llm-guide.md:260`).
* Inference. Threshold warnings are called transient (`context_window.py:135`)
  but stay in the conversation, and no phase drops them. A nudge is appended
  before the answer it is about, and as neither has a step the next compaction
  may drop both before the model has seen them. A rescued object whose tool name
  cannot be hashed raises out of run_inference (`response_validator.py:150`).
* Tool sync, proxy and route. A call may be repeated after its connection broke
  (`mcproute.py:413`), so that an answer `denied` does not mean the tool never
  ran. `ToolSpec.to_wire` accepts what `parse_manifest_v3` rejects and drops the
  parameters. An error in an event stream is returned by call() as a result that
  is null, and the stream is read before the status is looked at
  (`mcproute.py:553`). A start() that overlaps a stop() leaves its child running
  with nobody to hold it (`proxy.py:217`), or makes stop() wait for a child that
  it has not told to end (`:216`). The pipes of the proxy are never read.
* Evaluation. A reply cut off at `--max-tokens` is said to fail
  (`docs/evals/README.md:123`, `evals/main.py:232`). It is noticed only where the
  client reports `length` (`evals/runner.py:416`), which the Anthropic and Ollama
  clients do not, and only in a case with content checks. A deny case is said to
  get "exactly one more turn" (`evals/runner.py:574`, `docs/evals/README.md:118`);
  a refusal in the last of `--max-turns` gets none, and its case is scored.
  `--max-turns 0` lets a case pass that never asked the model; two paths
  may hold suites of one name; an OSError exits with the code for a score below
  the threshold. The benchmark rounds the rate it compares, the exit code does
  not.
* Jobs. complete(), fail() and cancel() do not look at the status, so a finished
  job may be given another (`jobs/manager.py:75`).
* Memory client. call() writes a request and reads the next line; in threads a
  caller may read another's reply, as ids are not compared
  (`memory/client.py:159`).

## Not modelled, and why

Prompts, tool formats, reasoning text, rescue of tool calls from text, and
linting are functions of strings. Model backends and the control plane appear as
inputs. Confidence scores and claim inference in `memory/` are floating-point
arithmetic. Authentication reads settings once; its token exchange is not
implemented. The conversation history has one caller. An InferenceConfig shared
by event loops of several threads is not modelled: its error tracker has no lock
(`error_tracker.py:49`), so that one of two failures recorded at once may be lost.
Of the runtime link, a child that closes its output and lives on, and a line too
deeply nested for the JSON parser, whose RecursionError leaves the watch loop, are
left out. Two calls of start(), or two of stop(), of the proxy at once are left
out. The executor is one
sequential loop around what `Inference` and `ToolGate` model. The job table and
the memory client lack the guard that a property of theirs would be about (see
the differences above). The Go rate limiter works in one critical section. The
guardrails facade has no state but what its caller passes. Sinks of metrics and
lifecycle events are handed values and change nothing. The Go, TypeScript and
Rust ports of the Python parts repeat their structure with other ways to block,
and would each need a model of its own. `PROJECT.json` has every part with its
reason.
