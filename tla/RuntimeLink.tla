----------------------------- MODULE RuntimeLink -----------------------------
(***************************************************************************)
(* The Python runtime link: one asyncio supervisor task that spawns the    *)
(* runtime child, watches its stdout against an identity timer and a beat  *)
(* timer, restarts it with backoff, and a harness that starts and stops    *)
(* the link.                                                               *)
(*                                                                         *)
(* Everything runs on one event loop, and the link's asyncio lock is never *)
(* held across an await, so the code between two awaits is one step.       *)
(* `sup' is the await the supervisor task is suspended in.  A cancelled    *)
(* task resumes with CancelledError whatever it was waiting for, so        *)
(* `cancel' disables every other supervisor step.                          *)
(***************************************************************************)
EXTENDS LinkContract, LinkConfig

CONSTANTS
    Environments,    \* variables, envelope and own configuration a harness may have
    Output,          \* the stdout lines the runtime child may print
    MaxPipe,         \* bound: unread lines in the stdout pipe
    MaxLines,        \* bound: lines printed in a behaviour
    MaxRuns,         \* bound: spawn attempts in a behaviour
    RingSize,        \* EVENT_BUFFER_SIZE
    CrashThreshold   \* CRASHLOOP_THRESHOLD

ASSUME BoundsAssumption ==
    /\ MaxPipe \in Nat \ {0}
    /\ MaxLines \in Nat
    /\ MaxRuns \in Nat \ {0}
    /\ RingSize \in Nat \ {0}
    /\ CrashThreshold \in Nat \ {0}

ASSUME EnvironmentsAssumption ==
    \A e \in Environments :
        /\ e.interval \in Int /\ e.restart_min \in Int /\ e.restart_max \in Int
        /\ e.config \in Seq(RuntimeLinkConfig)

ASSUME OutputAssumption == Output \subseteq RawLine

(* What the parser makes of them.                                          *)
Lines == {ParseChildLine(line) : line \in Output}

VARIABLES
    env,       \* the variables, envelope and own configuration of the harness
    started,   \* _started
    stopped,   \* _stopped
    stopper,   \* the await the first effective stop() is suspended in
    link,      \* the status the lock guards, with the event ring
    crashes,   \* length of _crash_times
    sup,       \* the await the supervisor task is suspended in
    cancel,    \* the supervisor task has been cancelled
    owned,     \* _process is not None
    proc,      \* the newest child: "exited" when it is dead, "gone" when the
               \* event loop has seen its exit and the end of its stdout
    run,       \* number of the newest spawn attempt; its child's run_id
    pipe,      \* the unread lines of its stdout
    printed,   \* lines printed so far (bound only)
    seen,      \* identity_received
    timer      \* the timer the watch loop waits on

harness == <<env, started, stopped, stopper>>
child   == <<proc, run, pipe, printed>>
watch   == <<seen, timer>>
task    == <<sup, cancel, owned>>
vars    == <<harness, link, crashes, child, watch, task>>

Event == [state : LinkStates, reason : Reasons]

Status ==
    [state : LinkStates, reason : Reasons, fails : Nat, restarts : Nat,
     runId : Nat, identity : Nat, ring : Seq(Event)]

SupStates ==
    {"none", "top", "backoff", "spawning", "watching", "reaping", "killing",
     "done"}

(* Every variable keeps its type and the event ring its size: no sequence  *)
(* of child lines, timeouts, restarts and harness calls overfills it.      *)
TypeOK ==
    /\ env \in Environments /\ started \in BOOLEAN /\ stopped \in BOOLEAN
    /\ stopper \in {"idle", "waiting", "killing", "returned", "raised"}
    /\ link \in Status /\ Len(link.ring) <= RingSize
    /\ crashes \in 0..CrashThreshold
    /\ sup \in SupStates /\ cancel \in BOOLEAN /\ owned \in BOOLEAN
    /\ proc \in {"none", "running", "killed", "exited", "gone"}
    /\ run \in 0..MaxRuns /\ pipe \in Seq(Lines) /\ printed \in 0..MaxLines
    /\ seen \in BOOLEAN /\ timer \in {"armed", "fired"}

Init ==
    /\ env \in Environments /\ started = FALSE /\ stopped = FALSE
    /\ stopper = "idle"
    /\ link = [state |-> "disabled", reason |-> None, fails |-> 0,
               restarts |-> 0, runId |-> 0, identity |-> 0, ring |-> <<>>]
    /\ crashes = 0
    /\ proc = "none" /\ run = 0 /\ pipe = <<>> /\ printed = 0
    /\ seen = FALSE /\ timer = "armed"
    /\ sup = "none" /\ cancel = FALSE /\ owned = FALSE

-----------------------------------------------------------------------------
(* The event ring drops its oldest event when it is full.                  *)
Push(r, ev) ==
    IF Len(r) < RingSize THEN Append(r, ev) ELSE Append(Tail(r), ev)

Emit(l, s, why) == [l EXCEPT !.ring = Push(@, [state |-> s, reason |-> why])]

(* _transition_locked: every transition emits an event.                    *)
Transition(l, s, why) ==
    Emit([l EXCEPT !.state = s, !.reason = why], s, why)

Reconnecting(l) == Transition(l, "reconnecting", None)
Starting(l) == Transition(l, "starting", None)

(* _handle_identity, for the child numbered r *)
HandleIdentity(l, line, r) ==
    Transition([l EXCEPT !.identity = r, !.runId = r, !.fails = line.dropped],
               IF l.state = "starting" THEN "connected" ELSE "degraded", None)

(* Mutant: an accepted beat connects the link from any state.              *)
HandleBeatConnects(l, line, r) ==
    Transition([l EXCEPT !.runId = r, !.fails = 0], "connected", None)

(* _handle_beat *)
HandleBeat(l, line, r) ==
    CASE line.outcome = "ok" ->
            LET ok == [l EXCEPT !.runId = r, !.fails = 0]
            IN  IF l.state \in {"degraded", "reconnecting"}
                  THEN Transition(ok, "connected", None)
                  ELSE ok
      [] line.outcome = "unauthorized" ->
            Transition([l EXCEPT !.runId = r], "terminal",
                       "installation_unauthorized")
      [] OTHER ->
            LET bad == [l EXCEPT !.runId = r, !.fails = @ + 1]
            IN  IF l.state = "connected"
                  THEN Transition(bad, "degraded",
                                  ClassifyBeatOutcome(line.outcome))
                  ELSE bad

(* _handle_terminal *)
HandleTerminal(l, line) == Transition(l, "terminal", ClassifyTerminal(line.why))

(* _read_stdout and _handle_child_event: a rejected line is counted, an    *)
(* unknown event is ignored.                                               *)
HandleLine(l, line, r) ==
    CASE line.kind = "identity" -> HandleIdentity(l, line, r)
      [] line.kind = "beat"     -> HandleBeat(l, line, r)
      [] line.kind = "terminal" -> HandleTerminal(l, line)
      [] line.kind = "rejected" -> [l EXCEPT !.fails = @ + 1]
      [] OTHER                  -> l

(* Mutant: a child that was killed does not count as a restart.            *)
HandleChildExitUncounted(l, code) ==
    IF ExitIsTerminal(code) THEN Transition(l, "terminal", ExitClass(code)) ELSE l

(* _handle_child_exit: a terminal code ends the link, zero changes nothing *)
(* and any other code counts a restart.                                    *)
HandleChildExit(l, code) ==
    IF ExitIsTerminal(code) THEN Transition(l, "terminal", ExitClass(code))
    ELSE IF code = 0 THEN l
    ELSE [l EXCEPT !.restarts = @ + 1]

Killed(p) == IF p = "running" THEN "killed" ELSE p

(* Mutant: a child that is still running is only forgotten.                *)
KillChildForgets(pc, wait, next) ==
    proc' = proc /\ pc' = next /\ owned' = FALSE

(* _kill_child, up to its wait: the caller goes on to `wait' if there is a *)
(* child to reap, otherwise to `next'.                                     *)
KillChild(pc, wait, next) ==
    IF owned /\ proc \in {"running", "killed", "exited"}
      THEN proc' = Killed(proc) /\ pc' = wait /\ owned' = owned
      ELSE proc' = proc /\ pc' = next /\ owned' = FALSE

-----------------------------------------------------------------------------
(* The harness *)

(* The link's configuration, when there is one.                            *)
Config == Normalize(ConfigOf(env))

(* new_link and start(): without a configuration there is no link.         *)
Start ==
    /\ Configured(env) /\ ~started /\ ~stopped
    /\ started' = TRUE
    /\ sup' = IF Config.enabled THEN "top" ELSE sup
    /\ UNCHANGED <<env, stopped, stopper, link, crashes, child, watch,
                   cancel, owned>>

(* A lifecycle event names a kind of harness; without one, which a link    *)
(* that is disabled may lack, building the event raises.                   *)
EventRaises == Config.kind # "fine"

(* stop() up to its wait for the cancelled supervisor.                     *)
StopCall ==
    /\ started /\ ~stopped
    /\ stopped' = TRUE
    /\ \/ /\ link.state # "terminal" /\ EventRaises
          /\ link' = [link EXCEPT !.state = "stopped", !.reason = None]
          /\ stopper' = "raised" /\ cancel' = cancel
       \/ /\ link.state = "terminal" \/ ~EventRaises
          /\ link' = IF link.state = "terminal" THEN link
                                                ELSE Transition(link, "stopped", None)
          /\ IF sup \in {"none", "done"}
               THEN stopper' = "returned" /\ cancel' = cancel
               ELSE stopper' = "waiting" /\ cancel' = TRUE
    /\ UNCHANGED <<env, started, crashes, child, watch, sup, owned>>

(* The supervisor has finished or stop_timeout has elapsed.                *)
StopWaited ==
    /\ stopper = "waiting"
    /\ KillChild(stopper, "killing", "returned")
    /\ UNCHANGED <<env, started, stopped, link, crashes, run, pipe,
                   printed, watch, sup, cancel>>

(* The child was reaped, or the five seconds for it have elapsed.          *)
StopKilled ==
    /\ stopper = "killing"
    /\ stopper' = "returned" /\ owned' = FALSE
    /\ UNCHANGED <<env, started, stopped, link, crashes, child, watch,
                   sup, cancel>>

(* events(): a consumer takes the oldest event.                            *)
ConsumeEvent ==
    /\ link.ring # <<>>
    /\ link' = [link EXCEPT !.ring = Tail(@)]
    /\ UNCHANGED <<harness, crashes, child, watch, task>>

-----------------------------------------------------------------------------
(* The supervisor task *)

(* The head of the loop: a restarted supervisor backs off first.           *)
LoopTop(l) ==
    IF l.restarts > 0
      THEN link' = Reconnecting(l) /\ sup' = "backoff"
      ELSE link' = Starting(l) /\ sup' = "spawning"

SupBegin ==
    /\ sup = "top" /\ ~cancel
    /\ LoopTop(link)
    /\ UNCHANGED <<harness, crashes, child, watch, cancel, owned>>

(* Mutant: a cancellation does not interrupt the backoff.                  *)
BackoffDoneUncancelled ==
    /\ sup = "backoff"
    /\ link' = Starting(link) /\ sup' = "spawning"
    /\ UNCHANGED <<harness, crashes, child, watch, cancel, owned>>

BackoffDone ==
    /\ sup = "backoff" /\ ~cancel
    /\ link' = Starting(link) /\ sup' = "spawning"
    /\ UNCHANGED <<harness, crashes, child, watch, cancel, owned>>

(* Mutant: a spawn that outlives stop() still reports its child.           *)
SpawnOkUncancelled ==
    /\ sup = "spawning" /\ run < MaxRuns
    /\ run' = run + 1
    /\ proc' = "running" /\ owned' = TRUE /\ pipe' = <<>>
    /\ link' = Emit(link, "starting", link.reason)
    /\ seen' = FALSE /\ timer' = "armed"
    /\ sup' = "watching"
    /\ UNCHANGED <<harness, crashes, printed, cancel>>

(* The child is up: the started event is emitted again, the watch begins.  *)
SpawnOk ==
    /\ sup = "spawning" /\ ~cancel /\ run < MaxRuns
    /\ run' = run + 1
    /\ proc' = "running" /\ owned' = TRUE /\ pipe' = <<>>
    /\ link' = Emit(link, "starting", link.reason)
    /\ seen' = FALSE /\ timer' = "armed"
    /\ sup' = "watching"
    /\ UNCHANGED <<harness, crashes, printed, cancel>>

(* The supervisor caught a transient error.  After CrashThreshold of them, *)
(* if they are close enough in time, the link gives up; otherwise it goes  *)
(* round the loop.                                                         *)
TransientError(l) ==
    /\ crashes' = IF crashes < CrashThreshold THEN crashes + 1 ELSE crashes
    /\ LET counted == [l EXCEPT !.restarts = @ + 1]
       IN  \/ /\ crashes' = CrashThreshold
              /\ link' = Transition(counted, "terminal", "runtime_crashloop")
              /\ sup' = "done" /\ owned' = FALSE
           \/ LoopTop(Reconnecting(counted)) /\ owned' = owned

SpawnFail ==
    /\ sup = "spawning" /\ ~cancel /\ run < MaxRuns
    /\ run' = run + 1
    /\ TransientError(link)
    /\ UNCHANGED <<harness, proc, pipe, printed, watch, cancel>>

(* Mutant: the watch loop swallows its cancellation.                       *)
SupCancelledNotWatching ==
    /\ cancel /\ sup \notin {"killing", "done", "watching"}
    /\ KillChild(sup, "killing", "done")
    /\ UNCHANGED <<harness, link, crashes, run, pipe, printed, watch, cancel>>

(* The CancelledError of stop() reaches the task: its finally clause runs  *)
(* _kill_child.                                                            *)
SupCancelled ==
    /\ cancel /\ sup \notin {"killing", "done"}
    /\ KillChild(sup, "killing", "done")
    /\ UNCHANGED <<harness, link, crashes, run, pipe, printed, watch, cancel>>

SupKilled ==
    /\ sup = "killing"
    /\ sup' = "done" /\ owned' = FALSE
    /\ UNCHANGED <<harness, link, crashes, child, watch, cancel>>

-----------------------------------------------------------------------------
(* The watch loop *)

(* Whether a line restarts the timer the loop waits on.  Before identity   *)
(* that is the identity timer, which a beat does not touch.                *)
RestartsTimer(line) ==
    line.kind = "identity" \/ (line.kind = "beat" /\ seen)

(* A line after which the loop finds its timer elapsed.  A dropped line    *)
(* `continue's past the timers instead.                                    *)
Late(line) ==
    /\ line.kind \in {"beat", "terminal"}
    /\ timer = "fired" /\ ~RestartsTimer(line)

Unresponsive(l) == [l EXCEPT !.reason = "runtime_unresponsive"]

WatchLine ==
    /\ sup = "watching" /\ ~cancel /\ pipe # <<>>
    /\ LET line == Head(pipe)
       IN  /\ ~Late(line)
           /\ link' = HandleLine(link, line, run)
           /\ seen' = (seen \/ line.kind = "identity")
           /\ timer' = IF RestartsTimer(line) THEN "armed" ELSE timer
    /\ pipe' = Tail(pipe)
    /\ UNCHANGED <<harness, crashes, proc, run, printed, task>>

(* The timer is acted upon in the same iteration: the child is killed, or, *)
(* if it is already gone, kill() raises ProcessLookupError.                *)
WatchLineLate ==
    /\ sup = "watching" /\ ~cancel /\ pipe # <<>>
    /\ Late(Head(pipe))
    /\ LET after == Unresponsive(HandleLine(link, Head(pipe), run))
       IN  IF proc = "gone"
             THEN TransientError(after) /\ proc' = proc
             ELSE /\ link' = after
                  /\ proc' = Killed(proc) /\ sup' = "reaping"
                  /\ UNCHANGED <<crashes, owned>>
    /\ pipe' = Tail(pipe)
    /\ UNCHANGED <<harness, run, printed, watch, cancel>>

(* Mutant: the identity timer is never acted upon.                         *)
WatchTimeoutBeatOnly ==
    /\ sup = "watching" /\ ~cancel /\ seen
    /\ timer = "fired" /\ proc # "gone"
    /\ link' = Unresponsive(link)
    /\ proc' = Killed(proc) /\ sup' = "reaping"
    /\ UNCHANGED <<harness, crashes, run, pipe, printed, watch, cancel, owned>>

(* The awaited timer elapses before the read task has a line (one may be   *)
(* in the pipe already): the child is killed, unread lines are lost.       *)
WatchTimeout ==
    /\ sup = "watching" /\ ~cancel
    /\ timer = "fired" /\ proc # "gone"
    /\ link' = Unresponsive(link)
    /\ proc' = Killed(proc) /\ sup' = "reaping"
    /\ UNCHANGED <<harness, crashes, run, pipe, printed, watch, cancel, owned>>

(* At end of file readline returns at once, so the read task is done in    *)
(* every iteration, with nothing: the loop `continue's past its timers and *)
(* past its exit test.                                                     *)
WatchEof ==
    /\ sup = "watching" /\ ~cancel
    /\ pipe = <<>> /\ proc = "gone"
    /\ UNCHANGED vars

(* The killed child is reaped; the watch returns -1 and the loop restarts. *)
Reaped ==
    /\ sup = "reaping" /\ ~cancel /\ proc = "gone"
    /\ LoopTop(HandleChildExit(link, -1))
    /\ UNCHANGED <<harness, crashes, child, watch, cancel, owned>>

-----------------------------------------------------------------------------
(* The runtime child and the clock *)

ChildPrints ==
    /\ proc = "running" /\ Len(pipe) < MaxPipe /\ printed < MaxLines
    /\ printed' = printed + 1
    /\ \E line \in Lines : pipe' = Append(pipe, line)   \* parsed when it is read
    /\ UNCHANGED <<harness, link, crashes, proc, run, watch, task>>

ChildExits ==
    /\ proc \in {"running", "killed"}
    /\ proc' = "exited"
    /\ UNCHANGED <<harness, link, crashes, run, pipe, printed, watch, task>>

(* The event loop's child watcher and pipe transports report the exit.     *)
ExitSeen ==
    /\ proc = "exited"
    /\ proc' = "gone"
    /\ UNCHANGED <<harness, link, crashes, run, pipe, printed, watch, task>>

TimerFires ==
    /\ sup = "watching" /\ timer = "armed"
    /\ timer' = "fired"
    /\ UNCHANGED <<harness, link, crashes, child, seen, task>>

Supervisor ==
    \/ SupBegin \/ BackoffDone \/ SpawnOk \/ SpawnFail
    \/ SupCancelled \/ SupKilled
    \/ WatchLine \/ WatchLineLate \/ WatchTimeout \/ WatchEof \/ Reaped

Next ==
    \/ Start \/ StopCall \/ StopWaited \/ StopKilled \/ ConsumeEvent
    \/ Supervisor
    \/ ChildPrints \/ ChildExits \/ ExitSeen \/ TimerFires

Spec == Init /\ [][Next]_vars

(* The event loop runs every task that can run, timers elapse, and a       *)
(* killed process dies.  Nothing obliges the harness to start or stop the  *)
(* link, a child to print or to exit by itself, or a spawn to succeed.     *)
Fairness ==
    /\ WF_vars(Supervisor)
    /\ WF_vars(StopWaited) /\ WF_vars(StopKilled)
    /\ WF_vars(TimerFires) /\ WF_vars(ExitSeen)
    /\ WF_vars(proc = "killed" /\ ChildExits)

FairSpec == Spec /\ Fairness

-----------------------------------------------------------------------------
(* Properties *)

(* Once stop() has put the link in `stopped' nothing moves it again, though *)
(* lines, timeouts and a spawn may be in flight in the supervisor task when *)
(* stop() cancels it.                                                       *)
StoppedIsFinal == [][link.state = "stopped" => link'.state = "stopped"]_vars

(* When stop() returns, by whichever of its exits (the supervisor finished, *)
(* stop_timeout, the five-second reap), or raises, no runtime child has     *)
(* been left running, and none is started afterwards.                       *)
NoOrphan == stopper \in {"returned", "raised"} => proc # "running"

(* Why the two properties above hold: a stopped link's supervisor is ended  *)
(* or cancelled, only a supervisor that has not been cancelled spawns, and  *)
(* a running child is one the watch loop holds, that _process still names,  *)
(* and that stop() has not yet come to kill.                                *)
StopInv ==
    /\ ~started => ~stopped /\ ~cancel /\ sup = "none"
    /\ stopper # "idle" => stopped
    /\ stopped => cancel \/ sup \in {"none", "done"}
    /\ link.state = "stopped" => stopped
    /\ proc = "running" =>
          owned /\ sup = "watching" /\ stopper \in {"idle", "waiting"}

(* The newest event a consumer has not taken describes the current state:   *)
(* the events of stop(), of the supervisor and of the watch loop, including *)
(* the second `started' of a spawn, are never out of order.                 *)
Newest(l) == l.ring # <<>> => l.ring[Len(l.ring)].state = l.state

NewestEventIsState == Newest(link)

(* A link that reports `connected' or `degraded' for the child it watches   *)
(* shows the run and the identity of that child, not of an earlier one.     *)
StatusIsOfCurrentRun ==
    sup \in {"watching", "reaping"} /\ link.state \in {"connected", "degraded"}
        => link.identity = run /\ link.runId = run

(* Why the two properties above hold: a supervisor that has not been        *)
(* cancelled spawns from `starting' only, and while it watches the link is  *)
(* never `reconnecting', the other state an accepted beat connects from; a  *)
(* link without a supervisor has no event until it is stopped.              *)
Watchable == {"starting", "connected", "degraded", "terminal"}

ShownInv ==
    /\ sup = "none" /\ ~stopped => link.ring = <<>>
    /\ sup = "spawning" /\ ~cancel => link.state = "starting"
    /\ sup = "watching" /\ ~cancel => link.state \in Watchable

StartedAsConfigured ==
    proc # "none" =>
        /\ env.config = <<>> => env.token /\ env.enabled # "false"
        /\ Config.deployment_env = "prod" => Config.sha256 = "fine"
        /\ Config.interval \in 15 .. 300
        /\ Config.beat_timeout > 0 /\ 2 * Config.beat_timeout < Config.interval

(* A child of a link configured by variables is only ever started with a   *)
(* token and by a switch that is not off (new_link asks for neither); any  *)
(* child with the binary's digest given in production, and told an         *)
(* interval within its bounds into which two beat timeouts fit, also after *)
(* the clamping.  And the backoff counts every child once, whether it      *)
(* could not be started, was killed, or had ended when it was to be        *)
(* killed: before the next one the supervisor sleeps for some milliseconds *)
(* below restart.min doubled with each child after the first, and below    *)
(* restart.max.  restart.min is no lower bound, the jitter begins at 0.    *)
SupervisedAsConfigured ==
    /\ StartedAsConfigured
    /\ sup = "backoff" =>
         DelayMs(Config, link.restarts - 1) =
             0 .. 1000 * Min({Config.max, Config.min * 2 ^ Min({run - 1, 30})}) - 1

(* Why it holds: the restarts are the children so far, but for the one     *)
(* that is being watched.                                                  *)
CountInv ==
    /\ sup = "none" => run = 0 /\ link.restarts = 0
    /\ sup \in {"top", "backoff", "spawning"} => link.restarts = run
    /\ sup \in {"watching", "reaping"} => link.restarts = run - 1
    /\ sup = "backoff" => run > 0

(* A child that stays silent past its timer is killed, whether or not it    *)
(* has identified itself, unless it exits or the link is stopped first.     *)
SilentChildIsKilled ==
    (sup = "watching" /\ timer = "fired" /\ pipe = <<>>)
        ~> (sup # "watching" \/ pipe # <<>> \/ proc = "gone")

(* stop() comes to its end, and the supervisor task it cancelled does.      *)
(* It raises only of a link that is disabled and has no harness kind.       *)
StopReturns ==
    stopped ~> /\ stopper = "returned" \/ (stopper = "raised" /\ ~Config.enabled)
               /\ sup \in {"none", "done"}

(* _watch_child "returns the exit code when the child exits or a timeout    *)
(* triggers": a child that has gone does not stay watched.                  *)
ExitIsNoticed == (sup = "watching" /\ proc = "gone") ~> sup # "watching"

=============================================================================
