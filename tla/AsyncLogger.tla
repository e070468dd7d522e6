----------------------------- MODULE AsyncLogger -----------------------------
(***************************************************************************)
(* The Go asynchronous audit logger: callers enqueue records into a        *)
(* bounded channel, one drain goroutine batches them to the sink, and      *)
(* Flush and Stop may be called from any goroutine at any time.            *)
(*                                                                         *)
(* A step is what one goroutine does between two points where another can  *)
(* be seen: a critical section of `mu', a channel operation, a write to    *)
(* the sink.  A send on a closed channel panics, which ends the process.   *)
(***************************************************************************)
EXTENDS Integers, Sequences, Functions

CONSTANTS
    Records,      \* the records logged; each is one call of Log
    Flushers,     \* the calls of Flush
    Stoppers,     \* the calls of Stop
    BufferSize,   \* cfg.BufferSize
    BatchSize     \* cfg.BatchSize

ASSUME SizesAssumption ==
    /\ BufferSize \in Nat \ {0}
    /\ BatchSize \in Nat \ {0}
    /\ Flushers \cap Stoppers = {}

Callers == Flushers \cup Stoppers

VARIABLES
    started, stopped,   \* the flags `mu' guards
    buffer, closed,     \* the channel of records
    done,               \* the channel `done' is closed
    log,                \* where the call of Log for a record is
    drain, batch,       \* the drain goroutine: its place and its batch
    pc, hold,           \* a Flush or Stop call: its place, records it drains
    sink,               \* what the downstream auditor was given, in order
    sent,               \* history: the records enqueued, in order
    owed,               \* history: the records enqueued before a Flush call
    swept               \* history: a caller has drained the buffer itself

flags   == <<started, stopped>>
channel == <<buffer, closed, sent>>
drainer == <<drain, batch>>
calls   == <<pc, hold, owed, swept>>
vars    == <<flags, channel, done, log, drainer, calls, sink>>

TypeOK ==
    /\ started \in BOOLEAN /\ stopped \in BOOLEAN
    /\ closed \in BOOLEAN /\ done \in BOOLEAN /\ swept \in BOOLEAN
    /\ buffer \in Seq(Records) /\ Len(buffer) <= BufferSize
    /\ log \in [Records -> {"idle", "checked", "sent", "dropped", "panicked"}]
    /\ drain \in {"none", "select", "full", "sweep", "exited"}
    /\ batch \in Seq(Records)
    /\ pc \in [Callers -> {"idle", "handover", "acked", "sync", "closing",
                           "joining", "flushed", "returned"}]
    /\ hold \in [Callers -> Seq(Records)]
    /\ sink \in Seq(Records) /\ sent \in Seq(Records)
    /\ owed \in [Callers -> SUBSET Records]

Init ==
    /\ started = FALSE /\ stopped = FALSE
    /\ buffer = <<>> /\ closed = FALSE /\ sent = <<>>
    /\ done = FALSE
    /\ log = [r \in Records |-> "idle"]
    /\ drain = "none" /\ batch = <<>>
    /\ pc = [p \in Callers |-> "idle"] /\ hold = [p \in Callers |-> <<>>]
    /\ owed = [p \in Callers |-> {}] /\ swept = FALSE
    /\ sink = <<>>

Crashed == \E r \in Records : log[r] = "panicked"

-----------------------------------------------------------------------------
(* Log and Start *)

(* The check of `stopped', under the mutex.                                *)
LogCheck(r) ==
    /\ log[r] = "idle"
    /\ log' = [log EXCEPT ![r] = IF stopped THEN "dropped" ELSE "checked"]
    /\ UNCHANGED <<flags, channel, done, drainer, calls, sink>>

(* The non-blocking send, outside the mutex.                               *)
LogSend(r) ==
    /\ log[r] = "checked"
    /\ IF closed
         THEN /\ log' = [log EXCEPT ![r] = "panicked"]
              /\ UNCHANGED channel
         ELSE IF Len(buffer) < BufferSize
         THEN /\ log' = [log EXCEPT ![r] = "sent"]
              /\ buffer' = Append(buffer, r) /\ sent' = Append(sent, r)
              /\ closed' = closed
         ELSE /\ log' = [log EXCEPT ![r] = "dropped"]
              /\ UNCHANGED channel
    /\ UNCHANGED <<flags, done, drainer, calls, sink>>

Start ==
    /\ ~started /\ ~stopped
    /\ started' = TRUE /\ drain' = "select"
    /\ UNCHANGED <<stopped, channel, done, log, batch, calls, sink>>

-----------------------------------------------------------------------------
(* The drain goroutine.  Its select takes any branch that is ready.        *)

(* Mutant: the batch is not emptied after the write.                       *)
WriteBatchKeeps == sink' = sink \o batch /\ batch' = batch

(* Mutant: the newest record of the batch is written first.                *)
WriteBatchNewestFirst ==
    /\ sink' = IF batch = <<>> THEN sink
               ELSE Append(sink, batch[Len(batch)])
                        \o SubSeq(batch, 1, Len(batch) - 1)
    /\ batch' = <<>>

WriteBatch == sink' = sink \o batch /\ batch' = <<>>

DrainTake ==
    /\ drain = "select" /\ buffer # <<>>
    /\ batch' = Append(batch, Head(buffer)) /\ buffer' = Tail(buffer)
    /\ drain' = IF Len(batch') >= BatchSize THEN "full" ELSE "select"
    /\ UNCHANGED <<flags, closed, sent, done, log, calls, sink>>

DrainFull ==
    /\ drain = "full"
    /\ WriteBatch /\ drain' = "select"
    /\ UNCHANGED <<flags, channel, done, log, calls>>

(* Mutant: a tick finds nothing due.                                       *)
DrainTickNever == FALSE /\ UNCHANGED vars

DrainTick ==
    /\ drain = "select" /\ batch # <<>>
    /\ WriteBatch
    /\ UNCHANGED <<flags, channel, done, log, drain, calls>>

(* Mutant: the goroutine exits as soon as Stop has marked the logger.      *)
DrainStopped ==
    /\ drain = "select" /\ stopped
    /\ WriteBatch /\ drain' = "exited" /\ done' = TRUE
    /\ UNCHANGED <<flags, channel, log, calls>>

(* The receive fails only when the channel is closed and empty, so the     *)
(* loop over what remains finds nothing.                                   *)
DrainClosed ==
    /\ drain = "select" /\ buffer = <<>> /\ closed
    /\ WriteBatch /\ drain' = "exited" /\ done' = TRUE
    /\ UNCHANGED <<flags, channel, log, calls>>

(* The rendezvous on flushReq.                                             *)
DrainAccept(p) ==
    /\ drain = "select" /\ pc[p] = "handover"
    /\ drain' = "sweep"
    /\ pc' = [pc EXCEPT ![p] = "acked"]
    /\ UNCHANGED <<flags, channel, done, log, batch, hold, owed, swept, sink>>

DrainSweep ==
    /\ drain = "sweep" /\ buffer # <<>>
    /\ batch' = Append(batch, Head(buffer)) /\ buffer' = Tail(buffer)
    /\ UNCHANGED <<flags, closed, sent, done, log, drain, calls, sink>>

(* Mutant: the request is acknowledged without the sweep.                  *)
DrainAckUnswept ==
    /\ drain = "sweep"
    /\ WriteBatch
    /\ pc' = [p \in Callers |-> IF pc[p] = "acked" THEN "flushed" ELSE pc[p]]
    /\ drain' = "select"
    /\ UNCHANGED <<flags, channel, done, log, hold, owed, swept>>

(* Nothing is left to sweep: write, acknowledge, and exit if Stop has      *)
(* closed the channel.                                                     *)
DrainAck ==
    /\ drain = "sweep" /\ buffer = <<>>
    /\ WriteBatch
    /\ pc' = [p \in Callers |-> IF pc[p] = "acked" THEN "flushed" ELSE pc[p]]
    /\ drain' = IF closed THEN "exited" ELSE "select"
    /\ done' = closed
    /\ UNCHANGED <<flags, channel, log, hold, owed, swept>>

Drain ==
    \/ DrainTake \/ DrainFull \/ DrainTick \/ DrainClosed
    \/ (\E p \in Flushers : DrainAccept(p)) \/ DrainSweep \/ DrainAck

-----------------------------------------------------------------------------
(* Flush *)

(* Whether the drain goroutine is running is read under the mutex and used *)
(* after it.                                                               *)
FlushCall(p) ==
    /\ pc[p] = "idle"
    /\ pc' = [pc EXCEPT ![p] = IF started /\ ~stopped THEN "handover" ELSE "sync"]
    /\ owed' = [owed EXCEPT ![p] = Range(sent)]
    /\ UNCHANGED <<flags, channel, done, log, drainer, hold, swept, sink>>

FlushDone(p) ==
    /\ pc[p] = "handover" /\ done
    /\ pc' = [pc EXCEPT ![p] = "sync"]
    /\ UNCHANGED <<flags, channel, done, log, drainer, hold, owed, swept, sink>>

(* drainBufferedSync: receive until the buffer is empty, then write.       *)
SyncTake(p) ==
    /\ pc[p] = "sync" /\ buffer # <<>>
    /\ hold' = [hold EXCEPT ![p] = Append(@, Head(buffer))]
    /\ buffer' = Tail(buffer) /\ swept' = TRUE
    /\ UNCHANGED <<flags, closed, sent, done, log, drainer, pc, owed, sink>>

SyncWrite(p) ==
    /\ pc[p] = "sync" /\ buffer = <<>>
    /\ sink' = sink \o hold[p] /\ hold' = [hold EXCEPT ![p] = <<>>]
    /\ pc' = [pc EXCEPT ![p] = "returned"]
    /\ done' = (done \/ p \in Stoppers)
    /\ UNCHANGED <<flags, channel, log, drainer, owed, swept>>

-----------------------------------------------------------------------------
(* Stop *)

StopMark(p) ==
    /\ pc[p] = "idle"
    /\ pc' = [pc EXCEPT ![p] = IF stopped THEN "returned" ELSE "closing"]
    /\ stopped' = TRUE
    /\ UNCHANGED <<started, channel, done, log, drainer, hold, owed, swept, sink>>

(* Mutant: Stop waits for the goroutine even if it was never started.      *)
StopCloseAlwaysJoins(p) ==
    /\ pc[p] = "closing"
    /\ closed' = TRUE
    /\ pc' = [pc EXCEPT ![p] = "joining"]
    /\ UNCHANGED <<flags, buffer, sent, done, log, drainer, hold, owed, swept, sink>>

StopClose(p) ==
    /\ pc[p] = "closing"
    /\ closed' = TRUE
    /\ pc' = [pc EXCEPT ![p] = IF started THEN "joining" ELSE "sync"]
    /\ UNCHANGED <<flags, buffer, sent, done, log, drainer, hold, owed, swept, sink>>

StopJoin(p) ==
    /\ pc[p] = "joining" /\ done
    /\ pc' = [pc EXCEPT ![p] = "returned"]
    /\ UNCHANGED <<flags, channel, done, log, drainer, hold, owed, swept, sink>>

-----------------------------------------------------------------------------
Caller(p) ==
    \/ p \in Flushers /\ FlushDone(p)
    \/ SyncTake(p) \/ SyncWrite(p)
    \/ p \in Stoppers /\ (StopClose(p) \/ StopJoin(p))

Next ==
    /\ ~Crashed
    /\ \/ \E r \in Records : LogCheck(r) \/ LogSend(r)
       \/ Start \/ Drain
       \/ \E p \in Flushers : FlushCall(p)
       \/ \E p \in Stoppers : StopMark(p)
       \/ \E p \in Callers : Caller(p)

Spec == Init /\ [][Next]_vars

(* The Go scheduler runs every goroutine that can run; nobody is obliged   *)
(* to call Start, Log, Flush or Stop.                                      *)
FairSpec ==
    /\ Spec
    /\ WF_vars(~Crashed /\ Drain)
    /\ \A p \in Callers : WF_vars(~Crashed /\ Caller(p))

-----------------------------------------------------------------------------
(* Properties *)

Held == UNION {Range(hold[p]) : p \in Callers}

NoneLost ==
    Range(sent) = Range(buffer) \cup Range(batch) \cup Held \cup Range(sink)

Apart(s, t) == Range(s) \cap Range(t) = {}

NoneTwice ==
    /\ IsInjective(buffer) /\ IsInjective(batch) /\ IsInjective(sink)
    /\ Apart(buffer, batch) /\ Apart(buffer, sink) /\ Apart(batch, sink)
    /\ \A p \in Callers :
          /\ IsInjective(hold[p])
          /\ Apart(hold[p], buffer) /\ Apart(hold[p], batch) /\ Apart(hold[p], sink)
          /\ \A q \in Callers \ {p} : Apart(hold[p], hold[q])

(* Every record that was enqueued is in exactly one place, however many     *)
(* goroutines drain at once: in the channel, in the drain goroutine's       *)
(* batch, with one caller that drains the channel, or in the sink.  None is *)
(* lost and none is written twice.                                          *)
EachInOnePlace == NoneLost /\ NoneTwice

(* As long as only the drain goroutine has drained the channel, the sink    *)
(* receives the records in the order they were enqueued.                    *)
InOrder == ~swept => sink \o batch \o buffer = sent

(* A Flush the drain goroutine acknowledged has written every record        *)
(* enqueued before the call, except those another caller is draining.       *)
AckedFlushDelivers ==
    \A p \in Flushers : pc[p] = "flushed" => owed[p] \subseteq Range(sink) \cup Held

(* When `done' is closed, so that Stop may return, the channel and the      *)
(* batch are empty, and no later Log can put a record where nobody drains.  *)
DoneIsDrained == done => closed /\ buffer = <<>> /\ batch = <<>>

(* Why `done' is right: the channel is closed only by a Stop, the drain     *)
(* goroutine exits only through `done', and a Stop drains the channel       *)
(* itself only in a logger that never started.                              *)
LoggerInv ==
    /\ closed => stopped
    /\ drain = "none" <=> ~started
    /\ drain = "none" => batch = <<>>
    /\ drain = "exited" => done
    /\ done => drain \in {"none", "exited"} /\ DoneIsDrained
    /\ \A p \in Flushers : /\ pc[p] \notin {"closing", "joining"}
                           /\ owed[p] \subseteq Range(sent)
    /\ \A p \in Stoppers :
          /\ pc[p] \in {"idle", "closing", "joining", "sync", "returned"}
          /\ pc[p] # "idle" => stopped
          /\ pc[p] = "sync" => closed /\ ~started

(* The logger implements the pipe: among any number of goroutines that     *)
(* drain at once, each record goes to the sink once at most, and when      *)
(* `done' is closed nothing that was enqueued is left where nobody would   *)
(* drain it.                                                               *)
Pipe == INSTANCE AuditPipe WITH
            accepted <- Range(sent), carried <- Held, delivered <- sink, ended <- done

ImplementsPipe == Pipe!Spec

(* A record enqueued in a started logger reaches the sink without any Flush *)
(* or Stop: a partial batch is shipped by the tick.                         *)
RecordIsShipped ==
    \A r \in Records :
        (started /\ log[r] = "sent") ~> (Crashed \/ r \in Range(sink))

(* Every Flush and every Stop returns, whoever else drains: a request the   *)
(* drain goroutine can no longer accept is released by `done', and a Stop   *)
(* of a logger that was never started drains by itself.                     *)
CallsReturn ==
    \A p \in Callers :
        pc[p] # "idle" ~> (Crashed \/ pc[p] \in {"flushed", "returned"})

(* "After Stop, Log drops every record": a Log that races Stop sends its    *)
(* record or drops it.                                                      *)
LogNeverPanics == ~Crashed

=============================================================================
