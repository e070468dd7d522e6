-------------------------- MODULE RuntimeLinkProofs --------------------------
(***************************************************************************)
(* Type correctness of the runtime link, that stop() is final, short and   *)
(* leaves no child running, that a child is started as configured, that    *)
(* status and events describe the child being watched, and what becomes of *)
(* a watch whose child has gone, for every set of lines and every bound.   *)
(***************************************************************************)
EXTENDS RuntimeLink, TLAPS, FiniteSetTheorems

-----------------------------------------------------------------------------
(* The configuration *)

LEMMA MinOfTwo ==
    ASSUME NEW a \in Int, NEW b \in Int
    PROVE  Min({a, b}) = IF a <= b THEN a ELSE b
<1>. DEFINE low == IF a <= b THEN a ELSE b
<1>1. low \in {a, b} /\ \A y \in {a, b} : low <= y
  OBVIOUS
<1>2. \A x \in {a, b} : (\A y \in {a, b} : x <= y) => x = low
  OBVIOUS
<1>. HIDE DEF low
<1>3. Min({a, b}) = low
  BY <1>1, <1>2, Zenon DEF Min
<1>. QED  BY <1>3, Zenon DEF low

LEMMA MaxOfTwo ==
    ASSUME NEW a \in Int, NEW b \in Int
    PROVE  Max({a, b}) = IF a >= b THEN a ELSE b
<1>. DEFINE high == IF a >= b THEN a ELSE b
<1>1. high \in {a, b} /\ \A y \in {a, b} : high >= y
  OBVIOUS
<1>2. \A x \in {a, b} : (\A y \in {a, b} : x >= y) => x = high
  OBVIOUS
<1>. HIDE DEF high
<1>3. Max({a, b}) = high
  BY <1>1, <1>2, Zenon DEF Max
<1>. QED  BY <1>3, Zenon DEF high

LEMMA ClampBounds ==
    ASSUME NEW i \in Int
    PROVE  Clamp(i) \in 15 .. 300
<1>. DEFINE m == Max({i, 15})
<1>1. m \in Int /\ m >= 15
  BY MaxOfTwo
<1>2. Clamp(i) = Min({m, 300})
  BY Zenon DEF Clamp
<1>. HIDE DEF m
<1>3. Min({m, 300}) = IF m <= 300 THEN m ELSE 300
  BY <1>1, MinOfTwo
<1>. QED  BY <1>1, <1>2, <1>3

(* The exponent of the backoff after one restart or more.                  *)
LEMMA BackoffAfter ==
    ASSUME NEW cfg, NEW n \in Nat \ {0}
    PROVE  DelayMs(cfg, n - 1) =
             0 .. 1000 * Min({cfg.max, cfg.min * 2 ^ Min({n - 1, 30})}) - 1
<1>1. n - 1 \in Int /\ 0 \in Int /\ n - 1 >= 0
  OBVIOUS
<1>2. Max({n - 1, 0}) = n - 1
  BY <1>1, MaxOfTwo, Zenon
<1>3. DelayCap(cfg, n - 1) = Min({cfg.max, cfg.min * 2 ^ Min({n - 1, 30})})
  BY <1>2, Zenon DEF DelayCap
<1>. QED  BY <1>3 DEF DelayMs

(* Normalizing a configuration, from the variables or the harness's own,   *)
(* clamps the interval.                                                    *)
LEMMA NormalizeKeeps ==
    ASSUME NEW e, e.config \in Seq(RuntimeLinkConfig)
    PROVE  LET f == ConfigOf(e)
               c == Normalize(ConfigOf(e))
           IN  /\ c.interval = Clamp(f.interval) /\ c.beat_timeout = f.beat_timeout
               /\ c.deployment_env = f.deployment_env /\ c.sha256 = f.sha256
               /\ c.kind = f.kind /\ c.enabled = f.enabled
<1>1. CASE e.config = <<>>
  <2>1. ConfigOf(e) = ConfigFromEnv(e)
    BY <1>1, Zenon DEF ConfigOf
  <2>. QED  BY <2>1, Zenon DEF Normalize, ConfigFromEnv
<1>2. CASE e.config # <<>>
  <2>1. e.config[1] \in RuntimeLinkConfig
    BY <1>2
  <2>2. ConfigOf(e) = e.config[1]
    BY <1>2, Zenon DEF ConfigOf
  <2>. QED  BY <2>1, <2>2, Zenon DEF Normalize, RuntimeLinkConfig
<1>. QED  BY <1>1, <1>2, Zenon

(* The configuration of a link that is enabled.                            *)
LEMMA ConfiguredSoundly ==
    ASSUME NEW e, e.interval \in Int, e.config \in Seq(RuntimeLinkConfig),
           Configured(e), ConfigOf(e).enabled
    PROVE  LET c == Normalize(ConfigOf(e))
           IN  /\ e.config = <<>> => e.token /\ e.enabled # "false"
               /\ c.deployment_env = "prod" => c.sha256 = "fine"
               /\ c.interval \in 15 .. 300
               /\ c.beat_timeout > 0 /\ 2 * c.beat_timeout < c.interval
               /\ c.kind = "fine"
<1>. DEFINE f == ConfigOf(e)
            c == Normalize(ConfigOf(e))
<1>0. f.interval \in Int
  <2>1. CASE e.config = <<>>
    <3>1. f.interval = IF e.interval = Unset THEN 60 ELSE e.interval
      BY <2>1, Zenon DEF ConfigOf, ConfigFromEnv
    <3>. QED  BY <3>1
  <2>2. CASE e.config # <<>>
    <3>1. e.config[1] \in RuntimeLinkConfig
      BY <2>2
    <3>. QED  BY <2>2, <3>1, Zenon DEF ConfigOf, RuntimeLinkConfig
  <2>. QED  BY <2>1, <2>2, Zenon
<1>2. ASSUME e.config = <<>> PROVE e.token /\ e.enabled # "false"
  <2>1. f.enabled = Enabled(e)
    BY <1>2, Zenon DEF ConfigOf, ConfigFromEnv
  <2>. QED  BY <1>2, <2>1, Zenon DEF Configured, SwitchParses, Enabled
<1>3. /\ c.interval = Clamp(f.interval) /\ c.beat_timeout = f.beat_timeout
      /\ c.deployment_env = f.deployment_env /\ c.sha256 = f.sha256 /\ c.kind = f.kind
  BY NormalizeKeeps, Zenon
<1>4. TextsAreValid(f) /\ CanRun(f) /\ BeatFits(f)
  BY Zenon DEF Configured, IsValid
<1>. HIDE DEF f, c
<1>5. c.interval \in 15 .. 300
  BY <1>0, <1>3, ClampBounds, Zenon
<1>6. (c.deployment_env = "prod" => c.sha256 = "fine") /\ c.kind = "fine"
  BY <1>3, <1>4, Zenon DEF TextsAreValid, CanRun
<1>7. c.beat_timeout > 0 /\ 2 * c.beat_timeout < c.interval
  BY <1>3, <1>4, Zenon DEF BeatFits
<1>. QED  BY <1>2, <1>5, <1>6, <1>7, Zenon DEF f, c

-----------------------------------------------------------------------------
(* The operators on the link's status *)

OkStatus(l) == l \in Status /\ Len(l.ring) <= RingSize

(* The ring keeps its type and its bound.                                  *)
LEMMA PushType ==
    ASSUME NEW r \in Seq(Event), Len(r) <= RingSize, NEW ev \in Event
    PROVE  Push(r, ev) \in Seq(Event) /\ Len(Push(r, ev)) <= RingSize
<1>1. CASE Len(r) < RingSize
  BY <1>1, BoundsAssumption DEF Push
<1>2. CASE ~(Len(r) < RingSize)
  <2>1. Tail(r) \in Seq(Event) /\ Len(Tail(r)) = Len(r) - 1
    BY <1>2, BoundsAssumption
  <2>. QED  BY <1>2, <2>1, BoundsAssumption DEF Push
<1>. QED  BY <1>1, <1>2, Zenon

(* Emitting an event changes only the ring.                                *)
LEMMA EmitType ==
    ASSUME NEW l, OkStatus(l), NEW s \in LinkStates, NEW why \in Reasons
    PROVE  /\ OkStatus(Emit(l, s, why)) /\ Emit(l, s, why).state = l.state
           /\ Emit(l, s, why).restarts = l.restarts
<1>1. [state |-> s, reason |-> why] \in Event
  BY Zenon DEF Event
<1>2. l.ring \in Seq(Event) /\ Len(l.ring) <= RingSize
  BY Zenon DEF OkStatus, Status
<1>3. /\ Push(l.ring, [state |-> s, reason |-> why]) \in Seq(Event)
      /\ Len(Push(l.ring, [state |-> s, reason |-> why])) <= RingSize
  BY <1>1, <1>2, PushType, Zenon
<1>. QED  BY <1>3, Zenon DEF OkStatus, Status, Emit

(* A transition moves the link to the state it names.                      *)
LEMMA TransitionType ==
    ASSUME NEW l, OkStatus(l), NEW s \in LinkStates, NEW why \in Reasons
    PROVE  /\ OkStatus(Transition(l, s, why)) /\ Transition(l, s, why).state = s
           /\ Transition(l, s, why).restarts = l.restarts
<1>. DEFINE m == [l EXCEPT !.state = s, !.reason = why]
<1>1. OkStatus(m) /\ m.state = s /\ m.restarts = l.restarts
  BY Zenon DEF OkStatus, Status
<1>. HIDE DEF m
<1>2. /\ OkStatus(Emit(m, s, why)) /\ Emit(m, s, why).state = s
      /\ Emit(m, s, why).restarts = m.restarts
  BY <1>1, EmitType, Zenon
<1>. QED  BY <1>1, <1>2, Zenon DEF Transition, m

(* Handling a line of a child keeps the status well formed and never stops *)
(* the link.                                                               *)
LEMMA HandleLineType ==
    ASSUME NEW l, OkStatus(l), NEW line \in ChildLine, NEW r \in Nat
    PROVE  /\ OkStatus(HandleLine(l, line, r))
           /\ HandleLine(l, line, r).restarts = l.restarts
           /\ HandleLine(l, line, r).state = "stopped" => l.state = "stopped"
<1>0. /\ {"connected", "degraded", "terminal"} \subseteq LinkStates
      /\ None \in Reasons /\ "installation_unauthorized" \in Reasons
  BY Zenon DEF LinkStates, Reasons, FailureClasses
<1>1. CASE line.kind = "identity"
  <2>. DEFINE m == [l EXCEPT !.identity = r, !.runId = r, !.fails = line.dropped]
              s == IF l.state = "starting" THEN "connected" ELSE "degraded"
  <2>0. line.dropped \in Nat
    BY <1>1, Zenon DEF ChildLine
  <2>1. OkStatus(m)
    BY <2>0, Zenon DEF OkStatus, Status
  <2>r. m.restarts = l.restarts
    BY Zenon DEF OkStatus, Status
  <2>s. s \in LinkStates /\ s # "stopped" /\ None \in Reasons
    BY <1>0, Zenon
  <2>. HIDE DEF m, s
  <2>2. /\ OkStatus(Transition(m, s, None)) /\ Transition(m, s, None).state = s
        /\ Transition(m, s, None).restarts = m.restarts
    BY <2>1, <2>s, TransitionType, Zenon
  <2>. QED  BY <1>1, <2>r, <2>s, <2>2, Zenon DEF HandleLine, HandleIdentity, m, s
<1>2. CASE line.kind = "beat"
  <2>0. line.outcome \in BeatOutcomes
    BY <1>2, Zenon DEF ChildLine
  <2>1. CASE line.outcome = "ok"
    <3>. DEFINE m == [l EXCEPT !.runId = r, !.fails = 0]
    <3>1. OkStatus(m) /\ m.state = l.state
      BY Zenon DEF OkStatus, Status
    <3>r. m.restarts = l.restarts
      BY Zenon DEF OkStatus, Status
    <3>. HIDE DEF m
    <3>2. /\ OkStatus(Transition(m, "connected", None))
          /\ Transition(m, "connected", None).state = "connected"
          /\ Transition(m, "connected", None).restarts = m.restarts
      BY <1>0, <3>1, TransitionType, Zenon
    <3>. QED  BY <1>2, <2>1, <3>1, <3>r, <3>2, Zenon DEF HandleLine, HandleBeat, m
  <2>2. CASE line.outcome = "unauthorized"
    <3>. DEFINE m == [l EXCEPT !.runId = r]
    <3>1. OkStatus(m)
      BY Zenon DEF OkStatus, Status
    <3>r. m.restarts = l.restarts
      BY Zenon DEF OkStatus, Status
    <3>. HIDE DEF m
    <3>2. /\ OkStatus(Transition(m, "terminal", "installation_unauthorized"))
          /\ Transition(m, "terminal", "installation_unauthorized").state = "terminal"
          /\ Transition(m, "terminal", "installation_unauthorized").restarts = m.restarts
      BY <1>0, <3>1, TransitionType, Zenon
    <3>. QED  BY <1>2, <2>2, <3>r, <3>2, Zenon DEF HandleLine, HandleBeat, m
  <2>3. CASE line.outcome \notin {"ok", "unauthorized"}
    <3>. DEFINE m == [l EXCEPT !.runId = r, !.fails = @ + 1]
                why == ClassifyBeatOutcome(line.outcome)
    <3>0. l.fails + 1 \in Nat
      BY DEF OkStatus, Status
    <3>1. OkStatus(m) /\ m.state = l.state
      BY <3>0, Zenon DEF OkStatus, Status
    <3>r. m.restarts = l.restarts
      BY Zenon DEF OkStatus, Status
    <3>2. why \in Reasons
      BY <2>0, <2>3, Zenon DEF BeatOutcomes, CatalogFailures, ClassifyBeatOutcome, Reasons, FailureClasses
    <3>. HIDE DEF m, why
    <3>3. /\ OkStatus(Transition(m, "degraded", why))
          /\ Transition(m, "degraded", why).state = "degraded"
          /\ Transition(m, "degraded", why).restarts = m.restarts
      <4>1. "degraded" \in LinkStates
        BY Zenon DEF LinkStates
      <4>. QED  BY <3>1, <3>2, <4>1, TransitionType, Zenon
    <3>. QED  BY <1>2, <2>3, <3>1, <3>r, <3>3, Zenon DEF HandleLine, HandleBeat, m, why
  <2>. QED  BY <2>1, <2>2, <2>3, Zenon
<1>3. CASE line.kind = "terminal"
  <2>. DEFINE why == ClassifyTerminal(line.why)
  <2>1. why \in Reasons
    BY Zenon DEF ClassifyTerminal, Reasons, FailureClasses
  <2>. HIDE DEF why
  <2>2. /\ OkStatus(Transition(l, "terminal", why))
        /\ Transition(l, "terminal", why).state = "terminal"
        /\ Transition(l, "terminal", why).restarts = l.restarts
    <3>1. "terminal" \in LinkStates
      BY Zenon DEF LinkStates
    <3>. QED  BY <1>0, <2>1, <3>1, TransitionType, ZenonT(40)
  <2>. QED  BY <1>3, <2>2, Zenon DEF HandleLine, HandleTerminal, why
<1>4. CASE line.kind = "rejected"
  <2>1. l.fails + 1 \in Nat
    BY DEF OkStatus, Status
  <2>. QED  BY <1>4, <2>1, Zenon DEF HandleLine, OkStatus, Status
<1>5. CASE line.kind = "ignored"
  BY <1>5, Zenon DEF HandleLine
<1>. QED  BY <1>1, <1>2, <1>3, <1>4, <1>5, Zenon DEF ChildLine

(* Going round the supervisor's loop.                                      *)
LEMMA LoopTopType ==
    ASSUME NEW l, OkStatus(l), LoopTop(l)
    PROVE  /\ OkStatus(link') /\ link'.state # "stopped"
           /\ sup' \in {"backoff", "spawning"}
           /\ link'.restarts = l.restarts /\ (sup' = "backoff" => l.restarts > 0)
<1>1. "reconnecting" \in LinkStates /\ "starting" \in LinkStates /\ None \in Reasons
  BY Zenon DEF LinkStates, Reasons
<1>2. /\ OkStatus(Transition(l, "reconnecting", None))
      /\ OkStatus(Transition(l, "starting", None))
      /\ Transition(l, "reconnecting", None).state = "reconnecting"
      /\ Transition(l, "starting", None).state = "starting"
      /\ Transition(l, "reconnecting", None).restarts = l.restarts
      /\ Transition(l, "starting", None).restarts = l.restarts
  BY <1>1, TransitionType, Zenon
<1>. QED  BY <1>2, Zenon DEF LoopTop, Reconnecting, Starting

(* A transient error either ends the supervisor or sends it round again.   *)
LEMMA TransientErrorType ==
    ASSUME NEW l, OkStatus(l), TransientError(l),
           crashes \in 0..CrashThreshold, owned \in BOOLEAN
    PROVE  /\ OkStatus(link') /\ link'.state # "stopped"
           /\ sup' \in {"backoff", "spawning", "done"}
           /\ crashes' \in 0..CrashThreshold
           /\ owned' \in BOOLEAN
           /\ link'.restarts = l.restarts + 1
<1>. DEFINE counted == [l EXCEPT !.restarts = @ + 1]
<1>1. l.restarts + 1 \in Nat
  BY DEF OkStatus, Status
<1>2. OkStatus(counted) /\ counted.restarts = l.restarts + 1
  BY <1>1, Zenon DEF OkStatus, Status
<1>3. crashes' \in 0..CrashThreshold
  BY BoundsAssumption DEF TransientError
<1>. HIDE DEF counted
<1>4. CASE /\ link' = Transition(counted, "terminal", "runtime_crashloop")
           /\ sup' = "done" /\ owned' = FALSE
  <2>1. "terminal" \in LinkStates /\ "runtime_crashloop" \in Reasons
    BY Zenon DEF LinkStates, Reasons, FailureClasses
  <2>2. /\ OkStatus(Transition(counted, "terminal", "runtime_crashloop"))
        /\ Transition(counted, "terminal", "runtime_crashloop").state = "terminal"
        /\ Transition(counted, "terminal", "runtime_crashloop").restarts = counted.restarts
    BY <1>2, <2>1, TransitionType, Zenon
  <2>. QED  BY <1>2, <1>3, <1>4, <2>2, Zenon
<1>5. CASE LoopTop(Reconnecting(counted)) /\ owned' = owned
  <2>1. "reconnecting" \in LinkStates /\ None \in Reasons
    BY Zenon DEF LinkStates, Reasons
  <2>2. OkStatus(Reconnecting(counted)) /\ Reconnecting(counted).restarts = counted.restarts
    BY <1>2, <2>1, TransitionType, Zenon DEF Reconnecting
  <2>3. /\ OkStatus(link') /\ link'.state # "stopped"
        /\ sup' \in {"backoff", "spawning"} /\ link'.restarts = counted.restarts
    BY <1>5, <2>2, LoopTopType, Zenon
  <2>. QED  BY <1>2, <1>3, <1>5, <2>3, Zenon
<1>. QED  BY <1>4, <1>5, Zenon DEF TransientError, counted

-----------------------------------------------------------------------------
(* Type correctness *)

(* The parser returns one of the lines the watch loop knows, whatever is   *)
(* printed: the number of dropped agents is a number.                      *)
LEMMA LinesTyped == Lines \subseteq ChildLine
<1>. SUFFICES ASSUME NEW line \in Output PROVE ParseChildLine(line) \in ChildLine
  BY Zenon DEF Lines
<1>1. line \in RawLine
  BY OutputAssumption, Zenon
<1>2. DroppedAgents(line) \in Nat
  <2>. DEFINE crooked == {i \in DOMAIN line.agents : line.agents[i] = "crooked"}
  <2>1. line.agents \in Seq({"fine", "crooked"})
    BY <1>1, Zenon DEF RawLine
  <2>2. IsFiniteSet(DOMAIN line.agents)
    BY <2>1, FS_Interval
  <2>3. Cardinality(crooked) \in Nat
    BY <2>2, FS_Subset, FS_CardinalityType, Zenon
  <2>. HIDE DEF crooked
  <2>. QED  BY <2>3 DEF DroppedAgents, crooked
<1>3. Rejected \in ChildLine /\ [kind |-> "ignored"] \in ChildLine
  BY Zenon DEF Rejected, ChildLine
<1>4. line.event \in {"identity", "beat", "terminal", "new", "none"}
      /\ line.reason \in TerminalReasons \cup {"crooked"}
  BY <1>1, Zenon DEF RawLine
<1>5. [kind |-> "identity", dropped |-> DroppedAgents(line)] \in ChildLine
  BY <1>2, Zenon DEF ChildLine
<1>6. BeatParses(line) => [kind |-> "beat", outcome |-> line.outcome] \in ChildLine
  BY DEF BeatParses, ChildLine
<1>7. line.reason # "crooked" => [kind |-> "terminal", why |-> line.reason] \in ChildLine
  BY <1>4, Zenon DEF ChildLine
<1>. QED  BY <1>3, <1>4, <1>5, <1>6, <1>7, Zenon DEF ParseChildLine

LEMMA TypeInit == Init => TypeOK
<1>. SUFFICES ASSUME Init PROVE TypeOK
  BY Zenon
<1>1. "disabled" \in LinkStates /\ None \in Reasons
  BY Zenon DEF LinkStates, Reasons
<1>2. <<>> \in Seq(Event) /\ Len(<<>>) <= RingSize /\ <<>> \in Seq(Lines)
  BY BoundsAssumption
<1>3. link \in Status /\ Len(link.ring) <= RingSize
  BY <1>1, <1>2, Zenon DEF Init, Status
<1>4. pipe \in Seq(Lines)
  BY DEF Init
<1>5. run \in 0..MaxRuns /\ printed \in 0..MaxLines /\ crashes \in 0..CrashThreshold
  BY BoundsAssumption DEF Init
<1>6. /\ env \in Environments /\ started \in BOOLEAN /\ stopped \in BOOLEAN
      /\ cancel \in BOOLEAN /\ owned \in BOOLEAN /\ seen \in BOOLEAN
  BY Zenon DEF Init
<1>. QED  BY <1>3, <1>4, <1>5, <1>6, Zenon DEF Init, TypeOK, SupStates

LEMMA TypeNext == TypeOK /\ [Next]_vars => TypeOK'
<1>. SUFFICES ASSUME TypeOK, [Next]_vars PROVE TypeOK'
  BY Zenon
<1>. USE DEF harness, child, watch, task
<1>0. OkStatus(link)
  BY Zenon DEF TypeOK, OkStatus
<1>s. /\ {"starting", "stopped"} \subseteq LinkStates
      /\ None \in Reasons /\ "runtime_unresponsive" \in Reasons
  BY Zenon DEF LinkStates, Reasons, FailureClasses
<1>k. ASSUME NEW w \in SupStates, NEW n \in SupStates, KillChild(sup, w, n)
      PROVE  sup' \in SupStates /\ owned' \in BOOLEAN
             /\ proc' \in {"none", "running", "killed", "exited", "gone"}
  BY <1>k, Zenon DEF KillChild, Killed, TypeOK
<1>1. CASE Start
  BY <1>1, Zenon DEF Start, TypeOK, SupStates
<1>2. CASE StopCall
  <2>1. OkStatus([link EXCEPT !.state = "stopped", !.reason = None])
    BY <1>0, <1>s, Zenon DEF OkStatus, Status
  <2>2. OkStatus(Transition(link, "stopped", None))
    BY <1>0, <1>s, TransitionType, Zenon
  <2>3. OkStatus(link')
    BY <1>0, <1>2, <2>1, <2>2, Zenon DEF StopCall
  <2>. QED  BY <1>2, <2>3, Zenon DEF StopCall, TypeOK, OkStatus
<1>3. CASE StopWaited
  BY <1>3, Zenon DEF StopWaited, KillChild, Killed, TypeOK
<1>4. CASE StopKilled
  BY <1>4, Zenon DEF StopKilled, TypeOK
<1>5. CASE ConsumeEvent
  <2>1. /\ Tail(link.ring) \in Seq(Event)
        /\ Len(Tail(link.ring)) <= RingSize
    BY <1>0, <1>5, BoundsAssumption DEF ConsumeEvent, OkStatus, Status
  <2>2. OkStatus(link')
    BY <1>0, <1>5, <2>1, Zenon DEF ConsumeEvent, OkStatus, Status
  <2>. QED  BY <1>5, <2>2 DEF ConsumeEvent, TypeOK, OkStatus
<1>6. CASE SupBegin
  <2>1. OkStatus(link') /\ sup' \in {"backoff", "spawning"}
    BY <1>0, <1>6, LoopTopType, Zenon DEF SupBegin
  <2>. QED  BY <1>6, <2>1 DEF SupBegin, TypeOK, OkStatus, SupStates
<1>7. CASE BackoffDone
  <2>1. OkStatus(link')
    BY <1>0, <1>7, <1>s, TransitionType, Zenon DEF BackoffDone, Starting
  <2>. QED  BY <1>7, <2>1, Zenon DEF BackoffDone, TypeOK, OkStatus, SupStates
<1>8. CASE SpawnOk
  <2>1. link.reason \in Reasons
    BY <1>0, Zenon DEF OkStatus, Status
  <2>2. OkStatus(link')
    BY <1>0, <1>8, <1>s, <2>1, EmitType, Zenon DEF SpawnOk
  <2>3. pipe' \in Seq(Lines)
    BY <1>8 DEF SpawnOk
  <2>4. run' \in 0..MaxRuns
    BY <1>8, BoundsAssumption DEF SpawnOk, TypeOK
  <2>. QED  BY <1>8, <2>2, <2>3, <2>4, Zenon DEF SpawnOk, TypeOK, OkStatus, SupStates
<1>9. CASE SpawnFail
  <2>1. /\ OkStatus(link') /\ sup' \in {"backoff", "spawning", "done"}
        /\ crashes' \in 0..CrashThreshold /\ owned' \in BOOLEAN
    BY <1>0, <1>9, TransientErrorType, Zenon DEF SpawnFail, TypeOK
  <2>. QED  BY <1>9, <2>1, BoundsAssumption DEF SpawnFail, TypeOK, OkStatus, SupStates
<1>10. CASE SupCancelled
  <2>1. /\ sup' \in SupStates /\ owned' \in BOOLEAN
        /\ proc' \in {"none", "running", "killed", "exited", "gone"}
    BY <1>10, <1>k, Zenon DEF SupCancelled, SupStates
  <2>. QED  BY <1>10, <2>1, Zenon DEF SupCancelled, TypeOK
<1>11. CASE SupKilled
  BY <1>11, Zenon DEF SupKilled, TypeOK, SupStates
<1>12. CASE WatchLine
  <2>1. Head(pipe) \in ChildLine /\ Tail(pipe) \in Seq(Lines) /\ run \in Nat
    BY <1>12, LinesTyped DEF WatchLine, TypeOK
  <2>2. OkStatus(link')
    BY <1>0, <1>12, <2>1, HandleLineType, Zenon DEF WatchLine
  <2>. QED  BY <1>12, <2>1, <2>2, Zenon DEF WatchLine, TypeOK, OkStatus
<1>13. CASE WatchLineLate
  <2>. DEFINE l == HandleLine(link, Head(pipe), run)
              after == Unresponsive(l)
  <2>1. Head(pipe) \in ChildLine /\ Tail(pipe) \in Seq(Lines) /\ run \in Nat
    BY <1>13, LinesTyped DEF WatchLineLate, TypeOK
  <2>2. OkStatus(l)
    BY <1>0, <2>1, HandleLineType, Zenon
  <2>. HIDE DEF l
  <2>3. OkStatus(after)
    BY <1>s, <2>2, Zenon DEF Unresponsive, OkStatus, Status
  <2>. HIDE DEF after
  <2>4. CASE proc = "gone"
    <3>1. TransientError(after) /\ proc' = proc
      BY <1>13, <2>4, Zenon DEF WatchLineLate, after, l
    <3>2. /\ OkStatus(link') /\ sup' \in {"backoff", "spawning", "done"}
          /\ crashes' \in 0..CrashThreshold /\ owned' \in BOOLEAN
      BY <2>3, <3>1, TransientErrorType, Zenon DEF TypeOK
    <3>. QED  BY <1>13, <2>1, <3>1, <3>2, Zenon DEF WatchLineLate, TypeOK, OkStatus, SupStates
  <2>5. CASE proc # "gone"
    <3>1. /\ link' = after /\ proc' = Killed(proc) /\ sup' = "reaping"
          /\ UNCHANGED <<crashes, owned>>
      BY <1>13, <2>5, Zenon DEF WatchLineLate, after, l
    <3>. QED  BY <1>13, <2>1, <2>3, <3>1, Zenon DEF WatchLineLate, TypeOK, OkStatus, SupStates, Killed
  <2>. QED  BY <2>4, <2>5, Zenon
<1>14. CASE WatchTimeout
  <2>1. OkStatus(link')
    BY <1>0, <1>14, <1>s, Zenon DEF WatchTimeout, Unresponsive, OkStatus, Status
  <2>. QED  BY <1>14, <2>1, Zenon DEF WatchTimeout, TypeOK, OkStatus, SupStates, Killed
<1>15. CASE WatchEof
  BY <1>15, Zenon DEF WatchEof, TypeOK, vars
<1>16. CASE Reaped
  <2>1. OkStatus(HandleChildExit(link, -1))
    <3>1. link.restarts + 1 \in Nat
      BY <1>0 DEF OkStatus, Status
    <3>. QED  BY <1>0, <3>1 DEF HandleChildExit, ExitIsTerminal, OkStatus, Status
  <2>2. OkStatus(link') /\ sup' \in {"backoff", "spawning"}
    BY <1>16, <2>1, LoopTopType, Zenon DEF Reaped
  <2>. QED  BY <1>16, <2>2, Zenon DEF Reaped, TypeOK, OkStatus, SupStates
<1>17. CASE ChildPrints
  BY <1>17, BoundsAssumption DEF ChildPrints, TypeOK
<1>18. CASE ChildExits
  BY <1>18, Zenon DEF ChildExits, TypeOK
<1>19. CASE ExitSeen
  BY <1>19, Zenon DEF ExitSeen, TypeOK
<1>20. CASE TimerFires
  BY <1>20, Zenon DEF TimerFires, TypeOK
<1>21. CASE UNCHANGED vars
  BY <1>21 DEF vars, TypeOK
<1>. QED
  BY <1>1, <1>2, <1>3, <1>4, <1>5, <1>6, <1>7, <1>8, <1>9, <1>10, <1>11,
     <1>12, <1>13, <1>14, <1>15, <1>16, <1>17, <1>18, <1>19, <1>20, <1>21, Zenon
  DEF Next, Supervisor

(* Every variable keeps its type and the event ring its bound, whatever    *)
(* lines the child prints and however often it is restarted.               *)
THEOREM TypeCorrect == Spec => []TypeOK
BY TypeInit, TypeNext, PTL DEF Spec

-----------------------------------------------------------------------------
(* A link that has a supervisor has a configuration to run with *)

(* There is a supervisor task, or a child of one.                          *)
Active == sup # "none" \/ cancel \/ proc # "none"

ActiveInv == env \in Environments /\ (Active => Configured(env) /\ ConfigOf(env).enabled)

LEMMA ActiveNext == ActiveInv /\ [Next]_vars => ActiveInv'
<1>. SUFFICES ASSUME ActiveInv, [Next]_vars PROVE ActiveInv'
  BY Zenon
<1>. USE DEF harness, child, watch, task, Active
<1>1. CASE Start
  <2>1. env \in Environments /\ env' = env
    BY <1>1, Zenon DEF Start, ActiveInv
  <2>2. Config.enabled = ConfigOf(env).enabled
    BY <2>1, EnvironmentsAssumption, NormalizeKeeps, Zenon DEF Config
  <2>. QED  BY <1>1, <2>1, <2>2, Zenon DEF Start, ActiveInv
<1>2. ASSUME env' = env, Active' => Active PROVE ActiveInv'
  BY <1>2, Zenon DEF ActiveInv
<1>3. CASE StopCall
  BY <1>2, <1>3, Zenon DEF StopCall
<1>4. CASE StopWaited
  BY <1>2, <1>4, Zenon DEF StopWaited, KillChild, Killed
<1>5. CASE StopKilled \/ ConsumeEvent
  BY <1>2, <1>5, Zenon DEF StopKilled, ConsumeEvent
<1>6. CASE SupBegin \/ BackoffDone \/ SpawnOk
  BY <1>2, <1>6, Zenon DEF SupBegin, BackoffDone, SpawnOk
<1>7. CASE SpawnFail \/ SupCancelled \/ SupKilled
  BY <1>2, <1>7, Zenon DEF SpawnFail, SupCancelled, SupKilled
<1>8. CASE WatchLine \/ WatchTimeout \/ Reaped
  BY <1>2, <1>8, Zenon DEF WatchLine, WatchTimeout, Reaped
<1>9. CASE WatchLineLate
  BY <1>2, <1>9, Zenon DEF WatchLineLate
<1>10. CASE ChildPrints \/ ChildExits \/ ExitSeen \/ TimerFires
  BY <1>2, <1>10, Zenon DEF ChildPrints, ChildExits, ExitSeen, TimerFires
<1>11. CASE WatchEof \/ UNCHANGED vars
  BY <1>2, <1>11 DEF WatchEof, vars
<1>. QED
  BY <1>1, <1>3, <1>4, <1>5, <1>6, <1>7, <1>8, <1>9, <1>10, <1>11, Zenon DEF Next, Supervisor

LEMMA ActiveInvariant == Spec => []ActiveInv
<1>1. Init => ActiveInv
  BY Zenon DEF Init, ActiveInv, Active
<1>. QED  BY <1>1, ActiveNext, PTL DEF Spec

(* Its configuration is sound, and its events have a kind of harness.      *)
LEMMA ActiveSound == ActiveInv => StartedAsConfigured /\ (EventRaises => ~Active)
BY ConfiguredSoundly, EnvironmentsAssumption, Zenon
DEF ActiveInv, Active, StartedAsConfigured, Config, EventRaises

-----------------------------------------------------------------------------
(* What stop() guarantees *)

LEMMA StopInit == Init => StopInv
BY DEF Init, StopInv

(* Every step keeps a stopped link's supervisor cancelled or ended.        *)
LEMMA StopNext == TypeOK /\ ActiveInv /\ StopInv /\ [Next]_vars => StopInv'
<1>. SUFFICES ASSUME TypeOK, ActiveInv, StopInv, [Next]_vars PROVE StopInv'
  BY Zenon
<1>. USE DEF harness, child, watch, task
<1>0. OkStatus(link)
  BY Zenon DEF TypeOK, OkStatus
<1>s. /\ {"starting", "stopped"} \subseteq LinkStates
      /\ None \in Reasons
  BY Zenon DEF LinkStates, Reasons
<1>1. CASE Start
  BY <1>1, Zenon DEF Start, StopInv
<1>2. CASE StopCall
  <2>1. stopped' /\ started'
    BY <1>2, Zenon DEF StopCall, StopInv
  <2>2. EventRaises => sup = "none" /\ proc = "none"
    BY ActiveSound, Zenon DEF Active
  <2>3. CASE sup \in {"none", "done"}
    BY <1>2, <2>1, <2>2, <2>3, Zenon DEF StopCall, StopInv
  <2>4. CASE sup \notin {"none", "done"}
    <3>1. stopper' = "waiting" /\ cancel' /\ proc' = proc /\ owned' = owned /\ sup' = sup
      BY <1>2, <2>2, <2>4, Zenon DEF StopCall
    <3>. QED  BY <2>1, <3>1, Zenon DEF StopInv
  <2>. QED  BY <2>3, <2>4, Zenon
<1>3. CASE StopWaited
  BY <1>3, Zenon DEF StopWaited, KillChild, Killed, StopInv
<1>4. CASE StopKilled
  BY <1>4, Zenon DEF StopKilled, StopInv
<1>5. CASE ConsumeEvent
  <2>1. link'.state = link.state
    BY <1>0, <1>5, Zenon DEF ConsumeEvent, OkStatus, Status
  <2>. QED  BY <1>5, <2>1, Zenon DEF ConsumeEvent, StopInv
<1>6. CASE SupBegin
  <2>1. link'.state # "stopped" /\ sup' \in {"backoff", "spawning"}
    BY <1>0, <1>6, LoopTopType, Zenon DEF SupBegin
  <2>. QED  BY <1>6, <2>1, Zenon DEF SupBegin, StopInv
<1>7. CASE BackoffDone
  <2>1. link'.state # "stopped"
    BY <1>0, <1>7, <1>s, TransitionType, Zenon DEF BackoffDone, Starting
  <2>. QED  BY <1>7, <2>1, Zenon DEF BackoffDone, StopInv
<1>8. CASE SpawnOk
  <2>1. link.reason \in Reasons
    BY <1>0, Zenon DEF OkStatus, Status
  <2>2. link'.state = link.state
    BY <1>0, <1>8, <1>s, <2>1, EmitType, Zenon DEF SpawnOk
  <2>. QED  BY <1>8, <2>2, Zenon DEF SpawnOk, StopInv, TypeOK
<1>9. CASE SpawnFail
  <2>1. link'.state # "stopped" /\ sup' \in {"backoff", "spawning", "done"}
    BY <1>0, <1>9, TransientErrorType, Zenon DEF SpawnFail, TypeOK
  <2>. QED  BY <1>9, <2>1, Zenon DEF SpawnFail, StopInv
<1>10. CASE SupCancelled
  BY <1>10, Zenon DEF SupCancelled, KillChild, Killed, StopInv
<1>11. CASE SupKilled
  BY <1>11, Zenon DEF SupKilled, StopInv
<1>12. CASE WatchLine
  <2>1. Head(pipe) \in ChildLine /\ run \in Nat
    BY <1>12, LinesTyped DEF WatchLine, TypeOK
  <2>2. link'.state = "stopped" => link.state = "stopped"
    BY <1>0, <1>12, <2>1, HandleLineType, Zenon DEF WatchLine
  <2>. QED  BY <1>12, <2>2, Zenon DEF WatchLine, StopInv
<1>13. CASE WatchLineLate
  <2>. DEFINE l == HandleLine(link, Head(pipe), run)
              after == Unresponsive(l)
  <2>1. Head(pipe) \in ChildLine /\ run \in Nat
    BY <1>13, LinesTyped DEF WatchLineLate, TypeOK
  <2>2. OkStatus(l) /\ (l.state = "stopped" => link.state = "stopped")
    BY <1>0, <2>1, HandleLineType, Zenon
  <2>. HIDE DEF l
  <2>u. "runtime_unresponsive" \in Reasons
    BY Zenon DEF Reasons, FailureClasses
  <2>3. OkStatus(after) /\ after.state = l.state
    BY <2>u, <2>2, Zenon DEF Unresponsive, OkStatus, Status
  <2>. HIDE DEF after
  <2>4. CASE proc = "gone"
    <3>1. TransientError(after) /\ proc' = proc
      BY <1>13, <2>4, Zenon DEF WatchLineLate, after, l
    <3>2. link'.state # "stopped" /\ sup' \in {"backoff", "spawning", "done"}
      BY <2>3, <3>1, TransientErrorType, Zenon DEF TypeOK
    <3>. QED  BY <1>13, <2>4, <3>1, <3>2, Zenon DEF WatchLineLate, StopInv
  <2>5. CASE proc # "gone"
    <3>1. /\ link' = after /\ proc' = Killed(proc) /\ sup' = "reaping"
          /\ UNCHANGED <<crashes, owned>>
      BY <1>13, <2>5, Zenon DEF WatchLineLate, after, l
    <3>. QED  BY <1>13, <2>2, <2>3, <3>1, Zenon DEF WatchLineLate, StopInv, Killed
  <2>. QED  BY <2>4, <2>5, Zenon
<1>14. CASE WatchTimeout
  <2>1. link'.state = link.state
    BY <1>0, <1>14, Zenon DEF WatchTimeout, Unresponsive, OkStatus, Status
  <2>. QED  BY <1>14, <2>1, Zenon DEF WatchTimeout, StopInv, Killed
<1>15. CASE WatchEof
  BY <1>15, Zenon DEF WatchEof, StopInv, vars
<1>16. CASE Reaped
  <2>1. OkStatus(HandleChildExit(link, -1))
    <3>1. link.restarts + 1 \in Nat
      BY <1>0 DEF OkStatus, Status
    <3>. QED  BY <1>0, <3>1 DEF HandleChildExit, ExitIsTerminal, OkStatus, Status
  <2>2. link'.state # "stopped" /\ sup' \in {"backoff", "spawning"}
    BY <1>16, <2>1, LoopTopType, Zenon DEF Reaped
  <2>. QED  BY <1>16, <2>2, Zenon DEF Reaped, StopInv
<1>17. CASE ChildPrints
  BY <1>17, Zenon DEF ChildPrints, StopInv
<1>18. CASE ChildExits
  BY <1>18, Zenon DEF ChildExits, StopInv
<1>19. CASE ExitSeen
  BY <1>19, Zenon DEF ExitSeen, StopInv
<1>20. CASE TimerFires
  BY <1>20, Zenon DEF TimerFires, StopInv
<1>21. CASE UNCHANGED vars
  BY <1>21, Zenon DEF vars, StopInv
<1>. QED
  BY <1>1, <1>2, <1>3, <1>4, <1>5, <1>6, <1>7, <1>8, <1>9, <1>10, <1>11,
     <1>12, <1>13, <1>14, <1>15, <1>16, <1>17, <1>18, <1>19, <1>20, <1>21, Zenon
  DEF Next, Supervisor

(* The argument for the two theorems below is an invariant of the link.    *)
THEOREM StopInvariant == Spec => []StopInv
BY StopInit, StopNext, TypeCorrect, ActiveInvariant, PTL DEF Spec

(* When stop() has returned, no runtime child is running, whatever the     *)
(* supervisor was doing when stop() was called.                            *)
THEOREM NoOrphanAfterStop == Spec => []NoOrphan
<1>1. StopInv => NoOrphan
  BY Zenon DEF StopInv, NoOrphan
<1>. QED  BY <1>1, StopInvariant, PTL

(* A stopped link changes state again on no step of the supervisor, of its *)
(* child or of the harness.                                                *)
THEOREM StopIsFinal == Spec => StoppedIsFinal
<1>1. ASSUME TypeOK, StopInv, [Next]_vars
      PROVE  [link.state = "stopped" => link'.state = "stopped"]_vars
  <2>. SUFFICES ASSUME link.state = "stopped", Next
                PROVE  link'.state = "stopped"
    BY <1>1, Zenon
  <2>. USE DEF harness, child, watch, task
  <2>1. stopped /\ (cancel \/ sup \in {"none", "done"})
    BY <1>1, Zenon DEF StopInv
  <2>2. link' = link \/ ConsumeEvent
    BY <2>1, Zenon DEF Next, Supervisor, Start, StopCall, StopWaited, StopKilled,
         SupBegin, BackoffDone, SpawnOk, SpawnFail, SupCancelled, SupKilled,
         WatchLine, WatchLineLate, WatchTimeout, WatchEof, Reaped, vars,
         ChildPrints, ChildExits, ExitSeen, TimerFires
  <2>3. ConsumeEvent => link'.state = link.state
    BY <1>1, Zenon DEF ConsumeEvent, TypeOK, Status
  <2>. QED  BY <2>2, <2>3, Zenon
<1>. QED  BY <1>1, TypeCorrect, StopInvariant, PTL DEF Spec, StoppedIsFinal

(* The steps that are left of a task that has been stopped, and of stop(). *)
TaskLeft(place) ==
    IF place = "done" THEN 0 ELSE IF place = "killing" THEN 1 ELSE 2

StopLeft(place) ==
    IF place \in {"returned", "raised"} THEN 0 ELSE IF place = "killing" THEN 1 ELSE 2

(* Nothing keeps a stopped link busy: whatever the supervisor was awaiting, *)
(* it makes at most two steps more (it kills its child, and has waited for  *)
(* it), as stop() does, neither begins anew, and no child is started.       *)
THEOREM StopIsShort ==
    Spec => [][stopped => /\ sup' = sup \/ TaskLeft(sup') < TaskLeft(sup)
                          /\ stopper' = stopper \/ StopLeft(stopper') < StopLeft(stopper)
                          /\ run' = run]_vars
<1>. DEFINE Ends == /\ sup' = sup \/ TaskLeft(sup') < TaskLeft(sup)
                    /\ stopper' = stopper \/ StopLeft(stopper') < StopLeft(stopper)
                    /\ run' = run
<1>1. ASSUME StopInv, [Next]_vars PROVE [stopped => Ends]_vars
  <2>. SUFFICES ASSUME stopped, Next PROVE Ends
    BY <1>1, Zenon
  <2>. USE DEF harness, child, watch, task
  <2>1. cancel \/ sup \in {"none", "done"}
    BY <1>1, Zenon DEF StopInv
  <2>2. CASE SupCancelled
    <3>1. /\ sup \notin {"killing", "done"} /\ sup' \in {"killing", "done"}
          /\ stopper' = stopper /\ run' = run
      BY <2>2, Zenon DEF SupCancelled, KillChild
    <3>. QED  BY <3>1 DEF TaskLeft
  <2>3. CASE SupKilled
    BY <2>3 DEF SupKilled, TaskLeft
  <2>4. CASE StopWaited
    <3>1. /\ stopper = "waiting" /\ stopper' \in {"killing", "returned"}
          /\ sup' = sup /\ run' = run
      BY <2>4, Zenon DEF StopWaited, KillChild
    <3>. QED  BY <3>1 DEF StopLeft
  <2>5. CASE StopKilled
    BY <2>5 DEF StopKilled, StopLeft
  <2>6. CASE ~(SupCancelled \/ SupKilled \/ StopWaited \/ StopKilled)
    BY <2>1, <2>6, Zenon DEF Next, Supervisor, Start, StopCall, ConsumeEvent,
         SupBegin, BackoffDone, SpawnOk, SpawnFail,
         WatchLine, WatchLineLate, WatchTimeout, WatchEof, Reaped, vars,
         ChildPrints, ChildExits, ExitSeen, TimerFires
  <2>. QED  BY <2>2, <2>3, <2>4, <2>5, <2>6, Zenon
<1>. HIDE DEF Ends
<1>2. Spec => [][stopped => Ends]_vars
  BY <1>1, StopInvariant, PTL DEF Spec
<1>. QED  BY <1>2, Zenon DEF Ends

(* A watch whose child is gone and whose lines have all been read.         *)
Blind == sup = "watching" /\ proc = "gone" /\ pipe = <<>>

(* What _watch_child does instead of returning when its child exits: no    *)
(* timer, line or exit ends a blind watch, which goes on until stop()      *)
(* cancels it, and the state the link shows stays what it was, `connected' *)
(* for instance; no restart is counted and no child is started.            *)
THEOREM ExitIsMissed ==
    Spec => [][Blind /\ ~cancel =>
                 /\ Blind' /\ run' = run
                 /\ ~cancel' => link'.state = link.state /\ link'.restarts = link.restarts]_vars
<1>. DEFINE Misses == /\ Blind' /\ run' = run
                      /\ ~cancel' => link'.state = link.state /\ link'.restarts = link.restarts
<1>1. ASSUME TypeOK, ActiveInv, StopInv, [Next]_vars PROVE [Blind /\ ~cancel => Misses]_vars
  <2>. SUFFICES ASSUME Blind, ~cancel, Next PROVE Misses
    BY <1>1, Zenon
  <2>. USE DEF harness, child, watch, task
  <2>1. CASE ConsumeEvent
    <3>1. link'.state = link.state /\ link'.restarts = link.restarts
      BY <1>1, <2>1, Zenon DEF ConsumeEvent, TypeOK, Status
    <3>. QED  BY <2>1, <3>1, Zenon DEF ConsumeEvent, Blind
  <2>2. CASE StopCall
    <3>1. sup = "watching" /\ proc = "gone" /\ pipe = <<>> /\ ~EventRaises
      BY <1>1, ActiveSound, Zenon DEF Active, Blind
    <3>2. cancel' /\ sup' = sup /\ proc' = proc /\ pipe' = pipe /\ run' = run
      BY <2>2, <3>1, Zenon DEF StopCall
    <3>. QED  BY <3>1, <3>2, Zenon DEF Blind
  <2>3. CASE ~(ConsumeEvent \/ StopCall)
    <3>1. /\ sup = "watching" /\ proc = "gone" /\ pipe = <<>>
          /\ started
      BY <1>1, Zenon DEF Blind, StopInv
    <3>2. /\ sup' = sup /\ proc' = proc /\ pipe' = pipe /\ run' = run /\ link' = link
      BY <2>3, <3>1, Zenon DEF Next, Supervisor, Start, StopWaited, StopKilled, KillChild,
           SupBegin, BackoffDone, SpawnOk, SpawnFail, SupCancelled, SupKilled,
           WatchLine, WatchLineLate, WatchTimeout, WatchEof, Reaped, vars,
           ChildPrints, ChildExits, ExitSeen, TimerFires
    <3>. QED  BY <3>1, <3>2, Zenon DEF Blind
  <2>. QED  BY <2>1, <2>2, <2>3, Zenon
<1>. HIDE DEF Misses
<1>2. Spec => [][Blind /\ ~cancel => Misses]_vars
  BY <1>1, TypeCorrect, ActiveInvariant, StopInvariant, PTL DEF Spec
<1>. QED  BY <1>2, Zenon DEF Misses

-----------------------------------------------------------------------------
(* What the status and its events show *)

LEMMA PushNewest ==
    ASSUME NEW r \in Seq(Event), Len(r) <= RingSize, NEW ev \in Event
    PROVE  Push(r, ev) # <<>> /\ Push(r, ev)[Len(Push(r, ev))] = ev
<1>1. CASE Len(r) < RingSize
  BY <1>1, BoundsAssumption DEF Push
<1>2. CASE ~(Len(r) < RingSize)
  <2>1. Tail(r) \in Seq(Event)
    BY <1>2, BoundsAssumption
  <2>. QED  BY <1>2, <2>1, BoundsAssumption DEF Push
<1>. QED  BY <1>1, <1>2, Zenon

LEMMA EmitNewest ==
    ASSUME NEW l, OkStatus(l), NEW why \in Reasons
    PROVE  Newest(Emit(l, l.state, why))
<1>1. [state |-> l.state, reason |-> why] \in Event
      /\ l.ring \in Seq(Event) /\ Len(l.ring) <= RingSize
  BY Zenon DEF OkStatus, Status, Event
<1>. DEFINE ev == [state |-> l.state, reason |-> why]
            m  == Emit(l, l.state, why)
<1>2. m.ring = Push(l.ring, ev) /\ m.state = l.state /\ ev.state = l.state
  BY Zenon DEF Emit, OkStatus, Status
<1>. HIDE DEF m, ev
<1>3. m.ring[Len(m.ring)] = ev
  BY <1>1, <1>2, PushNewest, Zenon DEF ev
<1>. QED  BY <1>2, <1>3, Zenon DEF Newest, m

(* A transition's event is the newest, and it leaves the run alone.        *)
LEMMA TransitionShown ==
    ASSUME NEW l, OkStatus(l), NEW s \in LinkStates, NEW why \in Reasons
    PROVE  /\ Newest(Transition(l, s, why)) /\ Transition(l, s, why).state = s
           /\ Transition(l, s, why).identity = l.identity
           /\ Transition(l, s, why).runId = l.runId
<1>. DEFINE m == [l EXCEPT !.state = s, !.reason = why]
<1>1. OkStatus(m) /\ m.state = s /\ m.identity = l.identity /\ m.runId = l.runId
  BY Zenon DEF OkStatus, Status
<1>. HIDE DEF m
<1>2. /\ Emit(m, s, why).identity = m.identity /\ Emit(m, s, why).runId = m.runId
      /\ Emit(m, s, why).state = s
  BY <1>1, Zenon DEF Emit, OkStatus, Status
<1>3. Newest(Emit(m, s, why))
  BY <1>1, EmitNewest, Zenon
<1>. QED  BY <1>1, <1>2, <1>3, Zenon DEF Transition, m

OfRun(l, r) ==
    l.state \in {"connected", "degraded"} => l.identity = r /\ l.runId = r

(* A line of the child numbered r, in a state the watch loop can see.      *)
LEMMA HandleLineShown ==
    ASSUME NEW l, OkStatus(l), NEW line \in ChildLine, NEW r \in Nat,
           Newest(l), l.state \in Watchable, OfRun(l, r)
    PROVE  /\ Newest(HandleLine(l, line, r))
           /\ HandleLine(l, line, r).state \in Watchable
           /\ OfRun(HandleLine(l, line, r), r)
<1>0. /\ {"connected", "degraded", "terminal"} \subseteq LinkStates
      /\ None \in Reasons /\ "installation_unauthorized" \in Reasons
  BY Zenon DEF LinkStates, Reasons, FailureClasses
<1>1. CASE line.kind = "identity"
  <2>. DEFINE m == [l EXCEPT !.identity = r, !.runId = r, !.fails = line.dropped]
              s == IF l.state = "starting" THEN "connected" ELSE "degraded"
  <2>0. line.dropped \in Nat
    BY <1>1, Zenon DEF ChildLine
  <2>1. OkStatus(m) /\ m.identity = r /\ m.runId = r
    BY <2>0, Zenon DEF OkStatus, Status
  <2>2. s \in LinkStates /\ s \in Watchable
    BY <1>0, Zenon DEF Watchable
  <2>. HIDE DEF m, s
  <2>3. /\ Newest(Transition(m, s, None)) /\ Transition(m, s, None).state = s
        /\ Transition(m, s, None).identity = r /\ Transition(m, s, None).runId = r
    BY <1>0, <2>1, <2>2, TransitionShown
  <2>. QED  BY <1>1, <2>2, <2>3, Zenon DEF HandleLine, HandleIdentity, OfRun, m, s
<1>2. CASE line.kind = "beat"
  <2>0. line.outcome \in BeatOutcomes
    BY <1>2, Zenon DEF ChildLine
  <2>1. CASE line.outcome = "ok"
    <3>. DEFINE m == [l EXCEPT !.runId = r, !.fails = 0]
                t == Transition(m, "connected", None)
    <3>1. /\ OkStatus(m) /\ m.state = l.state /\ m.identity = l.identity
          /\ m.runId = r /\ m.ring = l.ring
      BY Zenon DEF OkStatus, Status
    <3>2. Newest(m) /\ OfRun(m, r)
      BY <3>1, Zenon DEF Newest, OfRun
    <3>. HIDE DEF m
    <3>3. /\ Newest(t) /\ t.state = "connected"
          /\ t.identity = l.identity /\ t.runId = r
      BY <1>0, <3>1, TransitionShown
    <3>. HIDE DEF t
    <3>4. HandleLine(l, line, r) = IF l.state \in {"degraded", "reconnecting"} THEN t ELSE m
      BY <1>2, <2>1, Zenon DEF HandleLine, HandleBeat, m, t
    <3>. QED  BY <3>1, <3>2, <3>3, <3>4, Zenon DEF OfRun, Watchable
  <2>2. CASE line.outcome = "unauthorized"
    <3>. DEFINE m == [l EXCEPT !.runId = r]
                t == Transition(m, "terminal", "installation_unauthorized")
    <3>1. OkStatus(m)
      BY Zenon DEF OkStatus, Status
    <3>. HIDE DEF m
    <3>2. Newest(t) /\ t.state = "terminal"
      BY <1>0, <3>1, TransitionShown
    <3>. HIDE DEF t
    <3>3. HandleLine(l, line, r) = t
      BY <1>2, <2>2, Zenon DEF HandleLine, HandleBeat, m, t
    <3>. QED  BY <3>2, <3>3, Zenon DEF OfRun, Watchable
  <2>3. CASE line.outcome \notin {"ok", "unauthorized"}
    <3>. DEFINE m == [l EXCEPT !.runId = r, !.fails = @ + 1]
                why == ClassifyBeatOutcome(line.outcome)
                t == Transition(m, "degraded", why)
    <3>0. l.fails + 1 \in Nat
      BY DEF OkStatus, Status
    <3>1. /\ OkStatus(m) /\ m.state = l.state /\ m.identity = l.identity
          /\ m.runId = r /\ m.ring = l.ring
      BY <3>0, Zenon DEF OkStatus, Status
    <3>2. why \in Reasons
      BY <2>0, <2>3, Zenon DEF BeatOutcomes, CatalogFailures, ClassifyBeatOutcome, Reasons, FailureClasses
    <3>3. Newest(m) /\ OfRun(m, r)
      BY <3>1, Zenon DEF Newest, OfRun
    <3>. HIDE DEF m, why
    <3>4. /\ Newest(t) /\ t.state = "degraded"
          /\ t.identity = l.identity /\ t.runId = r
      BY <1>0, <3>1, <3>2, TransitionShown
    <3>. HIDE DEF t
    <3>5. HandleLine(l, line, r) = IF l.state = "connected" THEN t ELSE m
      BY <1>2, <2>3, Zenon DEF HandleLine, HandleBeat, m, t, why
    <3>. QED  BY <3>1, <3>3, <3>4, <3>5, Zenon DEF OfRun, Watchable
  <2>. QED  BY <2>1, <2>2, <2>3, Zenon
<1>3. CASE line.kind = "terminal"
  <2>. DEFINE why == ClassifyTerminal(line.why)
              t == Transition(l, "terminal", why)
  <2>1. why \in Reasons
    BY Zenon DEF ClassifyTerminal, Reasons, FailureClasses
  <2>. HIDE DEF why
  <2>2. Newest(t) /\ t.state = "terminal"
    BY <1>0, <2>1, TransitionShown
  <2>. HIDE DEF t
  <2>3. HandleLine(l, line, r) = t
    BY <1>3, Zenon DEF HandleLine, HandleTerminal, why, t
  <2>. QED  BY <2>2, <2>3 DEF OfRun, Watchable
<1>4. CASE line.kind = "rejected"
  <2>1. /\ HandleLine(l, line, r).ring = l.ring
        /\ HandleLine(l, line, r).state = l.state
        /\ HandleLine(l, line, r).identity = l.identity
        /\ HandleLine(l, line, r).runId = l.runId
    BY <1>4, Zenon DEF HandleLine, OkStatus, Status
  <2>. QED  BY <2>1, Zenon DEF Newest, OfRun
<1>5. CASE line.kind = "ignored"
  BY <1>5, Zenon DEF HandleLine
<1>. QED  BY <1>1, <1>2, <1>3, <1>4, <1>5, Zenon DEF ChildLine

LEMMA LoopTopShown ==
    ASSUME NEW l, OkStatus(l), LoopTop(l)
    PROVE  /\ Newest(link') /\ sup' \in {"backoff", "spawning"}
           /\ sup' = "spawning" => link'.state = "starting"
<1>1. "reconnecting" \in LinkStates /\ "starting" \in LinkStates /\ None \in Reasons
  BY DEF LinkStates, Reasons
<1>2. /\ Newest(Transition(l, "reconnecting", None))
      /\ Newest(Transition(l, "starting", None))
      /\ Transition(l, "starting", None).state = "starting"
  BY <1>1, TransitionShown, Zenon
<1>. QED  BY <1>2, Zenon DEF LoopTop, Reconnecting, Starting

LEMMA TransientErrorShown ==
    ASSUME NEW l, OkStatus(l), TransientError(l)
    PROVE  /\ Newest(link') /\ sup' \in {"backoff", "spawning", "done"}
           /\ sup' = "spawning" => link'.state = "starting"
<1>. DEFINE counted == [l EXCEPT !.restarts = @ + 1]
<1>1. l.restarts + 1 \in Nat
  BY DEF OkStatus, Status
<1>2. OkStatus(counted)
  BY <1>1, Zenon DEF OkStatus, Status
<1>. HIDE DEF counted
<1>3. /\ {"terminal", "reconnecting"} \subseteq LinkStates
      /\ None \in Reasons /\ "runtime_crashloop" \in Reasons
  BY Zenon DEF LinkStates, Reasons, FailureClasses
<1>4. CASE link' = Transition(counted, "terminal", "runtime_crashloop") /\ sup' = "done"
  BY <1>2, <1>3, <1>4, TransitionShown, Zenon
<1>5. CASE LoopTop(Reconnecting(counted))
  <2>1. OkStatus(Reconnecting(counted))
    BY <1>2, <1>3, TransitionType, Zenon DEF Reconnecting
  <2>. QED  BY <1>5, <2>1, LoopTopShown, Zenon
<1>. QED  BY <1>4, <1>5, Zenon DEF TransientError, counted

Shown == NewestEventIsState /\ StatusIsOfCurrentRun /\ ShownInv

LEMMA ShownInit == Init => Shown
BY DEF Init, Shown, NewestEventIsState, Newest, StatusIsOfCurrentRun, ShownInv

(* A step that leaves the supervisor outside the watch and the spawn.      *)
LEMMA ShownElsewhere ==
    ASSUME Newest(link'), sup' \notin {"watching", "reaping"}, sup' # "none" \/ stopped',
           sup' = "spawning" => link'.state = "starting"
    PROVE  Shown'
BY Zenon DEF Shown, NewestEventIsState, StatusIsOfCurrentRun, ShownInv

LEMMA ShownNext == TypeOK /\ ActiveInv /\ Shown /\ [Next]_vars => Shown'
<1>. SUFFICES ASSUME TypeOK, ActiveInv, Shown, [Next]_vars PROVE Shown'
  OBVIOUS
<1>. USE DEF harness, child, watch, task
<1>0. OkStatus(link) /\ Newest(link)
  BY Zenon DEF TypeOK, OkStatus, Shown, NewestEventIsState
<1>s. /\ {"starting", "stopped"} \subseteq LinkStates
      /\ None \in Reasons
  BY DEF LinkStates, Reasons
<1>a. ASSUME link'.ring = link.ring, link'.state = link.state,
             link'.identity = link.identity, link'.runId = link.runId,
             UNCHANGED <<sup, cancel, run>>, stopped => stopped'
      PROVE  Shown'
  BY <1>a, Zenon DEF Shown, NewestEventIsState, Newest, StatusIsOfCurrentRun, ShownInv
<1>1. CASE Start
  <2>1. link' = link /\ (sup' = sup \/ sup' = "top") /\ UNCHANGED <<cancel, run, stopped>>
    BY <1>1, Zenon DEF Start
  <2>. QED  BY <1>a, <1>0, <2>1, ShownElsewhere, Zenon
<1>2. CASE StopCall
  <2>1. CASE link.state = "terminal"
    <3>1. link' = link /\ UNCHANGED <<sup, run>> /\ (cancel' = cancel \/ cancel') /\ stopped'
      BY <1>2, <2>1, Zenon DEF StopCall
    <3>2. Newest(link')
      BY <1>0, <3>1 DEF Newest
    <3>3. cancel => cancel'
      BY <3>1, Zenon
    <3>. QED
      BY <3>1, <3>2, <3>3, Zenon DEF Shown, NewestEventIsState, StatusIsOfCurrentRun, ShownInv
  <2>2. CASE link.state # "terminal" /\ EventRaises
    <3>1. sup = "none" /\ ~stopped /\ link.ring = <<>>
      BY <1>2, <2>2, ActiveSound, Zenon DEF StopCall, Active, Shown, ShownInv
    <3>2. link'.ring = <<>> /\ sup' = "none" /\ stopped'
      BY <1>0, <1>2, <2>2, <3>1, Zenon DEF StopCall, OkStatus, Status
    <3>. QED  BY <3>2, ShownElsewhere, Zenon DEF Newest
  <2>3. CASE link.state # "terminal" /\ ~EventRaises
    <3>1. /\ link' = Transition(link, "stopped", None) /\ UNCHANGED <<sup, run>> /\ stopped'
          /\ sup \in {"none", "done"} \/ cancel'
      BY <1>2, <2>3, Zenon DEF StopCall
    <3>2. Newest(link') /\ link'.state = "stopped"
      BY <1>0, <1>s, <3>1, TransitionShown, Zenon
    <3>. QED  BY <3>1, <3>2, Zenon DEF Shown, NewestEventIsState, StatusIsOfCurrentRun, ShownInv
  <2>. QED  BY <2>1, <2>2, <2>3, Zenon
<1>3. CASE StopWaited \/ StopKilled \/ ChildPrints \/ ChildExits \/ ExitSeen \/ TimerFires
           \/ WatchEof \/ UNCHANGED vars
  <2>1. UNCHANGED <<link, sup, cancel, run, stopped>>
    BY <1>3, Zenon DEF StopWaited, StopKilled, ChildPrints, ChildExits, ExitSeen, TimerFires,
                WatchEof, vars
  <2>. QED  BY <1>a, <2>1, Zenon
<1>4. CASE ConsumeEvent
  <2>1. /\ link'.ring = Tail(link.ring) /\ link'.state = link.state
        /\ link'.identity = link.identity /\ link'.runId = link.runId
        /\ UNCHANGED <<sup, cancel, run, stopped>> /\ link.ring # <<>> /\ link.ring \in Seq(Event)
    <3>1. link \in Status
      BY <1>0, Zenon DEF OkStatus
    <3>2. link' = [link EXCEPT !.ring = Tail(@)] /\ link.ring # <<>>
          /\ UNCHANGED <<sup, cancel, run, stopped>>
      BY <1>4, Zenon DEF ConsumeEvent
    <3>. QED  BY <3>1, <3>2, Zenon DEF Status
  <2>2. link'.ring # <<>> => link'.ring[Len(link'.ring)] = link.ring[Len(link.ring)]
    BY <2>1
  <2>3. Newest(link')
    BY <1>0, <2>1, <2>2, Zenon DEF Newest
  <2>. QED  BY <2>1, <2>3, Zenon DEF Shown, NewestEventIsState, StatusIsOfCurrentRun, ShownInv
<1>5. CASE SupBegin
  <2>1. LoopTop(link)
    BY <1>5, Zenon DEF SupBegin
  <2>. QED  BY <1>0, <2>1, LoopTopShown, ShownElsewhere, Zenon
<1>6. CASE BackoffDone
  <2>1. link' = Transition(link, "starting", None) /\ sup' = "spawning"
    BY <1>6, Zenon DEF BackoffDone, Starting
  <2>2. Newest(link') /\ link'.state = "starting"
    BY <1>0, <1>s, <2>1, TransitionShown, Zenon
  <2>. QED  BY <2>1, <2>2, ShownElsewhere, Zenon
<1>7. CASE SpawnOk
  <2>1. link.reason \in Reasons /\ link.state = "starting"
        /\ link' = Emit(link, link.state, link.reason) /\ sup' = "watching"
    BY <1>0, <1>7, Zenon DEF SpawnOk, OkStatus, Status, Shown, ShownInv
  <2>2. Newest(link')
    BY <1>0, <2>1, EmitNewest, Zenon
  <2>3. link'.state = "starting"
    BY <1>0, <1>s, <2>1, EmitType, Zenon
  <2>. QED
    BY <2>1, <2>2, <2>3, Zenon DEF Shown, NewestEventIsState, StatusIsOfCurrentRun, ShownInv, Watchable
<1>8. CASE SpawnFail
  <2>1. TransientError(link)
    BY <1>8, Zenon DEF SpawnFail
  <2>. QED  BY <1>0, <2>1, TransientErrorShown, ShownElsewhere, Zenon
<1>9. CASE SupCancelled \/ SupKilled
  <2>1. link' = link /\ sup' \in {"killing", "done"}
    BY <1>9, Zenon DEF SupCancelled, SupKilled, KillChild
  <2>. QED  BY <1>0, <2>1, ShownElsewhere, Zenon
<1>w. ASSUME sup = "watching", ~cancel, pipe # <<>>
      PROVE  /\ OkStatus(HandleLine(link, Head(pipe), run))
             /\ Newest(HandleLine(link, Head(pipe), run))
             /\ HandleLine(link, Head(pipe), run).state \in Watchable
             /\ OfRun(HandleLine(link, Head(pipe), run), run)
  <2>1. Head(pipe) \in ChildLine /\ run \in Nat
    BY <1>w, LinesTyped DEF TypeOK
  <2>2. link.state \in Watchable /\ OfRun(link, run)
    BY <1>w, Zenon DEF Shown, ShownInv, StatusIsOfCurrentRun, OfRun
  <2>. QED  BY <1>0, <2>1, <2>2, HandleLineShown, HandleLineType, Zenon
<1>10. CASE WatchLine
  <2>1. /\ sup = "watching" /\ ~cancel /\ pipe # <<>> /\ UNCHANGED <<sup, cancel, run>>
        /\ link' = HandleLine(link, Head(pipe), run)
    BY <1>10, Zenon DEF WatchLine
  <2>2. Newest(link') /\ link'.state \in Watchable /\ OfRun(link', run)
    BY <1>w, <2>1, Zenon
  <2>. QED
    BY <2>1, <2>2, Zenon DEF Shown, NewestEventIsState, StatusIsOfCurrentRun, ShownInv, OfRun
<1>11. CASE WatchLineLate
  <2>. DEFINE l == HandleLine(link, Head(pipe), run)
              after == Unresponsive(l)
  <2>1. OkStatus(l) /\ Newest(l) /\ OfRun(l, run)
    BY <1>11, <1>w, Zenon DEF WatchLineLate
  <2>. HIDE DEF l
  <2>u. "runtime_unresponsive" \in Reasons
    BY DEF Reasons, FailureClasses
  <2>2. /\ OkStatus(after) /\ after.ring = l.ring /\ after.state = l.state
        /\ after.identity = l.identity /\ after.runId = l.runId
    BY <2>u, <2>1, Zenon DEF Unresponsive, OkStatus, Status
  <2>3. Newest(after) /\ OfRun(after, run)
    BY <2>1, <2>2, Zenon DEF Newest, OfRun
  <2>. HIDE DEF after
  <2>4. CASE proc = "gone"
    <3>1. TransientError(after)
      BY <1>11, <2>4, Zenon DEF WatchLineLate, after, l
    <3>. QED  BY <2>2, <3>1, TransientErrorShown, ShownElsewhere, Zenon
  <2>5. CASE proc # "gone"
    <3>1. link' = after /\ sup' = "reaping" /\ run' = run
      BY <1>11, <2>5, Zenon DEF WatchLineLate, after, l
    <3>. QED
      BY <2>3, <3>1, Zenon DEF Shown, NewestEventIsState, StatusIsOfCurrentRun, ShownInv, OfRun
  <2>. QED  BY <2>4, <2>5
<1>12. CASE WatchTimeout
  <2>1. /\ link'.ring = link.ring /\ link'.state = link.state
        /\ link'.identity = link.identity /\ link'.runId = link.runId
        /\ sup = "watching" /\ sup' = "reaping" /\ run' = run
    BY <1>0, <1>12, Zenon DEF WatchTimeout, Unresponsive, OkStatus, Status
  <2>. QED
    BY <1>0, <2>1, Zenon DEF Shown, NewestEventIsState, Newest, StatusIsOfCurrentRun, ShownInv
<1>13. CASE Reaped
  <2>1. OkStatus(HandleChildExit(link, -1))
    <3>1. link.restarts + 1 \in Nat
      BY <1>0 DEF OkStatus, Status
    <3>. QED  BY <1>0, <3>1 DEF HandleChildExit, ExitIsTerminal, OkStatus, Status
  <2>2. LoopTop(HandleChildExit(link, -1))
    BY <1>13, Zenon DEF Reaped
  <2>. QED  BY <2>1, <2>2, LoopTopShown, ShownElsewhere, Zenon
<1>. QED
  BY <1>1, <1>2, <1>3, <1>4, <1>5, <1>6, <1>7, <1>8, <1>9, <1>10, <1>11, <1>12, <1>13, Zenon
  DEF Next, Supervisor

LEMMA ShownInvariant == Spec => []Shown
BY ShownInit, ShownNext, TypeCorrect, ActiveInvariant, PTL DEF Spec

(* The newest event in the ring describes the current state, whichever of  *)
(* stop(), the supervisor and the watch loop emitted it.                   *)
THEOREM EventsInOrder == Spec => []NewestEventIsState
<1>1. Shown => NewestEventIsState
  BY Zenon DEF Shown
<1>. QED  BY <1>1, ShownInvariant, PTL

(* A connected or degraded link shows the run and the identity of the      *)
(* child it watches, however many children there were before.              *)
THEOREM StatusOfCurrentRun == Spec => []StatusIsOfCurrentRun
<1>1. Shown => StatusIsOfCurrentRun
  BY Zenon DEF Shown
<1>. QED  BY <1>1, ShownInvariant, PTL

-----------------------------------------------------------------------------
(* The backoff counts the children *)

LEMMA CountInit == Init => CountInv
<1>. SUFFICES ASSUME Init PROVE CountInv
  BY Zenon
<1>1. sup = "none" /\ run = 0 /\ link.restarts = 0
  BY Zenon DEF Init
<1>. QED  BY <1>1, Zenon DEF CountInv

LEMMA CountNext == TypeOK /\ StopInv /\ CountInv /\ [Next]_vars => CountInv'
<1>. SUFFICES ASSUME TypeOK, StopInv, CountInv, [Next]_vars PROVE CountInv'
  BY Zenon
<1>. USE DEF harness, child, watch, task
<1>0. OkStatus(link) /\ run \in Nat /\ link.restarts \in Nat
  BY DEF TypeOK, OkStatus, Status
<1>s. {"starting", "stopped"} \subseteq LinkStates /\ None \in Reasons /\ link.reason \in Reasons
  BY <1>0, Zenon DEF LinkStates, Reasons, OkStatus, Status
<1>a. ASSUME link'.restarts = link.restarts, run' = run,
             sup' = sup \/ sup' \in {"killing", "done"}
      PROVE  CountInv'
  BY <1>a, Zenon DEF CountInv
<1>b. ASSUME link'.restarts = run', run' \in Nat \ {0},
             sup' \in {"backoff", "spawning", "done"}
      PROVE  CountInv'
  <2>1. run' > 0
    BY <1>b
  <2>. QED  BY <1>b, <2>1, Zenon DEF CountInv
<1>1. CASE Start
  <2>1. link' = link /\ run' = run /\ (sup' = sup \/ sup' = "top") /\ sup = "none"
    BY <1>1, Zenon DEF Start, StopInv
  <2>. QED  BY <2>1, Zenon DEF CountInv
<1>2. CASE StopCall
  <2>1. Transition(link, "stopped", None).restarts = link.restarts
    BY <1>0, <1>s, TransitionType, Zenon
  <2>2. [link EXCEPT !.state = "stopped", !.reason = None].restarts = link.restarts
    BY <1>0, Zenon DEF OkStatus, Status
  <2>. QED  BY <1>2, <1>a, <2>1, <2>2, Zenon DEF StopCall
<1>3. CASE StopWaited \/ StopKilled \/ ChildPrints \/ ChildExits \/ ExitSeen \/ TimerFires
           \/ WatchEof \/ UNCHANGED vars
  <2>1. link' = link /\ run' = run /\ sup' = sup
    BY <1>3, Zenon DEF StopWaited, StopKilled, ChildPrints, ChildExits, ExitSeen, TimerFires,
                WatchEof, vars
  <2>. QED  BY <1>a, <2>1, Zenon
<1>4. CASE ConsumeEvent
  <2>1. link'.restarts = link.restarts
    BY <1>0, <1>4, Zenon DEF ConsumeEvent, OkStatus, Status
  <2>. QED  BY <1>4, <1>a, <2>1, Zenon DEF ConsumeEvent
<1>5. CASE SupBegin
  <2>1. /\ sup = "top" /\ run' = run /\ sup' \in {"backoff", "spawning"}
        /\ link'.restarts = link.restarts /\ (sup' = "backoff" => link.restarts > 0)
    BY <1>0, <1>5, LoopTopType, Zenon DEF SupBegin
  <2>. QED  BY <1>0, <2>1, Zenon DEF CountInv
<1>6. CASE BackoffDone
  <2>1. link'.restarts = link.restarts
    BY <1>0, <1>6, <1>s, TransitionType, Zenon DEF BackoffDone, Starting
  <2>. QED  BY <1>6, <2>1, Zenon DEF BackoffDone, CountInv
<1>7. CASE SpawnOk
  <2>1. link'.restarts = link.restarts
    BY <1>0, <1>7, <1>s, EmitType, Zenon DEF SpawnOk
  <2>2. sup = "spawning" /\ sup' = "watching" /\ run' = run + 1
    BY <1>7, Zenon DEF SpawnOk
  <2>. QED  BY <1>0, <2>1, <2>2 DEF CountInv
<1>8. CASE SpawnFail
  <2>1. /\ sup = "spawning" /\ run' = run + 1 /\ link'.restarts = link.restarts + 1
        /\ sup' \in {"backoff", "spawning", "done"}
    BY <1>0, <1>8, TransientErrorType, Zenon DEF SpawnFail, TypeOK
  <2>2. link.restarts = run
    BY <2>1, Zenon DEF CountInv
  <2>3. link'.restarts = run' /\ run' \in Nat \ {0}
    BY <1>0, <2>1, <2>2
  <2>. QED  BY <1>b, <2>1, <2>3, Zenon
<1>9. CASE SupCancelled \/ SupKilled
  <2>1. link' = link /\ sup' \in {"killing", "done"} /\ run' = run
    BY <1>9, Zenon DEF SupCancelled, SupKilled, KillChild
  <2>. QED  BY <1>a, <2>1, Zenon
<1>w. ASSUME sup = "watching", pipe # <<>>
      PROVE  /\ OkStatus(HandleLine(link, Head(pipe), run))
             /\ HandleLine(link, Head(pipe), run).restarts = link.restarts
  <2>1. Head(pipe) \in ChildLine
    BY <1>w, LinesTyped DEF TypeOK
  <2>. QED  BY <1>0, <2>1, HandleLineType, Zenon
<1>r. ASSUME sup \in {"watching", "reaping"}, link'.restarts = link.restarts + 1, run' = run,
             run > 0, sup' \in {"backoff", "spawning", "done"}
      PROVE  CountInv'
  <2>1. link.restarts = run - 1
    BY <1>r, Zenon DEF CountInv
  <2>2. link'.restarts = run' /\ run' \in Nat \ {0}
    BY <1>0, <1>r, <2>1
  <2>. QED  BY <1>b, <1>r, <2>2, Zenon
<1>p. ASSUME sup \in {"watching", "reaping"} PROVE run > 0
  <2>1. link.restarts = run - 1
    BY <1>p, Zenon DEF CountInv
  <2>. QED  BY <1>0, <2>1
<1>10. CASE WatchLine
  <2>1. link'.restarts = link.restarts
    BY <1>10, <1>w, Zenon DEF WatchLine
  <2>. QED  BY <1>10, <1>a, <2>1, Zenon DEF WatchLine
<1>11. CASE WatchLineLate
  <2>. DEFINE l == HandleLine(link, Head(pipe), run)
              after == Unresponsive(l)
  <2>1. sup = "watching" /\ OkStatus(l) /\ l.restarts = link.restarts /\ run' = run
    BY <1>11, <1>w, Zenon DEF WatchLineLate
  <2>. HIDE DEF l
  <2>u. "runtime_unresponsive" \in Reasons
    BY Zenon DEF Reasons, FailureClasses
  <2>2. OkStatus(after) /\ after.restarts = link.restarts
    BY <2>u, <2>1, Zenon DEF Unresponsive, OkStatus, Status
  <2>. HIDE DEF after
  <2>4. CASE proc = "gone"
    <3>1. TransientError(after)
      BY <1>11, <2>4, Zenon DEF WatchLineLate, after, l
    <3>2. link'.restarts = link.restarts + 1 /\ sup' \in {"backoff", "spawning", "done"}
      BY <2>2, <3>1, TransientErrorType, Zenon DEF TypeOK
    <3>. QED  BY <1>p, <1>r, <2>1, <3>2, Zenon
  <2>5. CASE proc # "gone"
    <3>1. link' = after /\ sup' = "reaping" /\ run' = run
      BY <1>11, <2>5, Zenon DEF WatchLineLate, after, l
    <3>. QED  BY <2>1, <2>2, <3>1, Zenon DEF CountInv
  <2>. QED  BY <2>4, <2>5, Zenon
<1>12. CASE WatchTimeout
  <2>1. link'.restarts = link.restarts /\ sup = "watching" /\ sup' = "reaping" /\ run' = run
    BY <1>0, <1>12, Zenon DEF WatchTimeout, Unresponsive, OkStatus, Status
  <2>. QED  BY <2>1, Zenon DEF CountInv
<1>13. CASE Reaped
  <2>. DEFINE l == HandleChildExit(link, -1)
  <2>0. link.restarts + 1 \in Nat
    BY <1>0
  <2>1. OkStatus(l) /\ l.restarts = link.restarts + 1
    BY <1>0, <2>0 DEF HandleChildExit, ExitIsTerminal, OkStatus, Status
  <2>. HIDE DEF l
  <2>2. LoopTop(l) /\ sup = "reaping" /\ run' = run
    BY <1>13, Zenon DEF Reaped, l
  <2>3. link'.restarts = l.restarts /\ sup' \in {"backoff", "spawning"}
    BY <2>1, <2>2, LoopTopType, Zenon
  <2>. QED  BY <1>p, <1>r, <2>1, <2>2, <2>3, Zenon
<1>. QED
  BY <1>1, <1>2, <1>3, <1>4, <1>5, <1>6, <1>7, <1>8, <1>9, <1>10, <1>11, <1>12, <1>13, Zenon
  DEF Next, Supervisor

LEMMA CountInvariant == Spec => []CountInv
BY CountInit, CountNext, TypeCorrect, StopInvariant, PTL DEF Spec

(* Whatever the variables and the configuration of a harness, a child is   *)
(* started only as StartedAsConfigured says; and every child but the one   *)
(* being watched, however it ended, has doubled once the range from which  *)
(* the supervisor draws the time it sleeps, up to restart.max.             *)
THEOREM Supervision == Spec => []SupervisedAsConfigured
<1>1. ASSUME TypeOK, CountInv, sup = "backoff"
      PROVE  DelayMs(Config, link.restarts - 1) =
                0 .. 1000 * Min({Config.max, Config.min * 2 ^ Min({run - 1, 30})}) - 1
  <2>1. link.restarts = run /\ run > 0
    BY <1>1, Zenon DEF CountInv
  <2>2. run \in Nat \ {0}
    BY <1>1, <2>1 DEF TypeOK
  <2>3. DelayMs(Config, run - 1) =
          0 .. 1000 * Min({Config.max, Config.min * 2 ^ Min({run - 1, 30})}) - 1
    BY <2>2, BackoffAfter
  <2>. QED  BY <2>1, <2>3
<1>2. ActiveInv => StartedAsConfigured
  BY ActiveSound, Zenon
<1>3. ActiveInv /\ TypeOK /\ CountInv => SupervisedAsConfigured
  BY <1>1, <1>2, ZenonT(40) DEF SupervisedAsConfigured
<1>. QED  BY <1>3, ActiveInvariant, CountInvariant, TypeCorrect, PTL

=============================================================================
