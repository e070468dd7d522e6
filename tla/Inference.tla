------------------------------ MODULE Inference ------------------------------
(***************************************************************************)
(* run_inference: ask the model, strip its reasoning, validate what it     *)
(* says, and ask again with a nudge until an answer is usable or the       *)
(* attempts are used up.  Calls that share an InferenceConfig, hence one   *)
(* context window manager, error tracker and step enforcer, are coroutines *)
(* of one event loop, which a call gives up only while the backend answers *)
(* in another thread: the tracker and the enforcer take no lock, and need  *)
(* none there.                                                             *)
(*                                                                         *)
(* An answer of the backend is the tools it calls, what its text is once   *)
(* the reasoning adapter has seen it, and the calls the validator can      *)
(* rescue from that text.                                                  *)
(***************************************************************************)
EXTENDS ContextWindow

CONSTANTS
    Calls,         \* calls of run_inference
    Sessions,      \* their session ids
    Tools,         \* the validator's tool_names
    Unknown,       \* a tool it does not know
    Prereqs,       \* add_step: the steps a tool needs, for tools that have any
    MaxAttempts,   \* cfg.max_attempts
    MaxErrors,     \* max_errors_per_tool
    MaxNamed,      \* bound: tool calls in an answer
    Usages,        \* total_tokens an answer may report
    Inputs,        \* conversations a caller may come with
    Configs        \* which parts an InferenceConfig may have

ASSUME InferenceAssumption ==
    /\ IsFiniteSet(Calls) /\ Unknown \notin Tools
    /\ DOMAIN Prereqs \subseteq Tools
    /\ MaxAttempts \in Int /\ MaxErrors \in Nat /\ MaxNamed \in Nat
    /\ Usages \subseteq Nat
    /\ Configs \subseteq SUBSET {"manager", "validator", "tracker", "enforcer"}

(* The messages of a caller are told apart, and from those the loop adds   *)
(* or a compaction cuts.                                                   *)
ASSUME InputsAssumption ==
    \A msgs \in Inputs :
        /\ msgs \in Seq(Messages)
        /\ IsInjective(msgs) /\ \A i \in DOMAIN msgs : msgs[i].text = "given"

Steps == UNION {Prereqs[t] : t \in DOMAIN Prereqs}

VARIABLES
    cfg,          \* the parts of the InferenceConfig
    session,      \* the session id of a call
    input,        \* the messages a call was given
    pc,           \* its place
    conv,         \* current_messages
    attempts,     \* its attempts
    result,       \* the tool calls it returned
    known,        \* _last_known_tokens
    fired,        \* _fired_thresholds
    errors,       \* _errors of a session: inside the time window, and older
    completed     \* _completed_steps of a session

call == <<pc, conv, attempts, result>>
vars == <<cfg, session, input, call, known, fired, errors, completed>>

Limit == IF MaxAttempts <= 0 THEN 3 ELSE MaxAttempts

Running  == {"size", "compact", "warn", "wait"}
Finished == {"returned", "exhausted", "raised", "crashed"}

TypeOK ==
    /\ cfg \in Configs
    /\ session \in [Calls -> Sessions]
    /\ input \in [Calls -> Inputs]
    /\ pc \in [Calls -> {"new"} \cup Running \cup Finished]
    /\ \A c \in Calls : /\ conv[c] \in Seq(Messages)
                        /\ result[c] \in Seq(Tools \cup {Unknown})
    /\ attempts \in [Calls -> 0 .. Limit]
    /\ known \in Nat \cup {NoCount}
    /\ fired \subseteq Thresholds
    /\ errors \in [Sessions -> [fresh : Nat, old : Nat]]
    /\ completed \in [Sessions -> SUBSET Steps]

Init ==
    /\ cfg \in Configs
    /\ session \in [Calls -> Sessions]
    /\ input \in [Calls -> Inputs]
    /\ pc = [c \in Calls |-> "new"]
    /\ conv = input
    /\ attempts = [c \in Calls |-> 0]
    /\ result = [c \in Calls |-> <<>>]
    /\ known = NoCount
    /\ fired = {}
    /\ errors = [s \in Sessions |-> [fresh |-> 0, old |-> 0]]
    /\ completed = [s \in Sessions |-> {}]

(* The places where a call has the event loop, and the others' turn.       *)
OnLoop == {"size", "compact", "warn"}

LoopIsFree == \A c \in Calls : pc[c] \notin OnLoop

Turn(c) == \A d \in Calls \ {c} : pc[d] \notin OnLoop

Goto(c, place) == pc' = [pc EXCEPT ![c] = place]

(* A message the loop adds belongs to no step.                             *)
Added(type, text) == [type |-> type, step |-> NoStep, text |-> text, size |-> 1]

-----------------------------------------------------------------------------
(* The top of the loop.                                                    *)

NextAttempt(c) ==
    /\ attempts' = [attempts EXCEPT ![c] = @ + 1]
    /\ Goto(c, IF "manager" \in cfg THEN "size" ELSE "wait")

Begin(c) ==
    /\ pc[c] = "new" /\ Turn(c)
    /\ NextAttempt(c)
    /\ UNCHANGED <<cfg, session, input, conv, result, known, fired, errors, completed>>

Size(c) ==
    /\ pc[c] = "size" /\ Turn(c)
    /\ Goto(c, IF ShouldCompact(known, conv[c]) THEN "compact" ELSE "warn")
    /\ UNCHANGED <<cfg, session, input, conv, attempts, result, known, fired, errors, completed>>

Compact(c) ==
    /\ pc[c] = "compact" /\ Turn(c)
    /\ \E one \in {Phase1(conv[c])} : \E two \in {Phase2(one)} :
          conv' = [conv EXCEPT ![c] = TieredCompact(@, one, two)]
    /\ known' = NoCount /\ fired' = {}
    /\ Goto(c, "warn")
    /\ UNCHANGED <<cfg, session, input, attempts, result, errors, completed>>

CheckThresholds(c) ==
    LET tokens == Estimate(known, conv[c])
        due    == Due(tokens, fired)
    IN  /\ pc[c] = "warn" /\ Turn(c)
        /\ fired' = fired \cup Highest(due)
        /\ conv' = IF due # {} /\ Warns(tokens)
                     THEN [conv EXCEPT ![c] = Append(@, Added("context_warning", "warning"))]
                     ELSE conv
        /\ Goto(c, "wait")
        /\ UNCHANGED <<cfg, session, input, attempts, result, known, errors, completed>>

-----------------------------------------------------------------------------
(* The error tracker: errors past the time window are dropped only when    *)
(* there are more than MaxErrors.                                          *)

(* Mutant: every error that makes the list too long empties it.            *)
RecordErrorDropsAll(s) ==
    errors' = IF "tracker" \notin cfg THEN errors
              ELSE [errors EXCEPT ![s] =
                       IF @.fresh + 1 + @.old >= MaxErrors
                         THEN [fresh |-> 0, old |-> 0]
                         ELSE [@ EXCEPT !.fresh = @ + 1]]

RecordError(s) ==
    errors' = IF "tracker" \notin cfg THEN errors
              ELSE [errors EXCEPT ![s] =
                       [fresh |-> @.fresh + 1,
                        old   |-> IF @.fresh + 1 + @.old > MaxErrors THEN 0 ELSE @.old]]

ResetErrors(s) ==
    errors' = IF "tracker" \notin cfg THEN errors
              ELSE [errors EXCEPT ![s] = [fresh |-> 0, old |-> 0]]

(* Reading the recent errors prunes them too.                              *)
GetRecentErrors(s) ==
    /\ LoopIsFree /\ errors[s].fresh + errors[s].old > MaxErrors
    /\ errors' = [errors EXCEPT ![s].old = 0]
    /\ UNCHANGED <<cfg, session, input, call, known, fired, completed>>

(* Time passes: the oldest errors of a session leave the window.           *)
Age(s) ==
    /\ \E n \in 1 .. errors[s].fresh :
          errors' = [errors EXCEPT ![s] = [fresh |-> @.fresh - n, old |-> @.old + n]]
    /\ UNCHANGED <<cfg, session, input, call, known, fired, completed>>

-----------------------------------------------------------------------------
(* The step enforcer, and the caller that reports the steps it has run.    *)

CanExecute(s, t) == t \in DOMAIN Prereqs => Prereqs[t] \subseteq completed[s]

MarkStepComplete(s) ==
    /\ LoopIsFree
    /\ \E t \in Steps \ completed[s] : completed' = [completed EXCEPT ![s] = @ \cup {t}]
    /\ UNCHANGED <<cfg, session, input, call, known, fired, errors>>

ResetSteps(s) ==
    /\ LoopIsFree /\ completed[s] # {}
    /\ completed' = [completed EXCEPT ![s] = {}]
    /\ UNCHANGED <<cfg, session, input, call, known, fired, errors>>

-----------------------------------------------------------------------------
(* What the backend may answer.  A text is plain once stripped; or only    *)
(* reasoning; or reasoning the adapter rejects; or JSON whose tool name is *)
(* no string, which the rescue trips over.                                 *)

Named(tools) == UNION {[1 .. n -> tools] : n \in 0 .. MaxNamed}

Answers ==
    {a \in [calls   : Named(Tools \cup {Unknown}),
            text    : {"none", "plain", "thought", "garbled", "crooked"},
            rescued : Named(Tools)] :
        a.rescued # <<>> => a.text = "plain" /\ a.calls = <<>>}

Clean(a) == IF a.text \in {"plain", "crooked"} THEN "answer" ELSE "empty"

Accept(calls) == [kind |-> "accept", calls |-> calls, nudge |-> FALSE]
Reject(nudge) == [kind |-> "reject", calls |-> <<>>, nudge |-> nudge]
TypeError     == [kind |-> "error", calls |-> <<>>, nudge |-> FALSE]

ValidateToolCalls(parts, calls) ==
    IF "validator" \in parts /\ Range(calls) \ Tools # {} THEN Reject(TRUE)
                                                          ELSE Accept(calls)

ValidateText(parts, a) ==
    CASE "validator" \notin parts -> Accept(<<>>)
      [] "validator" \in parts /\ a.text = "crooked" -> TypeError
      [] "validator" \in parts /\ a.rescued # <<>> -> Accept(a.rescued)
      [] OTHER -> Reject(TRUE)

Validate(parts, a) ==
    CASE a.text = "garbled" -> Reject(FALSE)
      [] a.text # "garbled" /\ a.calls # <<>> -> ValidateToolCalls(parts, a.calls)
      [] a.calls = <<>> /\ Clean(a) = "answer" -> ValidateText(parts, a)
      [] OTHER -> Reject("validator" \in parts)

(* What may come of an answer, and the text that is left of it.            *)
Verdicts ==
    [parts \in Configs |-> {<<Validate(parts, a), Clean(a)>> : a \in Answers}]

Judged(kind) == {v \in Verdicts[cfg] : v[1].kind = kind}

-----------------------------------------------------------------------------
(* complete() raises, or returns and the rest of the attempt runs.         *)

BackendRaises(c) ==
    /\ pc[c] = "wait" /\ Turn(c)
    /\ RecordError(session[c])
    /\ Goto(c, "raised")
    /\ UNCHANGED <<cfg, session, input, conv, attempts, result, known, fired, completed>>

UpdateTokenCount(usage) ==
    known' = IF "manager" \in cfg /\ usage > 0 THEN usage ELSE known

(* The validator raises out of run_inference; nobody records it.           *)
RescueRaises(c) ==
    /\ pc[c] = "wait" /\ Turn(c)
    /\ Judged("error") # {}
    /\ \E usage \in Usages : UpdateTokenCount(usage)
    /\ Goto(c, "crashed")
    /\ UNCHANGED <<cfg, session, input, conv, attempts, result, fired, errors, completed>>

(* A call the enforcer does not allow adds a nudge, and is returned.       *)
Return(c) ==
    /\ pc[c] = "wait" /\ Turn(c)
    /\ \E v \in Judged("accept"), usage \in Usages :
          LET calls   == v[1].calls
              blocked == {i \in DOMAIN calls : /\ "enforcer" \in cfg
                                               /\ ~ CanExecute(session[c], calls[i])}
          IN  /\ UpdateTokenCount(usage)
              /\ conv' = [conv EXCEPT ![c] = @ \o [i \in 1 .. Cardinality(blocked) |->
                                                     Added("step_nudge", "nudge")]]
              /\ result' = [result EXCEPT ![c] = calls]
    /\ ResetErrors(session[c])
    /\ Goto(c, "returned")
    /\ UNCHANGED <<cfg, session, input, attempts, fired, completed>>

(* Mutant: one attempt too many.                                           *)
RetryOnceMore(c) ==
    /\ pc[c] = "wait" /\ Turn(c)
    /\ RecordError(session[c])
    /\ IF attempts[c] > Limit THEN Goto(c, "exhausted") /\ UNCHANGED attempts
                              ELSE NextAttempt(c)
    /\ UNCHANGED <<cfg, session, input, conv, result, known, fired, completed>>

Retry(c) ==
    /\ pc[c] = "wait" /\ Turn(c)
    /\ \E v \in Judged("reject"), usage \in Usages :
          LET nudge  == IF v[1].nudge THEN <<Added("retry_nudge", "nudge")>> ELSE <<>>
              failed == <<Added("text_response", v[2])>>
          IN  /\ UpdateTokenCount(usage)
              /\ conv' = IF attempts[c] >= Limit THEN conv
                         ELSE [conv EXCEPT ![c] = @ \o nudge \o failed]
    /\ RecordError(session[c])
    /\ IF attempts[c] >= Limit THEN Goto(c, "exhausted") /\ UNCHANGED attempts
                               ELSE NextAttempt(c)
    /\ UNCHANGED <<cfg, session, input, result, fired, completed>>

Next ==
    \/ \E c \in Calls :
          \/ Begin(c) \/ Size(c) \/ Compact(c) \/ CheckThresholds(c)
          \/ BackendRaises(c) \/ RescueRaises(c) \/ Return(c) \/ Retry(c)
    \/ \E s \in Sessions :
          \/ Age(s) \/ GetRecentErrors(s) \/ MarkStepComplete(s) \/ ResetSteps(s)

Spec == Init /\ [][Next]_vars

-----------------------------------------------------------------------------
(* Properties.                                                             *)

Droppable == NudgeTypes \cup TalkTypes \cup {"tool_result"}

(* A step is recent if fewer than KeepRecent steps begin after it.         *)
Recent(msgs) ==
    {s \in StepsOf(msgs) :
        LET upTo(i) == {msgs[j].step : j \in 1 .. i}
        IN  Cardinality(StepsOf(msgs) \ upTo(FirstOf(msgs, s))) < KeepRecent}

(* Once a recent step has begun, no older step is worked on: the           *)
(* conversations an agent builds, whose step_index never goes back.        *)
StepsInTurn(msgs) ==
    \A i, j \in DOMAIN msgs :
        i < j /\ msgs[i].step \in Recent(msgs) => msgs[j].step \in Recent(msgs) \cup {NoStep}

(* What a caller may count on: its first two messages, its recent steps,   *)
(* and everything no phase of TieredCompact drops.                         *)
EssentialPlaces(msgs) ==
    LET kept == Recent(msgs)
    IN  {i \in DOMAIN msgs : i <= 2 \/ msgs[i].step \in kept \/ msgs[i].type \notin Droppable}

Essential(msgs) == {msgs[i] : i \in EssentialPlaces(msgs)}

(* However often a conversation is compacted and nudged, the essential     *)
(* messages the caller gave are in it, unaltered and in their order        *)
(* ("messages[0] and messages[1] are always protected").                   *)
EssentialKept ==
    \A c \in Calls :
        \E essential \in {Essential(input[c])} :
            LET kept(msgs) == Select(msgs, {i \in DOMAIN msgs : msgs[i] \in essential})
            IN  kept(conv[c]) = kept(input[c])

(* A message disappears or is cut only from a conversation that is itself  *)
(* over the target, although should_compact may have gone by the count     *)
(* that another conversation's answer left in the manager.                 *)
CutOnlyWhenFull ==
    [][\A c \in Calls : Range(conv[c]) \subseteq Range(conv'[c])
                        \/ Count(conv[c]) > Target]_vars

(* The messages a compaction may touch.                                    *)
Loose(msgs) ==
    LET kept == Recent(msgs)
    IN  {i \in DOMAIN msgs : i > 2 /\ msgs[i].step \notin kept}

(* The tokens left when the loose messages of these types are gone and the *)
(* loose tool results are cut.                                             *)
TokensWithout(msgs, types) ==
    LET loose == Loose(msgs)
        weight(i) == IF i \in loose /\ msgs[i].type \in types THEN 0
                     ELSE IF i \in loose /\ msgs[i].type = "tool_result"
                       THEN Min({msgs[i].size, CutSize}) ELSE msgs[i].size
    IN  Sum([i \in DOMAIN msgs |-> weight(i)])

Has(msgs, types) == \E i \in Loose(msgs) : msgs[i].type \in types

(* Compaction drops by need: a tool result only when cutting them all was  *)
(* not enough, what the model said only when dropping tool results was not *)
(* either; and it stops short of the target only with nothing left to drop.*)
DropsByNeed ==
    [][\A c \in Calls :
        LET old == conv[c]  new == conv'[c]
            drops(types) == Has(old, types) /\ ~ Has(new, types)
        IN  pc[c] = "compact" /\ pc'[c] = "warn" =>
               /\ drops({"tool_result"}) => TokensWithout(old, NudgeTypes) > Target
               /\ drops(TalkTypes) =>
                    TokensWithout(old, NudgeTypes \cup {"tool_result"}) > Target
               /\ Count(new) > Target => ~ Has(new, Droppable)]_vars

(* The last attempt of a call whose answer was rejected or that raised.    *)
Failures(c) ==
    CASE pc[c] = "new" -> 0
      [] pc[c] \in {"exhausted", "raised"} -> attempts[c]
      [] OTHER -> attempts[c] - 1

(* The failed attempts of a session's calls.                               *)
Failed(s) ==
    {f \in Calls \X (1 .. Limit) : session[f[1]] = s /\ f[2] <= Failures(f[1])}

(* The tracker counts a session's failures: never more than there were,    *)
(* and all of them until one of its calls succeeds or the list is long     *)
(* enough to be pruned.                                                    *)
FailuresCounted ==
    \A s \in Sessions :
        LET own   == {c \in Calls : session[c] = s}
            total == Cardinality(Failed(s))
            count == errors[s].fresh + errors[s].old
        IN  "tracker" \in cfg =>
               /\ count <= total
               /\ total <= MaxErrors /\ (\A c \in own : pc[c] # "returned") => count = total

(* run_inference ends, whatever the model answers: every step of a call    *)
(* finishes it or brings it nearer to its last attempt, through which it   *)
(* never goes ("When max attempts are reached without a valid response").  *)
Place(p) == CASE p = "size" -> 0 [] p = "compact" -> 1 [] p = "warn" -> 2 [] p = "wait" -> 3

AttemptsRunOut ==
    [][\A c \in Calls :
        pc[c] \in Running /\ <<pc[c], attempts[c]>> # <<pc'[c], attempts'[c]>> =>
            \/ pc'[c] \in Finished
            \/ /\ attempts'[c] <= Limit
               /\ 4 * attempts'[c] + Place(pc'[c]) > 4 * attempts[c] + Place(pc[c])]_vars

(* The step enforcer blocks a tool call whose prerequisites are missing:   *)
(* it is not returned to the caller.                                       *)
BlockedIsNotReturned ==
    [][\A c \in Calls :
        pc[c] = "wait" /\ pc'[c] = "returned" /\ "enforcer" \in cfg =>
            \A t \in Range(result'[c]) : CanExecute(session[c], t)]_vars

=============================================================================
