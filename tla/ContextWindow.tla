---------------------------- MODULE ContextWindow ----------------------------
(***************************************************************************)
(* The context window: what a conversation counts for, when it is          *)
(* compacted, what the three phases of TieredCompact leave of it, and      *)
(* which threshold warns.                                                  *)
(*                                                                         *)
(* A message is its semantic type, the agent step it belongs to, what its  *)
(* text is, and the tokens the counter gives it.                           *)
(***************************************************************************)
EXTENDS Loops, FiniteSetsExt

CONSTANTS
    Window,       \* context_window, in tokens
    Ratio,        \* compaction ratio, in percent
    Thresholds,   \* context_thresholds, in percent
    KeepRecent,   \* keep_recent: the last steps that are protected
    CutSize       \* tokens of a tool result cut to truncate_chars

ASSUME WindowAssumption ==
    /\ Window \in Nat /\ Ratio \in 0 .. 100 /\ Thresholds \subseteq 0 .. 100
    /\ KeepRecent \in Int /\ CutSize \in Nat \ {0}

NoStep == -1    \* step_index is None

NudgeTypes == {"step_nudge", "retry_nudge", "prerequisite_nudge"}
TalkTypes  == {"reasoning", "text_response"}
Types      == NudgeTypes \cup TalkTypes \cup
                {"system_prompt", "user_input", "tool_call", "tool_result",
                 "context_warning", "summary"}
Texts      == {"given", "cut", "nudge", "warning", "answer", "empty"}
Messages   == [type : Types, step : Int, text : Texts, size : Nat]

Target == (Window * Ratio) \div 100

Count(msgs) == Sum([i \in DOMAIN msgs |-> msgs[i].size])

-----------------------------------------------------------------------------
(* The protected steps: the last KeepRecent in the order of their first    *)
(* message.                                                                *)

StepsOf(msgs) == {msgs[i].step : i \in DOMAIN msgs} \ {NoStep}

FirstOf(msgs, s) == Min({i \in DOMAIN msgs : msgs[i].step = s})

(* Mutant: the oldest steps are protected, not the newest.                 *)
ProtectedOldest(msgs) ==
    {s \in StepsOf(msgs) :
        Cardinality({t \in StepsOf(msgs) : FirstOf(msgs, t) < FirstOf(msgs, s)})
            < KeepRecent}

Protected(msgs) ==
    {s \in StepsOf(msgs) :
        Cardinality({t \in StepsOf(msgs) : FirstOf(msgs, t) > FirstOf(msgs, s)})
            < KeepRecent}

(* The first two messages stay; of the others an unprotected one stays     *)
(* only if its type is not among those the phase drops.                    *)
Without(msgs, types) ==
    LET kept == Protected(msgs)
    IN  Select(msgs, {i \in DOMAIN msgs :
                         i <= 2 \/ msgs[i].step \in kept \/ msgs[i].type \notin types})

Cut(m) == IF m.size > CutSize THEN [m EXCEPT !.text = "cut", !.size = CutSize]
                              ELSE m

Phase1(msgs) ==
    LET kept == Protected(msgs)
        rest == Without(msgs, NudgeTypes)
    IN  [i \in DOMAIN rest |->
            IF i > 2 /\ rest[i].type = "tool_result" /\ rest[i].step \notin kept
              THEN Cut(rest[i]) ELSE rest[i]]

Phase2(msgs) == Without(msgs, {"tool_result"})

Phase3(msgs) == Without(msgs, TalkTypes)

(* TieredCompact.compact, given what phase 1 makes of the messages and     *)
(* phase 2 of that: a phase counts only if the one before left too much.   *)
(* Mutant: the count is not compared with the target before phase 1.       *)
TieredCompactAlways(msgs, one, two) ==
    CASE Count(one) <= Target -> one
      [] Count(one) > Target /\ Count(two) <= Target -> two
      [] OTHER -> Phase3(two)

(* Mutant: tool results are dropped without trying to cut them.            *)
TieredCompactDrops(msgs, one, two) ==
    CASE Count(msgs) <= Target -> msgs
      [] Count(msgs) > Target /\ Count(two) <= Target -> two
      [] OTHER -> Phase3(two)

TieredCompact(msgs, one, two) ==
    CASE Count(msgs) <= Target -> msgs
      [] Count(msgs) > Target /\ Count(one) <= Target -> one
      [] Count(msgs) > Target /\ Count(one) > Target /\ Count(two) <= Target -> two
      [] OTHER -> Phase3(two)

-----------------------------------------------------------------------------
(* The tokens last reported by the backend, if any, else the counter's.    *)
NoCount == -1

Estimate(known, msgs) == IF known # NoCount THEN known ELSE Count(msgs)

ShouldCompact(known, msgs) == Estimate(known, msgs) > Target

(* check_thresholds: the highest threshold reached that has not fired.     *)
Reached(tokens)     == {t \in Thresholds : 100 * tokens >= t * Window}
Due(tokens, fired)  == IF tokens = 0 \/ Window = 0 THEN {} ELSE Reached(tokens) \ fired
Highest(thresholds) == {t \in thresholds : \A u \in thresholds : u <= t}

(* default_context_warning has something to say from 65 percent on.        *)
Warns(tokens) == 100 * tokens >= 65 * Window

=============================================================================
