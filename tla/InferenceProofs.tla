--------------------------- MODULE InferenceProofs ---------------------------
(***************************************************************************)
(* run_inference ends within its attempts, the error tracker counts its    *)
(* failures, and compaction keeps what is essential of a conversation: for *)
(* every number of concurrent calls, every configuration and conversation, *)
(* and whatever the backend answers.                                       *)
(***************************************************************************)
EXTENDS Inference, LoopProofs, FiniteSetTheorems

Places == {"new"} \cup Running \cup Finished

(* Where a call is, and that it has used no attempt until it has begun.    *)
ControlInv ==
    /\ pc \in [Calls -> Places] /\ attempts \in [Calls -> 0 .. Limit]
    /\ \A c \in Calls : pc[c] = "new" <=> attempts[c] = 0

LEMMA LimitPositive == Limit \in Nat /\ Limit >= 1
BY InferenceAssumption DEF Limit

(* What a step does to the place and the attempts of a call: begin, go on  *)
(* within an attempt, end, or begin another attempt.                       *)
Moves(c) ==
    \/ pc[c] = "new" /\ NextAttempt(c)
    \/ pc[c] = "size" /\ UNCHANGED attempts /\ (Goto(c, "compact") \/ Goto(c, "warn"))
    \/ pc[c] = "compact" /\ UNCHANGED attempts /\ Goto(c, "warn")
    \/ pc[c] = "warn" /\ UNCHANGED attempts /\ Goto(c, "wait")
    \/ pc[c] = "wait" /\ UNCHANGED attempts /\ \E f \in Finished : Goto(c, f)
    \/ pc[c] = "wait" /\ attempts[c] < Limit /\ NextAttempt(c)

LEMMA EveryStepMoves ==
    ASSUME ControlInv, [Next]_vars
    PROVE  UNCHANGED <<pc, attempts>> \/ \E c \in Calls : Moves(c)
<1>. USE DEF call
<1>1. ASSUME NEW c \in Calls, Begin(c) PROVE Moves(c)
  BY <1>1, Zenon DEF Begin, Moves
<1>2. ASSUME NEW c \in Calls, Size(c) PROVE Moves(c)
  BY <1>2, Zenon DEF Size, Moves, Goto
<1>3. ASSUME NEW c \in Calls, Compact(c) PROVE Moves(c)
  BY <1>3, Zenon DEF Compact, Moves
<1>4. ASSUME NEW c \in Calls, CheckThresholds(c) PROVE Moves(c)
  BY <1>4, Zenon DEF CheckThresholds, Moves
<1>5. ASSUME NEW c \in Calls, BackendRaises(c) \/ RescueRaises(c) \/ Return(c)
      PROVE  Moves(c)
  BY <1>5, Zenon DEF BackendRaises, RescueRaises, Return, Moves, Finished
<1>6. ASSUME NEW c \in Calls, Retry(c) PROVE Moves(c)
  <2>1. attempts[c] \in Int /\ Limit \in Int
    BY LimitPositive DEF ControlInv
  <2>2. pc[c] = "wait" /\ (\/ Goto(c, "exhausted") /\ UNCHANGED attempts
                           \/ attempts[c] < Limit /\ NextAttempt(c))
    BY <1>6, <2>1 DEF Retry
  <2>. QED  BY <2>2, Zenon DEF Moves, Finished
<1>7. ASSUME NEW s \in Sessions,
             Age(s) \/ GetRecentErrors(s) \/ MarkStepComplete(s) \/ ResetSteps(s)
      PROVE  UNCHANGED <<pc, attempts>>
  BY <1>7, Zenon DEF Age, GetRecentErrors, MarkStepComplete, ResetSteps
<1>8. CASE UNCHANGED vars
  BY <1>8, Zenon DEF vars
<1>. QED  BY <1>1, <1>2, <1>3, <1>4, <1>5, <1>6, <1>7, <1>8, Zenon DEF Next

LEMMA ControlNext == ControlInv /\ [Next]_vars => ControlInv'
<1>. SUFFICES ASSUME ControlInv, [Next]_vars PROVE ControlInv'
  BY Zenon
<1>1. CASE UNCHANGED <<pc, attempts>>
  BY <1>1, Zenon DEF ControlInv
<1>2. ASSUME NEW c \in Calls, Moves(c) PROVE ControlInv'
  <2>1. CASE UNCHANGED attempts
    BY <1>2, <2>1 DEF Moves, Goto, NextAttempt, ControlInv, Places, Running, Finished
  <2>2. CASE NextAttempt(c) /\ attempts[c] < Limit
    <3>1. attempts[c] + 1 \in 0 .. Limit
      BY <2>2, LimitPositive DEF ControlInv
    <3>2. attempts' \in [Calls -> 0 .. Limit]
      BY <2>2, <3>1, Zenon DEF NextAttempt, ControlInv
    <3>. QED  BY <2>2, <3>2 DEF NextAttempt, Goto, ControlInv, Places, Running, Finished
  <2>3. pc[c] = "new" => attempts[c] < Limit
    BY LimitPositive DEF ControlInv
  <2>. QED  BY <1>2, <2>1, <2>2, <2>3, Zenon DEF Moves
<1>. QED  BY <1>1, <1>2, EveryStepMoves, Zenon

(* Every step of a call finishes it or brings it nearer to its last        *)
(* attempt, which none goes through.                                       *)
THEOREM AttemptsEnd == Spec => AttemptsRunOut
<1>1. Init => ControlInv
  BY LimitPositive DEF Init, ControlInv, Places
<1>2. ControlInv /\ [Next]_vars =>
        [\A c \in Calls :
            pc[c] \in Running /\ <<pc[c], attempts[c]>> # <<pc'[c], attempts'[c]>> =>
                \/ pc'[c] \in Finished
                \/ /\ attempts'[c] <= Limit
                   /\ 4 * attempts'[c] + Place(pc'[c]) > 4 * attempts[c] + Place(pc[c])]_vars
  <2>. SUFFICES ASSUME ControlInv, [Next]_vars, NEW c \in Calls, pc[c] \in Running,
                       <<pc[c], attempts[c]>> # <<pc'[c], attempts'[c]>>
       PROVE  \/ pc'[c] \in Finished
              \/ /\ attempts'[c] <= Limit
                 /\ 4 * attempts'[c] + Place(pc'[c]) > 4 * attempts[c] + Place(pc[c])
    BY Zenon
  <2>1. PICK d \in Calls : Moves(d)
    BY EveryStepMoves, Zenon
  <2>2. d = c
    BY <2>1, Zenon DEF Moves, Goto, NextAttempt, ControlInv
  <2>3. attempts[c] \in 0 .. Limit /\ Limit \in Nat
    BY LimitPositive, Zenon DEF ControlInv
  <2>4. CASE UNCHANGED attempts
    BY <2>1, <2>2, <2>3, <2>4 DEF Moves, Goto, NextAttempt, ControlInv, Place, Running
  <2>5. CASE NextAttempt(c) /\ pc[c] = "wait" /\ attempts[c] < Limit
    <3>1. attempts'[c] = attempts[c] + 1 /\ pc'[c] \in {"size", "wait"}
      BY <2>5, Zenon DEF NextAttempt, Goto, ControlInv
    <3>2. Place(pc[c]) = 3 /\ Place(pc'[c]) \in {0, 3}
      BY <2>5, <3>1, Zenon DEF Place
    <3>. QED  BY <2>3, <2>5, <3>1, <3>2
  <2>. QED  BY <2>1, <2>2, <2>4, <2>5, Zenon DEF Moves, Running
<1>3. Spec => []ControlInv
  BY <1>1, ControlNext, PTL DEF Spec
<1>. QED  BY <1>2, <1>3, PTL DEF Spec, AttemptsRunOut

-----------------------------------------------------------------------------
(* The error tracker *)

TrackInv ==
    /\ ControlInv
    /\ session \in [Calls -> Sessions]
    /\ errors \in [Sessions -> [fresh : Nat, old : Nat]]

(* The three ways a step changes the failures, the errors and the returned *)
(* calls.                                                                  *)
Fails(c) ==
    /\ pc[c] = "wait" /\ RecordError(session[c])
    /\ \/ UNCHANGED attempts /\ (Goto(c, "exhausted") \/ Goto(c, "raised"))
       \/ attempts[c] < Limit /\ NextAttempt(c)

Succeeds(c) ==
    pc[c] = "wait" /\ UNCHANGED attempts /\ Goto(c, "returned") /\ ResetErrors(session[c])

Prunes ==
    /\ \A c \in Calls : Failures(c)' = Failures(c) /\ (pc[c] = "returned" => pc'[c] = "returned")
    /\ UNCHANGED errors \/ \E s \in Sessions : Age(s) \/ GetRecentErrors(s)

LEMMA EveryStepTracks ==
    ASSUME TrackInv, [Next]_vars
    PROVE  /\ session' = session /\ cfg' = cfg
           /\ Prunes \/ \E c \in Calls : Fails(c) \/ Succeeds(c)
<1>. USE DEF call
<1>1. ASSUME NEW c \in Calls, Begin(c)
      PROVE  session' = session /\ cfg' = cfg /\ Prunes
  <2>0. attempts[c] = 0
    BY <1>1, Zenon DEF Begin, TrackInv, ControlInv
  <2>1. /\ attempts'[c] = 1 /\ pc'[c] \in {"size", "wait"}
        /\ \A d \in Calls \ {c} : attempts'[d] = attempts[d] /\ pc'[d] = pc[d]
    BY <1>1, <2>0 DEF Begin, NextAttempt, Goto, TrackInv, ControlInv
  <2>2. \A d \in Calls : Failures(d)' = Failures(d)
    BY <1>1, <2>1 DEF Begin, TrackInv, ControlInv, Failures
  <2>. QED  BY <1>1, <2>1, <2>2, Zenon DEF Begin, Prunes
<1>2. ASSUME NEW c \in Calls, Size(c) \/ Compact(c) \/ CheckThresholds(c) \/ RescueRaises(c)
      PROVE  session' = session /\ cfg' = cfg /\ Prunes
  <2>1. /\ pc[c] \in Running
        /\ pc'[c] \in Running \cup {"crashed"} /\ \A d \in Calls \ {c} : pc'[d] = pc[d]
        /\ UNCHANGED <<session, cfg, attempts, errors>>
    BY <1>2, Zenon DEF Size, Compact, CheckThresholds, RescueRaises, Goto, TrackInv, ControlInv,
                Running
  <2>2. \A d \in Calls : Failures(d)' = Failures(d)
    BY <2>1, Zenon DEF Failures, Running
  <2>. QED  BY <2>1, <2>2, Zenon DEF Prunes, Running
<1>3. ASSUME NEW c \in Calls, BackendRaises(c)
      PROVE  session' = session /\ cfg' = cfg /\ Fails(c)
  BY <1>3, Zenon DEF BackendRaises, Fails
<1>4. ASSUME NEW c \in Calls, Return(c)
      PROVE  session' = session /\ cfg' = cfg /\ Succeeds(c)
  BY <1>4, Zenon DEF Return, Succeeds
<1>5. ASSUME NEW c \in Calls, Retry(c)
      PROVE  session' = session /\ cfg' = cfg /\ Fails(c)
  <2>1. attempts[c] \in Int /\ Limit \in Int
    BY LimitPositive DEF TrackInv, ControlInv
  <2>. QED  BY <1>5, <2>1 DEF Retry, Fails
<1>6. ASSUME NEW s \in Sessions,
             Age(s) \/ GetRecentErrors(s) \/ MarkStepComplete(s) \/ ResetSteps(s)
      PROVE  session' = session /\ cfg' = cfg /\ Prunes
  <2>1. UNCHANGED <<session, cfg, pc, attempts>>
    BY <1>6, Zenon DEF Age, GetRecentErrors, MarkStepComplete, ResetSteps
  <2>2. \A d \in Calls : Failures(d)' = Failures(d)
    BY <2>1, Zenon DEF Failures
  <2>3. UNCHANGED errors \/ Age(s) \/ GetRecentErrors(s)
    BY <1>6, Zenon DEF MarkStepComplete, ResetSteps
  <2>. QED  BY <2>1, <2>2, <2>3, Zenon DEF Prunes
<1>7. CASE UNCHANGED vars
  BY <1>7, Zenon DEF vars, Prunes, Failures
<1>. QED  BY <1>1, <1>2, <1>3, <1>4, <1>5, <1>6, <1>7, Zenon DEF Next

LEMMA TrackNext == TrackInv /\ [Next]_vars => TrackInv'
<1>. SUFFICES ASSUME TrackInv, [Next]_vars PROVE TrackInv'
  OBVIOUS
<1>1. ControlInv'
  BY ControlNext, Zenon DEF TrackInv
<1>2. ASSUME NEW s \in Sessions, RecordError(s) \/ ResetErrors(s)
      PROVE  errors' \in [Sessions -> [fresh : Nat, old : Nat]]
  <2>1. errors[s].fresh \in Nat /\ errors[s].old \in Nat
    BY Zenon DEF TrackInv
  <2>. QED  BY <1>2, <2>1 DEF RecordError, ResetErrors, TrackInv
<1>3. ASSUME NEW s \in Sessions, Age(s)
      PROVE  errors' \in [Sessions -> [fresh : Nat, old : Nat]]
  <2>1. errors[s].fresh \in Nat /\ errors[s].old \in Nat
    BY DEF TrackInv
  <2>2. PICK n \in 1 .. errors[s].fresh :
           errors' = [errors EXCEPT ![s] = [fresh |-> @.fresh - n, old |-> @.old + n]]
    BY <1>3, Zenon DEF Age
  <2>3. errors[s].fresh - n \in Nat /\ errors[s].old + n \in Nat
    BY <2>1
  <2>. QED  BY <2>2, <2>3, Zenon DEF TrackInv
<1>4. ASSUME NEW s \in Sessions, GetRecentErrors(s)
      PROVE  errors' \in [Sessions -> [fresh : Nat, old : Nat]]
  BY <1>4, Zenon DEF GetRecentErrors, TrackInv
<1>. QED
  BY <1>1, <1>2, <1>3, <1>4, EveryStepTracks, Zenon DEF TrackInv, Fails, Succeeds, Prunes

(* The failures of a session are finitely many.                            *)
LEMMA FailedFinite ==
    ASSUME NEW s
    PROVE  IsFiniteSet(Failed(s)) /\ Cardinality(Failed(s)) \in Nat
<1>1. IsFiniteSet(1 .. Limit)
  BY LimitPositive, FS_Interval
<1>2. IsFiniteSet(Calls \X (1 .. Limit))
  BY <1>1, InferenceAssumption, FS_Product, Zenon
<1>3. Failed(s) \in SUBSET (Calls \X (1 .. Limit))
  BY Zenon DEF Failed
<1>4. IsFiniteSet(Failed(s))
  BY <1>2, <1>3, FS_Subset, Zenon
<1>. QED  BY <1>4, FS_CardinalityType, Zenon

(* A failure is one more for the session of its call, and for no other.    *)
LEMMA FailureAdds ==
    ASSUME TrackInv, session' = session, NEW c \in Calls, Fails(c)
    PROVE  /\ Cardinality(Failed(session[c])') = Cardinality(Failed(session[c])) + 1
           /\ \A s \in Sessions \ {session[c]} : Failed(s)' = Failed(s)
<1>. DEFINE f == <<c, attempts[c]>>
            S == Failed(session[c])
<1>1. attempts[c] \in 1 .. Limit /\ attempts[c] \in Nat /\ Limit \in Nat
  BY LimitPositive DEF TrackInv, ControlInv, Fails
<1>2. Failures(c) = attempts[c] - 1
  BY Zenon DEF Fails, Failures
<1>3. Failures(c)' = attempts[c]
  <2>1. DOMAIN pc = Calls /\ DOMAIN attempts = Calls
    BY Zenon DEF TrackInv, ControlInv
  <2>2. CASE pc'[c] \in {"exhausted", "raised"} /\ attempts'[c] = attempts[c]
    BY <2>2, Zenon DEF Failures
  <2>3. CASE pc'[c] \in {"size", "wait"} /\ attempts'[c] = attempts[c] + 1
    BY <1>1, <2>3 DEF Failures
  <2>. QED  BY <2>1, <2>2, <2>3, Zenon DEF Fails, Goto, NextAttempt
<1>4. \A d \in Calls \ {c} : Failures(d)' = Failures(d)
  BY Zenon DEF Fails, Failures, Goto, NextAttempt, TrackInv, ControlInv
<1>5. f \notin S /\ f \in Calls \X (1 .. Limit)
  BY <1>1, <1>2 DEF Failed
<1>6. Failed(session[c])' = S \cup {f}
  <2>1. ASSUME NEW g \in Calls \X (1 .. Limit)
        PROVE  g \in Failed(session[c])' <=> g \in S \cup {f}
    <3>1. CASE g[1] = c
      <4>1. g[2] <= attempts[c] <=> g[2] <= attempts[c] - 1 \/ g[2] = attempts[c]
        BY <1>1
      <4>. QED  BY <1>2, <1>3, <3>1, <4>1 DEF Failed
    <3>2. CASE g[1] # c
      BY <1>4, <3>2 DEF Failed
    <3>. QED  BY <3>1, <3>2, Zenon
  <2>. QED  BY <1>5, <2>1, Zenon DEF Failed
<1>7. \A s \in Sessions \ {session[c]} : Failed(s)' = Failed(s)
  BY <1>4 DEF Failed
<1>8. Cardinality(S \cup {f}) = Cardinality(S) + 1
  <2>1. IsFiniteSet(S)
    BY FailedFinite, Zenon
  <2>. HIDE DEF f, S
  <2>. QED  BY <1>5, <2>1, FS_AddElement, Zenon
<1>. QED  BY <1>6, <1>7, <1>8, Zenon

CountOf(s) == errors[s].fresh + errors[s].old

Counted(s) ==
    /\ CountOf(s) <= Cardinality(Failed(s))
    /\ Cardinality(Failed(s)) <= MaxErrors
         /\ (\A c \in {d \in Calls : session[d] = s} : pc[c] # "returned")
       => CountOf(s) = Cardinality(Failed(s))

LEMMA CountedAfterFailure ==
    ASSUME TrackInv, session' = session, cfg' = cfg, "tracker" \in cfg,
           NEW c \in Calls, Fails(c), NEW s \in Sessions, Counted(s)
    PROVE  Counted(s)'
<1>1. session[c] \in Sessions /\ errors[s].fresh \in Nat /\ errors[s].old \in Nat
      /\ MaxErrors \in Nat
  BY InferenceAssumption, Zenon DEF TrackInv
<1>2. \A d \in Calls : pc'[d] # "returned" => pc[d] # "returned"
  BY Zenon DEF Fails, Goto, NextAttempt, TrackInv, ControlInv
<1>3. CASE s # session[c]
  <2>1. errors'[s] = errors[s] /\ Failed(s)' = Failed(s)
    BY <1>1, <1>3, FailureAdds, Zenon DEF Fails, RecordError, TrackInv
  <2>. QED  BY <1>2, <2>1, Zenon DEF Counted, CountOf
<1>4. CASE s = session[c]
  <2>. DEFINE n == Cardinality(Failed(s))
  <2>1. n \in Nat /\ Cardinality(Failed(s)') = n + 1
    BY <1>4, FailedFinite, FailureAdds, Zenon
  <2>. HIDE DEF n
  <2>2. errors'[s] = [fresh |-> errors[s].fresh + 1,
                      old   |-> IF errors[s].fresh + 1 + errors[s].old > MaxErrors
                                  THEN 0 ELSE errors[s].old]
    BY <1>1, <1>4, Zenon DEF Fails, RecordError, TrackInv
  <2>3. CountOf(s)' = IF CountOf(s) + 1 > MaxErrors THEN errors[s].fresh + 1
                                                    ELSE CountOf(s) + 1
    BY <1>1, <2>2 DEF CountOf
  <2>4. CountOf(s) \in Nat /\ CountOf(s) >= errors[s].fresh
    BY <1>1 DEF CountOf
  <2>5. CountOf(s) <= n
    BY Zenon DEF Counted, n
  <2>6. CountOf(s)' <= n + 1
    BY <1>1, <2>1, <2>3, <2>4, <2>5
  <2>7. ASSUME n + 1 <= MaxErrors, \A d \in {e \in Calls : session'[e] = s} : pc'[d] # "returned"
        PROVE  CountOf(s)' = n + 1
    <3>1. \A d \in {e \in Calls : session[e] = s} : pc[d] # "returned"
      BY <1>2, <2>7, Zenon
    <3>2. n <= MaxErrors
      BY <1>1, <2>1, <2>7
    <3>3. CountOf(s) = n
      BY <3>1, <3>2, Zenon DEF Counted, n
    <3>. QED  BY <1>1, <2>1, <2>3, <2>7, <3>3
  <2>. QED  BY <2>1, <2>6, <2>7, Zenon DEF Counted
<1>. QED  BY <1>3, <1>4, Zenon

LEMMA CountedAfterSuccess ==
    ASSUME TrackInv, session' = session, cfg' = cfg, "tracker" \in cfg,
           NEW c \in Calls, Succeeds(c), NEW s \in Sessions, Counted(s)
    PROVE  Counted(s)'
<1>1. session[c] \in Sessions
  BY Zenon DEF TrackInv
<1>2. pc'[c] = "returned" /\ \A d \in Calls \ {c} : pc'[d] = pc[d]
  BY Zenon DEF Succeeds, Goto, TrackInv, ControlInv
<1>3. Failed(s)' = Failed(s)
  <2>1. \A d \in Calls : Failures(d)' = Failures(d)
    BY <1>2, Zenon DEF Succeeds, Failures
  <2>. QED  BY <2>1, Zenon DEF Failed
<1>4. CASE s # session[c]
  <2>1. errors'[s] = errors[s]
    BY <1>1, <1>4, Zenon DEF Succeeds, ResetErrors, TrackInv
  <2>2. \A d \in {e \in Calls : session[e] = s} : pc'[d] = pc[d]
    BY <1>2, <1>4, Zenon
  <2>. QED  BY <1>3, <2>1, <2>2, Zenon DEF Counted, CountOf
<1>5. CASE s = session[c]
  <2>1. CountOf(s)' = 0
    BY <1>1, <1>5 DEF Succeeds, ResetErrors, CountOf, TrackInv
  <2>2. Cardinality(Failed(s)) \in Nat
    BY FailedFinite, Zenon
  <2>. QED  BY <1>2, <1>3, <1>5, <2>1, <2>2 DEF Counted
<1>. QED  BY <1>4, <1>5

LEMMA CountedAfterPruning ==
    ASSUME TrackInv, session' = session, Prunes, NEW s \in Sessions, Counted(s)
    PROVE  Counted(s)'
<1>0. errors[s].fresh \in Nat /\ errors[s].old \in Nat /\ MaxErrors \in Nat
      /\ Cardinality(Failed(s)) \in Nat
  BY InferenceAssumption, FailedFinite, Zenon DEF TrackInv
<1>1. Failed(s)' = Failed(s)
  BY Zenon DEF Prunes, Failed
<1>2. \A d \in Calls : pc'[d] # "returned" => pc[d] # "returned"
  BY Zenon DEF Prunes
<1>3. CountOf(s)' = CountOf(s) \/ (CountOf(s) > MaxErrors /\ CountOf(s)' = errors[s].fresh)
  <2>1. CASE UNCHANGED errors
    BY <2>1, Zenon DEF CountOf
  <2>2. ASSUME NEW t \in Sessions, Age(t) PROVE CountOf(s)' = CountOf(s)
    <3>1. PICK n \in 1 .. errors[t].fresh :
             errors' = [errors EXCEPT ![t] = [fresh |-> @.fresh - n, old |-> @.old + n]]
      BY <2>2, Zenon DEF Age
    <3>2. CASE s = t
      <4>1. errors'[s].fresh = errors[s].fresh - n /\ errors'[s].old = errors[s].old + n
        BY <3>1, <3>2, Zenon DEF TrackInv
      <4>2. n \in Int
        BY <1>0, <3>2
      <4>. QED  BY <1>0, <4>1, <4>2 DEF CountOf
    <3>3. CASE s # t
      BY <3>1, <3>3, Zenon DEF CountOf, TrackInv
    <3>. QED  BY <3>2, <3>3, Zenon
  <2>3. ASSUME NEW t \in Sessions, GetRecentErrors(t)
        PROVE  CountOf(s)' = CountOf(s)
               \/ (CountOf(s) > MaxErrors /\ CountOf(s)' = errors[s].fresh)
    <3>1. CASE s = t
      <4>1. errors'[s].fresh = errors[s].fresh /\ errors'[s].old = 0
        BY <2>3, <3>1, Zenon DEF GetRecentErrors, TrackInv
      <4>. QED  BY <1>0, <2>3, <3>1, <4>1 DEF CountOf, GetRecentErrors
    <3>2. CASE s # t
      BY <2>3, <3>2, Zenon DEF CountOf, GetRecentErrors, TrackInv
    <3>. QED  BY <3>1, <3>2, Zenon
  <2>. QED  BY <2>1, <2>2, <2>3, Zenon DEF Prunes
<1>4. CountOf(s) \in Nat /\ errors[s].fresh <= CountOf(s)
  BY <1>0 DEF CountOf
<1>5. CASE CountOf(s)' = CountOf(s)
  BY <1>1, <1>2, <1>5, Zenon DEF Counted
<1>6. CASE CountOf(s) > MaxErrors /\ CountOf(s)' = errors[s].fresh
  BY <1>0, <1>1, <1>4, <1>6 DEF Counted
<1>. QED  BY <1>3, <1>5, <1>6, Zenon

(* For any number of calls in any number of sessions, the tracker never    *)
(* counts more failures than there were, and counts all of them until a    *)
(* call of the session succeeds or the list is pruned.                     *)
THEOREM FailuresAreCounted == Spec => []FailuresCounted
<1>. DEFINE Tracked == "tracker" \in cfg => \A s \in Sessions : Counted(s)
<1>1. Init => TrackInv /\ Tracked
  <2>. SUFFICES ASSUME Init PROVE TrackInv /\ Tracked
    BY Zenon
  <2>1. TrackInv
    BY LimitPositive DEF Init, TrackInv, ControlInv, Places
  <2>2. ASSUME NEW s \in Sessions PROVE Counted(s)
    <3>1. CountOf(s) = 0
      BY DEF Init, CountOf
    <3>2. Failed(s) = {}
      BY DEF Init, Failed, Failures
    <3>3. Cardinality(Failed(s)) = 0
      BY <3>2, FS_EmptySet, Zenon
    <3>. QED  BY <3>1, <3>3 DEF Counted
  <2>. QED  BY <2>1, <2>2, Zenon
<1>2. TrackInv /\ Tracked /\ [Next]_vars => TrackInv' /\ Tracked'
  <2>. SUFFICES ASSUME TrackInv, Tracked, [Next]_vars PROVE TrackInv' /\ Tracked'
    BY Zenon
  <2>1. session' = session /\ cfg' = cfg /\ (Prunes \/ \E c \in Calls : Fails(c) \/ Succeeds(c))
    BY EveryStepTracks, Zenon
  <2>2. ASSUME "tracker" \in cfg, NEW s \in Sessions PROVE Counted(s)'
    BY <2>1, <2>2, CountedAfterFailure, CountedAfterSuccess, CountedAfterPruning, Zenon
  <2>. QED  BY <2>1, <2>2, TrackNext, Zenon
<1>3. Tracked => FailuresCounted
  BY Zenon DEF Counted, CountOf, FailuresCounted
<1>. HIDE DEF Tracked
<1>. QED  BY <1>1, <1>2, <1>3, PTL DEF Spec

-----------------------------------------------------------------------------
(* Compaction *)

LEMMA CountType ==
    ASSUME NEW msgs \in Seq(Messages)
    PROVE  Count(msgs) \in Nat
<1>. DEFINE sizes == [i \in DOMAIN msgs |-> msgs[i].size]
<1>1. sizes \in Seq(Nat)
  <2>1. DOMAIN msgs = 1 .. Len(msgs) /\ Len(msgs) \in Nat
    OBVIOUS
  <2>2. \A i \in DOMAIN msgs : msgs[i].size \in Nat
    <3>1. \A i \in DOMAIN msgs : msgs[i] \in Messages
      OBVIOUS
    <3>. QED  BY <3>1, Zenon DEF Messages
  <2>3. sizes \in [1 .. Len(msgs) -> Nat]
    BY <2>1, <2>2, Zenon
  <2>. HIDE DEF sizes
  <2>. QED  BY <2>1, <2>3
<1>. HIDE DEF sizes
<1>2. Sum(sizes) \in Nat
  BY <1>1, SumType, Zenon
<1>. QED  BY <1>2, Zenon DEF Count, sizes

LEMMA TargetType == Target \in Nat
<1>1. Window \in Nat /\ Ratio \in Nat
  BY WindowAssumption
<1>2. Window * Ratio \in Nat
  BY <1>1
<1>. QED  BY <1>2 DEF Target

(* The first message of a step.                                            *)
LEMMA FirstIsFirst ==
    ASSUME NEW msgs \in Seq(Messages), NEW s \in StepsOf(msgs)
    PROVE  /\ FirstOf(msgs, s) \in DOMAIN msgs /\ msgs[FirstOf(msgs, s)].step = s
           /\ \A i \in DOMAIN msgs : msgs[i].step = s => FirstOf(msgs, s) <= i
<1>. DEFINE T == {i \in DOMAIN msgs : msgs[i].step = s}
<1>1. T \subseteq Nat /\ T # {}
  BY DEF StepsOf
<1>2. \E n \in T : \A m \in T : n <= m
  <2>. HIDE DEF T
  <2>. QED  BY <1>1, NatLeast, Zenon
<1>3. Min(T) \in T /\ \A m \in T : Min(T) <= m
  <2>. HIDE DEF T
  <2>. QED  BY <1>2, Zenon DEF Min
<1>4. FirstOf(msgs, s) = Min(T)
  BY Zenon DEF FirstOf
<1>. QED  BY <1>3, <1>4, Zenon

LEMMA StepsFinite ==
    ASSUME NEW msgs \in Seq(Messages)
    PROVE  IsFiniteSet(StepsOf(msgs))
<1>. DEFINE S == {msgs[i].step : i \in DOMAIN msgs}
            f == [i \in DOMAIN msgs |-> msgs[i].step]
<1>1. f \in Surjection(DOMAIN msgs, S)
  BY Zenon DEF Surjection
<1>2. IsFiniteSet(DOMAIN msgs)
  <2>1. DOMAIN msgs = 1 .. Len(msgs) /\ Len(msgs) \in Nat
    OBVIOUS
  <2>. QED  BY <2>1, FS_Interval
<1>. HIDE DEF f
<1>3. IsFiniteSet(S)
  <2>. HIDE DEF S
  <2>. QED  BY <1>1, <1>2, FS_Surjection, Zenon
<1>4. StepsOf(msgs) \in SUBSET S
  BY Zenon DEF StepsOf
<1>. HIDE DEF S
<1>. QED  BY <1>3, <1>4, FS_Subset, Zenon

(* What a phase drops, and what it makes of the rest.                      *)
Stays(msgs, types) ==
    {i \in DOMAIN msgs :
        i <= 2 \/ msgs[i].step \in Protected(msgs) \/ msgs[i].type \notin types}

LEMMA WithoutType ==
    ASSUME NEW msgs \in Seq(Messages), NEW types
    PROVE  /\ Without(msgs, types) = Select(msgs, Stays(msgs, types))
           /\ Without(msgs, types) \in Seq(Messages)
<1>1. Without(msgs, types) = Select(msgs, Stays(msgs, types))
  BY Zenon DEF Without, Stays
<1>2. Stays(msgs, types) \subseteq DOMAIN msgs
  BY Zenon DEF Stays
<1>. QED  BY <1>1, <1>2, SelectPicks, Zenon

LEMMA WithoutPicks ==
    ASSUME NEW msgs \in Seq(Messages), NEW types
    PROVE  LET rest == Without(msgs, types)
               K    == Stays(msgs, types)
           IN  \E l : /\ Picks(l, rest, msgs, K)
                      /\ \A k \in 1 .. Len(rest) :
                            l[k] \in K /\ (k <= 2 => l[k] = k) /\ (k > 2 => l[k] > 2)
<1>. DEFINE rest == Without(msgs, types)
            K == Stays(msgs, types)
            m == Len(msgs)
            n == Len(rest)
<1>0. DOMAIN msgs = 1 .. m /\ m \in Nat
  OBVIOUS
<1>1. K \subseteq 1 .. m /\ \A i \in 1 .. m : i <= 2 => i \in K
  BY <1>0, Zenon DEF Stays
<1>2. rest = Select(msgs, K) /\ rest \in Seq(Messages)
  BY WithoutType, Zenon
<1>. HIDE DEF rest, K
<1>3. n \in Nat
  BY <1>2
<1>4. PICK l : Picks(l, rest, msgs, K)
  BY <1>0, <1>1, <1>2, SelectPicks, Zenon
<1>5. Enumerates(l, n, K)
  BY <1>4, Zenon DEF Picks
<1>. HIDE DEF m, n
<1>6. \A k \in 1 .. n : l[k] \in K /\ (k <= 2 => l[k] = k) /\ (k > 2 => l[k] > 2)
  BY <1>0, <1>1, <1>3, <1>5, ListsFromTheTop, Zenon
<1>. QED  BY <1>4, <1>6, Zenon DEF rest, K, n

LEMMA CutType ==
    ASSUME NEW m \in Messages
    PROVE  /\ Cut(m) \in Messages /\ Cut(m).step = m.step /\ Cut(m).type = m.type
           /\ Cut(m) = m \/ Cut(m).text = "cut"
BY WindowAssumption, Zenon DEF Cut, Messages, Texts

LEMMA Phase1Type ==
    ASSUME NEW msgs \in Seq(Messages)
    PROVE  LET rest == Without(msgs, NudgeTypes)
           IN  /\ Phase1(msgs) \in Seq(Messages) /\ Len(Phase1(msgs)) = Len(rest)
               /\ \A i \in 1 .. Len(rest) :
                     Phase1(msgs)[i] =
                        IF i > 2 /\ rest[i].type = "tool_result"
                             /\ rest[i].step \notin Protected(msgs)
                          THEN Cut(rest[i]) ELSE rest[i]
<1>. DEFINE rest == Without(msgs, NudgeTypes)
            new(i) == IF i > 2 /\ rest[i].type = "tool_result"
                          /\ rest[i].step \notin Protected(msgs)
                        THEN Cut(rest[i]) ELSE rest[i]
            one == [i \in DOMAIN rest |-> new(i)]
<1>1. Phase1(msgs) = one
  BY Zenon DEF Phase1
<1>2. rest \in Seq(Messages)
  BY WithoutType, Zenon
<1>. HIDE DEF rest
<1>3. DOMAIN rest = 1 .. Len(rest) /\ Len(rest) \in Nat
  BY <1>2
<1>4. \A i \in 1 .. Len(rest) : new(i) \in Messages
  <2>. TAKE i \in 1 .. Len(rest)
  <2>1. rest[i] \in Messages
    BY <1>2, <1>3
  <2>2. Cut(rest[i]) \in Messages
    BY <2>1, CutType, Zenon
  <2>. QED  BY <2>1, <2>2, Zenon
<1>5. one \in [1 .. Len(rest) -> Messages] /\ \A i \in 1 .. Len(rest) : one[i] = new(i)
  <2>. HIDE DEF new
  <2>. QED  BY <1>3, <1>4, Zenon
<1>6. one \in Seq(Messages) /\ Len(one) = Len(rest)
  <2>. HIDE DEF one
  <2>. QED  BY <1>3, <1>5
<1>. HIDE DEF one
<1>. QED  BY <1>1, <1>5, <1>6, Zenon DEF rest

-----------------------------------------------------------------------------
(* What a step does to a conversation *)

ConvInv ==
    /\ cfg \in Configs /\ input \in [Calls -> Inputs]
    /\ conv \in [Calls -> Seq(Messages)]

(* The messages the loop adds.                                             *)
Extra == {m \in Messages : m.step = NoStep /\ m.text # "given"}

Adds(c) == \E extra \in Seq(Extra) : conv' = [conv EXCEPT ![c] = @ \o extra]

Compacted(msgs) == TieredCompact(msgs, Phase1(msgs), Phase2(Phase1(msgs)))

Compacts(c) == conv' = [conv EXCEPT ![c] = Compacted(conv[c])]

LEMMA AddedIsExtra ==
    ASSUME NEW type \in Types, NEW text \in Texts, text # "given"
    PROVE  Added(type, text) \in Extra
BY DEF Added, Extra, Messages, NoStep

LEMMA VerdictShape ==
    ASSUME cfg \in Configs, NEW v \in Verdicts[cfg]
    PROVE  v[2] \in {"answer", "empty"} /\ IsFiniteSet(DOMAIN v[1].calls)
<1>1. PICK a \in Answers : v = <<Validate(cfg, a), Clean(a)>>
  BY Zenon DEF Verdicts
<1>2. Clean(a) \in {"answer", "empty"}
  BY Zenon DEF Clean
<1>3. Validate(cfg, a).calls \in {<<>>, a.calls, a.rescued}
  BY Zenon DEF Validate, ValidateToolCalls, ValidateText, Accept, Reject, TypeError
<1>4. ASSUME NEW tools, NEW s \in Named(tools) PROVE IsFiniteSet(DOMAIN s)
  <2>1. PICK n \in 0 .. MaxNamed : s \in [1 .. n -> tools]
    BY <1>4, Zenon DEF Named
  <2>2. DOMAIN s = 1 .. n /\ n \in Int
    BY <2>1, InferenceAssumption
  <2>. QED  BY <2>2, FS_Interval
<1>5. a.calls \in Named(Tools \cup {Unknown}) /\ a.rescued \in Named(Tools)
  BY Zenon DEF Answers
<1>6. DOMAIN <<>> = {} /\ IsFiniteSet({})
  BY FS_EmptySet
<1>7. IsFiniteSet(DOMAIN Validate(cfg, a).calls)
  BY <1>3, <1>4, <1>5, <1>6, Zenon
<1>. QED  BY <1>1, <1>2, <1>7, Zenon

LEMMA SameConcat ==
    ASSUME NEW M, NEW a \in Seq(M), NEW b \in Seq(M), NEW d \in Seq(M)
    PROVE  (a \o b) \o d = a \o (b \o d)
OBVIOUS

LEMMA EveryStepTalks ==
    ASSUME ConvInv, [Next]_vars
    PROVE  /\ cfg' = cfg /\ input' = input
           /\ UNCHANGED conv \/ \E c \in Calls : Adds(c) \/ Compacts(c)
<1>. USE DEF call
<1>1. ASSUME NEW c \in Calls, Begin(c) \/ Size(c) \/ BackendRaises(c) \/ RescueRaises(c)
      PROVE  cfg' = cfg /\ input' = input /\ UNCHANGED conv
  BY <1>1, Zenon DEF Begin, Size, BackendRaises, RescueRaises
<1>2. ASSUME NEW c \in Calls, Compact(c)
      PROVE  cfg' = cfg /\ input' = input /\ Compacts(c)
  BY <1>2, Zenon DEF Compact, Compacts, Compacted
<1>3. ASSUME NEW c \in Calls, CheckThresholds(c)
      PROVE  cfg' = cfg /\ input' = input /\ (UNCHANGED conv \/ Adds(c))
  <2>. DEFINE m == Added("context_warning", "warning")
  <2>1. /\ cfg' = cfg /\ input' = input
        /\ conv' = conv \/ conv' = [conv EXCEPT ![c] = Append(@, m)]
    BY <1>3, Zenon DEF CheckThresholds
  <2>2. m \in Extra
    BY AddedIsExtra, Zenon DEF Types, Texts
  <2>. HIDE DEF m
  <2>3. conv[c] \in Seq(Messages) /\ m \in Messages
    BY <2>2, Zenon DEF ConvInv, Extra
  <2>4. Append(conv[c], m) = conv[c] \o <<m>> /\ <<m>> \in Seq(Extra)
    BY <2>2, <2>3
  <2>. QED  BY <2>1, <2>4, Zenon DEF Adds, ConvInv
<1>4. ASSUME NEW c \in Calls, Return(c)
      PROVE  cfg' = cfg /\ input' = input /\ Adds(c)
  <2>. DEFINE nudge == Added("step_nudge", "nudge")
              blocked(v) == {i \in DOMAIN v[1].calls :
                               "enforcer" \in cfg /\ ~ CanExecute(session[c], v[1].calls[i])}
              nudges(v) == [i \in 1 .. Cardinality(blocked(v)) |-> nudge]
  <2>1. PICK v \in Judged("accept") : conv' = [conv EXCEPT ![c] = @ \o nudges(v)]
    BY <1>4, Zenon DEF Return
  <2>2. v \in Verdicts[cfg]
    BY Zenon DEF Judged
  <2>3. IsFiniteSet(DOMAIN v[1].calls) /\ blocked(v) \in SUBSET (DOMAIN v[1].calls)
    BY <2>2, VerdictShape, Zenon DEF ConvInv
  <2>4. Cardinality(blocked(v)) \in Nat
    <3>. HIDE DEF blocked
    <3>1. IsFiniteSet(blocked(v))
      BY <2>3, FS_Subset, Zenon
    <3>. QED  BY <3>1, FS_CardinalityType, Zenon
  <2>5. nudge \in Extra
    BY AddedIsExtra, Zenon DEF Types, Texts, NudgeTypes
  <2>6. nudges(v) \in Seq(Extra)
    <3>. DEFINE n == Cardinality(blocked(v))
    <3>. HIDE DEF blocked, nudge, n
    <3>1. n \in Nat /\ [i \in 1 .. n |-> nudge] \in Seq(Extra)
      BY <2>4, <2>5 DEF n
    <3>. QED  BY <3>1, Zenon DEF n
  <2>. HIDE DEF nudges
  <2>7. cfg' = cfg /\ input' = input
    BY <1>4, Zenon DEF Return
  <2>. QED  BY <2>1, <2>6, <2>7, Zenon DEF Adds
<1>5. ASSUME NEW c \in Calls, Retry(c)
      PROVE  cfg' = cfg /\ input' = input /\ (UNCHANGED conv \/ Adds(c))
  <2>. DEFINE nudge(v) == IF v[1].nudge THEN <<Added("retry_nudge", "nudge")>> ELSE <<>>
              failed(v) == <<Added("text_response", v[2])>>
  <2>1. PICK v \in Judged("reject") :
           conv' = conv \/ conv' = [conv EXCEPT ![c] = @ \o nudge(v) \o failed(v)]
    BY <1>5, Zenon DEF Retry
  <2>2. v[2] \in {"answer", "empty"}
    BY VerdictShape, Zenon DEF Judged, ConvInv
  <2>3. Added("text_response", v[2]) \in Extra /\ Added("retry_nudge", "nudge") \in Extra
    BY <2>2, AddedIsExtra, Zenon DEF Types, Texts, NudgeTypes, TalkTypes
  <2>4. nudge(v) \in Seq(Extra) /\ failed(v) \in Seq(Extra)
    BY <2>3
  <2>. HIDE DEF nudge, failed
  <2>5. conv[c] \in Seq(Messages) /\ nudge(v) \in Seq(Messages) /\ failed(v) \in Seq(Messages)
    BY <2>4 DEF ConvInv, Extra
  <2>6. nudge(v) \o failed(v) \in Seq(Extra)
    BY <2>4
  <2>8. conv[c] \o nudge(v) \o failed(v) = conv[c] \o (nudge(v) \o failed(v))
    <3>. DEFINE x == conv[c]
                y == nudge(v)
                z == failed(v)
    <3>1. x \in Seq(Messages) /\ y \in Seq(Messages) /\ z \in Seq(Messages)
      BY <2>5, Zenon
    <3>. HIDE DEF x, y, z
    <3>2. (x \o y) \o z = x \o (y \o z)
      BY <3>1, SameConcat
    <3>. QED  BY <3>2, Zenon DEF x, y, z
  <2>7. cfg' = cfg /\ input' = input
    BY <1>5, Zenon DEF Retry
  <2>. QED  BY <2>1, <2>6, <2>7, <2>8, Zenon DEF Adds
<1>6. ASSUME NEW s \in Sessions,
             Age(s) \/ GetRecentErrors(s) \/ MarkStepComplete(s) \/ ResetSteps(s)
      PROVE  cfg' = cfg /\ input' = input /\ UNCHANGED conv
  BY <1>6, Zenon DEF Age, GetRecentErrors, MarkStepComplete, ResetSteps
<1>7. CASE UNCHANGED vars
  BY <1>7, Zenon DEF vars
<1>. QED  BY <1>1, <1>2, <1>3, <1>4, <1>5, <1>6, <1>7, Zenon DEF Next

LEMMA ExtraAreMessages == Seq(Extra) \subseteq Seq(Messages)
<1>1. Extra \subseteq Messages
  BY Zenon DEF Extra
<1>. QED  BY <1>1

LEMMA CompactedType ==
    ASSUME NEW msgs \in Seq(Messages)
    PROVE  LET one == Phase1(msgs)
               two == Phase2(one)
           IN  /\ one \in Seq(Messages) /\ two \in Seq(Messages)
               /\ Phase3(two) \in Seq(Messages)
               /\ Compacted(msgs) \in {msgs, one, two, Phase3(two)}
               /\ Compacted(msgs) = msgs \/ Count(msgs) > Target
<1>. DEFINE one == Phase1(msgs)
            two == Phase2(one)
<1>1. one \in Seq(Messages)
  BY Phase1Type, Zenon
<1>. HIDE DEF one
<1>2. two \in Seq(Messages)
  BY <1>1, WithoutType, Zenon DEF Phase2
<1>. HIDE DEF two
<1>3. Phase3(two) \in Seq(Messages)
  BY <1>2, WithoutType, Zenon DEF Phase3
<1>4. Compacted(msgs) = TieredCompact(msgs, one, two)
  BY Zenon DEF Compacted, one, two
<1>5. Count(msgs) \in Nat /\ Target \in Nat
  BY CountType, TargetType, Zenon
<1>6. TieredCompact(msgs, one, two) \in {msgs, one, two, Phase3(two)}
  BY Zenon DEF TieredCompact
<1>7. TieredCompact(msgs, one, two) = msgs \/ Count(msgs) > Target
  BY <1>5 DEF TieredCompact
<1>. QED  BY <1>1, <1>2, <1>3, <1>4, <1>6, <1>7, Zenon DEF one, two

LEMMA ConvInvInit == Init => ConvInv
<1>. SUFFICES ASSUME Init PROVE ConvInv
  BY Zenon
<1>1. Inputs \subseteq Seq(Messages)
  BY InputsAssumption, Zenon
<1>. QED  BY <1>1, Zenon DEF Init, ConvInv

LEMMA ConvInvNext ==
    ASSUME ConvInv, [Next]_vars
    PROVE  ConvInv'
<1>1. /\ cfg' = cfg /\ input' = input
      /\ UNCHANGED conv \/ \E c \in Calls : Adds(c) \/ Compacts(c)
  BY EveryStepTalks, Zenon
<1>2. ASSUME NEW c \in Calls, Adds(c) PROVE conv' \in [Calls -> Seq(Messages)]
  <2>1. PICK extra \in Seq(Extra) : conv' = [conv EXCEPT ![c] = @ \o extra]
    BY <1>2, Zenon DEF Adds
  <2>2. extra \in Seq(Messages) /\ conv[c] \in Seq(Messages)
    BY ExtraAreMessages, Zenon DEF ConvInv
  <2>3. conv[c] \o extra \in Seq(Messages)
    BY <2>2
  <2>. QED  BY <2>1, <2>3, Zenon DEF ConvInv
<1>3. ASSUME NEW c \in Calls, Compacts(c) PROVE conv' \in [Calls -> Seq(Messages)]
  <2>1. conv[c] \in Seq(Messages)
    BY Zenon DEF ConvInv
  <2>2. Compacted(conv[c]) \in Seq(Messages)
    BY <2>1, CompactedType, Zenon
  <2>. QED  BY <1>3, <2>2, Zenon DEF Compacts, ConvInv
<1>. QED  BY <1>1, <1>2, <1>3, Zenon DEF ConvInv

(* A compaction takes nothing from a conversation that is not itself over  *)
(* the target (TieredCompact.compact's first test), whatever count the     *)
(* manager remembered when should_compact sent it there.                   *)
THEOREM NothingCutInVain == Spec => CutOnlyWhenFull
<1>1. ConvInv /\ [Next]_vars =>
        [\A c \in Calls : Range(conv[c]) \subseteq Range(conv'[c])
                          \/ Count(conv[c]) > Target]_vars
  <2>. SUFFICES ASSUME ConvInv, [Next]_vars, NEW d \in Calls
                PROVE  Range(conv[d]) \subseteq Range(conv'[d]) \/ Count(conv[d]) > Target
    BY Zenon
  <2>0. conv[d] \in Seq(Messages)
    BY DEF ConvInv
  <2>1. UNCHANGED conv \/ \E c \in Calls : Adds(c) \/ Compacts(c)
    BY EveryStepTalks, Zenon
  <2>2. CASE conv'[d] = conv[d]
    BY <2>2, Zenon
  <2>3. ASSUME Adds(d) PROVE Range(conv[d]) \subseteq Range(conv'[d])
    <3>1. PICK extra \in Seq(Extra) : conv' = [conv EXCEPT ![d] = @ \o extra]
      BY <2>3, Zenon DEF Adds
    <3>2. extra \in Seq(Messages) /\ conv'[d] = conv[d] \o extra
      BY <3>1, ExtraAreMessages, Zenon DEF ConvInv
    <3>3. ASSUME NEW i \in DOMAIN conv[d] PROVE conv[d][i] \in Range(conv'[d])
      <4>1. i \in DOMAIN conv'[d] /\ conv'[d][i] = conv[d][i]
        BY <2>0, <3>2
      <4>. QED  BY <4>1, Zenon DEF Range
    <3>. QED  BY <3>3, Zenon DEF Range
  <2>4. ASSUME Compacts(d) PROVE conv'[d] = conv[d] \/ Count(conv[d]) > Target
    <3>1. conv'[d] = Compacted(conv[d])
      BY <2>4, Zenon DEF Compacts, ConvInv
    <3>. QED  BY <2>0, <3>1, CompactedType, Zenon
  <2>5. ASSUME NEW c \in Calls, Adds(c) \/ Compacts(c), c # d PROVE conv'[d] = conv[d]
    BY <2>5, Zenon DEF Adds, Compacts, ConvInv
  <2>. QED  BY <2>1, <2>2, <2>3, <2>4, <2>5, Zenon
<1>2. ConvInv /\ [Next]_vars => ConvInv'
  BY ConvInvNext
<1>. QED  BY <1>1, <1>2, ConvInvInit, PTL DEF Spec, CutOnlyWhenFull

-----------------------------------------------------------------------------
(* What a compaction keeps *)

(* now is what the loop has made of given: g says which message of given   *)
(* each one is, 0 for those added.  Those of given are in their order, of  *)
(* their step and type, and cut only if they are not essential; no         *)
(* essential one is missing, and the first two are where they were.        *)
Keeps(g, given, now) ==
    /\ g \in [1 .. Len(now) -> 0 .. Len(given)]
    /\ \A i, j \in 1 .. Len(now) : i < j /\ g[i] > 0 /\ g[j] > 0 => g[i] < g[j]
    /\ \A i \in 1 .. Len(now) : g[i] = 0 => now[i] \in Extra
    /\ \A i \in 1 .. Len(now) : g[i] > 0 =>
          /\ now[i].step = given[g[i]].step /\ now[i].type = given[g[i]].type
          /\ \/ now[i] = given[g[i]]
             \/ now[i].text = "cut" /\ g[i] \notin EssentialPlaces(given)
    /\ \A j \in EssentialPlaces(given) :
          \E i \in 1 .. Len(now) : g[i] = j /\ (j <= 2 => i = j)

(* A recent step of the conversation the caller gave is protected in what  *)
(* is left of it.                                                          *)
LEMMA RecentStays ==
    ASSUME NEW given \in Seq(Messages), StepsInTurn(given),
           NEW now \in Seq(Messages), NEW g, Keeps(g, given, now),
           NEW s \in Recent(given)
    PROVE  s \in Protected(now)
<1>0. /\ DOMAIN now = 1 .. Len(now) /\ Len(now) \in Nat
      /\ DOMAIN given = 1 .. Len(given) /\ Len(given) \in Nat
  OBVIOUS
<1>. DEFINE p == FirstOf(given, s)
            f == FirstOf(now, s)
            upTo == {given[j].step : j \in 1 .. p}
            Later == {t \in StepsOf(now) : FirstOf(now, t) > f}
<1>1. s \in StepsOf(given) /\ Cardinality(StepsOf(given) \ upTo) < KeepRecent
  BY Zenon DEF Recent
(* Where the steps of now come from.                                       *)
<1>2. ASSUME NEW t, t # NoStep, NEW i \in 1 .. Len(now), now[i].step = t
      PROVE  g[i] \in DOMAIN given /\ g[i] > 0 /\ given[g[i]].step = t
  <2>1. g[i] \in 0 .. Len(given)
    BY Zenon DEF Keeps
  <2>2. g[i] # 0
    BY <1>2, Zenon DEF Keeps, Extra
  <2>3. g[i] > 0 /\ g[i] \in DOMAIN given
    BY <1>0, <2>1, <2>2
  <2>4. now[i].step = given[g[i]].step
    BY <2>3, Zenon DEF Keeps
  <2>. QED  BY <1>2, <2>3, <2>4, Zenon
(* A recent step begins in now with the message it begins with in given.   *)
<1>3. ASSUME NEW t \in Recent(given)
      PROVE  /\ t \in StepsOf(now) /\ FirstOf(now, t) \in 1 .. Len(now)
             /\ FirstOf(given, t) \in 1 .. Len(given)
             /\ g[FirstOf(now, t)] = FirstOf(given, t)
  <2>. DEFINE q == FirstOf(given, t)
              k == FirstOf(now, t)
  <2>1. t \in StepsOf(given) /\ t # NoStep
    BY Zenon DEF Recent, StepsOf
  <2>2. q \in DOMAIN given /\ given[q].step = t
        /\ \A i \in DOMAIN given : given[i].step = t => q <= i
    BY <2>1, FirstIsFirst, Zenon
  <2>. HIDE DEF q
  <2>3. q \in EssentialPlaces(given)
    BY <2>2, Zenon DEF EssentialPlaces
  <2>4. PICK i \in 1 .. Len(now) : g[i] = q
    BY <2>3, Zenon DEF Keeps
  <2>5. q > 0 /\ q \in Nat
    BY <1>0, <2>2
  <2>6. now[i].step = t
    BY <2>2, <2>4, <2>5, Zenon DEF Keeps
  <2>7. t \in StepsOf(now)
    BY <1>0, <2>1, <2>6, Zenon DEF StepsOf
  <2>8. k \in DOMAIN now /\ now[k].step = t
        /\ \A l \in DOMAIN now : now[l].step = t => k <= l
    BY <2>7, FirstIsFirst, Zenon
  <2>. HIDE DEF k
  <2>9. k <= i /\ k \in 1 .. Len(now)
    BY <1>0, <2>6, <2>8, Zenon
  <2>10. g[k] \in DOMAIN given /\ g[k] > 0 /\ given[g[k]].step = t
    BY <1>2, <2>1, <2>8, <2>9, Zenon
  <2>11. q <= g[k]
    BY <2>2, <2>10, Zenon
  <2>12. ~ (k < i)
    <3>. SUFFICES ASSUME k < i PROVE FALSE
      BY Zenon
    <3>1. g[k] < g[i]
      BY <2>4, <2>5, <2>9, <2>10, Zenon DEF Keeps
    <3>. QED  BY <1>0, <2>4, <2>5, <2>10, <2>11, <3>1
  <2>13. k = i
    BY <2>9, <2>12
  <2>. QED  BY <1>0, <2>2, <2>4, <2>7, <2>9, <2>13, Zenon DEF q, k
<1>4. s \in StepsOf(now) /\ f \in 1 .. Len(now) /\ p \in 1 .. Len(given) /\ g[f] = p
  BY <1>3, Zenon
<1>5. given[p].step = s
  BY <1>1, FirstIsFirst, Zenon
<1>6. Later \in SUBSET (StepsOf(given) \ upTo)
  <2>. SUFFICES ASSUME NEW t \in StepsOf(now), FirstOf(now, t) > f
                PROVE  t \in StepsOf(given) /\ t \notin upTo
    BY Zenon
  <2>. DEFINE k == FirstOf(now, t)
              q == FirstOf(given, t)
  <2>0. t # NoStep
    BY Zenon DEF StepsOf
  <2>1. k \in 1 .. Len(now) /\ now[k].step = t
    BY <1>0, FirstIsFirst, Zenon
  <2>2. g[k] \in DOMAIN given /\ g[k] > 0 /\ given[g[k]].step = t
    BY <1>2, <2>0, <2>1, Zenon
  <2>3. p < g[k]
    <3>1. f < k
      BY Zenon
    <3>. HIDE DEF f, k, p
    <3>2. g[f] < g[k]
      BY <1>4, <2>1, <2>2, <3>1 DEF Keeps
    <3>. QED  BY <1>4, <3>2, Zenon
  <2>4. t \in Recent(given)
    <3>. HIDE DEF p, k
    <3>1. p \in DOMAIN given /\ given[p].step \in Recent(given)
      BY <1>0, <1>4, <1>5, Zenon
    <3>. QED  BY <2>0, <2>2, <2>3, <3>1, Zenon DEF StepsInTurn
  <2>5. t \in StepsOf(given) /\ g[k] = q
    BY <1>3, <2>4, Zenon DEF Recent
  <2>6. \A j \in DOMAIN given : given[j].step = t => q <= j
    BY <2>5, FirstIsFirst, Zenon
  <2>. HIDE DEF k, q, p, f
  <2>7. ASSUME NEW j \in 1 .. p, given[j].step = t PROVE FALSE
    <3>1. j \in DOMAIN given
      BY <1>0, <1>4
    <3>. QED  BY <1>0, <1>4, <2>2, <2>3, <2>5, <2>6, <2>7, <3>1
  <2>. QED  BY <2>5, <2>7, Zenon
<1>7. Cardinality(Later) < KeepRecent
  <2>1. IsFiniteSet(StepsOf(given))
    BY StepsFinite, Zenon
  <2>. HIDE DEF Later, upTo
  <2>2. IsFiniteSet(StepsOf(given) \ upTo)
    BY <2>1, FS_Difference, Zenon
  <2>3. IsFiniteSet(Later) /\ Cardinality(Later) <= Cardinality(StepsOf(given) \ upTo)
    BY <1>6, <2>2, FS_Subset, Zenon
  <2>4. Cardinality(Later) \in Nat /\ Cardinality(StepsOf(given) \ upTo) \in Nat
    BY <2>2, <2>3, FS_CardinalityType, Zenon
  <2>. QED  BY <1>1, <2>3, <2>4, WindowAssumption
<1>. QED  BY <1>4, <1>7, Zenon DEF Protected

LEMMA KeepsWithout ==
    ASSUME NEW given \in Seq(Messages), StepsInTurn(given),
           NEW now \in Seq(Messages), NEW g, Keeps(g, given, now),
           NEW types, types \subseteq Droppable
    PROVE  \E h : Keeps(h, given, Without(now, types))
<1>. DEFINE K == Stays(now, types)
            t == Without(now, types)
<1>0. DOMAIN now = 1 .. Len(now) /\ Len(now) \in Nat /\ Len(given) \in Nat
      /\ DOMAIN given = 1 .. Len(given)
  OBVIOUS
<1>1. K \subseteq 1 .. Len(now)
  BY <1>0, Zenon DEF Stays
<1>2. PICK l : /\ Picks(l, t, now, K)
               /\ \A k \in 1 .. Len(t) :
                     l[k] \in K /\ (k <= 2 => l[k] = k) /\ (k > 2 => l[k] > 2)
  BY WithoutPicks, Zenon
<1>3. Picks(l, t, now, K)
  BY <1>2, Zenon
<1>. HIDE DEF t
<1>. DEFINE h == [k \in 1 .. Len(t) |-> g[l[k]]]
<1>5. \A k \in 1 .. Len(t) : l[k] \in K /\ l[k] \in 1 .. Len(now) /\ t[k] = now[l[k]]
  BY <1>1, <1>3, Zenon DEF Picks, Enumerates
<1>6. \A k \in 1 .. Len(t) : h[k] = g[l[k]] /\ h[k] \in 0 .. Len(given)
  BY <1>5, Zenon DEF Keeps
<1>7. h \in [1 .. Len(t) -> 0 .. Len(given)]
  BY <1>6, Zenon
<1>. HIDE DEF h
<1>8. ASSUME NEW i \in 1 .. Len(t), NEW j \in 1 .. Len(t), i < j, h[i] > 0, h[j] > 0
      PROVE  h[i] < h[j]
  <2>1. l[i] < l[j]
    BY <1>3, <1>8, Zenon DEF Picks, Enumerates
  <2>. QED  BY <1>5, <1>6, <1>8, <2>1 DEF Keeps
<1>9. ASSUME NEW i \in 1 .. Len(t), h[i] = 0 PROVE t[i] \in Extra
  BY <1>5, <1>6, <1>9, Zenon DEF Keeps
<1>10. ASSUME NEW i \in 1 .. Len(t), h[i] > 0
       PROVE  /\ t[i].step = given[h[i]].step /\ t[i].type = given[h[i]].type
              /\ \/ t[i] = given[h[i]]
                 \/ t[i].text = "cut" /\ h[i] \notin EssentialPlaces(given)
  <2>1. t[i] = now[l[i]] /\ h[i] = g[l[i]] /\ l[i] \in 1 .. Len(now)
    BY <1>5, <1>6, Zenon
  <2>. QED  BY <1>10, <2>1 DEF Keeps
<1>11. ASSUME NEW j \in EssentialPlaces(given)
       PROVE  \E k \in 1 .. Len(t) : h[k] = j /\ (j <= 2 => k = j)
  <2>0. j \in DOMAIN given /\ j \in 1 .. Len(given)
    BY <1>0, Zenon DEF EssentialPlaces
  <2>1. PICK i \in 1 .. Len(now) : g[i] = j /\ (j <= 2 => i = j)
    BY Zenon DEF Keeps
  <2>2. now[i].step = given[j].step /\ now[i].type = given[j].type
    BY <2>0, <2>1 DEF Keeps
  <2>3. i \in K
    <3>1. CASE j <= 2
      BY <1>0, <2>1, <3>1, Zenon DEF Stays
    <3>2. CASE given[j].step \in Recent(given)
      <4>1. now[i].step \in Protected(now)
        BY <2>2, <3>2, RecentStays, Zenon
      <4>. QED  BY <1>0, <4>1, Zenon DEF Stays
    <3>3. CASE given[j].type \notin Droppable
      BY <1>0, <2>2, <3>3, Zenon DEF Stays
    <3>. QED  BY <3>1, <3>2, <3>3, Zenon DEF EssentialPlaces
  <2>4. PICK k \in 1 .. Len(t) : l[k] = i
    BY <1>3, <2>3, Zenon DEF Picks, Enumerates
  <2>5. h[k] = j
    BY <1>6, <2>1, <2>4, Zenon
  <2>6. j <= 2 => k = j
    BY <1>2, <2>0, <2>1, <2>4
  <2>. QED  BY <2>5, <2>6, Zenon
<1>12. Keeps(h, given, t)
  BY <1>7, <1>8, <1>9, <1>10, <1>11, Zenon DEF Keeps
<1>. QED  BY <1>12, Zenon DEF t

LEMMA KeepsPhase1 ==
    ASSUME NEW given \in Seq(Messages), StepsInTurn(given),
           NEW now \in Seq(Messages), NEW g, Keeps(g, given, now)
    PROVE  \E h : Keeps(h, given, Phase1(now))
<1>. DEFINE rest == Without(now, NudgeTypes)
            one == Phase1(now)
<1>1. PICK h : Keeps(h, given, rest)
  <2>1. NudgeTypes \subseteq Droppable
    BY Zenon DEF Droppable
  <2>. QED  BY <2>1, KeepsWithout, Zenon
<1>2. rest \in Seq(Messages)
  BY WithoutType, Zenon
<1>3. /\ one \in Seq(Messages) /\ Len(one) = Len(rest)
      /\ \A i \in 1 .. Len(rest) :
            one[i] = IF i > 2 /\ rest[i].type = "tool_result"
                          /\ rest[i].step \notin Protected(now)
                       THEN Cut(rest[i]) ELSE rest[i]
  BY Phase1Type, Zenon
<1>. HIDE DEF rest, one
<1>4. \A i \in 1 .. Len(rest) : rest[i] \in Messages
  BY <1>2
<1>5. ASSUME NEW i \in 1 .. Len(rest)
      PROVE  \/ one[i] = rest[i]
             \/ /\ i > 2 /\ rest[i].type = "tool_result" /\ rest[i].step \notin Protected(now)
                /\ one[i].text = "cut" /\ one[i] \in Messages
                /\ one[i].step = rest[i].step /\ one[i].type = rest[i].type
  <2>1. rest[i] \in Messages
    BY <1>4, Zenon
  <2>2. \/ one[i] = rest[i]
        \/ /\ one[i] = Cut(rest[i])
           /\ i > 2 /\ rest[i].type = "tool_result" /\ rest[i].step \notin Protected(now)
    BY <1>3, Zenon
  <2>3. /\ Cut(rest[i]) \in Messages /\ Cut(rest[i]).step = rest[i].step
        /\ Cut(rest[i]).type = rest[i].type
        /\ Cut(rest[i]) = rest[i] \/ Cut(rest[i]).text = "cut"
    BY <2>1, CutType, Zenon
  <2>. QED  BY <2>2, <2>3, Zenon
<1>6. ASSUME NEW i \in 1 .. Len(rest), h[i] = 0 PROVE one[i] \in Extra
  <2>1. rest[i] \in Extra
    BY <1>1, <1>6, Zenon DEF Keeps
  <2>. QED  BY <1>5, <2>1, Zenon DEF Extra
<1>7. ASSUME NEW i \in 1 .. Len(rest), h[i] > 0
      PROVE  /\ one[i].step = given[h[i]].step /\ one[i].type = given[h[i]].type
             /\ \/ one[i] = given[h[i]]
                \/ one[i].text = "cut" /\ h[i] \notin EssentialPlaces(given)
  <2>1. /\ rest[i].step = given[h[i]].step /\ rest[i].type = given[h[i]].type
        /\ \/ rest[i] = given[h[i]]
           \/ rest[i].text = "cut" /\ h[i] \notin EssentialPlaces(given)
    BY <1>1, <1>7, Zenon DEF Keeps
  <2>2. CASE one[i] = rest[i]
    BY <2>1, <2>2, Zenon
  <2>3. CASE one[i] # rest[i]
    <3>1. /\ i > 2 /\ rest[i].type = "tool_result" /\ rest[i].step \notin Protected(now)
          /\ one[i].text = "cut"
          /\ one[i].step = rest[i].step /\ one[i].type = rest[i].type
      BY <1>5, <2>3, Zenon
    <3>2. ASSUME h[i] \in EssentialPlaces(given) PROVE FALSE
      <4>1. CASE h[i] <= 2
        <5>1. PICK k \in 1 .. Len(rest) : h[k] = h[i] /\ k = h[i]
          BY <1>1, <3>2, <4>1 DEF Keeps
        <5>2. k < i /\ h[k] > 0
          BY <1>7, <3>1, <4>1, <5>1
        <5>3. h[k] < h[i]
          BY <1>1, <1>7, <5>2, Zenon DEF Keeps
        <5>. QED  BY <5>1, <5>3
      <4>2. CASE given[h[i]].step \in Recent(given)
        <5>1. given[h[i]].step \in Protected(now)
          BY <4>2, RecentStays, Zenon
        <5>. QED  BY <2>1, <3>1, <5>1, Zenon
      <4>3. CASE given[h[i]].type \notin Droppable
        BY <2>1, <3>1, <4>3, Zenon DEF Droppable
      <4>. QED  BY <3>2, <4>1, <4>2, <4>3, Zenon DEF EssentialPlaces
    <3>. QED  BY <2>1, <3>1, <3>2, Zenon
  <2>. QED  BY <2>2, <2>3, Zenon
<1>8. Keeps(h, given, one)
  BY <1>1, <1>3, <1>6, <1>7, Zenon DEF Keeps
<1>. QED  BY <1>8, Zenon DEF one

LEMMA KeepsCompacted ==
    ASSUME NEW given \in Seq(Messages), StepsInTurn(given),
           NEW now \in Seq(Messages), NEW g, Keeps(g, given, now)
    PROVE  \E h : Keeps(h, given, Compacted(now))
<1>. DEFINE one == Phase1(now)
            two == Phase2(one)
            three == Phase3(two)
<1>1. /\ one \in Seq(Messages) /\ two \in Seq(Messages)
      /\ Compacted(now) \in {now, one, two, three}
  BY CompactedType, Zenon
<1>2. PICK h1 : Keeps(h1, given, one)
  BY KeepsPhase1, Zenon
<1>. HIDE DEF one
<1>3. PICK h2 : Keeps(h2, given, two)
  <2>1. {"tool_result"} \subseteq Droppable
    BY Zenon DEF Droppable
  <2>. QED  BY <1>1, <1>2, <2>1, KeepsWithout, Zenon DEF Phase2
<1>. HIDE DEF two
<1>4. PICK h3 : Keeps(h3, given, three)
  <2>1. TalkTypes \subseteq Droppable
    BY Zenon DEF Droppable
  <2>. QED  BY <1>1, <1>3, <2>1, KeepsWithout, Zenon DEF Phase3
<1>. HIDE DEF three
<1>. QED  BY <1>1, <1>2, <1>3, <1>4, Zenon

LEMMA KeepsAdded ==
    ASSUME NEW given \in Seq(Messages), NEW now \in Seq(Messages), NEW g,
           Keeps(g, given, now), NEW extra \in Seq(Extra)
    PROVE  \E h : Keeps(h, given, now \o extra)
<1>. DEFINE n == Len(now)
            new == now \o extra
            h == [i \in 1 .. Len(new) |-> IF i <= n THEN g[i] ELSE 0]
<1>1. /\ n \in Nat /\ Len(given) \in Nat /\ Len(extra) \in Nat
      /\ extra \in Seq(Messages)
  BY ExtraAreMessages
<1>2. /\ Len(new) = n + Len(extra)
      /\ \A i \in 1 .. n : new[i] = now[i]
      /\ \A i \in 1 .. Len(new) : i > n => new[i] = extra[i - n]
  BY <1>1
<1>. HIDE DEF new
<1>3. \A i \in 1 .. n : i \in 1 .. Len(new) /\ h[i] = g[i] /\ g[i] \in 0 .. Len(given)
  <2>1. g \in [1 .. n -> 0 .. Len(given)]
    BY Zenon DEF Keeps
  <2>2. \A i \in 1 .. n : i \in 1 .. Len(new) /\ i <= n
    BY <1>1, <1>2
  <2>. QED  BY <2>1, <2>2, Zenon
<1>4. \A i \in 1 .. Len(new) : i > n => h[i] = 0
  BY <1>1, <1>2
<1>5. ASSUME NEW i \in 1 .. Len(new) PROVE h[i] \in 0 .. Len(given)
  <2>1. CASE i <= n
    <3>1. i \in 1 .. n
      BY <1>1, <2>1
    <3>. QED  BY <1>3, <3>1, Zenon
  <2>2. CASE i > n
    BY <1>1, <1>4, <2>2
  <2>. QED  BY <1>1, <2>1, <2>2
<1>6. h \in [1 .. Len(new) -> 0 .. Len(given)]
  BY <1>5, Zenon
<1>. HIDE DEF h
<1>7. \A i \in 1 .. Len(new) : h[i] > 0 => i \in 1 .. n
  <2>. SUFFICES ASSUME NEW i \in 1 .. Len(new), h[i] > 0, i > n PROVE FALSE
    BY <1>1
  <2>. QED  BY <1>4
<1>8. \A i, j \in 1 .. Len(new) : i < j /\ h[i] > 0 /\ h[j] > 0 => h[i] < h[j]
  BY <1>3, <1>7, Zenon DEF Keeps
<1>9. ASSUME NEW i \in 1 .. Len(new), h[i] = 0 PROVE new[i] \in Extra
  <2>1. CASE i \in 1 .. n
    BY <1>2, <1>3, <1>9, <2>1, Zenon DEF Keeps
  <2>2. CASE i \notin 1 .. n
    <3>1. i > n /\ i - n \in 1 .. Len(extra)
      BY <1>1, <1>2, <2>2
    <3>2. extra[i - n] \in Extra
      BY <3>1
    <3>. QED  BY <1>2, <3>1, <3>2, Zenon
  <2>. QED  BY <2>1, <2>2, Zenon
<1>10. ASSUME NEW i \in 1 .. Len(new), h[i] > 0
       PROVE  /\ new[i].step = given[h[i]].step /\ new[i].type = given[h[i]].type
              /\ \/ new[i] = given[h[i]]
                 \/ new[i].text = "cut" /\ h[i] \notin EssentialPlaces(given)
  <2>1. i \in 1 .. n
    BY <1>7, <1>10, Zenon
  <2>2. new[i] = now[i] /\ h[i] = g[i]
    BY <1>2, <1>3, <2>1, Zenon
  <2>. QED  BY <1>10, <2>1, <2>2, Zenon DEF Keeps
<1>11. ASSUME NEW j \in EssentialPlaces(given)
       PROVE  \E i \in 1 .. Len(new) : h[i] = j /\ (j <= 2 => i = j)
  <2>1. PICK i \in 1 .. n : g[i] = j /\ (j <= 2 => i = j)
    BY Zenon DEF Keeps
  <2>. QED  BY <1>3, <2>1, Zenon
<1>12. Keeps(h, given, new)
  BY <1>6, <1>8, <1>9, <1>10, <1>11, Zenon DEF Keeps
<1>. QED  BY <1>12, Zenon DEF new

LEMMA KeepsItself ==
    ASSUME NEW given \in Seq(Messages)
    PROVE  \E g : Keeps(g, given, given)
<1>. DEFINE g == [i \in 1 .. Len(given) |-> i]
<1>1. DOMAIN given = 1 .. Len(given) /\ Len(given) \in Nat
  OBVIOUS
<1>2. EssentialPlaces(given) \subseteq 1 .. Len(given)
  BY <1>1, Zenon DEF EssentialPlaces
<1>3. g \in [1 .. Len(given) -> 0 .. Len(given)] /\ \A i \in 1 .. Len(given) : g[i] = i
  BY <1>1
<1>. HIDE DEF g
<1>4. Keeps(g, given, given)
  BY <1>1, <1>2, <1>3 DEF Keeps
<1>. QED  BY <1>4, Zenon

(* A conversation that keeps what was given has its essential messages.    *)
LEMMA KeepsEssential ==
    ASSUME NEW given \in Inputs, NEW now \in Seq(Messages), NEW g, Keeps(g, given, now)
    PROVE  LET kept(msgs) == Select(msgs, {i \in DOMAIN msgs : msgs[i] \in Essential(given)})
           IN  kept(now) = kept(given)
<1>. DEFINE K == {i \in DOMAIN now : now[i] \in Essential(given)}
            L == {i \in DOMAIN given : given[i] \in Essential(given)}
            f == [i \in K |-> g[i]]
<1>1. /\ given \in Seq(Messages) /\ \A i \in DOMAIN given : given[i].text = "given"
      /\ \A i, j \in DOMAIN given : given[i] = given[j] => i = j
  BY InputsAssumption, Zenon DEF IsInjective
<1>2. /\ DOMAIN now = 1 .. Len(now) /\ Len(now) \in Nat
      /\ DOMAIN given = 1 .. Len(given) /\ Len(given) \in Nat
  BY <1>1
<1>3. L = EssentialPlaces(given)
  BY <1>1, Zenon DEF Essential, EssentialPlaces
<1>4. ASSUME NEW i \in K
      PROVE  g[i] \in L /\ g[i] > 0 /\ now[i] = given[g[i]] /\ i \in 1 .. Len(now)
  <2>1. PICK e \in EssentialPlaces(given) : now[i] = given[e]
    BY Zenon DEF Essential
  <2>2. e \in DOMAIN given
    BY Zenon DEF EssentialPlaces
  <2>3. now[i].text = "given" /\ i \in 1 .. Len(now)
    BY <1>1, <1>2, <2>1, <2>2, Zenon
  <2>4. g[i] \in 0 .. Len(given)
    BY <2>3, Zenon DEF Keeps
  <2>5. g[i] # 0
    BY <2>3, Zenon DEF Keeps, Extra
  <2>6. g[i] > 0 /\ g[i] \in DOMAIN given
    BY <1>2, <2>4, <2>5
  <2>7. now[i] = given[g[i]]
    BY <2>3, <2>6, Zenon DEF Keeps
  <2>. QED  BY <2>3, <2>6, <2>7, Zenon
<1>5. f \in [K -> L]
  BY <1>4, Zenon
<1>6. \A i \in K : f[i] = g[i]
  BY Zenon
<1>7. K \subseteq DOMAIN now /\ L \subseteq DOMAIN given
  BY Zenon
<1>8. ASSUME NEW l \in L PROVE \E i \in K : f[i] = l
  <2>1. l \in EssentialPlaces(given) /\ l > 0
    BY <1>2, <1>3
  <2>2. PICK i \in 1 .. Len(now) : g[i] = l
    BY <2>1, Zenon DEF Keeps
  <2>3. now[i] = given[l]
    BY <2>1, <2>2, Zenon DEF Keeps
  <2>4. i \in K
    BY <1>2, <2>3, Zenon
  <2>. QED  BY <1>6, <2>2, <2>4, Zenon
<1>. HIDE DEF K, L, f
<1>9. \A i, j \in K : i < j => f[i] < f[j]
  BY <1>4, <1>6, Zenon DEF Keeps
<1>10. \A i \in K : now[i] = given[f[i]]
  BY <1>4, <1>6, Zenon
<1>11. Select(now, K) = Select(given, L)
  BY <1>1, <1>5, <1>7, <1>8, <1>9, <1>10, SelectSame, SMTT(40)
<1>. QED  BY <1>11, Zenon DEF K, L

(* The invariant of every conversation.                                    *)
KeepsInv == ConvInv /\ \A c \in Calls : \E g : Keeps(g, input[c], conv[c])

LEMMA KeepsInvInit ==
    ASSUME Init
    PROVE  KeepsInv
<1>. USE DEF KeepsInv
<1>0. Inputs \subseteq Seq(Messages)
  BY InputsAssumption
<1>1. ConvInv /\ conv = input
  BY ConvInvInit, Zenon DEF Init
<1>2. ASSUME NEW c \in Calls PROVE \E g : Keeps(g, input[c], conv[c])
  <2>1. input[c] \in Seq(Messages)
    BY <1>0, <1>1, Zenon DEF ConvInv
  <2>. QED  BY <1>1, <2>1, KeepsItself, Zenon
<1>. QED  BY <1>1, <1>2, Zenon

LEMMA KeepsInvNext ==
    ASSUME \A msgs \in Inputs : StepsInTurn(msgs), KeepsInv, [Next]_vars
    PROVE  KeepsInv'
<1>. USE DEF KeepsInv
<1>0. Inputs \subseteq Seq(Messages)
  BY InputsAssumption, Zenon
<1>1. ConvInv'
  BY ConvInvNext, Zenon
<1>2. /\ input' = input
      /\ UNCHANGED conv \/ \E c \in Calls : Adds(c) \/ Compacts(c)
  BY EveryStepTalks, Zenon
<1>3. ASSUME NEW d \in Calls PROVE \E g : Keeps(g, input[d], conv'[d])
  <2>1. /\ input[d] \in Seq(Messages) /\ StepsInTurn(input[d])
        /\ conv[d] \in Seq(Messages) /\ conv \in [Calls -> Seq(Messages)]
    BY <1>0, Zenon DEF ConvInv
  <2>2. PICK g : Keeps(g, input[d], conv[d])
    BY Zenon
  <2>3. CASE conv'[d] = conv[d]
    BY <2>2, <2>3, Zenon
  <2>4. ASSUME Adds(d) PROVE \E h : Keeps(h, input[d], conv'[d])
    <3>1. PICK extra \in Seq(Extra) : conv' = [conv EXCEPT ![d] = @ \o extra]
      BY <2>4, Zenon DEF Adds
    <3>2. conv'[d] = conv[d] \o extra
      BY <2>1, <3>1, Zenon
    <3>. QED  BY <2>1, <2>2, <3>2, KeepsAdded, Zenon
  <2>5. ASSUME Compacts(d) PROVE \E h : Keeps(h, input[d], conv'[d])
    <3>1. conv'[d] = Compacted(conv[d])
      BY <2>1, <2>5, Zenon DEF Compacts
    <3>. QED  BY <2>1, <2>2, <3>1, KeepsCompacted, Zenon
  <2>6. ASSUME NEW c \in Calls, Adds(c) \/ Compacts(c), c # d PROVE conv'[d] = conv[d]
    BY <2>1, <2>6, Zenon DEF Adds, Compacts
  <2>. QED  BY <1>2, <2>3, <2>4, <2>5, <2>6, Zenon
<1>. QED  BY <1>1, <1>2, <1>3, Zenon

(* However often a conversation is compacted, warned and nudged, by calls  *)
(* that share the manager, the caller's essential messages are in it,      *)
(* unaltered and in order (strategies.py: "messages[0] and messages[1] are *)
(* always protected"; keep_recent's steps), if the caller's steps come in  *)
(* turn.  The invariant is that the conversation keeps what was given.     *)
THEOREM EssentialStays ==
    ASSUME \A msgs \in Inputs : StepsInTurn(msgs)
    PROVE  Spec => []EssentialKept
<1>1. Init => KeepsInv
  BY KeepsInvInit, Zenon
<1>2. KeepsInv /\ [Next]_vars => KeepsInv'
  BY KeepsInvNext, Zenon
<1>3. KeepsInv => EssentialKept
  <2>. SUFFICES ASSUME KeepsInv, NEW c \in Calls
       PROVE  LET kept(msgs) ==
                    Select(msgs, {i \in DOMAIN msgs : msgs[i] \in Essential(input[c])})
              IN  kept(conv[c]) = kept(input[c])
    BY Zenon DEF EssentialKept
  <2>1. input[c] \in Inputs /\ conv[c] \in Seq(Messages)
    BY Zenon DEF KeepsInv, ConvInv
  <2>2. PICK g : Keeps(g, input[c], conv[c])
    BY Zenon DEF KeepsInv
  <2>. QED  BY <2>1, <2>2, KeepsEssential, Zenon
<1>. QED  BY <1>1, <1>2, <1>3, PTL DEF Spec

-----------------------------------------------------------------------------
(* What a compaction drops *)

LEMMA RecentIsProtected ==
    ASSUME NEW msgs \in Seq(Messages)
    PROVE  Recent(msgs) = Protected(msgs)
<1>. DEFINE Steps1(s) == StepsOf(msgs) \ {msgs[j].step : j \in 1 .. FirstOf(msgs, s)}
            Later(s) == {t \in StepsOf(msgs) : FirstOf(msgs, t) > FirstOf(msgs, s)}
<1>0. DOMAIN msgs = 1 .. Len(msgs) /\ Len(msgs) \in Nat
  OBVIOUS
<1>1. ASSUME NEW s \in StepsOf(msgs) PROVE Steps1(s) = Later(s)
  <2>. DEFINE f == FirstOf(msgs, s)
  <2>1. f \in 1 .. Len(msgs)
    BY <1>0, FirstIsFirst, Zenon
  <2>2. ASSUME NEW t \in StepsOf(msgs)
        PROVE  t \in {msgs[j].step : j \in 1 .. f} <=> ~ (FirstOf(msgs, t) > f)
    <3>. DEFINE q == FirstOf(msgs, t)
    <3>1. q \in 1 .. Len(msgs) /\ msgs[q].step = t
          /\ \A i \in 1 .. Len(msgs) : msgs[i].step = t => q <= i
      BY <1>0, FirstIsFirst, Zenon
    <3>. HIDE DEF q, f
    <3>2. ASSUME NEW j \in 1 .. f, msgs[j].step = t PROVE ~ (q > f)
      BY <1>0, <2>1, <3>1, <3>2
    <3>3. ASSUME ~ (q > f) PROVE q \in 1 .. f
      BY <1>0, <2>1, <3>1, <3>3
    <3>4. t \in {msgs[j].step : j \in 1 .. f} <=> ~ (q > f)
      BY <3>1, <3>2, <3>3, Zenon
    <3>. QED  BY <3>4, Zenon DEF q
  <2>. QED  BY <2>2, Zenon
<1>2. Recent(msgs) = {s \in StepsOf(msgs) : Cardinality(Steps1(s)) < KeepRecent}
  BY Zenon DEF Recent
<1>3. Protected(msgs) = {s \in StepsOf(msgs) : Cardinality(Later(s)) < KeepRecent}
  BY Zenon DEF Protected
<1>. HIDE DEF Steps1, Later
<1>. QED  BY <1>1, <1>2, <1>3, Zenon

(* If some step is not recent, KeepRecent steps are.                       *)
LEMMA ManyRecent ==
    ASSUME NEW msgs \in Seq(Messages), NEW t \in StepsOf(msgs), t \notin Protected(msgs)
    PROVE  /\ IsFiniteSet(Protected(msgs)) /\ Cardinality(Protected(msgs)) \in Nat
           /\ Cardinality(Protected(msgs)) >= KeepRecent
<1>. DEFINE Old == StepsOf(msgs) \ Protected(msgs)
            First(s) == FirstOf(msgs, s)
            T == {Len(msgs) - First(s) : s \in Old}
<1>0. DOMAIN msgs = 1 .. Len(msgs) /\ Len(msgs) \in Nat
  OBVIOUS
<1>1. \A s \in StepsOf(msgs) : First(s) \in 1 .. Len(msgs)
  BY <1>0, FirstIsFirst, Zenon
<1>. HIDE DEF First
<1>2. T \subseteq Nat /\ T # {}
  BY <1>0, <1>1
<1>3. PICK n \in T : \A m \in T : n <= m
  <2>. HIDE DEF T
  <2>. QED  BY <1>2, NatLeast, Zenon
<1>4. PICK z \in Old : n = Len(msgs) - First(z)
  BY Zenon
<1>5. \A s \in Old : First(s) <= First(z)
  <2>. TAKE s \in Old
  <2>1. n <= Len(msgs) - First(s)
    BY <1>3, Zenon
  <2>2. First(s) \in Int /\ First(z) \in Int /\ Len(msgs) \in Int
    BY <1>0, <1>1, <1>4
  <2>. HIDE DEF T
  <2>. QED  BY <1>4, <2>1, <2>2
<1>. DEFINE Later == {s \in StepsOf(msgs) : First(s) > First(z)}
<1>6. Later \subseteq Protected(msgs)
  <2>. SUFFICES ASSUME NEW s \in Later, s \in Old PROVE FALSE
    BY Zenon
  <2>. QED  BY <1>1, <1>4, <1>5
<1>7. ~ (Cardinality(Later) < KeepRecent)
  <2>1. z \in StepsOf(msgs) /\ z \notin Protected(msgs)
    BY <1>4, Zenon
  <2>. QED  BY <2>1, Zenon DEF Protected, First
<1>8. IsFiniteSet(Protected(msgs))
  <2>1. Protected(msgs) \in SUBSET StepsOf(msgs) /\ IsFiniteSet(StepsOf(msgs))
    BY StepsFinite, Zenon DEF Protected
  <2>. QED  BY <2>1, FS_Subset, Zenon
<1>. HIDE DEF Later
<1>9. IsFiniteSet(Later) /\ Cardinality(Later) <= Cardinality(Protected(msgs))
  BY <1>6, <1>8, FS_Subset, Zenon
<1>10. Cardinality(Later) \in Nat /\ Cardinality(Protected(msgs)) \in Nat
  BY <1>8, <1>9, FS_CardinalityType, Zenon
<1>. QED  BY <1>7, <1>8, <1>9, <1>10, WindowAssumption

(* The recent steps stay the same however often a conversation is          *)
(* compacted.                                                              *)
LEMMA RecentSame ==
    ASSUME NEW given \in Seq(Messages), StepsInTurn(given),
           NEW now \in Seq(Messages), NEW g, Keeps(g, given, now)
    PROVE  Protected(now) = Recent(given)
<1>0. /\ DOMAIN now = 1 .. Len(now) /\ Len(now) \in Nat
      /\ DOMAIN given = 1 .. Len(given) /\ Len(given) \in Nat
  OBVIOUS
<1>1. Recent(given) \subseteq Protected(now)
  BY RecentStays, Zenon
<1>2. ASSUME NEW s \in StepsOf(now)
      PROVE  LET f == FirstOf(now, s)
             IN  /\ f \in 1 .. Len(now) /\ now[f].step = s
                 /\ g[f] \in 1 .. Len(given) /\ given[g[f]].step = s
  <2>. DEFINE f == FirstOf(now, s)
  <2>1. f \in 1 .. Len(now) /\ now[f].step = s /\ s # NoStep
    BY <1>0, FirstIsFirst, Zenon DEF StepsOf
  <2>. HIDE DEF f
  <2>2. g[f] \in 0 .. Len(given) /\ g[f] # 0
    BY <2>1, Zenon DEF Keeps, Extra
  <2>3. g[f] > 0 /\ g[f] \in 1 .. Len(given)
    BY <1>0, <2>2
  <2>4. given[g[f]].step = s
    BY <2>1, <2>3, Zenon DEF Keeps
  <2>. QED  BY <2>1, <2>3, <2>4, Zenon DEF f
<1>3. ASSUME NEW t \in StepsOf(now), t \notin Recent(given) PROVE t \notin Protected(now)
  <2>. DEFINE k == FirstOf(now, t)
              Later == {s \in StepsOf(now) : FirstOf(now, s) > k}
  <2>1. k \in 1 .. Len(now) /\ now[k].step = t
        /\ g[k] \in 1 .. Len(given) /\ given[g[k]].step = t /\ t # NoStep
    BY <1>2, Zenon DEF StepsOf
  <2>. HIDE DEF k
  <2>2. t \in StepsOf(given)
    BY <1>0, <2>1, Zenon DEF StepsOf
  <2>3. Recent(given) = Protected(given)
    BY RecentIsProtected, Zenon
  <2>4. /\ IsFiniteSet(Recent(given)) /\ Cardinality(Recent(given)) \in Nat
        /\ Cardinality(Recent(given)) >= KeepRecent
    BY <1>3, <2>2, <2>3, ManyRecent, Zenon
  <2>5. Recent(given) \in SUBSET Later
    <3>. SUFFICES ASSUME NEW s \in Recent(given) PROVE s \in Later
      BY Zenon
    <3>. DEFINE f == FirstOf(now, s)
    <3>1. s \in StepsOf(now)
      BY <1>1, Zenon DEF Protected
    <3>2. f \in 1 .. Len(now) /\ now[f].step = s
          /\ g[f] \in 1 .. Len(given) /\ given[g[f]].step = s
      BY <1>2, <3>1, Zenon
    <3>. HIDE DEF f
    <3>3. f # k
      BY <1>3, <2>1, <3>2, Zenon
    <3>4. ~ (f < k)
      <4>. SUFFICES ASSUME f < k PROVE FALSE
        BY Zenon
      <4>1. g[f] < g[k]
        BY <2>1, <3>2 DEF Keeps
      <4>2. given[g[f]].step \in Recent(given) /\ given[g[k]].step = t
            /\ g[f] \in DOMAIN given /\ g[k] \in DOMAIN given
        BY <1>0, <2>1, <3>2, Zenon
      <4>3. t \in Recent(given) \cup {NoStep}
        BY <4>1, <4>2, Zenon DEF StepsInTurn
      <4>. QED  BY <1>3, <2>1, <4>3, Zenon
    <3>5. f > k
      BY <2>1, <3>2, <3>3, <3>4
    <3>. QED  BY <3>1, <3>5, Zenon DEF f
  <2>6. IsFiniteSet(Later)
    <3>1. Later \in SUBSET StepsOf(now) /\ IsFiniteSet(StepsOf(now))
      BY StepsFinite, Zenon
    <3>. HIDE DEF Later
    <3>. QED  BY <3>1, FS_Subset, Zenon
  <2>7. Cardinality(Recent(given)) <= Cardinality(Later) /\ Cardinality(Later) \in Nat
    <3>. HIDE DEF Later
    <3>. QED  BY <2>5, <2>6, FS_Subset, FS_CardinalityType, Zenon
  <2>8. ~ (Cardinality(Later) < KeepRecent)
    <3>. HIDE DEF Later
    <3>. QED  BY <2>4, <2>7, WindowAssumption
  <2>. QED  BY <2>8, Zenon DEF Protected, k
<1>4. Protected(now) \subseteq StepsOf(now)
  BY Zenon DEF Protected
<1>. QED  BY <1>1, <1>3, <1>4, Zenon

(* new is what is left of msgs when these types are dropped: l lists the   *)
(* places of msgs that stay.                                               *)
Shrinks(l, msgs, new, types) ==
    /\ Enumerates(l, Len(new), Stays(msgs, types))
    /\ \A k \in 1 .. Len(new) :
          /\ l[k] \in Stays(msgs, types) /\ (k <= 2 => l[k] <= 2) /\ (k > 2 => l[k] > 2)
          /\ new[k].step = msgs[l[k]].step /\ new[k].type = msgs[l[k]].type

LEMMA WithoutShrinks ==
    ASSUME NEW msgs \in Seq(Messages), NEW types
    PROVE  LET rest == Without(msgs, types)
           IN  \E l : /\ Shrinks(l, msgs, rest, types)
                      /\ \A k \in 1 .. Len(rest) : rest[k] = msgs[l[k]]
<1>. DEFINE rest == Without(msgs, types)
<1>1. PICK l : /\ Picks(l, rest, msgs, Stays(msgs, types))
               /\ \A k \in 1 .. Len(rest) :
                     /\ l[k] \in Stays(msgs, types)
                     /\ (k <= 2 => l[k] = k) /\ (k > 2 => l[k] > 2)
  BY WithoutPicks, Zenon
<1>. HIDE DEF rest
<1>2. \A k \in 1 .. Len(rest) : rest[k] = msgs[l[k]]
  BY <1>1, Zenon DEF Picks
<1>3. \A k \in 1 .. Len(rest) : k <= 2 => l[k] <= 2
  BY <1>1, Zenon
<1>4. Shrinks(l, msgs, rest, types)
  BY <1>1, <1>2, <1>3, Zenon DEF Shrinks, Picks
<1>. QED  BY <1>2, <1>4, Zenon DEF rest

LEMMA Phase1Shrinks ==
    ASSUME NEW msgs \in Seq(Messages)
    PROVE  LET one == Phase1(msgs)
           IN  \E l : /\ Shrinks(l, msgs, one, NudgeTypes)
                      /\ \A k \in 1 .. Len(one) :
                            one[k] = IF k > 2 /\ msgs[l[k]].type = "tool_result"
                                          /\ msgs[l[k]].step \notin Protected(msgs)
                                       THEN Cut(msgs[l[k]]) ELSE msgs[l[k]]
<1>. DEFINE rest == Without(msgs, NudgeTypes)
            one == Phase1(msgs)
<1>0. DOMAIN msgs = 1 .. Len(msgs)
  OBVIOUS
<1>1. PICK l : /\ Shrinks(l, msgs, rest, NudgeTypes)
               /\ \A k \in 1 .. Len(rest) : rest[k] = msgs[l[k]]
  BY WithoutShrinks
<1>2. /\ Len(one) = Len(rest)
      /\ \A i \in 1 .. Len(rest) :
            one[i] = IF i > 2 /\ rest[i].type = "tool_result"
                          /\ rest[i].step \notin Protected(msgs)
                       THEN Cut(rest[i]) ELSE rest[i]
  BY Phase1Type, Zenon
<1>. HIDE DEF rest, one
<1>3. \A k \in 1 .. Len(one) :
         one[k] = IF k > 2 /\ msgs[l[k]].type = "tool_result"
                       /\ msgs[l[k]].step \notin Protected(msgs)
                    THEN Cut(msgs[l[k]]) ELSE msgs[l[k]]
  BY <1>1, <1>2, Zenon
<1>4. ASSUME NEW k \in 1 .. Len(one)
      PROVE  one[k].step = msgs[l[k]].step /\ one[k].type = msgs[l[k]].type
  <2>1. l[k] \in DOMAIN msgs
    BY <1>1, <1>2, Zenon DEF Shrinks, Stays
  <2>2. msgs[l[k]] \in Messages
    BY <2>1
  <2>3. /\ Cut(msgs[l[k]]).step = msgs[l[k]].step
        /\ Cut(msgs[l[k]]).type = msgs[l[k]].type
    BY <2>2, CutType, Zenon
  <2>. QED  BY <1>3, <2>3, Zenon
<1>5. Shrinks(l, msgs, one, NudgeTypes)
  BY <1>1, <1>2, <1>4, Zenon DEF Shrinks
<1>. QED  BY <1>3, <1>5, Zenon DEF one

(* With the same recent steps, what is loose in new is what was loose in   *)
(* msgs and of another type.                                               *)
LEMMA HasShrunk ==
    ASSUME NEW msgs \in Seq(Messages), NEW new \in Seq(Messages), NEW l, NEW types,
           Shrinks(l, msgs, new, types), Protected(new) = Protected(msgs), NEW ts
    PROVE  Has(new, ts) <=> Has(msgs, ts \ types)
<1>0. /\ DOMAIN msgs = 1 .. Len(msgs) /\ Len(msgs) \in Nat
      /\ DOMAIN new = 1 .. Len(new) /\ Len(new) \in Nat
  OBVIOUS
<1>1. /\ Recent(new) = Protected(msgs) /\ Recent(msgs) = Protected(msgs)
  BY RecentIsProtected, Zenon
<1>2. ASSUME NEW k \in Loose(new), new[k].type \in ts PROVE Has(msgs, ts \ types)
  <2>1. k \in 1 .. Len(new) /\ k > 2 /\ new[k].step \notin Protected(msgs)
    BY <1>0, <1>1, <1>2, Zenon DEF Loose
  <2>2. /\ l[k] \in Stays(msgs, types) /\ l[k] > 2
        /\ msgs[l[k]].step = new[k].step /\ msgs[l[k]].type = new[k].type
    BY <2>1, Zenon DEF Shrinks
  <2>3. l[k] \in 1 .. Len(msgs) /\ msgs[l[k]].type \notin types
    BY <1>0, <2>1, <2>2 DEF Stays
  <2>4. l[k] \in Loose(msgs)
    BY <1>0, <1>1, <2>1, <2>2, <2>3, Zenon DEF Loose
  <2>. QED  BY <1>2, <2>2, <2>3, <2>4, Zenon DEF Has
<1>3. ASSUME NEW i \in Loose(msgs), msgs[i].type \in ts \ types PROVE Has(new, ts)
  <2>1. i \in DOMAIN msgs /\ i > 2 /\ msgs[i].step \notin Protected(msgs)
    BY <1>1, <1>3, Zenon DEF Loose
  <2>2. i \in Stays(msgs, types)
    BY <1>3, <2>1, Zenon DEF Stays
  <2>3. PICK k \in 1 .. Len(new) : l[k] = i
    BY <2>2, Zenon DEF Shrinks, Enumerates
  <2>4. new[k].step = msgs[i].step /\ new[k].type = msgs[i].type /\ k > 2
    <3>1. ~ (k <= 2)
      BY <1>0, <2>1, <2>3 DEF Shrinks
    <3>. QED  BY <2>3, <3>1 DEF Shrinks
  <2>5. k \in Loose(new)
    BY <1>0, <1>1, <2>1, <2>4, Zenon DEF Loose
  <2>. QED  BY <1>3, <2>4, <2>5, Zenon DEF Has
<1>. QED  BY <1>2, <1>3, Zenon DEF Has

(* What a place counts for once these types are dropped.                   *)
Weight(msgs, types, i) ==
    IF i \in Loose(msgs) /\ msgs[i].type \in types THEN 0
    ELSE IF i \in Loose(msgs) /\ msgs[i].type = "tool_result"
      THEN Min({msgs[i].size, CutSize}) ELSE msgs[i].size

LEMMA CutIsSmaller ==
    ASSUME NEW m \in Messages
    PROVE  Min({m.size, CutSize}) = Cut(m).size /\ Cut(m).size \in Nat
<1>. DEFINE a == m.size
            b == CutSize
            c == Cut(m).size
<1>1. a \in Nat /\ b \in Nat /\ c = IF a > b THEN b ELSE a
  BY WindowAssumption, Zenon DEF Messages, Cut
<1>. HIDE DEF a, b, c
<1>2. c \in {a, b} /\ \A y \in {a, b} : c <= y
  BY <1>1
<1>3. Min({a, b}) \in {a, b} /\ \A y \in {a, b} : Min({a, b}) <= y
  BY <1>2, Zenon DEF Min
<1>4. Min({a, b}) = c /\ c \in Nat
  BY <1>1, <1>2, <1>3
<1>. QED  BY <1>4, Zenon DEF a, b, c

LEMMA WeightIs ==
    ASSUME NEW msgs \in Seq(Messages), NEW types, "tool_result" \notin types,
           NEW i \in DOMAIN msgs
    PROVE  /\ Weight(msgs, types, i) \in Nat
           /\ Weight(msgs, types \cup {"tool_result"}, i) \in Nat
           /\ i \notin Loose(msgs) =>
                /\ Weight(msgs, types, i) = msgs[i].size
                /\ Weight(msgs, types \cup {"tool_result"}, i) = msgs[i].size
           /\ i \in Loose(msgs) /\ msgs[i].type \in types =>
                /\ Weight(msgs, types, i) = 0
                /\ Weight(msgs, types \cup {"tool_result"}, i) = 0
           /\ i \in Loose(msgs) /\ msgs[i].type = "tool_result" =>
                /\ Weight(msgs, types, i) = Cut(msgs[i]).size
                /\ Weight(msgs, types \cup {"tool_result"}, i) = 0
           /\ i \in Loose(msgs) /\ msgs[i].type \notin types \cup {"tool_result"} =>
                /\ Weight(msgs, types, i) = msgs[i].size
                /\ Weight(msgs, types \cup {"tool_result"}, i) = msgs[i].size
<1>1. msgs[i] \in Messages
  OBVIOUS
<1>2. msgs[i].size \in Nat
  BY <1>1, Zenon DEF Messages
<1>3. Min({msgs[i].size, CutSize}) = Cut(msgs[i]).size /\ Cut(msgs[i]).size \in Nat
  BY <1>1, CutIsSmaller, Zenon
<1>. QED  BY <1>2, <1>3, Zenon DEF Weight

LEMMA TokensAreWeights ==
    ASSUME NEW msgs, NEW types
    PROVE  TokensWithout(msgs, types) = Sum([i \in DOMAIN msgs |-> Weight(msgs, types, i)])
BY Zenon DEF TokensWithout, Weight

(* Sums over a conversation and over what is left of it.                   *)
Matches(l, msgs, new, types, v, w) ==
    /\ v \in [1 .. Len(new) -> Nat] /\ w \in [1 .. Len(msgs) -> Nat]
    /\ \A k \in 1 .. Len(new) : v[k] = w[l[k]]
    /\ \A i \in 1 .. Len(msgs) : i \notin Stays(msgs, types) => w[i] = 0

LEMMA SumShrunk ==
    ASSUME NEW msgs, NEW new, NEW l, NEW types, NEW v, NEW w,
           msgs \in Seq(Messages), new \in Seq(Messages),
           Shrinks(l, msgs, new, types), Matches(l, msgs, new, types, v, w)
    PROVE  Sum(v) = Sum(w)
<1>. USE DEF Matches
<1>1. Len(msgs) \in Nat /\ Len(new) \in Nat
  OBVIOUS
<1>2. v \in Seq(Nat) /\ Len(v) = Len(new)
  BY <1>1
<1>3. w \in Seq(Nat) /\ Len(w) = Len(msgs)
  BY <1>1
<1>4. Stays(msgs, types) \subseteq 1 .. Len(w)
  BY <1>3 DEF Stays
<1>5. Enumerates(l, Len(v), Stays(msgs, types))
  BY <1>2, Zenon DEF Shrinks
<1>. DEFINE P == Stays(msgs, types)
<1>6. \A i \in 1 .. Len(w) : i \notin P => w[i] = 0
  BY <1>3, Zenon
<1>. HIDE DEF P
<1>. QED  BY <1>2, <1>3, <1>4, <1>5, <1>6, SumPicked, Zenon DEF P

(* What phase 1 leaves counts for what it should.                          *)
LEMMA Phase1Counts ==
    ASSUME NEW msgs \in Seq(Messages)
    PROVE  Count(Phase1(msgs)) = TokensWithout(msgs, NudgeTypes)
<1>. DEFINE one == Phase1(msgs)
            v == [k \in DOMAIN one |-> one[k].size]
            w == [i \in DOMAIN msgs |-> Weight(msgs, NudgeTypes, i)]
<1>0. Recent(msgs) = Protected(msgs) /\ "tool_result" \notin NudgeTypes
  BY RecentIsProtected, Zenon DEF NudgeTypes
<1>1. one \in Seq(Messages)
  BY Phase1Type
<1>2. PICK l : /\ Shrinks(l, msgs, one, NudgeTypes)
               /\ \A k \in 1 .. Len(one) :
                     one[k] = IF k > 2 /\ msgs[l[k]].type = "tool_result"
                                   /\ msgs[l[k]].step \notin Protected(msgs)
                                THEN Cut(msgs[l[k]]) ELSE msgs[l[k]]
  BY Phase1Shrinks, Zenon
<1>. HIDE DEF one
<1>3. DOMAIN one = 1 .. Len(one) /\ DOMAIN msgs = 1 .. Len(msgs)
  BY <1>1
<1>4. v \in [1 .. Len(one) -> Nat]
  <2>1. \A k \in 1 .. Len(one) : one[k] \in Messages
    BY <1>1
  <2>2. \A k \in 1 .. Len(one) : one[k].size \in Nat
    BY <2>1, Zenon DEF Messages
  <2>. QED  BY <1>3, <2>2, Zenon
<1>5. w \in [1 .. Len(msgs) -> Nat]
  BY <1>0, <1>3, WeightIs, Zenon
<1>6. ASSUME NEW k \in 1 .. Len(one) PROVE v[k] = w[l[k]]
  <2>1. l[k] \in Stays(msgs, NudgeTypes) /\ (k <= 2 => l[k] <= 2) /\ (k > 2 => l[k] > 2)
    BY <1>2, Zenon DEF Shrinks
  <2>2. l[k] \in DOMAIN msgs /\ l[k] \in Nat
    BY <1>3, <2>1 DEF Stays
  <2>3. l[k] \in Loose(msgs) <=> k > 2 /\ msgs[l[k]].step \notin Protected(msgs)
    BY <1>0, <2>1, <2>2 DEF Loose
  <2>4. l[k] \in Loose(msgs) => msgs[l[k]].type \notin NudgeTypes
    BY <1>0, <2>1, <2>2 DEF Stays, Loose
  <2>5. w[l[k]] = Weight(msgs, NudgeTypes, l[k]) /\ v[k] = one[k].size
    BY <1>3, <2>2, Zenon
  <2>6. one[k] = IF l[k] \in Loose(msgs) /\ msgs[l[k]].type = "tool_result"
                   THEN Cut(msgs[l[k]]) ELSE msgs[l[k]]
    BY <1>2, <2>3, Zenon
  <2>. HIDE DEF v, w
  <2>7. Weight(msgs, NudgeTypes, l[k]) =
           IF l[k] \in Loose(msgs) /\ msgs[l[k]].type = "tool_result"
             THEN Cut(msgs[l[k]]).size ELSE msgs[l[k]].size
    <3>. DEFINE i == l[k]
    <3>1. i \in DOMAIN msgs /\ (i \in Loose(msgs) => msgs[i].type \notin NudgeTypes)
      BY <2>2, <2>4, Zenon
    <3>. HIDE DEF i
    <3>2. Weight(msgs, NudgeTypes, i) =
             IF i \in Loose(msgs) /\ msgs[i].type = "tool_result"
               THEN Cut(msgs[i]).size ELSE msgs[i].size
      BY <1>0, <3>1, WeightIs, Zenon
    <3>. QED  BY <3>2, Zenon DEF i
  <2>. QED  BY <2>5, <2>6, <2>7, Zenon
<1>7. ASSUME NEW i \in 1 .. Len(msgs), i \notin Stays(msgs, NudgeTypes) PROVE w[i] = 0
  <2>1. i \in DOMAIN msgs /\ i \in Loose(msgs) /\ msgs[i].type \in NudgeTypes
    BY <1>0, <1>3, <1>7 DEF Stays, Loose
  <2>2. w[i] = Weight(msgs, NudgeTypes, i)
    BY <2>1, Zenon
  <2>. HIDE DEF w
  <2>. QED  BY <1>0, <2>1, <2>2, WeightIs, Zenon
<1>. HIDE DEF v, w
<1>8. Sum(v) = Sum(w)
  <2>1. Shrinks(l, msgs, one, NudgeTypes)
    BY <1>2, Zenon
  <2>2. Matches(l, msgs, one, NudgeTypes, v, w)
    BY <1>4, <1>5, <1>6, <1>7, Zenon DEF Matches
  <2>. QED  BY <1>1, <2>1, <2>2, SumShrunk
<1>9. Count(one) = Sum(v)
  BY Zenon DEF Count, v
<1>10. TokensWithout(msgs, NudgeTypes) = Sum(w)
  BY TokensAreWeights, Zenon DEF w
<1>. QED  BY <1>8, <1>9, <1>10, Zenon DEF one

(* And so does what phase 2 leaves of that.                                *)
LEMMA Phase2Counts ==
    ASSUME NEW msgs \in Seq(Messages), Protected(Phase1(msgs)) = Protected(msgs)
    PROVE  Count(Phase2(Phase1(msgs))) = TokensWithout(msgs, NudgeTypes \cup {"tool_result"})
<1>. DEFINE one == Phase1(msgs)
            two == Phase2(one)
            TR == {"tool_result"}
            u == [k \in DOMAIN two |-> two[k].size]
            v == [k \in DOMAIN one |-> IF k \in Stays(one, TR) THEN one[k].size ELSE 0]
            w == [i \in DOMAIN msgs |-> Weight(msgs, NudgeTypes \cup TR, i)]
<1>0. Recent(msgs) = Protected(msgs) /\ "tool_result" \notin NudgeTypes
  BY RecentIsProtected, Zenon DEF NudgeTypes
<1>1. one \in Seq(Messages)
  BY Phase1Type, Zenon
<1>2. PICK l : /\ Shrinks(l, msgs, one, NudgeTypes)
               /\ \A k \in 1 .. Len(one) :
                     one[k] = IF k > 2 /\ msgs[l[k]].type = "tool_result"
                                   /\ msgs[l[k]].step \notin Protected(msgs)
                                THEN Cut(msgs[l[k]]) ELSE msgs[l[k]]
  BY Phase1Shrinks, Zenon
<1>3. Protected(one) = Protected(msgs)
  BY Zenon
<1>. HIDE DEF one
<1>4. two \in Seq(Messages)
  BY <1>1, WithoutType, Zenon DEF Phase2
<1>5. PICK g : Shrinks(g, one, two, TR) /\ \A k \in 1 .. Len(two) : two[k] = one[g[k]]
  BY <1>1, WithoutShrinks DEF Phase2
<1>. HIDE DEF two
<1>6. DOMAIN one = 1 .. Len(one) /\ DOMAIN msgs = 1 .. Len(msgs) /\ DOMAIN two = 1 .. Len(two)
  BY <1>1, <1>4
<1>7. /\ \A k \in 1 .. Len(one) : one[k].size \in Nat
      /\ \A k \in 1 .. Len(two) : two[k].size \in Nat
  <2>1. /\ \A k \in 1 .. Len(one) : one[k] \in Messages
        /\ \A k \in 1 .. Len(two) : two[k] \in Messages
    BY <1>1, <1>4
  <2>. QED  BY <2>1, Zenon DEF Messages
<1>8. u \in [1 .. Len(two) -> Nat] /\ v \in [1 .. Len(one) -> Nat]
  BY <1>6, <1>7, Zenon
<1>9. w \in [1 .. Len(msgs) -> Nat]
  BY <1>0, <1>6, WeightIs, Zenon
<1>10. Matches(g, one, two, TR, u, v)
  <2>1. ASSUME NEW k \in 1 .. Len(two) PROVE u[k] = v[g[k]]
    <3>1. g[k] \in Stays(one, TR) /\ g[k] \in DOMAIN one
      BY <1>5, Zenon DEF Shrinks, Stays
    <3>. QED  BY <1>5, <1>6, <3>1, Zenon
  <2>2. \A k \in 1 .. Len(one) : k \notin Stays(one, TR) => v[k] = 0
    BY <1>6, Zenon
  <2>. HIDE DEF u, v, TR
  <2>. QED  BY <1>8, <2>1, <2>2, Zenon DEF Matches
<1>11. Matches(l, msgs, one, NudgeTypes, v, w)
  <2>1. ASSUME NEW k \in 1 .. Len(one) PROVE v[k] = w[l[k]]
    <3>. DEFINE i == l[k]
    <3>1. /\ i \in Stays(msgs, NudgeTypes) /\ (k <= 2 => i <= 2) /\ (k > 2 => i > 2)
          /\ one[k].step = msgs[i].step /\ one[k].type = msgs[i].type
      BY <1>2, Zenon DEF Shrinks
    <3>2. one[k] = IF k > 2 /\ msgs[i].type = "tool_result"
                        /\ msgs[i].step \notin Protected(msgs)
                     THEN Cut(msgs[i]) ELSE msgs[i]
      BY <1>2, Zenon
    <3>. HIDE DEF i
    <3>3. i \in DOMAIN msgs /\ i \in Nat
      BY <1>6, <3>1 DEF Stays
    <3>4. i \in Loose(msgs) <=> k > 2 /\ msgs[i].step \notin Protected(msgs)
      BY <1>0, <3>1, <3>3 DEF Loose
    <3>5. i \in Loose(msgs) => msgs[i].type \notin NudgeTypes
      BY <1>0, <3>1, <3>3 DEF Stays, Loose
    <3>6. k \in Stays(one, TR) <=> ~ (i \in Loose(msgs) /\ msgs[i].type = "tool_result")
      BY <1>3, <1>6, <3>1, <3>4 DEF Stays
    <3>7. v[k] = IF i \in Loose(msgs) /\ msgs[i].type = "tool_result" THEN 0 ELSE msgs[i].size
      BY <1>6, <3>2, <3>4, <3>6, Zenon
    <3>8. Weight(msgs, NudgeTypes \cup TR, i) =
             IF i \in Loose(msgs) /\ msgs[i].type = "tool_result" THEN 0 ELSE msgs[i].size
      BY <1>0, <3>3, <3>5, WeightIs, Zenon
    <3>9. w[i] = Weight(msgs, NudgeTypes \cup TR, i)
      BY <3>3, Zenon
    <3>. HIDE DEF v, w, TR
    <3>. QED  BY <3>7, <3>8, <3>9, Zenon DEF i
  <2>2. ASSUME NEW i \in 1 .. Len(msgs), i \notin Stays(msgs, NudgeTypes) PROVE w[i] = 0
    <3>1. i \in DOMAIN msgs /\ i \in Loose(msgs) /\ msgs[i].type \in NudgeTypes
      BY <1>0, <1>6, <2>2 DEF Stays, Loose
    <3>2. w[i] = Weight(msgs, NudgeTypes \cup TR, i)
      BY <3>1, Zenon
    <3>3. Weight(msgs, NudgeTypes \cup TR, i) = 0
      BY <1>0, <3>1, WeightIs, Zenon
    <3>. QED  BY <3>2, <3>3, Zenon
  <2>. HIDE DEF v, w
  <2>. QED  BY <1>8, <1>9, <2>1, <2>2, Zenon DEF Matches
<1>. HIDE DEF u, v, w
<1>12. Sum(u) = Sum(v)
  <2>1. Shrinks(g, one, two, TR)
    BY <1>5, Zenon
  <2>. HIDE DEF TR
  <2>. QED  BY <1>1, <1>4, <1>10, <2>1, SumShrunk
<1>13. Sum(v) = Sum(w)
  <2>1. Shrinks(l, msgs, one, NudgeTypes)
    BY <1>2, Zenon
  <2>. QED  BY <1>1, <1>11, <2>1, SumShrunk
<1>14. Count(two) = Sum(u)
  BY Zenon DEF Count, u
<1>15. TokensWithout(msgs, NudgeTypes \cup TR) = Sum(w)
  BY TokensAreWeights, Zenon DEF w
<1>. QED  BY <1>12, <1>13, <1>14, <1>15, Zenon DEF one, two, TR

LEMMA OnlyCompactCompacts ==
    ASSUME ControlInv, [Next]_vars, NEW c \in Calls, pc[c] = "compact", pc'[c] = "warn"
    PROVE  Compact(c)
<1>1. ASSUME NEW d \in Calls,
             \/ Begin(d) \/ Size(d) \/ CheckThresholds(d) \/ BackendRaises(d)
             \/ RescueRaises(d) \/ Return(d) \/ Retry(d)
      PROVE  FALSE
  <2>1. PICK place : Goto(d, place) /\ pc[d] # "compact"
    BY <1>1, Zenon DEF Begin, Size, CheckThresholds, BackendRaises, RescueRaises, Return, Retry,
                NextAttempt
  <2>. QED  BY <2>1, Zenon DEF Goto, ControlInv
<1>2. ASSUME NEW d \in Calls, Compact(d) PROVE d = c
  BY <1>2, Zenon DEF Compact, Goto, ControlInv
<1>3. ASSUME NEW s \in Sessions,
             Age(s) \/ GetRecentErrors(s) \/ MarkStepComplete(s) \/ ResetSteps(s)
      PROVE  FALSE
  BY <1>3, Zenon DEF Age, GetRecentErrors, MarkStepComplete, ResetSteps, call
<1>4. CASE UNCHANGED vars
  BY <1>4, Zenon DEF vars, call
<1>. QED  BY <1>1, <1>2, <1>3, <1>4, Zenon DEF Next

ByNeed(old, new) ==
    LET drops(types) == Has(old, types) /\ ~ Has(new, types)
    IN  /\ drops({"tool_result"}) => TokensWithout(old, NudgeTypes) > Target
        /\ drops(TalkTypes) => TokensWithout(old, NudgeTypes \cup {"tool_result"}) > Target
        /\ Count(new) > Target => ~ Has(new, Droppable)

LEMMA CompactedByNeed ==
    ASSUME NEW given \in Seq(Messages), StepsInTurn(given),
           NEW now \in Seq(Messages), NEW g, Keeps(g, given, now)
    PROVE  ByNeed(now, Compacted(now))
<1>. DEFINE one == Phase1(now)
            two == Phase2(one)
            three == Phase3(two)
            new == Compacted(now)
            TR == {"tool_result"}
<1>1. one \in Seq(Messages) /\ two \in Seq(Messages) /\ three \in Seq(Messages)
  BY CompactedType, Zenon
<1>2. /\ Count(now) \in Nat /\ Count(one) \in Nat /\ Count(two) \in Nat
      /\ Target \in Nat
  BY <1>1, CountType, TargetType, Zenon
<1>3. \/ new = now /\ Count(now) <= Target
      \/ new = one /\ Count(one) <= Target
      \/ new = two /\ Count(two) <= Target /\ Count(one) > Target
      \/ new = three /\ Count(two) > Target /\ Count(one) > Target
  <2>. DEFINE a == Count(now)
              b == Count(one)
              d == Count(two)
  <2>1. new = CASE a <= Target -> now
                [] a > Target /\ b <= Target -> one
                [] a > Target /\ b > Target /\ d <= Target -> two
                [] OTHER -> three
    BY Zenon DEF Compacted, TieredCompact
  <2>. HIDE DEF one, two, three, new, a, b, d
  <2>2. a \in Nat /\ b \in Nat /\ d \in Nat
    BY <1>2, Zenon DEF a, b, d
  <2>3. \/ new = now /\ a <= Target
        \/ new = one /\ b <= Target
        \/ new = two /\ d <= Target /\ b > Target
        \/ new = three /\ d > Target /\ b > Target
    BY <1>2, <2>1, <2>2
  <2>. QED  BY <2>3, Zenon DEF a, b, d
<1>4. Count(one) = TokensWithout(now, NudgeTypes)
  BY Phase1Counts, Zenon
(* The recent steps are the same after every phase.                        *)
<1>5. \A msgs \in Seq(Messages) :
         (\E h : Keeps(h, given, msgs)) => Protected(msgs) = Recent(given)
  BY RecentSame, Zenon
<1>6. \E h : Keeps(h, given, one)
  BY KeepsPhase1
<1>7. Protected(now) = Recent(given) /\ Protected(one) = Recent(given)
  BY <1>1, <1>5, <1>6, Zenon
<1>8. Count(two) = TokensWithout(now, NudgeTypes \cup TR)
  BY <1>7, Phase2Counts, Zenon
<1>9. \A ts : Has(one, ts) <=> Has(now, ts \ NudgeTypes)
  <2>1. PICK l : Shrinks(l, now, one, NudgeTypes)
    BY Phase1Shrinks, Zenon
  <2>. HIDE DEF one
  <2>. QED  BY <1>1, <1>7, <2>1, HasShrunk, Zenon
<1>. HIDE DEF one
<1>10. \E h : Keeps(h, given, two)
  <2>1. TR \subseteq Droppable
    BY Zenon DEF Droppable
  <2>. QED  BY <1>1, <1>6, <2>1, KeepsWithout, Zenon DEF Phase2
<1>11. \A ts : Has(two, ts) <=> Has(one, ts \ TR)
  <2>1. PICK l : Shrinks(l, one, two, TR)
    BY <1>1, WithoutShrinks, Zenon DEF Phase2
  <2>2. Protected(two) = Protected(one)
    BY <1>1, <1>5, <1>7, <1>10, Zenon
  <2>. HIDE DEF two, TR
  <2>. QED  BY <1>1, <2>1, <2>2, HasShrunk, Zenon
<1>12. Protected(two) = Recent(given)
  BY <1>1, <1>5, <1>10, Zenon
<1>. HIDE DEF two
<1>13. \E h : Keeps(h, given, three)
  <2>1. TalkTypes \subseteq Droppable
    BY DEF Droppable
  <2>. QED  BY <1>1, <1>10, <2>1, KeepsWithout, Zenon DEF Phase3
<1>14. \A ts : Has(three, ts) <=> Has(two, ts \ TalkTypes)
  <2>1. PICK l : Shrinks(l, two, three, TalkTypes)
    BY <1>1, WithoutShrinks, Zenon DEF Phase3
  <2>2. Protected(three) = Protected(two)
    BY <1>1, <1>5, <1>12, <1>13, Zenon
  <2>. HIDE DEF three
  <2>. QED  BY <1>1, <2>1, <2>2, HasShrunk, Zenon
<1>. HIDE DEF three, new
<1>15. ASSUME Has(now, TR), ~ Has(new, TR) PROVE TokensWithout(now, NudgeTypes) > Target
  <2>1. TR \ NudgeTypes = TR
    BY Zenon DEF NudgeTypes
  <2>2. Has(one, TR)
    BY <1>9, <1>15, <2>1, Zenon
  <2>. HIDE DEF TR
  <2>. QED  BY <1>3, <1>4, <1>15, <2>2, Zenon
<1>16. ASSUME Has(now, TalkTypes), ~ Has(new, TalkTypes)
       PROVE  TokensWithout(now, NudgeTypes \cup TR) > Target
  <2>1. TalkTypes \ NudgeTypes = TalkTypes /\ TalkTypes \ TR = TalkTypes
    BY Zenon DEF NudgeTypes, TalkTypes
  <2>2. Has(one, TalkTypes)
    BY <1>9, <1>16, <2>1, Zenon
  <2>3. Has(two, TalkTypes)
    BY <1>11, <2>1, <2>2, Zenon
  <2>. HIDE DEF TR
  <2>. QED  BY <1>3, <1>8, <1>16, <2>2, <2>3, Zenon
<1>17. ASSUME Count(new) > Target PROVE ~ Has(new, Droppable)
  <2>1. new = three
    BY <1>2, <1>3, <1>17
  <2>2. ((Droppable \ TalkTypes) \ TR) \ NudgeTypes = {}
    BY Zenon DEF Droppable
  <2>3. ~ Has(now, {})
    BY Zenon DEF Has
  <2>4. Has(three, Droppable) <=> Has(now, ((Droppable \ TalkTypes) \ TR) \ NudgeTypes)
    BY <1>9, <1>11, <1>14, Zenon
  <2>. QED  BY <2>1, <2>2, <2>3, <2>4, Zenon
<1>. QED  BY <1>15, <1>16, <1>17, Zenon DEF ByNeed, new

(* TieredCompact drops by need: a tool result only when cutting them all   *)
(* was not enough, what the model said only when dropping the tool results *)
(* was not either, and it leaves a conversation over the target only with  *)
(* nothing left to drop.  The recent steps are those of the conversation   *)
(* the call was given, after every phase of every compaction.              *)
THEOREM DroppedByNeed ==
    ASSUME \A msgs \in Inputs : StepsInTurn(msgs)
    PROVE  Spec => DropsByNeed
<1>. DEFINE Inv == ControlInv /\ KeepsInv
<1>1. Init => Inv
  BY KeepsInvInit, LimitPositive DEF Init, ControlInv, Places
<1>2. Inv /\ [Next]_vars => Inv'
  BY ControlNext, KeepsInvNext, Zenon
<1>3. Inv /\ [Next]_vars =>
        [\A c \in Calls :
           LET old == conv[c]  new == conv'[c]
               drops(types) == Has(old, types) /\ ~ Has(new, types)
           IN  pc[c] = "compact" /\ pc'[c] = "warn" =>
                  /\ drops({"tool_result"}) => TokensWithout(old, NudgeTypes) > Target
                  /\ drops(TalkTypes) =>
                       TokensWithout(old, NudgeTypes \cup {"tool_result"}) > Target
                  /\ Count(new) > Target => ~ Has(new, Droppable)]_vars
  <2>. SUFFICES ASSUME Inv, [Next]_vars, NEW c \in Calls, pc[c] = "compact", pc'[c] = "warn"
                PROVE  ByNeed(conv[c], conv'[c])
    BY Zenon DEF ByNeed
  <2>1. Compact(c)
    BY OnlyCompactCompacts, Zenon
  <2>2. conv'[c] = Compacted(conv[c])
    BY <2>1, Zenon DEF Compact, Compacted, KeepsInv, ConvInv
  <2>3. input[c] \in Inputs /\ conv[c] \in Seq(Messages)
    BY Zenon DEF KeepsInv, ConvInv
  <2>4. input[c] \in Seq(Messages) /\ StepsInTurn(input[c])
    BY <2>3, InputsAssumption, Zenon
  <2>5. PICK g : Keeps(g, input[c], conv[c])
    BY Zenon DEF KeepsInv
  <2>. QED  BY <2>2, <2>3, <2>4, <2>5, CompactedByNeed, Zenon
<1>. HIDE DEF Inv
<1>. QED  BY <1>1, <1>2, <1>3, PTL DEF Spec, DropsByNeed

=============================================================================
