----------------------------- MODULE ToolProofs -----------------------------
(***************************************************************************)
(* The audited tool client (ToolGate) is type correct, keeps its inductive *)
(* invariant, and implements FailClosed, for any number of calls, people   *)
(* and sinks.  The harness that serves tools (KeiHarness) registers what   *)
(* it read before it serves, holds every proxy it started but while it stops   *)
(* one, can account for every run of a tool and never goes round, for      *)
(* every manifest, number of attempts, of proxies, of callers and of keys. *)
(***************************************************************************)
EXTENDS ToolGate, KeiHarness, SequenceTheorems, TLAPS

-----------------------------------------------------------------------------
(* The operators *)

(* What the translation makes of an answer: a reason class, and one that   *)
(* allows only when the authority has granted the call.                    *)
LEMMA TranslateSound ==
    ASSUME NEW a \in ProxyAnswers
    PROVE  /\ Translate(a) \in Classes \ {"none", "filter"}
           /\ Translate(a) = "allow" => Grants(a)
           /\ a.how # "local" /\ a.says # "raise"
<1>1. CASE a \in [how : {"missing_token", "proxy_unavailable", "pin_mismatch",
                         "proxy_timeout", "signal", "client_error"},
                  exit : {0}, out : {"none"}, says : {"none"}]
  BY <1>1, Zenon DEF Translate, Parse, Classes, Grants
<1>2. CASE a \in [how : {"exited"}, exit : {0, 1, 2},
                  out : {"empty", "not_json", "not_object"}, says : {"none"}]
  BY <1>2, Zenon DEF Translate, Parse, Classes, Grants
<1>3. CASE a \in [how : {"exited"}, exit : {0, 1, 2}, out : {"object"}, says : Words]
  BY <1>3, Zenon DEF Translate, Parse, Classes, Grants, Affirmative, Words
<1> QED  BY <1>1, <1>2, <1>3, Zenon DEF ProxyAnswers

LEMMA LocalSound ==
    ASSUME NEW a \in LocalAnswers
    PROVE  /\ a.how = "local" /\ a.says \in {"allow", "filter", "deny", "raise"}
           /\ a.says \in {"allow", "filter"} => Grants(a)
BY Zenon DEF LocalAnswers, Grants

(* An appended record is the last of the trail, and the others stay.       *)
LEMMA TrailAppend ==
    ASSUME NEW t \in Seq(AuditRecords), NEW r \in AuditRecords
    PROVE  /\ Append(t, r) \in Seq(AuditRecords)
           /\ Len(t) \in Nat /\ Len(Append(t, r)) = Len(t) + 1
           /\ \A i \in 1 .. Len(t) : Append(t, r)[i] = t[i]
           /\ Append(t, r)[Len(t) + 1] = r
BY AppendProperties, LenProperties

LEMMA RecordTypes ==
    ASSUME TypeOK, NEW c \in Calls
    PROVE  RecordOf(c) \in AuditRecords
BY Zenon DEF TypeOK, RecordOf, AuditRecords

-----------------------------------------------------------------------------
(* Type correctness *)

LEMMA TypeStep == TypeOK /\ [Next]_vars => TypeOK'
<1> SUFFICES ASSUME TypeOK, [Next]_vars PROVE TypeOK'
  BY Zenon
<1>t. /\ evaluator \in Evaluators /\ auditor \in Auditors
      /\ pc \in [Calls -> Places]
      /\ parent \in [Calls -> Calls \cup {NoCall}]
      /\ ctx \in [Calls -> Contexts]
      /\ answer \in [Calls -> ProxyAnswers \cup LocalAnswers \cup {NoAnswer}]
      /\ decision \in [Calls -> Classes]
      /\ granted \subseteq Calls /\ ran \subseteq Calls
      /\ trail \in Seq(AuditRecords)
  BY Zenon DEF TypeOK
<1>p. Before \cup After \cup {"record", "raised"} \subseteq Places
  BY Zenon DEF Before, After, Places
<1>1. CASE UNCHANGED vars
  BY <1>1, Zenon DEF TypeOK, vars, config, call
<1>2. ASSUME NEW e \in Evaluators, WithPolicy(e) PROVE TypeOK'
  BY <1>2, <1>t, Zenon DEF WithPolicy, TypeOK, call
<1>3. ASSUME NEW a \in Auditors, WithAuditor(a) PROVE TypeOK'
  BY <1>3, <1>t, Zenon DEF WithAuditor, TypeOK, call
<1>4. ASSUME NEW c \in Calls, NEW h \in Humans, Enter(c, h) PROVE TypeOK'
  <2>1. [subject |-> h, depth |-> 0] \in Contexts
    BY Zenon DEF Contexts
  <2>2. pc' \in [Calls -> Places] /\ ctx' \in [Calls -> Contexts]
    BY <1>4, <1>t, <1>p, <2>1, Zenon DEF Enter, Goto, Before
  <2> QED  BY <1>4, <1>t, <2>2, Zenon DEF Enter, TypeOK, config
<1>5. ASSUME NEW c \in Calls, NEW d \in Calls, Delegate(c, d) PROVE TypeOK'
  <2>1. [subject |-> ctx[d].subject, depth |-> ctx[d].depth + 1] \in Contexts
    <3>1. ctx[d] \in Contexts
      BY <1>t, Zenon
    <3> QED  BY <3>1 DEF Contexts
  <2>2. pc' \in [Calls -> Places] /\ ctx' \in [Calls -> Contexts]
    BY <1>5, <1>t, <1>p, <2>1, Zenon DEF Delegate, Goto, Before
  <2>3. parent' \in [Calls -> Calls \cup {NoCall}]
    BY <1>5, <1>t, Zenon DEF Delegate
  <2> QED  BY <1>5, <1>t, <2>2, <2>3, Zenon DEF Delegate, TypeOK, config
<1>6. ASSUME NEW c \in Calls, NEW a \in ProxyAnswers \cup LocalAnswers, Consult(c, a)
      PROVE  TypeOK'
  <2>1. pc' \in [Calls -> Places]
    BY <1>6, <1>t, <1>p, Zenon DEF Consult, Goto, Before
  <2>2. answer' \in [Calls -> ProxyAnswers \cup LocalAnswers \cup {NoAnswer}]
    BY <1>6, <1>t, Zenon DEF Consult
  <2>3. granted' \subseteq Calls
    BY <1>6, <1>t, Zenon DEF Consult
  <2> QED  BY <1>6, <1>t, <2>1, <2>2, <2>3, Zenon DEF Consult, TypeOK, config
<1>7. ASSUME NEW c \in Calls, Decide(c) PROVE TypeOK'
  <2> DEFINE a == answer[c]
             d == IF a.how = "local" THEN a.says ELSE Translate(a)
  <2>1. d \in Classes
    <3>1. CASE a \in ProxyAnswers
      BY <3>1, TranslateSound, Zenon
    <3>2. CASE a \in LocalAnswers
      <4>1. a.says \in {"allow", "filter", "deny"}
        BY <3>2, LocalSound, <1>7, Zenon DEF Decide
      <4> QED  BY <3>2, <4>1, LocalSound, Zenon DEF Classes
    <3>3. CASE a = NoAnswer
      BY <3>3 DEF NoAnswer, Translate, Parse, Classes
    <3> QED  BY <3>1, <3>2, <3>3, <1>t, Zenon
  <2>2. decision' = [decision EXCEPT ![c] = d]
    BY <1>7, Zenon DEF Decide
  <2> HIDE DEF d
  <2>3. decision' \in [Calls -> Classes]
    BY <2>1, <2>2, <1>t, Zenon
  <2>4. pc' \in [Calls -> Places]
    BY <1>7, <1>t, <1>p, Zenon DEF Decide, Goto
  <2>5. answer' \in [Calls -> ProxyAnswers \cup LocalAnswers \cup {NoAnswer}]
    BY <1>7, <1>t, Zenon DEF Decide
  <2> QED  BY <1>7, <1>t, <2>3, <2>4, <2>5, Zenon DEF Decide, TypeOK, config
<1>8. ASSUME NEW c \in Calls, EvaluateRaises(c) PROVE TypeOK'
  <2>1. pc' \in [Calls -> Places]
    BY <1>8, <1>t, <1>p, Zenon DEF EvaluateRaises, Goto
  <2>2. answer' \in [Calls -> ProxyAnswers \cup LocalAnswers \cup {NoAnswer}]
    BY <1>8, <1>t, Zenon DEF EvaluateRaises
  <2> QED  BY <1>8, <1>t, <2>1, <2>2, Zenon DEF EvaluateRaises, TypeOK, config
<1>9. ASSUME NEW c \in Calls, Record(c) PROVE TypeOK'
  <2>1. pc' \in [Calls -> Places]
    BY <1>9, <1>t, <1>p, Zenon DEF Record, Goto, After
  <2>2. trail' \in Seq(AuditRecords)
    BY <1>9, <1>t, RecordTypes, TrailAppend, Zenon DEF Record
  <2> QED  BY <1>9, <1>t, <2>1, <2>2, Zenon DEF Record, TypeOK, config, call
<1>10. ASSUME NEW c \in Calls, RecordRaises(c) \/ Deny(c) \/ ToolReturns(c)
       PROVE  TypeOK'
  <2>1. pc' \in [Calls -> Places]
    BY <1>10, <1>t, <1>p, Zenon DEF RecordRaises, Deny, ToolReturns, Goto, After
  <2> QED  BY <1>10, <1>t, <2>1, Zenon
           DEF RecordRaises, Deny, ToolReturns, TypeOK, config, call
<1>11. ASSUME NEW c \in Calls, Run(c) PROVE TypeOK'
  <2>1. pc' \in [Calls -> Places]
    BY <1>11, <1>t, <1>p, Zenon DEF Run, Goto, After
  <2> QED  BY <1>11, <1>t, <2>1, Zenon DEF Run, TypeOK, config
<1> QED
  BY <1>1, <1>2, <1>3, <1>4, <1>5, <1>6, <1>7, <1>8, <1>9, <1>10, <1>11, Zenon DEF Next

-----------------------------------------------------------------------------
(* The inductive invariant *)

LEMMA InitHolds == Init => TypeOK /\ GateInv
<1> SUFFICES ASSUME Init PROVE TypeOK /\ GateInv
  BY Zenon
<1>1. TypeOK
  <2>1. Nobody \in Contexts
    BY Zenon DEF Nobody, Contexts
  <2>2. trail \in Seq(AuditRecords) /\ Len(trail) = 0
    BY EmptySeq, Zenon DEF Init
  <2>3. "idle" \in Places /\ "none" \in Classes
    BY Zenon DEF Places, Classes
  <2> QED  BY <2>1, <2>2, <2>3, Zenon DEF Init, TypeOK
<1>2. \A c \in Calls : Records(c) = {}
  BY DEF Init, Records
<1>3. GateInv
  BY <1>2 DEF Init, GateInv, Decided, Granted, Audited, Attributed, Chained,
              Before, After, Verdict
<1> QED  BY <1>1, <1>3, Zenon

(* A step that leaves the trail, the contexts and the parents alone keeps  *)
(* what was recorded.                                                      *)
LEMMA SameTrail ==
    ASSUME UNCHANGED <<trail, parent>>, Chained
    PROVE  Chained' /\ \A c \in Calls : Records(c)' = Records(c)
BY Zenon DEF Chained, Records

LEMMA InvStep == TypeOK /\ TypeOK' /\ GateInv /\ [Next]_vars => GateInv'
<1> SUFFICES ASSUME TypeOK, TypeOK', GateInv, [Next]_vars PROVE GateInv'
  BY Zenon
<1>t. /\ pc \in [Calls -> Places]
      /\ parent \in [Calls -> Calls \cup {NoCall}]
      /\ ctx \in [Calls -> Contexts]
      /\ answer \in [Calls -> ProxyAnswers \cup LocalAnswers \cup {NoAnswer}]
      /\ decision \in [Calls -> Classes]
      /\ granted \subseteq Calls /\ ran \subseteq Calls
      /\ trail \in Seq(AuditRecords)
      /\ NoCall \notin Calls
  BY GateAssumption, Zenon DEF TypeOK
<1>i. /\ \A c \in Calls : Decided(c) /\ Granted(c) /\ Audited(c) /\ Attributed(c)
      /\ Chained
  BY Zenon DEF GateInv
<1>1. CASE UNCHANGED vars
  <2>1. UNCHANGED <<trail, parent, pc, ctx, answer, decision, granted, ran>>
    BY <1>1, Zenon DEF vars, call
  <2> QED  BY <1>i, <2>1 DEF GateInv, Decided, Granted, Audited, Attributed,
                             Chained, Records
<1>2. ASSUME (\E e \in Evaluators : WithPolicy(e)) \/ (\E a \in Auditors : WithAuditor(a))
      PROVE  GateInv'
  <2>1. UNCHANGED <<trail, parent, pc, ctx, answer, decision, granted, ran>>
    BY <1>2, Zenon DEF WithPolicy, WithAuditor, call
  <2> QED  BY <1>i, <2>1 DEF GateInv, Decided, Granted, Audited, Attributed,
                             Chained, Records
<1>3. ASSUME NEW c \in Calls, NEW h \in Humans, Enter(c, h) PROVE GateInv'
  <2>1. /\ pc[c] = "idle" /\ pc' = [pc EXCEPT ![c] = "evaluate"]
        /\ ctx' = [ctx EXCEPT ![c] = [subject |-> h, depth |-> 0]]
        /\ UNCHANGED <<trail, parent, answer, decision, granted, ran>>
    BY <1>3, Zenon DEF Enter, Goto
  <2>2. Chained' /\ \A x \in Calls : Records(x)' = Records(x)
    BY <2>1, <1>i, SameTrail, Zenon
  <2>3. ASSUME NEW x \in Calls PROVE Decided(x)' /\ Granted(x)'
    BY <2>1, <1>i, <1>t, Zenon DEF Decided, Granted, Before, After
  <2>4. ASSUME NEW x \in Calls PROVE Audited(x)'
    BY <2>1, <2>2, <1>i, <1>t, Zenon DEF Audited, After
  <2>5. ASSUME NEW x \in Calls PROVE Attributed(x)'
    BY <2>1, <1>i, <1>t, Zenon DEF Attributed
  <2> QED  BY <2>2, <2>3, <2>4, <2>5, Zenon DEF GateInv
<1>4. ASSUME NEW c \in Calls, NEW d \in Calls, Delegate(c, d) PROVE GateInv'
  <2>1. /\ pc[c] = "idle" /\ pc[d] = "running" /\ pc' = [pc EXCEPT ![c] = "evaluate"]
        /\ ctx' = [ctx EXCEPT ![c] = [subject |-> ctx[d].subject,
                                      depth |-> ctx[d].depth + 1]]
        /\ parent' = [parent EXCEPT ![c] = d]
        /\ UNCHANGED <<trail, answer, decision, granted, ran>>
    BY <1>4, Zenon DEF Delegate, Goto
  <2>2. \A x \in Calls : Records(x)' = Records(x)
    BY <2>1, Zenon DEF Records
  <2>3. ASSUME NEW x \in Calls PROVE Decided(x)' /\ Granted(x)'
    BY <2>1, <1>i, <1>t, Zenon DEF Decided, Granted, Before, After
  <2>4. ASSUME NEW x \in Calls PROVE Audited(x)'
    BY <2>1, <2>2, <1>i, <1>t, Zenon DEF Audited, After
  <2>5. ASSUME NEW x \in Calls PROVE Attributed(x)'
    BY <2>1, <1>i, <1>t, Zenon DEF Attributed
  <2>6. Chained'
    <3>1. Records(c) = {}
      BY <2>1, <1>i, Zenon DEF Audited, After
    <3>2. ASSUME NEW i \in 1 .. Len(trail) PROVE trail[i].call # c
      BY <3>1, Zenon DEF Records
    <3>3. ASSUME NEW i \in 1 .. Len(trail)
          PROVE  trail[i].call \in Calls /\ parent'[trail[i].call] = parent[trail[i].call]
      <4>1. trail[i] \in AuditRecords
        BY <1>t, ElementOfSeq, Zenon
      <4>2. trail[i].call \in Calls
        BY <4>1, Zenon DEF AuditRecords
      <4> QED  BY <4>2, <3>2, <2>1, <1>t, Zenon
    <3> QED  BY <3>3, <2>1, <1>i, Zenon DEF Chained
  <2> QED  BY <2>3, <2>4, <2>5, <2>6, Zenon DEF GateInv
<1>5. ASSUME NEW c \in Calls, NEW a \in ProxyAnswers \cup LocalAnswers, Consult(c, a)
      PROVE  GateInv'
  <2>0. a # NoAnswer
    BY DEF NoAnswer, ProxyAnswers, LocalAnswers
  <2>1. /\ pc[c] = "evaluate" /\ pc' = [pc EXCEPT ![c] = "answered"]
        /\ answer' = [answer EXCEPT ![c] = a]
        /\ granted' = IF Grants(a) THEN granted \cup {c} ELSE granted
        /\ UNCHANGED <<trail, parent, ctx, decision, ran>>
    BY <1>5, Zenon DEF Consult, Goto
  <2>2. Chained' /\ \A x \in Calls : Records(x)' = Records(x)
    BY <2>1, <1>i, SameTrail, Zenon
  <2>3. ASSUME NEW x \in Calls PROVE Decided(x)'
    BY <2>1, <1>i, <1>t, Zenon DEF Decided, Before, After
  <2>4. ASSUME NEW x \in Calls PROVE Granted(x)'
    <3>1. CASE x = c
      BY <3>1, <2>0, <2>1, <1>i, <1>t, Zenon DEF Granted
    <3>2. CASE x # c
      BY <3>2, <2>1, <1>i, <1>t, Zenon DEF Granted
    <3> QED  BY <3>1, <3>2, Zenon
  <2>5. ASSUME NEW x \in Calls PROVE Audited(x)'
    BY <2>1, <2>2, <1>i, <1>t, Zenon DEF Audited, After
  <2>6. ASSUME NEW x \in Calls PROVE Attributed(x)'
    BY <2>1, <1>i, <1>t, Zenon DEF Attributed
  <2> QED  BY <2>2, <2>3, <2>4, <2>5, <2>6, Zenon DEF GateInv
<1>6. ASSUME NEW c \in Calls, Decide(c) PROVE GateInv'
  <2> DEFINE a == answer[c]
             d == IF a.how = "local" THEN a.says ELSE Translate(a)
  <2>1. /\ pc[c] = "answered" /\ pc' = [pc EXCEPT ![c] = "record"]
        /\ decision' = [decision EXCEPT ![c] = d]
        /\ answer' = [answer EXCEPT ![c] = NoAnswer]
        /\ UNCHANGED <<trail, parent, ctx, granted, ran>>
    BY <1>6, Zenon DEF Decide, Goto
  <2>d. d # "none" /\ (Verdict(d) = "allow" => Grants(a))
    <3>1. CASE a \in ProxyAnswers
      BY <3>1, TranslateSound, Zenon DEF Verdict, Action
    <3>2. CASE a \in LocalAnswers
      BY <3>2, LocalSound, <1>6, Zenon DEF Decide, Verdict, Action
    <3>3. a # NoAnswer
      BY <2>1, <1>i, Zenon DEF Granted
    <3> QED  BY <3>1, <3>2, <3>3, <1>t, Zenon
  <2>g. Grants(a) => c \in granted
    BY <2>1, <1>i, Zenon DEF Granted
  <2> HIDE DEF d, a
  <2>2. Chained' /\ \A x \in Calls : Records(x)' = Records(x)
    BY <2>1, <1>i, SameTrail, Zenon
  <2>3. ASSUME NEW x \in Calls PROVE Decided(x)'
    BY <2>1, <2>d, <1>i, <1>t, Zenon DEF Decided, Before, After
  <2>4. ASSUME NEW x \in Calls PROVE Granted(x)'
    <3>1. CASE x = c
      BY <3>1, <2>d, <2>g, <2>1, <1>t, Zenon DEF Granted
    <3>2. CASE x # c
      BY <3>2, <2>1, <1>i, <1>t, Zenon DEF Granted
    <3> QED  BY <3>1, <3>2, Zenon
  <2>5. ASSUME NEW x \in Calls PROVE Audited(x)'
    BY <2>1, <2>2, <1>i, <1>t, Zenon DEF Audited, After
  <2>6. ASSUME NEW x \in Calls PROVE Attributed(x)'
    BY <2>1, <1>i, <1>t, Zenon DEF Attributed
  <2> QED  BY <2>2, <2>3, <2>4, <2>5, <2>6, Zenon DEF GateInv
<1>7. ASSUME NEW c \in Calls, EvaluateRaises(c) PROVE GateInv'
  <2>1. /\ pc[c] = "answered" /\ pc' = [pc EXCEPT ![c] = "raised"]
        /\ answer' = [answer EXCEPT ![c] = NoAnswer]
        /\ UNCHANGED <<trail, parent, ctx, decision, granted, ran>>
    BY <1>7, Zenon DEF EvaluateRaises, Goto
  <2>2. Chained' /\ \A x \in Calls : Records(x)' = Records(x)
    BY <2>1, <1>i, SameTrail, Zenon
  <2>3. ASSUME NEW x \in Calls PROVE Decided(x)' /\ Granted(x)'
    BY <2>1, <1>i, <1>t, Zenon DEF Decided, Granted, Before, After
  <2>4. ASSUME NEW x \in Calls PROVE Audited(x)'
    BY <2>1, <2>2, <1>i, <1>t, Zenon DEF Audited, After
  <2>5. ASSUME NEW x \in Calls PROVE Attributed(x)'
    BY <2>1, <1>i, <1>t, Zenon DEF Attributed
  <2> QED  BY <2>2, <2>3, <2>4, <2>5, Zenon DEF GateInv
<1>8. ASSUME NEW c \in Calls, Record(c) PROVE GateInv'
  <2> DEFINE r == RecordOf(c)
             n == Len(trail)
  <2>1. /\ pc[c] = "record" /\ pc' = [pc EXCEPT ![c] = "enforce"]
        /\ trail' = Append(trail, r)
        /\ UNCHANGED <<parent, ctx, answer, decision, granted, ran>>
    BY <1>8, Zenon DEF Record, Goto, call
  <2>r. /\ r \in AuditRecords /\ r.call = c /\ r.decision = decision[c]
        /\ r.ctx = ctx[c]
    BY RecordTypes, Zenon DEF RecordOf
  <2> HIDE DEF r
  <2>a. /\ n \in Nat /\ Len(trail') = n + 1 /\ trail'[n + 1] = r
        /\ \A i \in 1 .. n : trail'[i] = trail[i]
    BY <2>1, <2>r, <1>t, TrailAppend
  <2> HIDE DEF n
  <2>n. n = Len(trail)
    BY Zenon DEF n
  <2>2. ASSUME NEW x \in Calls, x # c PROVE Records(x)' = Records(x)
    BY <2>a, <2>n, <2>r, <2>2 DEF Records
  <2>3. Records(c)' = {n + 1}
    <3>1. Records(c) = {}
      BY <2>1, <1>i, Zenon DEF Audited, After
    <3>2. \A i \in 1 .. n : trail'[i].call # c
      BY <3>1, <2>a, <2>n, Zenon DEF Records
    <3> QED  BY <3>2, <2>a, <2>r DEF Records
  <2>4. ASSUME NEW x \in Calls PROVE Decided(x)' /\ Granted(x)'
    BY <2>1, <1>i, <1>t, Zenon DEF Decided, Granted, Before, After
  <2>5. ASSUME NEW x \in Calls PROVE Audited(x)'
    <3>1. CASE x = c
      BY <3>1, <2>1, <2>3, <2>a, <2>r, <1>t DEF Audited, After
    <3>2. CASE x # c /\ pc[x] \in After
      <4>1. PICK i \in Records(x) : /\ Records(x) = {i}
                                    /\ trail[i].decision = decision[x]
                                    /\ trail[i].ctx = ctx[x]
        BY <3>2, <1>i, Zenon DEF Audited
      <4>2. i \in 1 .. n
        BY <4>1, <2>n, Zenon DEF Records
      <4> QED  BY <3>2, <4>1, <4>2, <2>1, <2>2, <2>a, <1>t, Zenon DEF Audited
    <3>3. CASE x # c /\ pc[x] \notin After
      BY <3>3, <2>1, <2>2, <1>i, <1>t, Zenon DEF Audited
    <3> QED  BY <3>1, <3>2, <3>3, Zenon
  <2>6. ASSUME NEW x \in Calls PROVE Attributed(x)'
    BY <2>1, <1>i, <1>t, Zenon DEF Attributed
  <2>7. Chained'
    <3> SUFFICES ASSUME NEW i \in 1 .. n + 1, parent[trail'[i].call] # NoCall
                 PROVE  \E j \in 1 .. i - 1 : trail'[j].call = parent[trail'[i].call]
      BY <2>1, <2>a, Zenon DEF Chained
    <3>1. CASE i \in 1 .. n
      <4>1. PICK j \in 1 .. i - 1 : trail[j].call = parent[trail[i].call]
        BY <3>1, <2>a, <2>n, <1>i, Zenon DEF Chained
      <4>2. j \in 1 .. n
        BY <4>1, <3>1, <2>a
      <4> QED  BY <4>1, <4>2, <3>1, <2>a, Zenon
    <3>2. CASE i = n + 1
      <4>1. parent[c] \in Calls /\ pc[parent[c]] \in After
        BY <3>2, <2>a, <2>r, <1>i, <1>t DEF Attributed, After
      <4>2. PICK j \in Records(parent[c]) : TRUE
        BY <4>1, <1>i, Zenon DEF Audited
      <4>3. j \in 1 .. n /\ trail[j].call = parent[c]
        BY <4>2, <2>n, Zenon DEF Records
      <4>4. j \in 1 .. i - 1
        BY <4>3, <3>2, <2>a
      <4> QED  BY <4>3, <4>4, <3>2, <2>a, <2>r, Zenon
    <3> QED  BY <3>1, <3>2, <2>a
  <2> QED  BY <2>4, <2>5, <2>6, <2>7, Zenon DEF GateInv
<1>9. ASSUME NEW c \in Calls, RecordRaises(c) \/ Deny(c) \/ ToolReturns(c)
      PROVE  GateInv'
  <2>1. /\ \/ pc[c] = "record" /\ pc' = [pc EXCEPT ![c] = "raised"]
           \/ pc[c] = "enforce" /\ pc' = [pc EXCEPT ![c] = "denied"]
           \/ pc[c] = "running" /\ pc' = [pc EXCEPT ![c] = "done"]
        /\ UNCHANGED <<trail, parent, ctx, answer, decision, granted, ran>>
    BY <1>9, Zenon DEF RecordRaises, Deny, ToolReturns, Goto, call
  <2>2. Chained' /\ \A x \in Calls : Records(x)' = Records(x)
    BY <2>1, <1>i, SameTrail, Zenon
  <2>3. ASSUME NEW x \in Calls PROVE Decided(x)' /\ Granted(x)'
    BY <2>1, <1>i, <1>t, Zenon DEF Decided, Granted, Before, After
  <2>4. ASSUME NEW x \in Calls PROVE Audited(x)'
    BY <2>1, <2>2, <1>i, <1>t, Zenon DEF Audited, After
  <2>5. ASSUME NEW x \in Calls PROVE Attributed(x)'
    BY <2>1, <1>i, <1>t DEF Attributed
  <2> QED  BY <2>2, <2>3, <2>4, <2>5 DEF GateInv
<1>10. ASSUME NEW c \in Calls, Run(c) PROVE GateInv'
  <2>1. /\ pc[c] = "enforce" /\ pc' = [pc EXCEPT ![c] = "running"]
        /\ ran' = ran \cup {c}
        /\ UNCHANGED <<trail, parent, ctx, answer, decision, granted>>
    BY <1>10, Zenon DEF Run, Goto
  <2>2. Chained' /\ \A x \in Calls : Records(x)' = Records(x)
    BY <2>1, <1>i, SameTrail, Zenon
  <2>3. ASSUME NEW x \in Calls PROVE Decided(x)' /\ Granted(x)'
    BY <2>1, <1>i, <1>t, Zenon DEF Decided, Granted, Before, After
  <2>4. ASSUME NEW x \in Calls PROVE Audited(x)'
    BY <2>1, <2>2, <1>i, <1>t, Zenon DEF Audited, After
  <2>5. ASSUME NEW x \in Calls PROVE Attributed(x)'
    BY <2>1, <1>i, <1>t, Zenon DEF Attributed
  <2> QED  BY <2>2, <2>3, <2>4, <2>5 DEF GateInv
<1> QED
  BY <1>1, <1>2, <1>3, <1>4, <1>5, <1>6, <1>7, <1>8, <1>9, <1>10, Zenon DEF Next

(* GateInv is an invariant: a call is decided, recorded and run in that    *)
(* order, by decisions that were granted and in a context that stays.      *)
THEOREM GateInvariant == Spec => [](TypeOK /\ GateInv)
<1>1. TypeOK /\ GateInv /\ [Next]_vars => (TypeOK /\ GateInv)'
  BY TypeStep, InvStep, Zenon
<1> QED  BY InitHolds, <1>1, PTL DEF Spec

(* Every variable of the gate keeps its type.                              *)
THEOREM TypeCorrect == Spec => []TypeOK
BY GateInvariant, PTL

(* Execute leaves exactly one audit record of a call it enforces, with the *)
(* decision enforced and the context of the call.                          *)
THEOREM ExactlyOneRecord == Spec => []OneRecordEach
<1>1. GateInv => OneRecordEach
  BY Zenon DEF GateInv, Audited, OneRecordEach, After
<1> QED  BY <1>1, GateInvariant, PTL

(* delegate() carries the human and counts the hops, so every record of a  *)
(* chain of delegated calls names the person who made the request.         *)
THEOREM HumanIsNamed == Spec => []RecordsNameTheHuman
<1>1. TypeOK /\ GateInv => RecordsNameTheHuman
  <2> SUFFICES ASSUME TypeOK, GateInv, NEW i \in 1 .. Len(trail)
               PROVE  LET c == trail[i].call IN
                      /\ trail[i].ctx.subject \in Humans
                      /\ parent[c] # NoCall =>
                            /\ trail[i].ctx.subject = ctx[parent[c]].subject
                            /\ trail[i].ctx.depth = ctx[parent[c]].depth + 1
                            /\ \E j \in 1 .. i - 1 : trail[j].call = parent[c]
    BY Zenon DEF RecordsNameTheHuman
  <2> DEFINE c == trail[i].call
  <2>1. c \in Calls
    <3>1. trail[i] \in AuditRecords
      BY ElementOfSeq, Zenon DEF TypeOK
    <3> QED  BY <3>1, Zenon DEF AuditRecords
  <2>2. i \in Records(c)
    BY Zenon DEF Records
  <2>3. Audited(c) /\ Attributed(c)
    BY <2>1, Zenon DEF GateInv
  <2>4. pc[c] \in After /\ trail[i].ctx = ctx[c]
    BY <2>2, <2>3, Zenon DEF Audited
  <2>5. pc[c] # "idle"
    BY <2>4, Zenon DEF After
  <2> QED  BY <2>3, <2>4, <2>5, Zenon DEF Attributed, GateInv, Chained
<1> QED  BY <1>1, GateInvariant, PTL

-----------------------------------------------------------------------------
(* Refinement *)

Verdicts  == [c \in Calls |-> Verdict(decision[c])]
Verdicted == [i \in 1 .. Len(trail) |->
                <<trail[i].call, Verdict(trail[i].decision)>>]

(* Every step of the client is a step of the fail-closed gate, or none.    *)
LEMMA GateStep ==
    TypeOK /\ TypeOK' /\ GateInv /\ [Next]_vars => [Gate!Next]_(Gate!vars)
<1> SUFFICES ASSUME TypeOK, TypeOK', GateInv, [Next]_vars
             PROVE  [Gate!Next]_(Gate!vars)
  BY Zenon
<1>t. /\ pc \in [Calls -> Places]
      /\ answer \in [Calls -> ProxyAnswers \cup LocalAnswers \cup {NoAnswer}]
      /\ decision \in [Calls -> Classes]
      /\ trail \in Seq(AuditRecords)
  BY Zenon DEF TypeOK
<1>i. \A c \in Calls : Decided(c) /\ Granted(c) /\ Audited(c)
  BY Zenon DEF GateInv
<1>s. ASSUME UNCHANGED <<granted, decision, trail, ran>> PROVE UNCHANGED Gate!vars
  BY <1>s, Zenon DEF Gate!vars
<1>1. CASE UNCHANGED vars
  BY <1>1, <1>s, Zenon DEF vars, call
<1>2. ASSUME (\E e \in Evaluators : WithPolicy(e)) \/ (\E a \in Auditors : WithAuditor(a))
      PROVE  UNCHANGED Gate!vars
  BY <1>2, <1>s, Zenon DEF WithPolicy, WithAuditor, call
<1>3. ASSUME NEW c \in Calls, \/ \E h \in Humans : Enter(c, h)
                             \/ \E d \in Calls : Delegate(c, d)
      PROVE  UNCHANGED Gate!vars
  BY <1>3, <1>s, Zenon DEF Enter, Delegate
<1>4. ASSUME NEW c \in Calls, EvaluateRaises(c) \/ RecordRaises(c) \/ Deny(c) \/ ToolReturns(c)
      PROVE  UNCHANGED Gate!vars
  BY <1>4, <1>s, Zenon DEF EvaluateRaises, RecordRaises, Deny, ToolReturns, call
<1>5. ASSUME NEW c \in Calls, NEW a \in ProxyAnswers \cup LocalAnswers, Consult(c, a)
      PROVE  [Gate!Next]_(Gate!vars)
  <2>1. CASE ~Grants(a)
    BY <1>5, <2>1, <1>s, Zenon DEF Consult
  <2>2. CASE Grants(a)
    <3>1. /\ pc[c] = "evaluate" /\ granted' = granted \cup {c}
          /\ UNCHANGED <<decision, trail, ran>>
      BY <1>5, <2>2, Zenon DEF Consult
    <3>2. Verdict(decision[c]) = "none"
      BY <3>1, <1>i, Zenon DEF Decided, Before, Verdict
    <3>3. Gate!Grant(c)
      BY <3>1, <3>2, Zenon DEF Gate!Grant
    <3> QED  BY <3>3, Zenon DEF Gate!Next
  <2> QED  BY <2>1, <2>2, Zenon
<1>6. ASSUME NEW c \in Calls, Decide(c) PROVE [Gate!Next]_(Gate!vars)
  <2> DEFINE d == IF answer[c].how = "local" THEN answer[c].says
                  ELSE Translate(answer[c])
  <2>1. /\ pc[c] = "answered" /\ decision' = [decision EXCEPT ![c] = d]
        /\ UNCHANGED <<granted, trail, ran>>
    BY <1>6, Zenon DEF Decide
  <2>2. d # "none" /\ (Verdict(d) = "allow" => c \in granted)
    <3>1. CASE answer[c] \in ProxyAnswers
      BY <3>1, TranslateSound, <2>1, <1>i, Zenon DEF Granted, Verdict, Action
    <3>2. CASE answer[c] \in LocalAnswers
      BY <3>2, LocalSound, <2>1, <1>i, <1>6, Zenon DEF Granted, Verdict, Action, Decide
    <3>3. answer[c] # NoAnswer
      BY <2>1, <1>i, Zenon DEF Granted
    <3> QED  BY <3>1, <3>2, <3>3, <1>t, Zenon
  <2> HIDE DEF d
  <2>3. Verdict(d) \in {"allow", "deny"}
    BY <2>2, Zenon DEF Verdict
  <2>4. Verdict(decision[c]) = "none"
    BY <2>1, <1>i, Zenon DEF Decided, Before, Verdict
  <2>5. Verdicts' = [Verdicts EXCEPT ![c] = Verdict(d)]
    BY <2>1, <1>t, Zenon DEF Verdicts
  <2>6. Gate!Decide(c, Verdict(d))
    BY <2>1, <2>2, <2>4, <2>5, Zenon DEF Gate!Decide, Verdicts
  <2> QED  BY <2>3, <2>6, Zenon DEF Gate!Next
<1>7. ASSUME NEW c \in Calls, Record(c) PROVE [Gate!Next]_(Gate!vars)
  <2> DEFINE r == RecordOf(c)
             n == Len(trail)
  <2>1. /\ pc[c] = "record" /\ trail' = Append(trail, r)
        /\ UNCHANGED <<granted, decision, ran>>
    BY <1>7, Zenon DEF Record, call
  <2>r. r \in AuditRecords /\ r.call = c /\ r.decision = decision[c]
    BY RecordTypes, Zenon DEF RecordOf
  <2> HIDE DEF r
  <2>a. /\ n \in Nat /\ Len(trail') = n + 1 /\ trail'[n + 1] = r
        /\ \A i \in 1 .. n : trail'[i] = trail[i]
    BY <2>1, <2>r, <1>t, TrailAppend, Zenon
  <2>2. Verdicted' = Append(Verdicted, <<c, Verdict(decision[c])>>)
    <3>1. Verdicted \in Seq(Calls \X {"none", "allow", "deny"}) /\ Len(Verdicted) = n
      <4>1. ASSUME NEW i \in 1 .. n
            PROVE  <<trail[i].call, Verdict(trail[i].decision)>>
                      \in Calls \X {"none", "allow", "deny"}
        <5>1. trail[i] \in AuditRecords
          BY <1>t, ElementOfSeq, Zenon
        <5>2. trail[i].call \in Calls
          BY <5>1, Zenon DEF AuditRecords
        <5> QED  BY <5>2, Zenon DEF Verdict
      <4> QED  BY <4>1, <2>a DEF Verdicted
    <3> QED  BY <3>1, <2>a, <2>r DEF Verdicted
  <2>3. Verdict(decision[c]) # "none"
    BY <2>1, <1>i, Zenon DEF Decided, Verdict, After
  <2>4. \A i \in 1 .. n : Verdicted[i] # <<c, Verdict(decision[c])>>
    <3>1. Records(c) = {}
      BY <2>1, <1>i, Zenon DEF Audited, After
    <3> QED  BY <3>1, Zenon DEF Records, Verdicted
  <2>5. Len(Verdicted) = n
    BY <2>a DEF Verdicted
  <2>6. Gate!Record(c)
    BY <2>1, <2>2, <2>3, <2>4, <2>5, Zenon DEF Gate!Record, Gate!Recorded, Verdicted
  <2> QED  BY <2>6, Zenon DEF Gate!Next
<1>8. ASSUME NEW c \in Calls, Run(c) PROVE [Gate!Next]_(Gate!vars)
  <2>1. /\ pc[c] = "enforce" /\ Action(decision[c]) # "deny" /\ ran' = ran \cup {c}
        /\ UNCHANGED <<granted, decision, trail>>
    BY <1>8, Zenon DEF Run
  <2>2. Verdict(decision[c]) = "allow" /\ c \notin ran
    BY <2>1, <1>i, Zenon DEF Decided, Verdict, After
  <2>3. PICK i \in Records(c) : trail[i].decision = decision[c]
    BY <2>1, <1>i, Zenon DEF Audited, After
  <2>4. i \in 1 .. Len(trail) /\ Verdicted[i] = <<c, Verdict(decision[c])>>
    BY <2>3, Zenon DEF Records, Verdicted
  <2>5. Len(Verdicted) = Len(trail)
    BY <1>t, LenProperties DEF Verdicted
  <2>6. Gate!Run(c)
    BY <2>1, <2>2, <2>4, <2>5, Zenon DEF Gate!Run, Gate!Recorded, Verdicted
  <2> QED  BY <2>6, Zenon DEF Gate!Next
<1> QED
  BY <1>1, <1>2, <1>3, <1>4, <1>5, <1>6, <1>7, <1>8, Zenon DEF Next

(* The audited tool client implements the fail-closed gate: no tool is run *)
(* that its authority did not grant or that the audit trail does not show, *)
(* whatever the proxy child prints and however it exits.                   *)
THEOREM GateRefinement == Spec => ImplementsFailClosed
<1>1. Init => Gate!Init
  <2> SUFFICES ASSUME Init PROVE Gate!Init
    BY Zenon
  <2>1. Verdicted = <<>>
    BY DEF Init, Verdicted
  <2>2. Verdicts = [c \in Calls |-> "none"]
    BY Zenon DEF Init, Verdicts, Verdict
  <2> QED  BY <2>1, <2>2, Zenon DEF Gate!Init, Init, Verdicted, Verdicts
<1>2. TypeOK /\ GateInv /\ [Next]_vars => [Gate!Next]_(Gate!vars)
  BY TypeStep, GateStep, Zenon
<1> QED  BY <1>1, <1>2, GateInvariant, PTL DEF Spec, ImplementsFailClosed, Gate!Spec

-----------------------------------------------------------------------------
(* The proxy of the harness *)

(* The child stop() waits for is the one that is held, unless start() has  *)
(* put another in its place since; so that it is none but such a child     *)
(* that stop() may still find running when it clears _process.             *)
ProxyInv ==
    /\ ProxyIsHeld /\ 0 \notin alive /\ spawned \in Nat
    /\ stopping \in {"waiting", "reaping"} => awaited = handle \/ handle \in during
    /\ stopping = "clearing" => handle \notin alive \/ handle \in during

LEMMA ProxyNext == ProxyInv /\ [HarnessNext]_harnessVars => ProxyInv'
<1>. SUFFICES ASSUME ProxyInv, [HarnessNext]_harnessVars PROVE ProxyInv'
  BY Zenon
<1>. USE DEF ProxyInv, ProxyIsHeld, IsRunning
<1>1. CASE UNCHANGED proxy
  BY <1>1, Zenon DEF proxy
<1>2. CASE StartProxy
  <2>1. /\ alive \subseteq during /\ alive' = alive \cup {spawned + 1}
        /\ handle' = spawned + 1 /\ spawned' = spawned + 1 /\ stopping' = stopping
        /\ during' = IF stopping = "no" THEN during ELSE during \cup {spawned + 1}
    BY <1>2, Zenon DEF StartProxy
  <2>2. spawned + 1 \in Nat /\ spawned + 1 # 0
    OBVIOUS
  <2>. QED  BY <2>1, <2>2, Zenon
<1>3. CASE StopProxy
  BY <1>3, Zenon DEF StopProxy
<1>4. CASE WaitProxy
  <2>1. CASE WaitBegins
    BY <2>1, Zenon DEF WaitBegins
  <2>2. CASE WaitEnds
    BY <2>2, Zenon DEF WaitEnds
  <2>3. CASE ClearProxy
    BY <2>3, Zenon DEF ClearProxy
  <2>. QED  BY <1>4, <2>1, <2>2, <2>3, Zenon DEF WaitProxy
<1>5. CASE ChildExits
  BY <1>5, Zenon DEF ChildExits
<1>. QED
  BY <1>1, <1>2, <1>3, <1>4, <1>5, ZenonT(30)
  DEF HarnessNext, SyncStep, Refuse, SkipSync, Put, OtherPut, Rotate, Caller,
      BeginCall, NotDelivered, BreaksOff, TimesOut, RouteAnswers, harnessVars

(* No order of start, stop and exits leaves a child behind that nobody     *)
(* holds, other than one that was started while a stop was under way, for  *)
(* any number of children.                                                 *)
THEOREM NoProxyLeft == HarnessSpec => []ProxyIsHeld
<1>1. HarnessInit => ProxyInv
  BY DEF HarnessInit, ProxyInv, ProxyIsHeld
<1>2. ProxyInv => ProxyIsHeld
  BY Zenon DEF ProxyInv
<1>. QED  BY <1>1, <1>2, ProxyNext, PTL DEF HarnessSpec

-----------------------------------------------------------------------------
(* Registration *)

(* What is under way when the sync gives up is this harness's manifest.    *)
SyncInv ==
    /\ ServesOnlyRegistered
    /\ \A m \in late : m.tools # <<>>

LEMMA SyncNext == SyncInv /\ [HarnessNext]_harnessVars => SyncInv'
<1>. SUFFICES ASSUME SyncInv, [HarnessNext]_harnessVars PROVE SyncInv'
  OBVIOUS
<1>. USE DEF SyncInv, ServesOnlyRegistered
<1>s. setup' = setup => Manifest(setup') = Manifest(setup)
  BY Zenon
<1>1. CASE UNCHANGED sync
  BY <1>1, Zenon DEF sync
<1>2. CASE Refuse
  BY <1>2, Zenon DEF Refuse
<1>3. CASE SkipSync
  BY <1>3, Zenon DEF SkipSync
<1>4. CASE Put
  BY <1>4, Zenon DEF Put, MaySend
<1>5. CASE OtherPut
  BY <1>5, HarnessAssumption, Zenon DEF OtherPut
<1>. QED
  BY <1>1, <1>2, <1>3, <1>4, <1>5, ZenonT(30)
  DEF HarnessNext, SyncStep, StartProxy, StopProxy, WaitProxy,
      WaitBegins, WaitEnds, ClearProxy, ChildExits, Rotate, Caller,
      BeginCall, NotDelivered, BreaksOff, TimesOut, RouteAnswers, harnessVars

(* A harness serves only once its manifest was applied, or without tools   *)
(* it never expected, whatever requests are lost, late or refused; and the *)
(* installation is never left without tools.                               *)
THEOREM RegisteredFirst == HarnessSpec => []ServesOnlyRegistered
<1>1. HarnessInit => SyncInv
  BY HarnessAssumption, Zenon DEF HarnessInit, SyncInv, ServesOnlyRegistered
<1>2. SyncInv => ServesOnlyRegistered
  BY Zenon DEF SyncInv
<1>. QED  BY <1>1, <1>2, SyncNext, PTL DEF HarnessSpec

-----------------------------------------------------------------------------
(* What a manifest file is registered with *)

(* The registered form of an entry loses its parameters and nothing else   *)
(* the parser looks at.                                                    *)
LEMMA EntryRoundTrip ==
    ASSUME NEW t \in Entries, ToolParses(t)
    PROVE  LET wire == ToWire(ParseTool(t)) IN
           /\ wire \in Entries /\ ToolParses(wire) /\ wire.name = t.name
           /\ ParseTool(wire) = [ParseTool(t) EXCEPT !.parameters = "empty"]
<1>. DEFINE p == ParseTool(t)
            wire == ToWire(p)
<1>1. /\ p \in Entries /\ p.enabled # "absent"
      /\ \A f \in DOMAIN t \ {"enabled", "parameters"} : p[f] = t[f]
  BY ZenonT(30) DEF ParseTool, Entries
<1>2. /\ wire \in Entries /\ wire.parameters = "absent"
      /\ wire = [p EXCEPT !.parameters = "absent"]
  BY <1>1, Zenon DEF ToWire, Entries
<1>3. /\ wire.typed = t.typed /\ wire.name = t.name /\ wire.description = t.description
      /\ wire.service = t.service /\ wire.source = t.source
      /\ wire.operation_class = t.operation_class /\ wire.route = t.route
      /\ wire.route_fields = t.route_fields
      /\ wire.required_capabilities = t.required_capabilities
      /\ wire.resource_types = t.resource_types
  BY Zenon DEF ParseTool, ToWire, Entries
<1>4. ToolParses(wire)
  BY <1>3, Zenon DEF ToolParses, RouteParses, ResourceTypesParse, IsHarness
<1>5. ParseTool(wire) = [p EXCEPT !.parameters = "empty"]
  <2>. HIDE DEF p, wire
  <2>1. wire.enabled = p.enabled /\ p.enabled # "absent" /\ wire.parameters = "absent"
    BY <1>1, <1>2, Zenon DEF Entries
  <2>2. ParseTool(wire) = [wire EXCEPT !.enabled = p.enabled, !.parameters = "empty"]
    BY <2>1, Zenon DEF ParseTool
  <2>. QED  BY <1>1, <1>2, <2>2, ZenonT(30) DEF Entries
<1>. QED  BY <1>2, <1>3, <1>4, <1>5, Zenon

LEMMA FileRoundTrip ==
    ASSUME NEW doc, doc.tools \in Seq(Entries), ManifestParses(doc)
    PROVE  LET put == SerializeToolSpecs(ParseManifest(doc)) IN
           /\ ManifestParses(put)
           /\ ParseManifest(put) = [i \in DOMAIN ParseManifest(doc) |->
                  [ParseManifest(doc)[i] EXCEPT !.parameters = "empty"]]
<1>. DEFINE read == ParseManifest(doc)
            put == SerializeToolSpecs(read)
<1>1. /\ DOMAIN read = DOMAIN doc.tools
      /\ \A i \in DOMAIN doc.tools : read[i] = ParseTool(doc.tools[i])
  BY Zenon DEF ParseManifest
<1>2. /\ put.form = "object" /\ put.schema = 3
      /\ DOMAIN put.tools = DOMAIN doc.tools
      /\ \A i \in DOMAIN doc.tools : put.tools[i] = ToWire(ParseTool(doc.tools[i]))
  BY <1>1, Zenon DEF SerializeToolSpecs
<1>3. ASSUME NEW i \in DOMAIN doc.tools
      PROVE  /\ ToolParses(put.tools[i]) /\ put.tools[i].name = doc.tools[i].name
             /\ ParseTool(put.tools[i]) = [read[i] EXCEPT !.parameters = "empty"]
  <2>1. doc.tools[i] \in Entries /\ ToolParses(doc.tools[i])
    BY DEF ManifestParses
  <2>. QED  BY <1>1, <1>2, <2>1, EntryRoundTrip, Zenon
<1>4. ManifestParses(put)
  BY <1>2, <1>3, ZenonT(30) DEF ManifestParses
<1>5. ParseManifest(put) = [i \in DOMAIN read |-> [read[i] EXCEPT !.parameters = "empty"]]
  BY <1>1, <1>2, <1>3, ZenonT(30) DEF ParseManifest
<1>. QED  BY <1>4, <1>5, Zenon

(* Whatever file the strict parser accepts, it accepts what the harness    *)
(* registers for it and reads the same tools from it, but for their        *)
(* parameters.                                                             *)
THEOREM RegisteredAsRead == HarnessSpec => []FileIsRegisteredAsRead
<1>1. HarnessInit => setup \in Setups
  BY Zenon DEF HarnessInit
<1>2. setup \in Setups /\ [HarnessNext]_harnessVars => (setup \in Setups)'
  BY ZenonT(30) DEF HarnessNext, SyncStep, Refuse, SkipSync, Put, OtherPut, StartProxy, StopProxy,
         WaitProxy, WaitBegins, WaitEnds, ClearProxy, ChildExits, Rotate, Caller, BeginCall,
         NotDelivered, BreaksOff, TimesOut, RouteAnswers, harnessVars, sync
<1>3. setup \in Setups => FileIsRegisteredAsRead
  <2>. SUFFICES ASSUME setup \in Setups, setup.from = "file", HasManifest(setup)
                PROVE  FileIsRegisteredAsRead
    BY Zenon DEF FileIsRegisteredAsRead
  <2>1. setup.document.tools \in Seq(Entries) /\ ManifestParses(setup.document)
    BY HarnessAssumption, Zenon DEF HasManifest
  <2>2. Manifest(setup) = SerializeToolSpecs(ParseManifest(setup.document))
    BY Zenon DEF Manifest
  <2>. QED  BY <2>1, <2>2, FileRoundTrip DEF FileIsRegisteredAsRead
<1>. QED  BY <1>1, <1>2, <1>3, PTL DEF HarnessSpec

-----------------------------------------------------------------------------
(* How often a tool runs *)

(* Only the body of a denial is raised as one, and only an object is       *)
(* returned.                                                               *)
LEMMA OutcomeOfBody ==
    ASSUME NEW r \in [status : Nat, sse : BOOLEAN, body : Bodies]
    PROVE  /\ CallTool(Interpret(r)) = "PolicyDeniedError" => r.body = "denied"
           /\ CallTool(Interpret(r)) = "result" => r.body = "object"
           /\ CallTool(Interpret(r)) \notin {"idle", "send"}
<1>1. ASSUME NEW other \in {"SessionEndedError", "MCPRouteError"}
      PROVE  /\ ErrorOf(r.body, other) = "PolicyDeniedError" => r.body = "denied"
             /\ ErrorOf(r.body, other) \notin {"idle", "send", "result", "object", "scalar", "null"}
  BY DEF ErrorOf, RouteErrors, Bodies
<1>2. ReadSSE(r.body) \in {"object", "scalar", "null", "MCPRouteError"}
      /\ (ReadSSE(r.body) = "object" => r.body = "object")
  BY Zenon DEF ReadSSE, Bodies
<1>3. CASE r.status = 401
  BY <1>1, <1>3 DEF Interpret, CallTool
<1>4. CASE r.status = 403
  BY <1>1, <1>4 DEF Interpret, CallTool
<1>5. CASE r.status \notin {401, 403} /\ r.sse
  BY <1>2, <1>5 DEF Interpret, CallTool
<1>6. CASE r.status \notin {401, 403} \cup 200 .. 299 /\ ~r.sse
  <2>1. Interpret(r) = ErrorOf(r.body, "MCPRouteError")
    <3>1. r.status # 401 /\ r.status # 403 /\ r.status \notin 200 .. 299
      BY <1>6, Zenon
    <3>. QED  BY <1>6, <3>1, ZenonT(30) DEF Interpret
  <2>. QED  BY <1>1, <2>1, Zenon DEF CallTool
<1>7. CASE r.status \in 200 .. 299 /\ ~r.sse
  <2>1. \/ r.body \in {"object", "scalar"} /\ Interpret(r) = r.body
        \/ Interpret(r) \in {"RouteError", ErrorOf(r.body, "MCPRouteError")}
    <3>1. r.status \notin {401, 403}
      BY <1>7
    <3>. QED  BY <1>7, <3>1, ZenonT(60) DEF Interpret
  <2>. QED  BY <1>1, <2>1, Zenon DEF CallTool
<1>. QED  BY <1>3, <1>4, <1>5, <1>6, <1>7

(* A call that is still to be answered has run its tool only for answers   *)
(* that broke off.                                                         *)
RunsInv ==
    /\ runs \in [Callers -> Nat] /\ broken \in [Callers -> Nat]
    /\ DOMAIN place = Callers /\ DOMAIN reply = Callers
    /\ \A c \in Callers : place[c] \in {"idle", "send"} => runs[c] <= broken[c]
    /\ RunsAreAccounted

LEMMA RunsNext == RunsInv /\ [HarnessNext]_harnessVars => RunsInv'
<1>. SUFFICES ASSUME RunsInv, [HarnessNext]_harnessVars PROVE RunsInv'
  OBVIOUS
<1>. USE DEF RunsInv, RunsAreAccounted
<1>1. CASE UNCHANGED calls
  BY <1>1, Zenon DEF calls
<1>2. ASSUME NEW c \in Callers, BeginCall(c) PROVE RunsInv'
  BY <1>2, Zenon DEF BeginCall
<1>3. ASSUME NEW c \in Callers, NotDelivered(c) PROVE RunsInv'
  BY <1>3, Zenon DEF NotDelivered, TryNext
<1>4. ASSUME NEW c \in Callers, BreaksOff(c) PROVE RunsInv'
  BY <1>4 DEF BreaksOff, TryNext
<1>5. ASSUME NEW c \in Callers, TimesOut(c) PROVE RunsInv'
  BY <1>5 DEF TimesOut
<1>6. ASSUME NEW c \in Callers, RouteAnswers(c) PROVE RunsInv'
  <2>0. PICK r \in Replies :
          /\ reply' = [reply EXCEPT ![c] = IF r.body = "object" THEN "object" ELSE "other"]
          /\ \E n \in RanFor(r.body) : runs' = [runs EXCEPT ![c] = @ + n]
          /\ place' = [place EXCEPT ![c] = CallTool(Interpret(r))]
          /\ broken' = broken
    BY <1>6, ZenonT(30) DEF RouteAnswers
  <2>1. PICK n \in RanFor(r.body) : runs' = [runs EXCEPT ![c] = @ + n]
    BY <2>0, ZenonT(30)
  <2>2. /\ r \in [status : Nat, sse : BOOLEAN, body : Bodies]
        /\ n \in {0, 1}
        /\ r.body = "denied" => n = 0
        /\ r.body = "object" => n = 1
    BY HarnessAssumption, Zenon DEF RanFor, Bodies
  <2>3. runs[c] <= broken[c]
    BY <1>6, Zenon DEF RouteAnswers
  <2>4. /\ CallTool(Interpret(r)) = "PolicyDeniedError" => n = 0
        /\ CallTool(Interpret(r)) = "result" => n = 1 /\ r.body = "object"
        /\ CallTool(Interpret(r)) \notin {"idle", "send"}
    BY <2>2, OutcomeOfBody, Zenon
  <2>. HIDE DEF RunsInv, RunsAreAccounted
  <2>5. /\ runs' \in [Callers -> Nat] /\ broken' \in [Callers -> Nat]
        /\ DOMAIN place' = Callers /\ DOMAIN reply' = Callers
    BY <2>0, <2>1, <2>2 DEF RunsInv
  <2>6. ASSUME NEW d \in Callers
        PROVE  /\ place'[d] \in {"idle", "send"} => runs'[d] <= broken'[d]
               /\ runs'[d] <= broken'[d] + 1
               /\ place'[d] = "PolicyDeniedError" => runs'[d] <= broken'[d]
               /\ place'[d] = "result" => runs'[d] > 0 /\ reply'[d] = "object"
    <3>1. CASE d = c
      <4>1. /\ place'[d] = CallTool(Interpret(r)) /\ runs'[d] = runs[c] + n
            /\ r.body = "object" => reply'[d] = "object"
            /\ broken'[d] = broken[c]
            /\ runs[c] \in Nat /\ broken[c] \in Nat
        BY <2>0, <2>1, <3>1, Zenon DEF RunsInv
      <4>. QED  BY <2>2, <2>3, <2>4, <4>1
    <3>2. CASE d # c
      <4>1. /\ place'[d] = place[d] /\ runs'[d] = runs[d]
            /\ reply'[d] = reply[d] /\ broken'[d] = broken[d]
        BY <2>0, <2>1, <3>2, Zenon DEF RunsInv
      <4>. QED  BY <4>1, Zenon DEF RunsInv, RunsAreAccounted
    <3>. QED  BY <3>1, <3>2, Zenon
  <2>. QED  BY <2>5, <2>6, Zenon DEF RunsInv, RunsAreAccounted
<1>. QED
  BY <1>1, <1>2, <1>3, <1>4, <1>5, <1>6, Zenon
  DEF HarnessNext, SyncStep, Refuse, SkipSync, Put, OtherPut, StartProxy, StopProxy,
      WaitProxy, WaitBegins, WaitEnds, ClearProxy, ChildExits, Rotate, Caller, harnessVars

(* However often transports fail, keys are rotated and answers break off,  *)
(* a tool ran at most once more than answers broke off, not once more for  *)
(* a denied call, and at least once for a call that returned its result.   *)
THEOREM RunsAccounted == HarnessSpec => []RunsAreAccounted
<1>1. HarnessInit => RunsInv
  BY DEF HarnessInit, RunsInv, RunsAreAccounted
<1>2. RunsInv => RunsAreAccounted
  BY Zenon DEF RunsInv
<1>. QED  BY <1>1, <1>2, RunsNext, PTL DEF HarnessSpec

(* The transports a call has tried, the one it is trying included; with a  *)
(* base URL there is one.                                                  *)
Tried(c) == IF cand[c] = 0 THEN 1 ELSE cand[c]

(* A tool runs at most once for each transport that was tried, of which    *)
(* there are three: no call goes back to one that has failed it.           *)
OncePerTransport == \A c \in Callers : runs[c] <= Tried(c) /\ Tried(c) <= Len(Transports)

TriesOK(c) ==
    /\ place[c] = "idle" => broken[c] = 0 /\ runs[c] = 0
    /\ place[c] = "send" => broken[c] < Tried(c)
    /\ runs[c] <= Tried(c)

TriesInv == cand \in [Callers -> 0 .. 3] /\ \A c \in Callers : TriesOK(c)

LEMMA TriesNext == RunsInv /\ TriesInv /\ [HarnessNext]_harnessVars => TriesInv'
<1>. SUFFICES ASSUME RunsInv, TriesInv, [HarnessNext]_harnessVars PROVE TriesInv'
  BY Zenon
<1>t. /\ runs \in [Callers -> Nat] /\ broken \in [Callers -> Nat]
      /\ cand \in [Callers -> 0 .. 3] /\ DOMAIN place = Callers
      /\ \A d \in Callers : place[d] = "send" => runs[d] <= broken[d]
  BY Zenon DEF RunsInv, TriesInv
<1>o. ASSUME NEW d \in Callers, cand'[d] = cand[d], runs'[d] = runs[d],
             broken'[d] = broken[d], place'[d] = place[d]
      PROVE  TriesOK(d)'
  <2>1. TriesOK(d)
    BY Zenon DEF TriesInv
  <2>. QED  BY <1>o, <2>1, Zenon DEF TriesOK, Tried
<1>1. CASE UNCHANGED calls
  BY <1>1, <1>o, Zenon DEF calls, TriesInv
<1>2. ASSUME NEW c \in Callers, BeginCall(c) PROVE TriesInv'
  <2>1. /\ place[c] = "idle" /\ runs' = runs /\ broken' = broken
        /\ \E e \in 0 .. 3 : cand' = [cand EXCEPT ![c] = e]
        /\ \E e : place' = [place EXCEPT ![c] = e] /\ e # "idle"
    <3>1. cand = [cand EXCEPT ![c] = cand[c]] /\ cand[c] \in 0 .. 3
      BY <1>t, Zenon
    <3>2. 0 \in 0 .. 3 /\ 1 \in 0 .. 3 /\ 2 \in 0 .. 3
      OBVIOUS
    <3>. QED  BY <1>2, <3>1, <3>2, ZenonT(30) DEF BeginCall
  <2>2. PICK e \in 0 .. 3 : cand' = [cand EXCEPT ![c] = e]
    BY <2>1, Zenon
  <2>3. cand' \in [Callers -> 0 .. 3] /\ place'[c] # "idle"
        /\ \A d \in Callers \ {c} : cand'[d] = cand[d] /\ place'[d] = place[d]
    BY <1>t, <2>1, <2>2, Zenon
  <2>4. TriesOK(c)'
    <3>1. broken[c] = 0 /\ runs[c] = 0
      BY <2>1, Zenon DEF TriesInv, TriesOK
    <3>. QED  BY <2>1, <2>3, <3>1 DEF TriesOK, Tried
  <2>. QED  BY <1>o, <2>1, <2>3, <2>4, Zenon DEF TriesInv
<1>3. ASSUME NEW c \in Callers, place[c] = "send",
             NEW n \in {0, 1}, runs' = [runs EXCEPT ![c] = @ + n],
             NEW m \in {0, 1}, broken' = [broken EXCEPT ![c] = @ + m], n <= m,
             TryNext(c)
      PROVE  TriesInv'
  <2>1. broken[c] < Tried(c) /\ runs[c] <= broken[c] /\ cand[c] \in 0 .. 3
        /\ broken[c] \in Nat /\ runs[c] \in Nat
    BY <1>t, <1>3, Zenon DEF TriesInv, TriesOK
  <2>2. broken'[c] = broken[c] + m /\ runs'[c] = runs[c] + n
        /\ \A d \in Callers \ {c} : broken'[d] = broken[d] /\ runs'[d] = runs[d]
    BY <1>t, <1>3, Zenon
  <2>3. CASE cand[c] \in 1 .. 2 /\ cand' = [cand EXCEPT ![c] = @ + 1] /\ place' = place
    <3>1. cand'[c] = cand[c] + 1 /\ \A d \in Callers \ {c} : cand'[d] = cand[d]
      BY <1>t, <2>3, Zenon
    <3>2. cand' \in [Callers -> 0 .. 3]
      BY <1>t, <2>3
    <3>3. TriesOK(c)'
      BY <1>3, <2>1, <2>2, <2>3, <3>1 DEF TriesOK, Tried
    <3>. QED  BY <1>o, <2>2, <2>3, <3>1, <3>2, <3>3, Zenon DEF TriesInv
  <2>4. CASE place' = [place EXCEPT ![c] = "MCPRouteError"] /\ cand' = cand
    <3>1. place'[c] = "MCPRouteError" /\ \A d \in Callers \ {c} : place'[d] = place[d]
      BY <1>t, <2>4, Zenon
    <3>2. TriesOK(c)'
      BY <2>1, <2>2, <2>4, <3>1 DEF TriesOK, Tried
    <3>. QED  BY <1>o, <1>t, <2>2, <2>4, <3>1, <3>2, Zenon DEF TriesInv
  <2>5. Len(Transports) - 1 = 2
    BY DEF Transports
  <2>. QED  BY <1>3, <2>3, <2>4, <2>5, Zenon DEF TryNext
<1>4. ASSUME NEW c \in Callers, place[c] = "send", NEW e, e \notin {"idle", "send"},
             place' = [place EXCEPT ![c] = e], UNCHANGED <<cand, broken>>,
             NEW n \in {0, 1}, runs' = [runs EXCEPT ![c] = @ + n]
      PROVE  TriesInv'
  <2>1. broken[c] < Tried(c) /\ runs[c] <= broken[c] /\ cand[c] \in 0 .. 3
        /\ broken[c] \in Nat /\ runs[c] \in Nat
    BY <1>t, <1>4, Zenon DEF TriesInv, TriesOK
  <2>2. place'[c] = e /\ runs'[c] = runs[c] + n
        /\ \A d \in Callers \ {c} : place'[d] = place[d] /\ runs'[d] = runs[d]
    BY <1>t, <1>4, Zenon
  <2>3. TriesOK(c)'
    BY <1>4, <2>1, <2>2 DEF TriesOK, Tried
  <2>. QED  BY <1>o, <1>t, <1>4, <2>2, <2>3, Zenon DEF TriesInv
<1>5. ASSUME NEW c \in Callers, NotDelivered(c) PROVE TriesInv'
  <2>1. runs' = [runs EXCEPT ![c] = @ + 0] /\ broken' = [broken EXCEPT ![c] = @ + 0]
    BY <1>t, <1>5 DEF NotDelivered
  <2>2. place[c] = "send" /\ TryNext(c) /\ 0 \in {0, 1} /\ 0 <= 0
    BY <1>5 DEF NotDelivered
  <2>. QED  BY <1>3, <2>1, <2>2, Zenon
<1>6. ASSUME NEW c \in Callers, BreaksOff(c) PROVE TriesInv'
  <2>1. PICK n \in {0, 1} : runs' = [runs EXCEPT ![c] = @ + n]
    BY <1>6, Zenon DEF BreaksOff
  <2>2. /\ place[c] = "send" /\ TryNext(c) /\ broken' = [broken EXCEPT ![c] = @ + 1]
        /\ 1 \in {0, 1} /\ n <= 1
    BY <1>6 DEF BreaksOff
  <2>. QED  BY <1>3, <2>1, <2>2, Zenon
<1>7. ASSUME NEW c \in Callers, TimesOut(c) PROVE TriesInv'
  <2>1. PICK n \in {0, 1} : runs' = [runs EXCEPT ![c] = @ + n]
    BY <1>7, Zenon DEF TimesOut
  <2>2. PICK e \in {"MCPRouteError", "HTTPError"} : place' = [place EXCEPT ![c] = e]
    BY <1>7, Zenon DEF TimesOut
  <2>3. place[c] = "send" /\ UNCHANGED <<cand, broken>> /\ e \notin {"idle", "send"}
    BY <1>7, Zenon DEF TimesOut
  <2>. QED  BY <1>4, <2>1, <2>2, <2>3, Zenon
<1>8. ASSUME NEW c \in Callers, RouteAnswers(c) PROVE TriesInv'
  <2>1. PICK r \in Replies : /\ \E n \in RanFor(r.body) : runs' = [runs EXCEPT ![c] = @ + n]
                             /\ place' = [place EXCEPT ![c] = CallTool(Interpret(r))]
    BY <1>8, ZenonT(30) DEF RouteAnswers
  <2>2. PICK n \in RanFor(r.body) : runs' = [runs EXCEPT ![c] = @ + n]
    BY <2>1, ZenonT(30)
  <2>3. /\ r \in [status : Nat, sse : BOOLEAN, body : Bodies] /\ n \in {0, 1}
    BY HarnessAssumption, Zenon DEF RanFor, Bodies
  <2>4. CallTool(Interpret(r)) \notin {"idle", "send"}
    BY <2>3, OutcomeOfBody, Zenon
  <2>5. place[c] = "send" /\ UNCHANGED <<cand, broken>>
    BY <1>8, Zenon DEF RouteAnswers
  <2>. QED  BY <1>4, <2>1, <2>2, <2>3, <2>4, <2>5, Zenon
<1>. QED
  BY <1>1, <1>2, <1>5, <1>6, <1>7, <1>8, Zenon
  DEF HarnessNext, SyncStep, Refuse, SkipSync, Put, OtherPut, StartProxy, StopProxy,
      WaitProxy, WaitBegins, WaitEnds, ClearProxy, ChildExits, Rotate, Caller, harnessVars

LEMMA TriesInvariant == HarnessSpec => [](RunsInv /\ TriesInv)
<1>1. HarnessInit => RunsInv /\ TriesInv
  BY DEF HarnessInit, RunsInv, RunsAreAccounted, TriesInv, TriesOK, Tried
<1>2. RunsInv /\ TriesInv /\ [HarnessNext]_harnessVars => (RunsInv /\ TriesInv)'
  BY RunsNext, TriesNext, Zenon
<1>. QED  BY <1>1, <1>2, PTL DEF HarnessSpec

(* For any number of callers, keys and answers, a call tries a transport   *)
(* once and its tool runs at most once for each: three times at the most,  *)
(* and once when a base URL is given.                                      *)
THEOREM TriesAreBounded == HarnessSpec => []OncePerTransport
<1>1. TriesInv => OncePerTransport
  <2>1. Len(Transports) = 3
    BY Zenon DEF Transports
  <2>. QED  BY <2>1 DEF TriesInv, TriesOK, Tried, OncePerTransport
<1>. QED  BY <1>1, TriesInvariant, PTL

-----------------------------------------------------------------------------
(* Nothing in the harness goes round *)

(* What a step may do to startup, to a call and to a stop: leave it, end   *)
(* it for good, or take it one attempt, one transport or one wait further. *)
StartupMovesOn ==
    /\ phase # "sync" => phase' = phase
    /\ phase = "sync" /\ phase' = "sync" /\ attempt' # attempt =>
          attempt' = attempt + 1 /\ attempt' < Attempts(setup)

CallMovesOn(c) ==
    /\ place[c] \notin {"idle", "send"} => place'[c] = place[c] /\ runs'[c] = runs[c]
    /\ place[c] = "send" /\ place'[c] = "send" /\ cand'[c] # cand[c] => cand'[c] = cand[c] + 1

StopMovesOn ==
    /\ stopping = "terminating" => stopping' \in {"terminating", "waiting"}
    /\ stopping = "waiting" => stopping' \in {"waiting", "killing", "clearing"}
    /\ stopping = "killing" => stopping' \in {"killing", "reaping"}
    /\ stopping = "reaping" => stopping' \in {"reaping", "clearing"}
    /\ stopping = "clearing" => stopping' \in {"clearing", "no"}

LEMMA HarnessStep ==
    RunsInv /\ TriesInv /\ [HarnessNext]_harnessVars
        => StartupMovesOn /\ StopMovesOn /\ \A c \in Callers : CallMovesOn(c)
<1>. SUFFICES ASSUME RunsInv, TriesInv, [HarnessNext]_harnessVars
              PROVE  StartupMovesOn /\ StopMovesOn /\ \A c \in Callers : CallMovesOn(c)
  BY Zenon
<1>. USE DEF sync, proxy, calls
<1>1. StartupMovesOn
  <2>1. CASE Put
    BY <2>1, Zenon DEF Put, MaySend, StartupMovesOn
  <2>2. CASE ~Put
    BY <2>2, ZenonT(30) DEF HarnessNext, SyncStep, Refuse, SkipSync, OtherPut, StartProxy,
         StopProxy, WaitProxy, WaitBegins, WaitEnds, ClearProxy, ChildExits, Rotate, Caller,
         BeginCall, NotDelivered, BreaksOff, TimesOut, RouteAnswers, harnessVars, StartupMovesOn
  <2>. QED  BY <2>1, <2>2, Zenon
<1>2. StopMovesOn
  <2>1. CASE StartProxy \/ StopProxy
    BY <2>1, Zenon DEF StartProxy, StopProxy, StopMovesOn
  <2>2. CASE WaitProxy
    BY <2>2, Zenon DEF WaitProxy, WaitBegins, WaitEnds, ClearProxy, StopMovesOn
  <2>3. CASE stopping' = stopping
    BY <2>3, Zenon DEF StopMovesOn
  <2>. QED
    BY <2>1, <2>2, <2>3, ZenonT(30) DEF HarnessNext, SyncStep, Refuse, SkipSync, Put, OtherPut,
         ChildExits, Rotate, Caller, BeginCall, NotDelivered, BreaksOff, TimesOut,
         RouteAnswers, harnessVars
<1>3. ASSUME NEW d \in Callers PROVE CallMovesOn(d)
  <2>t. DOMAIN place = Callers /\ cand \in [Callers -> 0 .. 3]
        /\ runs \in [Callers -> Nat]
    BY Zenon DEF RunsInv, TriesInv
  <2>1. CASE UNCHANGED calls
    BY <2>1, Zenon DEF CallMovesOn
  <2>2. ASSUME NEW c \in Callers, Caller(c), c # d PROVE CallMovesOn(d)
    <3>1. place'[d] = place[d] /\ cand'[d] = cand[d] /\ runs'[d] = runs[d]
      <4>1. CASE BeginCall(c)
        BY <2>t, <2>2, <4>1, Zenon DEF BeginCall
      <4>2. CASE NotDelivered(c)
        BY <2>t, <2>2, <4>2, Zenon DEF NotDelivered, TryNext
      <4>3. CASE BreaksOff(c)
        BY <2>t, <2>2, <4>3, Zenon DEF BreaksOff, TryNext
      <4>4. CASE TimesOut(c)
        BY <2>t, <2>2, <4>4, Zenon DEF TimesOut
      <4>5. CASE RouteAnswers(c)
        <5>1. PICK r \in Replies :
                /\ \E n \in RanFor(r.body) : runs' = [runs EXCEPT ![c] = @ + n]
                /\ place' = [place EXCEPT ![c] = CallTool(Interpret(r))]
          BY <4>5, ZenonT(30) DEF RouteAnswers
        <5>2. PICK n \in RanFor(r.body) : runs' = [runs EXCEPT ![c] = @ + n]
          BY <5>1, ZenonT(30)
        <5>3. cand' = cand
          BY <4>5, Zenon DEF RouteAnswers
        <5>. QED  BY <2>t, <2>2, <5>1, <5>2, <5>3, Zenon
      <4>. QED  BY <2>2, <4>1, <4>2, <4>3, <4>4, <4>5, Zenon DEF Caller
    <3>. QED  BY <3>1, Zenon DEF CallMovesOn
  <2>3. CASE BeginCall(d)
    BY <2>t, <2>3, Zenon DEF BeginCall, CallMovesOn
  <2>4. CASE NotDelivered(d) \/ BreaksOff(d)
    <3>1. place[d] = "send" /\ TryNext(d)
      BY <2>4, Zenon DEF NotDelivered, BreaksOff
    <3>. QED  BY <2>t, <3>1, Zenon DEF TryNext, CallMovesOn
  <2>5. CASE TimesOut(d) \/ RouteAnswers(d)
    BY <2>5, Zenon DEF TimesOut, RouteAnswers, CallMovesOn
  <2>. QED
    BY <2>1, <2>2, <2>3, <2>4, <2>5, Zenon
    DEF HarnessNext, SyncStep, Refuse, SkipSync, Put, OtherPut, StartProxy, StopProxy,
        WaitProxy, WaitBegins, WaitEnds, ClearProxy, ChildExits, Rotate, Caller, harnessVars
<1>. QED  BY <1>1, <1>2, <1>3, Zenon

(* What makes startup, every call and every stop come to an end: startup   *)
(* makes at most as many PUTs as it was given attempts, a call goes from a *)
(* transport to the next only and has its outcome for good, and a stop     *)
(* waits twice at most, whatever keys, children and other harnesses do.    *)
THEOREM HarnessMovesOn ==
    HarnessSpec => [][StartupMovesOn /\ StopMovesOn /\ \A c \in Callers : CallMovesOn(c)]_harnessVars
<1>1. RunsInv /\ TriesInv /\ [HarnessNext]_harnessVars =>
        [StartupMovesOn /\ StopMovesOn /\ \A c \in Callers : CallMovesOn(c)]_harnessVars
  BY HarnessStep, Zenon
<1>. QED  BY <1>1, TriesInvariant, PTL DEF HarnessSpec
=============================================================================
