------------------------------ MODULE ToolGate ------------------------------
(***************************************************************************)
(* AuditedToolClient.Execute over a policy evaluator: none, the kei-proxy  *)
(* evaluator with its subprocess client, or one that decides locally (the  *)
(* policy bundle, or the harness's own).  Calls run in several threads or  *)
(* coroutines, a running tool may delegate further calls, and the          *)
(* evaluator and the auditor may be replaced at any time.                  *)
(*                                                                         *)
(* The answer of `kei-proxy authorize` is kept down to what tells two      *)
(* outcomes apart: how the child ended, its exit code, what it printed and *)
(* the word it decided with.  Resources, digests and reasons are left out. *)
(***************************************************************************)
EXTENDS Naturals, Sequences, FiniteSets

CONSTANTS
    Calls,         \* tool calls
    Humans,        \* people who make requests
    Auditors,      \* audit sinks
    Evaluators     \* the kinds of evaluator the harness installs

NoCall == "no call"

ASSUME GateAssumption ==
    /\ Evaluators \subseteq {"none", "proxy", "local"}
    /\ NoCall \notin Calls

VARIABLES
    evaluator, auditor,   \* what the client is configured with
    pc,                   \* where a call is
    parent,               \* the call that delegated it
    ctx,                  \* its CallerContext: subject and depth
    answer,               \* what its evaluator was told
    decision,             \* the reason class of the decision on it
    granted,              \* history: calls granted by their authority
    trail,                \* history: audit records in order, of all auditors
    ran                   \* history: calls whose tool was started

config == <<evaluator, auditor>>
call   == <<parent, ctx, answer, decision>>
vars   == <<config, pc, call, granted, trail, ran>>

Nobody == [subject |-> "nobody", depth |-> 0]
NoAnswer == [how |-> "none", exit |-> 0, out |-> "none", says |-> "none"]

(* How the proxy child may end.  A decision is printed in an object only.  *)
Words == {"allow", "permit", "deny", "enrollment_required", "", "other", "absent"}

ProxyAnswers ==
    [how : {"missing_token", "proxy_unavailable", "pin_mismatch",
            "proxy_timeout", "signal", "client_error"},
     exit : {0}, out : {"none"}, says : {"none"}]
    \cup [how : {"exited"}, exit : {0, 1, 2},
          out : {"empty", "not_json", "not_object"}, says : {"none"}]
    \cup [how : {"exited"}, exit : {0, 1, 2}, out : {"object"}, says : Words]

(* What an evaluator comes to by itself; "raise" is an exception of its    *)
(* own, which for the proxy's is one of reading the arguments, before it   *)
(* asks the proxy and outside of what it catches.                          *)
LocalAnswers ==
    [how : {"local"}, exit : {0}, out : {"none"},
     says : {"allow", "filter", "deny", "raise"}]

AnswersOf(e) ==
    CASE e = "proxy" -> ProxyAnswers \cup {a \in LocalAnswers : a.says = "raise"}
      [] e = "none"  -> {a \in LocalAnswers : a.says = "allow"}
      [] e = "local" -> LocalAnswers

Classes == {"none", "allow", "filter", "deny", "enrollment_required",
            "unknown_decision", "no_decision", "malformed_response",
            "empty_response", "proxy_error", "exit_mismatch",
            "proxy_unavailable", "proxy_timeout", "missing_token",
            "pin_mismatch"}

Contexts == [subject : Humans \cup {"nobody"}, depth : Nat]

AuditRecords == [call : Calls, auditor : Auditors, decision : Classes, ctx : Contexts]

Places == {"idle", "evaluate", "answered", "record", "enforce", "running",
           "done", "denied", "raised"}

TypeOK ==
    /\ evaluator \in Evaluators /\ auditor \in Auditors
    /\ pc \in [Calls -> Places]
    /\ parent \in [Calls -> Calls \cup {NoCall}]
    /\ ctx \in [Calls -> Contexts]
    /\ answer \in [Calls -> ProxyAnswers \cup LocalAnswers \cup {NoAnswer}]
    /\ decision \in [Calls -> Classes]
    /\ granted \subseteq Calls /\ ran \subseteq Calls
    /\ trail \in Seq(AuditRecords)

Init ==
    /\ evaluator \in Evaluators /\ auditor \in Auditors
    /\ pc = [c \in Calls |-> "idle"] /\ parent = [c \in Calls |-> NoCall]
    /\ ctx = [c \in Calls |-> Nobody] /\ answer = [c \in Calls |-> NoAnswer]
    /\ decision = [c \in Calls |-> "none"]
    /\ granted = {} /\ ran = {} /\ trail = <<>>

Goto(c, place) == pc' = [pc EXCEPT ![c] = place]

-----------------------------------------------------------------------------
(* Configuration *)

WithPolicy(e) ==
    /\ e # evaluator /\ evaluator' = e
    /\ UNCHANGED <<auditor, pc, call, granted, trail, ran>>

(* Records written before the swap stay behind. *)
WithAuditor(a) ==
    /\ a # auditor /\ auditor' = a
    /\ UNCHANGED <<evaluator, pc, call, granted, trail, ran>>

-----------------------------------------------------------------------------
(* The call enters *)

(* A request of a human: the context is built from the user id.  A call    *)
(* with neither func nor an executor raises TypeError first and is none.   *)
Enter(c, h) ==
    /\ pc[c] = "idle"
    /\ ctx' = [ctx EXCEPT ![c] = [subject |-> h, depth |-> 0]]
    /\ Goto(c, "evaluate")
    /\ UNCHANGED <<config, parent, answer, decision, granted, trail, ran>>

(* Mutant: the delegated call names the delegating call, not the human. *)
DelegateAnonymous(c, d) ==
    /\ pc[c] = "idle" /\ pc[d] = "running"
    /\ parent' = [parent EXCEPT ![c] = d]
    /\ ctx' = [ctx EXCEPT ![c] = [subject |-> "nobody", depth |-> ctx[d].depth + 1]]
    /\ Goto(c, "evaluate")
    /\ UNCHANGED <<config, answer, decision, granted, trail, ran>>

(* The running tool of d spawns a subagent, whose context is delegated. *)
Delegate(c, d) ==
    /\ pc[c] = "idle" /\ pc[d] = "running"
    /\ parent' = [parent EXCEPT ![c] = d]
    /\ ctx' = [ctx EXCEPT ![c] = [subject |-> ctx[d].subject,
                                  depth |-> ctx[d].depth + 1]]
    /\ Goto(c, "evaluate")
    /\ UNCHANGED <<config, answer, decision, granted, trail, ran>>

-----------------------------------------------------------------------------
(* Evaluation *)

Affirmative == {"permit", "allow"}

(* What it means for an authority to grant a call. *)
Grants(a) ==
    \/ a.how = "local" /\ a.says \in {"allow", "filter"}
    \/ a.how = "exited" /\ a.exit = 0 /\ a.out = "object" /\ a.says \in Affirmative

(* KeiProxyAuthorizeClient.authorize and parse_authorize_output: the class *)
(* of the error they raise, or "parsed".                                   *)
Parse(a) ==
    IF a.how \in {"signal", "client_error"} THEN "proxy_error"
    ELSE IF a.how # "exited" THEN a.how
    ELSE IF a.exit \notin {0, 1} THEN "proxy_error"
    ELSE IF a.out = "empty"
         THEN IF a.exit # 0 THEN "proxy_error" ELSE "empty_response"
    ELSE IF a.out # "object" THEN "malformed_response"
    ELSE IF a.exit # 0 /\ a.says \in Affirmative THEN "exit_mismatch"
    ELSE "parsed"

(* KeiProxyEvaluator.evaluate: from the decision word to the reason class. *)
Translate(a) ==
    IF Parse(a) # "parsed" THEN Parse(a)
    ELSE IF a.says \in Affirmative THEN "allow"
    ELSE IF a.says \in {"", "absent"} THEN "no_decision"
    ELSE IF a.says \in {"deny", "enrollment_required"} THEN a.says
    ELSE "unknown_decision"

(* The evaluator of the moment is consulted. *)
Consult(c, a) ==
    /\ pc[c] = "evaluate"
    /\ a \in AnswersOf(evaluator)
    /\ answer' = [answer EXCEPT ![c] = a]
    /\ granted' = IF Grants(a) THEN granted \cup {c} ELSE granted
    /\ Goto(c, "answered")
    /\ UNCHANGED <<config, parent, ctx, decision, trail, ran>>

Decide(c) ==
    /\ pc[c] = "answered" /\ answer[c].says # "raise"
    /\ decision' = [decision EXCEPT ![c] = IF answer[c].how = "local"
                                           THEN answer[c].says
                                           ELSE Translate(answer[c])]
    /\ answer' = [answer EXCEPT ![c] = NoAnswer]
    /\ Goto(c, "record")
    /\ UNCHANGED <<config, parent, ctx, granted, trail, ran>>

(* What the evaluator raises nothing catches. *)
EvaluateRaises(c) ==
    /\ pc[c] = "answered" /\ answer[c].says = "raise"
    /\ answer' = [answer EXCEPT ![c] = NoAnswer]
    /\ Goto(c, "raised")
    /\ UNCHANGED <<config, parent, ctx, decision, granted, trail, ran>>

-----------------------------------------------------------------------------
(* Audit and enforcement *)

Action(class) == IF class \in {"allow", "filter"} THEN class ELSE "deny"

RecordOf(c) == [call |-> c, auditor |-> auditor, decision |-> decision[c],
                ctx |-> ctx[c]]

(* Mutant: only what is allowed is written. *)
RecordAllowed(c) ==
    /\ pc[c] = "record"
    /\ trail' = IF Action(decision[c]) = "deny" THEN trail
                ELSE Append(trail, RecordOf(c))
    /\ Goto(c, "enforce")
    /\ UNCHANGED <<config, call, granted, ran>>

Record(c) ==
    /\ pc[c] = "record"
    /\ trail' = Append(trail, RecordOf(c))
    /\ Goto(c, "enforce")
    /\ UNCHANGED <<config, call, granted, ran>>

(* The auditor raises, and the call ends before its tool is run. *)
RecordRaises(c) ==
    /\ pc[c] = "record"
    /\ Goto(c, "raised")
    /\ UNCHANGED <<config, call, granted, trail, ran>>

Deny(c) ==
    /\ pc[c] = "enforce" /\ Action(decision[c]) = "deny"
    /\ Goto(c, "denied")
    /\ UNCHANGED <<config, call, granted, trail, ran>>

(* Mutant: a word that is not "deny" lets the call through. *)
RunUnlessDenied(c) ==
    /\ pc[c] = "enforce" /\ decision[c] # "deny"
    /\ ran' = ran \cup {c}
    /\ Goto(c, "running")
    /\ UNCHANGED <<config, parent, ctx, answer, decision, granted, trail>>

Run(c) ==
    /\ pc[c] = "enforce" /\ Action(decision[c]) # "deny"
    /\ ran' = ran \cup {c}
    /\ Goto(c, "running")
    /\ UNCHANGED <<config, parent, ctx, answer, decision, granted, trail>>

ToolReturns(c) ==
    /\ pc[c] = "running"
    /\ Goto(c, "done")
    /\ UNCHANGED <<config, call, granted, trail, ran>>

-----------------------------------------------------------------------------
Next ==
    \/ \E e \in Evaluators : WithPolicy(e)
    \/ \E a \in Auditors : WithAuditor(a)
    \/ \E c \in Calls :
          \/ \E h \in Humans : Enter(c, h)
          \/ \E d \in Calls : Delegate(c, d)
          \/ \E a \in ProxyAnswers \cup LocalAnswers : Consult(c, a)
          \/ Decide(c) \/ EvaluateRaises(c) \/ Record(c) \/ RecordRaises(c)
          \/ Deny(c) \/ Run(c) \/ ToolReturns(c)

Spec == Init /\ [][Next]_vars

-----------------------------------------------------------------------------
(* Properties *)

Records(c) == {i \in 1 .. Len(trail) : trail[i].call = c}

(* AuditedToolClient with every evaluator implements the fail-closed gate: *)
(* a tool runs only when its authority granted it and only after that      *)
(* verdict is in the audit trail.                                          *)
Verdict(class) == IF class = "none" THEN "none"
                  ELSE IF Action(class) = "deny" THEN "deny" ELSE "allow"

Gate == INSTANCE FailClosed WITH
            verdict <- [c \in Calls |-> Verdict(decision[c])],
            trail <- [i \in 1 .. Len(trail) |->
                         <<trail[i].call, Verdict(trail[i].decision)>>]

ImplementsFailClosed == Gate!Spec

(* A call that got past the evaluator and the auditor is in the trail      *)
(* exactly once, with the decision that was enforced and the context it    *)
(* was made in, whichever evaluator and auditor were swapped in meanwhile. *)
OneRecordEach ==
    \A c \in Calls : pc[c] \in {"enforce", "running", "done", "denied"} =>
        \E i \in Records(c) : /\ Records(c) = {i}
                              /\ trail[i].decision = decision[c]
                              /\ trail[i].ctx = ctx[c]

(* However deep the delegation, every audit record names the human whose   *)
(* request the chain of calls began with, and counts the hops.             *)
RecordsNameTheHuman ==
    \A i \in 1 .. Len(trail) :
        LET c == trail[i].call IN
        /\ trail[i].ctx.subject \in Humans
        /\ parent[c] # NoCall => /\ trail[i].ctx.subject = ctx[parent[c]].subject
                                 /\ trail[i].ctx.depth = ctx[parent[c]].depth + 1
                                 /\ \E j \in 1 .. i - 1 : trail[j].call = parent[c]

(* What these rest on.  A call is decided, recorded and run in this order, *)
(* a decision that lets it run was granted, and a context does not change  *)
(* once the call has entered.                                              *)
Before == {"idle", "evaluate", "answered"}
After  == {"enforce", "running", "done", "denied"}

Decided(c) ==
    /\ pc[c] \in Before => decision[c] = "none"
    /\ pc[c] \in After \cup {"record"} => decision[c] # "none"
    /\ c \in ran <=> pc[c] \in {"running", "done"}

Granted(c) ==
    /\ pc[c] = "answered" => answer[c] # NoAnswer
    /\ pc[c] = "answered" /\ Grants(answer[c]) => c \in granted
    /\ Verdict(decision[c]) = "allow" => c \in granted

Audited(c) ==
    IF pc[c] \in After
    THEN \E i \in Records(c) : /\ Records(c) = {i}
                               /\ trail[i].decision = decision[c]
                               /\ trail[i].ctx = ctx[c]
    ELSE Records(c) = {}

Attributed(c) ==
    /\ pc[c] = "idle" => parent[c] = NoCall
    /\ pc[c] # "idle" => ctx[c].subject \in Humans
    /\ parent[c] # NoCall => /\ pc[parent[c]] \in {"running", "done"}
                             /\ ctx[c].subject = ctx[parent[c]].subject
                             /\ ctx[c].depth = ctx[parent[c]].depth + 1

Chained ==
    \A i \in 1 .. Len(trail) :
        parent[trail[i].call] # NoCall =>
            \E j \in 1 .. i - 1 : trail[j].call = parent[trail[i].call]

GateInv ==
    /\ \A c \in Calls : Decided(c) /\ Granted(c) /\ Audited(c) /\ Attributed(c)
    /\ Chained

=============================================================================
