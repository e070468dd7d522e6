----------------------------- MODULE EvalScore -----------------------------
(***************************************************************************)
(* The pure part of the table-test runner (python/src/evals): what a suite *)
(* file must satisfy to be loaded, what a model client puts on the wire    *)
(* and makes of an answer, which tool calls the policy of a case refuses,  *)
(* when a case has seen enough, and how its transcript is scored.          *)
(*                                                                         *)
(* A text is the set of phrases and patterns that are found in it.  The    *)
(* arguments of a call are a function from keys to values (form "object"), *)
(* text that is no JSON ("broken"), JSON that is no object ("other"), or   *)
(* an object where the code expects text ("native").                       *)
(***************************************************************************)
EXTENDS Loops, FiniteSets, Functions

None         == "none"     \* Python's None, for a name
Unrestricted == {None}     \* and for allowed_tools
Nameless     == "nameless" \* an empty name

IsList(s) == s \in Seq(Range(s))

---------------------------------------------------------------------------
(* Suites.  `shape' is what the field types and patterns of the pydantic   *)
(* models demand: known keys, right types, an id, a compiling regex.       *)

ExpectIsValid(e) ==
    /\ (DOMAIN e.args # {} \/ e.required_arg_keys # {} \/ e.forbidden_arg_keys # {})
         => e.tool \notin {"absent", "null"}
    /\ e.tool \notin e.forbidden_tools

CaseIsConsistent(declared, e) ==
    /\ e.tool \in declared \cup {"absent", "null"}
    /\ e.allowed # Unrestricted => e.allowed \subseteq declared
    /\ e.deny => e.allowed # Unrestricted /\ e.tool \notin e.allowed

SuiteIsValid(s) ==
    /\ s.file = "json" /\ s.shape
    /\ s.prompt \in {"text", "file"}
    /\ s.repeats >= 1 /\ s.cases # <<>>
    /\ IsInjective(s.tools)
    /\ IsInjective([i \in DOMAIN s.cases |-> s.cases[i].id])
    /\ \A i \in DOMAIN s.cases :
         ExpectIsValid(s.cases[i]) /\ CaseIsConsistent(Range(s.tools), s.cases[i])

(* A case of a suite file as the runner's EvalCase.  An explicit null for  *)
(* the tool and an absent key mean different things.                       *)
ToEvalCase(e, schemas) ==
    [name |-> e.id, schemas |-> schemas, allowed_tools |-> e.allowed,
     expected_tool |-> IF e.tool \in {"absent", "null"} THEN None ELSE e.tool,
     expect_no_tool_call |-> e.tool = "null",
     expected_args |-> e.args, required_arg_keys |-> e.required_arg_keys,
     forbidden_arg_keys |-> e.forbidden_arg_keys,
     forbidden_tools |-> e.forbidden_tools,
     expect_deny |-> e.deny, content |-> e.content]

LoadSuite(s) ==
    [name |-> s.suite, repeats |-> s.repeats,
     cases |-> [i \in DOMAIN s.cases |-> ToEvalCase(s.cases[i], s.schemas)]]

(* A path is the sequence of suite files it stands for: one file, or the   *)
(* sorted files of a directory.                                            *)
PathIsValid(path) ==
    /\ path # <<>>
    /\ \A i \in DOMAIN path : SuiteIsValid(path[i])
    /\ IsInjective([i \in DOMAIN path |-> path[i].suite])

LoadPath(path) == [i \in DOMAIN path |-> LoadSuite(path[i])]

LoadSuites(paths) == Join([n \in DOMAIN paths |-> LoadPath(paths[n])])

(* `--case': an id no suite has is an error, and so is nothing.            *)
CasesAreKnown(suites, ids) ==
    ids \subseteq UNION {{s.cases[i].name : i \in DOMAIN s.cases} : s \in Range(suites)}

Wanted(s, ids) == {i \in DOMAIN s.cases : s.cases[i].name \in ids}

Reduced(s, ids) == [s EXCEPT !.cases = Select(s.cases, Wanted(s, ids))]

SelectCases(suites, ids) ==
    Select([i \in DOMAIN suites |-> Reduced(suites[i], ids)],
           {i \in DOMAIN suites : Wanted(suites[i], ids) # {}})

ProfileIsValid(p) == p.known /\ p.shape /\ p.concurrency >= 1 /\ p.url

---------------------------------------------------------------------------
(* Model clients.  An answer is what the endpoint decided: text, perhaps   *)
(* cut at max_tokens, and tool calls.  Each client has its own wire format *)
(* for the conversation and its own reading of the answer; `cut' is not in *)
(* the reading, it is kept for the properties.                             *)

Message(role, calls, result) == [role |-> role, calls |-> calls, result |-> result]

AsUser(m) == IF m.role = "tool" THEN [m EXCEPT !.role = "user"] ELSE m

AnthropicWire(messages) ==
    LET kept == Select(messages, {i \in DOMAIN messages : /\ messages[i].role # "system"
                                                          /\ messages[i].calls = <<>>})
    IN  [i \in DOMAIN kept |-> AsUser(kept[i])]

(* One message for each call, whose name is looked up where it is not.     *)
OllamaEach(m) ==
    IF m.calls # <<>> THEN [i \in DOMAIN m.calls |-> Message("assistant", <<Nameless>>, None)]
                      ELSE <<AsUser(m)>>

OllamaWire(messages) == Join([i \in DOMAIN messages |-> OllamaEach(messages[i])])

Wire(backend, messages) ==
    CASE backend = "anthropic" -> AnthropicWire(messages)
      [] backend = "ollama"    -> OllamaWire(messages)
      [] OTHER                 -> messages

OpenAIReply(a) ==
    [calls |-> a.calls, text |-> a.text, cut |-> a.cut,
     finish_reason |-> IF a.cut THEN "length" ELSE "stop"]

(* Tool input arrives as an object and is turned into text.                *)
AnthropicReply(a) ==
    [calls |-> [i \in DOMAIN a.calls |-> [a.calls[i] EXCEPT !.form = "object"]],
     text |-> a.text, cut |-> a.cut,
     finish_reason |-> IF a.cut THEN "max_tokens" ELSE "end_turn"]

(* Tool input arrives as an object and stays one; an empty one is falsy,   *)
(* as an empty text is.                                                    *)
OllamaReply(a) ==
    [calls |-> [i \in DOMAIN a.calls |->
                  [a.calls[i] EXCEPT !.form = IF DOMAIN a.calls[i].args = {}
                                              THEN "object" ELSE "native"]],
     text |-> a.text, cut |-> a.cut, finish_reason |-> "stop"]

VLLMReply(a) == OpenAIReply(a)

LlamaCPPReply(a) == OpenAIReply(a)

Reply(backend, a) ==
    CASE backend = "anthropic"            -> AnthropicReply(a)
      [] backend = "ollama"               -> OllamaReply(a)
      [] backend \in {"vllm", "lmstudio"} -> VLLMReply(a)
      [] backend = "llamacpp"             -> LlamaCPPReply(a)
      [] OTHER                            -> OpenAIReply(a)

---------------------------------------------------------------------------
(* Governed calls.                                                         *)

(* policy_for: without allowed_tools there is no evaluator.                *)
Denies(c, name) == c.allowed_tools # Unrestricted /\ name \notin c.allowed_tools

(* MiddlewareImpl.execute with the policy of the case.                     *)
MiddlewareExecute(c, name) == IF Denies(c, name) THEN "denied" ELSE "ran"

(* _execute_governed: what the call comes to; json.loads of an object      *)
(* raises, and nothing on the way catches it.                              *)
ExecuteGoverned(c, call) ==
    CASE call.form = "native"             -> "raises"
      [] call.form \in {"broken", "other"} -> "invalid"
      [] OTHER                            -> MiddlewareExecute(c, call.name)

---------------------------------------------------------------------------
(* Scoring.                                                                *)

NoSchema == [properties |-> {}, required |-> {}]

ValidateToolCall(c, call) ==
    LET schema == IF call.name \in DOMAIN c.schemas THEN c.schemas[call.name] ELSE NoSchema
        keys   == DOMAIN call.args
    IN  /\ call.name = c.expected_tool
        /\ call.form = "object"
        /\ schema.properties # {} => keys \subseteq schema.properties
        /\ schema.required \subseteq keys
        /\ c.required_arg_keys \subseteq keys
        /\ c.forbidden_arg_keys \cap keys = {}
        /\ \A k \in DOMAIN c.expected_args :
             k \in keys /\ call.args[k] = c.expected_args[k]

NoChecks == [contains_all |-> {}, contains_any |-> {}, regex |-> {}, not_contains |-> {}]

CheckContent(checks, text) ==
    /\ checks.contains_all \subseteq text
    /\ checks.contains_any # {} => checks.contains_any \cap text # {}
    /\ checks.regex \subseteq text
    /\ checks.not_contains \cap text = {}

DenyIsMet(c, calls) ==
    /\ \A i \in DOMAIN calls : calls[i].name \notin c.allowed_tools => calls[i].denied
    /\ \A i \in DOMAIN calls :
         /\ calls[i].name = c.expected_tool
         /\ \A j \in 1 .. i - 1 : calls[j].name # c.expected_tool
         => ValidateToolCall(c, calls[i])

(* Mutant: only the first call is looked at for a forbidden tool.          *)
ScoreFirstCall(c, calls, text, finished) ==
    /\ calls # <<>> => calls[1].name \notin c.forbidden_tools
    /\ CASE c.expect_deny                                    -> DenyIsMet(c, calls)
         [] ~c.expect_deny /\ c.expect_no_tool_call          -> calls = <<>>
         [] ~c.expect_deny /\ ~c.expect_no_tool_call /\ c.expected_tool # None ->
              calls # <<>> /\ ValidateToolCall(c, calls[1]) /\ ~calls[1].denied
         [] OTHER                                            -> TRUE
    /\ c.content # NoChecks => finished /\ CheckContent(c.content, text)

ScoreTableCase(c, calls, text, finished) ==
    /\ \A i \in DOMAIN calls : calls[i].name \notin c.forbidden_tools
    /\ CASE c.expect_deny                                    -> DenyIsMet(c, calls)
         [] ~c.expect_deny /\ c.expect_no_tool_call          -> calls = <<>>
         [] ~c.expect_deny /\ ~c.expect_no_tool_call /\ c.expected_tool # None ->
              calls # <<>> /\ ValidateToolCall(c, calls[1]) /\ ~calls[1].denied
         [] OTHER                                            -> TRUE
    /\ c.content # NoChecks => finished /\ CheckContent(c.content, text)

(* Mutant: a refusal does not limit the turns that follow.                 *)
AfterRefusalGoOn(c, calls) ==
    IF c.expect_deny \/ c.content # NoChecks THEN "continue" ELSE "stop"

AfterToolTurn(c, calls) ==
    IF c.expect_deny
    THEN IF \E i \in DOMAIN calls : calls[i].denied THEN "one-more-turn" ELSE "continue"
    ELSE IF c.content # NoChecks THEN "continue" ELSE "stop"

---------------------------------------------------------------------------
(* Counting: every repeat of a case is a run.                              *)

(* Mutant: a case counts once, whatever its repeats.                       *)
CombineIntoOne(runs) ==
    [runs    |-> 1,
     passed  |-> IF \A i \in DOMAIN runs : runs[i].success THEN 1 ELSE 0,
     errored |-> IF \E i \in DOMAIN runs : runs[i].errored THEN 1 ELSE 0]

CombineRepeats(runs) ==
    [runs    |-> Cardinality(DOMAIN runs),
     passed  |-> Cardinality({i \in DOMAIN runs : runs[i].success}),
     errored |-> Cardinality({i \in DOMAIN runs : runs[i].errored})]

SuiteResult(cases) ==
    LET total  == Sum([i \in DOMAIN cases |-> cases[i].runs])
        passed == Sum([i \in DOMAIN cases |-> cases[i].passed])
        errors == Sum([i \in DOMAIN cases |-> cases[i].errored])
    IN  [total |-> total, passed |-> passed, errors |-> errors,
         failed |-> total - passed - errors]

(* pass_rate >= threshold, the threshold a percentage; an empty suite has  *)
(* a pass rate of 0.                                                       *)
Meets(r, threshold) ==
    IF r.total = 0 THEN threshold <= 0 ELSE r.passed * 100 >= threshold * r.total

(* Mutant: one suite that meets the threshold is enough.                   *)
ExitCodeOfBest(rs, threshold) == IF \E i \in DOMAIN rs : Meets(rs[i], threshold) THEN 0 ELSE 1

ExitCode(rs, threshold) == IF \A i \in DOMAIN rs : Meets(rs[i], threshold) THEN 0 ELSE 1
=============================================================================
