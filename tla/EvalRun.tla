------------------------------ MODULE EvalRun ------------------------------
(***************************************************************************)
(* A run of the evaluation program (python -m evals.main).  The main       *)
(* thread loads the suites and the profile, probes the endpoint and hands  *)
(* the runs of one suite after another to a pool of threads; a thread      *)
(* talks to the model, turn by turn, through the policy of the case, and   *)
(* appends a line to the transcripts.  Then the benchmark is written and   *)
(* the program exits.  Without --suite the program runs the legacy cases,  *)
(* one after another and model by model, without a policy.                 *)
(*                                                                         *)
(* A group is what is run between two waits: a suite, or all legacy cases  *)
(* on one model.  A unit is a case of the group and the repeat of it.      *)
(***************************************************************************)
EXTENDS EvalScore

CONSTANTS
    Commands,     \* command lines, with the files they name
    Answers,      \* what the endpoint may decide in a turn
    Threads       \* bound: threads of the pool

ASSUME EvalAssumption == Threads \in Nat \ {0}

(* The table of legacy cases names each once; --suite has an argument.     *)
ASSUME CommandsAssumption ==
    \A c \in Commands :
      IF c.legacy
      THEN /\ c.models \in Nat /\ IsList(c.cases)
           /\ IsInjective([i \in DOMAIN c.cases |-> c.cases[i].name])
           /\ \A i \in DOMAIN c.cases : c.cases[i].max_turns \in Int
      ELSE /\ c.max_turns \in Int
           /\ IsList(c.paths) /\ c.paths # <<>> /\ c.repeats \in Seq(Int)
           /\ \A n \in DOMAIN c.paths :
                /\ IsList(c.paths[n])
                /\ \A i \in DOMAIN c.paths[n] :
                     c.paths[n][i].repeats \in Int /\ IsList(c.paths[n][i].cases)

ASSUME AnswersAssumption == \A a \in Answers : ~a.raises => IsList(a.calls)

VARIABLES
    cmd,          \* the command line
    stage,        \* where the main thread is
    groups,       \* what is to be run
    at,           \* the group being run
    queue,        \* units of it that no thread has taken
    run,          \* what a thread is doing
    results,      \* results of the units of the group
    lines,        \* the transcript file
    tally,        \* the result of every finished group
    benchmark,    \* the written benchmark, or report
    exit          \* the exit code

evalVars == <<cmd, stage, groups, at, queue, run, results, lines, tally,
              benchmark, exit>>

NotYet == -1

Idle == [unit |-> <<>>]

Max2(a, b) == IF a > b THEN a ELSE b
Min2(a, b) == IF a < b THEN a ELSE b

(* --jobs, capped by the profile; the legacy loop has one thread.          *)
Jobs == IF cmd.legacy THEN 1 ELSE Max2(1, Min2(cmd.jobs, cmd.profile.concurrency))

CaseOf(unit) == groups[at].cases[unit[1]]

Units(g) ==
    [k \in 1 .. Len(g.cases) * g.repeats |->
       <<((k - 1) \div g.repeats) + 1, ((k - 1) % g.repeats) + 1>>]

EvalInit ==
    /\ cmd \in Commands
    /\ stage = "load" /\ groups = <<>> /\ at = 0 /\ queue = <<>>
    /\ run = [t \in 1 .. Threads |-> Idle]
    /\ results = <<>> /\ lines = {} /\ tally = <<>> /\ benchmark = <<>>
    /\ exit = NotYet

---------------------------------------------------------------------------
(* The main thread, up to the first case.                                  *)

CommandIsValid(c) ==
    /\ c.out
    /\ \A i \in DOMAIN c.paths : PathIsValid(c.paths[i])
    /\ c.ids # {} => CasesAreKnown(LoadSuites(c.paths), c.ids)
    /\ c.repeats # <<>> => c.repeats[1] >= 1
    /\ ProfileIsValid(c.profile)

(* What a valid command line asks for: the suites, or the legacy cases     *)
(* once for each model.                                                    *)
GroupsOf(c) ==
    IF c.legacy
    THEN [m \in 1 .. c.models |-> [name |-> m, repeats |-> 1, cases |-> c.cases]]
    ELSE LET loaded == LoadSuites(c.paths)
             chosen == IF c.ids = {} THEN loaded ELSE SelectCases(loaded, c.ids)
         IN  [i \in DOMAIN chosen |->
                IF c.repeats = <<>> THEN chosen[i]
                ELSE [chosen[i] EXCEPT !.repeats = c.repeats[1]]]

Blocked == stage' = "exit" /\ exit' = 2

Load ==
    /\ stage = "load"
    /\ IF cmd.legacy \/ CommandIsValid(cmd)
       THEN /\ groups' = GroupsOf(cmd) /\ UNCHANGED exit
            /\ stage' = IF cmd.legacy /\ cmd.models = 0 THEN "report" ELSE "preflight"
       ELSE Blocked /\ UNCHANGED groups
    /\ UNCHANGED <<cmd, at, queue, run, results, lines, tally, benchmark>>

Pending == [state |-> "pending"]
Raised  == [state |-> "raised"]

(* Hand a group to the pool, which starts with nothing taken.              *)
StartGroup(g) ==
    /\ at' = g /\ stage' = "run"
    /\ queue' = Units(groups[g])
    /\ results' = [u \in Range(Units(groups[g])) |-> Pending]

(* The probe: once for all suites, but for every model of the legacy run.  *)
(* The transcript file is emptied after it, which may raise an OSError.    *)
Preflight ==
    /\ stage = "preflight"
    /\ \/ /\ UNCHANGED exit
          /\ IF at < Len(groups) THEN StartGroup(at + 1)
             ELSE stage' = "report" /\ UNCHANGED <<at, queue, results>>
       \/ Blocked /\ UNCHANGED <<at, queue, results>>
       \/ /\ cmd.transcripts /\ ~cmd.legacy
          /\ stage' = "exit" /\ exit' = 1 /\ UNCHANGED <<at, queue, results>>
    /\ UNCHANGED <<cmd, groups, run, lines, tally, benchmark>>

---------------------------------------------------------------------------
(* A thread of the pool.                                                   *)

Opening == <<Message("system", <<>>, None), Message("user", <<>>, None)>>

(* The legacy loop counts to the bound of the case.                        *)
MaxTurns(c) == IF cmd.legacy THEN c.max_turns ELSE cmd.max_turns

Take(t) ==
    /\ t <= Jobs /\ run[t] = Idle
    /\ queue # <<>>
    /\ run' = [run EXCEPT ![t] =
         [unit |-> Head(queue), turns |-> 0, calls |-> <<>>, text |-> {},
          cut |-> FALSE, finished |-> FALSE, last_turn |-> FALSE, messages |-> Opening,
          outcome |-> IF MaxTurns(CaseOf(Head(queue))) > 0 THEN "running" ELSE "ended"]]
    /\ queue' = Tail(queue)
    /\ UNCHANGED <<cmd, stage, groups, at, results, lines, tally, benchmark, exit>>

(* The calls of a reply that are carried out: up to the first that raises. *)
Made(c, calls) ==
    Select(calls, {i \in DOMAIN calls :
                     \A j \in 1 .. i : ExecuteGoverned(c, calls[j]) # "raises"})

Entry(c, turn, call) ==
    [turn |-> turn, name |-> call.name, form |-> call.form, args |-> call.args,
     denied |-> ExecuteGoverned(c, call) = "denied", ran |-> ExecuteGoverned(c, call) = "ran"]

Recorded(c, r, calls) ==
    r.calls \o [i \in 1 .. Len(Made(c, calls)) |-> Entry(c, r.turns + 1, Made(c, calls)[i])]

Names(calls) == [i \in DOMAIN calls |-> calls[i].name]

Results(c, calls) ==
    [i \in 1 .. Len(Made(c, calls)) |->
       Message("tool", <<>>, ExecuteGoverned(c, Made(c, calls)[i]))]

(* A turn of run_table_case; what it leaves is scored in Finish.           *)
TableTurn(c, r, reply) ==
    LET s == [r EXCEPT !.turns = @ + 1] IN
    IF reply.calls = <<>>
    THEN [s EXCEPT !.text = reply.text, !.cut = reply.cut, !.outcome = "ended",
                   !.finished = reply.finish_reason # "length"]
    ELSE LET calls  == Recorded(c, r, reply.calls)
             raised == Len(Made(c, reply.calls)) < Len(reply.calls)
             next   == AfterToolTurn(c, calls)
         IN  [s EXCEPT !.calls = calls,
                       !.messages = @ \o <<Message("assistant", Names(reply.calls), None)>>
                                      \o Results(c, reply.calls),
                       !.last_turn = r.last_turn \/ next = "one-more-turn",
                       !.outcome = IF raised THEN "errored"
                                   ELSE IF \/ r.last_turn \/ next = "stop"
                                           \/ s.turns >= MaxTurns(c)
                                        THEN "ended" ELSE "running"]

(* The mocks that look into their arguments, which must then be an object. *)
ReadsArguments ==
    {"glob", "read_file", "calculator", "get_weather", "translate", "create_issue",
     "schedule_meeting", "create_pull_request", "crm_create_lead", "github.get_issue",
     "github.get_pull_request", "docs.get_document", "s3.list_objects",
     "http_api.get_record"}

Directory == "directory"

(* Two of them go to the file system: glob has no answer to a missing      *)
(* pattern, and read_file none to a path that is a directory.              *)
MockRaises(call) ==
    \/ call.form = "other" /\ call.name \in ReadsArguments
    \/ call.name = "glob" /\ (call.form # "object" \/ "pattern" \notin DOMAIN call.args)
    \/ /\ call.name = "read_file" /\ call.form = "object"
       /\ "path" \in DOMAIN call.args /\ call.args["path"] = Directory

(* A turn of run_case: decided at the first call to the expected tool; any *)
(* other call is carried out by a mock, with {} for what does not parse.   *)
LegacyTurn(c, r, reply) ==
    LET Decides(i) == reply.calls[i].name = c.expected_tool
        Raises(i)  == \/ reply.calls[i].form = "native"
                      \/ ~Decides(i) /\ MockRaises(reply.calls[i])
        stops      == {i \in DOMAIN reply.calls : Decides(i) \/ Raises(i)}
        first      == CHOOSE i \in stops : \A j \in stops : i <= j
        made       == IF stops = {} THEN Len(reply.calls) ELSE first
        s == [r EXCEPT
                !.turns = @ + 1,
                !.calls = @ \o [i \in 1 .. made |->
                    [turn |-> r.turns + 1, name |-> reply.calls[i].name,
                     form |-> reply.calls[i].form, args |-> reply.calls[i].args,
                     denied |-> FALSE, ran |-> i \notin stops]],
                !.messages = @ \o [k \in 1 .. 2 * Cardinality((1 .. made) \ stops) |->
                    IF k % 2 = 1 THEN Message("assistant", <<reply.calls[(k + 1) \div 2].name>>, None)
                                 ELSE Message("tool", <<>>, "ran")]]
    IN  IF reply.calls = <<>> THEN [s EXCEPT !.outcome = "failed"]
        ELSE IF stops # {}
        THEN [s EXCEPT !.outcome = IF ~Raises(first) /\ ValidateToolCall(c, reply.calls[first])
                                   THEN "passed" ELSE "failed"]
        ELSE [s EXCEPT !.outcome = IF s.turns >= MaxTurns(c) THEN "failed" ELSE "running"]

(* One model turn: the request, the answer or the exception, the calls.    *)
(* The legacy loop reports an exception as a failure of the model.         *)
Turn(t) ==
    /\ run[t] # Idle /\ run[t].outcome = "running"
    /\ \E a \in Answers :
         run' = [run EXCEPT ![t] =
           IF a.raises
           THEN [@ EXCEPT !.outcome = IF cmd.legacy THEN "failed" ELSE "errored"]
           ELSE LET reply == Reply(cmd.profile.backend, a)
                    c     == CaseOf(@.unit)
                IN  IF cmd.legacy THEN LegacyTurn(c, @, reply) ELSE TableTurn(c, @, reply)]
    /\ UNCHANGED <<cmd, stage, groups, at, queue, results, lines, tally, benchmark, exit>>

ResultOf(r) ==
    [state |-> "done",
     success |-> \/ r.outcome = "passed"
                 \/ /\ r.outcome = "ended" /\ ~cmd.legacy
                    /\ ScoreTableCase(CaseOf(r.unit), r.calls, r.text, r.finished),
     errored |-> r.outcome = "errored",
     calls |-> r.calls, text |-> r.text, cut |-> r.cut]

(* Mutant: an OSError of the transcript hook is swallowed with the result. *)
FinishSwallows(t) ==
    /\ run[t] # Idle /\ run[t].outcome # "running"
    /\ LET u == run[t].unit  res == ResultOf(run[t]) IN
         \/ /\ results' = [results EXCEPT ![u] = res]
            /\ lines' = IF cmd.transcripts /\ ~cmd.legacy
                        THEN lines \cup {<<at, u, res.success, res.errored>>} ELSE lines
         \/ /\ cmd.transcripts /\ ~cmd.legacy
            /\ UNCHANGED <<results, lines>>
    /\ run' = [run EXCEPT ![t] = Idle]
    /\ UNCHANGED <<cmd, stage, groups, at, queue, tally, benchmark, exit>>

(* The result, and the line of the transcript hook; an OSError of the hook *)
(* is the outcome of the unit.                                             *)
Finish(t) ==
    /\ run[t] # Idle /\ run[t].outcome # "running"
    /\ LET u == run[t].unit  res == ResultOf(run[t]) IN
         \/ /\ results' = [results EXCEPT ![u] = res]
            /\ lines' = IF cmd.transcripts /\ ~cmd.legacy
                        THEN lines \cup {<<at, u, res.success, res.errored>>} ELSE lines
         \/ /\ cmd.transcripts /\ ~cmd.legacy
            /\ results' = [results EXCEPT ![u] = Raised] /\ UNCHANGED lines
    /\ run' = [run EXCEPT ![t] = Idle]
    /\ UNCHANGED <<cmd, stage, groups, at, queue, tally, benchmark, exit>>

---------------------------------------------------------------------------
(* The main thread, after the pool.                                        *)

(* list(pool.map(...)) meets the results in the order of the units.        *)
Raises(g) ==
    \E k \in DOMAIN Units(g) :
      /\ results[Units(g)[k]] = Raised
      /\ \A j \in 1 .. k - 1 : results[Units(g)[j]] # Pending

(* It cancels what no thread has taken; leaving the pool waits for the     *)
(* rest, and the exception ends the program.                               *)
Cancel ==
    /\ stage = "run" /\ Raises(groups[at])
    /\ queue' = <<>> /\ stage' = "unwind"
    /\ UNCHANGED <<cmd, groups, at, run, results, lines, tally, benchmark, exit>>

Unwind ==
    /\ stage = "unwind" /\ \A t \in 1 .. Threads : run[t] = Idle
    /\ stage' = "exit" /\ exit' = 1
    /\ UNCHANGED <<cmd, groups, at, queue, run, results, lines, tally, benchmark>>

(* by_case: the results of a case are found again by its name.             *)
Outcomes(g) ==
    [i \in DOMAIN g.cases |->
       CombineRepeats([u \in {v \in DOMAIN results :
                                g.cases[v[1]].name = g.cases[i].name} |-> results[u]])]

EndGroup ==
    /\ stage = "run"
    /\ \A u \in DOMAIN results : results[u].state = "done"
    /\ tally' = Append(tally, SuiteResult(Outcomes(groups[at])))
    /\ IF at = Len(groups) THEN stage' = "report" /\ UNCHANGED <<at, queue, results>>
       ELSE IF cmd.legacy THEN stage' = "preflight" /\ UNCHANGED <<at, queue, results>>
       ELSE StartGroup(at + 1)
    /\ UNCHANGED <<cmd, groups, run, lines, benchmark, exit>>

(* write_benchmark or save_report, which an OSError may stop before or     *)
(* after the file that counts.  The legacy run exits with 0 whatever the   *)
(* models did.                                                             *)
Report ==
    /\ stage = "report"
    /\ stage' = "exit"
    /\ \/ benchmark' = tally
          /\ exit' \in IF cmd.legacy THEN {0} ELSE {1, ExitCode(tally, cmd.threshold)}
       \/ exit' = 1 /\ UNCHANGED benchmark
    /\ UNCHANGED <<cmd, groups, at, queue, run, results, lines, tally>>

Worker(t) == Take(t) \/ Turn(t) \/ Finish(t)

Main == Load \/ Preflight \/ Cancel \/ Unwind \/ EndGroup \/ Report

EvalNext == Main \/ \E t \in 1 .. Threads : Worker(t)

EvalFairness == WF_evalVars(Main) /\ \A t \in 1 .. Threads : WF_evalVars(Worker(t))

EvalSpec == EvalInit /\ [][EvalNext]_evalVars /\ EvalFairness

---------------------------------------------------------------------------
EvalTypeOK ==
    /\ cmd \in Commands
    /\ stage \in {"load", "preflight", "run", "unwind", "report", "exit"}
    /\ at \in 0 .. Len(groups) /\ Len(tally) <= at
    /\ exit \in {NotYet, 0, 1, 2} /\ (exit = NotYet <=> stage # "exit")
    /\ \A t \in 1 .. Threads : run[t] # Idle =>
         /\ t <= Jobs /\ run[t].unit \in DOMAIN results
         /\ run[t].turns <= Max2(0, MaxTurns(CaseOf(run[t].unit)))

(* Every check on the reply holds of this text.                            *)
ContentHolds(checks, text) ==
    /\ \A p \in checks.contains_all \cup checks.regex : p \in text
    /\ checks.contains_any = {} \/ \E p \in checks.contains_any : p \in text
    /\ \A p \in checks.not_contains : p \notin text

(* The backends whose client does not tell a reply cut at max_tokens by    *)
(* the reason "length", the one that the runner looks for.                 *)
HidesCut == {"anthropic", "ollama"}

(* A run that passed earned it, told from what was carried out and not     *)
(* from what the scoring looked at: no tool outside allowed_tools ran, no  *)
(* forbidden tool was called in any turn, an expected tool was the first   *)
(* call and ran, a case for no tool saw none run, and where the reply is   *)
(* checked all four kinds of check hold of its text, which was not cut at  *)
(* max_tokens unless the backend is one that hides it.                     *)
EvalPassIsEarned ==
    \A u \in DOMAIN results :
      LET c == CaseOf(u)  res == results[u] IN
      res.state = "done" /\ ~cmd.legacy =>
        /\ \A i \in DOMAIN res.calls : res.calls[i].ran =>
             c.allowed_tools = Unrestricted \/ res.calls[i].name \in c.allowed_tools
        /\ res.success =>
             /\ \A i \in DOMAIN res.calls : res.calls[i].name \notin c.forbidden_tools
             /\ c.expected_tool # None /\ ~c.expect_deny =>
                  res.calls # <<>> /\ res.calls[1].ran /\ res.calls[1].name = c.expected_tool
             /\ c.expect_no_tool_call /\ ~c.expect_deny =>
                  \A i \in DOMAIN res.calls : ~res.calls[i].ran
             /\ c.content # NoChecks =>
                  /\ ContentHolds(c.content, res.text)
                  /\ res.cut => cmd.profile.backend \in HidesCut

(* The first refusal of a deny case is fed back once.  A case that is      *)
(* scored has had exactly one turn after it, unless --max-turns were used  *)
(* up; it never has a second; and the refusal is in the conversation that  *)
(* the client of every backend sends in that turn.                         *)
EvalDenyIsFedBack ==
    \A t \in 1 .. Threads : run[t] # Idle /\ ~cmd.legacy =>
      LET r == run[t]
          IsFirst(i) == r.calls[i].denied /\ \A j \in 1 .. i - 1 : ~r.calls[j].denied
      IN  CaseOf(r.unit).expect_deny =>
            \A i \in DOMAIN r.calls : IsFirst(i) =>
              /\ r.turns <= r.calls[i].turn + 1
              /\ r.outcome = "ended" => \/ r.turns = r.calls[i].turn + 1
                                        \/ r.turns >= MaxTurns(CaseOf(r.unit))
              /\ \E m \in Range(Wire(cmd.profile.backend, r.messages)) : m.result = "denied"

(* Every run is counted once, in the group it belongs to, as passed,       *)
(* failed or errored, whichever thread ran it and in whatever order they   *)
(* ended, and the transcripts tell the same numbers.                       *)
CountsAgree ==
    \A g \in DOMAIN tally :
      LET told == {l \in lines : l[1] = g}
      IN  /\ tally[g].total = Len(Units(groups[g]))
          /\ tally[g].passed >= 0 /\ tally[g].failed >= 0 /\ tally[g].errors >= 0
          /\ tally[g].total = tally[g].passed + tally[g].failed + tally[g].errors
          /\ cmd.transcripts /\ ~cmd.legacy =>
               /\ Cardinality(told) = tally[g].total
               /\ Cardinality({l \in told : l[3]}) = tally[g].passed
               /\ Cardinality({l \in told : l[4]}) = tally[g].errors

(* What the program reports is so.  The numbers of a report and of its     *)
(* transcripts are those of the runs; the exit code of a suite run is 0    *)
(* only when every suite asked for was run, written down and met the       *)
(* threshold, 2 when no case was run and nothing is written; and a legacy  *)
(* run that could not reach a model leaves no report that would read as a  *)
(* score.                                                                  *)
EvalReportIsRight ==
    /\ CountsAgree
    /\ exit = 0 /\ ~cmd.legacy =>
         /\ tally # <<>> /\ Len(tally) = Len(groups) /\ benchmark = tally
         /\ \A g \in DOMAIN tally :
              tally[g].total > 0 /\ tally[g].passed * 100 >= cmd.threshold * tally[g].total
    /\ exit = 2 => benchmark = <<>> /\ (~cmd.legacy => at = 0 /\ lines = {})

(* The program ends, whatever the model answers and whatever fails.        *)
EvalEnds == <>(stage = "exit")
=============================================================================
