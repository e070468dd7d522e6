------------------------------ MODULE MCEvals ------------------------------
(* Suites over three tools: `read_file' is allowed where `file' is not.    *)
EXTENDS EvalRun, TLC

Empty == [k \in {} |-> 0]

Call(name, form, args) == [name |-> name, form |-> form, args |-> args]

Says(text, cut)  == [raises |-> FALSE, calls |-> <<>>, text |-> text, cut |-> cut]
Calls(calls)     == [raises |-> FALSE, calls |-> calls, text |-> {}, cut |-> FALSE]
Fails            == [raises |-> TRUE]

Good   == [k \in {"title"} |-> 1]
Folder == [k \in {"path"} |-> Directory]

MCAnswers ==
    {Says({"sorry"}, FALSE), Says({"sorry", "done"}, FALSE), Says({"sorry"}, TRUE), Fails,
     Calls(<<Call("read_file", "object", Empty)>>),
     Calls(<<Call("read_file", "other", Empty)>>),
     Calls(<<Call("file", "object", Good)>>),
     Calls(<<Call("file", "broken", Empty)>>),
     Calls(<<Call("read_file", "object", Folder), Call("file", "object", Good)>>),
     Calls(<<Call("glob", "object", Empty)>>)}

Schemas == [t \in {"file"} |-> [properties |-> {"title"}, required |-> {"title"}]]

NotDone == [NoChecks EXCEPT !.contains_all = {"sorry"}, !.not_contains = {"done"}]
Sorry   == [NoChecks EXCEPT !.contains_any = {"sorry", "done"}, !.regex = {"sorry"}]

Case(id, tool, deny, allowed, content) ==
    [id |-> id, tool |-> tool, args |-> Empty, required_arg_keys |-> {},
     forbidden_arg_keys |-> {}, forbidden_tools |-> {"glob"} \ {tool}, deny |-> deny,
     content |-> content, allowed |-> allowed]

DenyCase  == Case("deny", "file", TRUE, {"read_file"}, NotDone)
FileCase  == [Case("file", "file", FALSE, Unrestricted, NoChecks) EXCEPT
                !.args = Good, !.required_arg_keys = {"title"}]
QuietCase == Case("quiet", "null", FALSE, {"read_file", "file"}, Sorry)
OpenCase  == Case("open", "absent", FALSE, Unrestricted, NoChecks)

Suite(name, cases) ==
    [file |-> "json", shape |-> TRUE, suite |-> name, prompt |-> "text", repeats |-> 1,
     tools |-> <<"read_file", "file">>, schemas |-> Schemas, cases |-> cases]

Local(backend) == [known |-> TRUE, shape |-> TRUE, concurrency |-> 2, url |-> TRUE,
                   backend |-> backend]

Command(suites) ==
    [legacy |-> FALSE, out |-> TRUE, paths |-> <<suites>>, ids |-> {}, repeats |-> <<>>,
     profile |-> Local("vllm"), jobs |-> 3, max_turns |-> 3, threshold |-> 50,
     transcripts |-> FALSE]

LegacyCase ==
    ToEvalCase(Case("legacy", "file", FALSE, Unrestricted, NoChecks), Schemas)
      @@ [max_turns |-> 2]

Legacy == [legacy |-> TRUE, models |-> 2, cases |-> <<LegacyCase>>,
           profile |-> Local("ollama"), transcripts |-> FALSE]

Mixed == <<Suite("a.one", <<DenyCase, FileCase>>)>>

MCCommands ==
    {[Command(Mixed) EXCEPT !.transcripts = TRUE, !.profile = Local("anthropic")],
     [Command(<<Suite("a.two", <<QuietCase>>), Suite("a.one", <<FileCase, OpenCase>>)>>)
        EXCEPT !.profile = Local("ollama"), !.transcripts = TRUE],
     [Command(Mixed) EXCEPT !.ids = {"file"}, !.repeats = <<2>>, !.transcripts = TRUE],
     [Command(Mixed) EXCEPT !.ids = {"fiel"}],
     [Command(Mixed) EXCEPT !.profile.url = FALSE],
     [Command(Mixed) EXCEPT !.repeats = <<0>>],
     Command(<<Suite("a.one", <<FileCase, FileCase>>)>>),
     Command(<<Suite("a.one", <<[DenyCase EXCEPT !.allowed = Unrestricted]>>)>>),
     Command(<<Suite("a.one", <<FileCase>>), Suite("a.one", <<OpenCase>>)>>),
     Legacy, [Legacy EXCEPT !.models = 0]}
=============================================================================
