----------------------------- MODULE MCInference -----------------------------
(* A window of 12 tokens: compaction above 9, warnings from 8 and 10.      *)
EXTENDS Inference

Given(type, step, size) == [type |-> type, step |-> step, text |-> "given", size |-> size]

Opening == <<Given("system_prompt", NoStep, 1), Given("user_input", NoStep, 1)>>

(* Short; within the target, with a result worth cutting; three steps with *)
(* results worth cutting and too many; old talk and results around a       *)
(* summary that no phase drops, with the newest steps too large.           *)
MCInputs ==
    {<<Given("user_input", NoStep, 2)>>,
     Opening \o <<Given("tool_result", 1, 4), Given("tool_call", 2, 1),
                  Given("text_response", 3, 1)>>,
     Opening \o <<Given("tool_call", 1, 1), Given("tool_result", 1, 4),
                  Given("tool_result", 2, 3), Given("text_response", 3, 1)>>,
     Opening \o <<Given("reasoning", 1, 2), Given("tool_result", 1, 1),
                  Given("summary", NoStep, 2), Given("retry_nudge", 2, 1),
                  Given("tool_result", 3, 4), Given("text_response", 2, 1)>>}

(* The steps of these conversations come in turn.                          *)
ASSUME MCTurns == \A msgs \in Inputs : StepsInTurn(msgs)

MCPrereqs == [t \in {"deploy"} |-> {"test"}]

MCConfigs == {{"manager", "validator", "tracker", "enforcer"}, {}}

=============================================================================
