----------------------------- MODULE MCHarness ------------------------------
(* The evaluation program, and the harness side of Kei.  They share no     *)
(* state: a behaviour is one of the first or of the second.                *)
EXTENDS MCEvals, MCKeiHarness

VARIABLE part

allVars == <<part, evalVars, harnessVars>>

(* An evaluation that has ended, and a harness that was refused.           *)
EvalRests ==
    /\ cmd = Legacy /\ stage = "exit" /\ exit = 2
    /\ groups = <<>> /\ at = 0 /\ queue = <<>>
    /\ run = [t \in 1 .. Threads |-> Idle]
    /\ results = <<>> /\ lines = {} /\ tally = <<>> /\ benchmark = <<>>

HarnessRests ==
    /\ setup = [Quiet EXCEPT !.url = "file"] /\ phase = "refused"
    /\ attempt = 0 /\ registered = FALSE /\ catalogue \in Others /\ late = {}
    /\ handle = 0 /\ alive = {} /\ spawned = 0 /\ key = 0
    /\ stopping = "no" /\ awaited = 0 /\ during = {}
    /\ place = [c \in Callers |-> "idle"] /\ cand = [c \in Callers |-> 0]
    /\ sent = [c \in Callers |-> 0] /\ runs = [c \in Callers |-> 0]
    /\ broken = [c \in Callers |-> 0] /\ reply = [c \in Callers |-> "none"]

PartsInit ==
    \/ part = "evals" /\ EvalInit /\ HarnessRests
    \/ part = "harness" /\ EvalRests /\ HarnessInit

PartsNext ==
    \/ part = "evals" /\ EvalNext /\ UNCHANGED <<part, harnessVars>>
    \/ part = "harness" /\ HarnessNext /\ UNCHANGED <<part, evalVars>>

PartsSpec == PartsInit /\ [][PartsNext]_allVars /\ EvalFairness /\ HarnessFairness

=============================================================================
