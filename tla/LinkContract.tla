---------------------------- MODULE LinkContract ----------------------------
(***************************************************************************)
(* The closed vocabulary of the runtime link, shared by the supervisors of *)
(* the SDKs: link states, failure classes, the lines a runtime child       *)
(* prints, and the two tables that classify a beat outcome and an exit     *)
(* code.                                                                   *)
(***************************************************************************)
EXTENDS Integers, Sequences, FiniteSets

None == "none"

LinkStates ==
    {"disabled", "starting", "connected", "degraded", "reconnecting",
     "terminal", "stopped"}

FailureClasses ==
    {"config_invalid", "runtime_unavailable", "runtime_crashloop",
     "runtime_unresponsive", "contract_mismatch", "catalog_unreachable",
     "catalog_timeout", "catalog_error", "catalog_backpressure",
     "installation_unauthorized", "installation_offline", "installation_stale",
     "audit_backlog", "legacy_runtime_unverified"}

Reasons == FailureClasses \cup {None}

(* The beat outcomes after which the runtime keeps beating.                *)
CatalogFailures ==
    {"catalog_unreachable", "catalog_timeout", "catalog_error",
     "catalog_backpressure", "catalog_rejected"}

BeatOutcomes == CatalogFailures \cup {"ok", "unauthorized"}

(* A rejected beat is a contract problem; the others name themselves.      *)
ClassifyBeatOutcome(outcome) ==
    IF outcome = "catalog_rejected" THEN "contract_mismatch" ELSE outcome

TerminalReasons == {"unauthorized", "contract", "config", "stale", "other"}

ClassifyTerminal(why) ==
    CASE why = "unauthorized" -> "installation_unauthorized"
      [] why = "contract"     -> "contract_mismatch"
      [] why = "config"       -> "config_invalid"
      [] why = "stale"        -> "installation_stale"
      [] OTHER                -> "runtime_unavailable"

(* Only the codes 2, 3 and above end the link; 0 has no class.             *)
ExitClass(code) ==
    CASE code = 0 -> None
      [] code = 2 -> "contract_mismatch"
      [] code = 3 -> "installation_unauthorized"
      [] code > 3 -> "config_invalid"
      [] OTHER    -> "runtime_unavailable"

ExitIsTerminal(code) == code >= 2

-----------------------------------------------------------------------------
(* The lines of a child *)

(* A line as it is printed, by what parse_child_line_counted looks at: its *)
(* length and JSON, the contract version (0 when it is no integer), the    *)
(* event (`none' when it is no string), the identifiers that an event must *)
(* have and those it may have, an identity's agents, a beat's numbers.     *)
RawLine ==
    [form : {"object", "other", "long"}, v : Int,
     event : {"identity", "beat", "terminal", "new", "none"},
     ids : {"fine", "crooked"}, more_ids : {"fine", "crooked"},
     agent_id : {"absent", "fine", "crooked"},
     agents_form : {"absent", "list", "crooked"}, agents : Seq({"fine", "crooked"}),
     at : {"fine", "crooked"}, seq : {"fine", "crooked"},
     latency_ms : Int, next_in_ms : Int, http_status : Int,
     outcome : BeatOutcomes \cup {"new"}, reason : TerminalReasons \cup {"crooked"}]

(* A parsed line: an identity with the number of malformed agent entries   *)
(* dropped from it, a beat, a terminal notice, a line that is rejected, or *)
(* an unknown event.                                                       *)
ChildLine ==
    [kind : {"identity"}, dropped : Nat]
        \cup [kind : {"beat"}, outcome : BeatOutcomes]
        \cup [kind : {"terminal"}, why : TerminalReasons]
        \cup [kind : {"rejected", "ignored"}]

(* _parse_agents: a malformed agent is dropped, not the identity.          *)
DroppedAgents(line) ==
    (IF line.agent_id = "crooked" THEN 1 ELSE 0) +
    CASE line.agents_form = "absent"  -> 0
      [] line.agents_form = "crooked" -> 1
      [] OTHER -> Cardinality({i \in DOMAIN line.agents : line.agents[i] = "crooked"})

MaxMs == 3600000

BeatParses(line) ==
    /\ line.ids = "fine" /\ line.at = "fine" /\ line.seq = "fine"
    /\ line.latency_ms \in 0 .. MaxMs /\ line.next_in_ms \in 0 .. MaxMs
    /\ line.http_status \in {0} \cup 100 .. 599
    /\ line.outcome \in BeatOutcomes

Rejected == [kind |-> "rejected"]

ParseChildLine(line) ==
    IF line.form # "object" \/ line.v # 1 \/ line.event = "none" THEN Rejected
    ELSE CASE line.event = "identity" ->
                IF line.ids = "fine" /\ line.more_ids = "fine"
                  THEN [kind |-> "identity", dropped |-> DroppedAgents(line)]
                  ELSE Rejected
           [] line.event = "beat" ->
                IF BeatParses(line) THEN [kind |-> "beat", outcome |-> line.outcome]
                                    ELSE Rejected
           [] line.event = "terminal" ->
                IF line.ids = "fine" /\ line.reason # "crooked"
                  THEN [kind |-> "terminal", why |-> line.reason]
                  ELSE Rejected
           [] OTHER -> [kind |-> "ignored"]

=============================================================================
