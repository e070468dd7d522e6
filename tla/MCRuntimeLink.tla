---------------------------- MODULE MCRuntimeLink ----------------------------
(* A runtime child that prints every kind of line the watch loop treats    *)
(* differently, and lines at the edges of what the parser accepts; and a   *)
(* harness whose configuration is at the edge in every number.             *)
EXTENDS RuntimeLink

Printed ==
    [form |-> "object", v |-> 1, event |-> "identity", ids |-> "fine", more_ids |-> "fine",
     agent_id |-> "crooked", agents_form |-> "list", agents |-> <<"fine">>,
     at |-> "fine", seq |-> "fine", latency_ms |-> MaxMs, next_in_ms |-> 0,
     http_status |-> 0, outcome |-> "ok", reason |-> "contract"]

Beat(outcome) == [Printed EXCEPT !.event = "beat", !.outcome = outcome]

Crooked ==
    {[Printed EXCEPT !.form = "long"], [Printed EXCEPT !.v = 2],
     [Printed EXCEPT !.more_ids = "crooked"], [Printed EXCEPT !.event = "none"],
     Beat("new"), [Beat("ok") EXCEPT !.http_status = 99],
     [Beat("ok") EXCEPT !.latency_ms = MaxMs + 1], [Beat("ok") EXCEPT !.at = "crooked"],
     [Printed EXCEPT !.event = "terminal", !.reason = "crooked"]}

MCOutput ==
    {Printed, [Printed EXCEPT !.agent_id = "absent", !.agents_form = "crooked"],
     [Printed EXCEPT !.agent_id = "fine", !.agents = <<"crooked", "fine">>],
     Beat("ok"), [Beat("ok") EXCEPT !.http_status = 100],
     Beat("catalog_rejected"), Beat("unauthorized"),
     [Printed EXCEPT !.event = "terminal"], [Printed EXCEPT !.event = "new"]}
    \cup Crooked

(* Enough lines for the timers: one that identifies, one that beats, one   *)
(* that the loop skips.                                                    *)
MCFewOutput ==
    {[Printed EXCEPT !.agent_id = "fine"], Beat("ok"), [Printed EXCEPT !.event = "new"]}

(* An interval below its minimum into which two timeouts fit once it is    *)
(* clamped, a restart delay that is doubled past its maximum.              *)
Edge ==
    [interval |-> 10, timeout |-> 7, restart_min |-> 1, restart_max |-> 3, stable |-> Unset,
     log_count |-> 100, token |-> TRUE, enabled |-> "unset", path |-> "unset", sha256 |-> "fine",
     config |-> <<>>, control_plane_url |-> "fine", kind |-> "junk", version |-> "unset", deployment_env |-> "prod",
     harness |-> [kind |-> "fine", version |-> "unset", deployment_env |-> "unset"]]

(* Switched off, with and without a kind of harness.                        *)
Disabled ==
    {[Edge EXCEPT !.token = FALSE], [Edge EXCEPT !.enabled = "false", !.sha256 = "unset"],
     [Edge EXCEPT !.token = FALSE, !.kind = "unset", !.harness.kind = "unset"]}

(* The same built by the harness, which has no token; and one that cannot   *)
(* run.                                                                     *)
Own ==
    {[Edge EXCEPT !.token = FALSE, !.config = <<ConfigFromEnv(Edge)>>],
     [Edge EXCEPT !.config = <<[ConfigFromEnv(Edge) EXCEPT !.path = "nul"]>>]}

Misconfigured ==
    {[Edge EXCEPT !.interval = Garbled], [Edge EXCEPT !.timeout = 8],
     [Edge EXCEPT !.timeout = 0], [Edge EXCEPT !.restart_min = 4],
     [Edge EXCEPT !.restart_min = 0], [Edge EXCEPT !.restart_max = 3601],
     [Edge EXCEPT !.stable = 0], [Edge EXCEPT !.log_count = 101],
     [Edge EXCEPT !.enabled = "junk"], [Edge EXCEPT !.enabled = "true", !.token = FALSE],
     [Edge EXCEPT !.sha256 = "unset"], [Edge EXCEPT !.sha256 = "junk"],
     [Edge EXCEPT !.control_plane_url = "junk"], [Edge EXCEPT !.path = "nul"],
     [Edge EXCEPT !.harness.kind = "unset"], [Edge EXCEPT !.version = "junk"],
     [Edge EXCEPT !.harness.deployment_env = "junk"]}

MCEnvironments == {Edge} \cup Disabled \cup Own \cup Misconfigured

=============================================================================
