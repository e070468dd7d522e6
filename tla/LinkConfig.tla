----------------------------- MODULE LinkConfig -----------------------------
(***************************************************************************)
(* The configuration of the runtime link: the variables it is read from,   *)
(* or the RuntimeLinkConfig a harness builds itself, what config_from_env  *)
(* and normalize_config reject, the clamped interval and the backoff.      *)
(*                                                                         *)
(* A variable that is a number is the number, or one of the two below; of  *)
(* any other it is kept whether it is unset, fine, or not.  Durations are  *)
(* in seconds.                                                             *)
(***************************************************************************)
EXTENDS Integers, FiniteSetsExt

Unset   == -1     \* the variable is empty
Garbled == -2     \* it is no number of at most nine digits

RuntimeLinkConfig ==
    [enabled : BOOLEAN, path : STRING, sha256 : STRING, control_plane_url : STRING,
     interval : Int, beat_timeout : Int, grace : Int, min : Int, max : Int,
     stable_reset : Int, stop_timeout : Int, log_count : Int,
     kind : STRING, version : STRING, deployment_env : STRING]

NumberNames == {"interval", "timeout", "restart_min", "restart_max", "stable", "log_count"}

(* _parse_env_int, for every variable that has a value.                    *)
NumbersParse(env) == \A name \in NumberNames : env[name] # Garbled

(* _parse_env_bool, and KEI_RUNTIME_ENABLED without a token.               *)
SwitchParses(env) ==
    /\ env.enabled \in {"unset", "true", "false"}
    /\ env.enabled = "true" => env.token

Enabled(env) == IF env.enabled = "unset" THEN env.token ELSE env.enabled = "true"

(* config_from_env, up to normalize_config: variables over defaults, and   *)
(* what the harness declares over variables.                               *)
ConfigFromEnv(env) ==
    LET number(name, default) == IF env[name] = Unset THEN default ELSE env[name]
        declared(name) == IF env.harness[name] # "unset" THEN env.harness[name] ELSE env[name]
    IN  [enabled        |-> Enabled(env),
         path           |-> IF env.path = "unset" THEN "fine" ELSE env.path,
         sha256         |-> env.sha256,
         control_plane_url |-> env.control_plane_url,
         interval       |-> number("interval", 60),
         beat_timeout   |-> number("timeout", 10),
         grace          |-> 15,
         min            |-> number("restart_min", 1),
         max            |-> number("restart_max", 300),
         stable_reset   |-> number("stable", 300),
         stop_timeout   |-> 10,
         log_count      |-> number("log_count", 3),
         kind           |-> declared("kind"),
         version        |-> declared("version"),
         deployment_env |-> declared("deployment_env")]

Clamp(interval) == Min({Max({interval, 15}), 300})

(* A link that is enabled needs an address, a binary, and in production    *)
(* the digest of the binary.                                               *)
CanRun(cfg) ==
    /\ cfg.kind = "fine" /\ cfg.control_plane_url = "fine" /\ cfg.path = "fine"
    /\ cfg.deployment_env = "prod" => cfg.sha256 # "unset"

(* Texts are well formed, also of a link that is disabled.                 *)
TextsAreValid(cfg) ==
    /\ cfg.kind \in {"unset", "fine"} /\ cfg.version \in {"unset", "fine"}
    /\ cfg.deployment_env # "junk" /\ cfg.sha256 \in {"unset", "fine"}

(* Two beat timeouts fit into the interval the child will be told.         *)
BeatFits(cfg) == cfg.beat_timeout > 0 /\ 2 * cfg.beat_timeout < Clamp(cfg.interval)

RestartHolds(cfg) == 1 <= cfg.min /\ cfg.min <= cfg.max /\ cfg.max <= 3600

RangesHold(cfg) ==
    /\ cfg.grace \in 0 .. 300
    /\ cfg.stable_reset \in 1 .. 3600
    /\ cfg.stop_timeout \in 1 .. 60
    /\ cfg.log_count \in 0 .. 100

(* Whether normalize_config returns.                                       *)
IsValid(cfg) ==
    /\ TextsAreValid(cfg) /\ (cfg.enabled => CanRun(cfg)) /\ BeatFits(cfg)
    /\ RangesHold(cfg) /\ RestartHolds(cfg)

Normalize(cfg) == [cfg EXCEPT !.interval = Clamp(@)]

(* What is to be normalized: the configuration given to new_link, which    *)
(* asks for no token, or the one read from the variables.                  *)
ConfigOf(env) == IF env.config = <<>> THEN ConfigFromEnv(env) ELSE env.config[1]

(* Whether config_from_env, or new_link, returns.                          *)
Configured(env) ==
    /\ env.config = <<>> => NumbersParse(env) /\ SwitchParses(env)
    /\ IsValid(ConfigOf(env))

(* Backoff.delay_ms, floor(r * cap): the milliseconds the supervisor may   *)
(* sleep before restart number attempt + 1, r being drawn from [0, 1).     *)
DelayCap(cfg, attempt) ==
    Min({cfg.max, cfg.min * 2 ^ Min({Max({attempt, 0}), 30})})

DelayMs(cfg, attempt) == 0 .. 1000 * DelayCap(cfg, attempt) - 1

=============================================================================
