----------------------------- MODULE PolicyRules ----------------------------
(***************************************************************************)
(* What a policy bundle says of a tool call, and the two conversions it    *)
(* goes through: from the wire (or from disk) into rules, and from rules   *)
(* to the document that is kept on disk.                                   *)
(*                                                                         *)
(* A text is a sequence of letters; "(" stands for one no pattern has in   *)
(* this place.  A document is `typed' when every value in it has the type  *)
(* that from_wire uses without asking.  Versions and names are numbers, 0  *)
(* when missing; a rate that limits nothing is NoRate.                     *)
(***************************************************************************)
EXTENDS Integers, Sequences

Operators == {"eq", "not_eq", "contains", "not_contains", "matches", "not_matches",
              "exists", "not_exists"}

Actions == {"allow", "deny", "filter"}

NoRate == [count |-> 0, window |-> 0]

(* Condition._get_value; what is asked about is a tool call q.             *)
GetValue(c, q) ==
    CASE c.of = "caller" /\ c.key \in DOMAIN q.caller -> q.caller[c.key]
      [] c.of = "args" /\ c.key \in DOMAIN q.args     -> q.args[c.key]
      [] OTHER                                        -> <<>>

Within(part, text) == \E i, j \in 0 .. Len(text) : SubSeq(text, i + 1, j) = part

(* re.match of a literal pattern; a broken pattern matches nothing.        *)
Matches(pattern, text) ==
    /\ \A i \in DOMAIN pattern : pattern[i] # "("
    /\ \E j \in 0 .. Len(text) : SubSeq(text, 1, j) = pattern

(* Condition._compare *)
Compare(c, value) ==
    CASE c.operator = "eq"           -> value = c.value
      [] c.operator = "not_eq"       -> value # c.value
      [] c.operator = "contains"     -> Within(c.value, value)
      [] c.operator = "not_contains" -> ~Within(c.value, value)
      [] c.operator = "matches"      -> Matches(c.value, value)
      [] c.operator = "not_matches"  -> ~Matches(c.value, value)
      [] c.operator = "exists"       -> value # <<>>
      [] c.operator = "not_exists"   -> value = <<>>

MatchesTool(r, tool) == r.tools = {} \/ tool \in r.tools \/ "*" \in r.tools

Applies(r, q) ==
    /\ MatchesTool(r, q.tool)
    /\ \A i \in DOMAIN r.conditions : Compare(r.conditions[i], GetValue(r.conditions[i], q))

(* PolicyBundleData.evaluate: the first rule that applies decides.         *)
Decide(b, q) ==
    LET hits == {i \in DOMAIN b.rules : Applies(b.rules[i], q)}
    IN  IF hits # {} THEN b.rules[CHOOSE i \in hits : \A j \in hits : i <= j].action
        ELSE IF b.default_deny THEN "deny" ELSE "allow"

---------------------------------------------------------------------------
(* from_wire, _parse_rule and _parse_condition                             *)

ConditionParses(c) == c.dict /\ c.of # "" /\ c.operator \in Operators \cup {"absent"}

RuleParses(r) ==
    /\ r.name # 0 /\ r.listed /\ r.action \in Actions \cup {"absent"}
    /\ \A i \in DOMAIN r.conditions : ConditionParses(r.conditions[i])

BundleParses(d) ==
    /\ d.version # 0 /\ d.expires >= 0 /\ d.listed
    /\ \A i \in DOMAIN d.rules : RuleParses(d.rules[i])

(* An untyped document makes from_wire raise something other than a        *)
(* PolicyBundleError.                                                      *)
WireOutcome(d) == IF ~d.typed THEN "crooked" ELSE IF BundleParses(d) THEN "bundle" ELSE "failed"

ParseCondition(c) ==
    [of |-> c.of, key |-> c.key, value |-> c.value,
     operator |-> IF c.operator = "absent" THEN "eq" ELSE c.operator]

ParseRule(r) ==
    [name |-> r.name, tools |-> r.tools,
     action |-> IF r.action = "absent" THEN "deny" ELSE r.action,
     conditions |-> [i \in DOMAIN r.conditions |-> ParseCondition(r.conditions[i])],
     max_rate |-> IF r.max_rate.count > 0 /\ r.max_rate.window > 0 THEN r.max_rate ELSE NoRate,
     redact_fields |-> r.redact_fields]

FromWire(d) ==
    [version |-> d.version, expires |-> d.expires, aware |-> d.aware,
     default_deny |-> d.default_deny # "false",
     rules |-> [i \in DOMAIN d.rules |-> ParseRule(d.rules[i])]]

---------------------------------------------------------------------------
(* to_dict and _rule_to_dict                                               *)

(* Mutant: the conditions are not written.                                 *)
RuleToDictBare(r) ==
    [name |-> r.name, listed |-> TRUE, tools |-> r.tools, action |-> r.action,
     conditions |-> <<>>, max_rate |-> r.max_rate, redact_fields |-> r.redact_fields]

ConditionToDict(c) ==
    [dict |-> TRUE, of |-> c.of, key |-> c.key, operator |-> c.operator, value |-> c.value]

RuleToDict(r) ==
    [name |-> r.name, listed |-> TRUE, tools |-> r.tools, action |-> r.action,
     conditions |-> [i \in DOMAIN r.conditions |-> ConditionToDict(r.conditions[i])],
     max_rate |-> r.max_rate, redact_fields |-> r.redact_fields]

ToDict(b) ==
    [typed |-> TRUE, version |-> b.version, expires |-> b.expires, aware |-> b.aware,
     default_deny |-> IF b.default_deny THEN "true" ELSE "false", listed |-> TRUE,
     rules |-> [i \in DOMAIN b.rules |-> RuleToDict(b.rules[i])]]

=============================================================================
