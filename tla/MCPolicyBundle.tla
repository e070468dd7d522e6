--------------------------- MODULE MCPolicyBundle ---------------------------
(* Version 1 decides by the caller and the arguments and holds for good, 2  *)
(* allows everything until it expires, 3 has an expiry with a time zone.    *)
EXTENDS PolicyBundle, TLC

CONSTANTS p1, p2, c1, c2, c3

MCHomeOne == [c \in Calls |-> p1]
MCHomeTwo == [c \in Calls |-> IF c = c1 THEN p1 ELSE p2]

CallSymmetry == Permutations(Calls)

Condition(of, key, operator, value) ==
    [dict |-> TRUE, of |-> of, key |-> key, operator |-> operator, value |-> value]

Rule(n, tools, action, conditions) ==
    [name |-> n, listed |-> TRUE, tools |-> tools, action |-> action,
     conditions |-> conditions, max_rate |-> [count |-> n - 1, window |-> 60],
     redact_fields |-> {}]

Document(v, rules, deny, expires, aware) ==
    [typed |-> TRUE, version |-> v, expires |-> expires, aware |-> aware,
     default_deny |-> deny, listed |-> TRUE, rules |-> rules]

MCPublished ==
    << Document(1, << Rule(1, {"mail"}, "absent", <<Condition("caller", "role", "absent", <<"b">>)>>),
                      Rule(2, {"mail", "file"}, "allow",
                           <<Condition("args", "to", "contains", <<"a">>),
                             Condition("caller", "source", "not_exists", <<>>)>>),
                      Rule(3, {}, "filter", <<Condition("args", "to", "matches", <<"b">>),
                                              Condition("args", "to", "not_contains", <<"c">>),
                                              Condition("caller", "role", "not_eq", <<"b">>)>>),
                      Rule(4, {"*"}, "allow", <<Condition("args", "to", "not_matches", <<"(">>),
                                                Condition("args", "to", "exists", <<>>)>>) >>,
                "absent", 0, FALSE),
       Document(2, <<>>, "false", 2, FALSE),
       Document(3, <<Rule(1, {}, "deny", <<>>)>>, "true", 2, TRUE) >>

Ask(tool, args, role) == [tool |-> tool, args |-> args, caller |-> [role |-> role, source |-> <<>>]]

(* One question for every rule of version 1, and one for none of them.      *)
MCAsked ==
    {Ask("mail", <<>>, <<"b">>), Ask("mail", [to |-> <<"b", "a">>], <<"a">>),
     Ask("run", [to |-> <<"b", "a">>], <<"a">>), Ask("run", [to |-> <<"b", "c">>], <<"b">>),
     Ask("run", <<>>, <<"a">>)}

=============================================================================
