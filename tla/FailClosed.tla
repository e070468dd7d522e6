----------------------------- MODULE FailClosed -----------------------------
(***************************************************************************)
(* What the audited tool client promises of every tool call: it is decided *)
(* once, allowed only when an authority has granted it, written to the     *)
(* audit trail with that verdict, and run only after that.  A call may     *)
(* also fail at any time before it runs.                                   *)
(***************************************************************************)
EXTENDS Naturals, Sequences

CONSTANT Calls

VARIABLES
    granted,    \* the calls an authority has granted
    verdict,    \* the decision on a call
    trail,      \* the audit trail: calls with the verdict on them
    ran         \* the calls whose tool was started

vars == <<granted, verdict, trail, ran>>

Init ==
    /\ granted = {} /\ ran = {} /\ trail = <<>>
    /\ verdict = [c \in Calls |-> "none"]

Grant(c) ==
    /\ verdict[c] = "none"
    /\ granted' = granted \cup {c}
    /\ UNCHANGED <<verdict, trail, ran>>

Decide(c, v) ==
    /\ verdict[c] = "none"
    /\ v = "allow" => c \in granted
    /\ verdict' = [verdict EXCEPT ![c] = v]
    /\ UNCHANGED <<granted, trail, ran>>

Recorded(c) == \E i \in 1 .. Len(trail) : trail[i] = <<c, verdict[c]>>

Record(c) ==
    /\ verdict[c] # "none" /\ ~Recorded(c)
    /\ trail' = Append(trail, <<c, verdict[c]>>)
    /\ UNCHANGED <<granted, verdict, ran>>

Run(c) ==
    /\ verdict[c] = "allow" /\ Recorded(c) /\ c \notin ran
    /\ ran' = ran \cup {c}
    /\ UNCHANGED <<granted, verdict, trail>>

Next ==
    \E c \in Calls : \/ Grant(c) \/ Record(c) \/ Run(c)
                     \/ \E v \in {"allow", "deny"} : Decide(c, v)

Spec == Init /\ [][Next]_vars

=============================================================================
