------------------------------ MODULE AuditPipe ------------------------------
(***************************************************************************)
(* What the asynchronous logger promises of the records it accepts,        *)
(* whoever drains it: each is given to the sink once at most, what was     *)
(* given is not taken back, and when the pipe has ended nothing more is    *)
(* accepted and every record has been delivered, or is in the hands of a   *)
(* caller that has yet to deliver it.                                      *)
(***************************************************************************)
EXTENDS Integers, Sequences, Functions

CONSTANT Records

VARIABLES
    accepted,     \* the records that were accepted
    carried,      \* those a caller of Flush or Stop is to deliver itself
    delivered,    \* what the sink was given, in order
    ended         \* whether the pipe has ended

vars == <<accepted, carried, delivered, ended>>

Init == accepted = {} /\ carried = {} /\ delivered = <<>> /\ ended = FALSE

Accept(r) ==
    /\ ~ended /\ r \notin accepted
    /\ accepted' = accepted \cup {r}
    /\ UNCHANGED <<carried, delivered, ended>>

Carry(r) ==
    /\ ~ended /\ r \in accepted \ (carried \cup Range(delivered))
    /\ carried' = carried \cup {r}
    /\ UNCHANGED <<accepted, delivered, ended>>

Continues(s, t) == Len(s) <= Len(t) /\ \A i \in 1 .. Len(s) : t[i] = s[i]

(* Any number of accepted records reach the sink, and the pipe may end.    *)
Deliver ==
    /\ Continues(delivered, delivered') /\ IsInjective(delivered')
    /\ Range(delivered') \subseteq accepted
    /\ carried' = carried \ Range(delivered')
    /\ ended => ended'
    /\ ended' => accepted = carried' \cup Range(delivered')
    /\ UNCHANGED accepted

Next == Deliver \/ \E r \in Records : Accept(r) \/ Carry(r)

Spec == Init /\ [][Next]_vars

=============================================================================
