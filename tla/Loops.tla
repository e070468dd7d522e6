-------------------------------- MODULE Loops --------------------------------
(***************************************************************************)
(* The loops the code keeps writing: take some elements of a list into a   *)
(* new list, put lists together, and add up a list of numbers.  They are   *)
(* recursive functions of the position the loop has reached, so that       *)
(* proofs can follow them.                                                 *)
(***************************************************************************)
EXTENDS Integers, Sequences

Taken(s, places) ==
    LET taken[i \in 0 .. Len(s)] ==
            IF i = 0 THEN <<>>
            ELSE IF i \in places THEN Append(taken[i - 1], s[i]) ELSE taken[i - 1]
    IN  taken

(* The elements of s at these places, in their order.                      *)
Select(s, places) == Taken(s, places)[Len(s)]

Joined(lists) ==
    LET joined[i \in 0 .. Len(lists)] ==
            IF i = 0 THEN <<>> ELSE joined[i - 1] \o lists[i]
    IN  joined

(* The lists, one after the other.                                         *)
Join(lists) == Joined(lists)[Len(lists)]

Summed(s) ==
    LET summed[i \in 0 .. Len(s)] == IF i = 0 THEN 0 ELSE summed[i - 1] + s[i]
    IN  summed

Sum(s) == Summed(s)[Len(s)]

=============================================================================
