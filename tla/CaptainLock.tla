----------------------------- MODULE CaptainLock -----------------------------
(***************************************************************************)
(* What the cross-mode work lock promises, with dispatch, rides, requests  *)
(* and money taken away: a captain holds at most one piece of work, is     *)
(* given one only while free, and goes back to being free before any       *)
(* other.  An admin may move a piece of work from one captain to another   *)
(* in one step.                                                            *)
(***************************************************************************)
CONSTANTS Captains, Works, Nothing

VARIABLE holds   \* [Captains -> Works \cup {Nothing}]

Init == holds = [c \in Captains |-> Nothing]

Take(c, w) ==
    /\ holds[c] = Nothing
    /\ holds' = [holds EXCEPT ![c] = w]

Drop(c) == holds' = [holds EXCEPT ![c] = Nothing]

HandOver(c, d, w) ==
    /\ c # d
    /\ holds[c] = w
    /\ holds[d] = Nothing
    /\ holds' = [holds EXCEPT ![c] = Nothing, ![d] = w]

Next ==
    \E c \in Captains :
      \/ Drop(c)
      \/ \E w \in Works : Take(c, w)
      \/ \E d \in Captains, w \in Works : HandOver(c, d, w)

Spec == Init /\ [][Next]_holds
=============================================================================
