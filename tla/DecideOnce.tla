----------------------------- MODULE DecideOnce -----------------------------
(***************************************************************************)
(* What the approval surface promises: an approval is opened, and then     *)
(* decided once.  The first decision stands.                               *)
(***************************************************************************)
CONSTANT Approval

VARIABLE verdict   \* per approval: "none", "open", "granted" or "denied"

Init == verdict = [i \in Approval |-> "none"]

Open(i) == verdict[i] = "none" /\ verdict' = [verdict EXCEPT ![i] = "open"]

Decide(i, v) == verdict[i] = "open" /\ verdict' = [verdict EXCEPT ![i] = v]

Next == \E i \in Approval : Open(i) \/ \E v \in {"granted", "denied"} : Decide(i, v)

Spec == Init /\ [][Next]_verdict
=============================================================================
