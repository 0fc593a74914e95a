----------------------------- MODULE OneTimeCode -----------------------------
(***************************************************************************)
(* What the OAuth2 server promises about authorization codes: a code is    *)
(* issued once, and a token is answered for it at most once, after that.   *)
(***************************************************************************)
EXTENDS Naturals

CONSTANT Code

VARIABLES
  issued,   \* the codes handed to a client
  answers   \* answers[n]: how many tokens were answered for the code n

Init ==
  /\ issued = {}
  /\ answers = [n \in Code |-> 0]

Issue(n) ==
  /\ n \notin issued
  /\ issued' = issued \cup {n}
  /\ UNCHANGED answers

Answer(n) ==
  /\ n \in issued /\ answers[n] = 0
  /\ answers' = [answers EXCEPT ![n] = 1]
  /\ UNCHANGED issued

Next == \E n \in Code : Issue(n) \/ Answer(n)

Spec == Init /\ [][Next]_<<issued, answers>>
=============================================================================
