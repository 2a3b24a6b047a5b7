------------------------------- MODULE CrossSign -------------------------------
(***************************************************************************)
(* What the cross-sign protocol promises about one token, seen from the    *)
(* logs of its two parties (module comment of audit.py, steps 1 to 6).     *)
(* The delegatee signs before the delegator does, the delegator either     *)
(* agrees or disputes and never both, and the delegatee's record closes    *)
(* only over the delegator's agreement.                                    *)
(***************************************************************************)
CONSTANT Jti

VARIABLES
  delegator,  \* what the delegator's log says of each token
  delegatee   \* what the delegatee's log says of each token

vars == <<delegator, delegatee>>

Init ==
  /\ delegator = [j \in Jti |-> "none"]
  /\ delegatee = [j \in Jti |-> "none"]

Issue(j) ==
  /\ delegator[j] = "none" /\ delegatee[j] = "none"
  /\ delegator' = [delegator EXCEPT ![j] = "issued"]
  /\ UNCHANGED delegatee

Start(j) ==
  /\ delegator[j] = "issued" /\ delegatee[j] = "none"
  /\ delegatee' = [delegatee EXCEPT ![j] = "started"]
  /\ UNCHANGED delegator

Sign(j) ==
  /\ delegator[j] = "issued" /\ delegatee[j] = "started"
  /\ delegatee' = [delegatee EXCEPT ![j] = "signed"]
  /\ UNCHANGED delegator

Decide(j, verdict) ==
  /\ delegator[j] = "issued" /\ delegatee[j] = "signed"
  /\ delegator' = [delegator EXCEPT ![j] = verdict]
  /\ UNCHANGED delegatee

Close(j) ==
  /\ delegator[j] = "agreed" /\ delegatee[j] = "signed"
  /\ delegatee' = [delegatee EXCEPT ![j] = "closed"]
  /\ UNCHANGED delegator

Next ==
  \E j \in Jti:
    \/ Issue(j) \/ Start(j) \/ Sign(j) \/ Close(j)
    \/ \E verdict \in {"agreed", "disputed"}: Decide(j, verdict)

Spec == Init /\ [][Next]_vars
================================================================================
