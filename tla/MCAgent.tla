------------------------------ MODULE MCAgent ------------------------------
(***************************************************************************)
(* Instances of AgentController for TLC.                                   *)
(***************************************************************************)
EXTENDS AgentController

CONSTANTS t1, t2, t3

SameAuth == [t \in Templates |-> "auth"]
OtherAuth == [t \in Templates |-> IF t = t3 THEN "other" ELSE "auth"]

Run(t, n) == [tmpl |-> t, replicas |-> n, paused |-> FALSE]
Pause(t, n) == [Run(t, n) EXCEPT !.paused = TRUE]

TwoTemplates == {Run(t1, 1), Run(t2, 1), Pause(t1, 1)}
Rebound == TwoTemplates \cup {Run(t3, 1)}
OneTemplate == {Run(t1, MaxReplicas), Pause(t1, MaxReplicas)}
=============================================================================
