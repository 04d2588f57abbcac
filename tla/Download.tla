------------------------------ MODULE Download ------------------------------
(***************************************************************************)
(* What a download promises its recipient: parts of the file arrive in any *)
(* order, what has arrived stays, it is reported complete only when all of *)
(* the file is there, and it comes to an end.                              *)
(***************************************************************************)
VARIABLES
  units,            \* the parts of the file
  have,             \* the parts the recipient holds
  outcome           \* "none" while it runs; "complete", or "ended" without a promise

vars == <<units, have, outcome>>

Init == have = {} /\ outcome = "none"

\* A step brings parts of the file, and may be the last one.
Next ==
  /\ outcome = "none"
  /\ UNCHANGED units
  /\ \E new \in SUBSET units : have' = have \cup new
  /\ outcome' \in {"none", "ended", "complete"}
  /\ outcome' = "complete" => have' = units

Spec == Init /\ [][Next]_vars /\ WF_vars(Next)
=============================================================================
