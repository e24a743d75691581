----------------------------- MODULE QueryReview ----------------------------
(***************************************************************************)
(* What the analyze and audit commands promise about a workload, without   *)
(* connections, transactions or plans: each query gets one verdict, in the *)
(* order of the workload; a verdict is final; the review is reported as a  *)
(* whole or fails as a whole.                                              *)
(***************************************************************************)
EXTENDS Naturals, Sequences

VARIABLES
  size,       \* how many queries the workload has
  verdicts,   \* the verdicts so far
  status      \* of the review

vars == <<size, verdicts, status>>

Verdict == {"analyzed", "skipped"}

Init ==
  /\ size = 0
  /\ verdicts = <<>>
  /\ status = "fresh"

\* The workload is known.
Begin ==
  /\ status = "fresh"
  /\ status' = "reviewing"
  /\ size' \in Nat
  /\ UNCHANGED verdicts

Decide ==
  /\ status = "reviewing"
  /\ Len(verdicts) < size
  /\ \E v \in Verdict : verdicts' = Append(verdicts, v)
  /\ UNCHANGED <<size, status>>

\* The caller gets the verdicts: all of them, or none if no query was tried.
Report ==
  /\ status = "reviewing"
  /\ Len(verdicts) = size \/ verdicts = <<>>
  /\ status' = "reported"
  /\ UNCHANGED <<size, verdicts>>

Fail ==
  /\ status \in {"fresh", "reviewing"}
  /\ status' = "failed"
  /\ UNCHANGED <<size, verdicts>>

Next == Begin \/ Decide \/ Report \/ Fail

Spec == Init /\ [][Next]_vars
=============================================================================
