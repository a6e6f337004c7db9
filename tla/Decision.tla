------------------------------ MODULE Decision ------------------------------
(***************************************************************************)
(* What a solver call promises: one answer, once, and if it is sat or      *)
(* unsat it is the truth about the problem.  Giving up is always allowed.  *)
(***************************************************************************)
VARIABLES
    satisfiable,    \* the truth: is the problem satisfiable in QF_UF
    result

Unanswered == satisfiable \in BOOLEAN /\ result = "none"

Truth == IF satisfiable THEN "sat" ELSE "unsat"

Answer ==
    /\ result = "none"
    /\ result' \in {Truth, "unsupported"}
    /\ UNCHANGED satisfiable

DecisionSpec == Unanswered /\ [][Answer]_<<satisfiable, result>>
=============================================================================
