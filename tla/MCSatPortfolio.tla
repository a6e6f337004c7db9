--------------------------- MODULE MCSatPortfolio ---------------------------
(***************************************************************************)
(* One consistent assignment and two that are not; a transitivity lemma, a *)
(* group of two congruence lemmas, and two lemmas that only theory         *)
(* conflicts bring.                                                        *)
(***************************************************************************)
EXTENDS SatPortfolio, TLC

CONSTANTS s, i1, i2, trans, cong1, cong2, cut2, cut12

Excluded ==
    (trans :> {i1}) @@ (cong1 :> {i1}) @@ (cong2 :> {i2})
        @@ (cut2 :> {i2}) @@ (cut12 :> {i1, i2})

Groups == [l \in {cong1, cong2} |-> "group"]
=============================================================================
