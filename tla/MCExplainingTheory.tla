------------------------- MODULE MCExplainingTheory -------------------------
(***************************************************************************)
(* Two arenas for TLC.  The chain: a, f(a), f(f(a)), f(f(f(a))), where one *)
(* merge can trigger another two passes later.  The predicate: a binary p  *)
(* over a, b, c, whose applications are Boolean terms.                     *)
(***************************************************************************)
EXTENDS ExplainingTheory, Functions, TLC

CONSTANTS a, b, c, tt, ff, f, pred

Eq(s, t) == [kind |-> "Eq", left |-> s, right |-> t]
BoolTerm(t) == [kind |-> "BoolTerm", left |-> t, right |-> t]
NoAtom == [kind |-> "None", left |-> tt, right |-> tt]

CONSTANTS fa, ffa, fffa

ChainTerms == {a, fa, ffa, fffa, tt, ff}
ChainApps == <<fa, ffa, fffa>>
ChainFunOf == [t \in {fa, ffa, fffa} |-> f]
ChainArgsOf == (fa :> <<a>>) @@ (ffa :> <<fa>>) @@ (fffa :> <<ffa>>)

(* Every order of three of the equalities that can start a chain, one      *)
(* Tseitin variable, and the equality of the last links.                   *)
ChainTables ==
    LET starts == {Eq(a, fa), Eq(a, ffa), Eq(a, fffa), Eq(fa, fffa)}
    IN  {<<s[1], s[2], NoAtom, s[3], Eq(ffa, fffa)>> : s \in Injection(1..3, starts)}

CONSTANTS pab, pbc

PredicateTerms == {a, b, c, pab, pbc, tt, ff}
PredicateApps == <<pab, pbc>>
PredicateFunOf == [t \in {pab, pbc} |-> pred]
PredicateArgsOf == (pab :> <<a, b>>) @@ (pbc :> <<b, c>>)

PredicateTables == {<<Eq(a, b), BoolTerm(pab), Eq(b, c), BoolTerm(pbc), Eq(a, c)>>}
=============================================================================
