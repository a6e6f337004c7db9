------------------------------- MODULE MCDpll -------------------------------
(***************************************************************************)
(* Clauses over the equalities of a, f(a) and f(f(a)), a Boolean constant  *)
(* and a Tseitin variable: all the lists of three from a pool, with an     *)
(* empty clause, units, a literal that occurs twice and a tautology.       *)
(***************************************************************************)
EXTENDS Dpll, TLC

CONSTANTS a, fa, ffa, q, tt, ff, f

Eq(s, t) == [kind |-> "Eq", left |-> s, right |-> t]

MCAtoms ==
    <<Eq(a, fa), Eq(fa, ffa), Eq(a, ffa),
      [kind |-> "BoolTerm", left |-> q, right |-> q],
      [kind |-> "None", left |-> tt, right |-> tt]>>

MCApps == <<fa, ffa>>
MCFunOf == [t \in {fa, ffa} |-> f]
MCArgsOf == (fa :> <<a>>) @@ (ffa :> <<fa>>)

Pool ==
    <<<<>>, <<4>>, <<-3>>, <<1, 1>>, <<2, -2>>, <<-4, 5, -1>>,
      <<1, 2>>, <<1, -2>>, <<-1, -2>>, <<2, 3>>, <<-2, -3>>, <<2, 5>>>>

MCCnfs ==
    LET triples == {t \in (DOMAIN Pool) \X (DOMAIN Pool) \X (DOMAIN Pool) :
                        t[1] < t[2] /\ t[2] < t[3]}
    IN  {<<Pool[t[1]], Pool[t[2]], Pool[t[3]]>> : t \in triples}
=============================================================================
