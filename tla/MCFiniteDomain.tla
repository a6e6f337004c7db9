--------------------------- MODULE MCFiniteDomain ---------------------------
(***************************************************************************)
(* Arenas over constants u, v, w (1, 2, 3), which are to be the domain, a  *)
(* and b (10, 11), tables f (4, 5, 6) and g (7, 8, 9), f(a) (12), and the  *)
(* predicates p(u), p(v), p(w), p(a) (13 to 16).                           *)
(***************************************************************************)
EXTENDS FiniteDomain

MCDataTerm == 1..12
MCBoolTerm == 13..18
MCApps == <<4, 5, 6, 7, 8, 9, 12, 13, 14, 15, 16>>
MCFunOf == [t \in {4, 5, 6, 12} |-> 1] @@ [t \in {7, 8, 9} |-> 2] @@ [t \in 13..16 |-> 3]
MCArgsOf == [t \in 4..6 |-> <<t - 3>>] @@ [t \in 7..9 |-> <<t - 6>>] @@ (12 :> <<10>>)
            @@ [t \in 13..15 |-> <<t - 12>>] @@ (16 :> <<10>>)

Eq(s, t) == AtomExpr(EqAtom(s, t))
Pred(t) == AtomExpr(BoolAtom(t))
Not(e) == Expr("not", <<e>>)
And(es) == Expr("and", es)
Or(es) == Expr("or", es)

Distinct(ts) ==
    LET pairs == Pairs(Len(ts))
    IN  And([k \in DOMAIN pairs |-> Not(Eq(ts[pairs[k][1]], ts[pairs[k][2]]))])
InDomain(t) == Or(<<Eq(t, 1), Eq(2, t), Eq(t, 3)>>)
InDomainNested(t) == Or(<<Eq(t, 1), Or(<<Eq(2, t), Eq(t, 3)>>)>>)
All(ts) == And([i \in DOMAIN ts |-> InDomain(ts[i])])
Guarded(s, t) == Or(<<Eq(1, 2), Not(Eq(s, t))>>)

Table == <<Distinct(<<1, 2, 3>>), All(<<4, 5, 6>>)>>
Problem(arena, assertions) == [arena |-> arena \cup {17, 18}, assertions |-> assertions]

Small == {1, 2, 3, 4, 5, 6, 10, 11}
Nested == {1, 2, 3, 4, 5, 6, 10, 12}
WithPredicate == {1, 2, 3, 4, 5, 6, 10, 13, 14, 15, 16}
TwoTables == 1..9

MCProblems ==
    {Problem(Small, Table \o more) : more \in
        {<<All(<<10, 11>>)>>,
         <<All(<<10, 11>>), Not(Eq(10, 11))>>,
         <<InDomain(10), Eq(10, 11), Eq(4, 5)>>,
         <<All(<<10, 11>>), Distinct(<<4, 10, 11>>)>>,
         <<All(<<10, 11>>), Guarded(10, 11), Guarded(4, 10), Guarded(11, 4), Guarded(5, 4)>>,
         <<Distinct(<<4, 5, 6>>), Or(<<Eq(4, 1), Eq(5, 2), Eq(6, 3)>>)>>,
         <<Eq(4, 1), InDomainNested(11)>>,
         <<And(<<Not(Eq(4, 1)), Not(Eq(5, 2)), Not(Eq(6, 3))>>), Expr("iff", <<Eq(10, 10), Eq(4, 5)>>)>>,
         <<InDomain(10), Distinct(<<1, 2, 10>>)>>,
         <<InDomain(10), Distinct(<<4, 5, 6>>), Distinct(<<5, 6, 10>>)>>,
         <<InDomain(10), Distinct(<<1, 2, 3, 10>>)>>}}
    \cup {Problem(Nested, Table \o more) : more \in
        {<<InDomain(10), Not(Eq(12, 10))>>,
         <<InDomain(12)>>,
         <<InDomain(10), Distinct(<<4, 5, 6>>), Distinct(<<10, 12>>)>>}}
    \cup {Problem(Nested, <<Distinct(<<1, 2, 3, 10>>)>> \o more) : more \in
        {<<And([k \in 1..4 |-> Or([i \in 1..4 |-> Eq(<<4, 5, 6, 12>>[k], <<1, 2, 3, 10>>[i])])])>>,
         <<And([k \in 1..4 |-> Or([i \in 1..4 |-> Eq(<<4, 5, 6, 12>>[k], <<1, 2, 3, 10>>[i])])]),
           Eq(4, 1)>>}}
    \cup {Problem(arena, Table \o <<InDomain(10), Not(Pred(13)), Pred(16)>>) :
              arena \in {WithPredicate, WithPredicate \ {14}}}
    \cup {Problem(WithPredicate, Table \o <<Pred(14), Not(Pred(16)), Eq(10, 4)>>)}
    \cup {Problem(TwoTables, Table \o <<All(<<7, 8, 9>>)>> \o more) : more \in
        {<<>>, <<And(<<Not(Eq(7, 1)), Not(Eq(8, 2)), Not(Eq(9, 3))>>)>>,
         <<Distinct(<<7, 8, 9>>)>>}}

Setting(e, p, sym, sup) == [equalities |-> e, predicates |-> p, symmetry |-> sym, support |-> sup]
MCConfigs ==
    {Setting("value", FALSE, sym, "focused") : sym \in {"off", "constants", "hybrid", "lex"}}
    \cup {Setting("all", TRUE, "off", "none"), Setting("off", TRUE, "off", "all"),
          Setting("all", TRUE, "hybrid", "all")}
=============================================================================
