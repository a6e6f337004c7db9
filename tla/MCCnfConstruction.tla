------------------------- MODULE MCCnfConstruction -------------------------
(***************************************************************************)
(* The arena  a, b, f(a, b), f(b, f(a, b)), g(p(a)), p(a), p(b), true,      *)
(* false  as the numbers 1 to 9.                                           *)
(***************************************************************************)
EXTENDS CnfConstruction

MCDataTerm == 1..5
MCBoolTerm == 6..9
MCApps == <<3, 4, 6, 5, 7>>
MCFunOf == (3 :> "f") @@ (4 :> "f") @@ (5 :> "g") @@ (6 :> "p") @@ (7 :> "p")
MCArgsOf == (3 :> <<1, 2>>) @@ (4 :> <<2, 3>>) @@ (5 :> <<6>>) @@ (6 :> <<1>>) @@ (7 :> <<2>>)

Eq(s, t) == AtomExpr(EqAtom(s, t))
Pred(t) == AtomExpr(BoolAtom(t))
Not(e) == Expr("not", <<e>>)

X == Eq(2, 1)
Y == Not(Eq(3, 4))
Z == Pred(6)

(* Every operator over up to three children, the children once more under  *)
(* another operator, and the negation of each.                             *)
Lists == {<<>>, <<X>>, <<X, Y>>, <<Y, X, Z>>}
Flat == {Const(TRUE), Const(FALSE), Z}
        \cup {Expr(op, kids) : op \in {"and", "or", "iff"}, kids \in Lists}
        \cup {Expr("ite", <<X, Y, Z>>)}
Nested == {Expr(op, <<e, X>>) : op \in {"and", "or", "iff"}, e \in Flat}
          \cup {Expr("ite", <<e, X, Not(e)>>) : e \in Flat}
Shapes == Flat \cup Nested
ShapeProblems ==
    {[assertions |-> <<e>>, dataTerms |-> d, facts |-> <<>>] :
         e \in Shapes \cup {Not(e) : e \in Shapes}, d \in {<<>>, <<6>>}}

(* A disjunction of equalities: their graph is what the fill starts from.  *)
Edges == {<<1, 2>>, <<2, 3>>, <<3, 4>>, <<4, 5>>, <<1, 5>>, <<1, 4>>}
GraphProblems ==
    {[assertions |-> <<Expr("or", SetToSeq({Eq(e[1], e[2]) : e \in E})), Eq(3, 3)>>,
      dataTerms |-> <<>>, facts |-> <<>>] : E \in (SUBSET Edges) \ {{}}}

(* (a = b and f(a, b) = f(b, f(a, b))) or (b = a and p(a)) entails the      *)
(* fact a = b.                                                             *)
FactProblem ==
    [assertions |-> <<Expr("or", <<Expr("and", <<X, Eq(3, 4)>>), Expr("and", <<Z, X>>)>>),
                      Not(Pred(7))>>,
     dataTerms |-> <<6>>, facts |-> <<EqAtom(1, 2)>>]

MCProblems == ShapeProblems \cup GraphProblems \cup {FactProblem}

-----------------------------------------------------------------------------
(* The projection of the same shapes onto the canonical graph, alone and   *)
(* next to an assertion that shares a part with them, and with each limit. *)
Unlimited ==
    [occurrences |-> 100, variables |-> 100, clauses |-> 100, literals |-> 200,
     nodes |-> 100, edges |-> 100, provenance |-> 100]

Source(assertions, dataTerms) ==
    [assertions |-> assertions, dataTerms |-> dataTerms, unsupported |-> FALSE, limits |-> Unlimited]

SharedSources ==
    UNION {{Source(<<e, other>>, <<>>) :
               other \in {Expr("or", <<Not(e), Z>>), Expr("iff", <<e.kids[1], Y>>), e}} : e \in Nested}

LimitedSources ==
    LET usual == Source(<<Expr("or", <<Expr("and", <<X, Y>>), Not(Expr("iff", <<Z, X>>))>>),
                          Not(Expr("and", <<Y, X>>))>>, <<6, 7>>)
    IN  {[usual EXCEPT !.unsupported = TRUE], [usual EXCEPT !.dataTerms = <<1>>],
         [usual EXCEPT !.assertions[2] = Eq(1, 6)], [usual EXCEPT !.assertions[2] = Pred(1)],
         [usual EXCEPT !.assertions = <<Expr("or", <<X, Expr("iff", <<Z>>)>>)>>, !.dataTerms = <<>>]}
        \cup {[usual EXCEPT !.limits[r] = n] :
                 r \in {"occurrences", "variables", "clauses", "literals", "nodes", "edges", "provenance"},
                 n \in {2, 5, 6, 7, 8, 9}}

DagSources ==
    {Source(p.assertions, p.dataTerms) : p \in ShapeProblems} \cup SharedSources \cup LimitedSources

VARIABLES source, step, baseline, graph, candidate, roots
dagVars == <<source, step, baseline, graph, candidate, roots>>

Dag == INSTANCE BoolDag WITH Sources <- DagSources

(* A behaviour is one of the construction or one of the projection; the    *)
(* variables of the other stay as they are.                                *)
NoCnf ==
    /\ Init
    /\ problem = FactProblem
    /\ config = [root |-> "direct", completion |-> "none", eager |-> FALSE, mode |-> "auto"]
NoDag ==
    /\ source = <<>> /\ step = "none" /\ baseline = <<>> /\ graph = <<>> /\ candidate = <<>>
    /\ roots = <<>>

MCInit == (Init /\ NoDag) \/ (Dag!Init /\ NoCnf)
MCNext ==
    IF step = "none" THEN Next /\ UNCHANGED dagVars ELSE Dag!Next /\ UNCHANGED vars
MCSpec == MCInit /\ [][MCNext]_<<vars, dagVars>>

ArmsAgree == Dag!ArmsAgree
=============================================================================
