---------------------------- MODULE CnfEncoding ----------------------------
(***************************************************************************)
(* The translation of an assertion into clauses, in the three forms that   *)
(* root_cnf_options selects.                                               *)
(***************************************************************************)
EXTENDS Formula, CnfProblem

RECURSIVE AddClauses(_, _)
AddClauses(p, clauses) ==
    IF clauses = <<>> \/ p.aborted THEN p ELSE AddClauses(AddClause(p, Head(clauses)), Tail(clauses))

-----------------------------------------------------------------------------
(* A fresh variable for e, and the clauses that make it equivalent: their  *)
(* literals are those of the children and of the variable, lit.            *)
Define(p, e, ClausesOf(_)) ==
    LET lit == VarCount(p) + 1
    IN  [p |-> AddClauses(NewVar(p, NoAtom, e), ClausesOf(lit)), lit |-> lit]

(* The pairs of the first child with each other one.                       *)
IffPairs(kids) ==
    [i \in 1..(Len(kids) - 1) |-> Expr("iff", <<kids[1], kids[i + 1]>>)]

RECURSIVE EncodeExpr(_, _), EncodeAll(_, _)

(* The literals of a list of children, encoded in their order.             *)
EncodeAll(p, kids) ==
    IF kids = <<>> THEN [p |-> p, lits |-> <<>>]
    ELSE LET first == EncodeExpr(p, Head(kids))
             rest == EncodeAll(first.p, Tail(kids))
         IN  [p |-> rest.p, lits |-> <<first.lit>> \o rest.lits]

(* encode_and, encode_or                                                   *)
EncodeAnd(p, kids) ==
    IF kids = <<>> THEN LiteralConst(p, TRUE)
    ELSE IF Len(kids) = 1 THEN EncodeExpr(p, kids[1])
    ELSE LET r == EncodeAll(p, kids)
         IN  Define(r.p, Expr("and", kids), LAMBDA lit : AndClauses(r.lits, lit))

EncodeOr(p, kids) ==
    IF kids = <<>> THEN LiteralConst(p, FALSE)
    ELSE IF Len(kids) = 1 THEN EncodeExpr(p, kids[1])
    ELSE LET r == EncodeAll(p, kids)
         IN  Define(r.p, Expr("or", kids), LAMBDA lit : OrClauses(r.lits, lit))

EncodeIff(p, kids) ==
    IF Len(kids) <= 1 THEN LiteralConst(p, TRUE)
    ELSE IF Len(kids) = 2
    THEN LET r == EncodeAll(p, kids)
         IN  Define(r.p, Expr("iff", kids),
                    LAMBDA lit : IffClauses(r.lits[1], r.lits[2], lit))
    ELSE EncodeAnd(p, IffPairs(kids))

EncodeIte(p, kids) ==
    LET r == EncodeAll(p, kids)
    IN  Define(r.p, Expr("ite", kids),
               LAMBDA lit : IteClauses(r.lits[1], r.lits[2], r.lits[3], lit))

(* encode_expr: a literal equivalent to e.                                 *)
EncodeExpr(p, e) ==
    CASE e.op = "true" -> LiteralConst(p, TRUE)
      [] e.op = "false" -> LiteralConst(p, FALSE)
      [] e.op = "atom" -> AtomLit(p, e.atom)
      [] e.op = "not" -> LET r == EncodeExpr(p, e.kids[1]) IN [r EXCEPT !.lit = -@]
      [] e.op = "and" -> EncodeAnd(p, e.kids)
      [] e.op = "or" -> EncodeOr(p, e.kids)
      [] e.op = "iff" -> EncodeIff(p, e.kids)
      [] e.op = "ite" -> EncodeIte(p, e.kids)

-----------------------------------------------------------------------------
(* add_assertion: the literal of the assertion is a unit clause.           *)
AddUnit(r, sign) == AddClause(r.p, <<sign * r.lit>>)

AddAssertion(p, e) == AddUnit(EncodeExpr(p, e), 1)

(* The clauses of a chain of equivalences whose literals are known.        *)
IffUnits(lits) ==
    FlattenSeq([i \in DOMAIN lits |->
                   IF i = 1 THEN <<>> ELSE <<<<-lits[1], lits[i]>>, <<lits[1], -lits[i]>>>>])

(* add_direct_assertion_with_negated_root and add_direct_negated_assertion:*)
(* the root needs no variable of its own.  "sign" is -1 below an odd       *)
(* number of negations, which are followed only if negatedRoot says so.    *)
RECURSIVE AddDirect(_, _, _, _), AddDirectAll(_, _, _, _)
AddDirectAll(p, kids, sign, negatedRoot) ==
    IF kids = <<>> \/ p.aborted THEN p
    ELSE AddDirectAll(AddDirect(p, Head(kids), sign, negatedRoot), Tail(kids), sign, negatedRoot)

AddDirect(p, e, sign, negatedRoot) ==
    LET EachKid == AddDirectAll(p, e.kids, sign, negatedRoot)
        OneClause ==
            LET r == EncodeAll(p, e.kids)
            IN  AddClause(r.p, [i \in DOMAIN r.lits |-> sign * r.lits[i]])
    IN  CASE e.op \in {"true", "false"} ->
                 IF (e.op = "true") = (sign = 1) THEN p ELSE AddClause(p, <<>>)
          [] e.op = "atom" -> AddUnit(AtomLit(p, e.atom), sign)
          [] e.op = "not" ->
                 IF negatedRoot THEN AddDirect(p, e.kids[1], -sign, TRUE)
                 ELSE AddUnit(EncodeExpr(p, e.kids[1]), -1)
          [] e.op = "and" -> IF sign = 1 THEN EachKid ELSE OneClause
          [] e.op = "or" -> IF sign = 1 THEN OneClause ELSE EachKid
          [] e.op = "iff" ->
                 IF sign = 1
                 THEN LET r == EncodeAll(p, e.kids) IN AddClauses(r.p, IffUnits(r.lits))
                 ELSE AddUnit(EncodeExpr(p, e), -1)
          [] e.op = "ite" ->
                 IF sign = 1
                 THEN LET r == EncodeAll(p, e.kids)
                      IN  AddClauses(r.p, <<<<-r.lits[1], r.lits[2]>>,
                                            <<r.lits[1], r.lits[3]>>>>)
                 ELSE AddUnit(EncodeExpr(p, e), -1)

(* The form of the root: "tseitin", "direct", or "negated" for direct with *)
(* direct_negated_root.                                                    *)
AddRoot(p, e, root) ==
    IF root = "tseitin" THEN AddAssertion(p, e)
    ELSE AddDirect(p, e, 1, root = "negated")

(* atomize_bool_data_terms: a variable for every Boolean term used as data.*)
AtomizeBoolData(p, dataTerms) ==
    FoldLeft(LAMBDA q, t : AtomLit(q, BoolAtom(t)).p, p, dataTerms)
=============================================================================
