------------------------------ MODULE Formula ------------------------------
(***************************************************************************)
(* The Boolean problem that the front end hands to the solver (BoolProblem *)
(* over a TermArena), and what it means.                                   *)
(*                                                                         *)
(* A structure of QF_UF with two Boolean values gives every term a value;  *)
(* as only the sharing of values matters, the value of a data term is the  *)
(* first term that shares it, that of a Boolean term one of the arena's    *)
(* terms for true and false.                                               *)
(***************************************************************************)
EXTENDS TermArena

-----------------------------------------------------------------------------
(* The value of an expression when its atoms have the values of the        *)
(* function truth.  Iff is the chainable equality of its children.         *)
RECURSIVE Value(_, _)
Value(truth, e) ==
    CASE e.op = "true" -> TRUE
      [] e.op = "false" -> FALSE
      [] e.op = "atom" -> truth[Normalized(e.atom)]
      [] e.op = "not" -> ~Value(truth, e.kids[1])
      [] e.op = "and" -> \A i \in DOMAIN e.kids : Value(truth, e.kids[i])
      [] e.op = "or" -> \E i \in DOMAIN e.kids : Value(truth, e.kids[i])
      [] e.op = "iff" -> \A i, j \in DOMAIN e.kids :
                             Value(truth, e.kids[i]) = Value(truth, e.kids[j])
      [] e.op = "ite" -> IF Value(truth, e.kids[1]) THEN Value(truth, e.kids[2])
                                                    ELSE Value(truth, e.kids[3])

RECURSIVE AtomsOf(_)
AtomsOf(e) ==
    IF e.op = "atom" THEN {Normalized(e.atom)}
    ELSE UNION {AtomsOf(e.kids[i]) : i \in DOMAIN e.kids}

-----------------------------------------------------------------------------
(* The structures over the terms of an arena, term by term: an application *)
(* of arguments equal to those of an earlier one has its value, any other  *)
(* term the value of an earlier one or a value of its own.  Those that     *)
(* make a pair of "different" equal are given up at once.                  *)
RECURSIVE Extended(_, _, _)
Extended(structures, terms, different) ==
    LET t == Head(terms)
        Like(V) == {u \in DOMAIN V \cap AppTerm :
                       /\ t \in AppTerm /\ FunOf[u] = FunOf[t]
                       /\ [i \in DOMAIN ArgsOf[u] |-> V[ArgsOf[u][i]]]
                            = [i \in DOMAIN ArgsOf[t] |-> V[ArgsOf[t][i]]]}
        Options(V) ==
            IF t \in {TrueTerm, FalseTerm} THEN {t}
            ELSE IF Like(V) # {} THEN {V[u] : u \in Like(V)}
            ELSE IF t \in BoolTerm THEN {TrueTerm, FalseTerm}
            ELSE {t} \cup {V[u] : u \in DOMAIN V \cap DataTerm}
        Apart(V) == \A pair \in different :
                        {pair[1], pair[2]} \subseteq DOMAIN V => V[pair[1]] # V[pair[2]]
    IN  IF terms = <<>> THEN structures
        ELSE Extended({V \in UNION {{[s \in DOMAIN W \cup {t} |-> IF s = t THEN value ELSE W[s]] :
                                         value \in Options(W)} : W \in structures} : Apart(V)},
                      Tail(terms), different)

(* The elements of a set in some order, and numbers in rising order.       *)
RECURSIVE Listed(_), Ascending(_)
Listed(S) ==
    IF S = {} THEN <<>> ELSE LET x == CHOOSE y \in S : TRUE IN <<x>> \o Listed(S \ {x})

Ascending(S) ==
    IF S = {} THEN <<>>
    ELSE LET least == CHOOSE x \in S : \A y \in S : x <= y IN <<least>> \o Ascending(S \ {least})

(* The terms of an arena, arguments before their applications.             *)
InOrder(arena) ==
    Listed(arena \ AppTerm) \o SelectSeq(Apps, LAMBDA t : t \in arena)

StructuresOver(arena, different) == Extended({<<>>}, InOrder(arena), different)
==============================================================================
