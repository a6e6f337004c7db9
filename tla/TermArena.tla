----------------------------- MODULE TermArena ------------------------------
(***************************************************************************)
(* The arena of the terms of a problem, its atoms and its BoolExprs.  A    *)
(* BoolExpr is a record of its operator, its atom if it is one, and its    *)
(* children.                                                               *)
(***************************************************************************)
EXTENDS Integers, Sequences, FiniteSets, SequencesExt

CONSTANTS
    DataTerm,    \* TermIds of the sorts other than Bool, numbers
    BoolTerm,    \* TermIds of sort Bool, true_term and false_term among them
    Apps,        \* TermArena.apps: the applications, in creation order
    FunOf,       \* FunOf[t]: the head symbol of application t
    ArgsOf,      \* ArgsOf[t]: its arguments
    TrueTerm,
    FalseTerm

Term == DataTerm \cup BoolTerm
AppTerm == {Apps[i] : i \in DOMAIN Apps}

ASSUME FormulaAssumption ==
    /\ DataTerm \subseteq Nat /\ BoolTerm \subseteq Nat
    /\ Apps \in Seq(Term)
    /\ DOMAIN FunOf = AppTerm
    /\ ArgsOf \in [AppTerm -> Seq(Term)]
    /\ {TrueTerm, FalseTerm} \subseteq BoolTerm

(* normalized_pair *)
Pair(s, t) == IF s <= t THEN <<s, t>> ELSE <<t, s>>

EqAtom(s, t) == [kind |-> "Eq", left |-> s, right |-> t]
BoolAtom(t) == [kind |-> "BoolTerm", left |-> t, right |-> t]
NoAtom == [kind |-> "None", left |-> TrueTerm, right |-> TrueTerm]

(* The form in which atom_lit looks an atom up.                            *)
Normalized(atom) ==
    LET pair == Pair(atom.left, atom.right)
    IN  [atom EXCEPT !.left = pair[1], !.right = pair[2]]

Expr(op, kids) == [op |-> op, atom |-> NoAtom, kids |-> kids]
Const(value) == Expr(IF value THEN "true" ELSE "false", <<>>)
AtomExpr(atom) == [op |-> "atom", atom |-> atom, kids |-> <<>>]

AtomHolds(V, atom) ==
    IF atom.kind = "Eq" THEN V[atom.left] = V[atom.right] ELSE V[atom.left] = TrueTerm

(* Every atom CnfProblem can have, in the form atom_lit gives it.          *)
Atoms ==
    {EqAtom(p[1], p[2]) : p \in {q \in (DataTerm \X DataTerm) \cup (BoolTerm \X BoolTerm) :
                                     q[1] <= q[2]}}
    \cup {BoolAtom(t) : t \in BoolTerm}
=============================================================================
