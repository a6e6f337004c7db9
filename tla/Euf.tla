-------------------------------- MODULE Euf --------------------------------
(***************************************************************************)
(* The ground part of a problem as the theory solver sees it: the hash     *)
(* consed term arena (TermArena), the atom behind each CNF variable        *)
(* (CnfProblem.var_atoms), and what it means, in the logic QF_UF, for an   *)
(* assignment of the variables to be satisfiable.                          *)
(*                                                                         *)
(* A structure for QF_UF gives every term a value, and equal arguments     *)
(* give equal applications; conversely a valuation of the arena with that  *)
(* property extends to a structure.  Only which terms share a value        *)
(* matters, so a value is written as one chosen term that has it.          *)
(***************************************************************************)
EXTENDS Integers, Sequences, FiniteSets

CONSTANTS
    Term,        \* TermId: the terms of the arena
    Fun,         \* SymId: the function symbols of the applications
    Apps,        \* TermArena.apps: applications, in creation order
    FunOf,       \* FunOf[t]: the head symbol of application t
    ArgsOf,      \* ArgsOf[t]: the arguments of application t, a sequence
    TrueTerm,    \* the term that stands for the Boolean constant true
    FalseTerm,   \* the term that stands for the Boolean constant false
    NumVars      \* CnfProblem.var_count()

Var == 1..NumVars
AppTerm == {Apps[i] : i \in DOMAIN Apps}
Literal == {v : v \in Var} \cup {-v : v \in Var}

(* An atom is an equality, a Boolean term, or absent: the variable is then *)
(* one the Tseitin encoding introduced.                                    *)
Atom == [kind : {"Eq", "BoolTerm", "None"}, left : Term, right : Term]

ASSUME ArenaAssumption ==
    /\ Apps \in Seq(Term)
    /\ FunOf \in [AppTerm -> Fun]
    /\ ArgsOf \in [AppTerm -> Seq(Term)]
    /\ TrueTerm \in Term
    /\ FalseTerm \in Term
    /\ NumVars \in Nat

-----------------------------------------------------------------------------
(* Equal arguments under V give equal values of the two applications.      *)
SameUnder(V, s, t) ==
    /\ FunOf[s] = FunOf[t]
    /\ [i \in DOMAIN ArgsOf[s] |-> V[ArgsOf[s][i]]]
         = [i \in DOMAIN ArgsOf[t] |-> V[ArgsOf[t][i]]]

IsCongruent(V) == \A s, t \in AppTerm : SameUnder(V, s, t) => V[s] = V[t]

Representative(S) == CHOOSE u \in S : TRUE

Valuations ==
    {V \in [Term -> Term] :
        \A t \in Term : V[t] = Representative({u \in Term : V[u] = V[t]})}

(* Written as an image, which TLC evaluates once.                          *)
Interpretations == {V : V \in {W \in Valuations : IsCongruent(W)}}

(* V satisfies variable v having the value val, for the atom of v.         *)
Satisfies(V, atom, val) ==
    \/ atom.kind = "None"
    \/ atom.kind = "Eq" /\ ((val = 1) <=> V[atom.left] = V[atom.right])
    \/ /\ atom.kind = "BoolTerm"
       /\ V[atom.left] = V[IF val = 1 THEN TrueTerm ELSE FalseTerm]

(* A total assignment is consistent with QF_UF when an interpretation that *)
(* tells true from false satisfies all its literals.                       *)
Consistent(atoms, values) ==
    \E V \in Interpretations :
        /\ V[TrueTerm] # V[FalseTerm]
        /\ \A v \in Var : Satisfies(V, atoms[v], values[v])

(* A clause, as a set of literals, is a lemma of QF_UF over these atoms    *)
(* when no interpretation makes every one of its literals false.  A false  *)
(* literal l is its variable having the value of the opposite sign.        *)
ValidLemma(atoms, clause) ==
    \A V \in Interpretations :
        V[TrueTerm] # V[FalseTerm] =>
            ~ \A l \in clause :
                Satisfies(V, atoms[IF l > 0 THEN l ELSE -l], IF l > 0 THEN -1 ELSE 1)
=============================================================================
