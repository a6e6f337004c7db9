----------------------------- MODULE CnfProblem -----------------------------
(***************************************************************************)
(* CnfProblem: the CNF under construction.  An operator of a problem       *)
(* returns the problem it leaves, and the literal if it has one.           *)
(*                                                                         *)
(* "means" and "added" are history: what each variable stands for, and the *)
(* clauses the code has pushed.                                            *)
(***************************************************************************)
EXTENDS TermArena, FlatClauses

EmptyProblem ==
    [clauses |-> EmptyStore,
     atoms |-> <<>>,                  \* var_atoms
     trueLit |-> 0,                   \* true_lit, 0 for None
     aborted |-> FALSE,               \* push has panicked
     means |-> <<>>,
     added |-> <<>>]

VarCount(p) == Len(p.atoms)

(* A clause that does not fit ends the program.                            *)
AddClause(p, clause) ==
    IF p.aborted THEN p
    ELSE IF Fits(p.clauses, clause)
         THEN [p EXCEPT !.clauses = Pushed(@, clause), !.added = Append(@, clause)]
         ELSE [p EXCEPT !.aborted = TRUE]

NewVar(p, atom, meaning) ==
    [p EXCEPT !.atoms = Append(@, atom), !.means = Append(@, meaning)]

(* One variable, forced to be true, for both constants.                    *)
LiteralConst(p, value) ==
    LET q == IF p.trueLit # 0 THEN p
             ELSE AddClause([NewVar(p, NoAtom, Const(TRUE)) EXCEPT !.trueLit = VarCount(p) + 1],
                            <<VarCount(p) + 1>>)
    IN  [p |-> q, lit |-> IF value THEN q.trueLit ELSE -q.trueLit]

HasAtom(p, atom) == \E v \in 1..VarCount(p) : p.atoms[v] = atom
VarOfAtom(p, atom) == CHOOSE v \in 1..VarCount(p) : p.atoms[v] = atom

(* The variable of an atom, a new one if it has none yet.                  *)
AtomLit(p, atom) ==
    LET key == Normalized(atom)
    IN  IF HasAtom(p, key)
        THEN [p |-> p, lit |-> VarOfAtom(p, key)]
        ELSE [p |-> NewVar(p, key, AtomExpr(key)), lit |-> VarCount(p) + 1]

-----------------------------------------------------------------------------
(* The clauses that make lit equivalent to an operator of the literals of  *)
(* its children.                                                           *)
Negated(lits) == [i \in DOMAIN lits |-> -lits[i]]

AndClauses(lits, lit) ==
    [i \in DOMAIN lits |-> <<-lit, lits[i]>>] \o <<<<lit>> \o Negated(lits)>>

(* Faulty: a disjunction only implies its children's disjunction.          *)
OrClausesOneSided(lits, lit) == <<<<-lit>> \o lits>>

OrClauses(lits, lit) ==
    [i \in DOMAIN lits |-> <<lit, -lits[i]>>] \o <<<<-lit>> \o lits>>

IffClauses(a, b, lit) ==
    <<<<-lit, -a, b>>, <<-lit, a, -b>>, <<lit, -a, -b>>, <<lit, a, b>>>>

IteClauses(c, t, e, lit) ==
    <<<<-c, -t, lit>>, <<-c, t, -lit>>, <<c, -e, lit>>, <<c, e, -lit>>>>

-----------------------------------------------------------------------------
(* An assignment of the variables satisfies the clauses, or the lemmas as  *)
(* sets of literals.                                                       *)
LitTrue(values, l) == IF l > 0 THEN values[l] ELSE ~values[-l]

SatisfiesClauses(values, clauses) ==
    \A i \in DOMAIN clauses : \E k \in DOMAIN clauses[i] : LitTrue(values, clauses[i][k])

SatisfiesLemmas(values, lemmas) == \A c \in lemmas : \E l \in c : LitTrue(values, l)
=============================================================================
