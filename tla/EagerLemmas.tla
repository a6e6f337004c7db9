---------------------------- MODULE EagerLemmas ----------------------------
(***************************************************************************)
(* The theory lemmas that are written before a solver is asked: the full   *)
(* Ackermann expansion, the transitivity of the equality atoms, and the    *)
(* congruence of applications whose arguments an atom relates.  A lemma    *)
(* of the last two is the set of its literals.                             *)
(***************************************************************************)
EXTENDS CnfProblem

CONSTANTS
    MaxCandidates,      \* MAX_CANDIDATES_PER_APPLICATION (4096)
    CanonicalDegree,    \* degree from which a constant is canonical (16)
    CanonicalCount,     \* canonical values that make the mode canonical (3)
    ManyApps            \* applications that do so without predicates (1000)

(* The variables of the problem whose atom is of a kind.                   *)
VarsOf(p, kind) == {v \in 1..VarCount(p) : p.atoms[v].kind = kind}

EqVars(p) == {v \in VarsOf(p, "Eq") : p.atoms[v].left # p.atoms[v].right}

Arity(t) == Len(ArgsOf[t])
SymbolOf(t) == IF t \in AppTerm THEN <<FunOf[t], Arity(t)>> ELSE <<t, 0>>

-----------------------------------------------------------------------------
(* The functions an application of which is a Boolean atom.                *)
BoolFunctions(p) == {SymbolOf(p.atoms[v].left) : v \in VarsOf(p, "BoolTerm")}

(* The negated equalities of the arguments that differ.                    *)
Conditions(p, s, t) ==
    FoldLeft(LAMBDA done, i :
                 IF ArgsOf[s][i] = ArgsOf[t][i] THEN done
                 ELSE LET r == AtomLit(done.p, EqAtom(ArgsOf[s][i], ArgsOf[t][i]))
                      IN  [p |-> r.p, lits |-> Append(done.lits, -r.lit)],
             [p |-> p, lits |-> <<>>], [i \in 1..Arity(s) |-> i])

(* Equal arguments give equivalent Boolean applications, or equal ones.    *)
AckermannPair(p, isBool, s, t) ==
    LET c == Conditions(p, s, t)
    IN  IF isBool
        THEN LET a == AtomLit(c.p, BoolAtom(s))
                 b == AtomLit(a.p, BoolAtom(t))
                 forward == c.lits \o <<-a.lit, b.lit>>
                 backward == c.lits \o <<a.lit, -b.lit>>
             IN  AddClause(AddClause(b.p, forward), backward)
        ELSE LET e == AtomLit(c.p, EqAtom(s, t))
             IN  AddClause(e.p, Append(c.lits, e.lit))

(* The pairs of applications of one function, in the order of the arena.   *)
AppPairs ==
    LET all == [n \in 1..(Len(Apps) * Len(Apps)) |->
                   <<Apps[((n - 1) \div Len(Apps)) + 1], Apps[((n - 1) % Len(Apps)) + 1]>>]
        Before(p) == \E i, j \in DOMAIN Apps :
                         i < j /\ p = <<Apps[i], Apps[j]>> /\ SymbolOf(p[1]) = SymbolOf(p[2])
    IN  SelectSeq(all, Before)

(* add_full_ackermann_axioms                                               *)
FullAckermann(p) ==
    LET functions == BoolFunctions(p)
    IN  FoldLeft(LAMBDA q, pair :
                     AckermannPair(q, SymbolOf(pair[1]) \in functions, pair[1], pair[2]),
                 p, AppPairs)

-----------------------------------------------------------------------------
(* The edges of the equality graph, as two-element sets.                   *)
EqEdges(p) == {{p.atoms[v].left, p.atoms[v].right} : v \in EqVars(p)}

EdgeVar(p, s, t) == VarOfAtom(p, EqAtom(Pair(s, t)[1], Pair(s, t)[2]))

VarOfEdge(p, edge) ==
    CHOOSE v \in EqVars(p) : {p.atoms[v].left, p.atoms[v].right} = edge

(* Two edges that meet, and the third that closes them.                    *)
Triangles(edges) ==
    {t \in edges \X edges \X edges :
        /\ t[1] # t[2] /\ t[1] \cap t[2] # {}
        /\ t[3] = (t[1] \cup t[2]) \ (t[1] \cap t[2])}

TriangleClause(p, t) ==
    {-VarOfEdge(p, t[1]), -VarOfEdge(p, t[2]), VarOfEdge(p, t[3])}

(* equality_transitivity_clauses: the three clauses of every triangle of   *)
(* atoms, found from its edge of the two lesser terms, and the reflexive   *)
(* equalities.                                                             *)
TransitivityClauses(p) ==
    {TriangleClause(p, t) : t \in Triangles(EqEdges(p))}
        \cup {{v} : v \in VarsOf(p, "Eq") \ EqVars(p)}

-----------------------------------------------------------------------------
(* canonical_value_terms: constants with many equality atoms.              *)
CanonicalValues(p) ==
    {t \in Term \ AppTerm :
        Cardinality({v \in EqVars(p) : t \in {p.atoms[v].left, p.atoms[v].right}})
            >= CanonicalDegree}

HasPredicateApplications(p) ==
    \E v \in VarsOf(p, "BoolTerm") : p.atoms[v].left \in AppTerm

(* The setting of EUF_VIPER_CONGRUENCE_MODE, or the shape of the problem.  *)
CanonicalOnly(p, mode) ==
    \/ mode = "canonical"
    \/ /\ mode = "auto"
       /\ Cardinality(CanonicalValues(p)) >= CanonicalCount
       /\ Len(Apps) > ManyApps \/ HasPredicateApplications(p)

NeighboursOf(p, s) == {t \in Term : \E v \in EqVars(p) :
                           {s, t} = {p.atoms[v].left, p.atoms[v].right}}

(* The argument lists of t with arguments replaced by neighbours, unless   *)
(* there are too many of them.                                             *)
CandidateCount(p, t) ==
    FoldLeft(LAMBDA n, arg : n * (Cardinality(NeighboursOf(p, arg)) + 1), 1, ArgsOf[t])

(* The application that a candidate list makes, if the arena has it.       *)
Partners(p, t) ==
    {u \in AppTerm \ {t} :
        /\ SymbolOf(u) = SymbolOf(t)
        /\ \A i \in 1..Arity(t) :
               ArgsOf[u][i] \in NeighboursOf(p, ArgsOf[t][i]) \cup {ArgsOf[t][i]}}

(* Faulty: an argument list needs one equality, whichever it is.           *)
ArgConditionsOfOne(p, s, t) ==
    LET differ == {j \in 1..Arity(s) : ArgsOf[s][j] # ArgsOf[t][j]}
        first == CHOOSE j \in differ : \A k \in differ : j <= k
    IN  {-EdgeVar(p, ArgsOf[s][first], ArgsOf[t][first])}

ArgConditions(p, s, t) ==
    {-EdgeVar(p, ArgsOf[s][i], ArgsOf[t][i]) :
         i \in {j \in 1..Arity(s) : ArgsOf[s][j] # ArgsOf[t][j]}}

(* The conclusions for two congruent applications that atoms can express.  *)
Conclusions(p, s, t) ==
    LET eq == EqAtom(Pair(s, t)[1], Pair(s, t)[2])
        HasBool(u) == HasAtom(p, BoolAtom(u))
        Var(u) == VarOfAtom(p, BoolAtom(u))
    IN  {c \in {{IF HasAtom(p, eq) THEN VarOfAtom(p, eq) ELSE 0}} : c # {0}}
        \cup IF HasBool(s) /\ HasBool(t)
             THEN {{-Var(s), Var(t)}, {Var(s), -Var(t)}}
             ELSE {}

(* insert_nontautological_clause                                           *)
IsTautology(clause) == \E l \in clause : -l \in clause

(* congruence_axiom_clauses                                                *)
CongruenceClauses(p, mode) ==
    LET canonical == CanonicalValues(p)
        HasCanonicalArgs(t) == \A i \in 1..Arity(t) : ArgsOf[t][i] \in canonical
        Chosen(s) == {t \in Partners(p, s) :
                         CanonicalOnly(p, mode) => HasCanonicalArgs(s) \/ HasCanonicalArgs(t)}
        ClausesOf(s, t) == {ArgConditions(p, s, t) \cup d : d \in Conclusions(p, s, t)}
        sources == {s \in AppTerm : CandidateCount(p, s) <= MaxCandidates}
    IN  {c \in UNION {UNION {ClausesOf(s, t) : t \in Chosen(s)} : s \in sources} :
             ~IsTautology(c)}
=============================================================================
