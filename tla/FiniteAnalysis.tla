--------------------------- MODULE FiniteAnalysis ---------------------------
(***************************************************************************)
(* What the assertions of a problem say of a finite domain: constants that *)
(* must differ, terms that must equal one of them, functions whose tables  *)
(* are covered, and the graph of disequalities among the finite terms.     *)
(* "arena" is the set of the terms the problem has; a graph is a set of    *)
(* pairs in the form Pair gives them.                                      *)
(***************************************************************************)
EXTENDS Formula

CONSTANTS
    CliqueLimit,    \* EUF_VIPER_FINITE_PERMUTATION_CLIQUE_LIMIT
    SeedLimit       \* GUARDED_CLIQUE_SEED_LIMIT (32)

Args(t) == IF t \in AppTerm THEN ArgsOf[t] ELSE <<>>
IsNullary(t) == Args(t) = <<>>
ArgSet(t) == {Args(t)[i] : i \in DOMAIN Args(t)}

IsEq(e) == e.op = "atom" /\ e.atom.kind = "Eq"
IsNegatedEq(e) == e.op = "not" /\ IsEq(e.kids[1])
PairOf(e) == Pair(e.atom.left, e.atom.right)
IsEdge(pair) == pair[1] # pair[2]

(* The conjuncts of an assertion, through nested conjunctions.             *)
RECURSIVE Conjuncts(_)
Conjuncts(e) ==
    IF e.op = "and" THEN UNION {Conjuncts(e.kids[i]) : i \in DOMAIN e.kids} ELSE {e}

ConjunctsOf(assertions) == UNION {Conjuncts(assertions[i]) : i \in DOMAIN assertions}

(* collect_mandatory_disequalities                                         *)
MandatoryDisequalities(assertions) ==
    {edge \in {PairOf(e.kids[1]) : e \in {c \in ConjunctsOf(assertions) : IsNegatedEq(c)}} :
        IsEdge(edge)}

-----------------------------------------------------------------------------
Vertices(edges) == UNION {{edge[1], edge[2]} : edge \in edges}
Neighbours(edges, v) == {w \in Vertices(edges) : Pair(v, w) \in edges}
Degree(edges, v) == Cardinality({edge \in edges : v \in {edge[1], edge[2]}})
IsClique(edges, C) == \A v, w \in C : v # w => Pair(v, w) \in edges

(* The clique that grows from a seed along a list of vertices.             *)
RECURSIVE Grown(_, _, _)
Grown(edges, clique, vertices) ==
    IF vertices = <<>> THEN clique
    ELSE LET v == Head(vertices)
             fits == \A w \in clique : Pair(v, w) \in edges
         IN  Grown(edges, IF fits THEN clique \cup {v} ELSE clique, Tail(vertices))

(* The clique of the first seed that none of the others surpasses.         *)
RECURSIVE BestClique(_, _, _, _)
BestClique(edges, vertices, seeds, best) ==
    IF seeds = <<>> THEN best
    ELSE LET clique == Grown(edges, {Head(seeds)}, vertices)
         IN  BestClique(edges, vertices, Tail(seeds),
                        IF Cardinality(clique) > Cardinality(best) THEN clique ELSE best)

(* largest_small_disequality_clique: constants in falling order of their   *)
(* degrees; those of one degree come in the order of a hash map, any.      *)
DomainChoices(edges) ==
    LET constants == {v \in Vertices(edges) : IsNullary(v)}
        orders == {o \in [1..Cardinality(constants) -> constants] :
                      \A i, k \in DOMAIN o : i < k =>
                          o[i] # o[k] /\ Degree(edges, o[i]) >= Degree(edges, o[k])}
    IN  {BestClique(edges, o, o, {}) : o \in orders}

-----------------------------------------------------------------------------
(* flatten_equality_disjunction                                            *)
RECURSIVE Disjuncts(_)
Disjuncts(e) ==
    IF e.op = "or" THEN UNION {Disjuncts(e.kids[i]) : i \in DOMAIN e.kids} ELSE {e}

(* A disjunction of equalities of one term with every value of the domain. *)
Covers(e, domain, t) ==
    /\ e.op = "or" /\ t \notin domain
    /\ \A d \in Disjuncts(e) : IsEq(d)
    /\ {{d.atom.left, d.atom.right} : d \in Disjuncts(e)} = {{t, value} : value \in domain}

(* collect_mandatory_coverages                                             *)
CoveredTerms(assertions, arena, domain) ==
    {t \in arena : \E e \in ConjunctsOf(assertions) : Covers(e, domain, t)}

(* closed_table_functions: every tuple of the domain has a covered entry.  *)
ClosedFunctions(domain, covered) ==
    LET Entries(f) == {t \in covered \cap AppTerm : FunOf[t] = f /\ ArgSet(t) \subseteq domain}
    IN  {f \in {FunOf[t] : t \in covered \cap AppTerm} :
            \E t \in Entries(f) :
                Cardinality(Entries(f)) = Cardinality(domain) ^ Len(ArgsOf[t])}

(* close_finite_terms: closed functions of finite arguments are finite.    *)
RECURSIVE FiniteTerms(_, _, _)
FiniteTerms(arena, closed, finite) ==
    LET more == {t \in arena \cap AppTerm : FunOf[t] \in closed /\ ArgSet(t) \subseteq finite}
    IN  IF more \subseteq finite THEN finite ELSE FiniteTerms(arena, closed, finite \cup more)

(* guarded_disequality_edge: (or (= u v) (not (= s t))) where u and v are  *)
(* values that must differ says that s and t must.                         *)
GuardedEdge(e, domain, diseqs) ==
    LET Edge(guard, consequence) ==
            IF /\ IsEq(guard) /\ IsNegatedEq(consequence)
               /\ {guard.atom.left, guard.atom.right} \subseteq domain
               /\ PairOf(guard) \in diseqs
               /\ IsEdge(PairOf(consequence.kids[1]))
            THEN {PairOf(consequence.kids[1])} ELSE {}
    IN  IF e.op # "or" \/ Len(e.kids) # 2 THEN {}
        ELSE IF Edge(e.kids[1], e.kids[2]) # {} THEN Edge(e.kids[1], e.kids[2])
        ELSE Edge(e.kids[2], e.kids[1])

(* guarded_summary                                                         *)
GuardedEdges(assertions, domain, diseqs) ==
    UNION {GuardedEdge(e, domain, diseqs) : e \in ConjunctsOf(assertions)}

-----------------------------------------------------------------------------
(* candidate_graph_has_clique_core: vertices of a degree below n - 1 are   *)
(* peeled off; "peel" holds those found so far.                            *)
RECURSIVE Peeled(_, _, _, _)
Peeled(edges, n, degree, peel) ==
    IF peel = {} THEN DOMAIN degree
    ELSE LET v == CHOOSE w \in peel : TRUE
             left == DOMAIN degree \ {v}
             lower == [w \in left |->
                          IF w \in Neighbours(edges, v) THEN degree[w] - 1 ELSE degree[w]]
             fallen == {w \in left : degree[w] = n - 1 /\ lower[w] = n - 2}
         IN  Peeled(edges, n, lower, (peel \ {v}) \cup fallen)

(* Faulty: a vertex of a clique is asked for n neighbours.                 *)
HasCliqueCoreOfDegreeN(edges, n) ==
    LET degree == [v \in Vertices(edges) |-> Degree(edges, v)]
    IN  \/ n < 2
        \/ Cardinality(Peeled(edges, n + 1, degree, {v \in DOMAIN degree : degree[v] < n})) >= n

HasCliqueCore(edges, n) ==
    LET degree == [v \in Vertices(edges) |-> Degree(edges, v)]
    IN  \/ n < 2
        \/ /\ Cardinality(edges) >= (n * (n - 1)) \div 2
           /\ Cardinality(Peeled(edges, n, degree, {v \in DOMAIN degree : degree[v] < n - 1}))
                  >= n

(* cliques_of_size: depth first in the order of the terms.  The clique     *)
(* after the last one allowed ends the search.                             *)
RECURSIVE Search(_, _, _, _, _)
Search(edges, n, current, candidates, found) ==
    IF Cardinality(current) = n
    THEN IF Len(found.cliques) = CliqueLimit THEN [found EXCEPT !.truncated = TRUE]
         ELSE [found EXCEPT !.cliques = Append(@, current)]
    ELSE IF Cardinality(candidates) < n - Cardinality(current) \/ found.truncated THEN found
    ELSE LET v == CHOOSE w \in candidates : \A u \in candidates : w <= u
             next == {w \in candidates \ {v} : Pair(v, w) \in edges}
             with == Search(edges, n, current \cup {v}, next, found)
         IN  Search(edges, n, current, candidates \ {v}, with)

CliquesOfSize(edges, n) ==
    IF n < 2 \/ CliqueLimit = 0
    THEN [cliques |-> <<>>, truncated |-> edges # {} /\ CliqueLimit = 0]
    ELSE Search(edges, n, {}, Vertices(edges), [cliques |-> <<>>, truncated |-> FALSE])

-----------------------------------------------------------------------------
(* FiniteAnalysis, the numbers of the profile that are more than sizes.    *)

(* greedy_clique_lower_bound: seeds in falling order of their degrees.     *)
GreedyBound(edges) ==
    LET Before(v, w) == \/ Degree(edges, v) > Degree(edges, w)
                        \/ Degree(edges, v) = Degree(edges, w) /\ v < w
        vertices == SetToSortSeq(Vertices(edges), Before)
        seeds == SubSeq(vertices, 1, Min({SeedLimit, Len(vertices)}))
    IN  Cardinality(BestClique(edges, vertices, seeds, {}))

(* estimate_one_hot_pressure: the variables and clauses the one-hot        *)
(* encoding of the finite terms takes.                                     *)
OneHotVariables(n, others) == (n * (n + 1)) \div 2 + others * n
OneHotClauses(n, others) == n * n + others * (1 + (n * (n - 1)) \div 2)
=============================================================================
