---------------------------- MODULE FiniteDomain ----------------------------
(***************************************************************************)
(* add_finite_domain_axioms: a problem whose assertions make some terms    *)
(* range over a finite domain gets one variable for each term and value,   *)
(* and clauses that say so: one value each, equal arguments equal values,  *)
(* and what the values say of the equalities and predicates of the CNF.    *)
(* Where the assertions do not distinguish the values, clauses that break  *)
(* the symmetry.                                                           *)
(*                                                                         *)
(* The call is one sequential program; each action is one of its phases.   *)
(* A problem lives in an arena of its own, a part of the terms declared.   *)
(***************************************************************************)
EXTENDS CnfEncoding, FiniteAnalysis

CONSTANTS
    Problems,             \* [arena, assertions]
    Configs,              \* the settings, see ConfigType
    MaxDomain,            \* the largest domain without symmetry breaking (8)
    MaxSymmetricDomain,   \* EUF_VIPER_FINITE_DOMAIN_MAX (11)
    LexMinDomain,         \* EUF_VIPER_FINITE_LEX_MIN_DOMAIN (8)
    DiagonalDomain,       \* finite_hybrid_uses_diagonal: the size (11) and
    DiagonalFunctions     \*   the number of tables (3) it is meant for

(* EUF_VIPER_FINITE_EQUALITY_CHANNELING, .._PREDICATE_CHANNELING,          *)
(* .._SYMMETRY ("off" for arenas below its minimum) and                    *)
(* .._PERMUTATION_SUPPORT.                                                 *)
ConfigType ==
    [equalities : {"off", "value", "all"}, predicates : BOOLEAN,
     symmetry : {"off", "constants", "hybrid", "lex"},
     support : {"none", "focused", "all"}]

ASSUME FiniteDomainAssumption ==
    /\ Configs \subseteq ConfigType
    /\ \A p \in Problems : p.arena \subseteq Term

VARIABLES
    problem, config, pc, cnf,
    domain,          \* the values, in the order of the terms
    diseqs,          \* mandatory_disequalities
    covered, closed, finite,
    swaps,           \* the verified swap maps of neighbouring values
    original,        \* the equality variables and predicates before the axioms
    membership,      \* the variable of each finite term and value
    support,         \* what add_permutation_support found
    rowClauses,      \* history: the number of clauses of the rows
    equalitiesComplete, predicatesComplete

analysis == <<domain, diseqs, covered, closed, finite, swaps>>
flags == <<equalitiesComplete, predicatesComplete>>
input == <<problem, config>>
vars == <<input, pc, cnf, analysis, original, membership, support, rowClauses, flags>>

Values == {domain[i] : i \in DOMAIN domain}

NoSupport == [edges |-> {}, selected |-> FALSE, cliques |-> <<>>, truncated |-> FALSE]

Init ==
    /\ problem \in Problems
    /\ config \in Configs
    /\ pc = "encode"
    /\ cnf = EmptyProblem
    /\ domain = <<>> /\ diseqs = {} /\ covered = {} /\ closed = {} /\ finite = {}
    /\ swaps = <<>>
    /\ original = [equalities |-> {}, predicates |-> {}]
    /\ membership = <<>>
    /\ support = NoSupport
    /\ rowClauses = 0
    /\ equalitiesComplete = FALSE /\ predicatesComplete = FALSE

Encode ==
    /\ pc = "encode"
    /\ cnf' = AddDirectAll(cnf, problem.assertions, 1, TRUE)
    /\ pc' = "domain"
    /\ UNCHANGED <<input, analysis, original, membership, support, rowClauses, flags>>

-----------------------------------------------------------------------------
NoTerm == -1

(* arena.interned                                                          *)
Interned(arena, f, args) ==
    LET hits == {u \in arena \cap AppTerm : FunOf[u] = f /\ ArgsOf[u] = args}
    IN  IF hits = {} THEN NoTerm ELSE CHOOSE u \in hits : TRUE

(* term_map_under_swap: the term with two constants exchanged.             *)
RECURSIVE Swapped(_, _, _, _)
Swapped(arena, a, b, t) ==
    IF t = a THEN b ELSE IF t = b THEN a
    ELSE IF IsNullary(t) THEN t
    ELSE LET args == [i \in DOMAIN ArgsOf[t] |-> Swapped(arena, a, b, ArgsOf[t][i])]
         IN  IF \E i \in DOMAIN args : args[i] = NoTerm THEN NoTerm
             ELSE Interned(arena, FunOf[t], args)

SwapMap(arena, a, b) == [t \in arena |-> Swapped(arena, a, b, t)]

(* canonical_bool_id: an expression under a map of its terms, up to the    *)
(* order of equalities and of children, except those of an Ite.            *)
RECURSIVE Form(_, _)
Form(map, e) ==
    LET atom == Normalized([e.atom EXCEPT !.left = map[@], !.right = map[@]])
        KidForm(i) == [at |-> IF e.op = "ite" THEN i ELSE 0, form |-> Form(map, e.kids[i])]
        forms == [i \in DOMAIN e.kids |-> KidForm(i)]
    IN  [op |-> e.op, atom |-> IF e.op = "atom" THEN atom ELSE NoAtom,
         kids |-> [k \in {forms[i] : i \in DOMAIN forms} |->
                      Cardinality({i \in DOMAIN forms : forms[i] = k})]]

(* canonical_assertion_ids, as if the assertions were one conjunction.     *)
Invariant(map, assertions) ==
    /\ \A t \in DOMAIN map : map[t] # NoTerm
    /\ Form(map, Expr("and", assertions))
         = Form([t \in DOMAIN map |-> t], Expr("and", assertions))

(* verified_domain_swap_maps: all the neighbouring swaps, or none.         *)
VerifiedSwaps(arena, assertions, values) ==
    LET maps == [i \in 1..(Len(values) - 1) |-> SwapMap(arena, values[i], values[i + 1])]
    IN  IF \A i \in DOMAIN maps : Invariant(maps[i], assertions) THEN maps ELSE <<>>

Return == /\ pc' = "done"
          /\ UNCHANGED <<input, cnf, original, membership, support, rowClauses, flags>>

(* domain_analysis, finite_closure and the symmetry check: a domain of the *)
(* right size and a closed function, or there is nothing to add.           *)
Analyse ==
    /\ pc = "domain"
    /\ diseqs' = MandatoryDisequalities(problem.assertions)
    /\ \E choice \in DomainChoices(diseqs') : domain' = Ascending(choice)
    /\ LET n == Len(domain')
           values == {domain'[i] : i \in DOMAIN domain'}
           max == IF config.symmetry = "off" THEN MaxDomain ELSE MaxSymmetricDomain
           terms == CoveredTerms(problem.assertions, problem.arena, values)
           functions == ClosedFunctions(values, terms)
           maps == IF config.symmetry = "off" THEN <<>>
                   ELSE VerifiedSwaps(problem.arena, problem.assertions, domain')
       IN  IF n < 3 \/ n > max \/ functions = {}
              \/ (config.symmetry # "off" /\ n > MaxDomain /\ maps = <<>>)
           THEN Return /\ UNCHANGED <<covered, closed, finite, swaps>>
           ELSE /\ covered' = terms /\ closed' = functions /\ swaps' = maps
                /\ finite' = FiniteTerms(problem.arena, functions, values \cup terms)
                /\ pc' = "rows"
                /\ UNCHANGED <<input, cnf, original, membership, support, rowClauses, flags>>

-----------------------------------------------------------------------------
Pairs(n) == FlattenSeq([i \in 1..n |-> [k \in 1..(n - i) |-> <<i, i + k>>]])

RECURSIVE AddAtoms(_, _)
AddAtoms(p, atoms) ==
    IF atoms = <<>> \/ p.aborted THEN p ELSE AddAtoms(AtomLit(p, Head(atoms)).p, Tail(atoms))

MemberAtom(t, value) == Normalized(EqAtom(t, value))

(* A value is itself and no other one; another term has exactly one.       *)
RowClauses(member, t) ==
    LET n == Len(domain)
        lits == [i \in 1..n |-> member[t, domain[i]]]
        pairs == Pairs(n)
    IN  IF t \in Values
        THEN [i \in 1..n |-> <<IF domain[i] = t THEN lits[i] ELSE -lits[i]>>]
        ELSE <<lits>> \o [k \in DOMAIN pairs |-> <<-lits[pairs[k][1]], -lits[pairs[k][2]]>>]

(* The variables of the finite terms and their rows, in the term order.    *)
Rows ==
    /\ pc = "rows"
    /\ original' =
           [equalities |-> {v \in 1..VarCount(cnf) : cnf.atoms[v].kind = "Eq"},
            predicates |-> {cnf.atoms[v].left : v \in {w \in 1..VarCount(cnf) :
                                 cnf.atoms[w].kind = "BoolTerm"
                                 /\ ~IsNullary(cnf.atoms[w].left)}}]
    /\ LET terms == Ascending(finite)
           atoms == FlattenSeq([i \in DOMAIN terms |->
                        [k \in DOMAIN domain |-> MemberAtom(terms[i], domain[k])]])
           p == AddAtoms(cnf, atoms)
           member == [pair \in finite \X Values |->
                         VarOfAtom(p, MemberAtom(pair[1], pair[2]))]
       IN  /\ membership' = member
           /\ cnf' = AddClauses(p, FlattenSeq([i \in DOMAIN terms |->
                                                  RowClauses(member, terms[i])]))
    /\ rowClauses' = Len(cnf'.added) - Len(cnf.added)
    /\ pc' = "support"
    /\ UNCHANGED <<input, analysis, support, flags>>

(* add_permutation_support: as many different terms as values take each    *)
(* value once.                                                             *)
Support ==
    /\ pc = "support"
    /\ LET n == Len(domain)
           guarded == GuardedEdges(problem.assertions, Values, diseqs)
           others == finite \ Values
           edges == {e \in diseqs \cup guarded : {e[1], e[2]} \subseteq others}
           selected ==
               /\ config.support # "none"
               /\ \/ config.support = "all" \/ Cardinality(closed) = 1
                  \/ Cardinality(Vertices(guarded)) = n
               /\ config.support = "focused" => HasCliqueCore(edges, n)
           found == CliquesOfSize(edges, n)
           Columns(clique) ==
               LET terms == Ascending(clique)
               IN  [i \in 1..n |-> [k \in DOMAIN terms |-> membership[terms[k], domain[i]]]]
       IN  IF selected
           THEN /\ support' = [edges |-> edges, selected |-> TRUE,
                               cliques |-> found.cliques, truncated |-> found.truncated]
                /\ cnf' = AddClauses(cnf, FlattenSeq([i \in DOMAIN found.cliques |->
                                                         Columns(found.cliques[i])]))
           ELSE support' = [NoSupport EXCEPT !.edges = edges] /\ UNCHANGED cnf
    /\ pc' = "symmetry"
    /\ UNCHANGED <<input, analysis, original, membership, rowClauses, flags>>

-----------------------------------------------------------------------------
(* add_finite_constant_symmetry_breaking: a covered constant takes a value *)
(* only if an earlier one takes the value before it.                       *)
ConstantClauses ==
    LET constants == Ascending({t \in covered : IsNullary(t)})
        n == Len(domain)
        M(j, k) == membership[constants[j], domain[k]]
        Highest(j) == Min({j, n})
        Clause(j, k) ==
            IF k > Highest(j) THEN <<-M(j, k)>>
            ELSE <<-M(j, k)>> \o [e \in 1..(j - 1) |-> M(e, k - 1)]
    IN  IF constants = <<>> THEN <<>>
        ELSE <<<<M(1, 1)>>>> \o FlattenSeq([j \in DOMAIN constants |->
                                               [k \in 1..(n - 1) |-> Clause(j, k + 1)]])

(* finite_diagonal_terms with rank 1: f(v, ..., v) of the second closed    *)
(* function for every value v; <<>> for None.                              *)
DiagonalTerms ==
    LET functions == Ascending(closed)
        Entry(f, value) ==
            LET arity == Len(ArgsOf[CHOOSE t \in covered \cap AppTerm : FunOf[t] = f])
            IN  Interned(problem.arena, f, [i \in 1..arity |-> value])
        terms == [i \in DOMAIN domain |-> Entry(functions[2], domain[i])]
    IN  IF Len(functions) < 2 THEN <<>>
        ELSE IF \A i \in DOMAIN terms : terms[i] \in covered THEN terms ELSE <<>>

(* add_finite_diagonal_ordered_range: the entry of the i-th value is at    *)
(* most the value after it.                                                *)
DiagonalClauses ==
    LET n == Len(domain)
        terms == DiagonalTerms
    IN  FlattenSeq([i \in DOMAIN terms |->
            [k \in 1..(n - Min({i + 1, n})) |-> <<-membership[terms[i], domain[k + Min({i + 1, n})]]>>]])

(* add_lex_less_or_equal: left <= right bit by bit, with a variable for    *)
(* "equal so far" between one bit and the next.  prefix is 0 for None, the *)
(* bits are negated variables.                                             *)
RECURSIVE LexFrom(_, _, _)
LexFrom(p, comparison, prefix) ==
    LET l == Head(comparison).left
        r == Head(comparison).right
        next == VarCount(p) + 1
        If(lits) == IF prefix = 0 THEN lits ELSE <<-prefix>> \o lits
        same == Expr("iff", <<p.means[-l], p.means[-r]>>)
        meaning == IF prefix = 0 THEN same ELSE Expr("and", <<p.means[prefix], same>>)
        first == AddClause(p, If(<<-l, r>>))
        links == (IF prefix = 0 THEN <<>> ELSE <<<<-next, prefix>>>>)
                 \o <<<<-next, -l, r>>, <<-next, l, -r>>,
                      If(<<-l, -r, next>>), If(<<l, r, next>>)>>
    IN  IF Len(comparison) = 1 \/ first.aborted THEN first
        ELSE LexFrom(AddClauses(NewVar(first, NoAtom, meaning), links), Tail(comparison), next)

AddLex(p, comparison) ==
    LET bits == SelectSeq(comparison, LAMBDA bit : bit.left # bit.right)
    IN  IF bits = <<>> THEN p ELSE LexFrom(p, bits, 0)

(* The covered terms in the order of the comparison: the terms of the      *)
(* diagonal, the other constants, the rest.                                *)
LexTerms(priority) ==
    LET rest == covered \ {priority[i] : i \in DOMAIN priority}
    IN  priority \o Ascending({t \in rest : IsNullary(t)})
                 \o Ascending({t \in rest : ~IsNullary(t)})

(* Faulty: the values are not mapped along with the terms.                 *)
LexComparisonOfTerms(terms, map) ==
    FlattenSeq([i \in DOMAIN terms |->
        [k \in DOMAIN domain |->
            [left |-> -membership[terms[i], domain[k]],
             right |-> -membership[map[terms[i]], domain[k]]]]])

(* The one-hot bits of a table, negated so that lower values come first,   *)
(* against those of the table under a swap.                                *)
LexComparison(terms, map) ==
    FlattenSeq([i \in DOMAIN terms |->
        [k \in DOMAIN domain |->
            [left |-> -membership[terms[i], domain[k]],
             right |-> -membership[map[terms[i]], map[domain[k]]]]]])

RECURSIVE AddLexLeaders(_, _, _)
AddLexLeaders(p, terms, maps) ==
    IF maps = <<>> THEN p
    ELSE AddLexLeaders(AddLex(p, LexComparison(terms, Head(maps))), terms, Tail(maps))

(* add_finite_table_lex_leaders                                            *)
TableLexLeaders(p, priority) ==
    LET terms == LexTerms(priority)
    IN  IF \E i \in DOMAIN swaps : \E t \in covered : swaps[i][t] \notin covered THEN p
        ELSE AddLexLeaders(p, terms, swaps)

UsesDiagonal ==
    /\ config.symmetry = "hybrid"
    /\ Len(domain) = DiagonalDomain /\ Cardinality(closed) = DiagonalFunctions
    /\ original.predicates = {}

BreakSymmetry ==
    /\ pc = "symmetry"
    /\ cnf' =
           IF swaps = <<>> THEN cnf
           ELSE IF UsesDiagonal
           THEN LET p == AddClauses(cnf, DiagonalClauses)
                IN  IF DiagonalTerms = <<>> THEN p ELSE TableLexLeaders(p, DiagonalTerms)
           ELSE LET p == AddClauses(cnf, ConstantClauses)
                IN  IF config.symmetry \in {"hybrid", "lex"} /\ Len(domain) >= LexMinDomain
                    THEN TableLexLeaders(p, <<>>) ELSE p
    /\ pc' = "predicates"
    /\ UNCHANGED <<input, analysis, original, membership, support, rowClauses, flags>>

-----------------------------------------------------------------------------
(* domain_tuples_for_args: the values the arguments can have.              *)
TuplesFor(args) ==
    {tuple \in [DOMAIN args -> Values] :
        \A i \in DOMAIN args : args[i] \in Values => tuple[i] = args[i]}

(* The arguments that must have a value for the entry to be theirs.        *)
ConditionsFor(args, tuple) ==
    {-membership[args[i], tuple[i]] : i \in {k \in DOMAIN args : args[k] # tuple[k]}}

(* The clauses of a set of sets of literals, in some order.                *)
AsClauses(sets) ==
    LET list == Listed({s \in sets : ~\E l \in s : -l \in s})
    IN  [i \in DOMAIN list |-> Ascending(list[i])]

(* The entries (application, its tuple, the table's term for it).          *)
EntriesOf(terms) ==
    {<<t, tuple, Interned(problem.arena, FunOf[t], tuple)>> :
        <<t, tuple>> \in UNION {{t} \X TuplesFor(ArgsOf[t]) : t \in terms}}

Ready == {t \in original.predicates : ArgSet(t) \subseteq finite}

(* Faulty: a predicate that the table lacks is passed over in silence.     *)
CompleteButForEntries == original.predicates # {} /\ Ready = original.predicates

PredicatesComplete ==
    /\ original.predicates # {} /\ Ready = original.predicates
    /\ \A e \in EntriesOf(Ready) : e[3] # NoTerm

(* add_finite_predicate_channeling: a predicate of finite arguments is     *)
(* equivalent to its table's entry for their values.  It is complete if    *)
(* all arguments are finite and all entries are terms.                     *)
ChannelPredicates ==
    /\ pc = "predicates"
    /\ LET entries == {e \in EntriesOf(Ready) : e[3] # NoTerm}
           p == AddAtoms(cnf, Listed({BoolAtom(e[3]) : e \in entries}))
           Var(t) == VarOfAtom(p, BoolAtom(t))
           clauses == UNION {{ConditionsFor(ArgsOf[e[1]], e[2]) \cup {-Var(e[1]), Var(e[3])},
                              ConditionsFor(ArgsOf[e[1]], e[2]) \cup {Var(e[1]), -Var(e[3])}} :
                                 e \in {x \in entries : x[1] # x[3]}}
       IN  IF ~config.predicates THEN UNCHANGED <<cnf, predicatesComplete>>
           ELSE /\ cnf' = AddClauses(p, AsClauses(clauses))
                /\ predicatesComplete' = PredicatesComplete
    /\ pc' = "equalities"
    /\ UNCHANGED <<input, analysis, original, membership, support, rowClauses, equalitiesComplete>>

(* An equality of two finite terms is true where their values agree.  With *)
(* all the original equalities channelled, transitivity needs no lemmas.   *)
ChannelEqualities ==
    /\ pc = "equalities"
    /\ LET Left(v) == cnf.atoms[v].left
           Right(v) == cnf.atoms[v].right
           Reflexive(v) == Left(v) = Right(v)
           Finite(v) == {Left(v), Right(v)} \subseteq finite
           direct == \/ config.equalities = "all"
                     \/ config.equalities = "value" /\ original.predicates = {}
           channelled == {v \in original.equalities :
                             ~Reflexive(v) /\ Finite(v) /\ {Left(v), Right(v)} \cap Values = {}}
           L(v, d) == membership[Left(v), d]
           R(v, d) == membership[Right(v), d]
           clauses == {{v} : v \in {w \in original.equalities : Reflexive(w)}}
                      \cup UNION {{{-v, -L(v, d), R(v, d)}, {-v, L(v, d), -R(v, d)},
                                   {-L(v, d), -R(v, d), v}} : v \in channelled, d \in Values}
       IN  /\ cnf' = IF direct THEN AddClauses(cnf, AsClauses(clauses)) ELSE cnf
           /\ equalitiesComplete' =
                  (direct /\ \A v \in original.equalities : Reflexive(v) \/ Finite(v))
    /\ pc' = "tables"
    /\ UNCHANGED <<input, analysis, original, membership, support, rowClauses, predicatesComplete>>

(* The finite applications of closed functions have the value of the       *)
(* entry for the values of their arguments.  A term that is covered itself *)
(* need not have finite arguments: then membership has no variable to look *)
(* up, and the lookup panics.                                              *)
ChannelTables ==
    /\ pc = "tables"
    /\ LET terms == {t \in finite \cap AppTerm : FunOf[t] \in closed}
           entries == {e \in EntriesOf(terms) : e[3] # e[1]}
           clauses == UNION {{ConditionsFor(ArgsOf[e[1]], e[2])
                                \cup {-membership[e[3], out], membership[e[1], out]} :
                                    out \in Values} : e \in entries}
       IN  IF \E t \in terms : ~(ArgSet(t) \subseteq finite)
           THEN pc' = "panicked" /\ UNCHANGED cnf
           ELSE pc' = "done" /\ cnf' = AddClauses(cnf, AsClauses(clauses))
    /\ UNCHANGED <<input, analysis, original, membership, support, rowClauses, flags>>

Stopped == pc \in {"done", "panicked"} /\ UNCHANGED vars

Next ==
    \/ Encode \/ Analyse \/ Rows \/ Support \/ BreakSymmetry
    \/ ChannelPredicates \/ ChannelEqualities \/ ChannelTables
    \/ Stopped

Spec == Init /\ [][Next]_vars

-----------------------------------------------------------------------------
(* The models of the assertions of each problem.                           *)
ModelsOf ==
    [p \in Problems |->
        LET asked == UNION {AtomsOf(p.assertions[i]) : i \in DOMAIN p.assertions}
        IN  {V \in StructuresOver(p.arena, MandatoryDisequalities(p.assertions)) :
                LET truth == [atom \in asked |-> AtomHolds(V, atom)]
                IN  \A i \in DOMAIN p.assertions : Value(truth, p.assertions[i])}]

(* A model of the assertions, as an assignment of the variables.           *)
Assignment(V) ==
    LET atoms == {cnf.atoms[v] : v \in 1..VarCount(cnf)} \ {NoAtom}
        truth == [atom \in atoms |-> AtomHolds(V, atom)]
    IN  [v \in 1..VarCount(cnf) |-> Value(truth, cnf.means[v])]

Satisfies(V) ==
    LET values == Assignment(V)
    IN  \A i \in DOMAIN cnf.added : \E k \in DOMAIN cnf.added[i] : LitTrue(values, cnf.added[i][k])

(* Without symmetry breaking no model of the assertions is lost: all of    *)
(* them keep the finite terms in the domain and satisfy every clause.      *)
(* Symmetry breaking, by constants, lexicographic leaders and the          *)
(* diagonal, each alone or together, leaves one if there was one.  Either  *)
(* way "unsat" is the truth.                                               *)
NoModelIsLost ==
    pc = "done" =>
        LET models == ModelsOf[problem]
        IN  IF swaps = <<>> THEN \A V \in models : Satisfies(V)
                            ELSE models = {} \/ \E V \in models : Satisfies(V)

(* The phases in their order, the terms that range over the domain among  *)
(* those of the problem, no variable without its meaning.                   *)
TypeOK ==
    /\ pc \in {"encode", "domain", "rows", "support", "symmetry", "predicates",
               "equalities", "tables", "done", "panicked"}
    /\ Values \subseteq problem.arena /\ covered \subseteq finite
    /\ Values \subseteq finite \/ finite = {}
    /\ equalitiesComplete \in BOOLEAN /\ predicatesComplete \in BOOLEAN
    /\ Len(cnf.atoms) = Len(cnf.means)

(* The literals are refuted when they make a clause false.                 *)
Refuted(lits) == \E i \in DOMAIN cnf.added : \A k \in DOMAIN cnf.added[i] : -cnf.added[i][k] \in lits

(* The clauses say what the values are: each finite term has exactly one,  *)
(* equal arguments give equal entries, and where a flag calls equalities   *)
(* or predicates complete, their variables follow from the values.  The    *)
(* lemmas that are left out because of the flags would add nothing.        *)
RowsAreExact ==
    \A t \in finite \ Values : \A S \in SUBSET Values :
        Cardinality(S) # 1 =>
            Refuted({IF d \in S THEN membership[t, d] ELSE -membership[t, d] : d \in Values})

TablesAreDecided ==
    pc = "done" /\ finite # {} =>
        /\ RowsAreExact
        /\ LET others == finite \ Values
               terms == {t \in finite \cap AppTerm : FunOf[t] \in closed}
           IN  \A choice \in [others -> Values] :
                LET V(t) == IF t \in Values THEN t ELSE choice[t]
                    lits == {IF V(t) = d THEN membership[t, d] ELSE -membership[t, d] :
                                t \in finite, d \in Values}
                    SameArgs(s, t) == /\ FunOf[s] = FunOf[t]
                                      /\ \A i \in DOMAIN ArgsOf[s] : V(ArgsOf[s][i]) = V(ArgsOf[t][i])
                    Entry(t) == Interned(problem.arena, FunOf[t],
                                         [i \in DOMAIN ArgsOf[t] |-> V(ArgsOf[t][i])])
                    Var(t) == VarOfAtom(cnf, BoolAtom(t))
                IN  \/ Refuted(lits)
                    \/ /\ \A s, t \in terms : SameArgs(s, t) => V(s) = V(t)
                       /\ equalitiesComplete =>
                            \A v \in original.equalities :
                                LET l == cnf.atoms[v].left  r == cnf.atoms[v].right
                                IN  Refuted(lits \cup {IF l = r \/ V(l) = V(r) THEN -v ELSE v})
                       /\ predicatesComplete =>
                            \A t \in original.predicates :
                                Entry(t) # t =>
                                    /\ Entry(t) # NoTerm
                                    /\ Refuted(lits \cup {Var(t), -Var(Entry(t))})
                                    /\ Refuted(lits \cup {-Var(t), Var(Entry(t))})

(* The analysis of the disequalities is right: a graph without the core    *)
(* has no clique of the domain's size (the comment in                      *)
(* candidate_graph_has_clique_core), the search finds every one up to its  *)
(* limit and says when there are more, the greedy bound is one, and the    *)
(* estimate of the profile is what the rows take.                          *)
AnalysisIsRight ==
    /\ TypeOK
    /\ pc = "symmetry" =>
        LET n == Len(domain)
            edges == support.edges
            cliques == {C \in SUBSET Vertices(edges) : Cardinality(C) = n /\ IsClique(edges, C)}
            listed == {support.cliques[i] : i \in DOMAIN support.cliques}
        IN  /\ ~HasCliqueCore(edges, n) => cliques = {}
            /\ support.selected =>
                   /\ listed \subseteq cliques
                   /\ Cardinality(listed) = Len(support.cliques)
                   /\ support.truncated <=> listed # cliques
            /\ \E C \in SUBSET Vertices(edges) : IsClique(edges, C) /\ Cardinality(C) >= GreedyBound(edges)
    /\ pc = "support" =>
        LET n == Len(domain)
            others == Cardinality(finite) - n
        IN  /\ Cardinality({membership[x] : x \in DOMAIN membership}) = OneHotVariables(n, others)
            /\ rowClauses = OneHotClauses(n, others)
=============================================================================
