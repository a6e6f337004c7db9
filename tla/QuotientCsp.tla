---------------------------- MODULE QuotientCsp ----------------------------
(***************************************************************************)
(* solve_bounded_quotient: the reference search for a total finite model   *)
(* of a parsed problem, one domain of values per term.  A node propagates  *)
(* rounds to a fixed point, then tries the values of the smallest open     *)
(* domain: of a sort whose values are interchangeable only the values in   *)
(* use and one new one.  At a leaf the table rows that no term fixes are    *)
(* completed so that no forbidden table results.                           *)
(*                                                                         *)
(* Terms, sorts and symbols count from 1, sort 1 is Bool; values count     *)
(* from 0.  A table lists its results row by row, the last argument        *)
(* varying fastest.                                                        *)
(***************************************************************************)
EXTENDS Integers, Sequences, FiniteSets, SequencesExt

CONSTANT Inputs   \* records [problem, bounds, caps, constraints]

VARIABLES
    call,       \* the arguments: problem, domain_sizes, caps, constraints
    stage,
    prepared,   \* Prepared
    domains,    \* SearchState of the current node
    stack,      \* the decisions above it, each with its untried values
    spent,      \* the counters of QuotientTelemetry that a cap bounds
    result

vars == <<call, stage, prepared, domains, stack, spent, result>>

problem == call.problem
bounds == call.bounds
caps == call.caps

Bool == 1
HardMaxDomainSize == 64
TermIds(p) == DOMAIN p.terms
Declared(p, fun) == fun \in DOMAIN p.decls
SameSort(p, pair) ==
    Range(pair) \subseteq TermIds(p) /\ p.terms[pair[1]].sort = p.terms[pair[2]].sort
IsBoolTerm(p, t) == t \in TermIds(p) /\ p.terms[t].sort = Bool
Assertions(p) == IF p.bool = <<>> THEN <<>> ELSE p.bool[1].assertions

-----------------------------------------------------------------------------
(* prepare refuses a call for any of these reasons.                        *)
BadCaps ==
    \/ caps.domain \notin 1..HardMaxDomainSize
    \/ caps.depth = 0
    \/ caps.group >= HardMaxDomainSize

BadBounds ==
    \/ problem.sorts \notin 1..caps.sorts
    \/ Len(bounds) # problem.sorts
    \/ \E sort \in DOMAIN bounds : bounds[sort] \notin 1..caps.domain
    \/ bounds[Bool] # 2

BadTerm(t) ==
    LET term == problem.terms[t]
    IN  \/ ~Declared(problem, term.fun)
        \/ problem.decls[term.fun].result # term.sort
        \/ Len(problem.decls[term.fun].args) # Len(term.args)
        \/ \E i \in DOMAIN term.args :
              \/ term.args[i] \notin TermIds(problem)
              \/ problem.terms[term.args[i]].sort # problem.decls[term.fun].args[i]

RECURSIVE BadExpr(_), NodesOf(_), DepthOf(_)
BadExpr(e) ==
    CASE e.op = "eq" -> ~SameSort(problem, <<e.left, e.right>>)
      [] e.op = "term" -> ~IsBoolTerm(problem, e.left)
      [] OTHER -> \E i \in DOMAIN e.kids : BadExpr(e.kids[i])
NodesOf(e) == 1 + SumFunction([i \in DOMAIN e.kids |-> NodesOf(e.kids[i])])
DepthOf(e) == 1 + Max({0} \cup {DepthOf(e.kids[i]) : i \in DOMAIN e.kids})

BadProblem ==
    LET asserted == Assertions(problem)
    IN  \/ Len(problem.terms) > caps.terms
        \/ \E t \in TermIds(problem) : BadTerm(t)
        \/ \E pair \in Range(problem.eqs \o problem.diseqs) : ~SameSort(problem, pair)
        \/ \E b \in Range(problem.bool) :
              \/ \E t \in {b.true, b.false} \cup b.data : ~IsBoolTerm(problem, t)
              \/ b.true = b.false
        \/ SumFunction([i \in DOMAIN asserted |-> NodesOf(asserted[i])]) > caps.boolNodes
        \/ \E e \in Range(asserted) : DepthOf(e) > caps.depth \/ BadExpr(e)

(* What the older route could not take is no obstacle once the Boolean     *)
(* syntax tree is complete.                                                *)
UnsupportedReasons(p) ==
    LET complete == \E b \in Range(p.bool) : b.unsupported = {}
    IN  {r \in p.unsupported : ~(complete /\ r = "legacy route")}
            \cup UNION {b.unsupported : b \in Range(p.bool)}

(* checked_tuple_count, and tuple_index counted from 1.                    *)
Cells(decl) == FoldLeft(LAMBDA product, sort : product * bounds[sort], 1, decl.args)
Row(decl, values) ==
    1 + FoldLeft(LAMBDA index, i : index * bounds[decl.args[i]] + values[i],
                 0, [i \in DOMAIN values |-> i])

TooManyCells ==
    \/ Cardinality(DOMAIN problem.decls) > caps.functions
    \/ MapThenSumSet(LAMBDA fun : Cells(problem.decls[fun]), DOMAIN problem.decls) > caps.cells

-----------------------------------------------------------------------------
(* prepare_table_constraints.  Tables given one by one tell values apart,  *)
(* so values of the sorts in the signature are no longer interchangeable;  *)
(* an orbit is closed under all permutations of the values.                *)
BadTable(fun, table) ==
    LET decl == problem.decls[fun]
    IN  Len(table) # Cells(decl) \/ \E value \in Range(table) : value >= bounds[decl.result]

BadConstraint ==
    \/ \E c \in Range(call.constraints.tables) :
          ~Declared(problem, c.fun) \/ \E table \in c.tables : BadTable(c.fun, table)
    \/ \E c \in Range(call.constraints.orbits) :
          \/ ~Declared(problem, c.fun)
          \/ LET decl == problem.decls[c.fun]
             IN  \/ decl.args # <<decl.result, decl.result>>
                 \/ BadTable(c.fun, c.table)
                 \/ Cardinality(Permutations(1..bounds[decl.result])) > caps.permutations

(* conjugate_binary_table; permutation is of 1..size                       *)
Conjugate(table, permutation) ==
    LET size == Cardinality(DOMAIN permutation)
        back == AntiFunction(permutation)
        Moved(value) == permutation[value + 1] - 1
        Origin(value) == back[value + 1] - 1
    IN  [row \in DOMAIN table |->
            Moved(table[Origin((row - 1) \div size) * size + Origin((row - 1) % size) + 1])]

Orbit(c) ==
    {Conjugate(c.table, permutation) :
        permutation \in Permutations(1..bounds[problem.decls[c.fun].result])}

ForbiddenTables ==
    LET explicit == Range(call.constraints.tables)
        orbits == Range(call.constraints.orbits)
        Of(fun) == UNION ({c.tables : c \in {d \in explicit : d.fun = fun}}
                          \cup {Orbit(c) : c \in {d \in orbits : d.fun = fun}})
    IN  [fun \in {c.fun : c \in {d \in explicit : d.tables # {}} \cup orbits} |-> Of(fun)]

TooManyTables ==
    LET forbidden == ForbiddenTables
        Number(fun) == Cardinality(forbidden[fun])
    IN  \/ MapThenSumSet(Number, DOMAIN forbidden) > caps.tables
        \/ MapThenSumSet(LAMBDA fun : Number(fun) * Cells(problem.decls[fun]), DOMAIN forbidden)
              > caps.tableCells

(* Faulty: only the sorts of the arguments.                                *)
LabelledArguments ==
    UNION {Range(problem.decls[c.fun].args) :
              c \in {d \in Range(call.constraints.tables) : d.tables # {}}}

(* symmetry_disabled_sorts                                                 *)
LabelledSorts ==
    UNION {Range(problem.decls[c.fun].args) \cup {problem.decls[c.fun].result} :
              c \in {d \in Range(call.constraints.tables) : d.tables # {}}}

-----------------------------------------------------------------------------
(* What every model must make equal or different, in the order of the      *)
(* pairs.                                                                  *)
OrderedPair(s, t) == IF s <= t THEN <<s, t>> ELSE <<t, s>>
Before(p, q) == p[1] < q[1] \/ (p[1] = q[1] /\ p[2] < q[2])
InOrder(pairs) ==
    [i \in 1..Cardinality(pairs) |->
        CHOOSE p \in pairs : Cardinality({q \in pairs : Before(q, p)}) = i - 1]

RECURSIVE Forced(_, _)
Forced(e, required) ==
    CASE e.op = "eq" -> {[holds |-> required, pair |-> OrderedPair(e.left, e.right)]}
      [] e.op = "not" -> Forced(e.kids[1], ~required)
      [] (e.op = "and" /\ required) \/ (e.op = "or" /\ ~required) ->
             UNION {Forced(e.kids[i], required) : i \in DOMAIN e.kids}
      [] OTHER -> {}

Mandatory(holds, given) ==
    LET forced == UNION {Forced(e, TRUE) : e \in Range(Assertions(problem))}
    IN  InOrder({OrderedPair(pair[1], pair[2]) : pair \in Range(given)}
                    \cup {f.pair : f \in {g \in forced : g.holds = holds}})

(* detect_all_different_groups: from each seed with two neighbours, the    *)
(* clique that takes the terms in their order where it can.  The cliques   *)
(* are maximal, so the first difference of two decides their order.        *)
Clique(apart, seed) ==
    FoldLeft(LAMBDA clique, t :
                 IF \A member \in clique : {member, t} \in apart THEN clique \cup {t} ELSE clique,
             {seed}, [t \in TermIds(problem) |-> t])

AllDifferent(disequalities) ==
    LET apart == {Range(pair) : pair \in Range(disequalities)}
        seeds == {t \in TermIds(problem) :
                     Cardinality({u \in TermIds(problem) \ {t} : {t, u} \in apart}) >= 2}
        cliques == {c \in {Clique(apart, seed) : seed \in seeds} : Cardinality(c) >= 3}
        Earlier(c) == {d \in cliques \ {c} : Min(SymDiff(c, d)) \in d}
        kept == {c \in cliques : Cardinality(Earlier(c)) < caps.groups}
    IN  [i \in 1..Cardinality(kept) |-> CHOOSE c \in kept : Cardinality(Earlier(c)) = i - 1]

(* The subsets of a group in the order of their masks, the subsets that a  *)
(* round of propagate_hall looks at, each with its group.                  *)
MaskOrder(group) ==
    LET subsets == {s \in SUBSET group : Cardinality(s) >= 2}
        Lower(s) == {r \in subsets \ {s} : Max(SymDiff(r, s)) \in s}
    IN  [i \in 1..Cardinality(subsets) |->
            [subset |-> CHOOSE s \in subsets : Cardinality(Lower(s)) = i - 1, group |-> group]]

HallChecks(groups) ==
    LET small == SelectSeq(groups, LAMBDA group : Cardinality(group) <= caps.group)
        all == FlattenSeq([i \in DOMAIN small |-> MaskOrder(small[i])])
    IN  SubSeq(all, 1, Min({Len(all), caps.hall}))

NothingPrepared ==
    [equalities |-> <<>>, disequalities |-> <<>>, hall |-> <<>>, forbidden |-> <<>>, labelled |-> {}]

Prepared ==
    LET disequalities == Mandatory(FALSE, problem.diseqs)
    IN  [equalities |-> Mandatory(TRUE, problem.eqs),
         disequalities |-> disequalities,
         hall |-> HallChecks(AllDifferent(disequalities)),
         forbidden |-> ForbiddenTables,
         labelled |-> LabelledSorts]

-----------------------------------------------------------------------------
(* Propagation.  A conflict discards the domains of its node, so that      *)
(* every conflict is the same one.                                         *)
Conflict == [t \in {0} |-> {}]

Singleton(d, t) == Cardinality(d[t]) = 1
ValueOf(d, t) == CHOOSE value \in d[t] : TRUE

Narrow(d, t, allowed) ==
    IF d = Conflict \/ d[t] \cap allowed = {} THEN Conflict
    ELSE [d EXCEPT ![t] = @ \cap allowed]

ApplyEquality(d, s, t) ==
    IF d = Conflict THEN Conflict ELSE Narrow(Narrow(d, s, d[t]), t, d[s])

ApplyDisequality(d, s, t) ==
    IF d = Conflict \/ s = t THEN Conflict
    ELSE LET halfway == IF Singleton(d, s) THEN Narrow(d, t, d[t] \ d[s]) ELSE d
         IN  IF Singleton(d, t) THEN Narrow(halfway, s, d[s] \ d[t]) ELSE halfway

Truth(value) == IF value THEN "true" ELSE "false"

RECURSIVE EvalBool(_, _)
EvalBool(d, e) ==
    LET of == {EvalBool(d, e.kids[i]) : i \in DOMAIN e.kids}
        Kid(i) == EvalBool(d, e.kids[i])
        (* The value of a chain that a child with the value decides.       *)
        Chain(deciding, otherwise) ==
            IF deciding \in of THEN deciding ELSE IF "unknown" \in of THEN "unknown" ELSE otherwise
    IN  CASE e.op \in {"true", "false"} -> e.op
          [] e.op = "eq" ->
                 IF e.left = e.right THEN "true"
                 ELSE IF d[e.left] \cap d[e.right] = {} THEN "false"
                 ELSE IF Singleton(d, e.left) /\ Singleton(d, e.right) THEN "true" ELSE "unknown"
          [] e.op = "term" ->
                 IF Singleton(d, e.left) THEN Truth(ValueOf(d, e.left) = 1) ELSE "unknown"
          [] e.op = "not" ->
                 IF Kid(1) = "unknown" THEN "unknown" ELSE Truth(Kid(1) = "false")
          [] e.op = "and" -> Chain("false", "true")
          [] e.op = "or" -> Chain("true", "false")
          [] e.op = "iff" ->
                 IF {"true", "false"} \subseteq of THEN "false"
                 ELSE IF "unknown" \in of THEN "unknown" ELSE "true"
          [] e.op = "ite" ->
                 IF Kid(1) = "true" THEN Kid(2)
                 ELSE IF Kid(1) = "false" THEN Kid(3)
                 ELSE IF Kid(2) = Kid(3) THEN Kid(2) ELSE "unknown"

RECURSIVE EnforceBool(_, _, _), EnforceEach(_, _, _)
EnforceEach(d, kids, required) ==
    IF kids = <<>> \/ d = Conflict THEN d
    ELSE EnforceEach(EnforceBool(d, Head(kids), required), Tail(kids), required)

(* Where the value of an expression is still unknown, its children that    *)
(* must have a certain value for it to be the required one are made so.    *)
EnforceBool(d, e, required) ==
    LET value == EvalBool(d, e)
        values == [i \in DOMAIN e.kids |-> EvalBool(d, e.kids[i])]
        open == SelectSeq(e.kids, LAMBDA kid : EvalBool(d, kid) = "unknown")
        known == SelectSeq(values, LAMBDA v : v # "unknown")
        Impossible(i) == values[i] = Truth(~required)
    IN  IF value # "unknown" THEN (IF value = Truth(required) THEN d ELSE Conflict)
        ELSE CASE e.op = "eq" -> (IF required THEN ApplyEquality(d, e.left, e.right)
                                  ELSE ApplyDisequality(d, e.left, e.right))
               [] e.op = "term" -> Narrow(d, e.left, {IF required THEN 1 ELSE 0})
               [] e.op = "not" -> EnforceBool(d, e.kids[1], ~required)
               [] e.op \in {"and", "or"} ->
                      (IF required = (e.op = "and") THEN EnforceEach(d, e.kids, required)
                       ELSE IF Len(open) = 1 THEN EnforceBool(d, open[1], required) ELSE d)
               [] e.op = "iff" ->
                      (IF known = <<>> THEN d
                       ELSE IF required THEN EnforceEach(d, open, known[1] = "true")
                       ELSE IF Len(open) = 1 THEN EnforceBool(d, open[1], known[1] # "true") ELSE d)
               [] e.op = "ite" ->
                      (IF values[1] # "unknown"
                       THEN EnforceBool(d, e.kids[IF values[1] = "true" THEN 2 ELSE 3], required)
                       ELSE IF Impossible(2)
                       THEN EnforceEach(EnforceBool(d, e.kids[1], FALSE), <<e.kids[3]>>, required)
                       ELSE IF Impossible(3)
                       THEN EnforceEach(EnforceBool(d, e.kids[1], TRUE), <<e.kids[2]>>, required)
                       ELSE d)

(* One check of propagate_hall: a subset needs as many values as it has    *)
(* terms, and with exactly as many it takes them from the rest.            *)
HallCheck(d, check) ==
    LET union == UNION {d[t] : t \in check.subset}
        size == Cardinality(check.subset)
        rest == check.group \ check.subset
    IN  IF d = Conflict \/ Cardinality(union) < size THEN Conflict
        ELSE IF Cardinality(union) > size THEN d
        ELSE IF \E t \in rest : d[t] \subseteq union THEN Conflict
        ELSE [t \in DOMAIN d |-> IF t \in rest THEN d[t] \ union ELSE d[t]]

(* propagate_congruence: seen maps the signatures met so far to the first  *)
(* term with each.                                                         *)
RECURSIVE Congruence(_, _, _)
Congruence(d, seen, t) ==
    IF d = Conflict \/ t \notin TermIds(problem) THEN d
    ELSE LET args == problem.terms[t].args
             signature == <<problem.terms[t].fun, [i \in DOMAIN args |-> ValueOf(d, args[i])]>>
         IN  IF \E i \in DOMAIN args : ~Singleton(d, args[i]) THEN Congruence(d, seen, t + 1)
             ELSE IF signature \notin DOMAIN seen
             THEN Congruence(d, [x \in DOMAIN seen \cup {signature} |->
                                    IF x = signature THEN t ELSE seen[x]], t + 1)
             ELSE Congruence(ApplyEquality(d, seen[signature], t), seen, t + 1)

(* One turn of the loop of propagate.                                      *)
Propagated(d) ==
    LET Fixed(x, b) == Narrow(Narrow(x, b.false, {0}), b.true, {1})
        fixed == FoldLeft(Fixed, d, problem.bool)
        equal == FoldLeft(LAMBDA x, p : ApplyEquality(x, p[1], p[2]), fixed, prepared.equalities)
        apart == FoldLeft(LAMBDA x, p : ApplyDisequality(x, p[1], p[2]), equal, prepared.disequalities)
        asserted == EnforceEach(apart, Assertions(problem), TRUE)
        hall == FoldLeft(HallCheck, asserted, prepared.hall)
    IN  Congruence(hall, <<>>, 1)

-----------------------------------------------------------------------------
(* canonical_candidates, in their order.  The values in use of a sort that *)
(* is not labelled are always its first ones.                              *)
SortOf(t) == problem.terms[t].sort
Used(d, sort) ==
    {ValueOf(d, t) : t \in {u \in TermIds(problem) : SortOf(u) = sort /\ Singleton(d, u)}}
Labelled(sort) == sort = Bool \/ sort \in prepared.labelled
OutOfOrder(d, sort) == ~Labelled(sort) /\ Used(d, sort) # 0..(Cardinality(Used(d, sort)) - 1)

Candidates(d, t) ==
    LET allowed == IF Labelled(SortOf(t)) THEN d[t]
                   ELSE d[t] \cap 0..Cardinality(Used(d, SortOf(t)))
    IN  [i \in 1..Cardinality(allowed) |->
            CHOOSE v \in allowed : Cardinality({w \in allowed : w < v}) = i - 1]

(* select_branch_term: the first of the smallest open domains.             *)
Open(d) == {t \in TermIds(problem) : Cardinality(d[t]) > 1}
BranchTerm(d) ==
    LET smallest == {t \in Open(d) : \A u \in Open(d) : Cardinality(d[t]) <= Cardinality(d[u])}
    IN  Min(smallest)

-----------------------------------------------------------------------------
(* build_total_model: the rows that terms fix, then, for the functions     *)
(* with forbidden tables, the first completion that is none of them.       *)
RowOf(d, t) ==
    LET term == problem.terms[t]
    IN  Row(problem.decls[term.fun], [i \in DOMAIN term.args |-> ValueOf(d, term.args[i])])
At(d, fun, row) == {t \in TermIds(problem) : problem.terms[t].fun = fun /\ RowOf(d, t) = row}

RowsClash(d) ==
    \E t \in TermIds(problem) : \E u \in At(d, problem.terms[t].fun, RowOf(d, t)) : d[t] # d[u]

FirstTables(d) ==
    [fun \in DOMAIN problem.decls |->
        [row \in 1..Cells(problem.decls[fun]) |->
            IF At(d, fun, row) = {} THEN 0 ELSE ValueOf(d, Min(At(d, fun, row)))]]

(* increment_unassigned_rows: the next table, none after the last.         *)
NextTables(table, free, radix) ==
    LET rising == {row \in free : table[row] + 1 < radix}
    IN  IF rising = {} THEN {}
        ELSE {[row \in DOMAIN table |->
                  IF row = Max(rising) THEN table[row] + 1
                  ELSE IF row \in free /\ row > Max(rising) THEN 0 ELSE table[row]]}

RECURSIVE Completed(_, _, _)
Completed(tables, funs, attempts) ==
    LET fun == Min(funs)
        free == {row \in DOMAIN tables[fun] : At(domains, fun, row) = {}}
        next == NextTables(tables[fun], free, bounds[problem.decls[fun].result])
    IN  IF funs = {} THEN [kind |-> "Model", tables |-> tables]
        ELSE IF attempts >= caps.completions THEN [kind |-> "Cap", tables |-> tables]
        ELSE IF tables[fun] \notin prepared.forbidden[fun]
        THEN Completed(tables, funs \ {fun}, attempts + 1)
        ELSE IF next = {} THEN [kind |-> "NoAllowedCompletion", tables |-> tables]
        ELSE Completed([tables EXCEPT ![fun] = CHOOSE table \in next : TRUE], funs, attempts + 1)

-----------------------------------------------------------------------------
(* validate_bounded_model: the terms are evaluated from the tables alone.  *)
RECURSIVE Holds(_, _)
Holds(e, value) ==
    CASE e.op \in {"true", "false"} -> e.op = "true"
      [] e.op = "eq" -> value[e.left] = value[e.right]
      [] e.op = "term" -> value[e.left] = 1
      [] e.op = "not" -> ~Holds(e.kids[1], value)
      [] e.op = "and" -> \A i \in DOMAIN e.kids : Holds(e.kids[i], value)
      [] e.op = "or" -> \E i \in DOMAIN e.kids : Holds(e.kids[i], value)
      [] e.op = "iff" -> \A i \in DOMAIN e.kids : Holds(e.kids[i], value) = Holds(e.kids[1], value)
      [] e.op = "ite" -> Holds(e.kids[IF Holds(e.kids[1], value) THEN 2 ELSE 3], value)

Evaluated(tables) ==
    LET value[t \in TermIds(problem)] ==
            LET term == problem.terms[t]
            IN  tables[term.fun][Row(problem.decls[term.fun],
                                     [i \in DOMAIN term.args |-> value[term.args[i]]])]
    IN  value

Satisfied(value) ==
    /\ \A pair \in Range(problem.eqs) : value[pair[1]] = value[pair[2]]
    /\ \A pair \in Range(problem.diseqs) : value[pair[1]] # value[pair[2]]
    /\ \A b \in Range(problem.bool) : value[b.false] = 0 /\ value[b.true] = 1
    /\ \A e \in Range(Assertions(problem)) : Holds(e, value)

ValidModel(tables, recorded) ==
    /\ ~problem.contradiction
    /\ Evaluated(tables) = recorded
    /\ Satisfied(recorded)
    /\ \A fun \in DOMAIN prepared.forbidden : tables[fun] \notin prepared.forbidden[fun]

-----------------------------------------------------------------------------
NoResult == [kind |-> "None", reason |-> "none"]
Return(kind, reason) == stage' = "done" /\ result' = [kind |-> kind, reason |-> reason]
Abstain(reason) == Return("Abstain", reason)

Init ==
    /\ call \in Inputs
    /\ stage = "start"
    /\ prepared = NothingPrepared
    /\ domains = <<>> /\ stack = <<>>
    /\ spent = [nodes |-> 0, rounds |-> 0]
    /\ result = NoResult

Refused ==
    BadCaps \/ BadBounds \/ BadProblem \/ UnsupportedReasons(problem) # {}
        \/ TooManyCells \/ BadConstraint \/ TooManyTables

Prepare ==
    /\ stage = "start"
    /\ IF Refused
       THEN Abstain("refused") /\ UNCHANGED <<prepared, domains>>
       ELSE /\ prepared' = Prepared
            /\ domains' = [t \in TermIds(problem) |-> 0..(bounds[SortOf(t)] - 1)]
            /\ stage' = "enter" /\ UNCHANGED result
    /\ UNCHANGED <<call, stack, spent>>

EnterNode ==
    /\ stage = "enter"
    /\ \/ spent.nodes >= caps.nodes /\ Abstain("search nodes") /\ UNCHANGED spent
       \/ /\ spent.nodes < caps.nodes
          /\ spent' = [spent EXCEPT !.nodes = @ + 1]
          /\ stage' = IF problem.contradiction THEN "exhausted" ELSE "propagate"
          /\ UNCHANGED result
    /\ UNCHANGED <<call, prepared, domains, stack>>

PropagateRound ==
    /\ stage = "propagate"
    /\ \/ /\ spent.rounds >= caps.rounds
          /\ Abstain("propagation rounds") /\ UNCHANGED <<domains, spent>>
       \/ /\ spent.rounds < caps.rounds
          /\ spent' = [spent EXCEPT !.rounds = @ + 1]
          /\ domains' = Propagated(domains)
          /\ stage' = CASE domains' = Conflict -> "exhausted"
                        [] domains' = domains -> "decide"
                        [] OTHER -> "propagate"
          /\ UNCHANGED result
    /\ UNCHANGED <<call, prepared, stack>>

Decide ==
    /\ stage = "decide"
    /\ Open(domains) # {}
    /\ LET t == BranchTerm(domains)
           values == Candidates(domains, t)
       IN  IF OutOfOrder(domains, SortOf(t)) \/ values = <<>>
           THEN Abstain("validator") /\ UNCHANGED stack
           ELSE /\ stack' = Append(stack, [domains |-> domains, term |-> t, todo |-> values])
                /\ stage' = "branch" /\ UNCHANGED result
    /\ UNCHANGED <<call, prepared, domains, spent>>

TryValue ==
    /\ stage = "branch"
    /\ LET frame == Last(stack)
       IN  /\ frame.todo # <<>>
           /\ domains' = [frame.domains EXCEPT ![frame.term] = {Head(frame.todo)}]
           /\ stack' = [stack EXCEPT ![Len(stack)].todo = Tail(@)]
    /\ stage' = "enter"
    /\ UNCHANGED <<call, prepared, spent, result>>

(* All values of the decision failed, and so does its node.                *)
ExhaustValues ==
    /\ stage = "branch"
    /\ Last(stack).todo = <<>>
    /\ stack' = Front(stack)
    /\ stage' = "exhausted"
    /\ UNCHANGED <<call, prepared, domains, spent, result>>

Backtrack ==
    /\ stage = "exhausted"
    /\ \/ stack # <<>> /\ stage' = "branch" /\ UNCHANGED result
       \/ stack = <<>> /\ Return("Unsat", "none")
    /\ UNCHANGED <<call, prepared, domains, stack, spent>>

(* A complete assignment.                                                  *)
BuildModel ==
    /\ stage = "decide"
    /\ Open(domains) = {}
    /\ LET model == Completed(FirstTables(domains), DOMAIN prepared.forbidden, 0)
           recorded == [t \in TermIds(problem) |-> ValueOf(domains, t)]
       IN  CASE RowsClash(domains) -> Abstain("validator")
             [] ~RowsClash(domains) /\ model.kind = "Cap" -> Abstain("total model completions")
             [] ~RowsClash(domains) /\ model.kind = "NoAllowedCompletion" ->
                    stage' = "exhausted" /\ UNCHANGED result
             [] ~RowsClash(domains) /\ model.kind = "Model" ->
                    IF ValidModel(model.tables, recorded) THEN Return("Sat", "none")
                    ELSE Abstain("validator")
    /\ UNCHANGED <<call, prepared, domains, stack, spent>>

Finished == stage = "done" /\ UNCHANGED vars

Next ==
    \/ Prepare \/ EnterNode \/ PropagateRound \/ Decide \/ TryValue \/ ExhaustValues
    \/ Backtrack \/ BuildModel \/ Finished

Spec == Init /\ [][Next]_vars

-----------------------------------------------------------------------------
(* The constraints as they are meant: a table is forbidden if it is given, *)
(* or if a renaming of the values turns the representative of an orbit     *)
(* into it.                                                                *)
Renames(from, to, size) ==
    \E sigma \in Permutations(0..(size - 1)) :
        \A i, j \in 0..(size - 1) :
            to[sigma[i] * size + sigma[j] + 1] = sigma[from[i * size + j + 1]]

IsForbidden(fun, table) ==
    \/ \E c \in Range(call.constraints.tables) : c.fun = fun /\ table \in c.tables
    \/ \E c \in Range(call.constraints.orbits) :
          c.fun = fun /\ Renames(c.table, table, bounds[problem.decls[fun].result])

(* The term values that some interpretation within the bounds gives.       *)
RECURSIVE Assignments(_)
Assignments(n) ==
    IF n = 0 THEN {<<>>}
    ELSE {Append(value, x) : value \in Assignments(n - 1), x \in 0..(bounds[SortOf(n)] - 1)}

Agrees(fun, table, value) ==
    \A t \in TermIds(problem) :
        LET term == problem.terms[t]
        IN  term.fun = fun =>
                table[Row(problem.decls[fun], [i \in DOMAIN term.args |-> value[term.args[i]]])]
                    = value[t]

HasBoundedModel ==
    /\ ~problem.contradiction
    /\ \E value \in Assignments(Len(problem.terms)) :
          /\ Satisfied(value)
          /\ \A fun \in DOMAIN problem.decls :
                \E table \in [1..Cells(problem.decls[fun]) ->
                                 0..(bounds[problem.decls[fun].result] - 1)] :
                    Agrees(fun, table, value) /\ ~IsForbidden(fun, table)

(* The pruning of the search is exact.  It says Unsat only if no total     *)
(* interpretation within the bounds satisfies the problem and keeps out of *)
(* the forbidden tables, although it skips values as interchangeable,      *)
(* narrows by cliques and completes tables late; it says Sat only if there *)
(* is one; and neither the order of the values in use nor the validator    *)
(* ever stops it.                                                          *)
PruningIsExact ==
    /\ result.kind = "Unsat" => ~HasBoundedModel
    /\ result.kind = "Sat" => HasBoundedModel
    /\ result.reason # "validator"
=============================================================================
