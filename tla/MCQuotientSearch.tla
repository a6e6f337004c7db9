-------------------------- MODULE MCQuotientSearch --------------------------
(***************************************************************************)
(* Both exact searches for finite models, one of them at a time.           *)
(*                                                                         *)
(* For the quotient states: problems over one unary function 1 and one     *)
(* binary function 2, a family over three terms in the manner of the       *)
(* exhaustive tests of the module, and larger ones in which quotients,     *)
(* values and congruence interact.                                         *)
(*                                                                         *)
(* For the bounded reference search: problems over constants a, b, c, a    *)
(* unary f, a predicate p and a binary g, in which Boolean structure,      *)
(* all-different terms and forbidden tables interact.                      *)
(*                                                                         *)
(* Beside them runs the union-find of the solver, which has no rollback.   *)
(***************************************************************************)
EXTENDS UnionFind, QuotientSearch

App1(s, result) == [fun |-> 1, args |-> <<s>>, result |-> result]
App2(s, t, result) == [fun |-> 2, args |-> <<s, t>>, result |-> result]

Instance(values, allowed, apps, equalities, disequalities) ==
    [values |-> values, terms |-> Len(allowed), arities |-> <<1, 2>>, apps |-> apps,
     equalities |-> equalities, disequalities |-> disequalities, domains |-> allowed]

Full(values, terms) == [t \in 1..terms |-> 0..(values - 1)]

(* The pairs that the relation of the code relates, in their order.        *)
Related(code, relation) ==
    LET pairs == <<<<0, 1>>, <<2, 0>>, <<1, 2>>>>
    IN  SelectSeq(pairs, LAMBDA pair : code[pair[1] + pair[2]] = relation)

ThreeTerms ==
    {Instance(2, allowed, apps,
              Related(code, "equal"), Related(code, "distinct")) :
        allowed \in {<<{0, 1}, {0, 1}, {0, 1}>>, <<{0}, {0, 1}, {0, 1}>>, <<{0, 1}, {1}, {0}>>},
        apps \in {<<>>, <<App1(1, 2)>>, <<App1(0, 1), App1(1, 2)>>,
                  <<App2(0, 1, 2), App2(1, 0, 1)>>},
        code \in [1..3 -> {"none", "equal", "distinct"}]}

Larger ==
    {Instance(2, Full(2, 4), <<App1(0, 2), App1(1, 3)>>, <<>>, <<<<2, 3>>>>),
     Instance(2, Full(2, 4), <<App1(0, 2), App1(1, 3)>>, <<<<0, 1>>>>, <<<<3, 2>>>>),
     Instance(2, Full(2, 4), <<App1(0, 1), App1(1, 2), App1(2, 3)>>, <<<<0, 3>>>>, <<<<0, 1>>, <<1, 2>>>>),
     Instance(2, Full(2, 4), <<App2(0, 1, 2), App2(1, 0, 3)>>, <<>>, <<<<2, 3>>, <<0, 2>>, <<1, 2>>>>),
     Instance(3, Full(3, 4), <<>>, <<>>,
              <<<<0, 1>>, <<0, 2>>, <<0, 3>>, <<1, 2>>, <<1, 3>>, <<2, 3>>>>),
     Instance(3, Full(3, 5), <<App1(0, 1), App1(2, 3)>>, <<<<3, 4>>>>, <<<<1, 4>>, <<0, 4>>>>),
     Instance(3, <<{0, 1}, {1, 2}, {0, 2}, {0, 1, 2}>>, <<App1(0, 3), App1(1, 3)>>, <<>>,
              <<<<0, 1>>, <<1, 2>>, <<0, 2>>>>),
     Instance(3, <<{0, 1}, {0, 1}, {0, 1, 2}, {1, 2}>>, <<App1(2, 3)>>, <<>>,
              <<<<0, 1>>, <<0, 2>>, <<1, 2>>, <<2, 3>>>>)}

Invalid ==
    {Instance(0, <<>>, <<>>, <<>>, <<>>),
     Instance(2, <<{2}>>, <<>>, <<>>, <<>>),
     Instance(2, Full(2, 1), <<App1(0, 1)>>, <<>>, <<>>),
     Instance(2, Full(2, 2), <<App1(0, 1)>>, <<<<0, 2>>>>, <<>>)}

MCProblems == ThreeTerms \cup Larger \cup Invalid

Default ==
    [values |-> 8, terms |-> 24, functions |-> 16, arity |-> 4, apps |-> 64, relations |-> 128,
     nodes |-> 1000, decisions |-> 1000, propagations |-> 1000, conflicts |-> 1000, depth |-> 16,
     trail |-> 100, certificate |-> 1000, cells |-> 100]

MCCaps ==
    {Default, [Default EXCEPT !.terms = 3, !.nodes = 4], [Default EXCEPT !.arity = 1],
     [Default EXCEPT !.propagations = 2, !.decisions = 3],
     [Default EXCEPT !.conflicts = 2, !.depth = 2],
     [Default EXCEPT !.propagations = 0], [Default EXCEPT !.trail = 0],
     [Default EXCEPT !.trail = 3], [Default EXCEPT !.certificate = 2],
     [Default EXCEPT !.cells = 5]}

-----------------------------------------------------------------------------
E(op, left, right, kids) == [op |-> op, left |-> left, right |-> right, kids |-> kids]
Eq(s, t) == E("eq", s, t, <<>>)
Pred(t) == E("term", t, t, <<>>)
Op(op, kids) == E(op, 1, 1, kids)
Not(e) == Op("not", <<e>>)

Decl(args, sort) == [args |-> args, result |-> sort]
Decls ==
    <<Decl(<<>>, 1), Decl(<<>>, 1), Decl(<<>>, 2), Decl(<<>>, 2), Decl(<<>>, 2),
      Decl(<<2>>, 2), Decl(<<2>>, 1), Decl(<<2, 2>>, 2)>>
Made(fun, args) == [fun |-> fun, args |-> args, sort |-> Decls[fun].result]
Constants == <<Made(1, <<>>), Made(2, <<>>), Made(3, <<>>), Made(4, <<>>)>>

(* 1 true, 2 false, 3 a, 4 b, and 5 c, 6 f(a), 7 f(b), 8 p(c); or          *)
(* 5 g(a, b), 6 g(b, a); or 5 to 7 more terms f(..) of each other.         *)
Unary == Constants \o <<Made(5, <<>>), Made(6, <<3>>), Made(6, <<4>>), Made(7, <<5>>)>>
Binary == Constants \o <<Made(8, <<3, 4>>), Made(8, <<4, 3>>)>>
Chain == Constants \o <<Made(6, <<3>>), Made(6, <<5>>), Made(6, <<4>>)>>

Problem(arena, equal, apart, asserted_) ==
    [sorts |-> 2, decls |-> [fun \in {arena[t].fun : t \in DOMAIN arena} |-> Decls[fun]],
     terms |-> arena, eqs |-> equal, diseqs |-> apart,
     contradiction |-> FALSE, unsupported |-> {},
     bool |-> <<[true |-> 1, false |-> 2, data |-> {}, unsupported |-> {},
                 assertions |-> asserted_]>>]

DefaultQuotientCaps ==
    [domain |-> 8, depth |-> 8, group |-> 12, sorts |-> 8, terms |-> 96, boolNodes |-> 100,
     functions |-> 64, cells |-> 1000, tables |-> 1000, tableCells |-> 10000, permutations |-> 100,
     groups |-> 16, hall |-> 1000, nodes |-> 1000, rounds |-> 1000, completions |-> 100]

Unconstrained == [tables |-> <<>>, orbits |-> <<>>]

Call(p, size) ==
    [problem |-> p, bounds |-> <<2, size>>, caps |-> DefaultQuotientCaps, constraints |-> Unconstrained]

Chosen(pairs, code, relation) ==
    LET at == SelectSeq([i \in DOMAIN pairs |-> i], LAMBDA i : code[i] = relation)
    IN  [k \in DOMAIN at |-> pairs[at[k]]]

RelationsAndFormulas ==
    LET pairs == <<<<3, 4>>, <<5, 4>>, <<6, 3>>, <<7, 6>>>>
    IN  {Call(Problem(Unary, Chosen(pairs, code, "equal"), Chosen(pairs, code, "distinct"), fs), size) :
            code \in [1..4 -> {"none", "equal", "distinct"}],
            fs \in {<<>>, <<Op("or", <<Eq(3, 4), Eq(6, 5)>>)>>,
                    <<Op("iff", <<Pred(8), Eq(3, 4), Not(Eq(6, 7))>>)>>,
                    <<Not(Op("iff", <<Pred(8), Eq(4, 5)>>)), Op("ite", <<Pred(8), Eq(6, 4), Eq(7, 3)>>)>>,
                    <<Op("and", <<Not(Eq(3, 4)), Not(Op("or", <<Eq(4, 5), Eq(3, 5)>>))>>), Eq(6, 7)>>},
            size \in {2, 3}}

WithTables ==
    {[Call(Problem(Binary, <<>>, <<>>, fs), 2) EXCEPT
         !.constraints = [tables |-> <<[fun |-> 8, tables |-> ts]>>, orbits |-> os],
         !.caps.completions = limit] :
        fs \in {<<>>, <<Not(Eq(5, 6))>>, <<Not(Eq(3, 4)), Eq(5, 6)>>},
        ts \in SUBSET {<<0, 0, 0, 0>>, <<0, 0, 1, 1>>, <<1, 0, 1, 0>>, <<0, 1, 0, 1>>},
        os \in {<<>>, <<[fun |-> 8, table |-> <<0, 0, 0, 0>>]>>,
                <<[fun |-> 8, table |-> <<0, 0, 1, 1>>], [fun |-> 8, table |-> <<0, 0, 0, 1>>]>>},
        limit \in {2, 100}}
    \cup {[Call(Problem(Unary, <<>>, <<<<3, 4>>>>, <<>>), size) EXCEPT
              !.constraints.tables = <<[fun |-> 3, tables |-> ts]>>] :
             size \in {2, 3}, ts \in {{}, {<<0>>}, {<<1>>}, {<<0>>, <<1>>}}}

(* Five terms of which any four may be all different, at most three values. *)
Cliques ==
    LET pairs == <<<<3, 4>>, <<3, 5>>, <<4, 5>>, <<3, 6>>, <<4, 6>>, <<5, 6>>, <<6, 7>>, <<5, 7>>>>
        codes == {c \in [1..8 -> {"none", "distinct"}] : c[1] = "distinct" /\ c[2] = "distinct"}
    IN  {[Call(Problem(Chain, <<>>, Chosen(pairs, code, "distinct"), <<>>), 3) EXCEPT
             !.caps.group = bounds[1], !.caps.groups = bounds[2], !.caps.hall = bounds[3]] :
            code \in codes, bounds \in {<<12, 16, 1000>>, <<3, 16, 5>>, <<12, 1, 1000>>}}

Odd ==
    LET usual == Call(Problem(Unary, <<<<3, 4>>>>, <<<<6, 5>>>>, <<Op("or", <<Pred(8), Eq(5, 7)>>)>>), 2)
        orbit == [fun |-> 8, table |-> <<0, 0, 1, 1>>]
        binary == [Call(Problem(Binary, <<>>, <<>>, <<>>), 2) EXCEPT !.constraints.orbits = <<orbit>>]
    IN  {[usual EXCEPT !.problem.contradiction = TRUE],
         [usual EXCEPT !.problem.unsupported = {"legacy route"}],
         [usual EXCEPT !.problem.unsupported = {"command"}],
         [usual EXCEPT !.problem.bool[1].unsupported = {"formula"}],
         [usual EXCEPT !.problem.bool = <<>>],
         [usual EXCEPT !.problem.bool[1].true = 2], [usual EXCEPT !.problem.eqs = <<<<1, 3>>>>],
         [usual EXCEPT !.problem.terms[6].args = <<1>>], [usual EXCEPT !.problem.terms[3].sort = 1],
         [usual EXCEPT !.bounds = <<2>>], [usual EXCEPT !.bounds = <<2, 0>>],
         [usual EXCEPT !.bounds = <<3, 2>>], [usual EXCEPT !.bounds = <<2, 9>>],
         [usual EXCEPT !.caps.domain = 65], [usual EXCEPT !.caps.depth = 1],
         [usual EXCEPT !.caps.boolNodes = 2], [usual EXCEPT !.caps.terms = 7],
         [usual EXCEPT !.caps.cells = 5], [usual EXCEPT !.caps.functions = 6],
         [usual EXCEPT !.caps.nodes = 2], [usual EXCEPT !.caps.rounds = 1],
         [usual EXCEPT !.caps.rounds = 4],
         [binary EXCEPT !.caps.permutations = 1], [binary EXCEPT !.caps.tables = 1],
         [binary EXCEPT !.caps.tableCells = 7], [binary EXCEPT !.bounds = <<2, 3>>],
         [binary EXCEPT !.constraints.orbits[1].fun = 3],
         [binary EXCEPT !.constraints.tables = <<[fun |-> 8, tables |-> {<<0, 0, 0, 2>>}]>>]}

Calls == RelationsAndFormulas \cup WithTables \cup Cliques \cup Odd

-----------------------------------------------------------------------------
VARIABLES call, stage, prepared, domains, stack, spent, result
cspVars == <<call, stage, prepared, domains, stack, spent, result>>

Csp == INSTANCE QuotientCsp WITH Inputs <- Calls

VARIABLE part    \* the part that runs: "search", "csp" or "union-find"

NoSearch ==
    /\ problem = (CHOOSE p \in MCProblems : TRUE) /\ caps = Default
    /\ pc = "idle"
    /\ state = EmptyState /\ asserted = 0 /\ path = <<>> /\ frames = <<>>
    /\ used = Unused /\ proof = Leaf(EmptyDomain(0))
    /\ outcome = NoOutcome

NoCsp ==
    /\ call = <<>> /\ stage = "idle" /\ prepared = <<>> /\ domains = <<>> /\ stack = <<>>
    /\ spent = <<>> /\ result = Csp!NoResult

MCInit ==
    /\ Init
    /\ \/ part = "search" /\ SearchInit /\ NoCsp
       \/ part = "csp" /\ NoSearch /\ Csp!Init
       \/ part = "union-find" /\ NoSearch /\ NoCsp

MCNext ==
    /\ UNCHANGED part
    /\ \/ part = "search" /\ SearchNext /\ UNCHANGED <<vars, cspVars>>
       \/ part = "csp" /\ Csp!Next /\ UNCHANGED <<vars, searchVars>>
       \/ part = "union-find" /\ Next /\ UNCHANGED <<searchVars, cspVars>>

MCSpec == MCInit /\ [][MCNext]_<<vars, searchVars, cspVars, part>>

(* The bounded search with its pruning agrees with plain enumeration.      *)
PruningIsExact == Csp!PruningIsExact
=============================================================================
