------------------------------ MODULE SmtScript ------------------------------
(***************************************************************************)
(* The commands of a script: parse_command with its sort validation, the   *)
(* older conjunctive collector of equalities (collect_formula), which      *)
(* preprocesses a lone assertion and takes over what the Boolean parser    *)
(* cannot read, and the answer of solve_problem short of search.           *)
(***************************************************************************)
EXTENDS SmtFrontEnd

-----------------------------------------------------------------------------
(* validate_expr_sort: the sort of an expression, or "?" where it cannot   *)
(* be told, and an error where two sorts that are known disagree.  senv    *)
(* gives the sorts of the names bound by let.                              *)

IllSorted == "!"

RECURSIVE ExprSort(_, _, _)
ExprSort(c, s, senv) ==
    IF s.kind # "list"
    THEN CASE Syntax(s) \in {"true", "false"} -> "Bool"
           [] s.name \in DOMAIN senv -> senv[s.name]
           [] s.name \in DOMAIN c.decls ->
                  IF c.decls[s.name].args = <<>> THEN c.decls[s.name].result ELSE IllSorted
           [] OTHER -> "?"
    ELSE IF ~HasHead(s) THEN "?"
    ELSE LET op == Syntax(Head1(s))
             name == Head1(s).name
             args == Args(s)
             sorts == [i \in DOMAIN args |-> ExprSort(c, args[i], senv)]
             Ill == \E i \in DOMAIN args : sorts[i] = IllSorted
             Fits(sort, expected) == sort \in {expected, "?"}
             known == {sorts[i] : i \in DOMAIN args} \ {"?"}
             binds == args[1].items
             local == [n \in {binds[i].items[1].name : i \in DOMAIN binds} |->
                          LET last == CHOOSE i \in DOMAIN binds :
                                          /\ binds[i].items[1].name = n
                                          /\ \A j \in DOMAIN binds :
                                                 binds[j].items[1].name = n => j <= i
                          IN  ExprSort(c, binds[last].items[2], senv)]
         IN  CASE op = "!" -> IF args = <<>> THEN "?" ELSE ExprSort(c, args[1], senv)
               [] op \in {"and", "or", "not", "=>", "xor"} ->
                      IF (op = "not" /\ Len(args) # 1) \/ (op \in {"=>", "xor"} /\ Len(args) < 2)
                      THEN "?"
                      ELSE IF \A i \in DOMAIN args : Fits(sorts[i], "Bool") THEN "Bool"
                      ELSE IllSorted
               [] op \in {"=", "distinct"} ->
                      IF Len(args) < 2 THEN "?"
                      ELSE IF Ill \/ Cardinality(known) > 1 THEN IllSorted ELSE "Bool"
               [] op = "ite" ->
                      IF Len(args) # 3 THEN "?"
                      ELSE IF Ill \/ ~Fits(sorts[1], "Bool")
                              \/ Cardinality({sorts[2], sorts[3]} \ {"?"}) > 1 THEN IllSorted
                      ELSE IF sorts[2] # "?" THEN sorts[2] ELSE sorts[3]
               [] op = "let" ->
                      IF \/ Len(args) # 2 \/ args[1].kind # "list"
                         \/ \E i \in DOMAIN binds : \/ binds[i].kind # "list"
                                                    \/ Len(binds[i].items) # 2
                                                    \/ binds[i].items[1].kind = "list"
                      THEN "?"
                      ELSE IF \E i \in DOMAIN binds :
                                  ExprSort(c, binds[i].items[2], senv) = IllSorted
                      THEN IllSorted
                      ELSE ExprSort(c, args[2], local @@ senv)
               [] name \notin DOMAIN c.decls -> "?"
               [] OTHER ->
                      IF /\ Len(args) = Len(c.decls[name].args)
                         /\ \A i \in DOMAIN args : Fits(sorts[i], c.decls[name].args[i])
                      THEN c.decls[name].result ELSE IllSorted

(* validate_assertion_sort                                                 *)
MayBeBool(c, s) == ExprSort(c, s, <<>>) \in {"Bool", "?"}

-----------------------------------------------------------------------------
(* Congruence closure over the arena: root[t] is the class of term t.      *)

Merge(root, s, t) == [u \in DOMAIN root |-> IF root[u] = root[t] THEN root[s] ELSE root[u]]

RECURSIVE MergeAll(_, _)
MergeAll(root, pairs) ==
    IF pairs = {} THEN root
    ELSE LET p == CHOOSE q \in pairs : TRUE
         IN  MergeAll(Merge(root, p[1], p[2]), pairs \ {p})

RECURSIVE CongruenceClosure(_, _)
CongruenceClosure(c, root) ==
    LET Signature(t) == <<c.terms[t].fun, [i \in DOMAIN c.terms[t].args |-> root[c.terms[t].args[i]]]>>
        apps == {t \in DOMAIN c.terms : c.terms[t].args # <<>>}
        apart == {p \in apps \X apps : root[p[1]] # root[p[2]] /\ Signature(p[1]) = Signature(p[2])}
    IN  IF apart = {} THEN root
        ELSE LET p == CHOOSE q \in apart : TRUE
             IN  CongruenceClosure(c, Merge(root, p[1], p[2]))

Closure(c, eqs) == CongruenceClosure(c, MergeAll([t \in DOMAIN c.terms |-> t], eqs))
Refuted(root, diseqs) == \E p \in diseqs : root[p[1]] = root[p[2]]

-----------------------------------------------------------------------------
(* collect_branch_literals: the equalities and disequalities of a branch   *)
(* of a disjunction, if it has nothing else ("usable").                    *)

NoLiterals == [usable |-> TRUE, eqs |-> {}, diseqs |-> {}]
Unusable == [usable |-> FALSE, eqs |-> {}, diseqs |-> {}]
PairSet(ts) == {<<ts[p[1]], ts[p[2]]>> : p \in {q \in (DOMAIN ts) \X (DOMAIN ts) : q[1] < q[2]}}
FromFirst(ts) == {<<ts[1], ts[i]>> : i \in 2..Len(ts)}

(* parse_terms, all of one sort                                            *)
SameSortTerms(c, args) ==
    Then(Several("argument", c, args), LAMBDA d, ts :
        IF ts = <<>> \/ SameSort(d, ts) THEN Ok(d, ts) ELSE Err(d))

RECURSIVE Branch(_, _, _), BranchAll(_, _, _)
BranchAll(c, items, polarity) ==
    IF items = <<>> THEN Ok(c, NoLiterals)
    ELSE Then(Branch(c, Head(items), polarity), LAMBDA d, first :
             IF ~first.usable THEN Ok(d, Unusable)
             ELSE Then(BranchAll(d, Tail(items), polarity), LAMBDA e, rest :
                      Ok(e, [rest EXCEPT !.eqs = @ \cup first.eqs,
                                         !.diseqs = @ \cup first.diseqs])))

Branch(c, s, polarity) ==
    LET op == Syntax(Head1(s))
        args == Args(s)
        n == Len(args)
        Terms(Literals(_)) == Then(SameSortTerms(c, args), LAMBDA d, ts : Ok(d, Literals(ts)))
    IN  CASE s.kind # "list" ->
                 Ok(c, IF Syntax(s) = (IF polarity THEN "true" ELSE "false")
                       THEN NoLiterals ELSE Unusable)
          [] s.kind = "list" /\ ~HasHead(s) -> Ok(c, Unusable)
          [] OTHER ->
                 CASE op = "!" /\ n >= 1 -> Branch(c, args[1], polarity)
                   [] op = "and" /\ polarity -> BranchAll(c, args, TRUE)
                   [] op = "or" /\ ~polarity -> BranchAll(c, args, FALSE)
                   [] op = "not" /\ n = 1 -> Branch(c, args[1], ~polarity)
                   [] op = "=" /\ polarity ->
                          Terms(LAMBDA ts : IF n < 2 THEN Unusable
                                            ELSE [NoLiterals EXCEPT !.eqs = FromFirst(ts)])
                   [] op = "=" /\ ~polarity /\ n = 2 ->
                          Terms(LAMBDA ts : [NoLiterals EXCEPT !.diseqs = PairSet(ts)])
                   [] op = "distinct" /\ polarity ->
                          Terms(LAMBDA ts : [NoLiterals EXCEPT !.diseqs = PairSet(ts)])
                   [] op = "distinct" /\ ~polarity /\ n = 2 ->
                          Terms(LAMBDA ts : [NoLiterals EXCEPT !.eqs = PairSet(ts)])
                   [] op = "let" /\ n = 2 ->
                          Then(OpenLet("argument", c, args[1]), LAMBDA d, scope :
                              CloseScope(Branch(d, args[2], polarity), scope))
                   [] OTHER -> Ok(c, Unusable)

(* Each branch of a disjunction by itself, in an environment of its own.   *)
RECURSIVE Branches(_, _)
Branches(c, items) ==
    IF items = <<>> THEN Ok(c, <<>>)
    ELSE LET first == Branch(c, Head(items), TRUE)
         IN  Then([first EXCEPT !.c.env = c.env], LAMBDA d, lits :
                 IF ~lits.usable THEN Ok(d, <<Unusable>>)
                 ELSE Then(Branches(d, Tail(items)), LAMBDA e, rest : Ok(e, <<lits>> \o rest)))

(* Faulty: the equalities of one branch that is left are taken.            *)
AnalyzePositiveOrFirst(c, items) ==
    IF items = <<>> THEN Contradiction(c)
    ELSE Then(Branches(c, items), LAMBDA d, branches :
        LET roots == {Closure(d, d.eqs \cup branches[i].eqs) : i \in
                         {k \in DOMAIN branches : branches[k].usable /\
                             ~Refuted(Closure(d, d.eqs \cup branches[k].eqs),
                                      d.diseqs \cup branches[k].diseqs)}}
            root == CHOOSE r \in roots : TRUE
        IN  CASE \E i \in DOMAIN branches : ~branches[i].usable -> Unsupported(d)
              [] roots = {} -> Contradiction(d)
              [] OTHER -> Unsupported([d EXCEPT !.eqs = @ \cup
                     {p \in (DOMAIN d.terms) \X (DOMAIN d.terms) :
                          p[1] < p[2] /\ root[p[1]] = root[p[2]]}]))

(* analyze_positive_or: what all branches that may hold agree on is a      *)
(* consequence; no such branch is a contradiction.                         *)
AnalyzePositiveOr(c, items) ==
    IF items = <<>> THEN Contradiction(c)
    ELSE Then(Branches(c, items), LAMBDA d, branches :
        LET Root(i) == Closure(d, d.eqs \cup branches[i].eqs)
            roots == {Root(i) : i \in {k \in DOMAIN branches :
                                          ~Refuted(Root(k), d.diseqs \cup branches[k].diseqs)}}
            Together(s, t) == \A root \in roots : root[s] = root[t]
            common == {p \in (DOMAIN d.terms) \X (DOMAIN d.terms) :
                           /\ p[1] < p[2] /\ Together(p[1], p[2])
                           /\ \A t \in 1..(p[1] - 1) : ~Together(t, p[1])}
        IN  CASE \E i \in DOMAIN branches : ~branches[i].usable -> Unsupported(d)
              [] roots = {} -> Contradiction(d)
              [] OTHER -> Unsupported([d EXCEPT !.eqs = @ \cup common]))

-----------------------------------------------------------------------------
(* collect_formula                                                         *)

IsOr(s) == s.kind = "list" /\ s.items # <<>> /\ Syntax(Head1(s)) = "or"

Skip(c) == Ok(c, <<>>)
WithEqs(c, pairs) == Skip([c EXCEPT !.eqs = @ \cup pairs])
WithDiseqs(c, pairs) == Skip([c EXCEPT !.diseqs = @ \cup pairs])

(* collect_equality and collect_distinct; a negation that would need a     *)
(* disjunction is not supported.                                           *)
CollectEquality(c, args, polarity) ==
    IF Len(args) < 2 THEN Unsupported(c)
    ELSE Then(SameSortTerms(c, args), LAMBDA d, ts :
        CASE polarity -> WithEqs(d, FromFirst(ts))
          [] ~polarity /\ Len(ts) = 2 -> WithDiseqs(d, PairSet(ts))
          [] OTHER -> Unsupported(d))

CollectDistinct(c, args, polarity) ==
    IF Len(args) < 2 THEN Skip(c)
    ELSE Then(SameSortTerms(c, args), LAMBDA d, ts :
        CASE polarity -> WithDiseqs(d, PairSet(ts))
          [] ~polarity /\ Len(ts) = 2 -> WithEqs(d, PairSet(ts))
          [] OTHER -> Unsupported(d))

RECURSIVE Collect(_, _, _), CollectAll(_, _, _)
CollectAll(c, items, polarity) ==
    IF items = <<>> THEN Skip(c)
    ELSE Then(Collect(c, Head(items), polarity),
              LAMBDA d, none : CollectAll(d, Tail(items), polarity))

Collect(c, s, polarity) ==
    LET op == Syntax(Head1(s))
        args == Args(s)
    IN  CASE s.kind # "list" ->
                 (CASE Syntax(s) = (IF polarity THEN "true" ELSE "false") -> Skip(c)
                    [] Syntax(s) = (IF polarity THEN "false" ELSE "true") -> Contradiction(c)
                    [] OTHER -> Unsupported(c))
          [] s.kind = "list" /\ ~HasHead(s) -> Unsupported(c)
          [] OTHER ->
                 CASE op = "!" -> IF args = <<>> THEN Unsupported(c)
                                  ELSE Collect(c, args[1], polarity)
                   [] op = "and" /\ polarity ->
                          \* the disjunctions after everything else
                          CollectAll(c, SelectSeq(args, LAMBDA a : ~IsOr(a))
                                          \o SelectSeq(args, IsOr), TRUE)
                   [] op = "or" /\ ~polarity -> CollectAll(c, args, FALSE)
                   [] op = "not" -> IF Len(args) # 1 THEN Unsupported(c)
                                    ELSE Collect(c, args[1], ~polarity)
                   [] op = "=" -> CollectEquality(c, args, polarity)
                   [] op = "distinct" -> CollectDistinct(c, args, polarity)
                   [] op = "let" ->
                          IF Len(args) # 2 THEN Unsupported(c)
                          ELSE Then(OpenLet("argument", c, args[1]), LAMBDA d, scope :
                                   CloseScope(Collect(d, args[2], polarity), scope))
                   [] op = "or" /\ polarity -> AnalyzePositiveOr(c, args)
                   [] OTHER -> Unsupported(c)

-----------------------------------------------------------------------------
(* should_preprocess_branch_intersections: a conjunction with a            *)
(* disequality and a disjunction of paths of equalities.                   *)

IsPath(e) == e.op = "and" /\ Len(e.kids) >= 2 /\ \A i \in DOMAIN e.kids : e.kids[i].op = "eq"

RECURSIVE HasDisequality(_)
HasDisequality(e) ==
    \/ e.op = "not" /\ e.kids[1].op = "eq"
    \/ e.op = "and" /\ \E i \in DOMAIN e.kids : HasDisequality(e.kids[i])

ShouldPreprocess(e) ==
    /\ e.op = "and"
    /\ \E i \in DOMAIN e.kids : HasDisequality(e.kids[i])
    /\ \E i \in DOMAIN e.kids :
           LET or == e.kids[i]
           IN  or.op = "or" /\ Len(or.kids) >= 2 /\ \A k \in DOMAIN or.kids : IsPath(or.kids[k])

(* assert.  When the Boolean parser fails, what it has asserted is taken   *)
(* back, and the collector has the last word.                              *)
ReadFormula(c, s) == Then(EnsureValueTerms(c), LAMBDA d, none : Read("formula", d, s))

AssertParsed(parsed, s, before) ==
    LET d == parsed.c
        withdrawn == [d EXCEPT !.asserts = SubSeq(@, 1, before), !.boolUnsupported = TRUE]
        asserted == [d EXCEPT !.asserts = Append(@, parsed.value)]
    IN  CASE parsed.ok /\ ~(d.preprocess /\ ShouldPreprocess(parsed.value)) -> Skip(asserted)
          [] ~parsed.ok /\ ~MayBeBool(d, s) -> Err(d)
          [] OTHER -> Collect(IF parsed.ok THEN asserted ELSE withdrawn, s, TRUE)

AssertCommand(c, args) ==
    IF Len(args) # 1 THEN Unsupported(c)
    ELSE AssertParsed(ReadFormula(c, args[1]), args[1], Len(c.asserts))

(* define-fun: a macro without parameters, of sort Bool.                   *)
DefineParsed(parsed, name, s) ==
    LET d == parsed.c
    IN  CASE ~parsed.ok /\ ~MayBeBool(d, s) -> Err(d)
          [] name \in DOMAIN d.decls -> Err(d)
          [] parsed.ok -> Skip([Declare(d, name, <<>>, "Bool")
                                    EXCEPT !.defs = (name :> parsed.value) @@ @])
          [] OTHER -> Skip([d EXCEPT !.unsupported = TRUE, !.boolUnsupported = TRUE])

DefineFun(c, args) ==
    IF \/ Len(args) # 4 \/ args[1].kind = "list"
       \/ args[2].kind # "list" \/ args[2].items # <<>> \/ Syntax(args[3]) # "Bool"
    THEN Unsupported(c)
    ELSE DefineParsed(ReadFormula(c, args[4]), args[1].name, args[4])

SortName(s) == s.name
IsSort(c, s) == s.kind # "list" /\ (Syntax(s) = "Bool" \/ s.name \in c.sorts)

DeclareFun(c, args) ==
    IF /\ Len(args) = 3 /\ args[1].kind # "list" /\ args[2].kind = "list"
       /\ \A i \in DOMAIN args[2].items : IsSort(c, args[2].items[i])
       /\ IsSort(c, args[3])
       /\ args[1].name \notin DOMAIN c.decls
    THEN Skip(Declare(c, args[1].name,
                      [i \in DOMAIN args[2].items |-> SortName(args[2].items[i])],
                      SortName(args[3])))
    ELSE Err(c)

(* A constant that is not Boolean is in the arena at once.                 *)
DeclareConst(c, args) ==
    IF /\ Len(args) = 2 /\ args[1].kind # "list" /\ IsSort(c, args[2])
       /\ args[1].name \notin DOMAIN c.decls
    THEN LET d == Declare(c, args[1].name, <<>>, SortName(args[2]))
         IN  IF SortName(args[2]) = "Bool" THEN Skip(d)
             ELSE Skip(Intern(d, args[1].name, <<>>, SortName(args[2])).c)
    ELSE Err(c)

DeclareSort(c, args) ==
    IF /\ Len(args) = 2 /\ args[1].kind # "list" /\ Syntax(args[2]) = "0"
       /\ args[1].name \notin c.sorts \cup {"Bool"}
    THEN Skip([c EXCEPT !.sorts = @ \cup {args[1].name}])
    ELSE Err(c)

(* parse_command.  One query: after check-sat there are only questions.    *)
Command(c, s) ==
    LET op == Syntax(Head1(s))
        args == Args(s)
    IN  CASE s.kind # "list" \/ s.items = <<>> -> Skip(c)
          [] op = "" \/ c.exit -> Err(c)
          [] c.checkSat /\ op \notin {"get-model", "get-value", "exit"} -> Err(c)
          [] OTHER ->
                 CASE op = "assert" -> AssertCommand(c, args)
                   [] op = "declare-fun" -> DeclareFun(c, args)
                   [] op = "declare-const" -> DeclareConst(c, args)
                   [] op = "declare-sort" -> DeclareSort(c, args)
                   [] op \in {"set-logic", "set-option", "set-info", "get-model", "get-value"} ->
                          Skip(c)
                   [] op = "check-sat" -> IF args = <<>> THEN Skip([c EXCEPT !.checkSat = TRUE])
                                                         ELSE Err(c)
                   [] op = "exit" -> IF args = <<>> THEN Skip([c EXCEPT !.exit = TRUE]) ELSE Err(c)
                   [] op = "define-fun" -> DefineFun(c, args)
                   [] OTHER -> Unsupported(c)
-----------------------------------------------------------------------------
CONSTANT Scripts         \* sequences of commands

VARIABLES script, mode, ctx, step, answer

scriptVars == <<script, mode, ctx, step, answer>>

IsAssertion(s) == s.kind = "list" /\ s.items # <<>> /\ Syntax(Head1(s)) = "assert"
OneAssertion(sexps) == Len(SelectSeq(sexps, IsAssertion)) = 1

ScriptInit ==
    /\ script \in Scripts
    /\ mode \in BOOLEAN             \* scoped_let_selected
    /\ ctx = EmptyContext(mode, OneAssertion(script))
    /\ step = 1
    /\ answer = "none"

ReadCommand ==
    /\ answer = "none" /\ step <= Len(script)
    /\ LET result == Command(ctx, script[step])
       IN  /\ ctx' = result.c
           /\ answer' = IF result.ok THEN answer ELSE "rejected"
    /\ step' = step + 1
    /\ UNCHANGED <<script, mode>>

(* ParseCtx::finish has a Boolean problem when there is something in it.   *)
HasBoolProblem(c) == c.asserts # <<>> \/ c.boolUnsupported \/ c.dataTerms # {}

(* solve_problem_with_options_and_eq_abstraction, up to the search         *)
Answer(c) ==
    LET root == Closure(c, c.eqs)
    IN  CASE c.contradiction -> "unsat"
          [] ~c.contradiction /\ HasBoolProblem(c) /\ ~c.boolUnsupported -> "search"
          [] OTHER -> IF Refuted(root, c.diseqs) THEN "unsat"
                      ELSE IF c.unsupported THEN "unsupported" ELSE "sat"

Solve ==
    /\ answer = "none" /\ step > Len(script)
    /\ answer' = Answer(ctx)
    /\ UNCHANGED <<script, mode, ctx, step>>

ScriptNext == ReadCommand \/ Solve
=============================================================================
