----------------------------- MODULE SmtFrontEnd -----------------------------
(***************************************************************************)
(* ParseCtx: the commands of a script, one after the other, into the terms *)
(* and formulas of a Problem, and what solve_problem answers before any    *)
(* search.  The context c is a record with the fields of ParseCtx; an      *)
(* operator that may fail returns ok, the context as it leaves it, also    *)
(* when it fails, and its value.                                           *)
(*                                                                         *)
(* A symbol is its name: the interner is one to one, and the only question *)
(* asked of it is whether the name of a new internal term is taken.  Of a  *)
(* list of messages ("unsupported") only its emptiness is kept.            *)
(***************************************************************************)
EXTENDS SmtReader, SequencesExt, TLC

Expr(op, kids) == [op |-> op, terms |-> <<>>, kids |-> kids]
Const(value) == Expr(IF value THEN "true" ELSE "false", <<>>)
Eq(s, t) == [op |-> "eq", terms |-> <<s, t>>, kids |-> <<>>]
BoolTerm(t) == [op |-> "term", terms |-> <<t>>, kids |-> <<>>]
Not(e) == Expr("not", <<e>>)

(* BindingValue                                                            *)
BoolValue(e) == [kind |-> "bool", expr |-> e, term |-> 0]
TermValue(t) == [kind |-> "term", expr |-> Const(TRUE), term |-> t]

EmptyContext(scoped, preprocess) ==
    [sorts |-> {}, decls |-> <<>>, defs |-> <<>>,
     terms |-> <<>>, eqs |-> {}, diseqs |-> {}, contradiction |-> FALSE,
     unsupported |-> FALSE, asserts |-> <<>>, boolUnsupported |-> FALSE,
     valueTerms |-> <<>>, dataTerms |-> {}, fresh |-> 0,
     scoped |-> scoped, preprocess |-> preprocess,
     checkSat |-> FALSE, exit |-> FALSE,
     env |-> <<>>]          \* what the &mut env of the parsers refers to

Ok(c, value) == [ok |-> TRUE, c |-> c, value |-> value]
Err(c) == [ok |-> FALSE, c |-> c, value |-> <<>>]
Then(result, Continue(_, _)) ==
    IF result.ok THEN Continue(result.c, result.value) ELSE result

Unsupported(c) == Ok([c EXCEPT !.unsupported = TRUE], <<>>)
Contradiction(c) == Ok([c EXCEPT !.contradiction = TRUE], <<>>)

(* atom_text and syntax_atom_text: a quoted symbol is never syntax.        *)
Head1(s) == s.items[1]
HasHead(s) == s.items # <<>> /\ Head1(s).kind # "list"
Syntax(s) == IF s.kind = "atom" THEN s.name ELSE ""
Args(s) == Tail(s.items)

-----------------------------------------------------------------------------
(* The arena, and the terms of the solver's own.                           *)

SortOf(c, t) == c.terms[t].sort
SameSort(c, ts) == \A i \in DOMAIN ts : SortOf(c, ts[i]) = SortOf(c, ts[1])

Intern(c, fun, args, sort) ==
    LET known == {t \in DOMAIN c.terms : c.terms[t].fun = fun /\ c.terms[t].args = args}
    IN  IF known # {} THEN Ok(c, CHOOSE t \in known : TRUE)
        ELSE Ok([c EXCEPT !.terms = Append(@, [fun |-> fun, args |-> args, sort |-> sort])],
                Len(c.terms) + 1)

Declare(c, name, args, result) ==
    [c EXCEPT !.decls = (name :> [args |-> args, result |-> result]) @@ @]

Internal(kind, n) == "@" \o kind \o ToString(n)

(* fresh_internal_term                                                     *)
Fresh(c, kind, sort) ==
    LET taken == DOMAIN c.decls \cup c.sorts
        n == CHOOSE k \in c.fresh..(c.fresh + Cardinality(taken)) :
                 /\ Internal(kind, k) \notin taken
                 /\ \A j \in c.fresh..(k - 1) : Internal(kind, j) \in taken
        name == Internal(kind, n)
    IN  Intern([Declare(c, name, <<>>, sort) EXCEPT !.fresh = n + 1], name, <<>>, sort)

EnsureValueTerms(c) ==
    IF c.valueTerms # <<>> THEN Ok(c, <<>>)
    ELSE Then(Fresh(c, "true", "Bool"), LAMBDA d, t :
             Then(Fresh(d, "false", "Bool"), LAMBDA e, f :
                 Ok([e EXCEPT !.valueTerms = <<t, f>>], <<>>)))

ValueTerm(c, value) == c.valueTerms[IF value THEN 1 ELSE 2]

IsBoolSymbol(c, name, arity) ==
    /\ name \in DOMAIN c.decls
    /\ c.decls[name].result = "Bool" /\ Len(c.decls[name].args) = arity

(* intern_application: declared, with arguments of the declared sorts.     *)
Apply(c, name, args) ==
    IF /\ name \in DOMAIN c.decls
       /\ c.decls[name].args = [i \in DOMAIN args |-> SortOf(c, args[i])]
    THEN Intern(c, name, args, c.decls[name].result)
    ELSE Err(c)

BoolApp(c, name, args) ==
    Then(Apply(c, name, args),
         LAMBDA d, t : IF SortOf(d, t) = "Bool" THEN Ok(d, BoolTerm(t)) ELSE Err(d))

(* materialize_bool_expr: a Boolean used as data becomes a term, which an  *)
(* assertion of its own ties to the formula.                               *)
Reify(c, e) ==
    CASE e.op \in {"true", "false"} -> Ok(c, ValueTerm(c, e.op = "true"))
      [] e.op = "term" -> Ok(c, e.terms[1])
      [] OTHER -> Then(Fresh(c, "bool_expr", "Bool"), LAMBDA d, t :
                      Ok([d EXCEPT !.asserts = Append(@, Expr("iff", <<BoolTerm(t), e>>))], t))

Materialize(c, e) ==
    Then(EnsureValueTerms(c), LAMBDA d, none :
        Then(Reify(d, e), LAMBDA f, t : Ok([f EXCEPT !.dataTerms = @ \cup {t}], t)))

AsTerm(c, v) == IF v.kind = "term" THEN Ok(c, v.term) ELSE Materialize(c, v.expr)

-----------------------------------------------------------------------------
(* Let.  The bindings are in scope in the body alone.  In scoped mode they *)
(* are written over the environment, one after the other, and taken back   *)
(* in the opposite order; else the body has a copy of the environment.     *)

Bound(env, name, v) == (name :> v) @@ env
Without(env, name) == [n \in DOMAIN env \ {name} |-> env[n]]

RECURSIVE Enter(_, _)
Enter(env, bindings) ==     \* ScopedBindings::new
    IF bindings = <<>> THEN [env |-> env, restore |-> <<>>]
    ELSE LET b == Head(bindings)
             rest == Enter(Bound(env, b.name, b.value), Tail(bindings))
             previous == IF b.name \in DOMAIN env
                         THEN [name |-> b.name, old |-> <<env[b.name]>>]
                         ELSE [name |-> b.name, old |-> <<>>]
         IN  [rest EXCEPT !.restore = <<previous>> \o @]

(* Faulty: the values are put back in the order in which they were saved.  *)
RECURSIVE LeaveInOrder(_, _)
LeaveInOrder(env, restore) ==
    IF restore = <<>> THEN env
    ELSE LET entry == Head(restore)
         IN  LeaveInOrder(IF entry.old = <<>> THEN Without(env, entry.name)
                          ELSE Bound(env, entry.name, entry.old[1]),
                          Tail(restore))

RECURSIVE Leave(_, _)
Leave(env, restore) ==      \* ScopedBindings::drop
    IF restore = <<>> THEN env
    ELSE LET entry == restore[Len(restore)]
         IN  Leave(IF entry.old = <<>> THEN Without(env, entry.name)
                   ELSE Bound(env, entry.name, entry.old[1]),
                   SubSeq(restore, 1, Len(restore) - 1))

OpenScope(c, bindings) ==
    Ok([c EXCEPT !.env = Enter(@, bindings).env],
       [restore |-> Enter(c.env, bindings).restore, outer |-> c.env])

CloseScope(body, scope) ==
    [body EXCEPT !.c.env = IF body.c.scoped THEN Leave(@, scope.restore) ELSE scope.outer]

-----------------------------------------------------------------------------
(* The Boolean parser reads a formula (parse_bool_expr), a formula or a    *)
(* term (parse_bool_or_term), a term (parse_typed_term) or an argument     *)
(* (parse_argument_term, and parse_term).                                  *)

RECURSIVE Read(_, _, _), Several(_, _, _), Bindings(_, _, _)

Several(what, c, items) ==
    IF items = <<>> THEN Ok(c, <<>>)
    ELSE Then(Read(what, c, Head(items)), LAMBDA d, v :
             Then(Several(what, d, Tail(items)), LAMBDA e, vs : Ok(e, <<v>> \o vs)))

(* parse_mixed_let_bindings, and parse_let_bindings, whose values are      *)
(* terms: all are read before any is in scope.                             *)
Binding(what, c, pair) ==
    IF pair.kind # "list" \/ Len(pair.items) # 2 \/ Head1(pair).kind = "list" THEN Err(c)
    ELSE Then(Read(what, c, pair.items[2]), LAMBDA d, v :
             Ok(d, [name |-> Head1(pair).name,
                    value |-> IF what = "value" THEN v ELSE TermValue(v)]))

Bindings(what, c, pairs) ==
    IF pairs = <<>> THEN Ok(c, <<>>)
    ELSE Then(Binding(what, c, Head(pairs)), LAMBDA d, v :
             Then(Bindings(what, d, Tail(pairs)), LAMBDA e, vs : Ok(e, <<v>> \o vs)))

OpenLet(what, c, pairs) ==
    IF pairs.kind # "list" THEN Err(c)
    ELSE Then(Bindings(what, c, pairs.items), OpenScope)

ReadLet(what, c, args) ==
    Then(OpenLet("value", c, args[1]), LAMBDA d, scope : CloseScope(Read(what, d, args[2]), scope))

Conjunction(es) == IF Len(es) = 1 THEN es[1] ELSE Expr("and", es)
AllTerms(vs) == \A i \in DOMAIN vs : vs[i].kind = "term"
AllBools(vs) == \A i \in DOMAIN vs : vs[i].kind = "bool"
TermsOf(vs) == [i \in DOMAIN vs |-> vs[i].term]
ExprsOf(vs) == [i \in DOMAIN vs |-> vs[i].expr]

PairsUpTo(n) == FlattenSeq([i \in 1..n |-> [k \in 1..(n - i) |-> <<i, i + k>>]])

Equality(c, args) ==
    IF Len(args) < 2 THEN Err(c)
    ELSE Then(Several("value", c, args), LAMBDA d, vs :
        CASE AllTerms(vs) /\ SameSort(d, TermsOf(vs)) ->
                 Ok(d, Conjunction([i \in 1..(Len(vs) - 1) |-> Eq(vs[1].term, vs[i + 1].term)]))
          [] AllBools(vs) -> Ok(d, Expr("iff", ExprsOf(vs)))
          [] OTHER -> Err(d))

(* More than two Booleans cannot differ from each other.                   *)
Distinct(c, args) ==
    IF Len(args) < 2 THEN Ok(c, Const(TRUE))
    ELSE Then(Several("value", c, args), LAMBDA d, vs :
        CASE AllTerms(vs) /\ SameSort(d, TermsOf(vs)) ->
                 LET pairs == PairsUpTo(Len(vs))
                 IN  Ok(d, Expr("and", [i \in DOMAIN pairs |->
                            Not(Eq(vs[pairs[i][1]].term, vs[pairs[i][2]].term))]))
          [] AllBools(vs) -> Ok(d, IF Len(vs) = 2 THEN Not(Expr("iff", ExprsOf(vs)))
                                                  ELSE Const(FALSE))
          [] OTHER -> Err(d))

Implication(es) ==
    Expr("or", <<Not(Conjunction(SubSeq(es, 1, Len(es) - 1))), es[Len(es)]>>)

RECURSIVE ExclusiveOr(_)
ExclusiveOr(es) ==
    IF Len(es) = 1 THEN es[1]
    ELSE Not(Expr("iff", <<ExclusiveOr(SubSeq(es, 1, Len(es) - 1)), es[Len(es)]>>))

Formula(c, s) ==
    IF s.kind # "list"
    THEN CASE Syntax(s) \in {"true", "false"} -> Ok(c, Const(s.name = "true"))
           [] s.name \in DOMAIN c.env ->
                  IF c.env[s.name].kind = "bool" THEN Ok(c, c.env[s.name].expr) ELSE Err(c)
           [] s.name \in DOMAIN c.defs -> Ok(c, c.defs[s.name])
           [] IsBoolSymbol(c, s.name, 0) -> BoolApp(c, s.name, <<>>)
           [] OTHER -> Err(c)
    ELSE IF ~HasHead(s) THEN Err(c)
    ELSE LET op == Syntax(Head1(s))
             name == Head1(s).name
             args == Args(s)
             n == Len(args)
             Kids(Make(_)) == Then(Several("formula", c, args), LAMBDA d, es : Ok(d, Make(es)))
         IN  CASE op = "!" -> IF n = 0 THEN Err(c) ELSE Read("formula", c, args[1])
               [] op \in {"and", "or"} -> Kids(LAMBDA es : Expr(op, es))
               [] op = "not" -> IF n # 1 THEN Err(c) ELSE Kids(LAMBDA es : Not(es[1]))
               [] op = "=>" -> IF n < 2 THEN Err(c) ELSE Kids(Implication)
               [] op = "xor" -> IF n < 2 THEN Err(c) ELSE Kids(ExclusiveOr)
               [] op = "ite" -> IF n # 3 THEN Err(c) ELSE Kids(LAMBDA es : Expr("ite", es))
               [] op = "=" -> Equality(c, args)
               [] op = "distinct" -> Distinct(c, args)
               [] op = "let" -> IF n # 2 THEN Err(c) ELSE ReadLet("formula", c, args)
               [] OTHER ->
                      IF n = 0 /\ name \in DOMAIN c.defs THEN Ok(c, c.defs[name])
                      ELSE IF IsBoolSymbol(c, name, n)
                      THEN Then(Several("argument", c, args), LAMBDA d, ts : BoolApp(d, name, ts))
                      ELSE Err(c)

AsBool(result) == Then(result, LAMBDA d, e : Ok(d, BoolValue(e)))
OfTerm(result) == Then(result, LAMBDA d, t : Ok(d, TermValue(t)))

(* An ite or a let is tried as a formula first; what the attempt has made  *)
(* stays.                                                                  *)
Value(c, s) ==
    IF s.kind # "list"
    THEN CASE Syntax(s) \in {"true", "false"} -> Ok(c, BoolValue(Const(s.name = "true")))
           [] s.name \in DOMAIN c.env -> Ok(c, c.env[s.name])
           [] s.name \in DOMAIN c.defs -> Ok(c, BoolValue(c.defs[s.name]))
           [] IsBoolSymbol(c, s.name, 0) -> AsBool(BoolApp(c, s.name, <<>>))
           [] OTHER -> OfTerm(Read("term", c, s))
    ELSE IF ~HasHead(s) THEN Err(c)
    ELSE LET op == Syntax(Head1(s))
             name == Head1(s).name
             n == Len(Args(s))
             attempt == Read("formula", c, s)
         IN  CASE op = "!" -> IF n = 0 THEN Err(c) ELSE Read("value", c, Args(s)[1])
               [] op \in {"and", "or", "not", "=>", "xor", "=", "distinct"} -> AsBool(attempt)
               [] op \in {"ite", "let"} ->
                      IF attempt.ok THEN AsBool(attempt) ELSE OfTerm(Read("term", attempt.c, s))
               [] n = 0 /\ name \in DOMAIN c.defs -> Ok(c, BoolValue(c.defs[name]))
               [] IsBoolSymbol(c, name, n) -> AsBool(attempt)
               [] OTHER -> OfTerm(Read("term", c, s))

(* A conditional term is a new term, and two assertions that define it.    *)
Conditional(c, cond, then, else) ==
    CASE ~SameSort(c, <<then, else>>) -> Err(c)
      [] then = else -> Ok(c, then)
      [] OTHER -> Then(Fresh(c, "ite", SortOf(c, then)), LAMBDA d, t :
                      Ok([d EXCEPT !.asserts = @ \o
                              <<Expr("or", <<Not(cond), Eq(t, then)>>),
                                Expr("or", <<cond, Eq(t, else)>>)>>],
                         t))

Term(c, s) ==
    IF s.kind # "list"
    THEN IF Syntax(s) \in {"true", "false"}
         THEN Then(EnsureValueTerms(c), LAMBDA d, none : Ok(d, ValueTerm(d, s.name = "true")))
         ELSE IF s.name \in DOMAIN c.env THEN AsTerm(c, c.env[s.name])
         ELSE Apply(c, s.name, <<>>)
    ELSE IF ~HasHead(s) THEN Err(c)
    ELSE LET op == Syntax(Head1(s))
             args == Args(s)
             n == Len(args)
         IN  CASE op = "!" -> IF n = 0 THEN Err(c) ELSE Read("term", c, args[1])
               [] op = "let" -> IF n # 2 THEN Err(c) ELSE ReadLet("term", c, args)
               [] op = "ite" ->
                      IF n # 3 THEN Err(c)
                      ELSE Then(Read("formula", c, args[1]), LAMBDA d, cond :
                               Then(Read("term", d, args[2]), LAMBDA e, then :
                                   Then(Read("term", e, args[3]), LAMBDA f, else :
                                       Conditional(f, cond, then, else))))
               [] OTHER -> Then(Several("argument", c, args),
                                LAMBDA d, ts : Apply(d, Head1(s).name, ts))

Read(what, c, s) ==
    CASE what = "formula" -> Formula(c, s)
      [] what = "value" -> Value(c, s)
      [] what = "term" -> Term(c, s)
      [] what = "argument" -> Then(Read("value", c, s), AsTerm)
=============================================================================
