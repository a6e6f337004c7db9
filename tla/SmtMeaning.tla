------------------------------ MODULE SmtMeaning ------------------------------
(***************************************************************************)
(* What a script says, by the rules of SMT-LIB and without the parser: the *)
(* sort of an expression, and its value in an interpretation of the        *)
(* declared symbols: Bool has the values 0 and 1, a declared sort three.   *)
(* And what the parser must make of it.                                    *)
(***************************************************************************)
EXTENDS SmtScript

-----------------------------------------------------------------------------
(* The rules of sorts.  sig gives the argument sorts and the sort of the   *)
(* symbols in scope; the names bound by let have no arguments.             *)

Signature(args, result) == [args |-> args, result |-> result]
Connective == {"and", "or", "=>", "xor"}

RECURSIVE WellSorted(_, _, _)
WellSorted(s, sig, sort) ==
    IF s.kind # "list"
    THEN \/ Syntax(s) \in {"true", "false"} /\ sort = "Bool"
         \/ Syntax(s) \notin {"true", "false"} /\ s.name \in DOMAIN sig
                /\ sig[s.name] = Signature(<<>>, sort)
    ELSE /\ HasHead(s)
         /\ LET op == Syntax(Head1(s))
                name == Head1(s).name
                args == Args(s)
                All(expected) == \A i \in DOMAIN args : WellSorted(args[i], sig, expected)
                sorts == {sig[n].result : n \in DOMAIN sig} \cup {"Bool"}
            IN  CASE op = "!" -> args # <<>> /\ WellSorted(args[1], sig, sort)
                  [] op = "not" -> sort = "Bool" /\ Len(args) = 1 /\ All("Bool")
                  [] op \in Connective -> sort = "Bool" /\ Len(args) >= 2 /\ All("Bool")
                  [] op \in {"=", "distinct"} ->
                         sort = "Bool" /\ Len(args) >= 2 /\ \E common \in sorts : All(common)
                  [] op = "ite" -> /\ Len(args) = 3 /\ WellSorted(args[1], sig, "Bool")
                                   /\ \A i \in 2..3 : WellSorted(args[i], sig, sort)
                  [] op = "let" ->
                         /\ Len(args) = 2 /\ args[1].kind = "list" /\ args[1].items # <<>>
                         /\ LET binds == args[1].items
                            IN  /\ \A i \in DOMAIN binds :
                                       /\ binds[i].kind = "list" /\ Len(binds[i].items) = 2
                                       /\ Head1(binds[i]).kind # "list"
                                /\ \A i, j \in DOMAIN binds :
                                       Head1(binds[i]).name = Head1(binds[j]).name => i = j
                                /\ \E given \in [DOMAIN binds -> sorts] :
                                       /\ \A i \in DOMAIN binds :
                                              WellSorted(binds[i].items[2], sig, given[i])
                                       /\ WellSorted(args[2], [n \in {Head1(binds[i]).name :
                                                                      i \in DOMAIN binds} |->
                                              Signature(<<>>, given[CHOOSE i \in DOMAIN binds :
                                                                 Head1(binds[i]).name = n])]
                                              @@ sig, sort)
                  [] OTHER -> /\ name \in DOMAIN sig
                              /\ sig[name].result = sort /\ Len(sig[name].args) = Len(args)
                              /\ \A i \in DOMAIN args : WellSorted(args[i], sig, sig[name].args[i])

(* A script with one query, which asks of assertions, declarations and     *)
(* macros what SMT-LIB does.  The context gathers sorts and signature.     *)
RECURSIVE WellFormed(_, _, _, _)
WellFormed(commands, sorts, sig, asked) ==
    commands = <<>> \/
    LET s == Head(commands)
        op == Syntax(Head1(s))
        args == Args(s)
        IsName(x, taken) == x.kind # "list" /\ x.name \notin taken
        KnownSort(x) == x.kind # "list" /\ x.name \in sorts
        Go(newSorts, newSig, newAsked) == WellFormed(Tail(commands), newSorts, newSig, newAsked)
        With(name, argSorts, result) ==
            Go(sorts, (name :> Signature(argSorts, result)) @@ sig, asked)
    IN  /\ s.kind = "list" /\ HasHead(s)
        /\ asked => op \in {"get-model", "get-value", "exit"}
        /\ CASE op = "assert" -> /\ Len(args) = 1 /\ WellSorted(args[1], sig, "Bool")
                                 /\ Go(sorts, sig, asked)
             [] op = "declare-sort" -> /\ Len(args) = 2 /\ IsName(args[1], sorts)
                                       /\ Syntax(args[2]) = "0"
                                       /\ Go(sorts \cup {args[1].name}, sig, asked)
             [] op = "declare-const" -> /\ Len(args) = 2 /\ IsName(args[1], DOMAIN sig)
                                        /\ KnownSort(args[2])
                                        /\ With(args[1].name, <<>>, args[2].name)
             [] op = "declare-fun" ->
                    /\ Len(args) = 3 /\ IsName(args[1], DOMAIN sig)
                    /\ \A i \in DOMAIN args[2].items : KnownSort(args[2].items[i])
                    /\ KnownSort(args[3])
                    /\ With(args[1].name, [i \in DOMAIN args[2].items |-> args[2].items[i].name],
                            args[3].name)
             [] op = "define-fun" ->
                    /\ Len(args) = 4 /\ IsName(args[1], DOMAIN sig)
                    /\ args[2].items = <<>> /\ Syntax(args[3]) = "Bool"
                    /\ WellSorted(args[4], sig, "Bool")
                    /\ With(args[1].name, <<>>, "Bool")
             [] op = "check-sat" -> args = <<>> /\ Go(sorts, sig, TRUE)
             [] op \in {"set-logic", "set-option", "set-info", "get-model", "get-value"} ->
                    Go(sorts, sig, asked)
             [] OTHER -> op = "exit" /\ args = <<>> /\ Len(commands) = 1

-----------------------------------------------------------------------------
(* The value of an expression when I gives each symbol its table.          *)
Bit(b) == IF b THEN 1 ELSE 0

RECURSIVE Denotes(_, _)
Denotes(I, s) ==
    IF s.kind # "list"
    THEN CASE Syntax(s) = "true" -> 1
           [] Syntax(s) = "false" -> 0
           [] OTHER -> I[s.name][<<>>]
    ELSE LET op == Syntax(Head1(s))
             args == Args(s)
             v == [i \in DOMAIN args |-> Denotes(I, args[i])]
             binds == args[1].items
             n == Len(args)
         IN  CASE op = "!" -> v[1]
               [] op = "and" -> Bit(\A i \in 1..n : v[i] = 1)
               [] op = "or" -> Bit(\E i \in 1..n : v[i] = 1)
               [] op = "not" -> 1 - v[1]
               [] op = "=>" -> Bit((\A i \in 1..(n - 1) : v[i] = 1) => v[n] = 1)
               [] op = "xor" -> Cardinality({i \in 1..n : v[i] = 1}) % 2
               [] op = "=" -> Bit(\A i \in 1..n : v[i] = v[1])
               [] op = "distinct" -> Bit(\A i, j \in 1..n : i # j => v[i] # v[j])
               [] op = "ite" -> IF v[1] = 1 THEN v[2] ELSE v[3]
               [] op = "let" ->
                      Denotes([x \in {Head1(binds[i]).name : i \in DOMAIN binds} |->
                                   (<<>> :> Denotes(I, binds[CHOOSE i \in DOMAIN binds :
                                                  Head1(binds[i]).name = x].items[2]))] @@ I,
                              args[2])
               [] OTHER -> I[Head1(s).name][v]

(* The assertions of a script; a macro adds its own symbol.                *)
RECURSIVE Holds(_, _)
Holds(I, commands) ==
    commands = <<>> \/
    LET s == Head(commands)
        op == Syntax(Head1(s))
        args == Args(s)
    IN  CASE op = "assert" -> Denotes(I, args[1]) = 1 /\ Holds(I, Tail(commands))
          [] op = "define-fun" ->
                 Holds((args[1].name :> (<<>> :> Denotes(I, args[4]))) @@ I, Tail(commands))
          [] OTHER -> Holds(I, Tail(commands))

(* The interpretations of the declared symbols.                            *)
Values(sort) == IF sort = "Bool" THEN 0..1 ELSE 0..2

Tables(argSorts, result) ==
    LET Fits(v) == \A i \in DOMAIN v : v[i] \in Values(argSorts[i])
    IN  [{v \in [DOMAIN argSorts -> 0..2] : Fits(v)} -> Values(result)]

RECURSIVE Interpretations(_)
Interpretations(commands) ==
    IF commands = <<>> THEN {<<>>}
    ELSE LET s == Head(commands)
             rest == Interpretations(Tail(commands))
             With(argSorts, result) ==
                 {(s.items[2].name :> table) @@ I : table \in Tables(argSorts, result), I \in rest}
         IN  CASE Syntax(Head1(s)) = "declare-fun" ->
                      With([i \in DOMAIN s.items[3].items |-> s.items[3].items[i].name],
                           s.items[4].name)
               [] Syntax(Head1(s)) = "declare-const" -> With(<<>>, s.items[3].name)
               [] OTHER -> rest

-----------------------------------------------------------------------------
(* The meaning of what the parser has made: V gives each term its value.   *)
RECURSIVE True(_, _)
True(V, e) ==
    CASE e.op = "true" -> TRUE
      [] e.op = "false" -> FALSE
      [] e.op = "eq" -> V[e.terms[1]] = V[e.terms[2]]
      [] e.op = "term" -> V[e.terms[1]] = 1
      [] e.op = "not" -> ~True(V, e.kids[1])
      [] e.op = "and" -> \A i \in DOMAIN e.kids : True(V, e.kids[i])
      [] e.op = "or" -> \E i \in DOMAIN e.kids : True(V, e.kids[i])
      [] e.op = "iff" -> \A i, j \in DOMAIN e.kids : True(V, e.kids[i]) = True(V, e.kids[j])
      [] e.op = "ite" -> IF True(V, e.kids[1]) THEN True(V, e.kids[2]) ELSE True(V, e.kids[3])

IsInternal(c, t, I) == c.terms[t].fun \notin DOMAIN I

(* The values of the terms under I, when new gives those of the terms the  *)
(* parser has added; true and false keep theirs.                           *)
RECURSIVE TermValues(_, _, _, _)
TermValues(c, I, new, n) ==
    IF n = 0 THEN <<>>
    ELSE LET V == TermValues(c, I, new, n - 1)
             term == c.terms[n]
         IN  Append(V, IF n \in DOMAIN new THEN new[n]
                       ELSE IF <<n>> = SubSeq(c.valueTerms, 1, 1) THEN 1
                       ELSE IF <<n>> = SubSeq(c.valueTerms, 2, 2) THEN 0
                       ELSE I[term.fun][[i \in DOMAIN term.args |-> V[term.args[i]]]])

Extensions(c, I) ==
    LET added == {t \in DOMAIN c.terms : IsInternal(c, t, I)} \ {c.valueTerms[i] : i \in DOMAIN c.valueTerms}
        Fits(new) == \A t \in added : new[t] \in Values(SortOf(c, t))
    IN  {V \in {TermValues(c, I, new, Len(c.terms)) : new \in {f \in [added -> 0..2] : Fits(f)}} :
            \A i \in DOMAIN c.asserts : True(V, c.asserts[i])}

FactsHold(c, V) ==
    /\ ~c.contradiction
    /\ \A p \in c.eqs : V[p[1]] = V[p[2]]
    /\ \A p \in c.diseqs : V[p[1]] # V[p[2]]

-----------------------------------------------------------------------------
(* What problem_is_well_sorted checks of the finished problem, and what    *)
(* solve_problem asserts: every term is an application of a declared       *)
(* symbol to arguments of its sorts that are older, no two terms are the   *)
(* same, and no atom compares two sorts.  And the environment of a command *)
(* is empty again at its end, whatever has failed within.                  *)
RECURSIVE ExprWellSorted(_, _)
ExprWellSorted(c, e) ==
    /\ e.op = "eq" => SortOf(c, e.terms[1]) = SortOf(c, e.terms[2])
    /\ e.op = "term" => SortOf(c, e.terms[1]) = "Bool"
    /\ \A i \in DOMAIN e.kids : ExprWellSorted(c, e.kids[i])

ContextIsWellFormed ==
    /\ answer \in {"none", "rejected", "unsat", "sat", "unsupported", "search"}
    /\ ctx.env = <<>>
    /\ \A t \in DOMAIN ctx.terms :
           LET term == ctx.terms[t]
           IN  /\ term.fun \in DOMAIN ctx.decls
               /\ ctx.decls[term.fun].result = term.sort
               /\ \A i \in DOMAIN term.args : term.args[i] < t
               /\ ctx.decls[term.fun].args = [i \in DOMAIN term.args |-> SortOf(ctx, term.args[i])]
               /\ \A u \in DOMAIN ctx.terms :
                      ctx.terms[u].fun = term.fun /\ ctx.terms[u].args = term.args => u = t
    /\ \A p \in ctx.eqs \cup ctx.diseqs : SortOf(ctx, p[1]) = SortOf(ctx, p[2])
    /\ \A i \in DOMAIN ctx.asserts : ExprWellSorted(ctx, ctx.asserts[i])
    /\ \A t \in ctx.dataTerms : SortOf(ctx, t) = "Bool"
    /\ HasBoolProblem(ctx) => Len(ctx.valueTerms) = 2      \* finish expects them

(* The problem says what the script says: an interpretation of the script  *)
(* satisfies it just when the terms the parser has added can be given      *)
(* values that satisfy the problem's assertions, and the equalities,       *)
(* disequalities and contradiction that the collector has found follow.    *)
(* The answer of a solver that does not search is then the truth.          *)
MeaningIsKept ==
    /\ ContextIsWellFormed
    /\ answer \in {"sat", "unsat", "search"} /\ WellFormed(script, {"Bool"}, <<>>, FALSE) =>
        LET all == Interpretations(script)
            models == {I \in all : Holds(I, script)}
        IN  /\ \A I \in all :
                   LET extensions == Extensions(ctx, I)
                   IN  /\ extensions # {} <=> I \in models
                       /\ \A V \in extensions : FactsHold(ctx, V)
            /\ answer = "unsat" => models = {}
            /\ answer = "sat" => models # {}

(* A script that follows the rules is read to its end, if its one          *)
(* assertion is not handed to the preprocessor too; and the two ways to    *)
(* scope let make no difference.                                           *)
RECURSIVE ReadAll(_, _)
ReadAll(c, commands) ==
    IF commands = <<>> THEN Skip(c)
    ELSE Then(Command(c, Head(commands)), LAMBDA d, none : ReadAll(d, Tail(commands)))

RuleAbidingIsRead ==
    /\ answer = "rejected" /\ ~ctx.preprocess => ~WellFormed(script, {"Bool"}, <<>>, FALSE)
    /\ answer # "none" =>
           LET other == ReadAll(EmptyContext(~mode, OneAssertion(script)), script)
           IN  [other.c EXCEPT !.scoped = mode] = ctx /\ (other.ok <=> answer # "rejected")

(* The preprocessor for positive disjunctions is safe: it makes no script  *)
(* unreadable.                                                             *)
PreprocessorIsSafe ==
    answer = "rejected" => ~WellFormed(script, {"Bool"}, <<>>, FALSE)

(* Unsupported syntax is reported rather than approximated: a script with  *)
(* a command that the parser does not know is answered by no guess.        *)
Supported == {"assert", "declare-fun", "declare-const", "declare-sort", "define-fun",
              "set-logic", "set-option", "set-info", "get-model", "get-value",
              "check-sat", "exit"}

UnsupportedIsReported ==
    (\E i \in DOMAIN script : /\ script[i].kind = "list" /\ HasHead(script[i])
                              /\ Syntax(Head1(script[i])) \notin Supported)
        => answer \in {"none", "rejected", "unsupported"}
=============================================================================
