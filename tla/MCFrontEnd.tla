------------------------------ MODULE MCFrontEnd ------------------------------
(***************************************************************************)
(* Either the two readers on a short text, or the parser on a script of a  *)
(* preamble and one to three more commands.                                *)
(***************************************************************************)
EXTENDS SmtMeaning

(* Every text of four characters, and longer ones with the same cases      *)
(* deeper.                                                                 *)
Chars == {"(", ")", "|", "\\", ";", "n", "\"", "A"}
LongTexts ==
    {<<"(", "A", "(", "x", "(", "y", ")", ")", ")">>,              \* too deep
     <<"(", "A", " ", "(", "x", ")", ")", "(", "A", ")">>,         \* two assertions
     <<"(", "(", "A", ")", ")", "(", "A", ")">>,                   \* one
     <<"(", "|", "A", "|", ")", "(", "A", ")">>,                   \* |A| is not A
     <<"(", "x", " ", "|", "\\", "|", "\\", "\\", "|", ")", "x">>}
MCTexts == UNION {[1..n -> Chars] : n \in 0..4} \cup LongTexts

-----------------------------------------------------------------------------
S(name) == Atom(name)
L(items) == List(items)
App(name, items) == L(<<S(name)>> \o items)
LetIn(binds, body) ==
    App("let", <<L([i \in DOMAIN binds |-> L(<<S(binds[i][1]), binds[i][2]>>)]), body>>)

Assert1(s) == App("assert", <<s>>)
DeclFun(name, args, result) ==
    App("declare-fun", <<S(name), L([i \in DOMAIN args |-> S(args[i])]), S(result)>>)
DeclConst(name, sort) == App("declare-const", <<S(name), S(sort)>>)
Query == App("check-sat", <<>>)

Preamble ==
    <<App("set-logic", <<S("QF_UF")>>),
      App("declare-sort", <<S("U"), S("0")>>),
      DeclConst("a", "U"), DeclFun("b", <<>>, "U"), DeclConst("p", "Bool"),
      DeclFun("g", <<"Bool">>, "U"), DeclFun("q", <<"U">>, "Bool")>>

a == S("a")
b == S("b")
p == S("p")
x == S("x")
y == S("y")
NotOf(s) == App("not", <<s>>)
EqOf(s, t) == App("=", <<s, t>>)
G(s) == App("g", <<s>>)
QOf(t) == App("q", <<t>>)
Ite(s, t, u) == App("ite", <<s, t, u>>)

Atoms == {p, EqOf(a, b), S("true"), QOf(G(NotOf(p)))}
Terms == {a, b, G(p), G(EqOf(a, b)),
          Ite(p, a, b), Ite(EqOf(a, b), G(NotOf(p)), a),
          LetIn(<<<<"x", p>>>>, G(NotOf(x))),
          LetIn(<<<<"x", a>>, <<"y", b>>>>, Ite(p, y, x))}

Forms ==
    {App(op, <<s, t>>) : op \in {"and", "or", "=>", "xor", "=", "distinct"}, s, t \in Atoms}
    \cup {App(op, <<p, EqOf(a, b), QOf(a)>>) : op \in {"and", "or", "=>", "xor", "=", "distinct"}}
    \cup {App(op, <<s, t>>) : op \in {"=", "distinct"}, s, t \in Terms}
    \cup {App(op, <<G(p), a, G(NotOf(p))>>) : op \in {"=", "distinct"}}
    \cup {App("distinct", <<a, b, a>>), App("and", <<>>), App("and", <<QOf(b)>>)}
    \cup {Ite(s, t, QOf(b)) : s, t \in Atoms}
    \cup {NotOf(s) : s \in Atoms} \cup {QOf(t) : t \in Terms \cup {G(S("false")), G(QOf(a))}}

(* Scopes: values read outside the bindings, names that hide names, one    *)
(* name bound twice, a scope left by an error.                             *)
Scopes ==
    {LetIn(<<<<"x", p>>>>, App("and", <<x, LetIn(<<<<"x", NotOf(x)>>>>, App("or", <<x, p>>)), x>>)),
     LetIn(<<<<"x", p>>, <<"y", QOf(a)>>>>, LetIn(<<<<"x", y>>, <<"y", x>>>>, App("=>", <<x, NotOf(y)>>))),
     LetIn(<<<<"p", NotOf(p)>>>>, p),
     LetIn(<<<<"a", b>>, <<"b", a>>>>, App("distinct", <<a, b>>)),
     LetIn(<<<<"x", G(p)>>, <<"y", p>>>>, App("and", <<EqOf(x, a), y>>)),
     LetIn(<<<<"x", p>>, <<"x", NotOf(p)>>>>, x),
     LetIn(<<<<"x", p>>>>, LetIn(<<<<"x", QOf(a)>>, <<"x", QOf(b)>>>>, x)),
     LetIn(<<<<"x", p>>>>, App("and", <<x, LetIn(<<<<"x", QOf(b)>>>>, QOf(x))>>)),
     App("and", <<LetIn(<<<<"x", p>>>>, x), x>>),
     App("!", <<EqOf(G(p), a), S(":named"), S("n")>>),
     EqOf(App("!", <<p, S(":named"), S("n")>>), QOf(a))}

(* What breaks the rules.                                                  *)
Broken ==
    {a, EqOf(p, a), App("and", <<p, a>>), G(p), G(a), QOf(p), App("q", <<>>), App("q", <<a, b>>),
     S("z"), App("z", <<a>>), EqOf(S("z"), a), App("and", <<S("z"), QOf(a)>>),
     App("or", <<EqOf(a, a), S("z")>>), App("=", <<p>>), NotOf(App("=", <<p>>)), L(<<>>),
     L(<<L(<<S("not")>>), p>>), App("ite", <<p, p>>), EqOf(Ite(p, a, p), a), Ite(p, a, b),
     App("let", <<p, p>>), App("let", <<L(<<L(<<x>>)>>), p>>), App("!", <<>>),
     LetIn(<<<<"x", p>>>>, App("x", <<>>)), App("p", <<>>), L(<<QuotedAtom("not"), p>>),
     QuotedAtom("true"), QuotedAtom("p"), EqOf(QuotedAtom("a"), b), App("xor", <<p, S("z")>>)}

OneAssertScripts ==
    {Preamble \o <<Assert1(s), Query>> : s \in Forms \cup Scopes \cup Broken}

(* More commands, also where they are not allowed.                         *)
DefFun(name, s) == App("define-fun", <<S(name), L(<<>>), S("Bool"), s>>)
Others ==
    {<<DefFun("m", s), Assert1(t), Assert1(u)>> :
         s \in {EqOf(a, b), NotOf(EqOf(G(NotOf(p)), b)), a, S("z"), App("=", <<p>>)},
         t \in {S("m"), EqOf(G(S("m")), a)}, u \in {NotOf(S("m")), p, App("m", <<>>)}}
    \cup {<<Assert1(s), Assert1(t)>> :
              s \in {EqOf(a, b), EqOf(G(NotOf(p)), a), S("z"), EqOf(Ite(p, a, b), S("z"))},
              t \in {NotOf(EqOf(a, b)), EqOf(G(NotOf(p)), b), S("false"), App("distinct", <<a, a>>),
                     NotOf(App("or", <<App("=", <<p>>), EqOf(a, b)>>))}}
    \cup {<<DeclConst("@true0", "Bool"), Assert1(EqOf(G(S("@true0")), G(S("true"))))>>,
          <<DeclFun("a", <<>>, "U")>>, <<DeclFun("h", <<"V">>, "U")>>, <<DeclConst("h", "V")>>,
          <<App("declare-sort", <<S("U"), S("0")>>)>>, <<App("declare-sort", <<S("V"), S("1")>>)>>,
          <<DefFun("p", p)>>, <<DefFun("m", a)>>,
          <<App("define-fun", <<S("m"), L(<<L(<<x, S("U")>>)>>), S("Bool"), QOf(x)>>),
            Assert1(App("m", <<a>>))>>,
          <<DeclFun("not", <<"Bool">>, "Bool"), Assert1(L(<<QuotedAtom("not"), p>>)), Assert1(p)>>,
          <<DeclConst("true", "Bool"), Assert1(NotOf(QuotedAtom("true")))>>,
          <<S("p")>>, <<L(<<>>)>>, <<L(<<QuotedAtom("assert"), p>>)>>, <<App("assert", <<p, p>>)>>,
          <<Assert1(p), App("push", <<S("1")>>), Assert1(NotOf(p)), App("pop", <<S("1")>>)>>,
          <<Query, Assert1(p)>>, <<Query, App("get-model", <<>>)>>,
          <<App("check-sat", <<p>>)>>, <<App("exit", <<>>), Assert1(p)>>}

OtherScripts == {Preamble \o commands \o <<Query, App("exit", <<>>)>> : commands \in Others}

(* The disjunctions of paths that the preprocessor looks for.              *)
PathPreamble ==
    <<App("declare-sort", <<S("U"), S("0")>>), DeclConst("a", "U"), DeclConst("b", "U"),
      DeclConst("c", "U"), DeclConst("d", "U"), DeclConst("p", "Bool"),
      DeclFun("g", <<"Bool">>, "U")>>

Path(r, s, t) == App("and", <<EqOf(S(r), S(s)), EqOf(S(s), S(t))>>)
Paths == {Path("a", "b", "c"), Path("a", "d", "c"), Path("b", "d", "a"), Path("a", "c", "a")}
Facts == {NotOf(EqOf(a, S("c"))), NotOf(EqOf(b, S("d"))), App("distinct", <<a, b>>),
          App("and", <<NotOf(EqOf(a, b)), EqOf(a, S("d"))>>)}
PathScripts ==
    {PathPreamble \o <<Assert1(App("and", <<fact, App("or", <<s, t>>)>>)), Query>> :
         fact \in Facts, s, t \in Paths}
    \cup {PathPreamble \o <<Assert1(LetIn(<<<<"x", p>>>>,
              App("and", <<NotOf(EqOf(a, G(s))), App("or", <<Path("a", "b", "c"), Path("a", "d", "c")>>)>>)))>> :
         s \in {x, NotOf(x)}}

MCScripts == OneAssertScripts \cup OtherScripts \cup PathScripts

-----------------------------------------------------------------------------
Idle == phase \in {"done", "failed"} /\ answer # "none"

Init ==
    \/ /\ ReaderInit
       /\ script = <<>> /\ mode = TRUE /\ ctx = EmptyContext(TRUE, FALSE)
       /\ step = 1 /\ answer = "sat"
    \/ /\ ScriptInit
       /\ text = <<>> /\ phase = "done" /\ pos = 1 /\ depth = 0
       /\ awaiting = FALSE /\ asserts = 0 /\ stack = <<>> /\ trees = <<>>

Next == \/ ReaderNext /\ UNCHANGED scriptVars
        \/ ScriptNext /\ UNCHANGED readerVars
        \/ Idle /\ UNCHANGED <<readerVars, scriptVars>>

Spec == Init /\ [][Next]_<<readerVars, scriptVars>>
=============================================================================
