------------------------- MODULE MCDomainsAndFacts -------------------------
(***************************************************************************)
(* The two passes that add to the CNF before any solver is asked, over one *)
(* arena: the finite-domain axioms, and the facts of the equality          *)
(* abstraction.  The problems of the latter are over u, v, w, a, b and the *)
(* predicates p(u) and p(v); shared subexpressions occur at both           *)
(* polarities, nested and repeated; the last ones have a domain and guards.*)
(***************************************************************************)
EXTENDS MCFiniteDomain

Iff(es) == Expr("iff", es)
Ite(c, t, e) == Expr("ite", <<c, t, e>>)
P == Pred(13)
Q == Pred(14)

Chain == And(<<Eq(1, 2), Eq(3, 2)>>)
Split == Or(<<Chain, And(<<Eq(1, 3), Eq(3, 10)>>)>>)
Diamond == Or(<<And(<<Eq(1, 2), Eq(2, 10)>>), And(<<Eq(1, 3), Eq(3, 10)>>)>>)

FactFormulas ==
    {Chain, Split, Diamond,
     Or(<<Chain, Not(Eq(1, 10))>>),
     Or(<<Chain, And(<<Eq(1, 1), Not(Eq(2, 2))>>), Eq(3, 1)>>),
     And(<<Or(<<Eq(1, 2), Eq(2, 1)>>), Or(<<P, Eq(10, 11)>>)>>),
     Iff(<<Eq(1, 2), Eq(3, 10)>>), Not(Iff(<<Eq(1, 1), Eq(3, 10)>>)),
     Not(Iff(<<Eq(1, 2), Not(Eq(1, 3)), Eq(1, 3)>>)),
     Iff(<<Eq(1, 2), Eq(2, 2), Eq(10, 3)>>), Iff(<<P, P, Not(Eq(1, 2))>>), Not(Iff(<<P>>)),
     Ite(P, Chain, Split), Ite(Eq(1, 2), Chain, Const(FALSE)),
     Not(Ite(Eq(1, 2), Not(Eq(2, 3)), Const(TRUE))),
     Not(Or(<<Not(Eq(1, 2)), Or(<<Not(Eq(3, 2)), P>>)>>)),
     Not(And(<<Not(Chain), Not(Diamond)>>)),
     And(<<Split, Not(Eq(1, 3))>>),
     Ite(P, And(<<Eq(1, 11), Q>>), And(<<Eq(11, 1), Not(Q)>>))}

FactDomain == And(<<Not(Eq(1, 2)), Not(Eq(1, 3)), Not(Eq(2, 3))>>)

FactProblems ==
    {<<e>> : e \in FactFormulas}
    \cup {<<Split, e>> : e \in {P, Eq(3, 1), Or(<<Eq(1, 3), Chain>>), Eq(10, 11)}}
    \cup {<<Diamond, Eq(10, 1), Or(<<Eq(2, 11), Eq(3, 11)>>)>>, <<Chain, Eq(10, 3), Eq(10, 11)>>, <<>>}
    \cup {<<FactDomain, Or(<<Eq(1, 2), Not(Eq(10, 11))>>), Or(<<And(<<Eq(10, 1), P>>), Eq(1, 10)>>)>>,
          <<FactDomain, Or(<<Not(Eq(10, 11)), Eq(10, 2)>>), Eq(10, 1)>>}

FactConfigs ==
    {[mode |-> m, allowFresh |-> f, maxFacts |-> 4, maxFreshFacts |-> 1] :
        m \in {"off", "shadow", "facts", "guarded"}, f \in BOOLEAN}
    \cup {[mode |-> "facts", allowFresh |-> f, maxFacts |-> 1, maxFreshFacts |-> n] :
              f \in BOOLEAN, n \in {0, 4}}

-----------------------------------------------------------------------------
VARIABLES asserted, setting, at, mode, roots, memo, stack, values, outcome, unit, accepted, rollback,
          plain
factVars ==
    <<asserted, setting, at, mode, roots, memo, stack, values, outcome, unit, accepted, rollback,
      plain>>

Facts == INSTANCE EqAbstraction
    WITH Problems <- FactProblems, Configs <- FactConfigs, MaxStarEdges <- 3,
         assertions <- asserted, config <- setting, pc <- at, cnf <- unit

(* A behaviour is one of either pass; the variables of the other stay as   *)
(* they are.                                                               *)
NoDomain ==
    /\ Init
    /\ problem = Problem(Small, Table \o <<All(<<10, 11>>)>>)
    /\ config = Setting("value", FALSE, "off", "focused")
NoFacts ==
    /\ asserted = <<>> /\ setting = <<>> /\ at = "idle" /\ mode = "off" /\ roots = <<>>
    /\ memo = <<>> /\ stack = <<>> /\ values = <<>> /\ outcome = <<>> /\ unit = <<>>
    /\ accepted = <<>> /\ rollback = "none" /\ plain = <<>>

MCInit == (Init /\ NoFacts) \/ (Facts!Init /\ NoDomain)
MCNext ==
    IF at = "idle" THEN Next /\ UNCHANGED factVars ELSE Facts!Next /\ UNCHANGED vars
MCSpec == MCInit /\ [][MCNext]_<<vars, factVars>>

(* What the equality abstraction memoises and finds holds.                 *)
AbstractionIsSound == at # "idle" => Facts!AbstractionIsSound

(* Its facts become unit clauses all or not at all.                        *)
IntegrationIsAllOrNothing == at # "idle" => Facts!IntegrationIsAllOrNothing
=============================================================================
