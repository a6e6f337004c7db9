--------------------------- MODULE EqAbstraction ---------------------------
(***************************************************************************)
(* The equalities that every model of the assertions shares, found without *)
(* a solver: each subexpression and polarity gets a partition of the terms *)
(* that holds whenever the subexpression has that value, or "infeasible".  *)
(* The equalities of the partition of all assertions then become unit      *)
(* clauses of the CNF, all of them or none.                                *)
(*                                                                         *)
(* An interned node is the expression itself with nested conjunctions and  *)
(* disjunctions flattened and its equalities ordered, so that expressions  *)
(* with one node are equal.  The analysis may run out of its work budget   *)
(* or its entries before any step; budgets of every size are covered by    *)
(* letting it.                                                             *)
(***************************************************************************)
EXTENDS CnfEncoding, FiniteAnalysis, EqEvaluation

CONSTANTS
    Problems,        \* the assertions of each problem
    Configs,         \* [mode, allowFresh, maxFacts, maxFreshFacts], the mode
                     \*   "off", "shadow", "facts" or "guarded"
    MaxStarEdges     \* Limits.max_star_edges

VARIABLES
    assertions, config, pc,
    mode,            \* the mode after the routing
    outcome,
    cnf, accepted, rollback,
    plain            \* history: the CNF of the assertions

input == <<assertions, config, plain>>
vars == <<input, pc, mode, analysis, outcome, cnf, accepted, rollback>>

-----------------------------------------------------------------------------
(* The interner.                                                           *)

(* associative_children: nested children of the same operator in place.    *)
RECURSIVE Flat(_, _)
Flat(op, kids) ==
    FlattenSeq([i \in DOMAIN kids |->
                   IF kids[i].op = op THEN Flat(op, kids[i].kids) ELSE <<kids[i]>>])

RECURSIVE NodeOf(_)
NodeOf(e) ==
    LET kids == IF e.op \in {"and", "or"} THEN Flat(e.op, e.kids) ELSE e.kids
    IN  IF e.op = "atom" THEN AtomExpr(Normalized(e.atom))
        ELSE [e EXCEPT !.kids = [i \in DOMAIN kids |-> NodeOf(kids[i])]]

-----------------------------------------------------------------------------
NoOutcome == [edges |-> <<>>, infeasible |-> FALSE, cap |-> "none"]

Init ==
    /\ assertions \in Problems
    /\ config \in Configs
    /\ pc = "encode" /\ mode = "off"
    /\ roots = <<>> /\ memo = <<>> /\ stack = <<>> /\ values = <<>>
    /\ outcome = NoOutcome
    /\ cnf = EmptyProblem /\ plain = EmptyProblem
    /\ accepted = <<>> /\ rollback = "none"

Encode ==
    /\ pc = "encode"
    /\ cnf' = AddDirectAll(EmptyProblem, assertions, 1, FALSE)
    /\ plain' = cnf'
    /\ pc' = "route"
    /\ UNCHANGED <<assertions, config, mode, analysis, outcome, accepted, rollback>>

(* has_guarded_disequality_shape                                           *)
HasGuardedShape ==
    \E e \in ConjunctsOf(assertions) :
        /\ e.op = "or" /\ Len(e.kids) = 2
        /\ \E i \in 1..2 : IsEq(e.kids[i]) /\ IsNegatedEq(e.kids[3 - i])

(* route_eq_abstraction_mode: guarded facts only for a problem in which a  *)
(* disequality of domain values guards another one.                        *)
Route ==
    /\ pc = "route"
    /\ LET diseqs == MandatoryDisequalities(assertions)
       IN  \E domain \in DomainChoices(diseqs) :
               LET selected == HasGuardedShape /\ GuardedEdges(assertions, domain, diseqs) # {}
               IN  mode' = IF config.mode = "guarded" /\ ~selected THEN "off" ELSE config.mode
    /\ pc' = IF mode' = "off" THEN "done" ELSE "intern"
    /\ UNCHANGED <<input, analysis, outcome, cnf, accepted, rollback>>

Intern ==
    /\ pc = "intern"
    /\ roots' = [i \in DOMAIN assertions |-> NodeOf(assertions[i])]
    /\ pc' = "evaluate"
    /\ UNCHANGED <<input, mode, memo, stack, values, outcome, cnf, accepted, rollback>>

Evaluate ==
    /\ pc = "evaluate"
    /\ EvaluationNext
    /\ UNCHANGED <<input, pc, mode, outcome, cnf, accepted, rollback>>

Capped(reason) == [NoOutcome EXCEPT !.cap = reason]

Conclude ==
    /\ pc = "evaluate" /\ stack = <<>> /\ Len(values) = Len(roots)
    /\ LET value == AbstractAnd(values)
           edges == StarEdges(value.classes)
       IN  outcome' =
               IF ~value.feasible THEN [NoOutcome EXCEPT !.infeasible = TRUE]
               ELSE IF Len(edges) > MaxStarEdges THEN Capped("star_edges")
               ELSE [NoOutcome EXCEPT !.edges = edges]
    /\ pc' = IF mode = "shadow" THEN "done" ELSE "integrate"
    /\ UNCHANGED <<input, mode, analysis, cnf, accepted, rollback>>

Cap ==
    /\ pc \in {"intern", "evaluate"}
    /\ \E reason \in {"work", "entries"} : outcome' = Capped(reason)
    /\ pc' = IF mode = "shadow" THEN "done" ELSE "integrate"
    /\ UNCHANGED <<input, mode, analysis, cnf, accepted, rollback>>

-----------------------------------------------------------------------------
(* The facts, a capped analysis has none (equality_abstraction_fact_-      *)
(* candidates).  Those that are unit clauses already are passed over, and  *)
(* those that have no variable unless fresh ones are allowed.              *)
Candidates == IF outcome.cap = "none" THEN outcome.edges ELSE <<>>

FactAtom(edge) == Normalized(EqAtom(edge[1], edge[2]))
IsUnit(p, edge) ==
    /\ HasAtom(p, FactAtom(edge))
    /\ \E i \in DOMAIN p.added : p.added[i] = <<VarOfAtom(p, FactAtom(edge))>>

AllowFresh == config.allowFresh /\ mode # "guarded"

Selected ==
    SelectSeq(Candidates, LAMBDA edge : IF HasAtom(cnf, FactAtom(edge))
                                        THEN ~IsUnit(cnf, edge) ELSE AllowFresh)
FreshCount == Cardinality({i \in DOMAIN Selected : ~HasAtom(cnf, FactAtom(Selected[i]))})

RECURSIVE AddFacts(_, _)
AddFacts(p, edges) ==
    IF edges = <<>> \/ p.aborted THEN p
    ELSE AddFacts(AddUnit(AtomLit(p, FactAtom(Head(edges))), 1), Tail(edges))

(* Faulty: the facts up to the limit are integrated.                       *)
IntegrateUpToLimit ==
    /\ pc = "integrate"
    /\ rollback' = IF Len(Selected) > config.maxFacts THEN "max_facts" ELSE "none"
    /\ accepted' = SubSeq(Selected, 1, Min({Len(Selected), config.maxFacts}))
    /\ cnf' = AddFacts(cnf, accepted')
    /\ pc' = "done"
    /\ UNCHANGED <<input, mode, analysis, outcome>>

(* integrate_equality_abstraction_facts                                    *)
Integrate ==
    /\ pc = "integrate"
    /\ rollback' = IF Len(Selected) > config.maxFacts THEN "max_facts"
                   ELSE IF FreshCount > config.maxFreshFacts THEN "max_fresh_facts"
                   ELSE "none"
    /\ accepted' = IF rollback' = "none" THEN Selected ELSE <<>>
    /\ cnf' = AddFacts(cnf, accepted')
    /\ pc' = "done"
    /\ UNCHANGED <<input, mode, analysis, outcome>>

Stopped == pc = "done" /\ UNCHANGED vars

Next ==
    \/ Encode \/ Route \/ Intern
    \/ Evaluate \/ Conclude \/ Cap
    \/ Integrate \/ Stopped

Spec == Init /\ [][Next]_vars

-----------------------------------------------------------------------------
(* What the assertions can mean without congruence: a partition of their   *)
(* data terms (by the least term of each class), and the Boolean terms.    *)
Meanings ==
    UNION {
        LET terms == UNION {{atom.left, atom.right} : atom \in {x \in asked : x.kind = "Eq"}}
            bools == {atom.left : atom \in {x \in asked : x.kind = "BoolTerm"}}
        IN  {[same |-> V, truth |-> [atom \in asked |->
                 IF atom.kind = "Eq" THEN V[atom.left] = V[atom.right] ELSE atom.left \in B]] :
                 V \in {W \in [terms -> terms] : \A t \in DOMAIN W : W[t] <= t /\ W[W[t]] = W[t]},
                 B \in SUBSET bools} :
        asked \in {UNION {AtomsOf(assertions[i]) : i \in DOMAIN assertions}}}

(* If the node has the truth value of its polarity, the value holds.       *)
Holds(m, value, node, polarity) ==
    Value(m.truth, node) = polarity =>
        /\ value.feasible
        /\ \A class \in value.classes : \A s, t \in class : m.same[s] = m.same[t]

(* The parts of the state fit: frames are of nodes of the roots, a root    *)
(* that has a value was evaluated, classes are disjoint.                   *)
TypeOK ==
    /\ pc \in {"encode", "route", "intern", "evaluate", "integrate", "done"}
    /\ Len(values) <= Len(roots)
    /\ \A key \in DOMAIN memo : \A a, b \in memo[key].classes :
           Cardinality(a) >= 2 /\ (a # b => a \cap b = {})

(* Every memoised value is one that holds, so that it may be reused        *)
(* wherever the node occurs; it is computed when all it depends on has a   *)
(* value, the "expect" in memo_value cannot fail; and the equalities that  *)
(* come out hold in every model of the assertions, of which there are none *)
(* if the outcome is infeasible.                                           *)
AbstractionIsSound ==
    /\ TypeOK
    /\ stack # <<>> /\ Head(stack).expanded =>
           \A d \in ToSet(Dependencies(Head(stack).node, Head(stack).polarity)) :
               Known(d[1], d[2])
    /\ \A m \in Meanings :
           /\ \A key \in DOMAIN memo : Holds(m, memo[key], key[1], key[2])
           /\ (\A i \in DOMAIN assertions : Value(m.truth, assertions[i])) =>
                  /\ ~outcome.infeasible
                  /\ \A edge \in ToSet(outcome.edges) \cup ToSet(accepted) :
                         m.same[edge[1]] = m.same[edge[2]]

(* The facts are integrated all or not at all: the CNF is the one of the   *)
(* assertions, or it has grown by exactly one unit clause for each         *)
(* equality accepted, no more of them than the quotas allow, and every     *)
(* equality found that has a variable is a unit clause.                    *)
IntegrationIsAllOrNothing ==
    pc = "done" =>
        LET fresh == {edge \in ToSet(accepted) : ~HasAtom(plain, FactAtom(edge))}
            Unit(edge) == <<VarOfAtom(cnf, FactAtom(edge))>>
        IN  IF accepted = <<>> THEN cnf = plain
            ELSE /\ rollback = "none" /\ outcome.cap = "none"
                 /\ mode \in {"facts", "guarded"}
                 /\ Len(accepted) <= config.maxFacts
                 /\ Cardinality(fresh) <= config.maxFreshFacts
                 /\ fresh # {} => config.allowFresh /\ mode = "facts"
                 /\ cnf.added = plain.added \o [i \in DOMAIN accepted |-> Unit(accepted[i])]
                 /\ VarCount(cnf) = VarCount(plain) + Cardinality(fresh)
                 /\ \A edge \in ToSet(outcome.edges) :
                        HasAtom(plain, FactAtom(edge)) => IsUnit(cnf, edge)
=============================================================================
