------------------------------ MODULE BoolDag ------------------------------
(***************************************************************************)
(* bool_dag_projection: the CNF of the same assertions once more, from a   *)
(* canonical graph in which equal subformulas are one node.  A node with   *)
(* operands gets a variable only where it is needed as a literal, and the  *)
(* half of its definition for each polarity in which it is needed.         *)
(*                                                                         *)
(* The first arm is the production encoding with direct roots (CnfEncoding *)
(* states it); it gives the atoms their variables, and its other variables *)
(* are taken again by the second arm.  The counters that a limit bounds    *)
(* only grow, so a limit is tested once a step is made.  The limit on the  *)
(* depth of the recursion, which only refuses, is left out.                *)
(***************************************************************************)
EXTENDS CnfEncoding

CONSTANT Sources   \* records [assertions, dataTerms, unsupported, limits]

VARIABLES
    source,
    step,
    baseline,     \* BaselineEncoder
    graph,        \* CanonicalGraph
    candidate,    \* CandidateEncoder
    roots         \* the roots still to be asserted

dagVars == <<source, step, baseline, graph, candidate, roots>>
limits == source.limits

-----------------------------------------------------------------------------
(* The occurrences of an expression, each before its parts.                *)
RECURSIVE Occurrences(_)
Occurrences(e) == <<e>> \o FlattenSeq([i \in DOMAIN e.kids |-> Occurrences(e.kids[i])])

AllOccurrences == FlattenSeq([i \in DOMAIN source.assertions |-> Occurrences(source.assertions[i])])

SameSort(s, t) == {s, t} \subseteq DataTerm \/ {s, t} \subseteq BoolTerm
WellSorted(e) ==
    e.op = "atom" => IF e.atom.kind = "Eq" THEN SameSort(e.atom.left, e.atom.right)
                     ELSE e.atom.left \in BoolTerm

(* validate_source                                                         *)
SourceIsValid ==
    /\ ~source.unsupported
    /\ \A t \in Range(source.dataTerms) : t \in BoolTerm
    /\ \A e \in Range(AllOccurrences) : WellSorted(e)
    /\ Len(AllOccurrences) + Len(source.dataTerms) <= limits.occurrences

(* The Boolean terms used as data get the first variables.                 *)
DataAtoms == AtomizeBoolData(EmptyProblem, source.dataTerms)

(* ClauseBuffer::push.                                                     *)
Exceeds(clauses) ==
    \/ Len(clauses) > limits.clauses
    \/ Len(FlattenSeq(clauses)) > limits.literals

-----------------------------------------------------------------------------
(* CanonicalGraph.  A node is an operator over the numbers of nodes; "of"  *)
(* is the node of each occurrence.  Conjunctions and disjunctions are      *)
(* flattened one level, which is all there is below, and sorted.           *)
NoGraph == [nodes |-> <<>>, of |-> <<>>]

Flattened(g, op, kids) ==
    FlattenSeq([i \in DOMAIN kids |-> IF g.nodes[kids[i]].op = op THEN g.nodes[kids[i]].kids
                                      ELSE <<kids[i]>>])

(* A sequence of numbers in rising order.                                  *)
Rising(s) ==
    LET Rank(i) == Cardinality({j \in DOMAIN s : s[j] < s[i] \/ (s[j] = s[i] /\ j <= i)})
    IN  [k \in DOMAIN s |-> s[CHOOSE i \in DOMAIN s : Rank(i) = k]]

ExpressionNode(g, e) ==
    LET kids == [i \in DOMAIN e.kids |-> g.of[e.kids[i]]]
    IN  [op |-> e.op, atom |-> Normalized(e.atom),
         kids |-> IF e.op \in {"and", "or"} THEN Rising(Flattened(g, e.op, kids)) ELSE kids]

InternNode(g, e) ==
    LET node == ExpressionNode(g, e)
        nodes == IF node \in Range(g.nodes) THEN g.nodes ELSE Append(g.nodes, node)
        id == CHOOSE i \in DOMAIN nodes : nodes[i] = node
    IN  [nodes |-> nodes,
         of |-> [x \in DOMAIN g.of \cup {e} |-> IF x = e THEN id ELSE g.of[x]]]

RECURSIVE InternAll(_, _)
InternAll(g, occurrences) ==
    IF occurrences = <<>> THEN g ELSE InternAll(InternNode(g, Last(occurrences)), Front(occurrences))

Roots == [i \in DOMAIN source.assertions |-> graph.of[source.assertions[i]]]

RECURSIVE Below(_, _)
Below(g, id) == {id} \cup UNION {Below(g, kid) : kid \in Range(g.nodes[id].kids)}
Reachable(g) == UNION {Below(g, g.of[e]) : e \in Range(source.assertions)}

Edges(nodes) == Len(FlattenSeq([i \in DOMAIN nodes |-> nodes[i].kids]))

(* fanout: how often a node is a root or an operand of a reachable node.   *)
Fanout(id) ==
    LET Uses(s) == Cardinality({i \in DOMAIN s : s[i] = id})
    IN  Uses(Roots) + MapThenSumSet(LAMBDA n : Uses(graph.nodes[n].kids), Reachable(graph))

IsSharedExtension(id) ==
    graph.nodes[id].op \in {"and", "or", "iff", "ite"} /\ Fanout(id) >= 2

-----------------------------------------------------------------------------
(* VariableAllocator: the variables of the baseline that are no atoms,     *)
(* then new ones.                                                          *)
Auxiliaries == SelectSeq([v \in 1..VarCount(baseline) |-> v], LAMBDA v : baseline.atoms[v] = NoAtom)

Allocated(used) ==
    IF used < Len(Auxiliaries) THEN Auxiliaries[used + 1]
    ELSE VarCount(baseline) + 1 + used - Len(Auxiliaries)

NoCandidate == [variable |-> <<>>, defined |-> {}, clauses |-> <<>>]

(* FormulaLiteral, with the polarity 1 or -1 in which it is wanted.        *)
ConstLit(value) == [kind |-> IF value THEN "true" ELSE "false", lit |-> 0]
Lit(lit) == [kind |-> "lit", lit |-> lit]

(* emit_clause: a true constant satisfies it, false ones are left out.     *)
EmitClause(c, values) ==
    IF \E i \in DOMAIN values : values[i].kind = "true" THEN c
    ELSE LET lits == SelectSeq(values, LAMBDA v : v.kind = "lit")
         IN  [c EXCEPT !.clauses = Append(@, [i \in DOMAIN lits |-> lits[i].lit])]

ExtensionVariable(c, id) ==
    IF id \in DOMAIN c.variable THEN c
    ELSE [c EXCEPT !.variable =
             [n \in DOMAIN c.variable \cup {id} |->
                 IF n = id THEN Allocated(Cardinality(DOMAIN c.variable)) ELSE c.variable[n]]]

(* The clauses that say that a node is true (polarity 1) or false (-1), as *)
(* pairs of an operand and a polarity.                                     *)
NodeClauses(id, polarity) ==
    LET node == graph.nodes[id]
        kids == node.kids
        Each(sign) == [i \in DOMAIN kids |-> <<<<kids[i], sign>>>>]
        OneOf(sign) == <<[i \in DOMAIN kids |-> <<kids[i], sign>>]>>
    IN  CASE node.op = "and" -> IF polarity = 1 THEN Each(1) ELSE OneOf(-1)
          [] node.op = "or" -> IF polarity = 1 THEN OneOf(1) ELSE Each(-1)
          [] node.op = "iff" ->
                 (IF polarity = 1
                  THEN FlattenSeq([i \in 1..(Len(kids) - 1) |->
                           <<<<<<kids[1], -1>>, <<kids[i + 1], 1>>>>,
                             <<<<kids[1], 1>>, <<kids[i + 1], -1>>>>>>])
                  ELSE IF Len(kids) <= 1 THEN <<<<>>>>
                  ELSE OneOf(-1) \o OneOf(1))
          [] node.op = "ite" ->
                 <<<<<<kids[1], -1>>, <<kids[2], polarity>>>>,
                   <<<<kids[1], 1>>, <<kids[3], polarity>>>>>>

(* Faulty: one half of a definition is taken for both.                     *)
HasSomeDefinition(c, id, polarity) == \E sign \in {1, -1} : <<id, sign>> \in c.defined

(* definition_polarities                                                   *)
HasDefinition(c, id, polarity) == <<id, polarity>> \in c.defined

RECURSIVE Literal(_, _, _), Literals(_, _), EmitAll(_, _, _), EnsureDefinition(_, _, _)

(* A literal that stands for the node in this polarity.                    *)
Literal(c, id, polarity) ==
    LET node == graph.nodes[id]
        Const_(value) == [c |-> c, value |-> ConstLit(value = (polarity = 1))]
        extended == ExtensionVariable(c, id)
    IN  CASE node.op \in {"true", "false"} -> Const_(node.op = "true")
          [] node.op = "atom" -> [c |-> c, value |-> Lit(polarity * VarOfAtom(baseline, node.atom))]
          [] node.op = "not" -> Literal(c, node.kids[1], -polarity)
          [] node.op \in {"and", "or"} /\ node.kids = <<>> -> Const_(node.op = "and")
          [] node.op \in {"and", "or"} /\ Len(node.kids) = 1 -> Literal(c, node.kids[1], polarity)
          [] node.op = "iff" /\ Len(node.kids) <= 1 -> Const_(TRUE)
          [] OTHER -> [c |-> EnsureDefinition(extended, id, polarity),
                       value |-> Lit(polarity * extended.variable[id])]

Literals(c, wanted) ==
    IF wanted = <<>> THEN [c |-> c, values |-> <<>>]
    ELSE LET first == Literal(c, Head(wanted)[1], Head(wanted)[2])
             rest == Literals(first.c, Tail(wanted))
         IN  [c |-> rest.c, values |-> <<first.value>> \o rest.values]

EmitAll(c, clauses, prefix) ==
    IF clauses = <<>> THEN c
    ELSE LET r == Literals(c, Head(clauses))
         IN  EmitAll(EmitClause(r.c, prefix \o r.values), Tail(clauses), prefix)

EnsureDefinition(c, id, polarity) ==
    IF HasDefinition(c, id, polarity) THEN c
    ELSE EmitAll([c EXCEPT !.defined = @ \cup {<<id, polarity>>}],
                 NodeClauses(id, polarity), <<Lit(-polarity * c.variable[id])>>)

(* assert_node: a shared node by its literal, another one by its clauses,  *)
(* in which the conjuncts are asserted in their turn.                      *)
RECURSIVE AssertNode(_, _, _), AssertEach(_, _, _)
AssertEach(c, ids, polarity) ==
    IF ids = <<>> THEN c ELSE AssertEach(AssertNode(c, Head(ids), polarity), Tail(ids), polarity)

AssertNode(c, id, polarity) ==
    LET node == graph.nodes[id]
        r == Literal(c, id, polarity)
    IN  IF IsSharedExtension(id) \/ node.op \in {"true", "false", "atom"}
        THEN EmitClause(r.c, <<r.value>>)
        ELSE CASE node.op = "not" -> AssertNode(c, node.kids[1], -polarity)
               [] (node.op = "and" /\ polarity = 1) \/ (node.op = "or" /\ polarity = -1) ->
                      AssertEach(c, node.kids, polarity)
               [] OTHER -> EmitAll(c, NodeClauses(id, polarity), <<>>)

-----------------------------------------------------------------------------
Init ==
    /\ source \in Sources
    /\ step = "validate"
    /\ baseline = EmptyProblem /\ graph = NoGraph /\ candidate = NoCandidate
    /\ roots = <<>>

(* Where a step of a projection fails, there is no report.                 *)
Go(failed, next) == step' = IF failed THEN "abstained" ELSE next

Validate ==
    /\ step = "validate"
    /\ Go(~SourceIsValid, "baseline")
    /\ UNCHANGED <<source, baseline, graph, candidate, roots>>

EncodeBaseline ==
    /\ step = "baseline"
    /\ baseline' = AddDirectAll(DataAtoms, source.assertions, 1, FALSE)
    /\ Go(baseline'.aborted \/ VarCount(baseline') > limits.variables \/ Exceeds(baseline'.added),
          "graph")
    /\ UNCHANGED <<source, graph, candidate, roots>>

(* An atom that only the graph knows has no variable.                      *)
BuildGraph ==
    /\ step = "graph"
    /\ graph' = InternAll(NoGraph, AllOccurrences)
    /\ roots' = [i \in DOMAIN source.assertions |-> graph'.of[source.assertions[i]]]
    /\ Go(\/ Len(graph'.nodes) > limits.nodes
          \/ Edges(graph'.nodes) > limits.edges
          \/ \E id \in Reachable(graph') : /\ graph'.nodes[id].op = "atom"
                                           /\ ~HasAtom(baseline, graph'.nodes[id].atom),
          "assert")
    /\ UNCHANGED <<source, baseline, candidate>>

AssertRoot ==
    /\ step = "assert"
    /\ roots # <<>>
    /\ candidate' = AssertNode(candidate, Head(roots), 1)
    /\ roots' = SelectSeq(Tail(roots), LAMBDA id : id # Head(roots))
    /\ Go(\/ Exceeds(candidate'.clauses)
          \/ Len(candidate'.clauses) > limits.provenance
          \/ \E id \in DOMAIN candidate'.variable : candidate'.variable[id] > limits.variables,
          "assert")
    /\ UNCHANGED <<source, baseline, graph>>

Report ==
    /\ step = "assert"
    /\ roots = <<>>
    /\ step' = "projected"
    /\ UNCHANGED <<source, baseline, graph, candidate, roots>>

Ended == step \in {"abstained", "projected"} /\ UNCHANGED dagVars

Next == Validate \/ EncodeBaseline \/ BuildGraph \/ AssertRoot \/ Report \/ Ended

Spec == Init /\ [][Next]_dagVars

-----------------------------------------------------------------------------
LitHolds(values, l) == IF l > 0 THEN values[l] ELSE ~values[-l]
ClausesHold(values, clauses) ==
    \A i \in DOMAIN clauses : \E k \in DOMAIN clauses[i] : LitHolds(values, clauses[i][k])

AtomVars == {v \in 1..VarCount(baseline) : baseline.atoms[v] # NoAtom}

(* Both arms mean the assertions: for every value of the atoms each can be *)
(* satisfied, by some value of its own other variables, exactly where the  *)
(* assertions hold; and no variable of the second arm that the first arm   *)
(* used otherwise is the variable of an atom.                              *)
ArmsAgree ==
    step = "projected" =>
        LET extensions == {candidate.variable[id] : id \in DOMAIN candidate.variable}
            CanHold(clauses, atomValues, others) ==
                \E more \in [others -> BOOLEAN] :
                    ClausesHold([v \in AtomVars \cup others |->
                                    IF v \in AtomVars THEN atomValues[v] ELSE more[v]], clauses)
        IN  /\ extensions \cap AtomVars = {}
            /\ Cardinality(extensions) = Cardinality(DOMAIN candidate.variable)
            /\ \A values \in [AtomVars -> BOOLEAN] :
                  LET truth == [atom \in {baseline.atoms[v] : v \in AtomVars} |->
                                   values[VarOfAtom(baseline, atom)]]
                      holds == \A i \in DOMAIN source.assertions : Value(truth, source.assertions[i])
                  IN  /\ CanHold(candidate.clauses, values, extensions) = holds
                      /\ CanHold(baseline.added, values, (1..VarCount(baseline)) \ AtomVars) = holds
=============================================================================
