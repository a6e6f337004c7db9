---------------------------- MODULE EqEvaluation ----------------------------
(***************************************************************************)
(* The evaluation of the equality abstraction: for every interned node and *)
(* polarity a partition of the terms that holds whenever the node has that *)
(* value, or "infeasible".  It goes over the nodes with an explicit stack, *)
(* each value is computed once and read from then on.                      *)
(***************************************************************************)
EXTENDS TermArena

VARIABLES
    roots,           \* the nodes of the assertions
    memo,            \* memo[node, polarity], of those evaluated so far
    stack,           \* the frames of evaluate, the top first
    values           \* the values of the first roots

analysis == <<roots, memo, stack, values>>

-----------------------------------------------------------------------------
(* Abstract values.  A partition is the set of its classes of two or more. *)
Infeasible == [feasible |-> FALSE, classes |-> {}]
Feasible(classes) == [feasible |-> TRUE, classes |-> classes]
Empty == Feasible({})

(* The union-find of the analysis: a set of terms is closed if no class    *)
(* sticks out of it, and the terms of a new class are those that no closed *)
(* set tells apart.                                                        *)
IsClosed(C, classes) == \A class \in classes : class \subseteq C \/ class \cap C = {}

ClosureOf(classes, t) ==
    {u \in UNION classes : \A C \in SUBSET UNION classes :
                               t \in C /\ IsClosed(C, classes) => u \in C}

Merged(classes) == {ClosureOf(classes, t) : t \in UNION classes}

(* meet_partitions: the closure of the union.                              *)
Meet(list) == Merged(UNION {list[i].classes : i \in DOMAIN list})

(* join_partitions, one after the other: the terms that are together in    *)
(* all of the partitions.                                                  *)
TogetherWith(partitions, t) ==
    {u \in UNION UNION partitions :
        \A classes \in partitions : \E class \in classes : {t, u} \subseteq class}

Joined(partitions) ==
    {class \in {TogetherWith(partitions, t) : t \in UNION UNION partitions} :
        Cardinality(class) >= 2}

AbstractAnd(list) ==
    IF \E i \in DOMAIN list : ~list[i].feasible THEN Infeasible
    ELSE Feasible(Meet(list))

Alternatives(list) == {list[i].classes : i \in {j \in DOMAIN list : list[j].feasible}}

(* Faulty: an alternative that says nothing is left out, as a conjunct is. *)
AbstractOrOfSome(list) ==
    IF Alternatives(list) = {} THEN Infeasible
    ELSE IF Alternatives(list) = {{}} THEN Empty
    ELSE Feasible(Joined(Alternatives(list) \ {{}}))

AbstractOr(list) ==
    IF Alternatives(list) = {} THEN Infeasible ELSE Feasible(Joined(Alternatives(list)))

(* The first child is equivalent to another one, or is not.                *)
IffPair(known, first, second, polarity) ==
    IF first = second THEN IF polarity THEN Empty ELSE Infeasible
    ELSE AbstractAnd(<<AbstractOr(<<known[first, FALSE], known[second, polarity]>>),
                       AbstractOr(<<known[second, ~polarity], known[first, TRUE]>>)>>)

AbstractIff(known, kids, polarity) ==
    LET pairs == [i \in 1..(Len(kids) - 1) |-> IffPair(known, kids[1], kids[i + 1], polarity)]
    IN  IF Len(kids) <= 1 THEN IF polarity THEN Empty ELSE Infeasible
        ELSE IF polarity THEN AbstractAnd(pairs) ELSE AbstractOr(pairs)

AbstractIte(known, kids, polarity) ==
    AbstractAnd(<<AbstractOr(<<known[kids[1], FALSE], known[kids[2], polarity]>>),
                  AbstractOr(<<known[kids[1], TRUE], known[kids[3], polarity]>>)>>)

AbstractAtom(atom, polarity) ==
    IF atom.kind # "Eq" THEN Empty
    ELSE IF atom.left = atom.right THEN IF polarity THEN Empty ELSE Infeasible
    ELSE IF polarity THEN Feasible({{atom.left, atom.right}}) ELSE Empty

(* dependencies: what the value of a node is computed from; for an         *)
(* equivalence four entries for each child after the first.                *)
IffDependencies(kids, polarity) ==
    [n \in 1..(4 * (Len(kids) - 1)) |->
        LET child == kids[2 + (n - 1) \div 4]
            four == <<<<kids[1], TRUE>>, <<kids[1], FALSE>>,
                      <<child, polarity>>, <<child, ~polarity>>>>
        IN  four[1 + ((n - 1) % 4)]]

Dependencies(node, polarity) ==
    LET kids == node.kids
    IN  CASE node.op \in {"true", "false", "atom"} -> <<>>
          [] node.op = "not" -> <<<<kids[1], ~polarity>>>>
          [] node.op \in {"and", "or"} -> [i \in DOMAIN kids |-> <<kids[i], polarity>>]
          [] node.op = "iff" -> IffDependencies(kids, polarity)
          [] node.op = "ite" ->
                 <<<<kids[1], TRUE>>, <<kids[1], FALSE>>,
                   <<kids[2], polarity>>, <<kids[3], polarity>>>>

(* compute                                                                 *)
Computed(known, node, polarity) ==
    LET kids == node.kids
        list == [i \in DOMAIN kids |-> known[kids[i], polarity]]
    IN  CASE node.op \in {"true", "false"} ->
                 IF (node.op = "true") = polarity THEN Empty ELSE Infeasible
          [] node.op = "atom" -> AbstractAtom(node.atom, polarity)
          [] node.op = "not" -> known[kids[1], ~polarity]
          [] node.op \in {"and", "or"} ->
                 IF (node.op = "and") = polarity THEN AbstractAnd(list) ELSE AbstractOr(list)
          [] node.op = "iff" -> AbstractIff(known, kids, polarity)
          [] node.op = "ite" -> AbstractIte(known, kids, polarity)

-----------------------------------------------------------------------------
Frame(node, polarity, expanded) == [node |-> node, polarity |-> polarity, expanded |-> expanded]
Known(node, polarity) == <<node, polarity>> \in DOMAIN memo

(* The next root: its value, if the memo has it, or its frame.             *)
EvaluateRoot ==
    /\ stack = <<>> /\ Len(values) < Len(roots)
    /\ LET root == roots[Len(values) + 1]
       IN  IF Known(root, TRUE)
           THEN values' = Append(values, memo[root, TRUE]) /\ UNCHANGED stack
           ELSE stack' = <<Frame(root, TRUE, FALSE)>> /\ UNCHANGED values
    /\ UNCHANGED <<roots, memo>>

(* The dependencies that have no value yet, in their order.                *)
Needed(dependencies) ==
    LET needed[n \in 0..Len(dependencies)] ==
            IF n = 0 THEN <<>>
            ELSE IF Known(dependencies[n][1], dependencies[n][2]) THEN needed[n - 1]
            ELSE Append(needed[n - 1], dependencies[n])
    IN  needed[Len(dependencies)]

(* A frame whose value is known by now is dropped; one seen first is put   *)
(* back below those of its dependencies that have no value.                *)
Visit ==
    /\ stack # <<>>
    /\ LET top == Head(stack)
           needed == Needed(Dependencies(top.node, top.polarity))
       IN  \/ /\ Known(top.node, top.polarity)
              /\ stack' = Tail(stack)
           \/ /\ ~Known(top.node, top.polarity) /\ ~top.expanded
              /\ stack' = [i \in DOMAIN needed |-> Frame(needed[i][1], needed[i][2], FALSE)]
                          \o <<[top EXCEPT !.expanded = TRUE]>> \o Tail(stack)
    /\ UNCHANGED <<roots, memo, values>>

(* A dependency without a value would panic (memo_value).                  *)
Compute ==
    /\ stack # <<>>
    /\ LET top == Head(stack)
           at == <<top.node, top.polarity>>
       IN  /\ top.expanded /\ ~Known(top.node, top.polarity)
           /\ memo' = [key \in DOMAIN memo \cup {at} |->
                          IF key = at THEN Computed(memo, top.node, top.polarity) ELSE memo[key]]
           /\ stack' = Tail(stack)
    /\ UNCHANGED <<roots, values>>

(* The evaluation on its own, of any roots.                                *)
EvaluationInit == memo = <<>> /\ stack = <<>> /\ values = <<>>
EvaluationNext == EvaluateRoot \/ Visit \/ Compute
EvaluationSpec == EvaluationInit /\ [][EvaluationNext]_analysis

-----------------------------------------------------------------------------
(* star_edges: each class as a star around its least term.                 *)
Star(classes) ==
    UNION {LET least == CHOOSE t \in class : \A u \in class : t <= u
           IN  {<<least, u>> : u \in class \ {least}} : class \in classes}

StarEdges(classes) ==
    SetToSortSeq(Star(classes), LAMBDA p, q : p[1] < q[1] \/ (p[1] = q[1] /\ p[2] < q[2]))
=============================================================================
