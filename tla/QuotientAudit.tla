--------------------------- MODULE QuotientAudit ---------------------------
(***************************************************************************)
(* Finite ground EUF problems as the quotient-state oracle takes them, the *)
(* declarative audit of a path of assumptions, and the checkers of its two *)
(* kinds of answers: a total model, or a refutation tree every node of     *)
(* which the audit must confirm.                                           *)
(*                                                                         *)
(* Terms and values count from 0 as in the code, sequences from 1.         *)
(***************************************************************************)
EXTENDS Integers, Sequences, FiniteSets, SequencesExt

HardMaxDomainSize == 64   \* the bits of a mask

Terms(problem) == 0..(problem.terms - 1)
Carrier(problem) == 0..(problem.values - 1)
DomainOf(problem, term) == problem.domains[term + 1]

(* FiniteEufProblem::validate                                              *)
Valid(problem) ==
    /\ problem.values \in 1..HardMaxDomainSize
    /\ Len(problem.domains) = problem.terms
    /\ \A i \in DOMAIN problem.domains : problem.domains[i] \subseteq Carrier(problem)
    /\ \A i \in DOMAIN problem.apps :
          LET app == problem.apps[i]
          IN  /\ app.fun \in DOMAIN problem.arities
              /\ Len(app.args) = problem.arities[app.fun]
              /\ Range(app.args) \cup {app.result} \subseteq Terms(problem)
    /\ \A pair \in Range(problem.equalities) \cup Range(problem.disequalities) :
          Range(pair) \subseteq Terms(problem)

OrderedPair(s, t) == IF s <= t THEN <<s, t>> ELSE <<t, s>>

Before(p, q) == p[1] < q[1] \/ (p[1] = q[1] /\ p[2] < q[2])
FirstPair(pairs) == CHOOSE p \in pairs : \A q \in pairs \ {p} : Before(p, q)

TheValue(domain) == CHOOSE value \in domain : TRUE
IsSingleton(domain) == Cardinality(domain) = 1
SameSingleton(left, right) == IsSingleton(left) /\ left = right

-----------------------------------------------------------------------------
(* What the search assumes on its way to a state.                          *)
Equal(s, t) == [kind |-> "Equal", left |-> s, right |-> t]
Distinct(s, t) == [kind |-> "Distinct", left |-> s, right |-> t]
ValueIs(t, value) == [kind |-> "Value", left |-> t, right |-> value]
Assumed(path, kind) == {a \in Range(path) : a.kind = kind}

(* NextDecision, as the assumptions of its branches in their order.        *)
Quotient(s, t) == <<Equal(s, t), Distinct(s, t)>>
ValueSplit(t, domain) ==
    [i \in 1..Cardinality(domain) |->
        ValueIs(t, CHOOSE value \in domain : Cardinality({v \in domain : v <= value}) = i)]
Complete == <<>>

(* The heuristic that choose_state_decision and AuditState::choose_decision *)
(* both follow: reps are the least terms of the classes, domains their      *)
(* values, apart the pairs of them that are known to differ.                *)
Decision(values, reps, domains, apart) ==
    LET pairs == {p \in reps \X reps : p[1] < p[2] /\ p \notin apart
                                       /\ domains[p[1]] \cap domains[p[2]] # {}}
        Overlap(p) == Cardinality(domains[p[1]] \cap domains[p[2]])
        widest == {p \in pairs : \A q \in pairs : Overlap(q) <= Overlap(p)}
        open == {t \in reps : Cardinality(domains[t]) > 1}
        smallest == {t \in open : \A u \in open : Cardinality(domains[t]) <= Cardinality(domains[u])}
    IN  IF Cardinality(reps) > values /\ pairs # {}
        THEN Quotient(FirstPair(widest)[1], FirstPair(widest)[2])
        ELSE IF open = {} THEN Complete
        ELSE ValueSplit(Min(smallest), domains[Min(smallest)])

-----------------------------------------------------------------------------
(* audit_path: a fixed point over labels, the least term of each class.    *)
EmptyDomain(rep) == [kind |-> "EmptyDomain", left |-> rep, right |-> rep, value |-> 0]
Collapsed(s, t) == [kind |-> "DisequalityCollapsed", left |-> s, right |-> t, value |-> 0]
Collision(s, t, value) == [kind |-> "ForcedValueCollision", left |-> s, right |-> t, value |-> value]

(* Where a turn of audit_path ends: in the answer, or, if it is not settled *)
(* yet, in the labels with which the next turn starts.                     *)
ConflictAt(claim) ==
    [settled |-> TRUE, conflict |-> TRUE, claim |-> claim, labels |-> <<>>, domains |-> <<>>,
     apart |-> {}]
ConsistentAt(labels, domains, apart) ==
    [settled |-> TRUE, conflict |-> FALSE, claim |-> EmptyDomain(0), labels |-> labels,
     domains |-> domains, apart |-> apart]
MergedAt(labels) ==
    [settled |-> FALSE, conflict |-> FALSE, claim |-> EmptyDomain(0), labels |-> labels,
     domains |-> <<>>, apart |-> {}]

(* naive_merge                                                             *)
Relabelled(labels, s, t) ==
    LET both == OrderedPair(labels[s], labels[t])
    IN  [u \in DOMAIN labels |-> IF labels[u] = both[2] THEN both[1] ELSE labels[u]]

(* The labels after the pairs of a sequence are merged.                    *)
MergedAll(labels, pairs) ==
    LET merged[n \in 0..Len(pairs)] ==
            IF n = 0 THEN labels ELSE Relabelled(merged[n - 1], pairs[n][1], pairs[n][2])
    IN  merged[Len(pairs)]

(* An assumption that is no equality merges its term with itself: nothing. *)
MergedBy(a) == <<a.left, IF a.kind = "Equal" THEN a.right ELSE a.left>>

AuditLabels(problem, path) ==
    MergedAll([t \in Terms(problem) |-> t],
              problem.equalities \o [i \in DOMAIN path |-> MergedBy(path[i])])

AuditDomains(problem, path, labels) ==
    [rep \in Range(labels) |->
        {value \in Carrier(problem) :
            /\ \A t \in Terms(problem) : labels[t] = rep => value \in DomainOf(problem, t)
            /\ \A a \in Assumed(path, "Value") : labels[a.left] = rep => value = a.right}]

RawDisequalities(problem, path) ==
    {OrderedPair(pair[1], pair[2]) : pair \in Range(problem.disequalities)}
    \cup {OrderedPair(a.left, a.right) : a \in Assumed(path, "Distinct")}

(* The pairs of labels that they keep apart.                               *)
Apart(problem, path, labels) ==
    {OrderedPair(labels[p[1]], labels[p[2]]) : p \in RawDisequalities(problem, path)}

(* The inner loop: known values are taken from the classes they differ     *)
(* from.  The first pair with something to say is looked for anew each     *)
(* time.                                                                   *)
IsCut(domains, s, t) == IsSingleton(domains[s]) /\ domains[s] \subseteq domains[t]

ActivePairs(apart, domains) ==
    {p \in apart : IsCut(domains, p[1], p[2]) \/ IsCut(domains, p[2], p[1])}

ReductionAt(pair, apart, domains) ==
    LET known == IF IsCut(domains, pair[1], pair[2]) THEN pair[1] ELSE pair[2]
        other == IF known = pair[1] THEN pair[2] ELSE pair[1]
    IN  IF domains[pair[1]] = domains[pair[2]]
        THEN ConflictAt(Collision(pair[1], pair[2], TheValue(domains[known])))
        ELSE ConsistentAt(<<>>, [domains EXCEPT ![other] = @ \ domains[known]], apart)

Reduction(apart, domains) == ReductionAt(FirstPair(ActivePairs(apart, domains)), apart, domains)

(* Every turn of it takes a value from a class.                            *)
ValuesLeft(problem, domains) ==
    {choice \in (DOMAIN domains) \X Carrier(problem) : choice[2] \in domains[choice[1]]}

Reduced(problem, apart, domains) ==
    LET turn[n \in 0..Cardinality(ValuesLeft(problem, domains))] ==
            IF n = 0 THEN ConsistentAt(<<>>, domains, apart)
            ELSE LET last == turn[n - 1]
                 IN  IF last.conflict \/ ActivePairs(apart, last.domains) = {} THEN last
                     ELSE Reduction(apart, last.domains)
    IN  turn[Cardinality(ValuesLeft(problem, domains))]

(* The first two applications with labels that force one result.           *)
CongruentPairs(problem, labels) ==
    {p \in (DOMAIN problem.apps) \X (DOMAIN problem.apps) :
        LET left == problem.apps[p[1]]
            right == problem.apps[p[2]]
        IN  /\ p[1] < p[2] /\ left.fun = right.fun
            /\ \A i \in DOMAIN left.args : labels[left.args[i]] = labels[right.args[i]]
            /\ labels[left.result] # labels[right.result]}

AuditTurn(problem, path, labels) ==
    LET domains == AuditDomains(problem, path, labels)
        reps == Range(labels)
        emptied == {rep \in reps : domains[rep] = {}}
        raw == RawDisequalities(problem, path)
        lost == {p \in raw : labels[p[1]] = labels[p[2]]}
        apart == Apart(problem, path, labels)
        reduced == Reduced(problem, apart, domains)
        congruent == CongruentPairs(problem, labels)
        app == [side \in 1..2 |-> problem.apps[FirstPair(congruent)[side]]]
        sharing == {p \in reps \X reps : p[1] < p[2] /\ p \notin apart
                        /\ SameSingleton(reduced.domains[p[1]], reduced.domains[p[2]])}
    IN  IF emptied # {} THEN ConflictAt(EmptyDomain(Min(emptied)))
        ELSE IF lost # {} THEN ConflictAt(Collapsed(FirstPair(lost)[1], FirstPair(lost)[2]))
        ELSE IF reduced.conflict THEN reduced
        ELSE IF congruent # {} THEN MergedAt(Relabelled(labels, app[1].result, app[2].result))
        ELSE IF sharing # {}
        THEN MergedAt(Relabelled(labels, FirstPair(sharing)[1], FirstPair(sharing)[2]))
        ELSE ConsistentAt(labels, reduced.domains, apart)

(* Every turn that does not settle the audit makes two classes one.        *)
Audit(problem, path) ==
    LET turn[n \in 0..problem.terms] ==
            LET last == turn[n - 1]
            IN  IF n > 0 /\ last.settled THEN last
                ELSE AuditTurn(problem, path,
                               IF n = 0 THEN AuditLabels(problem, path) ELSE last.labels)
    IN  turn[problem.terms]

AuditDecision(problem, audit) ==
    Decision(problem.values, Range(audit.labels), audit.domains, audit.apart)

-----------------------------------------------------------------------------
(* check_unsat_certificate.  A proof is a conflict leaf or a split with    *)
(* the assumption and the proof of each branch; the checker replays every  *)
(* path from nothing.                                                      *)
Leaf(claim) == [split |-> FALSE, claim |-> claim, branches |-> <<>>]
Split(assumptions, proofs) ==
    [split |-> TRUE, claim |-> EmptyDomain(0),
     branches |-> [i \in DOMAIN proofs |-> [assume |-> assumptions[i], proof |-> proofs[i]]]]

(* The nodes that are visited on the way down, each with its path.  A      *)
(* branch that occurs twice is one node, but then its split does not hold.  *)
Below(node) ==
    {[path |-> Append(node.path, branch.assume), proof |-> branch.proof] :
        branch \in Range(node.proof.branches)}

Visited(path, proof, depth) ==
    LET nodes[n \in 0..depth] ==
            IF n = 0 THEN {[path |-> path, proof |-> proof]}
            ELSE LET above == nodes[n - 1] IN above \cup UNION {Below(node) : node \in above}
    IN  nodes[depth]

(* Faulty: the branches need not be all those of the decision.             *)
CoversSome(problem, audit, assumptions) ==
    IsPrefix(assumptions, AuditDecision(problem, audit)) \/ IsSuffix(assumptions, AuditDecision(problem, audit))

Covers(problem, audit, assumptions) ==
    AuditDecision(problem, audit) # Complete /\ assumptions = AuditDecision(problem, audit)

(* check_node, for one node                                                *)
NodeHolds(problem, node) ==
    LET audit == Audit(problem, node.path)
        branches == node.proof.branches
    IN  IF ~node.proof.split THEN audit.conflict /\ node.proof.claim = audit.claim
        ELSE /\ ~audit.conflict
             /\ Covers(problem, audit, [i \in DOMAIN branches |-> branches[i].assume])

(* CertificateCheckCaps: the nodes and the depth, which also bounds the    *)
(* assumptions of a path.                                                  *)
Accepted(problem, maxNodes, maxDepth, proof) ==
    LET nodes == Visited(<<>>, proof, maxDepth + 1)
    IN  /\ Cardinality(nodes) <= maxNodes
        /\ \A node \in nodes : Len(node.path) <= maxDepth /\ NodeHolds(problem, node)

-----------------------------------------------------------------------------
(* check_sat_witness: the values of the terms, and the table of each       *)
(* function over the tuples of values.                                     *)
IsWitness(problem, witness) ==
    /\ \A t \in Terms(problem) : witness.terms[t] \in DomainOf(problem, t)
    /\ \A pair \in Range(problem.equalities) : witness.terms[pair[1]] = witness.terms[pair[2]]
    /\ \A pair \in Range(problem.disequalities) : witness.terms[pair[1]] # witness.terms[pair[2]]
    /\ \A f \in DOMAIN problem.arities :
          witness.tables[f] \in [[1..problem.arities[f] -> Carrier(problem)] -> Carrier(problem)]
    /\ \A i \in DOMAIN problem.apps :
          LET app == problem.apps[i]
          IN  witness.tables[app.fun][[j \in DOMAIN app.args |-> witness.terms[app.args[j]]]]
                  = witness.terms[app.result]
=============================================================================
