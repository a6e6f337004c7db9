-------------------------- MODULE ExplainingTheory --------------------------
(***************************************************************************)
(* theory_conflict_clauses: one call, from a candidate assignment of the   *)
(* CNF variables to the list of theory conflict clauses it returns.  The   *)
(* call drives an ExplainingTheory, a union-find with a forest of reasons: *)
(*                                                                         *)
(*   "start"    the assignment is checked to be total                      *)
(*   "assert"   the literals are merged in, in variable order              *)
(*   "close"    passes over the applications merge equal signatures        *)
(*   "check"    true = false, then every false equality, is looked up      *)
(*   "explain"  the literals behind one derived equality are collected     *)
(*   "done"     the clauses are sorted, deduplicated and truncated         *)
(*                                                                         *)
(* The union-find is the Partition that module UnionFind implements.       *)
(***************************************************************************)
EXTENDS Euf

CONSTANTS
    AtomTables,     \* the tables var_atoms a call may be made with
    MaxConflicts    \* how many clauses the call returns at most (32)

ASSUME TheoryAssumption ==
    /\ AtomTables \subseteq [Var -> Atom]
    /\ MaxConflicts \in Nat \ {0}

VARIABLES
    pc,
    atoms,        \* CnfProblem.var_atoms
    assignment,   \* the candidate model: 1, -1, or 0 for unassigned
    var,          \* the next variable to assert, then to check
    root,         \* root[t]: UnionFind::root_const(t)
    edges,        \* ExplainingTheory.edges, oldest first
    pass,         \* the next position of the pass over Apps
    signatures,   \* the pass's hash map, inverted: the key inserted for t
    changed,      \* whether the pass has merged anything
    todo,         \* pairs explain_equal_inner has still to be called with
    expanded,     \* pairs it has been called with
    reasons,      \* the literals collected so far
    conflicts     \* the conflict clauses, as sets of literals

vars == <<pc, atoms, assignment, var, root, edges, pass, signatures, changed,
          todo, expanded, reasons, conflicts>>

INSTANCE Partition

theory == <<root, edges>>
closing == <<pass, signatures, changed>>
explaining == <<todo, expanded, reasons, conflicts>>

Congruence == 0          \* the reason of an edge between two applications
NoSignature == <<>>

(* Definitions marked Faulty are not part of the specification: each is a  *)
(* slip that the property named with it in PROJECT.json must notice.       *)

(* Faulty: the arguments are left out of the key.                          *)
SignatureOfSymbol(t) == <<FunOf[t], [i \in DOMAIN ArgsOf[t] |-> TrueTerm]>>

Signature(t) == <<FunOf[t], [i \in DOMAIN ArgsOf[t] |-> root[ArgsOf[t][i]]]>>

(* Faulty: the sign is forgotten.                                          *)
LiteralUnsigned(v) == v

LiteralOf(v) == IF assignment[v] = 1 THEN v ELSE -v

-----------------------------------------------------------------------------
Init ==
    /\ pc = "start"
    /\ atoms \in AtomTables
    /\ assignment \in [Var -> {-1, 0, 1}]
    /\ var = 1
    /\ Singletons
    /\ edges = <<>>
    /\ pass = 1
    /\ signatures = [t \in AppTerm |-> NoSignature]
    /\ changed = FALSE
    /\ todo = {}
    /\ expanded = {}
    /\ reasons = {}
    /\ conflicts = {}

(* A partial assignment is refused: the call returns None.                 *)
Refuse ==
    /\ pc = "start"
    /\ \E v \in Var : assignment[v] = 0
    /\ pc' = "none"
    /\ UNCHANGED <<atoms, assignment, var, theory, closing, explaining>>

Start ==
    /\ pc = "start"
    /\ \A v \in Var : assignment[v] # 0
    /\ pc' = "assert"
    /\ UNCHANGED <<atoms, assignment, var, theory, closing, explaining>>

(* Faulty: the edge is recorded even if the terms were equal already.      *)
MergeAnyway(a, b, reason) ==
    /\ (Same(a, b) /\ UNCHANGED root) \/ Join(a, b)
    /\ edges' = Append(edges, [a |-> a, b |-> b, reason |-> reason])

(* ExplainingTheory::merge: terms already equal leave no edge.             *)
Merge(a, b, reason) ==
    \/ Same(a, b) /\ UNCHANGED theory
    \/ Join(a, b) /\ edges' = Append(edges, [a |-> a, b |-> b, reason |-> reason])

(* The equality the literal of v puts into the theory, as a pair of terms; *)
(* a false equality and a variable without an atom put none.               *)
AssertedBy(v) ==
    LET atom == atoms[v]
    IN  CASE atom.kind = "Eq" /\ assignment[v] = 1 -> {<<atom.left, atom.right>>}
          [] atom.kind = "BoolTerm" /\ assignment[v] = 1 -> {<<atom.left, TrueTerm>>}
          [] atom.kind = "BoolTerm" /\ assignment[v] = -1 -> {<<atom.left, FalseTerm>>}
          [] OTHER -> {}

AssertVar ==
    /\ pc = "assert" /\ var \in Var
    /\ var' = var + 1
    /\ \/ AssertedBy(var) = {} /\ UNCHANGED theory
       \/ \E pair \in AssertedBy(var) : Merge(pair[1], pair[2], LiteralOf(var))
    /\ UNCHANGED <<pc, atoms, assignment, closing, explaining>>

AssertedAll ==
    /\ pc = "assert" /\ var \notin Var
    /\ pc' = "close"
    /\ UNCHANGED <<atoms, assignment, var, theory, closing, explaining>>

-----------------------------------------------------------------------------
(* One application of a pass of close_congruence: look its signature up in *)
(* the map, merge with the term found or insert it.                        *)
CloseApp ==
    /\ pc = "close" /\ pass \in DOMAIN Apps
    /\ pass' = pass + 1
    /\ LET t == Apps[pass]
           hits == {p \in AppTerm : signatures[p] = Signature(t)}
       IN  \/ /\ hits = {}
              /\ signatures' = [signatures EXCEPT ![t] = Signature(t)]
              /\ UNCHANGED <<theory, changed>>
           \/ \E previous \in hits :
              /\ Merge(previous, t, Congruence)
              /\ changed' = (changed \/ ~Same(previous, t))
              /\ UNCHANGED signatures
    /\ UNCHANGED <<pc, atoms, assignment, var, explaining>>

(* Faulty: one pass only.                                                  *)
EndOnlyPass ==
    /\ pc = "close" /\ pass \notin DOMAIN Apps
    /\ pc' = "check"
    /\ var' = 0
    /\ UNCHANGED <<atoms, assignment, theory, closing, explaining>>

(* Faulty: the flag of the last pass is not cleared.                       *)
EndPassStillChanged ==
    /\ pc = "close" /\ pass \notin DOMAIN Apps
    /\ IF changed
       THEN /\ pass' = 1
            /\ signatures' = [t \in AppTerm |-> NoSignature]
            /\ UNCHANGED <<pc, var, changed>>
       ELSE /\ pc' = "check"
            /\ var' = 0
            /\ UNCHANGED closing
    /\ UNCHANGED <<atoms, assignment, theory, explaining>>

(* The end of a pass: another one, with an empty map, if it merged.        *)
EndPass ==
    /\ pc = "close" /\ pass \notin DOMAIN Apps
    /\ IF changed
       THEN /\ pass' = 1
            /\ signatures' = [t \in AppTerm |-> NoSignature]
            /\ changed' = FALSE
            /\ UNCHANGED <<pc, var>>
       ELSE /\ pc' = "check"
            /\ var' = 0
            /\ UNCHANGED closing
    /\ UNCHANGED <<atoms, assignment, theory, explaining>>

-----------------------------------------------------------------------------
(* A walk along the edges E leads from s to t: every set of terms that     *)
(* holds s but not t has an edge of E with one end inside.                 *)
Uncut(E, S) == \A i \in E : edges[i].a \in S <=> edges[i].b \in S

Connected(E, s, t) == \A S \in SUBSET (Term \ {t}) : s \in S => ~Uncut(E, S)

(* The edges of the path the breadth-first search finds.  The edges form a *)
(* forest, so it is the path: the edges without which b is out of reach.   *)
Path(a, b) == {i \in DOMAIN edges : ~Connected(DOMAIN edges \ {i}, a, b)}

(* normalized_pair: the two terms without their order.                     *)
Pair(a, b) == {a, b}

ArgPairs(s, t) == {Pair(ArgsOf[s][i], ArgsOf[t][i]) : i \in DOMAIN ArgsOf[s]}

(* Faulty: the false equalities are not looked up.                         *)
DeniedAtConstants(v) == IF v = 0 THEN {<<TrueTerm, FalseTerm>>} ELSE {}

(* The equalities that must not have been derived: at 0 true = false, at a *)
(* variable the equality its literal denies.                               *)
DeniedAt(v) ==
    IF v = 0 THEN {<<TrueTerm, FalseTerm>>}
    ELSE IF atoms[v].kind = "Eq" /\ assignment[v] = -1
         THEN {<<atoms[v].left, atoms[v].right>>}
         ELSE {}

StartExplanation ==
    /\ pc = "check" /\ var \in 0..NumVars
    /\ \E pair \in DeniedAt(var) :
        /\ Same(pair[1], pair[2])
        /\ todo' = {Pair(pair[1], pair[2])}
    /\ expanded' = {}
    /\ reasons' = IF var = 0 THEN {} ELSE {-var}
    /\ pc' = "explain"
    /\ UNCHANGED <<atoms, assignment, var, theory, closing, conflicts>>

NoConflict ==
    /\ pc = "check" /\ var \in 0..NumVars
    /\ \A pair \in DeniedAt(var) : ~Same(pair[1], pair[2])
    /\ var' = var + 1
    /\ UNCHANGED <<pc, atoms, assignment, theory, closing, explaining>>

(* Faulty: the literals of the path only, congruence edges not explained.  *)
ExplainPathOnly ==
    /\ pc = "explain"
    /\ \E pair \in todo :
        /\ todo' = todo \ {pair}
        /\ expanded' = expanded \cup {pair}
        /\ \E a, b \in pair :
             reasons' = reasons \cup ({edges[i].reason : i \in Path(a, b)} \ {Congruence})
    /\ UNCHANGED <<pc, atoms, assignment, var, theory, closing, conflicts>>

(* One call of explain_equal_inner: a pair of one term, or one already     *)
(* expanded, returns at once; otherwise the literals on the path are taken *)
(* and the arguments of its congruence edges are explained in turn.  The   *)
(* order of the calls does not matter to the literals collected.           *)
ExplainPair ==
    /\ pc = "explain"
    /\ \E pair \in todo :
        IF Cardinality(pair) = 1 \/ pair \in expanded
        THEN /\ todo' = todo \ {pair}
             /\ UNCHANGED <<expanded, reasons>>
        ELSE \E a \in pair : \E b \in pair \ {a} :
             LET path == {edges[i] : i \in Path(a, b)}
                 derived == {e \in path : e.reason = Congruence}
             IN  /\ expanded' = expanded \cup {pair}
                 /\ reasons' = reasons \cup {e.reason : e \in path \ derived}
                 /\ todo' = (todo \ {pair}) \cup UNION {ArgPairs(e.a, e.b) : e \in derived}
    /\ UNCHANGED <<pc, atoms, assignment, var, theory, closing, conflicts>>

(* conflict_clause: the negations of the collected literals.               *)
ConflictClause == {-l : l \in reasons}

EndExplanation ==
    /\ pc = "explain" /\ todo = {}
    /\ conflicts' = conflicts \cup {ConflictClause}
    /\ pc' = "check"
    /\ var' = var + 1
    /\ UNCHANGED <<atoms, assignment, theory, closing, todo, expanded, reasons>>

(* sort_by length, dedup and truncate: of equal lengths any may be kept.   *)
Smaller(m, n) == IF m < n THEN m ELSE n

Return ==
    /\ pc = "check" /\ var = NumVars + 1
    /\ \E kept \in SUBSET conflicts :
        /\ Cardinality(kept) = Smaller(MaxConflicts, Cardinality(conflicts))
        /\ \A c \in kept, d \in conflicts \ kept : Cardinality(c) <= Cardinality(d)
        /\ conflicts' = kept
    /\ pc' = "done"
    /\ UNCHANGED <<atoms, assignment, var, theory, closing, todo, expanded, reasons>>

Done == pc \in {"none", "done"} /\ UNCHANGED vars

Next ==
    \/ Refuse \/ Start
    \/ AssertVar \/ AssertedAll
    \/ CloseApp \/ EndPass
    \/ StartExplanation \/ NoConflict \/ ExplainPair \/ EndExplanation
    \/ Return
    \/ Done

(* The call is sequential code: it keeps executing until it returns.       *)
Spec == Init /\ [][Next]_vars /\ WF_vars(Next)

-----------------------------------------------------------------------------
(* The type invariant of the call's variables.                             *)
Edge == [a : Term, b : Term, reason : Literal \cup {Congruence}]
SignatureType == {NoSignature} \cup (Fun \X Seq(Term))

TypeOK ==
    /\ pc \in {"start", "none", "assert", "close", "check", "explain", "done"}
    /\ atoms \in AtomTables
    /\ assignment \in [Var -> {-1, 0, 1}]
    /\ var \in 0..(NumVars + 1)
    /\ root \in [Term -> Term]
    /\ edges \in Seq(Edge)
    /\ pass \in 1..(Len(Apps) + 1)
    /\ signatures \in [AppTerm -> SignatureType]
    /\ changed \in BOOLEAN
    /\ todo \subseteq SUBSET Term
    /\ expanded \subseteq SUBSET Term
    /\ reasons \subseteq Literal
    /\ conflicts \subseteq SUBSET Literal

(* What the debug_asserts of explain_equal_inner say: the two ends of a    *)
(* congruence edge are applications of one symbol, argument for argument.  *)
CongruenceEdgesMatch ==
    \A i \in DOMAIN edges :
        edges[i].reason = Congruence =>
            /\ {edges[i].a, edges[i].b} \subseteq AppTerm
            /\ FunOf[edges[i].a] = FunOf[edges[i].b]
            /\ DOMAIN ArgsOf[edges[i].a] = DOMAIN ArgsOf[edges[i].b]

Closed == pc \in {"check", "explain", "done"}

(* The interpretations of the equalities the assignment puts in.           *)
AssertedPairs == UNION {AssertedBy(v) : v \in Var}

Models ==
    LET pairs == AssertedPairs
    IN  {V \in Interpretations : \A pair \in pairs : V[pair[1]] = V[pair[2]]}

(* Everything the closure has merged follows from the asserted equalities: *)
(* in all their interpretations a term has the value of its root, at every *)
(* moment, though the pass's signature map holds keys whose roots have     *)
(* since been absorbed.                                                    *)
MergesAreEntailed ==
    \A V \in Models : \A t \in Term : V[root[t]] = V[t]

(* Once close_congruence returns nothing is missed: two terms equal in all *)
(* interpretations of the asserted equalities are in one class.            *)
ClosureIsComplete ==
    LET models == Models
    IN  Closed => \A s, t \in Term : (\A V \in models : V[s] = V[t]) => root[s] = root[t]

(* The edges form a spanning forest of the classes: they connect exactly   *)
(* the terms of a class, and none of them closes a cycle, so that          *)
(* explain_equal_inner finds the path its debug_assert expects and there   *)
(* is only one.  The equalities an edge derived by congruence rests on     *)
(* were there before it: older edges alone connect its arguments, so       *)
(* explanations are well founded however the expanded set cuts the         *)
(* recursion.                                                              *)
SpanningForest ==
    /\ \A s, t \in Term : Connected(DOMAIN edges, s, t) <=> Same(s, t)
    /\ \A i \in DOMAIN edges :
           ~Connected(DOMAIN edges \ {i}, edges[i].a, edges[i].b)

ReasonsAreOlder ==
    \A i \in DOMAIN edges :
        edges[i].reason = Congruence =>
            \A pair \in ArgPairs(edges[i].a, edges[i].b) :
                \A s, t \in pair : Connected(1..(i - 1), s, t)

ProofForest == CongruenceEdgesMatch /\ SpanningForest /\ ReasonsAreOlder

(* Every clause returned is a lemma of QF_UF, and it is false under the    *)
(* assignment it was made from: adding it removes that candidate and no    *)
(* model.                                                                  *)
ConflictsAreRefutations ==
    \A clause \in conflicts :
        /\ ValidLemma(atoms, clause)
        /\ \A l \in clause :
               assignment[IF l > 0 THEN l ELSE -l] = (IF l > 0 THEN -1 ELSE 1)

(* The refinement loop reads an empty list as "the candidate is a model of *)
(* the theory": it is empty exactly for the consistent assignments.        *)
EmptyMeansConsistent ==
    pc = "done" => (conflicts = {} <=> Consistent(atoms, assignment))

(* The call returns.                                                       *)
Returns == <>(pc \in {"none", "done"})
=============================================================================
