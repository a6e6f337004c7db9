----------------------------- MODULE CnfProofs ------------------------------
(***************************************************************************)
(* The chordal fill, for every graph and every limit: the queue that keeps *)
(* its old entries never loses a vertex, each vertex leaves a clique, and  *)
(* when the fill is finished whatever satisfies the clauses of the         *)
(* triangles is the equality of some classes.                              *)
(*                                                                         *)
(* The last is an induction over the eliminated vertices, the last one     *)
(* first: classes of the active vertices extend to all vertices.  A vertex *)
(* is put with the neighbours it is equal to, which are in one class, as   *)
(* they are joined to each other.                                          *)
(*                                                                         *)
(* For the flat store of the clauses: what is pushed is read back, and no  *)
(* clause pushed before changes.                                           *)
(*                                                                         *)
(* For the lemmas of every problem: the clauses of transitivity and of     *)
(* congruence hold in every structure, and over a finished fill those of   *)
(* transitivity say all that classes do.  The clauses of a Tseitin         *)
(* variable make it equivalent to the operator of its children.  And the   *)
(* operations that build a problem keep it well formed.                    *)
(*                                                                         *)
(* For the evaluation of the equality abstraction: it is sound, over every *)
(* set of nodes and in every structure.  What a frame still needs is above *)
(* it on the stack, so it is computed from values that are known; those    *)
(* are right where the nodes have the polarity they are for, and so is     *)
(* what is computed from them, operator by operator.                       *)
(***************************************************************************)
EXTENDS EagerLemmas, SparseFill, EqEvaluation,
        FiniteSetTheorems, FunctionTheorems, SequenceTheorems, NumberInduction, TLAPS

(* R is the equality of some classes of the vertices W.                    *)
Equivalence(R, W) ==
    /\ R \subseteq W \X W
    /\ \A s \in W : <<s, s>> \in R
    /\ \A s, t \in W : <<s, t>> \in R => <<t, s>> \in R
    /\ \A s, t, u \in W : <<s, t>> \in R /\ <<t, u>> \in R => <<s, u>> \in R

(* Between the vertices W of the graph A, R has the edges that are true.   *)
Agrees(R, true, A, W) ==
    \A s, t \in W : t \in A[s] => (<<s, t>> \in R <=> {s, t} \in true)

(* Triangular, of the graph A.                                             *)
TriangularIn(true, A) ==
    \A s \in DOMAIN A : \A t \in A[s] : \A u \in A[s] \cap A[t] :
        {s, t} \in true /\ {t, u} \in true => {s, u} \in true

(* S has the classes of R and puts the vertices between which R says       *)
(* nothing into classes too.                                               *)
Completes(S, R, true, A, W, U) ==
    /\ S \in SUBSET (W \X W)
    /\ Equivalence(S, W) /\ Agrees(S, true, A, W)
    /\ \A s, t \in U : <<s, t>> \in S <=> <<s, t>> \in R

(* Classes of the vertices W extend to all vertices.                       *)
Extends(A, V, W) ==
    \A true, R :
        TriangularIn(true, A) /\ Equivalence(R, W) /\ Agrees(R, true, A, W) =>
            \E Q : Completes(Q, R, true, A, V, W)

(* A has the neighbours of each vertex of an undirected graph without      *)
(* loops.                                                                  *)
IsGraph(A, V) ==
    /\ A \in [V -> SUBSET V]
    /\ \A s, t \in V : t \in A[s] => s \in A[t] /\ s # t

(* B is A with the neighbours of v in W joined to each other.              *)
IsJoined(B, A, W, v) ==
    \A s, t \in DOMAIN A :
        t \in B[s] <=> \/ t \in A[s]
                       \/ s # t /\ s \in A[v] \cap W /\ t \in A[v] \cap W

-----------------------------------------------------------------------------
(* A vertex joins the class of the neighbours that it is equal to.         *)
LEMMA ClassesWithOneMore ==
    ASSUME NEW V, NEW A, NEW B, IsGraph(A, V), IsGraph(B, V),
           NEW W \in SUBSET V, NEW v \in W, IsJoined(B, A, W, v),
           NEW true, TriangularIn(true, B),
           NEW R, Equivalence(R, W \ {v}), Agrees(R, true, B, W \ {v})
    PROVE  \E S : Completes(S, R, true, A, W, W \ {v})
  <1> DEFINE U == W \ {v}
             near == A[v] \cap W
             IsEqual(u) == \E w \in near : {v, w} \in true /\ <<w, u>> \in R
             S == {p \in W \X W : \/ p \in R
                                  \/ p[1] = v /\ p[2] = v
                                  \/ p[1] = v /\ p[2] \in U /\ IsEqual(p[2])
                                  \/ p[2] = v /\ p[1] \in U /\ IsEqual(p[1])}
  <1>1. near \subseteq U /\ \A w, x \in near : w # x => x \in B[w]
    BY DEF IsGraph, IsJoined
  <1>2. \A w \in near : w \in A[v] /\ w \in B[v] /\ v \in B[w] /\ w \in V /\ v \in V
    BY DEF IsGraph, IsJoined
  <1>3. \A w, x \in near : w # x => (<<w, x>> \in R <=> {w, x} \in true)
    BY <1>1 DEF Agrees
  <1>4. \A w \in near : {w, v} = {v, w}
    OBVIOUS
  <1>5. \A w, x \in near : {v, w} \in true /\ {v, x} \in true => <<w, x>> \in R
    <2> SUFFICES ASSUME NEW w \in near, NEW x \in near, {v, w} \in true, {v, x} \in true,
                        w # x
                 PROVE  {w, x} \in true
      BY <1>1, <1>3 DEF Equivalence
    <2>1. {w, v} \in true /\ v \in B[w] /\ x \in B[w] \cap B[v] /\ w \in DOMAIN B
      BY <1>1, <1>2, <1>4 DEF IsGraph
    <2> QED
      BY <2>1 DEF TriangularIn
  <1>6. \A w \in near : IsEqual(w) <=> {v, w} \in true
    <2> SUFFICES ASSUME NEW w \in near PROVE IsEqual(w) <=> {v, w} \in true
      OBVIOUS
    <2>1. {v, w} \in true => IsEqual(w)
      BY <1>1 DEF Equivalence
    <2>2. ASSUME NEW x \in near, {v, x} \in true, <<x, w>> \in R, x # w
          PROVE  {v, w} \in true
      <3>1. {x, w} \in true
        BY <1>3, <2>2
      <3>2. x \in B[v] /\ w \in B[v] \cap B[x] /\ v \in DOMAIN B
        BY <1>1, <1>2, <2>2 DEF IsGraph
      <3> QED
        BY <2>2, <3>1, <3>2 DEF TriangularIn
    <2> QED
      BY <2>1, <2>2
  <1>7. \A s, t \in U : <<s, t>> \in S <=> <<s, t>> \in R
    BY DEF Equivalence
  <1>8. \A u \in U : /\ <<v, u>> \in S <=> IsEqual(u)
                     /\ <<u, v>> \in S <=> IsEqual(u)
    BY DEF Equivalence
  <1>9. \A s, t \in U : IsEqual(s) /\ IsEqual(t) => <<s, t>> \in R
    BY <1>1, <1>5 DEF Equivalence
  <1>10. \A s, t \in U : IsEqual(s) /\ <<s, t>> \in R => IsEqual(t)
    BY <1>1 DEF Equivalence
  <1>11. <<v, v>> \in S
    OBVIOUS
  <1> HIDE DEF S, IsEqual
  <1>12. Equivalence(S, W)
    <2>1. S \subseteq W \X W
      BY DEF S
    <2>2. \A s \in W : <<s, s>> \in S
      BY <1>7, <1>11 DEF Equivalence
    <2>3. \A s, t \in W : <<s, t>> \in S => <<t, s>> \in S
      BY <1>7, <1>8 DEF Equivalence
    <2>4. \A s, t, u \in W : <<s, t>> \in S /\ <<t, u>> \in S => <<s, u>> \in S
      <3> SUFFICES ASSUME NEW s \in W, NEW t \in W, NEW u \in W,
                          <<s, t>> \in S, <<t, u>> \in S
                   PROVE  <<s, u>> \in S
        OBVIOUS
      <3>1. CASE t = v
        BY <1>7, <1>8, <1>9, <1>11, <3>1
      <3>2. CASE t # v /\ s = v
        BY <1>7, <1>8, <1>10, <1>11, <3>2
      <3>3. CASE t # v /\ s # v
        BY <1>7, <1>8, <1>10, <3>3 DEF Equivalence
      <3> QED
        BY <3>1, <3>2, <3>3
    <2> QED
      BY <2>1, <2>2, <2>3, <2>4 DEF Equivalence
  <1>13. Agrees(S, true, A, W)
    <2> SUFFICES ASSUME NEW s \in W, NEW t \in W, t \in A[s]
                 PROVE  <<s, t>> \in S <=> {s, t} \in true
      BY DEF Agrees
    <2>1. s \in A[t] /\ s # t /\ t \in B[s]
      BY DEF IsGraph, IsJoined
    <2>2. CASE s = v
      BY <1>6, <1>8, <2>1, <2>2
    <2>3. CASE t = v
      <3>1. {s, t} = {v, s} /\ s \in near
        BY <2>1, <2>3
      <3> QED
        BY <1>6, <1>8, <2>1, <2>3, <3>1
    <2>4. CASE s # v /\ t # v
      BY <1>7, <2>1, <2>4 DEF Agrees
    <2> QED
      BY <2>2, <2>3, <2>4
  <1>14. S \in SUBSET (W \X W)
    BY <1>12 DEF Equivalence
  <1>15. Completes(S, R, true, A, W, W \ {v})
    BY <1>7, <1>12, <1>13, <1>14 DEF Completes
  <1> QED
    BY <1>15

(* What satisfies the triangles of the graph with the clique satisfies     *)
(* those of the graph before.                                              *)
LEMMA EliminationExtends ==
    ASSUME NEW V, NEW A, NEW B, IsGraph(A, V), IsGraph(B, V),
           NEW W \in SUBSET V, NEW v \in W, IsJoined(B, A, W, v), Extends(A, V, W)
    PROVE  Extends(B, V, W \ {v})
  <1> SUFFICES ASSUME NEW true, NEW R,
                      TriangularIn(true, B), Equivalence(R, W \ {v}),
                      Agrees(R, true, B, W \ {v})
               PROVE  \E Q : Completes(Q, R, true, B, V, W \ {v})
    BY Zenon DEF Extends
  <1>1. DOMAIN A = V /\ DOMAIN B = V
    BY DEF IsGraph
  <1>2. \A s, t \in V : t \in A[s] => t \in B[s]
    BY <1>1 DEF IsJoined
  <1>3. TriangularIn(true, A)
    <2> SUFFICES ASSUME NEW s \in V, NEW t \in A[s], NEW u \in A[s] \cap A[t],
                        {s, t} \in true, {t, u} \in true
                 PROVE  {s, u} \in true
      BY <1>1 DEF TriangularIn
    <2>1. t \in V /\ u \in V
      BY DEF IsGraph
    <2>2. t \in B[s] /\ u \in B[s] \cap B[t]
      BY <1>2, <2>1
    <2> QED
      BY <1>1, <2>2 DEF TriangularIn
  <1>4. PICK S : Completes(S, R, true, A, W, W \ {v})
    BY ClassesWithOneMore, Zenon
  <1>5. PICK Q : Completes(Q, S, true, A, V, W)
    BY <1>1, <1>3, <1>4 DEF Extends, Completes
  <1>6. Agrees(Q, true, B, V)
    <2> SUFFICES ASSUME NEW s \in V, NEW t \in V, t \in B[s], t \notin A[s]
                 PROVE  <<s, t>> \in Q <=> {s, t} \in true
      BY <1>5 DEF Completes, Agrees
    <2>1. s \in W \ {v} /\ t \in W \ {v}
      BY <1>1 DEF IsJoined, IsGraph
    <2> QED
      BY <1>4, <1>5, <2>1 DEF Completes, Agrees
  <1>7. Completes(Q, R, true, B, V, W \ {v})
    BY <1>4, <1>5, <1>6 DEF Completes
  <1> QED
    BY <1>7

-----------------------------------------------------------------------------
(* The inductive invariant of the fill.                                    *)
FillInv(V) ==
    /\ IsGraph(adjacency, V)
    /\ active \in SUBSET V
    /\ degree \in [V -> Nat]
    /\ filling \in {"no", "yes", "done", "refused"}
    /\ QueueIsCurrent
    /\ EliminatedIsSimplicial
    /\ Extends(adjacency, V, active)
    /\ filling = "done" => active = {}

(* The pairs that an elimination adds.                                     *)
LEMMA MissingPairs ==
    ASSUME NEW V, IsGraph(adjacency, V), active \in SUBSET V, NEW v \in V,
           NEW u, NEW w
    PROVE  {u, w} \in Missing(v) <=> /\ u \in ActiveNeighbours(v)
                                     /\ w \in ActiveNeighbours(v)
                                     /\ u # w /\ u \notin adjacency[w]
  <1> DEFINE near == ActiveNeighbours(v)
  <1>1. near \subseteq V
    BY DEF ActiveNeighbours, IsGraph
  <1>2. ASSUME {u, w} \in Missing(v)
        PROVE  u \in near /\ w \in near /\ u # w /\ u \notin adjacency[w]
    <2>1. PICK s \in near : \E t \in near \ (adjacency[s] \cup {s}) : {u, w} = {s, t}
      BY <1>2 DEF Missing
    <2>2. PICK t \in near \ (adjacency[s] \cup {s}) : {u, w} = {s, t}
      BY <2>1
    <2>3. s \notin adjacency[t]
      BY <1>1, <2>2 DEF IsGraph
    <2>4. (u = s /\ w = t) \/ (u = t /\ w = s)
      BY <2>2
    <2> QED
      BY <2>2, <2>3, <2>4
  <1>3. ASSUME u \in near, w \in near, u # w, u \notin adjacency[w]
        PROVE  {u, w} \in Missing(v)
    <2>1. u \in near \ (adjacency[w] \cup {w})
      BY <1>3
    <2>2. {u, w} = {w, u}
      OBVIOUS
    <2> QED
      BY <1>3, <2>1, <2>2 DEF Missing
  <1> QED
    BY <1>2, <1>3

(* A neighbour of the eliminated vertex has as many new edges as there are *)
(* neighbours that it was not joined to.                                   *)
LEMMA GainedEdges ==
    ASSUME NEW V, IsFiniteSet(V), IsGraph(adjacency, V), active \in SUBSET V, NEW v \in V,
           NEW w \in ActiveNeighbours(v)
    PROVE  LET new == ActiveNeighbours(v) \ (adjacency[w] \cup {w})
           IN  /\ IsFiniteSet(new)
               /\ Cardinality({e \in Missing(v) : w \in e}) = Cardinality(new)
  <1> DEFINE new == ActiveNeighbours(v) \ (adjacency[w] \cup {w})
             gained == {e \in Missing(v) : w \in e}
             F == [u \in new |-> {u, w}]
  <1>1. IsFiniteSet(new)
    <2>1. new \in SUBSET V
      BY DEF ActiveNeighbours, IsGraph
    <2> QED
      BY <2>1, FS_Subset
  <1>2. \A u : u \in new <=> {u, w} \in Missing(v)
    BY MissingPairs
  <1>3. F \in [new -> gained]
    BY <1>2
  <1>4. \A e \in gained : \E u \in new : F[u] = e
    <2> SUFFICES ASSUME NEW e \in gained PROVE \E u \in new : F[u] = e
      OBVIOUS
    <2>1. \E s, t : e = {s, t}
      BY DEF Missing
    <2>2. PICK u : e = {u, w}
      BY <2>1
    <2>3. u \in new
      BY <1>2, <2>2
    <2> QED
      BY <2>2, <2>3
  <1>5. \A s, t \in new : F[s] = F[t] => s = t
    <2> SUFFICES ASSUME NEW s \in new, NEW t \in new, {s, w} = {t, w} PROVE s = t
      OBVIOUS
    <2>1. s \in {t, w} /\ s # w
      OBVIOUS
    <2> QED
      BY <2>1
  <1>6. F \in Bijection(new, gained)
    <2> HIDE DEF F, new, gained
    <2> QED
      BY <1>3, <1>4, <1>5, Fun_IsBij
  <1>7. Cardinality(gained) = Cardinality(new)
    <2> HIDE DEF F, new, gained
    <2>1. ExistsBijection(new, gained)
      BY <1>6 DEF ExistsBijection
    <2> QED
      BY <1>1, <2>1, FS_Bijection
  <1> QED
    BY <1>1, <1>7

(* The graph after an elimination: the neighbours are joined to each other.*)
LEMMA EliminatedGraph ==
    ASSUME NEW V, IsGraph(adjacency, V), active \in SUBSET V, NEW v \in active,
           adjacency' = [w \in DOMAIN adjacency |->
                            adjacency[w] \cup {u \in ActiveNeighbours(v) : {u, w} \in Missing(v)}]
    PROVE  IsGraph(adjacency', V) /\ IsJoined(adjacency', adjacency, active, v)
  <1>1. DOMAIN adjacency = V /\ \A w \in V : adjacency[w] \subseteq V
    BY DEF IsGraph
  <1>2. ActiveNeighbours(v) \subseteq V
    BY <1>1 DEF ActiveNeighbours
  <1>3. \A s, t \in V : t \in adjacency'[s] <=>
            \/ t \in adjacency[s]
            \/ s # t /\ s \in ActiveNeighbours(v) /\ t \in ActiveNeighbours(v)
    BY <1>1, MissingPairs
  <1>4. adjacency' \in [V -> SUBSET V]
    BY <1>1, <1>2
  <1> QED
    BY <1>1, <1>3, <1>4 DEF IsGraph, IsJoined, ActiveNeighbours

(* The degrees and the queue after an elimination.                         *)
LEMMA EliminatedDegrees ==
    ASSUME NEW V, IsFiniteSet(V), FillInv(V), NEW entry \in queue, Eliminate(entry)
    PROVE  degree' \in [V -> Nat] /\ QueueIsCurrent'
  <1> DEFINE v == entry[2]
             near == ActiveNeighbours(v)
             gained(w) == Cardinality({e \in Missing(v) : w \in e})
  <1>1. /\ v \in active /\ active' = active \ {v} /\ filling' = "yes"
        /\ adjacency' = [w \in DOMAIN adjacency |->
                            adjacency[w] \cup {u \in near : {u, w} \in Missing(v)}]
        /\ degree' = [w \in DOMAIN degree |->
                         IF w \in near THEN degree[w] + gained(w) - 1 ELSE degree[w]]
        /\ queue \ {entry} \subseteq queue'
        /\ \A w \in near : <<degree[w] + gained(w) - 1, w>> \in queue'
    BY DEF Eliminate, IsStale
  <1>2. /\ IsGraph(adjacency, V) /\ active \in SUBSET V /\ degree \in [V -> Nat]
        /\ QueueIsCurrent /\ filling = "yes"
    BY DEF FillInv, Eliminate
  <1>3. IsGraph(adjacency', V) /\ IsJoined(adjacency', adjacency, active, v)
    BY <1>1, <1>2, EliminatedGraph
  <1>4. \A w \in active : w \in near <=> v \in ActiveNeighbours(w)
    BY <1>1, <1>2 DEF ActiveNeighbours, IsGraph
  <1>5. \A w \in active : /\ IsFiniteSet(ActiveNeighbours(w))
                          /\ degree[w] = Cardinality(ActiveNeighbours(w))
    <2>1. \A w \in active : ActiveNeighbours(w) \in SUBSET V
      BY <1>2 DEF ActiveNeighbours
    <2> QED
      BY <1>2, <2>1, FS_Subset DEF QueueIsCurrent
  <1>6. ASSUME NEW w \in near
        PROVE  /\ degree'[w] = degree[w] + gained(w) - 1
               /\ degree'[w] = Cardinality(ActiveNeighbours(w)')
               /\ degree'[w] \in Nat
    <2> DEFINE new == near \ (adjacency[w] \cup {w})
               old == ActiveNeighbours(w) \ {v}
    <2>1. w \in active /\ w # v /\ w \in V
      BY <1>2 DEF ActiveNeighbours, IsGraph
    <2>2. IsFiniteSet(new) /\ gained(w) = Cardinality(new)
      BY <1>1, <1>2, GainedEdges
    <2>3. ActiveNeighbours(w)' = old \cup new
      <3>1. \A t \in V : t \in ActiveNeighbours(w)' <=> t \in old \/ t \in new
        BY <1>1, <1>2, <1>3, <2>1 DEF ActiveNeighbours, IsJoined, IsGraph
      <3>2. ActiveNeighbours(w)' \subseteq V /\ old \subseteq V /\ new \subseteq V
        BY <1>1, <1>2 DEF ActiveNeighbours
      <3> QED
        BY <3>1, <3>2
    <2>4. IsFiniteSet(old) /\ Cardinality(old) = degree[w] - 1
      BY <1>4, <1>5, <2>1, FS_RemoveElement
    <2>5. old \cap new = {}
      BY DEF ActiveNeighbours
    <2>6. Cardinality(ActiveNeighbours(w)') = Cardinality(old) + Cardinality(new)
      <3>1. Cardinality(old) \in Nat /\ Cardinality(new) \in Nat
        BY <2>2, <2>4, FS_CardinalityType
      <3> HIDE DEF old, new
      <3>2. Cardinality(old \cup new) =
                Cardinality(old) + Cardinality(new) - Cardinality(old \cap new)
        BY <2>2, <2>4, FS_Union
      <3>3. Cardinality(old \cap new) = 0
        BY <2>5, FS_EmptySet
      <3>4. Cardinality(ActiveNeighbours(w)') = Cardinality(old \cup new)
        BY <2>3
      <3> QED
        BY <3>1, <3>2, <3>3, <3>4
    <2>7. degree'[w] = degree[w] + gained(w) - 1
      BY <1>1, <1>2, <2>1
    <2>8. Cardinality(old) \in Nat /\ Cardinality(new) \in Nat
      BY <2>2, <2>4, FS_CardinalityType
    <2> QED
      BY <1>2, <2>1, <2>2, <2>4, <2>6, <2>7, <2>8
  <1>7. ASSUME NEW w \in active', w \notin near
        PROVE  /\ degree'[w] = degree[w]
               /\ ActiveNeighbours(w)' = ActiveNeighbours(w)
               /\ <<degree[w], w>> \in queue'
    <2>1. w \in active /\ w # v /\ w \in V
      BY <1>1, <1>2
    <2>2. ActiveNeighbours(w)' = ActiveNeighbours(w)
      <3>1. \A t \in V : t \in ActiveNeighbours(w)' <=> t \in ActiveNeighbours(w)
        BY <1>1, <1>2, <1>3, <1>4, <1>7, <2>1 DEF ActiveNeighbours, IsJoined, IsGraph
      <3>2. ActiveNeighbours(w)' \subseteq V /\ ActiveNeighbours(w) \subseteq V
        BY <1>1, <1>2 DEF ActiveNeighbours
      <3> QED
        BY <3>1, <3>2
    <2>3. <<degree[w], w>> \in queue /\ <<degree[w], w>> # entry
      BY <1>2, <2>1 DEF QueueIsCurrent
    <2> QED
      BY <1>1, <1>2, <1>7, <2>1, <2>2, <2>3
  <1>8. \A w \in near : <<degree'[w], w>> \in queue'
    BY <1>1, <1>6
  <1>9. degree' \in [V -> Nat]
    <2>1. \A w \in V \ near : degree'[w] = degree[w]
      BY <1>1, <1>2
    <2>2. DOMAIN degree' = V /\ degree' = [w \in V |-> degree'[w]]
      BY <1>1, <1>2
    <2> QED
      BY <1>2, <1>6, <2>1, <2>2
  <1>10. QueueIsCurrent'
    BY <1>1, <1>5, <1>6, <1>7, <1>8 DEF QueueIsCurrent
  <1> QED
    BY <1>9, <1>10

(* A vertex leaves a clique, and cliques stay cliques.                     *)
LEMMA EliminatedCliques ==
    ASSUME NEW V, FillInv(V), NEW entry \in queue, Eliminate(entry),
           IsGraph(adjacency', V), IsJoined(adjacency', adjacency, active, entry[2]),
           active' = active \ {entry[2]}
    PROVE  EliminatedIsSimplicial'
  <1> SUFFICES ASSUME NEW x \in V \ active',
                      NEW s \in ActiveNeighbours(x)', NEW t \in ActiveNeighbours(x)', s # t
               PROVE  t \in adjacency'[s]
    BY DEF EliminatedIsSimplicial, IsGraph
  <1>1. s \in active /\ t \in active /\ s \in V /\ t \in V
    BY DEF ActiveNeighbours, FillInv
  <1>2. DOMAIN adjacency = V /\ EliminatedIsSimplicial
    BY DEF FillInv, IsGraph
  <1>3. ASSUME x = entry[2] \/ x \notin active, NEW u \in ActiveNeighbours(x)'
        PROVE  u \in ActiveNeighbours(x)
    <2>1. u \in V /\ u \in active /\ u \in adjacency'[x]
      BY DEF ActiveNeighbours, FillInv
    <2>2. x \notin ActiveNeighbours(entry[2])
      BY <1>2, <1>3 DEF ActiveNeighbours, FillInv, IsGraph
    <2> QED
      BY <1>2, <2>1, <2>2 DEF ActiveNeighbours, IsJoined
  <1>4. CASE x = entry[2]
    BY <1>1, <1>2, <1>3, <1>4 DEF ActiveNeighbours, IsJoined
  <1>5. CASE x # entry[2]
    <2>1. x \in V \ active
      BY <1>5
    <2>2. t \in adjacency[s]
      BY <1>2, <1>3, <2>1 DEF EliminatedIsSimplicial
    <2> QED
      BY <1>1, <1>2, <2>2 DEF IsJoined
  <1> QED
    BY <1>4, <1>5

-----------------------------------------------------------------------------
(* Without a graph there is nothing to eliminate.                          *)
LEMMA FillInit == ASSUME NEW V, NoFill(V) PROVE FillInv(V)
  <1>1. /\ adjacency = [v \in V |-> {}] /\ active = {} /\ degree = [v \in V |-> 0]
        /\ filling = "no"
    BY DEF NoFill
  <1>2. IsGraph(adjacency, V)
    BY <1>1 DEF IsGraph
  <1>3. QueueIsCurrent /\ EliminatedIsSimplicial
    BY <1>1 DEF QueueIsCurrent, EliminatedIsSimplicial, ActiveNeighbours
  <1>4. Extends(adjacency, V, active)
    <2> SUFFICES ASSUME NEW true, NEW R PROVE \E Q : Completes(Q, R, true, adjacency, V, active)
      BY DEF Extends
    <2> DEFINE Q == {p \in V \X V : p[1] = p[2]}
    <2>1. Completes(Q, R, true, adjacency, V, active)
      BY <1>1 DEF Completes, Equivalence, Agrees
    <2> QED
      BY <2>1
  <1> QED
    BY <1>1, <1>2, <1>3, <1>4 DEF FillInv

(* All vertices with an edge are active at first.                          *)
LEMMA FillLoad ==
    ASSUME NEW V, IsFiniteSet(V), NEW edges \in Graphs(V), Load(V, edges)
    PROVE  FillInv(V)'
  <1>1. /\ adjacency' = [v \in V |-> NeighboursIn(edges, v)]
        /\ active' = UNION edges
        /\ degree' = [v \in V |-> Cardinality(NeighboursIn(edges, v))]
        /\ queue' = {<<Cardinality(NeighboursIn(edges, v)), v>> : v \in UNION edges}
        /\ filling' = "yes"
    BY DEF Load
  <1>2. \A v, w : w \in NeighboursIn(edges, v) =>
            v \in NeighboursIn(edges, w) /\ v # w /\ w \in UNION edges /\ v \in UNION edges
    <2> SUFFICES ASSUME NEW v, NEW w \in NeighboursIn(edges, v)
                 PROVE  v \in NeighboursIn(edges, w) /\ v # w /\ v \in UNION edges
      BY DEF NeighboursIn
    <2>1. {v, w} \in edges /\ {v, w} = {w, v} /\ v # w
      BY DEF NeighboursIn
    <2> QED
      BY <2>1 DEF NeighboursIn
  <1>3. UNION edges \subseteq V
    BY DEF Graphs
  <1>4. IsGraph(adjacency', V)
    BY <1>1, <1>2, <1>3 DEF IsGraph
  <1>5. \A v \in V : ActiveNeighbours(v)' = NeighboursIn(edges, v)
    BY <1>1, <1>2 DEF ActiveNeighbours
  <1>6. degree' \in [V -> Nat]
    <2>1. \A v \in V : NeighboursIn(edges, v) \in SUBSET V
      BY <1>2, <1>3
    <2>2. \A v \in V : Cardinality(NeighboursIn(edges, v)) \in Nat
      BY <2>1, FS_Subset, FS_CardinalityType
    <2> QED
      BY <1>1, <2>2
  <1>7. QueueIsCurrent'
    BY <1>1, <1>3, <1>5 DEF QueueIsCurrent
  <1>8. EliminatedIsSimplicial'
    <2> SUFFICES ASSUME NEW x \in V \ UNION edges PROVE ActiveNeighbours(x)' = {}
      BY <1>1 DEF EliminatedIsSimplicial
    <2> QED
      BY <1>2, <1>5
  <1>9. Extends(adjacency', V, active')
    <2> SUFFICES ASSUME NEW true, NEW R, Equivalence(R, active'),
                        Agrees(R, true, adjacency', active')
                 PROVE  \E Q : Completes(Q, R, true, adjacency', V, active')
      BY Zenon DEF Extends
    <2> DEFINE Q == {p \in V \X V : p \in R \/ p[1] = p[2]}
    <2>1. active' \subseteq V
      BY <1>1, <1>3
    <2>2. \A s, t \in V : <<s, t>> \in Q <=> <<s, t>> \in R \/ s = t
      OBVIOUS
    <2>3. Q \in SUBSET (V \X V)
      OBVIOUS
    <2>4. R \subseteq active' \X active'
      BY DEF Equivalence
    <2> HIDE DEF Q
    <2>5. Equivalence(Q, V)
      BY <2>1, <2>2, <2>3, <2>4 DEF Equivalence
    <2>6. Agrees(Q, true, adjacency', V)
      <3> SUFFICES ASSUME NEW s \in V, NEW t \in V, t \in adjacency'[s]
                   PROVE  <<s, t>> \in Q <=> {s, t} \in true
        BY DEF Agrees
      <3>1. s \in active' /\ t \in active' /\ s # t
        BY <1>1, <1>2
      <3> QED
        BY <2>2, <3>1 DEF Agrees
    <2>7. \A s, t \in active' : <<s, t>> \in Q <=> <<s, t>> \in R
      BY <2>1, <2>2 DEF Equivalence
    <2>8. Completes(Q, R, true, adjacency', V, active')
      BY <2>3, <2>5, <2>6, <2>7 DEF Completes
    <2> QED
      BY <2>8
  <1> QED
    BY <1>1, <1>3, <1>4, <1>6, <1>7, <1>8, <1>9 DEF FillInv, Extends

(* The vertex of a current entry is eliminated.                            *)
LEMMA FillEliminate ==
    ASSUME NEW V, IsFiniteSet(V), FillInv(V), NEW entry \in queue, Eliminate(entry)
    PROVE  FillInv(V)'
  <1> DEFINE v == entry[2]
  <1>1. /\ v \in active /\ active' = active \ {v} /\ filling' = filling /\ filling = "yes"
        /\ adjacency' = [w \in DOMAIN adjacency |->
                            adjacency[w] \cup {u \in ActiveNeighbours(v) : {u, w} \in Missing(v)}]
    BY DEF Eliminate, IsStale
  <1>2. IsGraph(adjacency, V) /\ active \in SUBSET V /\ Extends(adjacency, V, active)
    BY DEF FillInv
  <1>3. IsGraph(adjacency', V) /\ IsJoined(adjacency', adjacency, active, v)
    BY <1>1, <1>2, EliminatedGraph
  <1>4. degree' \in [V -> Nat] /\ QueueIsCurrent'
    BY EliminatedDegrees
  <1>5. EliminatedIsSimplicial'
    BY <1>1, <1>3, EliminatedCliques
  <1>6. Extends(adjacency', V, active \ {v})
    BY <1>1, <1>2, <1>3, EliminationExtends, Zenon
  <1>7. Extends(adjacency, V, active)'
    BY <1>1, <1>6
  <1> QED
    BY <1>1, <1>2, <1>3, <1>4, <1>5, <1>7 DEF FillInv

(* A stale entry is not the one that its vertex has in the queue.          *)
LEMMA FillSkip ==
    ASSUME NEW V, FillInv(V), NEW entry \in queue, SkipStale(entry)
    PROVE  FillInv(V)'
  <1>1. /\ queue' = queue \ {entry} /\ IsStale(entry)
        /\ UNCHANGED <<adjacency, active, degree, filling>>
    BY DEF SkipStale
  <1>2. QueueIsCurrent'
    BY <1>1 DEF FillInv, QueueIsCurrent, ActiveNeighbours, IsStale
  <1>3. EliminatedIsSimplicial'
    BY <1>1 DEF FillInv, EliminatedIsSimplicial, ActiveNeighbours
  <1> QED
    BY <1>1, <1>2, <1>3 DEF FillInv

(* Every step of the fill keeps its invariant.                             *)
LEMMA FillStepInv ==
    ASSUME NEW V, IsFiniteSet(V), FillInv(V), [FillNext(V)]_fillVars
    PROVE  FillInv(V)'
  <1>1. ASSUME NEW edges \in Graphs(V), Load(V, edges) PROVE FillInv(V)'
    BY <1>1, FillLoad
  <1>2. ASSUME NEW entry \in queue, SkipStale(entry) \/ Eliminate(entry) PROVE FillInv(V)'
    BY <1>2, FillSkip, FillEliminate
  <1>3. CASE \E entry \in queue : Refuse(entry)
    <2>1. filling' = "refused" /\ UNCHANGED <<adjacency, active, degree, queue>>
      BY <1>3 DEF Refuse
    <2> QED
      BY <2>1 DEF FillInv, QueueIsCurrent, EliminatedIsSimplicial, ActiveNeighbours
  <1>4. CASE Finish
    <2>1. filling = "yes" /\ queue = {} /\ filling' = "done"
            /\ UNCHANGED <<adjacency, active, degree, queue>>
      BY <1>4 DEF Finish
    <2>2. active = {}
      BY <2>1 DEF FillInv, QueueIsCurrent
    <2> QED
      BY <2>1, <2>2 DEF FillInv, QueueIsCurrent, EliminatedIsSimplicial, ActiveNeighbours
  <1>5. CASE UNCHANGED fillVars
    BY <1>5 DEF fillVars, FillInv, QueueIsCurrent, EliminatedIsSimplicial, ActiveNeighbours
  <1> QED
    BY <1>1, <1>2, <1>3, <1>4, <1>5 DEF FillNext, FillStep

(* The invariant holds throughout the fill of any graph.                   *)
THEOREM FillSpecInv ==
    ASSUME NEW CONSTANT V, IsFiniteSet(V)
    PROVE  FillSpec(V) => []FillInv(V)
  <1>1. NoFill(V) => FillInv(V)
    BY FillInit
  <1>2. FillInv(V) /\ [FillNext(V)]_fillVars => FillInv(V)'
    BY FillStepInv
  <1> QED
    BY <1>1, <1>2, PTL DEF FillSpec

(* However many old entries the queue holds, each vertex is eliminated     *)
(* with the degree it has then, and leaves a clique.                       *)
THEOREM FillAlwaysOrderly ==
    ASSUME NEW CONSTANT V, IsFiniteSet(V)
    PROVE  FillSpec(V) => []FillIsOrderly
  <1>1. FillInv(V) => FillIsOrderly
    BY DEF FillInv, FillIsOrderly
  <1> QED
    BY <1>1, FillSpecInv, PTL

(* The triangles of the finished fill say all that transitivity does: what *)
(* satisfies their clauses is the equality of some classes, so no lemma    *)
(* over longer cycles is missing.                                          *)
THEOREM TrianglesAlwaysDecide ==
    ASSUME NEW CONSTANT V, IsFiniteSet(V)
    PROVE  FillSpec(V) => []TrianglesDecide
  <1>1. FillInv(V) => TrianglesDecide
    <2> SUFFICES ASSUME FillInv(V), filling = "done", NEW true, Triangular(true)
                 PROVE  \E class \in [DOMAIN adjacency -> DOMAIN adjacency] :
                            \A s \in DOMAIN adjacency : \A t \in adjacency[s] :
                                {s, t} \in true <=> class[s] = class[t]
      BY Zenon DEF TrianglesDecide
    <2>1. IsGraph(adjacency, V) /\ active = {} /\ Extends(adjacency, V, {})
      BY DEF FillInv
    <2>2. DOMAIN adjacency = V
      BY <2>1 DEF IsGraph
    <2>3. TriangularIn(true, adjacency)
      BY DEF Triangular, TriangularIn
    <2>4. Equivalence({}, {}) /\ Agrees({}, true, adjacency, {})
      BY DEF Equivalence, Agrees
    <2>5. PICK Q : Completes(Q, {}, true, adjacency, V, {})
      BY <2>1, <2>3, <2>4, Zenon DEF Extends
    <2>6. Equivalence(Q, V) /\ Agrees(Q, true, adjacency, V)
      BY <2>5 DEF Completes
    <2> DEFINE Class(s) == {t \in V : <<s, t>> \in Q}
               Member(S) == CHOOSE t \in V : t \in S
               class == [s \in V |-> Member(Class(s))]
    <2>7. \A s \in V : class[s] \in V /\ <<s, class[s]>> \in Q
      BY <2>6 DEF Equivalence
    <2>8. \A s, t \in V : <<s, t>> \in Q => Class(s) = Class(t)
      BY <2>6 DEF Equivalence
    <2>9. \A s, t \in V : <<s, t>> \in Q => class[s] = class[t]
      <3> HIDE DEF Class, Member
      <3> QED
        BY <2>8
    <2>10. \A s, t \in V : class[s] = class[t] => <<s, t>> \in Q
      BY <2>6, <2>7 DEF Equivalence
    <2>11. \A s \in V : \A t \in adjacency[s] : {s, t} \in true <=> class[s] = class[t]
      BY <2>1, <2>6, <2>9, <2>10 DEF Agrees, IsGraph
    <2>12. class \in [V -> V]
      BY <2>7
    <2> QED
      BY <2>2, <2>11, <2>12, Zenon
  <1> QED
    BY <1>1, FillSpecInv, PTL

-----------------------------------------------------------------------------
(* A store as the pushes leave it: the offsets rise from 0 to the number   *)
(* of the literals.                                                        *)
IsStore(store, L) ==
    /\ store.literals \in Seq(L) /\ Len(store.literals) <= MaxEndOffset
    /\ store.endOffsets \in Seq(Nat) /\ Len(store.endOffsets) >= 1
    /\ \A i, j \in 1..Len(store.endOffsets) :
           i <= j => store.endOffsets[i] <= store.endOffsets[j]
    /\ store.endOffsets[Len(store.endOffsets)] = Len(store.literals)

(* A number that fits is not wrapped.                                      *)
LEMMA Unwrapped == ASSUME NEW m \in Nat, NEW x \in 0..m PROVE x % (m + 1) = x
  BY SMT

(* What lies within the first of two sequences is read from it.            *)
LEMMA ReadFirst ==
    ASSUME NEW L, NEW s \in Seq(L), NEW t \in Seq(L),
           NEW lo \in Nat, NEW hi \in Nat, hi <= Len(s)
    PROVE  /\ SubSeq(s, lo + 1, hi) \in Seq(L)
           /\ SubSeq(s \o t, lo + 1, hi) = SubSeq(s, lo + 1, hi)
  <1>1. /\ s \o t \in Seq(L)
        /\ \A i \in 1..(Len(s) + Len(t)) :
               (s \o t)[i] = IF i <= Len(s) THEN s[i] ELSE t[i - Len(s)]
    BY ConcatProperties
  <1>2. Len(s) \in Nat /\ Len(t) \in Nat
    BY LenProperties
  <1>3. \A i \in (lo + 1)..hi : s[i] \in L /\ (s \o t)[i] = s[i]
    BY <1>1, <1>2, ElementOfSeq
  <1>4. lo + 1 \in Int /\ hi \in Int
    OBVIOUS
  <1>5. /\ SubSeq(s, lo + 1, hi) \in Seq(L)
        /\ Len(SubSeq(s, lo + 1, hi)) = IF lo + 1 <= hi THEN hi - (lo + 1) + 1 ELSE 0
        /\ \A i \in 1..(hi - (lo + 1) + 1) : SubSeq(s, lo + 1, hi)[i] = s[lo + 1 + i - 1]
    BY <1>3, <1>4, SubSeqProperties
  <1>6. /\ SubSeq(s \o t, lo + 1, hi) \in Seq(L)
        /\ Len(SubSeq(s \o t, lo + 1, hi)) = IF lo + 1 <= hi THEN hi - (lo + 1) + 1 ELSE 0
        /\ \A i \in 1..(hi - (lo + 1) + 1) :
               SubSeq(s \o t, lo + 1, hi)[i] = (s \o t)[lo + 1 + i - 1]
    BY <1>3, <1>4, SubSeqProperties
  <1>7. \A i \in 1..Len(SubSeq(s, lo + 1, hi)) :
            SubSeq(s \o t, lo + 1, hi)[i] = SubSeq(s, lo + 1, hi)[i]
    <2> SUFFICES ASSUME NEW i \in 1..Len(SubSeq(s, lo + 1, hi))
                 PROVE  SubSeq(s \o t, lo + 1, hi)[i] = SubSeq(s, lo + 1, hi)[i]
      OBVIOUS
    <2>1. i \in 1..(hi - (lo + 1) + 1) /\ lo + 1 + i - 1 \in (lo + 1)..hi
      BY <1>5
    <2> QED
      BY <1>3, <1>5, <1>6, <2>1
  <1>8. Len(SubSeq(s, lo + 1, hi)) = Len(SubSeq(s \o t, lo + 1, hi))
    BY <1>5, <1>6
  <1> QED
    BY <1>5, <1>6, <1>7, <1>8, SeqEqual

(* What lies behind the first of two sequences is the second.              *)
LEMMA ReadSecond ==
    ASSUME NEW L, NEW s \in Seq(L), NEW t \in Seq(L)
    PROVE  SubSeq(s \o t, Len(s) + 1, Len(s) + Len(t)) = t
  <1> DEFINE c == SubSeq(s \o t, Len(s) + 1, Len(s) + Len(t))
  <1>1. /\ s \o t \in Seq(L) /\ Len(s \o t) = Len(s) + Len(t)
        /\ \A i \in 1..(Len(s) + Len(t)) :
               (s \o t)[i] = IF i <= Len(s) THEN s[i] ELSE t[i - Len(s)]
    BY ConcatProperties
  <1>2. Len(s) \in Nat /\ Len(t) \in Nat
    BY LenProperties
  <1>3. \A i \in (Len(s) + 1)..(Len(s) + Len(t)) : (s \o t)[i] \in L
    BY <1>1, <1>2, ElementOfSeq
  <1>4. Len(s) + 1 \in Int /\ Len(s) + Len(t) \in Int
    BY <1>2
  <1>5. /\ c \in Seq(L)
        /\ Len(c) = IF Len(s) + 1 <= Len(s) + Len(t)
                       THEN Len(s) + Len(t) - (Len(s) + 1) + 1 ELSE 0
        /\ \A i \in 1..(Len(s) + Len(t) - (Len(s) + 1) + 1) :
               c[i] = (s \o t)[Len(s) + 1 + i - 1]
    BY <1>3, <1>4, SubSeqProperties
  <1>6. Len(c) = Len(t)
    BY <1>2, <1>5
  <1>7. \A i \in 1..Len(c) : c[i] = t[i]
    <2> SUFFICES ASSUME NEW i \in 1..Len(c) PROVE c[i] = t[i]
      OBVIOUS
    <2>1. /\ i \in 1..(Len(s) + Len(t) - (Len(s) + 1) + 1)
          /\ Len(s) + 1 + i - 1 = Len(s) + i /\ Len(s) + i \in 1..(Len(s) + Len(t))
          /\ ~(Len(s) + i <= Len(s)) /\ Len(s) + i - Len(s) = i
      BY <1>2, <1>6
    <2>2. (s \o t)[Len(s) + i] = t[i]
      <3> DEFINE k == Len(s) + i
      <3>1. k \in 1..(Len(s) + Len(t)) /\ ~(k <= Len(s)) /\ k - Len(s) = i
        BY <2>1
      <3> HIDE DEF k
      <3>2. (s \o t)[k] = t[k - Len(s)]
        BY <1>1, <3>1
      <3> QED
        BY <3>1, <3>2 DEF k
    <2> QED
      BY <1>5, <2>1, <2>2
  <1> HIDE DEF c
  <1>8. c = t
    BY <1>5, <1>6, <1>7, SeqEqual
  <1> QED
    BY <1>8 DEF c

(* A clause that fits is appended and read back, and no clause before it   *)
(* changes: the offset of its end is not wrapped by the conversion to u32. *)
THEOREM PushAppends ==
    ASSUME NEW L, NEW store, IsStore(store, L), NEW clause \in Seq(L), Fits(store, clause)
    PROVE  /\ IsStore(Pushed(store, clause), L)
           /\ Clauses(Pushed(store, clause)) = Append(Clauses(store), clause)
  <1> DEFINE next == Pushed(store, clause)
             literals == store.literals
             ends == store.endOffsets
             n == Len(ends)
             total == Len(literals) + Len(clause)
             literals2 == next.literals
             ends2 == next.endOffsets
  <1>1. /\ literals \in Seq(L) /\ ends \in Seq(Nat)
        /\ n \in Nat /\ n >= 1
        /\ Len(literals) \in Nat /\ Len(clause) \in Nat
        /\ \A i \in 1..n : ends[i] \in Nat
        /\ \A i, j \in 1..n : i <= j => ends[i] <= ends[j]
        /\ ends[n] = Len(literals)
    BY ElementOfSeq, LenProperties DEF IsStore
  <1>2. total \in 0..MaxEndOffset /\ total % (MaxEndOffset + 1) = total
    <2>1. total \in 0..MaxEndOffset
      BY <1>1, MaxEndOffsetAssumption DEF Fits
    <2> QED
      BY <2>1, Unwrapped, MaxEndOffsetAssumption
  <1>3. literals2 = literals \o clause /\ ends2 = Append(ends, total)
    BY <1>2 DEF Pushed
  <1>4. \A S : \A s \in Seq(S), e \in S :
            /\ Append(s, e) \in Seq(S) /\ Len(Append(s, e)) = Len(s) + 1
            /\ Append(s, e)[Len(s) + 1] = e
            /\ \A i \in 1..Len(s) : Append(s, e)[i] = s[i]
    OBVIOUS
  <1>5. literals2 \in Seq(L) /\ Len(literals2) = total
    BY <1>1, <1>3, ConcatProperties
  <1>6. total \in Nat
    BY <1>1
  <1> HIDE DEF next, literals, ends, n, total, literals2, ends2
  <1>7. /\ ends2 \in Seq(Nat) /\ Len(ends2) = n + 1 /\ ends2[n + 1] = total
        /\ \A i \in 1..n : ends2[i] = ends[i]
    BY <1>1, <1>3, <1>4, <1>6 DEF n
  <1>8. \A i \in 1..n : ends[i] <= Len(literals)
    BY <1>1
  <1>9. Len(literals) <= total
    BY <1>1 DEF total
  <1>10. IsStore(next, L)
    <2>1. \A i, j \in 1..(n + 1) : i <= j => ends2[i] <= ends2[j]
      <3> SUFFICES ASSUME NEW i \in 1..(n + 1), NEW j \in 1..(n + 1), i <= j
                   PROVE  ends2[i] <= ends2[j]
        OBVIOUS
      <3>1. CASE j \in 1..n
        <4>1. i \in 1..n
          BY <1>1, <3>1
        <4> QED
          BY <1>1, <1>7, <3>1, <4>1
      <3>2. CASE j = n + 1 /\ i \in 1..n
        BY <1>1, <1>6, <1>7, <1>8, <1>9, <3>2
      <3>3. CASE j = n + 1 /\ i = n + 1
        BY <1>6, <1>7, <3>3
      <3> QED
        BY <1>1, <3>1, <3>2, <3>3
    <2> QED
      BY <1>1, <1>2, <1>5, <1>7, <2>1 DEF IsStore, literals2, ends2
  <1>11. ASSUME NEW i \in 1..(n - 1)
         PROVE  ClauseAt(store, i) \in Seq(L) /\ ClauseAt(next, i) = ClauseAt(store, i)
    <2>1. i \in 1..n /\ i + 1 \in 1..n
      BY <1>1
    <2> DEFINE lo == ends[i]
               hi == ends[i + 1]
    <2>2. lo \in Nat /\ hi \in Nat /\ hi <= Len(literals)
      BY <1>1, <1>8, <2>1
    <2>3. ends2[i] = lo /\ ends2[i + 1] = hi
      BY <1>7, <2>1
    <2> HIDE DEF lo, hi
    <2>4. /\ SubSeq(literals, lo + 1, hi) \in Seq(L)
          /\ SubSeq(literals \o clause, lo + 1, hi) = SubSeq(literals, lo + 1, hi)
      BY <1>1, <2>2, ReadFirst
    <2> QED
      BY <1>3, <2>3, <2>4, Zenon DEF ClauseAt, literals, ends, literals2, ends2, lo, hi
  <1>12. ClauseAt(next, n) = clause
    <2>1. n \in 1..n
      BY <1>1
    <2>2. ends2[n] = Len(literals) /\ ends2[n + 1] = total
      BY <1>1, <1>7, <2>1
    <2>3. SubSeq(literals \o clause, Len(literals) + 1, total) = clause
      BY <1>1, ReadSecond DEF total
    <2> QED
      BY <1>3, <2>2, <2>3, Zenon DEF ClauseAt, literals2, ends2
  <1>13. Clauses(next) = Append(Clauses(store), clause)
    <2>1. Clauses(next) = [i \in 1..n |-> ClauseAt(next, i)]
      BY <1>1, <1>7 DEF Clauses, ClauseCount, ends2
    <2>2. Clauses(store) = [i \in 1..(n - 1) |-> ClauseAt(store, i)]
      BY DEF Clauses, ClauseCount, n, ends
    <2> DEFINE c == Clauses(store)
               d == Clauses(next)
    <2>3. n - 1 \in Nat
      BY <1>1
    <2>4. c \in Seq(Seq(L)) /\ Len(c) = n - 1 /\ \A i \in 1..(n - 1) : c[i] = ClauseAt(store, i)
      BY <1>11, <2>2, <2>3
    <2>5. \A i \in 1..n : ClauseAt(next, i) \in Seq(L)
      <3>1. \A i \in 1..n : i = n \/ i \in 1..(n - 1)
        BY <1>1
      <3> QED
        BY <1>11, <1>12, <3>1
    <2>6. d \in Seq(Seq(L)) /\ Len(d) = n /\ \A i \in 1..n : d[i] = ClauseAt(next, i)
      BY <1>1, <2>1, <2>5
    <2> HIDE DEF c, d
    <2>7. /\ Append(c, clause) \in Seq(Seq(L)) /\ Len(Append(c, clause)) = n
          /\ Append(c, clause)[n] = clause
          /\ \A i \in 1..(n - 1) : Append(c, clause)[i] = c[i]
      <3>1. Len(c) + 1 = n
        BY <1>1, <2>4
      <3> QED
        BY <1>4, <2>4, <3>1
    <2>8. \A i \in 1..Len(d) : d[i] = Append(c, clause)[i]
      <3>1. \A i \in 1..n : i = n \/ i \in 1..(n - 1)
        BY <1>1
      <3> QED
        BY <1>11, <1>12, <2>4, <2>6, <2>7, <3>1
    <2>9. d = Append(c, clause)
      BY <2>6, <2>7, <2>8, SeqEqual
    <2> QED
      BY <2>9 DEF c, d
  <1> QED
    BY <1>10, <1>13 DEF next

(* The empty store holds no clause.                                        *)
LEMMA EmptyIsStore ==
    ASSUME NEW L
    PROVE  IsStore(EmptyStore, L) /\ Clauses(EmptyStore) = <<>>
  BY MaxEndOffsetAssumption DEF IsStore, EmptyStore, Clauses, ClauseCount

-----------------------------------------------------------------------------
(* The atom of a variable.                                                 *)
AtomForm == [kind : {"Eq", "BoolTerm", "None"}, left : Term, right : Term]

(* The atoms of the variables: each as it is looked up, and no two alike.  *)
IsAtomTable(p) ==
    /\ p.atoms \in Seq(AtomForm)
    /\ \A v, w \in 1..VarCount(p) :
           /\ p.atoms[v] = Normalized(p.atoms[v])
           /\ v # w => p.atoms[v] = NoAtom \/ p.atoms[v] # p.atoms[w]

(* The variables of atoms have the values of the atoms in V.               *)
Interprets(truths, p, V) ==
    /\ truths \in [1..VarCount(p) -> BOOLEAN]
    /\ \A v \in 1..VarCount(p) :
           p.atoms[v].kind # "None" => (truths[v] <=> AtomHolds(V, p.atoms[v]))

(* The numbers of the variables, and of the terms of their atoms.          *)
LEMMA VarsArePositive ==
    ASSUME NEW p, IsAtomTable(p), NEW v \in 1..VarCount(p)
    PROVE  v \in Int /\ v > 0 /\ p.atoms[v].left \in Nat /\ p.atoms[v].right \in Nat
  <1>1. VarCount(p) \in Nat
    BY LenProperties DEF IsAtomTable, VarCount
  <1>2. p.atoms[v] \in AtomForm
    BY ElementOfSeq DEF IsAtomTable, VarCount
  <1>3. Term \subseteq Nat
    BY FormulaAssumption DEF Term
  <1>4. p.atoms[v].left \in Term /\ p.atoms[v].right \in Term
    BY <1>2 DEF AtomForm
  <1>5. v \in Int /\ v > 0
    BY <1>1
  <1>6. p.atoms[v].left \in Nat /\ p.atoms[v].right \in Nat
    BY <1>3, <1>4, Zenon
  <1> QED
    BY <1>5, <1>6, Zenon

(* The equalities have the lesser term on the left, and are different.     *)
LEMMA EqTable ==
    ASSUME NEW p, IsAtomTable(p), NEW v \in VarsOf(p, "Eq")
    PROVE  /\ p.atoms[v] = EqAtom(p.atoms[v].left, p.atoms[v].right)
           /\ p.atoms[v].left <= p.atoms[v].right
           /\ \A w \in VarsOf(p, "Eq") :
                  {p.atoms[v].left, p.atoms[v].right} = {p.atoms[w].left, p.atoms[w].right}
                      => v = w
  <1>1. \A w \in VarsOf(p, "Eq") :
            /\ w \in 1..VarCount(p)
            /\ p.atoms[w] = EqAtom(p.atoms[w].left, p.atoms[w].right)
            /\ p.atoms[w].left <= p.atoms[w].right
            /\ p.atoms[w].left \in Nat /\ p.atoms[w].right \in Nat
    <2> SUFFICES ASSUME NEW w \in VarsOf(p, "Eq")
                 PROVE  /\ w \in 1..VarCount(p)
                        /\ p.atoms[w] = EqAtom(p.atoms[w].left, p.atoms[w].right)
                        /\ p.atoms[w].left <= p.atoms[w].right
                        /\ p.atoms[w].left \in Nat /\ p.atoms[w].right \in Nat
      OBVIOUS
    <2> DEFINE atom == p.atoms[w]
    <2>1. w \in 1..VarCount(p) /\ atom.kind = "Eq"
      BY DEF VarsOf
    <2>2. atom \in AtomForm
      BY <2>1, ElementOfSeq DEF IsAtomTable, VarCount
    <2>3. atom = Normalized(atom)
      BY <2>1 DEF IsAtomTable
    <2>4. atom.left \in Nat /\ atom.right \in Nat
      BY <2>1, VarsArePositive
    <2> HIDE DEF atom
    <2>5. atom = EqAtom(atom.left, atom.right)
      BY <2>1, <2>2 DEF AtomForm, EqAtom
    <2>6. atom.left = Pair(atom.left, atom.right)[1]
      BY <2>2, <2>3 DEF Normalized, AtomForm
    <2>7. atom.left <= atom.right
      BY <2>4, <2>6 DEF Pair
    <2> QED
      BY <2>1, <2>4, <2>5, <2>7 DEF atom
  <1>2. ASSUME NEW w \in VarsOf(p, "Eq"),
               {p.atoms[v].left, p.atoms[v].right} = {p.atoms[w].left, p.atoms[w].right}
        PROVE  v = w
    <2> DEFINE a == p.atoms[v].left
               b == p.atoms[v].right
               c == p.atoms[w].left
               d == p.atoms[w].right
    <2>1. /\ p.atoms[v] = EqAtom(a, b) /\ a <= b /\ a \in Nat /\ b \in Nat
          /\ p.atoms[w] = EqAtom(c, d) /\ c <= d /\ c \in Nat /\ d \in Nat
          /\ {a, b} = {c, d}
      BY <1>1, <1>2, Zenon
    <2> HIDE DEF a, b, c, d
    <2>2. a = c /\ b = d
      <3>1. (a = c /\ b = d) \/ (a = d /\ b = c)
        BY <2>1
      <3> QED
        BY <2>1, <3>1
    <2>3. p.atoms[v] = p.atoms[w]
      BY <2>1, <2>2, Zenon
    <2>4. p.atoms[v] # NoAtom
      BY <2>1 DEF EqAtom, NoAtom
    <2> QED
      BY <1>1, <2>3, <2>4 DEF IsAtomTable
  <1> QED
    BY <1>1, <1>2

(* The value of a literal of a variable.                                   *)
LEMMA LiteralValues ==
    ASSUME NEW truths, NEW v \in Int, v > 0
    PROVE  /\ LitTrue(truths, v) = truths[v]
           /\ LitTrue(truths, -v) = ~truths[v]
  <1>1. ~(-v > 0) /\ -(-v) = v
    OBVIOUS
  <1> QED
    BY <1>1 DEF LitTrue

(* The variable of an edge is that of an equality of its two ends.         *)
LEMMA EdgeFacts ==
    ASSUME NEW p, IsAtomTable(p), NEW edge \in EqEdges(p)
    PROVE  LET v == VarOfEdge(p, edge)
           IN  /\ v \in 1..VarCount(p) /\ v \in Int /\ v > 0
               /\ p.atoms[v].kind = "Eq"
               /\ p.atoms[v].left # p.atoms[v].right
               /\ {p.atoms[v].left, p.atoms[v].right} = edge
  <1> DEFINE IsVar(v) == v \in EqVars(p) /\ {p.atoms[v].left, p.atoms[v].right} = edge
             v == VarOfEdge(p, edge)
  <1>1. \E w : IsVar(w)
    BY DEF EqEdges
  <1>2. IsVar(v)
    BY <1>1, Zenon DEF VarOfEdge
  <1> HIDE DEF v
  <1>3. v \in 1..VarCount(p) /\ p.atoms[v].kind = "Eq" /\ p.atoms[v].left # p.atoms[v].right
    BY <1>2 DEF EqVars, VarsOf
  <1>4. v \in Int /\ v > 0
    BY <1>3, VarsArePositive
  <1> QED
    BY <1>2, <1>3, <1>4, Zenon DEF v

(* The variable of an edge says whether the ends of the edge are equal.    *)
LEMMA EdgeValue ==
    ASSUME NEW p, IsAtomTable(p), NEW V, NEW truths, Interprets(truths, p, V),
           NEW s, NEW t, {s, t} \in EqEdges(p)
    PROVE  truths[VarOfEdge(p, {s, t})] <=> V[s] = V[t]
  <1> DEFINE v == VarOfEdge(p, {s, t})
             l == p.atoms[v].left
             r == p.atoms[v].right
  <1>1. v \in 1..VarCount(p) /\ p.atoms[v].kind = "Eq" /\ {l, r} = {s, t}
    BY EdgeFacts
  <1>2. truths[v] <=> V[l] = V[r]
    BY <1>1 DEF Interprets, AtomHolds
  <1> HIDE DEF v, l, r
  <1>3. (l = s /\ r = t) \/ (l = t /\ r = s)
    BY <1>1
  <1>4. truths[v] <=> V[s] = V[t]
    BY <1>2, <1>3
  <1> QED
    BY <1>4, Zenon DEF v

(* The transitivity clauses hold in every structure.                       *)
THEOREM TransitivityIsValid ==
    ASSUME NEW p, IsAtomTable(p), NEW V, NEW truths, Interprets(truths, p, V)
    PROVE  SatisfiesLemmas(truths, TransitivityClauses(p))
  <1>1. ASSUME NEW t \in Triangles(EqEdges(p))
        PROVE  \E l \in TriangleClause(p, t) : LitTrue(truths, l)
    <2> DEFINE e == t[1]
               f == t[2]
               g == t[3]
               Value(edge) == truths[VarOfEdge(p, edge)]
    <2>1. /\ e \in EqEdges(p) /\ f \in EqEdges(p) /\ g \in EqEdges(p)
          /\ e # f /\ e \cap f # {}
          /\ g = (e \cup f) \ (e \cap f)
      BY DEF Triangles
    <2> HIDE DEF e, f, g
    <2>2. PICK s : s \in e /\ s \in f
      BY <2>1
    <2>3. \A edge \in EqEdges(p) : \E x, y : edge = {x, y} /\ x # y
      <3> SUFFICES ASSUME NEW edge \in EqEdges(p)
                   PROVE  \E x, y : edge = {x, y} /\ x # y
        OBVIOUS
      <3> DEFINE v == VarOfEdge(p, edge)
      <3>1. p.atoms[v].left # p.atoms[v].right /\ {p.atoms[v].left, p.atoms[v].right} = edge
        BY EdgeFacts
      <3> QED
        BY <3>1, Zenon
    <2>4. PICK x : e = {s, x} /\ s # x
      BY <2>1, <2>2, <2>3
    <2>5. PICK y : f = {s, y} /\ s # y
      BY <2>1, <2>2, <2>3
    <2>6. g = {x, y}
      BY <2>1, <2>4, <2>5
    <2>7. \A a, b : {a, b} \in EqEdges(p) => (Value({a, b}) <=> V[a] = V[b])
      <3> SUFFICES ASSUME NEW a, NEW b, {a, b} \in EqEdges(p)
                   PROVE  Value({a, b}) <=> V[a] = V[b]
        OBVIOUS
      <3> QED
        BY EdgeValue
    <2> HIDE DEF Value
    <2>8. Value({s, x}) <=> V[s] = V[x]
      BY <2>1, <2>4, <2>7, Zenon
    <2>9. Value({s, y}) <=> V[s] = V[y]
      BY <2>1, <2>5, <2>7, Zenon
    <2>10. Value({x, y}) <=> V[x] = V[y]
      <3>1. {x, y} \in EqEdges(p)
        BY <2>1, <2>6
      <3> QED
        BY <3>1, <2>7, Zenon
    <2>11. ~Value(e) \/ ~Value(f) \/ Value(g)
      BY <2>4, <2>5, <2>6, <2>8, <2>9, <2>10, Zenon
    <2>12. \A edge \in EqEdges(p) :
               /\ LitTrue(truths, VarOfEdge(p, edge)) = Value(edge)
               /\ LitTrue(truths, -VarOfEdge(p, edge)) = ~Value(edge)
      BY EdgeFacts, LiteralValues DEF Value
    <2>13. \/ LitTrue(truths, -VarOfEdge(p, e)) \/ LitTrue(truths, -VarOfEdge(p, f))
           \/ LitTrue(truths, VarOfEdge(p, g))
      BY <2>1, <2>12, <2>11, Zenon
    <2> QED
      BY <2>13, Zenon DEF TriangleClause, e, f, g
  <1>2. ASSUME NEW v \in VarsOf(p, "Eq") \ EqVars(p)
        PROVE  \E l \in {v} : LitTrue(truths, l)
    <2>1. v \in 1..VarCount(p) /\ p.atoms[v].kind = "Eq" /\ p.atoms[v].left = p.atoms[v].right
      BY DEF VarsOf, EqVars
    <2>2. truths[v]
      BY <2>1 DEF Interprets, AtomHolds
    <2>3. LitTrue(truths, v)
      BY <2>1, <2>2, VarsArePositive, LiteralValues
    <2> QED
      BY <2>3
  <1> QED
    BY <1>1, <1>2, Zenon DEF SatisfiesLemmas, TransitivityClauses

(* After a finished fill the transitivity clauses are all of transitivity: *)
(* what satisfies them is the equality of some classes.                    *)
THEOREM TransitivityDecides ==
    ASSUME NEW p, IsAtomTable(p), TrianglesDecide, filling = "done", IsGraph(adjacency, Term),
           \A s, t \in Term : t \in adjacency[s] <=> {s, t} \in EqEdges(p),
           NEW truths \in [1..VarCount(p) -> BOOLEAN],
           SatisfiesLemmas(truths, TransitivityClauses(p))
    PROVE  \E class \in [Term -> Term] :
               \A v \in VarsOf(p, "Eq") :
                   truths[v] <=> class[p.atoms[v].left] = class[p.atoms[v].right]
  <1> DEFINE true == {edge \in EqEdges(p) : truths[VarOfEdge(p, edge)]}
  <1>1. DOMAIN adjacency = Term
    BY DEF IsGraph
  <1>2. \A edge \in EqEdges(p) :
            /\ LitTrue(truths, VarOfEdge(p, edge)) = (edge \in true)
            /\ LitTrue(truths, -VarOfEdge(p, edge)) = (edge \notin true)
    <2> SUFFICES ASSUME NEW edge \in EqEdges(p)
                 PROVE  /\ LitTrue(truths, VarOfEdge(p, edge)) = (edge \in true)
                        /\ LitTrue(truths, -VarOfEdge(p, edge)) = (edge \notin true)
      OBVIOUS
    <2> DEFINE v == VarOfEdge(p, edge)
    <2>1. v \in 1..VarCount(p) /\ v \in Int /\ v > 0
      BY EdgeFacts
    <2> HIDE DEF v
    <2>2. /\ LitTrue(truths, v) = truths[v] /\ LitTrue(truths, -v) = ~truths[v]
          /\ truths[v] \in BOOLEAN
      BY <2>1, LiteralValues
    <2> QED
      BY <2>2 DEF v
  <1>3. Triangular(true)
    <2> SUFFICES ASSUME NEW s \in Term, NEW t \in adjacency[s],
                        NEW u \in adjacency[s] \cap adjacency[t],
                        {s, t} \in true, {t, u} \in true
                 PROVE  {s, u} \in true
      BY <1>1 DEF Triangular
    <2>1. t \in Term /\ u \in Term /\ s # t /\ t # u /\ s # u
      BY DEF IsGraph
    <2>2. {s, t} \in EqEdges(p) /\ {t, u} \in EqEdges(p) /\ {s, u} \in EqEdges(p)
      BY <2>1
    <2> HIDE DEF true
    <2> DEFINE e == {s, t}
               f == {t, u}
               g == {s, u}
    <2>3. e # f /\ e \cap f # {} /\ g = (e \cup f) \ (e \cap f)
      BY <2>1
    <2> HIDE DEF e, f, g
    <2>4. <<e, f, g>> \in Triangles(EqEdges(p))
      BY <2>2, <2>3 DEF Triangles, e, f, g
    <2>5. TriangleClause(p, <<e, f, g>>) = {-VarOfEdge(p, e), -VarOfEdge(p, f), VarOfEdge(p, g)}
      BY DEF TriangleClause
    <2>6. TriangleClause(p, <<e, f, g>>) \in TransitivityClauses(p)
      BY <2>4, Zenon DEF TransitivityClauses
    <2>7. PICK l \in TriangleClause(p, <<e, f, g>>) : LitTrue(truths, l)
      BY <2>6 DEF SatisfiesLemmas
    <2>8. \/ LitTrue(truths, -VarOfEdge(p, e)) \/ LitTrue(truths, -VarOfEdge(p, f))
          \/ LitTrue(truths, VarOfEdge(p, g))
      BY <2>5, <2>7
    <2>9. e \in EqEdges(p) /\ f \in EqEdges(p) /\ g \in EqEdges(p) /\ e \in true /\ f \in true
      BY <2>2 DEF e, f, g
    <2>10. g \in true
      BY <1>2, <2>8, <2>9, Zenon
    <2> QED
      BY <2>10 DEF g
  <1>4. true \in SUBSET {edge \in SUBSET DOMAIN adjacency : Cardinality(edge) = 2}
    <2> SUFFICES ASSUME NEW edge \in EqEdges(p)
                 PROVE  edge \in SUBSET Term /\ Cardinality(edge) = 2
      BY <1>1
    <2> DEFINE v == VarOfEdge(p, edge)
               l == p.atoms[v].left
               r == p.atoms[v].right
    <2>1. v \in 1..VarCount(p) /\ l # r /\ edge = {l, r}
      BY EdgeFacts
    <2>2. p.atoms[v] \in AtomForm
      BY <2>1, ElementOfSeq DEF IsAtomTable, VarCount
    <2>3. l \in Term /\ r \in Term
      BY <2>2 DEF AtomForm
    <2> HIDE DEF l, r
    <2>4. Cardinality({l, r}) = 2
      <3>1. IsFiniteSet({l}) /\ Cardinality({l}) = 1
        BY FS_Singleton
      <3>2. 1 + 1 = 2 /\ r \notin {l} /\ {l, r} = {l} \cup {r}
        BY <2>1
      <3>3. Cardinality({l} \cup {r}) = 1 + 1
        BY <3>1, <3>2, FS_AddElement
      <3>4. Cardinality({l} \cup {r}) = 2
        BY <3>2, <3>3
      <3> QED
        BY <3>2, <3>4
    <2> QED
      BY <2>1, <2>3, <2>4
  <1> HIDE DEF true
  <1>5. PICK class \in [Term -> Term] :
            \A s \in Term : \A t \in adjacency[s] : {s, t} \in true <=> class[s] = class[t]
    BY <1>1, <1>3, <1>4 DEF TrianglesDecide
  <1>6. ASSUME NEW v \in VarsOf(p, "Eq")
        PROVE  truths[v] <=> class[p.atoms[v].left] = class[p.atoms[v].right]
    <2> DEFINE l == p.atoms[v].left
               r == p.atoms[v].right
    <2>1. v \in 1..VarCount(p) /\ v \in Int /\ v > 0
      BY VarsArePositive DEF VarsOf
    <2>2. CASE l = r
      <3>1. v \notin EqVars(p)
        BY <2>2 DEF EqVars
      <3>2. {v} \in TransitivityClauses(p)
        BY <3>1 DEF TransitivityClauses
      <3>3. LitTrue(truths, v)
        BY <3>2 DEF SatisfiesLemmas
      <3>4. truths[v]
        BY <2>1, <3>3, LiteralValues
      <3> QED
        BY <2>2, <3>4
    <2>3. CASE l # r
      <3>1. v \in EqVars(p)
        BY <2>3 DEF EqVars
      <3>2. {l, r} \in EqEdges(p)
        BY <3>1 DEF EqEdges
      <3> DEFINE w == VarOfEdge(p, {l, r})
      <3>3. w \in VarsOf(p, "Eq") /\ {p.atoms[w].left, p.atoms[w].right} = {l, r}
        BY <3>2, EdgeFacts DEF VarsOf
      <3>4. v = w
        <4> HIDE DEF w
        <4> QED
          BY <3>3, EqTable
      <3>5. {l, r} \in true <=> truths[v]
        BY <3>2, <3>4 DEF true
      <3>6. p.atoms[v] \in AtomForm
        BY <2>1, ElementOfSeq DEF IsAtomTable, VarCount
      <3>7. l \in Term /\ r \in Term
        BY <3>6 DEF AtomForm
      <3> HIDE DEF l, r, w
      <3>8. r \in adjacency[l]
        BY <3>2, <3>7
      <3>9. {l, r} \in true <=> class[l] = class[r]
        BY <1>5, <3>7, <3>8, Zenon
      <3>10. truths[v] <=> class[l] = class[r]
        BY <3>5, <3>9, Zenon
      <3> QED
        BY <3>10 DEF l, r
    <2> QED
      BY <2>2, <2>3
  <1> QED
    BY <1>5, <1>6

(* A structure gives congruent applications one value.                     *)
IsStructure(V) ==
    \A s, t \in AppTerm :
        /\ FunOf[s] = FunOf[t] /\ Arity(s) = Arity(t)
        /\ \A i \in 1..Arity(s) : V[ArgsOf[s][i]] = V[ArgsOf[t][i]]
        => V[s] = V[t]

(* The variable that is looked up by its atom has the value of the atom.   *)
LEMMA AtomValue ==
    ASSUME NEW p, IsAtomTable(p), NEW V, NEW truths, Interprets(truths, p, V),
           NEW atom, HasAtom(p, atom), atom.kind # "None"
    PROVE  LET v == VarOfAtom(p, atom)
           IN  v \in Int /\ v > 0 /\ (truths[v] <=> AtomHolds(V, atom))
  <1> DEFINE v == VarOfAtom(p, atom)
  <1>1. v \in 1..VarCount(p) /\ p.atoms[v] = atom
    BY Zenon DEF HasAtom, VarOfAtom
  <1> HIDE DEF v
  <1>2. v \in Int /\ v > 0
    BY <1>1, VarsArePositive
  <1>3. truths[v] <=> AtomHolds(V, atom)
    BY <1>1 DEF Interprets
  <1> QED
    BY <1>2, <1>3, Zenon DEF v

(* An equality of either orientation is looked up in the order of Pair.    *)
LEMMA PairValue ==
    ASSUME NEW p, IsAtomTable(p), NEW V, NEW truths, Interprets(truths, p, V),
           NEW s, NEW t, HasAtom(p, EqAtom(Pair(s, t)[1], Pair(s, t)[2]))
    PROVE  LET v == VarOfAtom(p, EqAtom(Pair(s, t)[1], Pair(s, t)[2]))
           IN  v \in Int /\ v > 0 /\ (truths[v] <=> V[s] = V[t])
  <1> DEFINE atom == EqAtom(Pair(s, t)[1], Pair(s, t)[2])
  <1>1. /\ atom.kind = "Eq"
        /\ \/ atom.left = s /\ atom.right = t
           \/ atom.left = t /\ atom.right = s
    BY DEF EqAtom, Pair
  <1> HIDE DEF atom
  <1>2. AtomHolds(V, atom) <=> V[s] = V[t]
    BY <1>1 DEF AtomHolds
  <1>3. HasAtom(p, atom)
    BY DEF atom
  <1>4. LET v == VarOfAtom(p, atom)
        IN  v \in Int /\ v > 0 /\ (truths[v] <=> AtomHolds(V, atom))
    BY <1>1, <1>3, AtomValue
  <1> QED
    BY <1>2, <1>4 DEF atom

(* Two terms are neighbours by the atom of their equality.                 *)
LEMMA NeighbourHasAtom ==
    ASSUME NEW p, IsAtomTable(p), NEW s, NEW t \in NeighboursOf(p, s)
    PROVE  HasAtom(p, EqAtom(Pair(s, t)[1], Pair(s, t)[2]))
  <1>1. PICK v \in EqVars(p) : {s, t} = {p.atoms[v].left, p.atoms[v].right}
    BY DEF NeighboursOf
  <1> DEFINE l == p.atoms[v].left
             r == p.atoms[v].right
  <1>2. v \in 1..VarCount(p) /\ v \in VarsOf(p, "Eq") /\ p.atoms[v].kind = "Eq" /\ l # r
    BY DEF EqVars, VarsOf
  <1>3. p.atoms[v] = EqAtom(l, r) /\ l <= r
    BY <1>2, EqTable
  <1>4. l \in Nat /\ r \in Nat
    BY <1>2, VarsArePositive
  <1> HIDE DEF l, r
  <1>5. (s = l /\ t = r) \/ (s = r /\ t = l)
    BY <1>1 DEF l, r
  <1>6. Pair(s, t) = <<l, r>>
    BY <1>2, <1>3, <1>4, <1>5 DEF Pair
  <1> QED
    BY <1>2, <1>3, <1>6 DEF HasAtom

(* The congruence clauses of two applications hold in every structure.     *)
LEMMA CongruenceOfTwo ==
    ASSUME NEW p, IsAtomTable(p), NEW V, IsStructure(V), NEW truths, Interprets(truths, p, V),
           NEW s \in AppTerm, NEW t \in Partners(p, s), NEW d \in Conclusions(p, s, t)
    PROVE  \E l \in ArgConditions(p, s, t) \cup d : LitTrue(truths, l)
  <1>1. /\ t \in AppTerm /\ FunOf[s] = FunOf[t] /\ Arity(s) = Arity(t)
        /\ \A i \in 1..Arity(s) :
               ArgsOf[t][i] \in NeighboursOf(p, ArgsOf[s][i]) \/ ArgsOf[t][i] = ArgsOf[s][i]
    BY DEF Partners, SymbolOf
  <1>2. CASE \E i \in 1..Arity(s) : V[ArgsOf[s][i]] # V[ArgsOf[t][i]]
    <2>1. PICK i \in 1..Arity(s) : V[ArgsOf[s][i]] # V[ArgsOf[t][i]]
      BY <1>2
    <2> DEFINE v == EdgeVar(p, ArgsOf[s][i], ArgsOf[t][i])
    <2>2. HasAtom(p, EqAtom(Pair(ArgsOf[s][i], ArgsOf[t][i])[1],
                            Pair(ArgsOf[s][i], ArgsOf[t][i])[2]))
      BY <1>1, <2>1, NeighbourHasAtom
    <2>3. v \in Int /\ v > 0 /\ (truths[v] <=> V[ArgsOf[s][i]] = V[ArgsOf[t][i]])
      BY <2>2, PairValue DEF EdgeVar
    <2>4. -v \in ArgConditions(p, s, t)
      BY <2>1 DEF ArgConditions
    <2> HIDE DEF v
    <2>5. LitTrue(truths, -v)
      BY <2>1, <2>3, LiteralValues
    <2> QED
      BY <2>4, <2>5
  <1>3. CASE \A i \in 1..Arity(s) : V[ArgsOf[s][i]] = V[ArgsOf[t][i]]
    <2>1. V[s] = V[t]
      BY <1>1, <1>3 DEF IsStructure
    <2> DEFINE eq == EqAtom(Pair(s, t)[1], Pair(s, t)[2])
               a == VarOfAtom(p, BoolAtom(s))
               b == VarOfAtom(p, BoolAtom(t))
               e == VarOfAtom(p, eq)
    <2>2. \/ HasAtom(p, eq) /\ d = {e}
          \/ /\ HasAtom(p, BoolAtom(s)) /\ HasAtom(p, BoolAtom(t))
             /\ d = {-a, b} \/ d = {a, -b}
      BY DEF Conclusions
    <2>3. CASE HasAtom(p, eq) /\ d = {e}
      <3>1. e \in Int /\ e > 0 /\ (truths[e] <=> V[s] = V[t])
        BY <2>3, PairValue
      <3> HIDE DEF e
      <3>2. LitTrue(truths, e)
        BY <2>1, <3>1, LiteralValues
      <3> QED
        BY <2>3, <3>2
    <2>4. CASE /\ HasAtom(p, BoolAtom(s)) /\ HasAtom(p, BoolAtom(t))
               /\ d = {-a, b} \/ d = {a, -b}
      <3>1. \A u : /\ BoolAtom(u).kind # "None"
                   /\ AtomHolds(V, BoolAtom(u)) <=> V[u] = TrueTerm
        BY DEF BoolAtom, AtomHolds
      <3>2. a \in Int /\ a > 0 /\ (truths[a] <=> V[s] = TrueTerm)
        BY <2>4, <3>1, AtomValue
      <3>3. b \in Int /\ b > 0 /\ (truths[b] <=> V[t] = TrueTerm)
        BY <2>4, <3>1, AtomValue
      <3> HIDE DEF a, b
      <3>4. /\ LitTrue(truths, a) = truths[a] /\ LitTrue(truths, -a) = ~truths[a]
            /\ LitTrue(truths, b) = truths[b] /\ LitTrue(truths, -b) = ~truths[b]
        BY <3>2, <3>3, LiteralValues
      <3>5. /\ LitTrue(truths, -a) \/ LitTrue(truths, b)
            /\ LitTrue(truths, a) \/ LitTrue(truths, -b)
        BY <2>1, <3>2, <3>3, <3>4
      <3> QED
        BY <2>4, <3>5
    <2> QED
      BY <2>2, <2>3, <2>4
  <1> QED
    BY <1>2, <1>3

(* The congruence clauses hold in every structure, in either mode.         *)
THEOREM CongruenceIsValid ==
    ASSUME NEW p, IsAtomTable(p), NEW V, IsStructure(V), NEW truths, Interprets(truths, p, V),
           NEW mode
    PROVE  SatisfiesLemmas(truths, CongruenceClauses(p, mode))
  <1> SUFFICES ASSUME NEW c \in CongruenceClauses(p, mode)
               PROVE  \E l \in c : LitTrue(truths, l)
    BY DEF SatisfiesLemmas
  <1> DEFINE canonical == CanonicalValues(p)
             HasCanonicalArgs(t) == \A i \in 1..Arity(t) : ArgsOf[t][i] \in canonical
             Chosen(s) == {t \in Partners(p, s) :
                              CanonicalOnly(p, mode) => HasCanonicalArgs(s) \/ HasCanonicalArgs(t)}
             ClausesOf(s, t) == {ArgConditions(p, s, t) \cup d : d \in Conclusions(p, s, t)}
             sources == {s \in AppTerm : CandidateCount(p, s) <= MaxCandidates}
  <1>1. PICK s \in AppTerm : \E t \in Partners(p, s) : \E d \in Conclusions(p, s, t) :
            c = ArgConditions(p, s, t) \cup d
    <2>1. c \in UNION {UNION {ClausesOf(s, t) : t \in Chosen(s)} : s \in sources}
      BY DEF CongruenceClauses
    <2>2. sources \subseteq AppTerm /\ \A s : Chosen(s) \subseteq Partners(p, s)
      OBVIOUS
    <2> HIDE DEF sources, Chosen
    <2>3. PICK s \in sources : c \in UNION {ClausesOf(s, t) : t \in Chosen(s)}
      BY <2>1, Zenon
    <2>4. PICK t \in Chosen(s) : c \in ClausesOf(s, t)
      BY <2>3, Zenon
    <2> QED
      BY <2>2, <2>4
  <1>2. PICK t \in Partners(p, s) : \E d \in Conclusions(p, s, t) :
            c = ArgConditions(p, s, t) \cup d
    BY <1>1
  <1>3. PICK d \in Conclusions(p, s, t) : c = ArgConditions(p, s, t) \cup d
    BY <1>2
  <1> QED
    BY <1>3, CongruenceOfTwo

-----------------------------------------------------------------------------
(* A literal of one of n variables.                                        *)
Literal(n) == {l \in -n..n : l # 0}

(* A literal is true when its negation is not.                             *)
LEMMA NegatedLiteral ==
    ASSUME NEW n \in Nat, NEW truths \in [1..n -> BOOLEAN], NEW l \in Literal(n)
    PROVE  /\ LitTrue(truths, l) \in BOOLEAN
           /\ LitTrue(truths, -l) = ~LitTrue(truths, l)
  <1>1. l \in Int /\ l # 0 /\ (l > 0 => l \in 1..n) /\ (~(l > 0) => -l \in 1..n)
    BY DEF Literal
  <1>2. CASE l > 0
    <2>1. ~(-l > 0) /\ -(-l) = l
      BY <1>1, <1>2
    <2> QED
      BY <1>1, <1>2, <2>1 DEF LitTrue
  <1>3. CASE ~(l > 0)
    <2>1. -l > 0
      BY <1>1, <1>3
    <2> QED
      BY <1>1, <1>3, <2>1 DEF LitTrue
  <1> QED
    BY <1>2, <1>3

(* A clause holds when a literal of it does.                               *)
Holds(truths, clause) == \E k \in DOMAIN clause : LitTrue(truths, clause[k])

(* The clauses of a conjunction give its literal the value of the whole.   *)
THEOREM AndIsEquivalent ==
    ASSUME NEW n \in Nat, NEW truths \in [1..n -> BOOLEAN],
           NEW lits \in Seq(Literal(n)), NEW lit \in Literal(n)
    PROVE  SatisfiesClauses(truths, AndClauses(lits, lit)) <=>
               (LitTrue(truths, lit) <=> \A i \in DOMAIN lits : LitTrue(truths, lits[i]))
  <1> DEFINE m == Len(lits)
             parts == [i \in DOMAIN lits |-> <<-lit, lits[i]>>]
             negated == Negated(lits)
             last == <<lit>> \o negated
             clauses == AndClauses(lits, lit)
             True(l) == LitTrue(truths, l)
  <1>1. m \in Nat /\ DOMAIN lits = 1..m /\ \A i \in 1..m : lits[i] \in Literal(n)
    BY LenProperties, ElementOfSeq
  <1>2. Literal(n) \subseteq Int /\ \A l \in Literal(n) : -l \in Literal(n)
    BY DEF Literal
  <1>3. /\ negated \in Seq(Literal(n)) /\ Len(negated) = m
        /\ \A i \in 1..m : negated[i] = -lits[i]
    BY <1>1, <1>2 DEF Negated
  <1>4. last \in Seq(Literal(n)) /\ Len(last) = m + 1 /\ last[1] = lit
        /\ \A i \in 1..m : last[i + 1] = -lits[i]
    BY <1>1, <1>3, ConcatProperties
  <1>5. parts \in Seq(Seq(Literal(n))) /\ Len(parts) = m
        /\ \A i \in 1..m : parts[i] = <<-lit, lits[i]>>
    BY <1>1, <1>2
  <1>6. Len(clauses) = m + 1 /\ clauses \in Seq(Seq(Literal(n))) /\ clauses[m + 1] = last
        /\ \A i \in 1..m : clauses[i] = <<-lit, lits[i]>>
    BY <1>1, <1>4, <1>5, ConcatProperties DEF AndClauses
  <1> HIDE DEF m, parts, negated, last, clauses
  <1>7. SatisfiesClauses(truths, clauses) <=>
            Holds(truths, last) /\ \A i \in 1..m : Holds(truths, <<-lit, lits[i]>>)
    <2>1. DOMAIN clauses = 1..(m + 1)
      BY <1>6
    <2>2. \A i \in 1..(m + 1) : i = m + 1 \/ i \in 1..m
      BY <1>1
    <2>3. SatisfiesClauses(truths, clauses) <=> \A i \in 1..(m + 1) : Holds(truths, clauses[i])
      BY <2>1, Zenon DEF SatisfiesClauses, Holds
    <2>4. m + 1 \in 1..(m + 1) /\ 1..m \subseteq 1..(m + 1)
      BY <1>1
    <2> QED
      BY <1>6, <2>2, <2>3, <2>4
  <1>8. \A i \in 1..m : Holds(truths, <<-lit, lits[i]>>) <=> (True(lit) => True(lits[i]))
    <2> SUFFICES ASSUME NEW i \in 1..m
                 PROVE  Holds(truths, <<-lit, lits[i]>>) <=> (True(lit) => True(lits[i]))
      OBVIOUS
    <2>1. Holds(truths, <<-lit, lits[i]>>) <=> True(-lit) \/ True(lits[i])
      BY DEF Holds
    <2>2. True(-lit) = ~True(lit) /\ True(lit) \in BOOLEAN
      BY NegatedLiteral
    <2> QED
      BY <2>1, <2>2
  <1>9. Holds(truths, last) <=> True(lit) \/ \E i \in 1..m : ~True(lits[i])
    <2>1. DOMAIN last = 1..(m + 1)
      BY <1>4
    <2>2. \A i \in 1..(m + 1) : i = 1 \/ \E j \in 1..m : i = j + 1
      <3> SUFFICES ASSUME NEW i \in 1..(m + 1), i # 1
                   PROVE  \E j \in 1..m : i = j + 1
        OBVIOUS
      <3>1. i - 1 \in 1..m /\ i = (i - 1) + 1
        BY <1>1
      <3> QED
        BY <3>1
    <2>3. 1 \in 1..(m + 1) /\ \A j \in 1..m : j + 1 \in 1..(m + 1)
      BY <1>1
    <2>4. \A j \in 1..m : True(-lits[j]) = ~True(lits[j])
      BY <1>1, NegatedLiteral
    <2>5. Holds(truths, last) <=> \E i \in 1..(m + 1) : True(last[i])
      BY <2>1, Zenon DEF Holds
    <2>6. Holds(truths, last) => True(lit) \/ \E i \in 1..m : ~True(lits[i])
      BY <1>4, <2>2, <2>4, <2>5
    <2>7. True(lit) \/ (\E i \in 1..m : ~True(lits[i])) => Holds(truths, last)
      BY <1>4, <2>3, <2>4, <2>5
    <2> QED
      BY <2>6, <2>7
  <1>10. True(lit) \in BOOLEAN
    BY NegatedLiteral
  <1>11. SatisfiesClauses(truths, clauses) <=> (True(lit) <=> \A i \in 1..m : True(lits[i]))
    BY <1>7, <1>8, <1>9, <1>10
  <1> QED
    BY <1>1, <1>11 DEF clauses

(* A disjunction is the conjunction of the negated children, negated.      *)
THEOREM OrIsEquivalent ==
    ASSUME NEW n \in Nat, NEW truths \in [1..n -> BOOLEAN],
           NEW lits \in Seq(Literal(n)), NEW lit \in Literal(n)
    PROVE  SatisfiesClauses(truths, OrClauses(lits, lit)) <=>
               (LitTrue(truths, lit) <=> \E i \in DOMAIN lits : LitTrue(truths, lits[i]))
  <1> DEFINE negated == Negated(lits)
             True(l) == LitTrue(truths, l)
  <1>1. DOMAIN lits = 1..Len(lits) /\ Len(lits) \in Nat
        /\ \A i \in DOMAIN lits : lits[i] \in Literal(n)
    BY LenProperties, ElementOfSeq
  <1>2. \A l \in Literal(n) : -l \in Literal(n) /\ -(-l) = l
    BY DEF Literal
  <1>3. negated \in Seq(Literal(n)) /\ DOMAIN negated = DOMAIN lits
        /\ \A i \in DOMAIN lits : negated[i] = -lits[i]
    BY <1>1, <1>2 DEF Negated
  <1> HIDE DEF negated
  <1>4. Negated(negated) = lits
    <2>1. \A i \in DOMAIN lits : -negated[i] = lits[i]
      BY <1>1, <1>2, <1>3
    <2> QED
      BY <1>3, <2>1 DEF Negated
  <1>5. OrClauses(lits, lit) = AndClauses(negated, -lit)
    BY <1>2, <1>3, <1>4 DEF OrClauses, AndClauses
  <1>6. SatisfiesClauses(truths, AndClauses(negated, -lit)) <=>
            (True(-lit) <=> \A i \in DOMAIN negated : True(negated[i]))
    BY <1>2, <1>3, AndIsEquivalent
  <1>7. \A l \in Literal(n) : True(l) \in BOOLEAN /\ True(-l) = ~True(l)
    BY NegatedLiteral
  <1>8. \A i \in DOMAIN negated : True(negated[i]) = ~True(lits[i])
    BY <1>1, <1>3, <1>7
  <1> HIDE DEF True
  <1>9. (True(-lit) <=> \A i \in DOMAIN negated : True(negated[i])) <=>
            (True(lit) <=> \E i \in DOMAIN lits : True(lits[i]))
    BY <1>1, <1>3, <1>7, <1>8
  <1> QED
    BY <1>5, <1>6, <1>9, Zenon DEF True

(* A clause of three literals holds when one of them does.                 *)
LEMMA HoldsOfThree ==
    ASSUME NEW truths, NEW a, NEW b, NEW c
    PROVE  Holds(truths, <<a, b, c>>) <=>
               LitTrue(truths, a) \/ LitTrue(truths, b) \/ LitTrue(truths, c)
  BY DEF Holds

(* Four clauses hold when each of them does.                               *)
LEMMA SatisfiesFour ==
    ASSUME NEW truths, NEW c1, NEW c2, NEW c3, NEW c4
    PROVE  SatisfiesClauses(truths, <<c1, c2, c3, c4>>) <=>
               Holds(truths, c1) /\ Holds(truths, c2) /\ Holds(truths, c3) /\ Holds(truths, c4)
  <1> DEFINE cs == <<c1, c2, c3, c4>>
  <1>1. DOMAIN cs = {1, 2, 3, 4} /\ cs[1] = c1 /\ cs[2] = c2 /\ cs[3] = c3 /\ cs[4] = c4
    OBVIOUS
  <1> HIDE DEF cs
  <1>2. SatisfiesClauses(truths, cs) <=> \A i \in {1, 2, 3, 4} : Holds(truths, cs[i])
    BY <1>1, Zenon DEF SatisfiesClauses, Holds
  <1> QED
    BY <1>1, <1>2, Zenon DEF cs

(* The clauses of an equivalence give its literal the value of the whole.  *)
THEOREM IffIsEquivalent ==
    ASSUME NEW n \in Nat, NEW truths \in [1..n -> BOOLEAN],
           NEW a \in Literal(n), NEW b \in Literal(n), NEW lit \in Literal(n)
    PROVE  SatisfiesClauses(truths, IffClauses(a, b, lit)) <=>
               (LitTrue(truths, lit) <=> (LitTrue(truths, a) <=> LitTrue(truths, b)))
  <1>1. \A l \in {a, b, lit} :
            LitTrue(truths, l) \in BOOLEAN /\ LitTrue(truths, -l) = ~LitTrue(truths, l)
    BY NegatedLiteral
  <1> QED
    BY <1>1, HoldsOfThree, SatisfiesFour DEF IffClauses

(* The clauses of an if-then-else give its literal the value of the branch.*)
THEOREM IteIsEquivalent ==
    ASSUME NEW n \in Nat, NEW truths \in [1..n -> BOOLEAN], NEW lit \in Literal(n),
           NEW c \in Literal(n), NEW t \in Literal(n), NEW e \in Literal(n)
    PROVE  SatisfiesClauses(truths, IteClauses(c, t, e, lit)) <=>
               (LitTrue(truths, lit) <=>
                    IF LitTrue(truths, c) THEN LitTrue(truths, t) ELSE LitTrue(truths, e))
  <1> DEFINE True(l) == LitTrue(truths, l)
  <1>1. \A l \in {c, t, e, lit} : True(l) \in BOOLEAN /\ True(-l) = ~True(l)
    BY NegatedLiteral
  <1>2. SatisfiesClauses(truths, IteClauses(c, t, e, lit)) <=>
            /\ True(-c) \/ True(-t) \/ True(lit)
            /\ True(-c) \/ True(t) \/ True(-lit)
            /\ True(c) \/ True(-e) \/ True(lit)
            /\ True(c) \/ True(e) \/ True(-lit)
    BY HoldsOfThree, SatisfiesFour, Zenon DEF IteClauses
  <1> HIDE DEF True
  <1>3. SatisfiesClauses(truths, IteClauses(c, t, e, lit)) <=>
            (True(lit) <=> IF True(c) THEN True(t) ELSE True(e))
    <2>1. CASE True(c)
      BY <1>1, <1>2, <2>1
    <2>2. CASE ~True(c)
      BY <1>1, <1>2, <2>2
    <2> QED
      BY <2>1, <2>2
  <1> QED
    BY <1>3, Zenon DEF True

-----------------------------------------------------------------------------
(* A problem as the program builds it: the store reads back what was       *)
(* pushed, and the atoms are a table.                                      *)
Clause == Seq(Int)

ProblemForm(E) ==
    [clauses : [literals : Seq(Int), endOffsets : Seq(Nat)],
     atoms : Seq(AtomForm), trueLit : Nat, aborted : BOOLEAN,
     means : Seq(E), added : Seq(Clause)]

IsProblem(p, E) ==
    /\ p \in ProblemForm(E)
    /\ IsStore(p.clauses, Int) /\ Clauses(p.clauses) = p.added
    /\ IsAtomTable(p) /\ Len(p.means) = VarCount(p) /\ p.trueLit <= VarCount(p)

(* A clause is appended to those read back, or ends the program.           *)
THEOREM AddClauseKeepsProblem ==
    ASSUME NEW E, NEW p, IsProblem(p, E), NEW clause \in Clause
    PROVE  IsProblem(AddClause(p, clause), E)
  <1>1. CASE p.aborted \/ ~Fits(p.clauses, clause)
    BY <1>1 DEF IsProblem, ProblemForm, AddClause, IsAtomTable, VarCount
  <1>2. CASE ~p.aborted /\ Fits(p.clauses, clause)
    <2> DEFINE q == [p EXCEPT !.clauses = Pushed(@, clause), !.added = Append(@, clause)]
    <2>1. AddClause(p, clause) = q
      BY <1>2 DEF AddClause
    <2>2. /\ IsStore(Pushed(p.clauses, clause), Int)
          /\ Clauses(Pushed(p.clauses, clause)) = Append(p.added, clause)
      BY <1>2, PushAppends DEF IsProblem, ProblemForm, Clause
    <2>3. Pushed(p.clauses, clause) \in [literals : Seq(Int), endOffsets : Seq(Nat)]
      BY <2>2 DEF Pushed, IsStore
    <2>4. Append(p.added, clause) \in Seq(Clause)
      BY DEF IsProblem, ProblemForm
    <2>5. /\ q.clauses = Pushed(p.clauses, clause) /\ q.added = Append(p.added, clause)
          /\ q.atoms = p.atoms /\ q.means = p.means /\ q.trueLit = p.trueLit
          /\ q.aborted = p.aborted
          /\ q \in ProblemForm(E)
      BY <2>3, <2>4 DEF IsProblem, ProblemForm
    <2> HIDE DEF q
    <2>6. IsProblem(q, E)
      BY <2>2, <2>5 DEF IsProblem, ProblemForm, IsAtomTable, VarCount
    <2> QED
      BY <2>1, <2>6
  <1> QED
    BY <1>1, <1>2

(* A new variable for an atom that has none, or for no atom.               *)
LEMMA NewVarKeepsProblem ==
    ASSUME NEW E, NEW p, IsProblem(p, E), NEW meaning \in E,
           NEW atom \in AtomForm, atom = Normalized(atom), atom = NoAtom \/ ~HasAtom(p, atom)
    PROVE  /\ IsProblem(NewVar(p, atom, meaning), E)
           /\ VarCount(NewVar(p, atom, meaning)) = VarCount(p) + 1
           /\ NewVar(p, atom, meaning).atoms = Append(p.atoms, atom)
  <1> DEFINE q == NewVar(p, atom, meaning)
             n == VarCount(p)
  <1>1. /\ q.clauses = p.clauses /\ q.added = p.added
        /\ q.atoms = Append(p.atoms, atom) /\ q.means = Append(p.means, meaning)
        /\ q.trueLit = p.trueLit /\ q.aborted = p.aborted
        /\ q \in ProblemForm(E)
    <2>1. Append(p.atoms, atom) \in Seq(AtomForm) /\ Append(p.means, meaning) \in Seq(E)
      <3>1. p.atoms \in Seq(AtomForm) /\ p.means \in Seq(E)
        BY DEF IsProblem, ProblemForm
      <3> QED
        BY <3>1, AppendProperties
    <2> QED
      BY <2>1 DEF IsProblem, ProblemForm, NewVar
  <1>2. /\ n \in Nat /\ VarCount(q) = n + 1 /\ Len(q.means) = n + 1
        /\ q.atoms[n + 1] = atom /\ \A v \in 1..n : q.atoms[v] = p.atoms[v]
    BY <1>1 DEF IsProblem, ProblemForm, VarCount
  <1> HIDE DEF q, n
  <1>3. \A v \in 1..(n + 1) : v = n + 1 \/ v \in 1..n
    BY <1>2
  <1>4. \A v \in 1..n : atom = NoAtom \/ p.atoms[v] # atom
    BY DEF HasAtom, n
  <1>5. \A v, w \in 1..n :
            /\ p.atoms[v] = Normalized(p.atoms[v])
            /\ v # w => p.atoms[v] = NoAtom \/ p.atoms[v] # p.atoms[w]
    BY DEF IsProblem, ProblemForm, IsAtomTable, n
  <1>6. \A v, w \in 1..(n + 1) :
            /\ q.atoms[v] = Normalized(q.atoms[v])
            /\ v # w => q.atoms[v] = NoAtom \/ q.atoms[v] # q.atoms[w]
    <2> SUFFICES ASSUME NEW v \in 1..(n + 1), NEW w \in 1..(n + 1)
                 PROVE  /\ q.atoms[v] = Normalized(q.atoms[v])
                        /\ v # w => q.atoms[v] = NoAtom \/ q.atoms[v] # q.atoms[w]
      BY Zenon
    <2>1. q.atoms[v] = Normalized(q.atoms[v])
      BY <1>2, <1>3, <1>5
    <2>2. ASSUME v # w PROVE q.atoms[v] = NoAtom \/ q.atoms[v] # q.atoms[w]
      BY <1>2, <1>3, <1>4, <1>5, <2>2
    <2> QED
      BY <2>1, <2>2
  <1>7. IsAtomTable(q)
    <2>1. q.atoms \in Seq(AtomForm)
      BY <1>1 DEF ProblemForm
    <2> QED
      BY <1>2, <1>6, <2>1, Zenon DEF IsAtomTable
  <1>8. IsProblem(q, E)
    BY <1>1, <1>2, <1>7 DEF IsProblem, ProblemForm, n
  <1> QED
    BY <1>1, <1>2, <1>8 DEF q, n

(* The lesser term comes first, and normalizing twice changes nothing.     *)
LEMMA NormalizedForm ==
    ASSUME NEW atom \in AtomForm
    PROVE  Normalized(atom) \in AtomForm /\ Normalized(Normalized(atom)) = Normalized(atom)
  <1>1. Term \subseteq Nat
    BY FormulaAssumption DEF Term
  <1>2. atom.left \in Nat /\ atom.right \in Nat /\ atom.left \in Term /\ atom.right \in Term
    BY <1>1 DEF AtomForm
  <1> DEFINE l == Pair(atom.left, atom.right)[1]
             r == Pair(atom.left, atom.right)[2]
             key == [atom EXCEPT !.left = l, !.right = r]
  <1>3. Normalized(atom) = key
    BY Zenon DEF Normalized
  <1>4. l \in Nat /\ r \in Nat /\ l \in Term /\ r \in Term /\ l <= r
    BY <1>2 DEF Pair
  <1> HIDE DEF l, r
  <1>5. key \in AtomForm /\ key.left = l /\ key.right = r
    BY <1>4 DEF AtomForm
  <1> HIDE DEF key
  <1>6. Pair(key.left, key.right) = <<key.left, key.right>>
    BY <1>4, <1>5 DEF Pair
  <1>7. [key EXCEPT !.left = key.left, !.right = key.right] = key
    BY <1>5 DEF AtomForm
  <1>8. Normalized(key) = key
    <2>1. /\ Pair(key.left, key.right)[1] = key.left
          /\ Pair(key.left, key.right)[2] = key.right
      BY <1>6
    <2> QED
      BY <1>7, <2>1, Zenon DEF Normalized
  <1> QED
    BY <1>3, <1>5, <1>8, Zenon

(* An atom has one variable, which it keeps, under either orientation.     *)
THEOREM AtomLitKeepsProblem ==
    ASSUME NEW E, NEW p, IsProblem(p, E), NEW atom \in AtomForm, atom.kind # "None",
           AtomExpr(Normalized(atom)) \in E
    PROVE  LET r == AtomLit(p, atom)
           IN  /\ IsProblem(r.p, E)
               /\ r.lit \in 1..VarCount(r.p) /\ r.p.atoms[r.lit] = Normalized(atom)
               /\ r.p.added = p.added
               /\ \A v \in 1..VarCount(p) :
                      v \in 1..VarCount(r.p) /\ r.p.atoms[v] = p.atoms[v]
  <1> DEFINE key == Normalized(atom)
  <1>1. key \in AtomForm /\ Normalized(key) = key
    BY NormalizedForm
  <1> HIDE DEF key
  <1>2. CASE HasAtom(p, key)
    <2>1. AtomLit(p, atom) = [p |-> p, lit |-> VarOfAtom(p, key)]
      BY <1>2 DEF AtomLit, key
    <2>2. VarOfAtom(p, key) \in 1..VarCount(p) /\ p.atoms[VarOfAtom(p, key)] = key
      BY <1>2, Zenon DEF HasAtom, VarOfAtom
    <2> QED
      BY <2>1, <2>2 DEF key
  <1>3. CASE ~HasAtom(p, key)
    <2> DEFINE q == NewVar(p, key, AtomExpr(key))
    <2>1. AtomLit(p, atom) = [p |-> q, lit |-> VarCount(p) + 1]
      BY <1>3 DEF AtomLit, key
    <2>2. AtomExpr(key) \in E
      BY DEF key
    <2>3. IsProblem(q, E) /\ VarCount(q) = VarCount(p) + 1 /\ q.atoms = Append(p.atoms, key)
      BY <1>1, <1>3, <2>2, NewVarKeepsProblem
    <2>4. q.added = p.added
      BY DEF NewVar, IsProblem
    <2>5. p.atoms \in Seq(AtomForm) /\ VarCount(p) = Len(p.atoms) /\ VarCount(p) \in Nat
      BY LenProperties DEF IsProblem, ProblemForm, IsAtomTable, VarCount
    <2> HIDE DEF q
    <2>6. /\ VarCount(p) + 1 \in 1..VarCount(q) /\ q.atoms[VarCount(p) + 1] = key
          /\ \A v \in 1..VarCount(p) : v \in 1..VarCount(q) /\ q.atoms[v] = p.atoms[v]
      BY <1>1, <2>3, <2>5
    <2> DEFINE r == AtomLit(p, atom)
    <2>7. r.p = q /\ r.lit = VarCount(p) + 1
      BY <2>1
    <2> HIDE DEF r
    <2>8. /\ IsProblem(r.p, E)
          /\ r.lit \in 1..VarCount(r.p) /\ r.p.atoms[r.lit] = key
          /\ r.p.added = p.added
          /\ \A v \in 1..VarCount(p) :
                 v \in 1..VarCount(r.p) /\ r.p.atoms[v] = p.atoms[v]
      BY <2>3, <2>4, <2>6, <2>7, Zenon
    <2> QED
      BY <2>8, Zenon DEF key, r
  <1> QED
    BY <1>2, <1>3

(* The constants share one variable, which a unit clause forces.           *)
LEMMA LiteralConstKeepsProblem ==
    ASSUME NEW E, NEW p, IsProblem(p, E), Const(TRUE) \in E, NEW value \in BOOLEAN
    PROVE  IsProblem(LiteralConst(p, value).p, E)
  <1>1. CASE p.trueLit # 0
    BY <1>1 DEF LiteralConst
  <1>2. CASE p.trueLit = 0
    <2> DEFINE n == VarCount(p)
               q == NewVar(p, NoAtom, Const(TRUE))
               r == [q EXCEPT !.trueLit = n + 1]
    <2>1. NoAtom \in AtomForm
      BY FormulaAssumption DEF NoAtom, AtomForm, Term
    <2>2. Normalized(NoAtom) = NoAtom
      <3>1. /\ Pair(NoAtom.left, NoAtom.right)[1] = NoAtom.left
            /\ Pair(NoAtom.left, NoAtom.right)[2] = NoAtom.right
        BY DEF Pair, NoAtom
      <3>2. [NoAtom EXCEPT !.left = NoAtom.left, !.right = NoAtom.right] = NoAtom
        BY <2>1 DEF AtomForm
      <3> QED
        BY <3>1, <3>2, Zenon DEF Normalized
    <2>3. IsProblem(q, E) /\ VarCount(q) = n + 1
      BY <2>1, <2>2, NewVarKeepsProblem
    <2>4. n \in Nat
      BY LenProperties DEF IsProblem, ProblemForm, VarCount
    <2> HIDE DEF n, q
    <2>5. IsProblem(r, E)
      <3>1. /\ r.clauses = q.clauses /\ r.added = q.added /\ r.atoms = q.atoms
            /\ r.means = q.means /\ r.aborted = q.aborted /\ r.trueLit = n + 1
            /\ r \in ProblemForm(E)
        <4>1. q \in ProblemForm(E) /\ n + 1 \in Nat
          BY <2>3, <2>4 DEF IsProblem
        <4> QED
          BY <4>1 DEF ProblemForm
      <3> HIDE DEF r
      <3>2. VarCount(r) = VarCount(q) /\ r.trueLit <= VarCount(r)
        BY <2>3, <2>4, <3>1 DEF VarCount
      <3>3. IsAtomTable(r)
        BY <2>3, <3>1, <3>2 DEF IsProblem, ProblemForm, IsAtomTable
      <3> QED
        BY <2>3, <3>1, <3>2, <3>3 DEF IsProblem, ProblemForm
    <2>6. <<n + 1>> \in Clause
      BY <2>4 DEF Clause
    <2> HIDE DEF r
    <2>7. IsProblem(AddClause(r, <<n + 1>>), E)
      BY <2>5, <2>6, AddClauseKeepsProblem
    <2>8. LiteralConst(p, value).p = AddClause(r, <<n + 1>>)
      BY <1>2 DEF LiteralConst, r, q, n
    <2> QED
      BY <2>7, <2>8
  <1> QED
    BY <1>1, <1>2

(* The problem without variables and clauses.                              *)
LEMMA EmptyIsProblem ==
    ASSUME NEW E PROVE IsProblem(EmptyProblem, E)
  BY EmptyIsStore DEF IsProblem, ProblemForm, EmptyProblem, EmptyStore, IsAtomTable, VarCount

-----------------------------------------------------------------------------
(* The terms of a class have one value in V.                               *)
Shares(V, classes) == \A class \in classes : \A s, t \in class : V[s] = V[t]

(* An abstract value is right of V.                                        *)
IsRight(V, value) == value.feasible /\ Shares(V, value.classes)

(* A partition of terms of T, singletons left out.                         *)
IsPartition(classes, T) ==
    /\ classes \subseteq SUBSET T
    /\ \A a \in classes : Cardinality(a) >= 2
    /\ \A a, b \in classes : a # b => a \cap b = {}

AbstractValue(T) == {value \in [feasible : BOOLEAN, classes : SUBSET SUBSET T] :
                        IsPartition(value.classes, T)}

(* What is equal in every closure of classes that share their values       *)
(* shares its value.                                                       *)
LEMMA MergedShares ==
    ASSUME NEW V, NEW classes, Shares(V, classes)
    PROVE  Shares(V, Merged(classes))
<1> SUFFICES ASSUME NEW t \in UNION classes, NEW u \in ClosureOf(classes, t)
             PROVE  V[u] = V[t]
    BY DEF Shares, Merged
<1> DEFINE C == {w \in UNION classes : V[w] = V[t]}
<1>1. t \in C /\ C \in SUBSET UNION classes OBVIOUS
<1>2. IsClosed(C, classes)
  <2> SUFFICES ASSUME NEW class \in classes, NEW x \in class, x \in C PROVE class \subseteq C
      BY DEF IsClosed
  <2> QED BY DEF Shares
<1>3. u \in C BY <1>1, <1>2 DEF ClosureOf
<1> QED BY <1>3

(* A closed set and its complement are told apart by the same classes: the *)
(* closures of two terms are the same or disjoint.                         *)
LEMMA ClosureFacts ==
    ASSUME NEW classes, NEW t \in UNION classes
    PROVE  /\ t \in ClosureOf(classes, t)
           /\ IsClosed(ClosureOf(classes, t), classes)
           /\ \A u \in ClosureOf(classes, t) : ClosureOf(classes, u) = ClosureOf(classes, t)
<1> DEFINE U == UNION classes
           Within(C, x) == C \in SUBSET U /\ x \in C /\ IsClosed(C, classes)
<1>1. \A x \in U : \A u : u \in ClosureOf(classes, x) <=>
                          u \in U /\ \A C : Within(C, x) => u \in C
      BY DEF ClosureOf
<1>2. \A C : IsClosed(C, classes) => IsClosed(U \ C, classes) BY DEF IsClosed
<1>3. \A x, u \in U : u \in ClosureOf(classes, x) => x \in ClosureOf(classes, u)
  <2> SUFFICES ASSUME NEW x \in U, NEW u \in ClosureOf(classes, x),
                      NEW C, Within(C, u), x \notin C
               PROVE  FALSE
      BY <1>1
  <2>1. Within(U \ C, x) BY <1>2
  <2>2. u \in U \ C BY <1>1, <2>1
  <2> QED BY <2>2
<1>4. \A x, u, w \in U : u \in ClosureOf(classes, x) /\ w \in ClosureOf(classes, u)
                             => w \in ClosureOf(classes, x)
      BY <1>1
<1>5. t \in ClosureOf(classes, t) BY <1>1
<1>6. ClosureOf(classes, t) \subseteq U BY DEF ClosureOf
<1>7. IsClosed(ClosureOf(classes, t), classes)
  <2> SUFFICES ASSUME NEW class \in classes, NEW x \in class, x \in ClosureOf(classes, t),
                      NEW y \in class
               PROVE  y \in ClosureOf(classes, t)
      BY DEF IsClosed
  <2>1. y \in U OBVIOUS
  <2>2. ASSUME NEW C, Within(C, t) PROVE y \in C
    <3>1. x \in C BY <1>1, <2>2
    <3> QED BY <2>2, <3>1 DEF IsClosed
  <2> QED BY <1>1, <2>1, <2>2
<1>8. ASSUME NEW u \in ClosureOf(classes, t)
      PROVE  ClosureOf(classes, u) = ClosureOf(classes, t)
  <2>1. u \in U /\ t \in ClosureOf(classes, u) BY <1>3, <1>6
  <2>2. \A w \in U : w \in ClosureOf(classes, u) <=> w \in ClosureOf(classes, t)
        BY <1>4, <2>1
  <2>3. ClosureOf(classes, u) \subseteq U BY DEF ClosureOf
  <2> QED BY <1>6, <2>2, <2>3
<1> QED BY <1>5, <1>7, <1>8

(* The merged classes of terms are a partition.                            *)
LEMMA MergedIsPartition ==
    ASSUME NEW T, IsFiniteSet(T), NEW classes \in SUBSET SUBSET T,
           \A a \in classes : Cardinality(a) >= 2
    PROVE  IsPartition(Merged(classes), T)
<1>1. ASSUME NEW t \in UNION classes
      PROVE  ClosureOf(classes, t) \subseteq T /\ Cardinality(ClosureOf(classes, t)) >= 2
  <2>1. ClosureOf(classes, t) \subseteq T BY DEF ClosureOf
  <2>2. PICK class \in classes : t \in class OBVIOUS
  <2>3. class \subseteq ClosureOf(classes, t) BY <2>2, ClosureFacts DEF IsClosed
  <2>4. IsFiniteSet(ClosureOf(classes, t)) BY <2>1, FS_Subset
  <2>5. Cardinality(class) <= Cardinality(ClosureOf(classes, t)) BY <2>3, <2>4, FS_Subset
  <2>6. Cardinality(ClosureOf(classes, t)) \in Nat /\ Cardinality(class) \in Nat
        BY <2>3, <2>4, FS_Subset, FS_CardinalityType
  <2> QED BY <2>1, <2>5, <2>6
<1>2. ASSUME NEW t \in UNION classes, NEW u \in UNION classes,
             NEW x \in ClosureOf(classes, t) \cap ClosureOf(classes, u)
      PROVE  ClosureOf(classes, t) = ClosureOf(classes, u)
      BY ClosureFacts
<1> QED BY <1>1, <1>2 DEF Merged, IsPartition

(* What is together in all partitions is so in one that is shared.         *)
LEMMA JoinedShares ==
    ASSUME NEW V, NEW partitions, NEW classes \in partitions, Shares(V, classes)
    PROVE  Shares(V, Joined(partitions))
<1> SUFFICES ASSUME NEW t, NEW u \in TogetherWith(partitions, t) PROVE V[u] = V[t]
    BY DEF Shares, Joined
<1> QED BY DEF TogetherWith, Shares

(* The joined classes of partitions are a partition.                       *)
LEMMA JoinedIsPartition ==
    ASSUME NEW T, NEW partitions, partitions # {},
           \A classes \in partitions : IsPartition(classes, T)
    PROVE  IsPartition(Joined(partitions), T)
<1> DEFINE Group(t) == TogetherWith(partitions, t)
<1>1. \A t : Group(t) \subseteq T BY DEF TogetherWith, IsPartition
<1>2. ASSUME NEW t, NEW u \in Group(t) PROVE Group(u) = Group(t)
  <2>1. \A classes \in partitions : \E class \in classes : {t, u} \subseteq class
        BY DEF TogetherWith
  <2>2. ASSUME NEW w, NEW classes \in partitions
        PROVE  (\E class \in classes : {t, w} \subseteq class)
                   <=> (\E class \in classes : {u, w} \subseteq class)
    <3>1. PICK class \in classes : {t, u} \subseteq class BY <2>1
    <3>2. \A b \in classes : t \in b \/ u \in b => b = class BY <3>1 DEF IsPartition
    <3> QED BY <3>1, <3>2
  <2> QED BY <2>2 DEF TogetherWith
<1>3. ASSUME NEW t, NEW u, NEW x \in Group(t) \cap Group(u) PROVE Group(t) = Group(u)
      BY <1>2
<1> QED BY <1>1, <1>3 DEF Joined, IsPartition

(* What all conjuncts say holds of V if each of them does.                 *)
LEMMA AndFacts ==
    ASSUME NEW V, NEW list, \A i \in DOMAIN list : IsRight(V, list[i])
    PROVE  IsRight(V, AbstractAnd(list))
<1> DEFINE classes == UNION {list[i].classes : i \in DOMAIN list}
<1>1. Shares(V, classes) BY DEF IsRight, Shares
<1>2. Shares(V, Merged(classes)) BY <1>1, MergedShares
<1>3. AbstractAnd(list) = Feasible(Merged(classes)) BY DEF AbstractAnd, IsRight, Meet
<1> QED BY <1>2, <1>3 DEF IsRight, Feasible

(* What one of the alternatives says holds as far as all of them say it.   *)
LEMMA OrFacts ==
    ASSUME NEW V, NEW list, NEW i \in DOMAIN list, IsRight(V, list[i])
    PROVE  IsRight(V, AbstractOr(list))
<1>1. list[i].classes \in Alternatives(list) BY DEF Alternatives, IsRight
<1>2. Shares(V, Joined(Alternatives(list))) BY <1>1, JoinedShares DEF IsRight
<1>3. AbstractOr(list) = Feasible(Joined(Alternatives(list))) BY <1>1 DEF AbstractOr
<1> QED BY <1>2, <1>3 DEF IsRight, Feasible

(* A conjunction of abstract values is one.                                *)
LEMMA AndIsValue ==
    ASSUME NEW T, IsFiniteSet(T), NEW list, \A i \in DOMAIN list : list[i] \in AbstractValue(T)
    PROVE  AbstractAnd(list) \in AbstractValue(T)
<1> DEFINE classes == UNION {list[i].classes : i \in DOMAIN list}
<1>1. classes \in SUBSET SUBSET T /\ \A a \in classes : Cardinality(a) >= 2
      BY DEF AbstractValue, IsPartition
<1> HIDE DEF classes
<1>2. IsPartition(Merged(classes), T) BY <1>1, MergedIsPartition
<1>3. Feasible(Merged(classes)) \in AbstractValue(T)
      BY <1>2 DEF AbstractValue, IsPartition, Feasible
<1>4. Infeasible \in AbstractValue(T) BY DEF AbstractValue, IsPartition, Infeasible
<1> QED BY <1>3, <1>4 DEF AbstractAnd, Meet, classes

(* A disjunction of abstract values is one.                                *)
LEMMA OrIsValue ==
    ASSUME NEW T, NEW list, \A i \in DOMAIN list : list[i] \in AbstractValue(T)
    PROVE  AbstractOr(list) \in AbstractValue(T)
<1>1. \A classes \in Alternatives(list) : IsPartition(classes, T)
      BY DEF Alternatives, AbstractValue
<1>2. CASE Alternatives(list) = {}
  <2>1. Infeasible \in AbstractValue(T) BY DEF AbstractValue, IsPartition, Infeasible
  <2> QED BY <1>2, <2>1 DEF AbstractOr
<1>3. CASE Alternatives(list) # {}
  <2>1. IsPartition(Joined(Alternatives(list)), T) BY <1>1, <1>3, JoinedIsPartition
  <2>2. Feasible(Joined(Alternatives(list))) \in AbstractValue(T)
        BY <2>1 DEF AbstractValue, IsPartition, Feasible
  <2> QED BY <1>3, <2>2 DEF AbstractOr
<1> QED BY <1>2, <1>3

(* The values that say nothing and that nothing is possible.               *)
LEMMA ConstantFacts ==
    ASSUME NEW T
    PROVE  /\ Empty \in AbstractValue(T) /\ Infeasible \in AbstractValue(T)
           /\ \A V : IsRight(V, Empty)
BY DEF AbstractValue, IsPartition, Infeasible, Empty, Feasible, IsRight, Shares

(* A pair of conditions of which V makes the first or the second right.    *)
LEMMA EitherFacts ==
    ASSUME NEW V, NEW a, NEW b, IsRight(V, a) \/ IsRight(V, b)
    PROVE  IsRight(V, AbstractOr(<<a, b>>))
<1> DEFINE list == <<a, b>>
<1>1. DOMAIN list = {1, 2} /\ list[1] = a /\ list[2] = b OBVIOUS
<1> HIDE DEF list
<1>2. IsRight(V, list[1]) \/ IsRight(V, list[2]) BY <1>1
<1>3. IsRight(V, AbstractOr(list)) BY <1>1, <1>2, OrFacts
<1> QED BY <1>3 DEF list

(* Two conditions that V makes right.                                      *)
LEMMA BothFacts ==
    ASSUME NEW V, NEW a, NEW b, IsRight(V, a), IsRight(V, b)
    PROVE  IsRight(V, AbstractAnd(<<a, b>>))
<1> DEFINE list == <<a, b>>
<1>1. DOMAIN list = {1, 2} /\ list[1] = a /\ list[2] = b OBVIOUS
<1> HIDE DEF list
<1>2. \A i \in DOMAIN list : IsRight(V, list[i]) BY <1>1
<1>3. IsRight(V, AbstractAnd(list)) BY <1>2, AndFacts
<1> QED BY <1>3 DEF list

(* The conjunction and the disjunction of two abstract values are such.    *)
LEMMA PairIsValue ==
    ASSUME NEW T, IsFiniteSet(T), NEW a \in AbstractValue(T), NEW b \in AbstractValue(T)
    PROVE  /\ AbstractAnd(<<a, b>>) \in AbstractValue(T)
           /\ AbstractOr(<<a, b>>) \in AbstractValue(T)
<1> DEFINE list == <<a, b>>
<1>1. DOMAIN list = {1, 2} /\ list[1] = a /\ list[2] = b OBVIOUS
<1> HIDE DEF list
<1>2. \A i \in DOMAIN list : list[i] \in AbstractValue(T) BY <1>1
<1>3. AbstractAnd(list) \in AbstractValue(T) BY <1>2, AndIsValue
<1>4. AbstractOr(list) \in AbstractValue(T) BY <1>2, OrIsValue
<1> QED BY <1>3, <1>4 DEF list

-----------------------------------------------------------------------------
(* N is a set of nodes over the terms T with all their children.           *)
NodesOver(N, T) ==
    /\ T \in SUBSET Nat /\ IsFiniteSet(T)
    /\ \A node \in N :
          /\ node.op \in {"true", "false", "atom", "not", "and", "or", "iff", "ite"}
          /\ node.kids \in Seq(N)
          /\ node.op = "not" => Len(node.kids) = 1
          /\ node.op = "ite" => Len(node.kids) = 3
          /\ node.op = "atom" /\ node.atom.kind = "Eq" => {node.atom.left, node.atom.right} \subseteq T

(* truth is the value of the nodes if the terms have the values V and the  *)
(* Boolean atoms any value: that of Value in Formula, node by node.        *)
IsValuation(truth, V, N) ==
    /\ truth \in [N -> BOOLEAN]
    /\ \A node \in N :
          LET kids == node.kids
          IN  /\ node.op = "true" => truth[node]
              /\ node.op = "false" => ~truth[node]
              /\ node.op = "atom" /\ node.atom.kind = "Eq" =>
                     (truth[node] <=> V[node.atom.left] = V[node.atom.right])
              /\ node.op = "not" => (truth[node] <=> ~truth[kids[1]])
              /\ node.op = "and" => (truth[node] <=> \A i \in DOMAIN kids : truth[kids[i]])
              /\ node.op = "or" => (truth[node] <=> \E i \in DOMAIN kids : truth[kids[i]])
              /\ node.op = "iff" =>
                     (truth[node] <=> \A i, j \in DOMAIN kids : truth[kids[i]] = truth[kids[j]])
              /\ node.op = "ite" =>
                     (truth[node] <=> IF truth[kids[1]] THEN truth[kids[2]] ELSE truth[kids[3]])

(* The dependencies of a node, whatever their order.                       *)
DependsOn(node, polarity) ==
    LET deps == Dependencies(node, polarity) IN {deps[i] : i \in DOMAIN deps}

(* The dependencies are nodes and polarities, and what the value of each   *)
(* operator is computed from is among them.                                *)
LEMMA DependencyFacts ==
    ASSUME NEW N, NEW T, NodesOver(N, T), NEW node \in N, NEW polarity \in BOOLEAN
    PROVE  LET kids == node.kids
               D == DependsOn(node, polarity)
           IN  /\ Dependencies(node, polarity) \in Seq(N \X BOOLEAN)
               /\ node.op = "not" => <<kids[1], ~polarity>> \in D
               /\ node.op \in {"and", "or"} => \A i \in DOMAIN kids : <<kids[i], polarity>> \in D
               /\ node.op = "iff" =>
                     \A i \in 2..Len(kids) :
                         {<<kids[1], TRUE>>, <<kids[1], FALSE>>,
                          <<kids[i], polarity>>, <<kids[i], ~polarity>>} \subseteq D
               /\ node.op = "ite" =>
                     {<<kids[1], TRUE>>, <<kids[1], FALSE>>,
                      <<kids[2], polarity>>, <<kids[3], polarity>>} \subseteq D
<1> DEFINE kids == node.kids
           deps == Dependencies(node, polarity)
           n == Len(kids)
           other == ~polarity
<1>1. kids \in Seq(N) /\ n \in Nat /\ DOMAIN kids = 1..n BY DEF NodesOver
<1>2. \A i \in 1..n : kids[i] \in N BY <1>1
<1>0. other \in BOOLEAN OBVIOUS
<1> HIDE DEF kids, other
<1>3. CASE node.op \in {"true", "false", "atom"}
  <2>1. deps = <<>> BY <1>3 DEF Dependencies
  <2> QED BY <1>3, <2>1 DEF deps
<1>4. CASE node.op = "not"
  <2>1. deps = <<<<kids[1], other>>>> BY <1>4 DEF Dependencies, kids, other
  <2>2. n = 1 BY <1>4 DEF NodesOver, kids
  <2>3. kids[1] \in N BY <1>2, <2>2
  <2>4. deps \in Seq(N \X BOOLEAN) /\ DOMAIN deps = {1} /\ deps[1] = <<kids[1], other>>
        BY <1>0, <2>1, <2>3
  <2> HIDE DEF deps
  <2> QED BY <1>4, <2>4 DEF kids, other, deps, DependsOn
<1>5. CASE node.op \in {"and", "or"}
  <2>1. deps = [i \in 1..n |-> <<kids[i], polarity>>] BY <1>1, <1>5 DEF Dependencies, kids
  <2>2. deps \in Seq(N \X BOOLEAN) BY <1>1, <1>2, <2>1
  <2>3. \A i \in 1..n : deps[i] = <<kids[i], polarity>> /\ i \in DOMAIN deps BY <2>1
  <2> QED BY <1>1, <1>5, <2>2, <2>3 DEF kids, DependsOn
<1>6. CASE node.op = "iff"
  <2> DEFINE m == 4 * (n - 1)
             child(k) == kids[2 + (k - 1) \div 4]
             At(k) == <<<<kids[1], TRUE>>, <<kids[1], FALSE>>,
                        <<child(k), polarity>>, <<child(k), other>>>>[1 + ((k - 1) % 4)]
  <2>1. deps = [k \in 1..m |-> At(k)] BY <1>6 DEF Dependencies, IffDependencies, kids, other
  <2>2. ASSUME NEW k \in 1..m
        PROVE  /\ n >= 2 /\ 2 + (k - 1) \div 4 \in 2..n
               /\ (k - 1) % 4 \in 0..3
    <3>1. n >= 2 BY <1>1, <2>2
    <3>2. (k - 1) \div 4 >= 0 /\ (k - 1) \div 4 <= n - 2 /\ (k - 1) \div 4 \in Int BY <1>1, <2>2, <3>1
    <3>3. (k - 1) % 4 \in 0..3 BY <2>2
    <3> QED BY <1>1, <3>1, <3>2, <3>3
  <2>3. \A k \in 1..m : At(k) \in N \X BOOLEAN
    <3> SUFFICES ASSUME NEW k \in 1..m PROVE At(k) \in N \X BOOLEAN OBVIOUS
    <3>1. kids[1] \in N /\ child(k) \in N BY <1>2, <2>2
    <3> DEFINE r == (k - 1) % 4
               d1 == <<kids[1], TRUE>>
               d2 == <<kids[1], FALSE>>
               d3 == <<child(k), polarity>>
               d4 == <<child(k), other>>
    <3>2. r \in 0..3 BY <2>2
    <3>3. At(k) = <<d1, d2, d3, d4>>[1 + r] OBVIOUS
    <3> HIDE DEF child, r, At
    <3>4. d1 \in N \X BOOLEAN /\ d2 \in N \X BOOLEAN /\ d3 \in N \X BOOLEAN /\ d4 \in N \X BOOLEAN
          BY <1>0, <3>1
    <3> HIDE DEF d1, d2, d3, d4, r, At
    <3> QED BY <3>2, <3>3, <3>4
  <2>4. deps \in Seq(N \X BOOLEAN)
    <3>1. CASE m <= 0
      <4>1. 1..m = {} BY <1>1, <3>1
      <4> HIDE DEF m, At, deps
      <4>2. deps = <<>> BY <2>1, <4>1
      <4> QED BY <4>2
    <3>2. CASE m > 0
      <4>1. m \in Nat BY <1>1, <3>2
      <4> HIDE DEF m, At
      <4> QED BY <2>1, <2>3, <4>1
    <3> QED BY <1>1, <3>1, <3>2
  <2>5. ASSUME NEW i \in 2..n
        PROVE  {<<kids[1], TRUE>>, <<kids[1], FALSE>>, <<kids[i], polarity>>,
                <<kids[i], other>>} \subseteq {deps[k] : k \in DOMAIN deps}
    <3> DEFINE b == 4 * (i - 2)
    <3>1. /\ b + 1 \in 1..m /\ b + 2 \in 1..m /\ b + 3 \in 1..m /\ b + 4 \in 1..m
          /\ ((b + 1) - 1) % 4 = 0 /\ ((b + 2) - 1) % 4 = 1
          /\ ((b + 3) - 1) % 4 = 2 /\ ((b + 4) - 1) % 4 = 3
          /\ ((b + 3) - 1) \div 4 = i - 2 /\ ((b + 4) - 1) \div 4 = i - 2
          BY <1>1, <2>5
    <3>2. 2 + (i - 2) = i BY <2>5
    <3> HIDE DEF b
    <3> DEFINE x == <<kids[1], TRUE>>
               y == <<kids[1], FALSE>>
               Four(k) == <<x, y, <<child(k), polarity>>, <<child(k), other>>>>
    <3>3. \A k : Four(k)[1] = x /\ Four(k)[2] = y /\ Four(k)[3] = <<child(k), polarity>>
                 /\ Four(k)[4] = <<child(k), other>>
          OBVIOUS
    <3>4. ASSUME NEW k, NEW q, (k - 1) % 4 = q PROVE At(k) = Four(k)[1 + q]
          BY <3>4
    <3> HIDE DEF Four, At
    <3>5. /\ At(b + 1) = Four(b + 1)[1 + 0] /\ At(b + 2) = Four(b + 2)[1 + 1]
          /\ At(b + 3) = Four(b + 3)[1 + 2] /\ At(b + 4) = Four(b + 4)[1 + 3]
          BY <3>1, <3>4
    <3>6. child(b + 3) = kids[i] /\ child(b + 4) = kids[i] BY <3>1, <3>2
    <3> HIDE DEF m, x, y
    <3>0. 1 + 0 = 1 /\ 1 + 1 = 2 /\ 1 + 2 = 3 /\ 1 + 3 = 4 OBVIOUS
    <3>7. At(b + 1) = x /\ At(b + 2) = y BY <3>3, <3>5, <3>0
    <3>8. At(b + 3) = <<child(b + 3), polarity>> /\ At(b + 4) = <<child(b + 4), other>>
      <4> HIDE DEF child
      <4> QED BY <3>3, <3>5, <3>0
    <3>9. At(b + 3) = <<kids[i], polarity>> /\ At(b + 4) = <<kids[i], other>>
      <4> HIDE DEF child
      <4> QED BY <3>6, <3>8
    <3> HIDE DEF child
    <3>10. {x, y, <<kids[i], polarity>>, <<kids[i], other>>} \subseteq {deps[k] : k \in DOMAIN deps}
           BY <2>1, <3>1, <3>7, <3>9
    <3> QED BY <3>10 DEF x, y
  <2> HIDE DEF deps, m
  <2> QED BY <1>6, <2>4, <2>5 DEF kids, n, deps, other, DependsOn
<1>7. CASE node.op = "ite"
  <2>1. deps = <<<<kids[1], TRUE>>, <<kids[1], FALSE>>, <<kids[2], polarity>>, <<kids[3], polarity>>>>
        BY <1>7 DEF Dependencies, kids
  <2>2. n = 3 BY <1>7 DEF NodesOver, kids
  <2>3. kids[1] \in N /\ kids[2] \in N /\ kids[3] \in N BY <1>2, <2>2
  <2> DEFINE d1 == <<kids[1], TRUE>>
             d2 == <<kids[1], FALSE>>
             d3 == <<kids[2], polarity>>
             d4 == <<kids[3], polarity>>
  <2>4. d1 \in N \X BOOLEAN /\ d2 \in N \X BOOLEAN /\ d3 \in N \X BOOLEAN /\ d4 \in N \X BOOLEAN
        BY <2>3
  <2>5. deps = <<d1, d2, d3, d4>> BY <2>1
  <2> HIDE DEF deps, d1, d2, d3, d4
  <2>6. /\ deps \in Seq(N \X BOOLEAN) /\ DOMAIN deps = 1..4
        /\ deps[1] = d1 /\ deps[2] = d2 /\ deps[3] = d3 /\ deps[4] = d4
        BY <2>4, <2>5
  <2>7. {d1, d2, d3, d4} \subseteq {deps[i] : i \in DOMAIN deps} BY <2>6
  <2> QED BY <1>7, <2>6, <2>7 DEF kids, deps, d1, d2, d3, d4, DependsOn
<1> QED BY <1>3, <1>4, <1>5, <1>6, <1>7 DEF NodesOver

(* The value of an equivalence of two nodes is right of the values that    *)
(* the two nodes have.                                                     *)
LEMMA IffPairFacts ==
    ASSUME NEW V, NEW known, NEW first, NEW second, NEW one \in BOOLEAN, NEW two \in BOOLEAN,
           NEW polarity, polarity <=> (one = two), polarity \in BOOLEAN,
           IsRight(V, known[first, one]), IsRight(V, known[second, two]),
           first = second => one = two
    PROVE  IsRight(V, IffPair(known, first, second, polarity))
<1> DEFINE a == AbstractOr(<<known[first, FALSE], known[second, polarity]>>)
           b == AbstractOr(<<known[second, ~polarity], known[first, TRUE]>>)
<1>1. CASE first = second
  <2>1. polarity = TRUE BY <1>1
  <2>2. IffPair(known, first, second, polarity) = Empty BY <1>1, <2>1 DEF IffPair
  <2> QED BY <2>2, ConstantFacts
<1>2. CASE first # second
  <2>1. \/ one = TRUE /\ two = polarity
        \/ one = FALSE /\ two = ~polarity
      OBVIOUS
  <2>2. IsRight(V, a) /\ IsRight(V, b)
    <3>1. CASE one = TRUE /\ two = polarity
      <4>1. IsRight(V, known[first, TRUE]) /\ IsRight(V, known[second, polarity]) BY <3>1
      <4> QED BY <4>1, EitherFacts
    <3>2. CASE one = FALSE /\ two = ~polarity
      <4>1. IsRight(V, known[first, FALSE]) /\ IsRight(V, known[second, ~polarity]) BY <3>2
      <4> QED BY <4>1, EitherFacts
    <3> QED BY <2>1, <3>1, <3>2
  <2>3. IffPair(known, first, second, polarity) = AbstractAnd(<<a, b>>) BY <1>2 DEF IffPair
  <2> HIDE DEF a, b
  <2>4. IsRight(V, AbstractAnd(<<a, b>>)) BY <2>2, BothFacts
  <2> QED BY <2>3, <2>4
<1> QED BY <1>1, <1>2

(* The value computed for what a node is, is right if those it is computed *)
(* from are right where their nodes have the value they are computed for.  *)
LEMMA ComputedFacts ==
    ASSUME NEW N, NEW T, NodesOver(N, T), NEW V, NEW truth, IsValuation(truth, V, N),
           NEW known, NEW node \in N,
           \A d \in DependsOn(node, truth[node]) : truth[d[1]] = d[2] => IsRight(V, known[d])
    PROVE  IsRight(V, Computed(known, node, truth[node]))
<1> DEFINE kids == node.kids
           p == truth[node]
           other == ~p
           n == Len(kids)
           list == [i \in DOMAIN kids |-> known[kids[i], p]]
           D == DependsOn(node, p)
<1>1. kids \in Seq(N) /\ n \in Nat /\ DOMAIN kids = 1..n BY DEF NodesOver
<1>2. \A i \in 1..n : kids[i] \in N /\ truth[kids[i]] \in BOOLEAN BY <1>1 DEF IsValuation
<1>3. p \in BOOLEAN /\ other \in BOOLEAN BY DEF IsValuation
<1>4. \A m, q : <<m, q>> \in D /\ truth[m] = q => IsRight(V, known[m, q])
  <2> TAKE m, q
  <2> DEFINE d == <<m, q>>
  <2>1. d[1] = m /\ d[2] = q OBVIOUS
  <2> QED BY <2>1
<1>5. CASE node.op \in {"true", "false"}
  <2>1. p = (node.op = "true") BY <1>3, <1>5 DEF IsValuation
  <2>2. Computed(known, node, p) = Empty BY <1>5, <2>1 DEF Computed
  <2> QED BY <2>2, ConstantFacts
<1>6. CASE node.op = "atom"
  <2>1. Computed(known, node, p) = AbstractAtom(node.atom, p) BY <1>6 DEF Computed
  <2>2. CASE node.atom.kind # "Eq" \/ (p = FALSE /\ node.atom.left # node.atom.right)
    <3>1. AbstractAtom(node.atom, p) = Empty BY <2>2 DEF AbstractAtom
    <3> QED BY <2>1, <3>1, ConstantFacts
  <2>3. CASE node.atom.kind = "Eq" /\ node.atom.left = node.atom.right
    <3>1. p = TRUE BY <1>3, <1>6, <2>3 DEF IsValuation
    <3>2. AbstractAtom(node.atom, p) = Empty BY <2>3, <3>1 DEF AbstractAtom
    <3> QED BY <2>1, <3>2, ConstantFacts
  <2>4. CASE node.atom.kind = "Eq" /\ node.atom.left # node.atom.right /\ p = TRUE
    <3>1. V[node.atom.left] = V[node.atom.right] BY <1>6, <2>4 DEF IsValuation
    <3>2. AbstractAtom(node.atom, p) = Feasible({{node.atom.left, node.atom.right}})
          BY <2>4 DEF AbstractAtom
    <3>3. IsRight(V, Feasible({{node.atom.left, node.atom.right}}))
          BY <3>1 DEF IsRight, Feasible, Shares
    <3> QED BY <2>1, <3>2, <3>3
  <2> QED BY <1>3, <2>2, <2>3, <2>4
<1>7. CASE node.op = "not"
  <2>1. n = 1 BY <1>7 DEF NodesOver
  <2>2. truth[kids[1]] = other BY <1>2, <1>3, <1>7, <2>1 DEF IsValuation
  <2>3. <<kids[1], other>> \in D BY <1>3, <1>7, DependencyFacts
  <2>4. Computed(known, node, p) = known[kids[1], other] BY <1>7 DEF Computed
  <2> QED BY <1>4, <2>2, <2>3, <2>4
<1>8. CASE node.op \in {"and", "or"}
  <2>1. \A i \in 1..n : <<kids[i], p>> \in D BY <1>1, <1>3, <1>8, DependencyFacts
  <2>2. \A i \in 1..n : truth[kids[i]] = p => IsRight(V, list[i]) BY <1>1, <1>4, <2>1
  <2>3. DOMAIN list = 1..n BY <1>1
  <2>4. CASE (node.op = "and") = p
    <3>1. Computed(known, node, p) = AbstractAnd(list) BY <1>8, <2>4 DEF Computed
    <3>2. \A i \in 1..n : truth[kids[i]] = p BY <1>1, <1>2, <1>3, <1>8, <2>4 DEF IsValuation
    <3>3. \A i \in DOMAIN list : IsRight(V, list[i]) BY <2>2, <2>3, <3>2
    <3> HIDE DEF list
    <3>4. IsRight(V, AbstractAnd(list)) BY <3>3, AndFacts
    <3> QED BY <3>1, <3>4
  <2>5. CASE (node.op = "and") # p
    <3>1. Computed(known, node, p) = AbstractOr(list) BY <1>8, <2>5 DEF Computed
    <3>2. \E i \in 1..n : truth[kids[i]] = p BY <1>1, <1>2, <1>3, <1>8, <2>5 DEF IsValuation
    <3>3. \E i \in DOMAIN list : IsRight(V, list[i]) BY <2>2, <2>3, <3>2
    <3> HIDE DEF list
    <3>4. IsRight(V, AbstractOr(list)) BY <3>3, OrFacts
    <3> QED BY <3>1, <3>4
  <2> QED BY <2>4, <2>5
<1>9. CASE node.op = "iff"
  <2> DEFINE pairs == [i \in 1..(n - 1) |-> IffPair(known, kids[1], kids[i + 1], p)]
  <2>1. Computed(known, node, p) = AbstractIff(known, kids, p) BY <1>9 DEF Computed
  <2>2. \A i \in 2..n : {<<kids[1], TRUE>>, <<kids[1], FALSE>>,
                         <<kids[i], p>>, <<kids[i], other>>} \subseteq D
        BY <1>3, <1>9, DependencyFacts
  <2>3. \A i \in 2..n : IsRight(V, known[kids[1], truth[kids[1]]])
                        /\ IsRight(V, known[kids[i], truth[kids[i]]])
    <3> SUFFICES ASSUME NEW i \in 2..n
                 PROVE  IsRight(V, known[kids[1], truth[kids[1]]])
                        /\ IsRight(V, known[kids[i], truth[kids[i]]])
        OBVIOUS
    <3>0. 1 \in 1..n /\ i \in 1..n BY <1>1
    <3>1. truth[kids[1]] \in {TRUE, FALSE} /\ truth[kids[i]] \in {p, other}
      <4>1. truth[kids[1]] \in BOOLEAN /\ truth[kids[i]] \in BOOLEAN BY <1>2, <3>0
      <4>2. \A x, y \in BOOLEAN : x \in {y, ~y} OBVIOUS
      <4> QED BY <1>3, <4>1, <4>2
    <3>2. <<kids[1], truth[kids[1]]>> \in D /\ <<kids[i], truth[kids[i]]>> \in D BY <2>2, <3>1
    <3> QED BY <1>4, <3>2
  <2>4. p <=> \A i, j \in 1..n : truth[kids[i]] = truth[kids[j]] BY <1>1, <1>9 DEF IsValuation
  <2>5. ASSUME NEW i \in 1..(n - 1), p <=> (truth[kids[1]] = truth[kids[i + 1]])
        PROVE  IsRight(V, pairs[i])
    <3>1. i + 1 \in 2..n /\ 1 \in 1..n /\ i + 1 \in 1..n BY <1>1
    <3>2. IsRight(V, known[kids[1], truth[kids[1]]])
          /\ IsRight(V, known[kids[i + 1], truth[kids[i + 1]]])
          BY <2>3, <3>1
    <3>3. truth[kids[1]] \in BOOLEAN /\ truth[kids[i + 1]] \in BOOLEAN BY <1>2, <3>1
    <3>4. IsRight(V, IffPair(known, kids[1], kids[i + 1], p))
          BY <1>3, <2>5, <3>2, <3>3, IffPairFacts
    <3> QED BY <3>4
  <2>6. CASE n <= 1
    <3>1. p = TRUE BY <1>1, <1>3, <2>4, <2>6
    <3>2. AbstractIff(known, kids, p) = Empty BY <2>6, <3>1 DEF AbstractIff
    <3> QED BY <2>1, <3>2, ConstantFacts
  <2>7. CASE ~(n <= 1) /\ p = TRUE
    <3>1. AbstractIff(known, kids, p) = AbstractAnd(pairs) BY <2>7 DEF AbstractIff
    <3>2. \A i \in 1..(n - 1) : truth[kids[1]] = truth[kids[i + 1]] BY <1>1, <2>4, <2>7
    <3>3. \A i \in DOMAIN pairs : IsRight(V, pairs[i]) BY <2>5, <2>7, <3>2
    <3> HIDE DEF pairs
    <3>4. IsRight(V, AbstractAnd(pairs)) BY <3>3, AndFacts
    <3> QED BY <2>1, <3>1, <3>4
  <2>8. CASE ~(n <= 1) /\ p = FALSE
    <3>1. AbstractIff(known, kids, p) = AbstractOr(pairs) BY <2>8 DEF AbstractIff
    <3>2. PICK i \in 1..n : truth[kids[i]] # truth[kids[1]] BY <2>4, <2>8
    <3>3. i # 1 BY <3>2
    <3>4. i - 1 \in 1..(n - 1) /\ (i - 1) + 1 = i BY <1>1, <3>3
    <3>5. IsRight(V, pairs[i - 1]) BY <2>5, <2>8, <3>2, <3>4
    <3>6. i - 1 \in DOMAIN pairs BY <3>4
    <3> HIDE DEF pairs
    <3>7. IsRight(V, AbstractOr(pairs)) BY <3>5, <3>6, OrFacts
    <3> QED BY <2>1, <3>1, <3>7
  <2> QED BY <1>3, <2>6, <2>7, <2>8
<1>10. CASE node.op = "ite"
  <2> DEFINE a == AbstractOr(<<known[kids[1], FALSE], known[kids[2], p]>>)
             b == AbstractOr(<<known[kids[1], TRUE], known[kids[3], p]>>)
  <2>1. n = 3 BY <1>10 DEF NodesOver
  <2>2. {<<kids[1], TRUE>>, <<kids[1], FALSE>>, <<kids[2], p>>, <<kids[3], p>>} \subseteq D
        BY <1>3, <1>10, DependencyFacts
  <2>3. Computed(known, node, p) = AbstractAnd(<<a, b>>) BY <1>10 DEF Computed, AbstractIte
  <2>4. truth[kids[1]] \in BOOLEAN /\ truth[kids[2]] \in BOOLEAN /\ truth[kids[3]] \in BOOLEAN
        BY <1>2, <2>1
  <2>5. IsRight(V, a) /\ IsRight(V, b)
    <3>1. CASE truth[kids[1]] = TRUE
      <4>1. truth[kids[2]] = p BY <1>3, <1>10, <2>4, <3>1 DEF IsValuation
      <4>2. IsRight(V, known[kids[1], TRUE]) /\ IsRight(V, known[kids[2], p])
            BY <1>4, <2>2, <3>1, <4>1
      <4> QED BY <4>2, EitherFacts
    <3>2. CASE truth[kids[1]] = FALSE
      <4>1. truth[kids[3]] = p BY <1>3, <1>10, <2>4, <3>2 DEF IsValuation
      <4>2. IsRight(V, known[kids[1], FALSE]) /\ IsRight(V, known[kids[3], p])
            BY <1>4, <2>2, <3>2, <4>1
      <4> QED BY <4>2, EitherFacts
    <3> QED BY <2>4, <3>1, <3>2
  <2> QED BY <2>3, <2>5, BothFacts
<1> QED BY <1>5, <1>6, <1>7, <1>8, <1>9, <1>10 DEF NodesOver

(* What is computed is an abstract value if what it is computed from is.   *)
LEMMA IffPairIsValue ==
    ASSUME NEW T, IsFiniteSet(T), NEW known, NEW first, NEW second, NEW polarity \in BOOLEAN,
           known[first, TRUE] \in AbstractValue(T), known[first, FALSE] \in AbstractValue(T),
           known[second, polarity] \in AbstractValue(T), known[second, ~polarity] \in AbstractValue(T)
    PROVE  IffPair(known, first, second, polarity) \in AbstractValue(T)
<1> DEFINE a == AbstractOr(<<known[first, FALSE], known[second, polarity]>>)
           b == AbstractOr(<<known[second, ~polarity], known[first, TRUE]>>)
<1>1. CASE first = second BY <1>1, ConstantFacts DEF IffPair
<1>2. CASE first # second
  <2>1. a \in AbstractValue(T) /\ b \in AbstractValue(T) BY PairIsValue
  <2>2. IffPair(known, first, second, polarity) = AbstractAnd(<<a, b>>) BY <1>2 DEF IffPair
  <2> HIDE DEF a, b
  <2> QED BY <2>1, <2>2, PairIsValue
<1> QED BY <1>1, <1>2

(* The same of every operator.                                             *)
LEMMA ComputedIsValue ==
    ASSUME NEW N, NEW T, NodesOver(N, T), NEW known, NEW node \in N, NEW p \in BOOLEAN,
           \A d \in DependsOn(node, p) : known[d] \in AbstractValue(T)
    PROVE  Computed(known, node, p) \in AbstractValue(T)
<1> DEFINE kids == node.kids
           n == Len(kids)
           other == ~p
           list == [i \in DOMAIN kids |-> known[kids[i], p]]
<1>1. kids \in Seq(N) /\ n \in Nat /\ DOMAIN kids = 1..n BY DEF NodesOver
<1>2. IsFiniteSet(T) BY DEF NodesOver
<1>3. \A m, q : <<m, q>> \in DependsOn(node, p) => known[m, q] \in AbstractValue(T) OBVIOUS
<1>4. CASE node.op \in {"true", "false"} BY <1>4, ConstantFacts DEF Computed
<1>5. CASE node.op = "atom"
  <2>1. Computed(known, node, p) = AbstractAtom(node.atom, p) BY <1>5 DEF Computed
  <2>2. CASE node.atom.kind = "Eq" /\ node.atom.left # node.atom.right
    <3> DEFINE pair == {node.atom.left, node.atom.right}
    <3>1. pair \in SUBSET T BY <1>5, <2>2 DEF NodesOver
    <3>2. Cardinality(pair) = 2
      <4>1. pair = {node.atom.left} \cup {node.atom.right} /\ node.atom.right \notin {node.atom.left}
            BY <2>2
      <4>2. IsFiniteSet({node.atom.left}) /\ Cardinality({node.atom.left}) = 1 BY FS_Singleton
      <4>3. Cardinality({node.atom.left} \cup {node.atom.right}) = 1 + 1
            BY <4>1, <4>2, FS_AddElement
      <4> QED BY <4>1, <4>3
    <3> HIDE DEF pair
    <3>3. Feasible({pair}) \in AbstractValue(T)
          BY <3>1, <3>2 DEF AbstractValue, Feasible, IsPartition
    <3> QED BY <2>1, <2>2, <3>3, ConstantFacts DEF AbstractAtom, pair
  <2>3. CASE ~(node.atom.kind = "Eq" /\ node.atom.left # node.atom.right)
        BY <2>1, <2>3, ConstantFacts DEF AbstractAtom
  <2> QED BY <2>2, <2>3
<1>6. CASE node.op = "not"
  <2>1. <<kids[1], other>> \in DependsOn(node, p) BY <1>6, DependencyFacts
  <2> QED BY <1>3, <1>6, <2>1 DEF Computed
<1>7. CASE node.op \in {"and", "or"}
  <2>1. \A i \in DOMAIN list : list[i] \in AbstractValue(T)
    <3>1. \A i \in DOMAIN kids : <<kids[i], p>> \in DependsOn(node, p) BY <1>7, DependencyFacts
    <3> QED BY <1>3, <3>1
  <2>2. Computed(known, node, p) \in {AbstractAnd(list), AbstractOr(list)} BY <1>7 DEF Computed
  <2> HIDE DEF list
  <2> QED BY <1>2, <2>1, <2>2, AndIsValue, OrIsValue
<1>8. CASE node.op = "iff"
  <2> DEFINE pairs == [i \in 1..(n - 1) |-> IffPair(known, kids[1], kids[i + 1], p)]
  <2>1. Computed(known, node, p) = AbstractIff(known, kids, p) BY <1>8 DEF Computed
  <2>2. \A i \in 2..n : {<<kids[1], TRUE>>, <<kids[1], FALSE>>,
                         <<kids[i], p>>, <<kids[i], other>>} \subseteq DependsOn(node, p)
        BY <1>8, DependencyFacts
  <2>3. ASSUME NEW i \in DOMAIN pairs PROVE pairs[i] \in AbstractValue(T)
    <3>1. i + 1 \in 2..n BY <1>1
    <3>2. {<<kids[1], TRUE>>, <<kids[1], FALSE>>, <<kids[i + 1], p>>, <<kids[i + 1], other>>}
              \subseteq DependsOn(node, p)
          BY <2>2, <3>1
    <3>3. /\ known[kids[1], TRUE] \in AbstractValue(T) /\ known[kids[1], FALSE] \in AbstractValue(T)
          /\ known[kids[i + 1], p] \in AbstractValue(T)
          /\ known[kids[i + 1], other] \in AbstractValue(T)
          BY <1>3, <3>2
    <3>4. IffPair(known, kids[1], kids[i + 1], p) \in AbstractValue(T)
          BY <1>2, <3>3, IffPairIsValue
    <3> QED BY <3>4
  <2>4. AbstractIff(known, kids, p) \in {Empty, Infeasible, AbstractAnd(pairs), AbstractOr(pairs)}
        BY DEF AbstractIff
  <2> HIDE DEF pairs
  <2>5. AbstractAnd(pairs) \in AbstractValue(T) /\ AbstractOr(pairs) \in AbstractValue(T)
        BY <1>2, <2>3, AndIsValue, OrIsValue
  <2> QED BY <2>1, <2>4, <2>5, ConstantFacts
<1>9. CASE node.op = "ite"
  <2> DEFINE a == AbstractOr(<<known[kids[1], FALSE], known[kids[2], p]>>)
             b == AbstractOr(<<known[kids[1], TRUE], known[kids[3], p]>>)
  <2>1. {<<kids[1], TRUE>>, <<kids[1], FALSE>>, <<kids[2], p>>, <<kids[3], p>>}
            \subseteq DependsOn(node, p)
        BY <1>9, DependencyFacts
  <2>2. /\ known[kids[1], TRUE] \in AbstractValue(T) /\ known[kids[1], FALSE] \in AbstractValue(T)
        /\ known[kids[2], p] \in AbstractValue(T) /\ known[kids[3], p] \in AbstractValue(T)
        BY <1>3, <2>1
  <2>3. a \in AbstractValue(T) /\ b \in AbstractValue(T) BY <1>2, <2>2, PairIsValue
  <2>4. Computed(known, node, p) = AbstractAnd(<<a, b>>) BY <1>9 DEF Computed, AbstractIte
  <2> HIDE DEF a, b
  <2> QED BY <1>2, <2>3, <2>4, PairIsValue
<1> QED BY <1>4, <1>5, <1>6, <1>7, <1>8, <1>9 DEF NodesOver

-----------------------------------------------------------------------------
(* Needed keeps of the dependencies those that have no value.              *)
NeededAt(f, dependencies, n) ==
    IF n = 0 THEN <<>>
    ELSE IF Known(dependencies[n][1], dependencies[n][2]) THEN f[n - 1]
    ELSE Append(f[n - 1], dependencies[n])

NeededUpTo(dependencies, k) ==
    CHOOSE f : f = [n \in 0..k |-> NeededAt(f, dependencies, n)]

(* The function that collects them, for every list of dependencies.        *)
LEMMA NeededExists ==
    ASSUME NEW deps, NEW k \in Nat
    PROVE  NeededUpTo(deps, k) = [n \in 0..k |-> NeededAt(NeededUpTo(deps, k), deps, n)]
<1> DEFINE P == {m \in Nat : \E f : f = [n \in 0..m |-> NeededAt(f, deps, n)]}
<1>1. 0 \in P
  <2> DEFINE f == [n \in 0..0 |-> <<>>]
  <2>1. f = [n \in 0..0 |-> NeededAt(f, deps, n)] BY DEF NeededAt
  <2> QED BY <2>1
<1>2. ASSUME NEW m \in P PROVE m + 1 \in P
  <2>1. PICK f : f = [n \in 0..m |-> NeededAt(f, deps, n)] OBVIOUS
  <2> DEFINE g == [n \in 0..(m + 1) |-> IF n = m + 1 THEN NeededAt(f, deps, n) ELSE f[n]]
  <2>2. \A n \in 0..(m + 1) : g[n] = NeededAt(g, deps, n)
    <3> SUFFICES ASSUME NEW n \in 0..(m + 1) PROVE g[n] = NeededAt(g, deps, n) OBVIOUS
    <3>1. CASE n = 0 BY <3>1, <2>1 DEF NeededAt
    <3>2. CASE n > 0
      <4>1. n - 1 \in 0..m /\ g[n - 1] = f[n - 1] BY <3>2
      <4>2. g[n] = NeededAt(f, deps, n) BY <2>1
      <4> QED BY <3>2, <4>1, <4>2 DEF NeededAt
    <3> QED BY <3>1, <3>2
  <2>3. g = [n \in 0..(m + 1) |-> NeededAt(g, deps, n)] BY <2>2
  <2> HIDE DEF g
  <2>4. \E h : h = [n \in 0..(m + 1) |-> NeededAt(h, deps, n)] BY <2>3
  <2> QED BY <2>4
<1>3. P = Nat BY <1>1, <1>2, Induction
<1>4. \E f : f = [n \in 0..k |-> NeededAt(f, deps, n)] BY <1>3
<1> QED BY <1>4 DEF NeededUpTo

(* They are dependencies, and each dependency has a value or is needed.    *)
LEMMA NeededFacts ==
    ASSUME NEW S, NEW deps \in Seq(S \X BOOLEAN)
    PROVE  /\ Needed(deps) \in Seq(S \X BOOLEAN)
           /\ \A i \in DOMAIN deps :
                 deps[i] \in DOMAIN memo \/ \E j \in DOMAIN Needed(deps) : Needed(deps)[j] = deps[i]
<1> DEFINE k == Len(deps)
           f == NeededUpTo(deps, k)
           D == S \X BOOLEAN
           Has(n) == /\ f[n] \in Seq(D)
                     /\ \A i \in 1..n : deps[i] \in DOMAIN memo
                                        \/ \E j \in DOMAIN f[n] : f[n][j] = deps[i]
           P == {n \in Nat : n <= k => Has(n)}
<1>1. k \in Nat /\ DOMAIN deps = 1..k /\ \A n \in 1..k : deps[n] \in D OBVIOUS
<1>2. Needed(deps) = f[k] BY DEF Needed, NeededAt, NeededUpTo
<1>3. f = [n \in 0..k |-> NeededAt(f, deps, n)] BY <1>1, NeededExists
<1> HIDE DEF f, k
<1>4. 0 \in P
  <2>1. f[0] = <<>> BY <1>1, <1>3 DEF NeededAt
  <2>2. f[0] \in Seq(D) BY <2>1
  <2>3. Has(0) BY <2>2
  <2> QED BY <2>3
<1>5. ASSUME NEW n \in P PROVE n + 1 \in P
  <2> SUFFICES ASSUME n + 1 <= k PROVE Has(n + 1) OBVIOUS
  <2> DEFINE d == deps[n + 1]
  <2>1. n \in 0..k /\ n + 1 \in 1..k /\ n + 1 \in 0..k /\ (n + 1) - 1 = n /\ n + 1 # 0 BY <1>1
  <2>2. Has(n) BY <2>1
  <2>3. f[n + 1] = NeededAt(f, deps, n + 1) BY <1>3, <2>1
  <2>4. d \in D /\ d = <<d[1], d[2]>> BY <1>1, <2>1
  <2>5. f[n + 1] = IF d \in DOMAIN memo THEN f[n] ELSE Append(f[n], d)
        BY <2>1, <2>3, <2>4 DEF NeededAt, Known
  <2>6. \A i \in 1..(n + 1) : i \in 1..n \/ i = n + 1 BY <2>1
  <2> HIDE DEF d, D
  <2>7. CASE d \in DOMAIN memo
    <3>1. f[n + 1] = f[n] BY <2>5, <2>7
    <3> QED BY <2>2, <2>6, <2>7, <3>1 DEF d
  <2>8. CASE d \notin DOMAIN memo
    <3> DEFINE old == f[n]
               new == f[n + 1]
    <3>1. new = Append(old, d) /\ old \in Seq(D) BY <2>2, <2>5, <2>8
    <3> HIDE DEF old, new
    <3>2. /\ new \in Seq(D) /\ DOMAIN new = 1..(Len(old) + 1) /\ DOMAIN old = 1..Len(old)
          /\ Len(old) \in Nat
          /\ new[Len(old) + 1] = d /\ \A j \in DOMAIN old : new[j] = old[j]
          BY <2>4, <3>1
    <3>3. \A j \in DOMAIN old : j \in DOMAIN new BY <3>2
    <3>4. Len(old) + 1 \in DOMAIN new BY <3>2
    <3>5. \A i \in 1..n : deps[i] \in DOMAIN memo \/ \E j \in DOMAIN old : old[j] = deps[i]
          BY <2>2 DEF old
    <3>6. \A i \in 1..(n + 1) : deps[i] \in DOMAIN memo \/ \E j \in DOMAIN new : new[j] = deps[i]
          BY <2>6, <3>2, <3>3, <3>4, <3>5 DEF d
    <3> QED BY <3>2, <3>6 DEF new
  <2> QED BY <2>7, <2>8
<1>6. P = Nat BY <1>4, <1>5, Induction
<1> QED BY <1>1, <1>2, <1>6

(* The edges of the stars hold exactly if the classes share their values.  *)
LEMMA StarSaysTheClasses ==
    ASSUME NEW T \in SUBSET Nat, NEW classes \in SUBSET SUBSET T, NEW V
    PROVE  Shares(V, classes) <=> \A edge \in Star(classes) : V[edge[1]] = V[edge[2]]
<1> DEFINE Least(class) == CHOOSE t \in class : \A u \in class : t <= u
<1>1. ASSUME NEW class \in classes, class # {} PROVE Least(class) \in class
  <2>1. class \in SUBSET Nat OBVIOUS
  <2>2. PICK t \in class : \A u \in class : ~(u < t) BY <1>1, <2>1, LeastNumber
  <2>3. \A u \in class : t <= u BY <2>1, <2>2
  <2> QED BY <2>3
<1>2. Star(classes) = UNION {{<<Least(class), u>> : u \in class \ {Least(class)}} : class \in classes}
      BY DEF Star
<1> HIDE DEF Least
<1>3. ASSUME Shares(V, classes), NEW edge \in Star(classes) PROVE V[edge[1]] = V[edge[2]]
  <2>1. PICK class \in classes : \E u \in class \ {Least(class)} : edge = <<Least(class), u>>
        BY <1>2
  <2>2. PICK u \in class \ {Least(class)} : edge = <<Least(class), u>> BY <2>1
  <2>3. Least(class) \in class BY <1>1, <2>2
  <2> QED BY <1>3, <2>2, <2>3 DEF Shares
<1>4. ASSUME \A edge \in Star(classes) : V[edge[1]] = V[edge[2]] PROVE Shares(V, classes)
  <2>1. ASSUME NEW class \in classes, NEW u \in class PROVE V[u] = V[Least(class)]
    <3>1. CASE u = Least(class) BY <3>1
    <3>2. CASE u # Least(class)
      <4>1. <<Least(class), u>> \in Star(classes) BY <1>2, <3>2
      <4> DEFINE edge == <<Least(class), u>>
      <4>2. edge[1] = Least(class) /\ edge[2] = u OBVIOUS
      <4> QED BY <1>4, <4>1, <4>2
    <3> QED BY <3>1, <3>2
  <2> QED BY <2>1 DEF Shares
<1> QED BY <1>3, <1>4


-----------------------------------------------------------------------------
(* The frames of nodes of N.                                               *)
Frames(N) == [node : N, polarity : BOOLEAN, expanded : BOOLEAN]

(* What a frame is to give a value to.                                     *)
KeyOf(frame) == <<frame.node, frame.polarity>>

(* Each value of the memo is a partition, and right of a node whose truth  *)
(* is the polarity it is for.                                              *)
MemoIsRight(N, T, V, truth) ==
    /\ DOMAIN memo \subseteq N \X BOOLEAN
    /\ \A key \in DOMAIN memo :
          /\ memo[key] \in AbstractValue(T)
          /\ truth[key[1]] = key[2] => IsRight(V, memo[key])

(* What an expanded frame depends on is known, or is above it.             *)
StackIsOrdered(N) ==
    /\ stack \in Seq(Frames(N))
    /\ \A i \in DOMAIN stack :
          stack[i].expanded =>
              \A d \in DependsOn(stack[i].node, stack[i].polarity) :
                  d \in DOMAIN memo \/ \E j \in 1..(i - 1) : KeyOf(stack[j]) = d

(* The values of the first roots, right of those that are true.            *)
ValuesAreRight(T, V, truth) ==
    /\ values \in Seq(AbstractValue(T)) /\ Len(values) <= Len(roots)
    /\ \A i \in DOMAIN values : truth[roots[i]] = TRUE => IsRight(V, values[i])

(* The inductive invariant of the evaluation.                              *)
EvaluationInv(N, T, V, truth) ==
    /\ roots \in Seq(N)
    /\ MemoIsRight(N, T, V, truth)
    /\ StackIsOrdered(N)
    /\ ValuesAreRight(T, V, truth)

(* Before the first step there is nothing to go wrong.                     *)
LEMMA EvaluationStarts ==
    ASSUME NEW N, NEW T, NEW V, NEW truth, roots \in Seq(N), EvaluationInit
    PROVE  EvaluationInv(N, T, V, truth)
<1>1. DOMAIN memo = {} /\ stack = <<>> /\ values = <<>> BY DEF EvaluationInit
<1>2. Len(roots) \in Nat /\ Len(values) = 0 /\ DOMAIN values = {} /\ DOMAIN stack = {} BY <1>1
<1>3. MemoIsRight(N, T, V, truth) BY <1>1 DEF MemoIsRight
<1>4. StackIsOrdered(N) BY <1>1, <1>2 DEF StackIsOrdered
<1>5. ValuesAreRight(T, V, truth) BY <1>1, <1>2 DEF ValuesAreRight
<1> QED BY <1>3, <1>4, <1>5 DEF EvaluationInv

(* The frame on the top.                                                   *)
LEMMA TopOfStack ==
    ASSUME NEW N, StackIsOrdered(N), stack # <<>>
    PROVE  /\ stack \in Seq(Frames(N)) /\ Len(stack) \in Nat \ {0}
           /\ DOMAIN stack = 1..Len(stack) /\ Head(stack) = stack[1]
           /\ Head(stack) \in Frames(N) /\ 1 \in DOMAIN stack
           /\ Head(stack).node \in N /\ Head(stack).polarity \in BOOLEAN
<1>1. /\ stack \in Seq(Frames(N)) /\ Len(stack) \in Nat \ {0}
      /\ DOMAIN stack = 1..Len(stack) /\ Head(stack) = stack[1]
      /\ Head(stack) \in Frames(N) /\ 1 \in DOMAIN stack
      BY DEF StackIsOrdered
<1> QED BY <1>1 DEF Frames

(* A root gets its value from the memo, or its frame.                      *)
LEMMA EvaluateRootInv ==
    ASSUME NEW N, NEW T, NEW V, NEW truth, EvaluationInv(N, T, V, truth), EvaluateRoot
    PROVE  EvaluationInv(N, T, V, truth)'
<1> DEFINE n == Len(values)
           root == roots[n + 1]
<1> USE DEF EvaluationInv
<1>0. stack = <<>> /\ n < Len(roots) /\ roots' = roots /\ memo' = memo BY DEF EvaluateRoot
<1>1. n \in Nat /\ Len(roots) \in Nat BY DEF ValuesAreRight
<1>2. root \in N BY <1>0, <1>1
<1>3. MemoIsRight(N, T, V, truth)' BY <1>0 DEF MemoIsRight
<1>4. CASE Known(root, TRUE)
  <2>1. values' = Append(values, memo[root, TRUE]) /\ UNCHANGED stack BY <1>4 DEF EvaluateRoot
  <2> DEFINE key == <<root, TRUE>>
  <2>2. key \in DOMAIN memo /\ key[1] = root /\ key[2] = TRUE BY <1>4 DEF Known
  <2>3. memo[key] \in AbstractValue(T) /\ (truth[root] = TRUE => IsRight(V, memo[key]))
        BY <2>2 DEF MemoIsRight
  <2> HIDE DEF key
  <2>4. values' = Append(values, memo[key]) BY <2>1 DEF key
  <2>5. /\ values' \in Seq(AbstractValue(T)) /\ Len(values') = n + 1
        /\ DOMAIN values' = 1..(n + 1) /\ DOMAIN values = 1..n
        /\ values'[n + 1] = memo[key] /\ \A i \in 1..n : values'[i] = values[i]
        BY <2>3, <2>4 DEF ValuesAreRight
  <2>6. \A i \in 1..(n + 1) : i \in 1..n \/ i = n + 1 BY <1>1
  <2>7. ValuesAreRight(T, V, truth)' BY <1>0, <1>1, <2>3, <2>5, <2>6 DEF ValuesAreRight
  <2>8. stack' = stack BY <2>1
  <2>9. StackIsOrdered(N)' BY <1>0, <2>8 DEF StackIsOrdered
  <2> QED BY <1>0, <1>3, <2>7, <2>9
<1>5. CASE ~Known(root, TRUE)
  <2>1. stack' = <<Frame(root, TRUE, FALSE)>> /\ UNCHANGED values BY <1>5 DEF EvaluateRoot
  <2>2. Frame(root, TRUE, FALSE) \in Frames(N)
        BY <1>2 DEF Frame, Frames
  <2>3. ~Frame(root, TRUE, FALSE).expanded BY DEF Frame
  <2>4. DOMAIN stack' = {1} /\ stack'[1] = Frame(root, TRUE, FALSE) BY <2>1
  <2>5. stack' \in Seq(Frames(N))
    <3> DEFINE f == Frame(root, TRUE, FALSE)
    <3>1. stack' = <<f>> /\ f \in Frames(N) BY <2>1, <2>2
    <3> HIDE DEF f
    <3> QED BY <3>1
  <2>6. \A i \in DOMAIN stack' : ~stack'[i].expanded BY <2>3, <2>4
  <2>7. StackIsOrdered(N)' BY <2>5, <2>6 DEF StackIsOrdered
  <2>8. ValuesAreRight(T, V, truth)' BY <1>0, <2>1 DEF ValuesAreRight
  <2> QED BY <1>0, <1>3, <2>7, <2>8
<1> QED BY <1>4, <1>5

(* A frame goes that has its value.                                        *)
LEMMA DroppedFrame ==
    ASSUME NEW N, StackIsOrdered(N), stack # <<>>, stack' = Tail(stack),
           DOMAIN memo \subseteq DOMAIN memo', KeyOf(Head(stack)) \in DOMAIN memo'
    PROVE  StackIsOrdered(N)'
<1> DEFINE F == Frames(N)
           n == Len(stack)
<1>1. stack \in Seq(F) /\ n \in Nat \ {0} /\ DOMAIN stack = 1..n /\ Head(stack) = stack[1]
      BY TopOfStack
<1> HIDE DEF F
<1>2. /\ stack' \in Seq(F) /\ DOMAIN stack' = 1..(n - 1)
      /\ \A i \in 1..(n - 1) : stack'[i] = stack[i + 1]
      BY <1>1
<1>3. ASSUME NEW i \in 1..(n - 1), stack'[i].expanded,
             NEW d \in DependsOn(stack'[i].node, stack'[i].polarity)
      PROVE  d \in DOMAIN memo' \/ \E j \in 1..(i - 1) : KeyOf(stack'[j]) = d
  <2>1. i + 1 \in 1..n /\ (i + 1) - 1 = i BY <1>1
  <2>2. d \in DOMAIN memo \/ \E j \in 1..i : KeyOf(stack[j]) = d
        BY <1>1, <1>2, <1>3, <2>1 DEF StackIsOrdered
  <2>3. ASSUME NEW j \in 1..i, KeyOf(stack[j]) = d, d \notin DOMAIN memo'
        PROVE  \E k \in 1..(i - 1) : KeyOf(stack'[k]) = d
    <3>1. j # 1 BY <1>1, <2>3
    <3>2. j - 1 \in 1..(i - 1) /\ j - 1 \in 1..(n - 1) /\ (j - 1) + 1 = j BY <1>1, <3>1
    <3>3. stack'[j - 1] = stack[j] BY <1>2, <3>2
    <3> QED BY <2>3, <3>2, <3>3
  <2> QED BY <2>2, <2>3
<1> QED BY <1>2, <1>3 DEF StackIsOrdered, F

(* A visited frame goes, or is put below what it still needs.              *)
LEMMA VisitInv ==
    ASSUME NEW N, NEW T, NodesOver(N, T), NEW V, NEW truth,
           EvaluationInv(N, T, V, truth), Visit
    PROVE  EvaluationInv(N, T, V, truth)'
<1> DEFINE F == Frames(N)
           n == Len(stack)
           top == Head(stack)
           needed == Needed(Dependencies(top.node, top.polarity))
           m == Len(needed)
<1>1. /\ stack # <<>> /\ roots' = roots /\ memo' = memo /\ values' = values
      /\ roots \in Seq(N) /\ MemoIsRight(N, T, V, truth)
      /\ StackIsOrdered(N) /\ ValuesAreRight(T, V, truth)
      BY DEF Visit, EvaluationInv
<1>2. /\ roots' \in Seq(N) /\ MemoIsRight(N, T, V, truth)' /\ ValuesAreRight(T, V, truth)'
      BY <1>1 DEF MemoIsRight, ValuesAreRight
<1>3. /\ stack \in Seq(F) /\ n \in Nat \ {0} /\ DOMAIN stack = 1..n /\ top = stack[1] /\ top \in F
      /\ top.node \in N /\ top.polarity \in BOOLEAN
      BY <1>1, TopOfStack
<1>4. CASE Known(top.node, top.polarity) /\ stack' = Tail(stack)
  <2>1. KeyOf(top) \in DOMAIN memo' BY <1>1, <1>4 DEF Known, KeyOf
  <2>2. StackIsOrdered(N)' BY <1>1, <1>4, <2>1, DroppedFrame
  <2> QED BY <1>2, <2>2 DEF EvaluationInv
<1>5. CASE stack' = [i \in DOMAIN needed |-> Frame(needed[i][1], needed[i][2], FALSE)]
                    \o <<[top EXCEPT !.expanded = TRUE]>> \o Tail(stack)
  <2> DEFINE news == [i \in DOMAIN needed |-> Frame(needed[i][1], needed[i][2], FALSE)]
             again == [top EXCEPT !.expanded = TRUE]
             rest == Tail(stack)
             D == DependsOn(top.node, top.polarity)
  <2>1. /\ needed \in Seq(N \X BOOLEAN)
        /\ \A d \in D : d \in DOMAIN memo \/ \E j \in DOMAIN needed : needed[j] = d
    <3> DEFINE deps == Dependencies(top.node, top.polarity)
    <3>1. deps \in Seq(N \X BOOLEAN) BY <1>3, DependencyFacts
    <3>2. D = {deps[i] : i \in DOMAIN deps} BY DEF DependsOn
    <3> HIDE DEF deps, D
    <3>3. /\ Needed(deps) \in Seq(N \X BOOLEAN)
          /\ \A i \in DOMAIN deps :
                deps[i] \in DOMAIN memo \/ \E j \in DOMAIN Needed(deps) : Needed(deps)[j] = deps[i]
          BY <3>1, NeededFacts
    <3> QED BY <3>2, <3>3 DEF deps
  <2> HIDE DEF needed, D
  <2>2. m \in Nat /\ DOMAIN needed = 1..m /\ \A i \in 1..m : needed[i] \in N \X BOOLEAN BY <2>1
  <2>3. \A i \in 1..m : Frame(needed[i][1], needed[i][2], FALSE) \in F BY <2>2 DEF Frame, Frames
  <2>4. news \in Seq(F) /\ Len(news) = m
    <3>1. DOMAIN news = 1..m /\ \A i \in 1..m : news[i] \in F BY <2>2, <2>3
    <3>2. news = [i \in 1..m |-> news[i]] BY <2>2
    <3> HIDE DEF news, m, F
    <3> QED BY <2>2, <3>1, <3>2
  <2>5. again \in F /\ KeyOf(again) = KeyOf(top) /\ again.node = top.node
        /\ again.polarity = top.polarity
        BY <1>3 DEF KeyOf, Frames
  <2>6. rest \in Seq(F) /\ Len(rest) = n - 1 /\ \A i \in 1..(n - 1) : rest[i] = stack[i + 1] BY <1>3
  <2>7. \A i \in 1..m : /\ ~news[i].expanded /\ KeyOf(news[i]) = needed[i]
    <3> SUFFICES ASSUME NEW i \in 1..m PROVE ~news[i].expanded /\ KeyOf(news[i]) = needed[i] OBVIOUS
    <3>1. news[i] = Frame(needed[i][1], needed[i][2], FALSE) BY <2>2
    <3>2. needed[i] = <<needed[i][1], needed[i][2]>> BY <2>2
    <3> HIDE DEF news
    <3> QED BY <3>1, <3>2 DEF Frame, KeyOf
  <2>8. stack' = news \o <<again>> \o rest BY <1>5
  <2> HIDE DEF news, again, rest, top, F, n, m
  <2>9. /\ stack' \in Seq(F) /\ DOMAIN stack' = 1..(m + n)
        /\ \A i \in 1..m : stack'[i] = news[i]
        /\ stack'[m + 1] = again
        /\ \A i \in 1..(n - 1) : stack'[m + 1 + i] = rest[i]
    <3> DEFINE front == news \o <<again>>
    <3>1. <<again>> \in Seq(F) /\ Len(<<again>>) = 1 /\ <<again>>[1] = again BY <2>5
    <3>2. /\ front \in Seq(F) /\ Len(front) = m + 1
          /\ \A i \in 1..m : front[i] = news[i]
          /\ front[m + 1] = again
          BY <2>2, <2>4, <3>1
    <3> HIDE DEF front
    <3>3. stack' = front \o rest BY <2>8 DEF front
    <3>4. stack' \in Seq(F) /\ Len(stack') = (m + 1) + (n - 1)
      <4>1. front \o rest \in Seq(F) /\ Len(front \o rest) = Len(front) + Len(rest)
            BY <2>6, <3>2, ConcatProperties
      <4> QED BY <2>6, <3>2, <3>3, <4>1
    <3>5. \A i \in 1..(m + 1) : stack'[i] = front[i] BY <2>2, <2>6, <3>2, <3>3
    <3>6. \A i \in 1..(n - 1) : stack'[m + 1 + i] = rest[i] BY <1>3, <2>2, <2>6, <3>2, <3>3
    <3>7. Len(stack') = m + n /\ DOMAIN stack' = 1..(m + n) BY <1>3, <2>2, <3>4
    <3> QED BY <2>2, <3>2, <3>4, <3>5, <3>6, <3>7
  <2>10. \A i \in 2..n : m + i \in 1..(m + n) /\ stack'[m + i] = stack[i]
    <3> SUFFICES ASSUME NEW i \in 2..n PROVE m + i \in 1..(m + n) /\ stack'[m + i] = stack[i] OBVIOUS
    <3>1. i - 1 \in 1..(n - 1) /\ m + 1 + (i - 1) = m + i /\ (i - 1) + 1 = i
          /\ m + i \in 1..(m + n)
          BY <1>3, <2>2
    <3> QED BY <2>6, <2>9, <3>1
  <2>11. KeyOf(stack'[m + 1]) = KeyOf(stack[1]) BY <1>3, <2>5, <2>9
  <2>12. ASSUME NEW i \in 1..(m + n), stack'[i].expanded,
                NEW d \in DependsOn(stack'[i].node, stack'[i].polarity)
         PROVE  d \in DOMAIN memo' \/ \E j \in 1..(i - 1) : KeyOf(stack'[j]) = d
    <3>1. ~(i \in 1..m) BY <2>7, <2>9, <2>12
    <3>2. CASE i = m + 1
      <4>1. d \in D BY <2>5, <2>9, <2>12, <3>2 DEF D
      <4>2. d \in DOMAIN memo \/ \E j \in 1..m : needed[j] = d BY <2>1, <2>2, <4>1
      <4>3. \A j \in 1..m : KeyOf(stack'[j]) = needed[j] /\ j \in 1..(i - 1)
            BY <2>2, <2>7, <2>9, <3>2
      <4> QED BY <1>1, <4>2, <4>3
    <3>3. CASE i > m + 1
      <4> DEFINE k == i - m
      <4>1. k \in 2..n /\ m + k = i BY <1>3, <2>2, <3>3
      <4> HIDE DEF k
      <4>2. stack'[i] = stack[k] BY <2>10, <4>1
      <4>3. d \in DOMAIN memo \/ \E j \in 1..(k - 1) : KeyOf(stack[j]) = d
            BY <1>1, <1>3, <2>12, <4>1, <4>2 DEF StackIsOrdered
      <4>4. ASSUME NEW j \in 1..(k - 1), KeyOf(stack[j]) = d
            PROVE  \E h \in 1..(i - 1) : KeyOf(stack'[h]) = d
        <5>1. m + j \in 1..(i - 1) BY <2>2, <4>1
        <5>2. CASE j = 1 BY <2>11, <4>4, <5>1, <5>2
        <5>3. CASE j # 1
          <6>1. j \in 2..n BY <1>3, <4>1, <5>3
          <6> QED BY <2>10, <4>4, <5>1, <6>1
        <5> QED BY <5>2, <5>3
      <4> QED BY <1>1, <4>3, <4>4
    <3> QED BY <1>3, <2>2, <3>1, <3>2, <3>3
  <2>13. StackIsOrdered(N)' BY <2>9, <2>12 DEF StackIsOrdered, F
  <2> QED BY <1>2, <2>13 DEF EvaluationInv
<1> QED BY <1>4, <1>5 DEF Visit

(* A computed value is right, as all that it is computed from is known.    *)
LEMMA ComputeInv ==
    ASSUME NEW N, NEW T, NodesOver(N, T), NEW V, NEW truth, IsValuation(truth, V, N),
           EvaluationInv(N, T, V, truth), Compute
    PROVE  EvaluationInv(N, T, V, truth)'
<1> DEFINE top == Head(stack)
           at == KeyOf(top)
           value == Computed(memo, top.node, top.polarity)
<1>1. /\ stack # <<>> /\ roots' = roots /\ values' = values /\ stack' = Tail(stack)
      /\ top.expanded
      /\ memo' = [key \in DOMAIN memo \cup {at} |-> IF key = at THEN value ELSE memo[key]]
      /\ roots \in Seq(N) /\ MemoIsRight(N, T, V, truth)
      /\ StackIsOrdered(N) /\ ValuesAreRight(T, V, truth)
      BY DEF Compute, EvaluationInv, KeyOf
<1>2. roots' \in Seq(N) /\ ValuesAreRight(T, V, truth)' BY <1>1 DEF ValuesAreRight
<1>3. top = stack[1] /\ 1 \in DOMAIN stack /\ top.node \in N /\ top.polarity \in BOOLEAN
      BY <1>1, TopOfStack
<1>4. \A d \in DependsOn(top.node, top.polarity) : d \in DOMAIN memo
      BY <1>1, <1>3 DEF StackIsOrdered
<1>5. value \in AbstractValue(T) BY <1>1, <1>3, <1>4, ComputedIsValue DEF MemoIsRight
<1>6. truth[top.node] = top.polarity => IsRight(V, value)
      BY <1>1, <1>3, <1>4, ComputedFacts DEF MemoIsRight
<1>7. at[1] = top.node /\ at[2] = top.polarity /\ at \in N \X BOOLEAN BY <1>3 DEF KeyOf
<1> HIDE DEF at, value, top
<1>8. /\ DOMAIN memo' = DOMAIN memo \cup {at} /\ memo'[at] = value
      /\ \A key \in DOMAIN memo : key # at => memo'[key] = memo[key]
      BY <1>1
<1>9. MemoIsRight(N, T, V, truth)' BY <1>1, <1>5, <1>6, <1>7, <1>8 DEF MemoIsRight
<1>10. StackIsOrdered(N)' BY <1>1, <1>8, DroppedFrame DEF at, top
<1> QED BY <1>2, <1>9, <1>10 DEF EvaluationInv

(* Every step of the evaluation keeps its invariant.                       *)
LEMMA EvaluationKeeps ==
    ASSUME NEW N, NEW T, NodesOver(N, T), NEW V, NEW truth, IsValuation(truth, V, N),
           EvaluationInv(N, T, V, truth), [EvaluationNext]_analysis
    PROVE  EvaluationInv(N, T, V, truth)'
<1>1. CASE EvaluateRoot BY <1>1, EvaluateRootInv
<1>2. CASE Visit BY <1>2, VisitInv
<1>3. CASE Compute BY <1>3, ComputeInv
<1>4. CASE UNCHANGED analysis
      BY <1>4 DEF analysis, EvaluationInv, MemoIsRight, StackIsOrdered, ValuesAreRight
<1> QED BY <1>1, <1>2, <1>3, <1>4 DEF EvaluationNext

(* What the evaluation promises of terms with the values V and nodes with  *)
(* the values truth.                                                       *)
DependenciesAreKnown ==
    stack # <<>> /\ Head(stack).expanded =>
        DependsOn(Head(stack).node, Head(stack).polarity) \subseteq DOMAIN memo

ConclusionIsRight(V, truth) ==
    (\A i \in DOMAIN roots : truth[roots[i]]) /\ Len(values) = Len(roots) =>
        LET value == AbstractAnd(values)
        IN  /\ value.feasible
            /\ \A edge \in Star(value.classes) : V[edge[1]] = V[edge[2]]

EdgesSayTheClasses ==
    LET value == AbstractAnd(values)
    IN  \A W : Shares(W, value.classes) <=> \A edge \in Star(value.classes) : W[edge[1]] = W[edge[2]]

(* What follows from the invariant.                                        *)
LEMMA EvaluationInvFacts ==
    ASSUME NEW N, NEW T, NodesOver(N, T), NEW V, NEW truth, IsValuation(truth, V, N),
           EvaluationInv(N, T, V, truth)
    PROVE  /\ MemoIsRight(N, T, V, truth)
           /\ DependenciesAreKnown
           /\ ConclusionIsRight(V, truth)
           /\ EdgesSayTheClasses
<1> DEFINE value == AbstractAnd(values)
<1>1. DependenciesAreKnown
  <2> SUFFICES ASSUME stack # <<>>, Head(stack).expanded,
                      NEW d \in DependsOn(Head(stack).node, Head(stack).polarity)
               PROVE  d \in DOMAIN memo
      BY DEF DependenciesAreKnown
  <2>1. StackIsOrdered(N) BY DEF EvaluationInv
  <2>2. Head(stack) = stack[1] /\ 1 \in DOMAIN stack BY <2>1, TopOfStack
  <2> QED BY <2>1, <2>2 DEF StackIsOrdered
<1>2. value \in AbstractValue(T)
  <2>1. \A i \in DOMAIN values : values[i] \in AbstractValue(T) BY DEF EvaluationInv, ValuesAreRight
  <2> QED BY <2>1, AndIsValue DEF NodesOver
<1>3. T \in SUBSET Nat /\ value.classes \in SUBSET SUBSET T BY <1>2 DEF NodesOver, AbstractValue
<1> HIDE DEF value
<1>4. \A W : Shares(W, value.classes) <=> \A edge \in Star(value.classes) : W[edge[1]] = W[edge[2]]
      BY <1>3, StarSaysTheClasses
<1>5. EdgesSayTheClasses BY <1>4 DEF EdgesSayTheClasses, value
<1>6. ASSUME \A i \in DOMAIN roots : truth[roots[i]], Len(values) = Len(roots)
      PROVE  IsRight(V, value)
  <2>1. /\ roots \in Seq(N) /\ values \in Seq(AbstractValue(T))
        /\ \A i \in DOMAIN values : truth[roots[i]] = TRUE => IsRight(V, values[i])
        BY DEF EvaluationInv, ValuesAreRight
  <2>2. DOMAIN values = DOMAIN roots BY <1>6, <2>1
  <2>3. \A i \in DOMAIN values : truth[roots[i]] \in BOOLEAN BY <2>1, <2>2 DEF IsValuation
  <2>4. \A i \in DOMAIN values : truth[roots[i]] = TRUE BY <1>6, <2>2, <2>3
  <2>5. \A i \in DOMAIN values : IsRight(V, values[i]) BY <2>1, <2>4
  <2> QED BY <2>5, AndFacts DEF value
<1>7. ConclusionIsRight(V, truth) BY <1>4, <1>6 DEF ConclusionIsRight, IsRight, value
<1> QED BY <1>1, <1>5, <1>7 DEF EvaluationInv

(* The evaluation is sound, of all nodes and terms and of every structure: *)
(* the value in the memo of a node and a polarity is a partition of the    *)
(* terms, and holds in the structure if the node has that truth value in   *)
(* it.  No value is computed from one that is missing.  If all roots are   *)
(* true, they are not found infeasible and the edges of the stars hold;    *)
(* the edges say neither more nor less than the classes.                   *)
THEOREM EvaluationIsSound ==
    ASSUME NEW CONSTANT N, NEW CONSTANT T, NodesOver(N, T),
           NEW CONSTANT V, NEW CONSTANT truth, IsValuation(truth, V, N)
    PROVE  roots \in Seq(N) /\ EvaluationSpec =>
               [](/\ MemoIsRight(N, T, V, truth)
                  /\ DependenciesAreKnown
                  /\ ConclusionIsRight(V, truth)
                  /\ EdgesSayTheClasses)
<1>1. roots \in Seq(N) /\ EvaluationInit => EvaluationInv(N, T, V, truth) BY EvaluationStarts
<1>2. EvaluationInv(N, T, V, truth) /\ [EvaluationNext]_analysis => EvaluationInv(N, T, V, truth)'
      BY EvaluationKeeps
<1>3. EvaluationInv(N, T, V, truth) =>
          /\ MemoIsRight(N, T, V, truth) /\ DependenciesAreKnown
          /\ ConclusionIsRight(V, truth) /\ EdgesSayTheClasses
      BY EvaluationInvFacts
<1> QED BY <1>1, <1>2, <1>3, PTL DEF EvaluationSpec
=============================================================================
