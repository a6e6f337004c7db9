----------------------------- MODULE SparseFill -----------------------------
(***************************************************************************)
(* add_sparse_transitivity_fill: the graph of the equality atoms is made   *)
(* chordal, so that the clauses of its triangles give all of transitivity. *)
(* The vertices are eliminated in the order of their degrees; the          *)
(* neighbours of each are joined.                                          *)
(*                                                                         *)
(* The binary heap has no way to change an entry, so each new degree is    *)
(* pushed beside the old ones, and an entry is looked at only if it still  *)
(* agrees with the degree.  The heap is a set: of two equal entries the    *)
(* second always finds the vertex as the first left it.                    *)
(***************************************************************************)
EXTENDS Integers, FiniteSets

CONSTANT MaxFillEdges     \* EUF_VIPER_CHORDAL_MAX_FILL

ASSUME MaxFillEdgesAssumption == MaxFillEdges \in Nat

VARIABLES
    adjacency,    \* the neighbours of each vertex, with the fill so far
    active,       \* the vertices not eliminated
    degree,
    queue,        \* the heap, entries <<degree, vertex>>
    fill,         \* fill_edges, as two-element sets
    filling       \* "no", "yes", "done", or "refused" at the edge limit

fillVars == <<adjacency, active, degree, queue, fill, filling>>

NeighboursIn(edges, v) == {w \in UNION edges : w # v /\ {v, w} \in edges}

(* No graph is loaded.                                                     *)
NoFill(vertices) ==
    /\ adjacency = [v \in vertices |-> {}]
    /\ active = {}
    /\ degree = [v \in vertices |-> 0]
    /\ queue = {}
    /\ fill = {}
    /\ filling = "no"

(* The graph of some edges; a vertex without any takes no part.            *)
Load(vertices, edges) ==
    /\ adjacency' = [v \in vertices |-> NeighboursIn(edges, v)]
    /\ active' = UNION edges
    /\ degree' = [v \in vertices |-> Cardinality(NeighboursIn(edges, v))]
    /\ queue' = {<<Cardinality(NeighboursIn(edges, v)), v>> : v \in UNION edges}
    /\ fill' = {}
    /\ filling' = "yes"

Before(e, f) == e[1] < f[1] \/ (e[1] = f[1] /\ e[2] <= f[2])

(* BinaryHeap::pop of a Reverse: the least entry.                          *)
IsNext(entry) == entry \in queue /\ \A other \in queue : Before(entry, other)

IsStale(entry) == entry[2] \notin active \/ degree[entry[2]] # entry[1]

SkipStale(entry) ==
    /\ filling = "yes"
    /\ IsNext(entry) /\ IsStale(entry)
    /\ queue' = queue \ {entry}
    /\ UNCHANGED <<adjacency, active, degree, fill, filling>>

ActiveNeighbours(v) == adjacency[v] \cap active

(* The pairs of neighbours of v that are not joined yet.                   *)
Missing(v) ==
    UNION {{{s, t} : t \in ActiveNeighbours(v) \ (adjacency[s] \cup {s})} :
               s \in ActiveNeighbours(v)}

(* Faulty: the degrees of the neighbours go down, but their entries stay.  *)
EliminateQuietly(entry) ==
    LET v == entry[2]
        missing == Missing(v)
        near == ActiveNeighbours(v)
        Gained(w) == Cardinality({e \in missing : w \in e})
    IN  /\ filling = "yes"
        /\ IsNext(entry) /\ ~IsStale(entry)
        /\ Cardinality(fill) + Cardinality(missing) <= MaxFillEdges
        /\ fill' = fill \cup missing
        /\ adjacency' = [w \in DOMAIN adjacency |->
                            adjacency[w] \cup {u \in near : {u, w} \in missing}]
        /\ degree' = [w \in DOMAIN degree |->
                         IF w \in near THEN degree[w] + Gained(w) - 1 ELSE degree[w]]
        /\ queue' = (queue \ {entry})
                      \cup (UNION {{<<d, w>> : d \in (degree[w] + 1)..(degree[w] + Gained(w))} :
                                       w \in near})
        /\ active' = active \ {v}
        /\ UNCHANGED filling

(* The vertex of a current entry goes; its neighbours are joined, each new *)
(* edge raising the degrees of its ends, and lose a neighbour each.        *)
Eliminate(entry) ==
    LET v == entry[2]
        missing == Missing(v)
        near == ActiveNeighbours(v)
        Gained(w) == Cardinality({e \in missing : w \in e})
    IN  /\ filling = "yes"
        /\ IsNext(entry) /\ ~IsStale(entry)
        /\ Cardinality(fill) + Cardinality(missing) <= MaxFillEdges
        /\ fill' = fill \cup missing
        /\ adjacency' = [w \in DOMAIN adjacency |->
                            adjacency[w] \cup {u \in near : {u, w} \in missing}]
        /\ degree' = [w \in DOMAIN degree |->
                         IF w \in near THEN degree[w] + Gained(w) - 1 ELSE degree[w]]
        /\ queue' = (queue \ {entry})
                      \cup (UNION {{<<d, w>> : d \in (degree[w] + 1)..(degree[w] + Gained(w))} :
                                       w \in near})
                      \cup {<<degree[w] + Gained(w) - 1, w>> : w \in near}
        /\ active' = active \ {v}
        /\ UNCHANGED filling

(* One edge too many: the function returns None.                           *)
Refuse(entry) ==
    /\ filling = "yes"
    /\ IsNext(entry) /\ ~IsStale(entry)
    /\ Cardinality(fill) + Cardinality(Missing(entry[2])) > MaxFillEdges
    /\ filling' = "refused"
    /\ UNCHANGED <<adjacency, active, degree, queue, fill>>

FillStep ==
    \E entry \in queue : SkipStale(entry) \/ Eliminate(entry) \/ Refuse(entry)

(* The heap is empty: the fill is returned.                                *)
Finish ==
    /\ filling = "yes" /\ queue = {}
    /\ filling' = "done"
    /\ UNCHANGED <<adjacency, active, degree, queue, fill>>

(* The fill on its own: one graph, without loops.                          *)
Graphs(vertices) == SUBSET {edge \in SUBSET vertices : Cardinality(edge) = 2}

FillNext(vertices) ==
    \/ filling = "no" /\ \E edges \in Graphs(vertices) : Load(vertices, edges)
    \/ FillStep
    \/ Finish

FillSpec(vertices) == NoFill(vertices) /\ [][FillNext(vertices)]_fillVars

-----------------------------------------------------------------------------
(* The degrees are those of the graph of the active vertices, and each of  *)
(* them has a current entry in the queue however many old ones it has      *)
(* beside it: the queue runs empty only when no vertex is left.            *)
QueueIsCurrent ==
    \A v \in active :
        /\ degree[v] = Cardinality(ActiveNeighbours(v))
        /\ filling = "yes" => <<degree[v], v>> \in queue

(* A vertex leaves a clique: any two neighbours of an eliminated vertex    *)
(* that are both active are joined.                                        *)
EliminatedIsSimplicial ==
    \A v \in DOMAIN adjacency \ active :
        \A s, t \in ActiveNeighbours(v) : s = t \/ t \in adjacency[s]

(* The elimination reaches every vertex in the order of the degrees as     *)
(* they are then, and leaves a clique each time.                           *)
FillIsOrderly == QueueIsCurrent /\ EliminatedIsSimplicial

(* A choice of the edges that are true satisfies the clauses of the        *)
(* triangles when no triangle has two true edges and a false one.          *)
Triangular(true) ==
    \A s \in DOMAIN adjacency : \A t \in adjacency[s] : \A u \in adjacency[s] \cap adjacency[t] :
        {s, t} \in true /\ {t, u} \in true => {s, u} \in true

(* Over the finished fill the triangles are all of transitivity: whatever  *)
(* satisfies them is the equality of some classes.                         *)
TrianglesDecide ==
    filling = "done" =>
        \A true \in SUBSET {edge \in SUBSET DOMAIN adjacency : Cardinality(edge) = 2} :
            Triangular(true) =>
                \E class \in [DOMAIN adjacency -> DOMAIN adjacency] :
                    \A s \in DOMAIN adjacency : \A t \in adjacency[s] :
                        {s, t} \in true <=> class[s] = class[t]
=============================================================================
