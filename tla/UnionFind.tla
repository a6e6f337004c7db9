----------------------------- MODULE UnionFind ------------------------------
(***************************************************************************)
(* UnionFind: parent and rank arrays, find with path compression, union by *)
(* rank.  A find rewrites the parents of the terms on its path although    *)
(* its callers see a lookup; a union compresses two paths before it links. *)
(***************************************************************************)
EXTENDS Integers, FiniteSets

CONSTANT Term

MaxRank == 255     \* u8::MAX

VARIABLES parent, rank

vars == <<parent, rank>>

Init ==
    /\ parent = [t \in Term |-> t]
    /\ rank = [t \in Term |-> 0]

(* root_const: up the parents p to the term that is its own.               *)
Roots(p) ==
    LET top[y \in Term] == IF p[y] = y THEN y ELSE top[p[y]] IN top

RootConst(p, x) == Roots(p)[x]

Paths(p) ==
    LET up[y \in Term] == IF p[y] = y THEN {y} ELSE {y} \cup up[p[y]] IN up

Path(p, x) == Paths(p)[x]

(* find: every term on the path gets the root as its parent.               *)
Compress(p, x) ==
    [y \in Term |-> IF y \in Path(p, x) THEN RootConst(p, x) ELSE p[y]]

Find(x) ==
    /\ parent' = Compress(parent, x)
    /\ UNCHANGED rank

SaturatingSucc(n) == IF n = MaxRank THEN n ELSE n + 1

(* Definitions marked Faulty are not part of the specification: each is a  *)
(* slip that the property named with it in PROJECT.json must notice.       *)

(* Faulty: the winner's rank grows on every union.                         *)
UnionAlwaysGrows(a, b) ==
    LET p == Compress(Compress(parent, a), b)
        ra == RootConst(parent, a)
        rb == RootConst(parent, b)
        winner == IF rank[ra] < rank[rb] THEN rb ELSE ra
        loser == IF winner = ra THEN rb ELSE ra
    IN  IF ra = rb
        THEN parent' = p /\ UNCHANGED rank
        ELSE /\ parent' = [p EXCEPT ![loser] = winner]
             /\ rank' = [rank EXCEPT ![winner] = SaturatingSucc(rank[winner])]

(* Faulty: the terms are linked, not their roots.                          *)
UnionOfTerms(a, b) ==
    IF RootConst(parent, a) = RootConst(parent, b)
    THEN UNCHANGED <<parent, rank>>
    ELSE parent' = [parent EXCEPT ![b] = a] /\ UNCHANGED rank

(* union: the root of higher rank becomes the parent of the other; of two  *)
(* equal ranks the first argument's root wins and its rank grows.          *)
Union(a, b) ==
    LET p == Compress(Compress(parent, a), b)
        ra == RootConst(parent, a)
        rb == RootConst(parent, b)
        winner == IF rank[ra] < rank[rb] THEN rb ELSE ra
        loser == IF winner = ra THEN rb ELSE ra
    IN  IF ra = rb
        THEN parent' = p /\ UNCHANGED rank
        ELSE /\ parent' = [p EXCEPT ![loser] = winner]
             /\ rank' = IF rank[winner] = rank[loser]
                        THEN [rank EXCEPT ![winner] = SaturatingSucc(rank[winner])]
                        ELSE rank

Next == \/ \E x \in Term : Find(x)
        \/ \E a, b \in Term : Union(a, b)

Spec == Init /\ [][Next]_vars

-----------------------------------------------------------------------------
TypeOK ==
    /\ parent \in [Term -> Term]
    /\ rank \in [Term -> 0..MaxRank]

Root == [t \in Term |-> RootConst(parent, t)]

PowerOfTwo[n \in 0..(MaxRank + 1)] == IF n = 0 THEN 1 ELSE 2 * PowerOfTwo[n - 1]

(* Ranks grow strictly on the way up, compressed or not: the parents have  *)
(* no cycle, and the recursion of find is no deeper than the root's rank.  *)
(* A root of rank k has at least 2^k terms in its class, so the saturating *)
(* addition on the u8 never saturates.                                     *)
RanksGrowUpward ==
    \A t \in Term : parent[t] # t => rank[t] < rank[parent[t]]

ClassesOutgrowRanks ==
    \A r \in Term : parent[r] = r =>
        Cardinality({t \in Term : Root[t] = r}) >= PowerOfTwo[rank[r]]

RankDiscipline == TypeOK /\ RanksGrowUpward /\ ClassesOutgrowRanks

(* Seen through root_const a find changes nothing and a union joins two    *)
(* classes under one of their roots: the arrays implement the partition.   *)
P == INSTANCE Partition WITH root <- Root

ImplementsPartition == P!PartitionSpec
=============================================================================
